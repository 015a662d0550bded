-------------------------- MODULE MCModbusHandler --------------------------
(* Small gateways for TLC.                                                 *)
EXTENDS ModbusHandler, TLC

One    == {1}
Two    == {1, 2}
Three  == {1, 2, 3}
Third  == {3}

(* Port 1 is serial, the others TCP; what the channels are polled with.    *)
SerialThenTcp  == [n \in NodeId |-> IF n = 1 THEN "1" ELSE "2"]
Serial == [n \in NodeId |-> "1"]
NoParity == [n \in NodeId |-> "none"]
SecondEven == [n \in NodeId |-> IF n = 2 THEN "even" ELSE "none"]
HoldingRegisters == [n \in NodeId |-> 3]
ReadThenWrite == [n \in NodeId |-> IF n = 1 THEN 3 ELSE 5]

(* The safety runs: contexts are interchangeable.                          *)
Contexts == Permutations(Ctx)

(* Bound of the run in which scans that got wrong answers, or none,        *)
(* rebuild the channels again and again.                                   *)
TwoChannels == Len(m_mb_vec) <= 2

(* No step of that run reads the parity of a backend, the age of a reading *)
(* or the device id it goes under: one of each class of states that differ *)
(* only in these is enough.                                                *)
UnreadFixed ==
  /\ \A k \in 1..Len(m_backendvec) : m_backendvec[k].parity = "N"
  /\ \A r \in m_data_map : r.fresh
  /\ pc["process"] = "send" => prc.device = 1

(* The liveness run, which symmetry does not allow: malloc hands out the   *)
(* lowest free address.  Which address it is makes no difference to a      *)
(* behaviour, so this keeps one of each class that a renaming relates.     *)
ThreeContexts == 1..3
LowestFirst ==
  con'.ctx \in Ctx /\ con.ctx = NULL =>
    \A x \in Ctx : x < con'.ctx => link[x] # Free /\ x \in Referenced

(* It has two gateways.  One of a single node, from power-on.  One of two   *)
(* nodes that has started: its channels are built and have their function  *)
(* codes, and nothing is connected yet; its init thread only finds the     *)
(* checksum unchanged from then on, and rests.                             *)
PowerOn == node = {1} /\ Init
Started ==
  /\ node = {1, 2} /\ edits = 0
  /\ m_nodeid_portaddr = node /\ m_checknum = 3 /\ built = node
  /\ m_backendvec = <<[type |-> "Rtu", parity |-> "N", dev |-> 1],
                      [type |-> "Tcp", parity |-> "N", dev |-> 2]>>
  /\ m_mb_vec = <<NULL, NULL>> /\ m_bConnected = <<FALSE, FALSE>>
  /\ m_fTypevec = <<FuncCode[1], FuncCode[2]>>
  /\ m_datavec = 1 /\ m_data_map = {}
  /\ link = [c \in Ctx |-> Free]
  /\ pc = StartPc /\ ini = StartIni /\ con = StartCon
  /\ \E r \in {-1, 1, 2} : prc = StartPrc(r)
  /\ crashed = FALSE
InitOfOne == (InitThread \/ Die("init")) /\ node = {1}
FairGateways ==
  /\ PowerOn \/ Started
  /\ [][(InitOfOne \/ ConnectThread \/ ProcessThread
          \/ Die("connect") \/ Die("process") \/ SubscriberDies) /\ LowestFirst]_vars
  /\ WF_vars(InitOfOne) /\ ConnectRuns /\ ProcessRuns /\ DevicesAnswer
=============================================================================
