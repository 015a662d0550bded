--------------------------- MODULE ModbusHandler ---------------------------
(***************************************************************************)
(* The three threads of modbus_handler.cpp and the members they share.     *)
(*                                                                         *)
(*   "init"     modbus_handler_init: scans the node table and, when the    *)
(*              checksum of the ids differs from m_checknum, appends one   *)
(*              channel per known node to the vectors.                     *)
(*   "connect"  modbus_handler_connect: opens every channel that is not    *)
(*              connected, then fills the function codes and the buffers.  *)
(*   "process"  modbus_data_process: polls the connected channels and      *)
(*              publishes what it read.                                    *)
(*                                                                         *)
(* There is no lock in the code.  A label stands for the code between two  *)
(* accesses to shared members, so the threads interleave as they may.  An  *)
(* access with undefined behaviour (past the end of a vector, through the  *)
(* end of the map, during a push_back of another thread) may kill the      *)
(* process (Die) and, where a build can survive it, goes on with whatever  *)
(* it happened to read.                                                    *)
(*                                                                         *)
(* A port carries one node, and both bear the node's id.  Vectors are      *)
(* indexed from 1; an iterator of the map is the key it stands on, or END. *)
(***************************************************************************)
EXTENDS Integers, FiniteSets, Sequences

CONSTANTS
  NodeId,        \* ids the node table may hold
  InitNode,      \* the rows of the node table at start
  MaxEdits,      \* bound: rows added to or deleted from the node table
  Ctx,           \* addresses malloc can give to a modbus_t (a finite pool)
  NULL,          \* the null modbus_t*
  ComType,       \* [NodeId -> column comtype of the node's port]
  Parity,        \* [NodeId -> column parity of the node's port]
  FuncCode,      \* [NodeId -> column param1 of the node's port, as a number]
  TextAddr,      \* the nodes whose param1 is text that stoi() may reject
  NoOffset,      \* TRUE: the property that is polled has a name and no param1
  SharedHelper,  \* TRUE: the threads' queries on m_dbhelper may get mixed up
  BusyDb,        \* TRUE: a query may fail (the web console holds the lock)
  ClientMemory   \* what m_client of a platform client, never set, holds

ComTypes == {"1", "2", "other"}

ASSUME NodeIdAssumption == NodeId \subseteq Nat \ {0} /\ IsFiniteSet(NodeId)
ASSUME ConfigAssumption ==
  /\ InitNode \subseteq NodeId
  /\ MaxEdits \in Nat
  /\ NULL \notin Ctx
  /\ ComType \in [NodeId -> ComTypes]
  /\ Parity \in [NodeId -> {"none", "even", "odd"}]
  /\ FuncCode \in [NodeId -> Int]
  /\ TextAddr \subseteq NodeId
  /\ NoOffset \in BOOLEAN
  /\ SharedHelper \in BOOLEAN /\ BusyDb \in BOOLEAN
  /\ ClientMemory \in {"zero", "junk"}

VARIABLES
  node,               \* rows of the node table (edited by the web console)
  edits,              \* edits made so far
  m_nodeid_portaddr,  \* keys of the map
  m_checknum,
  built,              \* ghost: the ids m_checknum was computed from
  m_backendvec,       \* sequence of [type, parity, dev]: dev is the port it names
  m_mb_vec,           \* sequence of contexts, or NULL
  m_bConnected,       \* sequence of BOOLEAN
  m_fTypevec,         \* sequence of function codes
  m_datavec,          \* number of slots of m_datavec (and of m_wdatetypevec)
  m_data_map,         \* the reading to publish: {} or {[dev, fresh]}
  link,               \* heap: [Ctx -> the port a context talks to, or Free]
  pc,                 \* label of each thread
  ini, con, prc,      \* locals of the three threads
  crashed             \* the process died

shared == <<m_nodeid_portaddr, m_checknum, built, m_backendvec, m_mb_vec,
            m_bConnected, m_fTypevec, m_datavec, m_data_map, link>>
vars == <<node, edits, shared, pc, ini, con, prc, crashed>>

Thread == {"init", "connect", "process"}
InitLabel    == {"type", "scan", "row", "push", "flag", "backend", "dev"}
ConnectLabel == {"size", "try", "connect", "up", "store", "login", "spin",
                 "size2", "func", "buffer"}
ProcessLabel == {"poll", "ctx", "test", "switch", "ret", "dev", "send"}

-----------------------------------------------------------------------------
(* Data.                                                                   *)

END      == 0      \* past-the-end iterator (a node id is never 0)
NoNode   == 0      \* no row
NoDev    == 0      \* a backend that names no device, a device id never read
Free     == -1     \* an address that holds no modbus_t
FuncNone == -1

Codes     == {FuncCode[n] : n \in NodeId} \cup {FuncNone}
Iterator  == NodeId \cup {END}
Pointer   == Ctx \cup {NULL}
Position  == Nat \ {0}
AnyDev    == NodeId \cup {NoDev}
Backend   == [type : {"Rtu", "Tcp"}, parity : {"N", "E", "O"},
              dev : AnyDev]
Reading   == [dev : NodeId \cup {NoDev, Free}, fresh : BOOLEAN]

(* The codes whose case in modbus_data_process issues a request; code 3 is *)
(* ReadHoldingRegisters, the only one that fills m_data_map.               *)
Requesting == {1, 3, 4, 5, 6, 15, 16}

(* map::begin.                                                             *)
Smallest(S) == {n \in S : \A m \in S : n <= m}
Begin   == IF m_nodeid_portaddr = {} THEN {END} ELSE Smallest(m_nodeid_portaddr)

(* The row that the init thread reads next enters a node into the map.     *)
Inserting == /\ pc["init"] = "row"
             /\ Smallest(ini.todo) \cap (node \ m_nodeid_portaddr) # {}

(* operator++ of the map's iterator.  Past end(), or while the tree is     *)
(* being rebalanced, its walk lands on any element, or on end().           *)
After(n) == {m \in m_nodeid_portaddr : m > n}
Next_(n) == CASE n = END \/ Inserting -> m_nodeid_portaddr \cup {END}
              [] After(n) = {} -> {END}
              [] OTHER         -> Smallest(After(n))

(* The device a port names: its name, of a serial one, or its ip address.  *)
DevName(n) == IF ComType[n] = "1" THEN n ELSE NoDev
IpAddr(n)  == IF ComType[n] = "2" THEN n ELSE NoDev

(* createRtuBackend leaves devName empty, createTcpBackend copies the ip;  *)
(* a comtype that is neither "1" nor "2" makes no backend.                 *)
CreateBackend(comtype, letter, ip) ==
  CASE comtype = "1" -> <<[type |-> "Rtu", parity |-> letter, dev |-> NoDev]>>
    [] comtype = "2" -> <<[type |-> "Tcp", parity |-> "N", dev |-> ip]>>
    [] OTHER         -> <<>>

(* The parity is looked up in the port whose id is the number that the     *)
(* last query returned, which is the comtype: for a serial port, port 1.   *)
ParityFound == IF 1 \in node THEN Parity[1] ELSE "none"
Letter(parity) == CASE parity = "odd"  -> "E"
                    [] parity = "even" -> "O"
                    [] OTHER           -> "N"

At(t, l) == pc[t] = l /\ ~crashed
Goto(t, l) == pc' = [pc EXCEPT ![t] = l]

-----------------------------------------------------------------------------
(* m_dbhelper holds ONE result vector for all threads.  While another      *)
(* thread is in a query, a query's answer may be the other's, or empty.    *)
(* A query on a database that is locked leaves it empty, and says nothing  *)
(* (sqlite_helper.cpp:75): none is what the caller makes of that.          *)

Querying(t)  == pc[t] \in {"row", "flag", "backend", "func", "switch", "dev"}
Disturbed(t) == SharedHelper /\ \E u \in Thread \ {t} : Querying(u)
Answer(t, right, any, none) ==
  IF Disturbed(t) THEN any ELSE {right} \cup (IF BusyDb THEN {none} ELSE {})
MayLack(t)  == Disturbed(t) \/ BusyDb
NoRow(t, n) == n \notin node \/ MayLack(t)    \* getsqlresult()[0] of no row

(* The nodes whose row a lookup by it->first may find.  Where it is end()  *)
(* the key is whatever its storage holds, which may be a node's id.        *)
Found(t, it) == IF Disturbed(t) THEN NodeId
                ELSE IF it = END THEN node ELSE {it} \cap node

-----------------------------------------------------------------------------
(* Which members a step reads or writes, and which one it may reallocate.  *)

Uses(t) ==
  CASE pc[t] = "size"  -> {"map", "backend"}
    [] pc[t] = "try"   -> {"map", "backend", "conn"}
    [] pc[t] \in {"connect", "login", "buffer", "dev", "send"} -> {"map"}
    [] pc[t] = "up"    -> {"conn"}
    [] pc[t] = "store" -> {"mb"}
    [] pc[t] = "size2" -> {"map", "mb"}
    [] pc[t] = "func"  -> {"map", "mb", "ftype"}
    [] pc[t] = "poll"  -> {"map", "mb"}
    [] pc[t] = "ctx"   -> {"mb"}
    [] pc[t] = "test"  -> {"map", "conn"}
    [] pc[t] = "switch" -> {"map", "ftype", "data"}
    [] pc[t] = "ret"   -> {"conn", "data"}
    [] OTHER           -> {}

Appends(t) ==
  CASE t = "init" /\ Inserting -> {"map"}
    [] pc[t] = "push" /\ ini.it # END -> {"mb"}
    [] pc[t] = "flag"    -> {"conn"}
    [] pc[t] = "backend" -> {"backend"}
    [] pc[t] = "func" /\ con.i <= Len(m_mb_vec)
                      /\ con.i > Len(m_fTypevec) -> {"ftype"}
    [] pc[t] = "buffer" /\ m_datavec = 0 -> {"data"}
    [] OTHER             -> {}

Racing(t) == \E u \in Thread \ {t} : Uses(t) \cap Appends(u) # {}

(* An access the C++ code makes outside what it may touch: row [0] of an  *)
(* empty answer, an element past the end of a vector, the key of end().    *)
Outside(t) ==
  \/ pc[t] = "type" /\ MayLack(t)
  \/ pc[t] \in {"flag", "backend"} /\ NoRow(t, ini.it)
  \/ /\ pc[t] = "dev" /\ t = "init"
     /\ ini.index <= Len(m_backendvec) =>
          m_backendvec[ini.index].type = "Rtu" /\ NoRow(t, ini.it)
  \/ /\ pc[t] = "try"
     /\ con.i <= Len(m_backendvec)
     /\ con.i <= Len(m_bConnected) =>
          con.it = END \/ (con.it \in TextAddr /\ ~m_bConnected[con.i])
  \/ pc[t] = "store" /\ con.i > Len(m_mb_vec)
  \/ pc[t] = "func"  /\ con.i <= Len(m_mb_vec) /\ NoRow(t, con.it)
  \/ pc[t] = "buffer" /\ con.i > 1
  \/ pc[t] = "test"  /\ prc.i > Len(m_bConnected)
  \/ /\ pc[t] = "switch"
     /\ prc.i <= Len(m_fTypevec) =>
          \/ m_fTypevec[prc.i] \in Requesting \cup {2} /\ prc.i > m_datavec
          \/ m_fTypevec[prc.i] = 3 /\ (prc.it = END \/ MayLack(t) \/ NoOffset)
  \/ pc[t] = "ret"   /\ prc.ret = 2 /\ m_datavec = 0
  \/ /\ pc[t] = "dev" /\ t = "process"
     /\ prc.it = END \/ (m_data_map # {} /\ NoRow(t, prc.it))

StartPc  == [t \in Thread |-> CASE t = "init"    -> "type"
                               [] t = "connect" -> "size"
                               [] t = "process" -> "poll"]
StartIni == [todo |-> {}, seen |-> {}, sum |-> 0, it |-> END, index |-> 1]
StartCon == [i |-> 1, it |-> END, ctx |-> NULL]
StartPrc(r) == [i |-> 1, it |-> END, ctx |-> NULL, ret |-> r, device |-> NoDev]

(* The process dies, and its memory with it; nothing restarts it.          *)
EndOfProcess ==
  /\ ~crashed
  /\ crashed' = TRUE
  /\ m_nodeid_portaddr' = {} /\ m_checknum' = 0 /\ built' = {}
  /\ m_backendvec' = <<>> /\ m_mb_vec' = <<>> /\ m_bConnected' = <<>>
  /\ m_fTypevec' = <<>> /\ m_datavec' = 0 /\ m_data_map' = {}
  /\ link' = [c \in Ctx |-> Free]
  /\ pc' = StartPc /\ ini' = StartIni /\ con' = StartCon /\ prc' = StartPrc(1)
  /\ UNCHANGED <<node, edits>>

(* mqtt_send runs queries of its own at "login" and "send", overlapping or  *)
(* failing ones too, and the builder of the login message as well.         *)
Die(t) ==
  /\ \/ Outside(t) \/ Racing(t)
     \/ Querying(t) /\ Disturbed(t)
     \/ pc[t] \in {"login", "send"}
  /\ EndOfProcess

(* main starts one more thread, which subscribes through another client    *)
(* that was never opened: it returns at once, or takes junk for a client.  *)
SubscriberDies ==
  /\ ClientMemory = "junk"
  /\ EndOfProcess

Dies == SubscriberDies \/ \E t \in Thread : Die(t)

-----------------------------------------------------------------------------
(* modbus_handler_init.  ini: the ports still to read, the ids seen and     *)
(* their sum, the iterator and the index of the rebuild loop.              *)

(* The protocol table has the row of Modbus.                               *)
ProtocolType ==
  /\ At("init", "type")
  /\ Goto("init", "scan")
  /\ UNCHANGED <<node, edits, shared, ini, con, prc, crashed>>

(* Fault: checknum declared outside the loop, so that it is never reset.   *)
ScanStart_SumKept == [ini EXCEPT !.todo = NodeId, !.seen = {}]
ScanStart == [ini EXCEPT !.todo = NodeId, !.seen = {}, !.sum = 0]

Scan ==
  /\ At("init", "scan")
  /\ ini' = ScanStart
  /\ Goto("init", "row")
  /\ UNCHANGED <<node, edits, shared, con, prc, crashed>>

(* One port: its node enters the map and the checksum, if it has one.      *)
Row ==
  /\ At("init", "row")
  /\ \E n \in Smallest(ini.todo) :
     \E m \in Answer("init", IF n \in node THEN n ELSE NoNode,
                    NodeId \cup {NoNode}, NoNode) :
       /\ m_nodeid_portaddr' = m_nodeid_portaddr \cup ({m} \ {NoNode})
       /\ ini' = [ini EXCEPT !.todo = @ \ {n}, !.sum = @ + m,
                             !.seen = @ \cup ({m} \ {NoNode})]
  /\ UNCHANGED <<node, edits, m_checknum, built, m_backendvec, m_mb_vec,
                 m_bConnected, m_fTypevec, m_datavec, m_data_map, link,
                 pc, con, prc, crashed>>

Check ==
  /\ At("init", "row")
  /\ ini.todo = {}
  /\ IF ini.sum = m_checknum
     THEN Goto("init", "scan") /\ UNCHANGED ini
     ELSE /\ \E begin \in Begin : ini' = [ini EXCEPT !.it = begin, !.index = 1]
          /\ Goto("init", "push")
  /\ UNCHANGED <<node, edits, shared, con, prc, crashed>>

(* Fault: pushes only while empty, as the code does for m_wdatetypevec.    *)
ContextsGrown_OnceOnly == IF m_mb_vec = <<>> THEN <<NULL>> ELSE m_mb_vec
ContextsGrown == Append(m_mb_vec, NULL)

PushContext ==
  /\ At("init", "push")
  /\ ini.it # END
  /\ m_mb_vec' = ContextsGrown
  /\ Goto("init", "flag")
  /\ UNCHANGED <<node, edits, m_nodeid_portaddr, m_checknum, built,
                 m_backendvec, m_bConnected, m_fTypevec, m_datavec, m_data_map,
                 link, ini, con, prc, crashed>>

PushFlag ==
  /\ At("init", "flag")
  /\ ini.it \in node \/ Disturbed("init")
  /\ m_bConnected' = Append(m_bConnected, FALSE)
  /\ Goto("init", "backend")
  /\ UNCHANGED <<node, edits, m_nodeid_portaddr, m_checknum, built,
                 m_backendvec, m_mb_vec, m_fTypevec, m_datavec, m_data_map,
                 link, ini, con, prc, crashed>>

PushBackend ==
  /\ At("init", "backend")
  /\ ini.it \in node \/ Disturbed("init")
  /\ \E comtype \in Answer("init", ComType[ini.it], ComTypes, ComType[ini.it]),
        ip \in Answer("init", IpAddr(ini.it), AnyDev, IpAddr(ini.it)),
        p \in Answer("init", ParityFound, {"none", "even", "odd"}, "none") :
        m_backendvec' = m_backendvec \o CreateBackend(comtype, Letter(p), ip)
  /\ Goto("init", "dev")
  /\ UNCHANGED <<node, edits, m_nodeid_portaddr, m_checknum, built, m_mb_vec,
                 m_bConnected, m_fTypevec, m_datavec, m_data_map, link,
                 ini, con, prc, crashed>>

(* What strcpy writes: for a serial backend the answer to one more query,  *)
(* for a TCP one the local ipaddrstr, which the queries of "backend" set   *)
(* (to anything, where those were disturbed).                              *)
NameFound == Answer("init", DevName(ini.it), AnyDev, DevName(ini.it))
IpAddrStr == IF SharedHelper THEN AnyDev ELSE {IpAddr(ini.it)}

(* m_backendvec[index] gets the name or address of this round's port: the  *)
(* index counts from the start of the vector in every rebuild.             *)
Renamed(backend) ==
  {[backend EXCEPT !.dev = d] :
     d \in IF backend.type = "Rtu" THEN NameFound ELSE IpAddrStr}

NameBackend ==
  /\ At("init", "dev")
  /\ IF ini.index > Len(m_backendvec)
     THEN UNCHANGED m_backendvec
     ELSE /\ \/ m_backendvec[ini.index].type = "Tcp"
             \/ ini.it \in node \/ Disturbed("init")
          /\ \E b \in Renamed(m_backendvec[ini.index]) :
               m_backendvec' = [m_backendvec EXCEPT ![ini.index] = b]
  /\ \E next \in Next_(ini.it) :
       ini' = [ini EXCEPT !.it = next, !.index = @ + 1]
  /\ Goto("init", "push")
  /\ UNCHANGED <<node, edits, m_nodeid_portaddr, m_checknum, built, m_mb_vec,
                 m_bConnected, m_fTypevec, m_datavec, m_data_map, link,
                 con, prc, crashed>>

Built ==
  /\ At("init", "push")
  /\ ini.it = END
  /\ m_checknum' = ini.sum
  /\ built' = ini.seen
  /\ Goto("init", "scan")
  /\ UNCHANGED <<node, edits, m_nodeid_portaddr, m_backendvec, m_mb_vec,
                 m_bConnected, m_fTypevec, m_datavec, m_data_map, link,
                 ini, con, prc, crashed>>

InitThread == \/ ProtocolType \/ Scan \/ Row \/ Check \/ PushContext \/ PushFlag
              \/ PushBackend \/ NameBackend \/ Built

-----------------------------------------------------------------------------
(* modbus_handler_connect.  con: the index, the iterator and the context.  *)

Table == {m_mb_vec[k] : k \in 1..Len(m_mb_vec)} \ {NULL}
Referenced == (Table \cup {prc.ctx}) \ {NULL}

(* m_bConnected[k] = b.  The bits of a vector<bool> share their word, so a *)
(* bit written while another thread writes, or reallocates, may be lost.   *)
SetFlag(t, k, b) ==
  \/ m_bConnected' = [m_bConnected EXCEPT ![k] = b]
  \/ /\ \/ pc["init"] = "flag"
        \/ pc[IF t = "connect" THEN "process" ELSE "connect"]
             = (IF t = "connect" THEN "ret" ELSE "up")
     /\ UNCHANGED m_bConnected

SizeCheck ==
  /\ At("connect", "size")
  /\ Cardinality(m_nodeid_portaddr) = Len(m_backendvec)
  /\ \E begin \in Begin : con' = [con EXCEPT !.i = 1, !.it = begin]
  /\ Goto("connect", "try")
  /\ UNCHANGED <<node, edits, shared, ini, prc, crashed>>

(* A channel that is connected is skipped, and the iterator with it stays. *)
SkipConnected ==
  /\ At("connect", "try")
  /\ con.i <= Len(m_backendvec)
  /\ con.i <= Len(m_bConnected) /\ m_bConnected[con.i]
  /\ con' = [con EXCEPT !.i = @ + 1]
  /\ UNCHANGED <<node, edits, shared, pc, ini, prc, crashed>>

(* createCtxt and set_slave.  A context nothing refers to any more is      *)
(* leaked: it is never seen again, so its name serves for the new address. *)
CreateContext ==
  /\ At("connect", "try")
  /\ con.i <= Len(m_backendvec)
  /\ con.i <= Len(m_bConnected) => ~m_bConnected[con.i]
  /\ \E c \in {x \in Ctx : link[x] = Free \/ x \notin Referenced} :
       /\ link' = [x \in Ctx |->
                     IF x = c THEN m_backendvec[con.i].dev
                     ELSE IF x \in Referenced THEN link[x] ELSE Free]
       /\ con' = [con EXCEPT !.ctx = c]
  /\ Goto("connect", "connect")
  /\ UNCHANGED <<node, edits, m_nodeid_portaddr, m_checknum, built,
                 m_backendvec, m_mb_vec, m_bConnected, m_fTypevec, m_datavec,
                 m_data_map, ini, prc, crashed>>

NextChannel ==
  \E next \in Next_(con.it) :
     con' = [con EXCEPT !.i = @ + 1, !.it = next, !.ctx = NULL]

(* Fault: the return that is commented out at line 233.                    *)
AfterRefusal_Return == "returned"
AfterRefusal == "try"

ConnectFails ==
  /\ At("connect", "connect")
  /\ link' = [link EXCEPT ![con.ctx] = Free]
  /\ NextChannel
  /\ Goto("connect", AfterRefusal)
  /\ UNCHANGED <<node, edits, m_nodeid_portaddr, m_checknum, built,
                 m_backendvec, m_mb_vec, m_bConnected, m_fTypevec, m_datavec,
                 m_data_map, ini, prc, crashed>>

ConnectSucceeds ==
  /\ At("connect", "connect")
  /\ link[con.ctx] # NoDev
  /\ Goto("connect", "up")
  /\ UNCHANGED <<node, edits, shared, ini, con, prc, crashed>>

RaiseFlag ==
  /\ At("connect", "up")
  /\ SetFlag("connect", con.i, TRUE)
  /\ Goto("connect", "store")
  /\ UNCHANGED <<node, edits, m_nodeid_portaddr, m_checknum, built,
                 m_backendvec, m_mb_vec, m_fTypevec, m_datavec, m_data_map,
                 link, ini, con, prc, crashed>>

(* Fault: the context that is replaced is freed, whoever still uses it.    *)
StoreContext_FreesOld ==
  /\ At("connect", "store")
  /\ m_mb_vec' = [m_mb_vec EXCEPT ![con.i] = con.ctx]
  /\ link' = [c \in Ctx |-> IF c = m_mb_vec[con.i] THEN Free ELSE link[c]]
  /\ Goto("connect", "login")
  /\ UNCHANGED <<node, edits, m_nodeid_portaddr, m_checknum, built,
                 m_backendvec, m_bConnected, m_fTypevec, m_datavec, m_data_map,
                 ini, con, prc, crashed>>

(* m_mb_vec[i] = ctx; lost when init reallocates the vector meanwhile.     *)
StoreContext ==
  /\ At("connect", "store")
  /\ \/ m_mb_vec' = [m_mb_vec EXCEPT ![con.i] = con.ctx]
     \/ "mb" \in Appends("init") /\ UNCHANGED m_mb_vec
  /\ Goto("connect", "login")
  /\ UNCHANGED <<node, edits, m_nodeid_portaddr, m_checknum, built,
                 m_backendvec, m_bConnected, m_fTypevec, m_datavec, m_data_map,
                 link, ini, con, prc, crashed>>

(* mqtt_pub_login_msg, mqtt_platadddev, mqtt_platupdatedev: three sends.   *)
(* The platform client was never opened: with m_client NULL its publish    *)
(* returns at once (mqtt_client.cpp:141).                                  *)
Login ==
  /\ At("connect", "login")
  /\ NextChannel
  /\ Goto("connect", "try")
  /\ UNCHANGED <<node, edits, shared, ini, prc, crashed>>

(* Where m_client is not NULL by luck, the publish fails, or dies (Die),   *)
(* and then waits for a token that nobody set to be delivered (153).       *)
LoginSpins ==
  /\ At("connect", "login")
  /\ ClientMemory = "junk"
  /\ Goto("connect", "spin")
  /\ UNCHANGED <<node, edits, shared, ini, con, prc, crashed>>

AllTried ==
  /\ At("connect", "try")
  /\ con.i > Len(m_backendvec)
  /\ con' = StartCon
  /\ Goto("connect", "size2")
  /\ UNCHANGED <<node, edits, shared, ini, prc, crashed>>

SecondSizeCheck ==
  /\ At("connect", "size2")
  /\ IF Len(m_mb_vec) # Cardinality(m_nodeid_portaddr)
     THEN Goto("connect", "size") /\ UNCHANGED con
     ELSE /\ \E begin \in Begin : con' = [con EXCEPT !.i = 1, !.it = begin]
          /\ Goto("connect", "func")
  /\ UNCHANGED <<node, edits, shared, ini, prc, crashed>>

SetFunction ==
  /\ At("connect", "func")
  /\ con.i <= Len(m_mb_vec)
  /\ \E n \in Found("connect", con.it) :
     \E code \in Answer("connect", FuncCode[n], Codes, FuncNone) :
       m_fTypevec' = IF con.i > Len(m_fTypevec)
                     THEN Append(m_fTypevec, code)
                     ELSE [m_fTypevec EXCEPT ![con.i] = code]
  /\ Goto("connect", "buffer")
  /\ UNCHANGED <<node, edits, m_nodeid_portaddr, m_checknum, built,
                 m_backendvec, m_mb_vec, m_bConnected, m_datavec, m_data_map,
                 link, ini, con, prc, crashed>>

(* Fault: a slot more in every round.                                      *)
Slots_EveryRound == m_datavec + 1
Slots == IF m_datavec = 0 THEN 1 ELSE m_datavec

(* m_wdatetypevec and m_datavec get a slot only while they are empty; from *)
(* channel 2 on the slot written is past the end of both.                  *)
SetBuffer ==
  /\ At("connect", "buffer")
  /\ m_datavec' = Slots
  /\ NextChannel
  /\ Goto("connect", "func")
  /\ UNCHANGED <<node, edits, m_nodeid_portaddr, m_checknum, built,
                 m_backendvec, m_mb_vec, m_bConnected, m_fTypevec, m_data_map,
                 link, ini, prc, crashed>>

RoundDone ==
  /\ At("connect", "func")
  /\ con.i > Len(m_mb_vec)
  /\ con' = StartCon
  /\ Goto("connect", "size")
  /\ UNCHANGED <<node, edits, shared, ini, prc, crashed>>

ConnectThread ==
  \/ SizeCheck \/ SkipConnected \/ CreateContext \/ ConnectFails
  \/ ConnectSucceeds \/ RaiseFlag \/ StoreContext \/ Login \/ LoginSpins
  \/ AllTried \/ SecondSizeCheck \/ SetFunction \/ SetBuffer \/ RoundDone

-----------------------------------------------------------------------------
(* modbus_data_process.  prc: the index, the iterator, the context, the    *)
(* result of the last request, and the device id found for the reading.    *)

Poll ==
  /\ At("process", "poll")
  /\ m_mb_vec # <<>>
  /\ \E begin \in Begin : prc' = [prc EXCEPT !.i = 1, !.it = begin]
  /\ Goto("process", "ctx")
  /\ UNCHANGED <<node, edits, shared, ini, con, crashed>>

(* Fault: m_data_map.clear() forgotten.                                    *)
DataMapCleared_Kept == m_data_map
DataMapCleared == {}

ReadContext ==
  /\ At("process", "ctx")
  /\ prc.i <= Len(m_mb_vec)
  /\ m_data_map' = DataMapCleared
  /\ prc' = [prc EXCEPT !.ctx = m_mb_vec[prc.i]]
  /\ Goto("process", "test")
  /\ UNCHANGED <<node, edits, m_nodeid_portaddr, m_checknum, built,
                 m_backendvec, m_mb_vec, m_bConnected, m_fTypevec, m_datavec,
                 link, ini, con, crashed>>

Connected(i) == i <= Len(m_bConnected) /\ m_bConnected[i]

NextPolled ==
  \E next \in Next_(prc.it) :
     prc' = [prc EXCEPT !.i = @ + 1, !.it = next, !.ctx = NULL, !.device = NoDev]

SkipChannel ==
  /\ At("process", "test")
  /\ ~Connected(prc.i) \/ prc.ctx = NULL
  /\ NextPolled
  /\ Goto("process", "ctx")
  /\ UNCHANGED <<node, edits, shared, ini, con, crashed>>

TakeChannel ==
  /\ At("process", "test")
  /\ Connected(prc.i)
  /\ prc.ctx # NULL
  /\ Goto("process", "switch")
  /\ UNCHANGED <<node, edits, shared, ini, con, prc, crashed>>

(* The code the switch sees; past the end of a vector that has storage it  *)
(* is whatever the storage holds, with no storage there is no going on.    *)
FunctionOf(i) == IF i <= Len(m_fTypevec) THEN {m_fTypevec[i]}
                 ELSE IF m_fTypevec = <<>> THEN {}
                 ELSE Requesting \cup {2, FuncNone}

(* What a request may leave in ret.  modbus_read_holdingdata returns -1    *)
(* when a lookup finds no row, 1 when the property has no name and 2 when  *)
(* it read the registers, whether or not they could be read.               *)
Results(code) == CASE code = 3                -> {-1, 1, 2}
                   [] code \in {5, 6}         -> {-1, 1}
                   [] code \in {1, 4, 15, 16} -> {-1, 2}
                   [] OTHER                   -> {prc.ret}

Request ==
  /\ At("process", "switch")
  /\ \E code \in FunctionOf(prc.i) : \E r \in Results(code) :
       /\ prc' = [prc EXCEPT !.ret = r]
       /\ IF code = 3 /\ r = 2
          THEN \E fresh \in BOOLEAN :
                 m_data_map' = {[dev |-> link[prc.ctx], fresh |-> fresh]}
          ELSE UNCHANGED m_data_map
  /\ Goto("process", "ret")
  /\ UNCHANGED <<node, edits, m_nodeid_portaddr, m_checknum, built,
                 m_backendvec, m_mb_vec, m_bConnected, m_fTypevec, m_datavec,
                 link, ini, con, crashed>>

CheckResult ==
  /\ At("process", "ret")
  /\ prc.ret = 2 => m_datavec # 0
  /\ IF prc.ret < 0 THEN SetFlag("process", prc.i, FALSE)
                    ELSE UNCHANGED m_bConnected
  /\ Goto("process", "dev")
  /\ UNCHANGED <<node, edits, m_nodeid_portaddr, m_checknum, built,
                 m_backendvec, m_mb_vec, m_fTypevec, m_datavec, m_data_map,
                 link, ini, con, prc, crashed>>

(* Fault: break instead of continue.                                       *)
AfterNothing_Break == "poll"
AfterNothing == "ctx"

NothingRead ==
  /\ At("process", "dev")
  /\ m_data_map = {}
  /\ NextPolled
  /\ Goto("process", AfterNothing)
  /\ UNCHANGED <<node, edits, shared, ini, con, crashed>>

FindDevice ==
  /\ At("process", "dev")
  /\ m_data_map # {}
  /\ \E n \in Found("process", prc.it) :
     \E d \in Answer("process", n, AnyDev, n) :
       prc' = [prc EXCEPT !.device = d]
  /\ Goto("process", "send")
  /\ UNCHANGED <<node, edits, shared, ini, con, crashed>>

(* mqtt_send(getmqttstr(device, m_data_map), DATA).                        *)
Publish ==
  /\ At("process", "send")
  /\ NextPolled
  /\ Goto("process", "ctx")
  /\ UNCHANGED <<node, edits, shared, ini, con, crashed>>

PollDone ==
  /\ At("process", "ctx")
  /\ prc.i > Len(m_mb_vec)
  /\ prc' = StartPrc(prc.ret)
  /\ Goto("process", "poll")
  /\ UNCHANGED <<node, edits, shared, ini, con, crashed>>

ProcessThread ==
  \/ Poll \/ ReadContext \/ SkipChannel \/ TakeChannel \/ Request
  \/ CheckResult \/ NothingRead \/ FindDevice \/ Publish \/ PollDone

-----------------------------------------------------------------------------
(* The node table is edited by another program while the gateway runs.     *)
Edit ==
  /\ ~crashed
  /\ edits < MaxEdits
  /\ \E n \in NodeId : node' = IF n \in node THEN node \ {n} ELSE node \cup {n}
  /\ edits' = edits + 1
  /\ UNCHANGED <<shared, pc, ini, con, prc, crashed>>

Init ==
  /\ node = InitNode
  /\ edits = 0
  /\ m_nodeid_portaddr = {} /\ m_checknum = 0 /\ built = {}
  /\ m_backendvec = <<>> /\ m_mb_vec = <<>> /\ m_bConnected = <<>>
  /\ m_fTypevec = <<>> /\ m_datavec = 0 /\ m_data_map = {}
  /\ link = [c \in Ctx |-> Free]
  /\ pc = StartPc /\ ini = StartIni /\ con = StartCon
  /\ \E r \in {-1, 1, 2} : prc = StartPrc(r)   \* ret is not initialised
  /\ crashed = FALSE

Next ==
  \/ InitThread \/ ConnectThread \/ ProcessThread
  \/ Edit
  \/ Dies

Spec == Init /\ [][Next]_vars

-----------------------------------------------------------------------------
SharedType ==
  /\ m_nodeid_portaddr \subseteq NodeId
  /\ m_checknum \in Nat /\ built \subseteq NodeId
  /\ m_backendvec \in Seq(Backend)
  /\ m_mb_vec \in Seq(Pointer)
  /\ m_bConnected \in Seq(BOOLEAN)
  /\ m_fTypevec \in Seq(Int)
  /\ m_datavec \in {0, 1}
  /\ m_data_map \in SUBSET Reading
  /\ link \in [Ctx -> NodeId \cup {NoDev, Free}]
PcType ==
  /\ pc \in [Thread -> InitLabel \cup ConnectLabel \cup ProcessLabel]
  /\ pc["init"] \in InitLabel
  /\ pc["connect"] \in ConnectLabel
  /\ pc["process"] \in ProcessLabel
InitLocals    == [todo : SUBSET NodeId, seen : SUBSET NodeId, sum : Nat,
                  it : Iterator, index : Position]
ConnectLocals == [i : Position, it : Iterator, ctx : Pointer]
ProcessLocals == [i : Position, it : Iterator, ctx : Pointer, ret : {-1, 1, 2},
                  device : AnyDev]
LocalsType ==
  /\ ini \in InitLocals /\ con \in ConnectLocals /\ prc \in ProcessLocals
InUse ==   \* the locals a thread dereferences at these labels
  /\ pc["init"] \in {"flag", "backend", "dev"} => ini.it # END
  /\ pc["process"] \in {"switch", "ret", "dev", "send"} => prc.ctx # NULL
TypeOK ==
  /\ node \subseteq NodeId /\ edits \in 0..MaxEdits /\ crashed \in BOOLEAN
  /\ SharedType /\ PcType /\ LocalsType /\ InUse

(* No step of the three threads ever disturbs the order in which the init  *)
(* thread grows the vectors (111, 116, 151/164): the contexts lead, then    *)
(* the flags, then the backends.  So the channel the connect thread works  *)
(* on exists in all three, and the one the process thread polls exists in  *)
(* m_mb_vec, whatever is edited and whenever a rebuild cuts in.            *)
ChannelsInRange ==
  /\ pc["connect"] \in {"connect", "up", "store", "login"} =>
       /\ con.i <= Len(m_backendvec)
       /\ con.i <= Len(m_bConnected)
       /\ con.i <= Len(m_mb_vec)
  /\ pc["process"] \in {"test", "switch", "ret", "dev", "send"} =>
       prc.i <= Len(m_mb_vec)

(* Why: the inductive form of the above.  Between the push_back of the     *)
(* context and that of the flag the vectors are one apart, and so are the  *)
(* flags and the backends while the backend is not pushed; a port of       *)
(* another comtype never pushes one.                                       *)
VectorsInStep ==
  /\ Len(m_mb_vec) = Len(m_bConnected) + (IF pc["init"] = "flag" THEN 1 ELSE 0)
  /\ Len(m_backendvec) + (IF pc["init"] = "backend" THEN 1 ELSE 0)
       <= Len(m_bConnected)
  /\ ChannelsInRange

(* A context in the table, or in the hands of the process thread, is one   *)
(* modbus_free (232) has not been called on, and no two channels share one.*)
ContextsLive ==
  /\ \A c \in Referenced : link[c] # Free
  /\ \A k, l \in 1..Len(m_mb_vec) :
       m_mb_vec[k] = m_mb_vec[l] /\ m_mb_vec[k] # NULL => k = l

(* Why: the context the connect thread is opening is allocated, and nobody *)
(* else has it before the store at 239; a channel's context is never freed.*)
ContextsOwned ==
  /\ ContextsLive
  /\ pc["connect"] \in {"connect", "up", "store"} =>
       con.ctx \in Ctx \ Referenced /\ link[con.ctx] # Free

(* ContextsLive is what these rules, which the three threads keep, are for *)
(* (ContextOwner): only the connect thread frees, and only what it has     *)
(* created and given to nobody; a context that a channel gave up for a new *)
(* one (239) stays allocated while the process thread may still be in it.  *)
Owner == INSTANCE ContextOwner WITH
  live    <- {c \in Ctx : link[c] # Free},
  channel <- m_mb_vec,
  opening <- IF pc["connect"] \in {"connect", "up", "store"} THEN con.ctx ELSE NULL,
  using   <- prc.ctx
KeepsOwnership == Owner!Spec

(* What is published under a device id was read from that device's port,   *)
(* as long as the node table is the one the gateway started with.  (After  *)
(* an insertion it is false: 109-187 append the channels of all nodes to   *)
(* those there are, and 498 still pairs channel and node by their place.)  *)
PublishedUnderOwnDevice ==
  edits = 0 /\ pc["process"] = "send"
    => \A r \in m_data_map : r.dev = prc.device

(* The channels are built once, and once more for an edit: scans that see  *)
(* an unchanged table never build it again, also those that an edit cuts   *)
(* into.  Each time at most one channel per node is appended.              *)
BuiltOncePerChange ==
  Len(m_mb_vec) <= (1 + edits) * Cardinality(NodeId)

(* Settled: the channels of an unedited table are built, and the connect   *)
(* thread has given each of them its function code.  From then on no two   *)
(* threads race for a vector's storage, and the only access outside a      *)
(* vector is to the data slot of a second or later channel: as long as the *)
(* table has been edited once at most, or rows have only been deleted (two *)
(* edits can delete a row and insert it again, behind a scan's back).      *)
Settled ==
  /\ built = node /\ m_nodeid_portaddr = node
  /\ Len(m_mb_vec) = Cardinality(node) /\ Len(m_bConnected) = Len(m_mb_vec)
  /\ Len(m_fTypevec) = Len(m_mb_vec) /\ m_datavec = 1
DefinedOnceSettled ==
  Settled => \A t \in Thread :
    /\ ~Racing(t)
    /\ Outside(t) => \/ pc[t] = "buffer" /\ con.i > 1
                     \/ pc[t] = "switch" /\ prc.i > 1

(* modbus_handler.h:68 calls m_checknum the check bit that tells whether   *)
(* the set of devices changed: a scan that saw other ids than those the    *)
(* channels were built from must not take the "no change" branch (101).    *)
ChangeDetected ==
  pc["init"] = "row" /\ ini.todo = {} /\ ini.sum = m_checknum
    => ini.seen = built

(* modbus_handler.cpp:205 calls it an error when there are not as many      *)
(* backends as nodes; the connect thread then opens nothing at all.  Once  *)
(* the channels are built from the table as it is, that is not the case.   *)
SizesAgree ==
  pc["init"] = "scan" /\ built = node
    => Len(m_backendvec) = Cardinality(m_nodeid_portaddr)

(* A serial channel has the parity of its own port, by the letters the     *)
(* backends themselves use for it (mbu-common.cpp:58-62).                  *)
ParityOfPort ==
  \A k \in 1..Len(m_backendvec) :
    LET b == m_backendvec[k]
    IN  b.type = "Rtu" /\ b.dev # NoDev =>
          b.parity = CASE Parity[b.dev] = "none" -> "N"
                       [] Parity[b.dev] = "even" -> "E"
                       [] Parity[b.dev] = "odd"  -> "O"

(* modbus_handler.cpp:546 calls ret == readWriteNo success: the registers  *)
(* whose values are about to be published were read.                       *)
SuccessMeansRead ==
  pc["process"] = "dev" /\ prc.ret = 2 => \A r \in m_data_map : r.fresh

-----------------------------------------------------------------------------
(* Liveness.  Each thread keeps running (its sleeps end, its calls return),*)
(* or dies where it cannot go on.  The environment: a device that is tried *)
(* again and again answers in the end, and the write of its flag is not    *)
(* lost to a neighbouring bit every single time.                           *)

InitRuns    == WF_vars(InitThread \/ Die("init"))
ConnectRuns == WF_vars(ConnectThread \/ Die("connect"))
ProcessRuns == WF_vars(ProcessThread \/ Die("process"))
DevicesAnswer ==
  \A k \in 1..Cardinality(NodeId) :
    /\ SF_vars(con.i = k /\ ConnectSucceeds)
    /\ SF_vars(con.i = k /\ RaiseFlag /\ m_bConnected'[k])
Fairness == InitRuns /\ ConnectRuns /\ ProcessRuns /\ DevicesAnswer

FairSpec == Spec /\ Fairness

(* A channel that is not connected is connected in the end, however often  *)
(* its device refuses, as long as the node table is left alone; connected  *)
(* by its flag, also where the store of its context at 239 was lost.  The  *)
(* connect thread may end up in the platform client instead (spin).        *)
ChannelReopened ==
  \A k \in 1..Cardinality(NodeId) :
    (k <= Len(m_bConnected) /\ ~Connected(k))
      ~> (Connected(k) \/ crashed \/ pc["connect"] = "spin")

(* A connected channel that has its context is polled, whatever happens to *)
(* the others.  (It has none when the store at 239 was lost to a push_back *)
(* of the init thread: such a channel is dead, neither polled nor opened.) *)
ChannelPolled ==
  \A k \in 1..Cardinality(NodeId) :
    (Connected(k) /\ m_mb_vec[k] # NULL)
      ~> \/ pc["process"] = "switch" /\ prc.i = k
         \/ ~Connected(k)
         \/ crashed

=============================================================================
