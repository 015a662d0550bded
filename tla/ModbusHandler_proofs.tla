------------------------ MODULE ModbusHandler_proofs ------------------------
(* Proofs of the safety properties of ModbusHandler, for every node table, *)
(* every configuration of the ports and any number of edits.               *)
EXTENDS ModbusHandler, TLAPS

(* Operators on sequences and on the data of the model.                    *)

(* Indices count up from 1, and a pointer is NULL or an address.           *)
LEMMA StepTypes ==
  /\ 1 \in Position /\ \A k \in Position : k + 1 \in Position
  /\ NULL \in Pointer /\ Ctx \subseteq Pointer
BY DEF Position, Pointer

(* An iterator taken from the map is a node id or END.                     *)
LEMMA IteratorType ==
  ASSUME m_nodeid_portaddr \subseteq NodeId
  PROVE  Begin \subseteq Iterator /\ \A n : Next_(n) \subseteq Iterator
BY DEF Begin, Next_, Smallest, After, Iterator

(* A function on 1..n is a sequence of length n.                           *)
LEMMA Fill ==
  ASSUME NEW S, NEW n \in Nat, NEW f \in [1..n -> S]
  PROVE  f \in Seq(S) /\ Len(f) = n
OBVIOUS

(* An element written in place leaves the length of a vector alone.        *)
LEMMA Overwrite ==
  ASSUME NEW S, NEW s \in Seq(S), NEW i, NEW e \in S
  PROVE  [s EXCEPT ![i] = e] \in Seq(S) /\ Len([s EXCEPT ![i] = e]) = Len(s)
<1>1. s \in [1..Len(s) -> S] /\ Len(s) \in Nat
  OBVIOUS
<1>2. [s EXCEPT ![i] = e] \in [1..Len(s) -> S]
  BY <1>1
<1> QED BY <1>1, <1>2, Fill

(* The letter of a parity, whatever text the port holds (139-150).         *)
LEMMA LetterType == \A p : Letter(p) \in {"N", "E", "O"}
BY DEF Letter

(* A query answers nothing that neither the row, nor the other threads'    *)
(* answers, nor the lack of an answer could be taken for.                  *)
LEMMA AnswerIn ==
  ASSUME NEW S, NEW t, NEW right \in S, NEW any \in SUBSET S, NEW none \in S
  PROVE  Answer(t, right, any, none) \subseteq S
BY DEF Answer

(* The devices a port may name.                                            *)
LEMMA DevType == \A n \in NodeId : DevName(n) \in AnyDev /\ IpAddr(n) \in AnyDev
BY DEF DevName, IpAddr, AnyDev

(* What createRtuBackend and createTcpBackend return (132-165).            *)
LEMMA BackendType ==
  ASSUME NEW comtype, NEW letter \in {"N", "E", "O"}, NEW ip \in AnyDev
  PROVE  /\ CreateBackend(comtype, letter, ip) \in Seq(Backend)
         /\ Len(CreateBackend(comtype, letter, ip)) \in {0, 1}
<1>1. CASE comtype = "1"
  <2>1. [type |-> "Rtu", parity |-> letter, dev |-> NoDev] \in Backend
    BY DEF Backend, AnyDev
  <2> QED BY <1>1, <2>1 DEF CreateBackend
<1>2. CASE comtype = "2"
  <2>1. [type |-> "Tcp", parity |-> "N", dev |-> ip] \in Backend
    BY DEF Backend
  <2> QED BY <1>2, <2>1 DEF CreateBackend
<1>3. CASE comtype \notin {"1", "2"}
  <2>1. CreateBackend(comtype, letter, ip) = <<>>
    BY <1>3 DEF CreateBackend
  <2> QED BY <2>1
<1> QED BY <1>1, <1>2, <1>3

-----------------------------------------------------------------------------
(* The locals of the threads.                                              *)

(* The locals the threads start with have their types.                     *)
LEMMA StartLocals ==
  /\ StartIni \in InitLocals /\ StartCon \in ConnectLocals
  /\ \A r \in {-1, 1, 2} : StartPrc(r) \in ProcessLocals
BY StepTypes DEF StartIni, StartCon, StartPrc, InitLocals, ConnectLocals,
                 ProcessLocals, Iterator, AnyDev

(* The init thread keeps the types of the locals.                          *)
LEMMA InitKeepsLocals == TypeOK /\ InitThread => LocalsType'
<1> SUFFICES ASSUME TypeOK, InitThread PROVE LocalsType'
  OBVIOUS
<1>1. ini \in InitLocals /\ LocalsType
  BY DEF TypeOK, LocalsType
<1>2. Begin \subseteq Iterator /\ \A n : Next_(n) \subseteq Iterator
  BY IteratorType DEF TypeOK, SharedType
<1>3. con' = con /\ prc' = prc
  BY DEF InitThread, ProtocolType, Scan, Row, Check, PushContext, PushFlag, PushBackend, NameBackend, Built
<1>4. ASSUME ProtocolType PROVE ini' = ini
  BY <1>4 DEF ProtocolType
<1>9. ASSUME Scan PROVE ini' \in InitLocals
  BY <1>1, <1>9 DEF Scan, ScanStart, InitLocals
<1>5. ASSUME Row PROVE ini' \in InitLocals
  <2>1. PICK n \in NodeId, m \in NodeId \cup {NoNode} :
          ini' = [ini EXCEPT !.todo = @ \ {n}, !.sum = @ + m,
                             !.seen = @ \cup ({m} \ {NoNode})]
    BY <1>1, <1>5 DEF Row, Answer, Smallest, InitLocals
  <2>2. ini.sum + m \in Nat
    BY <1>1, NodeIdAssumption DEF InitLocals, NoNode
  <2>3. /\ ini.seen \cup ({m} \ {NoNode}) \in SUBSET NodeId
        /\ ini.todo \ {n} \in SUBSET NodeId
    BY <1>1 DEF InitLocals
  <2>4. ini' = [ini EXCEPT !.todo = ini.todo \ {n}, !.sum = ini.sum + m,
                           !.seen = ini.seen \cup ({m} \ {NoNode})]
    BY <2>1
  <2> DEFINE todo == ini.todo \ {n}
             sum  == ini.sum + m
             seen == ini.seen \cup ({m} \ {NoNode})
  <2>5. ini' = [ini EXCEPT !.todo = todo, !.sum = sum, !.seen = seen]
    BY <2>4
  <2>6. todo \in SUBSET NodeId /\ sum \in Nat /\ seen \in SUBSET NodeId
    BY <2>2, <2>3
  <2> HIDE DEF todo, sum, seen
  <2> QED BY <1>1, <2>5, <2>6 DEF InitLocals
<1>6. ASSUME Check PROVE ini' \in InitLocals
  BY <1>1, <1>2, <1>6, StepTypes DEF Check, InitLocals
<1>7. ASSUME NameBackend PROVE ini' \in InitLocals
  BY <1>1, <1>2, <1>7, StepTypes DEF NameBackend, InitLocals
<1>8. ASSUME PushContext \/ PushFlag \/ PushBackend \/ Built PROVE ini' = ini
  BY <1>8 DEF PushContext, PushFlag, PushBackend, Built
<1> QED
  BY <1>1, <1>3, <1>4, <1>5, <1>6, <1>7, <1>8, <1>9 DEF InitThread, LocalsType

(* The connect thread keeps the types of the locals.                       *)
LEMMA ConnectKeepsLocals == TypeOK /\ ConnectThread => LocalsType'
<1> SUFFICES ASSUME TypeOK, ConnectThread PROVE LocalsType'
  OBVIOUS
<1>1. con \in ConnectLocals /\ LocalsType
  BY DEF TypeOK, LocalsType
<1>2. Begin \subseteq Iterator /\ \A n : Next_(n) \subseteq Iterator
  BY IteratorType DEF TypeOK, SharedType
<1>3. ini' = ini /\ prc' = prc
  BY DEF ConnectThread, SizeCheck, SkipConnected, CreateContext, ConnectFails,
         ConnectSucceeds, RaiseFlag, StoreContext, Login, LoginSpins, AllTried,
         SecondSizeCheck, SetFunction, SetBuffer, RoundDone
<1>4. ASSUME NextChannel PROVE con' \in ConnectLocals
  BY <1>1, <1>2, <1>4, StepTypes DEF NextChannel, ConnectLocals
<1>5. ASSUME SizeCheck \/ SecondSizeCheck PROVE con' \in ConnectLocals
  BY <1>1, <1>2, <1>5, StepTypes DEF SizeCheck, SecondSizeCheck, ConnectLocals
<1>6. ASSUME SkipConnected \/ CreateContext PROVE con' \in ConnectLocals
  BY <1>1, <1>6, StepTypes DEF SkipConnected, CreateContext, ConnectLocals
<1>7. ConnectFails \/ Login \/ SetBuffer => NextChannel
  BY DEF ConnectFails, Login, SetBuffer
<1>8. ConnectSucceeds \/ RaiseFlag \/ StoreContext \/ LoginSpins \/ SetFunction
        => con' = con
  BY DEF ConnectSucceeds, RaiseFlag, StoreContext, LoginSpins, SetFunction
<1>9. ASSUME AllTried \/ RoundDone PROVE con' \in ConnectLocals
  BY <1>9, StartLocals DEF AllTried, RoundDone
<1> QED
  BY <1>1, <1>3, <1>4, <1>5, <1>6, <1>7, <1>8, <1>9 DEF ConnectThread, LocalsType

(* The process thread keeps the types of the locals.                       *)
LEMMA ProcessKeepsLocals == TypeOK /\ ProcessThread => LocalsType'
<1> SUFFICES ASSUME TypeOK, ProcessThread PROVE LocalsType'
  OBVIOUS
<1>1. prc \in ProcessLocals /\ LocalsType
  BY DEF TypeOK, LocalsType
<1>2. Begin \subseteq Iterator /\ \A n : Next_(n) \subseteq Iterator
  BY IteratorType DEF TypeOK, SharedType
<1>3. ini' = ini /\ con' = con
  BY DEF ProcessThread, Poll, ReadContext, SkipChannel, TakeChannel, Request,
         CheckResult, NothingRead, FindDevice, Publish, PollDone
<1>4. ASSUME NextPolled PROVE prc' \in ProcessLocals
  <2>1. PICK next \in Iterator :
          prc' = [prc EXCEPT !.i = @ + 1, !.it = next, !.ctx = NULL,
                             !.device = NoDev]
    BY <1>2, <1>4 DEF NextPolled
  <2> QED BY <1>1, <2>1, StepTypes DEF ProcessLocals, AnyDev
<1>5. ASSUME Poll PROVE prc' \in ProcessLocals
  <2>1. PICK begin \in Iterator : prc' = [prc EXCEPT !.i = 1, !.it = begin]
    BY <1>2, <1>5 DEF Poll
  <2> QED BY <1>1, <2>1, StepTypes DEF ProcessLocals
<1>6. ASSUME ReadContext PROVE prc' \in ProcessLocals
  <2>1. m_mb_vec[prc.i] \in Pointer
    BY <1>1, <1>6 DEF ReadContext, TypeOK, SharedType, Position, ProcessLocals
  <2> QED BY <1>1, <1>6, <2>1 DEF ReadContext, ProcessLocals
<1>7. ASSUME Request PROVE prc' \in ProcessLocals
  BY <1>1, <1>7 DEF Request, Results, ProcessLocals
<1>8. ASSUME FindDevice PROVE prc' \in ProcessLocals
  <2>1. Found("process", prc.it) \subseteq NodeId
    BY DEF Found, TypeOK
  <2>2. PICK d \in AnyDev : prc' = [prc EXCEPT !.device = d]
    BY <1>8, <2>1 DEF FindDevice, Answer, AnyDev
  <2> QED BY <1>1, <2>2 DEF ProcessLocals
<1>9. SkipChannel \/ NothingRead \/ Publish => NextPolled
  BY DEF SkipChannel, NothingRead, Publish
<1>10. TakeChannel \/ CheckResult => prc' = prc
  BY DEF TakeChannel, CheckResult
<1>11. ASSUME PollDone PROVE prc' \in ProcessLocals
  BY <1>1, <1>11, StartLocals DEF PollDone, ProcessLocals
<1> QED
  BY <1>1, <1>3, <1>4, <1>5, <1>6, <1>7, <1>8, <1>9, <1>10, <1>11
     DEF ProcessThread, LocalsType

-----------------------------------------------------------------------------
(* The members the threads share.                                          *)

(* What a rebuild appends is the backend of some port, with some letter.   *)
LEMMA PushedBackend ==
  ASSUME TypeOK, PushBackend
  PROVE  \E comtype \in ComTypes, letter \in {"N", "E", "O"}, ip \in AnyDev :
           m_backendvec' = m_backendvec \o CreateBackend(comtype, letter, ip)
<1>1. ini.it \in NodeId
  BY DEF PushBackend, At, TypeOK, LocalsType, InUse, InitLocals, Iterator
<1>2. Answer("init", IpAddr(ini.it), AnyDev, IpAddr(ini.it)) \subseteq AnyDev
  BY <1>1, DevType DEF Answer
<1>3. Answer("init", ComType[ini.it], ComTypes, ComType[ini.it]) \subseteq ComTypes
  BY <1>1, ConfigAssumption DEF Answer
<1>4. PICK comtype \in ComTypes, ip \in AnyDev : \E p :
        m_backendvec' = m_backendvec \o CreateBackend(comtype, Letter(p), ip)
  BY <1>2, <1>3 DEF PushBackend
<1> QED BY <1>4, LetterType

(* What a rebuild renames is a backend, if there is one at its index.      *)
LEMMA RenamedBackend ==
  ASSUME TypeOK, NameBackend
  PROVE  \/ m_backendvec' = m_backendvec
         \/ \E b \in Backend : m_backendvec' = [m_backendvec EXCEPT ![ini.index] = b]
<1>1. SUFFICES ASSUME ~(ini.index > Len(m_backendvec))
               PROVE  \E b \in Renamed(m_backendvec[ini.index]) \cap Backend :
                        m_backendvec' = [m_backendvec EXCEPT ![ini.index] = b]
  <2>1. CASE ini.index > Len(m_backendvec)
    BY <2>1 DEF NameBackend
  <2> QED BY <2>1
<1>2. ini.it \in NodeId /\ ini.index \in Nat \ {0}
  BY DEF NameBackend, At, TypeOK, LocalsType, InUse, InitLocals, Iterator, Position
<1>3. NameFound \subseteq AnyDev /\ IpAddrStr \subseteq AnyDev
  BY <1>2, DevType DEF NameFound, IpAddrStr, Answer
<1>4. m_backendvec[ini.index] \in Backend
  BY <1>1, <1>2 DEF TypeOK, SharedType
<1>5. Renamed(m_backendvec[ini.index]) \subseteq Backend
  <2>1. \A d \in AnyDev : [m_backendvec[ini.index] EXCEPT !.dev = d] \in Backend
    BY <1>4 DEF Backend
  <2> QED BY <1>3, <2>1 DEF Renamed
<1>6. PICK b \in Renamed(m_backendvec[ini.index]) :
        m_backendvec' = [m_backendvec EXCEPT ![ini.index] = b]
  BY <1>1 DEF NameBackend
<1> QED BY <1>5, <1>6

(* The init thread keeps the types of the shared members.                  *)
LEMMA InitKeepsShared == TypeOK /\ InitThread => SharedType'
<1> SUFFICES ASSUME TypeOK, InitThread PROVE SharedType'
  OBVIOUS
<1>1. SharedType /\ ini \in InitLocals
  BY DEF TypeOK, LocalsType
<1>2. CASE ProtocolType \/ Scan \/ Check
  BY <1>1, <1>2 DEF ProtocolType, Scan, Check, shared, SharedType
<1>3. CASE Row
  BY <1>1, <1>3 DEF Row, Answer, Smallest, InitLocals, NoNode, SharedType
<1>4. CASE PushContext
  BY <1>1, <1>4 DEF PushContext, ContextsGrown, Pointer, SharedType
<1>5. CASE PushFlag
  BY <1>1, <1>5 DEF PushFlag, SharedType
<1>6. CASE PushBackend
  <2>2. PICK comtype \in ComTypes, letter \in {"N", "E", "O"}, ip \in AnyDev :
          m_backendvec' = m_backendvec \o CreateBackend(comtype, letter, ip)
    BY <1>6, PushedBackend
  <2>3. m_backendvec' \in Seq(Backend)
    <3>1. /\ m_backendvec \in Seq(Backend)
          /\ CreateBackend(comtype, letter, ip) \in Seq(Backend)
      BY <1>1, BackendType DEF SharedType
    <3> QED BY ONLY <2>2, <3>1
  <2> QED BY <1>1, <1>6, <2>3 DEF PushBackend, SharedType
<1>7. CASE NameBackend
  <2>1. m_backendvec \in Seq(Backend)
    BY <1>1 DEF SharedType
  <2>2. m_backendvec' \in Seq(Backend)
    BY <1>7, <2>1, RenamedBackend, Overwrite
  <2> QED BY <1>1, <1>7, <2>2 DEF NameBackend, SharedType
<1>8. CASE Built
  BY <1>1, <1>8 DEF Built, InitLocals, SharedType
<1> QED
  BY <1>2, <1>3, <1>4, <1>5, <1>6, <1>7, <1>8 DEF InitThread

(* A write of m_bConnected, lost or not, keeps its type and length.        *)
LEMMA SetFlagType ==
  ASSUME m_bConnected \in Seq(BOOLEAN), NEW t, NEW k, NEW b \in BOOLEAN,
         SetFlag(t, k, b)
  PROVE  m_bConnected' \in Seq(BOOLEAN) /\ Len(m_bConnected') = Len(m_bConnected)
BY Overwrite DEF SetFlag

(* The connect thread keeps the types of the shared members.               *)
LEMMA ConnectKeepsShared == TypeOK /\ ConnectThread => SharedType'
<1> SUFFICES ASSUME TypeOK, ConnectThread PROVE SharedType'
  OBVIOUS
<1>1. SharedType /\ con \in ConnectLocals
  BY DEF TypeOK, LocalsType
<1>2. CASE UNCHANGED shared
  BY <1>1, <1>2 DEF shared, SharedType
<1>3. CASE CreateContext
  <2>1. m_backendvec[con.i].dev \in NodeId \cup {NoDev}
    <3>1. m_backendvec[con.i] \in Backend
      BY <1>1, <1>3 DEF CreateContext, SharedType, ConnectLocals, Position
    <3> QED BY <3>1 DEF Backend, AnyDev
  <2>2. link' \in [Ctx -> NodeId \cup {NoDev, Free}]
    BY <1>1, <1>3, <2>1 DEF CreateContext, SharedType
  <2> QED BY <1>1, <1>3, <2>2 DEF CreateContext, SharedType
<1>4. CASE ConnectFails
  BY <1>1, <1>4 DEF ConnectFails, SharedType
<1>5. CASE RaiseFlag
  BY <1>1, <1>5, SetFlagType DEF RaiseFlag, SharedType
<1>6. CASE StoreContext
  <2>1. m_mb_vec \in Seq(Pointer) /\ con.ctx \in Pointer
    BY <1>1 DEF SharedType, ConnectLocals
  <2>2. [m_mb_vec EXCEPT ![con.i] = con.ctx] \in Seq(Pointer)
    BY <2>1, Overwrite
  <2> QED BY <1>1, <1>6, <2>1, <2>2 DEF StoreContext, SharedType
<1>7. CASE SetFunction
  <2>1. PICK code \in Int :
          m_fTypevec' = IF con.i > Len(m_fTypevec) THEN Append(m_fTypevec, code)
                        ELSE [m_fTypevec EXCEPT ![con.i] = code]
    <3>1. Codes \subseteq Int
      BY ConfigAssumption DEF Codes, FuncNone
    <3>2. Found("connect", con.it) \subseteq NodeId
      BY DEF Found, TypeOK
    <3>3. FuncNone \in Int
      BY DEF FuncNone
    <3>4. \A n \in Found("connect", con.it) :
             Answer("connect", FuncCode[n], Codes, FuncNone) \subseteq Int
      BY <3>1, <3>2, <3>3, AnswerIn, ConfigAssumption
    <3> QED BY <1>7, <3>4 DEF SetFunction
  <2>2. m_fTypevec \in Seq(Int)
    BY <1>1 DEF SharedType
  <2>3. [m_fTypevec EXCEPT ![con.i] = code] \in Seq(Int)
    BY <2>2, Overwrite
  <2>4. m_fTypevec' \in Seq(Int)
    BY <2>1, <2>2, <2>3
  <2> QED BY <1>1, <1>7, <2>4 DEF SetFunction, SharedType
<1>8. CASE SetBuffer
  BY <1>1, <1>8 DEF SetBuffer, Slots, SharedType
<1>9. SizeCheck \/ SkipConnected \/ ConnectSucceeds \/ Login \/ LoginSpins
        \/ AllTried \/ SecondSizeCheck \/ RoundDone => UNCHANGED shared
  BY DEF SizeCheck, SkipConnected, ConnectSucceeds, Login, LoginSpins, AllTried,
         SecondSizeCheck, RoundDone
<1> QED
  BY <1>2, <1>3, <1>4, <1>5, <1>6, <1>7, <1>8, <1>9 DEF ConnectThread

(* The process thread keeps the types of the shared members.               *)
LEMMA ProcessKeepsShared == TypeOK /\ ProcessThread => SharedType'
<1> SUFFICES ASSUME TypeOK, ProcessThread PROVE SharedType'
  OBVIOUS
<1>1. SharedType /\ prc \in ProcessLocals
  BY DEF TypeOK, LocalsType
<1>2. CASE UNCHANGED shared
  BY <1>1, <1>2 DEF shared, SharedType
<1>3. CASE ReadContext
  BY <1>1, <1>3 DEF ReadContext, DataMapCleared, SharedType
<1>4. CASE Request
  <2>1. m_data_map' \in SUBSET Reading
    <3>1. CASE m_data_map' = m_data_map
      BY <1>1, <3>1 DEF SharedType
    <3>2. CASE \E fresh \in BOOLEAN :
                 m_data_map' = {[dev |-> link[prc.ctx], fresh |-> fresh]}
      <4>1. prc.ctx \in Ctx
        BY <1>1, <1>4 DEF Request, At, TypeOK, LocalsType, InUse, ProcessLocals, Pointer
      <4>2. link[prc.ctx] \in NodeId \cup {NoDev, Free}
        BY <1>1, <4>1 DEF SharedType
      <4> QED BY <3>2, <4>2 DEF Reading
    <3> QED BY <1>4, <3>1, <3>2 DEF Request
  <2> QED BY <1>1, <1>4, <2>1 DEF Request, SharedType
<1>5. CASE CheckResult
  BY <1>1, <1>5, SetFlagType DEF CheckResult, SharedType
<1>6. Poll \/ SkipChannel \/ TakeChannel \/ NothingRead \/ FindDevice \/ Publish
        \/ PollDone => UNCHANGED shared
  BY DEF Poll, SkipChannel, TakeChannel, NothingRead, FindDevice, Publish, PollDone
<1> QED
  BY <1>2, <1>3, <1>4, <1>5, <1>6 DEF ProcessThread

-----------------------------------------------------------------------------
(* The labels, and the locals in use at them.                              *)

(* A jump of a thread to one of its labels keeps the types of the labels.  *)
LEMMA GotoType ==
  ASSUME PcType, NEW t \in Thread, NEW l, Goto(t, l),
         t = "init" => l \in InitLabel,
         t = "connect" => l \in ConnectLabel,
         t = "process" => l \in ProcessLabel
  PROVE  PcType'
BY DEF PcType, Goto, Thread

(* Whichever thread dies, the process ends.                                *)
LEMMA DeathEnds == Dies => EndOfProcess
  BY DEF Dies, SubscriberDies, Die

(* The labels the threads start at.                                        *)
LEMMA StartLabels ==
  /\ StartPc \in [Thread -> InitLabel \cup ConnectLabel \cup ProcessLabel]
  /\ StartPc["init"] = "type" /\ StartPc["connect"] = "size"
  /\ StartPc["process"] = "poll"
<1>1. \A t \in Thread : StartPc[t] = CASE t = "init"    -> "type"
                               [] t = "connect" -> "size"
                               [] t = "process" -> "poll"
  BY DEF StartPc
<1>2. StartPc["init"] = "type" /\ StartPc["connect"] = "size" /\ StartPc["process"] = "poll"
  BY <1>1 DEF Thread
<1>3. \A t \in Thread : StartPc[t] \in InitLabel \cup ConnectLabel \cup ProcessLabel
  BY <1>2 DEF Thread, InitLabel, ConnectLabel, ProcessLabel
<1> QED BY <1>2, <1>3 DEF StartPc

(* Every step leaves every thread at one of its own labels.                *)
LEMMA PcNext == PcType /\ [Next]_vars => PcType'
<1> SUFFICES ASSUME PcType, [Next]_vars PROVE PcType'
  OBVIOUS
<1>1. ASSUME InitThread PROVE pc' = pc \/ \E l \in InitLabel : Goto("init", l)
  BY <1>1 DEF InitThread, ProtocolType, Scan, Row, Check, PushContext, PushFlag, PushBackend,
              NameBackend, Built, InitLabel
<1>2. ASSUME ConnectThread PROVE pc' = pc \/ \E l \in ConnectLabel : Goto("connect", l)
  BY <1>2 DEF ConnectThread, SizeCheck, SkipConnected, CreateContext,
              ConnectFails, AfterRefusal, ConnectSucceeds, RaiseFlag,
              StoreContext, Login, LoginSpins, AllTried, SecondSizeCheck, SetFunction,
              SetBuffer, RoundDone, ConnectLabel
<1>3. ASSUME ProcessThread PROVE pc' = pc \/ \E l \in ProcessLabel : Goto("process", l)
  BY <1>3 DEF ProcessThread, Poll, ReadContext, SkipChannel, TakeChannel,
              Request, CheckResult, NothingRead, AfterNothing, FindDevice,
              Publish, PollDone, ProcessLabel
<1>4. ASSUME Dies PROVE pc' = StartPc
  BY <1>4, DeathEnds DEF EndOfProcess
<1>5. ASSUME Edit \/ UNCHANGED vars PROVE pc' = pc
  BY <1>5 DEF Edit, vars
<1>6. CASE pc' = pc
  BY <1>6 DEF PcType
<1>7. CASE pc' = StartPc
  BY <1>7, StartLabels DEF PcType, InitLabel, ConnectLabel, ProcessLabel
<1> QED
  BY <1>1, <1>2, <1>3, <1>4, <1>5, <1>6, <1>7, GotoType DEF Next, Thread

(* The locals dereferenced at a label have been set on the way there.      *)
LEMMA InUseNext == TypeOK /\ [Next]_vars => InUse'
<1> SUFFICES ASSUME TypeOK, [Next]_vars PROVE InUse'
  OBVIOUS
<1>1. /\ pc \in [Thread -> InitLabel \cup ConnectLabel \cup ProcessLabel]
      /\ ini \in InitLocals /\ prc \in ProcessLocals /\ InUse
  BY DEF TypeOK, PcType, LocalsType
<1>2. CASE InitThread
  <2>1. prc' = prc /\ pc'["process"] = pc["process"]
    BY <1>1, <1>2 DEF InitThread, ProtocolType, Scan, Row, Check, PushContext, PushFlag,
          PushBackend, NameBackend, Built, Goto, Thread
  <2>2. CASE PushContext
    BY <1>1, <2>1, <2>2 DEF PushContext, InUse
  <2>3. CASE PushFlag \/ PushBackend
    BY <1>1, <2>1, <2>3 DEF PushFlag, PushBackend, InUse, At
  <2>4. CASE ProtocolType \/ Scan \/ Check \/ NameBackend \/ Built
    <3>1. pc'["init"] \in {"row", "scan", "push"}
      BY <1>1, <2>4 DEF ProtocolType, Scan, Check, NameBackend, Built, Goto, Thread
    <3> QED BY <1>1, <2>1, <3>1 DEF InUse
  <2>5. CASE Row
    BY <1>1, <2>1, <2>5 DEF Row, At, InUse
  <2> QED BY <1>2, <2>2, <2>3, <2>4, <2>5 DEF InitThread
<1>3. CASE ConnectThread
  <2>1. ini' = ini /\ prc' = prc
    BY <1>3 DEF ConnectThread, SizeCheck, SkipConnected, CreateContext, ConnectFails,
         ConnectSucceeds, RaiseFlag, StoreContext, Login, LoginSpins, AllTried,
         SecondSizeCheck, SetFunction, SetBuffer, RoundDone
  <2>2. pc' = pc \/ \E l \in ConnectLabel : Goto("connect", l)
    BY <1>3 DEF ConnectThread, SizeCheck, SkipConnected, CreateContext,
         ConnectFails, AfterRefusal, ConnectSucceeds, RaiseFlag,
         StoreContext, Login, LoginSpins, AllTried, SecondSizeCheck, SetFunction,
         SetBuffer, RoundDone, ConnectLabel
  <2>3. pc'["init"] = pc["init"] /\ pc'["process"] = pc["process"]
    BY <1>1, <2>2 DEF Goto, Thread
  <2> QED BY <1>1, <2>1, <2>3 DEF InUse
<1>4. CASE ProcessThread
  <2>1. ini' = ini
    BY <1>4 DEF ProcessThread, Poll, ReadContext, SkipChannel, TakeChannel,
         Request, CheckResult, NothingRead, FindDevice, Publish, PollDone
  <2>2. pc' = pc \/ \E l \in ProcessLabel : Goto("process", l)
    BY <1>4 DEF ProcessThread, Poll, ReadContext, SkipChannel, TakeChannel,
              Request, CheckResult, NothingRead, AfterNothing, FindDevice,
              Publish, PollDone, ProcessLabel
  <2>3. pc'["init"] = pc["init"]
    BY <1>1, <2>2 DEF Goto, Thread
  <2>4. CASE Poll \/ ReadContext \/ SkipChannel \/ NothingRead \/ Publish \/ PollDone
    <3>1. pc'["process"] \in {"poll", "ctx", "test"}
      BY <1>1, <2>4 DEF Poll, ReadContext, SkipChannel, NothingRead, AfterNothing,
            Publish, PollDone, Goto, Thread
    <3> QED BY <1>1, <2>1, <2>3, <3>1 DEF InUse
  <2>5. CASE TakeChannel
    BY <1>1, <2>1, <2>3, <2>5 DEF TakeChannel, InUse
  <2>6. CASE Request \/ CheckResult \/ FindDevice
    <3>1. prc'.ctx = prc.ctx
      BY <1>1, <2>6 DEF Request, CheckResult, FindDevice, ProcessLocals
    <3>2. prc.ctx # NULL
      BY <1>1, <2>6 DEF Request, CheckResult, FindDevice, At, InUse
    <3> QED BY <1>1, <2>1, <2>3, <3>1, <3>2 DEF InUse
  <2> QED BY <1>4, <2>4, <2>5, <2>6 DEF ProcessThread
<1>5. CASE Dies
  BY <1>5, DeathEnds, StartLabels DEF EndOfProcess, InUse
<1>6. CASE Edit \/ UNCHANGED vars
  BY <1>1, <1>6 DEF Edit, vars, InUse
<1> QED
  BY <1>2, <1>3, <1>4, <1>5, <1>6 DEF Next

(* Neither an edit, nor a death, nor a stutter touches a type.             *)
LEMMA OtherKeepsTypes ==
  TypeOK /\ (Edit \/ Dies \/ UNCHANGED vars)
    => SharedType' /\ LocalsType'
<1> SUFFICES ASSUME TypeOK, Edit \/ Dies \/ UNCHANGED vars
             PROVE  SharedType' /\ LocalsType'
  OBVIOUS
<1>1. CASE Dies
  <2>1. LocalsType'
    BY <1>1, DeathEnds, StartLocals DEF EndOfProcess, LocalsType
  <2>2. SharedType'
    BY <1>1, DeathEnds DEF EndOfProcess, SharedType
  <2> QED BY <2>1, <2>2
<1>2. CASE Edit \/ UNCHANGED vars
  BY <1>2 DEF Edit, vars, shared, TypeOK, SharedType, LocalsType
<1> QED BY <1>1, <1>2

(* The node table, the edits and the crash flag keep their types.          *)
LEMMA EnvironmentType ==
  TypeOK /\ [Next]_vars
    => node' \subseteq NodeId /\ edits' \in 0..MaxEdits /\ crashed' \in BOOLEAN
<1> SUFFICES ASSUME TypeOK, [Next]_vars
             PROVE  node' \subseteq NodeId /\ edits' \in 0..MaxEdits /\ crashed' \in BOOLEAN
  OBVIOUS
<1>1. CASE InitThread
  BY <1>1 DEF TypeOK, InitThread, ProtocolType, Scan, Row, Check, PushContext, PushFlag,
         PushBackend, NameBackend, Built
<1>2. CASE ConnectThread
  BY <1>2 DEF TypeOK, ConnectThread, SizeCheck, SkipConnected, CreateContext,
         ConnectFails, ConnectSucceeds, RaiseFlag, StoreContext, Login, LoginSpins,
         AllTried, SecondSizeCheck, SetFunction, SetBuffer, RoundDone
<1>3. CASE ProcessThread
  BY <1>3 DEF TypeOK, ProcessThread, Poll, ReadContext, SkipChannel, TakeChannel,
         Request, CheckResult, NothingRead, FindDevice, Publish, PollDone
<1>4. CASE Edit
  BY <1>4, ConfigAssumption DEF TypeOK, Edit
<1>5. CASE Dies
  BY <1>5, DeathEnds DEF TypeOK, EndOfProcess
<1>6. CASE UNCHANGED vars
  BY <1>6 DEF TypeOK, vars
<1> QED
  BY <1>1, <1>2, <1>3, <1>4, <1>5, <1>6 DEF Next

(* The gateway starts with everything of its type.                         *)
LEMMA TypeInit == Init => TypeOK
<1> SUFFICES ASSUME Init PROVE TypeOK
  OBVIOUS
<1>1. node \subseteq NodeId /\ edits \in 0..MaxEdits /\ crashed \in BOOLEAN
  <2>1. node = InitNode /\ edits = 0 /\ crashed = FALSE
    BY DEF Init
  <2>2. InitNode \subseteq NodeId /\ MaxEdits \in Nat
    BY ConfigAssumption
  <2>3. 0 \in 0..MaxEdits
    BY <2>2
  <2> QED BY <2>1, <2>2, <2>3
<1>2. SharedType
  BY DEF Init, SharedType
<1>3. PcType /\ InUse
  BY StartLabels DEF Init, PcType, InUse, InitLabel, ConnectLabel, ProcessLabel
<1>4. LocalsType
  BY StartLocals DEF Init, LocalsType
<1> QED BY <1>1, <1>2, <1>3, <1>4 DEF TypeOK

(* Every step keeps everything of its type.                                *)
LEMMA TypeNext == TypeOK /\ [Next]_vars => TypeOK'
<1> SUFFICES ASSUME TypeOK, [Next]_vars PROVE TypeOK'
  OBVIOUS
<1>1. SharedType'
  BY InitKeepsShared, ConnectKeepsShared, ProcessKeepsShared, OtherKeepsTypes
     DEF Next
<1>2. LocalsType'
  BY InitKeepsLocals, ConnectKeepsLocals, ProcessKeepsLocals, OtherKeepsTypes
     DEF Next
<1>3. PcType' /\ InUse'
  BY PcNext, InUseNext DEF TypeOK
<1> QED BY <1>1, <1>2, <1>3, EnvironmentType DEF TypeOK

(* Every reachable state has its type, whatever the node table holds and   *)
(* however the threads interleave.                                         *)
THEOREM TypeCorrect == Spec => []TypeOK
BY TypeInit, TypeNext, PTL DEF Spec

-----------------------------------------------------------------------------
(* The vectors grow in step.                                               *)

(* What the proofs below use of the types.                                 *)
LEMMA VectorLengths ==
  ASSUME TypeOK
  PROVE  /\ Len(m_mb_vec) \in Nat /\ Len(m_bConnected) \in Nat
         /\ Len(m_backendvec) \in Nat
         /\ con.i \in Nat /\ prc.i \in Nat /\ ini \in InitLocals
         /\ pc \in [Thread -> InitLabel \cup ConnectLabel \cup ProcessLabel]
         /\ m_mb_vec \in Seq(Pointer) /\ m_bConnected \in Seq(BOOLEAN)
         /\ m_backendvec \in Seq(Backend)
BY DEF TypeOK, PcType, SharedType, LocalsType, ConnectLocals, ProcessLocals, Position

(* The push_backs of the init thread keep the vectors in step.             *)
LEMMA InitKeepsStep == TypeOK /\ VectorsInStep /\ InitThread => VectorsInStep'
<1> SUFFICES ASSUME TypeOK, VectorsInStep, InitThread PROVE VectorsInStep'
  OBVIOUS
<1> USE VectorLengths DEF VectorsInStep, ChannelsInRange
<1>1. con' = con /\ prc' = prc
  BY DEF InitThread, ProtocolType, Scan, Row, Check, PushContext, PushFlag, PushBackend,
         NameBackend, Built
<1>2. pc' = pc \/ \E l \in InitLabel : Goto("init", l)
  BY DEF InitThread, ProtocolType, Scan, Row, Check, PushContext, PushFlag, PushBackend,
         NameBackend, Built, InitLabel
<1>3. pc'["connect"] = pc["connect"] /\ pc'["process"] = pc["process"]
  BY <1>2 DEF Goto, Thread
<1>4. CASE ProtocolType \/ Scan \/ Row \/ Check \/ Built
  <2>1. m_mb_vec' = m_mb_vec /\ m_bConnected' = m_bConnected /\ m_backendvec' = m_backendvec
    BY <1>4 DEF ProtocolType, Scan, Row, Check, Built, shared
  <2>2. /\ pc["init"] \in {"type", "scan", "row", "push"}
        /\ pc'["init"] \in {"scan", "row", "push"}
    BY <1>4 DEF ProtocolType, Scan, Row, Check, Built, At, Goto, Thread
  <2> QED BY <1>1, <1>3, <2>1, <2>2
<1>5. CASE PushContext
  <2>1. Len(m_mb_vec') = Len(m_mb_vec) + 1
    <3>1. m_mb_vec' = Append(m_mb_vec, NULL)
      BY <1>5 DEF PushContext, ContextsGrown
    <3>2. m_mb_vec \in Seq(Pointer) /\ NULL \in Pointer
      BY StepTypes
    <3> QED BY ONLY <3>1, <3>2
  <2>2. m_bConnected' = m_bConnected /\ m_backendvec' = m_backendvec
    BY <1>5 DEF PushContext
  <2>3. pc["init"] = "push" /\ pc'["init"] = "flag"
    BY <1>5 DEF PushContext, At, Goto, Thread
  <2> QED BY <1>1, <1>3, <2>1, <2>2, <2>3
<1>6. CASE PushFlag
  <2>1. Len(m_bConnected') = Len(m_bConnected) + 1
    BY <1>6 DEF PushFlag
  <2>2. m_mb_vec' = m_mb_vec /\ m_backendvec' = m_backendvec
    BY <1>6 DEF PushFlag
  <2>3. pc["init"] = "flag" /\ pc'["init"] = "backend"
    BY <1>6 DEF PushFlag, At, Goto, Thread
  <2> QED BY <1>1, <1>3, <2>1, <2>2, <2>3
<1>7. CASE PushBackend
  <2>1. PICK comtype \in ComTypes, letter \in {"N", "E", "O"}, ip \in AnyDev :
          m_backendvec' = m_backendvec \o CreateBackend(comtype, letter, ip)
    BY <1>7, PushedBackend
  <2>2. Len(m_backendvec') \in Len(m_backendvec)..Len(m_backendvec) + 1
    <3>1. /\ m_backendvec \in Seq(Backend)
          /\ CreateBackend(comtype, letter, ip) \in Seq(Backend)
          /\ Len(CreateBackend(comtype, letter, ip)) \in {0, 1}
      BY BackendType
    <3> QED BY ONLY <2>1, <3>1
  <2>3. m_mb_vec' = m_mb_vec /\ m_bConnected' = m_bConnected
    BY <1>7 DEF PushBackend
  <2>4. pc["init"] = "backend" /\ pc'["init"] = "dev"
    BY <1>7 DEF PushBackend, At, Goto, Thread
  <2> QED BY <1>1, <1>3, <2>2, <2>3, <2>4
<1>8. CASE NameBackend
  <2>1. Len(m_backendvec') = Len(m_backendvec)
    BY <1>8, RenamedBackend, Overwrite
  <2>2. m_mb_vec' = m_mb_vec /\ m_bConnected' = m_bConnected
    BY <1>8 DEF NameBackend
  <2>3. pc["init"] = "dev" /\ pc'["init"] = "push"
    BY <1>8 DEF NameBackend, At, Goto, Thread
  <2> QED BY <1>1, <1>3, <2>1, <2>2, <2>3
<1> QED BY <1>4, <1>5, <1>6, <1>7, <1>8 DEF InitThread

(* The connect thread overwrites elements, and appends only to m_fTypevec. *)
LEMMA ConnectKeepsLengths ==
  TypeOK /\ ConnectThread =>
    /\ Len(m_mb_vec') = Len(m_mb_vec) /\ Len(m_bConnected') = Len(m_bConnected)
    /\ m_backendvec' = m_backendvec /\ prc' = prc
    /\ pc'["init"] = pc["init"] /\ pc'["process"] = pc["process"]
<1> SUFFICES ASSUME TypeOK, ConnectThread
             PROVE  /\ Len(m_mb_vec') = Len(m_mb_vec)
                    /\ Len(m_bConnected') = Len(m_bConnected)
                    /\ m_backendvec' = m_backendvec /\ prc' = prc
                    /\ pc'["init"] = pc["init"] /\ pc'["process"] = pc["process"]
  OBVIOUS
<1>1. m_backendvec' = m_backendvec /\ prc' = prc
  BY DEF ConnectThread, SizeCheck, SkipConnected, CreateContext, ConnectFails,
         ConnectSucceeds, RaiseFlag, StoreContext, Login, LoginSpins, AllTried,
         SecondSizeCheck, SetFunction, SetBuffer, RoundDone, shared
<1>2. pc' = pc \/ \E l \in ConnectLabel : Goto("connect", l)
  BY DEF ConnectThread, SizeCheck, SkipConnected, CreateContext,
         ConnectFails, AfterRefusal, ConnectSucceeds, RaiseFlag, StoreContext,
         Login, LoginSpins, AllTried, SecondSizeCheck, SetFunction, SetBuffer, RoundDone,
         ConnectLabel
<1>3. pc'["init"] = pc["init"] /\ pc'["process"] = pc["process"]
  BY <1>2, VectorLengths DEF Goto, Thread
<1>4. Len(m_bConnected') = Len(m_bConnected)
  <2>1. m_bConnected' = m_bConnected \/ RaiseFlag
    BY DEF ConnectThread, SizeCheck, SkipConnected, CreateContext, ConnectFails,
           ConnectSucceeds, StoreContext, Login, LoginSpins, AllTried, SecondSizeCheck,
           SetFunction, SetBuffer, RoundDone, shared
  <2> QED BY <2>1, VectorLengths, SetFlagType DEF RaiseFlag
<1>5. Len(m_mb_vec') = Len(m_mb_vec)
  <2>1. m_mb_vec' = m_mb_vec \/ StoreContext
    BY DEF ConnectThread, SizeCheck, SkipConnected, CreateContext, ConnectFails,
           ConnectSucceeds, RaiseFlag, Login, LoginSpins, AllTried, SecondSizeCheck,
           SetFunction, SetBuffer, RoundDone, shared
  <2>2. con.ctx \in Pointer
    BY DEF TypeOK, LocalsType, ConnectLocals
  <2>3. Len([m_mb_vec EXCEPT ![con.i] = con.ctx]) = Len(m_mb_vec)
    BY <2>2, VectorLengths, Overwrite
  <2> QED BY <2>1, <2>3 DEF StoreContext
<1> QED BY <1>1, <1>3, <1>4, <1>5

(* The connect thread opens no channel past the backends.                  *)
LEMMA ConnectKeepsStep == TypeOK /\ VectorsInStep /\ ConnectThread => VectorsInStep'
<1> SUFFICES ASSUME TypeOK, VectorsInStep, ConnectThread PROVE VectorsInStep'
  OBVIOUS
<1> DEFINE Opening == {"connect", "up", "store", "login"}
<1>1. /\ Len(m_mb_vec') = Len(m_mb_vec) /\ Len(m_bConnected') = Len(m_bConnected)
      /\ m_backendvec' = m_backendvec /\ prc' = prc
      /\ pc'["init"] = pc["init"] /\ pc'["process"] = pc["process"]
  BY ConnectKeepsLengths
<1>2. pc'["connect"] \in Opening => con'.i = con.i /\ con.i <= Len(m_backendvec)
  <2>1. CASE CreateContext
    BY <2>1 DEF CreateContext, TypeOK, LocalsType, ConnectLocals
  <2>2. CASE ConnectSucceeds \/ RaiseFlag \/ StoreContext
    BY <2>2 DEF ConnectSucceeds, RaiseFlag, StoreContext, At, VectorsInStep,
                ChannelsInRange
  <2>3. CASE ~(CreateContext \/ ConnectSucceeds \/ RaiseFlag \/ StoreContext)
    <3>1. pc'["connect"] \in {"size", "try", "spin", "size2", "func", "buffer"}
      BY <2>3, VectorLengths DEF ConnectThread, SizeCheck, SkipConnected,
         ConnectFails, AfterRefusal, Login, LoginSpins, AllTried, SecondSizeCheck,
         SetFunction, SetBuffer, RoundDone, At, Goto, Thread
    <3> QED BY <3>1
  <2> QED BY <2>1, <2>2, <2>3
<1> QED BY <1>1, <1>2, VectorLengths DEF VectorsInStep, ChannelsInRange

(* The process thread polls no channel past the contexts.                  *)
LEMMA ProcessKeepsStep == TypeOK /\ VectorsInStep /\ ProcessThread => VectorsInStep'
<1> SUFFICES ASSUME TypeOK, VectorsInStep, ProcessThread PROVE VectorsInStep'
  OBVIOUS
<1>1. m_backendvec' = m_backendvec /\ m_mb_vec' = m_mb_vec /\ con' = con
  BY DEF ProcessThread, Poll, ReadContext, SkipChannel, TakeChannel, Request,
         CheckResult, NothingRead, FindDevice, Publish, PollDone, shared
<1>2. pc' = pc \/ \E l \in ProcessLabel : Goto("process", l)
  BY DEF ProcessThread, Poll, ReadContext, SkipChannel, TakeChannel,
         Request, CheckResult, NothingRead, AfterNothing, FindDevice,
         Publish, PollDone, ProcessLabel
<1>3. pc'["init"] = pc["init"] /\ pc'["connect"] = pc["connect"]
  BY <1>2, VectorLengths DEF Goto, Thread
<1>4. Len(m_bConnected') = Len(m_bConnected)
  <2>1. m_bConnected' = m_bConnected \/ SetFlag("process", prc.i, FALSE)
    BY DEF ProcessThread, Poll, ReadContext, SkipChannel, TakeChannel, Request,
           CheckResult, NothingRead, FindDevice, Publish, PollDone, shared
  <2> QED BY <2>1, VectorLengths, SetFlagType
<1>5. pc'["process"] \in {"test", "switch", "ret", "dev", "send"}
        => prc'.i = prc.i /\ prc.i <= Len(m_mb_vec)
  <2>1. CASE ReadContext
    BY <2>1 DEF ReadContext, TypeOK, LocalsType, ProcessLocals
  <2>2. CASE TakeChannel \/ Request \/ CheckResult \/ FindDevice
    BY <2>2 DEF TakeChannel, Request, CheckResult, FindDevice, At, VectorsInStep,
                ChannelsInRange, TypeOK, LocalsType, ProcessLocals
  <2>3. CASE ~(ReadContext \/ TakeChannel \/ Request \/ CheckResult \/ FindDevice)
    <3>1. pc'["process"] \in {"poll", "ctx"}
      BY <2>3, VectorLengths DEF ProcessThread, Poll, SkipChannel, NothingRead,
         AfterNothing, Publish, PollDone, Goto, Thread
    <3> QED BY <3>1
  <2> QED BY <2>1, <2>2, <2>3
<1> QED BY <1>1, <1>3, <1>4, <1>5, VectorLengths DEF VectorsInStep, ChannelsInRange

(* No vector has an element at start.                                      *)
LEMMA StepInit == Init => VectorsInStep
BY StartLabels DEF Init, VectorsInStep, ChannelsInRange

(* VectorsInStep is inductive, given the types.                            *)
LEMMA StepNext == TypeOK /\ VectorsInStep /\ [Next]_vars => VectorsInStep'
<1> SUFFICES ASSUME TypeOK, VectorsInStep, [Next]_vars PROVE VectorsInStep'
  OBVIOUS
<1>1. CASE Dies
  BY <1>1, DeathEnds, StartLabels DEF EndOfProcess, VectorsInStep, ChannelsInRange
<1>2. CASE Edit \/ UNCHANGED vars
  BY <1>2 DEF Edit, vars, shared, VectorsInStep, ChannelsInRange
<1> QED
  BY <1>1, <1>2, InitKeepsStep, ConnectKeepsStep, ProcessKeepsStep DEF Next

(* The vectors keep in step, in the middle of every rebuild: whatever is   *)
(* edited while the gateway runs, the connect thread never leaves them     *)
(* with the channel it opens, nor the process thread m_mb_vec.             *)
THEOREM VectorsAlwaysInStep == Spec => []VectorsInStep
BY TypeCorrect, StepInit, StepNext, PTL DEF Spec

-----------------------------------------------------------------------------
(* The contexts the threads hold are alive.                                *)

(* What the invariant reads: a step that leaves all of it alone keeps it.  *)
LEMMA OwnedUnchanged ==
  ASSUME ContextsOwned, m_mb_vec' = m_mb_vec, link' = link,
         prc'.ctx = prc.ctx \/ prc'.ctx = NULL,
         pc'["connect"] \in {"connect", "up", "store"}
           => pc["connect"] \in {"connect", "up", "store"} /\ con'.ctx = con.ctx
  PROVE  ContextsOwned'
BY DEF ContextsOwned, ContextsLive, Referenced, Table

(* A rebuild appends NULL, and touches no context.                         *)
LEMMA InitKeepsOwned == TypeOK /\ ContextsOwned /\ InitThread => ContextsOwned'
<1> SUFFICES ASSUME TypeOK, ContextsOwned, InitThread PROVE ContextsOwned'
  OBVIOUS
<1>1. con' = con /\ prc' = prc /\ link' = link
  BY DEF InitThread, ProtocolType, Scan, Row, Check, PushContext, PushFlag, PushBackend,
         NameBackend, Built, shared
<1>2. pc' = pc \/ \E l \in InitLabel : Goto("init", l)
  BY DEF InitThread, ProtocolType, Scan, Row, Check, PushContext, PushFlag, PushBackend,
         NameBackend, Built, InitLabel
<1>3. pc'["connect"] = pc["connect"]
  BY <1>2, VectorLengths DEF Goto, Thread
<1>4. CASE m_mb_vec' = m_mb_vec
  BY <1>1, <1>3, <1>4, OwnedUnchanged
<1>5. CASE PushContext
  <2>1. m_mb_vec' = Append(m_mb_vec, NULL) /\ m_mb_vec \in Seq(Pointer)
    BY <1>5, VectorLengths DEF PushContext, ContextsGrown
  <2>2. /\ Len(m_mb_vec') = Len(m_mb_vec) + 1 /\ Len(m_mb_vec) \in Nat
        /\ m_mb_vec'[Len(m_mb_vec) + 1] = NULL
        /\ \A k \in 1..Len(m_mb_vec) : m_mb_vec'[k] = m_mb_vec[k]
    BY <2>1
  <2>3. Table' = Table
    BY <2>2 DEF Table
  <2>4. Referenced' = Referenced
    BY <1>1, <2>3 DEF Referenced
  <2>5. ASSUME NEW k \in 1..Len(m_mb_vec'), NEW l \in 1..Len(m_mb_vec'),
               m_mb_vec'[k] = m_mb_vec'[l], m_mb_vec'[k] # NULL
        PROVE  k = l
    <3>1. k \in 1..Len(m_mb_vec) /\ l \in 1..Len(m_mb_vec)
      BY <2>2, <2>5
    <3> QED BY <2>2, <2>5, <3>1 DEF ContextsOwned, ContextsLive
  <2> QED BY <1>1, <1>3, <2>4, <2>5 DEF ContextsOwned, ContextsLive
<1>6. m_mb_vec' = m_mb_vec \/ PushContext
  BY DEF InitThread, ProtocolType, Scan, Row, Check, PushFlag, PushBackend, NameBackend, Built, shared
<1> QED BY <1>4, <1>5, <1>6

(* The connect thread frees only the context it has just created.          *)
LEMMA ConnectKeepsOwned ==
  TypeOK /\ VectorsInStep /\ ContextsOwned /\ ConnectThread => ContextsOwned'
<1> SUFFICES ASSUME TypeOK, VectorsInStep, ContextsOwned, ConnectThread
             PROVE  ContextsOwned'
  OBVIOUS
<1>1. prc' = prc
  BY ConnectKeepsLengths
<1>2. /\ link \in [Ctx -> NodeId \cup {NoDev, Free}] /\ con \in ConnectLocals
      /\ m_mb_vec \in Seq(Pointer) /\ prc.ctx \in Pointer
  BY DEF TypeOK, SharedType, LocalsType, ProcessLocals
<1>3. CASE CreateContext
  <2>1. Referenced' = Referenced
    BY <1>1, <1>3 DEF CreateContext, Referenced, Table
  <2>2. PICK c \in {x \in Ctx : link[x] = Free \/ x \notin Referenced} :
          /\ link' = [x \in Ctx |->
                        IF x = c THEN m_backendvec[con.i].dev
                        ELSE IF x \in Referenced THEN link[x] ELSE Free]
          /\ con' = [con EXCEPT !.ctx = c]
    BY <1>3 DEF CreateContext
  <2>3. c \notin Referenced /\ c \in Ctx
    BY <2>2 DEF ContextsOwned, ContextsLive
  <2>4. m_backendvec[con.i].dev # Free
    <3>1. m_backendvec[con.i] \in Backend
      BY <1>3, <1>2 DEF CreateContext, TypeOK, SharedType, ConnectLocals, Position
    <3>2. m_backendvec[con.i].dev \in NodeId \cup {NoDev}
      BY <3>1 DEF Backend, AnyDev
    <3> QED BY <3>2, NodeIdAssumption DEF NoDev, Free
  <2>5. link'[c] # Free /\ con'.ctx = c
    BY <1>2, <2>2, <2>3, <2>4 DEF ConnectLocals
  <2>6. Referenced \subseteq Ctx
    BY <1>2 DEF Referenced, Table, Pointer
  <2>7. \A x \in Referenced : link'[x] = link[x]
    BY <2>2, <2>3, <2>6
  <2>8. m_mb_vec' = m_mb_vec
    BY <1>3 DEF CreateContext
  <2> QED
    BY <2>1, <2>3, <2>5, <2>7, <2>8 DEF ContextsOwned, ContextsLive
<1>4. CASE ConnectFails
  <2>1. /\ link' = [link EXCEPT ![con.ctx] = Free] /\ m_mb_vec' = m_mb_vec
        /\ con.ctx \in Ctx \ Referenced
    BY <1>4 DEF ConnectFails, At, ContextsOwned
  <2>2. Referenced' = Referenced /\ Referenced \subseteq Ctx
    BY <1>1, <1>2, <2>1 DEF Referenced, Table, Pointer
  <2>3. \A x \in Referenced : link'[x] = link[x]
    BY <1>2, <2>1, <2>2
  <2>4. pc'["connect"] = "try"
    BY <1>4, VectorLengths DEF ConnectFails, AfterRefusal, Goto, Thread
  <2> QED
    BY <2>1, <2>2, <2>3, <2>4 DEF ContextsOwned, ContextsLive
<1>5. CASE StoreContext
  <2>1. pc'["connect"] = "login" /\ link' = link
    BY <1>5, VectorLengths DEF StoreContext, Goto, Thread
  <2>2. CASE m_mb_vec' = m_mb_vec
    BY <1>1, <2>1, <2>2, OwnedUnchanged
  <2>3. CASE m_mb_vec' = [m_mb_vec EXCEPT ![con.i] = con.ctx]
    <3>1. /\ Len(m_mb_vec') = Len(m_mb_vec) /\ Len(m_mb_vec) \in Nat
          /\ \A k \in 1..Len(m_mb_vec) :
               m_mb_vec'[k] = IF k = con.i THEN con.ctx ELSE m_mb_vec[k]
      BY <1>2, <2>3
    <3>2. con.ctx \in Ctx \ Referenced /\ link[con.ctx] # Free
      BY <1>5 DEF StoreContext, At, ContextsOwned
    <3>3. Table' \subseteq Table \cup {con.ctx}
      BY <3>1 DEF Table
    <3>4. \A x \in Referenced' : link'[x] # Free
      BY <1>1, <2>1, <3>2, <3>3 DEF Referenced, ContextsOwned, ContextsLive
    <3>5. \A k \in 1..Len(m_mb_vec) : m_mb_vec[k] # con.ctx \/ con.ctx = NULL
      BY <3>2 DEF Referenced, Table
    <3>6. con.ctx # NULL
      BY <3>2, ConfigAssumption
    <3>7. ASSUME NEW k \in 1..Len(m_mb_vec'), NEW l \in 1..Len(m_mb_vec'),
                 m_mb_vec'[k] = m_mb_vec'[l], m_mb_vec'[k] # NULL
          PROVE  k = l
      BY <3>1, <3>5, <3>6, <3>7 DEF ContextsOwned, ContextsLive
    <3> QED BY <2>1, <3>4, <3>7 DEF ContextsOwned, ContextsLive
  <2> QED BY <1>5, <2>2, <2>3 DEF StoreContext
<1>6. CASE ~(CreateContext \/ ConnectFails \/ StoreContext)
  <2>1. m_mb_vec' = m_mb_vec /\ link' = link
    BY <1>6 DEF ConnectThread, SizeCheck, SkipConnected, ConnectSucceeds, RaiseFlag,
           Login, LoginSpins, AllTried, SecondSizeCheck, SetFunction, SetBuffer, RoundDone, shared
  <2>2. pc'["connect"] \in {"connect", "up", "store"}
          => pc["connect"] \in {"connect", "up", "store"} /\ con'.ctx = con.ctx
    <3>1. CASE ConnectSucceeds \/ RaiseFlag
      BY <3>1 DEF ConnectSucceeds, RaiseFlag, At
    <3>2. CASE ~(ConnectSucceeds \/ RaiseFlag)
      <4>1. pc'["connect"] \in {"size", "try", "spin", "size2", "func", "buffer"}
        BY <1>6, <3>2, VectorLengths DEF ConnectThread, SizeCheck, SkipConnected,
           Login, LoginSpins, AllTried, SecondSizeCheck, SetFunction, SetBuffer, RoundDone,
           At, Goto, Thread
      <4> QED BY <4>1
    <3> QED BY <3>1, <3>2
  <2> QED BY <1>1, <2>1, <2>2, OwnedUnchanged
<1> QED BY <1>3, <1>4, <1>5, <1>6

(* The process thread takes its context from the table.                    *)
LEMMA ProcessKeepsOwned == TypeOK /\ ContextsOwned /\ ProcessThread => ContextsOwned'
<1> SUFFICES ASSUME TypeOK, ContextsOwned, ProcessThread PROVE ContextsOwned'
  OBVIOUS
<1>1. m_mb_vec' = m_mb_vec /\ link' = link /\ con' = con
  BY DEF ProcessThread, Poll, ReadContext, SkipChannel, TakeChannel, Request,
         CheckResult, NothingRead, FindDevice, Publish, PollDone, shared
<1>2. pc' = pc \/ \E l \in ProcessLabel : Goto("process", l)
  BY DEF ProcessThread, Poll, ReadContext, SkipChannel, TakeChannel,
         Request, CheckResult, NothingRead, AfterNothing, FindDevice,
         Publish, PollDone, ProcessLabel
<1>3. pc'["connect"] = pc["connect"]
  BY <1>2, VectorLengths DEF Goto, Thread
<1>4. prc \in ProcessLocals
  BY DEF TypeOK, LocalsType
<1>5. CASE ReadContext
  <2>1. prc'.ctx = m_mb_vec[prc.i] /\ prc.i \in 1..Len(m_mb_vec)
    BY <1>4, <1>5 DEF ReadContext, ProcessLocals, Position
  <2>2. Referenced' \subseteq Referenced
    BY <1>1, <2>1 DEF Referenced, Table
  <2> QED BY <1>1, <1>3, <2>2 DEF ContextsOwned, ContextsLive
<1>6. CASE ~ReadContext
  <2>1. prc'.ctx = prc.ctx \/ prc'.ctx = NULL
    <3>1. ASSUME NextPolled PROVE prc'.ctx = NULL
      BY <1>4, <3>1 DEF NextPolled, ProcessLocals
    <3>2. CASE SkipChannel \/ NothingRead \/ Publish
      BY <3>1, <3>2 DEF SkipChannel, NothingRead, Publish
    <3>3. CASE PollDone
      BY <3>3 DEF PollDone, StartPrc
    <3>4. CASE Poll \/ TakeChannel \/ Request \/ CheckResult \/ FindDevice
      BY <1>4, <3>4 DEF Poll, TakeChannel, Request, CheckResult, FindDevice,
                        ProcessLocals
    <3> QED BY <1>6, <3>2, <3>3, <3>4 DEF ProcessThread
  <2> QED BY <1>1, <1>3, <2>1, OwnedUnchanged
<1> QED BY <1>5, <1>6

(* No context is referenced at start.                                      *)
LEMMA OwnedInit == Init => ContextsOwned
BY StartLabels DEF Init, ContextsOwned, ContextsLive, Referenced, Table, StartPrc

(* ContextsOwned is inductive, given the types and the lengths.            *)
LEMMA OwnedNext ==
  TypeOK /\ VectorsInStep /\ ContextsOwned /\ [Next]_vars => ContextsOwned'
<1> SUFFICES ASSUME TypeOK, VectorsInStep, ContextsOwned, [Next]_vars
             PROVE  ContextsOwned'
  OBVIOUS
<1>1. CASE Dies
  BY <1>1, DeathEnds, StartLabels DEF EndOfProcess, ContextsOwned, ContextsLive,
         Referenced, Table, StartPrc
<1>2. CASE Edit \/ UNCHANGED vars
  BY <1>2, OwnedUnchanged DEF Edit, vars, shared
<1> QED
  BY <1>1, <1>2, InitKeepsOwned, ConnectKeepsOwned, ProcessKeepsOwned DEF Next

(* However reconnections, polls and rebuilds interleave, no thread ever    *)
(* holds a context that modbus_free was called on, no two channels come to *)
(* share one, and the one being opened is nobody else's.                   *)
THEOREM ContextsAlwaysOwned == Spec => []ContextsOwned
BY TypeCorrect, VectorsAlwaysInStep, OwnedInit, OwnedNext, PTL DEF Spec

=============================================================================
