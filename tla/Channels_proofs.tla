---------------------------- MODULE Channels_proofs ----------------------------
(* Which node a channel of ModbusHandler stands for: the iterators of the  *)
(* connect and of the process thread stand on the node of the channel they *)
(* work on, or behind it.  So it is as long as no node is added, and after *)
(* the first edit unless the channels are other than the table's.  And     *)
(* while nothing is edited at all, what is published under a device id     *)
(* comes from that device.                                                 *)
EXTENDS Rebuild_proofs, SequenceTheorems

-----------------------------------------------------------------------------
(* The places of the nodes: the node of channel i has i - 1 nodes before.  *)

Before(S, n) == {m \in S : m < n}
Place(S, n, i) == n \in S /\ Cardinality(Before(S, n)) = i - 1

(* An iterator that keeps up with the channels, and one that may lag.      *)
KeepsUp(S, n, i) == i <= Cardinality(S) => Place(S, n, i)
Lags(S, n, i) ==
  i <= Cardinality(S) => n \in S /\ Cardinality(Before(S, n)) <= i - 1

(* Sets of nodes are sets of positive numbers, and can be counted.         *)
LEMMA NodesCount ==
  ASSUME NEW S \in SUBSET NodeId
  PROVE  /\ Cardinality(S) \in Nat /\ END \notin S
         /\ \A n \in S : n \in Nat
         /\ \A n : Before(S, n) \subseteq NodeId /\ Cardinality(Before(S, n)) \in Nat
<1>1. END \notin S /\ \A n \in S : n \in Nat
  BY NodeIdAssumption DEF END
<1>2. \A n : Before(S, n) \in SUBSET NodeId
  BY DEF Before
<1> QED BY <1>1, <1>2, Countable

(* One more node before those after n: n itself.                           *)
LEMMA UpTo ==
  ASSUME NEW S \in SUBSET NodeId, NEW n \in S
  PROVE  /\ Before(S, n) \cup {n} = {m \in S : m <= n}
         /\ Cardinality(Before(S, n) \cup {n}) = Cardinality(Before(S, n)) + 1
<1>1. n \in Nat /\ n \notin Before(S, n)
  BY NodesCount DEF Before
<1>2. Before(S, n) \cup {n} = {m \in S : m <= n}
  <2>1. \A m \in S : m <= n <=> m < n \/ m = n
    BY <1>1, NodesCount
  <2> QED BY <2>1 DEF Before
<1> QED BY <1>1, <1>2, NodesCount, Countable

(* Two nodes have two places.                                              *)
LEMMA SamePlace ==
  ASSUME NEW S \in SUBSET NodeId, NEW m, NEW n, NEW i, Place(S, m, i), Place(S, n, i)
  PROVE  m = n
<1>1. m \in S /\ n \in S /\ m \in Nat /\ n \in Nat
  BY NodesCount DEF Place
<1>2. ASSUME NEW x \in S, NEW y \in S, x < y,
             Cardinality(Before(S, x)) = Cardinality(Before(S, y))
      PROVE  FALSE
  <2>1. Before(S, x) \cup {x} \subseteq Before(S, y)
    BY <1>2, NodesCount DEF Before
  <2>2. Cardinality(Before(S, x) \cup {x}) <= Cardinality(Before(S, y))
    BY <2>1, NodesCount, Countable
  <2> QED BY <1>2, <2>2, UpTo, NodesCount
<1>3. Cardinality(Before(S, m)) = Cardinality(Before(S, n))
  BY DEF Place
<1>4. ~(m < n) /\ ~(n < m)
  BY <1>1, <1>2, <1>3
<1> QED BY <1>1, <1>4

(* begin() stands on the node of channel 1.                                *)
LEMMA FirstPlace ==
  ASSUME TypeOK, NEW n \in Begin
  PROVE  LET S == m_nodeid_portaddr
         IN  /\ IF S = {} THEN n = END ELSE Place(S, n, 1)
             /\ KeepsUp(S, n, 1) /\ Lags(S, n, 1)
<1> DEFINE S == m_nodeid_portaddr
<1>1. S \in SUBSET NodeId
  BY RebuildTypes
<1>2. CASE S = {}
  <2>1. Cardinality(S) = 0 /\ n = END
    BY <1>2, Countable DEF Begin
  <2> QED BY <1>2, <2>1 DEF KeepsUp, Lags
<1>3. CASE S # {}
  <2>1. n \in S /\ \A m \in S : n <= m
    BY <1>3 DEF Begin, Smallest
  <2>2. Before(S, n) = {}
    BY <1>1, <2>1, NodesCount DEF Before
  <2>3. Cardinality(Before(S, n)) = 0
    BY <2>2, Countable
  <2> QED BY <1>3, <2>1, <2>3 DEF Place, KeepsUp, Lags
<1> QED BY <1>2, <1>3

(* The element after n, if there is one, has one node more before it.      *)
LEMMA OneMoreBefore ==
  ASSUME TypeOK, ~Inserting, NEW n \in m_nodeid_portaddr, NEW next \in Next_(n)
  PROVE  LET S == m_nodeid_portaddr
         IN  \/ next = END /\ Cardinality(S) = Cardinality(Before(S, n)) + 1
             \/ /\ next \in S
                /\ Cardinality(Before(S, next)) = Cardinality(Before(S, n)) + 1
<1> DEFINE S == m_nodeid_portaddr
<1>1. n # END /\ S \in SUBSET NodeId
  BY RebuildTypes, NodesCount
<1>2. CASE After(n) = {}
  <2>1. S = {m \in S : m <= n}
    BY <1>1, <1>2, NodesCount DEF After
  <2>2. Cardinality(S) = Cardinality(Before(S, n)) + 1
    BY <1>1, <2>1, UpTo
  <2> QED BY <1>1, <1>2, <2>2 DEF Next_
<1>3. CASE After(n) # {}
  <2>1. next \in After(n) /\ \A m \in After(n) : next <= m
    BY <1>1, <1>3 DEF Next_, Smallest
  <2>2. next \in S /\ Before(S, next) = {m \in S : m <= n}
    BY <1>1, <2>1, NodesCount DEF After, Before
  <2> QED BY <1>1, <2>2, UpTo
<1> QED BY <1>2, <1>3

(* ++it together with i + 1: from a place to the next, or to the end.      *)
LEMMA NextPlace ==
  ASSUME TypeOK, ~Inserting, NEW i \in Nat, NEW n, Place(m_nodeid_portaddr, n, i),
         NEW next \in Next_(n)
  PROVE  /\ next = END \/ Place(m_nodeid_portaddr, next, i + 1)
         /\ KeepsUp(m_nodeid_portaddr, next, i + 1)
<1>1. m_nodeid_portaddr \in SUBSET NodeId
  BY RebuildTypes
<1> QED BY <1>1, OneMoreBefore, NodesCount DEF Place, KeepsUp

(* So an iterator that keeps up keeps up, and one that lags lags no more.  *)
LEMMA NextKeepsUp ==
  ASSUME TypeOK, ~Inserting, NEW i \in Nat, NEW n, NEW next \in Next_(n)
  PROVE  LET S == m_nodeid_portaddr
         IN  /\ KeepsUp(S, n, i) => KeepsUp(S, next, i + 1)
             /\ Lags(S, n, i) => Lags(S, next, i + 1)
<1> DEFINE S == m_nodeid_portaddr
<1>1. S \in SUBSET NodeId /\ Cardinality(S) \in Nat
  BY RebuildTypes, NodesCount
<1>2. ASSUME KeepsUp(S, n, i) PROVE KeepsUp(S, next, i + 1)
  <2>1. CASE i + 1 <= Cardinality(S)
    <3>1. Place(S, n, i)
      BY <1>1, <1>2, <2>1 DEF KeepsUp
    <3> QED BY <3>1, NextPlace
  <2>2. CASE ~(i + 1 <= Cardinality(S))
    BY <2>2 DEF KeepsUp
  <2> QED BY <2>1, <2>2
<1>3. ASSUME Lags(S, n, i), i + 1 <= Cardinality(S)
      PROVE  next \in S /\ Cardinality(Before(S, next)) <= (i + 1) - 1
  <2>1. n \in S /\ Cardinality(Before(S, n)) <= i - 1
    BY <1>1, <1>3 DEF Lags
  <2> QED BY <1>1, <1>3, <2>1, OneMoreBefore, NodesCount
<1> QED BY <1>2, <1>3 DEF Lags

(* i + 1 without ++it: the iterator lags one more.                         *)
LEMMA SkipLags ==
  ASSUME NEW S \in SUBSET NodeId, NEW i \in Nat, NEW n, Lags(S, n, i)
  PROVE  Lags(S, n, i + 1)
BY NodesCount DEF Lags

-----------------------------------------------------------------------------
(* The iterators stand on the nodes of the channels.                       *)

(* Why: a scan that is over has every node in the map, and as long as none *)
(* is added the map no longer grows where there are channels.              *)
MapKnown ==
  /\ ~BeforeScan => /\ node \ ini.todo \subseteq ini.seen
                    /\ ini.seen \subseteq m_nodeid_portaddr
  /\ Rebuilding \/ m_mb_vec # <<>> => node \subseteq m_nodeid_portaddr

(* Why: the connect thread opens channel i with an iterator that may lag   *)
(* behind (216), the process thread polls channel i with one that does     *)
(* not.  A round that fills in the codes and began before there were       *)
(* channels may be anywhere in the map, but every code it fills in is the  *)
(* first one of its channel.                                               *)
ConnectOnNode ==
  /\ m_fTypevec # <<>> => m_mb_vec # <<>>
  /\ pc["connect"] \in {"try", "connect", "up", "store", "login"} /\ m_fTypevec # <<>>
       => Lags(m_nodeid_portaddr, con.it, con.i)
  /\ pc["connect"] \in {"func", "buffer"} =>
       \/ KeepsUp(m_nodeid_portaddr, con.it, con.i) /\ m_mb_vec # <<>>
       \/ Len(m_fTypevec) + (IF pc["connect"] = "func" THEN 1 ELSE 0) <= con.i
  /\ pc["connect"] = "buffer" => con.i <= Len(m_mb_vec)
ProcessOnNode ==
  pc["process"] # "poll" =>
    KeepsUp(m_nodeid_portaddr, prc.it, prc.i) /\ m_mb_vec # <<>>

(* What the two threads read of the types.                                 *)
LEMMA IteratorTypes ==
  ASSUME TypeOK
  PROVE  /\ con \in ConnectLocals /\ prc \in ProcessLocals
         /\ con.i \in Nat /\ prc.i \in Nat
         /\ pc \in [Thread -> InitLabel \cup ConnectLabel \cup ProcessLabel]
         /\ m_fTypevec \in Seq(Int) /\ m_mb_vec \in Seq(Pointer)
BY VectorLengths DEF TypeOK, SharedType, LocalsType

(* Where a step of the connect or of the process thread goes.              *)
LEMMA ThreadJumps ==
  ASSUME TypeOK
  PROVE  /\ \A l : Goto("connect", l) =>
              pc'["connect"] = l /\ pc'["init"] = pc["init"] /\ pc'["process"] = pc["process"]
         /\ \A l : Goto("process", l) =>
              pc'["process"] = l /\ pc'["init"] = pc["init"] /\ pc'["connect"] = pc["connect"]
         /\ \A l : Goto("init", l) =>
              pc'["connect"] = pc["connect"] /\ pc'["process"] = pc["process"]
BY IteratorTypes DEF Goto, Thread

(* i + 1 and ++it together, in either thread.                              *)
LEMMA NextChannelStep ==
  ASSUME TypeOK, NextChannel
  PROVE  con'.i = con.i + 1 /\ con'.it \in Next_(con.it)
BY IteratorTypes DEF NextChannel, ConnectLocals

LEMMA NextPolledStep ==
  ASSUME TypeOK, NextPolled
  PROVE  prc'.i = prc.i + 1 /\ prc'.it \in Next_(prc.it) /\ prc'.ctx = NULL
BY IteratorTypes DEF NextPolled, ProcessLocals

(* Opening the channels (205-252).                                         *)
LEMMA OpeningKeepsOnNode ==
  ASSUME TypeOK, ConnectOnNode, m_mb_vec # <<>> => ~Inserting,
         \/ SizeCheck \/ SkipConnected \/ CreateContext \/ ConnectFails
         \/ ConnectSucceeds \/ RaiseFlag \/ StoreContext \/ Login \/ LoginSpins
         \/ AllTried
  PROVE  ConnectOnNode'
<1>1. m_fTypevec' = m_fTypevec /\ Len(m_mb_vec') = Len(m_mb_vec)
  <2>1. Len(m_mb_vec') = Len(m_mb_vec)
    BY ConnectKeepsLengths DEF ConnectThread
  <2>2. m_fTypevec' = m_fTypevec
    BY DEF SizeCheck, SkipConnected, CreateContext, ConnectFails, ConnectSucceeds,
           RaiseFlag, StoreContext, Login, LoginSpins, AllTried, shared
  <2> QED BY <2>1, <2>2
<1>2. m_mb_vec' # <<>> <=> m_mb_vec # <<>>
  <2>1. m_mb_vec' \in Seq(Pointer)
    BY ConnectKeepsShared DEF ConnectThread, SharedType
  <2> QED BY <1>1, <2>1, IteratorTypes
<1>3. m_nodeid_portaddr' = m_nodeid_portaddr
  BY OthersLeave DEF ConnectThread
<1>4. CASE SizeCheck
  <2>1. pc'["connect"] = "try" /\ con'.i = 1 /\ con'.it \in Begin
    BY <1>4, ThreadJumps, IteratorTypes DEF SizeCheck, ConnectLocals
  <2>2. Lags(m_nodeid_portaddr, con'.it, con'.i)
    BY <2>1, FirstPlace
  <2> QED BY <1>1, <1>2, <1>3, <2>1, <2>2 DEF ConnectOnNode
<1>5. CASE SkipConnected
  <2>1. pc' = pc /\ pc["connect"] = "try" /\ con'.i = con.i + 1 /\ con'.it = con.it
    BY <1>5, IteratorTypes DEF SkipConnected, At, ConnectLocals
  <2>2. m_fTypevec # <<>> => Lags(m_nodeid_portaddr, con'.it, con'.i)
    BY <2>1, SkipLags, IteratorTypes, RebuildTypes DEF ConnectOnNode
  <2> QED BY <1>1, <1>2, <1>3, <2>1, <2>2 DEF ConnectOnNode
<1>6. CASE CreateContext \/ ConnectSucceeds \/ RaiseFlag \/ StoreContext
  <2>1. /\ pc["connect"] \in {"try", "connect", "up", "store"}
        /\ pc'["connect"] \in {"connect", "up", "store", "login"}
        /\ con'.i = con.i /\ con'.it = con.it
    BY <1>6, ThreadJumps, IteratorTypes
       DEF CreateContext, ConnectSucceeds, RaiseFlag, StoreContext, At, ConnectLocals
  <2> QED BY <1>1, <1>2, <1>3, <2>1 DEF ConnectOnNode
<1>7. CASE ConnectFails \/ Login
  <2>1. /\ pc["connect"] \in {"connect", "login"} /\ pc'["connect"] = "try"
        /\ con'.i = con.i + 1 /\ con'.it \in Next_(con.it)
    BY <1>7, ThreadJumps, NextChannelStep DEF ConnectFails, AfterRefusal, Login, At
  <2>2. m_fTypevec # <<>> => Lags(m_nodeid_portaddr, con'.it, con'.i)
    BY <2>1, NextKeepsUp, IteratorTypes DEF ConnectOnNode
  <2> QED BY <1>1, <1>2, <1>3, <2>1, <2>2 DEF ConnectOnNode
<1>8. CASE LoginSpins \/ AllTried
  <2>1. pc'["connect"] \in {"spin", "size2"}
    BY <1>8, ThreadJumps DEF LoginSpins, AllTried
  <2> QED BY <1>1, <1>2, <1>3, <2>1 DEF ConnectOnNode
<1> QED BY <1>4, <1>5, <1>6, <1>7, <1>8

(* Filling the function codes and the buffers (254-347).                   *)
LEMMA FillingKeepsOnNode ==
  ASSUME TypeOK, ConnectOnNode, m_mb_vec # <<>> => ~Inserting,
         SecondSizeCheck \/ SetFunction \/ SetBuffer \/ RoundDone
  PROVE  ConnectOnNode'
<1>1. m_mb_vec' = m_mb_vec /\ m_nodeid_portaddr' = m_nodeid_portaddr
  BY DEF SecondSizeCheck, SetFunction, SetBuffer, RoundDone, shared
<1>2. CASE SecondSizeCheck
  <2>1. m_fTypevec' = m_fTypevec
    BY <1>2 DEF SecondSizeCheck, shared
  <2>2. CASE Len(m_mb_vec) # Cardinality(m_nodeid_portaddr)
    <3>1. pc'["connect"] = "size"
      BY <1>2, <2>2, ThreadJumps DEF SecondSizeCheck
    <3> QED BY <1>1, <2>1, <3>1 DEF ConnectOnNode
  <2>3. CASE Len(m_mb_vec) = Cardinality(m_nodeid_portaddr)
    <3>1. pc'["connect"] = "func" /\ con'.i = 1 /\ con'.it \in Begin
      BY <1>2, <2>3, ThreadJumps, IteratorTypes DEF SecondSizeCheck, ConnectLocals
    <3>2. CASE m_mb_vec = <<>>
      <4>1. m_fTypevec = <<>> /\ Len(m_fTypevec) = 0
        BY <3>2 DEF ConnectOnNode
      <4> QED BY <1>1, <2>1, <3>1, <4>1 DEF ConnectOnNode
    <3>3. CASE m_mb_vec # <<>>
      <4>1. KeepsUp(m_nodeid_portaddr, con'.it, con'.i)
        BY <3>1, FirstPlace
      <4> QED BY <1>1, <2>1, <3>1, <3>3, <4>1 DEF ConnectOnNode
    <3> QED BY <3>2, <3>3
  <2> QED BY <2>2, <2>3
<1>3. CASE SetFunction
  <2>1. /\ pc["connect"] = "func" /\ pc'["connect"] = "buffer"
        /\ con' = con /\ con.i <= Len(m_mb_vec)
    BY <1>3, ThreadJumps DEF SetFunction, At
  <2>2. m_mb_vec # <<>> /\ con.i >= 1
    BY <2>1, IteratorTypes DEF ConnectLocals, Position
  <2>3. Len(m_fTypevec) + 1 <= con.i => Len(m_fTypevec') = Len(m_fTypevec) + 1
    <3> SUFFICES ASSUME Len(m_fTypevec) + 1 <= con.i
                 PROVE  Len(m_fTypevec') = Len(m_fTypevec) + 1
      OBVIOUS
    <3>1. con.i > Len(m_fTypevec)
      BY IteratorTypes
    <3>2. PICK code : m_fTypevec' = Append(m_fTypevec, code)
      BY <1>3, <3>1 DEF SetFunction
    <3> QED BY <3>2, IteratorTypes
  <2> QED BY <1>1, <2>1, <2>2, <2>3 DEF ConnectOnNode
<1>4. CASE SetBuffer
  <2>1. /\ pc["connect"] = "buffer" /\ pc'["connect"] = "func"
        /\ con'.i = con.i + 1 /\ con'.it \in Next_(con.it)
        /\ m_fTypevec' = m_fTypevec
    BY <1>4, ThreadJumps, NextChannelStep DEF SetBuffer, At
  <2>2. CASE KeepsUp(m_nodeid_portaddr, con.it, con.i) /\ m_mb_vec # <<>>
    <3>1. KeepsUp(m_nodeid_portaddr, con'.it, con'.i)
      BY <2>1, <2>2, NextKeepsUp, IteratorTypes
    <3> QED BY <1>1, <2>1, <2>2, <3>1 DEF ConnectOnNode
  <2>3. CASE Len(m_fTypevec) <= con.i
    <3>1. Len(m_fTypevec') + 1 <= con'.i /\ (m_fTypevec' # <<>> => m_mb_vec' # <<>>)
      BY <1>1, <2>1, <2>3, IteratorTypes DEF ConnectOnNode
    <3> QED BY <2>1, <3>1 DEF ConnectOnNode
  <2> QED BY <2>1, <2>2, <2>3, IteratorTypes DEF ConnectOnNode
<1>5. CASE RoundDone
  <2>1. pc'["connect"] = "size" /\ m_fTypevec' = m_fTypevec
    BY <1>5, ThreadJumps DEF RoundDone, shared
  <2> QED BY <1>1, <2>1 DEF ConnectOnNode
<1> QED BY <1>2, <1>3, <1>4, <1>5

(* Polling (388-620).                                                      *)
LEMMA PollingKeepsOnNode ==
  ASSUME TypeOK, ProcessOnNode, m_mb_vec # <<>> => ~Inserting, ProcessThread
  PROVE  ProcessOnNode'
<1>1. m_mb_vec' = m_mb_vec /\ m_nodeid_portaddr' = m_nodeid_portaddr
  BY DEF ProcessThread, Poll, ReadContext, SkipChannel, TakeChannel, Request,
         CheckResult, NothingRead, FindDevice, Publish, PollDone, shared
<1>2. CASE Poll
  <2>1. m_mb_vec # <<>> /\ prc'.i = 1 /\ prc'.it \in Begin
    BY <1>2, IteratorTypes DEF Poll, ProcessLocals
  <2>2. KeepsUp(m_nodeid_portaddr, prc'.it, prc'.i)
    BY <2>1, FirstPlace
  <2> QED BY <1>1, <2>1, <2>2 DEF ProcessOnNode
<1>3. CASE ReadContext \/ TakeChannel \/ Request \/ CheckResult \/ FindDevice
  <2>1. pc["process"] # "poll" /\ prc'.i = prc.i /\ prc'.it = prc.it
    BY <1>3, IteratorTypes
       DEF ReadContext, TakeChannel, Request, CheckResult, FindDevice, At, ProcessLocals
  <2> QED BY <1>1, <2>1 DEF ProcessOnNode
<1>4. CASE SkipChannel \/ NothingRead \/ Publish
  <2>1. /\ pc["process"] \in {"test", "dev", "send"}
        /\ prc'.i = prc.i + 1 /\ prc'.it \in Next_(prc.it)
    BY <1>4, NextPolledStep DEF SkipChannel, NothingRead, Publish, At
  <2>2. KeepsUp(m_nodeid_portaddr, prc'.it, prc'.i)
    BY <2>1, NextKeepsUp, IteratorTypes DEF ProcessOnNode
  <2> QED BY <1>1, <2>1, <2>2 DEF ProcessOnNode
<1>5. CASE PollDone
  <2>1. pc'["process"] = "poll"
    BY <1>5, ThreadJumps DEF PollDone
  <2> QED BY <2>1 DEF ProcessOnNode
<1> QED BY <1>2, <1>3, <1>4, <1>5 DEF ProcessThread

(* The init thread takes no channel away, and moves no iterator of theirs. *)
LEMMA InitKeepsOnNode ==
  ASSUME TypeOK, ConnectOnNode, ProcessOnNode, InitThread,
         m_mb_vec # <<>> => m_nodeid_portaddr' = m_nodeid_portaddr
  PROVE  ConnectOnNode' /\ ProcessOnNode'
<1>1. /\ con' = con /\ prc' = prc /\ m_fTypevec' = m_fTypevec
      /\ m_mb_vec' = m_mb_vec \/ m_mb_vec' = Append(m_mb_vec, NULL)
  BY DEF InitThread, ProtocolType, Scan, Row, Check, PushContext, ContextsGrown, PushFlag,
         PushBackend, NameBackend, Built, shared
<1>2. pc' = pc \/ \E l \in InitLabel : Goto("init", l)
  BY DEF InitThread, ProtocolType, Scan, Row, Check, PushContext, PushFlag, PushBackend,
         NameBackend, Built, InitLabel
<1>3. pc'["connect"] = pc["connect"] /\ pc'["process"] = pc["process"]
  BY <1>2, ThreadJumps
<1>4. /\ m_mb_vec # <<>> => m_mb_vec' # <<>>
      /\ con.i <= Len(m_mb_vec) => con.i <= Len(m_mb_vec')
  <2>1. Len(Append(m_mb_vec, NULL)) = Len(m_mb_vec) + 1 /\ Append(m_mb_vec, NULL) # <<>>
    BY IteratorTypes
  <2>2. CASE m_mb_vec' = m_mb_vec
    BY <2>2
  <2>3. CASE m_mb_vec' = Append(m_mb_vec, NULL)
    BY <2>1, <2>3, IteratorTypes, VectorLengths
  <2> QED BY <1>1, <2>2, <2>3
<1>5. CASE m_mb_vec = <<>>
  <2>1. m_fTypevec = <<>> /\ pc["process"] = "poll" /\ pc["connect"] # "buffer"
    BY <1>5, IteratorTypes DEF ConnectOnNode, ProcessOnNode, ConnectLocals, Position
  <2>2. pc["connect"] = "func" => Len(m_fTypevec) + 1 <= con.i
    BY <1>5 DEF ConnectOnNode
  <2> QED BY <1>1, <1>3, <2>1, <2>2 DEF ConnectOnNode, ProcessOnNode
<1>6. CASE m_mb_vec # <<>>
  BY <1>1, <1>3, <1>4, <1>6 DEF ConnectOnNode, ProcessOnNode
<1> QED BY <1>5, <1>6

(* All steps of the connect and of the process thread.                     *)
LEMMA OthersKeepOnNode ==
  ASSUME TypeOK, ConnectOnNode, ProcessOnNode, m_mb_vec # <<>> => ~Inserting,
         ConnectThread \/ ProcessThread
  PROVE  ConnectOnNode' /\ ProcessOnNode' /\ (m_mb_vec' = <<>> <=> m_mb_vec = <<>>)
<1>1. m_nodeid_portaddr' = m_nodeid_portaddr /\ Len(m_mb_vec') = Len(m_mb_vec)
  BY OthersLeave
<1>2. m_mb_vec' = <<>> <=> m_mb_vec = <<>>
  <2>1. CASE ConnectThread
    <3>1. m_mb_vec' \in Seq(Pointer)
      BY <2>1, ConnectKeepsShared DEF SharedType
    <3> QED BY <1>1, <3>1, IteratorTypes
  <2>2. CASE ProcessThread
    BY <2>2 DEF ProcessThread, Poll, ReadContext, SkipChannel, TakeChannel, Request,
         CheckResult, NothingRead, FindDevice, Publish, PollDone, shared
  <2> QED BY <2>1, <2>2
<1>3. CASE ConnectThread
  <2>1. prc' = prc /\ pc'["process"] = pc["process"]
    BY <1>3, ConnectKeepsLengths
  <2>2. ProcessOnNode'
    BY <1>1, <1>2, <2>1 DEF ProcessOnNode
  <2>3. ConnectOnNode'
    BY <1>3, OpeningKeepsOnNode, FillingKeepsOnNode DEF ConnectThread
  <2> QED BY <1>2, <2>2, <2>3
<1>4. CASE ProcessThread
  <2>1. con' = con /\ m_fTypevec' = m_fTypevec /\ m_mb_vec' = m_mb_vec
    BY <1>4 DEF ProcessThread, Poll, ReadContext, SkipChannel, TakeChannel, Request,
         CheckResult, NothingRead, FindDevice, Publish, PollDone, shared
  <2>2. pc' = pc \/ \E l \in ProcessLabel : Goto("process", l)
    BY <1>4 DEF ProcessThread, Poll, ReadContext, SkipChannel, TakeChannel,
              Request, CheckResult, NothingRead, AfterNothing, FindDevice,
              Publish, PollDone, ProcessLabel
  <2>3. pc'["connect"] = pc["connect"]
    BY <2>2, ThreadJumps
  <2>4. ConnectOnNode'
    BY <1>1, <2>1, <2>3 DEF ConnectOnNode
  <2> QED BY <1>2, <1>4, <2>4, PollingKeepsOnNode
<1> QED BY <1>3, <1>4

-----------------------------------------------------------------------------
(* All of it, as long as no node is added.                                 *)

OnMap == MapKnown /\ ConnectOnNode /\ ProcessOnNode

(* Where there are channels, no node enters the map.                       *)
LEMMA NothingInserted == MapKnown /\ m_mb_vec # <<>> => ~Inserting
BY DEF MapKnown, Inserting

(* A gateway that has just started, or died, is on no node.                *)
LEMMA OnMapAtStart ==
  ASSUME m_fTypevec = <<>>, m_mb_vec = <<>>, pc = StartPc
  PROVE  OnMap
BY StartLabels
   DEF OnMap, MapKnown, ConnectOnNode, ProcessOnNode, BeforeScan, Rebuilding

(* A step that leaves the scan, the map and the channels alone, and adds no *)
(* node.                                                                   *)
LEMMA MapUnchanged ==
  ASSUME MapKnown, node' \subseteq node, ini' = ini, pc'["init"] = pc["init"],
         m_nodeid_portaddr' = m_nodeid_portaddr, m_mb_vec' = <<>> <=> m_mb_vec = <<>>
  PROVE  MapKnown'
BY DEF MapKnown, BeforeScan, Rebuilding

(* What a scan sees enters the map, and nothing else does; the rebuild     *)
(* begins when the scan is over (81-190).                                  *)
LEMMA InitKeepsMap ==
  ASSUME ~SharedHelper, ~BusyDb, TypeOK, RebuildInv, MapKnown, InitThread
  PROVE  MapKnown' /\ (m_mb_vec # <<>> => m_nodeid_portaddr' = m_nodeid_portaddr)
<1>1. node' = node /\ node \subseteq NodeId
  BY RebuildTypes DEF InitThread, ProtocolType, Scan, Row, Check, PushContext, PushFlag,
         PushBackend, NameBackend, Built
<1>2. CASE Row
  <2>1. PICK n \in ini.todo :
           /\ ini'.todo = ini.todo \ {n}
           /\ ini'.seen = ini.seen \cup ({n} \cap node)
           /\ m_nodeid_portaddr' = m_nodeid_portaddr \cup ({n} \cap node)
           /\ pc["init"] = "row" /\ pc' = pc /\ m_mb_vec' = m_mb_vec
    BY <1>2, RowStep
  <2>2. ~BeforeScan /\ ~BeforeScan' /\ ~Rebuilding'
    BY <2>1 DEF BeforeScan, Rebuilding
  <2> QED BY <1>1, <2>1, <2>2 DEF MapKnown
<1>3. CASE ~Row
  <2>1. m_nodeid_portaddr' = m_nodeid_portaddr
    BY <1>3 DEF InitThread, ProtocolType, Scan, Check, PushContext, PushFlag, PushBackend,
         NameBackend, Built, shared
  <2>2. CASE ProtocolType \/ Scan
    <3>1. /\ pc'["init"] \in {"scan", "row"} /\ m_mb_vec' = m_mb_vec
          /\ pc'["init"] = "row" => ini'.todo = NodeId /\ ini'.seen = {}
      BY <2>2, InitJumps, RebuildTypes
         DEF ProtocolType, Scan, ScanStart, shared, InitLabel, InitLocals
    <3> QED BY <1>1, <2>1, <3>1 DEF MapKnown, BeforeScan, Rebuilding
  <2>3. CASE (Check /\ ini.sum = m_checknum) \/ Built
    <3>1. /\ pc'["init"] = "scan" /\ m_mb_vec' = m_mb_vec
      BY <2>3, InitJumps DEF Check, Built, shared, InitLabel
    <3> QED BY <1>1, <2>1, <3>1 DEF MapKnown, BeforeScan, Rebuilding
  <2>4. CASE Check /\ ini.sum # m_checknum
    <3>1. ini.todo = {} /\ ~BeforeScan /\ m_mb_vec' = m_mb_vec
      BY <2>4 DEF Check, At, BeforeScan, shared
    <3>2. /\ pc'["init"] = "push" /\ ini'.todo = ini.todo /\ ini'.seen = ini.seen
      BY <2>4, RebuildStarts
    <3> QED BY <1>1, <2>1, <3>1, <3>2 DEF MapKnown, BeforeScan
  <2>5. CASE PushContext \/ PushFlag \/ PushBackend \/ NameBackend
    <3>1. Rebuilding /\ ~BeforeScan /\ ForOtherIds
      BY <2>5 DEF PushContext, PushFlag, PushBackend, NameBackend, At, Rebuilding,
             BeforeScan, RebuildInv
    <3>2. ini'.todo = ini.todo /\ ini'.seen = ini.seen
      BY <2>5, <3>1, NextNode DEF PushContext, PushFlag, PushBackend
    <3> QED BY <1>1, <2>1, <3>1, <3>2 DEF MapKnown
  <2> QED BY <1>3, <2>1, <2>2, <2>3, <2>4, <2>5 DEF InitThread
<1> QED BY <1>2, <1>3

(* OnMap is inductive as long as no node is added.                         *)
LEMMA OnMapNext ==
  ASSUME ~SharedHelper, ~BusyDb
  PROVE  TypeOK /\ RebuildInv /\ OnMap /\ [Next]_vars /\ node' \subseteq node => OnMap'
<1> SUFFICES ASSUME TypeOK, RebuildInv, OnMap, [Next]_vars, node' \subseteq node
             PROVE  OnMap'
  OBVIOUS
<1>1. MapKnown /\ ConnectOnNode /\ ProcessOnNode
  BY DEF OnMap
<1>2. CASE InitThread
  BY <1>1, <1>2, InitKeepsMap, InitKeepsOnNode DEF OnMap
<1>3. CASE ConnectThread \/ ProcessThread
  <2>1. ConnectOnNode' /\ ProcessOnNode' /\ (m_mb_vec' = <<>> <=> m_mb_vec = <<>>)
    BY <1>1, <1>3, NothingInserted, OthersKeepOnNode
  <2>2. MapKnown'
    BY <1>1, <1>3, <2>1, OthersLeave, MapUnchanged
  <2> QED BY <2>1, <2>2 DEF OnMap
<1>4. CASE Dies
  BY <1>4, DeathEnds, StartLabels
     DEF EndOfProcess, OnMap, MapKnown, ConnectOnNode, ProcessOnNode, BeforeScan, Rebuilding
<1>5. CASE Edit \/ UNCHANGED vars
  <2>1. UNCHANGED <<shared, pc, ini, con, prc>>
    BY <1>5 DEF Edit, vars
  <2>2. MapKnown'
    BY <1>1, <2>1, MapUnchanged DEF shared
  <2> QED BY <1>1, <2>1, <2>2 DEF shared, OnMap, ConnectOnNode, ProcessOnNode
<1> QED BY <1>2, <1>3, <1>4, <1>5 DEF Next

-----------------------------------------------------------------------------
(* The channels are built and have their function codes: what can still go *)
(* wrong.                                                                  *)

(* Nothing is appended any more.                                           *)
LEMMA SettledAppendsNothing ==
  ASSUME TypeOK, MapKnown, RebuildInv, Settled
  PROVE  ~Rebuilding /\ \A t \in Thread : ~Racing(t)
<1>1. /\ built = node /\ m_nodeid_portaddr = node
      /\ Len(m_fTypevec) = Len(m_mb_vec) /\ m_datavec = 1
  BY DEF Settled
<1>2. ~Rebuilding
  <2>1. SUFFICES ASSUME Rebuilding PROVE FALSE
    OBVIOUS
  <2>2. ini.seen # built /\ ini.todo = {} /\ ~BeforeScan
    BY <2>1 DEF RebuildInv, ForOtherIds, Rebuilding, BeforeScan
  <2> QED BY <1>1, <2>2 DEF MapKnown
<1>3. pc["init"] \notin {"push", "flag", "backend", "dev"}
  BY <1>2 DEF Rebuilding
<1>4. ASSUME NEW u \in Thread PROVE Appends(u) = {}
  <2>1. pc[u] \notin {"push", "flag", "backend"}
    BY <1>3 DEF TypeOK, PcType, Thread, ConnectLabel, ProcessLabel
  <2>2. ~(con.i <= Len(m_mb_vec) /\ con.i > Len(m_fTypevec))
    BY <1>1, IteratorTypes, VectorLengths
  <2>3. ~Inserting
    BY <1>1 DEF Inserting
  <2> QED BY <1>1, <2>1, <2>2, <2>3 DEF Appends
<1> QED BY <1>2, <1>4 DEF Racing

(* And the only access outside a vector is to a second data slot.          *)
LEMMA SettledStaysInside ==
  ASSUME ~SharedHelper, ~BusyDb, ~NoOffset, TextAddr = {},
         TypeOK, VectorsInStep, OnMap, RebuildInv, Settled, NEW t \in Thread, Outside(t)
  PROVE  \/ pc[t] = "buffer" /\ con.i > 1
         \/ pc[t] = "switch" /\ prc.i > 1
<1>1. /\ m_nodeid_portaddr = node /\ node \in SUBSET NodeId /\ m_datavec = 1
      /\ Len(m_bConnected) = Len(m_mb_vec) /\ Len(m_fTypevec) = Len(m_mb_vec)
      /\ Len(m_mb_vec) = Cardinality(node)
  BY RebuildTypes DEF Settled
<1>2. ~MayLack(t)
  BY DEF MayLack, Disturbed
<1>3. /\ con.i \in Nat /\ prc.i \in Nat /\ Len(m_mb_vec) \in Nat
      /\ Len(m_backendvec) <= Len(m_bConnected) /\ Len(m_backendvec) \in Nat
  BY IteratorTypes, VectorLengths DEF VectorsInStep
<1>4. t = "init" => pc[t] \in {"type", "scan", "row"}
  BY SettledAppendsNothing, RebuildTypes DEF OnMap, Rebuilding, InitLabel
<1>5. t = "connect" <=> pc[t] \in ConnectLabel
  BY DEF TypeOK, PcType, Thread, InitLabel, ConnectLabel, ProcessLabel
<1>6. CASE t = "connect"
  <2>1. ASSUME pc[t] = "try", con.i <= Len(m_backendvec) PROVE con.it # END
    <3>1. con.i <= Len(m_mb_vec) /\ con.i >= 1
      BY <1>1, <1>3, <2>1, IteratorTypes DEF ConnectLocals, Position
    <3>2. m_fTypevec # <<>> /\ con.i <= Cardinality(node)
      BY <1>1, <1>3, <3>1
    <3>3. Lags(node, con.it, con.i)
      BY <1>1, <1>6, <2>1, <3>2 DEF OnMap, ConnectOnNode
    <3> QED BY <1>1, <3>2, <3>3, NodesCount DEF Lags
  <2>2. ASSUME pc[t] = "store" PROVE con.i <= Len(m_mb_vec)
    BY <1>6, <2>2 DEF VectorsInStep, ChannelsInRange
  <2>3. ASSUME pc[t] = "func", con.i <= Len(m_mb_vec)
        PROVE  con.it # END /\ con.it \in node
    <3>1. m_fTypevec # <<>> /\ con.i <= Cardinality(node)
      BY <1>1, <1>3, <2>3, IteratorTypes DEF ConnectLocals, Position
    <3>2. KeepsUp(node, con.it, con.i)
      BY <1>1, <1>3, <1>6, <2>3, <3>1 DEF OnMap, ConnectOnNode
    <3> QED BY <1>1, <3>1, <3>2, NodesCount DEF KeepsUp, Place
  <2>4. pc[t] \in ConnectLabel
    BY <1>5, <1>6
  <2> QED
    BY <1>1, <1>2, <1>3, <1>6, <2>1, <2>2, <2>3, <2>4
       DEF Outside, NoRow, ConnectLabel
<1>7. CASE t = "process"
  <2>1. pc[t] \in {"test", "switch", "ret", "dev", "send"} => prc.i <= Len(m_mb_vec)
    BY <1>7 DEF VectorsInStep, ChannelsInRange
  <2>2. ASSUME pc[t] \in {"switch", "dev"} PROVE prc.it \in node /\ prc.it # END
    <3>1. KeepsUp(node, prc.it, prc.i) /\ prc.i <= Cardinality(node)
      BY <1>1, <1>3, <1>7, <2>1, <2>2 DEF OnMap, ProcessOnNode
    <3> QED BY <1>1, <3>1, NodesCount DEF KeepsUp, Place
  <2>3. pc[t] \in ProcessLabel
    BY <1>7 DEF TypeOK, PcType
  <2> QED
    BY <1>1, <1>2, <1>3, <1>7, <2>1, <2>2, <2>3 DEF Outside, NoRow, ProcessLabel
<1>8. CASE t = "init"
  BY <1>2, <1>4, <1>8 DEF Outside
<1> QED BY <1>6, <1>7, <1>8 DEF Thread

(* A gateway whose threads are on the nodes of their channels.             *)
LEMMA SettledIsDefined ==
  ASSUME ~SharedHelper, ~BusyDb, ~NoOffset, TextAddr = {},
         TypeOK, VectorsInStep, RebuildInv, OnMap
  PROVE  DefinedOnceSettled
BY SettledAppendsNothing, SettledStaysInside DEF OnMap, DefinedOnceSettled

(* Once the channels are built and have their function codes, no two       *)
(* threads race for a vector's storage, and the only access outside a      *)
(* vector is to the data slot of a second or later channel (346, 488): in  *)
(* every interleaving, whether the devices answer or not, on every table   *)
(* of which rows are only deleted, however many and whenever.              *)
THEOREM DefinedOnceSettledDeletions ==
  ASSUME ~SharedHelper, ~BusyDb, ~NoOffset, TextAddr = {}
  PROVE  Spec /\ [][node' \subseteq node]_vars => []DefinedOnceSettled
<1>1. Init => OnMap
  BY OnMapAtStart DEF Init
<1>2. TypeOK /\ RebuildInv /\ OnMap /\ [Next]_vars /\ [node' \subseteq node]_vars => OnMap'
  <2>1. UNCHANGED vars => node' \subseteq node
    BY DEF vars
  <2> QED BY <2>1, OnMapNext
<1>3. TypeOK /\ VectorsInStep /\ RebuildInv /\ OnMap => DefinedOnceSettled
  BY SettledIsDefined
<1> QED
  BY <1>1, <1>2, <1>3, TypeCorrect, VectorsAlwaysInStep, RebuildAlways, PTL DEF Spec

-----------------------------------------------------------------------------
(* The table is scanned, and the channels are built from it once.          *)

(* Why: the map fills up to the table, the first complete scan builds the  *)
(* channels from it, and no later scan finds another checksum.             *)
TableScanned ==
  /\ node = InitNode /\ m_nodeid_portaddr \subseteq InitNode
  /\ built \in {{}, InitNode}
  /\ ~BeforeScan => /\ ini.seen = InitNode \ ini.todo
                    /\ ini.seen \subseteq m_nodeid_portaddr
  /\ Rebuilding => built = {}
  /\ Rebuilding \/ built # {} => m_nodeid_portaddr = InitNode
  /\ Len(m_mb_vec) = IF Rebuilding THEN Cardinality(Pushed) ELSE Cardinality(built)

(* The table at start is one of nodes.                                     *)
LEMMA InitNodes == InitNode \in SUBSET NodeId /\ Cardinality(InitNode) \in Nat
BY ConfigAssumption, Countable

(* Where there is a channel, the map is the table, and there are no more   *)
(* channels than nodes.                                                    *)
LEMMA ChannelsOfNodes ==
  ASSUME TypeOK, TableScanned
  PROVE  /\ Len(m_mb_vec) <= Cardinality(InitNode)
         /\ m_mb_vec # <<>> => m_nodeid_portaddr = InitNode /\ InitNode # {}
<1>1. Pushed \subseteq m_nodeid_portaddr
  BY DEF Pushed
<1>2. CASE Rebuilding
  <2>1. m_nodeid_portaddr = InitNode /\ Len(m_mb_vec) = Cardinality(Pushed)
    BY <1>2 DEF TableScanned
  <2>2. Cardinality(Pushed) <= Cardinality(InitNode)
    BY <1>1, <2>1, InitNodes, Countable
  <2>3. Pushed = {} => m_mb_vec = <<>>
    BY <2>1, Countable, VectorLengths
  <2> QED BY <1>1, <2>1, <2>2, <2>3
<1>3. CASE ~Rebuilding
  <2>1. Len(m_mb_vec) = Cardinality(built) /\ built \in {{}, InitNode}
    BY <1>3 DEF TableScanned
  <2>2. built = {} => m_mb_vec = <<>>
    BY <2>1, Countable, VectorLengths
  <2>3. built # {} => m_nodeid_portaddr = InitNode
    BY DEF TableScanned
  <2>4. Cardinality(built) <= Cardinality(InitNode)
    BY <2>1, InitNodes, Countable
  <2> QED BY <2>1, <2>2, <2>3, <2>4
<1> QED BY <1>2, <1>3

(* A step that leaves alone what TableScanned reads keeps it.              *)
LEMMA ScannedUnchanged ==
  ASSUME TableScanned, built' = built, node' = node, ini' = ini,
         m_nodeid_portaddr' = m_nodeid_portaddr,
         pc'["init"] = pc["init"], Len(m_mb_vec') = Len(m_mb_vec)
  PROVE  TableScanned'
<1>1. Pushed' = Pushed /\ (BeforeScan' <=> BeforeScan) /\ (Rebuilding' <=> Rebuilding)
  BY DEF Pushed, BeforeScan, Rebuilding
<1> QED BY <1>1 DEF TableScanned

(* Scanning (81-104): a scan that has read every port has seen the table,  *)
(* and finds the checksum of the channels, if they were built.             *)
LEMMA ScanningKeepsScanned ==
  ASSUME ~SharedHelper, ~BusyDb, TypeOK, RebuildInv, TableScanned,
         ProtocolType \/ Scan \/ Row \/ Check
  PROVE  TableScanned'
<1>1. m_mb_vec' = m_mb_vec /\ node' = node /\ built' = built /\ ~Rebuilding
  BY DEF ProtocolType, Scan, Row, Check, shared, At, Rebuilding
<1>2. CASE ProtocolType \/ Scan
  <2>1. /\ pc'["init"] \in {"scan", "row"} /\ m_nodeid_portaddr' = m_nodeid_portaddr
        /\ pc'["init"] = "row" => ini'.todo = NodeId /\ ini'.seen = {}
    BY <1>2, InitJumps, RebuildTypes
       DEF ProtocolType, Scan, ScanStart, shared, InitLabel, InitLocals
  <2> QED BY <1>1, <2>1, InitNodes DEF TableScanned, BeforeScan, Rebuilding
<1>3. CASE Row
  <2>1. PICK n \in ini.todo :
           /\ ini'.todo = ini.todo \ {n}
           /\ ini'.seen = ini.seen \cup ({n} \cap node)
           /\ m_nodeid_portaddr' = m_nodeid_portaddr \cup ({n} \cap node)
           /\ pc["init"] = "row" /\ pc' = pc
    BY <1>3, RowStep
  <2>2. ~BeforeScan /\ ~BeforeScan' /\ ~Rebuilding'
    BY <2>1 DEF BeforeScan, Rebuilding
  <2> QED BY <1>1, <2>1, <2>2 DEF TableScanned
<1>4. CASE Check /\ ini.sum = m_checknum
  <2>1. /\ pc'["init"] = "scan" /\ m_nodeid_portaddr' = m_nodeid_portaddr
    BY <1>4, InitJumps DEF Check, shared, InitLabel
  <2> QED BY <1>1, <2>1 DEF TableScanned, BeforeScan, Rebuilding
<1>5. CASE Check /\ ini.sum # m_checknum
  <2>1. /\ ini.todo = {} /\ ~BeforeScan /\ m_nodeid_portaddr' = m_nodeid_portaddr
    BY <1>5 DEF Check, At, BeforeScan, shared
  <2>2. ini.seen = InitNode /\ m_nodeid_portaddr = InitNode
    BY <2>1 DEF TableScanned
  <2>3. built = {}
    BY <1>5, <2>1, <2>2 DEF TableScanned, RebuildInv, Summed
  <2>4. /\ pc'["init"] = "push" /\ Pushed' = {}
        /\ ini'.todo = ini.todo /\ ini'.seen = ini.seen
    BY <1>5, RebuildStarts
  <2>5. Rebuilding' /\ ~BeforeScan'
    BY <2>4 DEF Rebuilding, BeforeScan
  <2>6. Len(m_mb_vec') = Cardinality(Pushed')
    BY <1>1, <2>3, <2>4 DEF TableScanned
  <2> QED BY <1>1, <2>1, <2>2, <2>3, <2>4, <2>5, <2>6 DEF TableScanned
<1> QED BY <1>2, <1>3, <1>4, <1>5

(* Building (106-190): a channel per node.                                 *)
LEMMA BuildingKeepsScanned ==
  ASSUME TypeOK, RebuildInv, TableScanned,
         PushContext \/ PushFlag \/ PushBackend \/ NameBackend \/ Built
  PROVE  TableScanned'
<1>1. node' = node /\ m_nodeid_portaddr' = m_nodeid_portaddr
  BY DEF PushContext, PushFlag, PushBackend, NameBackend, Built
<1>2. Rebuilding /\ ~BeforeScan /\ ForOtherIds
  BY DEF PushContext, PushFlag, PushBackend, NameBackend, Built, At, Rebuilding,
         BeforeScan, RebuildInv
<1>3. /\ m_nodeid_portaddr = InitNode /\ built = {} /\ ini.seen = InitNode
      /\ Len(m_mb_vec) = Cardinality(Pushed) /\ ini.todo = {}
  BY <1>2 DEF TableScanned, ForOtherIds
<1>4. CASE PushContext
  <2>1. /\ pc'["init"] = "flag" /\ ini' = ini /\ built' = built
        /\ Len(m_mb_vec') = Len(m_mb_vec) + 1
        /\ Cardinality(Pushed') = Cardinality(Pushed) + 1
    BY <1>2, <1>4, ContextPushed DEF PushContext
  <2>2. Rebuilding' /\ ~BeforeScan'
    BY <2>1 DEF Rebuilding, BeforeScan
  <2> QED BY <1>1, <1>2, <1>3, <2>1, <2>2 DEF TableScanned
<1>5. CASE PushFlag \/ PushBackend
  <2>1. /\ pc["init"] \in {"flag", "backend"} /\ pc'["init"] \in {"backend", "dev"}
        /\ ini' = ini /\ built' = built /\ m_mb_vec' = m_mb_vec
    BY <1>5, InitJumps DEF PushFlag, PushBackend, At, InitLabel
  <2>2. Rebuilding' /\ ~BeforeScan' /\ Pushed' = Pushed
    BY <1>1, <2>1 DEF Rebuilding, BeforeScan, Pushed
  <2> QED BY <1>1, <1>2, <1>3, <2>1, <2>2 DEF TableScanned
<1>6. CASE NameBackend
  <2>1. /\ pc'["init"] = "push" /\ Pushed' = Pushed
        /\ ini'.todo = ini.todo /\ ini'.seen = ini.seen
        /\ built' = built /\ m_mb_vec' = m_mb_vec
    BY <1>2, <1>6, NextNode DEF NameBackend
  <2>2. Rebuilding' /\ ~BeforeScan'
    BY <2>1 DEF Rebuilding, BeforeScan
  <2> QED BY <1>1, <1>2, <1>3, <2>1, <2>2 DEF TableScanned
<1>7. CASE Built
  <2>1. /\ pc["init"] = "push" /\ pc'["init"] = "scan" /\ ini.it = END
        /\ built' = ini.seen /\ m_mb_vec' = m_mb_vec
    BY <1>7, InitJumps DEF Built, At, InitLabel
  <2>2. ~Rebuilding' /\ BeforeScan' /\ Pushed = InitNode
    BY <1>3, <2>1 DEF Rebuilding, BeforeScan, Pushed
  <2> QED BY <1>1, <1>2, <1>3, <2>1, <2>2 DEF TableScanned
<1> QED BY <1>4, <1>5, <1>6, <1>7

(* Nothing is scanned at start, or by a process that died.                 *)
LEMMA ScannedInit == Init => TableScanned
BY StartLabels, Countable
   DEF Init, TableScanned, BeforeScan, Rebuilding

(* TableScanned is inductive while the table is left alone.                *)
LEMMA ScannedNext ==
  ASSUME ~SharedHelper, ~BusyDb
  PROVE  TypeOK /\ RebuildInv /\ TableScanned /\ [Next]_vars /\ edits' = edits
           => TableScanned'
<1> SUFFICES ASSUME TypeOK, RebuildInv, TableScanned, [Next]_vars, edits' = edits
             PROVE  TableScanned'
  OBVIOUS
<1>1. CASE InitThread
  BY <1>1, ScanningKeepsScanned, BuildingKeepsScanned DEF InitThread
<1>2. CASE ConnectThread \/ ProcessThread
  BY <1>2, OthersLeave, ScannedUnchanged
<1>3. CASE Dies
  BY <1>3, DeathEnds, StartLabels, Countable
     DEF EndOfProcess, TableScanned, BeforeScan, Rebuilding
<1>4. ~Edit
  BY RebuildTypes DEF Edit
<1>5. CASE UNCHANGED vars
  BY <1>5, ScannedUnchanged DEF vars, shared
<1> QED BY <1>1, <1>2, <1>3, <1>4, <1>5 DEF Next

-----------------------------------------------------------------------------
(* One edit.                                                               *)

(* Why: a node that is added behind a scan's back, or when the channels    *)
(* are there, is missing from the channels, or comes on top of them.       *)
Outgrown ==
  /\ m_nodeid_portaddr \subseteq node
  /\ ~BeforeScan => ini.seen \subseteq m_nodeid_portaddr
  /\ built = node => Len(m_mb_vec) > Cardinality(node)
  /\ Rebuilding => Cardinality(Pushed) + (IF ini.seen = node THEN 1 ELSE 0)
                     <= Len(m_mb_vec)
  /\ m_mb_vec = <<>> => /\ built = {} /\ ~BeforeScan
                        /\ ~(node \subseteq ini.seen \cup ini.todo)
                        /\ ConnectOnNode /\ ProcessOnNode

OneEditInv ==
  /\ edits = 0 => TableScanned /\ OnMap
  /\ edits = 1 => OnMap \/ Outgrown

(* Only the empty set has the checksum 0.                                  *)
LEMMA SumOfSome ==
  ASSUME NEW S \in SUBSET NodeId, Total[S] = 0
  PROVE  S = {}
<1> SUFFICES ASSUME NEW n \in S PROVE FALSE
  OBVIOUS
<1>1. n \in Nat \ {0} /\ S \ {n} \in SUBSET NodeId /\ n \in NodeId \ (S \ {n})
  BY NodeIdAssumption
<1>2. Total[(S \ {n}) \cup {n}] = Total[S \ {n}] + n /\ Total[S \ {n}] \in Nat
  BY <1>1, TotalSums
<1>3. (S \ {n}) \cup {n} = S
  OBVIOUS
<1> QED BY <1>1, <1>2, <1>3

(* The edit: rows that are deleted leave the threads on their nodes; a row *)
(* that is added does so only if the scan under way comes by it.           *)
LEMMA EditOutgrows ==
  ASSUME TypeOK, RebuildInv, TableScanned, OnMap, Edit
  PROVE  OnMap' \/ Outgrown'
<1>1. /\ UNCHANGED <<shared, pc, ini, con, prc>>
      /\ node = InitNode /\ m_nodeid_portaddr \subseteq InitNode
      /\ MapKnown /\ ConnectOnNode /\ ProcessOnNode
  BY DEF Edit, TableScanned, OnMap
<1>2. /\ (BeforeScan' <=> BeforeScan) /\ (Rebuilding' <=> Rebuilding) /\ Pushed' = Pushed
      /\ ConnectOnNode' /\ ProcessOnNode'
  BY <1>1 DEF BeforeScan, Rebuilding, Pushed, ConnectOnNode, ProcessOnNode, shared
<1>3. PICK n \in NodeId : node' = IF n \in node THEN node \ {n} ELSE node \cup {n}
  BY DEF Edit
<1>4. CASE n \in node
  <2>1. MapKnown'
    BY <1>1, <1>3, <1>4, MapUnchanged DEF shared
  <2> QED BY <1>2, <2>1 DEF OnMap
<1>5. CASE n \notin node /\ m_mb_vec = <<>> /\ (BeforeScan \/ n \in ini.todo) /\ ~Rebuilding
  <2>1. MapKnown'
    BY <1>1, <1>2, <1>3, <1>5 DEF MapKnown, shared
  <2> QED BY <1>2, <2>1 DEF OnMap
<1>6. CASE n \notin node /\ (m_mb_vec # <<>> \/ Rebuilding
                              \/ (~BeforeScan /\ n \notin ini.todo))
  <2>1. node' = InitNode \cup {n} /\ n \notin InitNode
    BY <1>1, <1>3, <1>6
  <2>2. built \subseteq InitNode /\ (~BeforeScan => ini.seen \subseteq InitNode)
    BY DEF TableScanned
  <2>3. Rebuilding => ~BeforeScan
    BY DEF Rebuilding, BeforeScan
  <2>4. built' # node' /\ (Rebuilding' => ini'.seen # node')
    BY <1>1, <1>2, <2>1, <2>2, <2>3 DEF shared
  <2>5. Rebuilding => Cardinality(Pushed) <= Len(m_mb_vec)
    BY RebuildTypes DEF TableScanned
  <2>6. ASSUME m_mb_vec = <<>>
        PROVE  built = {} /\ ~BeforeScan /\ n \notin ini.seen \cup ini.todo
    <3>1. ~BeforeScan /\ n \notin ini.todo
      BY <1>6, <2>3, <2>6 DEF RebuildInv, ForOtherIds
    <3>2. n \notin ini.seen
      BY <2>1, <2>2, <3>1
    <3>3. built = {}
      <4>1. Rebuilding \/ Cardinality(built) = 0
        BY <2>6 DEF TableScanned
      <4> QED BY <4>1, Countable, RebuildTypes DEF TableScanned
    <3> QED BY <3>1, <3>2, <3>3
  <2>7. UNCHANGED <<m_nodeid_portaddr, m_mb_vec, built, ini>>
    BY <1>1 DEF shared
  <2>8. /\ m_nodeid_portaddr' \subseteq node'
        /\ ~BeforeScan' => ini'.seen \subseteq m_nodeid_portaddr'
    BY <1>1, <1>2, <2>1, <2>7 DEF TableScanned
  <2>9. Rebuilding' => Cardinality(Pushed') + (IF ini'.seen = node' THEN 1 ELSE 0)
                         <= Len(m_mb_vec')
    <3>1. Pushed \in SUBSET NodeId
      BY RebuildTypes DEF Pushed
    <3> QED BY <1>2, <2>4, <2>5, <2>7, <3>1, Countable
  <2>10. m_mb_vec' = <<>> => /\ built' = {} /\ ~BeforeScan'
                             /\ ~(node' \subseteq ini'.seen \cup ini'.todo)
    BY <1>2, <2>1, <2>6, <2>7
  <2> QED BY <1>2, <2>4, <2>8, <2>9, <2>10 DEF Outgrown
<1> QED BY <1>4, <1>5, <1>6

(* The init thread: the first channels it builds are without the node that *)
(* was added, and those it builds with it come on top of others.           *)
LEMMA InitKeepsOutgrown ==
  ASSUME ~SharedHelper, ~BusyDb, TypeOK, RebuildInv, Outgrown, InitThread
  PROVE  OnMap' \/ Outgrown'
<1>1. node' = node /\ node \in SUBSET NodeId /\ m_nodeid_portaddr \subseteq node
  BY RebuildTypes
     DEF InitThread, ProtocolType, Scan, Row, Check, PushContext, PushFlag, PushBackend,
         NameBackend, Built, Outgrown
<1>2. Pushed \in SUBSET NodeId /\ Cardinality(Pushed) \in Nat /\ Len(m_mb_vec) \in Nat
  BY RebuildTypes, Countable DEF Pushed
<1>3. ASSUME m_mb_vec = <<>>, m_mb_vec' = m_mb_vec PROVE ConnectOnNode' /\ ProcessOnNode'
  BY <1>3, InitKeepsOnNode DEF Outgrown
<1>4. CASE ProtocolType \/ Scan
  <2>1. /\ BeforeScan /\ pc'["init"] \in {"scan", "row"} /\ UNCHANGED shared
        /\ pc'["init"] = "row" => ini'.seen = {}
    BY <1>4, InitJumps, RebuildTypes
       DEF ProtocolType, Scan, ScanStart, At, BeforeScan, InitLabel, InitLocals
  <2>2. m_mb_vec # <<>>
    BY <2>1 DEF Outgrown
  <2> QED BY <1>1, <2>1, <2>2 DEF Outgrown, BeforeScan, Rebuilding, shared
<1>5. CASE Row
  <2>1. PICK n \in ini.todo :
           /\ ini'.todo = ini.todo \ {n}
           /\ ini'.seen = ini.seen \cup ({n} \cap node)
           /\ m_nodeid_portaddr' = m_nodeid_portaddr \cup ({n} \cap node)
           /\ pc["init"] = "row" /\ pc' = pc /\ m_mb_vec' = m_mb_vec /\ built' = built
    BY <1>5, RowStep
  <2>2. ~BeforeScan /\ ~BeforeScan' /\ ~Rebuilding'
    BY <2>1 DEF BeforeScan, Rebuilding
  <2>3. m_mb_vec = <<>> => ConnectOnNode' /\ ProcessOnNode'
    BY <1>3, <2>1
  <2> QED BY <1>1, <2>1, <2>2, <2>3 DEF Outgrown
<1>6. CASE Check /\ ini.sum = m_checknum
  <2>1. /\ pc["init"] = "row" /\ pc'["init"] = "scan" /\ ini.todo = {}
        /\ UNCHANGED <<shared, ini, con, prc>>
        /\ pc'["connect"] = pc["connect"] /\ pc'["process"] = pc["process"]
    BY <1>6, InitJumps, ThreadJumps DEF Check, At, InitLabel
  <2>2. ~BeforeScan /\ BeforeScan' /\ ~Rebuilding'
    BY <2>1 DEF BeforeScan, Rebuilding
  <2>3. CASE m_mb_vec # <<>>
    BY <1>1, <2>1, <2>2, <2>3 DEF Outgrown, shared
  <2>4. CASE m_mb_vec = <<>>
    <3>1. MapKnown'
      BY <2>1, <2>2, <2>4 DEF MapKnown, shared
    <3> QED BY <1>3, <2>1, <2>4, <3>1 DEF OnMap, shared
  <2> QED BY <2>3, <2>4
<1>7. CASE Check /\ ini.sum # m_checknum
  <2>1. /\ ini.todo = {} /\ pc["init"] = "row" /\ UNCHANGED shared
    BY <1>7 DEF Check, At
  <2>2. /\ pc'["init"] = "push" /\ Pushed' = {}
        /\ ini'.todo = ini.todo /\ ini'.seen = ini.seen
    BY <1>7, RebuildStarts
  <2>3. ~BeforeScan /\ ~BeforeScan'
    BY <2>1, <2>2 DEF BeforeScan
  <2>4. ini.seen = node => Len(m_mb_vec) >= 1
    BY <1>2, <2>1, VectorLengths DEF Outgrown
  <2>5. Cardinality(Pushed') + (IF ini'.seen = node' THEN 1 ELSE 0) <= Len(m_mb_vec')
    BY <1>1, <1>2, <2>1, <2>2, <2>4, Countable DEF shared
  <2>6. m_mb_vec = <<>> => ConnectOnNode' /\ ProcessOnNode'
    BY <1>3, <2>1 DEF shared
  <2> QED BY <1>1, <2>1, <2>2, <2>3, <2>5, <2>6 DEF Outgrown, shared
<1>8. CASE PushContext
  <2>1. /\ pc["init"] = "push" /\ pc'["init"] = "flag" /\ ini' = ini
        /\ Len(m_mb_vec') = Len(m_mb_vec) + 1
        /\ Cardinality(Pushed') = Cardinality(Pushed) + 1
    BY <1>8, ContextPushed DEF RebuildInv
  <2>2. m_nodeid_portaddr' = m_nodeid_portaddr /\ built' = built
    BY <1>8 DEF PushContext
  <2>3. Rebuilding /\ ~BeforeScan
    BY <2>1 DEF Rebuilding, BeforeScan
  <2>4. m_mb_vec' # <<>>
    BY <1>2, <2>1
  <2>5. Cardinality(Pushed') + (IF ini'.seen = node' THEN 1 ELSE 0) <= Len(m_mb_vec')
    BY <1>1, <1>2, <2>1, <2>3 DEF Outgrown
  <2>6. built' = node' => Len(m_mb_vec') > Cardinality(node')
    BY <1>1, <1>2, <2>1, <2>2, Countable DEF Outgrown
  <2> QED BY <1>1, <2>1, <2>2, <2>3, <2>4, <2>5, <2>6 DEF Outgrown
<1>9. CASE PushFlag \/ PushBackend \/ NameBackend
  <2>1. /\ Rebuilding /\ Rebuilding' /\ ~BeforeScan /\ ~BeforeScan'
        /\ m_nodeid_portaddr' = m_nodeid_portaddr /\ built' = built
        /\ m_mb_vec' = m_mb_vec
    BY <1>9, InitJumps DEF PushFlag, PushBackend, NameBackend, At, InitLabel, Rebuilding,
         BeforeScan
  <2>2. Pushed' = Pushed /\ ini'.seen = ini.seen /\ ini'.todo = ini.todo
    <3>1. CASE PushFlag \/ PushBackend
      <4>1. /\ pc["init"] \in {"flag", "backend"} /\ pc'["init"] \in {"backend", "dev"}
            /\ ini' = ini
        BY <3>1, InitJumps DEF PushFlag, PushBackend, At, InitLabel
      <4> QED BY <2>1, <4>1 DEF Pushed
    <3>2. CASE NameBackend
      BY <3>2, NextNode DEF RebuildInv
    <3> QED BY <1>9, <3>1, <3>2
  <2>3. m_mb_vec = <<>> => ConnectOnNode' /\ ProcessOnNode'
    BY <1>3, <2>1
  <2> QED BY <1>1, <2>1, <2>2, <2>3 DEF Outgrown
<1>10. CASE Built
  <2>1. /\ pc["init"] = "push" /\ pc'["init"] = "scan" /\ ini.it = END
        /\ built' = ini.seen /\ m_mb_vec' = m_mb_vec
        /\ m_nodeid_portaddr' = m_nodeid_portaddr
    BY <1>10, InitJumps DEF Built, At, InitLabel
  <2>2. /\ Rebuilding /\ ~BeforeScan /\ BeforeScan' /\ ~Rebuilding'
        /\ Pushed = m_nodeid_portaddr
    BY <2>1 DEF Rebuilding, BeforeScan, Pushed
  <2>3. /\ ini.seen \subseteq m_nodeid_portaddr /\ ini.seen # built
        /\ Cardinality(m_nodeid_portaddr) + (IF ini.seen = node THEN 1 ELSE 0)
              <= Len(m_mb_vec)
    BY <2>2 DEF Outgrown, RebuildInv, ForOtherIds
  <2>4. m_mb_vec # <<>>
    <3>1. m_mb_vec = <<>> => Cardinality(m_nodeid_portaddr) = 0 /\ built = {}
      BY <1>2, <2>2, <2>3 DEF Outgrown
    <3>2. Cardinality(m_nodeid_portaddr) = 0 => m_nodeid_portaddr = {}
      BY Countable, RebuildTypes
    <3> QED BY <2>3, <3>1, <3>2
  <2>5. built' = node' => Len(m_mb_vec') > Cardinality(node')
    <3>1. ini.seen = node => m_nodeid_portaddr = node
      BY <1>1, <2>3
    <3> QED BY <1>1, <1>2, <2>1, <2>3, <3>1, Countable
  <2> QED BY <1>1, <2>1, <2>2, <2>4, <2>5 DEF Outgrown
<1> QED BY <1>4, <1>5, <1>6, <1>7, <1>8, <1>9, <1>10 DEF InitThread

(* The other steps, while nothing is edited.                               *)
LEMMA OutgrownNext ==
  ASSUME ~SharedHelper, ~BusyDb,
         TypeOK, RebuildInv, Outgrown, [Next]_vars, edits' = edits
  PROVE  OnMap' \/ Outgrown'
<1>1. CASE InitThread
  BY <1>1, InitKeepsOutgrown
<1>2. CASE ConnectThread \/ ProcessThread
  <2>1. /\ node' = node /\ ini' = ini /\ m_nodeid_portaddr' = m_nodeid_portaddr
        /\ built' = built /\ Len(m_mb_vec') = Len(m_mb_vec)
        /\ pc'["init"] = pc["init"]
    BY <1>2, OthersLeave
  <2>2. /\ (BeforeScan' <=> BeforeScan) /\ (Rebuilding' <=> Rebuilding)
        /\ Pushed' = Pushed
    BY <2>1 DEF BeforeScan, Rebuilding, Pushed
  <2>3. m_mb_vec' = <<>> => m_mb_vec = <<>> /\ ConnectOnNode' /\ ProcessOnNode'
    <3> SUFFICES ASSUME m_mb_vec' = <<>>
                 PROVE  m_mb_vec = <<>> /\ ConnectOnNode' /\ ProcessOnNode'
      OBVIOUS
    <3>1. m_mb_vec = <<>>
      BY <2>1, IteratorTypes
    <3> QED BY <1>2, <3>1, OthersKeepOnNode DEF Outgrown
  <2> QED BY <2>1, <2>2, <2>3 DEF Outgrown
<1>3. CASE Dies
  BY <1>3, DeathEnds, StartLabels
     DEF EndOfProcess, OnMap, MapKnown, ConnectOnNode, ProcessOnNode, BeforeScan, Rebuilding
<1>4. ~Edit
  BY RebuildTypes DEF Edit
<1>5. CASE UNCHANGED vars
  BY <1>5 DEF vars, shared, Outgrown, BeforeScan, Rebuilding, Pushed, ConnectOnNode,
              ProcessOnNode
<1> QED BY <1>1, <1>2, <1>3, <1>4, <1>5 DEF Next

(* Edits are made one at a time.                                           *)
LEMMA EditsGrow ==
  TypeOK /\ [Next]_vars => edits' = edits \/ (Edit /\ edits' = edits + 1)
<1> SUFFICES ASSUME TypeOK, [Next]_vars
             PROVE  edits' = edits \/ (Edit /\ edits' = edits + 1)
  OBVIOUS
<1>1. CASE Edit
  BY <1>1 DEF Edit
<1>2. CASE InitThread
  BY <1>2 DEF InitThread, ProtocolType, Scan, Row, Check, PushContext, PushFlag,
         PushBackend, NameBackend, Built
<1>3. CASE ConnectThread \/ ProcessThread
  BY <1>3, OthersLeave
<1>4. CASE Dies \/ UNCHANGED vars
  BY <1>4, DeathEnds DEF EndOfProcess, vars
<1> QED BY <1>1, <1>2, <1>3, <1>4 DEF Next

(* OneEditInv is inductive.                                                *)
LEMMA OneEditNext ==
  ASSUME ~SharedHelper, ~BusyDb
  PROVE  TypeOK /\ RebuildInv /\ OneEditInv /\ [Next]_vars => OneEditInv'
<1> SUFFICES ASSUME TypeOK, RebuildInv, OneEditInv, [Next]_vars
             PROVE  OneEditInv'
  OBVIOUS
<1>1. edits \in Nat
  BY RebuildTypes
<1>2. CASE edits' = edits
  <2>1. node' \subseteq node
    <3>1. ~Edit
      BY <1>1, <1>2 DEF Edit
    <3>2. CASE InitThread
      BY <3>2 DEF InitThread, ProtocolType, Scan, Row, Check, PushContext, PushFlag,
         PushBackend, NameBackend, Built
    <3>3. CASE ConnectThread \/ ProcessThread
      BY <3>3, OthersLeave
    <3>4. CASE Dies \/ UNCHANGED vars
      BY <3>4, DeathEnds DEF EndOfProcess, vars
    <3> QED BY <3>1, <3>2, <3>3, <3>4 DEF Next
  <2>2. CASE OnMap
    <3>1. OnMap'
      BY <2>1, <2>2, OnMapNext
    <3>2. edits = 0 => TableScanned'
      BY <1>2, ScannedNext DEF OneEditInv
    <3> QED BY <1>2, <3>1, <3>2 DEF OneEditInv
  <2>3. CASE Outgrown /\ edits = 1
    BY <1>2, <2>3, OutgrownNext DEF OneEditInv
  <2>4. CASE edits \notin {0, 1}
    BY <1>2, <2>4 DEF OneEditInv
  <2> QED BY <2>2, <2>3, <2>4 DEF OneEditInv
<1>3. CASE Edit /\ edits' = edits + 1
  <2>1. edits = 0 => OnMap' \/ Outgrown'
    BY <1>3, EditOutgrows DEF OneEditInv
  <2> QED BY <1>1, <1>3, <2>1 DEF OneEditInv
<1> QED BY <1>2, <1>3, EditsGrow

(* Until the second edit the threads are on the nodes of their channels,   *)
(* or the channels are other than the table's.                             *)
LEMMA OneEditAlways ==
  ASSUME ~SharedHelper, ~BusyDb
  PROVE  Spec => []OneEditInv
<1>1. Init => OneEditInv
  BY OnMapAtStart, ScannedInit DEF Init, OneEditInv
<1>2. TypeOK /\ RebuildInv /\ OneEditInv /\ [Next]_vars => OneEditInv'
  BY OneEditNext
<1> QED BY <1>1, <1>2, TypeCorrect, RebuildAlways, PTL DEF Spec

(* The same on every table that was edited no more than once, whatever the *)
(* edit was and wherever it cut into a scan, a rebuild or a round.  (A row *)
(* that is deleted and inserted again is one edit too many: the scan that  *)
(* did not see it is about to build the channels again.)                   *)
THEOREM DefinedOnceSettledOneEdit ==
  ASSUME ~SharedHelper, ~BusyDb, ~NoOffset, TextAddr = {}
  PROVE  Spec => [](edits <= 1 => DefinedOnceSettled)
<1>1. Outgrown => ~Settled
  <2> SUFFICES ASSUME Outgrown, Settled PROVE FALSE
    OBVIOUS
  <2>1. Len(m_mb_vec) > Cardinality(node) /\ Len(m_mb_vec) = Cardinality(node)
    BY DEF Outgrown, Settled
  <2> QED BY <2>1
<1>2. TypeOK /\ VectorsInStep /\ RebuildInv /\ OneEditInv
        => (edits <= 1 => DefinedOnceSettled)
  <2> SUFFICES ASSUME TypeOK, VectorsInStep, RebuildInv, OneEditInv, edits <= 1
               PROVE  DefinedOnceSettled
    OBVIOUS
  <2>1. OnMap \/ Outgrown
    BY RebuildTypes DEF OneEditInv
  <2> QED BY <1>1, <2>1, SettledIsDefined DEF DefinedOnceSettled
<1> QED
  BY <1>2, TypeCorrect, VectorsAlwaysInStep, RebuildAlways, OneEditAlways, PTL

-----------------------------------------------------------------------------
(* What is read from a channel, and under which id it is published.        *)

(* Until the first edit the node of a channel is one of the initial table. *)
Home(n, i) == Place(InitNode, n, i)

(* A backend may still name no device, or that of its channel.             *)
Named(d, i) == d = NoDev \/ Home(d, i)

(* Why: the rebuild names the backend it has just pushed, which is that of *)
(* the node its iterator is on.                                            *)
BackendsNamed ==
  /\ Rebuilding /\ ini.it # END => Home(ini.it, ini.index)
  /\ Len(m_backendvec) + (IF pc["init"] \in {"flag", "backend"} THEN 1 ELSE 0)
       = Len(m_mb_vec)
  /\ \A k \in 1..Len(m_backendvec) : Named(m_backendvec[k].dev, k)

(* Why: a context talks to the device its backend named, or, if it named   *)
(* none yet, to no device, and then it is never connected.                 *)
LinksOnNode ==
  /\ pc["connect"] = "connect" => Named(link[con.ctx], con.i)
  /\ pc["connect"] \in {"up", "store"} => Home(link[con.ctx], con.i)
  /\ \A k \in 1..Len(m_mb_vec) : m_mb_vec[k] # NULL => Home(link[m_mb_vec[k]], k)
  /\ prc.ctx # NULL => Home(link[prc.ctx], prc.i)
  /\ pc["process"] = "poll" => prc.ctx = NULL

(* Why: a reading is that of the channel being polled, and so is the id.   *)
ReadingOnNode ==
  /\ pc["process"] \in {"test", "switch"} => m_data_map = {}
  /\ pc["process"] \in {"ret", "dev", "send"} =>
       \A r \in m_data_map : Home(r.dev, prc.i)
  /\ pc["process"] = "send" /\ prc.it # END => prc.device = prc.it

(* The index of the rebuild is the number of the channel being built.      *)
LEMMA IndexOfChannel ==
  ASSUME TypeOK, TableScanned, BackendsNamed, Rebuilding, ini.it # END
  PROVE  /\ ini.it \in InitNode /\ ini.index \in Nat
         /\ Len(m_mb_vec) = IF pc["init"] = "push" THEN ini.index - 1 ELSE ini.index
<1>1. /\ Home(ini.it, ini.index) /\ m_nodeid_portaddr = InitNode
      /\ Len(m_mb_vec) = Cardinality(Pushed)
  BY DEF BackendsNamed, TableScanned
<1>2. ini.index \in Nat /\ ini.it \in InitNode
  BY <1>1, RebuildTypes DEF InitLocals, Position, Home, Place
<1>3. CASE pc["init"] = "push"
  <2>1. Pushed = Before(InitNode, ini.it)
    BY <1>1, <1>3 DEF Pushed, Before
  <2> QED BY <1>1, <1>2, <1>3, <2>1 DEF Home, Place
<1>4. CASE pc["init"] # "push"
  <2>1. Pushed = Before(InitNode, ini.it) \cup {ini.it}
    <3>1. Pushed = {m \in InitNode : m <= ini.it}
      BY <1>1, <1>4 DEF Pushed, Rebuilding
    <3> QED BY <1>2, <3>1, UpTo, InitNodes
  <2>2. Cardinality(Pushed) = Cardinality(Before(InitNode, ini.it)) + 1
    BY <1>2, <2>1, UpTo, InitNodes
  <2>3. Cardinality(Before(InitNode, ini.it)) = ini.index - 1
    BY <1>1 DEF Home, Place
  <2> QED BY <1>1, <1>2, <1>4, <2>2, <2>3
<1> QED BY <1>2, <1>3, <1>4

(* What a rebuild pushes names its node, or nothing yet, if the port is    *)
(* serial or TCP.                                                          *)
LEMMA OneBackend ==
  ASSUME NEW n \in NodeId, NEW letter \in {"N", "E", "O"}, ComType[n] \in {"1", "2"}
  PROVE  LET pushed == CreateBackend(ComType[n], letter, IpAddr(n))
         IN  /\ Len(pushed) = 1 /\ pushed[1].dev \in {n, NoDev}
             /\ DevName(n) \in {n, NoDev} /\ IpAddr(n) \in {n, NoDev}
BY DEF CreateBackend, IpAddr, DevName

(* A sequence of one element more.                                         *)
LEMMA PushOne ==
  ASSUME NEW S, NEW s \in Seq(S), NEW e \in Seq(S), Len(e) = 1
  PROVE  /\ Len(s \o e) = Len(s) + 1
         /\ \A k \in 1..Len(s) : (s \o e)[k] = s[k]
         /\ (s \o e)[Len(s) + 1] = e[1]
<1>1. Len(s) \in Nat /\ Len(s \o e) = Len(s) + Len(e)
  BY ConcatProperties, LenProperties
<1>2. \A k \in 1..Len(s) : (s \o e)[k] = s[k]
  BY <1>1, ConcatProperties
<1>3. (s \o e)[Len(s) + 1] = e[(Len(s) + 1) - Len(s)]
  BY <1>1, ConcatProperties
<1> QED BY <1>1, <1>2, <1>3

(* Building the channels names the backends.                               *)
LEMMA BuildingKeepsNamed ==
  ASSUME ~SharedHelper, ~BusyDb, \A n \in NodeId : ComType[n] \in {"1", "2"},
         TypeOK, RebuildInv, TableScanned, BackendsNamed, InitThread, TableScanned'
  PROVE  BackendsNamed'
<1>1. CASE ProtocolType \/ Scan \/ Row \/ (Check /\ ini.sum = m_checknum) \/ Built
  <2>1. m_mb_vec' = m_mb_vec /\ m_backendvec' = m_backendvec
    BY <1>1 DEF ProtocolType, Scan, Row, Check, Built, shared
  <2>2. /\ pc["init"] \in {"type", "scan", "row", "push"}
        /\ pc'["init"] \in {"scan", "row"}
    BY <1>1, InitJumps
       DEF ProtocolType, Scan, Row, Check, Built, At, InitLabel
  <2> QED BY <2>1, <2>2 DEF BackendsNamed, Rebuilding
<1>2. CASE Check /\ ini.sum # m_checknum
  <2>1. /\ pc["init"] = "row" /\ m_mb_vec' = m_mb_vec /\ m_backendvec' = m_backendvec
        /\ m_nodeid_portaddr' = m_nodeid_portaddr
    BY <1>2 DEF Check, At, shared
  <2>2. /\ pc'["init"] = "push" /\ ini'.it \in Begin /\ ini'.index = 1
    BY <1>2, RebuildStarts
  <2>3. m_nodeid_portaddr = InitNode
    BY <2>1, <2>2 DEF TableScanned, Rebuilding
  <2>4. ini'.it # END => Home(ini'.it, ini'.index)
    BY <2>2, <2>3, FirstPlace DEF Home
  <2> QED BY <2>1, <2>2, <2>4 DEF BackendsNamed
<1>3. CASE PushContext
  <2>1. /\ pc["init"] = "push" /\ pc'["init"] = "flag" /\ ini' = ini
        /\ Len(m_mb_vec') = Len(m_mb_vec) + 1 /\ m_backendvec' = m_backendvec
    BY <1>3, ContextPushed DEF RebuildInv, PushContext
  <2> QED BY <2>1, VectorLengths DEF BackendsNamed, Rebuilding
<1>4. CASE PushFlag
  <2>1. /\ pc["init"] = "flag" /\ pc'["init"] = "backend" /\ ini' = ini
        /\ m_mb_vec' = m_mb_vec /\ m_backendvec' = m_backendvec
    BY <1>4, InitJumps DEF PushFlag, At, InitLabel
  <2> QED BY <2>1 DEF BackendsNamed, Rebuilding
<1>5. CASE PushBackend
  <2>1. /\ pc["init"] = "backend" /\ pc'["init"] = "dev" /\ ini' = ini
        /\ m_mb_vec' = m_mb_vec /\ ini.it # END
    BY <1>5, InitJumps DEF PushBackend, At, InitLabel, TypeOK, InUse
  <2>2. PICK letter \in {"N", "E", "O"} :
          m_backendvec' = m_backendvec
                            \o CreateBackend(ComType[ini.it], letter, IpAddr(ini.it))
    BY <1>5, LetterType DEF PushBackend, Answer, Disturbed
  <2> DEFINE pushed == CreateBackend(ComType[ini.it], letter, IpAddr(ini.it))
  <2>3. /\ ini.it \in NodeId /\ Home(ini.it, ini.index) /\ ini.index \in Nat
        /\ Len(m_mb_vec) = ini.index
    BY <2>1, IndexOfChannel, InitNodes DEF BackendsNamed, Rebuilding
  <2>4. pushed \in Seq(Backend) /\ Len(pushed) = 1 /\ Named(pushed[1].dev, ini.index)
    BY <2>3, OneBackend, BackendType, DevType DEF Named
  <2>5. Len(m_backendvec) = ini.index - 1 /\ m_backendvec \in Seq(Backend)
    BY <2>1, <2>3, VectorLengths DEF BackendsNamed
  <2> HIDE DEF pushed
  <2>6. /\ Len(m_backendvec') = ini.index
        /\ \A k \in 1..Len(m_backendvec) : m_backendvec'[k] = m_backendvec[k]
        /\ m_backendvec'[ini.index] = pushed[1]
    <3>1. m_backendvec' = m_backendvec \o pushed
      BY <2>2 DEF pushed
    <3>2. /\ Len(m_backendvec') = Len(m_backendvec) + 1
          /\ \A k \in 1..Len(m_backendvec) : m_backendvec'[k] = m_backendvec[k]
          /\ m_backendvec'[Len(m_backendvec) + 1] = pushed[1]
      BY <2>4, <2>5, <3>1, PushOne
    <3>3. Len(m_backendvec) + 1 = ini.index
      BY <2>3, <2>5
    <3> QED BY <3>2, <3>3
  <2>7. \A k \in 1..Len(m_backendvec') : Named(m_backendvec'[k].dev, k)
    <3> TAKE k \in 1..Len(m_backendvec')
    <3>1. CASE k = ini.index
      BY <2>4, <2>6, <3>1
    <3>2. CASE k # ini.index
      <4>1. k \in 1..Len(m_backendvec)
        BY <2>3, <2>5, <2>6, <3>2
      <4> QED BY <2>6, <4>1 DEF BackendsNamed
    <3> QED BY <3>1, <3>2
  <2> QED BY <2>1, <2>3, <2>6, <2>7 DEF BackendsNamed
<1>6. CASE NameBackend
  <2>1. /\ pc["init"] = "dev" /\ pc'["init"] = "push" /\ m_mb_vec' = m_mb_vec
        /\ ini.it # END /\ ini'.it \in Next_(ini.it) /\ ini'.index = ini.index + 1
    BY <1>6, NextNode DEF NameBackend, RebuildInv, TypeOK, InUse
  <2>3. /\ ini.it \in NodeId /\ Home(ini.it, ini.index) /\ ini.index \in Nat
        /\ Len(m_mb_vec) = ini.index /\ m_nodeid_portaddr = InitNode
    BY <2>1, IndexOfChannel, InitNodes DEF BackendsNamed, Rebuilding, TableScanned
  <2>4. Len(m_backendvec') = Len(m_backendvec) /\ Len(m_backendvec) = ini.index
    BY <1>6, <2>1, <2>3, RenamedBackend, Overwrite, VectorLengths DEF BackendsNamed
  <2>5. \A k \in 1..Len(m_backendvec') : Named(m_backendvec'[k].dev, k)
    <3>1. PICK d \in {DevName(ini.it), IpAddr(ini.it)} :
            m_backendvec' = [m_backendvec EXCEPT ![ini.index] =
                               [m_backendvec[ini.index] EXCEPT !.dev = d]]
      <4>1. ~(ini.index > Len(m_backendvec))
        BY <2>3, <2>4
      <4>2. PICK b \in Renamed(m_backendvec[ini.index]) :
              m_backendvec' = [m_backendvec EXCEPT ![ini.index] = b]
        BY <1>6, <4>1 DEF NameBackend
      <4>3. /\ NameFound = {DevName(ini.it)}
            /\ IpAddrStr = {IpAddr(ini.it)}
        BY DEF NameFound, IpAddrStr, Answer, Disturbed
      <4>4. PICK d \in {DevName(ini.it), IpAddr(ini.it)} :
              b = [m_backendvec[ini.index] EXCEPT !.dev = d]
        BY <4>2, <4>3 DEF Renamed
      <4> QED BY <4>2, <4>4
    <3>2. m_backendvec[ini.index] \in Backend
      <4>1. ini.index \in Nat \ {0}
        BY <1>6 DEF NameBackend, At, TypeOK, LocalsType, InUse, InitLocals, Position
      <4>2. ini.index \in 1..Len(m_backendvec)
        BY <2>4, <4>1, VectorLengths
      <4> QED BY <4>2, VectorLengths
    <3>3. d \in {ini.it, NoDev}
      BY <2>3, OneBackend
    <3> TAKE k \in 1..Len(m_backendvec')
    <3>4. k \in 1..Len(m_backendvec)
      BY <2>4
    <3>5. CASE k # ini.index
      BY <3>1, <3>4, <3>5, VectorLengths DEF BackendsNamed
    <3>6. CASE k = ini.index
      <4>1. m_backendvec'[k].dev = d
        BY <3>1, <3>2, <3>4, <3>6, VectorLengths DEF Backend
      <4> QED BY <2>3, <3>3, <3>6, <4>1 DEF Named
    <3> QED BY <3>5, <3>6
  <2>6. ini'.it # END => Home(ini'.it, ini'.index)
    <3>1. ~Inserting
      BY <2>1 DEF Inserting
    <3> QED BY <2>1, <2>3, <3>1, NextPlace DEF Home
  <2> QED BY <2>1, <2>4, <2>5, <2>6 DEF BackendsNamed
<1> QED BY <1>1, <1>2, <1>3, <1>4, <1>5, <1>6 DEF InitThread

(* The connect and the process thread neither push nor name a backend.     *)
LEMMA OthersKeepNamed ==
  ASSUME TypeOK, BackendsNamed, ConnectThread \/ ProcessThread
  PROVE  BackendsNamed'
<1>1. m_backendvec' = m_backendvec
  <2>1. CASE ConnectThread
    BY <2>1, ConnectKeepsLengths
  <2>2. CASE ProcessThread
    BY <2>2 DEF ProcessThread, Poll, ReadContext, SkipChannel, TakeChannel, Request,
         CheckResult, NothingRead, FindDevice, Publish, PollDone, shared
  <2> QED BY <2>1, <2>2
<1>2. ini' = ini /\ pc'["init"] = pc["init"] /\ Len(m_mb_vec') = Len(m_mb_vec)
  BY OthersLeave
<1> QED BY <1>1, <1>2 DEF BackendsNamed, Rebuilding

(* A channel the init thread adds has no context yet.                      *)
LEMMA InitKeepsLinks ==
  ASSUME TypeOK, LinksOnNode, ReadingOnNode, InitThread
  PROVE  LinksOnNode' /\ ReadingOnNode'
<1>1. /\ con' = con /\ prc' = prc /\ link' = link /\ m_data_map' = m_data_map
      /\ m_mb_vec' = m_mb_vec \/ m_mb_vec' = Append(m_mb_vec, NULL)
  BY DEF InitThread, ProtocolType, Scan, Row, Check, PushContext, ContextsGrown, PushFlag,
         PushBackend, NameBackend, Built, shared
<1>2. pc' = pc \/ \E l \in InitLabel : Goto("init", l)
  BY DEF InitThread, ProtocolType, Scan, Row, Check, PushContext, PushFlag, PushBackend,
         NameBackend, Built, InitLabel
<1>3. pc'["connect"] = pc["connect"] /\ pc'["process"] = pc["process"]
  BY <1>2, ThreadJumps
<1>4. ASSUME NEW k \in 1..Len(m_mb_vec'), m_mb_vec'[k] # NULL
      PROVE  k \in 1..Len(m_mb_vec) /\ m_mb_vec'[k] = m_mb_vec[k]
  <2>1. Len(m_mb_vec) \in Nat /\ m_mb_vec \in Seq(Pointer)
    BY VectorLengths
  <2>2. CASE m_mb_vec' = m_mb_vec
    BY <1>4, <2>2
  <2>3. CASE m_mb_vec' = Append(m_mb_vec, NULL)
    <3> DEFINE grown == Append(m_mb_vec, NULL)
    <3>1. /\ Len(grown) = Len(m_mb_vec) + 1 /\ grown[Len(m_mb_vec) + 1] = NULL
          /\ \A j \in 1..Len(m_mb_vec) : grown[j] = m_mb_vec[j]
      BY <2>1
    <3>2. k \in 1..(Len(m_mb_vec) + 1) /\ grown[k] # NULL /\ m_mb_vec'[k] = grown[k]
      BY <1>4, <2>3, <3>1
    <3> HIDE DEF grown
    <3>3. k \in 1..Len(m_mb_vec)
      BY <2>1, <3>1, <3>2
    <3> QED BY <3>1, <3>2, <3>3
  <2> QED BY <1>1, <2>2, <2>3
<1> QED BY <1>1, <1>3, <1>4 DEF LinksOnNode, ReadingOnNode

(* As long as the contexts that are referred to keep their links, so do    *)
(* the channels and the process thread.                                    *)
LEMMA TableKeepsLinks ==
  ASSUME TypeOK, LinksOnNode, \A c \in Referenced : link'[c] = link[c],
         m_mb_vec' = m_mb_vec, prc' = prc, pc'["process"] = pc["process"]
  PROVE  /\ \A k \in 1..Len(m_mb_vec') :
              m_mb_vec'[k] # NULL => Home(link'[m_mb_vec'[k]], k)
         /\ prc'.ctx # NULL => Home(link'[prc'.ctx], prc'.i)
         /\ pc'["process"] = "poll" => prc'.ctx = NULL
<1>1. \A k \in 1..Len(m_mb_vec) : m_mb_vec[k] # NULL => m_mb_vec[k] \in Referenced
  BY DEF Referenced, Table
<1>2. prc.ctx # NULL => prc.ctx \in Referenced
  BY DEF Referenced
<1> QED BY <1>1, <1>2 DEF LinksOnNode

(* The connect thread gives a channel only a context that talks to the     *)
(* channel's node.                                                         *)
LEMMA ConnectKeepsLinks ==
  ASSUME TypeOK, VectorsInStep, ContextsOwned, BackendsNamed, LinksOnNode, ReadingOnNode,
         ConnectThread
  PROVE  LinksOnNode' /\ ReadingOnNode'
<1>1. prc' = prc /\ pc'["process"] = pc["process"]
  BY ConnectKeepsLengths
<1>2. m_data_map' = m_data_map
  BY DEF ConnectThread, SizeCheck, SkipConnected, CreateContext, ConnectFails,
         ConnectSucceeds, RaiseFlag, StoreContext, Login, LoginSpins, AllTried,
         SecondSizeCheck, SetFunction, SetBuffer, RoundDone, shared
<1>3. ReadingOnNode'
  BY <1>1, <1>2 DEF ReadingOnNode
<1>4. /\ link \in [Ctx -> NodeId \cup {NoDev, Free}] /\ con \in ConnectLocals
      /\ m_mb_vec \in Seq(Pointer) /\ prc.ctx \in Pointer
  BY DEF TypeOK, SharedType, LocalsType, ProcessLocals
<1>5. Referenced \subseteq Ctx
  BY <1>4 DEF Referenced, Table, Pointer
<1>6. CASE CreateContext
  <2>1. PICK c \in {x \in Ctx : link[x] = Free \/ x \notin Referenced} :
          /\ link' = [x \in Ctx |->
                        IF x = c THEN m_backendvec[con.i].dev
                        ELSE IF x \in Referenced THEN link[x] ELSE Free]
          /\ con' = [con EXCEPT !.ctx = c]
    BY <1>6 DEF CreateContext
  <2>2. c \notin Referenced /\ c \in Ctx
    BY <2>1 DEF ContextsOwned, ContextsLive
  <2>3. \A x \in Referenced : link'[x] = link[x]
    BY <1>5, <2>1, <2>2
  <2>4. con'.ctx = c /\ con'.i = con.i /\ link'[c] = m_backendvec[con.i].dev
    BY <1>4, <2>1, <2>2 DEF ConnectLocals
  <2>5. pc'["connect"] = "connect" /\ con.i \in 1..Len(m_backendvec) /\ m_mb_vec' = m_mb_vec
    BY <1>4, <1>6, ThreadJumps, VectorLengths DEF CreateContext, ConnectLocals, Position
  <2>6. Named(link'[con'.ctx], con'.i)
    BY <2>4, <2>5 DEF BackendsNamed
  <2> QED BY <1>1, <1>3, <2>3, <2>5, <2>6, TableKeepsLinks DEF LinksOnNode
<1>7. CASE ConnectFails
  <2>1. /\ link' = [link EXCEPT ![con.ctx] = Free] /\ m_mb_vec' = m_mb_vec
        /\ con.ctx \in Ctx \ Referenced /\ pc'["connect"] = "try"
    BY <1>7, ThreadJumps DEF ConnectFails, AfterRefusal, At, ContextsOwned
  <2>2. \A x \in Referenced : link'[x] = link[x]
    BY <1>4, <1>5, <2>1
  <2> QED BY <1>1, <1>3, <2>1, <2>2, TableKeepsLinks DEF LinksOnNode
<1>8. CASE ConnectSucceeds \/ RaiseFlag
  <2>1. /\ link' = link /\ m_mb_vec' = m_mb_vec /\ con' = con
        /\ \/ pc["connect"] = "connect" /\ link[con.ctx] # NoDev
           \/ pc["connect"] = "up"
        /\ pc'["connect"] \in {"up", "store"}
    BY <1>8, ThreadJumps DEF ConnectSucceeds, RaiseFlag, At, shared
  <2>2. Home(link'[con'.ctx], con'.i)
    BY <2>1 DEF LinksOnNode, Named
  <2> QED BY <1>1, <1>3, <2>1, <2>2, TableKeepsLinks DEF LinksOnNode
<1>9. CASE StoreContext
  <2>1. /\ pc["connect"] = "store" /\ pc'["connect"] = "login" /\ link' = link
        /\ Home(link[con.ctx], con.i)
    BY <1>9, ThreadJumps DEF StoreContext, At, LinksOnNode
  <2>2. CASE m_mb_vec' = m_mb_vec
    BY <1>1, <1>3, <2>1, <2>2, TableKeepsLinks DEF LinksOnNode
  <2>3. CASE m_mb_vec' = [m_mb_vec EXCEPT ![con.i] = con.ctx]
    <3>1. \A k \in 1..Len(m_mb_vec') :
            /\ k \in 1..Len(m_mb_vec)
            /\ m_mb_vec'[k] = IF k = con.i THEN con.ctx ELSE m_mb_vec[k]
      BY <1>4, <2>3
    <3> QED BY <1>1, <1>3, <2>1, <3>1 DEF LinksOnNode
  <2> QED BY <1>9, <2>2, <2>3 DEF StoreContext
<1>10. CASE ~(CreateContext \/ ConnectFails \/ ConnectSucceeds \/ RaiseFlag \/ StoreContext)
  <2>1. link' = link /\ m_mb_vec' = m_mb_vec
    BY <1>10 DEF ConnectThread, SizeCheck, SkipConnected, Login, LoginSpins, AllTried,
         SecondSizeCheck, SetFunction, SetBuffer, RoundDone, shared
  <2>2. pc'["connect"] \in {"size", "try", "spin", "size2", "func", "buffer"}
    BY <1>10, ThreadJumps DEF ConnectThread, SizeCheck, SkipConnected, Login, LoginSpins,
         AllTried, SecondSizeCheck, SetFunction, SetBuffer, RoundDone, At
  <2> QED BY <1>1, <1>3, <2>1, <2>2, TableKeepsLinks DEF LinksOnNode
<1> QED BY <1>6, <1>7, <1>8, <1>9, <1>10

(* The process thread takes the context of the channel it is on, and reads *)
(* it for that channel's node.                                             *)
LEMMA ProcessKeepsLinks ==
  ASSUME ~SharedHelper, ~BusyDb, TypeOK, VectorsInStep, LinksOnNode, ReadingOnNode,
         ProcessThread
  PROVE  LinksOnNode' /\ ReadingOnNode'
<1>1. m_mb_vec' = m_mb_vec /\ link' = link /\ con' = con
  BY DEF ProcessThread, Poll, ReadContext, SkipChannel, TakeChannel, Request,
         CheckResult, NothingRead, FindDevice, Publish, PollDone, shared
<1>2. pc'["connect"] = pc["connect"]
  <2>1. pc' = pc \/ \E l \in ProcessLabel : Goto("process", l)
    BY DEF ProcessThread, Poll, ReadContext, SkipChannel, TakeChannel, Request,
         CheckResult, NothingRead, AfterNothing, FindDevice, Publish, PollDone,
         ProcessLabel
  <2> QED BY <2>1, ThreadJumps
<1>3. CASE Poll
  <2>1. /\ pc["process"] = "poll" /\ pc'["process"] = "ctx" /\ prc'.ctx = prc.ctx
    BY <1>3, ThreadJumps, IteratorTypes DEF Poll, At, ProcessLocals
  <2> QED BY <1>1, <1>2, <2>1 DEF LinksOnNode, ReadingOnNode
<1>4. CASE ReadContext
  <2>1. /\ pc'["process"] = "test" /\ prc.i \in 1..Len(m_mb_vec) /\ m_data_map' = {}
        /\ prc'.i = prc.i /\ prc'.ctx = m_mb_vec[prc.i]
    BY <1>4, ThreadJumps, IteratorTypes, VectorLengths
       DEF ReadContext, DataMapCleared, ProcessLocals, Position
  <2> QED BY <1>1, <1>2, <2>1 DEF LinksOnNode, ReadingOnNode
<1>5. CASE SkipChannel \/ NothingRead \/ Publish
  <2>1. pc'["process"] = "ctx" /\ prc'.ctx = NULL
    BY <1>5, ThreadJumps, NextPolledStep
       DEF SkipChannel, NothingRead, AfterNothing, Publish
  <2> QED BY <1>1, <1>2, <2>1 DEF LinksOnNode, ReadingOnNode
<1>6. CASE TakeChannel \/ CheckResult
  <2>1. /\ prc' = prc /\ m_data_map' = m_data_map
        /\ \/ pc["process"] = "test" /\ pc'["process"] = "switch"
           \/ pc["process"] = "ret" /\ pc'["process"] = "dev"
    BY <1>6, ThreadJumps DEF TakeChannel, CheckResult, At, shared
  <2> QED BY <1>1, <1>2, <2>1 DEF LinksOnNode, ReadingOnNode
<1>7. CASE Request
  <2>1. /\ pc["process"] = "switch" /\ pc'["process"] = "ret"
        /\ prc'.i = prc.i /\ prc'.ctx = prc.ctx
        /\ \A r \in m_data_map' : r \in m_data_map \/ r.dev = link[prc.ctx]
    BY <1>7, ThreadJumps, IteratorTypes DEF Request, At, ProcessLocals
  <2>2. Home(link[prc.ctx], prc.i) /\ m_data_map = {}
    BY <2>1 DEF TypeOK, InUse, LinksOnNode, ReadingOnNode
  <2> QED BY <1>1, <1>2, <2>1, <2>2 DEF LinksOnNode, ReadingOnNode
<1>8. CASE FindDevice
  <2>1. /\ pc["process"] = "dev" /\ pc'["process"] = "send" /\ m_data_map' = m_data_map
        /\ prc'.i = prc.i /\ prc'.ctx = prc.ctx /\ prc'.it = prc.it
        /\ prc.it # END => prc'.device = prc.it
    BY <1>8, ThreadJumps, IteratorTypes
       DEF FindDevice, Found, Answer, Disturbed, At, ProcessLocals, shared
  <2> QED BY <1>1, <1>2, <2>1 DEF LinksOnNode, ReadingOnNode
<1>9. CASE PollDone
  <2>1. pc'["process"] = "poll" /\ prc'.ctx = NULL
    BY <1>9, ThreadJumps DEF PollDone, StartPrc
  <2> QED BY <1>1, <1>2, <2>1 DEF LinksOnNode, ReadingOnNode
<1> QED BY <1>3, <1>4, <1>5, <1>6, <1>7, <1>8, <1>9 DEF ProcessThread

-----------------------------------------------------------------------------
(* Together: on the way from a backend to a message.                       *)

OwnDevice == BackendsNamed /\ LinksOnNode /\ ReadingOnNode
UneditedOwnDevice == edits = 0 => OwnDevice

(* A gateway that has just started, or died, has no channel.               *)
LEMMA OwnDeviceAtStart ==
  ASSUME m_backendvec = <<>>, m_mb_vec = <<>>, m_data_map = {}, pc = StartPc,
         prc \in {StartPrc(r) : r \in {-1, 1, 2}}
  PROVE  OwnDevice
BY StartLabels
   DEF OwnDevice, BackendsNamed, LinksOnNode, ReadingOnNode, Rebuilding, StartPrc

(* OwnDevice is inductive while the table is left alone.                   *)
LEMMA OwnDeviceNext ==
  ASSUME ~SharedHelper, ~BusyDb, \A n \in NodeId : ComType[n] \in {"1", "2"}
  PROVE  TypeOK /\ VectorsInStep /\ ContextsOwned /\ RebuildInv /\ TableScanned /\ OwnDevice
         /\ TableScanned' /\ [Next]_vars /\ edits' = edits
           => OwnDevice'
<1> SUFFICES ASSUME TypeOK, VectorsInStep, ContextsOwned, RebuildInv, TableScanned,
                    OwnDevice, TableScanned', [Next]_vars, edits' = edits
             PROVE  OwnDevice'
  OBVIOUS
<1>1. BackendsNamed /\ LinksOnNode /\ ReadingOnNode
  BY DEF OwnDevice
<1>2. CASE InitThread
  BY <1>1, <1>2, BuildingKeepsNamed, InitKeepsLinks DEF OwnDevice
<1>3. CASE ConnectThread
  BY <1>1, <1>3, OthersKeepNamed, ConnectKeepsLinks DEF OwnDevice
<1>4. CASE ProcessThread
  BY <1>1, <1>4, OthersKeepNamed, ProcessKeepsLinks DEF OwnDevice
<1>5. CASE Dies
  <2>1. /\ m_backendvec' = <<>> /\ m_mb_vec' = <<>> /\ m_data_map' = {}
        /\ pc' = StartPc /\ prc' = StartPrc(1)
    BY <1>5, DeathEnds DEF EndOfProcess
  <2> QED
    BY <2>1, StartLabels
       DEF OwnDevice, BackendsNamed, LinksOnNode, ReadingOnNode, Rebuilding, StartPrc
<1>6. ~Edit
  BY RebuildTypes DEF Edit
<1>7. CASE UNCHANGED vars
  BY <1>1, <1>7
     DEF vars, shared, OwnDevice, BackendsNamed, LinksOnNode, ReadingOnNode, Rebuilding
<1> QED BY <1>2, <1>3, <1>4, <1>5, <1>6, <1>7 DEF Next

(* Until the first edit, contexts, readings and channels go together.      *)
LEMMA OwnDeviceAlways ==
  ASSUME ~SharedHelper, ~BusyDb, \A n \in NodeId : ComType[n] \in {"1", "2"}
  PROVE  Spec => []UneditedOwnDevice
<1>1. Init => UneditedOwnDevice
  BY OwnDeviceAtStart DEF Init, UneditedOwnDevice
<1>2. TypeOK /\ VectorsInStep /\ ContextsOwned /\ RebuildInv /\ OneEditInv
        /\ UneditedOwnDevice /\ OneEditInv' /\ [Next]_vars => UneditedOwnDevice'
  <2> SUFFICES ASSUME TypeOK, VectorsInStep, ContextsOwned, RebuildInv, OneEditInv,
                      UneditedOwnDevice, OneEditInv', [Next]_vars, edits' = 0
               PROVE  OwnDevice'
    BY DEF UneditedOwnDevice
  <2>1. edits' = edits
    BY EditsGrow, RebuildTypes
  <2> QED BY <2>1, OwnDeviceNext DEF OneEditInv, UneditedOwnDevice
<1> QED
  BY <1>1, <1>2, TypeCorrect, VectorsAlwaysInStep, ContextsAlwaysOwned, RebuildAlways,
     OneEditAlways, PTL DEF Spec

(* What is published under a device id was read from that device's port:   *)
(* on every table that is left alone and in every interleaving of its      *)
(* rebuild, of reconnections and of polls.  The iterator of the connect    *)
(* thread may lag behind its channels (216), the ports' addresses may not  *)
(* be there yet when a channel is opened (177): neither mixes up devices.  *)
THEOREM PublishedUnderOwnDeviceUnedited ==
  ASSUME ~SharedHelper, ~BusyDb, \A n \in NodeId : ComType[n] \in {"1", "2"}
  PROVE  Spec => []PublishedUnderOwnDevice
<1>1. TypeOK /\ VectorsInStep /\ OneEditInv /\ UneditedOwnDevice
        => PublishedUnderOwnDevice
  <2> SUFFICES ASSUME TypeOK, VectorsInStep, TableScanned, OnMap, OwnDevice,
                      pc["process"] = "send", NEW r \in m_data_map
               PROVE  r.dev = prc.device
    BY DEF OneEditInv, UneditedOwnDevice, PublishedUnderOwnDevice
  <2>1. Home(r.dev, prc.i) /\ (prc.it # END => prc.device = prc.it)
    BY DEF OwnDevice, ReadingOnNode
  <2>2. prc.i <= Cardinality(InitNode)
    <3>1. prc.i <= Len(m_mb_vec) /\ Len(m_mb_vec) <= Cardinality(InitNode)
      BY ChannelsOfNodes DEF VectorsInStep, ChannelsInRange
    <3> QED BY <3>1, IteratorTypes, VectorLengths, InitNodes
  <2>3. m_mb_vec # <<>> /\ KeepsUp(m_nodeid_portaddr, prc.it, prc.i)
    BY DEF OnMap, ProcessOnNode
  <2>4. Home(prc.it, prc.i)
    BY <2>2, <2>3, ChannelsOfNodes DEF KeepsUp, Home
  <2>5. prc.it # END
    BY <2>4, InitNodes, NodesCount DEF Home, Place
  <2> QED BY <2>1, <2>4, <2>5, SamePlace, InitNodes DEF Home
<1> QED
  BY <1>1, TypeCorrect, VectorsAlwaysInStep, OneEditAlways, OwnDeviceAlways, PTL
=============================================================================

