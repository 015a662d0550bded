----------------------------- MODULE Rebuild_proofs -----------------------------
(* How often the init thread of ModbusHandler builds the channels: at most *)
(* once, and once more per edit of the node table, however many edits cut  *)
(* into its scans and wherever they do.                                    *)
EXTENDS ModbusHandler_proofs, FiniteSetTheorems

-----------------------------------------------------------------------------
(* The checksum of a scan (96) depends on the ids it saw alone, not on the *)
(* order it saw them in: it is the sum of the set.  That there is such a   *)
(* function is shown on a smallest set that would have none.               *)

SumsOf(S) ==
  {f \in [SUBSET S -> Nat] :
     f[{}] = 0 /\ \A T \in SUBSET S : \A n \in S \ T : f[T \cup {n}] = f[T] + n}
Total == CHOOSE f \in SumsOf(NodeId) : TRUE

(* The sum of the ids of one set more: the new id is counted last.         *)
LEMMA SumWithOneMore ==
  ASSUME NEW S \in SUBSET NodeId, NEW x \in S, NEW g \in SumsOf(S \ {x})
  PROVE  [T \in SUBSET S |-> IF x \in T THEN g[T \ {x}] + x ELSE g[T]] \in SumsOf(S)
<1> DEFINE f == [T \in SUBSET S |-> IF x \in T THEN g[T \ {x}] + x ELSE g[T]]
<1>1. /\ g \in [SUBSET (S \ {x}) -> Nat] /\ g[{}] = 0
      /\ \A T \in SUBSET (S \ {x}) : \A n \in (S \ {x}) \ T : g[T \cup {n}] = g[T] + n
  BY DEF SumsOf
<1>2. x \in Nat /\ S \subseteq Nat
  BY NodeIdAssumption
<1>3. \A T \in SUBSET S : T \ {x} \in SUBSET (S \ {x}) /\ g[T \ {x}] \in Nat
  BY <1>1
<1>4. \A T \in SUBSET S : x \notin T => T \in SUBSET (S \ {x}) /\ g[T] \in Nat
  BY <1>1
<1>5. f \in [SUBSET S -> Nat]
  BY <1>2, <1>3, <1>4
<1>6. f[{}] = 0
  BY <1>1
<1>7. ASSUME NEW T \in SUBSET S, NEW n \in S \ T PROVE f[T \cup {n}] = f[T] + n
  <2>1. T \cup {n} \in SUBSET S
    OBVIOUS
  <2>2. CASE n = x
    <3>1. (T \cup {n}) \ {x} = T /\ x \notin T
      BY <1>7, <2>2
    <3> QED BY <2>1, <2>2, <3>1
  <2>3. CASE n # x /\ x \in T
    <3>1. (T \cup {n}) \ {x} = (T \ {x}) \cup {n} /\ n \in (S \ {x}) \ (T \ {x})
      BY <1>7, <2>3
    <3>2. g[(T \ {x}) \cup {n}] = g[T \ {x}] + n
      BY <1>1, <1>3, <3>1
    <3>3. f[T \cup {n}] = (g[T \ {x}] + n) + x /\ f[T] = g[T \ {x}] + x
      BY <2>1, <2>3, <3>1, <3>2
    <3>4. n \in Nat /\ g[T \ {x}] \in Nat
      BY <1>2, <1>3
    <3> QED BY <1>2, <3>3, <3>4
  <2>4. CASE n # x /\ x \notin T
    <3>1. T \in SUBSET (S \ {x}) /\ n \in (S \ {x}) \ T /\ x \notin T \cup {n}
      BY <1>7, <2>4
    <3> QED BY <1>1, <2>1, <2>4, <3>1
  <2> QED BY <2>2, <2>3, <2>4
<1> QED BY <1>5, <1>6, <1>7 DEF SumsOf

(* Every set of ids has a sum.                                             *)
LEMMA SumsExist == \A S \in SUBSET NodeId : SumsOf(S) # {}
<1> DEFINE Bad == {S \in SUBSET NodeId : SumsOf(S) = {}}
<1>1. SUFFICES ASSUME Bad # {} PROVE FALSE
  OBVIOUS
<1>2. IsWellFoundedOn(StrictSubsetOrdering(NodeId), SUBSET NodeId)
  BY NodeIdAssumption, FS_StrictSubsetOrderingWellFounded, FS_FiniteSubsetsOfFinite
<1>3. PICK S \in Bad : \A T \in Bad : ~(<<T, S>> \in StrictSubsetOrdering(NodeId))
  <2>1. Bad \subseteq SUBSET NodeId
    OBVIOUS
  <2> HIDE DEF Bad
  <2> QED BY <1>1, <1>2, <2>1, WFMin
<1>4. CASE S = {}
  <2>1. [T \in SUBSET S |-> 0] \in SumsOf(S)
    BY <1>4 DEF SumsOf
  <2> QED BY <2>1
<1>5. CASE S # {}
  <2>1. PICK x \in S : TRUE
    BY <1>5
  <2>2. S \ {x} \notin Bad
    BY <1>3 DEF StrictSubsetOrdering
  <2>3. PICK g : g \in SumsOf(S \ {x})
    BY <2>2
  <2> QED BY <2>3, SumWithOneMore
<1> QED BY <1>4, <1>5

(* The checksum of nothing is 0, and each id seen adds itself.             *)
LEMMA TotalSums ==
  /\ Total[{}] = 0
  /\ \A S \in SUBSET NodeId : Total[S] \in Nat
  /\ \A S \in SUBSET NodeId : \A n \in NodeId \ S : Total[S \cup {n}] = Total[S] + n
<1>1. Total \in SumsOf(NodeId)
  BY SumsExist DEF Total
<1> QED BY <1>1 DEF SumsOf

-----------------------------------------------------------------------------
(* What the invariant is made of.                                          *)

(* A scan knows the ids of the ports it has read, and takes the others for *)
(* what they were when the channels were built.                            *)
Apart(S, T) == (S \ T) \cup (T \ S)
BeforeScan == pc["init"] \in {"type", "scan"}
Unread == IF BeforeScan THEN NodeId ELSE ini.todo
Known  == (built \cap Unread) \cup (IF BeforeScan THEN {} ELSE ini.seen)
Behind == Apart(built, Known)     \* changes the scan has found
Ahead  == Apart(Known, node)      \* changes it has not

(* The nodes whose channel a rebuild has pushed.                           *)
Rebuilding == pc["init"] \in {"push", "flag", "backend", "dev"}
Pushed ==
  {n \in m_nodeid_portaddr :
     \/ pc["init"] = "push" /\ (ini.it = END \/ n < ini.it)
     \/ pc["init"] \in {"flag", "backend", "dev"} /\ n <= ini.it}

(* Why: the checksums are sums of the ids they stand for, so that a        *)
(* rebuild is only ever started for a set of ids that is another one.      *)
Summed ==
  /\ m_checknum = Total[built]
  /\ ~BeforeScan => ini.sum = Total[ini.seen] /\ ini.seen \cap ini.todo = {}
ForOtherIds ==
  Rebuilding => /\ ini.todo = {} /\ ini.seen # built
                /\ ini.it \in m_nodeid_portaddr \cup {END}

(* Why: each build but the first is paid for by an edit.  An edit adds one *)
(* change to those ahead of the scan; the scan moves it behind itself when *)
(* it comes by; the rebuild it causes clears those behind.                 *)
Paid ==
  \/ /\ built = {}
     /\ Len(m_mb_vec) <= Cardinality(Pushed)
     /\ Cardinality(Ahead \ Unread) <= edits
  \/ \E k \in Nat :
       /\ Len(m_mb_vec) <= k * Cardinality(NodeId) + Cardinality(Pushed)
       /\ k + Cardinality(Behind) + Cardinality(Ahead) <= 1 + edits

RebuildInv == Summed /\ ForOtherIds /\ Paid

-----------------------------------------------------------------------------
(* What the proofs use of the types.                                       *)
LEMMA RebuildTypes ==
  ASSUME TypeOK
  PROVE  /\ built \subseteq NodeId /\ node \subseteq NodeId
         /\ m_nodeid_portaddr \subseteq NodeId
         /\ ini \in InitLocals /\ Unread \subseteq NodeId /\ Known \subseteq NodeId
         /\ edits \in Nat /\ Len(m_mb_vec) \in Nat
         /\ pc \in [Thread -> InitLabel \cup ConnectLabel \cup ProcessLabel]
         /\ pc["init"] \in InitLabel
<1>1. /\ SharedType /\ PcType /\ ini \in InitLocals /\ node \subseteq NodeId
      /\ edits \in 0..MaxEdits
  BY DEF TypeOK, LocalsType
<1>2. Len(m_mb_vec) \in Nat /\ built \subseteq NodeId /\ m_nodeid_portaddr \subseteq NodeId
  BY <1>1 DEF SharedType
<1>3. edits \in Nat
  BY <1>1, ConfigAssumption
<1>4. ini.todo \subseteq NodeId /\ ini.seen \subseteq NodeId
  BY <1>1 DEF InitLocals
<1> QED BY <1>1, <1>2, <1>3, <1>4 DEF PcType, Unread, Known

(* Sets of ids can be counted.                                             *)
LEMMA Countable ==
  /\ Cardinality(NodeId) \in Nat
  /\ \A S \in SUBSET NodeId :
       /\ IsFiniteSet(S) /\ Cardinality(S) \in Nat
       /\ Cardinality(S) <= Cardinality(NodeId)
       /\ \A T \in SUBSET S : Cardinality(T) <= Cardinality(S)
       /\ \A n : n \notin S => Cardinality(S \cup {n}) = Cardinality(S) + 1
       /\ \A n : n \in S => Cardinality(S \ {n}) = Cardinality(S) - 1
       /\ S # {} => Cardinality(S) >= 1
  /\ Cardinality({}) = 0
<1>1. IsFiniteSet(NodeId) /\ Cardinality(NodeId) \in Nat
  BY NodeIdAssumption, FS_CardinalityType
<1>2. ASSUME NEW S \in SUBSET NodeId
      PROVE  /\ IsFiniteSet(S) /\ Cardinality(S) \in Nat
             /\ Cardinality(S) <= Cardinality(NodeId)
  BY <1>1, FS_Subset, FS_CardinalityType
<1>3. ASSUME NEW S \in SUBSET NodeId, NEW T \in SUBSET S
      PROVE  Cardinality(T) <= Cardinality(S)
  BY <1>2, FS_Subset
<1>4. ASSUME NEW S \in SUBSET NodeId, NEW n, n \notin S
      PROVE  Cardinality(S \cup {n}) = Cardinality(S) + 1
  BY <1>2, <1>4, FS_AddElement
<1>5. ASSUME NEW S \in SUBSET NodeId, NEW n, n \in S
      PROVE  Cardinality(S \ {n}) = Cardinality(S) - 1
  BY <1>2, <1>5, FS_RemoveElement
<1>6. ASSUME NEW S \in SUBSET NodeId, S # {} PROVE Cardinality(S) >= 1
  BY <1>2, <1>6, FS_EmptySet
<1> QED BY <1>1, <1>2, <1>3, <1>4, <1>5, <1>6, FS_EmptySet

(* The union of two sets of ids has no more elements than both together.   *)
LEMMA UnionCount ==
  ASSUME NEW S \in SUBSET NodeId, NEW T \in SUBSET NodeId, NEW U \in SUBSET (S \cup T)
  PROVE  Cardinality(U) <= Cardinality(S) + Cardinality(T)
<1>1. Cardinality(S \cup T) = Cardinality(S) + Cardinality(T) - Cardinality(S \cap T)
  BY Countable, FS_Union
<1>2. Cardinality(S \cap T) \in Nat /\ Cardinality(U) <= Cardinality(S \cup T)
  BY Countable
<1> QED BY <1>1, <1>2, Countable

(* The parts of the invariant are sets of ids.                             *)
LEMMA PartsType ==
  ASSUME TypeOK
  PROVE  Behind \subseteq NodeId /\ Ahead \subseteq NodeId /\ Pushed \subseteq NodeId
BY RebuildTypes DEF Behind, Ahead, Apart, Pushed

(* Outside a rebuild nothing of one is pushed.                             *)
LEMMA NothingPushed == ~Rebuilding => Pushed = {}
BY DEF Rebuilding, Pushed

(* The other two threads touch nothing a scan or a rebuild depends on.     *)
LEMMA OthersLeave ==
  ASSUME TypeOK, ConnectThread \/ ProcessThread
  PROVE  /\ node' = node /\ edits' = edits /\ ini' = ini
         /\ m_nodeid_portaddr' = m_nodeid_portaddr
         /\ m_checknum' = m_checknum /\ built' = built
         /\ Len(m_mb_vec') = Len(m_mb_vec)
         /\ pc'["init"] = pc["init"]
<1>1. CASE ConnectThread
  <2>1. Len(m_mb_vec') = Len(m_mb_vec) /\ pc'["init"] = pc["init"]
    BY <1>1, ConnectKeepsLengths
  <2>2. /\ node' = node /\ edits' = edits /\ ini' = ini
        /\ m_nodeid_portaddr' = m_nodeid_portaddr
        /\ m_checknum' = m_checknum /\ built' = built
    BY <1>1 DEF ConnectThread, SizeCheck, SkipConnected, CreateContext, ConnectFails,
         ConnectSucceeds, RaiseFlag, StoreContext, Login, LoginSpins, AllTried,
         SecondSizeCheck, SetFunction, SetBuffer, RoundDone, shared
  <2> QED BY <2>1, <2>2
<1>2. CASE ProcessThread
  <2>1. /\ node' = node /\ edits' = edits /\ ini' = ini
        /\ m_nodeid_portaddr' = m_nodeid_portaddr
        /\ m_checknum' = m_checknum /\ built' = built /\ m_mb_vec' = m_mb_vec
    BY <1>2 DEF ProcessThread, Poll, ReadContext, SkipChannel, TakeChannel, Request,
         CheckResult, NothingRead, FindDevice, Publish, PollDone, shared
  <2>2. pc' = pc \/ \E l \in ProcessLabel : Goto("process", l)
    BY <1>2 DEF ProcessThread, Poll, ReadContext, SkipChannel, TakeChannel,
              Request, CheckResult, NothingRead, AfterNothing, FindDevice,
              Publish, PollDone, ProcessLabel
  <2>3. pc'["init"] = pc["init"]
    BY <2>2, RebuildTypes DEF Goto, Thread
  <2> QED BY <2>1, <2>3
<1> QED BY <1>1, <1>2

(* What the invariant reads: a step that leaves all of it alone keeps it.  *)
LEMMA PaidUnchanged ==
  ASSUME Paid, built' = built, Known' = Known, Unread' = Unread, node' = node,
         edits' = edits, Pushed' = Pushed, Len(m_mb_vec') = Len(m_mb_vec)
  PROVE  Paid'
BY DEF Paid, Behind, Ahead, Apart

LEMMA RebuildUnchanged ==
  ASSUME RebuildInv, built' = built, m_checknum' = m_checknum, node' = node,
         edits' = edits, ini' = ini, m_nodeid_portaddr' = m_nodeid_portaddr,
         pc'["init"] = pc["init"], Len(m_mb_vec') = Len(m_mb_vec)
  PROVE  RebuildInv'
<1>1. Known' = Known /\ Unread' = Unread /\ Pushed' = Pushed
  BY DEF Known, Unread, Pushed, BeforeScan
<1>2. Paid'
  BY <1>1, PaidUnchanged DEF RebuildInv
<1> QED BY <1>2 DEF RebuildInv, Summed, ForOtherIds, BeforeScan, Rebuilding

-----------------------------------------------------------------------------
(* The steps of the init thread.                                           *)

(* Where a step of the init thread goes.                                   *)
LEMMA InitJumps ==
  ASSUME TypeOK
  PROVE  \A l \in InitLabel : Goto("init", l) => pc'["init"] = l
BY RebuildTypes DEF Goto, Thread

(* A port's row (87-95): the id enters the map, the set and the sum.       *)
LEMMA RowStep ==
  ASSUME TypeOK, ~SharedHelper, ~BusyDb, Row
  PROVE  \E n \in ini.todo :
           /\ ini'.todo = ini.todo \ {n}
           /\ ini'.seen = ini.seen \cup ({n} \cap node)
           /\ m_nodeid_portaddr' = m_nodeid_portaddr \cup ({n} \cap node)
           /\ ini'.sum = IF n \in node THEN ini.sum + n ELSE ini.sum
           /\ pc["init"] = "row" /\ pc' = pc
           /\ node' = node /\ edits' = edits /\ m_mb_vec' = m_mb_vec
           /\ built' = built /\ m_checknum' = m_checknum
<1>1. PICK n \in Smallest(ini.todo) :
        \E m \in Answer("init", IF n \in node THEN n ELSE NoNode,
                        NodeId \cup {NoNode}, NoNode) :
          /\ m_nodeid_portaddr' = m_nodeid_portaddr \cup ({m} \ {NoNode})
          /\ ini' = [ini EXCEPT !.todo = @ \ {n}, !.sum = @ + m,
                                !.seen = @ \cup ({m} \ {NoNode})]
  BY DEF Row
<1> DEFINE m == IF n \in node THEN n ELSE NoNode
<1>2. /\ m_nodeid_portaddr' = m_nodeid_portaddr \cup ({m} \ {NoNode})
      /\ ini' = [ini EXCEPT !.todo = @ \ {n}, !.sum = @ + m,
                            !.seen = @ \cup ({m} \ {NoNode})]
  BY <1>1 DEF Answer, Disturbed
<1>3. n \in ini.todo /\ n \in NodeId /\ n # NoNode
  BY <1>1, RebuildTypes, NodeIdAssumption DEF Smallest, InitLocals, NoNode
<1>4. {m} \ {NoNode} = {n} \cap node
  BY <1>3
<1>5. ini.sum + m = IF n \in node THEN ini.sum + n ELSE ini.sum
  BY RebuildTypes DEF InitLocals, NoNode
<1>6. /\ ini'.todo = ini.todo \ {n} /\ ini'.sum = ini.sum + m
      /\ ini'.seen = ini.seen \cup ({m} \ {NoNode})
  BY <1>2, RebuildTypes DEF InitLocals
<1>7. /\ pc["init"] = "row" /\ pc' = pc
      /\ node' = node /\ edits' = edits /\ m_mb_vec' = m_mb_vec
      /\ built' = built /\ m_checknum' = m_checknum
  BY DEF Row, At
<1> HIDE DEF m
<1> QED BY <1>2, <1>3, <1>4, <1>5, <1>6, <1>7

(* A scan moves what it finds changed from ahead of it to behind it.       *)
LEMMA RowKeeps ==
  ASSUME TypeOK, ~SharedHelper, ~BusyDb, RebuildInv, Row
  PROVE  RebuildInv'
<1>1. PICK n \in ini.todo :
           /\ ini'.todo = ini.todo \ {n}
           /\ ini'.seen = ini.seen \cup ({n} \cap node)
           /\ m_nodeid_portaddr' = m_nodeid_portaddr \cup ({n} \cap node)
           /\ ini'.sum = IF n \in node THEN ini.sum + n ELSE ini.sum
           /\ pc["init"] = "row" /\ pc' = pc
           /\ node' = node /\ edits' = edits /\ m_mb_vec' = m_mb_vec
           /\ built' = built /\ m_checknum' = m_checknum
  BY RowStep
<1>2. /\ ~BeforeScan /\ ~BeforeScan' /\ ~Rebuilding /\ ~Rebuilding'
      /\ Unread = ini.todo /\ Known = (built \cap ini.todo) \cup ini.seen
      /\ Unread' = ini.todo \ {n}
      /\ Known' = (built \cap (ini.todo \ {n})) \cup (ini.seen \cup ({n} \cap node))
  BY <1>1 DEF BeforeScan, Rebuilding, Unread, Known
<1>3. n \notin ini.seen /\ n \in NodeId /\ ini.seen \subseteq NodeId
  BY <1>1, <1>2, RebuildTypes DEF RebuildInv, Summed, InitLocals
<1>4. Summed'
  <2>1. ini'.seen \cap ini'.todo = {}
    BY <1>1, <1>2, <1>3 DEF RebuildInv, Summed
  <2>2. ini'.sum = Total[ini'.seen]
    <3>1. CASE n \in node
      BY <1>1, <1>2, <1>3, <3>1, TotalSums DEF RebuildInv, Summed
    <3>2. CASE n \notin node
      <4>1. ini'.seen = ini.seen
        BY <1>1, <3>2
      <4> QED BY <1>1, <1>2, <3>2, <4>1 DEF RebuildInv, Summed
    <3> QED BY <3>1, <3>2
  <2> QED BY <1>1, <2>1, <2>2 DEF RebuildInv, Summed
<1>5. Pushed' = {} /\ Pushed = {}
  BY <1>2, NothingPushed, NothingPushed DEF Pushed, Rebuilding
<1>6. Paid'
  <2>1. CASE (n \in Known) = (n \in node)
    <3>1. Known' = Known
      BY <1>2, <1>3, <2>1
    <3>2. Ahead' \ Unread' = Ahead \ Unread
      BY <1>1, <1>2, <2>1, <3>1 DEF Ahead, Apart
    <3> QED BY <1>1, <1>5, <3>1, <3>2 DEF RebuildInv, Paid, Behind, Ahead, Apart
  <2>2. CASE (n \in Known) # (n \in node)
    <3>1. n \in Ahead /\ Ahead' = Ahead \ {n} /\ Ahead' \ Unread' = Ahead \ Unread
      BY <1>1, <1>2, <1>3, <2>2 DEF Ahead, Apart
    <3>2. n \notin Behind /\ Behind' = Behind \cup {n}
      BY <1>1, <1>2, <1>3, <2>2 DEF Behind, Apart
    <3>3. /\ Cardinality(Ahead') = Cardinality(Ahead) - 1
          /\ Cardinality(Behind') = Cardinality(Behind) + 1
          /\ Cardinality(Ahead) \in Nat /\ Cardinality(Behind) \in Nat
      BY <3>1, <3>2, PartsType, Countable
    <3>4. ASSUME NEW k \in Nat,
                 Len(m_mb_vec) <= k * Cardinality(NodeId) + Cardinality(Pushed),
                 k + Cardinality(Behind) + Cardinality(Ahead) <= 1 + edits
          PROVE  Paid'
      <4>1. k + Cardinality(Behind') + Cardinality(Ahead') <= 1 + edits'
        BY <1>1, <3>3, <3>4, RebuildTypes
      <4>2. Len(m_mb_vec') <= k * Cardinality(NodeId) + Cardinality(Pushed')
        BY <1>1, <1>5, <3>4
      <4> QED BY <4>1, <4>2 DEF Paid
    <3>5. ASSUME built = {}, Len(m_mb_vec) <= Cardinality(Pushed),
                 Cardinality(Ahead \ Unread) <= edits
          PROVE  Paid'
      BY <1>1, <1>5, <3>1, <3>5 DEF Paid
    <3> QED BY <3>4, <3>5 DEF RebuildInv, Paid
  <2> QED BY <2>1, <2>2
<1> QED BY <1>2, <1>4, <1>6 DEF RebuildInv, ForOtherIds

(* A rebuild starts before the channel of the first node.                  *)
LEMMA RebuildStarts ==
  ASSUME TypeOK, Check, ini.sum # m_checknum
  PROVE  /\ pc'["init"] = "push" /\ Pushed' = {}
         /\ ini'.todo = ini.todo /\ ini'.seen = ini.seen /\ ini'.sum = ini.sum
         /\ ini'.it \in Begin /\ ini'.it \in m_nodeid_portaddr \cup {END}
         /\ ini'.index = 1
<1>1. PICK begin \in Begin : ini' = [ini EXCEPT !.it = begin, !.index = 1]
  BY DEF Check
<1>2. pc'["init"] = "push" /\ m_nodeid_portaddr' = m_nodeid_portaddr
  BY InitJumps DEF Check, InitLabel, shared
<1>3. /\ ini'.todo = ini.todo /\ ini'.seen = ini.seen /\ ini'.sum = ini.sum
      /\ ini'.it = begin /\ ini'.index = 1
  BY <1>1, RebuildTypes DEF InitLocals
<1>4. CASE m_nodeid_portaddr = {}
  BY <1>1, <1>2, <1>3, <1>4 DEF Begin, Pushed
<1>5. CASE m_nodeid_portaddr # {}
  <2>1. begin \in m_nodeid_portaddr /\ \A n \in m_nodeid_portaddr : begin <= n
    BY <1>1, <1>5 DEF Begin, Smallest
  <2>2. begin # END /\ \A n \in m_nodeid_portaddr : n \in Nat
    BY <2>1, RebuildTypes, NodeIdAssumption DEF END
  <2> QED BY <1>2, <1>3, <2>1, <2>2 DEF Pushed
<1> QED BY <1>4, <1>5

(* A context more is pushed, for one node more.                            *)
LEMMA ContextPushed ==
  ASSUME TypeOK, ForOtherIds, PushContext
  PROVE  /\ pc["init"] = "push" /\ pc'["init"] = "flag" /\ ini' = ini
         /\ ini.it \in m_nodeid_portaddr
         /\ Len(m_mb_vec') = Len(m_mb_vec) + 1
         /\ Cardinality(Pushed') = Cardinality(Pushed) + 1
<1>1. /\ pc["init"] = "push" /\ pc'["init"] = "flag" /\ ini' = ini /\ ini.it # END
      /\ m_nodeid_portaddr' = m_nodeid_portaddr
  BY InitJumps DEF PushContext, At, InitLabel
<1>2. Len(m_mb_vec') = Len(m_mb_vec) + 1
  <2>1. m_mb_vec' = Append(m_mb_vec, NULL)
    BY DEF PushContext, ContextsGrown
  <2> QED BY <2>1, VectorLengths
<1>3. ini.it \in m_nodeid_portaddr /\ \A n \in m_nodeid_portaddr : n \in Nat
  BY <1>1, RebuildTypes, NodeIdAssumption DEF ForOtherIds, Rebuilding
<1>4. ini.it \notin Pushed /\ Pushed' = Pushed \cup {ini.it}
  BY <1>1, <1>3 DEF Pushed
<1>5. Cardinality(Pushed') = Cardinality(Pushed) + 1
  BY <1>4, PartsType, Countable
<1> QED BY <1>1, <1>2, <1>3, <1>5

(* The iterator goes to the node after those whose channels are pushed.    *)
LEMMA NextNode ==
  ASSUME TypeOK, ForOtherIds, NameBackend
  PROVE  /\ pc["init"] = "dev" /\ pc'["init"] = "push" /\ Pushed' = Pushed
         /\ ini'.todo = ini.todo /\ ini'.seen = ini.seen /\ ini'.sum = ini.sum
         /\ ini.it \in m_nodeid_portaddr /\ ini'.it \in Next_(ini.it)
         /\ ini'.it \in m_nodeid_portaddr \cup {END} /\ ini'.index = ini.index + 1
<1>1. /\ pc["init"] = "dev" /\ pc'["init"] = "push"
      /\ m_nodeid_portaddr' = m_nodeid_portaddr
  BY InitJumps DEF NameBackend, At, InitLabel
<1>2. PICK next \in Next_(ini.it) : ini' = [ini EXCEPT !.it = next, !.index = @ + 1]
  BY DEF NameBackend
<1>3. /\ ini'.todo = ini.todo /\ ini'.seen = ini.seen /\ ini'.sum = ini.sum
      /\ ini'.it = next /\ ini'.index = ini.index + 1
  BY <1>2, RebuildTypes DEF InitLocals
<1>4. ini.it \in m_nodeid_portaddr /\ \A n \in m_nodeid_portaddr : n \in Nat /\ n # END
  BY <1>1, RebuildTypes, NodeIdAssumption
     DEF ForOtherIds, Rebuilding, TypeOK, InUse, END
<1>6. ~Inserting
  BY <1>1 DEF Inserting
<1>5. next \in m_nodeid_portaddr \cup {END} /\ Pushed' = Pushed
  <2>1. CASE After(ini.it) = {}
    BY <1>1, <1>2, <1>3, <1>4, <1>6, <2>1 DEF Next_, After, Pushed
  <2>2. CASE After(ini.it) # {}
    <3>1. next \in After(ini.it) /\ \A n \in After(ini.it) : next <= n
      BY <1>2, <1>4, <1>6, <2>2 DEF Next_, Smallest
    <3> QED BY <1>1, <1>3, <1>4, <3>1 DEF After, Pushed
  <2> QED BY <2>1, <2>2
<1> QED BY <1>1, <1>2, <1>3, <1>4, <1>5

(* The end of a scan (98-104): the channels are right, and what the scan   *)
(* found is forgotten, or they are built for another set of ids.           *)
LEMMA CheckKeeps ==
  ASSUME TypeOK, RebuildInv, Check
  PROVE  RebuildInv'
<1>1. /\ pc["init"] = "row" /\ ini.todo = {} /\ m_mb_vec' = m_mb_vec
      /\ node' = node /\ edits' = edits /\ built' = built
      /\ m_checknum' = m_checknum /\ m_nodeid_portaddr' = m_nodeid_portaddr
  BY DEF Check, At, shared
<1>2. ~BeforeScan /\ ~Rebuilding /\ Unread = {} /\ Known = ini.seen
  BY <1>1 DEF BeforeScan, Rebuilding, Unread, Known
<1>3. Pushed = {}
  BY <1>2, NothingPushed
<1>4. CASE ini.sum = m_checknum
  <2>1. pc'["init"] = "scan" /\ ini' = ini
    BY <1>4, InitJumps DEF Check, InitLabel
  <2>2. BeforeScan' /\ Unread' = NodeId /\ Known' = built /\ Pushed' = {} /\ ~Rebuilding'
    BY <1>1, <2>1, RebuildTypes DEF BeforeScan, Unread, Known, Pushed, Rebuilding
  <2>3. Behind' = {} /\ Ahead' \subseteq Behind \cup Ahead /\ Ahead' \ Unread' = {}
    BY <1>1, <2>2, RebuildTypes DEF Behind, Ahead, Apart
  <2>4. Cardinality(Ahead') <= Cardinality(Behind) + Cardinality(Ahead)
    BY <2>3, PartsType, UnionCount
  <2>5. CASE built = {} /\ Len(m_mb_vec) <= Cardinality(Pushed)
    <3>1. Cardinality(Ahead' \ Unread') <= edits'
      BY <1>1, <2>3, Countable, RebuildTypes
    <3> QED BY <1>1, <1>3, <2>2, <2>5, <3>1 DEF Paid, RebuildInv, Summed, ForOtherIds
  <2>6. ASSUME NEW k \in Nat,
               Len(m_mb_vec) <= k * Cardinality(NodeId) + Cardinality(Pushed),
               k + Cardinality(Behind) + Cardinality(Ahead) <= 1 + edits
        PROVE  Paid'
    <3>1. /\ Cardinality(Behind) \in Nat /\ Cardinality(Ahead) \in Nat
          /\ Cardinality(Behind') = 0 /\ Cardinality(Ahead') \in Nat
      <4>1. Ahead' \subseteq NodeId
        BY <2>3, PartsType
      <4> QED BY <2>3, <4>1, PartsType, Countable
    <3>2. k + Cardinality(Behind') + Cardinality(Ahead') <= 1 + edits'
      BY <1>1, <2>4, <2>6, <3>1, RebuildTypes
    <3> QED BY <1>1, <1>3, <2>2, <2>6, <3>2 DEF Paid
  <2>7. Paid'
    BY <2>5, <2>6 DEF RebuildInv, Paid
  <2> QED BY <1>1, <2>2, <2>7 DEF RebuildInv, Summed, ForOtherIds
<1>5. CASE ini.sum # m_checknum
  <2>1. /\ pc'["init"] = "push" /\ Pushed' = {}
        /\ ini'.todo = ini.todo /\ ini'.seen = ini.seen /\ ini'.sum = ini.sum
        /\ ini'.it \in m_nodeid_portaddr \cup {END}
    BY <1>5, RebuildStarts
  <2>2. Unread' = Unread /\ Known' = Known
    BY <1>1, <1>2, <2>1 DEF BeforeScan, Unread, Known
  <2>3. Paid'
    BY <1>1, <1>3, <2>1, <2>2, PaidUnchanged DEF RebuildInv
  <2>4. ini.seen # built
    BY <1>2, <1>5 DEF RebuildInv, Summed
  <2> QED
    BY <1>1, <1>2, <2>1, <2>3, <2>4
       DEF RebuildInv, Summed, ForOtherIds, BeforeScan
<1> QED BY <1>4, <1>5

(* Nothing the invariant reads changes but the label.                      *)
LEMMA LabelKeeps ==
  ASSUME TypeOK, RebuildInv, ProtocolType \/ PushFlag \/ PushBackend
  PROVE  RebuildInv'
<1>1. /\ m_mb_vec' = m_mb_vec /\ ini' = ini
      /\ node' = node /\ edits' = edits /\ built' = built
      /\ m_checknum' = m_checknum /\ m_nodeid_portaddr' = m_nodeid_portaddr
  BY DEF ProtocolType, PushFlag, PushBackend, shared
<1>2. CASE ProtocolType
  <2>1. pc["init"] = "type" /\ pc'["init"] = "scan"
    BY <1>2, InitJumps DEF ProtocolType, At, InitLabel
  <2>2. BeforeScan /\ BeforeScan' /\ Unread' = Unread /\ Known' = Known /\ Pushed' = Pushed
    BY <1>1, <2>1 DEF BeforeScan, Unread, Known, Pushed
  <2>3. Paid'
    BY <1>1, <2>2, PaidUnchanged DEF RebuildInv
  <2> QED BY <1>1, <2>1, <2>2, <2>3 DEF RebuildInv, Summed, ForOtherIds, Rebuilding
<1>3. CASE PushFlag \/ PushBackend
  <2>1. pc["init"] \in {"flag", "backend"} /\ pc'["init"] \in {"backend", "dev"}
    BY <1>3, InitJumps DEF PushFlag, PushBackend, At, InitLabel
  <2>2. ~BeforeScan /\ ~BeforeScan' /\ Unread' = Unread /\ Known' = Known /\ Pushed' = Pushed
    BY <1>1, <2>1 DEF BeforeScan, Unread, Known, Pushed
  <2>3. Paid'
    BY <1>1, <2>2, PaidUnchanged DEF RebuildInv
  <2> QED BY <1>1, <2>1, <2>2, <2>3 DEF RebuildInv, Summed, ForOtherIds, Rebuilding
<1> QED BY <1>2, <1>3

(* A scan starts with every port still to read, and a checksum of 0 (85).  *)
LEMMA ScanKeeps ==
  ASSUME TypeOK, RebuildInv, Scan
  PROVE  RebuildInv'
<1>1. /\ m_mb_vec' = m_mb_vec /\ node' = node /\ edits' = edits /\ built' = built
      /\ m_checknum' = m_checknum /\ m_nodeid_portaddr' = m_nodeid_portaddr
      /\ pc["init"] = "scan" /\ pc'["init"] = "row"
  BY InitJumps DEF Scan, At, shared, InitLabel
<1>2. ini'.todo = NodeId /\ ini'.seen = {} /\ ini'.sum = 0
  BY RebuildTypes DEF Scan, ScanStart, InitLocals
<1>3. BeforeScan /\ ~BeforeScan' /\ Unread' = Unread /\ Known' = Known /\ Pushed' = Pushed
  BY <1>1, <1>2 DEF BeforeScan, Unread, Known, Pushed
<1>4. Paid'
  BY <1>1, <1>3, PaidUnchanged DEF RebuildInv
<1> QED
  BY <1>1, <1>2, <1>3, <1>4, TotalSums DEF RebuildInv, Summed, ForOtherIds, Rebuilding

(* A context more, for a node more (111).                                  *)
LEMMA PushContextKeeps ==
  ASSUME TypeOK, RebuildInv, PushContext
  PROVE  RebuildInv'
<1>1. /\ node' = node /\ edits' = edits /\ built' = built
      /\ m_checknum' = m_checknum /\ m_nodeid_portaddr' = m_nodeid_portaddr
  BY DEF PushContext
<1>2. /\ pc["init"] = "push" /\ pc'["init"] = "flag" /\ ini' = ini
      /\ Len(m_mb_vec') = Len(m_mb_vec) + 1
      /\ Cardinality(Pushed') = Cardinality(Pushed) + 1
  BY ContextPushed DEF RebuildInv
<1>3. Cardinality(Pushed) \in Nat
  BY PartsType, Countable
<1>4. ~BeforeScan /\ ~BeforeScan' /\ Unread' = Unread /\ Known' = Known
  BY <1>1, <1>2 DEF BeforeScan, Unread, Known
<1>5. Behind' = Behind /\ Ahead' = Ahead
  BY <1>1, <1>4 DEF Behind, Ahead
<1>6. ASSUME NEW k \in Nat,
             Len(m_mb_vec) <= k * Cardinality(NodeId) + Cardinality(Pushed)
      PROVE  Len(m_mb_vec') <= k * Cardinality(NodeId) + Cardinality(Pushed')
  <2>1. k * Cardinality(NodeId) \in Nat
    BY Countable
  <2> QED BY ONLY <1>2, <1>3, <1>6, <2>1, VectorLengths, TypeOK
<1>7. Len(m_mb_vec) <= Cardinality(Pushed) => Len(m_mb_vec') <= Cardinality(Pushed')
  BY <1>2, <1>3, VectorLengths
<1>8. Paid'
  BY <1>1, <1>4, <1>5, <1>6, <1>7 DEF RebuildInv, Paid
<1> QED BY <1>1, <1>2, <1>4, <1>8 DEF RebuildInv, Summed, ForOtherIds, Rebuilding

(* Naming a backend changes nothing that counts.                           *)
LEMMA NameBackendKeeps ==
  ASSUME TypeOK, RebuildInv, NameBackend
  PROVE  RebuildInv'
<1>1. /\ m_mb_vec' = m_mb_vec /\ node' = node /\ edits' = edits /\ built' = built
      /\ m_checknum' = m_checknum /\ m_nodeid_portaddr' = m_nodeid_portaddr
  BY DEF NameBackend
<1>2. /\ pc["init"] = "dev" /\ pc'["init"] = "push" /\ Pushed' = Pushed
      /\ ini'.todo = ini.todo /\ ini'.seen = ini.seen /\ ini'.sum = ini.sum
      /\ ini'.it \in m_nodeid_portaddr \cup {END}
  BY NextNode DEF RebuildInv
<1>3. ~BeforeScan /\ ~BeforeScan' /\ Unread' = Unread /\ Known' = Known
  BY <1>1, <1>2 DEF BeforeScan, Unread, Known
<1>4. Paid'
  BY <1>1, <1>2, <1>3, PaidUnchanged DEF RebuildInv
<1> QED
  BY <1>1, <1>2, <1>3, <1>4 DEF RebuildInv, Summed, ForOtherIds, Rebuilding

(* The channels stand for what the scan saw (190): nothing is behind it.   *)
LEMMA BuiltKeeps ==
  ASSUME TypeOK, RebuildInv, Built
  PROVE  RebuildInv'
<1>1. /\ m_mb_vec' = m_mb_vec /\ node' = node /\ edits' = edits /\ ini' = ini
      /\ built' = ini.seen /\ m_checknum' = ini.sum
      /\ m_nodeid_portaddr' = m_nodeid_portaddr
      /\ pc["init"] = "push" /\ pc'["init"] = "scan" /\ ini.it = END
  BY InitJumps DEF Built, At, InitLabel
<1>2. /\ ~BeforeScan /\ Unread = {} /\ Known = ini.seen /\ ini.seen # built
      /\ ini.sum = Total[ini.seen] /\ ini.seen \subseteq NodeId
      /\ Pushed \subseteq m_nodeid_portaddr
  BY <1>1, RebuildTypes
     DEF RebuildInv, Summed, ForOtherIds, BeforeScan, Rebuilding, Unread, Known, Pushed,
         InitLocals
<1>3. /\ BeforeScan' /\ ~Rebuilding' /\ Unread' = NodeId /\ Known' = ini.seen
      /\ Pushed' = {}
  BY <1>1, <1>2 DEF BeforeScan, Rebuilding, Unread, Known, Pushed
<1>4. Behind' = {} /\ Ahead' = Ahead /\ Behind # {}
  BY <1>1, <1>2, <1>3 DEF Behind, Ahead, Apart
<1>5. /\ Cardinality(Behind) \in Nat /\ Cardinality(Behind) >= 1
      /\ Cardinality(Ahead) \in Nat /\ Cardinality(Behind') = 0
      /\ Cardinality(Pushed) \in Nat /\ Cardinality(Pushed) <= Cardinality(NodeId)
      /\ Cardinality(Pushed') = 0
  BY <1>3, <1>4, PartsType, Countable
<1>6. Paid'
  <2>1. CASE Len(m_mb_vec) <= Cardinality(Pushed) /\ Cardinality(Ahead \ Unread) <= edits
    <3>1. Len(m_mb_vec') <= 1 * Cardinality(NodeId) + Cardinality(Pushed')
      BY <1>1, <1>5, <2>1, Countable, RebuildTypes
    <3>2. Ahead \ Unread = Ahead
      BY <1>2
    <3>3. Cardinality(Ahead) <= edits
      BY <2>1, <3>2
    <3>4. 1 + Cardinality(Behind') + Cardinality(Ahead') <= 1 + edits'
      BY <1>1, <1>4, <1>5, <3>3, RebuildTypes
    <3> QED BY <3>1, <3>4 DEF Paid
  <2>2. ASSUME NEW k \in Nat,
               Len(m_mb_vec) <= k * Cardinality(NodeId) + Cardinality(Pushed),
               k + Cardinality(Behind) + Cardinality(Ahead) <= 1 + edits
        PROVE  Paid'
    <3>1. (k + 1) * Cardinality(NodeId) = k * Cardinality(NodeId) + Cardinality(NodeId)
      BY Countable
    <3>2. k * Cardinality(NodeId) \in Nat
      BY Countable
    <3>3. Len(m_mb_vec') <= (k + 1) * Cardinality(NodeId) + Cardinality(Pushed')
      BY <1>1, <1>5, <2>2, <3>1, <3>2, Countable, RebuildTypes
    <3>4. (k + 1) + Cardinality(Behind') + Cardinality(Ahead') <= 1 + edits'
      BY <1>1, <1>4, <1>5, <2>2, RebuildTypes
    <3>5. k + 1 \in Nat
      OBVIOUS
    <3> QED BY <3>3, <3>4, <3>5 DEF Paid
  <2> QED BY <2>1, <2>2 DEF RebuildInv, Paid
<1> QED BY <1>1, <1>2, <1>3, <1>6 DEF RebuildInv, Summed, ForOtherIds

(* An edit puts at most one change ahead of the scan, and pays for it.     *)
LEMMA EditKeeps ==
  ASSUME TypeOK, RebuildInv, Edit
  PROVE  RebuildInv'
<1>1. /\ m_mb_vec' = m_mb_vec /\ ini' = ini /\ pc' = pc /\ built' = built
      /\ m_checknum' = m_checknum /\ m_nodeid_portaddr' = m_nodeid_portaddr
      /\ edits' = edits + 1
  BY DEF Edit, shared
<1>2. PICK n \in NodeId : node' = IF n \in node THEN node \ {n} ELSE node \cup {n}
  BY DEF Edit
<1>3. Known' = Known /\ Unread' = Unread /\ Pushed' = Pushed /\ Behind' = Behind
  BY <1>1 DEF BeforeScan, Unread, Known, Pushed, Behind
<1>4. Ahead' \subseteq Ahead \cup {n} /\ Ahead' \ Unread' \subseteq (Ahead \ Unread) \cup {n}
  BY <1>2, <1>3 DEF Ahead, Apart
<1>5. \A S \in SUBSET NodeId : Cardinality(S \cup {n}) <= Cardinality(S) + 1
  <2> TAKE S \in SUBSET NodeId
  <2>1. CASE n \in S
    <3>1. S \cup {n} = S
      BY <2>1
    <3> QED BY <3>1, Countable
  <2>2. CASE n \notin S
    BY <2>2, Countable
  <2> QED BY <2>1, <2>2
<1>6. /\ Ahead \cup {n} \in SUBSET NodeId /\ (Ahead \ Unread) \cup {n} \in SUBSET NodeId
      /\ Ahead \in SUBSET NodeId /\ Ahead \ Unread \in SUBSET NodeId
  BY PartsType
<1>7. /\ Cardinality(Ahead') <= Cardinality(Ahead) + 1
      /\ Cardinality(Ahead' \ Unread') <= Cardinality(Ahead \ Unread) + 1
      /\ Cardinality(Ahead) \in Nat /\ Cardinality(Ahead \ Unread) \in Nat
      /\ Cardinality(Ahead') \in Nat /\ Cardinality(Ahead' \ Unread') \in Nat
  <2>1. /\ Cardinality(Ahead') <= Cardinality(Ahead \cup {n})
        /\ Cardinality(Ahead' \ Unread') <= Cardinality((Ahead \ Unread) \cup {n})
    BY <1>4, <1>6, Countable
  <2>2. /\ Cardinality(Ahead \cup {n}) <= Cardinality(Ahead) + 1
        /\ Cardinality((Ahead \ Unread) \cup {n}) <= Cardinality(Ahead \ Unread) + 1
    BY <1>5, <1>6
  <2>3. Ahead' \in SUBSET NodeId /\ Ahead' \ Unread' \in SUBSET NodeId
    BY <1>4, <1>6
  <2>4. /\ Cardinality(Ahead) \in Nat /\ Cardinality(Ahead \ Unread) \in Nat
        /\ Cardinality(Ahead') \in Nat /\ Cardinality(Ahead' \ Unread') \in Nat
        /\ Cardinality(Ahead \cup {n}) \in Nat
        /\ Cardinality((Ahead \ Unread) \cup {n}) \in Nat
    BY <1>6, <2>3, Countable
  <2> QED BY <2>1, <2>2, <2>4
<1>8. ASSUME built = {}, Len(m_mb_vec) <= Cardinality(Pushed),
             Cardinality(Ahead \ Unread) <= edits
      PROVE  Paid'
  BY <1>1, <1>3, <1>7, <1>8, RebuildTypes DEF Paid
<1>9. ASSUME NEW k \in Nat,
             Len(m_mb_vec) <= k * Cardinality(NodeId) + Cardinality(Pushed),
             k + Cardinality(Behind) + Cardinality(Ahead) <= 1 + edits
      PROVE  Paid'
  <2>1. Cardinality(Behind) \in Nat
    BY PartsType, Countable
  <2>2. k + Cardinality(Behind') + Cardinality(Ahead') <= 1 + edits'
    BY <1>1, <1>3, <1>7, <1>9, <2>1, RebuildTypes
  <2>3. Len(m_mb_vec') <= k * Cardinality(NodeId) + Cardinality(Pushed')
    BY <1>1, <1>3, <1>9
  <2> QED BY <2>2, <2>3 DEF Paid
<1>10. Paid'
  BY <1>8, <1>9 DEF RebuildInv, Paid
<1> QED
  BY <1>1, <1>10 DEF RebuildInv, Summed, ForOtherIds, BeforeScan, Rebuilding

-----------------------------------------------------------------------------
(* The invariant, and what it says about the channels.                     *)

(* Nothing is built at start.                                              *)
LEMMA RebuildInit == Init => RebuildInv
<1> SUFFICES ASSUME Init PROVE RebuildInv
  OBVIOUS
<1>1. /\ built = {} /\ m_checknum = 0 /\ m_mb_vec = <<>> /\ pc["init"] = "type"
      /\ edits \in Nat /\ node \subseteq NodeId
  BY TypeInit, RebuildTypes, StartLabels DEF Init
<1>2. BeforeScan /\ ~Rebuilding /\ Unread = NodeId /\ Known = {}
  BY <1>1 DEF BeforeScan, Rebuilding, Unread, Known
<1>3. Ahead \ Unread = {} /\ Pushed = {}
  BY <1>1, <1>2, NothingPushed DEF Ahead, Apart
<1> QED BY <1>1, <1>2, <1>3, TotalSums, Countable DEF RebuildInv, Summed, ForOtherIds, Paid

(* RebuildInv is inductive, given the types, while queries are answered.   *)
LEMMA RebuildNext ==
  ASSUME ~SharedHelper, ~BusyDb
  PROVE  TypeOK /\ TypeOK' /\ RebuildInv /\ [Next]_vars => RebuildInv'
<1> SUFFICES ASSUME TypeOK, TypeOK', RebuildInv, [Next]_vars PROVE RebuildInv'
  OBVIOUS
<1>1. CASE InitThread
  BY <1>1, LabelKeeps, ScanKeeps, RowKeeps, CheckKeeps, PushContextKeeps,
     NameBackendKeeps, BuiltKeeps DEF InitThread
<1>2. CASE ConnectThread \/ ProcessThread
  BY <1>2, OthersLeave, RebuildUnchanged
<1>3. CASE Edit
  BY <1>3, EditKeeps
<1>4. CASE Dies
  <2>1. /\ built' = {} /\ m_checknum' = 0 /\ m_mb_vec' = <<>> /\ pc' = StartPc
        /\ edits' = edits /\ node' = node
    BY <1>4, DeathEnds DEF EndOfProcess
  <2>2. pc'["init"] = "type" /\ edits' \in Nat /\ node' \subseteq NodeId
    BY <2>1, StartLabels, RebuildTypes
  <2>3. BeforeScan' /\ ~Rebuilding' /\ Unread' = NodeId /\ Known' = {}
    BY <2>1, <2>2 DEF BeforeScan, Rebuilding, Unread, Known
  <2>4. Ahead' \ Unread' = {} /\ Pushed' = {}
    BY <2>2, <2>3 DEF Ahead, Apart, Pushed, Rebuilding
  <2> QED
    BY <2>1, <2>2, <2>3, <2>4, TotalSums, Countable
       DEF RebuildInv, Summed, ForOtherIds, Paid
<1>5. CASE UNCHANGED vars
  BY <1>5, RebuildUnchanged DEF vars, shared
<1> QED BY <1>1, <1>2, <1>3, <1>4, <1>5 DEF Next

(* RebuildInv holds of every state.                                        *)
LEMMA RebuildAlways ==
  ASSUME ~SharedHelper, ~BusyDb
  PROVE  Spec => []RebuildInv
BY TypeCorrect, RebuildInit, RebuildNext, PTL DEF Spec

(* Each build appends one channel per node, so what the builds are paid    *)
(* with bounds the channels.                                               *)
LEMMA PaidBounds == TypeOK /\ RebuildInv => BuiltOncePerChange
<1> SUFFICES ASSUME TypeOK, RebuildInv PROVE BuiltOncePerChange
  OBVIOUS
<1> DEFINE N == Cardinality(NodeId)
<1>1. /\ N \in Nat /\ Len(m_mb_vec) \in Nat /\ edits \in Nat
      /\ Cardinality(Pushed) \in Nat /\ Cardinality(Pushed) <= N
      /\ Cardinality(Behind) \in Nat /\ Cardinality(Ahead) \in Nat
  BY RebuildTypes, PartsType, Countable
<1>2. \A j \in Nat, k \in Nat : j <= k => j * N <= k * N
  BY <1>1
<1>3. ASSUME NEW k \in Nat, k <= 1 + edits, Len(m_mb_vec) <= k * N
      PROVE  BuiltOncePerChange
  <2>1. k * N <= (1 + edits) * N /\ 1 + edits \in Nat
    BY <1>1, <1>2, <1>3
  <2>2. k * N \in Nat /\ (1 + edits) * N \in Nat
    BY <1>1, <2>1
  <2>3. Len(m_mb_vec) <= (1 + edits) * N
    BY <1>1, <1>3, <2>1, <2>2
  <2> QED BY <2>3 DEF BuiltOncePerChange
<1>4. CASE Len(m_mb_vec) <= Cardinality(Pushed)
  <2>1. Len(m_mb_vec) <= 1 * N
    BY <1>1, <1>4
  <2> QED BY <1>1, <1>3, <2>1
<1>5. ASSUME NEW k \in Nat, Len(m_mb_vec) <= k * N + Cardinality(Pushed),
             k + Cardinality(Behind) + Cardinality(Ahead) <= 1 + edits
      PROVE  BuiltOncePerChange
  <2>1. k * N \in Nat /\ (k + 1) * N = k * N + N
    BY <1>1
  <2>2. CASE Rebuilding
    <3>1. Known = ini.seen /\ ini.seen # built
      BY <2>2 DEF RebuildInv, ForOtherIds, Rebuilding, Known, Unread, BeforeScan
    <3>2. Behind # {}
      BY <3>1 DEF Behind, Apart
    <3>3. Cardinality(Behind) >= 1
      BY <3>2, PartsType, Countable
    <3>4. Len(m_mb_vec) <= (k + 1) * N /\ k + 1 <= 1 + edits
      BY <1>1, <1>5, <2>1, <3>3
    <3> QED BY <1>3, <3>4
  <2>3. CASE ~Rebuilding
    <3>1. Cardinality(Pushed) = 0
      BY <2>3, NothingPushed, Countable
    <3>2. Len(m_mb_vec) <= k * N /\ k <= 1 + edits
      BY <1>1, <1>5, <2>1, <3>1
    <3> QED BY <1>3, <3>2
  <2> QED BY <2>2, <2>3
<1> QED BY <1>4, <1>5 DEF RebuildInv, Paid

(* Whatever is edited, whenever an edit cuts into a scan or a rebuild, and *)
(* also where two sets of ids have the same checksum: the channels are     *)
(* built once and at most once more per edit, as long as every query of    *)
(* the init thread is answered.                                            *)
THEOREM ChannelsBuiltOncePerChange ==
  ASSUME ~SharedHelper, ~BusyDb
  PROVE  Spec => []BuiltOncePerChange
BY TypeCorrect, RebuildAlways, PaidBounds, PTL
=============================================================================
