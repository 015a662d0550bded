--------------------------- MODULE DbHelper_proofs ---------------------------
(* Proof that DbHelper implements QueryService, for any set of threads and *)
(* any bound on the rows.                                                  *)
EXTENDS DbHelper, TLAPS

(* Every step of one thread is one of its actions.                         *)
LEMMA StepCases ==
  ASSUME NEW t, Step(t)
  PROVE  Call(t) \/ Clear(t) \/ Exec(t) \/ Callback(t) \/ Finish(t)
           \/ Test(t) \/ NoTest(t) \/ Use(t)
BY DEF Step

(* The counters of the rows stay within the bound.                         *)
LEMMA RowCount ==
  ASSUME NEW n \in 0..MaxRows, n > 0
  PROVE  n - 1 \in 0..MaxRows /\ n \in 1..MaxRows
BY RowsAssumption

(* The start has its types.                                                *)
LEMMA TypeInit == Init => TypeOK
<1> SUFFICES ASSUME Init PROVE TypeOK
  OBVIOUS
<1>1. \A S : <<>> \in Seq(S)
  OBVIOUS
<1>2. 0 \in 0..MaxRows
  BY RowsAssumption
<1> QED BY <1>1, <1>2 DEF Init, TypeOK, Label

(* Every step keeps the types.                                             *)
LEMMA TypeNext == TypeOK /\ [Next]_vars => TypeOK'
<1> SUFFICES ASSUME TypeOK, [Next]_vars PROVE TypeOK'
  OBVIOUS
<1>1. \A S : <<>> \in Seq(S)
  OBVIOUS
<1>2. ASSUME NEW t \in Thread, Step(t) PROVE TypeOK'
  <2>1. CASE Call(t)
    <3>1. PICK k \in {"one", "multi"}, n \in 0..MaxRows :
            kind' = [kind EXCEPT ![t] = k] /\ left' = [left EXCEPT ![t] = n]
      BY <2>1 DEF Call
    <3>2. kind' \in [Thread -> {"one", "multi"}] /\ left' \in [Thread -> 0..MaxRows]
      BY <3>1 DEF TypeOK
    <3>3. overlapped' \subseteq Thread /\ pc' \in [Thread -> Label]
      BY <2>1 DEF Call, Goto, Busy, Label, TypeOK
    <3>4. given' \in [Thread -> Seq(Value)]
      BY <1>1, <2>1 DEF Call, TypeOK
    <3> QED BY <2>1, <3>2, <3>3, <3>4 DEF Call, TypeOK
  <2>2. CASE Clear(t)
    BY <1>1, <2>2 DEF Clear, Cleared, Goto, Label, TypeOK
  <2>3. CASE Exec(t)
    BY <2>3 DEF Exec, Goto, Label, TypeOK
  <2>4. CASE Callback(t)
    <3>1. left[t] \in 0..MaxRows /\ left[t] > 0
      BY <2>4 DEF Callback, TypeOK
    <3>2. [of |-> t, row |-> left[t]] \in Value
      BY <3>1, RowCount DEF Value
    <3>3. left' \in [Thread -> 0..MaxRows]
      BY <2>4, <3>1, RowCount DEF Callback, TypeOK
    <3>4. m_resultvec' \in Seq(Value) /\ given' \in [Thread -> Seq(Value)]
      <4> DEFINE v == [of |-> t, row |-> left[t]]
      <4>1. CASE UNCHANGED <<m_resultvec, given>>
        BY <4>1 DEF TypeOK
      <4>2. CASE /\ m_resultvec' = Append(m_resultvec, v)
                 /\ given' = [given EXCEPT ![t] = Append(given[t], v)]
        <5>1. Append(m_resultvec, v) \in Seq(Value) /\ Append(given[t], v) \in Seq(Value)
          BY <3>2 DEF TypeOK
        <5> QED BY <4>2, <5>1 DEF TypeOK
      <4> QED BY <2>4, <4>1, <4>2 DEF Callback
    <3>5. UNCHANGED <<m_db, mutex, pc, kind, tested, got, overlapped, crashed>>
      BY <2>4 DEF Callback
    <3> QED BY <3>3, <3>4, <3>5 DEF TypeOK
  <2>5. CASE Finish(t)
    BY <2>5 DEF Finish, Goto, Label, TypeOK
  <2>6. CASE Test(t) \/ NoTest(t)
    <3>1. pc' \in [Thread -> Label] /\ tested' \subseteq Thread
      BY <2>6 DEF Test, NoTest, Goto, Label, TypeOK
    <3>2. got' \in [Thread -> Seq(Value)]
      BY <1>1, <2>6 DEF Test, NoTest, TypeOK
    <3>3. UNCHANGED <<m_db, m_resultvec, mutex, kind, left, given, overlapped, crashed>>
      BY <2>6 DEF Test, NoTest, AfterCopy
    <3> QED BY <3>1, <3>2, <3>3 DEF TypeOK
  <2>7. CASE Use(t)
    BY <2>7 DEF Use, AfterCopy, Goto, Label, TypeOK
  <2> QED BY <1>2, <2>1, <2>2, <2>3, <2>4, <2>5, <2>6, <2>7, StepCases
<1>3. CASE Die
  BY <1>1, <1>3, RowsAssumption DEF Die, TypeOK, Label
<1>4. CASE UNCHANGED vars
  BY <1>4 DEF vars, TypeOK
<1> QED BY <1>2, <1>3, <1>4 DEF Next

(* OwnRows holds at the start, when no thread is busy.                     *)
LEMMA OwnInit == Init => OwnRows
BY DEF Init, OwnRows, Busy

(* A step of a thread that is busy and alone is seen by that thread only.  *)
LEMMA AloneMeansOthersIdle ==
  ASSUME OwnRows, NEW t \in Thread \ overlapped, pc[t] # "idle",
         NEW u \in Thread, u # t
  PROVE  pc[u] = "idle"
BY DEF OwnRows, Busy

(* OwnRows is inductive, given the types.                                  *)
LEMMA OwnNext == TypeOK /\ OwnRows /\ [Next]_vars => OwnRows'
<1> SUFFICES ASSUME TypeOK, OwnRows, [Next]_vars PROVE OwnRows'
  OBVIOUS
<1>1. ASSUME NEW t \in Thread, Step(t) PROVE OwnRows'
  <2>1. CASE Call(t)
    <3>1. pc' = [pc EXCEPT ![t] = "clear"] /\ pc[t] = "idle"
      BY <2>1 DEF Call, At, Goto
    <3>2. Busy' = Busy \cup {t}
      BY <3>1 DEF Busy, TypeOK
    <3>3. \A u, v \in Busy' : u # v => u \in overlapped'
      BY <2>1, <3>2 DEF Call, OwnRows
    <3>4. ASSUME NEW u \in Thread \ overlapped'
          PROVE  /\ pc'[u] = "clear" => given'[u] = <<>>
                 /\ pc'[u] \in {"exec", "rows", "test", "use"} => m_resultvec' = given'[u]
      <4>1. CASE u = t
        BY <2>1, <3>1, <4>1 DEF Call, TypeOK
      <4>2. CASE u # t
        <5>1. pc'[u] = pc[u] /\ given'[u] = given[u] /\ m_resultvec' = m_resultvec
          BY <2>1, <3>1, <4>2 DEF Call, TypeOK
        <5>2. CASE pc[u] = "idle"
          BY <5>1, <5>2
        <5>3. CASE pc[u] # "idle"
          <6>1. u \in Busy
            BY <5>3 DEF Busy
          <6> QED BY <2>1, <6>1 DEF Call
        <5> QED BY <5>2, <5>3
      <4> QED BY <4>1, <4>2
    <3> QED BY <3>3, <3>4 DEF OwnRows
  <2>2. CASE ~Call(t)
    <3>1. overlapped' = overlapped /\ pc[t] # "idle"
      BY <1>1, <2>2 DEF Step, Clear, Exec, Callback, Finish, Test, NoTest, Use, At
    <3>2. \A u \in Thread \ {t} : pc'[u] = pc[u] /\ given'[u] = given[u]
      BY <1>1, <2>2 DEF Step, Clear, Exec, Callback, Finish, Test, NoTest, Use, Goto, TypeOK
    <3>3. Busy' \subseteq Busy
      BY <3>1, <3>2 DEF Busy
    <3>4. \A u \in Thread \ overlapped : u # t => pc'[u] = "idle"
      \* the thread t is busy, so every other thread that is alone is idle
      BY <3>1, <3>2 DEF OwnRows, Busy
    <3>5. ASSUME t \notin overlapped
          PROVE  /\ pc'[t] = "clear" => given'[t] = <<>>
                 /\ pc'[t] \in {"exec", "rows", "test", "use"} => m_resultvec' = given'[t]
      <4>1. /\ pc[t] = "clear" => given[t] = <<>>
            /\ pc[t] \in {"exec", "rows", "test", "use"} => m_resultvec = given[t]
        BY <3>5 DEF OwnRows
      <4>2. CASE Clear(t)
        BY <4>1, <4>2 DEF Clear, Cleared, At, Goto, TypeOK
      <4>3. CASE Callback(t)
        <5>1. m_resultvec = given[t] /\ pc' = pc /\ pc[t] = "rows"
          BY <4>1, <4>3 DEF Callback, At
        <5>2. m_resultvec' = given'[t]
          BY <4>3, <5>1 DEF Callback, TypeOK
        <5> QED BY <5>1, <5>2
      <4>4. CASE Exec(t) \/ Finish(t) \/ Test(t) \/ NoTest(t) \/ Use(t)
        <5>1. m_resultvec' = m_resultvec /\ given' = given /\ m_resultvec = given[t]
          BY <4>1, <4>4 DEF Exec, Finish, Test, NoTest, Use, AfterCopy, At
        <5>2. pc'[t] # "clear"
          BY <4>4 DEF Exec, Finish, Test, NoTest, Use, Goto, TypeOK
        <5> QED BY <5>1, <5>2
      <4> QED BY <1>1, <2>2, <4>2, <4>3, <4>4 DEF Step
    <3>6. \A u, v \in Busy' : u # v => u \in overlapped'
      BY <3>1, <3>3 DEF OwnRows
    <3> QED BY <3>1, <3>4, <3>5, <3>6 DEF OwnRows
  <2> QED BY <2>1, <2>2
<1>2. CASE Die
  BY <1>2 DEF Die, OwnRows, Busy
<1>3. CASE UNCHANGED vars
  BY <1>3 DEF vars, OwnRows, Busy
<1> QED BY <1>1, <1>2, <1>3 DEF Next

(* At every moment the vector belongs to the query that is alone, and      *)
(* queries that are not alone are known to overlap.                        *)
THEOREM OwnRowsAlways == Spec => [](TypeOK /\ OwnRows)
BY TypeInit, TypeNext, OwnInit, OwnNext, PTL DEF Spec

(* A call clears the mark that the last one may have left on its thread.   *)
Marked == \A t \in tested : pc[t] \in {"use", "idle"}

LEMMA MarkedNext == TypeOK /\ Marked /\ [Next]_vars => Marked'
<1> SUFFICES ASSUME TypeOK, Marked, [Next]_vars PROVE Marked'
  OBVIOUS
<1>1. ASSUME NEW u \in Thread, Step(u) PROVE Marked'
  <2>1. CASE Call(u) \/ Clear(u) \/ Exec(u)
    BY <2>1 DEF Call, Clear, Exec, At, Goto, Marked, TypeOK
  <2>2. CASE Callback(u) \/ Finish(u) \/ NoTest(u)
    BY <2>2 DEF Callback, Finish, NoTest, At, Goto, Marked, TypeOK
  <2>3. CASE Test(u) \/ Use(u)
    BY <2>3 DEF Test, Use, At, Goto, Marked, TypeOK
  <2> QED BY <1>1, <2>1, <2>2, <2>3 DEF Step
<1>2. CASE Die
  BY <1>2 DEF Die, Marked
<1>3. CASE UNCHANGED vars
  BY <1>3 DEF vars, Marked
<1> QED BY <1>1, <1>2, <1>3 DEF Next

(* A query that is alone finds at its second copy what it found at its     *)
(* first.                                                                  *)
LEMMA TestedNext ==
  /\ TypeOK /\ TypeOK' /\ OwnRows /\ OwnRows' /\ Marked /\ TestedMeansRow
  /\ [Next]_vars
  => TestedMeansRow'
<1> SUFFICES ASSUME TypeOK, TypeOK', OwnRows, OwnRows', Marked, TestedMeansRow, [Next]_vars,
                    NEW t \in tested', t \notin overlapped', pc'[t] = "use"
             PROVE  m_resultvec' # <<>>
  BY DEF TestedMeansRow
<1>0. t \in Thread
  BY DEF TypeOK
<1>1. ASSUME NEW u \in Thread, Step(u) PROVE m_resultvec' # <<>>
  <2>1. CASE u = t
    <3>1. CASE Test(t)
      BY <1>0, <3>1 DEF Test, AfterCopy, Goto, TypeOK
    <3>2. CASE NoTest(t)
      BY <3>2 DEF NoTest, At, Marked
    <3>3. pc'[t] # "use" \/ Test(t) \/ NoTest(t)
      BY <1>0, <1>1, <2>1 DEF Step, Call, Clear, Exec, Callback, Finish, Use, At, Goto, TypeOK
    <3> QED BY <3>1, <3>2, <3>3
  <2>2. CASE u # t
    \* t is busy and alone: u cannot be under way before or after the step
    <3>1. pc'[u] = "idle"
      BY <1>0, <2>2 DEF OwnRows, Busy
    <3>2. pc'[u] # "idle" \/ pc[u] # "idle"
      BY <1>1, <3>1 DEF Step, Call, Clear, Exec, Callback, Finish, Test, NoTest, Use, At,
                        Goto, TypeOK
    <3>3. pc[t] = "use" /\ UNCHANGED overlapped
      BY <1>0, <1>1, <2>2, <3>1 DEF Step, Call, Clear, Exec, Callback, Finish, Test, NoTest,
                                   Use, At, Goto, TypeOK
    <3> QED BY <1>0, <2>2, <3>1, <3>2, <3>3 DEF OwnRows, Busy
  <2> QED BY <2>1, <2>2
<1>2. CASE Die
  BY <1>2 DEF Die
<1>3. CASE UNCHANGED vars
  BY <1>3 DEF vars, TestedMeansRow
<1> QED BY <1>1, <1>2, <1>3 DEF Next

(* The [0] a caller takes after it saw that there are rows is there, for   *)
(* any number of threads, while its query is alone.                        *)
THEOREM TestedRowIsThere == Spec => []TestedMeansRow
<1>1. Init => Marked /\ TestedMeansRow
  BY DEF Init, Marked, TestedMeansRow
<1> QED BY <1>1, MarkedNext, TestedNext, OwnRowsAlways, PTL DEF Spec

-----------------------------------------------------------------------------
(* Every step of the db_helper is a step of the service, or a stutter.     *)

(* A step of a thread, at the level of the service.                        *)
LEMMA StepMapped ==
  ASSUME TypeOK, OwnRows, NEW t \in Thread, Step(t)
  PROVE  [Service!Next]_(Service!vars)
<1>1. ~crashed /\ crashed' = crashed
  BY DEF Step, Call, Clear, Exec, Callback, Finish, Test, NoTest, Use, At
<1>0. UNCHANGED m_db
  BY DEF Step, Call, Clear, Exec, Callback, Finish, Test, NoTest, Use
<1>2. CASE Call(t)
  <2>1. Busy' = Busy \cup {t} /\ t \notin Busy
    BY <1>2 DEF Call, At, Goto, Busy, TypeOK
  <2>2. Service!Ask(t)
    BY <1>0, <1>2, <2>1 DEF Call, Service!Ask
  <2> QED BY <1>1, <2>2 DEF Service!Next
<1>3. CASE Clear(t) \/ Exec(t) \/ Finish(t) \/ NoTest(t)
  <2>1. Busy' = Busy
    BY <1>3 DEF Clear, Exec, Finish, NoTest, At, Goto, Busy, TypeOK
  <2> QED BY <1>0, <1>3, <2>1 DEF Clear, Exec, Finish, NoTest, Service!vars
<1>4. CASE Callback(t)
  <2> DEFINE v == [of |-> t, row |-> left[t]]
  <2>1. Busy' = Busy /\ t \in Busy
    BY <1>4 DEF Callback, At, Busy
  <2>2. CASE UNCHANGED <<m_resultvec, given>>
    BY <1>0, <1>4, <2>1, <2>2 DEF Callback, Service!vars
  <2>3. CASE given' = [given EXCEPT ![t] = Append(given[t], v)]
    <3>1. v \in Value
      BY <1>4, RowCount DEF Callback, TypeOK, Value
    <3>2. Service!Produce(t)
      BY <1>0, <1>4, <2>1, <2>3, <3>1 DEF Callback, Service!Produce
    <3> QED BY <1>1, <3>2 DEF Service!Next
  <2> QED BY <1>4, <2>2, <2>3 DEF Callback
<1>5. CASE Test(t) \/ Use(t)
  <2>1. CASE pc'[t] = "use"
    <3>1. Busy' = Busy /\ got' = got
      BY <1>5, <2>1 DEF Test, Use, At, Goto, Busy, TypeOK
    <3> QED BY <1>0, <1>5, <3>1 DEF Test, Use, Service!vars
  <2>2. CASE pc'[t] # "use"
    <3>1. /\ pc' = [pc EXCEPT ![t] = "idle"] /\ pc[t] \in {"test", "use"}
          /\ got' = [got EXCEPT ![t] = m_resultvec]
          /\ UNCHANGED <<given, overlapped>>
      BY <1>5, <2>2 DEF Test, Use, At, Goto, TypeOK
    <3>2. Busy' = Busy \ {t} /\ t \in Busy
      BY <3>1 DEF Busy, TypeOK
    <3>3. got'[t] = given[t] \/ t \in overlapped
      BY <3>1 DEF OwnRows, TypeOK
    <3>4. Service!Reply(t)
      BY <1>0, <1>1, <3>1, <3>2, <3>3 DEF Service!Reply, TypeOK
    <3> QED BY <1>1, <3>4 DEF Service!Next
  <2> QED BY <2>1, <2>2
<1> QED BY <1>2, <1>3, <1>4, <1>5 DEF Step

(* The process dies only while two queries overlap, or while one uses a    *)
(* connection that was never opened.                                       *)
LEMMA DieMapped == TypeOK /\ OwnRows /\ Die => Service!Next
<1> SUFFICES ASSUME TypeOK, OwnRows, Die PROVE Service!Next
  OBVIOUS
<1>1. Busy # {} /\ (m_db = "closed" \/ Busy \cap overlapped # {})
  <2>1. CASE Racing
    <3>1. PICK t, u \in Thread : t # u /\ pc[t] # "idle" /\ pc[u] # "idle"
      BY <2>1 DEF Racing
    <3>2. t \in Busy \cap overlapped
      BY <3>1 DEF OwnRows, Busy
    <3> QED BY <3>2
  <2>2. CASE UsesClosed
    BY <2>2 DEF UsesClosed, Busy
  <2> QED BY <2>1, <2>2 DEF Die
<1>2. Busy' = {}
  BY DEF Die, Busy
<1>3. Service!Crash
  BY <1>1, <1>2 DEF Die, Service!Crash
<1> QED BY <1>3 DEF Die, Service!Next

(* Whatever the number of threads: a query that no other overlaps is       *)
(* answered with the rows the database gave for it, and the process dies   *)
(* only while queries overlap, if the database was opened.                 *)
THEOREM QueriesServed == Spec => ImplementsService
<1>1. Init => Service!Init
  BY DEF Init, Service!Init, Busy
<1>2. TypeOK /\ OwnRows /\ [Next]_vars => [Service!Next]_(Service!vars)
  <2>1. ASSUME UNCHANGED vars PROVE UNCHANGED Service!vars
    BY <2>1 DEF vars, Service!vars, Busy
  <2> QED BY <2>1, StepMapped, DieMapped DEF Next
<1> QED BY <1>1, <1>2, OwnRowsAlways, PTL DEF Spec, ImplementsService, Service!Spec
=============================================================================
