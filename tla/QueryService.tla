---------------------------- MODULE QueryService ----------------------------
(***************************************************************************)
(* What the threads of the gateway may expect of a db_helper: a query that *)
(* no other query overlaps in time is answered with the rows the database  *)
(* gave for it; queries that overlap may be answered with anything, or     *)
(* kill the process.  A database that could not be opened may kill it at   *)
(* any query.                                                              *)
(***************************************************************************)
EXTENDS Naturals, Sequences

CONSTANTS
  Thread,    \* the users of the db_helper
  Value      \* what a column may hold

VARIABLES
  broken,      \* the database could not be opened
  busy,        \* the threads whose query is under way
  given,       \* [Thread -> the values the database gave for its last query]
  ans,         \* [Thread -> what the thread got as the answer]
  overlapped,  \* the threads whose last query overlapped another one
  crashed

vars == <<broken, busy, given, ans, overlapped, crashed>>

Init ==
  /\ broken \in BOOLEAN
  /\ busy = {} /\ overlapped = {} /\ crashed = FALSE
  /\ given = [t \in Thread |-> <<>>] /\ ans = [t \in Thread |-> <<>>]

Ask(t) ==
  /\ t \notin busy
  /\ busy' = busy \cup {t}
  /\ overlapped' = IF busy = {} THEN overlapped \ {t} ELSE overlapped \cup busy \cup {t}
  /\ given' = [given EXCEPT ![t] = <<>>]
  /\ UNCHANGED <<broken, ans, crashed>>

Produce(t) ==
  /\ t \in busy
  /\ \E v \in Value : given' = [given EXCEPT ![t] = Append(@, v)]
  /\ UNCHANGED <<broken, busy, ans, overlapped, crashed>>

Reply(t) ==
  /\ t \in busy
  /\ busy' = busy \ {t}
  /\ ans'[t] = given[t] \/ t \in overlapped
  /\ \A u \in Thread \ {t} : ans'[u] = ans[u]
  /\ UNCHANGED <<broken, given, overlapped, crashed>>

Crash ==
  /\ busy # {} /\ (broken \/ busy \cap overlapped # {})
  /\ crashed' = TRUE
  /\ UNCHANGED broken
  /\ busy' = {} /\ overlapped' = {}
  /\ given' = [t \in Thread |-> <<>>] /\ ans' = [t \in Thread |-> <<>>]

Next ==
  /\ ~crashed
  /\ \/ \E t \in Thread : Ask(t) \/ Produce(t) \/ Reply(t)
     \/ Crash

Spec == Init /\ [][Next]_vars
=============================================================================
