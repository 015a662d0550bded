------------------------------ MODULE DbHelper ------------------------------
(***************************************************************************)
(* db_helper (sqlite_helper.cpp) in the hands of several threads, as the   *)
(* one that modbus_handler creates (modbus_handler.cpp:21) is.             *)
(*                                                                         *)
(* A query is a call of sql_exec_with_return or sql_exec_multicol_return,  *)
(* which clears m_resultvec and lets the callback of sqlite3_exec push the *)
(* rows into it, and then one or two calls of getsqlresult, which copies   *)
(* it: most callers first test for an empty answer and then copy again.    *)
(* sqlite3_exec holds the mutex of the connection from its first to its    *)
(* last callback; nothing protects the other accesses.                     *)
(***************************************************************************)
EXTENDS Naturals, Sequences

CONSTANTS
  Thread,    \* the users of the db_helper
  MaxRows    \* bound: rows a query returns

ASSUME RowsAssumption == MaxRows \in Nat

VARIABLES
  m_db,         \* "open", "closed" (sqlite3_open failed) or "NULL"
  m_resultvec,
  mutex,        \* the threads inside sqlite3_exec
  pc,           \* [Thread -> label]
  kind,         \* [Thread -> which of the two calls it makes]
  left,         \* [Thread -> rows its query has still to return]
  tested,       \* the threads that found the answer not empty
  given,        \* ghost: [Thread -> what the callback pushed for its query]
  got,          \* [Thread -> the copy it works with]
  overlapped,   \* ghost: the threads whose query overlapped another one
  crashed

vars == <<m_db, m_resultvec, mutex, pc, kind, left, tested, given, got,
          overlapped, crashed>>

Label == {"idle", "clear", "exec", "rows", "test", "use"}
Value == [of : Thread, row : 1..MaxRows]

Busy == {t \in Thread : pc[t] # "idle"}
At(t, l) == pc[t] = l /\ ~crashed
Goto(t, l) == pc' = [pc EXCEPT ![t] = l]

Call(t) ==
  /\ At(t, "idle")
  /\ Goto(t, "clear")
  /\ \E k \in {"one", "multi"} : kind' = [kind EXCEPT ![t] = k]
  /\ \E n \in 0..MaxRows : left' = [left EXCEPT ![t] = n]
  /\ tested' = tested \ {t}
  /\ given' = [given EXCEPT ![t] = <<>>]
  /\ overlapped' = IF Busy = {} THEN overlapped \ {t}
                                ELSE overlapped \cup Busy \cup {t}
  /\ UNCHANGED <<m_db, m_resultvec, mutex, got, crashed>>

(* Fault: the vector is cleared only by the multi-column call.             *)
Cleared_MultiOnly(t) == IF kind[t] = "multi" THEN <<>> ELSE m_resultvec
Cleared(t) == <<>>

Clear(t) ==
  /\ At(t, "clear")
  /\ m_resultvec' = Cleared(t)
  /\ Goto(t, IF m_db = "NULL" THEN "test" ELSE "exec")
  /\ UNCHANGED <<m_db, mutex, kind, left, tested, given, got, overlapped, crashed>>

(* sqlite3_exec.  A closed connection is not NULL, and is used all the     *)
(* same (106, 145, 160): that may fail at once, or go on in the connection *)
(* that has come to its place, or kill the process (Die).                  *)
Exec(t) ==
  /\ At(t, "exec")
  /\ \/ mutex = {} /\ mutex' = {t} /\ Goto(t, "rows")
     \/ m_db = "closed" /\ Goto(t, "test") /\ UNCHANGED mutex
  /\ UNCHANGED <<m_db, m_resultvec, kind, left, tested, given, got, overlapped,
                 crashed>>

(* The callback.  A NULL is left out by the one-column callback, and an    *)
(* empty string for the multi-column one.                                  *)
Callback(t) ==
  /\ At(t, "rows")
  /\ left[t] > 0
  /\ left' = [left EXCEPT ![t] = @ - 1]
  /\ \/ LET v == [of |-> t, row |-> left[t]]
        IN  /\ m_resultvec' = Append(m_resultvec, v)
            /\ given' = [given EXCEPT ![t] = Append(@, v)]
     \/ kind[t] = "one" /\ UNCHANGED <<m_resultvec, given>>
  /\ UNCHANGED <<m_db, mutex, pc, kind, tested, got, overlapped, crashed>>

(* The end of the rows, or an SQL error after some of them: the return     *)
(* code of db_exec is dropped, the caller cannot tell one from the other.  *)
Finish(t) ==
  /\ At(t, "rows")
  /\ mutex' = {}
  /\ Goto(t, "test")
  /\ UNCHANGED <<m_db, m_resultvec, kind, left, tested, given, got, overlapped,
                 crashed>>

(* What getsqlresult leaves behind.                                        *)
(* Fault: return std::move(m_resultvec).                                   *)
AfterCopy_Moved == <<>>
AfterCopy == m_resultvec

(* if (getsqlresult().empty()): the first copy.                            *)
Test(t) ==
  /\ At(t, "test")
  /\ IF m_resultvec = <<>>
     THEN /\ got' = [got EXCEPT ![t] = <<>>]
          /\ Goto(t, "idle")
          /\ UNCHANGED tested
     ELSE /\ tested' = tested \cup {t}
          /\ Goto(t, "use")
          /\ UNCHANGED got
  /\ m_resultvec' = AfterCopy
  /\ UNCHANGED <<m_db, mutex, kind, left, given, overlapped, crashed>>

(* A caller that does not test.                                            *)
NoTest(t) ==
  /\ At(t, "test")
  /\ Goto(t, "use")
  /\ UNCHANGED <<m_db, m_resultvec, mutex, kind, left, tested, given, got,
                 overlapped, crashed>>

(* getsqlresult(), or getsqlresult()[0].                                   *)
Use(t) ==
  /\ At(t, "use")
  /\ got' = [got EXCEPT ![t] = m_resultvec]
  /\ m_resultvec' = AfterCopy
  /\ Goto(t, "idle")
  /\ UNCHANGED <<m_db, mutex, kind, left, tested, given, overlapped, crashed>>

(* Two threads at the vector at once, one of them writing: undefined.      *)
Racing ==
  \E t, u \in Thread :
    t # u /\ pc[t] \in {"clear", "rows"} /\ pc[u] \in {"clear", "rows", "test", "use"}

UsesClosed == m_db = "closed" /\ \E t \in Thread : pc[t] \in {"exec", "rows"}

Die ==
  /\ ~crashed
  /\ Racing \/ UsesClosed
  /\ crashed' = TRUE
  /\ UNCHANGED m_db /\ m_resultvec' = <<>> /\ mutex' = {}
  /\ pc' = [t \in Thread |-> "idle"]
  /\ kind' = [t \in Thread |-> "one"] /\ left' = [t \in Thread |-> 0]
  /\ tested' = {} /\ overlapped' = {}
  /\ given' = [t \in Thread |-> <<>>] /\ got' = [t \in Thread |-> <<>>]

Init ==
  /\ m_db \in {"open", "closed", "NULL"}
  /\ m_resultvec = <<>> /\ mutex = {}
  /\ pc = [t \in Thread |-> "idle"]
  /\ kind = [t \in Thread |-> "one"] /\ left = [t \in Thread |-> 0]
  /\ tested = {} /\ overlapped = {} /\ crashed = FALSE
  /\ given = [t \in Thread |-> <<>>] /\ got = [t \in Thread |-> <<>>]

Step(t) == Call(t) \/ Clear(t) \/ Exec(t) \/ Callback(t) \/ Finish(t)
             \/ Test(t) \/ NoTest(t) \/ Use(t)
Next == (\E t \in Thread : Step(t)) \/ Die

Spec == Init /\ [][Next]_vars

-----------------------------------------------------------------------------
TypeOK ==
  /\ m_db \in {"open", "closed", "NULL"}
  /\ m_resultvec \in Seq(Value)
  /\ mutex \subseteq Thread
  /\ pc \in [Thread -> Label]
  /\ kind \in [Thread -> {"one", "multi"}]
  /\ left \in [Thread -> 0..MaxRows]
  /\ tested \subseteq Thread /\ overlapped \subseteq Thread
  /\ given \in [Thread -> Seq(Value)]
  /\ got \in [Thread -> Seq(Value)]
  /\ crashed \in BOOLEAN

(* A query that is alone gets its own rows, in their order, and no others; *)
(* only queries that overlap can be mixed up, and only they, or a query of *)
(* a database that could not be opened, can kill the process.              *)
Service == INSTANCE QueryService WITH busy <- Busy, ans <- got, broken <- m_db = "closed"
ImplementsService == Service!Spec

(* Why: queries under way at the same time are marked, and the vector      *)
(* holds what was given to the one that is alone.                          *)
OwnRows ==
  /\ \A t, u \in Busy : t # u => t \in overlapped
  /\ \A t \in Thread \ overlapped :
       /\ pc[t] = "clear" => given[t] = <<>>
       /\ pc[t] \in {"exec", "rows", "test", "use"} => m_resultvec = given[t]

(* The element [0] that a caller takes after it found the answer not empty *)
(* is there, as long as no other query came in between.                    *)
TestedMeansRow ==
  \A t \in tested \ overlapped : pc[t] = "use" => m_resultvec # <<>>

(* sqlite_helper.h:26 says of the query that it gets "the query result of  *)
(* one column": the rows a thread works with are those of its own query,   *)
(* in a database that could be opened.                                     *)
OwnAnswer ==
  m_db = "open" => \A t \in Thread : \A k \in 1..Len(got[t]) : got[t][k].of = t
=============================================================================
