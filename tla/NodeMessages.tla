---------------------------- MODULE NodeMessages ----------------------------
(***************************************************************************)
(* The messages about the node table that mqtt_json builds when a channel  *)
(* has been connected (modbus_handler.cpp:240-242): CMD_TOPO_ADD for the   *)
(* gateway, PLAT_ADD_DEV and PLAT_UPDATE_DEV for the platform.             *)
(*                                                                         *)
(* A message is built from one query per column, and its items from the    *)
(* i-th value of each.  The table may be edited between two of the         *)
(* queries, and any of them may fail (a locked database): the error is     *)
(* dropped (sqlite_helper.cpp:75, 92) and the column stays empty.          *)
(* A column's value is named by the id of the row it comes from.           *)
(*                                                                         *)
(* Assumed: status is never NULL, the helper's open succeeds, a query      *)
(* fails before its first row, and there is a column deviceid, which the   *)
(* database in db/ does not have yet.                                      *)
(***************************************************************************)
EXTENDS Naturals, SequencesExt

CONSTANTS
  NodeId,      \* ids of rows, in the order they are inserted
  NoModel,     \* the rows whose type is not in modelmap
  MaxEdits,    \* bound: edits of the table
  MaxFailures  \* bound: queries that fail

ASSUME TableAssumption ==
  /\ NodeId \subseteq Nat \ {0} /\ IsFiniteSet(NodeId)
  /\ NoModel \subseteq NodeId

VARIABLES
  node,          \* the rows, by increasing id
  registered,    \* the rows whose status has bit 2
  online,        \* the rows whose status has bit 1
  edits, failures,
  pc,            \* "idle", "read", "make" or "send"
  kind,          \* which message is being built
  next,          \* how many of its columns have been read
  column,        \* [name -> the values read]
  message,       \* [object -> the string it holds], see Holder
  deleted,       \* ghost: a row was deleted while the message was built
  failed,        \* ghost: a query of the message failed
  added,         \* ghost: the rows named by the last PLAT_ADD_DEV built
  crashed

table == <<node, registered, online, edits>>
vars == <<table, failures, pc, kind, next, column, message, deleted, failed, added, crashed>>

Rows == {node[i] : i \in 1..Len(node)}

(* Fault: the ids are read before the status.                              *)
Columns_IdFirst(k) ==
  CASE k = "CMD_TOPO_ADD" -> <<"deviceid", "status", "name">>
    [] k = "PLAT_ADD_DEV" -> <<"deviceid", "status", "name", "type">>
    [] OTHER              -> <<"deviceid", "status">>
Columns(k) == CASE k = "CMD_TOPO_ADD" -> <<"status", "deviceid", "name">>
                [] k = "PLAT_ADD_DEV" -> <<"status", "deviceid", "name", "type">>
                [] OTHER              -> <<"status", "deviceid">>
ColumnName == {"status", "deviceid", "name", "type"}
Garbage == 0                       \* read past the end of a vector
Status  == [of : NodeId, registered : BOOLEAN, online : BOOLEAN]

(* m_jsonstr of m_mqttpub's mqtt_json, m_json4plat of m_mqttplat's.        *)
Holder(k) == IF k = "CMD_TOPO_ADD" THEN "m_jsonstr" ELSE "m_json4plat"
Empty == [kind |-> "none", items |-> <<>>]   \* no kind, no item

Find(S, i) == IF i <= Len(S) THEN S[i] ELSE Garbage

(* mqtt_pub_login_msg, mqtt_platadddev, mqtt_platupdatedev, in this order, *)
(* then the next login.                                                    *)
After(k) == CASE k = "CMD_TOPO_ADD" -> "PLAT_ADD_DEV"
              [] k = "PLAT_ADD_DEV" -> "PLAT_UPDATE_DEV"
              [] OTHER              -> "CMD_TOPO_ADD"

Start ==
  /\ pc = "idle" /\ ~crashed
  /\ pc' = "read"
  /\ deleted' = FALSE
  /\ UNCHANGED <<table, failures, kind, next, column, message, failed, added, crashed>>

StatusColumn == [i \in 1..Len(node) |->
                   [of |-> node[i], registered |-> node[i] \in registered,
                    online |-> node[i] \in online]]
Selected(c) == IF c = "status" THEN StatusColumn ELSE node

(* One query; the one that fails leaves its column empty.  Without a       *)
(* status the builder returns, and leaves the message of the last time     *)
(* where it is.                                                            *)
ReadColumn ==
  /\ pc = "read" /\ ~crashed
  /\ LET c == Columns(kind)[next + 1]
     IN  \E values \in {Selected(c)} \cup IF failures < MaxFailures THEN {<<>>} ELSE {} :
           /\ column' = [column EXCEPT ![c] = values]
           /\ failed' = (failed \/ values # Selected(c))
           /\ failures' = IF values # Selected(c) THEN failures + 1 ELSE failures
           /\ next' = next + 1
           /\ pc' = IF next = 0 /\ values = <<>> THEN "send"
                    ELSE IF next' = Len(Columns(kind)) THEN "make" ELSE "read"
  /\ UNCHANGED <<table, kind, message, deleted, added, crashed>>

Adds(k) == k \in {"CMD_TOPO_ADD", "PLAT_ADD_DEV"}

(* A node that is registered, or of a type the platform has no model of,   *)
(* is not added.  Faults: the bit of the online flag is tested instead; a  *)
(* registered node is left out of every message.                           *)
Unmodelled(i) == kind = "PLAT_ADD_DEV" /\ Find(column["type"], i) \in NoModel \cup {Garbage}
Passed_Online(i) == (Adds(kind) /\ column["status"][i].online) \/ Unmodelled(i)
Passed_AllKinds(i) == column["status"][i].registered \/ Unmodelled(i)
Passed(i) == (Adds(kind) /\ column["status"][i].registered) \/ Unmodelled(i)

Item(i) ==
  [id     |-> Find(column["deviceid"], i),
   status |-> column["status"][i],
   rest   |-> {Find(column[c], i) : c \in Range(Columns(kind)) \ {"status", "deviceid"}}]

(* The items of a message, each under the index it was made from.          *)
Listed == {i \in 1..Len(column["status"]) : ~Passed(i)}

Make ==
  /\ pc = "make" /\ ~crashed
  /\ LET items == [i \in Listed |-> Item(i)]
     IN  /\ message' = [message EXCEPT ![Holder(kind)] = [kind |-> kind, items |-> items]]
         /\ added' = IF kind = "PLAT_ADD_DEV"
                     THEN {items[i].id : i \in Listed} \cap Rows
                     ELSE added
  /\ pc' = "send"
  /\ UNCHANGED <<table, failures, kind, next, column, deleted, failed, crashed>>

(* The columns looked at for row i, in the order of the tests; one that is *)
(* too short is read past its end.                                         *)
Looked(i) == IF Adds(kind) /\ column["status"][i].registered THEN {}
             ELSE IF kind = "PLAT_ADD_DEV" /\ Find(column["type"], i) \in NoModel THEN {"type"}
             ELSE Range(Columns(kind)) \ {"status"}
Outside == \E i \in 1..Len(column["status"]) : \E c \in Looked(i) : Len(column[c]) < i
Die ==
  /\ pc = "make" /\ ~crashed
  /\ Outside
  /\ crashed' = TRUE
  /\ UNCHANGED <<table, failures, pc, kind, next, column, message, deleted, failed, added>>

(* mqtt_send or mqtt_client_publish of whatever the holder holds; the      *)
(* builder's vectors are gone.                                             *)
Send ==
  /\ pc = "send" /\ ~crashed
  /\ pc' = "idle"
  /\ kind' = After(kind)
  /\ next' = 0 /\ column' = [c \in ColumnName |-> <<>>]
  /\ failed' = FALSE
  /\ UNCHANGED <<table, failures, message, deleted, added, crashed>>

(* The web console, and the registration of a node.  A row is inserted     *)
(* with the next id, that is at the end.                                   *)
Insert(n) ==
  /\ \A i \in 1..Len(node) : node[i] < n
  /\ node' = Append(node, n)
  /\ \E R \in {registered, registered \cup {n}}, O \in {online, online \cup {n}} :
       registered' = R /\ online' = O
  /\ UNCHANGED <<deleted, added>>
Delete(n) ==
  /\ \E k \in 1..Len(node) : node[k] = n /\ node' = RemoveAt(node, k)
  /\ registered' = registered \ {n} /\ online' = online \ {n}
  /\ deleted' = TRUE /\ added' = added \ {n}
Toggle(S, n) == IF n \in S THEN S \ {n} ELSE S \cup {n}
Update(n) ==
  /\ \/ registered' = Toggle(registered, n) /\ UNCHANGED online
     \/ online' = Toggle(online, n) /\ UNCHANGED registered
  /\ UNCHANGED <<node, deleted, added>>

Edit ==
  /\ edits < MaxEdits /\ ~crashed
  /\ edits' = edits + 1
  /\ \/ \E n \in NodeId \ Rows : Insert(n)
     \/ \E n \in Rows : Delete(n) \/ Update(n)
  /\ UNCHANGED <<failures, pc, kind, next, column, message, failed, crashed>>

Increasing(s) == \A i, j \in 1..Len(s) : i < j => s[i] < s[j]

Init ==
  /\ \E k \in 0..Cardinality(NodeId) : node \in {s \in [1..k -> NodeId] : Increasing(s)}
  /\ registered \in SUBSET Rows /\ online \in SUBSET Rows
  /\ edits = 0 /\ failures = 0
  /\ pc = "idle" /\ kind = "CMD_TOPO_ADD" /\ next = 0
  /\ column = [c \in ColumnName |-> <<>>]
  /\ message = [h \in {"m_jsonstr", "m_json4plat"} |-> Empty]
  /\ deleted = FALSE /\ failed = FALSE /\ added = {} /\ crashed = FALSE

Build == Start \/ ReadColumn \/ Make \/ Send
Next == Build \/ Die \/ Edit
Spec == Init /\ [][Next]_vars

-----------------------------------------------------------------------------
Made  == message[Holder(kind)]
Ready == pc = "send" /\ column["status"] # <<>>

(* Rows are added and change their status while the columns are read: as   *)
(* long as none is deleted and no query fails, an item is made of the      *)
(* values of one row.                                                      *)
ItemsOfOneRow ==
  Ready /\ ~deleted /\ ~failed => \A i \in DOMAIN Made.items :
    LET item == Made.items[i]
    IN  item.status.of = item.id /\ item.rest \subseteq {item.id}

(* A message that adds nodes has every node that was not registered when   *)
(* its first column was read (and has a model, for the platform), once.    *)
AddsTheUnregistered ==
  Ready /\ ~deleted /\ ~failed /\ Adds(kind) =>
    LET S == column["status"]
        wanted == {S[i].of : i \in {k \in 1..Len(S) : ~S[k].registered}}
    IN  /\ {Made.items[i].id : i \in DOMAIN Made.items} =
             IF kind = "PLAT_ADD_DEV" THEN wanted \ NoModel ELSE wanted
        /\ \A i, j \in DOMAIN Made.items : Made.items[i].id = Made.items[j].id => i = j

(* The two messages of a login agree: a node the platform was told to add  *)
(* is in the status message that follows, if it is still in the table,     *)
(* also when it was registered between the two.                            *)
ReportsTheAdded ==
  Ready /\ ~deleted /\ ~failed /\ kind = "PLAT_UPDATE_DEV" =>
    added \subseteq {Made.items[i].id : i \in DOMAIN Made.items}

(* The builder leaves its vectors only if a row is deleted or a query      *)
(* fails under it; what is inserted or registered meanwhile is no harm.    *)
DiesOnlyDisturbed == crashed => deleted \/ failed
=============================================================================
