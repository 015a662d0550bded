------------------------- MODULE NodeMessages_proofs -------------------------
(* Proofs about NodeMessages, for any table, any number of edits and of    *)
(* failing queries: the items of a message pair values of one row, nobody  *)
(* is left out, the two messages of a login agree, and they are built      *)
(* without leaving a vector, unless a row is deleted or a query fails.     *)
EXTENDS NodeMessages, TLAPS, FiniteSetTheorems, SequenceTheorems

-----------------------------------------------------------------------------
(* The table: its rows in the order of their ids.                          *)

TableInv == node \in Seq(NodeId) /\ Increasing(node)

(* So it is at the start.                                                  *)
LEMMA TableInit == Init => TableInv
<1> SUFFICES ASSUME Init PROVE TableInv
  OBVIOUS
<1>1. PICK k \in 0..Cardinality(NodeId) :
        node \in {s \in [1..k -> NodeId] : Increasing(s)}
  BY DEF Init
<1>2. k \in Nat
  BY FS_CardinalityType, TableAssumption
<1> QED BY <1>1, <1>2 DEF TableInv

(* A row that gets the next id goes to the end.                            *)
LEMMA AppendKeeps ==
  ASSUME TableInv, NEW n \in NodeId, \A i \in 1..Len(node) : node[i] < n
  PROVE  /\ Append(node, n) \in Seq(NodeId)
         /\ Increasing(Append(node, n))
         /\ Len(Append(node, n)) = Len(node) + 1
         /\ \A i \in 1..Len(node) : Append(node, n)[i] = node[i]
  BY TableAssumption DEF TableInv, Increasing

(* A row is taken out, and the others close up.                            *)
LEMMA RemoveKeeps ==
  ASSUME TableInv, NEW k \in 1..Len(node)
  PROVE  /\ RemoveAt(node, k) \in Seq(NodeId) /\ Increasing(RemoveAt(node, k))
         /\ \A j \in 1..Len(node) : j # k =>
              \E i \in 1..Len(RemoveAt(node, k)) : RemoveAt(node, k)[i] = node[j]
<1> DEFINE rest == RemoveAt(node, k)
<1>1. node \in Seq(NodeId) /\ Len(node) \in Nat /\ k \in 1..Len(node)
  BY DEF TableInv
<1> DEFINE head == SubSeq(node, 1, k - 1)
           tail == SubSeq(node, k + 1, Len(node))
<1>2. rest = head \o tail
  BY DEF RemoveAt
<1>3. /\ head \in Seq(NodeId) /\ Len(head) = k - 1
      /\ \A i \in 1..(k - 1) : head[i] = node[i]
  BY <1>1
<1>4. /\ tail \in Seq(NodeId) /\ Len(tail) = Len(node) - k
      /\ \A i \in 1..(Len(node) - k) : tail[i] = node[k + i]
  BY <1>1
<1> HIDE DEF head, tail
<1>5. /\ head \o tail \in Seq(NodeId) /\ Len(head \o tail) = Len(head) + Len(tail)
      /\ \A i \in 1..Len(head) + Len(tail) :
           (head \o tail)[i] = IF i <= Len(head) THEN head[i] ELSE tail[i - Len(head)]
  BY <1>3, <1>4, ConcatProperties
<1>6. rest \in Seq(NodeId) /\ Len(rest) = Len(node) - 1
  BY <1>1, <1>2, <1>3, <1>4, <1>5
<1>7. ASSUME NEW i \in 1..Len(rest)
      PROVE  rest[i] = IF i < k THEN node[i] ELSE node[i + 1]
  <2>1. rest[i] = IF i <= k - 1 THEN head[i] ELSE tail[i - (k - 1)]
    BY <1>1, <1>2, <1>3, <1>4, <1>5, <1>6
  <2>2. CASE i < k
    BY <1>1, <1>3, <1>6, <2>1, <2>2
  <2>3. CASE ~(i < k)
    <3>1. i - (k - 1) \in 1..(Len(node) - k) /\ k + (i - (k - 1)) = i + 1
      BY <1>1, <1>6, <2>3
    <3>2. rest[i] = tail[i - (k - 1)]
      BY <1>1, <1>6, <2>1, <2>3
    <3>3. tail[i - (k - 1)] = node[k + (i - (k - 1))]
      BY <1>4, <3>1
    <3>4. rest[i] = node[i + 1]
      BY <3>1, <3>2, <3>3
    <3> QED BY <2>3, <3>4
  <2> QED BY <2>2, <2>3
<1>8. \A i, j \in 1..Len(rest) : i < j => rest[i] < rest[j]
  BY <1>1, <1>6, <1>7, TableAssumption DEF TableInv, Increasing
<1>9. ASSUME NEW j \in 1..Len(node), j # k
      PROVE  \E i \in 1..Len(rest) : rest[i] = node[j]
  <2> HIDE DEF rest
  <2>1. CASE j < k
    <3>1. j \in 1..Len(rest) /\ rest[j] = node[j]
      BY <1>1, <1>6, <1>7, <2>1
    <3> QED BY <3>1
  <2>2. CASE ~(j < k)
    <3>1. j - 1 \in 1..Len(rest) /\ ~(j - 1 < k) /\ j - 1 + 1 = j
      BY <1>1, <1>6, <1>9, <2>2
    <3>2. rest[j - 1] = node[j]
      BY <1>7, <3>1
    <3> QED BY <3>1, <3>2
  <2> QED BY <2>1, <2>2
<1> QED BY <1>6, <1>8, <1>9 DEF Increasing

(* What an edit may do to the rows: an insertion leaves them where they    *)
(* are, a deletion is noted, and takes its row out of those added.         *)
LEMMA EditOfRows ==
  ASSUME TableInv, Edit
  PROVE  /\ TableInv'
         /\ added' \subseteq added /\ (added \subseteq Rows => added' \subseteq Rows')
         /\ \/ deleted'
            \/ /\ UNCHANGED <<deleted, added>>
               /\ Len(node) <= Len(node')
               /\ \A i \in 1..Len(node) : node'[i] = node[i]
<1>0. Len(node) \in Nat
  BY DEF TableInv
<1>1. ASSUME NEW n \in NodeId \ Rows, Insert(n)
      PROVE  /\ TableInv' /\ UNCHANGED <<deleted, added>>
             /\ Len(node) <= Len(node')
             /\ \A i \in 1..Len(node) : node'[i] = node[i]
             /\ Rows \subseteq Rows'
  <2>1. node' = Append(node, n) /\ \A i \in 1..Len(node) : node[i] < n
    BY <1>1 DEF Insert
  <2>2. /\ node' \in Seq(NodeId) /\ Increasing(node') /\ Len(node') = Len(node) + 1
        /\ \A i \in 1..Len(node) : node'[i] = node[i]
    BY <2>1, AppendKeeps
  <2>3. Rows \subseteq Rows'
    BY <1>0, <2>2 DEF Rows
  <2>4. TableInv'
    BY <2>2 DEF TableInv, Increasing
  <2> QED BY <1>0, <1>1, <2>2, <2>3, <2>4 DEF Insert
<1>2. ASSUME NEW n \in Rows, Delete(n)
      PROVE  /\ TableInv' /\ deleted' /\ added' \subseteq added
             /\ (added \subseteq Rows => added' \subseteq Rows')
  <2>1. PICK k \in 1..Len(node) : node[k] = n /\ node' = RemoveAt(node, k)
    BY <1>2 DEF Delete
  <2>2. /\ node' \in Seq(NodeId) /\ Increasing(node')
        /\ \A j \in 1..Len(node) : j # k => \E i \in 1..Len(node') : node'[i] = node[j]
    BY <2>1, RemoveKeeps
  <2>3. Rows \ {n} \subseteq Rows'
    BY <2>1, <2>2 DEF Rows
  <2>4. TableInv'
    BY <2>2 DEF TableInv, Increasing
  <2> QED BY <1>2, <2>3, <2>4 DEF Delete
<1>3. ASSUME NEW n \in Rows, Update(n) PROVE UNCHANGED <<node, deleted, added>>
  BY <1>3 DEF Update
<1> QED BY <1>0, <1>1, <1>2, <1>3 DEF Edit, TableInv, Rows

-----------------------------------------------------------------------------
(* The parts of the state that every message has.                          *)

Kinds == {"CMD_TOPO_ADD", "PLAT_ADD_DEV", "PLAT_UPDATE_DEV"}
Columned == column = [c \in ColumnName |-> column[c]]
Held     == message = [h \in {"m_jsonstr", "m_json4plat"} |-> message[h]]
Shape ==
  /\ kind \in Kinds
  /\ pc \in {"idle", "read", "make", "send"}
  /\ next \in 0..4 /\ (pc = "read" => next < Len(Columns(kind)))
  /\ pc = "idle" => next = 0 /\ column["status"] = <<>>
  /\ Columned /\ Held
  /\ deleted \in BOOLEAN /\ failed \in BOOLEAN

(* The columns of a message: the status comes first, no column twice.      *)
LEMMA ColumnsOf ==
  ASSUME NEW k \in Kinds
  PROVE  /\ Len(Columns(k)) \in 2..4
         /\ Columns(k)[1] = "status"
         /\ \A i \in 1..Len(Columns(k)) : Columns(k)[i] \in ColumnName
         /\ \A i, j \in 1..Len(Columns(k)) : Columns(k)[i] = Columns(k)[j] => i = j
         /\ \E i \in 2..Len(Columns(k)) : Columns(k)[i] = "deviceid"
         /\ \A c \in Range(Columns(k)) \ {"status"} :
              \E i \in 2..Len(Columns(k)) : Columns(k)[i] = c
<1>1. CASE k = "CMD_TOPO_ADD"
  BY <1>1 DEF Columns, ColumnName, Range
<1>2. CASE k = "PLAT_ADD_DEV"
  BY <1>2 DEF Columns, ColumnName, Range
<1>3. CASE k = "PLAT_UPDATE_DEV"
  BY <1>3 DEF Columns, ColumnName, Range
<1> QED BY <1>1, <1>2, <1>3 DEF Kinds

(* At the start nothing is under way.                                      *)
LEMMA ShapeInit == Init => Shape
<1> SUFFICES ASSUME Init PROVE Shape
  OBVIOUS
<1>1. column = [c \in ColumnName |-> <<>>]
  BY DEF Init
<1>2. message = [h \in {"m_jsonstr", "m_json4plat"} |-> Empty]
  BY DEF Init
<1>3. Columned /\ Held /\ column["status"] = <<>>
  BY <1>1, <1>2 DEF Columned, Held, ColumnName
<1>4. pc = "idle" /\ kind = "CMD_TOPO_ADD" /\ next = 0
  BY DEF Init
<1>5. deleted \in BOOLEAN /\ failed \in BOOLEAN
  BY DEF Init
<1> QED BY <1>3, <1>4, <1>5 DEF Shape, Kinds

(* The steps keep it.                                                      *)
LEMMA ShapeNext == Shape /\ [Next]_vars => Shape'
<1> SUFFICES ASSUME Shape, [Next]_vars PROVE Shape'
  OBVIOUS
<1>1. CASE Start
  <2>1. Len(Columns(kind)) \in 2..4
    BY ColumnsOf DEF Shape
  <2>2. pc' = "read" /\ UNCHANGED <<kind, next, column, message, failed>> /\ deleted' = FALSE
    BY <1>1 DEF Start
  <2>3. next = 0
    BY <1>1 DEF Start, Shape
  <2>4. next' \in 0..4 /\ next' < Len(Columns(kind'))
    BY <2>1, <2>2, <2>3
  <2>5. Columned' /\ Held' /\ kind' \in Kinds /\ failed' \in BOOLEAN
    BY <2>2 DEF Shape, Columned, Held
  <2> QED BY <2>2, <2>4, <2>5 DEF Shape
<1>2. CASE ReadColumn
  <2> DEFINE c == Columns(kind)[next + 1]
  <2>1. PICK values : /\ column' = [column EXCEPT ![c] = values] /\ next' = next + 1
                      /\ pc' = IF next = 0 /\ values = <<>> THEN "send"
                               ELSE IF next' = Len(Columns(kind)) THEN "make" ELSE "read"
                      /\ failed' = (failed \/ values # Selected(c))
    BY <1>2 DEF ReadColumn
  <2>2. pc = "read" /\ UNCHANGED <<kind, message, deleted>>
    BY <1>2 DEF ReadColumn
  <2>3. Len(Columns(kind)) \in 2..4 /\ next < Len(Columns(kind)) /\ next \in 0..4
    BY <2>2, ColumnsOf DEF Shape
  <2>4. Columned' /\ Held' /\ failed' \in BOOLEAN
    BY <2>1, <2>2 DEF Columned, Held, Shape
  <2> QED BY <2>1, <2>2, <2>3, <2>4 DEF Shape
<1>3. CASE Make
  <2>1. /\ \E items : message' = [message EXCEPT ![Holder(kind)] = [kind |-> kind, items |-> items]]
        /\ UNCHANGED <<kind, column, next, deleted, failed>> /\ pc' = "send"
    BY <1>3 DEF Make
  <2>2. Columned' /\ Held'
    BY <2>1 DEF Shape, Columned, Held
  <2> QED BY <2>1, <2>2 DEF Shape
<1>4. CASE Send
  <2>1. kind' \in Kinds
    BY <1>4 DEF Send, After, Kinds
  <2>2. column' = [c \in ColumnName |-> <<>>]
    BY <1>4 DEF Send
  <2>3. Columned' /\ column'["status"] = <<>>
    BY <2>2 DEF Columned, ColumnName
  <2>4. pc' = "idle" /\ next' = 0 /\ failed' = FALSE /\ UNCHANGED <<message, deleted>>
    BY <1>4 DEF Send
  <2>5. Held' /\ deleted' \in BOOLEAN
    BY <2>4 DEF Held, Shape
  <2>6. failed' \in BOOLEAN
    BY <2>4, Zenon
  <2>7. next' \in 0..4
    BY <2>4
  <2> QED BY <2>1, <2>3, <2>4, <2>5, <2>6, <2>7 DEF Shape
<1>5. CASE Die
  BY <1>5 DEF Die, Shape, Columned, Held
<1>6. CASE Edit
  <2>1. deleted' \in BOOLEAN
    BY <1>6 DEF Edit, Insert, Delete, Update, Shape
  <2> QED BY <1>6, <2>1 DEF Edit, Shape, Columned, Held
<1>7. CASE UNCHANGED vars
  BY <1>7 DEF vars, Shape, Columned, Held
<1> QED BY <1>1, <1>2, <1>3, <1>4, <1>5, <1>6, <1>7 DEF Next, Build

-----------------------------------------------------------------------------
(* What the columns have in common.                                        *)

(* The row the i-th status was read from; a column whose first values are  *)
(* of those rows; the rows a message leaves out; the items it then has.    *)
Row(i) == column["status"][i].of
Matches(c) ==
  /\ Len(column[c]) \in Nat /\ Len(column["status"]) <= Len(column[c])
  /\ \A i \in 1..Len(column["status"]) : column[c][i] = Row(i)
Skips(i) == \/ Adds(kind) /\ column["status"][i].registered
            \/ kind = "PLAT_ADD_DEV" /\ Row(i) \in NoModel
Right(m) ==
  /\ DOMAIN m = {i \in 1..Len(column["status"]) : ~Skips(i)}
  /\ \A i \in DOMAIN m : /\ m[i].id = Row(i) /\ m[i].status = column["status"][i]
                         /\ m[i].rest \subseteq {Row(i)}

(* The rows whose status was read are the first of the table until one is  *)
(* deleted; what was read of the other columns is of those rows, unless a  *)
(* query failed; the status message reads the rows that were added.        *)
Ordered == /\ column["status"] \in Seq(Status)
           /\ \A i, j \in 1..Len(column["status"]) : i < j => Row(i) < Row(j)
Prefix == pc \in {"read", "make"} /\ next > 0 /\ ~deleted =>
            /\ Len(column["status"]) <= Len(node)
            /\ \A i \in 1..Len(column["status"]) : node[i] = Row(i)
Matched == pc \in {"read", "make"} /\ ~deleted /\ ~failed =>
             \A k \in 2..next : Matches(Columns(kind)[k])
Complete == /\ pc = "make" => next = Len(Columns(kind))
            /\ Ready /\ ~deleted /\ ~failed => Right(message[Holder(kind)].items)
Noted == /\ added \subseteq Rows
         /\ kind = "PLAT_UPDATE_DEV" /\ column["status"] # <<>> /\ ~deleted =>
              added \subseteq {Row(i) : i \in 1..Len(column["status"])}
Alive == crashed => deleted \/ failed
Paired == Ordered /\ Prefix /\ Matched /\ Complete /\ Noted /\ Alive

(* At the start nothing was read.                                          *)
LEMMA PairedInit == Init => Paired
<1> SUFFICES ASSUME Init PROVE Paired
  OBVIOUS
<1>1. column["status"] = <<>>
  BY DEF Init, ColumnName
<1>2. pc = "idle" /\ ~crashed /\ added = {}
  BY DEF Init
<1> QED BY <1>1, <1>2 DEF Paired, Ordered, Prefix, Matched, Complete, Ready, Noted, Alive

(* The next column is read.                                                *)
LEMMA ReadPaired ==
  ASSUME TableInv, Shape, Paired, ReadColumn
  PROVE  Paired'
<1> DEFINE c == Columns(kind)[next + 1]
<1>1. PICK values :
        /\ column' = [column EXCEPT ![c] = values]
        /\ failed' = (failed \/ values # Selected(c))
        /\ pc' = IF next = 0 /\ values = <<>> THEN "send"
                 ELSE IF next' = Len(Columns(kind)) THEN "make" ELSE "read"
        /\ values \in {Selected(c), <<>>}
  BY DEF ReadColumn
<1>2. /\ next' = next + 1 /\ pc = "read" /\ ~crashed
      /\ UNCHANGED <<kind, message, deleted, added, crashed, node>>
  BY DEF ReadColumn, table
<1>3. /\ Len(Columns(kind)) \in 2..4 /\ Columns(kind)[1] = "status"
      /\ next \in 0..4 /\ next < Len(Columns(kind))
      /\ \A i \in 1..Len(Columns(kind)) : Columns(kind)[i] \in ColumnName
      /\ \A i, j \in 1..Len(Columns(kind)) : Columns(kind)[i] = Columns(kind)[j] => i = j
  BY <1>2, ColumnsOf DEF Shape
<1>4. \A d \in ColumnName : column'[d] = IF d = c THEN values ELSE column[d]
  BY <1>1 DEF Shape, Columned
<1>5. /\ c \in ColumnName /\ next + 1 \in 1..Len(Columns(kind)) /\ "status" \in ColumnName
      /\ failed \in BOOLEAN
  BY <1>3 DEF ColumnName, Shape
<1> HIDE DEF c
<1>6. CASE next = 0
  <2>1. c = "status" /\ column'["status"] = values
    BY <1>3, <1>4, <1>5, <1>6 DEF c
  <2>2. /\ StatusColumn \in Seq(Status) /\ Len(StatusColumn) = Len(node)
        /\ \A i \in 1..Len(node) : StatusColumn[i].of = node[i]
    BY DEF StatusColumn, Status, TableInv
  <2>3. values = StatusColumn \/ values = <<>>
    BY <1>1, <2>1 DEF Selected
  <2>4. Ordered'
    <3>1. CASE values = <<>>
      BY <2>1, <3>1 DEF Ordered
    <3>2. CASE values = StatusColumn
      <4>1. column'["status"] \in Seq(Status) /\ Len(column'["status"]) = Len(node)
        BY <2>1, <2>2, <3>2
      <4>2. \A i \in 1..Len(node) : Row(i)' = node[i]
        BY <2>1, <2>2, <3>2 DEF Row
      <4> QED BY <4>1, <4>2 DEF Ordered, TableInv, Increasing
    <3> QED BY <2>3, <3>1, <3>2
  <2>5. Prefix'
    BY <1>1, <1>2, <1>6, <2>1, <2>2, <2>3 DEF Prefix, Row, TableInv
  <2>6. Matched'
    BY <1>2, <1>6 DEF Matched
  <2>7. Complete' /\ Alive'
    BY <1>1, <1>2, <1>3, <1>6, <2>1 DEF Complete, Ready, Alive
  <2>8. Noted'
    <3>1. added' \subseteq Rows'
      BY <1>2 DEF Paired, Noted, Rows
    <3>2. ASSUME column'["status"] # <<>>
          PROVE  added' \subseteq {Row(i)' : i \in 1..Len(column'["status"])}
      <4>1. column'["status"] = StatusColumn
        BY <2>1, <2>3, <3>2
      <4>2. \A i \in 1..Len(node) : Row(i)' = node[i]
        BY <2>2, <4>1 DEF Row
      <4> QED BY <1>2, <2>2, <4>1, <4>2 DEF Paired, Noted, Rows
    <3> QED BY <3>1, <3>2 DEF Noted
  <2> QED BY <2>4, <2>5, <2>6, <2>7, <2>8 DEF Paired
<1>7. CASE next # 0
  <2>1. c # "status" /\ column'["status"] = column["status"]
    BY <1>3, <1>4, <1>5, <1>7 DEF c
  <2>2. Ordered' /\ Prefix' /\ Noted'
    BY <1>2, <1>3, <1>7, <2>1 DEF Paired, Ordered, Prefix, Noted, Rows, Row
  <2>3. Matched'
    <3> SUFFICES ASSUME ~failed', ~deleted', NEW k \in 2..next'
                 PROVE  Matches(Columns(kind)[k])'
      BY DEF Matched
    <3>1. Columns(kind)[k]' = Columns(kind)[k] /\ k \in 1..Len(Columns(kind))
      BY <1>2, <1>3
    <3>2. CASE k = next + 1
      <4>1. column'[c] = node
        BY <1>1, <1>4, <1>5, <2>1 DEF Selected
      <4>2. /\ Len(column["status"]) \in Nat /\ Len(column["status"]) <= Len(node)
            /\ \A i \in 1..Len(column["status"]) : node[i] = Row(i)
        BY <1>2, <1>3, <1>7 DEF Paired, Prefix, Ordered
      <4>3. Columns(kind)[k] = c /\ Len(node) \in Nat
        BY <3>2 DEF c, TableInv
      <4> QED BY <2>1, <3>1, <4>1, <4>2, <4>3 DEF Matches, Row
    <3>3. CASE k # next + 1
      <4>1. k \in 2..next
        BY <1>2, <1>3, <3>3
      <4>2. column'[Columns(kind)[k]] = column[Columns(kind)[k]]
        BY <1>3, <1>4, <1>5, <3>1, <3>3 DEF c
      <4>3. Matches(Columns(kind)[k])
        BY <1>1, <1>2, <1>5, <4>1 DEF Paired, Matched
      <4> QED BY <2>1, <3>1, <4>2, <4>3 DEF Matches, Row
    <3> QED BY <3>2, <3>3
  <2>4. Complete' /\ Alive'
    BY <1>1, <1>2, <1>3, <1>7 DEF Complete, Ready, Alive
  <2> QED BY <2>2, <2>3, <2>4 DEF Paired
<1> QED BY <1>6, <1>7

(* A row is one of the table.                                              *)
LEMMA RowType ==
  ASSUME Ordered, NEW i \in 1..Len(column["status"])
  PROVE  Row(i) \in NodeId
<1>1. column["status"][i] \in Status
  BY DEF Ordered
<1> QED BY <1>1 DEF Row, Status

(* A column that matches has the row's id at the row's index.              *)
LEMMA Found ==
  ASSUME Ordered, NEW c, Matches(c), NEW i \in 1..Len(column["status"])
  PROVE  Find(column[c], i) = Row(i) /\ Row(i) \in NodeId /\ Row(i) # Garbage
<1>1. Row(i) \in NodeId
  BY RowType
<1>2. i <= Len(column[c])
  BY DEF Ordered, Matches
<1> QED BY <1>1, <1>2, TableAssumption DEF Find, Matches, Garbage

(* The message is made of what was read.                                   *)
LEMMA MadeRight ==
  ASSUME Shape, Paired, pc = "make", ~deleted, ~failed
  PROVE  Right([i \in Listed |-> Item(i)])
<1>1. \A k \in 2..Len(Columns(kind)) : Matches(Columns(kind)[k])
  BY DEF Paired, Matched, Complete
<1>2. \A c \in Range(Columns(kind)) \ {"status"} : Matches(c)
  BY <1>1, ColumnsOf DEF Shape
<1>3. Matches("deviceid")
  BY <1>1, ColumnsOf DEF Shape
<1>4. ASSUME NEW i \in 1..Len(column["status"]) PROVE Passed(i) <=> Skips(i)
  <2>1. CASE kind = "PLAT_ADD_DEV"
    <3>1. Columns(kind)[4] = "type" /\ Len(Columns(kind)) = 4
      BY <2>1 DEF Columns
    <3>2. Find(column["type"], i) = Row(i) /\ Row(i) # Garbage
      BY <1>1, <3>1, Found DEF Paired
    <3> QED BY <3>2 DEF Passed, Unmodelled, Skips
  <2>2. CASE kind # "PLAT_ADD_DEV"
    BY <2>2 DEF Passed, Unmodelled, Skips
  <2> QED BY <2>1, <2>2
<1>5. ASSUME NEW i \in 1..Len(column["status"])
      PROVE  /\ Item(i).id = Row(i) /\ Item(i).status = column["status"][i]
             /\ Item(i).rest \subseteq {Row(i)}
  <2>1. Find(column["deviceid"], i) = Row(i)
    BY <1>3, Found DEF Paired
  <2>2. \A c \in Range(Columns(kind)) \ {"status", "deviceid"} : Find(column[c], i) = Row(i)
    BY <1>2, Found DEF Paired
  <2> QED BY <2>1, <2>2 DEF Item
<1> QED BY <1>4, <1>5 DEF Right, Listed

(* The other steps.                                                        *)
LEMMA PairedNext ==
  ASSUME TableInv, Shape, Paired, [Next]_vars
  PROVE  Paired'
<1>1. CASE Start
  <2>1. /\ pc' = "read" /\ next' = 0 /\ column["status"] = <<>>
        /\ UNCHANGED <<column, crashed, kind, added, node>> /\ ~crashed
    BY <1>1 DEF Start, Shape, table
  <2>2. Ordered'
    BY <2>1 DEF Paired, Ordered, Row
  <2>3. Prefix' /\ Alive'
    BY <2>1 DEF Prefix, Alive
  <2>4. Matched' /\ Complete'
    BY <2>1 DEF Matched, Complete, Ready
  <2>5. Noted'
    BY <2>1 DEF Paired, Noted, Rows
  <2> QED BY <2>2, <2>3, <2>4, <2>5 DEF Paired
<1>2. CASE ReadColumn
  BY <1>2, ReadPaired
<1>3. CASE Make
  <2> DEFINE items == [i \in Listed |-> Item(i)]
  <2>1. /\ message' = [message EXCEPT ![Holder(kind)] = [kind |-> kind, items |-> items]]
        /\ UNCHANGED <<node, kind, column, next, deleted, failed, crashed>>
        /\ pc = "make" /\ pc' = "send"
        /\ added' = IF kind = "PLAT_ADD_DEV"
                    THEN {items[i].id : i \in Listed} \cap Rows ELSE added
    BY <1>3 DEF Make, table
  <2>2. message'[Holder(kind)].items = items
    <3>1. Holder(kind) \in {"m_jsonstr", "m_json4plat"}
      BY DEF Holder
    <3>2. message'[Holder(kind)] = [kind |-> kind, items |-> items]
      BY <2>1, <3>1 DEF Shape, Held
    <3> QED BY <3>2
  <2>3. Ordered' /\ Prefix' /\ Matched' /\ Alive'
    BY <2>1 DEF Paired, Ordered, Prefix, Matched, Alive, Row
  <2>4. Complete'
    <3> SUFFICES ASSUME ~deleted, ~failed
                 PROVE  Right(message[Holder(kind)].items)'
      BY <2>1 DEF Complete, Ready
    <3>1. Right(items)
      BY <2>1, MadeRight
    <3> QED BY <2>1, <2>2, <3>1 DEF Right, Skips, Row
  <2>5. Noted'
    <3>1. Rows' = Rows /\ \A i : Row(i)' = Row(i)
      BY <2>1 DEF Rows, Row
    <3>2. added' \subseteq Rows'
      BY <2>1, <3>1 DEF Paired, Noted
    <3>3. kind' = "PLAT_UPDATE_DEV" => UNCHANGED added
      BY <2>1
    <3> QED BY <2>1, <3>1, <3>2, <3>3 DEF Paired, Noted
  <2> QED BY <2>3, <2>4, <2>5 DEF Paired
<1>4. CASE Send
  <2>1. pc' = "idle" /\ UNCHANGED <<added, crashed, node>> /\ ~crashed
    BY <1>4 DEF Send, table
  <2>2. column'["status"] = <<>>
    BY <1>4 DEF Send, ColumnName
  <2> QED BY <2>1, <2>2 DEF Paired, Ordered, Prefix, Matched, Complete, Ready, Noted, Rows,
                            Alive, Row
<1>5. CASE Die
  <2>1. /\ pc = "make"
        /\ UNCHANGED <<table, pc, kind, next, column, message, deleted, failed, added>>
    BY <1>5 DEF Die
  <2>2. ASSUME ~deleted, ~failed PROVE FALSE
    <3>1. PICK i \in 1..Len(column["status"]) : \E c \in Looked(i) : Len(column[c]) < i
      BY <1>5 DEF Die, Outside
    <3>2. PICK c \in Looked(i) : Len(column[c]) < i
      BY <3>1
    <3>3. c \in Range(Columns(kind)) \ {"status"}
      <4>1. CASE kind = "PLAT_ADD_DEV" /\ c = "type"
        BY <4>1 DEF Columns, Range
      <4>2. CASE ~(kind = "PLAT_ADD_DEV" /\ c = "type")
        BY <3>2, <4>2 DEF Looked
      <4> QED BY <4>1, <4>2
    <3>4. PICK k \in 2..Len(Columns(kind)) : Columns(kind)[k] = c
      BY <3>3, ColumnsOf DEF Shape
    <3>5. Matches(c)
      BY <2>1, <2>2, <3>4 DEF Paired, Matched, Complete
    <3> QED BY <3>2, <3>5 DEF Matches, Paired, Ordered
  <2>3. Ordered' /\ Prefix' /\ Matched' /\ Complete' /\ Noted'
    BY <2>1 DEF table, Paired, Ordered, Prefix, Matched, Matches, Complete, Ready, Right, Skips,
                   Row, Noted, Rows
  <2> QED BY <2>1, <2>2, <2>3 DEF Paired, Alive
<1>6. CASE Edit
  <2>1. UNCHANGED <<pc, kind, next, column, message, failed, crashed>>
    BY <1>6 DEF Edit
  <2>2. /\ added' \subseteq added /\ added' \subseteq Rows'
        /\ \/ deleted'
           \/ /\ UNCHANGED <<deleted, added>>
              /\ Len(node) <= Len(node')
              /\ \A i \in 1..Len(node) : node'[i] = node[i]
    BY <1>6, EditOfRows DEF Paired, Noted
  <2>3. Len(node) \in Nat /\ Len(node') \in Nat /\ Len(column["status"]) \in Nat
    BY <1>6, EditOfRows DEF TableInv, Paired, Ordered
  <2>4. Ordered' /\ Matched' /\ Complete' /\ Alive'
    BY <2>1, <2>2 DEF Paired, Ordered, Matched, Matches, Complete, Ready, Right, Skips,
                      Row, Alive
  <2>5. Prefix'
    BY <2>1, <2>2, <2>3 DEF Paired, Prefix, Row
  <2>6. Noted'
    BY <2>1, <2>2 DEF Paired, Noted, Row
  <2> QED BY <2>4, <2>5, <2>6 DEF Paired
<1>7. CASE UNCHANGED vars
  BY <1>7 DEF vars, table, Paired, Ordered, Prefix, Matched, Matches, Complete, Ready, Right,
           Skips, Row, Alive, Noted, Rows
<1> QED BY <1>1, <1>2, <1>3, <1>4, <1>5, <1>6, <1>7 DEF Next, Build

(* The table keeps its order.                                              *)
LEMMA TableNext == TableInv /\ [Next]_vars => TableInv'
  BY EditOfRows DEF Next, Build, Start, ReadColumn, Make, Send, Die, TableInv, vars, table

(* All of it.                                                              *)
LEMMA Everything == Spec => [](TableInv /\ Shape /\ Paired)
  BY TableInit, TableNext, ShapeInit, ShapeNext, PairedInit, PairedNext, PTL DEF Spec

(* A message has one row per item, in every table and for every kind, also *)
(* while rows are added and change.                                        *)
THEOREM ItemsAlwaysOfOneRow == Spec => []ItemsOfOneRow
<1>1. Paired => ItemsOfOneRow
  <2> SUFFICES ASSUME Paired, Ready, ~deleted, ~failed, NEW i \in DOMAIN Made.items
               PROVE  /\ Made.items[i].status.of = Made.items[i].id
                      /\ Made.items[i].rest \subseteq {Made.items[i].id}
    BY DEF ItemsOfOneRow
  <2>1. Right(Made.items)
    BY DEF Paired, Complete, Made
  <2> QED BY <2>1 DEF Right, Row
<1> QED BY <1>1, Everything, PTL

(* A message that adds nodes adds each unregistered one, once.             *)
THEOREM UnregisteredAlwaysAdded == Spec => []AddsTheUnregistered
<1>1. Paired => AddsTheUnregistered
  <2> SUFFICES ASSUME Paired, Ready, ~deleted, ~failed, Adds(kind) PROVE AddsTheUnregistered
    BY DEF AddsTheUnregistered
  <2> DEFINE S == column["status"]
             wanted == {S[i].of : i \in {k \in 1..Len(S) : ~S[k].registered}}
             items == Made.items
  <2>1. Right(items)
    BY DEF Paired, Complete, Made
  <2>2. {items[i].id : i \in DOMAIN items} =
          IF kind = "PLAT_ADD_DEV" THEN wanted \ NoModel ELSE wanted
    BY <2>1 DEF Right, Skips, Row
  <2>3. \A i, j \in DOMAIN items : items[i].id = items[j].id => i = j
    <3> SUFFICES ASSUME NEW i \in DOMAIN items, NEW j \in DOMAIN items,
                        Row(i) = Row(j), i # j
                 PROVE  FALSE
      BY <2>1 DEF Right
    <3>1. i \in 1..Len(S) /\ j \in 1..Len(S)
      BY <2>1 DEF Right
    <3>2. Row(i) \in Nat /\ Row(j) \in Nat
      BY <3>1, RowType, TableAssumption DEF Paired
    <3>3. Row(i) < Row(j) \/ Row(j) < Row(i)
      BY <3>1 DEF Paired, Ordered
    <3> QED BY <3>2, <3>3
  <2> QED BY <2>2, <2>3 DEF AddsTheUnregistered
<1> QED BY <1>1, Everything, PTL

(* A node that was added and is still there is in the status message.      *)
THEOREM AddedAlwaysReported == Spec => []ReportsTheAdded
<1>1. Paired => ReportsTheAdded
  <2> SUFFICES ASSUME Paired, Ready, ~deleted, ~failed, kind = "PLAT_UPDATE_DEV", NEW n \in added
               PROVE  \E i \in DOMAIN Made.items : Made.items[i].id = n
    BY DEF ReportsTheAdded
  <2>1. Right(Made.items)
    BY DEF Paired, Complete, Made
  <2>2. PICK i \in 1..Len(column["status"]) : Row(i) = n
    BY DEF Paired, Noted, Ready
  <2>3. ~Skips(i)
    BY DEF Skips, Adds
  <2> QED BY <2>1, <2>2, <2>3 DEF Right
<1> QED BY <1>1, Everything, PTL

(* A builder leaves its vectors only if a row was deleted or a query       *)
(* failed in the meantime.                                                 *)
THEOREM AlwaysDiesOnlyDisturbed == Spec => []DiesOnlyDisturbed
<1>1. Paired => DiesOnlyDisturbed
  BY DEF Paired, Alive, DiesOnlyDisturbed
<1> QED BY <1>1, Everything, PTL
=============================================================================
