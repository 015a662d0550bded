--------------------------- MODULE MqttSend_proofs ---------------------------
(* Proofs about MqttSend, for any set of senders and any number of         *)
(* messages: the types, that a message reaches the broker at most once,    *)
(* that one sent with success is lost by a cut connection only, and that   *)
(* there is one connection at most.                                        *)
EXTENDS MqttSend, TLAPS, FiniteSetTheorems

-----------------------------------------------------------------------------
(* Types, and the client a call has opened.                                *)

LEMMA TypeInit == Init => TypeOK
<1> SUFFICES ASSUME Init PROVE TypeOK
  OBVIOUS
<1>1. 0 \in 0..MaxSends
  BY SendsAssumption
<1>2. \A s \in Sender : pc[s] = "idle"
  BY DEF Init
<1> QED BY <1>1, <1>2 DEF Init, TypeOK, Label

(* The call under way has a message.                                       *)
LEMMA CurrentMessage ==
  ASSUME TypeOK, NEW s \in Sender, pc[s] # "idle"
  PROVE  Current(s) \in Message /\ sends[s] \in 1..MaxSends
<1>1. sends[s] \in 0..MaxSends /\ sends[s] > 0
  BY DEF TypeOK
<1>2. sends[s] \in 1..MaxSends
  BY <1>1, SendsAssumption
<1> QED BY <1>2 DEF Current, Message

(* The parts of the types that a step changes; the rest it leaves alone.   *)
Locals ==
  /\ pc \in [Sender -> Label]
  /\ sends \in [Sender -> 0..MaxSends]
  /\ \A s \in Sender :
       /\ pc[s] # "idle" => sends[s] > 0
       /\ pc[s] \in {"connect", "publish", "wait", "disconnect"} =>
            Current(s) \in handles
Links ==
  /\ link \in [Message -> {"none", "up", "cut", "closed"}]
  /\ wire \subseteq Message /\ acks \subseteq Message /\ acked \subseteq Message
  /\ copies \in [Message -> Nat]
Marks ==
  /\ edgedev \in BOOLEAN /\ crashed \in BOOLEAN
  /\ result \in [Message -> {"none", "ok", "failed"}]
  /\ handles \subseteq Message
  /\ said \subseteq Message /\ cutoff \subseteq Message
LEMMA TypeParts == TypeOK <=> Locals /\ Links /\ Marks
  BY DEF TypeOK, Locals, Links, Marks
LEMMA TypePartsNext == Locals' /\ Links' /\ Marks' => TypeOK'
  BY DEF TypeOK, Locals, Links, Marks

(* A step of a call that has begun: it goes from label to label, and has   *)
(* its client where the label says so.                                     *)
LEMMA LocalsStep ==
  ASSUME Locals, NEW s \in Sender, NEW l \in Label, pc[s] # "idle", Goto(s, l),
         UNCHANGED sends, handles \ {Current(s)} \subseteq handles',
         l \in {"connect", "publish", "wait", "disconnect"} => Current(s) \in handles'
  PROVE  Locals'
<1>1. pc' \in [Sender -> Label]
  BY DEF Locals, Goto
<1>2. \A u \in Sender : Current(u)' = Current(u) /\ (u # s => Current(u) # Current(s))
  BY DEF Current
<1>3. \A u \in Sender : pc'[u] = IF u = s THEN l ELSE pc[u]
  BY DEF Locals, Goto
<1> QED BY <1>1, <1>2, <1>3 DEF Locals

LEMMA TypeSend ==
  ASSUME TypeOK, NEW s \in Sender, Send(s)
  PROVE  TypeOK'
<1>0. pc[s] # "idle"
  BY DEF Send, NoEdge, Query, Create, Connect, ConnectFails, Publish, PublishFails,
         WaitDone, WaitTimesOut, Disconnect, At
<1>1. Current(s) \in Message
  BY <1>0, CurrentMessage
<1>2. Locals /\ Links /\ Marks
  BY TypeParts
<1> DEFINE opened == pc[s] \in {"connect", "publish", "wait", "disconnect"}
<1>3. opened => Current(s) \in handles
  BY <1>2 DEF Locals
<1>4. Locals'
  <2>1. CASE NoEdge(s) \/ Query(s)
    BY <1>0, <1>2, <2>1, LocalsStep DEF NoEdge, Query, Return, Label
  <2>2. CASE Create(s)
    BY <1>0, <1>2, <2>2, LocalsStep DEF Create, NotCreated, Return, Label
  <2>3. CASE Connect(s) \/ ConnectFails(s)
    BY <1>0, <1>2, <1>3, <2>3, LocalsStep DEF Connect, ConnectFails, At, Return, Label
  <2>4. CASE Publish(s) \/ PublishFails(s)
    BY <1>0, <1>2, <1>3, <2>4, LocalsStep
       DEF Publish, PublishFails, Refused, At, Return, Label
  <2>5. CASE WaitDone(s) \/ WaitTimesOut(s)
    BY <1>0, <1>2, <1>3, <2>5, LocalsStep DEF WaitDone, WaitTimesOut, AfterWait, At, Label
  <2>6. CASE Disconnect(s)
    BY <1>0, <1>2, <2>6, LocalsStep DEF Disconnect, Return, Label
  <2> QED BY <2>1, <2>2, <2>3, <2>4, <2>5, <2>6 DEF Send
<1>5. Links'
  <2>1. CASE UNCHANGED network
    BY <1>2, <2>1 DEF network, Links
  <2>2. CASE Connect(s) \/ ConnectFails(s)
    BY <1>2, <2>2 DEF Connect, ConnectFails, Severed, Live, Links
  <2>3. CASE Publish(s) \/ PublishFails(s)
    BY <1>1, <1>2, <2>3 DEF Publish, PublishFails, Links
  <2>4. CASE Disconnect(s)
    BY <1>2, <2>4 DEF Disconnect, Links
  <2> QED BY <2>1, <2>2, <2>3, <2>4 DEF Send, NoEdge, Query, Create, WaitDone, WaitTimesOut
<1>6. Marks'
  <2>1. CASE NoEdge(s) \/ Query(s) \/ Create(s)
    BY <1>1, <1>2, <2>1 DEF NoEdge, Query, Create, NotCreated, Return, Marks
  <2>2. CASE Connect(s) \/ ConnectFails(s)
    <3>1. /\ UNCHANGED <<edgedev, handles, said, crashed>>
          /\ UNCHANGED result \/ result' = [result EXCEPT ![Current(s)] = "failed"]
      BY <2>2 DEF Connect, ConnectFails, Return
    <3>2. \E C : cutoff' = cutoff \cup C /\ C \subseteq Live \cup wire
      BY <2>2 DEF Connect, ConnectFails, Severed
    <3>3. cutoff' \subseteq Message
      BY <1>2, <3>2 DEF Live, Links, Marks
    <3> QED BY <1>2, <3>1, <3>3 DEF Marks
  <2>3. CASE Publish(s) \/ PublishFails(s)
    BY <1>2, <2>3 DEF Publish, PublishFails, Refused, Return, Marks
  <2>4. CASE WaitDone(s) \/ WaitTimesOut(s)
    BY <1>1, <1>2, <2>4 DEF WaitDone, WaitTimesOut, AfterWait, Marks
  <2>5. CASE Disconnect(s)
    BY <1>2, <2>5 DEF Disconnect, Return, Marks
  <2> QED BY <2>1, <2>2, <2>3, <2>4, <2>5 DEF Send
<1> QED BY <1>4, <1>5, <1>6, TypeParts, TypePartsNext

LEMMA TypeNext == TypeOK /\ [Next]_vars => TypeOK'
<1> SUFFICES ASSUME TypeOK, [Next]_vars PROVE TypeOK'
  OBVIOUS
<1>1. Locals /\ Links /\ Marks
  BY TypeParts
<1>2. ASSUME NEW s \in Sender, Call(s) PROVE TypeOK'
  <2>1. /\ sends' = [sends EXCEPT ![s] = @ + 1] /\ sends[s] < MaxSends
        /\ pc' = [pc EXCEPT ![s] = "query"]
    BY <1>2 DEF Call, Goto
  <2>2. sends[s] \in 0..MaxSends
    BY <1>1 DEF Locals
  <2>3. sends[s] + 1 \in 0..MaxSends /\ sends[s] + 1 > 0
    BY <2>1, <2>2, SendsAssumption
  <2>4. Locals'
    <3>1. pc' \in [Sender -> Label] /\ sends' \in [Sender -> 0..MaxSends]
      BY <1>1, <2>1, <2>3 DEF Locals, Label
    <3>2. ASSUME NEW u \in Sender
          PROVE  /\ pc'[u] # "idle" => sends'[u] > 0
                 /\ pc'[u] \in {"connect", "publish", "wait", "disconnect"} =>
                      Current(u)' \in handles'
      BY <1>1, <1>2, <2>1, <2>3 DEF Locals, Call, Current
    <3> QED BY <3>1, <3>2 DEF Locals
  <2>5. Links' /\ Marks'
    BY <1>1, <1>2 DEF Call, network, Links, Marks
  <2> QED BY <2>4, <2>5, TypeParts, TypePartsNext
<1>3. ASSUME NEW s \in Sender, Die(s) PROVE TypeOK'
  <2>1. Locals'
    BY <1>1, <1>3 DEF Die, Locals, Label
  <2>2. Links' /\ Marks'
    BY <1>1, <1>3 DEF Die, Links, Marks
  <2> QED BY <2>1, <2>2, TypePartsNext
<1>4. CASE Network
  <2>1. Locals' /\ Marks'
    <3>1. UNCHANGED <<edgedev, pc, sends, handles, said, result, crashed>>
      BY <1>4 DEF Network, Receive, Acknowledge, Cut
    <3>2. cutoff' \subseteq Message
      BY <1>1, <1>4 DEF Network, Receive, Acknowledge, Cut, Severed, Marks
    <3> QED BY <1>1, <3>1, <3>2 DEF Locals, Marks, Current
  <2>2. Links'
    BY <1>1, <1>4 DEF Network, Receive, Acknowledge, Cut, Severed, Links
  <2> QED BY <2>1, <2>2, TypePartsNext
<1>5. CASE UNCHANGED vars
  BY <1>1, <1>5, TypePartsNext DEF vars, Locals, Links, Marks, Current
<1> QED BY <1>2, <1>3, <1>4, <1>5, TypeSend DEF Next

(* Every call that is past its create has its client, and every number,    *)
(* mark and label is what it should be, whatever fails.                    *)
THEOREM SendsTyped == Spec => []TypeOK
  BY TypeInit, TypeNext, PTL DEF Spec

-----------------------------------------------------------------------------
(* At most once.                                                           *)

(* A message that was not published yet is not on its way, and one that is *)
(* on its way was not received yet.                                        *)
Unsent(c) == \/ c[2] > sends[c[1]]
             \/ c[2] = sends[c[1]] /\ pc[c[1]] \in {"query", "create", "connect", "publish"}
Counted ==
  /\ pc \in [Sender -> Label]
  /\ sends \in [Sender -> 0..MaxSends]
  /\ \A s \in Sender : pc[s] # "idle" => sends[s] \in 1..MaxSends
  /\ copies \in [Message -> {0, 1}]
  /\ wire \subseteq Message
Fresh == \A c \in Message : Unsent(c) \/ c \in wire => copies[c] = 0
Unwritten == \A c \in Message : Unsent(c) => c \notin wire
Once == Counted /\ Fresh /\ Unwritten

(* At the start nothing was sent.                                          *)
LEMMA OnceInit == Init => Once
  BY SendsAssumption DEF Init, Once, Counted, Fresh, Unwritten, Unsent, Label, Message

(* A step that neither writes to a socket nor lets the broker read, and    *)
(* that brings no call back to a label before its publish, keeps it.       *)
LEMMA QuietStep ==
  ASSUME Once, NEW s \in Sender, UNCHANGED <<sends, copies>>, wire' \subseteq wire,
         NEW l \in Label, Goto(s, l), pc[s] # "idle",
         l \in {"query", "create", "connect", "publish"}
           => pc[s] \in {"query", "create", "connect", "publish"}
  PROVE  Once'
<1>1. Counted'
  <2>1. \A u \in Sender : pc'[u] # "idle" => pc[u] # "idle"
    BY DEF Once, Counted, Goto
  <2> QED BY <2>1 DEF Once, Counted, Goto
<1>2. \A c \in Message : Unsent(c)' => Unsent(c)
  <2> SUFFICES ASSUME NEW c \in Message, Unsent(c)' PROVE Unsent(c)
    OBVIOUS
  <2>1. c[1] \in Sender
    BY DEF Message
  <2>2. pc'[c[1]] = IF c[1] = s THEN l ELSE pc[c[1]]
    BY <2>1 DEF Goto, Once, Counted
  <2> QED BY <2>1, <2>2 DEF Unsent
<1> QED BY <1>1, <1>2 DEF Once, Fresh, Unwritten

(* The same for the steps of the broker and the network.                   *)
LEMMA IdleStep ==
  ASSUME Once, UNCHANGED <<pc, sends, copies>>, wire' \subseteq wire
  PROVE  Once'
  BY DEF Once, Counted, Fresh, Unwritten, Unsent

(* The next call takes a number that no message has.                       *)
LEMMA CallStep ==
  ASSUME Once, NEW s \in Sender, Call(s)
  PROVE  Once'
<1>1. UNCHANGED <<copies, wire>>
  BY DEF Call, network
<1>2. sends' = [sends EXCEPT ![s] = @ + 1] /\ pc' = [pc EXCEPT ![s] = "query"]
  BY DEF Call, Goto
<1>3. Counted'
  <2>1. sends[s] \in 0..MaxSends /\ sends[s] < MaxSends
    BY DEF Once, Counted, Call
  <2>2. sends[s] + 1 \in 1..MaxSends
    BY <2>1, SendsAssumption
  <2>3. sends' \in [Sender -> 0..MaxSends]
    BY <1>2, <2>1, <2>2, SendsAssumption DEF Once, Counted
  <2>4. \A u \in Sender : pc'[u] # "idle" => sends'[u] \in 1..MaxSends
    BY <1>2, <2>2 DEF Once, Counted
  <2> QED BY <1>1, <1>2, <2>3, <2>4 DEF Once, Counted, Label
<1>4. \A c \in Message : Unsent(c)' => Unsent(c)
  <2> SUFFICES ASSUME NEW c \in Message, Unsent(c)' PROVE Unsent(c)
    OBVIOUS
  <2>1. c[1] \in Sender /\ c[2] \in Nat
    BY SendsAssumption DEF Message
  <2>2. CASE c[1] = s
    <3>1. sends'[s] = sends[s] + 1 /\ sends[s] \in Nat
      BY <1>2, SendsAssumption DEF Once, Counted
    <3> QED BY <2>1, <2>2, <3>1 DEF Unsent
  <2>3. CASE c[1] # s
    <3>1. sends'[c[1]] = sends[c[1]] /\ pc'[c[1]] = pc[c[1]]
      BY <1>2, <2>1, <2>3 DEF Once, Counted
    <3> QED BY <3>1 DEF Unsent
  <2> QED BY <2>2, <2>3
<1> QED BY <1>1, <1>3, <1>4 DEF Once, Fresh, Unwritten

(* The publish is the one step that writes, and the message is unsent.     *)
LEMMA PublishStep ==
  ASSUME Once, NEW s \in Sender, Publish(s)
  PROVE  Once'
<1>0. Current(s) \in Message
  BY DEF Once, Counted, Publish, At, Current, Message
<1>1. UNCHANGED <<copies, sends>> /\ pc' = [pc EXCEPT ![s] = "wait"]
  BY DEF Publish, Goto
<1>2. wire' \subseteq wire \cup {Current(s)}
  BY DEF Publish
<1>3. Counted'
  <2>1. \A u \in Sender : pc'[u] # "idle" => pc[u] # "idle"
    BY <1>1 DEF Once, Counted, Publish, At
  <2> QED BY <1>0, <1>1, <1>2, <2>1 DEF Once, Counted, Label
<1>4. Unsent(Current(s))
  BY DEF Publish, At, Unsent, Current
<1>5. ASSUME NEW c \in Message, Unsent(c)' PROVE Unsent(c) /\ c # Current(s)
  <2>1. c[1] \in Sender
    BY DEF Message
  <2>2. pc'[c[1]] = IF c[1] = s THEN "wait" ELSE pc[c[1]]
    BY <1>1, <2>1 DEF Once, Counted
  <2>3. CASE c[1] = s
    <3>1. c[2] > sends[s]
      BY <1>1, <1>5, <2>2, <2>3 DEF Unsent
    <3>2. sends[s] \in Nat
      BY SendsAssumption DEF Once, Counted
    <3> QED BY <2>3, <3>1, <3>2 DEF Unsent, Current
  <2>4. CASE c[1] # s
    BY <1>1, <1>5, <2>2, <2>4 DEF Unsent, Current
  <2> QED BY <2>3, <2>4
<1> QED BY <1>1, <1>2, <1>3, <1>4, <1>5 DEF Once, Fresh, Unwritten

(* The broker reads a message: it leaves the wire for good.                *)
LEMMA ReceiveStep ==
  ASSUME Once, NEW c \in Message, Receive(c)
  PROVE  Once'
<1>1. /\ c \in wire /\ wire' = wire \ {c}
      /\ copies' = [copies EXCEPT ![c] = @ + 1]
      /\ UNCHANGED <<pc, sends>>
  BY DEF Receive
<1>2. copies[c] = 0 /\ ~Unsent(c)
  BY <1>1 DEF Once, Fresh, Unwritten
<1>3. \A d \in Message : copies'[d] = IF d = c THEN 1 ELSE copies[d]
  BY <1>1, <1>2 DEF Once, Counted
<1>4. copies' \in [Message -> {0, 1}]
  BY <1>1, <1>2 DEF Once, Counted
<1>5. \A d \in Message : Unsent(d)' = Unsent(d)
  BY <1>1 DEF Unsent
<1> QED BY <1>1, <1>2, <1>3, <1>4, <1>5 DEF Once, Counted, Fresh, Unwritten

(* The actions of a call other than its publish, and those of the network  *)
(* other than the reading.                                                 *)
LEMMA SendStep ==
  ASSUME Once, NEW s \in Sender, Send(s)
  PROVE  Once'
<1>1. CASE NoEdge(s)
  BY <1>1, QuietStep DEF NoEdge, At, Return, Label, network
<1>2. CASE Query(s)
  BY <1>2, QuietStep DEF Query, At, Label, network
<1>3. CASE Create(s)
  <2>1. UNCHANGED <<sends, copies, wire>> /\ pc[s] = "create"
    BY <1>3 DEF Create, At, network
  <2>2. Goto(s, "connect") \/ Goto(s, "idle")
    BY <1>3 DEF Create, NotCreated, Return
  <2> QED BY <2>1, <2>2, QuietStep DEF Label
<1>4. CASE Connect(s)
  BY <1>4, QuietStep DEF Connect, At, Label, Severed
<1>5. CASE ConnectFails(s)
  BY <1>5, QuietStep DEF ConnectFails, At, Return, Label, Severed
<1>6. CASE Publish(s)
  BY <1>6, PublishStep
<1>7. CASE PublishFails(s)
  BY <1>7, QuietStep DEF PublishFails, At, Refused, Return, Label
<1>8. CASE WaitDone(s)
  BY <1>8, QuietStep DEF WaitDone, At, Label, network
<1>9. CASE WaitTimesOut(s)
  BY <1>9, QuietStep DEF WaitTimesOut, AfterWait, At, Label, network
<1>10. CASE Disconnect(s)
  BY <1>10, QuietStep DEF Disconnect, At, Return, Label
<1> QED BY <1>1, <1>2, <1>3, <1>4, <1>5, <1>6, <1>7, <1>8, <1>9, <1>10 DEF Send

(* The process dies: its calls are over, and nothing is sent again.        *)
LEMMA DieStep ==
  ASSUME Once, NEW s \in Sender, Die(s)
  PROVE  Once'
<1>1. UNCHANGED <<sends, copies, wire>> /\ pc' = [u \in Sender |-> "idle"]
  BY DEF Die
<1>2. Counted'
  BY <1>1 DEF Once, Counted, Label
<1>3. \A c \in Message : Unsent(c)' => Unsent(c)
  BY <1>1 DEF Unsent, Message
<1> QED BY <1>1, <1>2, <1>3 DEF Once, Fresh, Unwritten

(* So does every step.                                                     *)
LEMMA OnceNext == Once /\ [Next]_vars => Once'
<1> SUFFICES ASSUME Once, [Next]_vars PROVE Once'
  OBVIOUS
<1>1. CASE \E s \in Sender : Call(s)
  BY <1>1, CallStep
<1>2. CASE \E s \in Sender : Send(s)
  BY <1>2, SendStep
<1>3. CASE \E s \in Sender : Die(s)
  BY <1>3, DieStep
<1>4. CASE \E c \in Message : Receive(c)
  BY <1>4, ReceiveStep
<1>5. CASE \E c \in Message : Acknowledge(c) \/ Cut(c)
  BY <1>5, IdleStep DEF Acknowledge, Cut, Severed
<1>6. CASE UNCHANGED vars
  BY <1>6, IdleStep DEF vars
<1> QED BY <1>1, <1>2, <1>3, <1>4, <1>5, <1>6 DEF Next, Network

(* Each message is published by one call, a call publishes once, and the   *)
(* broker reads what was written once: no timeout makes mqtt_send repeat.  *)
THEOREM AtMostOnceAlways == Spec => []AtMostOnce
<1>1. Once => AtMostOnce
  BY DEF Once, Counted, AtMostOnce
<1> QED BY <1>1, OnceInit, OnceNext, PTL DEF Spec

-----------------------------------------------------------------------------
(* Lost only if cut off.                                                   *)

(* A call that is about to publish has its connection, or was cut off; the *)
(* message of one that has published is on its way or has arrived, or its  *)
(* connection was cut.                                                     *)
There(c) == c \in wire \/ copies[c] = 1
Open == \A s \in Sender : pc[s] = "publish" =>
          link[Current(s)] = "up" \/ Current(s) \in cutoff
Written == \A s \in Sender : pc[s] \in {"wait", "disconnect"} =>
             There(Current(s)) \/ Current(s) \in cutoff
Delivery == Open /\ Written /\ LostOnlyIfCut

(* What the broker has received it keeps, and received once.               *)
LEMMA CopiesStay ==
  ASSUME TypeOK, Once, [Next]_vars
  PROVE  \A c \in Message : copies[c] = 1 => copies'[c] = 1
<1>1. CASE UNCHANGED copies
  BY <1>1
<1>2. ASSUME NEW c \in Message, Receive(c)
      PROVE  \A d \in Message : copies[d] = 1 => copies'[d] = 1
  <2>1. c \in wire /\ copies' = [copies EXCEPT ![c] = @ + 1]
    BY <1>2 DEF Receive
  <2>2. copies[c] = 0
    BY <2>1 DEF Once, Fresh
  <2> QED BY <2>1, <2>2 DEF TypeOK
<1>3. UNCHANGED copies \/ \E c \in Message : Receive(c)
  BY DEF Next, Network, Call, Send, Die, NoEdge, Query, Create, Connect, ConnectFails,
         Publish, PublishFails, WaitDone, WaitTimesOut, Disconnect, Acknowledge, Cut,
         network, vars
<1> QED BY <1>1, <1>2, <1>3

(* A call that was cut off stays so.                                       *)
LEMMA CutoffStays ==
  ASSUME TypeOK, [Next]_vars
  PROVE  cutoff \subseteq cutoff'
  BY DEF Next, Network, Call, Send, Die, NoEdge, Query, Create, Connect, ConnectFails,
         Publish, PublishFails, WaitDone, WaitTimesOut, Disconnect, Receive, Acknowledge,
         Cut, Severed, network, vars

(* A message that is on its way stays there, arrives, or is cut off.       *)
LEMMA ThereStays ==
  ASSUME TypeOK, Once, [Next]_vars, NEW c \in Message, There(c) \/ c \in cutoff
  PROVE  There(c)' \/ c \in cutoff'
<1>1. CASE c \in cutoff
  BY <1>1, CutoffStays
<1>2. CASE copies[c] = 1
  BY <1>2, CopiesStay DEF There
<1>3. CASE c \in wire
  <2>1. ASSUME NEW s \in Sender, Connect(s) \/ ConnectFails(s)
        PROVE  c \in wire' \/ c \in cutoff'
    BY <1>3, <2>1 DEF Connect, ConnectFails, Severed
  <2>2. ASSUME NEW d \in Message, Receive(d)
        PROVE  c \in wire' \/ copies'[c] = 1
    <3>1. d \in wire /\ wire' = wire \ {d} /\ copies' = [copies EXCEPT ![d] = @ + 1]
      BY <2>2 DEF Receive
    <3>2. copies[d] = 0
      BY <3>1 DEF Once, Fresh
    <3> QED BY <1>3, <3>1, <3>2 DEF TypeOK
  <2>3. ASSUME NEW d \in Message, Cut(d)
        PROVE  c \in wire' \/ c \in cutoff'
    BY <1>3, <2>3 DEF Cut, Severed
  <2>4. CASE wire \subseteq wire'
    BY <1>3, <2>4 DEF There
  <2>5. \/ wire \subseteq wire'
        \/ \E s \in Sender : Connect(s) \/ ConnectFails(s)
        \/ \E d \in Message : Receive(d) \/ Cut(d)
    BY DEF Next, Network, Call, Send, Die, NoEdge, Query, Create, Publish, PublishFails,
           WaitDone, WaitTimesOut, Disconnect, Acknowledge, network, vars
  <2> QED BY <2>1, <2>2, <2>3, <2>4, <2>5 DEF There
<1> QED BY <1>1, <1>2, <1>3 DEF There

(* How a call gets to its publish and the labels after it, or stays there. *)
LEMMA LateLabels ==
  ASSUME TypeOK, [Next]_vars, NEW s \in Sender, pc'[s] \in {"publish", "wait", "disconnect"}
  PROVE  /\ Current(s)' = Current(s)
         /\ \/ Connect(s) /\ pc'[s] = "publish"
            \/ Publish(s) /\ pc'[s] = "wait"
            \/ (WaitDone(s) \/ WaitTimesOut(s)) /\ pc[s] = "wait" /\ pc'[s] = "disconnect"
            \/ pc'[s] = pc[s]
<1>1. ASSUME NEW u \in Sender, Call(u) PROVE pc'[s] = pc[s] /\ Current(s)' = Current(s)
  BY <1>1 DEF Call, Goto, Current, TypeOK
<1>2. ASSUME NEW u \in Sender, Send(u)
      PROVE  /\ Current(s)' = Current(s)
             /\ \/ Connect(s) /\ pc'[s] = "publish"
                \/ Publish(s) /\ pc'[s] = "wait"
                \/ (WaitDone(s) \/ WaitTimesOut(s)) /\ pc[s] = "wait" /\ pc'[s] = "disconnect"
                \/ pc'[s] = pc[s]
  <2>1. UNCHANGED sends
    BY <1>2 DEF Send, NoEdge, Query, Create, Connect, ConnectFails, Publish, PublishFails,
                WaitDone, WaitTimesOut, Disconnect
  <2>2. CASE u = s
    <3>1. ASSUME NEW l, Goto(s, l) PROVE pc'[s] = l
      BY <3>1 DEF Goto, TypeOK
    <3>2. ~NoEdge(s) /\ ~Query(s) /\ ~Create(s)
      BY <3>1 DEF NoEdge, Query, Create, NotCreated, Return
    <3>3. ~ConnectFails(s) /\ ~PublishFails(s) /\ ~Disconnect(s)
      BY <3>1 DEF ConnectFails, PublishFails, Refused, Disconnect, Return
    <3>4. /\ Connect(s) => pc'[s] = "publish"
          /\ Publish(s) => pc'[s] = "wait"
          /\ WaitDone(s) \/ WaitTimesOut(s) => pc[s] = "wait" /\ pc'[s] = "disconnect"
      BY <3>1 DEF Connect, Publish, WaitDone, WaitTimesOut, AfterWait, At
    <3> QED BY <1>2, <2>1, <2>2, <3>2, <3>3, <3>4 DEF Send, Current
  <2>3. CASE u # s
    <3>1. \E l : Goto(u, l)
      BY <1>2 DEF Send, NoEdge, Query, Create, NotCreated, Connect, ConnectFails, Publish,
                  PublishFails, Refused, WaitDone, WaitTimesOut, AfterWait, Disconnect,
                  Return
    <3> QED BY <2>1, <2>3, <3>1 DEF Goto, Current, TypeOK
  <2> QED BY <2>2, <2>3
<1>3. ASSUME NEW u \in Sender, Die(u) PROVE FALSE
  BY <1>3 DEF Die
<1>4. CASE Network \/ UNCHANGED vars
  <2>1. UNCHANGED <<pc, sends>>
    BY <1>4 DEF Network, Receive, Acknowledge, Cut, vars
  <2> QED BY <2>1 DEF Current
<1> QED BY <1>1, <1>2, <1>3, <1>4 DEF Next

(* The connection of a call that is about to publish stays, or is cut off. *)
LEMMA LinkStays ==
  ASSUME TypeOK, [Next]_vars, NEW s \in Sender, pc[s] = "publish", pc'[s] = "publish",
         link[Current(s)] = "up"
  PROVE  link'[Current(s)] = "up" \/ Current(s) \in cutoff'
<1> DEFINE c == Current(s)
<1>0. c \in Message /\ \A u \in Sender : u # s => Current(u) # c
  BY CurrentMessage DEF Current
<1>1. ASSUME NEW u \in Sender, Connect(u) \/ ConnectFails(u)
      PROVE  link'[c] = "up" \/ c \in cutoff'
  BY <1>0, <1>1 DEF Connect, ConnectFails, Severed, Live
<1>2. ASSUME NEW u \in Sender, PublishFails(u) \/ Disconnect(u)
      PROVE  link'[c] = "up"
  <2>1. u # s
    BY <1>2 DEF PublishFails, Refused, Disconnect, Return, Goto, At, TypeOK
  <2> QED BY <1>0, <1>2, <2>1 DEF PublishFails, Disconnect, TypeOK
<1>3. ASSUME NEW d \in Message, Cut(d) PROVE link'[c] = "up" \/ c \in cutoff'
  BY <1>0, <1>3 DEF Cut, Severed, TypeOK
<1>4. ASSUME NEW u \in Sender, Die(u) PROVE FALSE
  BY <1>4 DEF Die
<1>5. \/ UNCHANGED link
      \/ \E u \in Sender : Connect(u) \/ ConnectFails(u) \/ PublishFails(u) \/ Disconnect(u)
                             \/ Die(u)
      \/ \E d \in Message : Cut(d)
  BY DEF Next, Network, Call, Send, NoEdge, Query, Create, Publish, WaitDone, WaitTimesOut,
         Receive, Acknowledge, network, vars
<1> QED BY <1>1, <1>2, <1>3, <1>4, <1>5

(* A call publishes on its connection, unless that was cut.                *)
LEMMA WrittenNext ==
  ASSUME TypeOK, Once, Open, Written, [Next]_vars
  PROVE  Open' /\ Written'
<1>1. ASSUME NEW s \in Sender, pc'[s] = "publish"
      PROVE  link'[Current(s)'] = "up" \/ Current(s)' \in cutoff'
  <2>1. Current(s)' = Current(s) /\ (Connect(s) \/ pc[s] = "publish")
    BY <1>1, LateLabels
  <2>2. CASE Connect(s)
    <3>1. Current(s) \in Message
      BY <2>2, CurrentMessage DEF Connect, At
    <3> QED BY <2>1, <2>2, <3>1 DEF Connect
  <2>3. CASE pc[s] = "publish"
    BY <1>1, <2>1, <2>3, LinkStays, CutoffStays DEF Open
  <2> QED BY <2>1, <2>2, <2>3
<1>2. ASSUME NEW s \in Sender, pc'[s] \in {"wait", "disconnect"}
      PROVE  There(Current(s))' \/ Current(s)' \in cutoff'
  <2>1. /\ Current(s)' = Current(s)
        /\ Publish(s) \/ pc[s] \in {"wait", "disconnect"}
    BY <1>2, LateLabels
  <2>2. pc[s] # "idle"
    BY <2>1 DEF Publish, At
  <2>3. Current(s) \in Message
    BY <2>2, CurrentMessage
  <2>4. CASE Publish(s)
    BY <2>1, <2>4 DEF Publish, At, Open, There
  <2>5. CASE pc[s] \in {"wait", "disconnect"}
    <3>1. There(Current(s)) \/ Current(s) \in cutoff
      BY <2>5 DEF Written
    <3>2. \A c \in Message : c = Current(s) => c \in wire' \/ copies'[c] = 1 \/ c \in cutoff'
      BY <3>1, ThereStays DEF There
    <3> QED BY <2>1, <2>3, <3>2 DEF There
  <2> QED BY <2>1, <2>4, <2>5
<1> QED BY <1>1, <1>2 DEF Open, Written

(* A call succeeds where it disconnects.                                   *)
LEMMA LostNext ==
  ASSUME TypeOK, Once, Delivery, [Next]_vars
  PROVE  LostOnlyIfCut'
<1> SUFFICES ASSUME NEW c \in Message, result'[c] = "ok"
             PROVE  There(c)' \/ c \in cutoff'
  BY DEF LostOnlyIfCut, There
<1>1. CASE result[c] = "ok"
  BY <1>1, ThereStays DEF Delivery, LostOnlyIfCut, There
<1>2. CASE result[c] # "ok"
  <2>1. \E s \in Sender : Disconnect(s)
    BY <1>2 DEF Next, Network, Call, Send, Die, NoEdge, Query, Create, NotCreated, Connect,
         ConnectFails, Publish, PublishFails, Refused, WaitDone, WaitTimesOut, AfterWait,
         Receive, Acknowledge, Cut, Return, vars, TypeOK
  <2>2. PICK s \in Sender : Disconnect(s)
    BY <2>1
  <2>3. pc[s] = "disconnect" /\ c = Current(s)
    BY <1>2, <2>2 DEF Disconnect, At, Return, TypeOK
  <2> QED BY <2>3, ThereStays DEF Delivery, Written
<1> QED BY <1>1, <1>2

(* mqtt_send returned success: the broker has the message or will read it, *)
(* whatever timed out and whatever the other threads sent, unless this     *)
(* very connection was cut by the network or taken over.                   *)
THEOREM LostOnlyIfCutAlways == Spec => []LostOnlyIfCut
<1>1. Init => Delivery
  BY DEF Init, Delivery, Open, Written, LostOnlyIfCut
<1>2. TypeOK /\ Once /\ Delivery /\ [Next]_vars => Delivery'
  BY WrittenNext, LostNext DEF Delivery
<1>3. Delivery => LostOnlyIfCut
  BY DEF Delivery
<1> QED BY <1>1, <1>2, <1>3, TypeInit, TypeNext, OnceInit, OnceNext, PTL DEF Spec

-----------------------------------------------------------------------------
(* One connection.                                                         *)

(* What a call says it says after its publish; and who is connected.       *)
Unsaid == \A c \in Message : Unsent(c) => c \notin said
Single == \A c, d \in Live : c = d
Owned == \A c \in Live : \/ c = Current(c[1]) /\ pc[c[1]] # "idle"
                         \/ result[c] = "failed" /\ c \notin said
Session == Unsaid /\ Single /\ Owned

(* No step takes a call back to before its publish.                        *)
LEMMA UnsentStays ==
  ASSUME TypeOK, [Next]_vars, NEW c \in Message, Unsent(c)'
  PROVE  Unsent(c)
<1> DEFINE early == {"query", "create", "connect", "publish"}
<1>0. c[1] \in Sender /\ c[2] \in Nat /\ sends[c[1]] \in Nat
  BY SendsAssumption DEF Message, TypeOK
<1>1. ASSUME NEW s \in Sender, Call(s) PROVE Unsent(c)
  <2>1. /\ sends' = [sends EXCEPT ![s] = @ + 1]
        /\ pc' = [pc EXCEPT ![s] = "query"]
    BY <1>1 DEF Call, Goto
  <2>2. CASE c[1] = s
    <3>1. sends'[s] = sends[s] + 1
      BY <2>1 DEF TypeOK
    <3> QED BY <1>0, <2>2, <3>1 DEF Unsent
  <2>3. CASE c[1] # s
    <3>1. sends'[c[1]] = sends[c[1]] /\ pc'[c[1]] = pc[c[1]]
      BY <1>0, <2>1, <2>3 DEF TypeOK
    <3> QED BY <3>1 DEF Unsent
  <2> QED BY <2>2, <2>3
<1>2. ASSUME NEW s \in Sender, Send(s) PROVE Unsent(c)
  <2>1. PICK l \in Label : Goto(s, l) /\ (l \in early => pc[s] \in early)
    BY <1>2 DEF Send, NoEdge, Query, Create, NotCreated, Connect, ConnectFails, Publish,
                PublishFails, Refused, WaitDone, WaitTimesOut, AfterWait, Disconnect,
                Return, At, Label
  <2>2. UNCHANGED sends
    BY <1>2 DEF Send, NoEdge, Query, Create, Connect, ConnectFails, Publish, PublishFails,
                WaitDone, WaitTimesOut, Disconnect
  <2>3. pc'[c[1]] = IF c[1] = s THEN l ELSE pc[c[1]]
    BY <1>0, <2>1 DEF Goto, TypeOK
  <2> QED BY <2>1, <2>2, <2>3 DEF Unsent
<1>3. ASSUME NEW s \in Sender, Die(s) PROVE Unsent(c)
  BY <1>0, <1>3 DEF Die, Unsent
<1>4. CASE Network \/ UNCHANGED vars
  <2>1. UNCHANGED <<pc, sends>>
    BY <1>4 DEF Network, Receive, Acknowledge, Cut, vars
  <2> QED BY <2>1 DEF Unsent
<1> QED BY <1>1, <1>2, <1>3, <1>4 DEF Next

(* "delivered" is printed after the wait.                                  *)
LEMMA UnsaidNext ==
  ASSUME TypeOK, Unsaid, [Next]_vars
  PROVE  Unsaid'
<1> SUFFICES ASSUME NEW c \in Message, Unsent(c)' PROVE c \notin said'
  BY DEF Unsaid
<1>1. c \notin said
  BY UnsentStays DEF Unsaid
<1>2. ASSUME NEW s \in Sender, WaitDone(s) \/ WaitTimesOut(s) PROVE c \notin said'
  <2>1. said' = said \cup {Current(s)} /\ UNCHANGED sends /\ pc' = [pc EXCEPT ![s] = "disconnect"]
    BY <1>2 DEF WaitDone, WaitTimesOut, AfterWait, Goto
  <2>2. sends[s] \in Nat
    BY SendsAssumption DEF TypeOK
  <2>3. ASSUME c = Current(s) PROVE FALSE
    <3>1. c[1] = s /\ c[2] = sends[s]
      BY <2>3 DEF Current
    <3> QED BY <2>1, <2>2, <3>1 DEF Unsent, TypeOK
  <2> QED BY <1>1, <2>1, <2>3
<1>3. UNCHANGED said \/ \E s \in Sender : WaitDone(s) \/ WaitTimesOut(s)
  BY DEF Next, Network, Call, Send, Die, NoEdge, Query, Create, Connect, ConnectFails,
         Publish, PublishFails, Disconnect, Receive, Acknowledge, Cut, vars
<1> QED BY <1>1, <1>2, <1>3

(* A connection comes of a connect, and then it is the only one.           *)
LEMMA LiveAfter ==
  ASSUME TypeOK, [Next]_vars
  PROVE  \/ Live' \subseteq Live
         \/ \E s \in Sender : Connect(s) /\ Live' = {Current(s)}
<1>1. ASSUME NEW s \in Sender, Connect(s) PROVE Live' = {Current(s)}
  <2>1. pc[s] # "idle"
    BY <1>1 DEF Connect, At
  <2>2. Current(s) \in Message
    BY <2>1, CurrentMessage
  <2> QED BY <1>1, <2>2 DEF Connect, Live
<1>2. ASSUME NEW s \in Sender,
             ConnectFails(s) \/ PublishFails(s) \/ Disconnect(s) \/ Die(s)
      PROVE  Live' \subseteq Live
  BY <1>2 DEF ConnectFails, PublishFails, Disconnect, Die, Live, TypeOK
<1>3. ASSUME NEW c \in Message, Cut(c) PROVE Live' \subseteq Live
  BY <1>3 DEF Cut, Live, TypeOK
<1>4. CASE UNCHANGED link
  BY <1>4 DEF Live
<1>5. \/ UNCHANGED link
      \/ \E s \in Sender : Connect(s) \/ ConnectFails(s) \/ PublishFails(s) \/ Disconnect(s)
                             \/ Die(s)
      \/ \E c \in Message : Cut(c)
  BY DEF Next, Network, Call, Send, NoEdge, Query, Create, Publish, WaitDone, WaitTimesOut,
         Receive, Acknowledge, network, vars
<1> QED BY <1>1, <1>2, <1>3, <1>4, <1>5

(* Only a call that is over because its publish, or what comes before it,  *)
(* failed leaves its connection behind.                                    *)
LEMMA OwnedNext ==
  ASSUME TypeOK, Session, [Next]_vars
  PROVE  Owned'
<1> SUFFICES ASSUME NEW c \in Live'
             PROVE  \/ c = Current(c[1])' /\ pc'[c[1]] # "idle"
                    \/ result'[c] = "failed" /\ c \notin said'
  BY DEF Owned, Current
<1>0. c \in Message /\ c[1] \in Sender /\ link'[c] = "up"
  BY DEF Live, Message
<1>1. ASSUME NEW s \in Sender, Connect(s)
      PROVE  c = Current(c[1])' /\ pc'[c[1]] # "idle"
  <2>1. Current(s) \in Message
    BY <1>1, CurrentMessage DEF Connect, At
  <2>2. UNCHANGED sends /\ pc' = [pc EXCEPT ![s] = "publish"]
    BY <1>1 DEF Connect, Goto
  <2>3. link' = [d \in Message |-> IF d = Current(s) THEN "up"
                                   ELSE IF d \in Live THEN "cut" ELSE link[d]]
    BY <1>1 DEF Connect
  <2>4. c = Current(s)
    BY <1>0, <2>3 DEF Live
  <2> QED BY <2>2, <2>4 DEF Current, TypeOK
<1>2. CASE Live' \subseteq Live
  <2>1. \/ c = Current(c[1]) /\ pc[c[1]] # "idle"
        \/ result[c] = "failed" /\ c \notin said
    BY <1>2 DEF Session, Owned
  <2>2. ASSUME NEW s \in Sender, Call(s)
        PROVE  \/ c = Current(c[1])' /\ pc'[c[1]] # "idle"
               \/ result'[c] = "failed" /\ c \notin said'
    <3>1. /\ pc[s] = "idle" /\ UNCHANGED <<result, said>>
          /\ sends' = [sends EXCEPT ![s] = @ + 1] /\ pc' = [pc EXCEPT ![s] = "query"]
      BY <2>2 DEF Call, At, Goto
    <3> QED BY <1>0, <2>1, <3>1 DEF Current, TypeOK
  <2>3. ASSUME NEW s \in Sender, Send(s)
        PROVE  \/ c = Current(c[1])' /\ pc'[c[1]] # "idle"
               \/ result'[c] = "failed" /\ c \notin said'
    <3>1. UNCHANGED sends /\ (\A d \in Message : d # Current(s) => result'[d] = result[d])
      BY <2>3 DEF Send, NoEdge, Query, Create, NotCreated, Connect, ConnectFails, Publish,
                  PublishFails, Refused, WaitDone, WaitTimesOut, AfterWait, Disconnect,
                  Return, TypeOK
    <3>2. said' \subseteq said \cup {Current(s)}
      BY <2>3 DEF Send, NoEdge, Query, Create, Connect, ConnectFails, Publish,
                  PublishFails, WaitDone, WaitTimesOut, Disconnect
    <3>3. \A u \in Sender : u # s => pc'[u] = pc[u]
      BY <2>3 DEF Send, NoEdge, Query, Create, NotCreated, Connect, ConnectFails, Publish,
                  PublishFails, Refused, WaitDone, WaitTimesOut, AfterWait, Disconnect,
                  Return, Goto, TypeOK
    <3>4. CASE c # Current(s)
      <4>1. CASE c[1] = s
        BY <1>0, <2>1, <3>1, <3>2, <3>4, <4>1
      <4>2. CASE c[1] # s
        BY <1>0, <2>1, <3>1, <3>2, <3>3, <3>4, <4>2 DEF Current
      <4> QED BY <4>1, <4>2
    <3>5. CASE c = Current(s)
      <4>1. c[1] = s /\ c = Current(c[1])'
        BY <3>1, <3>5 DEF Current
      <4>2. CASE pc'[s] # "idle"
        BY <4>1, <4>2
      <4>3. CASE pc'[s] = "idle"
        <5>1. \/ (NoEdge(s) \/ Create(s) \/ ConnectFails(s) \/ PublishFails(s))
                   /\ Return(s, "failed") /\ UNCHANGED said
              \/ Disconnect(s)
          BY <2>3, <4>3 DEF Send, NoEdge, Query, Create, NotCreated, Connect, ConnectFails,
                  Publish, PublishFails, Refused, WaitDone, WaitTimesOut, AfterWait, Goto,
                  TypeOK
        <5>2. ~Disconnect(s)
          BY <1>0, <3>5 DEF Disconnect, TypeOK
        <5>3. pc[s] \in {"query", "create", "connect", "publish"}
          BY <5>1, <5>2 DEF NoEdge, Create, ConnectFails, PublishFails, At
        <5>4. c \notin said
          BY <1>0, <3>5, <4>1, <5>3 DEF Session, Unsaid, Unsent, Current
        <5>5. result'[c] = "failed"
          BY <1>0, <3>5, <5>1, <5>2 DEF Return, TypeOK
        <5> QED BY <5>1, <5>2, <5>4, <5>5
      <4> QED BY <4>2, <4>3
    <3> QED BY <3>4, <3>5
  <2>4. ASSUME NEW s \in Sender, Die(s) PROVE FALSE
    BY <1>0, <2>4 DEF Die
  <2>5. CASE Network \/ UNCHANGED vars
    <3>1. UNCHANGED <<pc, sends, result, said>>
      BY <2>5 DEF Network, Receive, Acknowledge, Cut, vars
    <3> QED BY <2>1, <3>1 DEF Current
  <2> QED BY <2>2, <2>3, <2>4, <2>5 DEF Next
<1> QED BY <1>1, <1>2, LiveAfter

(* However the two threads' calls overlap and fail, the gateway has one    *)
(* connection at the broker at most: that of a call under way, or one that *)
(* a refused publish has left behind.                                      *)
THEOREM OneSessionAlways == Spec => []OneSession
<1>1. Init => Session
  BY DEF Init, Session, Unsaid, Single, Owned, Live
<1>2. TypeOK /\ Session /\ [Next]_vars => Session'
  <2> SUFFICES ASSUME TypeOK, Session, [Next]_vars PROVE Session'
    OBVIOUS
  <2>1. Single'
    BY LiveAfter DEF Session, Single
  <2> QED BY <2>1, UnsaidNext, OwnedNext DEF Session
<1>3. Session => OneSession
  <2> SUFFICES ASSUME Session PROVE Cardinality(Live) <= 1
    BY DEF Session, Owned, OneSession
  <2>1. CASE Live = {}
    BY <2>1, FS_EmptySet
  <2>2. ASSUME NEW c \in Live PROVE Cardinality(Live) <= 1
    <3>1. Live = {c}
      BY <2>2 DEF Session, Single
    <3>2. Cardinality(Live) = 1
      BY <3>1, FS_Singleton
    <3> QED BY <3>2
  <2> QED BY <2>1, <2>2
<1> QED BY <1>1, <1>2, <1>3, TypeInit, TypeNext, PTL DEF Spec
=============================================================================
