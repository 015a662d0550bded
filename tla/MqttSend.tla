------------------------------ MODULE MqttSend ------------------------------
(***************************************************************************)
(* mqtt_pub::mqtt_send (mqtt_pub.cpp), as the connect thread (the login    *)
(* message) and the process thread (the readings) of modbus_handler call   *)
(* it on the one mqtt_pub they share.                                      *)
(*                                                                         *)
(* Every call opens a client of its own, and all of them under one fixed   *)
(* CLIENTID: a broker that accepts a connection closes the one it had      *)
(* under the same id, so the calls of the two threads cut each other off.  *)
(* The network may lose a connection at any time, the broker may be slow.  *)
(*                                                                         *)
(* A call c is a pair of a thread and a number, and so is its message.     *)
(***************************************************************************)
EXTENDS Naturals, FiniteSets

CONSTANTS
  Sender,     \* the threads that publish
  MaxSends    \* bound: messages a thread sends

ASSUME SendsAssumption == MaxSends \in Nat

VARIABLES
  edgedev,    \* the table edgedev has a row
  pc,         \* [Sender -> label]
  sends,      \* [Sender -> number of its last call]
  link,       \* [Message -> connection of the call's client]
  handles,    \* the calls whose MQTTClient is created and not destroyed
  wire,       \* messages written to a socket and not yet read by the broker
  acks,       \* acknowledgements under way to their client
  acked,      \* calls whose open client has seen the acknowledgement
  copies,     \* [Message -> times the broker received it]
  said,       \* calls that printed "delivered"
  result,     \* [Message -> what the call returned]
  cutoff,     \* ghost: calls whose connection was cut by the network or a takeover
  crashed

vars == <<edgedev, pc, sends, link, handles, wire, acks, acked, copies,
          said, result, cutoff, crashed>>
network == <<link, wire, acks, acked, copies>>

Label   == {"idle", "query", "create", "connect", "publish", "wait", "disconnect"}
Message == Sender \X (1..MaxSends)
Current(s) == <<s, sends[s]>>

At(s, l) == pc[s] = l /\ ~crashed
Goto(s, l) == pc' = [pc EXCEPT ![s] = l]
Return(s, r) ==
  /\ Goto(s, "idle")
  /\ result' = [result EXCEPT ![Current(s)] = r]

Call(s) ==
  /\ At(s, "idle")
  /\ sends[s] < MaxSends
  /\ sends' = [sends EXCEPT ![s] = @ + 1]
  /\ Goto(s, "query")
  /\ UNCHANGED <<edgedev, network, handles, said, result, cutoff, crashed>>

(* The rows of edgedev: edgeid for the topic, ipaddr and mqport for the    *)
(* address.  The queries go through the db_helper of the shared mqtt_pub:  *)
(* one that overlaps the other thread's may find anything (see DbHelper).  *)
(* What is found is not told apart: it is not known to any property.       *)
Overlapping(s) == \E u \in Sender \ {s} : pc[u] = "query"

(* The first query fails, which nobody looks at, or finds nothing (54).    *)
NoEdge(s) ==
  /\ At(s, "query")
  /\ Return(s, "failed")
  /\ UNCHANGED <<edgedev, sends, network, handles, said, cutoff, crashed>>

Query(s) ==
  /\ At(s, "query")
  /\ edgedev \/ Overlapping(s)
  /\ Goto(s, "create")
  /\ UNCHANGED <<edgedev, sends, network, handles, said, result, cutoff, crashed>>

(* MQTTClient_create.  Fault: its result is not looked at.                 *)
NotCreated_Ignored(s) == Goto(s, "connect") /\ UNCHANGED result
NotCreated(s) == Return(s, "failed")

Create(s) ==
  /\ At(s, "create")
  /\ \/ /\ Goto(s, "connect")
        /\ handles' = handles \cup {Current(s)}
        /\ UNCHANGED result
     \/ NotCreated(s) /\ UNCHANGED handles
  /\ UNCHANGED <<edgedev, sends, network, said, cutoff, crashed>>

(* The connections in C are gone, with what the broker did not read.       *)
Severed(C) == wire' = wire \ C /\ cutoff' = cutoff \cup C
Live == {c \in Message : link[c] = "up"}

(* MQTTClient_connect: the broker drops the connection it had under this   *)
(* CLIENTID, also when its answer does not reach the client in time, and   *)
(* also one that its client has closed and that it has not read to its end.*)
Connect(s) ==
  /\ At(s, "connect")
  /\ link' = [c \in Message |-> IF c = Current(s) THEN "up"
                                ELSE IF c \in Live THEN "cut" ELSE link[c]]
  /\ Severed(Live \cup wire)
  /\ Goto(s, "publish")
  /\ UNCHANGED <<edgedev, sends, handles, acks, acked, copies, said,
                 result, crashed>>

(* The client is not destroyed (149).                                      *)
ConnectFails(s) ==
  /\ At(s, "connect")
  /\ \E taken \in BOOLEAN :
       /\ link' = [c \in Message |-> IF taken /\ c \in Live THEN "cut" ELSE link[c]]
       /\ Severed(IF taken THEN Live \cup wire ELSE {})
  /\ Return(s, "failed")
  /\ UNCHANGED <<edgedev, sends, handles, acks, acked, copies, said, crashed>>

(* MQTTClient_publishMessage: with QoS 1 it reports success even when the  *)
(* write finds the connection gone (MQTTClient.c:2366).                    *)
Publish(s) ==
  /\ At(s, "publish")
  /\ wire' = IF link[Current(s)] = "up" THEN wire \cup {Current(s)} ELSE wire
  /\ Goto(s, "wait")
  /\ UNCHANGED <<edgedev, sends, link, handles, acks, acked, copies, said,
                 result, cutoff, crashed>>

(* It is refused: the client has noticed that it is disconnected, or the   *)
(* topic is no UTF-8, which leaves the connection up (MQTTClient.c:2254).  *)
(* The client is not destroyed (161).                                      *)
(* Fault: the return is forgotten, as the one after the wait is.           *)
Refused_GoesOn(s) == Goto(s, "wait") /\ UNCHANGED result
Refused(s) == Return(s, "failed")

PublishFails(s) ==
  /\ At(s, "publish")
  /\ \/ UNCHANGED link
     \/ /\ link[Current(s)] = "cut"
        /\ link' = [link EXCEPT ![Current(s)] = "closed"]
  /\ Refused(s)
  /\ UNCHANGED <<edgedev, sends, handles, wire, acks, acked, copies, said,
                 cutoff, crashed>>

(* MQTTClient_waitForCompletion.  Whatever it returns, the code goes on    *)
(* and prints that the message was delivered (168).                        *)
WaitDone(s) ==
  /\ At(s, "wait")
  /\ Current(s) \in acked
  /\ said' = said \cup {Current(s)}
  /\ Goto(s, "disconnect")
  /\ UNCHANGED <<edgedev, sends, network, handles, result, cutoff, crashed>>

(* Fault: it waits as long as it takes, as mqtt_client_publish does.       *)
GivesUp_Never(s) == FALSE
GivesUp(s) == Current(s) \notin acked

(* Faults: what is done about it, if something is.                         *)
AfterWait_Retry(s)  == Goto(s, "publish") /\ UNCHANGED result
AfterWait_Return(s) == Return(s, "failed")
AfterWait(s) == Goto(s, "disconnect") /\ UNCHANGED result

WaitTimesOut(s) ==
  /\ At(s, "wait")
  /\ GivesUp(s)
  /\ said' = said \cup {Current(s)}
  /\ AfterWait(s)
  /\ UNCHANGED <<edgedev, sends, network, handles, cutoff, crashed>>

(* MQTTClient_disconnect and MQTTClient_destroy.  What is returned is the  *)
(* rc of the disconnect, and that is success for any client there is,      *)
(* connected or not (MQTTClient.c:1837-1877).                              *)
Disconnect(s) ==
  /\ At(s, "disconnect")
  /\ link' = [link EXCEPT ![Current(s)] = "closed"]
  /\ handles' = handles \ {Current(s)}
  /\ acks' = acks \ {Current(s)} /\ acked' = acked \ {Current(s)}
  /\ Return(s, "ok")
  /\ UNCHANGED <<edgedev, sends, wire, copies, said, cutoff, crashed>>

(* The broker and the network.                                             *)
Receive(c) ==
  /\ c \in wire
  /\ wire' = wire \ {c}
  /\ copies' = [copies EXCEPT ![c] = @ + 1]
  /\ acks' = IF c \in Live THEN acks \cup {c} ELSE acks
  /\ UNCHANGED <<edgedev, pc, sends, link, handles, acked, said, result,
                 cutoff, crashed>>

Acknowledge(c) ==
  /\ c \in acks
  /\ acks' = acks \ {c}
  /\ acked' = acked \cup {c}
  /\ UNCHANGED <<edgedev, pc, sends, link, handles, wire, copies, said,
                 result, cutoff, crashed>>

(* A closed connection, too, can still lose what is on its way.            *)
Cut(c) ==
  /\ link[c] = "up" \/ c \in wire
  /\ link' = [link EXCEPT ![c] = IF @ = "up" THEN "cut" ELSE @]
  /\ Severed({c})
  /\ UNCHANGED <<edgedev, pc, sends, handles, acks, acked, copies, said,
                 result, crashed>>

(* Overlapping queries, or the [0] of an empty answer (81, 83): the query  *)
(* of ipaddr or mqport has failed, or found a NULL, which it leaves out.   *)
Die(s) ==
  /\ At(s, "query")
  /\ edgedev \/ Overlapping(s)
  /\ crashed' = TRUE
  /\ pc' = [u \in Sender |-> "idle"]
  /\ handles' = {}
  /\ link' = [c \in Message |-> IF link[c] = "none" THEN "none" ELSE "closed"]
  /\ UNCHANGED <<edgedev, sends, wire, acks, acked, copies, said, result,
                 cutoff>>

Init ==
  /\ edgedev \in BOOLEAN
  /\ pc = [s \in Sender |-> "idle"] /\ sends = [s \in Sender |-> 0]
  /\ link = [c \in Message |-> "none"]
  /\ handles = {} /\ wire = {} /\ acks = {} /\ acked = {}
  /\ copies = [c \in Message |-> 0]
  /\ said = {} /\ result = [c \in Message |-> "none"] /\ cutoff = {}
  /\ crashed = FALSE

Send(s) == \/ NoEdge(s) \/ Query(s) \/ Create(s) \/ Connect(s) \/ ConnectFails(s)
           \/ Publish(s) \/ PublishFails(s) \/ WaitDone(s) \/ WaitTimesOut(s)
           \/ Disconnect(s)
Network == \E c \in Message : Receive(c) \/ Acknowledge(c) \/ Cut(c)
Next == (\E s \in Sender : Call(s) \/ Send(s) \/ Die(s)) \/ Network

(* Every call of the library returns: its waits have timeouts.             *)
Spec == Init /\ [][Next]_vars
FairSpec == Spec /\ \A s \in Sender : WF_vars(Send(s))

-----------------------------------------------------------------------------
TypeOK ==
  /\ edgedev \in BOOLEAN /\ crashed \in BOOLEAN
  /\ pc \in [Sender -> Label]
  /\ sends \in [Sender -> 0..MaxSends]
  /\ \A s \in Sender :
       /\ pc[s] # "idle" => sends[s] > 0
       /\ pc[s] \in {"connect", "publish", "wait", "disconnect"} =>
            Current(s) \in handles
  /\ link \in [Message -> {"none", "up", "cut", "closed"}]
  /\ copies \in [Message -> Nat]
  /\ result \in [Message -> {"none", "ok", "failed"}]
  /\ handles \subseteq Message
  /\ wire \subseteq Message /\ acks \subseteq Message /\ acked \subseteq Message
  /\ said \subseteq Message /\ cutoff \subseteq Message

(* A message reaches the broker at most once, although a wait may time out *)
(* while its acknowledgement is on the way: nothing is ever sent again.    *)
AtMostOnce == \A c \in Message : copies[c] <= 1

(* A message is lost by a cut connection only: when mqtt_send returned     *)
(* success (173), also after the wait has timed out and the client was     *)
(* closed, the broker has the message or will read it, unless the network  *)
(* or the other thread's connect has cut this connection off.              *)
LostOnlyIfCut ==
  \A c \in Message : result[c] = "ok" /\ c \notin cutoff => c \in wire \/ copies[c] = 1

(* The gateway has at most one connection at the broker, and none of a     *)
(* call that is over, save one whose publish was refused (161).            *)
OneSession ==
  /\ Cardinality(Live) <= 1
  /\ \A c \in Live : \/ c = Current(c[1]) /\ pc[c[1]] # "idle"
                     \/ result[c] = "failed" /\ c \notin said

(* mqtt_pub.cpp:168 prints that the message with this token was delivered. *)
DeliveredIsAcked ==
  \A s \in Sender : pc[s] = "disconnect" /\ Current(s) \in said => Current(s) \in acked

(* The connect and the process thread are never held up for ever: every    *)
(* call comes back (ModbusHandler's Login and Publish rely on it).         *)
SendReturns == \A s \in Sender : pc[s] # "idle" ~> pc[s] = "idle"
=============================================================================
