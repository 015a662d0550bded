---------------------------- MODULE ContextOwner ----------------------------
(***************************************************************************)
(* What may happen to the modbus_t contexts of the gateway, whatever the   *)
(* threads do besides: the abstract specification that ModbusHandler       *)
(* implements.  There is one opener, one user and one table of channels:   *)
(*                                                                         *)
(*   - a context comes into being in the hands of the opener, and there    *)
(*     alone it may be discarded (modbus_free);                            *)
(*   - the opener gives it to one channel, for good: what that channel had *)
(*     before is dropped, and stays allocated for the user who has it;     *)
(*   - the user borrows contexts of channels, one at a time;               *)
(*   - channels are added, empty, and never taken away;                    *)
(*   - the process may die at any time, and take everything with it.       *)
(***************************************************************************)
EXTENDS Naturals, Sequences

CONSTANTS
  Ctx,     \* addresses of contexts
  NULL     \* the null pointer

VARIABLES
  live,      \* the contexts that are allocated
  channel,   \* sequence of contexts, or NULL
  opening,   \* the context in the hands of the opener, or NULL
  using      \* the context in the hands of the user, or NULL

contexts == <<live, channel, opening, using>>

Held == {channel[k] : k \in 1..Len(channel)} \ {NULL}
InUse == (Held \cup {opening, using}) \ {NULL}

(* The name of a context that nobody has any more may be given out again.  *)
Open ==
  /\ opening = NULL
  /\ \E c \in Ctx \ InUse :
       /\ opening' = c
       /\ live \cap InUse \subseteq live' /\ c \in live'
       /\ live' \subseteq live \cup {c}
  /\ UNCHANGED <<channel, using>>

Discard ==
  /\ opening # NULL
  /\ live' = live \ {opening}
  /\ opening' = NULL
  /\ UNCHANGED <<channel, using>>

(* The channel gets the context, or the store is lost and nobody has it.   *)
Give ==
  /\ opening # NULL
  /\ opening' = NULL
  /\ \/ \E k \in 1..Len(channel) : channel' = [channel EXCEPT ![k] = opening]
     \/ UNCHANGED channel
  /\ UNCHANGED <<live, using>>

Borrow ==
  /\ \E k \in 1..Len(channel) : using' = channel[k]
  /\ UNCHANGED <<live, channel, opening>>

Return ==
  /\ using' = NULL
  /\ UNCHANGED <<live, channel, opening>>

AddChannel ==
  /\ channel' = Append(channel, NULL)
  /\ UNCHANGED <<live, opening, using>>

Die ==
  /\ live' = {} /\ channel' = <<>>
  /\ opening' = NULL /\ using' = NULL

Init == live = {} /\ channel = <<>> /\ opening = NULL /\ using = NULL
Next == Open \/ Discard \/ Give \/ Borrow \/ Return \/ AddChannel \/ Die
Spec == Init /\ [][Next]_contexts

-----------------------------------------------------------------------------
(* Whoever has a context has one that is allocated, no two channels share  *)
(* one, and what the opener has nobody else has.                           *)
WellOwned ==
  /\ InUse \subseteq live
  /\ opening \notin (Held \cup {using}) \ {NULL}
  /\ \A k, l \in 1..Len(channel) :
       channel[k] = channel[l] /\ channel[k] # NULL => k = l
=============================================================================
