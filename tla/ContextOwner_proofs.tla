------------------------ MODULE ContextOwner_proofs ------------------------
(* Proof that the rules of ContextOwner keep every context in good hands,  *)
(* for any number of addresses and of channels.                            *)
EXTENDS ContextOwner, TLAPS

(* The table is a sequence of addresses or NULL.                           *)
Table == channel \in Seq(Ctx \cup {NULL})

(* The elements of a sequence that grows by NULL, or gets an element.      *)
LEMMA HeldAfterAdd ==
  ASSUME NEW S, NEW s \in Seq(S), NEW e \in S
  PROVE  /\ Append(s, e) \in Seq(S) /\ Len(s) \in Nat
         /\ Len(Append(s, e)) = Len(s) + 1
         /\ \A k \in 1..Len(s) : Append(s, e)[k] = s[k]
         /\ Append(s, e)[Len(s) + 1] = e
OBVIOUS

(* An element written in place changes that element alone.                 *)
LEMMA HeldAfterGive ==
  ASSUME NEW S, NEW s \in Seq(S), NEW k \in 1..Len(s), NEW e \in S
  PROVE  /\ [s EXCEPT ![k] = e] \in Seq(S)
         /\ Len([s EXCEPT ![k] = e]) = Len(s)
         /\ \A l \in 1..Len(s) : [s EXCEPT ![k] = e][l] = IF l = k THEN e ELSE s[l]
OBVIOUS

(* The opener's context is an address, or NULL.                            *)
Owners == Table /\ opening \in Ctx \cup {NULL}

(* Everything starts empty.                                                *)
LEMMA OwnersInit == Init => Owners /\ WellOwned
BY DEF Init, Owners, Table, WellOwned, InUse, Held

(* Every rule keeps the types.                                             *)
LEMMA OwnersNext == Owners /\ [Next]_contexts => Owners'
<1> SUFFICES ASSUME Owners, [Next]_contexts PROVE Owners'
  OBVIOUS
<1> USE DEF Owners, Table
<1>1. CASE Open
  BY <1>1 DEF Open
<1>2. CASE Discard \/ Borrow \/ Return \/ UNCHANGED contexts
  BY <1>2 DEF Discard, Borrow, Return, contexts
<1>3. CASE Give
  <2>1. channel' = channel \/ \E k \in 1..Len(channel) :
                                channel' = [channel EXCEPT ![k] = opening]
    BY <1>3 DEF Give
  <2>2. channel' \in Seq(Ctx \cup {NULL})
    BY <2>1, HeldAfterGive
  <2> QED BY <1>3, <2>2 DEF Give
<1>4. CASE AddChannel
  BY <1>4 DEF AddChannel
<1>5. CASE Die
  BY <1>5 DEF Die
<1> QED BY <1>1, <1>2, <1>3, <1>4, <1>5 DEF Next

(* Every rule keeps the contexts in good hands.                            *)
LEMMA WellOwnedNext == Owners /\ WellOwned /\ [Next]_contexts => WellOwned'
<1> SUFFICES ASSUME Owners, WellOwned, [Next]_contexts PROVE WellOwned'
  OBVIOUS
<1>1. CASE Open
  BY <1>1 DEF Open, WellOwned, InUse, Held
<1>2. CASE Discard
  BY <1>2 DEF Discard, WellOwned, InUse, Held
<1>3. CASE Give
  <2>1. CASE UNCHANGED channel
    BY <1>3, <2>1 DEF Give, WellOwned, InUse, Held
  <2>2. ASSUME NEW k \in 1..Len(channel), channel' = [channel EXCEPT ![k] = opening]
        PROVE  WellOwned'
    <3>1. /\ Len(channel') = Len(channel)
          /\ \A l \in 1..Len(channel) :
               channel'[l] = IF l = k THEN opening ELSE channel[l]
      BY <2>2, HeldAfterGive DEF Owners, Table
    <3>2. opening # NULL /\ opening' = NULL /\ live' = live /\ using' = using
      BY <1>3 DEF Give
    <3>3. Held' \subseteq Held \cup {opening}
      BY <3>1 DEF Held
    <3>4. InUse' \subseteq live'
      BY <3>2, <3>3 DEF WellOwned, InUse
    <3>5. \A l \in 1..Len(channel) : channel[l] # opening
      BY <3>2 DEF WellOwned, Held
    <3>6. ASSUME NEW l \in 1..Len(channel'), NEW m \in 1..Len(channel'),
                 channel'[l] = channel'[m], channel'[l] # NULL
          PROVE  l = m
      BY <3>1, <3>5, <3>6 DEF WellOwned
    <3> QED BY <3>2, <3>4, <3>6 DEF WellOwned
  <2> QED BY <1>3, <2>1, <2>2 DEF Give
<1>4. CASE Borrow
  <2>1. PICK k \in 1..Len(channel) : using' = channel[k]
    BY <1>4 DEF Borrow
  <2>2. live' = live /\ channel' = channel /\ opening' = opening
    BY <1>4 DEF Borrow
  <2> QED BY <2>1, <2>2 DEF WellOwned, InUse, Held
<1>5. CASE Return
  BY <1>5 DEF Return, WellOwned, InUse, Held
<1>6. CASE AddChannel
  <2>1. /\ Len(channel') = Len(channel) + 1 /\ Len(channel) \in Nat
        /\ \A k \in 1..Len(channel) : channel'[k] = channel[k]
        /\ channel'[Len(channel) + 1] = NULL
    BY <1>6, HeldAfterAdd DEF AddChannel, Owners, Table
  <2>2. live' = live /\ opening' = opening /\ using' = using
    BY <1>6 DEF AddChannel
  <2>3. Held' = Held
    BY <2>1 DEF Held
  <2>4. ASSUME NEW k \in 1..Len(channel'), NEW l \in 1..Len(channel'),
               channel'[k] = channel'[l], channel'[k] # NULL
        PROVE  k = l
    <3>1. k \in 1..Len(channel) /\ l \in 1..Len(channel)
      BY <2>1, <2>4
    <3> QED BY <2>1, <2>4, <3>1 DEF WellOwned
  <2> QED BY <2>2, <2>3, <2>4 DEF WellOwned, InUse
<1>7. CASE Die
  BY <1>7 DEF Die, WellOwned, InUse, Held
<1>8. CASE UNCHANGED contexts
  BY <1>8 DEF contexts, WellOwned, InUse, Held
<1> QED BY <1>1, <1>2, <1>3, <1>4, <1>5, <1>6, <1>7, <1>8 DEF Next

(* As long as the rules are kept, what somebody holds is allocated, what   *)
(* the opener has nobody else has, and no two channels share a context.    *)
THEOREM RulesSuffice == Spec => []WellOwned
BY OwnersInit, OwnersNext, WellOwnedNext, PTL DEF Spec
=============================================================================
