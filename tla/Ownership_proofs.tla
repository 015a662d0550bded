-------------------------- MODULE Ownership_proofs --------------------------
(* Proof that the threads of ModbusHandler keep the rules of ContextOwner: *)
(* every step maps to one of the rules, or changes nothing they speak of.  *)
EXTENDS ModbusHandler_proofs

(* The contexts that are allocated, and the one being opened.              *)
Live    == {c \in Ctx : link[c] # Free}
Opening == IF pc["connect"] \in {"connect", "up", "store"} THEN con.ctx ELSE NULL

(* A step that changes none of the four is a stutter of the rules.         *)
LEMMA Stutter ==
  ASSUME link' = link, m_mb_vec' = m_mb_vec, Opening' = Opening,
         prc'.ctx = prc.ctx
  PROVE  UNCHANGED Owner!contexts
BY DEF Owner!contexts, Opening

(* A step that does not move the connect thread opens and closes nothing.  *)
LEMMA OpeningUnchanged ==
  ASSUME con' = con, pc'["connect"] = pc["connect"]
  PROVE  Opening' = Opening
BY DEF Opening

(* The gateway starts where the rules start.                               *)
LEMMA OwnerInit == Init => Owner!Init
BY StartLabels DEF Init, Owner!Init, StartPrc

(* The init thread only adds channels.                                     *)
LEMMA InitMaps == TypeOK /\ InitThread => [Owner!Next]_(Owner!contexts)
<1> SUFFICES ASSUME TypeOK, InitThread PROVE [Owner!Next]_(Owner!contexts)
  OBVIOUS
<1>1. con' = con /\ prc' = prc /\ link' = link
  BY DEF InitThread, ProtocolType, Scan, Row, Check, PushContext, PushFlag,
         PushBackend, NameBackend, Built, shared
<1>2. pc' = pc \/ \E l \in InitLabel : Goto("init", l)
  BY DEF InitThread, ProtocolType, Scan, Row, Check, PushContext, PushFlag,
         PushBackend, NameBackend, Built, InitLabel
<1>3. pc'["connect"] = pc["connect"]
  BY <1>2, VectorLengths DEF Goto, Thread
<1>4. CASE PushContext
  <2>1. m_mb_vec' = Append(m_mb_vec, NULL)
    BY <1>4 DEF PushContext, ContextsGrown
  <2>2. Owner!AddChannel
    BY <1>1, <1>3, <2>1 DEF Owner!AddChannel
  <2> QED BY <2>2 DEF Owner!Next
<1>5. CASE ~PushContext
  <2>1. m_mb_vec' = m_mb_vec
    BY <1>5 DEF InitThread, ProtocolType, Scan, Row, Check, PushFlag, PushBackend,
                NameBackend, Built, shared
  <2> QED BY <1>1, <1>3, <2>1, Stutter, OpeningUnchanged
<1> QED BY <1>4, <1>5

(* What the connect thread creates nobody has, and what others have stays. *)
LEMMA CreateMaps == TypeOK /\ ContextsOwned /\ CreateContext => Owner!Open
<1> SUFFICES ASSUME TypeOK, ContextsOwned, CreateContext PROVE Owner!Open
  OBVIOUS
<1>1. PICK c \in {x \in Ctx : link[x] = Free \/ x \notin Referenced} :
        /\ link' = [x \in Ctx |->
                      IF x = c THEN m_backendvec[con.i].dev
                      ELSE IF x \in Referenced THEN link[x] ELSE Free]
        /\ con' = [con EXCEPT !.ctx = c]
  BY DEF CreateContext
<1>2. /\ pc["connect"] = "try" /\ pc'["connect"] = "connect"
      /\ m_mb_vec' = m_mb_vec /\ prc' = prc /\ con'.ctx = c
  BY <1>1, VectorLengths DEF CreateContext, At, Goto, Thread, TypeOK, LocalsType,
                             ConnectLocals
<1>3. c \in Ctx /\ c \notin Referenced
  BY <1>1 DEF ContextsOwned, ContextsLive
<1>4. m_backendvec[con.i].dev # Free
  <2>1. m_backendvec[con.i] \in Backend
    BY DEF CreateContext, TypeOK, SharedType, LocalsType, ConnectLocals, Position
  <2>2. m_backendvec[con.i].dev \in NodeId \cup {NoDev}
    BY <2>1 DEF Backend, AnyDev
  <2> QED BY <2>2, NodeIdAssumption DEF NoDev, Free
<1>5. Opening = NULL /\ Opening' = c
  BY <1>2 DEF Opening
<1>6. Owner!InUse = Referenced
  BY <1>5 DEF Opening, Owner!InUse, Owner!Held, Referenced, Table
<1>7. \A x \in Ctx : link'[x] = IF x = c THEN m_backendvec[con.i].dev
                                ELSE IF x \in Referenced THEN link[x] ELSE Free
  BY <1>1
<1>8. /\ Live \cap Referenced \subseteq Live' /\ c \in Live'
      /\ Live' \subseteq Live \cup {c}
  BY <1>3, <1>4, <1>7 DEF Live
<1> HIDE DEF Opening, Live
<1>9. c \in Ctx \ Owner!InUse
  BY <1>3, <1>6
<1> QED BY <1>2, <1>5, <1>6, <1>8, <1>9 DEF Owner!Open, Opening, Live

(* Only what is being opened is freed.                                     *)
LEMMA FailMaps == TypeOK /\ ContextsOwned /\ ConnectFails => Owner!Discard
<1> SUFFICES ASSUME TypeOK, ContextsOwned, ConnectFails PROVE Owner!Discard
  OBVIOUS
<1>1. /\ pc["connect"] = "connect" /\ pc'["connect"] = "try"
      /\ m_mb_vec' = m_mb_vec /\ prc' = prc
      /\ link' = [link EXCEPT ![con.ctx] = Free]
  BY ConnectKeepsLengths, VectorLengths DEF ConnectFails, AfterRefusal, At, Goto, Thread
<1>2. con.ctx \in Ctx /\ con.ctx # NULL
  BY <1>1, ConfigAssumption DEF ContextsOwned
<1>3. Opening = con.ctx /\ Opening' = NULL
  BY <1>1 DEF Opening
<1>4. link \in [Ctx -> NodeId \cup {NoDev, Free}]
  BY DEF TypeOK, SharedType
<1>5. Live' = Live \ {con.ctx}
  BY <1>1, <1>2, <1>4 DEF Live
<1> QED BY <1>1, <1>2, <1>3, <1>5 DEF Owner!Discard, Opening, Live

(* What is opened goes to one channel, or is lost.                         *)
LEMMA StoreMaps ==
  TypeOK /\ VectorsInStep /\ ContextsOwned /\ StoreContext => Owner!Give
<1> SUFFICES ASSUME TypeOK, VectorsInStep, ContextsOwned, StoreContext
             PROVE  Owner!Give
  OBVIOUS
<1>1. /\ pc["connect"] = "store" /\ pc'["connect"] = "login"
      /\ link' = link /\ prc' = prc
  BY VectorLengths DEF StoreContext, At, Goto, Thread
<1>2. con.ctx # NULL
  BY <1>1, ConfigAssumption DEF ContextsOwned
<1>3. Opening = con.ctx /\ Opening' = NULL
  BY <1>1 DEF Opening
<1>4. con.i \in 1..Len(m_mb_vec)
  BY <1>1 DEF VectorsInStep, ChannelsInRange, TypeOK, SharedType, LocalsType,
              ConnectLocals, Position
<1>5. \/ \E k \in 1..Len(m_mb_vec) : m_mb_vec' = [m_mb_vec EXCEPT ![k] = Opening]
      \/ UNCHANGED m_mb_vec
  BY <1>3, <1>4 DEF StoreContext
<1> QED BY <1>1, <1>2, <1>3, <1>5 DEF Owner!Give, Opening

(* The connect thread opens, discards and gives.                           *)
LEMMA ConnectMaps ==
  TypeOK /\ VectorsInStep /\ ContextsOwned /\ ConnectThread
    => [Owner!Next]_(Owner!contexts)
<1> SUFFICES ASSUME TypeOK, VectorsInStep, ContextsOwned, ConnectThread
             PROVE  [Owner!Next]_(Owner!contexts)
  OBVIOUS
<1>1. CASE CreateContext \/ ConnectFails \/ StoreContext
  BY <1>1, CreateMaps, FailMaps, StoreMaps DEF Owner!Next
<1>2. CASE ~(CreateContext \/ ConnectFails \/ StoreContext)
  <2>1. m_mb_vec' = m_mb_vec /\ link' = link /\ prc' = prc
    BY <1>2 DEF ConnectThread, SizeCheck, SkipConnected, ConnectSucceeds, RaiseFlag,
         Login, LoginSpins, AllTried, SecondSizeCheck, SetFunction, SetBuffer,
         RoundDone, shared
  <2>2. Opening' = Opening
    <3>1. CASE ConnectSucceeds \/ RaiseFlag
      <4>1. /\ pc["connect"] \in {"connect", "up"} /\ con' = con
            /\ pc'["connect"] \in {"up", "store"}
        BY <3>1, VectorLengths DEF ConnectSucceeds, RaiseFlag, At, Goto, Thread
      <4> QED BY <4>1 DEF Opening
    <3>2. CASE ~(ConnectSucceeds \/ RaiseFlag)
      <4>1. /\ pc["connect"] \notin {"connect", "up", "store"}
            /\ pc'["connect"] \notin {"connect", "up", "store"}
        BY <1>2, <3>2, VectorLengths DEF ConnectThread, SizeCheck, SkipConnected,
           Login, LoginSpins, AllTried, SecondSizeCheck, SetFunction, SetBuffer,
           RoundDone, At, Goto, Thread
      <4> QED BY <4>1 DEF Opening
    <3> QED BY <3>1, <3>2
  <2> QED BY <2>1, <2>2, Stutter
<1> QED BY <1>1, <1>2

(* The process thread borrows from the table, and returns.                 *)
LEMMA ProcessMaps == TypeOK /\ ProcessThread => [Owner!Next]_(Owner!contexts)
<1> SUFFICES ASSUME TypeOK, ProcessThread PROVE [Owner!Next]_(Owner!contexts)
  OBVIOUS
<1>1. m_mb_vec' = m_mb_vec /\ link' = link /\ con' = con
  BY DEF ProcessThread, Poll, ReadContext, SkipChannel, TakeChannel, Request,
         CheckResult, NothingRead, FindDevice, Publish, PollDone, shared
<1>2. pc' = pc \/ \E l \in ProcessLabel : Goto("process", l)
  BY DEF ProcessThread, Poll, ReadContext, SkipChannel, TakeChannel,
         Request, CheckResult, NothingRead, AfterNothing, FindDevice,
         Publish, PollDone, ProcessLabel
<1>3. pc'["connect"] = pc["connect"]
  BY <1>2, VectorLengths DEF Goto, Thread
<1>4. Opening' = Opening
  BY <1>1, <1>3, OpeningUnchanged
<1>5. prc \in ProcessLocals
  BY DEF TypeOK, LocalsType
<1>6. ASSUME prc'.ctx = NULL PROVE Owner!Next
  BY <1>1, <1>4, <1>6 DEF Owner!Next, Owner!Return, Opening
<1>7. CASE ReadContext
  <2>1. prc'.ctx = m_mb_vec[prc.i] /\ prc.i \in 1..Len(m_mb_vec)
    BY <1>5, <1>7 DEF ReadContext, ProcessLocals, Position
  <2>2. Owner!Borrow
    BY <1>1, <1>4, <2>1 DEF Owner!Borrow, Opening
  <2> QED BY <2>2 DEF Owner!Next
<1>8. CASE SkipChannel \/ NothingRead \/ Publish
  <2>1. NextPolled
    BY <1>8 DEF SkipChannel, NothingRead, Publish
  <2>2. prc'.ctx = NULL
    BY <1>5, <2>1 DEF NextPolled, ProcessLocals
  <2> QED BY <1>6, <2>2
<1>9. CASE PollDone
  <2>1. prc'.ctx = NULL
    BY <1>9 DEF PollDone, StartPrc
  <2> QED BY <1>6, <2>1
<1>10. CASE Poll \/ TakeChannel \/ Request \/ CheckResult \/ FindDevice
  <2>1. prc'.ctx = prc.ctx
    BY <1>5, <1>10 DEF Poll, TakeChannel, Request, CheckResult, FindDevice,
                       ProcessLocals
  <2> QED BY <1>1, <1>4, <2>1, Stutter
<1> QED BY <1>7, <1>8, <1>9, <1>10 DEF ProcessThread

(* A death takes everything with it; an edit touches no context.           *)
LEMMA OtherMaps ==
  Edit \/ Dies \/ UNCHANGED vars
    => [Owner!Next]_(Owner!contexts)
<1>1. ASSUME Dies PROVE Owner!Next
  <2>1. Live' = {} /\ Opening' = NULL
    BY <1>1, DeathEnds, StartLabels DEF EndOfProcess, Live, Opening
  <2>2. m_mb_vec' = <<>> /\ prc'.ctx = NULL
    BY <1>1, DeathEnds DEF EndOfProcess, StartPrc
  <2> QED BY <2>1, <2>2 DEF Owner!Next, Owner!Die, Live, Opening
<1>2. ASSUME Edit \/ UNCHANGED vars PROVE UNCHANGED Owner!contexts
  <2>1. /\ link' = link /\ m_mb_vec' = m_mb_vec /\ con' = con /\ prc' = prc
        /\ pc' = pc
    BY <1>2 DEF Edit, vars, shared
  <2> QED BY <2>1, Stutter, OpeningUnchanged
<1> QED BY <1>1, <1>2

(* However reconnections, polls, rebuilds, edits and deaths interleave,    *)
(* the threads keep the rules of ContextOwner: nobody but the connect      *)
(* thread frees a context, and it frees none it has given to a channel.    *)
THEOREM OwnershipKept == Spec => KeepsOwnership
<1>1. TypeOK /\ VectorsInStep /\ ContextsOwned /\ [Next]_vars
        => [Owner!Next]_(Owner!contexts)
  BY InitMaps, ConnectMaps, ProcessMaps, OtherMaps DEF Next
<1> QED
  BY <1>1, OwnerInit, TypeCorrect, VectorsAlwaysInStep, ContextsAlwaysOwned, PTL
     DEF Spec, KeepsOwnership, Owner!Spec
=============================================================================
