------------------------- MODULE HcrHistory_proofs -------------------------
(* What HcrHistory says of the plugin's targets, for all positions, limits,  *)
(* deadbands, parameters and faults. Hands adds to the plugin's invariant    *)
(* what the worker holds and what the robot drives to.                       *)
EXTENDS HcrHistory, HcrSystem_proofs

\* The worker's hand is empty where it waits or ends; while it waits for an answer
\* the robot drives to what it holds; afterwards to what was recorded as sent.
Hands ==
    /\ worker \in {"none", "wait", "exited"} => held = NoTarget
    /\ pendingFrom # "earlier" /\ heldFrom # "earlier"
    /\ worker = "reply" => goal \in {held, NoTarget}
    /\ haveSent /\ ~ackLost /\ worker # "reply" => goal \in {lastSent, NoTarget}

LEMMA InitHands == HInit => Hands
BY DEF HInit, Init, Hands

Answered == worker = "reply" /\ worker' = "wait"

\* What a step writes in the history.
LEMMA HistoryOf ==
    ASSUME HistoryStep
    PROVE  /\ pendingFrom' = "earlier" => pendingFrom = "earlier" \/ (Activated /\ pending' # NoTarget)
           /\ heldFrom' = "earlier" => \/ "earlier" \in {pendingFrom, heldFrom}
                                       \/ Activated /\ held' # NoTarget
           /\ ~Activated /\ Answered /\ ~ackLost' => haveSent' /\ lastSent' = held
           /\ ~Activated /\ ~Answered => ackLost' = ackLost
<1>1. pendingFrom' = "earlier" => pendingFrom = "earlier" \/ (Activated /\ pending' # NoTarget)
  BY SMT DEF HistoryStep
<1>2. heldFrom' = "earlier" => "earlier" \in {pendingFrom, heldFrom} \/ (Activated /\ held' # NoTarget)
  BY SMT DEF HistoryStep
<1>3. ~Activated /\ Answered => ackLost' = ~(haveSent' /\ lastSent' = held)
  BY SMT DEF HistoryStep, Answered
<1>4. ~Activated /\ ~Answered => ackLost' = ackLost
  BY SMT DEF HistoryStep, Answered
<1> QED BY <1>1, <1>2, <1>3, <1>4

\* No step but ActivateArm enters "active", and outside the worker none takes a target
\* in hand, gives the robot one or records one as sent.
Still ==
    /\ ~Activated /\ held' = held /\ goal' \in {goal, NoTarget}
    /\ UNCHANGED <<lastSent, haveSent>>
    /\ worker' = worker \/ (worker \in {"none", "exited"} /\ worker' = "none")

LEMMA StillHands ==
    ASSUME Hands, Still, HistoryStep
    PROVE  Hands'
<1>1. ~Answered BY DEF Still, Answered
<1>2. ackLost' = ackLost /\ pendingFrom' # "earlier" /\ heldFrom' # "earlier"
  BY <1>1, HistoryOf DEF Still, Hands
<1> QED BY <1>2 DEF Still, Hands

LEMMA CallbackStill ==
    ASSUME IInv, Request \/ CallbackStep, \A p \in Positions : ~ActivateArm(p)
    PROVE  Still
<1> USE DEF IInv, Phases, Still, Activated, cmVars, linkVars, stateVars, cmdVars, workerVars, robotVars, PublishStop
<1>1. CASE Request BY <1>1 DEF Request, Configure, Activate, Deactivate, Cleanup
<1>2. CASE ConfigureProbe \/ ConfigureStart \/ ConfigureSampled \/ ConfigureTimeout \/ ConfigureStopped
  BY <1>2 DEF ConfigureProbe, ConfigureStart, ConfigureSampled, ConfigureTimeout, ConfigureStopped
<1>3. CASE ActivateCheck BY <1>3 DEF ActivateCheck
<1>4. CASE DeactivateLock \/ DeactivateStop \/ DeactivateJoin \/ DeactivateServo \/ DeactivateDone
  BY <1>4 DEF DeactivateLock, DeactivateStop, DeactivateJoin, DeactivateServo, DeactivateDone
<1>5. CASE CleanupDone \/ ErrorLock \/ ErrorStop \/ ErrorJoin
  BY <1>5 DEF CleanupDone, ErrorLock, ErrorStop, ErrorJoin
<1> QED BY <1>1, <1>2, <1>3, <1>4, <1>5 DEF CallbackStep

LEMMA OthersStill ==
    ASSUME IInv, Cycle \/ RxStep \/ Environment
    PROVE  Still
<1> USE DEF Still, Activated, cmVars, linkVars, stateVars, cmdVars, workerVars, robotVars, PublishStop
<1>1. CASE Cycle BY <1>1 DEF Cycle, Read, Write, WriteSlot
<1>2. CASE RxStep
  BY <1>2 DEF RxStep, OnJointPosition, OnOperation, OnCollision, OnCollisionStop, OnCollisionClear,
     OnCollisionClearDrop
<1>3. CASE Environment BY <1>3 DEF Environment, NetDown, NetUp, SamplesStop, ServoOn
<1> QED BY <1>1, <1>2, <1>3

\* on_activate empties the slot, forgets what was sent, and finds no worker.
LEMMA ArmHands ==
    ASSUME IInv, Hands, NEW p \in Positions, ActivateArm(p), HistoryStep
    PROVE  Hands'
<1>1. worker = "none" BY DEF ActivateArm, IInv, Phases, Ownership
<1>2. held = NoTarget BY <1>1 DEF Hands
<1>3. pending' = NoTarget /\ ~haveSent' BY Zenon DEF ActivateArm, SeedBuffer
<1>4. held' = NoTarget /\ worker' \in {"none", "wait"}
  BY <1>1, <1>2 DEF ActivateArm, StartPublishing, StartWorker
<1>5. pendingFrom' # "earlier" /\ heldFrom' # "earlier" BY <1>3, <1>4, HistoryOf DEF Hands
<1> QED BY <1>3, <1>4, <1>5 DEF Hands

LEMMA WorkerHands ==
    ASSUME IInv, Hands, WorkerStep, HistoryStep
    PROVE  Hands'
<1> USE DEF cmVars, linkVars, stateVars, cmdVars, workerVars, robotVars
<1>1. ~Activated
  BY DEF WorkerStep, WorkerTake, WorkerExit, WorkerGate, WorkerRecheck, WorkerGoesOn, WorkerSend,
     WorkerAck, WorkerNoAck, Activated
<1>2. pendingFrom' # "earlier" /\ heldFrom' # "earlier" BY <1>1, HistoryOf DEF Hands
<1>3. CASE WorkerTake \/ WorkerExit \/ WorkerGate \/ WorkerRecheck
  <2>1. /\ worker # "reply" /\ worker' # "reply"
        /\ worker' \in {"none", "wait", "exited"} => held' = NoTarget
        /\ UNCHANGED <<goal, haveSent, lastSent>>
    BY <1>3 DEF WorkerTake, WorkerExit, WorkerGate, WorkerRecheck, WorkerGoesOn, Hands
  <2> QED BY <1>1, <1>2, <2>1, HistoryOf DEF Hands, Answered
<1>4. CASE WorkerSend
  <2>1. /\ worker = "send" /\ worker' \in {"reply", "noReply"}
        /\ worker' = "reply" => goal' = held'
        /\ worker' = "noReply" => goal' = goal
        /\ UNCHANGED <<haveSent, lastSent>>
    BY <1>4 DEF WorkerSend
  <2> QED BY <1>1, <1>2, <2>1, HistoryOf DEF Hands, Answered
<1>5. CASE WorkerAck
  <2>1. worker = "reply" /\ worker' = "wait" /\ held' = NoTarget /\ lastSent' = held /\ goal' = goal
    BY <1>5 DEF WorkerAck
  <2> QED BY <1>2, <2>1 DEF Hands
<1>6. CASE WorkerNoAck
  <2>1. /\ worker \in {"reply", "noReply"} /\ worker' = "wait" /\ held' = NoTarget
        /\ UNCHANGED <<goal, haveSent, lastSent>>
    BY <1>6 DEF WorkerNoAck
  <2> QED BY <1>1, <1>2, <2>1, HistoryOf DEF Hands, Answered
<1> QED BY <1>3, <1>4, <1>5, <1>6 DEF WorkerStep

\* HcrHistory only observes: the plugin's own invariant holds in it.
LEMMA HandsInvariant == HSpec => [](IInv /\ Hands)
<1>1. HInit => IInv /\ Hands BY InitIInv, InitHands DEF HInit
<1>2. IInv /\ Hands /\ [HNext]_HVars => (IInv /\ Hands)'
  <2> SUFFICES ASSUME IInv, Hands, [HNext]_HVars PROVE (IInv /\ Hands)' OBVIOUS
  <2>1. CASE UNCHANGED HVars
    <3>1. UNCHANGED vars BY <2>1 DEF HVars
    <3>2. IInv'
      BY <3>1 DEF IInv, TypeOK, Phases, Ownership, Locks, Legality, LegalTargetsOnly, vars, cmVars,
         linkVars, stateVars, cmdVars, workerVars, robotVars
    <3>3. Hands'
      BY <2>1 DEF HVars, historyVars, vars, cmVars, linkVars, stateVars, cmdVars, workerVars, robotVars, Hands
    <3> QED BY <3>2, <3>3
  <2>2. CASE HNext
    <3>1. IInv' BY <2>2, RequestIInv, CallbackStepIInv, CycleIInv, WorkerStepIInv, RxStepIInv,
             EnvironmentIInv DEF HNext, Next
    <3>2. Hands'
      <4>1. CASE \E p \in Positions : ActivateArm(p) BY <2>2, <4>1, ArmHands DEF HNext
      <4>2. CASE WorkerStep BY <2>2, <4>2, WorkerHands DEF HNext
      <4>3. CASE Still BY <2>2, <4>3, StillHands DEF HNext
      <4> QED BY <2>2, <4>1, <4>2, <4>3, CallbackStill, OthersStill DEF HNext, Next
    <3> QED BY <3>1, <3>2
  <2> QED BY <2>1, <2>2
<1> QED BY <1>1, <1>2, PTL DEF HSpec

\* For any targets and faults: a target queued in one activation is not published in
\* a later one (NothingFromEarlierActivation: on_activate, on_deactivate, on_error).
THEOREM EarlierTargetsForgotten == HSpec => []NothingFromEarlierActivation
<1>1. Hands => NothingFromEarlierActivation BY DEF Hands, NothingFromEarlierActivation
<1> QED BY <1>1, HandsInvariant, PTL

\* For any targets and deadband: unless the answer to the last accepted target was
\* lost, the deadband is measured from where the robot drives or from a target it
\* was stopped on (DeadbandReferenceIsRobotGoal: write, workerLoop).
THEOREM DeadbandMeasuredFromGoal == HSpec => []DeadbandReferenceIsRobotGoal
<1>1. Hands => DeadbandReferenceIsRobotGoal BY DEF Hands, DeadbandReferenceIsRobotGoal
<1> QED BY <1>1, HandsInvariant, PTL
=============================================================================
