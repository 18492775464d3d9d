-------------------------- MODULE HcrSystem_proofs --------------------------
(* What TLC checks of HcrSystem on small instances, proved for all positions,*)
(* limits, deadbands, parameters and faults. IInv is the inductive invariant:*)
(* which lifecycle state each callback runs in, who may have a worker thread *)
(* when, what the locks guard, and that only legal targets are in transit.   *)
EXTENDS HcrSystem, TLAPS

\* A callback runs in the lifecycle state it was called in.
Phases ==
    /\ cm \in {"cfgProbe", "cfgStart", "cfgSample", "cfgStop"} => life = "unconfigured"
    /\ cm \in {"actFieldbus", "actSeed", "cleanup"} => life = "inactive"
    /\ cm \in {"write", "writeSlot", "deactLock", "deactStop", "deactJoin",
               "deactServo", "deactAck"} => life = "active"

\* A worker exists only between on_activate and the join, and it is told to end
\* only by the callback that then waits for it.
Ownership ==
    /\ life # "active" => worker = "none"
    /\ running => worker \notin {"none", "exited"}
    /\ worker # "none" /\ ~running => cm \in {"deactJoin", "errJoin"}
    /\ cm \in {"deactJoin", "deactServo", "deactAck", "errJoin"} => ~running
    /\ worker \in {"gate", "pace", "send", "reply", "noReply"} => held # NoTarget

\* Outside "active" the lock is on; a permanent lock leaves no worker behind.
Locks ==
    /\ life # "active" => locked
    /\ cm \in {"deactStop", "deactJoin", "deactServo", "deactAck"} => locked
    /\ permLocked => locked
    /\ cm \in {"errStop", "errJoin"} => permLocked
    /\ permLocked /\ cm \notin {"errStop", "errJoin"} => worker = "none"

Legality == LegalTargetsOnly /\ (cm = "writeSlot" => command \in Legal)

IInv == TypeOK /\ Phases /\ Ownership /\ Locks /\ Legality

-----------------------------------------------------------------------------
\* The member initialisers satisfy the invariant.
LEMMA InitIInv == Init => IInv
    BY HcrAssumption DEF Init, IInv, TypeOK, Phases, Ownership, Locks, Legality,
       LegalTargetsOnly, Lives, CmPlaces, WorkerPlaces, Target

LEMMA RequestIInv == IInv /\ Request => IInv'
<1> SUFFICES ASSUME TypeOK, Phases, Ownership, Locks, Legality, Request PROVE IInv'
    BY DEF IInv
<1> USE HcrAssumption DEF cmVars, linkVars, stateVars, cmdVars, workerVars, robotVars,
        Lives, CmPlaces, WorkerPlaces, Target
<1>1. CASE Configure
  <2>0. latched' \in BOOLEAN /\ fieldbus' \in BOOLEAN /\ haveState' \in BOOLEAN /\ fresh' \in BOOLEAN
    BY <1>1, Zenon DEF Configure, TypeOK
  <2>1. TypeOK'
    BY <2>0, <1>1 DEF Configure, TypeOK
  <2>2. (Phases /\ Ownership /\ Locks)'
    BY <1>1 DEF Configure, TypeOK, Phases, Ownership, Locks
  <2>3. Legality'
    BY <1>1 DEF Configure, TypeOK, Legality, LegalTargetsOnly
  <2> QED
    BY <2>1, <2>2, <2>3 DEF IInv
<1>2. CASE Activate
  <2>1. TypeOK'
    BY <1>2 DEF Activate, TypeOK
  <2>2. (Phases /\ Ownership /\ Locks)'
    BY <1>2 DEF Activate, TypeOK, Phases, Ownership, Locks
  <2>3. Legality'
    BY <1>2 DEF Activate, TypeOK, Legality, LegalTargetsOnly
  <2> QED
    BY <2>1, <2>2, <2>3 DEF IInv
<1>3. CASE Deactivate
  <2>1. TypeOK'
    BY <1>3 DEF Deactivate, TypeOK
  <2>2. (Phases /\ Ownership /\ Locks)'
    BY <1>3 DEF Deactivate, TypeOK, Phases, Ownership, Locks
  <2>3. Legality'
    BY <1>3 DEF Deactivate, TypeOK, Legality, LegalTargetsOnly
  <2> QED
    BY <2>1, <2>2, <2>3 DEF IInv
<1>4. CASE Cleanup
  <2>0. mqtt' \in BOOLEAN /\ subs' \in BOOLEAN
    BY <1>4, Zenon DEF Cleanup, TypeOK
  <2>1. TypeOK'
    BY <2>0, <1>4 DEF Cleanup, TypeOK
  <2>2. (Phases /\ Ownership /\ Locks)'
    BY <1>4 DEF Cleanup, TypeOK, Phases, Ownership, Locks
  <2>3. Legality'
    BY <1>4 DEF Cleanup, TypeOK, Legality, LegalTargetsOnly
  <2> QED
    BY <2>1, <2>2, <2>3 DEF IInv
<1> QED
    BY <1>1, <1>2, <1>3, <1>4 DEF Request

LEMMA CallbackStepIInv == IInv /\ CallbackStep => IInv'
<1> SUFFICES ASSUME TypeOK, Phases, Ownership, Locks, Legality, CallbackStep PROVE IInv'
    BY DEF IInv
<1> USE HcrAssumption DEF cmVars, linkVars, stateVars, cmdVars, workerVars, robotVars,
        Lives, CmPlaces, WorkerPlaces, Target
<1>1. CASE ConfigureProbe
  <2>0. mqtt' \in BOOLEAN /\ subs' \in BOOLEAN
    BY <1>1, Zenon DEF ConfigureProbe, TypeOK
  <2>1. TypeOK'
    BY <2>0, <1>1 DEF ConfigureProbe, TypeOK
  <2>2. (Phases /\ Ownership /\ Locks)'
    BY <1>1 DEF ConfigureProbe, TypeOK, Phases, Ownership, Locks
  <2>3. Legality'
    BY <1>1 DEF ConfigureProbe, TypeOK, Legality, LegalTargetsOnly
  <2> QED
    BY <2>1, <2>2, <2>3 DEF IInv
<1>2. CASE ConfigureStart
  <2>0. mqtt' \in BOOLEAN /\ subs' \in BOOLEAN
    BY <1>2, Zenon DEF ConfigureStart, TypeOK
  <2>1. TypeOK'
    BY <2>0, <1>2 DEF ConfigureStart, TypeOK
  <2>2. (Phases /\ Ownership /\ Locks)'
    BY <1>2 DEF ConfigureStart, TypeOK, Phases, Ownership, Locks
  <2>3. Legality'
    BY <1>2 DEF ConfigureStart, TypeOK, Legality, LegalTargetsOnly
  <2> QED
    BY <2>1, <2>2, <2>3 DEF IInv
<1>3. CASE ConfigureSampled
  <2>1. TypeOK'
    BY <1>3 DEF ConfigureSampled, TypeOK
  <2>2. (Phases /\ Ownership /\ Locks)'
    BY <1>3 DEF ConfigureSampled, TypeOK, Phases, Ownership, Locks
  <2>3. Legality'
    BY <1>3 DEF ConfigureSampled, TypeOK, Legality, LegalTargetsOnly
  <2> QED
    BY <2>1, <2>2, <2>3 DEF IInv
<1>4. CASE ConfigureTimeout
  <2>0. mqtt' \in BOOLEAN /\ subs' \in BOOLEAN
    BY <1>4, Zenon DEF ConfigureTimeout, TypeOK
  <2>1. TypeOK'
    BY <2>0, <1>4 DEF ConfigureTimeout, TypeOK
  <2>2. (Phases /\ Ownership /\ Locks)'
    BY <1>4 DEF ConfigureTimeout, TypeOK, Phases, Ownership, Locks
  <2>3. Legality'
    BY <1>4 DEF ConfigureTimeout, TypeOK, Legality, LegalTargetsOnly
  <2> QED
    BY <2>1, <2>2, <2>3 DEF IInv
<1>5. CASE ConfigureStopped
  <2>1. TypeOK'
    BY <1>5 DEF ConfigureStopped, TypeOK
  <2>2. (Phases /\ Ownership /\ Locks)'
    BY <1>5 DEF ConfigureStopped, TypeOK, Phases, Ownership, Locks
  <2>3. Legality'
    BY <1>5 DEF ConfigureStopped, TypeOK, Legality, LegalTargetsOnly
  <2> QED
    BY <2>1, <2>2, <2>3 DEF IInv
<1>6. CASE ActivateCheck
  <2>1. TypeOK'
    BY <1>6 DEF ActivateCheck, TypeOK
  <2>2. (Phases /\ Ownership /\ Locks)'
    BY <1>6 DEF ActivateCheck, TypeOK, Phases, Ownership, Locks
  <2>3. Legality'
    BY <1>6 DEF ActivateCheck, TypeOK, Legality, LegalTargetsOnly
  <2> QED
    BY <2>1, <2>2, <2>3 DEF IInv
<1>7. ASSUME NEW p \in Positions, ActivateArm(p) PROVE IInv'
  <2>0. haveSent' \in BOOLEAN /\ moving' \in BOOLEAN /\ locked' \in BOOLEAN /\ running' \in BOOLEAN
    BY <1>7, Zenon DEF ActivateArm, SeedBuffer, StartPublishing, StartWorker, TypeOK
  <2>1. TypeOK'
    BY <2>0, <1>7 DEF ActivateArm, SeedBuffer, StartPublishing, StartWorker, TypeOK
  <2>2. (Phases /\ Ownership /\ Locks)'
    BY <1>7 DEF ActivateArm, SeedBuffer, StartPublishing, StartWorker, TypeOK, Phases, Ownership, Locks
  <2>3. Legality'
    BY <1>7 DEF ActivateArm, SeedBuffer, StartPublishing, StartWorker, TypeOK, Legality, LegalTargetsOnly
  <2> QED
    BY <2>1, <2>2, <2>3 DEF IInv
<1>8. CASE DeactivateLock
  <2>1. TypeOK'
    BY <1>8 DEF DeactivateLock, TypeOK
  <2>2. (Phases /\ Ownership /\ Locks)'
    BY <1>8 DEF DeactivateLock, TypeOK, Phases, Ownership, Locks
  <2>3. Legality'
    BY <1>8 DEF DeactivateLock, TypeOK, Legality, LegalTargetsOnly
  <2> QED
    BY <2>1, <2>2, <2>3 DEF IInv
<1>9. CASE DeactivateStop
  <2>0. running' \in BOOLEAN
    BY <1>9, Zenon DEF DeactivateStop, PublishStop, TypeOK
  <2>1. TypeOK'
    BY <2>0, <1>9 DEF DeactivateStop, PublishStop, TypeOK
  <2>2. (Phases /\ Ownership /\ Locks)'
    BY <1>9 DEF DeactivateStop, PublishStop, TypeOK, Phases, Ownership, Locks
  <2>3. Legality'
    BY <1>9 DEF DeactivateStop, PublishStop, TypeOK, Legality, LegalTargetsOnly
  <2> QED
    BY <2>1, <2>2, <2>3 DEF IInv
<1>10. CASE DeactivateJoin
  <2>1. TypeOK'
    BY <1>10 DEF DeactivateJoin, TypeOK
  <2>2. (Phases /\ Ownership /\ Locks)'
    BY <1>10 DEF DeactivateJoin, TypeOK, Phases, Ownership, Locks
  <2>3. Legality'
    BY <1>10 DEF DeactivateJoin, TypeOK, Legality, LegalTargetsOnly
  <2> QED
    BY <2>1, <2>2, <2>3 DEF IInv
<1>11. CASE DeactivateServo
  <2>0. servo' \in BOOLEAN
    BY <1>11, Zenon DEF DeactivateServo, TypeOK
  <2>1. TypeOK'
    BY <2>0, <1>11 DEF DeactivateServo, TypeOK
  <2>2. (Phases /\ Ownership /\ Locks)'
    BY <1>11 DEF DeactivateServo, TypeOK, Phases, Ownership, Locks
  <2>3. Legality'
    BY <1>11 DEF DeactivateServo, TypeOK, Legality, LegalTargetsOnly
  <2> QED
    BY <2>1, <2>2, <2>3 DEF IInv
<1>12. CASE DeactivateDone
  <2>1. TypeOK'
    BY <1>12 DEF DeactivateDone, TypeOK
  <2>2. (Phases /\ Ownership /\ Locks)'
    BY <1>12 DEF DeactivateDone, TypeOK, Phases, Ownership, Locks
  <2>3. Legality'
    BY <1>12 DEF DeactivateDone, TypeOK, Legality, LegalTargetsOnly
  <2> QED
    BY <2>1, <2>2, <2>3 DEF IInv
<1>13. CASE CleanupDone
  <2>1. TypeOK'
    BY <1>13 DEF CleanupDone, TypeOK
  <2>2. (Phases /\ Ownership /\ Locks)'
    BY <1>13 DEF CleanupDone, TypeOK, Phases, Ownership, Locks
  <2>3. Legality'
    BY <1>13 DEF CleanupDone, TypeOK, Legality, LegalTargetsOnly
  <2> QED
    BY <2>1, <2>2, <2>3 DEF IInv
<1>14. CASE ErrorLock
  <2>1. TypeOK'
    BY <1>14 DEF ErrorLock, TypeOK
  <2>2. (Phases /\ Ownership /\ Locks)'
    BY <1>14 DEF ErrorLock, TypeOK, Phases, Ownership, Locks
  <2>3. Legality'
    BY <1>14 DEF ErrorLock, TypeOK, Legality, LegalTargetsOnly
  <2> QED
    BY <2>1, <2>2, <2>3 DEF IInv
<1>15. CASE ErrorStop
  <2>0. running' \in BOOLEAN
    BY <1>15, Zenon DEF ErrorStop, PublishStop, TypeOK
  <2>1. TypeOK'
    BY <2>0, <1>15 DEF ErrorStop, PublishStop, TypeOK
  <2>2. (Phases /\ Ownership /\ Locks)'
    BY <1>15 DEF ErrorStop, PublishStop, TypeOK, Phases, Ownership, Locks
  <2>3. Legality'
    BY <1>15 DEF ErrorStop, PublishStop, TypeOK, Legality, LegalTargetsOnly
  <2> QED
    BY <2>1, <2>2, <2>3 DEF IInv
<1>16. CASE ErrorJoin
  <2>1. TypeOK'
    BY <1>16 DEF ErrorJoin, TypeOK
  <2>2. (Phases /\ Ownership /\ Locks)'
    BY <1>16 DEF ErrorJoin, TypeOK, Phases, Ownership, Locks
  <2>3. Legality'
    BY <1>16 DEF ErrorJoin, TypeOK, Legality, LegalTargetsOnly
  <2> QED
    BY <2>1, <2>2, <2>3 DEF IInv
<1> QED
    BY <1>1, <1>2, <1>3, <1>4, <1>5, <1>6, <1>7, <1>8, <1>9, <1>10, <1>11, <1>12, <1>13, <1>14, <1>15, <1>16 DEF CallbackStep

LEMMA CycleIInv == IInv /\ Cycle => IInv'
<1> SUFFICES ASSUME TypeOK, Phases, Ownership, Locks, Legality, Cycle PROVE IInv'
    BY DEF IInv
<1> USE HcrAssumption DEF cmVars, linkVars, stateVars, cmdVars, workerVars, robotVars,
        Lives, CmPlaces, WorkerPlaces, Target
<1>1. CASE Read
  <2>1. TypeOK'
    BY <1>1 DEF Read, TypeOK
  <2>2. (Phases /\ Ownership /\ Locks)'
    BY <1>1 DEF Read, TypeOK, Phases, Ownership, Locks
  <2>3. Legality'
    BY <1>1 DEF Read, TypeOK, Legality, LegalTargetsOnly
  <2> QED
    BY <2>1, <2>2, <2>3 DEF IInv
<1>2. ASSUME NEW c \in Positions, Write(c) PROVE IInv'
  <2>1. TypeOK'
    BY <1>2 DEF Write, TypeOK
  <2>2. (Phases /\ Ownership /\ Locks)'
    BY <1>2 DEF Write, TypeOK, Phases, Ownership, Locks
  <2>3. Legality'
    BY <1>2 DEF Write, TypeOK, Legality, LegalTargetsOnly, WriteOpen
  <2> QED
    BY <2>1, <2>2, <2>3 DEF IInv
<1>3. CASE WriteSlot
  <2>1. TypeOK'
    BY <1>3 DEF WriteSlot, TypeOK
  <2>2. (Phases /\ Ownership /\ Locks)'
    BY <1>3 DEF WriteSlot, TypeOK, Phases, Ownership, Locks
  <2>3. Legality'
    BY <1>3 DEF WriteSlot, TypeOK, Legality, LegalTargetsOnly
  <2> QED
    BY <2>1, <2>2, <2>3 DEF IInv
<1> QED
    BY <1>1, <1>2, <1>3 DEF Cycle

LEMMA WorkerStepIInv == IInv /\ WorkerStep => IInv'
<1> SUFFICES ASSUME TypeOK, Phases, Ownership, Locks, Legality, WorkerStep PROVE IInv'
    BY DEF IInv
<1> USE HcrAssumption DEF cmVars, linkVars, stateVars, cmdVars, workerVars, robotVars,
        Lives, CmPlaces, WorkerPlaces, Target
<1>1. CASE WorkerTake
  <2>1. TypeOK'
    BY <1>1 DEF WorkerTake, TypeOK
  <2>2. (Phases /\ Ownership /\ Locks)'
    BY <1>1 DEF WorkerTake, TypeOK, Phases, Ownership, Locks
  <2>3. Legality'
    BY <1>1 DEF WorkerTake, TypeOK, Legality, LegalTargetsOnly
  <2> QED
    BY <2>1, <2>2, <2>3 DEF IInv
<1>2. CASE WorkerExit
  <2>1. TypeOK'
    BY <1>2 DEF WorkerExit, TypeOK
  <2>2. (Phases /\ Ownership /\ Locks)'
    BY <1>2 DEF WorkerExit, TypeOK, Phases, Ownership, Locks
  <2>3. Legality'
    BY <1>2 DEF WorkerExit, TypeOK, Legality, LegalTargetsOnly
  <2> QED
    BY <2>1, <2>2, <2>3 DEF IInv
<1>3. CASE WorkerGate
  <2>1. TypeOK'
    BY <1>3 DEF WorkerGate, WorkerGoesOn, TypeOK
  <2>2. (Phases /\ Ownership /\ Locks)'
    BY <1>3 DEF WorkerGate, WorkerGoesOn, TypeOK, Phases, Ownership, Locks
  <2>3. Legality'
    BY <1>3 DEF WorkerGate, WorkerGoesOn, TypeOK, Legality, LegalTargetsOnly
  <2> QED
    BY <2>1, <2>2, <2>3 DEF IInv
<1>4. CASE WorkerRecheck
  <2>1. TypeOK'
    BY <1>4 DEF WorkerRecheck, WorkerGoesOn, TypeOK
  <2>2. (Phases /\ Ownership /\ Locks)'
    BY <1>4 DEF WorkerRecheck, WorkerGoesOn, TypeOK, Phases, Ownership, Locks
  <2>3. Legality'
    BY <1>4 DEF WorkerRecheck, WorkerGoesOn, TypeOK, Legality, LegalTargetsOnly
  <2> QED
    BY <2>1, <2>2, <2>3 DEF IInv
<1>5. CASE WorkerSend
  <2>1. TypeOK'
    BY <1>5 DEF WorkerSend, TypeOK
  <2>2. (Phases /\ Ownership /\ Locks)'
    BY <1>5 DEF WorkerSend, TypeOK, Phases, Ownership, Locks
  <2>3. Legality'
    BY <1>5 DEF WorkerSend, TypeOK, Legality, LegalTargetsOnly
  <2> QED
    BY <2>1, <2>2, <2>3 DEF IInv
<1>6. CASE WorkerAck
  <2>1. TypeOK'
    BY <1>6 DEF WorkerAck, TypeOK, Ownership
  <2>2. (Phases /\ Ownership /\ Locks)'
    BY <1>6 DEF WorkerAck, TypeOK, Phases, Ownership, Locks
  <2>3. Legality'
    BY <1>6 DEF WorkerAck, TypeOK, Legality, LegalTargetsOnly
  <2> QED
    BY <2>1, <2>2, <2>3 DEF IInv
<1>7. CASE WorkerNoAck
  <2>1. TypeOK'
    BY <1>7 DEF WorkerNoAck, TypeOK
  <2>2. (Phases /\ Ownership /\ Locks)'
    BY <1>7 DEF WorkerNoAck, TypeOK, Phases, Ownership, Locks
  <2>3. Legality'
    BY <1>7 DEF WorkerNoAck, TypeOK, Legality, LegalTargetsOnly
  <2> QED
    BY <2>1, <2>2, <2>3 DEF IInv
<1> QED
    BY <1>1, <1>2, <1>3, <1>4, <1>5, <1>6, <1>7 DEF WorkerStep

LEMMA RxStepIInv == IInv /\ RxStep => IInv'
<1> SUFFICES ASSUME TypeOK, Phases, Ownership, Locks, Legality, RxStep PROVE IInv'
    BY DEF IInv
<1> USE HcrAssumption DEF cmVars, linkVars, stateVars, cmdVars, workerVars, robotVars,
        Lives, CmPlaces, WorkerPlaces, Target
<1>1. CASE OnJointPosition
  <2>1. TypeOK'
    BY <1>1 DEF OnJointPosition, RxReady, TypeOK
  <2>2. (Phases /\ Ownership /\ Locks)'
    BY <1>1 DEF OnJointPosition, RxReady, TypeOK, Phases, Ownership, Locks
  <2>3. Legality'
    BY <1>1 DEF OnJointPosition, RxReady, TypeOK, Legality, LegalTargetsOnly
  <2> QED
    BY <2>1, <2>2, <2>3 DEF IInv
<1>2. ASSUME NEW b \in BOOLEAN, OnOperation(b) PROVE IInv'
  <2>1. TypeOK'
    BY <1>2 DEF OnOperation, RxReady, TypeOK
  <2>2. (Phases /\ Ownership /\ Locks)'
    BY <1>2 DEF OnOperation, RxReady, TypeOK, Phases, Ownership, Locks
  <2>3. Legality'
    BY <1>2 DEF OnOperation, RxReady, TypeOK, Legality, LegalTargetsOnly
  <2> QED
    BY <2>1, <2>2, <2>3 DEF IInv
<1>3. CASE OnCollision
  <2>1. TypeOK'
    BY <1>3 DEF OnCollision, RxReady, TypeOK
  <2>2. (Phases /\ Ownership /\ Locks)'
    BY <1>3 DEF OnCollision, RxReady, TypeOK, Phases, Ownership, Locks
  <2>3. Legality'
    BY <1>3 DEF OnCollision, RxReady, TypeOK, Legality, LegalTargetsOnly
  <2> QED
    BY <2>1, <2>2, <2>3 DEF IInv
<1>4. CASE OnCollisionStop
  <2>1. TypeOK'
    BY <1>4 DEF OnCollisionStop, PublishStop, TypeOK
  <2>2. (Phases /\ Ownership /\ Locks)'
    BY <1>4 DEF OnCollisionStop, PublishStop, TypeOK, Phases, Ownership, Locks
  <2>3. Legality'
    BY <1>4 DEF OnCollisionStop, PublishStop, TypeOK, Legality, LegalTargetsOnly
  <2> QED
    BY <2>1, <2>2, <2>3 DEF IInv
<1>5. CASE OnCollisionClear
  <2>0. latched' \in BOOLEAN
    BY <1>5, Zenon DEF OnCollisionClear, RxReady, TypeOK
  <2>1. TypeOK'
    BY <2>0, <1>5 DEF OnCollisionClear, RxReady, TypeOK
  <2>2. (Phases /\ Ownership /\ Locks)'
    BY <1>5 DEF OnCollisionClear, RxReady, TypeOK, Phases, Ownership, Locks
  <2>3. Legality'
    BY <1>5 DEF OnCollisionClear, RxReady, TypeOK, Legality, LegalTargetsOnly
  <2> QED
    BY <2>1, <2>2, <2>3 DEF IInv
<1>6. CASE OnCollisionClearDrop
  <2>1. TypeOK'
    BY <1>6 DEF OnCollisionClearDrop, TypeOK
  <2>2. (Phases /\ Ownership /\ Locks)'
    BY <1>6 DEF OnCollisionClearDrop, TypeOK, Phases, Ownership, Locks
  <2>3. Legality'
    BY <1>6 DEF OnCollisionClearDrop, TypeOK, Legality, LegalTargetsOnly
  <2> QED
    BY <2>1, <2>2, <2>3 DEF IInv
<1> QED
    BY <1>1, <1>2, <1>3, <1>4, <1>5, <1>6 DEF RxStep

LEMMA EnvironmentIInv == IInv /\ Environment => IInv'
<1> SUFFICES ASSUME TypeOK, Phases, Ownership, Locks, Legality, Environment PROVE IInv'
    BY DEF IInv
<1> USE HcrAssumption DEF cmVars, linkVars, stateVars, cmdVars, workerVars, robotVars,
        Lives, CmPlaces, WorkerPlaces, Target
<1>1. CASE NetDown
  <2>0. net' \in BOOLEAN /\ subs' \in BOOLEAN
    BY <1>1, Zenon DEF NetDown, TypeOK
  <2>1. TypeOK'
    BY <2>0, <1>1 DEF NetDown, TypeOK
  <2>2. (Phases /\ Ownership /\ Locks)'
    BY <1>1 DEF NetDown, TypeOK, Phases, Ownership, Locks
  <2>3. Legality'
    BY <1>1 DEF NetDown, TypeOK, Legality, LegalTargetsOnly
  <2> QED
    BY <2>1, <2>2, <2>3 DEF IInv
<1>2. CASE NetUp
  <2>1. TypeOK'
    BY <1>2 DEF NetUp, TypeOK
  <2>2. (Phases /\ Ownership /\ Locks)'
    BY <1>2 DEF NetUp, TypeOK, Phases, Ownership, Locks
  <2>3. Legality'
    BY <1>2 DEF NetUp, TypeOK, Legality, LegalTargetsOnly
  <2> QED
    BY <2>1, <2>2, <2>3 DEF IInv
<1>3. CASE SamplesStop
  <2>0. fresh' \in BOOLEAN
    BY <1>3, Zenon DEF SamplesStop, TypeOK
  <2>1. TypeOK'
    BY <2>0, <1>3 DEF SamplesStop, TypeOK
  <2>2. (Phases /\ Ownership /\ Locks)'
    BY <1>3 DEF SamplesStop, TypeOK, Phases, Ownership, Locks
  <2>3. Legality'
    BY <1>3 DEF SamplesStop, TypeOK, Legality, LegalTargetsOnly
  <2> QED
    BY <2>1, <2>2, <2>3 DEF IInv
<1>4. CASE ServoOn
  <2>1. TypeOK'
    BY <1>4 DEF ServoOn, TypeOK
  <2>2. (Phases /\ Ownership /\ Locks)'
    BY <1>4 DEF ServoOn, TypeOK, Phases, Ownership, Locks
  <2>3. Legality'
    BY <1>4 DEF ServoOn, TypeOK, Legality, LegalTargetsOnly
  <2> QED
    BY <2>1, <2>2, <2>3 DEF IInv
<1> QED
    BY <1>1, <1>2, <1>3, <1>4 DEF Environment

\* Type correctness and every other part of the invariant hold always.
THEOREM Invariance == Spec => []IInv
<1>1. IInv /\ UNCHANGED vars => IInv'
    BY DEF IInv, TypeOK, Phases, Ownership, Locks, Legality, LegalTargetsOnly, vars, cmVars,
           linkVars, stateVars, cmdVars, workerVars, robotVars
<1>2. IInv /\ [Next]_vars => IInv'
    BY <1>1, RequestIInv, CallbackStepIInv, CycleIInv, WorkerStepIInv, RxStepIInv,
       EnvironmentIInv DEF Next
<1> QED
    BY InitIInv, <1>2, PTL DEF Spec

\* Every variable keeps its type: the buffers hold positions, the slot and the
\* robot's goal a position or nothing.
THEOREM TypeCorrect == Spec => []TypeOK
    BY Invariance, PTL DEF IInv

\* write()'s limit tests cover every target in transit, for any limits: the slot,
\* the worker's copy and what the robot was given.
THEOREM OnlyLegalTargets == Spec => []LegalTargetsOnly
<1>1. IInv => LegalTargetsOnly
    BY DEF IInv, Legality
<1> QED
    BY Invariance, <1>1, PTL

\* on_error silences the instance for good, whatever is configured and activated later.
THEOREM DeadStaysSilent == Spec => []DeadInstanceStaysSilent
<1>1. IInv => DeadInstanceStaysSilent
    BY DEF IInv, Locks, DeadInstanceStaysSilent
<1> QED
    BY Invariance, <1>1, PTL

\* on_activate finds no thread in worker_ when it starts one.
THEOREM NoThreadOverwritten == Spec => []NoWorkerLeftBehind
<1>1. IInv => NoWorkerLeftBehind
    BY DEF IInv, Phases, Ownership, NoWorkerLeftBehind
<1> QED
    BY Invariance, <1>1, PTL

-----------------------------------------------------------------------------
\* on_deactivate alone turns the servo off, after the join.
THEOREM ServoOffIsLast == Spec => ServoOffAfterJoin
<1> DEFINE Late == servo /\ ~servo' => worker = "none"
<1>1. IInv /\ DeactivateServo => Late
    BY DEF IInv, Ownership, DeactivateServo
<1>2. ServoOn => Late
    BY DEF ServoOn
<1>3. Next /\ ~DeactivateServo /\ ~ServoOn => UNCHANGED servo
  <2> SUFFICES ASSUME Next, ~DeactivateServo, ~ServoOn PROVE UNCHANGED servo
    OBVIOUS
  <2>1. CASE Request
    BY <2>1 DEF Request, robotVars,
           Configure, Activate, Deactivate, Cleanup
  <2>2. CASE CallbackStep
    BY <2>2 DEF CallbackStep, robotVars,
           ConfigureProbe, ConfigureStart, ConfigureSampled, ConfigureTimeout, ConfigureStopped, ActivateCheck, ActivateArm, DeactivateLock, DeactivateStop, DeactivateJoin, DeactivateServo, DeactivateDone, CleanupDone, ErrorLock, ErrorStop, ErrorJoin
  <2>3. CASE Cycle
    BY <2>3 DEF Cycle, robotVars,
           Read, Write, WriteSlot
  <2>4. CASE WorkerStep
    BY <2>4 DEF WorkerStep, robotVars,
           WorkerTake, WorkerExit, WorkerGate, WorkerRecheck, WorkerSend, WorkerAck, WorkerNoAck, WorkerGoesOn
  <2>5. CASE RxStep
    BY <2>5 DEF RxStep, robotVars,
           OnJointPosition, OnOperation, OnCollision, OnCollisionStop, OnCollisionClear, OnCollisionClearDrop
  <2>6. CASE Environment
    BY <2>6 DEF Environment, robotVars,
           NetDown, NetUp, SamplesStop, ServoOn
  <2> QED
    BY <2>1, <2>2, <2>3, <2>4, <2>5, <2>6 DEF Next
<1>4. IInv /\ [Next]_vars => [Late]_vars
    BY <1>1, <1>2, <1>3 DEF vars, robotVars
<1> QED
    BY Invariance, <1>4, PTL DEF Spec, ServoOffAfterJoin

-----------------------------------------------------------------------------
(* The refinement of MotionGate: each action maps to a step of the gate or   *)
(* to a stutter.                                                             *)

LEMMA InitGate == Init => Gate!Init
    BY DEF Init, Gate!Init, PastTheTests

LEMMA RequestGate == IInv /\ Request => [Gate!Next]_(Gate!gateVars)
<1> SUFFICES ASSUME IInv, Request PROVE [Gate!Next]_(Gate!gateVars)
    OBVIOUS
<1> USE DEF cmVars, linkVars, stateVars, cmdVars, workerVars, robotVars, PastTheTests,
        Gate!gateVars, Gate!Next, Gate!Open, Gate!Close, Gate!Settle, Gate!Move, Gate!Stop
<1>1. CASE Configure
    BY <1>1 DEF Configure, IInv, TypeOK, Phases, Ownership, Locks, Legality, LegalTargetsOnly, Target
<1>2. CASE Activate
    BY <1>2 DEF Activate, IInv, TypeOK, Phases, Ownership, Locks, Legality, LegalTargetsOnly, Target
<1>3. CASE Deactivate
    BY <1>3 DEF Deactivate, IInv, TypeOK, Phases, Ownership, Locks, Legality, LegalTargetsOnly, Target
<1>4. CASE Cleanup
    BY <1>4 DEF Cleanup, IInv, TypeOK, Phases, Ownership, Locks, Legality, LegalTargetsOnly, Target
<1> QED
    BY <1>1, <1>2, <1>3, <1>4 DEF Request

LEMMA CallbackStepGate == IInv /\ CallbackStep => [Gate!Next]_(Gate!gateVars)
<1> SUFFICES ASSUME IInv, CallbackStep PROVE [Gate!Next]_(Gate!gateVars)
    OBVIOUS
<1> USE DEF cmVars, linkVars, stateVars, cmdVars, workerVars, robotVars, PastTheTests,
        Gate!gateVars, Gate!Next, Gate!Open, Gate!Close, Gate!Settle, Gate!Move, Gate!Stop
<1>1. CASE ConfigureProbe
    BY <1>1 DEF ConfigureProbe, IInv, TypeOK, Phases, Ownership, Locks, Legality, LegalTargetsOnly, Target
<1>2. CASE ConfigureStart
    BY <1>2 DEF ConfigureStart, IInv, TypeOK, Phases, Ownership, Locks, Legality, LegalTargetsOnly, Target
<1>3. CASE ConfigureSampled
    BY <1>3 DEF ConfigureSampled, IInv, TypeOK, Phases, Ownership, Locks, Legality, LegalTargetsOnly, Target
<1>4. CASE ConfigureTimeout
    BY <1>4 DEF ConfigureTimeout, IInv, TypeOK, Phases, Ownership, Locks, Legality, LegalTargetsOnly, Target
<1>5. CASE ConfigureStopped
    BY <1>5 DEF ConfigureStopped, IInv, TypeOK, Phases, Ownership, Locks, Legality, LegalTargetsOnly, Target
<1>6. CASE ActivateCheck
    BY <1>6 DEF ActivateCheck, IInv, TypeOK, Phases, Ownership, Locks, Legality, LegalTargetsOnly, Target
<1>7. ASSUME NEW p \in Positions, ActivateArm(p) PROVE [Gate!Next]_(Gate!gateVars)
    BY <1>7 DEF ActivateArm, SeedBuffer, StartPublishing, StartWorker, IInv, TypeOK, Phases, Ownership, Locks, Legality, LegalTargetsOnly, Target
<1>8. CASE DeactivateLock
    BY <1>8 DEF DeactivateLock, IInv, TypeOK, Phases, Ownership, Locks, Legality, LegalTargetsOnly, Target
<1>9. CASE DeactivateStop
    BY <1>9 DEF DeactivateStop, PublishStop, IInv, TypeOK, Phases, Ownership, Locks, Legality, LegalTargetsOnly, Target
<1>10. CASE DeactivateJoin
    BY <1>10 DEF DeactivateJoin, IInv, TypeOK, Phases, Ownership, Locks, Legality, LegalTargetsOnly, Target
<1>11. CASE DeactivateServo
    BY <1>11 DEF DeactivateServo, IInv, TypeOK, Phases, Ownership, Locks, Legality, LegalTargetsOnly, Target
<1>12. CASE DeactivateDone
    BY <1>12 DEF DeactivateDone, IInv, TypeOK, Phases, Ownership, Locks, Legality, LegalTargetsOnly, Target
<1>13. CASE CleanupDone
    BY <1>13 DEF CleanupDone, IInv, TypeOK, Phases, Ownership, Locks, Legality, LegalTargetsOnly, Target
<1>14. CASE ErrorLock
    BY <1>14 DEF ErrorLock, IInv, TypeOK, Phases, Ownership, Locks, Legality, LegalTargetsOnly, Target
<1>15. CASE ErrorStop
    BY <1>15 DEF ErrorStop, PublishStop, IInv, TypeOK, Phases, Ownership, Locks, Legality, LegalTargetsOnly, Target
<1>16. CASE ErrorJoin
    BY <1>16 DEF ErrorJoin, IInv, TypeOK, Phases, Ownership, Locks, Legality, LegalTargetsOnly, Target
<1> QED
    BY <1>1, <1>2, <1>3, <1>4, <1>5, <1>6, <1>7, <1>8, <1>9, <1>10, <1>11, <1>12, <1>13, <1>14, <1>15, <1>16 DEF CallbackStep

LEMMA CycleGate == IInv /\ Cycle => [Gate!Next]_(Gate!gateVars)
<1> SUFFICES ASSUME IInv, Cycle PROVE [Gate!Next]_(Gate!gateVars)
    OBVIOUS
<1> USE DEF cmVars, linkVars, stateVars, cmdVars, workerVars, robotVars, PastTheTests,
        Gate!gateVars, Gate!Next, Gate!Open, Gate!Close, Gate!Settle, Gate!Move, Gate!Stop
<1>1. CASE Read
    BY <1>1 DEF Read, IInv, TypeOK, Phases, Ownership, Locks, Legality, LegalTargetsOnly, Target
<1>2. ASSUME NEW c \in Positions, Write(c) PROVE [Gate!Next]_(Gate!gateVars)
    BY <1>2 DEF Write, IInv, TypeOK, Phases, Ownership, Locks, Legality, LegalTargetsOnly, Target
<1>3. CASE WriteSlot
    BY <1>3 DEF WriteSlot, IInv, TypeOK, Phases, Ownership, Locks, Legality, LegalTargetsOnly, Target
<1> QED
    BY <1>1, <1>2, <1>3 DEF Cycle

LEMMA WorkerStepGate == IInv /\ WorkerStep => [Gate!Next]_(Gate!gateVars)
<1> SUFFICES ASSUME IInv, WorkerStep PROVE [Gate!Next]_(Gate!gateVars)
    OBVIOUS
<1> USE DEF cmVars, linkVars, stateVars, cmdVars, workerVars, robotVars, PastTheTests,
        Gate!gateVars, Gate!Next, Gate!Open, Gate!Close, Gate!Settle, Gate!Move, Gate!Stop
<1>1. CASE WorkerTake
    BY <1>1 DEF WorkerTake, IInv, TypeOK, Phases, Ownership, Locks, Legality, LegalTargetsOnly, Target
<1>2. CASE WorkerExit
    BY <1>2 DEF WorkerExit, IInv, TypeOK, Phases, Ownership, Locks, Legality, LegalTargetsOnly, Target
<1>3. CASE WorkerGate
    BY <1>3 DEF WorkerGate, WorkerGoesOn, IInv, TypeOK, Phases, Ownership, Locks, Legality, LegalTargetsOnly, Target
<1>4. CASE WorkerRecheck
    BY <1>4 DEF WorkerRecheck, WorkerGoesOn, IInv, TypeOK, Phases, Ownership, Locks, Legality, LegalTargetsOnly, Target
<1>5. CASE WorkerSend
    BY <1>5 DEF WorkerSend, IInv, TypeOK, Phases, Ownership, Locks, Legality, LegalTargetsOnly, Target
<1>6. CASE WorkerAck
    BY <1>6 DEF WorkerAck, IInv, TypeOK, Phases, Ownership, Locks, Legality, LegalTargetsOnly, Target
<1>7. CASE WorkerNoAck
    BY <1>7 DEF WorkerNoAck, IInv, TypeOK, Phases, Ownership, Locks, Legality, LegalTargetsOnly, Target
<1> QED
    BY <1>1, <1>2, <1>3, <1>4, <1>5, <1>6, <1>7 DEF WorkerStep

LEMMA RxStepGate == IInv /\ RxStep => [Gate!Next]_(Gate!gateVars)
<1> SUFFICES ASSUME IInv, RxStep PROVE [Gate!Next]_(Gate!gateVars)
    OBVIOUS
<1> USE DEF cmVars, linkVars, stateVars, cmdVars, workerVars, robotVars, PastTheTests,
        Gate!gateVars, Gate!Next, Gate!Open, Gate!Close, Gate!Settle, Gate!Move, Gate!Stop
<1>1. CASE OnJointPosition
    BY <1>1 DEF OnJointPosition, RxReady, IInv, TypeOK, Phases, Ownership, Locks, Legality, LegalTargetsOnly, Target
<1>2. ASSUME NEW b \in BOOLEAN, OnOperation(b) PROVE [Gate!Next]_(Gate!gateVars)
    BY <1>2 DEF OnOperation, RxReady, IInv, TypeOK, Phases, Ownership, Locks, Legality, LegalTargetsOnly, Target
<1>3. CASE OnCollision
    BY <1>3 DEF OnCollision, RxReady, IInv, TypeOK, Phases, Ownership, Locks, Legality, LegalTargetsOnly, Target
<1>4. CASE OnCollisionStop
    BY <1>4 DEF OnCollisionStop, PublishStop, IInv, TypeOK, Phases, Ownership, Locks, Legality, LegalTargetsOnly, Target
<1>5. CASE OnCollisionClear
    BY <1>5 DEF OnCollisionClear, RxReady, IInv, TypeOK, Phases, Ownership, Locks, Legality, LegalTargetsOnly, Target
<1>6. CASE OnCollisionClearDrop
    BY <1>6 DEF OnCollisionClearDrop, IInv, TypeOK, Phases, Ownership, Locks, Legality, LegalTargetsOnly, Target
<1> QED
    BY <1>1, <1>2, <1>3, <1>4, <1>5, <1>6 DEF RxStep

LEMMA EnvironmentGate == IInv /\ Environment => [Gate!Next]_(Gate!gateVars)
<1> SUFFICES ASSUME IInv, Environment PROVE [Gate!Next]_(Gate!gateVars)
    OBVIOUS
<1> USE DEF cmVars, linkVars, stateVars, cmdVars, workerVars, robotVars, PastTheTests,
        Gate!gateVars, Gate!Next, Gate!Open, Gate!Close, Gate!Settle, Gate!Move, Gate!Stop
<1>1. CASE NetDown
    BY <1>1 DEF NetDown, IInv, TypeOK, Phases, Ownership, Locks, Legality, LegalTargetsOnly, Target
<1>2. CASE NetUp
    BY <1>2 DEF NetUp, IInv, TypeOK, Phases, Ownership, Locks, Legality, LegalTargetsOnly, Target
<1>3. CASE SamplesStop
    BY <1>3 DEF SamplesStop, IInv, TypeOK, Phases, Ownership, Locks, Legality, LegalTargetsOnly, Target
<1>4. CASE ServoOn
    BY <1>4 DEF ServoOn, IInv, TypeOK, Phases, Ownership, Locks, Legality, LegalTargetsOnly, Target
<1> QED
    BY <1>1, <1>2, <1>3, <1>4 DEF Environment

\* The plugin is a motion gate: in every interleaving of the three threads, a target
\* that reaches the robot passes while the gate is open, or is the one that was past
\* the tests of the worker when it closed. After on_error the gate is not opened
\* again, though that one target may still follow.
THEOREM PluginImplementsMotionGate == Spec => ImplementsMotionGate
<1>1. UNCHANGED vars => UNCHANGED Gate!gateVars
    BY DEF vars, cmVars, workerVars, robotVars, Gate!gateVars, PastTheTests
<1>2. IInv /\ [Next]_vars => [Gate!Next]_(Gate!gateVars)
    BY <1>1, RequestGate, CallbackStepGate, CycleGate, WorkerStepGate, RxStepGate,
       EnvironmentGate DEF Next
<1> QED
    BY InitGate, Invariance, <1>2, PTL DEF Spec, Gate!Spec, ImplementsMotionGate
=============================================================================
