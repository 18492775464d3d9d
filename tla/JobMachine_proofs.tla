-------------------------- MODULE JobMachine_proofs -------------------------
(* JobMachine and JobHistory for every policy, plan, review share and bound. *)
EXTENDS JobHistory, TLAPS

IInv == TypeOK /\ AbortIsExplained /\ ReviewIsDue

LEMMA InitIInv == Init => IInv
<1> SUFFICES ASSUME Init PROVE IInv
    OBVIOUS
<1>1. reviewDone \in BOOLEAN
    BY Zenon DEF Init
<1>2. TypeOK
    BY <1>1, JobAssumption DEF Init, TypeOK, States, Terminal, Working, Commands,
       NoIntervention
<1>3. AbortIsExplained /\ ReviewIsDue
    BY DEF Init, AbortIsExplained, ReviewIsDue
<1> QED
    BY <1>2, <1>3 DEF IInv

LEMMA HumanIInv == IInv /\ Human => IInv'
<1> SUFFICES ASSUME IInv, Human PROVE IInv'
    OBVIOUS
<1> USE JobAssumption DEF IInv, TypeOK, AbortIsExplained, ReviewIsDue, States, Terminal,
        Working, Commands, RecordIntervention, record
<1>1. CASE EmergencyStop
    BY <1>1 DEF EmergencyStop
<1>2. CASE Pause
    BY <1>2 DEF Pause
<1>3. CASE Resume
    BY <1>3 DEF Resume
<1>4. CASE ReviewContinue
    BY <1>4 DEF ReviewContinue
<1>5. CASE ReviewAbort
    BY <1>5 DEF ReviewAbort
<1> QED
    BY <1>1, <1>2, <1>3, <1>4, <1>5 DEF Human

LEMMA PipelineIInv == IInv /\ Pipeline => IInv'
<1> SUFFICES ASSUME IInv, Pipeline PROVE IInv'
    OBVIOUS
<1> USE JobAssumption DEF IInv, TypeOK, AbortIsExplained, ReviewIsDue, States, Terminal,
        Working, Commands, record, Moves
<1>1. CASE InputAccepted
    BY <1>1 DEF InputAccepted
<1>2. CASE InputRejected
    BY <1>2 DEF InputRejected
<1>3. CASE PlanFailed
    BY <1>3 DEF PlanFailed
<1>4. ASSUME NEW n \in PlanSizes, PlanReady(n) PROVE IInv'
    BY <1>4 DEF PlanReady
<1>5. CASE StrokeDone
  <2>1. TypeOK'
    <3>1. CASE ReviewDue(strokesDone')
        BY <1>5, <3>1 DEF StrokeDone
    <3>2. CASE ~ReviewDue(strokesDone')
        BY <1>5, <3>2 DEF StrokeDone
    <3> QED
        BY <3>1, <3>2
  <2>2. ReviewIsDue'
      BY <1>5 DEF StrokeDone, ReviewDue
  <2>3. AbortIsExplained'
      BY <1>5 DEF StrokeDone
  <2> QED
      BY <2>1, <2>2, <2>3
<1>6. CASE StrokeFailed
    BY <1>6 DEF StrokeFailed
<1>7. CASE DrawingDone
    BY <1>7 DEF DrawingDone
<1>8. CASE CaptureDone
    BY <1>8 DEF CaptureDone
<1> QED
    BY <1>1, <1>2, <1>3, <1>4, <1>5, <1>6, <1>7, <1>8 DEF Pipeline, Planner, Finish

LEMMA ClockIInv == IInv /\ (Start \/ Clock) => IInv'
<1> SUFFICES ASSUME IInv, Start \/ Clock PROVE IInv'
    OBVIOUS
<1> USE JobAssumption DEF IInv, TypeOK, AbortIsExplained, ReviewIsDue, States, Terminal,
        Working, Commands, record
<1>1. CASE Start
    BY <1>1 DEF Start
<1>2. CASE TimePasses
    BY <1>2 DEF TimePasses
<1>3. CASE Tick
    BY <1>3 DEF Tick
<1> QED
    BY <1>1, <1>2, <1>3 DEF Clock

\* Types, the reason of every abort and the reason of every review: each call of
\* Machine keeps them, in whatever order the calls come.
THEOREM Invariance == Spec => []IInv
<1>1. IInv /\ UNCHANGED vars => IInv'
    BY DEF IInv, TypeOK, AbortIsExplained, ReviewIsDue, vars, record
<1>2. IInv /\ [Next]_vars => IInv'
    BY <1>1, HumanIInv, PipelineIInv, ClockIInv DEF Next
<1> QED
    BY InitIInv, <1>2, PTL DEF Spec

\* Every field of the record keeps its type.
THEOREM TypeCorrect == Spec => []TypeOK
    BY Invariance, PTL DEF IInv

\* Whatever the calls, an aborted job says why and at which stroke.
THEOREM AbortsExplained == Spec => []AbortIsExplained
    BY Invariance, PTL DEF IInv

\* Whatever the calls, a review is under way only where the policy wants one.
THEOREM ReviewsDue == Spec => []ReviewIsDue
    BY Invariance, PTL DEF IInv

-----------------------------------------------------------------------------
(* JobLifecycle: each accepted call is an edge of the life or a stutter.     *)

LEMMA InitLife == Init => Life!Init
    BY DEF Init, Life!Init

LEMMA StepLife == TypeOK /\ [Next]_vars => [Life!Next]_(Life!lifeVars)
<1> SUFFICES ASSUME TypeOK, [Next]_vars PROVE [Life!Next]_(Life!lifeVars)
    OBVIOUS
<1> USE DEF TypeOK, Working, Terminal, States, record, Life!Next, Life!lifeVars, Life!Advance,
        Life!Hold, Life!GiveBack, Life!Abort, Life!Edges, Life!Ended, Moves
<1>1. CASE Start
    BY <1>1 DEF Start
<1>2. CASE Human
    BY <1>2 DEF Human, EmergencyStop, Pause, Resume, ReviewContinue, ReviewAbort
<1>3. CASE Pipeline
  <2>1. CASE InputAccepted \/ InputRejected \/ Finish
      BY <2>1 DEF InputAccepted, InputRejected, Finish, DrawingDone, CaptureDone
  <2>2. CASE Planner
      BY <2>2 DEF Planner, PlanFailed, PlanReady
  <2>3. CASE StrokeDone \/ StrokeFailed
      BY <2>3 DEF StrokeDone, StrokeFailed, ReviewDue
  <2> QED
      BY <1>3, <2>1, <2>2, <2>3 DEF Pipeline
<1>4. CASE Clock
    BY <1>4 DEF Clock, TimePasses, Tick
<1>5. CASE UNCHANGED vars
    BY <1>5 DEF vars
<1> QED
    BY <1>1, <1>2, <1>3, <1>4, <1>5 DEF Next

\* The machine implements the life of a job: terminal states are final, a resume
\* gives back the interrupted phase, and there is at most one review.
THEOREM MachineImplementsLifecycle == Spec => ImplementsLifecycle
    BY InitLife, TypeCorrect, StepLife, PTL DEF Spec, Life!Spec, ImplementsLifecycle

-----------------------------------------------------------------------------
\* The intervention log is evidence for AC1: it is empty exactly when no human
\* command but Start was accepted.
THEOREM EvidenceIsComplete == HSpec => []InterventionsAreEvidence
<1> DEFINE Evidence == interventions \in Nat /\ InterventionsAreEvidence
<1>1. HInit => Evidence
    BY DEF HInit, Init, InterventionsAreEvidence
<1>2. Evidence /\ [HNext]_HVars => Evidence'
  <2> SUFFICES ASSUME Evidence, [HNext]_HVars PROVE Evidence'
      OBVIOUS
  <2> USE DEF InterventionsAreEvidence, record, Moves
  <2>1. CASE Human /\ touched' = TRUE
      BY <2>1 DEF Human, EmergencyStop, Pause, Resume, ReviewContinue, ReviewAbort,
         RecordIntervention
  <2>2. CASE TimePasses /\ UNCHANGED touched
      BY <2>2 DEF TimePasses
  <2>3. CASE (Start \/ Pipeline \/ Tick) /\ UNCHANGED <<touched, held, awaited>>
      BY <2>3 DEF Start, Pipeline, Tick, InputAccepted, InputRejected, Planner, PlanFailed,
         PlanReady, StrokeDone, StrokeFailed, Finish, DrawingDone, CaptureDone
  <2>4. CASE UNCHANGED HVars
      BY <2>4 DEF HVars, vars
  <2> QED
      BY <2>1, <2>2, <2>3, <2>4 DEF HNext
<1>3. Evidence => InterventionsAreEvidence
    OBVIOUS
<1> QED
    BY <1>1, <1>2, <1>3, PTL DEF HSpec

-----------------------------------------------------------------------------
(* The review: its full time, and what may skip it.                          *)

\* While nobody pauses it, the job waits as long as the clock of the review says.
WaitInv ==
    /\ awaited \in Nat /\ held \in BOOLEAN
    /\ ~reviewDone => awaited = 0
    /\ state = "AwaitingReview" /\ ~held => awaited >= sinceReview
    /\ state = "Paused" /\ resumeTo = "AwaitingReview" => held

\* No stroke is counted before the drawing, and a job past its share has been
\* reviewed unless a stroke failed.
ShareInv ==
    /\ state \in {"Received", "Ready", "Planning"}
         \/ (state = "Paused" /\ resumeTo = "Planning") => strokesDone = 0
    /\ policy.review /\ plan > 0 /\ strokesDone >= Trigger(plan) => reviewDone \/ failed > 0

RInv == TypeOK /\ WaitInv /\ ShareInv

LEMMA TriggerPositive == \A n \in Nat : n > 0 => Trigger(n) >= 1
<1> SUFFICES ASSUME NEW n \in Nat, n > 0 PROVE Trigger(n) >= 1
    OBVIOUS
<1>1. n * RatioNum >= 1 /\ n * RatioNum \in Nat
    BY JobAssumption
<1>2. \A m \in Nat : m >= 1 => (m + RatioDen - 1) \div RatioDen >= 1
    BY JobAssumption
<1> QED
    BY <1>1, <1>2 DEF Trigger

LEMMA HistoryStepIsStep == [HNext]_HVars => [Next]_vars
    BY DEF HNext, HVars, Next, Clock

LEMMA HumanRInv == RInv /\ Human /\ touched' = TRUE /\ UNCHANGED awaited
                     /\ held' = (held \/ (state = "AwaitingReview" /\ state' = "Paused"))
                   => WaitInv' /\ ShareInv'
<1> SUFFICES ASSUME RInv, Human, UNCHANGED awaited,
                    held' = (held \/ (state = "AwaitingReview" /\ state' = "Paused"))
             PROVE WaitInv' /\ ShareInv'
    OBVIOUS
<1>0. held' \in BOOLEAN
    BY Zenon DEF RInv, WaitInv
<1> USE <1>0 DEF RInv, TypeOK, WaitInv, ShareInv, RecordIntervention, record, Working, States, Terminal,
        Trigger
<1>1. CASE EmergencyStop
    BY <1>1 DEF EmergencyStop
<1>2. CASE Pause
    BY <1>2 DEF Pause
<1>3. CASE Resume
    BY <1>3 DEF Resume
<1>4. CASE ReviewContinue
    BY <1>4 DEF ReviewContinue
<1>5. CASE ReviewAbort
    BY <1>5 DEF ReviewAbort
<1> QED
    BY <1>1, <1>2, <1>3, <1>4, <1>5 DEF Human

LEMMA MachineRInv == RInv /\ (Start \/ Pipeline \/ Tick) /\ UNCHANGED <<held, awaited>>
                     => WaitInv' /\ ShareInv'
<1> SUFFICES ASSUME RInv, Start \/ Pipeline \/ Tick, UNCHANGED <<held, awaited>>
             PROVE WaitInv' /\ ShareInv'
    OBVIOUS
<1>0. held' \in BOOLEAN
    BY Zenon DEF RInv, WaitInv
<1> USE <1>0 DEF RInv, TypeOK, WaitInv, ShareInv, record, Moves, Working, States, Terminal
<1>1. CASE Start
    BY <1>1 DEF Start, Trigger
<1>2. CASE Tick
    BY <1>2 DEF Tick, Trigger
<1>3. CASE InputAccepted \/ InputRejected \/ PlanFailed \/ Finish
    BY <1>3 DEF InputAccepted, InputRejected, PlanFailed, Finish, DrawingDone, CaptureDone, Trigger
<1>4. ASSUME NEW n \in PlanSizes, PlanReady(n) PROVE WaitInv' /\ ShareInv'
  <2>1. n > 0 => Trigger(n) >= 1
      BY JobAssumption, TriggerPositive
  <2>2. strokesDone' = 0 /\ plan' = n
      BY <1>4 DEF PlanReady
  <2>3. policy'.review /\ plan' > 0 /\ strokesDone' >= Trigger(plan)' => FALSE
    <3>1. Trigger(plan)' = Trigger(n)
        BY <2>2 DEF Trigger
    <3>2. Trigger(n) \in Int
        BY JobAssumption DEF Trigger
    <3> QED
        BY <2>1, <2>2, <3>1, <3>2
  <2>4. WaitInv'
      BY <1>4 DEF PlanReady
  <2> QED
      BY <1>4, <2>3, <2>4 DEF PlanReady
<1>5. CASE StrokeDone
  <2>1. CASE ReviewDue(strokesDone')
      BY <1>5, <2>1 DEF StrokeDone, ReviewDue
  <2>2. CASE ~ReviewDue(strokesDone')
      BY <1>5, <2>2 DEF StrokeDone, ReviewDue, Trigger
  <2> QED
      BY <2>1, <2>2
<1>6. CASE StrokeFailed
    BY <1>6 DEF StrokeFailed, Trigger
<1> QED
    BY <1>1, <1>2, <1>3, <1>4, <1>5, <1>6 DEF Pipeline, Planner

LEMMA ReviewInvariance == HSpec => []RInv
<1>1. HInit => RInv
  <2> SUFFICES ASSUME HInit PROVE RInv
      OBVIOUS
  <2>1. TypeOK
      BY InitIInv DEF HInit, IInv
  <2>2. held \in BOOLEAN
      BY Zenon DEF HInit
  <2>3. plan = 0 /\ strokesDone = 0 /\ awaited = 0 /\ state = "Received" /\ ~reviewDone
      BY DEF HInit, Init
  <2> QED
      BY <2>1, <2>2, <2>3 DEF RInv, WaitInv, ShareInv
<1>2. RInv /\ [HNext]_HVars => WaitInv' /\ ShareInv'
  <2> SUFFICES ASSUME RInv, [HNext]_HVars PROVE WaitInv' /\ ShareInv'
      OBVIOUS
  <2>1. CASE TimePasses /\ UNCHANGED <<touched, held>>
             /\ awaited' = IF state = "AwaitingReview" THEN awaited + 1 ELSE awaited
      BY <2>1 DEF TimePasses, RInv, TypeOK, WaitInv, ShareInv, record, Trigger
  <2>2. CASE UNCHANGED HVars
      BY <2>2 DEF HVars, vars, record, RInv, WaitInv, ShareInv, Trigger
  <2> QED
      BY <2>1, <2>2, HumanRInv, MachineRInv DEF HNext
<1>3. HSpec => []TypeOK
  <2>1. HInit /\ [][HNext]_HVars => Init /\ [][Next]_vars
      BY HistoryStepIsStep, PTL DEF HInit
  <2> QED
      BY <2>1, TypeCorrect, PTL DEF HSpec, Spec
<1>4. RInv <=> TypeOK /\ WaitInv /\ ShareInv
    BY DEF RInv
<1> QED
    BY <1>1, <1>2, <1>3, <1>4, PTL DEF HSpec

\* Whatever the calls, a review that nobody pauses waits review_timeout_s before
\* the job goes on or aborts by itself.
THEOREM FullTimeUnlessPaused == HSpec => ReviewerGetsFullTime
<1>1. RInv /\ [HNext]_HVars =>
        [state = "AwaitingReview" /\ state' # state /\ interventions' = interventions
            => held \/ awaited >= ReviewTimeout]_HVars
  <2> SUFFICES ASSUME RInv, HNext, state = "AwaitingReview", state' # state,
                      interventions' = interventions
               PROVE held \/ awaited >= ReviewTimeout
      OBVIOUS
  <2> USE DEF RInv, TypeOK, WaitInv, record, Moves
  <2>1. ~Human
      BY DEF Human, EmergencyStop, Pause, Resume, ReviewContinue, ReviewAbort, RecordIntervention
  <2>2. ~TimePasses /\ ~Start /\ ~Pipeline
      BY DEF TimePasses, Start, Pipeline, InputAccepted, InputRejected, Planner, PlanFailed,
         PlanReady, StrokeDone, StrokeFailed, Finish, DrawingDone, CaptureDone
  <2>3. Tick
      BY <2>1, <2>2 DEF HNext
  <2> QED
      BY <2>3, JobAssumption DEF Tick
<1> QED
    BY <1>1, ReviewInvariance, PTL DEF HSpec, ReviewerGetsFullTime

\* For every plan and share: past the share without a review only with a failed
\* stroke.
THEOREM SkipNeedsFailure == HSpec => []ReviewSkippedOnlyByFailure
<1>1. RInv => ReviewSkippedOnlyByFailure
    BY DEF RInv, ShareInv, ReviewSkippedOnlyByFailure
<1> QED
    BY <1>1, ReviewInvariance, PTL
=============================================================================
