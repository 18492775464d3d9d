----------------------------- MODULE JobMachine -----------------------------
(* atlier::job::Machine (job_core): one job, driven by human commands, by    *)
(* facts the pipeline reports and by Tick. Calls come in any order; a call   *)
(* the state does not admit is logged and changes nothing, so it is a        *)
(* stutter here and an action is a call that is accepted.                    *)
EXTENDS Integers

CONSTANTS
    Policies,         \* the Policy values a machine may be built with
    PlanSizes,        \* stroke counts a plan may have
    RatioNum,         \* review_at_ratio = RatioNum / RatioDen
    RatioDen,
    ReviewTimeout,    \* review_timeout_s, in ticks of the clock
    MaxStrokes,       \* bound: strokes reported per job, beyond the plan too
    MaxInterventions  \* bound: human commands other than Start per job

\* Policy::Validate refuses a ratio outside (0, 1) and a negative timeout.
ASSUME JobAssumption ==
    /\ Policies \subseteq [review: BOOLEAN, defaultContinue: BOOLEAN, capture: BOOLEAN]
    /\ PlanSizes \subseteq Nat
    /\ RatioDen \in Nat /\ RatioNum \in Nat /\ 0 < RatioNum /\ RatioNum < RatioDen
    /\ ReviewTimeout \in Nat /\ MaxStrokes \in Nat /\ MaxInterventions \in Nat

VARIABLES
    policy,         \* policy_, fixed by the constructor
    state,          \* record_.state
    resumeTo,       \* resume_to_
    reviewDone,     \* review_done_
    sinceReview,    \* now_s - review_entered_at_s_, cut off at ReviewTimeout
    plan,           \* record_.plan.stroke_count
    strokesDone,    \* record_.strokes_done
    failed,         \* record_.failed_strokes.size()
    abortedAt,      \* record_.aborted_at_stroke
    interventions,  \* record_.interventions.size()
    last            \* the command and stroke of the last intervention

record == <<plan, strokesDone, failed, abortedAt, interventions, last>>
vars == <<policy, state, resumeTo, reviewDone, sinceReview, record>>

Terminal == {"Rejected", "Completed", "Aborted", "Failed"}
Working == {"Planning", "Drawing", "AwaitingReview", "Capturing"}
States == Terminal \cup Working \cup {"Received", "Ready", "Paused"}
Commands == {"EmergencyStop", "Pause", "Resume", "ReviewContinue", "ReviewAbort"}
NoIntervention == [command |-> "none", atStroke |-> -1]

TypeOK ==
    /\ policy \in Policies
    /\ state \in States /\ resumeTo \in Working
    /\ reviewDone \in BOOLEAN /\ sinceReview \in 0..ReviewTimeout
    /\ plan \in Nat /\ strokesDone \in Nat /\ failed \in Nat
    /\ abortedAt \in Int /\ interventions \in Nat
    /\ last \in [command: Commands \cup {"none"}, atStroke: Int]

Init ==
    /\ policy \in Policies
    /\ state = "Received" /\ resumeTo = "Drawing"
    /\ reviewDone = FALSE /\ sinceReview = 0
    /\ plan = 0 /\ strokesDone = 0 /\ failed = 0 /\ abortedAt = -1
    /\ interventions = 0 /\ last = NoIntervention

\* ceil(n * review_at_ratio)
Trigger(n) == (n * RatioNum + RatioDen - 1) \div RatioDen

-----------------------------------------------------------------------------
(* Human commands.                                                           *)

RecordIntervention(command) ==
    /\ interventions < MaxInterventions
    /\ interventions' = interventions + 1
    /\ last' = [command |-> command,
                atStroke |-> IF state \in {"Received", "Ready"} THEN -1 ELSE strokesDone]

Start ==
    /\ state = "Ready" /\ state' = "Planning"
    /\ UNCHANGED <<policy, resumeTo, reviewDone, sinceReview, record>>

EmergencyStop ==
    /\ state \notin Terminal
    /\ abortedAt' = strokesDone
    /\ RecordIntervention("EmergencyStop")
    /\ state' = "Aborted"
    /\ UNCHANGED <<policy, resumeTo, reviewDone, sinceReview, plan, strokesDone, failed>>

\* Mutant of Pause: a second pause is let through.
PauseAgain ==
    /\ state \in Working \cup {"Paused"}
    /\ resumeTo' = state
    /\ RecordIntervention("Pause")
    /\ state' = "Paused"
    /\ UNCHANGED <<policy, reviewDone, sinceReview, plan, strokesDone, failed, abortedAt>>

Pause ==
    /\ state \in Working
    /\ resumeTo' = state
    /\ RecordIntervention("Pause")
    /\ state' = "Paused"
    /\ UNCHANGED <<policy, reviewDone, sinceReview, plan, strokesDone, failed, abortedAt>>

Resume ==
    /\ state = "Paused"
    /\ RecordIntervention("Resume")
    /\ state' = resumeTo
    /\ UNCHANGED <<policy, resumeTo, reviewDone, sinceReview, plan, strokesDone, failed,
                   abortedAt>>

\* Mutant of ReviewContinue: not recorded, as Start is not.
ReviewContinueUnrecorded ==
    /\ state = "AwaitingReview" /\ state' = "Drawing"
    /\ UNCHANGED <<policy, resumeTo, reviewDone, sinceReview, record>>

ReviewContinue ==
    /\ state = "AwaitingReview"
    /\ RecordIntervention("ReviewContinue")
    /\ state' = "Drawing"
    /\ UNCHANGED <<policy, resumeTo, reviewDone, sinceReview, plan, strokesDone, failed,
                   abortedAt>>

\* Mutant of ReviewAbort: the stroke of the abort is not kept.
ReviewAbortNowhere ==
    /\ state = "AwaitingReview"
    /\ RecordIntervention("ReviewAbort")
    /\ state' = "Aborted"
    /\ UNCHANGED <<policy, resumeTo, reviewDone, sinceReview, plan, strokesDone, failed,
                   abortedAt>>

ReviewAbort ==
    /\ state = "AwaitingReview"
    /\ abortedAt' = strokesDone
    /\ RecordIntervention("ReviewAbort")
    /\ state' = "Aborted"
    /\ UNCHANGED <<policy, resumeTo, reviewDone, sinceReview, plan, strokesDone, failed>>

-----------------------------------------------------------------------------
(* Facts from the pipeline.                                                  *)

\* A call that only moves the job from one state to another.
Moves(from, to) ==
    /\ state = from /\ state' = to
    /\ UNCHANGED <<policy, resumeTo, reviewDone, sinceReview, record>>

InputAccepted == Moves("Received", "Ready")
InputRejected == Moves("Received", "Rejected")

PlanReady(n) ==
    /\ state = "Planning" /\ state' = "Drawing"
    /\ plan' = n
    /\ UNCHANGED <<policy, resumeTo, reviewDone, sinceReview, strokesDone, failed, abortedAt,
                   interventions, last>>

PlanFailed == Moves("Planning", "Failed")

\* Mutant of ReviewDue: an empty plan counts as reached.
ReviewDueEmptyPlan(done) == ~reviewDone /\ policy.review /\ done >= Trigger(plan)

\* Mutant of ReviewDue: the stroke that reaches the share is not counted yet.
ReviewDueLate(done) == ~reviewDone /\ policy.review /\ plan > 0 /\ done > Trigger(plan)

\* The share of the plan at which the one review of the job falls due.
ReviewDue(done) == ~reviewDone /\ policy.review /\ plan > 0 /\ done >= Trigger(plan)

\* Mutant of StrokeDone: the review is not marked as done.
StrokeDoneReviewsAgain ==
    /\ state = "Drawing" /\ strokesDone < MaxStrokes
    /\ strokesDone' = strokesDone + 1
    /\ IF ReviewDue(strokesDone')
       THEN state' = "AwaitingReview" /\ sinceReview' = 0
       ELSE UNCHANGED <<state, sinceReview>>
    /\ UNCHANGED <<policy, resumeTo, reviewDone, plan, failed, abortedAt, interventions, last>>

StrokeDone ==
    /\ state = "Drawing" /\ strokesDone < MaxStrokes
    /\ strokesDone' = strokesDone + 1
    /\ IF ReviewDue(strokesDone')
       THEN state' = "AwaitingReview" /\ reviewDone' = TRUE /\ sinceReview' = 0
       ELSE UNCHANGED <<state, reviewDone, sinceReview>>
    /\ UNCHANGED <<policy, resumeTo, plan, failed, abortedAt, interventions, last>>

\* Counts as a stroke, but does not look at the review.
StrokeFailed ==
    /\ state = "Drawing" /\ strokesDone < MaxStrokes
    /\ failed' = failed + 1 /\ strokesDone' = strokesDone + 1
    /\ UNCHANGED <<policy, state, resumeTo, reviewDone, sinceReview, plan, abortedAt,
                   interventions, last>>

DrawingDone == Moves("Drawing", IF policy.capture THEN "Capturing" ELSE "Completed")
CaptureDone == Moves("Capturing", "Completed")

-----------------------------------------------------------------------------
(* The clock the caller passes in as now_s, and the Tick that reads it.      *)

TimePasses ==
    /\ reviewDone /\ sinceReview < ReviewTimeout
    /\ sinceReview' = sinceReview + 1
    /\ UNCHANGED <<policy, state, resumeTo, reviewDone, record>>

\* Mutant of Tick: knows only the automatic "continue".
TickOnlyContinues ==
    /\ state = "AwaitingReview" /\ sinceReview >= ReviewTimeout
    /\ policy.defaultContinue /\ state' = "Drawing"
    /\ UNCHANGED <<policy, resumeTo, reviewDone, sinceReview, record>>

\* Mutant of Tick: one tick early.
TickEarly ==
    /\ state = "AwaitingReview" /\ sinceReview + 1 >= ReviewTimeout
    /\ IF policy.defaultContinue
       THEN state' = "Drawing" /\ UNCHANGED abortedAt
       ELSE state' = "Aborted" /\ abortedAt' = strokesDone
    /\ UNCHANGED <<policy, resumeTo, reviewDone, sinceReview, plan, strokesDone, failed,
                   interventions, last>>

\* No answer in time: go on or abort as the policy says; not an intervention.
Tick ==
    /\ state = "AwaitingReview" /\ sinceReview >= ReviewTimeout
    /\ IF policy.defaultContinue
       THEN state' = "Drawing" /\ UNCHANGED abortedAt
       ELSE state' = "Aborted" /\ abortedAt' = strokesDone
    /\ UNCHANGED <<policy, resumeTo, reviewDone, sinceReview, plan, strokesDone, failed,
                   interventions, last>>

-----------------------------------------------------------------------------
Human == EmergencyStop \/ Pause \/ Resume \/ ReviewContinue \/ ReviewAbort

Planner == PlanFailed \/ \E n \in PlanSizes : PlanReady(n)
Finish == DrawingDone \/ CaptureDone
Pipeline == InputAccepted \/ InputRejected \/ Planner \/ StrokeDone \/ StrokeFailed \/ Finish
Clock == TimePasses \/ Tick

Next == Start \/ Human \/ Pipeline \/ Clock

Spec == Init /\ [][Next]_vars

\* The pipeline reports a plan and, while the job draws or takes the picture, in
\* the end reports that too; the clock runs and Tick is called periodically.
\* Nothing is assumed of people, or of how many strokes are reported.
Fairness == WF_vars(Planner) /\ WF_vars(Finish) /\ WF_vars(TimePasses) /\ WF_vars(Tick)

-----------------------------------------------------------------------------
\* An aborted job says why and where: either the last human command stopped it,
\* and both places that record the stroke agree, or the review ran out of time
\* under a policy that aborts.
AbortIsExplained ==
    state = "Aborted" =>
        \/ /\ last.command \in {"EmergencyStop", "ReviewAbort"}
           /\ abortedAt = strokesDone /\ last.atStroke \in {abortedAt, -1}
        \/ /\ ~policy.defaultContinue /\ reviewDone
           /\ abortedAt = strokesDone

\* A review interrupts the job only past the planned share, with strokes counted
\* and never in a job whose policy has it off; a pause keeps it waiting.
ReviewIsDue ==
    state = "AwaitingReview" \/ (state = "Paused" /\ resumeTo = "AwaitingReview") =>
        policy.review /\ reviewDone /\ plan > 0 /\ strokesDone >= Trigger(plan)

\* The machine goes through a job as JobLifecycle lays it out.
Life == INSTANCE JobLifecycle WITH
    phase <- state,
    saved <- IF state = "Paused" THEN resumeTo ELSE state,
    reviewed <- reviewDone

ImplementsLifecycle == Life!Spec

\* A started job ends by itself unless someone pauses it.
JobEnds == state = "Planning" ~> state \in Terminal \cup {"Paused"}
=============================================================================
