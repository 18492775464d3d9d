----------------------------- MODULE JobHistory -----------------------------
(* JobMachine with history variables: whether any human command but Start    *)
(* was accepted, and how long the job has really been waiting for a review.  *)
EXTENDS JobMachine

VARIABLES
    touched,    \* some human command but Start was accepted
    held,       \* the review was paused
    awaited     \* ticks the job has waited for the review

HVars == <<vars, touched, held, awaited>>

HInit == Init /\ touched = FALSE /\ held = FALSE /\ awaited = 0

HNext ==
    \/ /\ Human /\ touched' = TRUE /\ UNCHANGED awaited
       /\ held' = (held \/ (state = "AwaitingReview" /\ state' = "Paused"))
    \/ /\ TimePasses /\ UNCHANGED <<touched, held>>
       /\ awaited' = IF state = "AwaitingReview" THEN awaited + 1 ELSE awaited
    \/ (Start \/ Pipeline \/ Tick) /\ UNCHANGED <<touched, held, awaited>>

HSpec == HInit /\ [][HNext]_HVars /\ Fairness

-----------------------------------------------------------------------------
\* AC1 can be judged from the log: it is empty exactly when nobody but the
\* pipeline and the clock moved the job after Start.
InterventionsAreEvidence == touched <=> interventions > 0

\* The review gives its person the whole review_timeout_s before the job goes on
\* by itself, unless somebody paused it: Tick measures from the entry, and the
\* clock runs on through a pause.
ReviewerGetsFullTime ==
    [][state = "AwaitingReview" /\ state' # state /\ interventions' = interventions
         => held \/ awaited >= ReviewTimeout]_HVars

\* F8.1 of the process documents: the job stops for the review when the share is
\* reached. Only a job with a failed stroke may get past drawing beyond the share
\* unreviewed: StrokeFailed counts a stroke and does not look at the review.
ReviewSkippedOnlyByFailure ==
    state \in {"Capturing", "Completed"} /\ policy.review /\ plan > 0
        /\ strokesDone >= Trigger(plan) => reviewDone \/ failed > 0
=============================================================================
