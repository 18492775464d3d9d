---------------------------- MODULE JobScenarios ----------------------------
(* The two programs that drive a job machine in this commit: job_cli, which  *)
(* plays its nine scenarios, and the self-check of the job_manager node. A   *)
(* scenario is a script of calls on a virtual clock; calls the machine does  *)
(* not admit are refused and logged. Times are in seconds.                   *)
EXTENDS JobMachine, Sequences

CONSTANTS
    Strokes,      \* values of --strokes
    StrokeTime,   \* options.stroke_time_s
    PlanTime,     \* options.plan_time_s
    MaxNow        \* bound: the virtual clock of one scenario

\* Nothing takes less than no time, and the review_at_ratio of policy.hpp (0.5),
\* which job_cli leaves as it is, lies past the third at which "estop" stops.
ASSUME ScenarioAssumption ==
    /\ Strokes \subseteq Int /\ StrokeTime \in Nat /\ PlanTime \in Nat
    /\ RatioDen < 3 * RatioNum

VARIABLES
    scenario,     \* options.scenario
    strokes,      \* options.strokes, or the plan of the self-check
    queue,        \* the scenarios still to run, the running one first
    todo,         \* what is left of its script
    slept,        \* now_s has been advanced for the call that comes next
    now,          \* now_s
    startedAt,    \* record_.started_at_s
    endedAt,      \* record_.ended_at_s
    history,      \* history_
    walked,       \* the edges drawn by the reports so far
    exit          \* the exit status; -1 while the program runs

machine == vars
stamps == <<startedAt, endedAt, history>>
program == <<scenario, strokes, queue, walked, exit>>
sessionVars == <<machine, stamps, program, todo, slept, now>>

-----------------------------------------------------------------------------
(* Scripts. A step lets the clock advance by wait and makes one call; Draw   *)
(* repeats its call until target strokes are counted or the job stops.       *)

After(seconds, call) == [wait |-> seconds, call |-> call, target |-> 0, failAt |-> {}]
Draw(target, failAt) ==
    [wait |-> StrokeTime, call |-> "Draw", target |-> target, failAt |-> failAt]

OpenJob == <<After(0, "InputAccepted"), After(0, "Start"), After(PlanTime, "PlanReady")>>
DrawAll(n) == OpenJob \o <<Draw(n, {})>>
Photograph == <<After(0, "DrawingDone"), After(8, "CaptureDone")>>

kScenarios == <<"happy", "reject", "plan_fail", "estop", "pause", "review_continue",
                "review_abort", "timeout", "stroke_fail">>
Scenarios == {kScenarios[i] : i \in DOMAIN kScenarios}

\* job_manager's RunSelfCheck draws until the job stops by itself.
RunSelfCheck(n) == DrawAll(n)

Script(n) == [
    happy |-> DrawAll(n) \o <<After(0, "DrawingDone")>>,
    reject |-> <<After(0, "InputRejected"), After(0, "Start")>>,
    plan_fail |-> <<After(0, "InputAccepted"), After(0, "Start"), After(PlanTime, "PlanFailed")>>,
    estop |-> DrawAll(n \div 3) \o <<After(0, "EmergencyStop"), After(0, "Resume")>>,
    pause |-> DrawAll(n \div 4) \o <<After(0, "Pause"), After(30, "Resume"), Draw(n, {})>>
                \o Photograph,
    review_continue |-> DrawAll(n) \o <<After(12, "ReviewContinue"), Draw(n, {})>> \o Photograph,
    review_abort |-> DrawAll(n) \o <<After(12, "ReviewAbort")>>,
    timeout |-> DrawAll(n) \o <<After(ReviewTimeout + 1, "Tick"), Draw(n, {})>> \o Photograph,
    stroke_fail |-> OpenJob \o <<Draw(n, {2, 7})>> \o Photograph,
    selfcheck |-> RunSelfCheck(n)]

PolicyOf(name) ==
    [review |-> name \notin {"happy", "pause", "stroke_fail"}, defaultContinue |-> TRUE,
     capture |-> name # "happy"]

-----------------------------------------------------------------------------
(* The programs.                                                             *)

SInit ==
    /\ Init
    /\ scenario = "none" /\ strokes = 0 /\ queue = <<>> /\ todo = <<>> /\ slept = FALSE /\ now = 0
    /\ startedAt = -1 /\ endedAt = -1 /\ history = <<>> /\ walked = {} /\ exit = -1

\* A new Machine and the first step of its script.
Construct(name, p, n) ==
    /\ policy' = p /\ state' = "Received" /\ resumeTo' = "Drawing"
    /\ reviewDone' = FALSE /\ sinceReview' = 0
    /\ plan' = 0 /\ strokesDone' = 0 /\ failed' = 0 /\ abortedAt' = -1
    /\ interventions' = 0 /\ last' = NoIntervention
    /\ startedAt' = -1 /\ endedAt' = -1 /\ history' = <<>>
    /\ todo' = Script(n)[name] /\ slept' = FALSE /\ now' = 0

Idle == exit = -1 /\ queue = <<>>
Exits(status) ==
    /\ exit' = status
    /\ UNCHANGED <<machine, stamps, scenario, strokes, queue, walked, todo, slept, now>>

\* Mutant of Accepts: any number of strokes is taken.
AcceptsAny(n) == TRUE

Accepts(n) == n >= 4

\* job_cli: below four strokes it refuses, an unknown scenario throws.
Main(n, name) ==
    /\ Idle
    /\ \/ ~Accepts(n) /\ Exits(2)
       \/ Accepts(n) /\ name \notin Scenarios \cup {"all"} /\ Exits(1)
       \/ /\ Accepts(n) /\ name \in Scenarios \cup {"all"}
          /\ queue' = IF name = "all" THEN kScenarios ELSE <<name>>
          /\ scenario' = name /\ strokes' = n
          /\ Construct(queue'[1], PolicyOf(queue'[1]), n)
          /\ UNCHANGED <<walked, exit>>

\* job_manager: a policy that is not valid, or self_check=false, and it only spins.
SelfCheck(p, valid, selfCheck) ==
    /\ Idle
    /\ \/ ~(valid /\ selfCheck) /\ Exits(0)
       \/ /\ valid /\ selfCheck
          /\ queue' = <<"selfcheck">> /\ scenario' = "selfcheck" /\ strokes' = 8
          /\ Construct("selfcheck", p, 8) /\ UNCHANGED <<walked, exit>>

-----------------------------------------------------------------------------
(* One step of the script.                                                   *)

Step == Head(todo)
\* Mutant of Draws: the loop looks at the count only.
DrawsOn == Step.call = "Draw" /\ strokesDone < Step.target
Draws == Step.call = "Draw" /\ strokesDone < Step.target /\ state = "Drawing"

Sleep ==
    /\ todo # <<>> /\ ~slept /\ (Step.call = "Draw" => Draws)
    /\ now + Step.wait <= MaxNow
    /\ now' = now + Step.wait /\ slept' = TRUE
    /\ sinceReview' = IF ~reviewDone THEN sinceReview
                      ELSE IF sinceReview + Step.wait > ReviewTimeout THEN ReviewTimeout
                      ELSE sinceReview + Step.wait
    /\ UNCHANGED <<policy, state, resumeTo, reviewDone, record, stamps, program, todo>>

DrawEnds ==
    /\ todo # <<>> /\ ~slept /\ Step.call = "Draw" /\ ~Draws
    /\ todo' = Tail(todo)
    /\ UNCHANGED <<machine, stamps, program, slept, now>>

\* The call the step makes; a stroke fails at the indices the scenario names.
Made ==
    IF Step.call # "Draw" THEN Step.call
    ELSE IF strokesDone \in Step.failAt THEN "StrokeFailed" ELSE "StrokeDone"

Log(call, accepted) ==
    history' = Append(history, [call |-> call, from |-> state, to |-> state',
                                accepted |-> accepted])

\* What the machine does when it admits the call.
Apply(call) ==
    \/ call = "InputAccepted" /\ InputAccepted
    \/ call = "InputRejected" /\ InputRejected
    \/ call = "Start" /\ Start
    \/ call = "PlanReady" /\ PlanReady(strokes)
    \/ call = "PlanFailed" /\ PlanFailed
    \/ call = "StrokeDone" /\ StrokeDone
    \/ call = "StrokeFailed" /\ StrokeFailed
    \/ call = "DrawingDone" /\ DrawingDone
    \/ call = "CaptureDone" /\ CaptureDone
    \/ call = "EmergencyStop" /\ EmergencyStop
    \/ call = "Pause" /\ Pause
    \/ call = "Resume" /\ Resume
    \/ call = "ReviewContinue" /\ ReviewContinue
    \/ call = "ReviewAbort" /\ ReviewAbort
    \/ call = "Tick" /\ Tick

\* The states in which each call is admitted.
Admits == [
    InputAccepted |-> {"Received"}, InputRejected |-> {"Received"}, Start |-> {"Ready"},
    PlanReady |-> {"Planning"}, PlanFailed |-> {"Planning"}, StrokeDone |-> {"Drawing"},
    StrokeFailed |-> {"Drawing"}, DrawingDone |-> {"Drawing"}, CaptureDone |-> {"Capturing"},
    EmergencyStop |-> States \ Terminal, Pause |-> Working, Resume |-> {"Paused"},
    ReviewContinue |-> {"AwaitingReview"}, ReviewAbort |-> {"AwaitingReview"},
    Tick |-> {"AwaitingReview"}]

\* Mutant of Commit: the end is stamped at the last transition before it.
CommitStampsDrawing(call) ==
    /\ Apply(call)
    /\ IF call = "StrokeDone" /\ state' = "Drawing" THEN UNCHANGED history
                                                    ELSE Log(call, TRUE)
    /\ startedAt' = IF call = "Start" THEN now ELSE startedAt
    /\ endedAt' = IF state' \in Terminal \cup {"Capturing"} /\ endedAt < 0 THEN now ELSE endedAt

\* A stroke that leaves the job drawing is not logged; the first terminal state
\* is the end of the job.
Commit(call) ==
    /\ Apply(call)
    /\ IF call = "StrokeDone" /\ state' = "Drawing" THEN UNCHANGED history
                                                    ELSE Log(call, TRUE)
    /\ startedAt' = IF call = "Start" THEN now ELSE startedAt
    /\ endedAt' = IF state' \in Terminal /\ endedAt < 0 THEN now ELSE endedAt

Reject(call) ==
    /\ ~(state \in Admits[call] /\ (call = "Tick" => sinceReview >= ReviewTimeout))
    /\ UNCHANGED <<machine, startedAt, endedAt>>
    /\ IF call = "Tick" THEN UNCHANGED history ELSE Log(call, FALSE)

Call ==
    /\ todo # <<>> /\ slept /\ slept' = FALSE
    /\ Commit(Made) \/ Reject(Made)
    /\ todo' = IF Step.call = "Draw" THEN todo ELSE Tail(todo)
    /\ UNCHANGED <<program, now>>

\* What RenderMermaid draws: the accepted transitions.
Path ==
    {<<h.from, h.call, h.to>> : h \in {history[i] : i \in {j \in DOMAIN history :
                                                             history[j].accepted}}}

\* The report of one scenario, and the next one of "all".
Report ==
    /\ exit = -1 /\ queue # <<>> /\ todo = <<>>
    /\ walked' = walked \cup Path /\ queue' = Tail(queue) /\ UNCHANGED <<scenario, strokes>>
    /\ IF queue' = <<>>
       THEN exit' = 0 /\ UNCHANGED <<machine, stamps, todo, slept, now>>
       ELSE Construct(queue'[1], PolicyOf(queue'[1]), strokes) /\ UNCHANGED exit

Launch ==
    \/ \E n \in Strokes, name \in Scenarios \cup {"all", "other"} : Main(n, name)
    \/ \E p \in Policies, valid, selfCheck \in BOOLEAN : SelfCheck(p, valid, selfCheck)
Play == Sleep \/ DrawEnds \/ Call \/ Report

SNext == Launch \/ Play

SSpec == SInit /\ [][SNext]_sessionVars /\ WF_sessionVars(Play)

-----------------------------------------------------------------------------
(* The acceptance criteria of the record.                                    *)

ElapsedS == IF startedAt < 0 \/ endedAt < startedAt THEN 0 ELSE endedAt - startedAt
MeetsN2 == ElapsedS > 0 /\ ElapsedS <= 900
WasUnattended == interventions = 0
MeetsAc1 == state = "Completed" /\ WasUnattended
Refused == \E i \in DOMAIN history : ~history[i].accepted

\* How a scenario ends: its state, whether it meets AC1, the human interventions,
\* failed strokes, the stroke of the abort, whether a call was refused, the time.
Ends(end, ac1, touches, fails, abort, refused, elapsed) ==
    [state |-> end, ac1 |-> ac1, interventions |-> touches, failed |-> fails,
     abortedAt |-> abort, refused |-> refused, elapsed |-> elapsed]

\* What RenderSummary tells of the job.
Summary == Ends(state, MeetsAc1, interventions, failed, abortedAt, Refused, ElapsedS)

DrawTime(n) == PlanTime + n * StrokeTime

\* The table of the operator's README (lines 271-281 and 332-335).
Described(n) == [
    happy |-> Ends("Completed", TRUE, 0, 0, -1, FALSE, DrawTime(n)),
    reject |-> Ends("Rejected", FALSE, 0, 0, -1, TRUE, 0),
    plan_fail |-> Ends("Failed", FALSE, 0, 0, -1, FALSE, PlanTime),
    estop |-> Ends("Aborted", FALSE, 1, 0, n \div 3, TRUE, DrawTime(n \div 3)),
    pause |-> Ends("Completed", FALSE, 2, 0, -1, FALSE, DrawTime(n) + 38),
    review_continue |-> Ends("Completed", FALSE, 1, 0, -1, FALSE, DrawTime(n) + 20),
    review_abort |-> Ends("Aborted", FALSE, 1, 0, Trigger(n), FALSE, DrawTime(Trigger(n)) + 12),
    timeout |-> Ends("Completed", TRUE, 0, 0, -1, FALSE, DrawTime(n) + ReviewTimeout + 9),
    stroke_fail |-> Ends("Completed", TRUE, 0, 2, -1, FALSE, DrawTime(n) + 8)]

\* The exception: of the two failures of "stroke_fail", at the strokes 2 and 7 counted
\* from 0, there is only the first when there are fewer than eight strokes.
AsDescribed(n, name) ==
    IF name = "stroke_fail" /\ n < 8 THEN [Described(n)[name] EXCEPT !.failed = 1]
    ELSE Described(n)[name]

\* Each scenario ends as the table of the operator's README says, for every
\* number of strokes job_cli takes, but for the second failure of "stroke_fail"
\* below eight strokes: AC1 by whether somebody touched the job and not by how
\* long it stood, and the times the README adds up (27 s, 65 s, 96 s for twelve
\* strokes). The self-check stops where a person is waited for.
ScenarioEndsAsDescribed ==
    queue # <<>> /\ todo = <<>> =>
        IF queue[1] = "selfcheck"
        THEN IF policy.review
             THEN state = "AwaitingReview" /\ strokesDone = Trigger(8) /\ ~MeetsN2
             ELSE state = "Drawing" /\ strokesDone = 8 /\ ~MeetsN2
        ELSE Summary = AsDescribed(strokes, queue[1])

\* The edges of the README's state diagram, with the call each one is labelled by.
DiagramEdges == {
    <<"Received", "InputAccepted", "Ready">>, <<"Received", "InputRejected", "Rejected">>,
    <<"Ready", "Start", "Planning">>, <<"Planning", "PlanReady", "Drawing">>,
    <<"Planning", "PlanFailed", "Failed">>, <<"Drawing", "StrokeFailed", "Drawing">>,
    <<"Drawing", "StrokeDone", "AwaitingReview">>, <<"AwaitingReview", "Tick", "Drawing">>,
    <<"AwaitingReview", "ReviewContinue", "Drawing">>,
    <<"AwaitingReview", "ReviewAbort", "Aborted">>, <<"Drawing", "Pause", "Paused">>,
    <<"Paused", "Resume", "Drawing">>, <<"Drawing", "DrawingDone", "Capturing">>,
    <<"Capturing", "CaptureDone", "Completed">>, <<"Drawing", "DrawingDone", "Completed">>,
    <<"Drawing", "EmergencyStop", "Aborted">>}

\* "All" walks every edge of the README's diagram and draws no other, whatever the
\* number of strokes it accepts. job_cli.cpp:5 promises every edge of the machine
\* of its nine scenarios, which are more than the diagram's: README.md of this
\* directory names the ones that no scenario walks.
AllWalksTheDiagram ==
    exit = 0 /\ scenario = "all" => walked = DiagramEdges

\* A script does not hang, though Draw repeats a call that may be refused.
ScriptsEnd == queue # <<>> ~> exit # -1
=============================================================================
