------------------------- MODULE JobScenarios_proofs ------------------------
(* JobScenarios for every number of strokes, stroke time, plan time, review  *)
(* share past a third and time-out.                                          *)
EXTENDS JobScenarios, SequenceTheorems, TLAPS

-----------------------------------------------------------------------------
(* Where a job stands between two steps of its script.                       *)

\* The strokes counted lie in low..high, more than one value only while a Draw
\* repeats; extra is the time spent beside strokes, edges are transitions drawn
\* so far, touches the human commands, refused whether a call was refused.
Stage(st, low, high, extra, touches, edges, refused) ==
    [st |-> st, low |-> low, high |-> high, extra |-> extra, touches |-> touches,
     edges |-> edges, refused |-> refused]

\* The strokes a Draw counts that may be cut short by the review.
Upto(p, n, target) == IF p.review /\ Trigger(n) < target THEN Trigger(n) ELSE target

Accepted == <<"Received", "InputAccepted", "Ready">>
NotAccepted == <<"Received", "InputRejected", "Rejected">>
Started == <<"Ready", "Start", "Planning">>
Planned == <<"Planning", "PlanReady", "Drawing">>
NotPlanned == <<"Planning", "PlanFailed", "Failed">>
Stopped == <<"Drawing", "EmergencyStop", "Aborted">>
Paused == <<"Drawing", "Pause", "Paused">>
Resumed == <<"Paused", "Resume", "Drawing">>
Continued == <<"AwaitingReview", "ReviewContinue", "Drawing">>
Declined == <<"AwaitingReview", "ReviewAbort", "Aborted">>
TimedOut == <<"AwaitingReview", "Tick", "Drawing">>
Shot == <<"Drawing", "DrawingDone", "Capturing">>
Ended == <<"Drawing", "DrawingDone", "Completed">>
Captured == <<"Capturing", "CaptureDone", "Completed">>
ReviewFell == <<"Drawing", "StrokeDone", "AwaitingReview">>
StrokeFell == <<"Drawing", "StrokeFailed", "Drawing">>

Opened == {Accepted, Started, Planned}
R1 == Stage("Received", 0, 0, 0, 0, {}, FALSE)
R2 == Stage("Ready", 0, 0, 0, 0, {Accepted}, FALSE)
R3 == Stage("Planning", 0, 0, 0, 0, {Accepted, Started}, FALSE)
R4(high) == Stage("Drawing", 0, high, PlanTime, 0, Opened, FALSE)

\* The stages of each script, one more than it has steps.
Stages(p, n) == [
    happy |-> <<R1, R2, R3, R4(n),
        Stage("Drawing", n, n, PlanTime, 0, Opened, FALSE),
        Stage("Completed", n, n, PlanTime, 0, Opened \cup {Ended}, FALSE)>>,
    reject |-> <<R1,
        Stage("Rejected", 0, 0, 0, 0, {NotAccepted}, FALSE),
        Stage("Rejected", 0, 0, 0, 0, {NotAccepted}, TRUE)>>,
    plan_fail |-> <<R1, R2, R3,
        Stage("Failed", 0, 0, PlanTime, 0, {NotPlanned}, FALSE)>>,
    estop |-> <<R1, R2, R3, R4(n \div 3),
        Stage("Drawing", n \div 3, n \div 3, PlanTime, 0, {}, FALSE),
        Stage("Aborted", n \div 3, n \div 3, PlanTime, 1, {Stopped}, FALSE),
        Stage("Aborted", n \div 3, n \div 3, PlanTime, 1, {Stopped}, TRUE)>>,
    pause |-> <<R1, R2, R3, R4(n \div 4),
        Stage("Drawing", n \div 4, n \div 4, PlanTime, 0, {}, FALSE),
        Stage("Paused", n \div 4, n \div 4, PlanTime, 1, {Paused}, FALSE),
        Stage("Drawing", n \div 4, n, PlanTime + 30, 2, {Paused, Resumed}, FALSE),
        Stage("Drawing", n, n, PlanTime + 30, 2, {Paused, Resumed}, FALSE),
        Stage("Capturing", n, n, PlanTime + 30, 2, {Paused, Resumed}, FALSE),
        Stage("Completed", n, n, PlanTime + 38, 2, {Paused, Resumed}, FALSE)>>,
    review_continue |-> <<R1, R2, R3, R4(Trigger(n)),
        Stage("AwaitingReview", Trigger(n), Trigger(n), PlanTime, 0, {}, FALSE),
        Stage("Drawing", Trigger(n), n, PlanTime + 12, 1, {Continued}, FALSE),
        Stage("Drawing", n, n, PlanTime + 12, 1, {Continued}, FALSE),
        Stage("Capturing", n, n, PlanTime + 12, 1, {Continued, Shot}, FALSE),
        Stage("Completed", n, n, PlanTime + 20, 1, {Continued, Shot, Captured}, FALSE)>>,
    review_abort |-> <<R1, R2, R3, R4(Trigger(n)),
        Stage("AwaitingReview", Trigger(n), Trigger(n), PlanTime, 0, {}, FALSE),
        Stage("Aborted", Trigger(n), Trigger(n), PlanTime + 12, 1, {Declined}, FALSE)>>,
    timeout |-> <<R1, R2, R3, R4(Trigger(n)),
        Stage("AwaitingReview", Trigger(n), Trigger(n), PlanTime, 0, {}, FALSE),
        Stage("Drawing", Trigger(n), n, PlanTime + ReviewTimeout + 1, 0, {TimedOut}, FALSE),
        Stage("Drawing", n, n, PlanTime + ReviewTimeout + 1, 0, {TimedOut}, FALSE),
        Stage("Capturing", n, n, PlanTime + ReviewTimeout + 1, 0, {TimedOut}, FALSE),
        Stage("Completed", n, n, PlanTime + ReviewTimeout + 9, 0, {TimedOut}, FALSE)>>,
    stroke_fail |-> <<R1, R2, R3, R4(n),
        Stage("Drawing", n, n, PlanTime, 0, {}, FALSE),
        Stage("Capturing", n, n, PlanTime, 0, {}, FALSE),
        Stage("Completed", n, n, PlanTime + 8, 0, {}, FALSE)>>,
    selfcheck |-> <<R1, R2, R3, R4(Upto(p, n, n)),
        Stage(IF p.review THEN "AwaitingReview" ELSE "Drawing", Upto(p, n, n), Upto(p, n, n),
          PlanTime, 0, {}, FALSE)>>]

\* The transitions for which "all" plays each scenario.
Due == [
    happy |-> {Accepted, Started, Planned, Ended}, reject |-> {NotAccepted},
    plan_fail |-> {NotPlanned}, estop |-> {Stopped}, pause |-> {Paused, Resumed},
    review_continue |-> {ReviewFell, Continued, Shot, Captured},
    review_abort |-> {Declined}, timeout |-> {TimedOut}, stroke_fail |-> {StrokeFell}]

Calls == {"InputAccepted", "InputRejected", "Start", "PlanReady", "PlanFailed", "StrokeDone",
          "StrokeFailed", "DrawingDone", "CaptureDone", "EmergencyStop", "Pause", "Resume",
          "ReviewContinue", "ReviewAbort", "Tick"}
History == Seq([call: Calls, from: States, to: States, accepted: BOOLEAN])

Failures(done) == (IF done > 2 THEN 1 ELSE 0) + (IF done > 7 THEN 1 ELSE 0)
Unplanned == {"Received", "Rejected", "Ready", "Planning", "Failed"}
Unstarted == {"Received", "Rejected", "Ready"}

\* The job is at the stage r of the script of name.
Standing(r, name) ==
    /\ strokesDone \in r.low..r.high
    /\ reviewDone \in BOOLEAN
    /\ reviewDone <=> policy.review /\ plan # 0 /\ strokesDone >= Trigger(strokes)
    /\ state = IF r.st = "Drawing" /\ reviewDone /\ r.low < Trigger(strokes)
               THEN "AwaitingReview" ELSE r.st
    /\ plan = IF r.st \in Unplanned THEN 0 ELSE strokes
    /\ resumeTo = "Drawing" /\ interventions = r.touches
    /\ failed = IF name = "stroke_fail" THEN Failures(strokesDone) ELSE 0
    /\ abortedAt = IF state = "Aborted" THEN strokesDone ELSE -1
    /\ sinceReview \in 0..ReviewTimeout

Timed(r) ==
    /\ slept \in BOOLEAN
    /\ startedAt = IF r.st \in Unstarted THEN -1 ELSE 0
    /\ endedAt = IF r.st \in Terminal THEN r.extra + r.low * StrokeTime ELSE -1
    /\ now = r.extra + strokesDone * StrokeTime + (IF slept THEN Step.wait ELSE 0)
    /\ slept /\ Step.call = "Draw" => Draws
    /\ slept /\ Step.call = "Tick" => sinceReview >= ReviewTimeout

Logged(r) ==
    /\ history \in History
    /\ Refused <=> r.refused
    /\ r.edges \subseteq Path /\ Path \subseteq DiagramEdges
    /\ reviewDone => ReviewFell \in Path
    /\ failed > 0 => StrokeFell \in Path

Playing(name) ==
    /\ IF name = "selfcheck" THEN strokes = 8 /\ policy \in Policies
                             ELSE strokes >= 4 /\ policy = PolicyOf(name)
    /\ \E k \in 0..Len(Script(strokes)[name]) :
        LET r == Stages(policy, strokes)[name][k + 1] IN
        /\ todo = SubSeq(Script(strokes)[name], k + 1, Len(Script(strokes)[name]))
        /\ Standing(r, name) /\ Timed(r) /\ Logged(r)

Names == Scenarios \cup {"selfcheck"}

\* The scenario name runs: one of "all", after those before it have drawn what they
\* are played for, or the only one.
Runs(name) ==
    \/ /\ scenario = "all"
       /\ \E j \in 1..9 : /\ name = kScenarios[j] /\ queue = SubSeq(kScenarios, j, 9)
                          /\ \A i \in 1..(j - 1) : Due[kScenarios[i]] \subseteq walked
    \/ scenario # "all" /\ queue = <<name>>

Sessions ==
    /\ strokes \in Int /\ exit \in {-1, 0, 1, 2} /\ walked \subseteq DiagramEdges
    /\ queue = <<>> => /\ todo = <<>> /\ (exit = -1 => scenario = "none")
                       /\ exit = 0 /\ scenario = "all" => walked = DiagramEdges
    /\ queue # <<>> => exit = -1 /\ \E name \in Names : Runs(name) /\ Playing(name)

-----------------------------------------------------------------------------
(* The share of the plan at which the review falls, and what the log tells.  *)

LEMMA TriggerFacts ==
    ASSUME NEW n \in Int, n >= 4
    PROVE  /\ Trigger(n) \in Int /\ 1 <= Trigger(n) /\ Trigger(n) <= n
           /\ n \div 3 \in Int /\ 0 <= n \div 3 /\ n \div 3 < Trigger(n)
           /\ n \div 4 \in Int /\ 0 <= n \div 4 /\ n \div 4 <= n
<1> DEFINE den == RatioDen
           num == RatioNum
           m == n * num + den - 1
           q == m \div den
           rem == m - den * q
<1>1. /\ den \in Nat /\ num \in Nat /\ 0 < num /\ num < den /\ den < 3 * num
    BY JobAssumption, ScenarioAssumption
<1>2. m \in Int /\ Trigger(n) = q
    BY <1>1 DEF Trigger
<1> HIDE DEF den, num
<1>3. q \in Int /\ rem \in Int /\ 0 <= rem /\ rem < den /\ m = den * q + rem
  <2> HIDE DEF m
  <2> QED
      BY <1>1, <1>2
<1>4. n * num \in Int /\ n * num >= n
    BY <1>1
<1>5. 1 <= q
  <2>1. SUFFICES ASSUME q <= 0 PROVE FALSE
      BY <1>3
  <2>2. den * q <= 0
      BY <1>1, <1>3, <2>1
  <2> QED
      BY <1>1, <1>3, <1>4, <2>2
<1>6. q <= n
  <2>1. SUFFICES ASSUME q >= n + 1 PROVE FALSE
      BY <1>3
  <2>2. den * q >= den * (n + 1)
      BY <1>1, <1>3, <2>1
  <2>3. den * (n + 1) = den * n + den /\ den * n \in Int /\ den * q \in Int
      BY <1>1, <1>3
  <2>4. n * num < den * n
      BY <1>1
  <2> QED
      BY <1>1, <1>3, <1>4, <2>2, <2>3, <2>4
<1>7. n < 3 * q
  <2>1. SUFFICES ASSUME 3 * q <= n PROVE FALSE
      BY <1>3
  <2>2. den * (3 * q) <= den * n
      BY <1>1, <1>3, <2>1
  <2>3. den * (3 * q) = 3 * (den * q) /\ den * n \in Int /\ den * q \in Int
      BY <1>1, <1>3
  <2>4. den * n < 3 * (n * num)
    <3>1. den * n < (3 * num) * n
        BY <1>1
    <3>2. (3 * num) * n = 3 * (n * num)
        BY <1>1
    <3> QED
        BY <3>1, <3>2
  <2> QED
      BY <1>1, <1>3, <1>4, <2>2, <2>3, <2>4
<1> HIDE DEF q
<1> QED
    BY <1>2, <1>3, <1>5, <1>6, <1>7

\* An accepted call adds its transition to what is drawn, a refused one none.
LEMMA LogGrows ==
    ASSUME history \in History,
           NEW c \in Calls, NEW ok \in BOOLEAN, state \in States, state' \in States,
           Log(c, ok)
    PROVE  /\ history' \in History
           /\ Path' = Path \cup (IF ok THEN {<<state, c, state'>>} ELSE {})
           /\ Refused' <=> Refused \/ ~ok
<1> DEFINE e == [call |-> c, from |-> state, to |-> state', accepted |-> ok]
<1>1. e \in [call: Calls, from: States, to: States, accepted: BOOLEAN]
    OBVIOUS
<1>2. history' = Append(history, e)
    BY DEF Log
<1>3. /\ history' \in History
      /\ DOMAIN history' = DOMAIN history \cup {Len(history) + 1}
      /\ \A i \in DOMAIN history : history'[i] = history[i]
      /\ history'[Len(history) + 1] = e
    BY <1>1, <1>2 DEF History
<1>4. Refused' <=> Refused \/ ~ok
  <2>1. e.accepted = ok
      OBVIOUS
  <2> HIDE DEF e
  <2> QED
      BY <1>3, <2>1 DEF Refused
<1>5. Path' = Path \cup (IF ok THEN {<<state, c, state'>>} ELSE {})
  <2>1. e.accepted = ok /\ <<e.from, e.call, e.to>> = <<state, c, state'>>
      OBVIOUS
  <2> HIDE DEF e
  <2> QED
      BY <1>3, <2>1 DEF Path
<1> QED
    BY <1>3, <1>4, <1>5

LEMMA LogKept ==
    ASSUME UNCHANGED history
    PROVE  Path' = Path /\ (Refused' <=> Refused)
    BY DEF Path, Refused

-----------------------------------------------------------------------------
(* From the stage r the step s of a script leads to the stage t.             *)

Joined(r, t) == r.low <= r.high /\ t.low = r.high /\ t.low <= t.high

DrawLeads(p, n, name, s, r, t) ==
    /\ s.call = "Draw" /\ s.wait = StrokeTime /\ s.target \in Int
    /\ s.failAt = IF name = "stroke_fail" THEN {2, 7} ELSE {}
    /\ r.st = "Drawing" /\ Joined(r, t)
    /\ r.high = IF r.low < Trigger(n) THEN Upto(p, n, s.target) ELSE s.target
    /\ t.st = IF p.review /\ r.low < Trigger(n) /\ Trigger(n) <= r.high
              THEN "AwaitingReview" ELSE "Drawing"
    /\ t.extra = r.extra /\ t.touches = r.touches /\ t.refused = r.refused
    /\ t.edges \subseteq r.edges

CallLeads(p, n, s, r, t) ==
    /\ s.call \notin {"Draw", "StrokeDone", "StrokeFailed"} /\ s.wait \in Nat
    /\ <<r.st, s.call, t.st>> \in DiagramEdges
    /\ r.low = r.high /\ Joined(r, t) /\ (r.st \in Unplanned => r.low = 0)
    /\ t.extra = r.extra + s.wait
    /\ t.touches = r.touches + (IF s.call \in Commands THEN 1 ELSE 0)
    /\ t.refused = r.refused /\ t.edges \subseteq r.edges \cup {<<r.st, s.call, t.st>>}
    /\ s.call = "DrawingDone" => (p.capture <=> t.st = "Capturing")
    /\ s.call = "Tick" => /\ p.defaultContinue /\ s.wait > ReviewTimeout
                          /\ p.review /\ r.low >= Trigger(n)
    /\ s.call = "Start" => r.extra = 0 /\ s.wait = 0

RefusalLeads(s, r, t) ==
    /\ s.call \in {"Start", "Resume"} /\ s.wait = 0 /\ r.st \in Terminal
    /\ r.low = r.high /\ Joined(r, t) /\ t.high = t.low
    /\ t.st = r.st /\ t.extra = r.extra /\ t.touches = r.touches /\ t.refused = TRUE
    /\ t.edges \subseteq r.edges

Leads(p, n, name, s, r, t) ==
    DrawLeads(p, n, name, s, r, t) \/ CallLeads(p, n, s, r, t) \/ RefusalLeads(s, r, t)

IsStage(r) ==
    /\ r.low \in Nat /\ r.high \in Nat /\ r.extra \in Int /\ r.touches \in Int
    /\ r.st \in States /\ r.refused \in BOOLEAN

\* What does not change while a script is played.
Setting(name) ==
    /\ strokes \in Int /\ strokes >= 4
    /\ policy \in [review: BOOLEAN, defaultContinue: BOOLEAN, capture: BOOLEAN]
    /\ name = "stroke_fail" => ~policy.review

InStage(r, name) == Standing(r, name) /\ Timed(r) /\ Logged(r)

LEMMA SleepStays ==
    ASSUME NEW name, NEW r, NEW t, NEW s, Setting(name), IsStage(r), IsStage(t),
           Leads(policy, strokes, name, s, r, t), todo # <<>>, s = Step,
           InStage(r, name), Sleep
    PROVE  InStage(r, name)' /\ UNCHANGED <<policy, strokes>> /\ UNCHANGED todo
<1>1. /\ UNCHANGED <<policy, state, resumeTo, reviewDone, strokes, todo>>
      /\ UNCHANGED <<plan, strokesDone, failed, abortedAt, interventions, startedAt, endedAt,
                     history>>
      /\ ~slept /\ slept' = TRUE /\ now' = now + s.wait
      /\ s.call = "Draw" => Draws
    BY DEF Sleep, record, stamps, program
<1>2. s.wait \in Nat
    BY ScenarioAssumption DEF Leads, DrawLeads, CallLeads, RefusalLeads
<1>3. sinceReview' \in 0..ReviewTimeout
    BY <1>2, JobAssumption DEF Sleep, InStage, Standing
<1>4. Standing(r, name)'
    BY <1>1, <1>3 DEF InStage, Standing
<1>5. Logged(r)'
    BY <1>1, LogKept DEF InStage, Logged
<1>6. Step' = s
    BY <1>1 DEF Step
<1>7. s.call = "Tick" => sinceReview' >= ReviewTimeout
  <2> SUFFICES ASSUME s.call = "Tick" PROVE sinceReview' >= ReviewTimeout
      OBVIOUS
  <2>1. s.wait > ReviewTimeout /\ policy.review /\ r.low >= Trigger(strokes)
        /\ r.st = "AwaitingReview"
      BY DEF Leads, DrawLeads, CallLeads, RefusalLeads, DiagramEdges
  <2>2. reviewDone
      BY <2>1, TriggerFacts DEF InStage, Standing, Setting, Unplanned, IsStage
  <2> QED
      BY <2>1, <2>2, <1>2, JobAssumption DEF Sleep, InStage, Standing
<1>8. Timed(r)'
  <2> DEFINE spent == strokesDone * StrokeTime
  <2>1. now' = r.extra + strokesDone' * StrokeTime + s.wait
    <3>1. spent \in Int
        BY ScenarioAssumption DEF InStage, Standing, IsStage
    <3>2. now = r.extra + spent + 0
        BY <1>1 DEF InStage, Timed
    <3>3. spent' = spent
        BY <1>1
    <3> HIDE DEF spent
    <3>4. now' = r.extra + spent + s.wait
        BY <1>1, <1>2, <3>1, <3>2 DEF IsStage
    <3> QED
        BY <3>3, <3>4 DEF spent
  <2>2. Draws' <=> Draws
      BY <1>1, <1>6 DEF Draws, Step
  <2> QED
      BY <1>1, <1>6, <1>7, <2>1, <2>2 DEF InStage, Timed
<1> QED
    BY <1>1, <1>4, <1>5, <1>8 DEF InStage, Setting

LEMMA DrawEndsLeads ==
    ASSUME NEW name, NEW r, NEW t, NEW s, Setting(name), IsStage(r), IsStage(t),
           Leads(policy, strokes, name, s, r, t), todo # <<>>, s = Step,
           InStage(r, name), DrawEnds
    PROVE  InStage(t, name)' /\ UNCHANGED <<policy, strokes>> /\ todo' = Tail(todo)
<1>1. /\ UNCHANGED <<policy, state, resumeTo, reviewDone, strokes>>
      /\ UNCHANGED <<plan, strokesDone, failed, abortedAt, interventions, startedAt, endedAt,
                     history, sinceReview, slept, now>>
      /\ ~slept /\ s.call = "Draw" /\ ~Draws /\ todo' = Tail(todo)
    BY DEF DrawEnds, record, stamps, program, machine, vars
<1>2. DrawLeads(policy, strokes, name, s, r, t)
    BY <1>1 DEF Leads, CallLeads, RefusalLeads
<1>3. /\ Trigger(strokes) \in Int /\ 1 <= Trigger(strokes)
    BY TriggerFacts DEF Setting
<1>4. strokesDone = r.high
    BY <1>1, <1>2, <1>3 DEF InStage, Standing, DrawLeads, Joined, Upto, Draws, IsStage, Setting
<1>5. state = t.st
  <2>1. plan = strokes /\ strokes # 0
      BY <1>2 DEF InStage, Standing, DrawLeads, Unplanned, Setting
  <2> QED
      BY <1>2, <1>3, <1>4, <2>1 DEF InStage, Standing, DrawLeads, Joined, Upto, IsStage, Setting
<1>6. Standing(t, name)'
    BY <1>1, <1>2, <1>3, <1>4, <1>5
       DEF InStage, Standing, DrawLeads, Joined, Unplanned, IsStage
<1>7. Timed(t)'
    BY <1>1, <1>2, <1>4 DEF InStage, Timed, DrawLeads, Unstarted, Terminal
<1>8. Logged(t)'
    BY <1>1, <1>2, LogKept DEF InStage, Logged, DrawLeads
<1> QED
    BY <1>1, <1>6, <1>7, <1>8 DEF InStage, Setting

\* What the machine does with a call along the edges of the diagram.
LEMMA CallMoves ==
    ASSUME NEW name, NEW r, NEW t, NEW s, Setting(name), IsStage(r), IsStage(t),
           CallLeads(policy, strokes, s, r, t), todo # <<>>, s = Step,
           Standing(r, name), Timed(r), Call
    PROVE  /\ state = r.st /\ state' = t.st
           /\ UNCHANGED <<policy, resumeTo, reviewDone, strokesDone, failed, sinceReview>>
           /\ UNCHANGED <<strokes, now>>
           /\ plan' = IF t.st \in Unplanned THEN 0 ELSE strokes
           /\ interventions' = t.touches
           /\ abortedAt' = IF t.st = "Aborted" THEN strokesDone ELSE -1
           /\ startedAt' = IF s.call = "Start" THEN now ELSE startedAt
           /\ endedAt' = IF t.st \in Terminal THEN now ELSE -1
           /\ Log(s.call, TRUE) /\ slept' = FALSE /\ todo' = Tail(todo)
<1>1. /\ slept /\ slept' = FALSE /\ todo' = Tail(todo) /\ UNCHANGED <<strokes, now>>
      /\ Commit(s.call) \/ Reject(s.call)
    BY DEF Call, program, CallLeads, Made
<1>2. /\ Trigger(strokes) \in Int /\ 1 <= Trigger(strokes) /\ strokesDone = r.low
      /\ strokesDone \in Nat
    BY TriggerFacts DEF Setting, CallLeads, Joined, Standing, IsStage
<1>3. state = r.st
    BY <1>2 DEF Standing
<1>4. s.call = "Tick" => sinceReview >= ReviewTimeout
    BY <1>1 DEF Timed
<1>5. s.call \in {"InputAccepted", "InputRejected", "Start", "PlanReady", "PlanFailed", "Tick",
                  "ReviewContinue", "ReviewAbort", "Pause", "Resume", "DrawingDone",
                  "CaptureDone", "EmergencyStop"}
    BY DEF CallLeads, DiagramEdges
<1>6. r.st \in Admits[s.call]
    BY <1>5 DEF CallLeads, DiagramEdges, Admits, States, Terminal, Working
<1>7. Commit(s.call)
    BY <1>1, <1>3, <1>4, <1>6 DEF Reject
<1>8. Apply(s.call) /\ Log(s.call, TRUE)
    BY <1>7 DEF Commit, CallLeads
<1>9. startedAt' = IF s.call = "Start" THEN now ELSE startedAt
    BY <1>7 DEF Commit
<1>10. r.st \notin Terminal
    BY DEF CallLeads, DiagramEdges, Terminal
<1>11. endedAt' = IF state' \in Terminal THEN now ELSE -1
    BY <1>7, <1>10 DEF Commit, Timed
<1>12. /\ state' = t.st
       /\ UNCHANGED <<policy, resumeTo, reviewDone, strokesDone, failed, sinceReview>>
       /\ plan' = IF t.st \in Unplanned THEN 0 ELSE strokes
       /\ interventions' = t.touches
       /\ abortedAt' = IF t.st = "Aborted" THEN strokesDone ELSE -1
  <2>1. CASE s.call = "InputAccepted"
    <3>1. InputAccepted
        BY <1>8, <2>1 DEF Apply
    <3>2. r.st = "Received" /\ t.st = "Ready"
        BY <2>1 DEF CallLeads, DiagramEdges
    <3>3. t.touches = r.touches
        BY <2>1 DEF CallLeads, Commands, IsStage
    <3> QED
        BY <1>3, <3>1, <3>2, <3>3 DEF InputAccepted, Standing, record, Unplanned, Moves
  <2>2. CASE s.call = "InputRejected"
    <3>1. InputRejected
        BY <1>8, <2>2 DEF Apply
    <3>2. r.st = "Received" /\ t.st = "Rejected"
        BY <2>2 DEF CallLeads, DiagramEdges
    <3>3. t.touches = r.touches
        BY <2>2 DEF CallLeads, Commands, IsStage
    <3> QED
        BY <1>3, <3>1, <3>2, <3>3 DEF InputRejected, Standing, record, Unplanned, Moves
  <2>3. CASE s.call = "Start"
    <3>1. Start
        BY <1>8, <2>3 DEF Apply
    <3>2. r.st = "Ready" /\ t.st = "Planning"
        BY <2>3 DEF CallLeads, DiagramEdges
    <3>3. t.touches = r.touches
        BY <2>3 DEF CallLeads, Commands, IsStage
    <3> QED
        BY <1>3, <3>1, <3>2, <3>3 DEF Start, Standing, record, Unplanned
  <2>4. CASE s.call = "PlanReady"
    <3>1. PlanReady(strokes)
        BY <1>8, <2>4 DEF Apply
    <3>2. r.st = "Planning" /\ t.st = "Drawing"
        BY <2>4 DEF CallLeads, DiagramEdges
    <3>3. t.touches = r.touches
        BY <2>4 DEF CallLeads, Commands, IsStage
    <3> QED
        BY <1>3, <3>1, <3>2, <3>3 DEF PlanReady, Standing, record, Unplanned
  <2>5. CASE s.call = "PlanFailed"
    <3>1. PlanFailed
        BY <1>8, <2>5 DEF Apply
    <3>2. r.st = "Planning" /\ t.st = "Failed"
        BY <2>5 DEF CallLeads, DiagramEdges
    <3>3. t.touches = r.touches
        BY <2>5 DEF CallLeads, Commands, IsStage
    <3> QED
        BY <1>3, <3>1, <3>2, <3>3 DEF PlanFailed, Standing, record, Unplanned, Moves
  <2>6. CASE s.call = "Tick"
    <3>1. Tick
        BY <1>8, <2>6 DEF Apply
    <3>2. r.st = "AwaitingReview" /\ t.st = "Drawing"
        BY <2>6 DEF CallLeads, DiagramEdges
    <3>3. t.touches = r.touches
        BY <2>6 DEF CallLeads, Commands, IsStage
    <3> QED
        BY <1>3, <3>1, <3>2, <3>3, <2>6 DEF Tick, Standing, record, Unplanned, CallLeads
  <2>7. CASE s.call = "ReviewContinue"
    <3>1. ReviewContinue
        BY <1>8, <2>7 DEF Apply
    <3>2. r.st = "AwaitingReview" /\ t.st = "Drawing"
        BY <2>7 DEF CallLeads, DiagramEdges
    <3>3. t.touches = r.touches + 1
        BY <2>7 DEF CallLeads, Commands, IsStage
    <3> QED
        BY <1>3, <3>1, <3>2, <3>3 DEF ReviewContinue, Standing, record, Unplanned,
        RecordIntervention
  <2>8. CASE s.call = "ReviewAbort"
    <3>1. ReviewAbort
        BY <1>8, <2>8 DEF Apply
    <3>2. r.st = "AwaitingReview" /\ t.st = "Aborted"
        BY <2>8 DEF CallLeads, DiagramEdges
    <3>3. t.touches = r.touches + 1
        BY <2>8 DEF CallLeads, Commands, IsStage
    <3> QED
        BY <1>3, <3>1, <3>2, <3>3 DEF ReviewAbort, Standing, record, Unplanned, RecordIntervention
  <2>9. CASE s.call = "Pause"
    <3>1. Pause
        BY <1>8, <2>9 DEF Apply
    <3>2. r.st = "Drawing" /\ t.st = "Paused"
        BY <2>9 DEF CallLeads, DiagramEdges
    <3>3. t.touches = r.touches + 1
        BY <2>9 DEF CallLeads, Commands, IsStage
    <3> QED
        BY <1>3, <3>1, <3>2, <3>3 DEF Pause, Standing, record, Unplanned, RecordIntervention
  <2>10. CASE s.call = "Resume"
    <3>1. Resume
        BY <1>8, <2>10 DEF Apply
    <3>2. r.st = "Paused" /\ t.st = "Drawing"
        BY <2>10 DEF CallLeads, DiagramEdges
    <3>3. t.touches = r.touches + 1
        BY <2>10 DEF CallLeads, Commands, IsStage
    <3> QED
        BY <1>3, <3>1, <3>2, <3>3 DEF Resume, Standing, record, Unplanned, RecordIntervention
  <2>11. CASE s.call = "DrawingDone"
    <3>1. DrawingDone
        BY <1>8, <2>11 DEF Apply
    <3>2. r.st = "Drawing" /\ t.st = IF policy.capture THEN "Capturing" ELSE "Completed"
        BY <2>11 DEF CallLeads, DiagramEdges
    <3>3. t.touches = r.touches
        BY <2>11 DEF CallLeads, Commands, IsStage
    <3> QED
        BY <1>3, <3>1, <3>2, <3>3 DEF DrawingDone, Standing, record, Unplanned, Moves
  <2>12. CASE s.call = "CaptureDone"
    <3>1. CaptureDone
        BY <1>8, <2>12 DEF Apply
    <3>2. r.st = "Capturing" /\ t.st = "Completed"
        BY <2>12 DEF CallLeads, DiagramEdges
    <3>3. t.touches = r.touches
        BY <2>12 DEF CallLeads, Commands, IsStage
    <3> QED
        BY <1>3, <3>1, <3>2, <3>3 DEF CaptureDone, Standing, record, Unplanned, Moves
  <2>13. CASE s.call = "EmergencyStop"
    <3>1. EmergencyStop
        BY <1>8, <2>13 DEF Apply
    <3>2. r.st = "Drawing" /\ t.st = "Aborted"
        BY <2>13 DEF CallLeads, DiagramEdges
    <3>3. t.touches = r.touches + 1
        BY <2>13 DEF CallLeads, Commands, IsStage
    <3> QED
        BY <1>3, <3>1, <3>2, <3>3 DEF EmergencyStop, Standing, record, Unplanned, RecordIntervention
  <2> QED
      BY <1>5, <2>1, <2>2, <2>3, <2>4, <2>5, <2>6, <2>7, <2>8, <2>9, <2>10, <2>11, <2>12, <2>13
<1> QED
    BY <1>1, <1>3, <1>8, <1>9, <1>11, <1>12

LEMMA CallLeadsOn ==
    ASSUME NEW name, NEW r, NEW t, NEW s, Setting(name), IsStage(r), IsStage(t),
           CallLeads(policy, strokes, s, r, t), todo # <<>>, s = Step,
           InStage(r, name), Call
    PROVE  InStage(t, name)' /\ UNCHANGED <<policy, strokes>> /\ todo' = Tail(todo)
<1>1. /\ state = r.st /\ state' = t.st
      /\ UNCHANGED <<policy, resumeTo, reviewDone, strokesDone, failed, sinceReview>>
      /\ UNCHANGED <<strokes, now>>
      /\ plan' = IF t.st \in Unplanned THEN 0 ELSE strokes
      /\ interventions' = t.touches
      /\ abortedAt' = IF t.st = "Aborted" THEN strokesDone ELSE -1
      /\ startedAt' = IF s.call = "Start" THEN now ELSE startedAt
      /\ endedAt' = IF t.st \in Terminal THEN now ELSE -1
      /\ Log(s.call, TRUE) /\ slept' = FALSE /\ todo' = Tail(todo)
    BY CallMoves DEF InStage
<1>2. /\ Trigger(strokes) \in Int /\ 1 <= Trigger(strokes) /\ strokesDone = r.low
      /\ strokesDone \in Nat /\ strokes # 0 /\ strokesDone = t.low /\ t.low <= t.high
    BY TriggerFacts DEF Setting, CallLeads, Joined, InStage, Standing, IsStage
<1>3. /\ <<r.st, s.call, t.st>> \in DiagramEdges /\ s.call \in Calls
      /\ r.st \in States /\ t.st \in States
    BY DEF CallLeads, DiagramEdges, Calls, IsStage
<1>4. Standing(t, name)'
  <2>1. reviewDone' <=> policy'.review /\ plan' # 0 /\ strokesDone' >= Trigger(strokes)'
    <3>1. CASE r.st \in Unplanned
      <4>1. ~reviewDone /\ strokesDone = 0
          BY <1>2, <3>1 DEF InStage, Standing, CallLeads
      <4> QED
          BY <1>1, <1>2, <4>1
    <3>2. CASE r.st \notin Unplanned
      <4>1. t.st \notin Unplanned
          BY <1>3, <3>2 DEF DiagramEdges, Unplanned
      <4> QED
          BY <1>1, <3>2, <4>1 DEF InStage, Standing
    <3> QED
        BY <3>1, <3>2
  <2>2. ~(reviewDone' /\ t.low < Trigger(strokes))
      BY <1>1, <1>2, <2>1
  <2> QED
      BY <1>1, <1>2, <2>1, <2>2 DEF InStage, Standing, IsStage
<1>5. Timed(t)'
  <2> DEFINE spent == strokesDone * StrokeTime
  <2>1. now = r.extra + spent + s.wait
      BY DEF InStage, Timed, Call
  <2>2. spent \in Int /\ t.extra = r.extra + s.wait /\ s.wait \in Nat /\ r.extra \in Int
      BY <1>2, ScenarioAssumption DEF CallLeads, IsStage
  <2>3. spent' = spent /\ t.low * StrokeTime = spent
      BY <1>1, <1>2
  <2> HIDE DEF spent
  <2>4. now = t.extra + spent
      BY <2>1, <2>2
  <2>5. startedAt' = IF t.st \in Unstarted THEN -1 ELSE 0
    <3>1. CASE s.call = "Start"
      <4>1. t.st = "Planning" /\ r.extra = 0 /\ s.wait = 0 /\ strokesDone = 0
          BY <1>2, <3>1 DEF CallLeads, DiagramEdges, Unplanned
      <4>2. now = 0
          BY <2>2, <2>4, <4>1, ScenarioAssumption DEF spent
      <4> QED
          BY <1>1, <3>1, <4>1, <4>2 DEF Unstarted
    <3>2. CASE s.call # "Start"
      <4>1. t.st \in Unstarted <=> r.st \in Unstarted
          BY <3>2 DEF CallLeads, DiagramEdges, Unstarted
      <4> QED
          BY <1>1, <3>2, <4>1 DEF InStage, Timed
    <3> QED
        BY <3>1, <3>2
  <2>6. now' = t.extra + spent' + 0 /\ strokesDone' * StrokeTime = spent'
      BY <1>1, <2>2, <2>3, <2>4 DEF spent
  <2>7. endedAt' = IF t.st \in Terminal THEN t.extra + t.low * StrokeTime ELSE -1
      BY <1>1, <2>3, <2>4
  <2> QED
      BY <1>1, <2>5, <2>6, <2>7 DEF Timed
<1>6. Logged(t)'
  <2>1. Path' = Path \cup {<<r.st, s.call, t.st>>} /\ history' \in History
        /\ (Refused' <=> Refused)
      BY <1>1, <1>3, LogGrows DEF InStage, Logged
  <2>2. t.edges \subseteq r.edges \cup {<<r.st, s.call, t.st>>} /\ t.refused = r.refused
      BY DEF CallLeads
  <2> QED
      BY <1>1, <1>3, <2>1, <2>2 DEF InStage, Logged
<1> QED
    BY <1>1, <1>4, <1>5, <1>6 DEF InStage, Setting

LEMMA RefusalLeadsOn ==
    ASSUME NEW name, NEW r, NEW t, NEW s, Setting(name), IsStage(r), IsStage(t),
           RefusalLeads(s, r, t), todo # <<>>, s = Step, InStage(r, name), Call
    PROVE  InStage(t, name)' /\ UNCHANGED <<policy, strokes>> /\ todo' = Tail(todo)
<1>1. state = r.st /\ state \in Terminal
    BY DEF RefusalLeads, InStage, Standing, Terminal
<1>2. ~Apply(s.call)
    BY <1>1 DEF Apply, RefusalLeads, Start, Resume, Terminal
<1>3. /\ slept /\ slept' = FALSE /\ todo' = Tail(todo) /\ UNCHANGED <<strokes, now>>
      /\ Reject(s.call)
    BY <1>2 DEF Call, program, RefusalLeads, Made, Commit
<1>4. /\ UNCHANGED <<policy, state, resumeTo, reviewDone, sinceReview>>
      /\ UNCHANGED <<plan, strokesDone, failed, abortedAt, interventions, startedAt, endedAt>>
      /\ Log(s.call, FALSE)
    BY <1>3 DEF Reject, RefusalLeads, machine, vars, record
<1>5. strokesDone = r.low /\ strokesDone = t.low /\ t.high = t.low /\ strokesDone \in Nat
    BY DEF RefusalLeads, Joined, InStage, Standing, IsStage
<1>6. Standing(t, name)'
    BY <1>3, <1>4, <1>5 DEF InStage, Standing, RefusalLeads
<1>7. Timed(t)'
  <2>1. now = r.extra + strokesDone * StrokeTime + 0
      BY <1>3 DEF InStage, Timed, RefusalLeads
  <2> QED
      BY <1>3, <1>4, <1>5, <2>1 DEF InStage, Timed, RefusalLeads
<1>8. Logged(t)'
  <2>1. state \in States /\ s.call \in Calls
      BY <1>1 DEF States, RefusalLeads, Calls
  <2>2. Path' = Path /\ Refused' /\ history' \in History
      BY <1>4, <2>1, LogGrows DEF InStage, Logged
  <2> QED
      BY <1>4, <2>2 DEF InStage, Logged, RefusalLeads
<1> QED
    BY <1>3, <1>4, <1>6, <1>7, <1>8 DEF InStage, Setting

LEMMA DrawStays ==
    ASSUME NEW name, NEW r, NEW t, NEW s, Setting(name), IsStage(r), IsStage(t),
           DrawLeads(policy, strokes, name, s, r, t), todo # <<>>, s = Step,
           InStage(r, name), Call
    PROVE  InStage(r, name)' /\ UNCHANGED <<policy, strokes>> /\ UNCHANGED todo
<1> DEFINE T == Trigger(strokes)
<1>1. /\ slept /\ slept' = FALSE /\ UNCHANGED <<strokes, now, todo>>
      /\ Commit(Made) \/ Reject(Made)
      /\ Made = IF strokesDone \in s.failAt THEN "StrokeFailed" ELSE "StrokeDone"
    BY DEF Call, program, DrawLeads, Made
<1>2. state = "Drawing" /\ strokesDone < s.target
    BY <1>1 DEF InStage, Timed, Draws, DrawLeads
<1>3. Commit(Made)
  <2>1. state \in Admits["StrokeDone"] /\ state \in Admits["StrokeFailed"]
      BY <1>2 DEF Admits
  <2>2. ~Reject("StrokeDone") /\ ~Reject("StrokeFailed")
      BY <2>1 DEF Reject
  <2> QED
      BY <1>1, <2>2
<1>4. /\ T \in Int /\ 1 <= T /\ strokesDone \in Nat /\ s.target \in Int
      /\ r.low <= strokesDone /\ strokesDone <= r.high
    BY TriggerFacts DEF Setting, InStage, Standing, IsStage, DrawLeads
<1>5. plan = strokes /\ plan # 0 /\ plan > 0 /\ r.st = "Drawing"
    BY DEF InStage, Standing, DrawLeads, Unplanned, Setting
<1>6. strokesDone + 1 \in r.low..r.high
    BY <1>2, <1>4, <1>5 DEF InStage, Standing, IsStage, DrawLeads, Upto, Setting
<1>7. UNCHANGED <<startedAt, endedAt>> /\ Apply(Made)
  <2>1. endedAt = -1
      BY <1>5 DEF InStage, Timed, Terminal
  <2>2. Made = "StrokeDone" \/ Made = "StrokeFailed"
      BY <1>1
  <2>3. StrokeDone \/ StrokeFailed
      BY <1>3, <2>2 DEF Commit, Apply
  <2>4. state' \notin Terminal
      BY <1>2, <2>3 DEF StrokeDone, StrokeFailed, Terminal
  <2> QED
      BY <1>1, <1>3, <2>1, <2>2, <2>4 DEF Commit
<1>8. reviewDone <=> policy.review /\ strokesDone >= T
    BY <1>5 DEF InStage, Standing
<1>9. reviewDone => r.low >= T
    BY <1>2, <1>4, <1>5 DEF InStage, Standing, IsStage
<1> DEFINE Goal == /\ Standing(r, name)' /\ Logged(r)' /\ policy' = policy
                   /\ strokesDone' = strokesDone + 1
<1>10. ASSUME Made = "StrokeDone" PROVE Goal
  <2>1. StrokeDone
      BY <1>7, <1>10 DEF Apply
  <2>2. /\ strokesDone' = strokesDone + 1
        /\ UNCHANGED <<policy, resumeTo, plan, failed, abortedAt, interventions>>
      BY <2>1 DEF StrokeDone
  <2>3. failed = IF name = "stroke_fail" THEN Failures(strokesDone') ELSE 0
      BY <1>1, <1>4, <1>10, <2>2 DEF InStage, Standing, DrawLeads, Failures
  <2>4. ASSUME policy.review /\ strokesDone + 1 >= T /\ ~reviewDone
        PROVE  Standing(r, name)' /\ Logged(r)'
    <3>1. state' = "AwaitingReview" /\ reviewDone' = TRUE /\ sinceReview' = 0
        BY <1>5, <2>1, <2>2, <2>4 DEF StrokeDone, ReviewDue, Setting
    <3>2. r.low < T
        BY <1>4, <1>8, <2>4 DEF IsStage
    <3>3. Standing(r, name)'
        BY <1>1, <1>4, <1>5, <1>6, <2>2, <2>3, <2>4, <3>1, <3>2, JobAssumption
           DEF InStage, Standing
    <3>4. Log("StrokeDone", TRUE)
        BY <1>3, <1>10, <3>1 DEF Commit
    <3>5. Path' = Path \cup {ReviewFell} /\ (Refused' <=> Refused) /\ history' \in History
        BY <1>2, <3>1, <3>4, LogGrows DEF InStage, Logged, ReviewFell, Calls, States, Working
    <3>6. Logged(r)'
        BY <2>2, <3>5 DEF InStage, Logged, ReviewFell, DiagramEdges
    <3> QED
        BY <3>3, <3>6
  <2>5. ASSUME ~(policy.review /\ strokesDone + 1 >= T /\ ~reviewDone)
        PROVE  Standing(r, name)' /\ Logged(r)'
    <3>1. state' = state /\ reviewDone' = reviewDone /\ sinceReview' = sinceReview
        BY <1>5, <2>1, <2>2, <2>5 DEF StrokeDone, ReviewDue, Setting
    <3>2. Standing(r, name)'
        BY <1>1, <1>2, <1>4, <1>5, <1>6, <1>8, <1>9, <2>2, <2>3, <2>5, <3>1
           DEF InStage, Standing
    <3>3. UNCHANGED history
        BY <1>2, <1>3, <1>10, <3>1 DEF Commit
    <3>4. Logged(r)'
        BY <2>2, <3>1, <3>3, LogKept DEF InStage, Logged
    <3> QED
        BY <3>2, <3>4
  <2>6. Standing(r, name)' /\ Logged(r)'
      BY <2>4, <2>5
  <2> QED
      BY <2>2, <2>6
<1>11. ASSUME Made = "StrokeFailed" PROVE Goal
  <2>1. StrokeFailed
      BY <1>7, <1>11 DEF Apply
  <2>2. /\ strokesDone' = strokesDone + 1 /\ failed' = failed + 1
        /\ UNCHANGED <<policy, state, reviewDone, sinceReview, resumeTo, plan, abortedAt,
                       interventions>>
      BY <2>1 DEF StrokeFailed
  <2>3. name = "stroke_fail" /\ strokesDone \in {2, 7} /\ ~policy.review
      BY <1>1, <1>11 DEF DrawLeads, Setting
  <2>4. failed' = Failures(strokesDone')
      BY <2>2, <2>3 DEF InStage, Standing, Failures
  <2>5. Standing(r, name)'
      BY <1>1, <1>2, <1>4, <1>5, <1>6, <1>8, <1>9, <2>2, <2>3, <2>4 DEF InStage, Standing
  <2>6. Log("StrokeFailed", TRUE)
      BY <1>3, <1>11 DEF Commit
  <2>7. Path' = Path \cup {StrokeFell} /\ (Refused' <=> Refused) /\ history' \in History
      BY <1>2, <2>2, <2>6, LogGrows DEF InStage, Logged, StrokeFell, Calls, States, Working
  <2>8. Logged(r)'
      BY <2>2, <2>7 DEF InStage, Logged, StrokeFell, DiagramEdges
  <2> QED
      BY <2>2, <2>5, <2>8
<1>12. Goal
  <2>1. Made = "StrokeDone" \/ Made = "StrokeFailed"
      BY <1>1
  <2> HIDE DEF Goal
  <2> QED
      BY <1>10, <1>11, <2>1
<1>13. Timed(r)'
  <2> DEFINE spent == strokesDone * StrokeTime
  <2>1. now = r.extra + spent + StrokeTime /\ s.wait = StrokeTime
      BY <1>1 DEF InStage, Timed, DrawLeads
  <2>2. spent \in Int /\ (strokesDone + 1) * StrokeTime = spent + StrokeTime
      BY <1>4, ScenarioAssumption
  <2> HIDE DEF spent
  <2>3. now' = r.extra + (strokesDone + 1) * StrokeTime + 0
      BY <1>1, <2>1, <2>2, ScenarioAssumption DEF IsStage
  <2> QED
      BY <1>1, <1>7, <1>12, <2>3 DEF InStage, Timed
<1> QED
    BY <1>1, <1>12, <1>13 DEF InStage, Setting

-----------------------------------------------------------------------------
(* Each script goes through its stages.                                      *)

Steps == [wait: Nat, call: Calls \cup {"Draw"}, target: Int, failAt: SUBSET {2, 7}]
Settings == [review: BOOLEAN, defaultContinue: BOOLEAN, capture: BOOLEAN]

StepCount == [happy |-> 5, reject |-> 2, plan_fail |-> 3, estop |-> 6, pause |-> 9,
              review_continue |-> 8, review_abort |-> 5, timeout |-> 8, stroke_fail |-> 6,
              selfcheck |-> 4]

\* Step k of the script of name leads from its stage k to the next one.
Follows(name, p, n) ==
    /\ Script(n)[name] \in Seq(Steps) /\ Len(Script(n)[name]) = StepCount[name]
    /\ IsStage(Stages(p, n)[name][Len(Script(n)[name]) + 1])
    /\ \A k \in 1..Len(Script(n)[name]) :
        /\ IsStage(Stages(p, n)[name][k])
        /\ Leads(p, n, name, Script(n)[name][k], Stages(p, n)[name][k],
                 Stages(p, n)[name][k + 1])

LEMMA StepTypes ==
    ASSUME NEW n \in Int, NEW w \in Nat, NEW c \in Calls
    PROVE  After(w, c) \in Steps /\ Draw(n, {}) \in Steps /\ Draw(n, {2, 7}) \in Steps
    BY ScenarioAssumption DEF After, Draw, Steps

\* The provers know tuples that grow by Append better than by concatenation.
LEMMA Grown ==
    ASSUME NEW a \in Steps, NEW b \in Steps, NEW c \in Steps, NEW d \in Steps, NEW e \in Steps
    PROVE  <<a, b, c>> \o <<d>> \o <<e>> = Append(Append(<<a, b, c>>, d), e)
<1>1. <<a, b, c>> \in Seq(Steps)
    OBVIOUS
<1>2. PICK u \in Seq(Steps) : u = <<a, b, c>>
    BY <1>1, Zenon
<1>3. u \o <<d>> = Append(u, d)
    BY AppendIsConcat, Zenon
<1>4. Append(u, d) \in Seq(Steps)
    BY AppendProperties, Zenon
<1>5. Append(u, d) \o <<e>> = Append(Append(u, d), e)
    BY <1>4, AppendIsConcat, Zenon
<1> QED
    BY <1>2, <1>3, <1>5, Zenon

\* What every script but one begins with.
LEMMA Opening ==
    ASSUME NEW n \in Int, n >= 4, NEW p \in Settings, NEW name, NEW high \in Nat
    PROVE  /\ IsStage(R1) /\ IsStage(R2) /\ IsStage(R3) /\ IsStage(R4(high))
           /\ Leads(p, n, name, After(0, "InputAccepted"), R1, R2)
           /\ Leads(p, n, name, After(0, "Start"), R2, R3)
           /\ Leads(p, n, name, After(PlanTime, "PlanReady"), R3, R4(high))
<1> USE DEF R1, R2, R3, R4, Stage
<1>1. IsStage(R1) /\ IsStage(R2) /\ IsStage(R3) /\ IsStage(R4(high))
    BY ScenarioAssumption DEF IsStage, States, Working
<1>2. CallLeads(p, n, After(0, "InputAccepted"), R1, R2)
    BY DEF After, CallLeads, Joined, DiagramEdges, Unplanned, Commands, Accepted
<1>3. CallLeads(p, n, After(0, "Start"), R2, R3)
    BY DEF After, CallLeads, Joined, DiagramEdges, Unplanned, Commands, Accepted, Started
<1>4. CallLeads(p, n, After(PlanTime, "PlanReady"), R3, R4(high))
    BY ScenarioAssumption
       DEF After, CallLeads, Joined, DiagramEdges, Unplanned, Commands, Accepted, Started,
           Planned, Opened
<1> HIDE DEF R1, R2, R3, R4, Stage
<1> QED
    BY <1>1, <1>2, <1>3, <1>4 DEF Leads

LEMMA HappyFollows ==
    ASSUME NEW n \in Int, n >= 4, NEW p \in Settings, p = PolicyOf("happy")
    PROVE  Follows("happy", p, n)
<1> DEFINE a == After(0, "InputAccepted")
           b == After(0, "Start")
           c == After(PlanTime, "PlanReady")
           d == Draw(n, {})
           e == After(0, "DrawingDone")
           s == Script(n)["happy"]
           z == Stages(p, n)["happy"]
<1>1. a \in Steps /\ b \in Steps /\ c \in Steps /\ d \in Steps /\ e \in Steps
    BY StepTypes, TriggerFacts, ScenarioAssumption, JobAssumption DEF Calls
<1>2. s = <<a, b, c>> \o <<d>> \o <<e>>
    BY DEF Script, RunSelfCheck, DrawAll, OpenJob, Photograph
<1>3. /\ z[1] = R1
      /\ z[2] = R2
      /\ z[3] = R3
      /\ z[4] = R4(n)
      /\ z[5] = Stage("Drawing", n, n, PlanTime, 0, Opened, FALSE)
      /\ z[6] = Stage("Completed", n, n, PlanTime, 0, Opened \cup {Ended}, FALSE)
    BY DEF Stages
<1> HIDE DEF a, b, c, d, e, s, z
<1>4. /\ s \in Seq(Steps) /\ Len(s) = 5 /\ s[1] = a /\ s[2] = b /\ s[3] = c /\ s[4] = d
      /\ s[5] = e
  <2>1. <<a, b, c>> \o <<d>> \o <<e>> = Append(Append(<<a, b, c>>, d), e)
      BY <1>1, Grown
  <2>2. s = Append(Append(<<a, b, c>>, d), e)
      BY <1>2, <2>1, Zenon
  <2> QED
      BY <1>1, <2>2
<1>5. /\ n \in Nat
      /\ Trigger(n) \in Nat /\ 1 <= Trigger(n) /\ Trigger(n) <= n
    BY TriggerFacts
<1>6. ~p.review /\ p.defaultContinue /\ ~p.capture
    BY DEF PolicyOf
<1>7. IsStage(z[1]) /\ Leads(p, n, "happy", s[1], z[1], z[2])
      /\ IsStage(z[2]) /\ Leads(p, n, "happy", s[2], z[2], z[3])
      /\ IsStage(z[3]) /\ Leads(p, n, "happy", s[3], z[3], z[4]) /\ IsStage(z[4])
    BY <1>3, <1>4, <1>5, Opening DEF a, b, c
<1>8. DrawLeads(p, n, "happy", s[4], z[4], z[5]) /\ IsStage(z[5])
    BY <1>3, <1>4, <1>5, <1>6, ScenarioAssumption, JobAssumption
       DEF d, Draw, DrawLeads, Upto, Joined, IsStage, States, Working, Terminal, Stage, R4, Opened
<1>9. CallLeads(p, n, s[5], z[5], z[6]) /\ IsStage(z[6])
    BY <1>3, <1>4, <1>5, <1>6, ScenarioAssumption, JobAssumption
       DEF e, After, CallLeads, DiagramEdges, Unplanned, Commands, Joined, IsStage, States,
           Working, Terminal, Stage, Opened, Ended
<1>10. \A k \in 1..5 : IsStage(z[k]) /\ Leads(p, n, "happy", s[k], z[k], z[k + 1])
  <2> SUFFICES ASSUME NEW k \in 1..5
               PROVE  IsStage(z[k]) /\ Leads(p, n, "happy", s[k], z[k], z[k + 1])
      OBVIOUS
  <2>1. k = 1 \/ k = 2 \/ k = 3 \/ k = 4 \/ k = 5
      OBVIOUS
  <2> QED
      BY <2>1, <1>7, <1>8, <1>9 DEF Leads
<1>11. IsStage(z[5 + 1])
    BY <1>9
<1> QED
    BY <1>4, <1>10, <1>11 DEF Follows, StepCount, s, z

LEMMA RejectFollows ==
    ASSUME NEW n \in Int, n >= 4, NEW p \in Settings, p = PolicyOf("reject")
    PROVE  Follows("reject", p, n)
<1> DEFINE a == After(0, "InputRejected")
           b == After(0, "Start")
           s == Script(n)["reject"]
           z == Stages(p, n)["reject"]
<1>1. a \in Steps /\ b \in Steps
    BY StepTypes, TriggerFacts, ScenarioAssumption, JobAssumption DEF Calls
<1>2. s = <<a, b>>
    BY DEF Script, RunSelfCheck, DrawAll, OpenJob, Photograph
<1>3. /\ z[1] = R1
      /\ z[2] = Stage("Rejected", 0, 0, 0, 0, {NotAccepted}, FALSE)
      /\ z[3] = Stage("Rejected", 0, 0, 0, 0, {NotAccepted}, TRUE)
    BY DEF Stages
<1> HIDE DEF a, b, s, z
<1>4. /\ s \in Seq(Steps) /\ Len(s) = 2 /\ s[1] = a /\ s[2] = b
    BY <1>1, <1>2
<1>5. /\ n \in Nat
      /\ Trigger(n) \in Nat /\ 1 <= Trigger(n) /\ Trigger(n) <= n
    BY TriggerFacts
<1>6. p.review /\ p.defaultContinue /\ p.capture
    BY DEF PolicyOf
<1>7. IsStage(z[1])
    BY <1>3, Opening
<1>8. CallLeads(p, n, s[1], z[1], z[2]) /\ IsStage(z[2])
    BY <1>3, <1>4, <1>5, <1>6, ScenarioAssumption, JobAssumption
       DEF a, After, CallLeads, DiagramEdges, Unplanned, Commands, Joined, IsStage, States,
           Working, Terminal, Stage, R1, NotAccepted
<1>9. RefusalLeads(s[2], z[2], z[3]) /\ IsStage(z[3])
    BY <1>3, <1>4, <1>5, <1>6, ScenarioAssumption, JobAssumption
       DEF b, After, RefusalLeads, Terminal, Joined, IsStage, States, Working, Terminal, Stage,
           NotAccepted
<1>10. \A k \in 1..2 : IsStage(z[k]) /\ Leads(p, n, "reject", s[k], z[k], z[k + 1])
  <2> SUFFICES ASSUME NEW k \in 1..2
               PROVE  IsStage(z[k]) /\ Leads(p, n, "reject", s[k], z[k], z[k + 1])
      OBVIOUS
  <2>1. k = 1 \/ k = 2
      OBVIOUS
  <2> QED
      BY <2>1, <1>7, <1>8, <1>9 DEF Leads
<1>11. IsStage(z[2 + 1])
    BY <1>9
<1> QED
    BY <1>4, <1>10, <1>11 DEF Follows, StepCount, s, z

LEMMA PlanFailFollows ==
    ASSUME NEW n \in Int, n >= 4, NEW p \in Settings, p = PolicyOf("plan_fail")
    PROVE  Follows("plan_fail", p, n)
<1> DEFINE a == After(0, "InputAccepted")
           b == After(0, "Start")
           c == After(PlanTime, "PlanFailed")
           s == Script(n)["plan_fail"]
           z == Stages(p, n)["plan_fail"]
<1>1. a \in Steps /\ b \in Steps /\ c \in Steps
    BY StepTypes, TriggerFacts, ScenarioAssumption, JobAssumption DEF Calls
<1>2. s = <<a, b, c>>
    BY DEF Script, RunSelfCheck, DrawAll, OpenJob, Photograph
<1>3. /\ z[1] = R1
      /\ z[2] = R2
      /\ z[3] = R3
      /\ z[4] = Stage("Failed", 0, 0, PlanTime, 0, {NotPlanned}, FALSE)
    BY DEF Stages
<1> HIDE DEF a, b, c, s, z
<1>4. /\ s \in Seq(Steps) /\ Len(s) = 3 /\ s[1] = a /\ s[2] = b /\ s[3] = c
    BY <1>1, <1>2
<1>5. /\ n \in Nat
      /\ Trigger(n) \in Nat /\ 1 <= Trigger(n) /\ Trigger(n) <= n
    BY TriggerFacts
<1>6. p.review /\ p.defaultContinue /\ p.capture
    BY DEF PolicyOf
<1>7. IsStage(z[1]) /\ Leads(p, n, "plan_fail", s[1], z[1], z[2])
      /\ IsStage(z[2]) /\ Leads(p, n, "plan_fail", s[2], z[2], z[3]) /\ IsStage(z[3])
    BY <1>3, <1>4, Opening DEF a, b
<1>8. CallLeads(p, n, s[3], z[3], z[4]) /\ IsStage(z[4])
    BY <1>3, <1>4, <1>5, <1>6, ScenarioAssumption, JobAssumption
       DEF c, After, CallLeads, DiagramEdges, Unplanned, Commands, Joined, IsStage, States,
           Working, Terminal, Stage, R3, NotPlanned
<1>9. \A k \in 1..3 : IsStage(z[k]) /\ Leads(p, n, "plan_fail", s[k], z[k], z[k + 1])
  <2> SUFFICES ASSUME NEW k \in 1..3
               PROVE  IsStage(z[k]) /\ Leads(p, n, "plan_fail", s[k], z[k], z[k + 1])
      OBVIOUS
  <2>1. k = 1 \/ k = 2 \/ k = 3
      OBVIOUS
  <2> QED
      BY <2>1, <1>7, <1>8 DEF Leads
<1>10. IsStage(z[3 + 1])
    BY <1>8
<1> QED
    BY <1>4, <1>9, <1>10 DEF Follows, StepCount, s, z

LEMMA EstopFollows ==
    ASSUME NEW n \in Int, n >= 4, NEW p \in Settings, p = PolicyOf("estop")
    PROVE  Follows("estop", p, n)
<1> DEFINE a == After(0, "InputAccepted")
           b == After(0, "Start")
           c == After(PlanTime, "PlanReady")
           d == Draw(n \div 3, {})
           e == After(0, "EmergencyStop")
           f == After(0, "Resume")
           s == Script(n)["estop"]
           z == Stages(p, n)["estop"]
<1>1. a \in Steps /\ b \in Steps /\ c \in Steps /\ d \in Steps /\ e \in Steps
      /\ f \in Steps
    BY StepTypes, TriggerFacts, ScenarioAssumption, JobAssumption DEF Calls
<1>2. s = <<a, b, c>> \o <<d>> \o <<e, f>>
    BY DEF Script, RunSelfCheck, DrawAll, OpenJob, Photograph
<1>3. /\ z[1] = R1
      /\ z[2] = R2
      /\ z[3] = R3
      /\ z[4] = R4(n \div 3)
      /\ z[5] = Stage("Drawing", n \div 3, n \div 3, PlanTime, 0, {}, FALSE)
      /\ z[6] = Stage("Aborted", n \div 3, n \div 3, PlanTime, 1, {Stopped}, FALSE)
      /\ z[7] = Stage("Aborted", n \div 3, n \div 3, PlanTime, 1, {Stopped}, TRUE)
    BY DEF Stages
<1> HIDE DEF a, b, c, d, e, f, s, z
<1>4. /\ s \in Seq(Steps) /\ Len(s) = 6 /\ s[1] = a /\ s[2] = b /\ s[3] = c /\ s[4] = d
      /\ s[5] = e /\ s[6] = f
    BY <1>1, <1>2
<1>5. /\ n \in Nat
      /\ Trigger(n) \in Nat /\ 1 <= Trigger(n) /\ Trigger(n) <= n
      /\ n \div 3 \in Nat /\ n \div 3 < Trigger(n)
    BY TriggerFacts
<1>6. p.review /\ p.defaultContinue /\ p.capture
    BY DEF PolicyOf
<1>7. IsStage(z[1]) /\ Leads(p, n, "estop", s[1], z[1], z[2])
      /\ IsStage(z[2]) /\ Leads(p, n, "estop", s[2], z[2], z[3])
      /\ IsStage(z[3]) /\ Leads(p, n, "estop", s[3], z[3], z[4]) /\ IsStage(z[4])
    BY <1>3, <1>4, <1>5, Opening DEF a, b, c
<1>8. DrawLeads(p, n, "estop", s[4], z[4], z[5]) /\ IsStage(z[5])
    BY <1>3, <1>4, <1>5, <1>6, ScenarioAssumption, JobAssumption
       DEF d, Draw, DrawLeads, Upto, Joined, IsStage, States, Working, Terminal, Stage, R4, Opened
<1>9. CallLeads(p, n, s[5], z[5], z[6]) /\ IsStage(z[6])
    BY <1>3, <1>4, <1>5, <1>6, ScenarioAssumption, JobAssumption
       DEF e, After, CallLeads, DiagramEdges, Unplanned, Commands, Joined, IsStage, States,
           Working, Terminal, Stage, Stopped
<1>10. RefusalLeads(s[6], z[6], z[7]) /\ IsStage(z[7])
    BY <1>3, <1>4, <1>5, <1>6, ScenarioAssumption, JobAssumption
       DEF f, After, RefusalLeads, Terminal, Joined, IsStage, States, Working, Terminal, Stage,
           Stopped
<1>11. \A k \in 1..6 : IsStage(z[k]) /\ Leads(p, n, "estop", s[k], z[k], z[k + 1])
  <2> SUFFICES ASSUME NEW k \in 1..6
               PROVE  IsStage(z[k]) /\ Leads(p, n, "estop", s[k], z[k], z[k + 1])
      OBVIOUS
  <2>1. k = 1 \/ k = 2 \/ k = 3 \/ k = 4 \/ k = 5 \/ k = 6
      OBVIOUS
  <2> QED
      BY <2>1, <1>7, <1>8, <1>9, <1>10 DEF Leads
<1>12. IsStage(z[6 + 1])
    BY <1>10
<1> QED
    BY <1>4, <1>11, <1>12 DEF Follows, StepCount, s, z

LEMMA PauseFollows ==
    ASSUME NEW n \in Int, n >= 4, NEW p \in Settings, p = PolicyOf("pause")
    PROVE  Follows("pause", p, n)
<1> DEFINE a == After(0, "InputAccepted")
           b == After(0, "Start")
           c == After(PlanTime, "PlanReady")
           d == Draw(n \div 4, {})
           e == After(0, "Pause")
           f == After(30, "Resume")
           g == Draw(n, {})
           h == After(0, "DrawingDone")
           i == After(8, "CaptureDone")
           s == Script(n)["pause"]
           z == Stages(p, n)["pause"]
<1>1. a \in Steps /\ b \in Steps /\ c \in Steps /\ d \in Steps /\ e \in Steps
      /\ f \in Steps /\ g \in Steps /\ h \in Steps /\ i \in Steps
    BY StepTypes, TriggerFacts, ScenarioAssumption, JobAssumption DEF Calls
<1>2. s = <<a, b, c>> \o <<d>> \o <<e, f, g>> \o <<h, i>>
    BY DEF Script, RunSelfCheck, DrawAll, OpenJob, Photograph
<1>3. /\ z[1] = R1
      /\ z[2] = R2
      /\ z[3] = R3
      /\ z[4] = R4(n \div 4)
      /\ z[5] = Stage("Drawing", n \div 4, n \div 4, PlanTime, 0, {}, FALSE)
      /\ z[6] = Stage("Paused", n \div 4, n \div 4, PlanTime, 1, {Paused}, FALSE)
      /\ z[7] = Stage("Drawing", n \div 4, n, PlanTime + 30, 2, {Paused, Resumed}, FALSE)
      /\ z[8] = Stage("Drawing", n, n, PlanTime + 30, 2, {Paused, Resumed}, FALSE)
      /\ z[9] = Stage("Capturing", n, n, PlanTime + 30, 2, {Paused, Resumed}, FALSE)
      /\ z[10] = Stage("Completed", n, n, PlanTime + 38, 2, {Paused, Resumed}, FALSE)
    BY DEF Stages
<1> HIDE DEF a, b, c, d, e, f, g, h, i, s, z
<1>4. /\ s \in Seq(Steps) /\ Len(s) = 9 /\ s[1] = a /\ s[2] = b /\ s[3] = c /\ s[4] = d
      /\ s[5] = e /\ s[6] = f /\ s[7] = g /\ s[8] = h /\ s[9] = i
    BY <1>1, <1>2
<1>5. /\ n \in Nat
      /\ Trigger(n) \in Nat /\ 1 <= Trigger(n) /\ Trigger(n) <= n
      /\ n \div 4 \in Nat /\ n \div 4 <= n
    BY TriggerFacts
<1>6. ~p.review /\ p.defaultContinue /\ p.capture
    BY DEF PolicyOf
<1>7. IsStage(z[1]) /\ Leads(p, n, "pause", s[1], z[1], z[2])
      /\ IsStage(z[2]) /\ Leads(p, n, "pause", s[2], z[2], z[3])
      /\ IsStage(z[3]) /\ Leads(p, n, "pause", s[3], z[3], z[4]) /\ IsStage(z[4])
    BY <1>3, <1>4, <1>5, Opening DEF a, b, c
<1>8. DrawLeads(p, n, "pause", s[4], z[4], z[5]) /\ IsStage(z[5])
    BY <1>3, <1>4, <1>5, <1>6, ScenarioAssumption, JobAssumption
       DEF d, Draw, DrawLeads, Upto, Joined, IsStage, States, Working, Terminal, Stage, R4, Opened
<1>9. CallLeads(p, n, s[5], z[5], z[6]) /\ IsStage(z[6])
    BY <1>3, <1>4, <1>5, <1>6, ScenarioAssumption, JobAssumption
       DEF e, After, CallLeads, DiagramEdges, Unplanned, Commands, Joined, IsStage, States,
           Working, Terminal, Stage, Paused
<1>10. CallLeads(p, n, s[6], z[6], z[7]) /\ IsStage(z[7])
    BY <1>3, <1>4, <1>5, <1>6, ScenarioAssumption, JobAssumption
       DEF f, After, CallLeads, DiagramEdges, Unplanned, Commands, Joined, IsStage, States,
           Working, Terminal, Stage, Paused, Resumed
<1>11. DrawLeads(p, n, "pause", s[7], z[7], z[8]) /\ IsStage(z[8])
    BY <1>3, <1>4, <1>5, <1>6, ScenarioAssumption, JobAssumption
       DEF g, Draw, DrawLeads, Upto, Joined, IsStage, States, Working, Terminal, Stage, Paused,
           Resumed
<1>12. CallLeads(p, n, s[8], z[8], z[9]) /\ IsStage(z[9])
    BY <1>3, <1>4, <1>5, <1>6, ScenarioAssumption, JobAssumption
       DEF h, After, CallLeads, DiagramEdges, Unplanned, Commands, Joined, IsStage, States,
           Working, Terminal, Stage, Paused, Resumed
<1>13. CallLeads(p, n, s[9], z[9], z[10]) /\ IsStage(z[10])
    BY <1>3, <1>4, <1>5, <1>6, ScenarioAssumption, JobAssumption
       DEF i, After, CallLeads, DiagramEdges, Unplanned, Commands, Joined, IsStage, States,
           Working, Terminal, Stage, Paused, Resumed
<1>14. \A k \in 1..9 : IsStage(z[k]) /\ Leads(p, n, "pause", s[k], z[k], z[k + 1])
  <2> SUFFICES ASSUME NEW k \in 1..9
               PROVE  IsStage(z[k]) /\ Leads(p, n, "pause", s[k], z[k], z[k + 1])
      OBVIOUS
  <2>1. k = 1 \/ k = 2 \/ k = 3 \/ k = 4 \/ k = 5 \/ k = 6 \/ k = 7 \/ k = 8 \/ k = 9
      OBVIOUS
  <2> QED
      BY <2>1, <1>7, <1>8, <1>9, <1>10, <1>11, <1>12, <1>13 DEF Leads
<1>15. IsStage(z[9 + 1])
    BY <1>13
<1> QED
    BY <1>4, <1>14, <1>15 DEF Follows, StepCount, s, z

LEMMA ReviewContinueFollows ==
    ASSUME NEW n \in Int, n >= 4, NEW p \in Settings, p = PolicyOf("review_continue")
    PROVE  Follows("review_continue", p, n)
<1> DEFINE a == After(0, "InputAccepted")
           b == After(0, "Start")
           c == After(PlanTime, "PlanReady")
           d == Draw(n, {})
           e == After(12, "ReviewContinue")
           f == Draw(n, {})
           g == After(0, "DrawingDone")
           h == After(8, "CaptureDone")
           s == Script(n)["review_continue"]
           z == Stages(p, n)["review_continue"]
<1>1. a \in Steps /\ b \in Steps /\ c \in Steps /\ d \in Steps /\ e \in Steps
      /\ f \in Steps /\ g \in Steps /\ h \in Steps
    BY StepTypes, TriggerFacts, ScenarioAssumption, JobAssumption DEF Calls
<1>2. s = <<a, b, c>> \o <<d>> \o <<e, f>> \o <<g, h>>
    BY DEF Script, RunSelfCheck, DrawAll, OpenJob, Photograph
<1>3. /\ z[1] = R1
      /\ z[2] = R2
      /\ z[3] = R3
      /\ z[4] = R4(Trigger(n))
      /\ z[5] = Stage("AwaitingReview", Trigger(n), Trigger(n), PlanTime, 0, {}, FALSE)
      /\ z[6] = Stage("Drawing", Trigger(n), n, PlanTime + 12, 1, {Continued}, FALSE)
      /\ z[7] = Stage("Drawing", n, n, PlanTime + 12, 1, {Continued}, FALSE)
      /\ z[8] = Stage("Capturing", n, n, PlanTime + 12, 1, {Continued, Shot}, FALSE)
      /\ z[9] = Stage("Completed", n, n, PlanTime + 20, 1, {Continued, Shot, Captured}, FALSE)
    BY DEF Stages
<1> HIDE DEF a, b, c, d, e, f, g, h, s, z
<1>4. /\ s \in Seq(Steps) /\ Len(s) = 8 /\ s[1] = a /\ s[2] = b /\ s[3] = c /\ s[4] = d
      /\ s[5] = e /\ s[6] = f /\ s[7] = g /\ s[8] = h
    BY <1>1, <1>2
<1>5. /\ n \in Nat
      /\ Trigger(n) \in Nat /\ 1 <= Trigger(n) /\ Trigger(n) <= n
    BY TriggerFacts
<1>6. p.review /\ p.defaultContinue /\ p.capture
    BY DEF PolicyOf
<1>7. IsStage(z[1]) /\ Leads(p, n, "review_continue", s[1], z[1], z[2])
      /\ IsStage(z[2]) /\ Leads(p, n, "review_continue", s[2], z[2], z[3])
      /\ IsStage(z[3]) /\ Leads(p, n, "review_continue", s[3], z[3], z[4]) /\ IsStage(z[4])
    BY <1>3, <1>4, <1>5, Opening DEF a, b, c
<1>8. DrawLeads(p, n, "review_continue", s[4], z[4], z[5]) /\ IsStage(z[5])
    BY <1>3, <1>4, <1>5, <1>6, ScenarioAssumption, JobAssumption
       DEF d, Draw, DrawLeads, Upto, Joined, IsStage, States, Working, Terminal, Stage, R4, Opened
<1>9. CallLeads(p, n, s[5], z[5], z[6]) /\ IsStage(z[6])
    BY <1>3, <1>4, <1>5, <1>6, ScenarioAssumption, JobAssumption
       DEF e, After, CallLeads, DiagramEdges, Unplanned, Commands, Joined, IsStage, States,
           Working, Terminal, Stage, Continued
<1>10. DrawLeads(p, n, "review_continue", s[6], z[6], z[7]) /\ IsStage(z[7])
    BY <1>3, <1>4, <1>5, <1>6, ScenarioAssumption, JobAssumption
       DEF f, Draw, DrawLeads, Upto, Joined, IsStage, States, Working, Terminal, Stage, Continued
<1>11. CallLeads(p, n, s[7], z[7], z[8]) /\ IsStage(z[8])
    BY <1>3, <1>4, <1>5, <1>6, ScenarioAssumption, JobAssumption
       DEF g, After, CallLeads, DiagramEdges, Unplanned, Commands, Joined, IsStage, States,
           Working, Terminal, Stage, Continued, Shot
<1>12. CallLeads(p, n, s[8], z[8], z[9]) /\ IsStage(z[9])
    BY <1>3, <1>4, <1>5, <1>6, ScenarioAssumption, JobAssumption
       DEF h, After, CallLeads, DiagramEdges, Unplanned, Commands, Joined, IsStage, States,
           Working, Terminal, Stage, Captured, Continued, Shot
<1>13. \A k \in 1..8 : IsStage(z[k]) /\ Leads(p, n, "review_continue", s[k], z[k], z[k + 1])
  <2> SUFFICES ASSUME NEW k \in 1..8
               PROVE  IsStage(z[k]) /\ Leads(p, n, "review_continue", s[k], z[k], z[k + 1])
      OBVIOUS
  <2>1. k = 1 \/ k = 2 \/ k = 3 \/ k = 4 \/ k = 5 \/ k = 6 \/ k = 7 \/ k = 8
      OBVIOUS
  <2> QED
      BY <2>1, <1>7, <1>8, <1>9, <1>10, <1>11, <1>12 DEF Leads
<1>14. IsStage(z[8 + 1])
    BY <1>12
<1> QED
    BY <1>4, <1>13, <1>14 DEF Follows, StepCount, s, z

LEMMA ReviewAbortFollows ==
    ASSUME NEW n \in Int, n >= 4, NEW p \in Settings, p = PolicyOf("review_abort")
    PROVE  Follows("review_abort", p, n)
<1> DEFINE a == After(0, "InputAccepted")
           b == After(0, "Start")
           c == After(PlanTime, "PlanReady")
           d == Draw(n, {})
           e == After(12, "ReviewAbort")
           s == Script(n)["review_abort"]
           z == Stages(p, n)["review_abort"]
<1>1. a \in Steps /\ b \in Steps /\ c \in Steps /\ d \in Steps /\ e \in Steps
    BY StepTypes, TriggerFacts, ScenarioAssumption, JobAssumption DEF Calls
<1>2. s = <<a, b, c>> \o <<d>> \o <<e>>
    BY DEF Script, RunSelfCheck, DrawAll, OpenJob, Photograph
<1>3. /\ z[1] = R1
      /\ z[2] = R2
      /\ z[3] = R3
      /\ z[4] = R4(Trigger(n))
      /\ z[5] = Stage("AwaitingReview", Trigger(n), Trigger(n), PlanTime, 0, {}, FALSE)
      /\ z[6] = Stage("Aborted", Trigger(n), Trigger(n), PlanTime + 12, 1, {Declined}, FALSE)
    BY DEF Stages
<1> HIDE DEF a, b, c, d, e, s, z
<1>4. /\ s \in Seq(Steps) /\ Len(s) = 5 /\ s[1] = a /\ s[2] = b /\ s[3] = c /\ s[4] = d
      /\ s[5] = e
  <2>1. <<a, b, c>> \o <<d>> \o <<e>> = Append(Append(<<a, b, c>>, d), e)
      BY <1>1, Grown
  <2>2. s = Append(Append(<<a, b, c>>, d), e)
      BY <1>2, <2>1, Zenon
  <2> QED
      BY <1>1, <2>2
<1>5. /\ n \in Nat
      /\ Trigger(n) \in Nat /\ 1 <= Trigger(n) /\ Trigger(n) <= n
    BY TriggerFacts
<1>6. p.review /\ p.defaultContinue /\ p.capture
    BY DEF PolicyOf
<1>7. IsStage(z[1]) /\ Leads(p, n, "review_abort", s[1], z[1], z[2])
      /\ IsStage(z[2]) /\ Leads(p, n, "review_abort", s[2], z[2], z[3])
      /\ IsStage(z[3]) /\ Leads(p, n, "review_abort", s[3], z[3], z[4]) /\ IsStage(z[4])
    BY <1>3, <1>4, <1>5, Opening DEF a, b, c
<1>8. DrawLeads(p, n, "review_abort", s[4], z[4], z[5]) /\ IsStage(z[5])
    BY <1>3, <1>4, <1>5, <1>6, ScenarioAssumption, JobAssumption
       DEF d, Draw, DrawLeads, Upto, Joined, IsStage, States, Working, Terminal, Stage, R4, Opened
<1>9. CallLeads(p, n, s[5], z[5], z[6]) /\ IsStage(z[6])
    BY <1>3, <1>4, <1>5, <1>6, ScenarioAssumption, JobAssumption
       DEF e, After, CallLeads, DiagramEdges, Unplanned, Commands, Joined, IsStage, States,
           Working, Terminal, Stage, Declined
<1>10. \A k \in 1..5 : IsStage(z[k]) /\ Leads(p, n, "review_abort", s[k], z[k], z[k + 1])
  <2> SUFFICES ASSUME NEW k \in 1..5
               PROVE  IsStage(z[k]) /\ Leads(p, n, "review_abort", s[k], z[k], z[k + 1])
      OBVIOUS
  <2>1. k = 1 \/ k = 2 \/ k = 3 \/ k = 4 \/ k = 5
      OBVIOUS
  <2> QED
      BY <2>1, <1>7, <1>8, <1>9 DEF Leads
<1>11. IsStage(z[5 + 1])
    BY <1>9
<1> QED
    BY <1>4, <1>10, <1>11 DEF Follows, StepCount, s, z

LEMMA TimeoutFollows ==
    ASSUME NEW n \in Int, n >= 4, NEW p \in Settings, p = PolicyOf("timeout")
    PROVE  Follows("timeout", p, n)
<1> DEFINE a == After(0, "InputAccepted")
           b == After(0, "Start")
           c == After(PlanTime, "PlanReady")
           d == Draw(n, {})
           e == After(ReviewTimeout + 1, "Tick")
           f == Draw(n, {})
           g == After(0, "DrawingDone")
           h == After(8, "CaptureDone")
           s == Script(n)["timeout"]
           z == Stages(p, n)["timeout"]
<1>1. a \in Steps /\ b \in Steps /\ c \in Steps /\ d \in Steps /\ e \in Steps
      /\ f \in Steps /\ g \in Steps /\ h \in Steps
    BY StepTypes, TriggerFacts, ScenarioAssumption, JobAssumption DEF Calls
<1>2. s = <<a, b, c>> \o <<d>> \o <<e, f>> \o <<g, h>>
    BY DEF Script, RunSelfCheck, DrawAll, OpenJob, Photograph
<1>3. /\ z[1] = R1
      /\ z[2] = R2
      /\ z[3] = R3
      /\ z[4] = R4(Trigger(n))
      /\ z[5] = Stage("AwaitingReview", Trigger(n), Trigger(n), PlanTime, 0, {}, FALSE)
      /\ z[6] = Stage("Drawing", Trigger(n), n, PlanTime + ReviewTimeout + 1, 0, {TimedOut}, FALSE)
      /\ z[7] = Stage("Drawing", n, n, PlanTime + ReviewTimeout + 1, 0, {TimedOut}, FALSE)
      /\ z[8] = Stage("Capturing", n, n, PlanTime + ReviewTimeout + 1, 0, {TimedOut}, FALSE)
      /\ z[9] = Stage("Completed", n, n, PlanTime + ReviewTimeout + 9, 0, {TimedOut}, FALSE)
    BY DEF Stages
<1> HIDE DEF a, b, c, d, e, f, g, h, s, z
<1>4. /\ s \in Seq(Steps) /\ Len(s) = 8 /\ s[1] = a /\ s[2] = b /\ s[3] = c /\ s[4] = d
      /\ s[5] = e /\ s[6] = f /\ s[7] = g /\ s[8] = h
    BY <1>1, <1>2
<1>5. /\ n \in Nat
      /\ Trigger(n) \in Nat /\ 1 <= Trigger(n) /\ Trigger(n) <= n
    BY TriggerFacts
<1>6. p.review /\ p.defaultContinue /\ p.capture
    BY DEF PolicyOf
<1>7. IsStage(z[1]) /\ Leads(p, n, "timeout", s[1], z[1], z[2])
      /\ IsStage(z[2]) /\ Leads(p, n, "timeout", s[2], z[2], z[3])
      /\ IsStage(z[3]) /\ Leads(p, n, "timeout", s[3], z[3], z[4]) /\ IsStage(z[4])
    BY <1>3, <1>4, <1>5, Opening DEF a, b, c
<1>8. DrawLeads(p, n, "timeout", s[4], z[4], z[5]) /\ IsStage(z[5])
    BY <1>3, <1>4, <1>5, <1>6, ScenarioAssumption, JobAssumption
       DEF d, Draw, DrawLeads, Upto, Joined, IsStage, States, Working, Terminal, Stage, R4, Opened
<1>9. CallLeads(p, n, s[5], z[5], z[6]) /\ IsStage(z[6])
    BY <1>3, <1>4, <1>5, <1>6, ScenarioAssumption, JobAssumption
       DEF e, After, CallLeads, DiagramEdges, Unplanned, Commands, Joined, IsStage, States,
           Working, Terminal, Stage, TimedOut
<1>10. DrawLeads(p, n, "timeout", s[6], z[6], z[7]) /\ IsStage(z[7])
    BY <1>3, <1>4, <1>5, <1>6, ScenarioAssumption, JobAssumption
       DEF f, Draw, DrawLeads, Upto, Joined, IsStage, States, Working, Terminal, Stage, TimedOut
<1>11. CallLeads(p, n, s[7], z[7], z[8]) /\ IsStage(z[8])
    BY <1>3, <1>4, <1>5, <1>6, ScenarioAssumption, JobAssumption
       DEF g, After, CallLeads, DiagramEdges, Unplanned, Commands, Joined, IsStage, States,
           Working, Terminal, Stage, TimedOut
<1>12. CallLeads(p, n, s[8], z[8], z[9]) /\ IsStage(z[9])
    BY <1>3, <1>4, <1>5, <1>6, ScenarioAssumption, JobAssumption
       DEF h, After, CallLeads, DiagramEdges, Unplanned, Commands, Joined, IsStage, States,
           Working, Terminal, Stage, TimedOut
<1>13. \A k \in 1..8 : IsStage(z[k]) /\ Leads(p, n, "timeout", s[k], z[k], z[k + 1])
  <2> SUFFICES ASSUME NEW k \in 1..8
               PROVE  IsStage(z[k]) /\ Leads(p, n, "timeout", s[k], z[k], z[k + 1])
      OBVIOUS
  <2>1. k = 1 \/ k = 2 \/ k = 3 \/ k = 4 \/ k = 5 \/ k = 6 \/ k = 7 \/ k = 8
      OBVIOUS
  <2> QED
      BY <2>1, <1>7, <1>8, <1>9, <1>10, <1>11, <1>12 DEF Leads
<1>14. IsStage(z[8 + 1])
    BY <1>12
<1> QED
    BY <1>4, <1>13, <1>14 DEF Follows, StepCount, s, z

LEMMA StrokeFailFollows ==
    ASSUME NEW n \in Int, n >= 4, NEW p \in Settings, p = PolicyOf("stroke_fail")
    PROVE  Follows("stroke_fail", p, n)
<1> DEFINE a == After(0, "InputAccepted")
           b == After(0, "Start")
           c == After(PlanTime, "PlanReady")
           d == Draw(n, {2, 7})
           e == After(0, "DrawingDone")
           f == After(8, "CaptureDone")
           s == Script(n)["stroke_fail"]
           z == Stages(p, n)["stroke_fail"]
<1>1. a \in Steps /\ b \in Steps /\ c \in Steps /\ d \in Steps /\ e \in Steps
      /\ f \in Steps
    BY StepTypes, TriggerFacts, ScenarioAssumption, JobAssumption DEF Calls
<1>2. s = <<a, b, c>> \o <<d>> \o <<e, f>>
    BY DEF Script, RunSelfCheck, DrawAll, OpenJob, Photograph
<1>3. /\ z[1] = R1
      /\ z[2] = R2
      /\ z[3] = R3
      /\ z[4] = R4(n)
      /\ z[5] = Stage("Drawing", n, n, PlanTime, 0, {}, FALSE)
      /\ z[6] = Stage("Capturing", n, n, PlanTime, 0, {}, FALSE)
      /\ z[7] = Stage("Completed", n, n, PlanTime + 8, 0, {}, FALSE)
    BY DEF Stages
<1> HIDE DEF a, b, c, d, e, f, s, z
<1>4. /\ s \in Seq(Steps) /\ Len(s) = 6 /\ s[1] = a /\ s[2] = b /\ s[3] = c /\ s[4] = d
      /\ s[5] = e /\ s[6] = f
    BY <1>1, <1>2
<1>5. /\ n \in Nat
      /\ Trigger(n) \in Nat /\ 1 <= Trigger(n) /\ Trigger(n) <= n
    BY TriggerFacts
<1>6. ~p.review /\ p.defaultContinue /\ p.capture
    BY DEF PolicyOf
<1>7. IsStage(z[1]) /\ Leads(p, n, "stroke_fail", s[1], z[1], z[2])
      /\ IsStage(z[2]) /\ Leads(p, n, "stroke_fail", s[2], z[2], z[3])
      /\ IsStage(z[3]) /\ Leads(p, n, "stroke_fail", s[3], z[3], z[4]) /\ IsStage(z[4])
    BY <1>3, <1>4, <1>5, Opening DEF a, b, c
<1>8. DrawLeads(p, n, "stroke_fail", s[4], z[4], z[5]) /\ IsStage(z[5])
    BY <1>3, <1>4, <1>5, <1>6, ScenarioAssumption, JobAssumption
       DEF d, Draw, DrawLeads, Upto, Joined, IsStage, States, Working, Terminal, Stage, R4, Opened
<1>9. CallLeads(p, n, s[5], z[5], z[6]) /\ IsStage(z[6])
    BY <1>3, <1>4, <1>5, <1>6, ScenarioAssumption, JobAssumption
       DEF e, After, CallLeads, DiagramEdges, Unplanned, Commands, Joined, IsStage, States,
           Working, Terminal, Stage
<1>10. CallLeads(p, n, s[6], z[6], z[7]) /\ IsStage(z[7])
    BY <1>3, <1>4, <1>5, <1>6, ScenarioAssumption, JobAssumption
       DEF f, After, CallLeads, DiagramEdges, Unplanned, Commands, Joined, IsStage, States,
           Working, Terminal, Stage
<1>11. \A k \in 1..6 : IsStage(z[k]) /\ Leads(p, n, "stroke_fail", s[k], z[k], z[k + 1])
  <2> SUFFICES ASSUME NEW k \in 1..6
               PROVE  IsStage(z[k]) /\ Leads(p, n, "stroke_fail", s[k], z[k], z[k + 1])
      OBVIOUS
  <2>1. k = 1 \/ k = 2 \/ k = 3 \/ k = 4 \/ k = 5 \/ k = 6
      OBVIOUS
  <2> QED
      BY <2>1, <1>7, <1>8, <1>9, <1>10 DEF Leads
<1>12. IsStage(z[6 + 1])
    BY <1>10
<1> QED
    BY <1>4, <1>11, <1>12 DEF Follows, StepCount, s, z

LEMMA SelfcheckFollows ==
    ASSUME NEW n \in Int, n >= 4, NEW p \in Settings
    PROVE  Follows("selfcheck", p, n)
<1> DEFINE a == After(0, "InputAccepted")
           b == After(0, "Start")
           c == After(PlanTime, "PlanReady")
           d == Draw(n, {})
           s == Script(n)["selfcheck"]
           z == Stages(p, n)["selfcheck"]
<1>1. a \in Steps /\ b \in Steps /\ c \in Steps /\ d \in Steps
    BY StepTypes, TriggerFacts, ScenarioAssumption, JobAssumption DEF Calls
<1>2. s = <<a, b, c>> \o <<d>>
    BY DEF Script, RunSelfCheck, DrawAll, OpenJob, Photograph
<1>3. /\ z[1] = R1
      /\ z[2] = R2
      /\ z[3] = R3
      /\ z[4] = R4(Upto(p, n, n))
      /\ z[5] = Stage(IF p.review THEN "AwaitingReview" ELSE "Drawing", Upto(p, n, n),
                      Upto(p, n, n), PlanTime, 0, {}, FALSE)
    BY DEF Stages
<1> HIDE DEF a, b, c, d, s, z
<1>4. /\ s \in Seq(Steps) /\ Len(s) = 4 /\ s[1] = a /\ s[2] = b /\ s[3] = c /\ s[4] = d
    BY <1>1, <1>2
<1>5. /\ n \in Nat
      /\ Trigger(n) \in Nat /\ 1 <= Trigger(n) /\ Trigger(n) <= n
    BY TriggerFacts
<1>6. IsStage(z[1]) /\ Leads(p, n, "selfcheck", s[1], z[1], z[2])
      /\ IsStage(z[2]) /\ Leads(p, n, "selfcheck", s[2], z[2], z[3])
      /\ IsStage(z[3]) /\ Leads(p, n, "selfcheck", s[3], z[3], z[4]) /\ IsStage(z[4])
  <2>1. Upto(p, n, n) \in Nat
      BY <1>5 DEF Upto
  <2> QED
      BY <1>3, <1>4, <2>1, Opening DEF a, b, c
<1>7. DrawLeads(p, n, "selfcheck", s[4], z[4], z[5]) /\ IsStage(z[5])
    BY <1>3, <1>4, <1>5, ScenarioAssumption, JobAssumption
       DEF d, Draw, DrawLeads, Upto, Joined, IsStage, States, Working, Terminal, Stage, R4, Opened
<1>8. \A k \in 1..4 : IsStage(z[k]) /\ Leads(p, n, "selfcheck", s[k], z[k], z[k + 1])
  <2> SUFFICES ASSUME NEW k \in 1..4
               PROVE  IsStage(z[k]) /\ Leads(p, n, "selfcheck", s[k], z[k], z[k + 1])
      OBVIOUS
  <2>1. k = 1 \/ k = 2 \/ k = 3 \/ k = 4
      OBVIOUS
  <2> QED
      BY <2>1, <1>6, <1>7 DEF Leads
<1>9. IsStage(z[4 + 1])
    BY <1>7
<1> QED
    BY <1>4, <1>8, <1>9 DEF Follows, StepCount, s, z

-----------------------------------------------------------------------------
(* A script is played to its end.                                            *)

LEMMA ScenariosListed ==
    Scenarios = {"happy", "reject", "plan_fail", "estop", "pause", "review_continue",
                 "review_abort", "timeout", "stroke_fail"}
<1>1. DOMAIN kScenarios = 1..9
    BY DEF kScenarios
<1>2. /\ kScenarios[1] = "happy" /\ kScenarios[2] = "reject" /\ kScenarios[3] = "plan_fail"
      /\ kScenarios[4] = "estop" /\ kScenarios[5] = "pause"
      /\ kScenarios[6] = "review_continue" /\ kScenarios[7] = "review_abort"
      /\ kScenarios[8] = "timeout" /\ kScenarios[9] = "stroke_fail"
    BY DEF kScenarios
<1>3. 1..9 = {1, 2, 3, 4, 5, 6, 7, 8, 9}
    OBVIOUS
<1> QED
    BY <1>1, <1>2, <1>3 DEF Scenarios

LEMMA NamesListed ==
    Names = {"happy", "reject", "plan_fail", "estop", "pause", "review_continue",
             "review_abort", "timeout", "stroke_fail", "selfcheck"}
    BY ScenariosListed DEF Names

LEMMA PolicyFacts ==
    ASSUME NEW name
    PROVE  /\ PolicyOf(name) \in Settings
           /\ name = "stroke_fail" => ~PolicyOf(name).review
    BY DEF PolicyOf, Settings

\* Every script the programs play goes through its stages.
LEMMA ScriptsFollow ==
    ASSUME NEW name \in Names, NEW n \in Int, n >= 4, NEW p \in Settings,
           name # "selfcheck" => p = PolicyOf(name)
    PROVE  Follows(name, p, n)
    BY NamesListed, HappyFollows, RejectFollows, PlanFailFollows, EstopFollows, PauseFollows,
       ReviewContinueFollows, ReviewAbortFollows, TimeoutFollows, StrokeFailFollows,
       SelfcheckFollows

\* What is left of a sequence after k steps.
LEMMA RestOf ==
    ASSUME NEW S, NEW s \in Seq(S), NEW k \in 0..Len(s)
    PROVE  /\ k = Len(s) => SubSeq(s, k + 1, Len(s)) = <<>>
           /\ k < Len(s) => /\ SubSeq(s, k + 1, Len(s)) # <<>>
                            /\ Head(SubSeq(s, k + 1, Len(s))) = s[k + 1]
                            /\ Tail(SubSeq(s, k + 1, Len(s))) = SubSeq(s, k + 2, Len(s))
<1>1. Len(s) \in Nat
    OBVIOUS
<1>2. ASSUME k = Len(s) PROVE SubSeq(s, k + 1, Len(s)) = <<>>
    BY <1>1, <1>2
<1>3. ASSUME k < Len(s)
      PROVE  /\ SubSeq(s, k + 1, Len(s)) # <<>>
             /\ Head(SubSeq(s, k + 1, Len(s))) = s[k + 1]
             /\ Tail(SubSeq(s, k + 1, Len(s))) = SubSeq(s, k + 2, Len(s))
  <2>1. Len(SubSeq(s, k + 1, Len(s))) = Len(s) - k /\ Len(s) - k > 0
      BY <1>1, <1>3
  <2>2. SubSeq(s, k + 1, Len(s)) # <<>>
    <3>1. Len(<<>>) = 0
        OBVIOUS
    <3>2. Len(SubSeq(s, k + 1, Len(s))) # 0
        BY <1>1, <2>1
    <3> QED
        BY <3>1, <3>2, Zenon
  <2>3. Head(SubSeq(s, k + 1, Len(s))) = s[k + 1]
      BY <1>1, <1>3
  <2>4. Tail(SubSeq(s, k + 1, Len(s))) = SubSeq(s, k + 2, Len(s))
      BY <1>1, <1>3
  <2> QED
      BY <2>2, <2>3, <2>4
<1> QED
    BY <1>1, <1>2, <1>3

LEMMA Rest ==
    ASSUME NEW s \in Seq(Steps), NEW k \in 0..Len(s)
    PROVE  /\ k = Len(s) => SubSeq(s, k + 1, Len(s)) = <<>>
           /\ k < Len(s) => /\ SubSeq(s, k + 1, Len(s)) # <<>>
                            /\ Head(SubSeq(s, k + 1, Len(s))) = s[k + 1]
                            /\ Tail(SubSeq(s, k + 1, Len(s))) = SubSeq(s, k + 2, Len(s))
    BY RestOf, Zenon

\* What is left of the scenarios of "all" when number j runs.
LEMMA RestOfAll ==
    ASSUME NEW j \in 1..9
    PROVE  /\ SubSeq(kScenarios, j, 9)[1] = kScenarios[j] /\ SubSeq(kScenarios, j, 9) # <<>>
           /\ Tail(SubSeq(kScenarios, j, 9)) = IF j = 9 THEN <<>>
                                               ELSE SubSeq(kScenarios, j + 1, 9)
<1>1. kScenarios \in Seq(Names) /\ Len(kScenarios) = 9
    BY NamesListed DEF kScenarios
<1>2. PICK s : s = kScenarios
    OBVIOUS
<1>3. s \in Seq(Names) /\ Len(s) = 9
    BY <1>1, <1>2
<1>4. /\ j - 1 \in 0..Len(s) /\ j - 1 + 1 = j /\ j - 1 + 2 = j + 1 /\ j - 1 < Len(s)
      /\ j # 9 => j \in 0..Len(s) /\ j < Len(s) /\ j + 1 \in Int
    BY <1>3
<1>5. /\ SubSeq(s, j - 1 + 1, Len(s)) # <<>>
      /\ Head(SubSeq(s, j - 1 + 1, Len(s))) = s[j - 1 + 1]
      /\ Tail(SubSeq(s, j - 1 + 1, Len(s))) = SubSeq(s, j - 1 + 2, Len(s))
    BY <1>3, <1>4, RestOf, Zenon
<1>6. j = 9 => SubSeq(s, j + 1, Len(s)) = <<>>
  <2>1. 9 \in 0..Len(s)
      BY <1>3
  <2> QED
      BY <1>3, <2>1, RestOf, Zenon
<1>7. SubSeq(s, j, 9)[1] = s[j]
    BY <1>3, <1>4, <1>5
<1> QED
    BY <1>2, <1>3, <1>4, <1>5, <1>6, <1>7

\* The settings of a script that is being played.
LEMMA PlayingFacts ==
    ASSUME NEW name \in Names, strokes \in Int, Playing(name)
    PROVE  Setting(name) /\ policy \in Settings /\ Follows(name, policy, strokes)
<1>1. policy \in Settings /\ strokes >= 4 /\ (name # "selfcheck" => policy = PolicyOf(name))
    BY PolicyFacts, JobAssumption DEF Playing, Settings
<1>2. name = "stroke_fail" => ~policy.review
    BY <1>1, PolicyFacts
<1> QED
    BY <1>1, <1>2, ScriptsFollow DEF Setting, Settings

LEMMA PlayingGoesOn ==
    ASSUME NEW name \in Names, strokes \in Int, Playing(name), Sleep \/ DrawEnds \/ Call
    PROVE  Playing(name)' /\ UNCHANGED strokes
<1>1. Setting(name) /\ policy \in Settings /\ Follows(name, policy, strokes)
    BY PlayingFacts
<1>2. PICK n, p, s, z : /\ n = strokes /\ p = policy
                        /\ s = Script(n)[name] /\ z = Stages(p, n)[name]
    OBVIOUS
<1>3. /\ s \in Seq(Steps) /\ IsStage(z[Len(s) + 1])
      /\ \A k \in 1..Len(s) : IsStage(z[k]) /\ Leads(p, n, name, s[k], z[k], z[k + 1])
    BY <1>1, <1>2 DEF Follows
<1>4. PICK k \in 0..Len(s) : todo = SubSeq(s, k + 1, Len(s)) /\ InStage(z[k + 1], name)
    BY <1>2 DEF Playing, InStage
<1>5. todo # <<>>
    BY DEF Sleep, DrawEnds, Call
<1>6. /\ k + 1 \in 1..Len(s) /\ k + 1 \in 0..Len(s)
      /\ k < Len(s) /\ Step = s[k + 1] /\ Tail(todo) = SubSeq(s, k + 2, Len(s))
    BY <1>3, <1>4, <1>5, Rest DEF Step
<1>7. /\ IsStage(z[k + 1]) /\ IsStage(z[k + 2])
      /\ Leads(p, n, name, s[k + 1], z[k + 1], z[k + 2])
  <2>1. k + 1 + 1 = k + 2
      BY <1>6
  <2>2. k + 2 = Len(s) + 1 \/ k + 2 \in 1..Len(s)
      BY <1>3, <1>6
  <2> QED
      BY <1>3, <1>6, <2>1, <2>2
<1>8. PICK r, t : r = z[k + 1] /\ t = z[k + 2]
    OBVIOUS
<1>9. /\ IsStage(r) /\ IsStage(t) /\ InStage(r, name)
      /\ Leads(policy, strokes, name, s[k + 1], r, t)
    BY <1>2, <1>4, <1>7, <1>8
<1>10. /\ UNCHANGED <<policy, strokes>>
       /\ \/ InStage(r, name)' /\ UNCHANGED todo
          \/ InStage(t, name)' /\ todo' = Tail(todo)
  <2>1. CASE Sleep
      BY <1>1, <1>5, <1>6, <1>9, <2>1, SleepStays
  <2>2. CASE DrawEnds
      BY <1>1, <1>5, <1>6, <1>9, <2>2, DrawEndsLeads
  <2>3. CASE Call
    <3>1. CASE DrawLeads(policy, strokes, name, s[k + 1], r, t)
        BY <1>1, <1>5, <1>6, <1>9, <2>3, <3>1, DrawStays
    <3>2. CASE CallLeads(policy, strokes, s[k + 1], r, t)
        BY <1>1, <1>5, <1>6, <1>9, <2>3, <3>2, CallLeadsOn
    <3>3. CASE RefusalLeads(s[k + 1], r, t)
        BY <1>1, <1>5, <1>6, <1>9, <2>3, <3>3, RefusalLeadsOn
    <3> QED
        BY <1>9, <3>1, <3>2, <3>3 DEF Leads
  <2> QED
      BY <2>1, <2>2, <2>3
<1>11. \E i \in 0..Len(s) : todo' = SubSeq(s, i + 1, Len(s)) /\ InStage(z[i + 1], name)'
  <2>1. CASE InStage(r, name)' /\ UNCHANGED todo
      BY <1>4, <1>8, <2>1
  <2>2. CASE InStage(t, name)' /\ todo' = Tail(todo)
    <3>1. k + 1 + 1 = k + 2
        BY <1>6
    <3> QED
        BY <1>6, <1>8, <2>2, <3>1
  <2> QED
      BY <1>10, <2>1, <2>2
<1>12. n = strokes' /\ p = policy'
    BY <1>2, <1>10
<1> QED
    BY <1>2, <1>10, <1>11, <1>12 DEF Playing, InStage

\* A script that is over stands at the last of its stages.
LEMMA PlayingEnds ==
    ASSUME NEW name \in Names, strokes \in Int, Playing(name), todo = <<>>
    PROVE  /\ IsStage(Stages(policy, strokes)[name][StepCount[name] + 1])
           /\ InStage(Stages(policy, strokes)[name][StepCount[name] + 1], name)
<1>1. Setting(name) /\ policy \in Settings /\ Follows(name, policy, strokes)
    BY PlayingFacts
<1>2. PICK n, p, s, z : /\ n = strokes /\ p = policy
                        /\ s = Script(n)[name] /\ z = Stages(p, n)[name]
    OBVIOUS
<1>3. s \in Seq(Steps) /\ IsStage(z[Len(s) + 1]) /\ Len(s) = StepCount[name]
    BY <1>1, <1>2 DEF Follows
<1>4. PICK k \in 0..Len(s) : todo = SubSeq(s, k + 1, Len(s)) /\ InStage(z[k + 1], name)
    BY <1>2 DEF Playing, InStage
<1>5. k = Len(s)
  <2>1. Len(s) \in Nat /\ (k = Len(s) \/ k < Len(s))
      BY <1>3
  <2> QED
      BY <1>3, <1>4, <2>1, Rest, Zenon
<1> QED
    BY <1>2, <1>3, <1>4, <1>5

LEMMA ConstructStarts ==
    ASSUME NEW name \in Names, NEW n \in Int, n >= 4, NEW p \in Settings,
           Construct(name, p, n), strokes' = n,
           IF name = "selfcheck" THEN n = 8 /\ p \in Policies ELSE p = PolicyOf(name)
    PROVE  Playing(name)'
<1>1. Follows(name, p, n)
    BY ScriptsFollow
<1>2. PICK s, z : s = Script(n)[name] /\ z = Stages(p, n)[name]
    OBVIOUS
<1>3. s \in Seq(Steps) /\ Len(s) \in Nat
    BY <1>1, <1>2 DEF Follows
<1>4. z[1] = R1
    BY <1>2, NamesListed DEF Stages
<1>5. s = SubSeq(s, 1, Len(s))
    BY <1>3
<1>6. 1 <= Trigger(n) /\ Trigger(n) \in Int
    BY TriggerFacts
<1>7. Standing(R1, name)'
  <2>1. reviewDone' \in BOOLEAN /\ ~reviewDone'
      BY Zenon DEF Construct
  <2>2. /\ R1.st = "Received" /\ R1.low = 0 /\ R1.high = 0 /\ R1.touches = 0
      BY DEF R1, Stage
  <2>3. 0 \in 0..ReviewTimeout /\ Failures(0) = 0 /\ "Received" \in Unplanned
      BY JobAssumption DEF Failures, Unplanned
  <2> QED
      BY <1>6, <2>1, <2>2, <2>3 DEF Construct, Standing
<1>8. Timed(R1)'
  <2>1. slept' \in BOOLEAN /\ ~slept'
      BY Zenon DEF Construct
  <2>2. R1.st = "Received" /\ R1.extra = 0
      BY DEF R1, Stage
  <2>3. 0 * StrokeTime = 0
      BY ScenarioAssumption
  <2> QED
      BY <2>1, <2>2, <2>3 DEF Construct, Timed, Unstarted, Terminal
<1>9. Logged(R1)'
    BY DEF Construct, Logged, R1, Stage, Refused, Path, History
<1>10. /\ p = policy' /\ n = strokes' /\ todo' = s
    BY <1>2 DEF Construct
<1>11. 0 \in 0..Len(s) /\ 0 + 1 = 1
    BY <1>3
<1> QED
    BY <1>2, <1>4, <1>5, <1>7, <1>8, <1>9, <1>10, <1>11 DEF Playing, InStage

-----------------------------------------------------------------------------
(* How the scripts end.                                                      *)

LEMMA EndElapsed ==
    ASSUME NEW name, NEW r, IsStage(r), InStage(r, name), r.st \in Terminal, r.low = r.high,
           r.extra >= 0
    PROVE  /\ strokesDone = r.low
           /\ ElapsedS = IF r.st = "Rejected" THEN 0 ELSE r.extra + r.low * StrokeTime
<1>1. strokesDone = r.low
    BY DEF InStage, Standing, IsStage
<1>2. r.low * StrokeTime \in Nat
    BY ScenarioAssumption DEF IsStage
<1>3. endedAt = r.extra + r.low * StrokeTime
    BY DEF InStage, Timed
<1>4. startedAt = IF r.st = "Rejected" THEN -1 ELSE 0
    BY DEF InStage, Timed, Unstarted, Terminal
<1> HIDE DEF InStage
<1>5. r.extra + r.low * StrokeTime \in Int /\ 0 <= r.extra + r.low * StrokeTime
    BY <1>2 DEF IsStage
<1> QED
    BY <1>1, <1>3, <1>4, <1>5 DEF ElapsedS

\* The stage at which each script is over.
LastStage(p, n, name) == Stages(p, n)[name][StepCount[name] + 1]

LEMMA LastStages ==
    ASSUME NEW n, NEW p
    PROVE  /\ Stages(p, n)["happy"][StepCount["happy"] + 1]
                = Stage("Completed", n, n, PlanTime, 0, Opened \cup {Ended}, FALSE)
           /\ Stages(p, n)["reject"][StepCount["reject"] + 1]
                = Stage("Rejected", 0, 0, 0, 0, {NotAccepted}, TRUE)
           /\ Stages(p, n)["plan_fail"][StepCount["plan_fail"] + 1]
                = Stage("Failed", 0, 0, PlanTime, 0, {NotPlanned}, FALSE)
           /\ Stages(p, n)["estop"][StepCount["estop"] + 1]
                = Stage("Aborted", n \div 3, n \div 3, PlanTime, 1, {Stopped}, TRUE)
           /\ Stages(p, n)["pause"][StepCount["pause"] + 1]
                = Stage("Completed", n, n, PlanTime + 38, 2, {Paused, Resumed}, FALSE)
           /\ Stages(p, n)["review_continue"][StepCount["review_continue"] + 1]
                = Stage("Completed", n, n, PlanTime + 20, 1, {Continued, Shot, Captured}, FALSE)
           /\ Stages(p, n)["review_abort"][StepCount["review_abort"] + 1]
                = Stage("Aborted", Trigger(n), Trigger(n), PlanTime + 12, 1, {Declined}, FALSE)
           /\ Stages(p, n)["timeout"][StepCount["timeout"] + 1]
                = Stage("Completed", n, n, PlanTime + ReviewTimeout + 9, 0, {TimedOut}, FALSE)
           /\ Stages(p, n)["stroke_fail"][StepCount["stroke_fail"] + 1]
                = Stage("Completed", n, n, PlanTime + 8, 0, {}, FALSE)
           /\ Stages(p, n)["selfcheck"][StepCount["selfcheck"] + 1]
                = Stage(IF p.review THEN "AwaitingReview" ELSE "Drawing", Upto(p, n, n),
                  Upto(p, n, n), PlanTime, 0, {}, FALSE)
<1>1. Stages(p, n)["happy"][StepCount["happy"] + 1]
        = Stage("Completed", n, n, PlanTime, 0, Opened \cup {Ended}, FALSE)
  <2>1. StepCount["happy"] + 1 = 6
      BY DEF StepCount
  <2>2. Stages(p, n)["happy"][6] = Stage("Completed", n, n, PlanTime, 0, Opened \cup {Ended}, FALSE)
      BY DEF Stages
  <2> QED
      BY <2>1, <2>2, Zenon
<1>2. Stages(p, n)["reject"][StepCount["reject"] + 1]
        = Stage("Rejected", 0, 0, 0, 0, {NotAccepted}, TRUE)
  <2>1. StepCount["reject"] + 1 = 3
      BY DEF StepCount
  <2>2. Stages(p, n)["reject"][3] = Stage("Rejected", 0, 0, 0, 0, {NotAccepted}, TRUE)
      BY DEF Stages
  <2> QED
      BY <2>1, <2>2, Zenon
<1>3. Stages(p, n)["plan_fail"][StepCount["plan_fail"] + 1]
        = Stage("Failed", 0, 0, PlanTime, 0, {NotPlanned}, FALSE)
  <2>1. StepCount["plan_fail"] + 1 = 4
      BY DEF StepCount
  <2>2. Stages(p, n)["plan_fail"][4] = Stage("Failed", 0, 0, PlanTime, 0, {NotPlanned}, FALSE)
      BY DEF Stages
  <2> QED
      BY <2>1, <2>2, Zenon
<1>4. Stages(p, n)["estop"][StepCount["estop"] + 1]
        = Stage("Aborted", n \div 3, n \div 3, PlanTime, 1, {Stopped}, TRUE)
  <2>1. StepCount["estop"] + 1 = 7
      BY DEF StepCount
  <2>2. Stages(p, n)["estop"][7]
          = Stage("Aborted", n \div 3, n \div 3, PlanTime, 1, {Stopped}, TRUE)
      BY DEF Stages
  <2> QED
      BY <2>1, <2>2, Zenon
<1>5. Stages(p, n)["pause"][StepCount["pause"] + 1]
        = Stage("Completed", n, n, PlanTime + 38, 2, {Paused, Resumed}, FALSE)
  <2>1. StepCount["pause"] + 1 = 10
      BY DEF StepCount
  <2>2. Stages(p, n)["pause"][10]
          = Stage("Completed", n, n, PlanTime + 38, 2, {Paused, Resumed}, FALSE)
      BY DEF Stages
  <2> QED
      BY <2>1, <2>2, Zenon
<1>6. Stages(p, n)["review_continue"][StepCount["review_continue"] + 1]
        = Stage("Completed", n, n, PlanTime + 20, 1, {Continued, Shot, Captured}, FALSE)
  <2>1. StepCount["review_continue"] + 1 = 9
      BY DEF StepCount
  <2>2. Stages(p, n)["review_continue"][9]
          = Stage("Completed", n, n, PlanTime + 20, 1, {Continued, Shot, Captured}, FALSE)
      BY DEF Stages
  <2> QED
      BY <2>1, <2>2, Zenon
<1>7. Stages(p, n)["review_abort"][StepCount["review_abort"] + 1]
        = Stage("Aborted", Trigger(n), Trigger(n), PlanTime + 12, 1, {Declined}, FALSE)
  <2>1. StepCount["review_abort"] + 1 = 6
      BY DEF StepCount
  <2>2. Stages(p, n)["review_abort"][6]
          = Stage("Aborted", Trigger(n), Trigger(n), PlanTime + 12, 1, {Declined}, FALSE)
      BY DEF Stages
  <2> QED
      BY <2>1, <2>2, Zenon
<1>8. Stages(p, n)["timeout"][StepCount["timeout"] + 1]
        = Stage("Completed", n, n, PlanTime + ReviewTimeout + 9, 0, {TimedOut}, FALSE)
  <2>1. StepCount["timeout"] + 1 = 9
      BY DEF StepCount
  <2>2. Stages(p, n)["timeout"][9]
          = Stage("Completed", n, n, PlanTime + ReviewTimeout + 9, 0, {TimedOut}, FALSE)
      BY DEF Stages
  <2> QED
      BY <2>1, <2>2, Zenon
<1>9. Stages(p, n)["stroke_fail"][StepCount["stroke_fail"] + 1]
        = Stage("Completed", n, n, PlanTime + 8, 0, {}, FALSE)
  <2>1. StepCount["stroke_fail"] + 1 = 7
      BY DEF StepCount
  <2>2. Stages(p, n)["stroke_fail"][7] = Stage("Completed", n, n, PlanTime + 8, 0, {}, FALSE)
      BY DEF Stages
  <2> QED
      BY <2>1, <2>2, Zenon
<1>10. Stages(p, n)["selfcheck"][StepCount["selfcheck"] + 1]
        = Stage(IF p.review THEN "AwaitingReview" ELSE "Drawing", Upto(p, n, n),
                  Upto(p, n, n), PlanTime, 0, {}, FALSE)
  <2>1. StepCount["selfcheck"] + 1 = 5
      BY DEF StepCount
  <2>2. Stages(p, n)["selfcheck"][5]
          = Stage(IF p.review THEN "AwaitingReview" ELSE "Drawing", Upto(p, n, n),
                  Upto(p, n, n), PlanTime, 0, {}, FALSE)
      BY DEF Stages
  <2> QED
      BY <2>1, <2>2, Zenon
<1> QED
    BY <1>1, <1>2, <1>3, <1>4, <1>5, <1>6, <1>7, <1>8, <1>9, <1>10, Zenon


\* The summary of a job that is over, told by its stage.
EndOf(r, name) ==
    Ends(r.st, r.st = "Completed" /\ r.touches = 0, r.touches,
         IF name = "stroke_fail" THEN Failures(r.low) ELSE 0,
         IF r.st = "Aborted" THEN r.low ELSE -1, r.refused,
         IF r.st = "Rejected" THEN 0 ELSE r.extra + r.low * StrokeTime)

LEMMA EndSummary ==
    ASSUME NEW name, NEW r, IsStage(r), InStage(r, name), r.st \in Terminal, r.low = r.high,
           r.extra >= 0
    PROVE  Summary = EndOf(r, name)
<1>1. /\ strokesDone = r.low
      /\ ElapsedS = IF r.st = "Rejected" THEN 0 ELSE r.extra + r.low * StrokeTime
    BY EndElapsed
<1>2. state = r.st /\ interventions = r.touches
    BY DEF InStage, Standing, Terminal
<1>3. failed = IF name = "stroke_fail" THEN Failures(r.low) ELSE 0
    BY <1>1 DEF InStage, Standing
<1>4. abortedAt = IF r.st = "Aborted" THEN r.low ELSE -1
    BY <1>1, <1>2 DEF InStage, Standing
<1>5. Refused = r.refused
  <2>1. (Refused <=> r.refused) /\ r.refused \in BOOLEAN
      BY DEF InStage, Logged, IsStage
  <2>2. Refused \in BOOLEAN
      BY Zenon DEF Refused
  <2> QED
      BY <2>1, <2>2, Zenon
<1>6. MeetsAc1 = (r.st = "Completed" /\ r.touches = 0)
    BY <1>2, Zenon DEF MeetsAc1, WasUnattended
<1> QED
    BY <1>1, <1>2, <1>3, <1>4, <1>5, <1>6, Zenon DEF Summary, EndOf

\* The table of the README and its exception, once for every scenario.
LEMMA TableOfEnds ==
    ASSUME NEW name \in Scenarios, NEW n \in Int, n >= 4, NEW p, NEW r,
           r = LastStage(p, n, name)
    PROVE  /\ r.st \in Terminal /\ r.low = r.high /\ r.extra >= 0
           /\ EndOf(r, name) = AsDescribed(n, name)
<1> DEFINE Goal == /\ r.st \in Terminal /\ r.low = r.high /\ r.extra >= 0
                   /\ EndOf(r, name) = AsDescribed(n, name)
<1>1. Trigger(n) \in Int /\ n \div 3 \in Int
    BY TriggerFacts
<1>2. ASSUME NEW d \in Int
      PROVE  /\ d * StrokeTime \in Int /\ 0 * StrokeTime = 0
             /\ DrawTime(d) = PlanTime + d * StrokeTime
    BY ScenarioAssumption DEF DrawTime
<1>3. Failures(n) = IF n >= 8 THEN 2 ELSE 1
    BY DEF Failures
<1>4. ASSUME name = "happy" PROVE Goal
  <2>0. r = Stage("Completed", n, n, PlanTime, 0, Opened \cup {Ended}, FALSE)
      BY <1>4, LastStages, Zenon DEF LastStage
  <2>1. /\ r.st = "Completed" /\ r.low = n /\ r.high = n /\ r.extra = PlanTime
        /\ r.touches = 0 /\ r.refused = FALSE
      BY <2>0 DEF Stage
  <2>2. (r.st = "Completed" /\ r.touches = 0) = TRUE
      BY <2>1
  <2>3. AsDescribed(n, name)
          = Ends("Completed", TRUE, 0, 0, -1, FALSE,
                 DrawTime(n))
      BY <1>4 DEF Described, AsDescribed
  <2>4. (IF r.st = "Rejected" THEN 0 ELSE r.extra + r.low * StrokeTime)
          = DrawTime(n)
      BY <1>1, <1>2, <2>1, ScenarioAssumption, JobAssumption
  <2>5. (IF name = "stroke_fail" THEN Failures(r.low) ELSE 0) = 0
      BY <1>4, <2>1
  <2>6. (IF r.st = "Aborted" THEN r.low ELSE -1) = -1
      BY <2>1
  <2>7. r.st \in Terminal /\ r.low = r.high /\ r.extra >= 0
      BY <2>1, ScenarioAssumption, JobAssumption DEF Terminal
  <2> QED
      BY <2>1, <2>2, <2>3, <2>4, <2>5, <2>6, <2>7, Zenon DEF EndOf
<1>5. ASSUME name = "reject" PROVE Goal
  <2>0. r = Stage("Rejected", 0, 0, 0, 0, {NotAccepted}, TRUE)
      BY <1>5, LastStages, Zenon DEF LastStage
  <2>1. /\ r.st = "Rejected" /\ r.low = 0 /\ r.high = 0 /\ r.extra = 0
        /\ r.touches = 0 /\ r.refused = TRUE
      BY <2>0 DEF Stage
  <2>2. (r.st = "Completed" /\ r.touches = 0) = FALSE
      BY <2>1
  <2>3. AsDescribed(n, name)
          = Ends("Rejected", FALSE, 0, 0, -1, TRUE,
                 0)
      BY <1>5 DEF Described, AsDescribed
  <2>4. (IF r.st = "Rejected" THEN 0 ELSE r.extra + r.low * StrokeTime)
          = 0
      BY <1>1, <1>2, <2>1, ScenarioAssumption, JobAssumption
  <2>5. (IF name = "stroke_fail" THEN Failures(r.low) ELSE 0) = 0
      BY <1>5, <2>1
  <2>6. (IF r.st = "Aborted" THEN r.low ELSE -1) = -1
      BY <2>1
  <2>7. r.st \in Terminal /\ r.low = r.high /\ r.extra >= 0
      BY <2>1, ScenarioAssumption, JobAssumption DEF Terminal
  <2> QED
      BY <2>1, <2>2, <2>3, <2>4, <2>5, <2>6, <2>7, Zenon DEF EndOf
<1>6. ASSUME name = "plan_fail" PROVE Goal
  <2>0. r = Stage("Failed", 0, 0, PlanTime, 0, {NotPlanned}, FALSE)
      BY <1>6, LastStages, Zenon DEF LastStage
  <2>1. /\ r.st = "Failed" /\ r.low = 0 /\ r.high = 0 /\ r.extra = PlanTime
        /\ r.touches = 0 /\ r.refused = FALSE
      BY <2>0 DEF Stage
  <2>2. (r.st = "Completed" /\ r.touches = 0) = FALSE
      BY <2>1
  <2>3. AsDescribed(n, name)
          = Ends("Failed", FALSE, 0, 0, -1, FALSE,
                 PlanTime)
      BY <1>6 DEF Described, AsDescribed
  <2>4. (IF r.st = "Rejected" THEN 0 ELSE r.extra + r.low * StrokeTime)
          = PlanTime
      BY <1>1, <1>2, <2>1, ScenarioAssumption, JobAssumption
  <2>5. (IF name = "stroke_fail" THEN Failures(r.low) ELSE 0) = 0
      BY <1>6, <2>1
  <2>6. (IF r.st = "Aborted" THEN r.low ELSE -1) = -1
      BY <2>1
  <2>7. r.st \in Terminal /\ r.low = r.high /\ r.extra >= 0
      BY <2>1, ScenarioAssumption, JobAssumption DEF Terminal
  <2> QED
      BY <2>1, <2>2, <2>3, <2>4, <2>5, <2>6, <2>7, Zenon DEF EndOf
<1>7. ASSUME name = "estop" PROVE Goal
  <2>0. r = Stage("Aborted", n \div 3, n \div 3, PlanTime, 1, {Stopped}, TRUE)
      BY <1>7, LastStages, Zenon DEF LastStage
  <2>1. /\ r.st = "Aborted" /\ r.low = n \div 3 /\ r.high = n \div 3 /\ r.extra = PlanTime
        /\ r.touches = 1 /\ r.refused = TRUE
      BY <2>0 DEF Stage
  <2>2. (r.st = "Completed" /\ r.touches = 0) = FALSE
      BY <2>1
  <2>3. AsDescribed(n, name)
          = Ends("Aborted", FALSE, 1, 0, n \div 3, TRUE,
                 DrawTime(n \div 3))
      BY <1>7 DEF Described, AsDescribed
  <2>4. (IF r.st = "Rejected" THEN 0 ELSE r.extra + r.low * StrokeTime)
          = DrawTime(n \div 3)
      BY <1>1, <1>2, <2>1, ScenarioAssumption, JobAssumption
  <2>5. (IF name = "stroke_fail" THEN Failures(r.low) ELSE 0) = 0
      BY <1>7, <2>1
  <2>6. (IF r.st = "Aborted" THEN r.low ELSE -1) = n \div 3
      BY <2>1
  <2>7. r.st \in Terminal /\ r.low = r.high /\ r.extra >= 0
      BY <2>1, ScenarioAssumption, JobAssumption DEF Terminal
  <2> QED
      BY <2>1, <2>2, <2>3, <2>4, <2>5, <2>6, <2>7, Zenon DEF EndOf
<1>8. ASSUME name = "pause" PROVE Goal
  <2>0. r = Stage("Completed", n, n, PlanTime + 38, 2, {Paused, Resumed}, FALSE)
      BY <1>8, LastStages, Zenon DEF LastStage
  <2>1. /\ r.st = "Completed" /\ r.low = n /\ r.high = n /\ r.extra = PlanTime + 38
        /\ r.touches = 2 /\ r.refused = FALSE
      BY <2>0 DEF Stage
  <2>2. (r.st = "Completed" /\ r.touches = 0) = FALSE
      BY <2>1
  <2>3. AsDescribed(n, name)
          = Ends("Completed", FALSE, 2, 0, -1, FALSE,
                 DrawTime(n) + 38)
      BY <1>8 DEF Described, AsDescribed
  <2>4. (IF r.st = "Rejected" THEN 0 ELSE r.extra + r.low * StrokeTime)
          = DrawTime(n) + 38
      BY <1>1, <1>2, <2>1, ScenarioAssumption, JobAssumption
  <2>5. (IF name = "stroke_fail" THEN Failures(r.low) ELSE 0) = 0
      BY <1>8, <2>1
  <2>6. (IF r.st = "Aborted" THEN r.low ELSE -1) = -1
      BY <2>1
  <2>7. r.st \in Terminal /\ r.low = r.high /\ r.extra >= 0
      BY <2>1, ScenarioAssumption, JobAssumption DEF Terminal
  <2> QED
      BY <2>1, <2>2, <2>3, <2>4, <2>5, <2>6, <2>7, Zenon DEF EndOf
<1>9. ASSUME name = "review_continue" PROVE Goal
  <2>0. r = Stage("Completed", n, n, PlanTime + 20, 1, {Continued, Shot, Captured}, FALSE)
      BY <1>9, LastStages, Zenon DEF LastStage
  <2>1. /\ r.st = "Completed" /\ r.low = n /\ r.high = n /\ r.extra = PlanTime + 20
        /\ r.touches = 1 /\ r.refused = FALSE
      BY <2>0 DEF Stage
  <2>2. (r.st = "Completed" /\ r.touches = 0) = FALSE
      BY <2>1
  <2>3. AsDescribed(n, name)
          = Ends("Completed", FALSE, 1, 0, -1, FALSE,
                 DrawTime(n) + 20)
      BY <1>9 DEF Described, AsDescribed
  <2>4. (IF r.st = "Rejected" THEN 0 ELSE r.extra + r.low * StrokeTime)
          = DrawTime(n) + 20
      BY <1>1, <1>2, <2>1, ScenarioAssumption, JobAssumption
  <2>5. (IF name = "stroke_fail" THEN Failures(r.low) ELSE 0) = 0
      BY <1>9, <2>1
  <2>6. (IF r.st = "Aborted" THEN r.low ELSE -1) = -1
      BY <2>1
  <2>7. r.st \in Terminal /\ r.low = r.high /\ r.extra >= 0
      BY <2>1, ScenarioAssumption, JobAssumption DEF Terminal
  <2> QED
      BY <2>1, <2>2, <2>3, <2>4, <2>5, <2>6, <2>7, Zenon DEF EndOf
<1>10. ASSUME name = "review_abort" PROVE Goal
  <2>0. r = Stage("Aborted", Trigger(n), Trigger(n), PlanTime + 12, 1, {Declined}, FALSE)
      BY <1>10, LastStages, Zenon DEF LastStage
  <2>1. /\ r.st = "Aborted" /\ r.low = Trigger(n) /\ r.high = Trigger(n) /\ r.extra = PlanTime + 12
        /\ r.touches = 1 /\ r.refused = FALSE
      BY <2>0 DEF Stage
  <2>2. (r.st = "Completed" /\ r.touches = 0) = FALSE
      BY <2>1
  <2>3. AsDescribed(n, name)
          = Ends("Aborted", FALSE, 1, 0, Trigger(n), FALSE,
                 DrawTime(Trigger(n)) + 12)
      BY <1>10 DEF Described, AsDescribed
  <2>4. (IF r.st = "Rejected" THEN 0 ELSE r.extra + r.low * StrokeTime)
          = DrawTime(Trigger(n)) + 12
      BY <1>1, <1>2, <2>1, ScenarioAssumption, JobAssumption
  <2>5. (IF name = "stroke_fail" THEN Failures(r.low) ELSE 0) = 0
      BY <1>10, <2>1
  <2>6. (IF r.st = "Aborted" THEN r.low ELSE -1) = Trigger(n)
      BY <2>1
  <2>7. r.st \in Terminal /\ r.low = r.high /\ r.extra >= 0
      BY <2>1, ScenarioAssumption, JobAssumption DEF Terminal
  <2> QED
      BY <2>1, <2>2, <2>3, <2>4, <2>5, <2>6, <2>7, Zenon DEF EndOf
<1>11. ASSUME name = "timeout" PROVE Goal
  <2>0. r = Stage("Completed", n, n, PlanTime + ReviewTimeout + 9, 0, {TimedOut}, FALSE)
      BY <1>11, LastStages, Zenon DEF LastStage
  <2>1. /\ r.st = "Completed" /\ r.low = n /\ r.high = n /\ r.extra = PlanTime + ReviewTimeout + 9
        /\ r.touches = 0 /\ r.refused = FALSE
      BY <2>0 DEF Stage
  <2>2. (r.st = "Completed" /\ r.touches = 0) = TRUE
      BY <2>1
  <2>3. AsDescribed(n, name)
          = Ends("Completed", TRUE, 0, 0, -1, FALSE,
                 DrawTime(n) + ReviewTimeout + 9)
      BY <1>11 DEF Described, AsDescribed
  <2>4. (IF r.st = "Rejected" THEN 0 ELSE r.extra + r.low * StrokeTime)
          = DrawTime(n) + ReviewTimeout + 9
      BY <1>1, <1>2, <2>1, ScenarioAssumption, JobAssumption
  <2>5. (IF name = "stroke_fail" THEN Failures(r.low) ELSE 0) = 0
      BY <1>11, <2>1
  <2>6. (IF r.st = "Aborted" THEN r.low ELSE -1) = -1
      BY <2>1
  <2>7. r.st \in Terminal /\ r.low = r.high /\ r.extra >= 0
      BY <2>1, ScenarioAssumption, JobAssumption DEF Terminal
  <2> QED
      BY <2>1, <2>2, <2>3, <2>4, <2>5, <2>6, <2>7, Zenon DEF EndOf
<1>12. ASSUME name = "stroke_fail" PROVE Goal
  <2>0. r = Stage("Completed", n, n, PlanTime + 8, 0, {}, FALSE)
      BY <1>12, LastStages, Zenon DEF LastStage
  <2>1. /\ r.st = "Completed" /\ r.low = n /\ r.high = n /\ r.extra = PlanTime + 8
        /\ r.touches = 0 /\ r.refused = FALSE
      BY <2>0 DEF Stage
  <2>2. (r.st = "Completed" /\ r.touches = 0) = TRUE
      BY <2>1
  <2>3. AsDescribed(n, name)
          = Ends("Completed", TRUE, 0, IF n >= 8 THEN 2 ELSE 1, -1, FALSE,
                 DrawTime(n) + 8)
    <3>0. Described(n)[name] = Ends("Completed", TRUE, 0, 2, -1, FALSE, DrawTime(n) + 8)
        BY <1>12 DEF Described
    <3>1. CASE n >= 8
      <4>1. ~(n < 8) /\ (IF n >= 8 THEN 2 ELSE 1) = 2
          BY <3>1
      <4> QED
          BY <3>0, <4>1, Zenon DEF AsDescribed
    <3>2. CASE ~(n >= 8)
      <4>1. n < 8 /\ (IF n >= 8 THEN 2 ELSE 1) = 1
          BY <3>2
      <4>2. PICK a, b, c, t : a = TRUE /\ b = -1 /\ c = FALSE /\ t = DrawTime(n) + 8
          OBVIOUS
      <4>3. [Ends("Completed", a, 0, 2, b, c, t) EXCEPT !.failed = 1]
              = Ends("Completed", a, 0, 1, b, c, t)
          BY DEF Ends
      <4>4. AsDescribed(n, name) = [Described(n)[name] EXCEPT !.failed = 1]
          BY <1>12, <4>1, Zenon DEF AsDescribed
      <4>5. AsDescribed(n, name) = Ends("Completed", TRUE, 0, 1, -1, FALSE, DrawTime(n) + 8)
          BY <3>0, <4>2, <4>3, <4>4, Zenon
      <4> QED
          BY <4>1, <4>5, Zenon
    <3> QED
        BY <3>1, <3>2
  <2>4. (IF r.st = "Rejected" THEN 0 ELSE r.extra + r.low * StrokeTime)
          = DrawTime(n) + 8
      BY <1>1, <1>2, <2>1, ScenarioAssumption, JobAssumption
  <2>5. (IF name = "stroke_fail" THEN Failures(r.low) ELSE 0) = (IF n >= 8 THEN 2 ELSE 1)
      BY <1>3, <1>12, <2>1
  <2>6. (IF r.st = "Aborted" THEN r.low ELSE -1) = -1
      BY <2>1
  <2>7. r.st \in Terminal /\ r.low = r.high /\ r.extra >= 0
      BY <2>1, ScenarioAssumption, JobAssumption DEF Terminal
  <2> QED
      BY <2>1, <2>2, <2>3, <2>4, <2>5, <2>6, <2>7, Zenon DEF EndOf
<1> HIDE DEF Goal
<1>13. Goal
    BY ScenariosListed, <1>4, <1>5, <1>6, <1>7, <1>8, <1>9, <1>10, <1>11, <1>12
<1> QED
    BY <1>13 DEF Goal
\* A scenario that is over has drawn the transitions it is played for, and none
\* that the diagram lacks.
LEMMA DueDrawn ==
    ASSUME NEW name \in Scenarios, strokes \in Int, Playing(name), todo = <<>>
    PROVE  Due[name] \subseteq Path /\ Path \subseteq DiagramEdges
<1>1. name \in Names /\ name # "selfcheck"
    BY ScenariosListed DEF Names
<1>2. PICK r : r = Stages(policy, strokes)[name][StepCount[name] + 1]
    OBVIOUS
<1>3. IsStage(r) /\ InStage(r, name)
    BY <1>1, <1>2, PlayingEnds
<1>4. /\ strokes >= 4 /\ policy = PolicyOf(name)
      /\ 1 <= Trigger(strokes) /\ Trigger(strokes) <= strokes /\ Trigger(strokes) \in Int
    BY <1>1, TriggerFacts DEF Playing
<1>5. /\ r.edges \subseteq Path /\ Path \subseteq DiagramEdges
      /\ reviewDone => ReviewFell \in Path
      /\ failed > 0 => StrokeFell \in Path
    BY <1>3 DEF InStage, Logged
<1>6. CASE name = "happy"
  <2>0. r = Stage("Completed", strokes, strokes, PlanTime, 0, Opened \cup {Ended}, FALSE)
      BY <1>2, <1>6, LastStages, Zenon
  <2>1. r.edges = Opened \cup {Ended}
      BY <2>0 DEF Stage
  <2> QED
      BY <1>5, <1>6, <2>1 DEF Due, Opened
<1>7. CASE name = "reject"
  <2>0. r = Stage("Rejected", 0, 0, 0, 0, {NotAccepted}, TRUE)
      BY <1>2, <1>7, LastStages, Zenon
  <2>1. r.edges = {NotAccepted}
      BY <2>0 DEF Stage
  <2> QED
      BY <1>5, <1>7, <2>1 DEF Due
<1>8. CASE name = "plan_fail"
  <2>0. r = Stage("Failed", 0, 0, PlanTime, 0, {NotPlanned}, FALSE)
      BY <1>2, <1>8, LastStages, Zenon
  <2>1. r.edges = {NotPlanned}
      BY <2>0 DEF Stage
  <2> QED
      BY <1>5, <1>8, <2>1 DEF Due
<1>9. CASE name = "estop"
  <2>0. r = Stage("Aborted", strokes \div 3, strokes \div 3, PlanTime, 1, {Stopped}, TRUE)
      BY <1>2, <1>9, LastStages, Zenon
  <2>1. r.edges = {Stopped}
      BY <2>0 DEF Stage
  <2> QED
      BY <1>5, <1>9, <2>1 DEF Due
<1>10. CASE name = "pause"
  <2>0. r = Stage("Completed", strokes, strokes, PlanTime + 38, 2, {Paused, Resumed}, FALSE)
      BY <1>2, <1>10, LastStages, Zenon
  <2>1. r.edges = {Paused, Resumed}
      BY <2>0 DEF Stage
  <2> QED
      BY <1>5, <1>10, <2>1 DEF Due
<1>11. CASE name = "review_continue"
  <2>0. r
          = Stage("Completed", strokes, strokes, PlanTime + 20, 1,
                  {Continued, Shot, Captured}, FALSE)
      BY <1>2, <1>11, LastStages, Zenon
  <2>1. r.edges = {Continued, Shot, Captured} /\ r.low = strokes /\ r.high = strokes
        /\ r.st = "Completed"
      BY <2>0 DEF Stage
  <2>2. policy.review
      BY <1>4, <1>11 DEF PolicyOf
  <2>3. reviewDone
      BY <1>3, <1>4, <2>1, <2>2 DEF InStage, Standing, Unplanned
  <2> QED
      BY <1>5, <1>11, <2>1, <2>3 DEF Due
<1>12. CASE name = "review_abort"
  <2>0. r
          = Stage("Aborted", Trigger(strokes), Trigger(strokes), PlanTime + 12, 1, {Declined},
                  FALSE)
      BY <1>2, <1>12, LastStages, Zenon
  <2>1. r.edges = {Declined}
      BY <2>0 DEF Stage
  <2> QED
      BY <1>5, <1>12, <2>1 DEF Due
<1>13. CASE name = "timeout"
  <2>0. r = Stage("Completed", strokes, strokes, PlanTime + ReviewTimeout + 9, 0, {TimedOut}, FALSE)
      BY <1>2, <1>13, LastStages, Zenon
  <2>1. r.edges = {TimedOut}
      BY <2>0 DEF Stage
  <2> QED
      BY <1>5, <1>13, <2>1 DEF Due
<1>14. CASE name = "stroke_fail"
  <2>0. r = Stage("Completed", strokes, strokes, PlanTime + 8, 0, {}, FALSE)
      BY <1>2, <1>14, LastStages, Zenon
  <2>1. r.low = strokes /\ r.high = strokes
      BY <2>0 DEF Stage
  <2>2. failed > 0
      BY <1>3, <1>4, <1>14, <2>1 DEF InStage, Standing, Failures
  <2> QED
      BY <1>5, <1>14, <2>2 DEF Due
<1> QED
    BY <1>5, <1>6, <1>7, <1>8, <1>9, <1>10, <1>11, <1>12, <1>13, <1>14, ScenariosListed

\* A scenario that is over ended as the README's table says, with its exception.
LEMMA ScenarioOver ==
    ASSUME NEW name \in Scenarios, strokes \in Int, Playing(name), todo = <<>>
    PROVE  Summary = AsDescribed(strokes, name)
<1>1. name \in Names /\ name # "selfcheck"
    BY ScenariosListed DEF Names
<1>2. strokes >= 4
    BY <1>1 DEF Playing
<1>3. PICK r, n, p : r = LastStage(p, n, name) /\ n = strokes /\ p = policy
    OBVIOUS
<1>4. IsStage(r) /\ InStage(r, name)
    BY <1>1, <1>3, PlayingEnds DEF LastStage
<1>5. r.st \in Terminal /\ r.low = r.high /\ r.extra >= 0 /\ EndOf(r, name) = AsDescribed(n, name)
  <2>1. n \in Int /\ n >= 4 /\ r = LastStage(p, n, name)
      BY <1>2, <1>3
  <2> QED
      BY <2>1, TableOfEnds, SMTT(30)
<1> QED
    BY <1>3, <1>4, <1>5, EndSummary

\* The self-check stops where a person is waited for, or with its plan drawn, and
\* in neither case has the job ended.
LEMMA SelfCheckOver ==
    ASSUME strokes \in Int, Playing("selfcheck"), todo = <<>>
    PROVE  IF policy.review
           THEN state = "AwaitingReview" /\ strokesDone = Trigger(8) /\ ~MeetsN2
           ELSE state = "Drawing" /\ strokesDone = 8 /\ ~MeetsN2
<1>1. "selfcheck" \in Names
    BY NamesListed
<1>2. PICK r : r = Stages(policy, strokes)["selfcheck"][StepCount["selfcheck"] + 1]
    OBVIOUS
<1>3. IsStage(r) /\ InStage(r, "selfcheck")
    BY <1>1, <1>2, PlayingEnds
<1>4. strokes = 8 /\ policy.review \in BOOLEAN
    BY JobAssumption DEF Playing
<1>5. Trigger(8) \in Int /\ 1 <= Trigger(8) /\ Trigger(8) <= 8
    BY TriggerFacts
<1>6. /\ r.st = IF policy.review THEN "AwaitingReview" ELSE "Drawing"
      /\ r.low = Upto(policy, 8, 8) /\ r.high = Upto(policy, 8, 8)
  <2>1. PICK p, n : p = policy /\ n = 8
      OBVIOUS
  <2>2. r = Stages(p, n)["selfcheck"][StepCount["selfcheck"] + 1]
      BY <1>2, <1>4, <2>1
  <2>3. r = Stage(IF p.review THEN "AwaitingReview" ELSE "Drawing", Upto(p, n, n),
                  Upto(p, n, n), PlanTime, 0, {}, FALSE)
      BY <2>2, LastStages, Zenon
  <2> QED
      BY <2>1, <2>3 DEF Stage
<1>7. Upto(policy, 8, 8) = IF policy.review THEN Trigger(8) ELSE 8
    BY <1>4, <1>5 DEF Upto
<1>8. startedAt = 0 /\ endedAt = -1
    BY <1>3, <1>6 DEF InStage, Timed, Unstarted, Terminal
<1>9. ~MeetsN2
    BY <1>8 DEF MeetsN2, ElapsedS
<1>10. strokesDone = r.low
    BY <1>3, <1>6 DEF InStage, Standing, IsStage
<1>11. state = r.st
    BY <1>3, <1>4, <1>6, <1>7 DEF InStage, Standing
<1> QED
    BY <1>4, <1>6, <1>7, <1>9, <1>10, <1>11

-----------------------------------------------------------------------------
(* The programs.                                                             *)

\* What the nine scenarios are played for is all of the diagram.
LEMMA AllIsDue ==
    ASSUME NEW W, \A i \in 1..9 : Due[kScenarios[i]] \subseteq W
    PROVE  DiagramEdges \subseteq W
<1>1. /\ kScenarios[1] = "happy" /\ kScenarios[2] = "reject" /\ kScenarios[3] = "plan_fail"
      /\ kScenarios[4] = "estop" /\ kScenarios[5] = "pause"
      /\ kScenarios[6] = "review_continue" /\ kScenarios[7] = "review_abort"
      /\ kScenarios[8] = "timeout" /\ kScenarios[9] = "stroke_fail"
    BY DEF kScenarios
<1>2. /\ 1 \in 1..9 /\ 2 \in 1..9 /\ 3 \in 1..9 /\ 4 \in 1..9 /\ 5 \in 1..9 /\ 6 \in 1..9
      /\ 7 \in 1..9 /\ 8 \in 1..9 /\ 9 \in 1..9
    OBVIOUS
<1>3. /\ Due["happy"] \subseteq W /\ Due["reject"] \subseteq W /\ Due["plan_fail"] \subseteq W
      /\ Due["estop"] \subseteq W /\ Due["pause"] \subseteq W
      /\ Due["review_continue"] \subseteq W /\ Due["review_abort"] \subseteq W
      /\ Due["timeout"] \subseteq W /\ Due["stroke_fail"] \subseteq W
    BY <1>1, <1>2, Zenon
<1>4. /\ {Accepted, Started, Planned, Ended} \subseteq W /\ {NotAccepted} \subseteq W
      /\ {NotPlanned} \subseteq W /\ {Stopped} \subseteq W /\ {Paused, Resumed} \subseteq W
      /\ {ReviewFell, Continued, Shot, Captured} \subseteq W /\ {Declined} \subseteq W
      /\ {TimedOut} \subseteq W /\ {StrokeFell} \subseteq W
    BY <1>3 DEF Due
<1> QED
    BY <1>4 DEF DiagramEdges, Accepted, NotAccepted, Started, Planned, NotPlanned, Stopped,
       Paused, Resumed, Continued, Declined, TimedOut, Shot, Ended, Captured, ReviewFell,
       StrokeFell

LEMMA KScenarios ==
    ASSUME NEW j \in 1..9
    PROVE  kScenarios[j] \in Scenarios /\ kScenarios[j] # "selfcheck"
<1>1. kScenarios[j] \in Scenarios
    BY DEF Scenarios, kScenarios
<1> QED
    BY <1>1, ScenariosListed

LEMMA LaunchStep ==
    ASSUME Sessions, Launch
    PROVE  Sessions'
<1>1. /\ queue = <<>> /\ exit = -1 /\ todo = <<>> /\ scenario = "none"
      /\ strokes \in Int /\ walked \subseteq DiagramEdges
  <2>1. queue = <<>> /\ exit = -1
      BY DEF Launch, Main, SelfCheck, Idle
  <2> QED
      BY <2>1 DEF Sessions
<1>2. ASSUME NEW status \in {0, 1, 2}, Exits(status) PROVE Sessions'
    BY <1>1, <1>2 DEF Exits, Sessions
<1>3. ASSUME NEW n \in Strokes, NEW name \in Scenarios, n >= 4,
             queue' = <<name>>, scenario' = name, strokes' = n,
             Construct(name, PolicyOf(name), n), UNCHANGED <<walked, exit>>
      PROVE  Sessions'
  <2>1. n \in Int /\ name \in Names /\ name # "selfcheck" /\ name # "all"
      BY <1>3, ScenarioAssumption, ScenariosListed DEF Names
  <2>2. Playing(name)'
      BY <1>3, <2>1, ConstructStarts, PolicyFacts
  <2>3. Runs(name)'
      BY <1>3, <2>1 DEF Runs
  <2>4. queue' # <<>>
      BY <1>3
  <2> QED
      BY <1>1, <1>3, <2>1, <2>2, <2>3, <2>4 DEF Sessions
<1>4. ASSUME NEW n \in Strokes, n >= 4,
             queue' = kScenarios, scenario' = "all", strokes' = n,
             Construct("happy", PolicyOf("happy"), n), UNCHANGED <<walked, exit>>
      PROVE  Sessions'
  <2>1. n \in Int /\ "happy" \in Names
      BY ScenarioAssumption, NamesListed
  <2>2. Playing("happy")'
      BY <1>4, <2>1, ConstructStarts, PolicyFacts
  <2>3. kScenarios = SubSeq(kScenarios, 1, 9) /\ kScenarios[1] = "happy" /\ kScenarios # <<>>
      BY DEF kScenarios
  <2>4. Runs("happy")'
    <3>1. 1 \in 1..9 /\ 1..(1 - 1) = {}
        OBVIOUS
    <3> QED
        BY <1>4, <2>3, <3>1 DEF Runs
  <2> QED
      BY <1>1, <1>4, <2>1, <2>2, <2>3, <2>4 DEF Sessions
<1>5. ASSUME NEW p \in Policies, queue' = <<"selfcheck">>, scenario' = "selfcheck",
             strokes' = 8, Construct("selfcheck", p, 8), UNCHANGED <<walked, exit>>
      PROVE  Sessions'
  <2>1. "selfcheck" \in Names /\ p \in Settings
      BY NamesListed, JobAssumption DEF Settings
  <2>2. Playing("selfcheck")'
      BY <1>5, <2>1, ConstructStarts
  <2>3. Runs("selfcheck")'
      BY <1>5 DEF Runs
  <2>4. queue' # <<>>
      BY <1>5
  <2> QED
      BY <1>1, <1>5, <2>1, <2>2, <2>3, <2>4 DEF Sessions
<1>6. CASE \E n \in Strokes, name \in Scenarios \cup {"all", "other"} : Main(n, name)
  <2>1. PICK n \in Strokes, name \in Scenarios \cup {"all", "other"} : Main(n, name)
      BY <1>6
  <2>2. CASE Exits(1) \/ Exits(2)
      BY <1>2, <2>2
  <2>3. CASE /\ Accepts(n) /\ name \in Scenarios \cup {"all"}
             /\ queue' = IF name = "all" THEN kScenarios ELSE <<name>>
             /\ scenario' = name /\ strokes' = n
             /\ Construct(queue'[1], PolicyOf(queue'[1]), n)
             /\ UNCHANGED <<walked, exit>>
    <3>1. CASE name = "all"
      <4>1. queue'[1] = "happy"
          BY <2>3, <3>1 DEF kScenarios
      <4> QED
          BY <1>4, <2>3, <3>1, <4>1 DEF Accepts
    <3>2. CASE name # "all"
      <4>1. queue'[1] = name
          BY <2>3, <3>2
      <4> QED
          BY <1>3, <2>3, <3>2, <4>1 DEF Accepts
    <3> QED
        BY <3>1, <3>2
  <2> QED
      BY <2>1, <2>2, <2>3 DEF Main
<1>7. CASE \E p \in Policies, valid, selfCheck \in BOOLEAN : SelfCheck(p, valid, selfCheck)
  <2>1. PICK p \in Policies, valid \in BOOLEAN, selfCheck \in BOOLEAN :
            SelfCheck(p, valid, selfCheck)
      BY <1>7
  <2> QED
      BY <1>2, <1>5, <2>1 DEF SelfCheck
<1> QED
    BY <1>6, <1>7 DEF Launch

LEMMA ScriptStep ==
    ASSUME Sessions, Sleep \/ DrawEnds \/ Call
    PROVE  Sessions'
<1>1. todo # <<>> /\ UNCHANGED <<scenario, queue, walked, exit>>
    BY DEF Sleep, DrawEnds, Call, program
<1>2. queue # <<>> /\ exit = -1 /\ strokes \in Int
    BY <1>1 DEF Sessions
<1>3. PICK name \in Names : Runs(name) /\ Playing(name)
    BY <1>2 DEF Sessions
<1>4. Playing(name)' /\ UNCHANGED strokes
    BY <1>2, <1>3, PlayingGoesOn
<1>5. Runs(name)'
    BY <1>1, <1>3 DEF Runs
<1> QED
    BY <1>1, <1>2, <1>3, <1>4, <1>5 DEF Sessions

LEMMA ReportStep ==
    ASSUME Sessions, Report
    PROVE  Sessions'
<1>1. /\ exit = -1 /\ queue # <<>> /\ todo = <<>> /\ strokes \in Int
      /\ walked \subseteq DiagramEdges /\ walked' = walked \cup Path /\ queue' = Tail(queue)
      /\ UNCHANGED <<scenario, strokes>>
    BY DEF Report, Sessions
<1>2. PICK name \in Names : Runs(name) /\ Playing(name)
    BY <1>1 DEF Sessions
<1>3. walked' \subseteq DiagramEdges
  <2>1. Path \subseteq DiagramEdges
      BY <1>2 DEF Playing, Logged
  <2> QED
      BY <1>1, <2>1
<1>4. CASE scenario # "all"
  <2>1. queue' = <<>>
      BY <1>1, <1>2, <1>4 DEF Runs
  <2>2. exit' = 0 /\ UNCHANGED todo
      BY <2>1 DEF Report
  <2> QED
      BY <1>1, <1>3, <1>4, <2>1, <2>2 DEF Sessions
<1>5. CASE scenario = "all"
  <2>1. PICK j \in 1..9 : /\ name = kScenarios[j] /\ queue = SubSeq(kScenarios, j, 9)
                          /\ \A i \in 1..(j - 1) : Due[kScenarios[i]] \subseteq walked
      BY <1>2, <1>5 DEF Runs
  <2>2. name \in Scenarios /\ name # "selfcheck"
      BY <2>1, KScenarios
  <2>3. Due[name] \subseteq walked'
      BY <1>1, <1>2, <2>2, DueDrawn
  <2>4. \A i \in 1..j : Due[kScenarios[i]] \subseteq walked'
    <3>1. \A i \in 1..j : i = j \/ i \in 1..(j - 1)
        OBVIOUS
    <3> QED
        BY <1>1, <2>1, <2>3, <3>1, Zenon
  <2>5. CASE j = 9
    <3>1. queue' = <<>>
        BY <1>1, <2>1, <2>5, RestOfAll
    <3>2. exit' = 0 /\ UNCHANGED todo
        BY <3>1 DEF Report
    <3>3. walked' = DiagramEdges
      <4>1. DiagramEdges \subseteq walked'
          BY <2>4, <2>5, AllIsDue, Zenon
      <4> QED
          BY <1>3, <4>1
    <3> QED
        BY <1>1, <1>3, <3>1, <3>2, <3>3 DEF Sessions
  <2>6. CASE j # 9
    <3>1. j + 1 \in 1..9 /\ (j + 1) - 1 = j
        BY <2>6
    <3>2. queue' = SubSeq(kScenarios, j + 1, 9)
        BY <1>1, <2>1, <2>6, RestOfAll
    <3>3. queue' # <<>> /\ queue'[1] = kScenarios[j + 1]
        BY <3>1, <3>2, RestOfAll
    <3>4. PICK next : next = kScenarios[j + 1]
        OBVIOUS
    <3>5. next \in Scenarios /\ next # "selfcheck" /\ next \in Names
        BY <3>1, <3>4, KScenarios DEF Names
    <3>6. Construct(next, PolicyOf(next), strokes) /\ UNCHANGED exit
        BY <3>3, <3>4 DEF Report
    <3>7. strokes >= 4
        BY <1>2, <2>2 DEF Playing
    <3>8. Playing(next)'
        BY <1>1, <3>5, <3>6, <3>7, ConstructStarts, PolicyFacts
    <3>9. Runs(next)'
        BY <1>1, <1>5, <2>4, <3>1, <3>2, <3>4 DEF Runs
    <3> QED
        BY <1>1, <1>3, <3>3, <3>5, <3>6, <3>8, <3>9 DEF Sessions
  <2> QED
      BY <2>5, <2>6
<1> QED
    BY <1>4, <1>5

LEMMA NothingHappens ==
    ASSUME Sessions,
           UNCHANGED <<policy, state, resumeTo, reviewDone, sinceReview, plan, strokesDone, failed,
                       abortedAt, interventions, last, startedAt, endedAt, history, scenario,
                       strokes, queue, walked, exit, todo, slept, now>>
    PROVE  Sessions'
<1>1. CASE queue = <<>>
    BY <1>1 DEF Sessions
<1>2. CASE queue # <<>>
  <2>1. PICK name \in Names : Runs(name) /\ Playing(name)
      BY <1>2 DEF Sessions
  <2>2. Runs(name)'
      BY <2>1 DEF Runs
  <2>3. PICK n, p, s, z : /\ n = strokes /\ p = policy
                          /\ s = Script(n)[name] /\ z = Stages(p, n)[name]
      OBVIOUS
  <2>4. PICK k \in 0..Len(s) : todo = SubSeq(s, k + 1, Len(s)) /\ InStage(z[k + 1], name)
      BY <2>1, <2>3 DEF Playing, InStage
  <2>5. PICK r : r = z[k + 1]
      OBVIOUS
  <2>6. Standing(r, name)'
      BY <2>4, <2>5 DEF InStage, Standing
  <2>7. Timed(r)'
    <3>1. Step' = Step /\ (Draws' <=> Draws)
        BY DEF Step, Draws
    <3> QED
        BY <2>4, <2>5, <3>1 DEF InStage, Timed
  <2>8. Logged(r)'
      BY <2>4, <2>5, LogKept DEF InStage, Logged
  <2>9. n = strokes' /\ p = policy'
      BY <2>3
  <2>10. Playing(name)'
      BY <2>1, <2>3, <2>4, <2>5, <2>6, <2>7, <2>8, <2>9 DEF Playing
  <2> QED
      BY <1>2, <2>1, <2>2, <2>10 DEF Sessions
<1> QED
    BY <1>1, <1>2

\* Between two steps of the programs every job stands where its script says.
THEOREM SessionsInvariant == SSpec => []Sessions
<1>1. SInit => Sessions
    BY DEF SInit, Sessions
<1>2. Sessions /\ [SNext]_sessionVars => Sessions'
  <2> SUFFICES ASSUME Sessions, [SNext]_sessionVars PROVE Sessions'
      OBVIOUS
  <2>1. CASE UNCHANGED sessionVars
    <3>1. UNCHANGED <<policy, state, resumeTo, reviewDone, sinceReview, plan, strokesDone, failed,
                      abortedAt, interventions, last, startedAt, endedAt, history, scenario,
                      strokes, queue, walked, exit, todo, slept, now>>
        BY <2>1 DEF sessionVars, machine, vars, record, stamps, program
    <3> QED
        BY <3>1, NothingHappens
  <2>2. CASE Launch
      BY <2>2, LaunchStep
  <2>3. CASE Sleep \/ DrawEnds \/ Call
      BY <2>3, ScriptStep
  <2>4. CASE Report
      BY <2>4, ReportStep
  <2> QED
      BY <2>1, <2>2, <2>3, <2>4 DEF SNext, Play
<1> QED
    BY <1>1, <1>2, PTL DEF SSpec

\* Every scenario of job_cli ends as the operator's README describes it, whatever
\* the number of strokes and the times, but for "stroke_fail" below eight strokes,
\* which records one failure instead of two (ScenarioEndsAsDescribed); the
\* self-check of job_manager stops with its job still open.
THEOREM ScenariosEndAsDescribed == SSpec => []ScenarioEndsAsDescribed
<1>1. Sessions => ScenarioEndsAsDescribed
  <2> SUFFICES ASSUME Sessions, queue # <<>>, todo = <<>>
               PROVE  IF queue[1] = "selfcheck"
                      THEN IF policy.review
                           THEN state = "AwaitingReview" /\ strokesDone = Trigger(8) /\ ~MeetsN2
                           ELSE state = "Drawing" /\ strokesDone = 8 /\ ~MeetsN2
                      ELSE Summary = AsDescribed(strokes, queue[1])
      BY DEF ScenarioEndsAsDescribed
  <2>1. strokes \in Int
      BY DEF Sessions
  <2>2. PICK name \in Names : Runs(name) /\ Playing(name)
      BY DEF Sessions
  <2>3. queue[1] = name
    <3>1. CASE scenario = "all"
        BY <2>2, <3>1, RestOfAll DEF Runs
    <3>2. CASE scenario # "all"
        BY <2>2, <3>2 DEF Runs
    <3> QED
        BY <3>1, <3>2
  <2>4. CASE name = "selfcheck"
      BY <2>1, <2>2, <2>3, <2>4, SelfCheckOver
  <2>5. CASE name # "selfcheck"
      BY <2>1, <2>2, <2>3, <2>5, ScenarioOver DEF Names
  <2> QED
      BY <2>4, <2>5
<1> QED
    BY <1>1, SessionsInvariant, PTL

\* "All" has drawn the whole state diagram of the README, and nothing beside it,
\* when it exits, whatever the number of strokes.
THEOREM AllDrawsTheDiagram == SSpec => []AllWalksTheDiagram
<1>1. Sessions => AllWalksTheDiagram
    BY DEF Sessions, AllWalksTheDiagram
<1> QED
    BY <1>1, SessionsInvariant, PTL
=============================================================================
