----------------------------- MODULE ProgramRun -----------------------------
(* The executables movej and movel of hcr5_bridge: one motion as a program   *)
(* that the controller runs (program/clear, plan, play), one process a run.  *)
(* Runs follow one another; what an earlier one left behind is still there.  *)
(* MqttClient::request is used as RpcContract has it: no value tells nothing.*)
EXTENDS Naturals, Sequences

CONSTANTS
    MaxRuns,   \* how many runs there are (a bound)
    Options,   \* the command lines they may have
    Faults     \* a subset of FaultKinds

\* lost: a message, an answer or a publication does not arrive, or the link to the
\* broker drops; refuse: an answer with code # 0;
\* fault: error/command, error/event or event/collision; servo: the servo goes off;
\* busy: commands are accepted while a program moves the arm (never measured).
FaultKinds == {"lost", "refuse", "fault", "servo", "busy"}

\* What the gates tell apart in a command line and the arm's position: a target the
\* arm is already at ("tiny"), one beyond a cap on distance, speed or ramp ("over"),
\* one outside withinLimits ("outside").
AllOptions == [tool   : {"movej", "movel"},
               mode   : {"dry", "plan", "run"},
               target : {"fine", "tiny", "over", "outside"},
               force  : BOOLEAN]

ASSUME RunAssumption ==
    /\ MaxRuns \in Nat
    /\ Options \subseteq AllOptions
    /\ Faults \subseteq FaultKinds

Runs == 1..MaxRuns

VARIABLES
    run,      \* the current run, 0 before the first
    opt,      \* the command line of each run
    at,       \* where main() is
    code,     \* what main() returns, "none" until it does
    call,     \* the request main() is in: "no", "asked", or its answer
    watch,    \* the client is subscribed to the arrival and fault topics
    done,     \* done
    fault,    \* fault
    rx,       \* the callback the receive thread is in
    events,   \* publications on their way to the receive thread
    wire,     \* commands on their way to the controller, in order
    buffer,   \* the run whose program the controller holds, 0 if none
    motion,   \* the run whose program moves the arm, 0 when it stands
    servo,    \* servo power
    arrived,  \* history: runs whose motion went to its end
    dropped,  \* history: a stop command was lost
    steady    \* history: since the run began the link has not dropped and no
              \* publication for it was lost

mainVars  == <<run, opt, at, code, call>>
watchVars == <<watch, done, fault, rx, events>>
robotVars == <<wire, buffer, motion, servo>>
history   == <<arrived, dropped, steady>>
vars == <<mainVars, watchVars, robotVars, history>>

Exchanges == {"clear", "plan", "play"}
Places == {"none", "connect", "position", "gates", "solve", "servo", "watch", "wait",
           "stop", "halt", "readback", "leave", "join", "over"} \cup Exchanges
\* main()'s return value: 0 "success", 3 "unheard", 4 "gated", 5 "unacked", 6 "stopped";
\* "none" before it returns, "crash" when it dies on the way out.
Codes == {"none", "success", "unheard", "gated", "unacked", "stopped", "crash"}
Commands == [topic : Exchanges \cup {"stop", "halt"}, run : Runs]

TypeOK ==
    /\ run \in 0..MaxRuns /\ opt \in [Runs -> Options]
    /\ at \in Places /\ code \in Codes
    /\ call \in {"no", "asked", "ok", "bad"}
    /\ watch \in BOOLEAN /\ done \in BOOLEAN /\ fault \in BOOLEAN
    /\ rx \in {"idle", "end", "fault"} /\ events \subseteq {"end", "fault"}
    /\ wire \in Seq(Commands)
    /\ buffer \in 0..MaxRuns /\ motion \in 0..MaxRuns /\ servo \in BOOLEAN
    /\ arrived \subseteq Runs /\ dropped \in BOOLEAN /\ steady \in BOOLEAN

Init ==
    /\ run = 0 /\ opt \in [Runs -> Options] /\ at = "none" /\ code = "none" /\ call = "no"
    /\ watch = FALSE /\ done = FALSE /\ fault = FALSE /\ rx = "idle" /\ events = {}
    /\ wire = <<>> /\ buffer = 0 /\ motion = 0 /\ servo \in BOOLEAN
    /\ arrived = {} /\ dropped = FALSE /\ steady = TRUE

Command(topic) == [topic |-> topic, run |-> run]
Opt == opt[run]

-----------------------------------------------------------------------------
(* main(), up to the first command. Nothing is sent that moves the arm.      *)

\* main() is at `from` and goes on to `to`.
Goes(from, to) ==
    /\ at = from /\ at' = to
    /\ UNCHANGED <<run, opt, code, call>>

\* main() returns c.
Returns(from, c) ==
    /\ at = from /\ at' = "leave" /\ code' = c
    /\ UNCHANGED <<run, opt>> /\ call' = "no"

Launch ==
    /\ at \in {"none", "over"} /\ run < MaxRuns
    /\ run' = run + 1 /\ at' = "connect" /\ code' = "none"
    /\ done' = FALSE /\ fault' = FALSE /\ steady' = TRUE
    /\ UNCHANGED <<opt, call, watch, rx, events, robotVars, arrived, dropped>>

\* MqttClient::start, then get/command/pos: without an answer there is no run.
Connect ==
    /\ Goes("connect", "position") \/ Returns("connect", "unheard")
    /\ UNCHANGED <<watchVars, robotVars, history>>

Position ==
    /\ Goes("position", "gates") \/ Returns("position", "unheard")
    /\ UNCHANGED <<watchVars, robotVars, history>>

\* movej knows the joints of its target, movel only after the inverse kinematics.
\* --force lifts the caps and not the limits.
PassesGates(o) ==
    /\ o.target # "tiny"
    /\ o.target = "over" => o.force
    /\ o.tool = "movej" => o.target # "outside"

Gates ==
    /\ at = "gates"
    /\ IF PassesGates(Opt) THEN Goes("gates", "solve") ELSE Returns("gates", "gated")
    /\ UNCHANGED <<watchVars, robotVars, history>>

\* Mutant of SolveEnds: what the inverse kinematics returned is not tested.
SolveEndsUntested ==
    \/ Returns("solve", "unheard")
    \/ IF Opt.mode = "dry" THEN Returns("solve", "success")
       ELSE Goes("solve", IF Opt.mode = "plan" THEN "watch" ELSE "servo")

\* The controller's FK or IK, withinLimits on movel's solution, --dry-run.
SolveEnds ==
    \/ Returns("solve", "unheard")
    \/ IF Opt.target = "outside" THEN Returns("solve", "gated")
       ELSE IF Opt.mode = "dry" THEN Returns("solve", "success")
       ELSE Goes("solve", IF Opt.mode = "plan" THEN "watch" ELSE "servo")

Solve == at = "solve" /\ SolveEnds /\ UNCHANGED <<watchVars, robotVars, history>>

-----------------------------------------------------------------------------
(* From the servo gate to arrival.                                           *)

\* Mutant of Then: the arrival topics are subscribed once the program plays.
ThenWatchLate == [servo |-> "clear", watch |-> "wait",
                  clear |-> "plan", plan |-> "play", play |-> "watch"]

\* What comes after each place: the subscriptions precede every command.
Then == [servo |-> "watch", watch |-> "clear",
         clear |-> "plan", plan |-> "play", play |-> "wait"]

\* waitServoOn: the first status/operation decides; none within 2 s is a refusal.
ServoGate ==
    /\ (servo /\ Goes("servo", Then["servo"])) \/ Returns("servo", "gated")
    /\ UNCHANGED <<watchVars, robotVars, history>>

\* The subscriptions go out once, and are lost when the link is down at the time.
Watch ==
    /\ Goes("watch", Then["watch"])
    /\ watch' \in {TRUE, steady}
    /\ UNCHANGED <<done, fault, rx, events, robotVars, history>>

\* A command goes out; it may be lost.
Publish(topic) ==
    \/ wire' = Append(wire, Command(topic)) /\ UNCHANGED dropped
    \/ /\ "lost" \in Faults /\ UNCHANGED wire
       /\ dropped' = (dropped \/ topic \in {"stop", "halt"})

Ask(topic) ==
    /\ at = topic /\ call = "no" /\ call' = "asked"
    /\ Publish(topic)
    /\ UNCHANGED <<run, opt, at, code, watchVars, buffer, motion, servo, arrived, steady>>

Acked(topic) ==
    /\ at = topic /\ call = "ok" /\ call' = "no"
    /\ IF topic = "plan" /\ Opt.mode = "plan"
       THEN at' = "leave" /\ code' = "success"
       ELSE at' = Then[topic] /\ UNCHANGED code
    /\ UNCHANGED <<run, opt, watchVars, robotVars, history>>

\* Refused, or no answer in time. Nothing is sent to take the command back.
NotAcked(topic) ==
    /\ call \in {"asked", "bad"} /\ Returns(topic, "unacked")
    /\ UNCHANGED <<watchVars, robotVars, history>>

\* Mutant of Wait: no timeout.
WaitForever ==
    /\ IF fault THEN Goes("wait", "stop")
       ELSE done /\ Goes("wait", "readback")
    /\ UNCHANGED <<watchVars, robotVars, history>>

\* wait_for(done || fault): a fault comes first, then arrival, else the timeout.
Wait ==
    /\ Goes("wait", IF done /\ ~fault THEN "readback" ELSE "stop")
    /\ UNCHANGED <<watchVars, robotVars, history>>

\* Mutants of Stop: another topic; returns without stopping the program.
StopPauses ==
    /\ Goes("stop", "halt") /\ Publish("pause")
    /\ UNCHANGED <<watchVars, buffer, motion, servo, arrived, steady>>

StopNothing ==
    /\ Returns("stop", "stopped")
    /\ UNCHANGED <<watchVars, robotVars, history>>

\* program/stop, then move/stop, neither acknowledged.
Stop ==
    /\ Goes("stop", "halt") /\ Publish("stop")
    /\ UNCHANGED <<watchVars, buffer, motion, servo, arrived, steady>>

Halt ==
    /\ Returns("halt", "stopped") /\ Publish("halt")
    /\ UNCHANGED <<watchVars, buffer, motion, servo, arrived, steady>>

\* The position is read back and shown; the result is success whatever it is.
Readback ==
    /\ Returns("readback", "success")
    /\ UNCHANGED <<watchVars, robotVars, history>>

\* main() has returned: its locals are destroyed, and then the client, whose
\* destructor disconnects and joins the receive thread.
Leave ==
    /\ Goes("leave", "join")
    /\ watch' = FALSE /\ events' = {}
    /\ UNCHANGED <<done, fault, rx, robotVars, history>>

Join ==
    /\ rx = "idle" /\ Goes("join", "over")
    /\ UNCHANGED <<watchVars, robotVars, history>>

-----------------------------------------------------------------------------
(* The receive thread.                                                       *)

Deliver(e) ==
    /\ rx = "idle" /\ rx' = e /\ events' = events \ {e}
    /\ UNCHANGED <<mainVars, watch, done, fault, robotVars, history>>

\* mark and on_error write main()'s locals, which they hold by reference. When
\* main() has returned the locals are gone: the process may not survive that.
Callback ==
    /\ rx # "idle" /\ rx' = "idle"
    /\ IF at \in {"leave", "join"}
       THEN /\ UNCHANGED <<done, fault, run, opt, call>>
            /\ \/ UNCHANGED <<at, code, watch, events>>
               \/ at' = "over" /\ code' = "crash" /\ watch' = FALSE /\ events' = {}
       ELSE /\ done' = (done \/ rx = "end") /\ fault' = (fault \/ rx = "fault")
            /\ UNCHANGED <<watch, events, mainVars>>
    /\ UNCHANGED <<robotVars, history>>

-----------------------------------------------------------------------------
(* The controller, as the code and the measurements of this repository use it. *)

\* A publication reaches the client when it is subscribed, unless it is lost (QoS 0).
Emits(e) ==
    \/ events' = (IF watch THEN events \cup {e} ELSE events) /\ UNCHANGED steady
    \/ "lost" \in Faults /\ watch /\ steady' = FALSE /\ UNCHANGED events

\* An answer reaches main() while it is still in the call it belongs to.
Answers(c, a) == call' = IF call = "asked" /\ c = Command(at) THEN a ELSE call

\* program/play is acknowledged even when the servo is off; then nothing moves.
Effect(c) ==
    /\ buffer' = CASE c.topic = "clear" -> 0 [] c.topic = "plan" -> c.run [] OTHER -> buffer
    /\ motion' = CASE c.topic \in {"stop", "halt"} -> 0
                   [] c.topic = "play" /\ servo /\ motion = 0 -> buffer
                   [] OTHER -> motion

Controller ==
    /\ wire # <<>> /\ wire' = Tail(wire)
    /\ LET c == Head(wire) IN
       \/ /\ c.topic \in Exchanges => motion = 0 \/ "busy" \in Faults
          /\ Effect(c)
          /\ (Answers(c, "ok") \/ ("lost" \in Faults /\ UNCHANGED call))
       \/ /\ c.topic \in Exchanges /\ ("refuse" \in Faults \/ motion # 0)
          /\ Answers(c, "bad") /\ UNCHANGED <<buffer, motion>>
    /\ UNCHANGED <<run, opt, at, code, watchVars, servo, history>>

\* The arm reached the program's end: event/motion and program/end.
MotionEnds ==
    /\ motion # 0 /\ motion' = 0 /\ arrived' = arrived \cup {motion}
    /\ Emits("end")
    /\ UNCHANGED <<mainVars, watch, done, fault, rx, wire, buffer, servo, dropped>>

\* A fault is published; the arm may have been stopped by it.
FaultReported ==
    /\ "fault" \in Faults
    /\ Emits("fault") /\ motion' \in {0, motion}
    /\ UNCHANGED <<mainVars, watch, done, fault, rx, wire, buffer, servo, arrived, dropped>>

ServoSwitched ==
    /\ ~servo \/ "servo" \in Faults
    /\ servo' = ~servo /\ motion' = 0
    /\ UNCHANGED <<mainVars, watchVars, wire, buffer, history>>

\* The link drops. The client connects again with a clean session, and nothing
\* subscribes a second time; of what was on its way some may be lost.
LinkDrops ==
    /\ "lost" \in Faults /\ at \notin {"none", "connect", "join", "over"}
    /\ steady' = FALSE /\ watch' = FALSE /\ events' \in SUBSET events
    /\ UNCHANGED <<mainVars, done, fault, rx, robotVars, arrived, dropped>>

-----------------------------------------------------------------------------
Main ==
    \/ Connect \/ Position \/ Gates \/ Solve \/ ServoGate \/ Watch
    \/ (\E t \in Exchanges : Ask(t) \/ Acked(t) \/ NotAcked(t))
    \/ Wait \/ Stop \/ Halt \/ Readback \/ Leave \/ Join

Next ==
    \/ Launch \/ Main
    \/ (\E e \in events : Deliver(e)) \/ Callback
    \/ Controller \/ MotionEnds \/ FaultReported \/ ServoSwitched \/ LinkDrops

Spec == Init /\ [][Next]_vars

\* The OS runs both threads and every wait of main() has a timeout. Nothing is
\* assumed of the controller or of whoever starts the runs.
FairSpec == Spec /\ WF_vars(Main) /\ WF_vars(Callback)

-----------------------------------------------------------------------------
\* The arm moves only for a run that was to move it and whose target passed the
\* gates, however late its play is carried out.
MovesOnlyAsGated ==
    motion # 0 => opt[motion].mode = "run" /\ PassesGates(opt[motion])
                  /\ opt[motion].target # "outside"

\* The comment at the subscriptions: they come before the commands, so the end of
\* a short motion is not missed, as long as the link has not dropped since the run
\* began and no publication was lost.
ArrivalNotMissed ==
    at = "wait" /\ steady /\ run \in arrived => done \/ rx = "end" \/ "end" \in events

\* A run that returned "stopped" (6) has stopped its program: once its commands are carried
\* out the arm does not move for it.
FaultStopsProgram ==
    code = "stopped" /\ ~dropped /\ (\A i \in DOMAIN wire : wire[i].run # run) => motion # run

\* Every run returns, whatever the controller does.
RunsEnd == at \notin {"none", "over"} ~> at = "over"

\* What the comment at the subscriptions says of arrival: a run that returns 0
\* after playing its program has arrived.
ReportedArrivalIsArrival ==
    code = "success" /\ Opt.mode = "run" => run \in arrived

\* What servo_gate.hpp says of a callback that holds locals by reference: it must
\* not run once the function has returned.
CallbacksFindTheirLocals == rx # "idle" => at \notin {"leave", "join"}
=============================================================================
