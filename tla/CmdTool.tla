------------------------------- MODULE CmdTool -------------------------------
(* mqtt_cmd.py of hcr5_comm: one command a process, over a socket of its own. *)
(* A process may be interrupted (its finally runs, unless the interrupt falls *)
(* into it), killed (it does not run), or lose its connection. Times are in   *)
(* ticks, of which only the order matters.                                    *)
EXTENDS ManualArm

CONSTANTS
    Budgets,      \* the ms of jog
    MinAck,       \* the least a jog waits for its ack, 50 ms
    AckTimeout,   \* the most cmd() waits for an ack
    MoveTimeout,  \* --timeout of movej
    MaxDelta      \* --max-delta of movej

ASSUME ToolAssumption ==
    /\ Budgets \subseteq Nat \ {0}
    /\ {MinAck, AckTimeout, MoveTimeout, MaxDelta} \subseteq Nat \ {0}
    /\ MinAck <= AckTimeout

VARIABLES
    pc,        \* where main() is; "close" at its end, "end" when it is over
    arg,       \* the ms of a jog, the angle of a movej
    clock,     \* how long the present wait has lasted
    acked,     \* the controller has answered
    left,      \* what is left to sleep
    link,      \* the socket: "up", "cut", or "garbled" after a read off its place
    result,    \* movej: "none", "arrived", "stopped", "interrupted"
    moved,     \* history: another client moved the arm since the position was read
    orphan,    \* history: the process that jogs was killed or cut off, or interrupted in
               \* its finally
    own,       \* history: the motion of the movej arrived: "no", "timely", "late"
    dropped    \* history: a moveHere was read while waiting for the ack

runVars == <<pc, arg, clock, acked, left, link, result>>
cmdVars == <<runVars, moved, orphan, own, dropped>>
stillVars == <<pos, motion, target, jogged>>

Larger(a, b) == IF a < b THEN b ELSE a
Smaller(a, b) == IF a < b THEN a ELSE b
Magnitude(n) == IF n < 0 THEN -n ELSE n

ToolInit ==
    /\ pc = "end" /\ arg = 0 /\ clock = 0 /\ acked = FALSE /\ left = 0
    /\ link = "up" /\ result = "none"
    /\ moved = FALSE /\ orphan = FALSE /\ own = "no" /\ dropped = FALSE

-----------------------------------------------------------------------------
(* Commands. Each is a new process with a new socket; between two of them     *)
(* there is a pause, if only the sleep before close().                        *)

Launch(place, value) ==
    /\ pc = "end" /\ pc' = place /\ arg' = value
    /\ UNCHANGED <<clock, acked, left, link, result, moved, own, dropped, heard, inbox>>

StillOrphan == orphan' = (orphan /\ motion' = "jog")

\* servo on|off: a message whose ack is waited for.
Servo(on) ==
    /\ Launch("ack", 0) /\ SetPower(on)
    /\ StillOrphan

StopJog == Halt({"jog"})
StopMove == Halt({"here", "home", "pendant"})

\* stopjog, movestop: a message without an ack.
OneWay ==
    /\ Launch("close", 0)
    /\ StopJog \/ StopMove
    /\ StillOrphan /\ UNCHANGED servo

\* send: any topic, with nothing to stop the arm again; the topics of jog and
\* movej are refused.
Send(kind) ==
    /\ Launch("close", 0)
    /\ kind \notin {"jog", "here"} /\ Begin(kind, Home)
    /\ StillOrphan /\ UNCHANGED servo

\* jog: the arm turns from the publication on.
Jog(ms) ==
    /\ Launch("jogAck", ms) /\ Begin("jog", pos)
    /\ orphan' = FALSE /\ UNCHANGED servo

\* movej: nothing is sent before the position is known.
Movej(angle) ==
    /\ Launch("query", angle)
    /\ UNCHANGED <<servo, stillVars, orphan>>

-----------------------------------------------------------------------------
(* The steps of a process.                                                   *)

Goto(place) == pc' = place /\ clock' = 0 /\ UNCHANGED <<arg, acked>>
Finish == Goto("close") /\ heard' = FALSE /\ inbox' = <<>>
Elsewhere == UNCHANGED <<servo, stillVars>>

\* Mutant of Gate: the sign of the way is forgotten.
GateSigned(seen, angle) == angle - seen <= MaxDelta

Gate(seen, angle) == Magnitude(angle - seen) <= MaxDelta

\* query_pos and the check of how far the arm would move; no answer, no motion.
Query ==
    /\ pc = "query"
    /\ \/ /\ \E seen \in Reached : Gate(seen, arg)
          /\ Goto("listen") /\ moved' = (motion # "rest")
          /\ UNCHANGED <<heard, inbox>>
       \/ Finish /\ UNCHANGED moved
    /\ Elsewhere /\ UNCHANGED <<left, link, result, orphan, own, dropped>>

\* Mutant of Listen: the subscription is forgotten.
ListenNot ==
    /\ pc = "listen" /\ Goto("publish")
    /\ Elsewhere /\ UNCHANGED <<heard, inbox, moved, left, link, result, orphan, own, dropped>>

\* event/motion is subscribed to before the motion starts.
Listen ==
    /\ pc = "listen" /\ Goto("publish") /\ heard' = TRUE
    /\ Elsewhere /\ UNCHANGED <<inbox, moved, left, link, result, orphan, own, dropped>>

\* move/joint/here. The topic of the ack is subscribed to first, and the five
\* bytes read as its SUBACK are those of an event that has come before it.
Publish ==
    /\ pc = "publish" /\ Goto("moveAck")
    /\ link' = IF link = "up" /\ inbox # <<>> THEN "garbled" ELSE link
    /\ IF link = "cut" THEN UNCHANGED stillVars ELSE Begin("here", arg)
    /\ StillOrphan
    /\ UNCHANGED <<servo, moved, heard, inbox, left, result, own, dropped>>

\* How long the present wait may last; a jog counts it to its duration.
Limit ==
    IF pc = "jogAck" THEN Larger(MinAck, Smaller(AckTimeout, arg))
    ELSE IF pc = "moveWait" THEN MoveTimeout
    ELSE AckTimeout

AckPlaces == {"ack", "jogAck", "moveAck"}
Waits == AckPlaces \cup {"moveWait"}
TimedOut == clock >= Limit \/ link = "cut"
Arrives == link = "up" /\ inbox # <<>> /\ ~TimedOut

\* Mutant of Remaining: the wait for the ack does not count.
RemainingWhole == arg

\* What the arm has left to turn after the wait for the ack.
Remaining == Larger(0, arg - clock)

\* The wait for an ack ends, with it or without: the command goes on either way.
AckEnds ==
    /\ pc \in AckPlaces
    /\ (Arrives /\ Head(inbox) = "ack") \/ TimedOut
    /\ \/ pc = "ack" /\ Finish /\ UNCHANGED left
       \/ /\ pc = "jogAck" /\ Goto("jogSleep") /\ left' = Remaining
          /\ inbox' = <<>> /\ UNCHANGED heard
       \/ /\ pc = "moveAck" /\ Goto("moveWait") /\ UNCHANGED <<left, heard>>
          /\ inbox' = IF Arrives /\ Head(inbox) = "ack" THEN Tail(inbox) ELSE inbox
    /\ Elsewhere /\ UNCHANGED <<moved, link, result, orphan, own, dropped>>

\* While it waits for the ack, wait_any drops what else arrives.
DropEvent ==
    /\ pc = "moveAck" /\ Arrives /\ Head(inbox) # "ack"
    /\ inbox' = Tail(inbox) /\ dropped' = TRUE
    /\ Elsewhere /\ UNCHANGED <<runVars, moved, heard, orphan, own>>

\* time.sleep of the jog is over.
JogSleepEnds ==
    /\ pc = "jogSleep" /\ left = 0 /\ Goto("jogStop")
    /\ Elsewhere /\ UNCHANGED <<moved, heard, inbox, left, link, result, orphan, own, dropped>>

\* The finally of the jog.
JogStop ==
    /\ pc = "jogStop" /\ Finish
    /\ IF link = "cut" THEN UNCHANGED stillVars ELSE StopJog
    /\ StillOrphan
    /\ UNCHANGED <<servo, moved, left, link, result, own, dropped>>

\* An event/motion is read: a moveHere, whoever's it is, is the arrival.
Hear ==
    /\ pc = "moveWait" /\ Arrives
    /\ IF Head(inbox) = "moveHere"
       THEN Finish /\ result' = "arrived"
       ELSE inbox' = Tail(inbox) /\ UNCHANGED <<pc, arg, clock, acked, result, heard>>
    /\ Elsewhere /\ UNCHANGED <<moved, left, link, orphan, own, dropped>>

\* No arrival in time, or no connection.
GiveUp ==
    /\ pc = "moveWait" /\ TimedOut /\ Goto("moveStop")
    /\ Elsewhere /\ UNCHANGED <<moved, heard, inbox, left, link, result, orphan, own, dropped>>

\* The finally of the movej. What it reads back afterwards changes nothing.
MoveStop ==
    /\ pc = "moveStop" /\ Finish
    /\ IF link = "cut" THEN UNCHANGED stillVars ELSE StopMove
    /\ result' = IF result = "interrupted" THEN result ELSE "stopped"
    /\ StillOrphan
    /\ UNCHANGED <<servo, moved, left, link, own, dropped>>

-----------------------------------------------------------------------------
(* What happens to a process.                                                *)

\* A jog that goes on is left by the process that would have stopped it.
Orphaned == orphan' = (motion = "jog")

\* Ctrl-C, or a print that fails: the finally of the place it is in, or the end.
\* In the finally itself, before sendall, it is the end: no stop is sent.
Interrupt ==
    /\ \/ pc \in {"jogAck", "jogSleep"} /\ Goto("jogStop") /\ UNCHANGED <<heard, inbox, result, orphan>>
       \/ /\ pc \in {"publish", "moveAck", "moveWait"} /\ Goto("moveStop")
          /\ result' = "interrupted" /\ UNCHANGED <<heard, inbox, orphan>>
       \/ pc \in {"ack", "query", "listen"} /\ Finish /\ UNCHANGED <<result, orphan>>
       \/ pc = "jogStop" /\ Finish /\ Orphaned /\ UNCHANGED result
       \/ pc = "moveStop" /\ Finish /\ result' = "interrupted" /\ UNCHANGED orphan
    /\ left' = 0
    /\ Elsewhere /\ UNCHANGED <<moved, link, own, dropped>>

\* SIGKILL or SIGTERM: no finally.
Kill ==
    /\ pc \notin {"close", "end"} /\ Finish /\ left' = 0
    /\ Orphaned
    /\ Elsewhere /\ UNCHANGED <<moved, link, result, own, dropped>>

Cut ==
    /\ pc \notin {"close", "end"} /\ link' = "cut"
    /\ Orphaned
    /\ Elsewhere
    /\ UNCHANGED <<pc, arg, clock, acked, left, result, moved, heard, inbox, own, dropped>>

\* The controller answers a command once, however late (external).
Answer ==
    /\ pc \in Waits /\ link = "up" /\ ~acked
    /\ acked' = TRUE /\ inbox' = Append(inbox, "ack")
    /\ Elsewhere /\ UNCHANGED <<pc, arg, clock, left, link, result, moved, heard, orphan, own, dropped>>

\* A motion ends while movej waits for it; at the very end of the wait the loop
\* does not look any more.
ToolArrive ==
    /\ Arrive
    /\ own' = IF motion = "here" /\ pc \in {"moveAck", "moveWait"}
              THEN IF pc = "moveWait" /\ clock >= MoveTimeout THEN "late" ELSE "timely"
              ELSE own
    /\ UNCHANGED <<runVars, moved, orphan, dropped>>

ToolLaunches ==
    \/ \E on \in BOOLEAN : Servo(on)
    \/ OneWay
    \/ \E kind \in {"jog", "here", "home"} : Send(kind)
    \/ \E ms \in Budgets : Jog(ms)
    \/ \E angle \in Poses : Movej(angle)

ToolSteps ==
    \/ Query \/ Listen \/ Publish \/ AckEnds \/ DropEvent \/ JogSleepEnds \/ JogStop
    \/ Hear \/ GiveUp \/ MoveStop

ToolTroubles == Interrupt \/ Kill \/ Cut

\* The process has something to do before time goes on.
ToolDue ==
    \/ pc \in Waits /\ (Arrives \/ TimedOut)
    \/ pc = "jogSleep" /\ left = 0
    \/ pc \in {"jogStop", "moveStop"}

\* What a process leaves is forgotten when the next one may start.
ToolTick ==
    IF pc = "close"
    THEN /\ pc' = "end" /\ arg' = 0 /\ clock' = 0 /\ acked' = FALSE /\ left' = 0
         /\ link' = "up" /\ result' = "none"
         /\ moved' = FALSE /\ own' = "no" /\ dropped' = FALSE /\ UNCHANGED orphan
    ELSE /\ clock' = IF pc \in Waits THEN clock + 1 ELSE clock
         /\ left' = IF pc = "jogSleep" THEN left - 1 ELSE left
         /\ UNCHANGED <<pc, arg, acked, link, result, moved, orphan, own, dropped>>
=============================================================================
