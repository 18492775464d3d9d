----------------------------- MODULE HcrSystem -----------------------------
(* The ros2_control hardware plugin HcrSystemInterface (hcr5_bridge), with   *)
(* its three threads:                                                        *)
(*   cm      the controller_manager: lifecycle callbacks, read() and write() *)
(*   rx      the MQTT receive thread: subscription callbacks                 *)
(*   worker  the only thread that publishes move/joint/here                  *)
(* and, as environment, the broker connection and the robot controller.      *)
(* One joint stands for six: every test in write() is a maximum over joints. *)
EXTENDS Integers

CONSTANTS
    Positions,             \* joint targets that controllers may command (degrees)
    Legal,                 \* those inside both withinLimits() and the URDF limits
    Deadband,              \* deadband_deg
    NoTarget,              \* an empty pending slot; for the robot: stopped
    AllowMotion,           \* the hardware <param> allow_motion
    ServoOffOnDeactivate,  \* the hardware <param> servo_off_on_deactivate
    Faults                 \* what the environment may do: a subset of FaultKinds

\* net: the link drops; stale: samples stop for longer than state_timeout;
\* fieldbus: the drive bus is reported down; collision: event/collision;
\* ack: an answer is lost; refuse: the controller answers with code # 0.
FaultKinds == {"net", "stale", "fieldbus", "collision", "ack", "refuse"}

ASSUME HcrAssumption ==
    /\ Positions \subseteq Int /\ Positions # {}
    /\ Legal \subseteq Positions
    /\ Deadband \in Nat              \* on_init refuses a negative deadband_deg
    /\ NoTarget \notin Positions
    /\ AllowMotion \in BOOLEAN
    /\ ServoOffOnDeactivate \in BOOLEAN
    /\ Faults \subseteq FaultKinds

VARIABLES
    life,       \* the component's lifecycle state, as the resource manager holds it
    cm,         \* where the controller_manager thread is; "idle" between calls
    mqtt,       \* mqtt_ is set and its connected_ flag is TRUE
    net,        \* the broker can be reached
    subs,       \* the broker still holds this session's subscriptions
    locked,     \* publish_locked_
    permLocked, \* publish_permanently_locked_
    running,    \* worker_running_
    latched,    \* collision_latched_
    fieldbus,   \* fieldbus_ok_
    haveState,  \* have_state_
    fresh,      \* the last sample is younger than state_timeout_
    command,    \* the command interface the controllers write
    prevCmd,    \* prev_cmd_real_deg_
    lastSent,   \* last_sent_real_deg_
    haveSent,   \* have_sent_
    moving,     \* cmd_moving_
    pending,    \* pending_real_deg_, NoTarget when pending_valid_ is FALSE
    worker,     \* where workerLoop is; "none" when there is no thread
    held,       \* the worker's local target
    rx,         \* where the receive thread is inside a callback
    goal,       \* robot: the target it is driving to, NoTarget after move/stop
    servo       \* robot: servo power

cmVars     == <<life, cm, locked, permLocked, running>>
linkVars   == <<mqtt, net, subs>>
stateVars  == <<haveState, fresh, fieldbus>>
cmdVars    == <<command, prevCmd, lastSent, haveSent, moving, pending>>
workerVars == <<worker, held>>
robotVars  == <<goal, servo>>
vars == <<cmVars, linkVars, stateVars, cmdVars, workerVars, robotVars, rx, latched>>

Lives == {"unconfigured", "inactive", "active"}
CmPlaces == {"idle", "write", "writeSlot",
             "cfgProbe", "cfgStart", "cfgSample", "cfgStop", "actFieldbus", "actSeed",
             "deactLock", "deactStop", "deactJoin", "deactServo", "deactAck",
             "errLock", "errStop", "errJoin", "cleanup"}
WorkerPlaces == {"none", "wait", "gate", "pace", "send", "reply", "noReply", "exited"}
Target == Positions \cup {NoTarget}

Distance(a, b) == IF a >= b THEN a - b ELSE b - a

TypeOK ==
    /\ life \in Lives /\ cm \in CmPlaces
    /\ mqtt \in BOOLEAN /\ net \in BOOLEAN /\ subs \in BOOLEAN
    /\ locked \in BOOLEAN /\ permLocked \in BOOLEAN /\ running \in BOOLEAN
    /\ latched \in BOOLEAN /\ fieldbus \in BOOLEAN
    /\ haveState \in BOOLEAN /\ fresh \in BOOLEAN
    /\ command \in Positions /\ prevCmd \in Positions /\ lastSent \in Positions
    /\ haveSent \in BOOLEAN /\ moving \in BOOLEAN
    /\ pending \in Target /\ held \in Target /\ goal \in Target
    /\ worker \in WorkerPlaces
    /\ rx \in {"idle", "collided", "clearing"}
    /\ servo \in BOOLEAN

\* The member initialisers of hcr_system_interface.hpp: locked, nothing received.
Init ==
    /\ life = "unconfigured" /\ cm = "idle" /\ rx = "idle"
    /\ locked = TRUE /\ permLocked = FALSE /\ running = FALSE /\ latched = FALSE
    /\ mqtt = FALSE /\ net = TRUE /\ subs = FALSE
    /\ fieldbus = FALSE /\ haveState = FALSE /\ fresh = FALSE
    /\ \E p \in Positions : command = p /\ prevCmd = p /\ lastSent = p
    /\ haveSent = FALSE /\ moving = FALSE /\ pending = NoTarget
    /\ worker = "none" /\ held = NoTarget
    /\ goal = NoTarget /\ servo = FALSE

-----------------------------------------------------------------------------
(* Lifecycle callbacks. One runs at a time and none overlaps read() or       *)
(* write(): the resource manager holds the component's mutex around each.    *)

\* move/stop goes out without an answer; it is lost when the link is down.
PublishStop == goal' = IF mqtt /\ net THEN NoTarget ELSE goal

Configure ==
    /\ cm = "idle" /\ life = "unconfigured"
    /\ locked' = TRUE /\ latched' = FALSE /\ fieldbus' = FALSE
    /\ haveState' = FALSE /\ fresh' = FALSE
    /\ cm' = "cfgProbe"
    /\ UNCHANGED <<life, permLocked, running, linkVars, cmdVars, workerVars, robotVars, rx>>

\* tcpProbe. When it fails, a client left over from an earlier session (on_error
\* keeps it) stays as it is; otherwise mqtt_ is replaced and that client destroyed.
ConfigureProbe ==
    /\ cm = "cfgProbe"
    /\ IF net THEN mqtt' = FALSE /\ subs' = FALSE /\ cm' = "cfgStart"
              ELSE cm' = "errLock" /\ UNCHANGED <<mqtt, subs>>
    /\ UNCHANGED <<life, locked, permLocked, running, net, stateVars, cmdVars, workerVars,
                   robotVars, rx, latched>>

\* The old client's receive thread is joined, then the new one connects or fails.
ConfigureStart ==
    /\ cm = "cfgStart" /\ rx = "idle"
    /\ \/ net /\ mqtt' = TRUE /\ subs' = TRUE /\ cm' = "cfgSample"
       \/ "net" \in Faults /\ cm' = "errLock" /\ UNCHANGED <<mqtt, subs>>
    /\ UNCHANGED <<life, locked, permLocked, running, net, stateVars, cmdVars, workerVars,
                   robotVars, rx, latched>>

ConfigureSampled ==
    /\ cm = "cfgSample" /\ haveState
    /\ cm' = "idle" /\ life' = "inactive"
    /\ UNCHANGED <<locked, permLocked, running, linkVars, stateVars, cmdVars, workerVars,
                   robotVars, rx, latched>>

\* No first sample in time: mqtt_->stop() clears connected_, then joins.
ConfigureTimeout ==
    /\ cm = "cfgSample" /\ ~haveState
    /\ mqtt' = FALSE /\ subs' = FALSE /\ cm' = "cfgStop"
    /\ UNCHANGED <<life, locked, permLocked, running, net, stateVars, cmdVars, workerVars,
                   robotVars, rx, latched>>

ConfigureStopped ==
    /\ cm = "cfgStop" /\ rx = "idle"
    /\ cm' = "errLock"
    /\ UNCHANGED <<life, locked, permLocked, running, linkVars, stateVars, cmdVars,
                   workerVars, robotVars, rx, latched>>

Activate ==
    /\ cm = "idle" /\ life = "inactive"
    /\ cm' = IF mqtt THEN "actFieldbus" ELSE "errLock"
    /\ UNCHANGED <<life, locked, permLocked, running, linkVars, stateVars, cmdVars,
                   workerVars, robotVars, rx, latched>>

\* waitForFieldbus, then the freshness test; ~fieldbus here is its 500 ms timeout.
ActivateCheck ==
    /\ cm = "actFieldbus"
    /\ cm' = IF fieldbus /\ haveState /\ fresh THEN "actSeed" ELSE "errLock"
    /\ UNCHANGED <<life, locked, permLocked, running, linkVars, stateVars, cmdVars,
                   workerVars, robotVars, rx, latched>>

\* Mutants of SeedBuffer: the command interface is left unset; the slot keeps its target.
SeedBufferUnset(p) ==
    /\ command' = NoTarget /\ prevCmd' = p /\ lastSent' = p
    /\ pending' = NoTarget /\ haveSent' = FALSE /\ moving' = FALSE

SeedBufferKeepsSlot(p) ==
    /\ command' = p /\ prevCmd' = p /\ lastSent' = p
    /\ haveSent' = FALSE /\ moving' = FALSE /\ UNCHANGED pending

\* The command buffer starts from where the controller says the arm is:
\* get/command/pos, or the cached sample when that call is not answered.
SeedBuffer(p) ==
    /\ command' = p /\ prevCmd' = p /\ lastSent' = p
    /\ pending' = NoTarget /\ haveSent' = FALSE /\ moving' = FALSE

\* A second call while worker_running_ is set starts nothing.
StartWorker == running' = TRUE /\ worker' = IF running THEN worker ELSE "wait"

\* Mutant of StartPublishing: the permanent lock is forgotten.
StartPublishingAlways == StartWorker /\ locked' = FALSE

StartPublishing ==
    IF AllowMotion /\ ~permLocked
    THEN StartWorker /\ locked' = FALSE
    ELSE UNCHANGED <<running, worker, locked>>

ActivateArm(p) ==
    /\ cm = "actSeed"
    /\ SeedBuffer(p) /\ StartPublishing
    /\ cm' = "idle" /\ life' = "active"
    /\ UNCHANGED <<permLocked, linkVars, stateVars, held, robotVars, rx, latched>>

\* Someone asks for the inactive state (the operator, or process shutdown).
Deactivate ==
    /\ cm = "idle" /\ life = "active"
    /\ cm' = "deactLock"
    /\ UNCHANGED <<life, locked, permLocked, running, linkVars, stateVars, cmdVars,
                   workerVars, robotVars, rx, latched>>

DeactivateLock ==
    /\ cm = "deactLock"
    /\ locked' = TRUE /\ cm' = "deactStop"
    /\ UNCHANGED <<life, permLocked, running, linkVars, stateVars, cmdVars, workerVars,
                   robotVars, rx, latched>>

\* Mutants of DeactivateStop: the servo goes off before the worker is joined; the
\* worker is never told to end.
DeactivateServoFirst ==
    /\ cm = "deactStop"
    /\ PublishStop /\ running' = FALSE /\ cm' = "deactServo"
    /\ UNCHANGED <<life, locked, permLocked, linkVars, stateVars, cmdVars, workerVars,
                   servo, rx, latched>>

DeactivateStopSilently ==
    /\ cm = "deactStop"
    /\ PublishStop /\ cm' = "deactJoin"
    /\ UNCHANGED <<life, locked, permLocked, running, linkVars, stateVars, cmdVars, workerVars,
                   servo, rx, latched>>

\* publishStop, then stopWorker clears worker_running_ and waits in join().
DeactivateStop ==
    /\ cm = "deactStop"
    /\ PublishStop /\ running' = FALSE /\ cm' = "deactJoin"
    /\ UNCHANGED <<life, locked, permLocked, linkVars, stateVars, cmdVars, workerVars,
                   servo, rx, latched>>

\* Mutant of DeactivateJoin: the worker is told to end and not waited for.
DeactivateNoJoin ==
    /\ cm = "deactJoin"
    /\ cm' = "idle" /\ life' = "inactive"
    /\ UNCHANGED <<locked, permLocked, running, linkVars, stateVars, cmdVars, workerVars,
                   robotVars, rx, latched>>

DeactivateJoin ==
    /\ cm = "deactJoin" /\ worker \in {"none", "exited"}
    /\ worker' = "none"
    /\ IF ServoOffOnDeactivate
       THEN cm' = "deactServo" /\ UNCHANGED life
       ELSE cm' = "idle" /\ life' = "inactive"
    /\ UNCHANGED <<locked, permLocked, running, linkVars, stateVars, cmdVars, held,
                   robotVars, rx, latched>>

DeactivateServo ==
    /\ cm = "deactServo"
    /\ servo' = (servo /\ ~(mqtt /\ net))
    /\ cm' = "deactAck"
    /\ UNCHANGED <<life, locked, permLocked, running, linkVars, stateVars, cmdVars,
                   workerVars, goal, rx, latched>>

\* Answered, or kServoOffTimeout passed: either way the callback returns SUCCESS.
DeactivateDone ==
    /\ cm = "deactAck"
    /\ cm' = "idle" /\ life' = "inactive"
    /\ UNCHANGED <<locked, permLocked, running, linkVars, stateVars, cmdVars, workerVars,
                   robotVars, rx, latched>>

\* on_cleanup. The worker is already joined; mqtt_->stop() clears connected_ first
\* and then joins the receive thread.
Cleanup ==
    /\ cm = "idle" /\ life = "inactive"
    /\ locked' = TRUE /\ mqtt' = FALSE /\ subs' = FALSE /\ cm' = "cleanup"
    /\ UNCHANGED <<life, permLocked, running, net, stateVars, cmdVars, workerVars,
                   robotVars, rx, latched>>

CleanupDone ==
    /\ cm = "cleanup" /\ rx = "idle"
    /\ cm' = "idle" /\ life' = "unconfigured"
    /\ UNCHANGED <<locked, permLocked, running, linkVars, stateVars, cmdVars, workerVars,
                   robotVars, rx, latched>>

\* on_error, which the framework calls after any callback that returned ERROR.
ErrorLock ==
    /\ cm = "errLock"
    /\ locked' = TRUE /\ permLocked' = TRUE /\ cm' = "errStop"
    /\ UNCHANGED <<life, running, linkVars, stateVars, cmdVars, workerVars, robotVars,
                   rx, latched>>

ErrorStop ==
    /\ cm = "errStop"
    /\ PublishStop /\ running' = FALSE /\ cm' = "errJoin"
    /\ UNCHANGED <<life, locked, permLocked, linkVars, stateVars, cmdVars, workerVars,
                   servo, rx, latched>>

ErrorJoin ==
    /\ cm = "errJoin" /\ worker \in {"none", "exited"}
    /\ worker' = "none" /\ cm' = "idle" /\ life' = "unconfigured"
    /\ UNCHANGED <<locked, permLocked, running, linkVars, stateVars, cmdVars, held,
                   robotVars, rx, latched>>

-----------------------------------------------------------------------------
(* The control cycle: read(), the controllers' update, write().              *)

\* Mutant of Read: only asks whether a sample ever came.
ReadAnySample ==
    /\ cm = "idle" /\ life = "active"
    /\ IF haveState THEN cm' = "write" ELSE cm' \in {"deactLock", "errLock"}
    /\ UNCHANGED <<life, locked, permLocked, running, linkVars, stateVars, cmdVars,
                   workerVars, robotVars, rx, latched>>

\* A cycle starts with read(), which returns DEACTIVATE on a stale sample; then
\* write() is not called. The framework's answer is not in this repository: it
\* deactivates the component, or (as measured on the robot) puts it through on_error.
Read ==
    /\ cm = "idle" /\ life = "active"
    /\ IF haveState /\ fresh THEN cm' = "write" ELSE cm' \in {"deactLock", "errLock"}
    /\ UNCHANGED <<life, locked, permLocked, running, linkVars, stateVars, cmdVars,
                   workerVars, robotVars, rx, latched>>

WriteOpen == AllowMotion /\ ~locked /\ ~permLocked /\ ~latched /\ fieldbus

\* Whether write() queues c: past the deadband while the target moves, once at
\* full precision when it has just come to rest.
Enqueues(c) ==
    IF c # prevCmd THEN ~haveSent \/ Distance(c, lastSent) >= Deadband
                   ELSE moving /\ (~haveSent \/ Distance(c, lastSent) > 0)

\* Mutant of Write: no limit test.
WriteUnlimited(c) ==
    /\ cm = "write"
    /\ command' = c
    /\ cm' = IF WriteOpen THEN "writeSlot" ELSE "idle"
    /\ UNCHANGED <<life, locked, permLocked, running, linkVars, stateVars, prevCmd, lastSent,
                   haveSent, moving, pending, workerVars, robotVars, rx, latched>>

\* The gates and the limits. They are read without a lock, so the receive thread
\* may run between them and the slot.
Write(c) ==
    /\ cm = "write"
    /\ command' = c
    /\ cm' = IF WriteOpen /\ c \in Legal THEN "writeSlot" ELSE "idle"
    /\ UNCHANGED <<life, locked, permLocked, running, linkVars, stateVars, prevCmd, lastSent,
                   haveSent, moving, pending, workerVars, robotVars, rx, latched>>

\* The deadband and the slot, under cmd_mutex_. A target still in the slot is replaced.
WriteSlot ==
    /\ cm = "writeSlot"
    /\ pending' = IF Enqueues(command) THEN command ELSE pending
    /\ moving' = (command # prevCmd)
    /\ prevCmd' = command
    /\ cm' = "idle"
    /\ UNCHANGED <<life, locked, permLocked, running, linkVars, stateVars, command, lastSent,
                   haveSent, workerVars, robotVars, rx, latched>>

-----------------------------------------------------------------------------
(* workerLoop.                                                               *)

\* Mutant of WorkerTake: does not look at the slot while latched.
WorkerTakeUnlatched ==
    /\ worker = "wait" /\ running /\ pending # NoTarget /\ ~latched
    /\ held' = pending /\ pending' = NoTarget
    /\ worker' = "gate"
    /\ UNCHANGED <<cmVars, linkVars, stateVars, command, prevCmd, lastSent, haveSent, moving,
                   robotVars, rx, latched>>

WorkerTake ==
    /\ worker = "wait" /\ running /\ pending # NoTarget
    /\ held' = pending /\ pending' = NoTarget
    /\ worker' = "gate"
    /\ UNCHANGED <<cmVars, linkVars, stateVars, command, prevCmd, lastSent, haveSent, moving,
                   robotVars, rx, latched>>

WorkerExit ==
    /\ worker = "wait" /\ ~running
    /\ worker' = "exited"
    /\ UNCHANGED <<cmVars, linkVars, stateVars, cmdVars, held, robotVars, rx, latched>>

\* Goes on to place `next` when `open` holds, and drops the target otherwise.
WorkerGoesOn(open, next) ==
    /\ IF open THEN worker' = next /\ UNCHANGED held
               ELSE worker' = "wait" /\ held' = NoTarget
    /\ UNCHANGED <<cmVars, linkVars, stateVars, cmdVars, robotVars, rx, latched>>

\* Mutant of WorkerGate: the latch is not read.
WorkerGateNoLatch ==
    /\ worker = "gate"
    /\ WorkerGoesOn(~locked /\ ~permLocked, "pace")

\* The three flags, before the wait for min_publish_interval_.
WorkerGate ==
    /\ worker = "gate"
    /\ WorkerGoesOn(~locked /\ ~permLocked /\ ~latched, "pace")

\* After the wait: the collision latch is not read again.
WorkerRecheck ==
    /\ worker = "pace"
    /\ WorkerGoesOn(running /\ ~locked /\ ~permLocked, "send")

\* The robot takes the target only with the servo on (150026 otherwise).
WorkerSend ==
    /\ worker = "send"
    /\ \/ mqtt /\ net /\ servo /\ goal' = held /\ worker' = "reply"
       \/ ~(mqtt /\ net /\ servo /\ "refuse" \notin Faults) /\ worker' = "noReply"
          /\ UNCHANGED goal
    /\ UNCHANGED <<cmVars, linkVars, stateVars, cmdVars, held, servo, rx, latched>>

WorkerAck ==
    /\ worker = "reply" /\ net
    /\ lastSent' = held /\ haveSent' = TRUE
    /\ worker' = "wait" /\ held' = NoTarget
    /\ UNCHANGED <<cmVars, linkVars, stateVars, command, prevCmd, moving, pending, robotVars,
                   rx, latched>>

\* Mutant of WorkerNoAck: records the target as sent.
WorkerNoAckRecorded ==
    /\ worker = "noReply" \/ (worker = "reply" /\ Faults \cap {"ack", "net"} # {})
    /\ lastSent' = held /\ haveSent' = TRUE
    /\ worker' = "wait" /\ held' = NoTarget
    /\ UNCHANGED <<cmVars, linkVars, stateVars, command, prevCmd, moving, pending, robotVars,
                   rx, latched>>

\* No answer within 3 s, or one with code # 0: the target is not sent again.
WorkerNoAck ==
    /\ worker = "noReply" \/ (worker = "reply" /\ Faults \cap {"ack", "net"} # {})
    /\ worker' = "wait" /\ held' = NoTarget
    /\ UNCHANGED <<cmVars, linkVars, stateVars, cmdVars, robotVars, rx, latched>>

-----------------------------------------------------------------------------
(* The receive thread: callbacks run one at a time while the client is up.   *)

RxReady == rx = "idle" /\ mqtt /\ net /\ subs

OnJointPosition ==
    /\ RxReady
    /\ haveState' = TRUE /\ fresh' = TRUE
    /\ UNCHANGED <<cmVars, linkVars, fieldbus, cmdVars, workerVars, robotVars, rx, latched>>

OnOperation(connected) ==
    /\ RxReady
    /\ connected \/ "fieldbus" \in Faults
    /\ fieldbus' = connected
    /\ UNCHANGED <<cmVars, linkVars, haveState, fresh, cmdVars, workerVars, robotVars, rx,
                   latched>>

\* The first event/collision latches; the callback then publishes move/stop.
OnCollision ==
    /\ RxReady /\ "collision" \in Faults /\ ~latched
    /\ latched' = TRUE /\ rx' = "collided"
    /\ UNCHANGED <<cmVars, linkVars, stateVars, cmdVars, workerVars, robotVars>>

OnCollisionStop ==
    /\ rx = "collided"
    /\ PublishStop /\ rx' = "idle"
    /\ UNCHANGED <<cmVars, linkVars, stateVars, cmdVars, workerVars, servo, latched>>

\* A human published event/collision/clear: unlatch first, then drop the slot.
OnCollisionClear ==
    /\ RxReady /\ latched
    /\ latched' = FALSE /\ rx' = "clearing"
    /\ UNCHANGED <<cmVars, linkVars, stateVars, cmdVars, workerVars, robotVars>>

OnCollisionClearDrop ==
    /\ rx = "clearing"
    /\ pending' = NoTarget /\ rx' = "idle"
    /\ UNCHANGED <<cmVars, linkVars, stateVars, command, prevCmd, lastSent, haveSent, moving,
                   workerVars, robotVars, latched>>

-----------------------------------------------------------------------------
(* The environment. The client reconnects by itself, but its session is      *)
(* clean and nothing subscribes again; connected_ is never cleared.          *)

NetDown ==
    /\ "net" \in Faults /\ net
    /\ net' = FALSE /\ subs' = FALSE
    /\ UNCHANGED <<cmVars, mqtt, stateVars, cmdVars, workerVars, robotVars, rx, latched>>

NetUp ==
    /\ ~net /\ net' = TRUE
    /\ UNCHANGED <<cmVars, mqtt, subs, stateVars, cmdVars, workerVars, robotVars, rx, latched>>

\* More than state_timeout_ passes without a sample.
SamplesStop ==
    /\ fresh /\ fresh' = FALSE
    /\ "stale" \in Faults \/ ~(mqtt /\ net /\ subs)
    /\ UNCHANGED <<cmVars, linkVars, haveState, fieldbus, cmdVars, workerVars, robotVars, rx,
                   latched>>

\* bringup's auto_servo turns the servo on once the controllers are active.
ServoOn ==
    /\ life = "active" /\ net /\ ~servo
    /\ servo' = TRUE
    /\ UNCHANGED <<cmVars, linkVars, stateVars, cmdVars, workerVars, goal, rx, latched>>

-----------------------------------------------------------------------------
CallbackStep ==
    \/ ConfigureProbe \/ ConfigureStart \/ ConfigureSampled \/ ConfigureTimeout
    \/ ConfigureStopped
    \/ ActivateCheck \/ (\E p \in Positions : ActivateArm(p))
    \/ DeactivateLock \/ DeactivateStop \/ DeactivateJoin \/ DeactivateServo \/ DeactivateDone
    \/ CleanupDone \/ ErrorLock \/ ErrorStop \/ ErrorJoin

Request == Configure \/ Activate \/ Deactivate \/ Cleanup
Cycle == Read \/ (\E c \in Positions : Write(c)) \/ WriteSlot

WorkerStep ==
    \/ WorkerTake \/ WorkerExit \/ WorkerGate \/ WorkerRecheck
    \/ WorkerSend \/ WorkerAck \/ WorkerNoAck

RxStep ==
    \/ OnJointPosition \/ (\E b \in BOOLEAN : OnOperation(b))
    \/ OnCollision \/ OnCollisionStop \/ OnCollisionClear \/ OnCollisionClearDrop

Environment == NetDown \/ NetUp \/ SamplesStop \/ ServoOn

Next == Request \/ CallbackStep \/ Cycle \/ WorkerStep \/ RxStep \/ Environment

Spec == Init /\ [][Next]_vars

\* The OS runs every thread, the cycle keeps calling read(), waits have timeouts,
\* and time passes: without samples the last one grows stale. Nothing is assumed
\* of the operator, the robot or the network.
Fairness ==
    /\ WF_vars(CallbackStep)
    /\ WF_vars(Cycle)
    /\ WF_vars(WorkerStep)
    /\ WF_vars(OnCollisionStop \/ OnCollisionClearDrop)
    /\ WF_vars(~(mqtt /\ net /\ subs) /\ SamplesStop)

FairSpec == Spec /\ Fairness

-----------------------------------------------------------------------------
\* Every target on its way to the robot passed both limit tests.
LegalTargetsOnly == {pending, held, goal} \subseteq Legal \cup {NoTarget}

\* on_error is final for this instance: afterwards it may be configured and
\* activated again, but it stays locked and never has a publishing thread.
DeadInstanceStaysSilent == permLocked /\ cm = "idle" => locked /\ worker = "none"

\* A new worker thread is started only when the last one has been joined
\* (std::thread may not be overwritten while it runs).
NoWorkerLeftBehind == cm = "actSeed" => worker = "none" /\ ~running

\* on_deactivate turns the servo off only when no thread can publish a target.
ServoOffAfterJoin == [][servo /\ ~servo' => worker = "none"]_vars

\* The plugin implements the motion gate.
PastTheTests == worker = "send" \/ (worker = "pace" /\ ~locked)

Gate == INSTANCE MotionGate WITH
    gate <- IF ~locked /\ ~latched THEN "open" ELSE IF PastTheTests THEN "draining" ELSE "shut",
    dead <- permLocked

ImplementsMotionGate == Gate!Spec

\* Every lifecycle callback returns: joins and waits end.
CallbacksReturn == cm # "idle" ~> cm = "idle"

\* The stale check is what notices that the client reconnected without its
\* subscriptions: the component does not stay active on old samples.
LostSubscriptionsDeactivate == life = "active" /\ ~subs ~> life # "active" \/ subs

\* A queued target does not stay in the slot while the worker runs.
PendingDrains == pending # NoTarget /\ running ~> pending = NoTarget \/ ~running

\* What write()'s comment says of the last value of a target that came to rest:
\* once nothing is queued or in flight the robot drives to it.
SettledTargetDelivered ==
    /\ life = "active" /\ cm = "idle" /\ haveSent /\ ~moving
    /\ pending = NoTarget /\ worker = "wait"
    => goal = prevCmd
=============================================================================
