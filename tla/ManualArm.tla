------------------------------ MODULE ManualArm ------------------------------
(* What the two tools that command the arm by hand share: the controller, as *)
(* far as they use it, and the events it sends to mqtt_cmd.py. The arm has    *)
(* one axis, whose position is known where a motion ends. External: the       *)
(* controller and the broker are not part of the repository.                  *)
EXTENDS Integers, Sequences

CONSTANTS
    Poses,    \* positions of the arm, consecutive numbers
    Home,     \* where move/joint/home goes
    MaxJog,   \* bound: longer jogs are not told apart
    MaxInbox  \* bound: messages waiting on the socket

ASSUME PoseAssumption == Poses \subseteq Int /\ Home \in Poses /\ {MaxJog, MaxInbox} \subseteq Nat

VARIABLES
    servo,    \* servo power
    pos,      \* where the arm was when its last motion ended
    motion,   \* what moves it: "rest", "jog", "here" (movej), "home", "pendant"
    target,   \* where to
    jogged,   \* ticks the present jog has lasted
    heard,    \* mqtt_cmd.py is subscribed to event/motion
    inbox     \* what its socket has not read yet: "ack", "moveHere"

armVars == <<servo, pos, motion, target, jogged, heard, inbox>>
MotionKinds == {"rest", "jog", "here", "home", "pendant"}

ArmInit ==
    /\ servo \in BOOLEAN /\ pos \in Poses /\ motion = "rest" /\ target = pos
    /\ jogged = 0 /\ heard = FALSE /\ inbox = <<>>

\* Where the arm may be: anywhere on the way, and anywhere at all in a jog.
Reached ==
    IF motion = "rest" THEN {pos}
    ELSE IF motion = "jog" THEN Poses
    ELSE {q \in Poses : (pos <= q /\ q <= target) \/ (target <= q /\ q <= pos)}

\* An order to move, which replaces the motion there is; without servo power
\* nothing moves.
Begin(kind, goal) ==
    IF servo
    THEN /\ motion' = kind /\ target' = goal /\ jogged' = 0
         /\ pos' \in Reached
    ELSE UNCHANGED <<pos, motion, target, jogged>>

\* An order to stop one of the motions of kinds.
Halt(kinds) ==
    IF motion \in kinds
    THEN /\ motion' = "rest" /\ jogged' = 0
         /\ pos' \in Reached /\ target' = pos'
    ELSE UNCHANGED <<pos, motion, target, jogged>>

\* set/operation: the motion ends with the power.
SetPower(on) ==
    /\ servo' = on
    /\ IF on THEN UNCHANGED <<pos, motion, target, jogged>> ELSE Halt(MotionKinds)

\* A motion ends at its target; of a move to joint angles, whoever ordered it,
\* an event/motion moveHere tells.
Arrive ==
    /\ motion \in {"here", "home", "pendant"}
    /\ motion' = "rest" /\ pos' = target
    /\ inbox' = IF heard /\ motion # "home" THEN Append(inbox, "moveHere") ELSE inbox
    /\ UNCHANGED <<servo, target, jogged, heard>>

\* Somebody moves the arm from the pendant.
PendantMove(goal) ==
    /\ motion = "rest" /\ servo /\ Len(inbox) < MaxInbox
    /\ Begin("pendant", goal)
    /\ UNCHANGED <<servo, heard, inbox>>

ArmTick == jogged' = IF motion = "jog" /\ jogged < MaxJog THEN jogged + 1 ELSE jogged
=============================================================================
