------------------------ MODULE ManualControl_proofs ------------------------
(* ManualControl for any positions, budgets and timeouts: a jog is bounded    *)
(* because what it has lasted and what it has left add up to no more than the *)
(* longer of its duration and its wait for the ack; a movej keeps to          *)
(* --max-delta because a position read at rest stays true until somebody      *)
(* moves the arm.                                                             *)
EXTENDS ManualControl, TLAPS

Numbers ==
    /\ arg \in Int /\ clock \in Nat /\ left \in Nat
    /\ pc \in {"jogAck", "jogSleep", "jogStop"} => arg \in Nat

\* The arm moves under power.
ArmSound ==
    /\ motion \in MotionKinds /\ (motion # "rest" => servo)
    /\ pos \in Int /\ target \in Int /\ jogged \in Nat

\* A wait starts its clock at 0, and a process with a connection.
Clocked ==
    /\ pc \notin Waits => clock = 0
    /\ pc = "end" => link = "up"

\* The time a jog has lasted and the time it has left, of a jog that its process
\* will stop; nobody who is cut off from the arm jogs it.
JogCounts ==
    motion = "jog" /\ ~orphan =>
        /\ link # "cut"
        /\ \/ pc = "jogAck" /\ jogged <= clock
              /\ clock <= Larger(MinAck, Smaller(AckTimeout, arg))
           \/ pc = "jogSleep" /\ jogged + left <= Larger(MinAck, arg)
           \/ pc = "jogStop" /\ jogged <= Larger(MinAck, arg)

\* Between the reading of the position and the publication the arm is at rest,
\* close enough to where it shall go, unless somebody moved it.
StillClose ==
    pc \in {"listen", "publish"} /\ ~moved =>
        motion = "rest" /\ Magnitude(arg - pos) <= MaxDelta

IInv == Numbers /\ ArmSound /\ Clocked /\ JogCounts /\ StillClose

-----------------------------------------------------------------------------
\* Where the arm may be is a position, and at rest there is only one.
LEMMA ReachedFacts ==
    pos \in Int => Reached \subseteq Int /\ (motion = "rest" => Reached = {pos})
BY PoseAssumption DEF Reached

\* An order to move starts one motion from the beginning, or does nothing.
LEMMA BeginFacts ==
    ASSUME NEW kind \in MotionKinds \ {"rest"}, NEW goal \in Int,
           ArmSound, UNCHANGED servo, Begin(kind, goal)
    PROVE  /\ ArmSound' /\ (motion = "rest" => pos' = pos)
           /\ \/ motion' = kind /\ target' = goal /\ jogged' = 0
              \/ UNCHANGED <<pos, motion, target, jogged>> /\ motion = "rest"
BY ReachedFacts DEF Begin, ArmSound

\* An order to stop ends the motions it is for and leaves the others alone.
LEMMA HaltFacts ==
    ASSUME NEW kinds, ArmSound, Halt(kinds)
    PROVE  /\ motion \in kinds => motion' = "rest"
           /\ motion = "rest" => motion' = "rest" /\ pos' = pos
           /\ motion' = "rest" \/ UNCHANGED <<pos, motion, target, jogged>>
           /\ motion' = "rest" \/ UNCHANGED servo => ArmSound'
BY ReachedFacts DEF Halt, ArmSound, MotionKinds

\* Servo power is switched: what moves without it is at rest.
LEMMA PowerFacts ==
    ASSUME NEW on \in BOOLEAN, ArmSound, SetPower(on)
    PROVE  /\ ArmSound'
           /\ \/ motion' = "rest" /\ (motion = "rest" => pos' = pos)
              \/ UNCHANGED <<pos, motion, target, jogged>>
<1>1. CASE on
  <2>1. servo' BY <1>1, Zenon DEF SetPower
  <2> QED BY <1>1, <2>1 DEF SetPower, ArmSound
<1>2. CASE ~on
  <2>1. Halt(MotionKinds) BY <1>2 DEF SetPower
  <2> QED BY <2>1, HaltFacts DEF ArmSound
<1> QED BY <1>1, <1>2

\* The wait of a jog for its ack is within the bound of the jog, and so are its ms.
LEMMA BudgetFacts ==
    ASSUME arg \in Nat
    PROVE  /\ MinAck \in Nat
           /\ Larger(MinAck, arg) \in Nat /\ arg <= Larger(MinAck, arg)
           /\ Larger(MinAck, Smaller(AckTimeout, arg)) \in Nat
           /\ Larger(MinAck, Smaller(AckTimeout, arg)) <= Larger(MinAck, arg)
<1>1. MinAck \in Nat /\ AckTimeout \in Nat BY ToolAssumption
<1> QED BY <1>1 DEF Larger, Smaller

LEMMA InitIInv == Init => IInv
BY PoseAssumption, ToolAssumption
DEF Init, ArmInit, ToolInit, IInv, MotionKinds, Numbers, ArmSound, Clocked, JogCounts, StillClose, Waits, AckPlaces

\* Whoever clears the mark of a jog left by its process has ended the jog.
LEMMA OrphanFacts == StillOrphan /\ motion' = "jog" /\ ~orphan' => ~orphan
BY Zenon DEF StillOrphan

\* A jog that is left by its process is marked.
LEMMA OrphanedFacts ==
    ASSUME Orphaned, UNCHANGED motion
    PROVE  ~(motion' = "jog" /\ ~orphan')
BY DEF Orphaned

\* What an order to move or to stop leaves of a jog that is still looked after.
LEMMA MotionFacts ==
    ASSUME IInv, motion' = "jog", ~orphan', UNCHANGED orphan \/ StillOrphan,
           motion' = "rest" \/ UNCHANGED <<pos, motion, target, jogged>> \/ motion' # "jog"
    PROVE  motion = "jog" /\ ~orphan /\ UNCHANGED <<jogged, motion>>
<1>1. UNCHANGED <<pos, motion, target, jogged>> OBVIOUS
<1>2. ~orphan
  <2>1. CASE UNCHANGED orphan BY <2>1, Zenon
  <2>2. CASE StillOrphan BY <2>2, OrphanFacts, Zenon
  <2> QED BY <2>1, <2>2
<1> QED BY <1>1, <1>2

-----------------------------------------------------------------------------
(* Every step keeps the invariant.                                           *)

\* A process without a motion of its own starts: servo, stopjog and movestop,
\* send, movej.
LEMMA LaunchStep ==
    ASSUME IInv,
           \/ \E on \in BOOLEAN : Servo(on)
           \/ OneWay
           \/ \E kind \in {"jog", "here", "home"} : Send(kind)
           \/ \E angle \in Poses : Movej(angle)
    PROVE  IInv'
<1> USE DEF IInv, Launch
<1>1. CASE \E on \in BOOLEAN : Servo(on)
  <2>1. PICK on \in BOOLEAN : Servo(on) BY <1>1
  <2>2. /\ ArmSound'
        /\ motion' = "rest" \/ UNCHANGED <<pos, motion, target, jogged>>
    BY <2>1, PowerFacts DEF Servo, ArmSound
  <2>3. ~(motion' = "jog" /\ ~orphan') BY <2>1, <2>2, MotionFacts DEF Servo, JogCounts
  <2> QED BY <2>1, <2>2, <2>3 DEF Servo, Numbers, ArmSound, Clocked, JogCounts, StillClose, Waits, AckPlaces
<1>2. CASE OneWay
  <2>1. /\ ArmSound'
        /\ motion' = "rest" \/ UNCHANGED <<pos, motion, target, jogged>>
    BY <1>2, HaltFacts DEF OneWay, StopJog, StopMove
  <2>2. ~(motion' = "jog" /\ ~orphan') BY <1>2, <2>1, MotionFacts DEF OneWay, JogCounts
  <2> QED BY <1>2, <2>1, <2>2
      DEF OneWay, Numbers, ArmSound, Clocked, JogCounts, StillClose, Waits, AckPlaces
<1>3. CASE \E kind \in {"jog", "here", "home"} : Send(kind)
  <2>1. PICK kind \in {"home"} : Send(kind) BY <1>3 DEF Send
  <2>2. /\ ArmSound'
        /\ motion' # "jog" \/ UNCHANGED <<pos, motion, target, jogged>>
    BY <2>1, BeginFacts, PoseAssumption DEF Send, MotionKinds
  <2>3. ~(motion' = "jog" /\ ~orphan') BY <2>1, <2>2, MotionFacts DEF Send, JogCounts
  <2> QED BY <2>1, <2>2, <2>3
      DEF Send, Numbers, Clocked, JogCounts, StillClose, Waits, AckPlaces
<1>4. CASE \E angle \in Poses : Movej(angle)
  BY <1>4, PoseAssumption
  DEF Movej, Numbers, ArmSound, Clocked, JogCounts, StillClose, Waits, AckPlaces, stillVars
<1> QED BY <1>1, <1>2, <1>3, <1>4

\* jog starts to turn the arm, and to count.
LEMMA JogStep ==
    ASSUME IInv, NEW ms \in Budgets, Jog(ms)
    PROVE  IInv'
<1> USE DEF IInv, Launch
<1>1. /\ ArmSound'
      /\ \/ jogged' = 0
         \/ motion' = "rest"
  BY BeginFacts DEF Jog, ArmSound, MotionKinds
<1>2. ms \in Nat /\ pc' = "jogAck" /\ arg' = ms /\ clock' = 0 /\ left' = left /\ link' = "up"
  BY ToolAssumption DEF Jog, Clocked, Waits, AckPlaces
<1>3. JogCounts' BY <1>1, <1>2, ToolAssumption DEF JogCounts, Larger, Smaller
<1> QED BY <1>1, <1>2, <1>3 DEF Numbers, Clocked, StillClose, Waits, AckPlaces

\* The steps of a process that do not command the arm, but for the ends of waits.
LEMMA QuietStep ==
    ASSUME IInv, Query \/ Listen \/ DropEvent \/ Hear \/ GiveUp \/ Answer
    PROVE  IInv'
<1> USE DEF IInv, Elsewhere, stillVars
<1>1. CASE Query
  <2>1. ArmSound' /\ Clocked' /\ JogCounts'
    BY <1>1 DEF Query, Goto, Finish, ArmSound, Clocked, JogCounts
  <2>2. Numbers' BY <1>1 DEF Query, Goto, Finish, Numbers
  <2>3. StillClose'
    <3>1. CASE motion = "rest"
      BY <1>1, <3>1, ReachedFacts DEF Query, Goto, Finish, StillClose, Gate, ArmSound
    <3>2. CASE motion # "rest" /\ moved' = (motion # "rest")
      BY <3>2 DEF StillClose
    <3>3. CASE Finish BY <3>3 DEF Finish, Goto, StillClose
    <3> QED BY <1>1, <3>1, <3>2, <3>3 DEF Query
  <2> QED BY <2>1, <2>2, <2>3
<1>2. CASE Listen
  BY <1>2 DEF Listen, Goto, Numbers, ArmSound, Clocked, JogCounts, StillClose, Waits, AckPlaces
<1>3. CASE DropEvent
  BY <1>3 DEF DropEvent, runVars, Numbers, ArmSound, Clocked, JogCounts, StillClose, Waits, AckPlaces
<1>4. CASE Hear
  BY <1>4 DEF Hear, Goto, Finish, Numbers, ArmSound, Clocked, JogCounts, StillClose, Waits, AckPlaces
<1>5. CASE GiveUp
  BY <1>5 DEF GiveUp, Goto, Numbers, ArmSound, Clocked, JogCounts, StillClose, Waits, AckPlaces
<1>6. CASE Answer
  BY <1>6 DEF Answer, Numbers, ArmSound, Clocked, JogCounts, StillClose, Waits, AckPlaces
<1> QED BY <1>1, <1>2, <1>3, <1>4, <1>5, <1>6

\* The wait for the ack ends: a jog has left what it has not waited.
LEMMA AckStep ==
    ASSUME IInv, AckEnds
    PROVE  IInv'
<1> USE DEF IInv
<1>1. CASE pc = "jogAck"
  <2>1. /\ pc' = "jogSleep" /\ clock' = 0 /\ arg' = arg /\ left' = Remaining
        /\ UNCHANGED <<pos, motion, target, jogged, orphan, link, servo>>
    BY <1>1 DEF AckEnds, Elsewhere, stillVars, Goto
  <2>2. left' \in Nat BY <1>1, <2>1 DEF Remaining, Larger, Numbers
  <2>3. JogCounts'
    <3>1. SUFFICES ASSUME motion' = "jog", ~orphan'
                   PROVE  link' # "cut" /\ jogged' + left' <= Larger(MinAck, arg')
      BY <2>1 DEF JogCounts
    <3>2. jogged <= clock /\ clock <= Larger(MinAck, arg) /\ link # "cut"
      BY <1>1, <2>1, <3>1, BudgetFacts DEF JogCounts, Numbers
    <3>3. left' = 0 \/ left' = arg - clock BY <2>1 DEF Remaining, Larger
    <3> QED BY <1>1, <2>1, <3>2, <3>3, BudgetFacts DEF Numbers, ArmSound
  <2> QED BY <1>1, <2>1, <2>2, <2>3 DEF Numbers, ArmSound, Clocked, StillClose, Waits, AckPlaces
<1>2. CASE pc # "jogAck"
  <2>1. /\ pc' \in {"close", "moveWait"} /\ clock' = 0 /\ left' = left /\ arg' = arg
        /\ UNCHANGED <<pos, motion, target, jogged, orphan, link, servo>>
        /\ pc \in {"ack", "moveAck"}
    BY <1>2 DEF AckEnds, Elsewhere, stillVars, Goto, Finish, AckPlaces
  <2> QED BY <2>1 DEF Numbers, ArmSound, Clocked, JogCounts, StillClose, Waits, AckPlaces
<1> QED BY <1>1, <1>2

\* The publication of a movej.
LEMMA PublishStep ==
    ASSUME IInv, Publish
    PROVE  IInv'
<1> USE DEF IInv, Publish, Goto, stillVars
<1>1. /\ ArmSound'
      /\ motion' # "jog" \/ UNCHANGED <<pos, motion, target, jogged>>
  <2>1. CASE link = "cut" BY <2>1 DEF ArmSound
  <2>2. CASE link # "cut" BY <2>2, BeginFacts DEF Numbers, MotionKinds
  <2> QED BY <2>1, <2>2
<1>2. ~(motion' = "jog" /\ ~orphan') BY <1>1, MotionFacts DEF JogCounts
<1> QED BY <1>1, <1>2 DEF Numbers, Clocked, JogCounts, StillClose, Waits, AckPlaces

\* The jog or the movej is over, and the process stops what it started.
LEMMA StopStep ==
    ASSUME IInv, JogSleepEnds \/ JogStop \/ MoveStop
    PROVE  IInv'
<1> USE DEF IInv
<1>1. CASE JogSleepEnds
  BY <1>1 DEF JogSleepEnds, Goto, Elsewhere, stillVars, Numbers, ArmSound, Clocked, JogCounts,
              StillClose, Waits, AckPlaces
<1>2. CASE JogStop \/ MoveStop
  <2>1. /\ ArmSound'
        /\ motion' = "rest" \/ UNCHANGED <<pos, motion, target, jogged>>
    <3>1. CASE link = "cut" BY <1>2, <3>1 DEF JogStop, MoveStop, stillVars, ArmSound
    <3>2. CASE link # "cut"
      <4>1. UNCHANGED servo BY <1>2 DEF JogStop, MoveStop
      <4>2. CASE StopJog BY <4>1, <4>2, HaltFacts DEF StopJog
      <4>3. CASE StopMove BY <4>1, <4>3, HaltFacts DEF StopMove
      <4> QED BY <1>2, <3>2, <4>2, <4>3 DEF JogStop, MoveStop
    <3> QED BY <3>1, <3>2
  <2>2. ~(motion' = "jog" /\ ~orphan')
    <3>1. SUFFICES ASSUME motion' = "jog", ~orphan' PROVE FALSE OBVIOUS
    <3>2. motion = "jog" /\ ~orphan BY <1>2, <2>1, <3>1, MotionFacts DEF JogStop, MoveStop
    <3>3. pc = "jogStop" /\ link # "cut" BY <1>2, <3>2 DEF JogStop, MoveStop, JogCounts
    <3> QED BY <1>2, <3>1, <3>2, <3>3, HaltFacts DEF JogStop, MoveStop, StopJog
  <2> QED BY <1>2, <2>1, <2>2
      DEF JogStop, MoveStop, Finish, Goto, Numbers, ArmSound, Clocked, JogCounts, StillClose, Waits, AckPlaces
<1> QED BY <1>1, <1>2

\* What happens to a process: a jog that it will not stop any more is marked.
LEMMA TroubleStep ==
    ASSUME IInv, ToolTroubles
    PROVE  IInv'
<1> USE DEF IInv, Elsewhere, stillVars
<1>1. CASE Interrupt
  <2>1. JogCounts'
    <3>1. SUFFICES ASSUME motion' = "jog", ~orphan'
                   PROVE  pc' = "jogStop" /\ link' # "cut" /\ jogged' <= Larger(MinAck, arg')
      BY DEF JogCounts
    <3>2. UNCHANGED <<motion, link, arg, jogged>> /\ motion = "jog"
      BY <1>1, <3>1 DEF Interrupt, Goto, Finish
    <3>3. pc # "jogStop" /\ ~orphan
      <4>1. CASE pc = "jogStop"
        <5>1. Orphaned BY <1>1, <4>1 DEF Interrupt
        <5> QED BY <3>1, <3>2, <5>1, OrphanedFacts
      <4>2. CASE pc # "jogStop" BY <1>1, <3>1, <4>2 DEF Interrupt
      <4> QED BY <4>1, <4>2
    <3>4. pc \in {"jogAck", "jogSleep"} /\ pc' = "jogStop"
      BY <1>1, <3>2, <3>3 DEF Interrupt, Goto, JogCounts
    <3>5. jogged <= Larger(MinAck, arg)
      BY <3>2, <3>3, <3>4, BudgetFacts DEF JogCounts, Numbers, ArmSound
    <3> QED BY <3>2, <3>3, <3>4, <3>5 DEF JogCounts
  <2> QED BY <1>1, <2>1 DEF Interrupt, Goto, Finish, Numbers, ArmSound, Clocked, StillClose, Waits, AckPlaces
<1>2. CASE Kill
  <2>1. ~(motion' = "jog" /\ ~orphan') BY <1>2, OrphanedFacts DEF Kill
  <2> QED BY <1>2, <2>1
      DEF Kill, Goto, Finish, Numbers, ArmSound, Clocked, JogCounts, StillClose, Waits, AckPlaces
<1>3. CASE Cut
  <2>1. ~(motion' = "jog" /\ ~orphan') BY <1>3, OrphanedFacts DEF Cut
  <2> QED BY <1>3, <2>1 DEF Cut, Numbers, ArmSound, Clocked, JogCounts, StillClose, Waits, AckPlaces
<1> QED BY <1>1, <1>2, <1>3 DEF ToolTroubles

\* The bridge and the pendant: whoever moves the arm is seen to.
LEMMA OthersStep ==
    ASSUME IInv, Others
    PROVE  IInv'
<1> USE DEF IInv
<1>1. UNCHANGED <<pc, arg, clock, left, link, orphan>> BY DEF Others, runVars
<1>2. /\ ArmSound'
      /\ \/ motion' = "rest" /\ (motion = "rest" => pos' = pos)
         \/ motion' \in {"home", "pendant"}
         \/ UNCHANGED <<pos, motion, target, jogged>>
  <2>1. CASE UNCHANGED armVars BY <2>1 DEF armVars, Numbers, ArmSound
  <2>2. CASE OnGoHome BY <2>2, BeginFacts, PoseAssumption DEF OnGoHome, MotionKinds
  <2>3. ASSUME NEW on \in BOOLEAN, OnSetServo(on) PROVE <1>2
    BY <2>3, PowerFacts DEF OnSetServo
  <2>4. ASSUME NEW goal \in Poses, PendantMove(goal) PROVE <1>2
    BY <2>4, BeginFacts, PoseAssumption DEF PendantMove, MotionKinds
  <2> QED BY <2>1, <2>2, <2>3, <2>4
      DEF Others, BridgeNext, OnJointPosition, OnOperation, PublishJointState, RequestEnds
<1>3. JogCounts' BY <1>1, <1>2 DEF JogCounts
<1>4. StillClose'
  <2>1. moved' = (moved \/ (pc \in {"listen", "publish", "moveAck", "moveWait", "moveStop"}
                             /\ motion' \in {"home", "pendant"}))
    BY DEF Others, Watch
  <2>2. SUFFICES ASSUME pc' \in {"listen", "publish"}, ~moved'
                 PROVE  motion' = "rest" /\ Magnitude(arg' - pos') <= MaxDelta
    BY DEF StillClose
  <2>3. ~moved /\ motion' \notin {"home", "pendant"} BY <1>1, <2>1, <2>2
  <2> QED BY <1>1, <1>2, <2>2, <2>3 DEF StillClose
<1> QED BY <1>1, <1>2, <1>3, <1>4 DEF Numbers, Clocked

\* A motion ends, or time passes: a jog counts the tick it waits or sleeps.
LEMMA TimeStep ==
    ASSUME IInv, ToolArrive \/ Tick
    PROVE  IInv'
<1> USE DEF IInv
<1>1. CASE ToolArrive
  BY <1>1 DEF ToolArrive, Arrive, runVars, MotionKinds, Numbers, ArmSound, Clocked, JogCounts, StillClose
<1>2. CASE Tick
  <2>1. UNCHANGED <<servo, pos, motion, target>> /\ jogged' \in Nat /\ jogged' <= jogged + 1
    BY <1>2 DEF Tick, ArmTick, ArmSound
  <2>2. CASE pc = "close"
    <3>1. pc' = "end" /\ arg' = 0 /\ clock' = 0 /\ left' = 0 /\ link' = "up" /\ orphan' = orphan
      BY <1>2, <2>2 DEF Tick, ToolTick
    <3> QED BY <2>1, <2>2, <3>1 DEF Numbers, ArmSound, Clocked, JogCounts, StillClose, Waits, AckPlaces
  <2>3. CASE pc # "close"
    <3>1. /\ UNCHANGED <<pc, arg, link, orphan, moved>>
          /\ clock' = IF pc \in Waits THEN clock + 1 ELSE clock
          /\ left' = IF pc = "jogSleep" THEN left - 1 ELSE left
          /\ pc = "jogSleep" => left # 0
          /\ pc = "jogAck" => clock < Limit
          /\ pc # "jogStop"
      BY <1>2, <2>3, BudgetFacts DEF Tick, ToolTick, ToolDue, TimedOut, Waits, AckPlaces, Numbers, Limit
    <3>2. Numbers' /\ ArmSound' /\ Clocked' /\ StillClose'
      BY <2>1, <3>1 DEF Numbers, ArmSound, Clocked, StillClose
    <3>3. JogCounts'
      <4>1. CASE pc = "jogAck"
        <5>1. clock + 1 <= Larger(MinAck, Smaller(AckTimeout, arg))
          BY <3>1, <4>1, BudgetFacts DEF Numbers, Limit
        <5> QED BY <2>1, <3>1, <4>1, <5>1 DEF JogCounts, Numbers, ArmSound, Waits, AckPlaces
      <4>2. CASE pc = "jogSleep"
        BY <2>1, <3>1, <4>2, BudgetFacts DEF JogCounts, Numbers, ArmSound
      <4>3. CASE pc \notin {"jogAck", "jogSleep"} BY <2>1, <3>1, <4>3 DEF JogCounts
      <4> QED BY <4>1, <4>2, <4>3
    <3> QED BY <3>2, <3>3
  <2> QED BY <2>2, <2>3
<1> QED BY <1>1, <1>2

\* Every step keeps the invariant.
LEMMA NextIInv == IInv /\ [Next]_manualVars => IInv'
<1> SUFFICES ASSUME IInv, [Next]_manualVars PROVE IInv' OBVIOUS
<1>1. CASE ToolNext
  <2>1. CASE ToolLaunches
    <3>1. CASE \E ms \in Budgets : Jog(ms) BY <3>1, JogStep
    <3>2. CASE ~\E ms \in Budgets : Jog(ms) BY <2>1, <3>2, LaunchStep DEF ToolLaunches
    <3> QED BY <3>1, <3>2
  <2>2. CASE ToolSteps BY <2>2, QuietStep, AckStep, PublishStep, StopStep DEF ToolSteps
  <2>3. CASE ToolTroubles \/ Answer BY <2>3, TroubleStep, QuietStep
  <2> QED BY <1>1, <2>1, <2>2, <2>3 DEF ToolNext
<1>2. CASE UNCHANGED manualVars
  BY <1>2 DEF manualVars, armVars, cmdVars, runVars, IInv, Numbers, ArmSound, Clocked, JogCounts, StillClose
<1> QED BY <1>1, <1>2, OthersStep, TimeStep DEF Next

\* The invariant holds of every behaviour of the tools and the arm: how long a jog
\* has lasted that its process will still stop, and what is known of the position.
THEOREM Invariant == Spec => []IInv
BY InitIInv, NextIInv, PTL DEF Spec

\* A jog of mqtt_cmd.py lasts no longer than it was asked to, or than its least
\* wait for an ack, and ends with its process unless that is killed, cut off or
\* interrupted in its finally (JogIsBounded), for every duration and timeout, and
\* whatever else commands the arm.
THEOREM JogBounded == Spec => []JogIsBounded
<1>1. IInv => JogIsBounded
  <2>1. SUFFICES ASSUME IInv, motion = "jog", ~orphan
                 PROVE  /\ pc \in {"jogAck", "jogSleep", "jogStop"}
                        /\ jogged <= Larger(MinAck, arg)
    BY DEF JogIsBounded
  <2> QED BY <2>1, BudgetFacts DEF IInv, JogCounts, Numbers, ArmSound
<1> QED BY <1>1, Invariant, PTL

\* A movej goes no further than --max-delta unless another client has moved the
\* arm after the position was read (MoveWithinDelta), for every position.
THEOREM DeltaKept == Spec => MoveWithinDelta
<1>1. ASSUME IInv, [Next]_manualVars, motion' = "here", motion # "here" \/ target' # target
      PROVE  Magnitude(target' - pos') <= MaxDelta \/ moved'
  <2>1. Publish
    <3>1. CASE ToolSteps /\ ~Publish
      BY <1>1, <3>1
      DEF ToolSteps, Query, Listen, AckEnds, DropEvent, JogSleepEnds, JogStop, Hear, GiveUp, MoveStop,
          StopJog, StopMove, Halt, Elsewhere, stillVars
    <3>2. CASE ToolLaunches
      BY <1>1, <3>2
      DEF ToolLaunches, Servo, OneWay, Send, Jog, Movej, SetPower, StopJog, StopMove, Halt, Begin, stillVars
    <3>3. CASE ToolTroubles \/ Answer \/ ToolArrive \/ Tick
      BY <1>1, <3>3
      DEF ToolTroubles, Interrupt, Kill, Cut, Answer, ToolArrive, Arrive, Tick, Elsewhere, stillVars
    <3>4. CASE Others
      BY <1>1, <3>4
      DEF Others, BridgeNext, OnJointPosition, OnOperation, PublishJointState, OnGoHome, OnSetServo,
          RequestEnds, PendantMove, SetPower, Halt, Begin, armVars
    <3>5. CASE UNCHANGED manualVars BY <1>1, <3>5 DEF manualVars, armVars
    <3> QED BY <1>1, <3>1, <3>2, <3>3, <3>4, <3>5 DEF Next, ToolNext
  <2>2. target' = arg /\ moved' = moved /\ (motion = "rest" => pos' = pos)
    BY <1>1, <2>1, BeginFacts DEF Publish, IInv, Numbers, MotionKinds, stillVars
  <2> QED BY <1>1, <2>1, <2>2 DEF Publish, IInv, StillClose
<1> QED BY <1>1, Invariant, PTL DEF Spec, MoveWithinDelta

-----------------------------------------------------------------------------
(* Why a movej may miss the arrival it waits for.                            *)

Moves == {"moveAck", "moveWait"}

\* A moveHere waits on the socket.
Told == \E i \in 1..Len(inbox) : inbox[i] = "moveHere"

\* What explains an arrival in time that was not heard.
Excused == dropped \/ link = "cut" \/ moved

\* Only a movej subscribes, and its socket is empty before; an event that comes before
\* the publication, or is not of its own motion, is somebody else's.
Subscribed ==
    /\ inbox \in Seq({"ack", "moveHere"})
    /\ heard => pc \in Moves \cup {"publish", "moveStop"}
    /\ pc \in Moves \cup {"publish"} => heard
    /\ pc \in {"query", "listen", "close", "end"} => inbox = <<>>
    /\ pc = "publish" /\ inbox # <<>> => moved
    /\ link \in {"up", "cut", "garbled"}
    /\ link = "garbled" => moved /\ pc \in Moves \cup {"moveStop", "close"}
    /\ pc \in Moves /\ motion \in {"home", "pendant"} => moved
    /\ pc \in Moves /\ Told /\ own = "no" => moved

\* An arrival in time waits on the socket until it is read, and is read before the wait
\* is over.
Heeded ==
    /\ pc \notin Moves \cup {"moveStop", "close"} => own = "no"
    /\ pc \notin {"moveStop", "close"} => result = "none"
    /\ pc = "moveStop" => result \in {"none", "interrupted"}
    /\ pc \in Moves /\ own = "timely" => Excused \/ (Told /\ (pc = "moveWait" => clock < MoveTimeout))
    /\ pc = "moveStop" /\ own = "timely" /\ result = "none" => Excused
    /\ MissedArrivalExplained

Explained == Subscribed /\ Heeded

\* What a message that comes or is read does to the socket.
LEMMA SocketFacts ==
    ASSUME inbox \in Seq({"ack", "moveHere"})
    PROVE  /\ \A e \in {"ack", "moveHere"} : inbox' = Append(inbox, e) =>
                /\ inbox' \in Seq({"ack", "moveHere"}) /\ inbox' # <<>>
                /\ (Told \/ e = "moveHere") <=> Told'
           /\ inbox # <<>> /\ inbox' = Tail(inbox) =>
                /\ inbox' \in Seq({"ack", "moveHere"})
                /\ Told' => Told
                /\ Told /\ Head(inbox) # "moveHere" => Told'
           /\ inbox' = <<>> => inbox' \in Seq({"ack", "moveHere"}) /\ ~Told'
           /\ inbox' = inbox => inbox' \in Seq({"ack", "moveHere"}) /\ (Told <=> Told')
<1> DEFINE n == Len(inbox)
<1>0. n \in Nat /\ \A i \in 1..n : inbox[i] \in {"ack", "moveHere"} OBVIOUS
<1>1. ASSUME NEW e \in {"ack", "moveHere"}, inbox' = Append(inbox, e)
      PROVE  /\ inbox' \in Seq({"ack", "moveHere"}) /\ inbox' # <<>>
             /\ (Told \/ e = "moveHere") <=> Told'
  <2>1. /\ inbox' \in Seq({"ack", "moveHere"}) /\ inbox' # <<>>
        /\ Len(inbox') = n + 1 /\ inbox'[n + 1] = e
        /\ \A i \in 1..n : inbox'[i] = inbox[i]
    BY <1>1
  <2>2. Told \/ e = "moveHere" => Told' BY <1>0, <2>1 DEF Told
  <2>3. ASSUME Told' PROVE Told \/ e = "moveHere"
    <3>1. PICK i \in 1..(n + 1) : inbox'[i] = "moveHere" BY <2>1, <2>3 DEF Told
    <3>2. CASE i = n + 1 BY <2>1, <3>1, <3>2
    <3>3. CASE i \in 1..n BY <2>1, <3>1, <3>3 DEF Told
    <3> QED BY <1>0, <3>2, <3>3
  <2> QED BY <2>1, <2>2, <2>3
<1>2. ASSUME inbox # <<>>, inbox' = Tail(inbox)
      PROVE  /\ inbox' \in Seq({"ack", "moveHere"})
             /\ Told' => Told
             /\ Told /\ Head(inbox) # "moveHere" => Told'
  <2>1. /\ inbox' \in Seq({"ack", "moveHere"}) /\ n >= 1
        /\ Len(inbox') = n - 1 /\ Head(inbox) = inbox[1]
        /\ \A i \in 1..(n - 1) : inbox'[i] = inbox[i + 1]
    BY <1>2
  <2>2. ASSUME Told' PROVE Told
    <3>1. PICK i \in 1..(n - 1) : inbox'[i] = "moveHere" BY <2>1, <2>2 DEF Told
    <3>2. i + 1 \in 1..n /\ inbox[i + 1] = "moveHere" BY <1>0, <2>1, <3>1
    <3> QED BY <3>2 DEF Told
  <2>3. ASSUME Told, Head(inbox) # "moveHere" PROVE Told'
    <3>1. PICK i \in 1..n : inbox[i] = "moveHere" BY <2>3 DEF Told
    <3>2. i - 1 \in 1..(n - 1) /\ inbox'[i - 1] = inbox[(i - 1) + 1] /\ (i - 1) + 1 = i
      BY <1>0, <2>1, <2>3, <3>1
    <3> QED BY <2>1, <3>1, <3>2 DEF Told
  <2> QED BY <2>1, <2>2, <2>3
<1>3. inbox' = <<>> => inbox' \in Seq({"ack", "moveHere"}) /\ ~Told' BY DEF Told
<1>4. inbox' = inbox => inbox' \in Seq({"ack", "moveHere"}) /\ (Told <=> Told') BY DEF Told
<1> QED BY <1>1, <1>2, <1>3, <1>4

LEMMA InitExplained == Init => Explained
BY DEF Init, ArmInit, ToolInit, Explained, Subscribed, Heeded, Told, Moves, MissedArrivalExplained

\* A new process has a new socket.
LEMMA LaunchExplained ==
    ASSUME IInv, Explained, ToolLaunches
    PROVE  Explained'
<1>1. /\ pc = "end" /\ pc' \in {"ack", "close", "jogAck", "query"}
      /\ UNCHANGED <<link, result, own, heard, inbox>>
  BY DEF ToolLaunches, Launch, Servo, OneWay, Send, Jog, Movej
<1>2. inbox = <<>> /\ ~heard /\ link = "up" /\ own = "no" /\ result = "none"
  BY <1>1 DEF Explained, Subscribed, Heeded, IInv, Clocked, Moves
<1> QED BY <1>1, <1>2 DEF Explained, Subscribed, Heeded, Moves, MissedArrivalExplained

\* Up to the publication: what moves the arm then is not the movej.
LEMMA AskExplained ==
    ASSUME IInv, Explained, Query \/ Listen \/ Publish
    PROVE  Explained'
<1> USE DEF Explained, IInv, Elsewhere, stillVars, Moves
<1>1. CASE Query
  <2>1. /\ pc = "query" /\ pc' \in {"listen", "close"} /\ inbox' = inbox /\ ~heard'
        /\ UNCHANGED <<link, result, own>>
    BY <1>1 DEF Query, Goto, Finish, Subscribed
  <2>2. link # "garbled"
    BY <2>1 DEF Subscribed
  <2> QED BY <2>1, <2>2 DEF Subscribed, Heeded, MissedArrivalExplained
<1>2. CASE Listen
  <2>1. pc = "listen" /\ pc' = "publish" /\ UNCHANGED <<link, result, own, inbox, moved, dropped>> /\ heard'
    BY <1>2 DEF Listen, Goto
  <2> QED BY <2>1 DEF Subscribed, Heeded, MissedArrivalExplained
<1>3. CASE Publish
  <2>1. /\ pc = "publish" /\ pc' = "moveAck" /\ UNCHANGED <<result, own, inbox, moved, dropped, heard>>
        /\ link' = IF link = "up" /\ inbox # <<>> THEN "garbled" ELSE link
    BY <1>3 DEF Publish, Goto
  <2>2. ~moved => motion' \in {"rest", "here"}
    BY <1>3 DEF Publish, StillClose, Begin
  <2>3. ~moved => ~Told'
    BY <2>1, SocketFacts DEF Subscribed
  <2> QED BY <2>1, <2>2, <2>3 DEF Subscribed, Heeded, MissedArrivalExplained
<1> QED BY <1>1, <1>2, <1>3

\* While it waits: what is read, what is dropped, and the end of the wait.
LEMMA WaitExplained ==
    ASSUME IInv, Explained, AckEnds \/ DropEvent \/ Hear \/ GiveUp \/ Answer
    PROVE  Explained'
<1> USE DEF Explained, IInv, Elsewhere, stillVars, Moves
<1>0. inbox \in Seq({"ack", "moveHere"}) /\ MoveTimeout \in Nat \ {0} /\ clock \in Nat
  BY ToolAssumption DEF Subscribed, Numbers
<1>1. CASE AckEnds
  <2>1. UNCHANGED <<motion, moved, link, result, own, dropped>> /\ pc \in AckPlaces
    BY <1>1 DEF AckEnds
  <2>2. CASE pc # "moveAck"
    <3>1. pc' \in {"close", "jogSleep"} /\ inbox' = <<>> /\ ~heard'
      BY <1>1, <2>2 DEF AckEnds, Goto, Finish, Subscribed
    <3>2. own = "no" /\ result = "none" BY <2>1, <2>2 DEF Heeded, AckPlaces
    <3> QED BY <2>1, <2>2, <3>1, <3>2, <1>0, SocketFacts
      DEF Subscribed, Heeded, MissedArrivalExplained, AckPlaces
  <2>3. CASE pc = "moveAck"
    <3>1. /\ pc' = "moveWait" /\ clock' = 0 /\ heard' = heard
          /\ \/ inbox' = inbox
             \/ inbox # <<>> /\ Head(inbox) = "ack" /\ inbox' = Tail(inbox)
      BY <1>1, <2>3 DEF AckEnds, Goto, Finish, Arrives
    <3>2. (Told <=> Told') /\ inbox' \in Seq({"ack", "moveHere"})
      <4>1. CASE inbox' = inbox BY <4>1, <1>0, SocketFacts
      <4>2. CASE inbox # <<>> /\ Head(inbox) = "ack" /\ inbox' = Tail(inbox)
        BY <4>2, <1>0, SocketFacts
      <4> QED BY <3>1, <4>1, <4>2
    <3> QED BY <2>1, <2>3, <3>1, <3>2, <1>0 DEF Subscribed, Heeded, MissedArrivalExplained, Excused
  <2> QED BY <2>2, <2>3
<1>2. CASE DropEvent
  <2>1. /\ pc = "moveAck" /\ UNCHANGED <<pc, clock, link, result, motion, moved, heard, own>>
        /\ inbox # <<>> /\ inbox' = Tail(inbox)
    BY <1>2 DEF DropEvent, runVars, Arrives
  <2>2. dropped' BY <1>2, Zenon DEF DropEvent
  <2>3. (Told' => Told) /\ inbox' \in Seq({"ack", "moveHere"}) BY <2>1, <1>0, SocketFacts
  <2> QED BY <2>1, <2>2, <2>3 DEF Subscribed, Heeded, MissedArrivalExplained, Excused
<1>3. CASE Hear
  <2>1. /\ pc = "moveWait" /\ inbox # <<>> /\ UNCHANGED <<link, motion, moved, own, dropped>>
    BY <1>3 DEF Hear, Arrives
  <2>2. CASE Head(inbox) = "moveHere"
    <3>1. pc' = "close" /\ result' = "arrived" /\ inbox' = <<>> /\ ~heard'
      BY <1>3, <2>2 DEF Hear, Finish, Goto
    <3>2. Told
      <4>1. 1 \in 1..Len(inbox) /\ inbox[1] = Head(inbox) BY <1>0, <2>1
      <4> QED BY <2>2, <4>1 DEF Told
    <3>3. link # "garbled" \/ moved BY DEF Subscribed
    <3> QED BY <2>1, <3>1, <3>2, <3>3, <1>0, SocketFacts
      DEF Subscribed, Heeded, MissedArrivalExplained
  <2>3. CASE Head(inbox) # "moveHere"
    <3>1. inbox' = Tail(inbox) /\ UNCHANGED <<pc, clock, result, heard>>
      BY <1>3, <2>3 DEF Hear
    <3>2. (Told <=> Told') /\ inbox' \in Seq({"ack", "moveHere"})
      BY <2>1, <2>3, <3>1, <1>0, SocketFacts
    <3> QED BY <2>1, <3>1, <3>2 DEF Subscribed, Heeded, MissedArrivalExplained, Excused
  <2> QED BY <2>2, <2>3
<1>4. CASE GiveUp
  <2>1. /\ pc = "moveWait" /\ pc' = "moveStop"
        /\ UNCHANGED <<motion, moved, heard, inbox, link, result, own, dropped>>
        /\ clock >= MoveTimeout \/ link = "cut"
    BY <1>4 DEF GiveUp, Goto, TimedOut, Limit
  <2>2. own = "timely" => Excused BY <2>1, <1>0 DEF Heeded, Excused
  <2> QED BY <2>1, <2>2 DEF Subscribed, Heeded, MissedArrivalExplained, Excused
<1>5. CASE Answer
  <2>1. /\ pc \in Waits /\ inbox' = Append(inbox, "ack")
        /\ UNCHANGED <<pc, clock, link, result, motion, moved, heard, own, dropped>>
    BY <1>5 DEF Answer
  <2>2. (Told <=> Told') /\ inbox' \in Seq({"ack", "moveHere"}) BY <2>1, <1>0, SocketFacts
  <2> QED BY <2>1, <2>2 DEF Subscribed, Heeded, MissedArrivalExplained, Excused, Waits, AckPlaces
<1> QED BY <1>1, <1>2, <1>3, <1>4, <1>5

\* A process that ends closes its socket.
LEMMA EndExplained ==
    ASSUME IInv, Explained, JogSleepEnds \/ JogStop \/ MoveStop \/ ToolTroubles
    PROVE  Explained'
<1> USE DEF Explained, IInv, Elsewhere, stillVars, Moves
<1>0. inbox \in Seq({"ack", "moveHere"}) BY DEF Subscribed
<1>1. CASE JogSleepEnds
  <2>1. /\ pc = "jogSleep" /\ pc' = "jogStop"
        /\ UNCHANGED <<moved, heard, inbox, link, result, own, dropped>>
    BY <1>1 DEF JogSleepEnds, Goto
  <2> QED BY <2>1 DEF Subscribed, Heeded, MissedArrivalExplained
<1>2. CASE JogStop \/ MoveStop
  <2>1. /\ pc' = "close" /\ inbox' = <<>> /\ ~heard' /\ UNCHANGED <<moved, link, own, dropped>>
        /\ \/ pc = "jogStop" /\ result' = result
           \/ /\ pc = "moveStop"
              /\ result' = IF result = "interrupted" THEN result ELSE "stopped"
    BY <1>2 DEF JogStop, MoveStop, Finish, Goto
  <2>2. result' # "arrived" /\ (result' = "stopped" /\ own = "timely" => Excused)
    BY <2>1 DEF Heeded
  <2> QED BY <2>1, <2>2, <1>0, SocketFacts DEF Subscribed, Heeded, MissedArrivalExplained, Excused
<1>3. CASE Interrupt
  <2>1. UNCHANGED <<motion, moved, link, own, dropped>> BY <1>3 DEF Interrupt
  <2>2. CASE pc \in {"jogAck", "jogSleep"}
    <3>1. pc' = "jogStop" /\ UNCHANGED <<heard, inbox, result>> BY <1>3, <2>2 DEF Interrupt, Goto
    <3> QED BY <2>1, <2>2, <3>1 DEF Subscribed, Heeded, MissedArrivalExplained
  <2>3. CASE pc \in {"publish", "moveAck", "moveWait"}
    <3>1. pc' = "moveStop" /\ result' = "interrupted" /\ UNCHANGED <<heard, inbox>>
      BY <1>3, <2>3 DEF Interrupt, Goto
    <3> QED BY <2>1, <2>3, <3>1 DEF Subscribed, Heeded, MissedArrivalExplained
  <2>4. CASE pc \in {"ack", "query", "listen"}
    <3>1. pc' = "close" /\ inbox' = <<>> /\ ~heard' /\ result' = result
      BY <1>3, <2>4 DEF Interrupt, Finish, Goto
    <3>2. result = "none" BY <2>4 DEF Heeded
    <3> QED BY <2>1, <3>1, <3>2, <1>0, SocketFacts DEF Subscribed, Heeded, MissedArrivalExplained
  <2>5. CASE pc \in {"jogStop", "moveStop"}
    <3>1. /\ pc' = "close" /\ inbox' = <<>> /\ ~heard'
          /\ result' = result \/ result' = "interrupted"
      BY <1>3, <2>5 DEF Interrupt, Finish, Goto
    <3>2. result \in {"none", "interrupted"} BY <2>5 DEF Heeded
    <3> QED BY <2>1, <2>5, <3>1, <3>2, <1>0, SocketFacts
        DEF Subscribed, Heeded, MissedArrivalExplained
  <2> QED BY <1>3, <2>2, <2>3, <2>4, <2>5 DEF Interrupt
<1>4. CASE Kill
  <2>1. /\ pc' = "close" /\ inbox' = <<>> /\ ~heard' /\ pc \notin {"close", "end"}
        /\ UNCHANGED <<moved, link, result, own, dropped>>
    BY <1>4 DEF Kill, Finish, Goto
  <2>2. result \in {"none", "interrupted"} BY <2>1 DEF Heeded
  <2> QED BY <2>1, <2>2, <1>0, SocketFacts DEF Subscribed, Heeded, MissedArrivalExplained
<1>5. CASE Cut
  <2>1. /\ link' = "cut" /\ pc \notin {"close", "end"}
        /\ UNCHANGED <<pc, clock, result, motion, moved, heard, inbox, own, dropped>>
    BY <1>5 DEF Cut
  <2>2. Told <=> Told' BY <2>1, <1>0, SocketFacts
  <2> QED BY <2>1, <2>2 DEF Subscribed, Heeded, MissedArrivalExplained, Excused
<1> QED BY <1>1, <1>2, <1>3, <1>4, <1>5 DEF ToolTroubles

\* Whoever else moves the arm is seen; nothing else of the movej changes.
LEMMA OthersExplained ==
    ASSUME IInv, Explained, Others
    PROVE  Explained'
<1> USE DEF Explained, Moves
<1>1. UNCHANGED <<pc, clock, link, result, own, dropped>> BY DEF Others, runVars
<1>2. UNCHANGED <<heard, inbox>>
  BY DEF Others, BridgeNext, OnJointPosition, OnOperation, PublishJointState, OnGoHome, OnSetServo,
         RequestEnds, PendantMove, armVars
<1>3. moved => moved' BY Zenon DEF Others, Watch
<1>4. pc \in Moves /\ motion' \in {"home", "pendant"} => moved' BY Zenon DEF Others, Watch, Moves
<1>5. inbox \in Seq({"ack", "moveHere"}) BY DEF Subscribed
<1>6. (Told <=> Told') /\ inbox' \in Seq({"ack", "moveHere"}) BY <1>2, <1>5, SocketFacts
<1> QED BY <1>1, <1>2, <1>3, <1>4, <1>6 DEF Subscribed, Heeded, MissedArrivalExplained, Excused

\* The movej's own arrival is on its socket, and a tick passes only when it is read.
LEMMA TimeExplained ==
    ASSUME IInv, Explained, ToolArrive \/ Tick
    PROVE  Explained'
<1> USE DEF Explained, IInv, Moves
<1>0. inbox \in Seq({"ack", "moveHere"}) /\ MoveTimeout \in Nat \ {0} /\ clock \in Nat
  BY ToolAssumption DEF Subscribed, Numbers
<1>1. CASE ToolArrive
  <2>1. /\ UNCHANGED <<pc, clock, link, result, moved, dropped, heard>> /\ motion' = "rest"
        /\ motion \in {"here", "home", "pendant"}
        /\ inbox' = IF heard /\ motion # "home" THEN Append(inbox, "moveHere") ELSE inbox
        /\ own' = IF motion = "here" /\ pc \in {"moveAck", "moveWait"}
                  THEN IF pc = "moveWait" /\ clock >= MoveTimeout THEN "late" ELSE "timely"
                  ELSE own
    BY <1>1 DEF ToolArrive, Arrive, runVars
  <2>2. /\ inbox' \in Seq({"ack", "moveHere"}) /\ (Told => Told')
        /\ inbox' # inbox => heard /\ motion # "home" /\ Told'
        /\ Told' => Told \/ (heard /\ motion # "home")
    <3>1. CASE inbox' = inbox BY <3>1, <1>0, SocketFacts
    <3>2. CASE heard /\ motion # "home" /\ inbox' = Append(inbox, "moveHere")
      BY <3>2, <1>0, SocketFacts
    <3> QED BY <2>1, <3>1, <3>2
  <2>3. pc = "publish" => moved BY <2>1 DEF StillClose
  <2>4. pc \in Moves /\ motion = "here" => Told'
    <3>1. pc \in Moves /\ motion = "here" => inbox' = Append(inbox, "moveHere")
      BY <2>1 DEF Subscribed
    <3> QED BY <3>1, <1>0, SocketFacts
  <2>5. Subscribed' BY <2>1, <2>2, <2>3 DEF Subscribed
  <2>6. Heeded'
    BY <2>1, <2>2, <2>4, <1>0 DEF Heeded, Subscribed, MissedArrivalExplained, Excused
  <2> QED BY <2>5, <2>6
<1>2. CASE Tick
  <2>1. UNCHANGED <<motion, heard, inbox>> BY <1>2 DEF Tick
  <2>2. CASE pc = "close"
    <3>1. /\ pc' = "end" /\ link' = "up" /\ result' = "none" /\ own' = "no"
      BY <1>2, <2>2 DEF Tick, ToolTick
    <3> QED BY <2>1, <2>2, <3>1, <1>0, SocketFacts DEF Subscribed, Heeded, MissedArrivalExplained
  <2>3. CASE pc # "close"
    <3>1. /\ UNCHANGED <<pc, link, result, moved, own, dropped>>
          /\ clock' = IF pc \in Waits THEN clock + 1 ELSE clock
          /\ pc \in Waits => ~Arrives /\ ~TimedOut
          /\ pc # "moveStop"
      BY <1>2, <2>3 DEF Tick, ToolTick, ToolDue
    <3>2. (Told <=> Told') /\ inbox' \in Seq({"ack", "moveHere"}) BY <2>1, <1>0, SocketFacts
    <3>3. pc \in Moves /\ own = "timely" => Excused
      <4>1. SUFFICES ASSUME pc \in Moves, own = "timely", ~Excused, Told PROVE FALSE
        BY DEF Heeded
      <4>2. inbox # <<>> BY <1>0, <4>1 DEF Told
      <4>3. link # "up"  BY <3>1, <4>1, <4>2 DEF Arrives, Waits, AckPlaces
      <4>4. link \notin {"cut", "garbled"} BY <4>1 DEF Excused, Subscribed
      <4> QED BY <4>3, <4>4 DEF Heeded, Subscribed
    <3> QED BY <2>1, <2>3, <3>1, <3>2, <3>3 DEF Subscribed, Heeded, MissedArrivalExplained, Excused
  <2> QED BY <2>2, <2>3
<1> QED BY <1>1, <1>2

\* Every step keeps the explanation.
LEMMA ExplainedInvariant == Spec => []Explained
<1>1. IInv /\ Explained /\ [Next]_manualVars => Explained'
  <2> SUFFICES ASSUME IInv, Explained, [Next]_manualVars PROVE Explained' OBVIOUS
  <2>1. CASE UNCHANGED manualVars
    BY <2>1 DEF manualVars, armVars, cmdVars, runVars, Explained, Subscribed, Heeded, Told, Excused,
       MissedArrivalExplained
  <2>2. CASE ToolNext
    BY <2>2, LaunchExplained, AskExplained, WaitExplained, EndExplained DEF ToolNext, ToolSteps
  <2> QED BY <2>1, <2>2, OthersExplained, TimeExplained DEF Next
<1> QED BY <1>1, InitExplained, Invariant, PTL DEF Spec

\* A movej that stops an arm which has arrived in time has dropped the event with the
\* ack, lost its connection or been interfered with; one that reports an arrival that
\* was not its own has been interfered with (MissedArrivalExplained), for all timeouts.
THEOREM MissExplained == Spec => []MissedArrivalExplained
<1>1. Explained => MissedArrivalExplained BY DEF Explained, Heeded
<1> QED BY <1>1, ExplainedInvariant, PTL
=============================================================================
