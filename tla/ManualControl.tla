---------------------------- MODULE ManualControl ----------------------------
(* hcr_state_bridge and mqtt_cmd.py command the same arm, and neither knows   *)
(* of the other. One tick passes for all when nobody has something due.       *)
EXTENDS CmdTool, StateBridge

manualVars == <<armVars, cmdVars, bridgeVars>>

Init == ArmInit /\ ToolInit /\ BridgeInit

Tick ==
    /\ ~ToolDue /\ ~BridgeDue
    /\ ArmTick /\ ToolTick /\ BridgeTick
    /\ UNCHANGED <<servo, pos, motion, target, heard, inbox>>

\* Another client moves the arm while a movej relies on the position it has read.
Watch ==
    moved' = (moved \/ (pc \in {"listen", "publish", "moveAck", "moveWait", "moveStop"}
                          /\ motion' \in {"home", "pendant"}))

Others ==
    /\ BridgeNext \/ ((\E goal \in Poses : PendantMove(goal)) /\ UNCHANGED bridgeVars)
    /\ Watch
    /\ UNCHANGED <<runVars, orphan, own, dropped>>

ToolNext == ToolLaunches \/ ToolSteps \/ ToolTroubles \/ Answer

Next ==
    \/ ToolNext /\ UNCHANGED bridgeVars
    \/ Others
    \/ ToolArrive /\ UNCHANGED bridgeVars
    \/ Tick

Spec == Init /\ [][Next]_manualVars

\* Time passes, however much happens in one tick; a process that runs takes its
\* steps, the timer fires and a request ends.
FairSpec ==
    /\ Spec
    /\ SF_manualVars(Tick)
    /\ WF_manualVars(ToolSteps /\ UNCHANGED bridgeVars)
    /\ WF_manualVars(PublishJointState /\ UNCHANGED cmdVars)
    /\ WF_manualVars(RequestEnds(FALSE) /\ UNCHANGED cmdVars)

-----------------------------------------------------------------------------
(* Properties.                                                               *)

\* A jog lasts no longer than it was asked to, or than its shortest wait for an
\* ack, and the arm does not go on turning when the process is over, unless it
\* was killed or cut off, or interrupted a second time, in its finally before the
\* stop was sent (jog of mqtt_cmd.py, whose line 239 would have it in any case).
JogIsBounded ==
    motion = "jog" /\ ~orphan =>
        /\ pc \in {"jogAck", "jogSleep", "jogStop"}
        /\ jogged <= Larger(MinAck, arg)

\* movej stops an arm that has arrived in time only when the arrival came before
\* the ack, the connection broke or another client moved the arm; and it reports
\* an arrival of its own unless another client moved the arm (movej of
\* mqtt_cmd.py, which subscribes before it publishes).
MissedArrivalExplained ==
    /\ result = "stopped" /\ own = "timely" => dropped \/ link = "cut" \/ moved
    /\ result = "arrived" /\ own = "no" => moved

\* movej moves the arm by no more than --max-delta, unless another client has
\* moved it after the position was read: the check does not hold the arm.
MoveWithinDelta ==
    [][motion' = "here" /\ (motion # "here" \/ target' # target) =>
        Magnitude(target' - pos') <= MaxDelta \/ moved']_manualVars

\* As long as positions come in, joint states go out again and again: no service
\* call, whether it is answered or not, silences the bridge for good.
StateKeepsFlowing == <>[](age <= StaleAfter) => []<>(timer = "published")
=============================================================================
