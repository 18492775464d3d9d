----------------------------- MODULE HcrHistory -----------------------------
(* HcrSystem with history variables. They tell where a queued target is      *)
(* from: "live" since it was queued, "collided" once event/collision found   *)
(* it still in the slot, "earlier" once the component was activated again;   *)
(* and whether the answer to the last accepted target was lost.              *)
EXTENDS HcrSystem

VARIABLES pendingFrom, heldFrom, ackLost

historyVars == <<pendingFrom, heldFrom, ackLost>>

HInit == Init /\ pendingFrom = "none" /\ heldFrom = "none" /\ ackLost = FALSE

Activated == life # "active" /\ life' = "active"

HistoryStep ==
    /\ pendingFrom' = IF pending' = NoTarget THEN "none"
                      ELSE CASE cm = "writeSlot" /\ cm' = "idle" /\ Enqueues(command) -> "live"
                             [] Activated -> "earlier"
                             [] ~latched /\ latched' -> "collided"
                             [] OTHER -> pendingFrom
    /\ heldFrom' = IF held' = NoTarget THEN "none"
                   ELSE CASE worker = "wait" /\ worker' = "gate" -> pendingFrom
                          [] Activated -> "earlier"
                          [] OTHER -> heldFrom
    /\ ackLost' = CASE Activated -> FALSE
                    [] worker = "reply" /\ worker' = "wait" -> ~(haveSent' /\ lastSent' = held)
                    [] OTHER -> ackLost

HNext == Next /\ HistoryStep

HVars == <<vars, historyVars>>

HSpec == HInit /\ [][HNext]_HVars

-----------------------------------------------------------------------------
\* A target queued in one activation is never published in a later one:
\* on_activate empties the slot, on_deactivate and on_error join the worker.
NothingFromEarlierActivation == heldFrom # "earlier"

\* The deadband is measured from the target the robot really has, as long as
\* the answer to it was not lost.
DeadbandReferenceIsRobotGoal ==
    haveSent /\ ~ackLost /\ worker # "reply" => goal \in {lastSent, NoTarget}

\* What onCollisionClear's comment says: a target still in the slot when the
\* collision came is dropped by the clear, the robot never drives to it.
NoQueuedTargetResumed ==
    [][heldFrom = "collided" => goal' \in {goal, NoTarget}]_HVars
=============================================================================
