----------------------------- MODULE MotionGate -----------------------------
(* What HcrSystemInterface promises about motion: targets reach the robot    *)
(* only through a gate, once the gate closes at most the one target already  *)
(* past every test still goes out, and a dead instance never opens it again. *)
CONSTANTS Legal, NoTarget

VARIABLES gate, dead, goal

gateVars == <<gate, dead, goal>>

Init == gate = "shut" /\ dead = FALSE /\ goal = NoTarget

Open == ~dead /\ gate' = "open" /\ UNCHANGED <<dead, goal>>

\* A close that the last target may outlive, or that nothing outlives.
Close ==
    /\ gate = "open" /\ gate' \in {"draining", "shut"}
    /\ dead' \in {dead, TRUE}
    /\ UNCHANGED goal

\* The target in flight is given up, or the instance dies behind a closed gate.
Settle ==
    /\ gate' = gate \/ (gate = "draining" /\ gate' = "shut")
    /\ gate # "open" /\ dead' \in {dead, TRUE}
    /\ UNCHANGED goal

\* The robot gets a target.
Move ==
    /\ gate # "shut" /\ gate' = IF gate = "draining" THEN "shut" ELSE gate
    /\ goal' \in Legal
    /\ UNCHANGED dead

\* move/stop is never held back by the gate.
Stop == goal' = NoTarget /\ UNCHANGED <<gate, dead>>

Next == Open \/ Close \/ Settle \/ Move \/ Stop

Spec == Init /\ [][Next]_gateVars
=============================================================================
