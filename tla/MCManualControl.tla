--------------------------- MODULE MCManualControl ---------------------------
(* Three positions, the far ones beyond --max-delta of each other, and jogs   *)
(* shorter and longer than the least wait for an ack.                         *)
EXTENDS ManualControl

MCPoses == 0..2
MCBudgets == {1, 3}
=============================================================================
