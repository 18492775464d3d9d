---------------------------- MODULE MCHcrHistory ---------------------------
(* Instances of the plugin with its history variables for TLC.               *)
EXTENDS HcrHistory

AllFaults == FaultKinds
NoFieldbusLoss == FaultKinds \ {"fieldbus"}
OnlyCollision == {"collision"}
=============================================================================
