---------------------------- MODULE MCHcrSystem ----------------------------
(* Instances of the plugin for TLC, without the history variables.           *)
EXTENDS HcrSystem

\* Everything the environment may do; and only what a collision takes.
AllFaults == FaultKinds
OnlyCollision == {"collision"}
NoFaults == {}
=============================================================================
