------------------------------- MODULE MCJob --------------------------------
(* Instances of the job machine for TLC.                                     *)
EXTENDS JobHistory

AllPolicies == [review: BOOLEAN, defaultContinue: BOOLEAN, capture: BOOLEAN]
=============================================================================
