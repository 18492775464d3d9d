--------------------------- MODULE MCJobScenarios ---------------------------
(* The scenarios of job_cli for TLC.                                         *)
EXTENDS JobScenarios

AllPolicies == [review: BOOLEAN, defaultContinue: BOOLEAN, capture: BOOLEAN]
MCStrokes == 2..14
=============================================================================
