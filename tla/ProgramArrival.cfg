\* Two runs that both move the arm; messages may be lost.
SPECIFICATION Spec
CONSTANTS
    MaxRuns = 2
    Options <- OnlyRun
    Faults <- OnlyLost
INVARIANTS ReportedArrivalIsArrival
\* The runs are bounded.
CHECK_DEADLOCK FALSE
