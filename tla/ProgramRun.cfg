\* Two runs in a row, every fault, under fairness.
SPECIFICATION FairSpec
CONSTANTS
    MaxRuns = 2
    Options <- MCOptions
    Faults <- MCFaults
INVARIANTS TypeOK MovesOnlyAsGated ArrivalNotMissed FaultStopsProgram
PROPERTIES RunsEnd
\* The runs are bounded.
CHECK_DEADLOCK FALSE
