\* One run without any fault.
SPECIFICATION Spec
CONSTANTS
    MaxRuns = 1
    Options <- OnlyRun
    Faults <- NoFaults
INVARIANTS CallbacksFindTheirLocals
\* The runs are bounded.
CHECK_DEADLOCK FALSE
