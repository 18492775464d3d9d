\* Two legal targets, every fault, the whole lifecycle.
SPECIFICATION HSpec
CONSTANTS
    Positions = {0, 5}
    Legal = {0, 5}
    Deadband = 3
    NoTarget = NoTarget
    AllowMotion = TRUE
    ServoOffOnDeactivate = TRUE
    Faults <- NoFieldbusLoss
INVARIANTS
    DeadInstanceStaysSilent
    NoWorkerLeftBehind
    NothingFromEarlierActivation
    DeadbandReferenceIsRobotGoal
PROPERTIES
    ServoOffAfterJoin
    ImplementsMotionGate
