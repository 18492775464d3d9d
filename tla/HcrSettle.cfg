\* Three targets, two of them within the deadband, no fault at all.
SPECIFICATION Spec
CONSTANTS
    Positions = {0, 5, 6}
    Legal = {0, 5, 6}
    Deadband = 3
    NoTarget = NoTarget
    AllowMotion = TRUE
    ServoOffOnDeactivate = FALSE
    Faults <- NoFaults
INVARIANTS
    SettledTargetDelivered
