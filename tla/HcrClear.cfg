\* A collision and its clear while a target waits in the slot.
SPECIFICATION HSpec
CONSTANTS
    Positions = {0, 5}
    Legal = {0, 5}
    Deadband = 3
    NoTarget = NoTarget
    AllowMotion = TRUE
    ServoOffOnDeactivate = TRUE
    Faults <- OnlyCollision
PROPERTIES
    NoQueuedTargetResumed
