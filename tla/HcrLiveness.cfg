\* One legal and one illegal target, every fault, under fairness.
SPECIFICATION FairSpec
CONSTANTS
    Positions = {0, 5}
    Legal = {0}
    Deadband = 3
    NoTarget = NoTarget
    AllowMotion = TRUE
    ServoOffOnDeactivate = TRUE
    Faults <- AllFaults
INVARIANTS
    TypeOK
    LegalTargetsOnly
PROPERTIES
    CallbacksReturn
    LostSubscriptionsDeactivate
    PendingDrains
