SPECIFICATION FairSpec
CONSTANTS
    Poses <- MCPoses
    Home = 0
    MaxJog = 4
    MaxInbox = 1
    Budgets <- MCBudgets
    MinAck = 2
    AckTimeout = 2
    MoveTimeout = 2
    MaxDelta = 1
    AllowMotion = TRUE
    StaleAfter = 1
    RequestTimeout = 2
INVARIANTS
    JogIsBounded
    MissedArrivalExplained
PROPERTIES
    MoveWithinDelta
    StateKeepsFlowing
CHECK_DEADLOCK FALSE
