\* Every policy, plans of none to five strokes, three human commands.
SPECIFICATION HSpec
CONSTANTS
    Policies <- AllPolicies
    PlanSizes = {0, 1, 4, 5}
    RatioNum = 1
    RatioDen = 2
    ReviewTimeout = 2
    MaxStrokes = 6
    MaxInterventions = 3
INVARIANTS
    TypeOK
    AbortIsExplained
    ReviewIsDue
    InterventionsAreEvidence
    ReviewSkippedOnlyByFailure
PROPERTIES
    ImplementsLifecycle
    JobEnds
    ReviewerGetsFullTime
\* A finished job accepts no further call.
CHECK_DEADLOCK FALSE
