SPECIFICATION Spec
CONSTANTS
    ParamSets <- MCParamSets
    Sizes <- MCSizes
    Lines <- MCLines
    Sheet <- MCSheet
    StepMm = 1000
    PenUp = 1
    Block = 2
    LiftedSets <- MCLiftedSets
    CutAt <- MCCutAt
    MaxRuns = 2
INVARIANTS
    PointsInsideMargins
    PlanReadBack
    BreaksAreReal
    DrawnWithinPlan
CHECK_DEADLOCK FALSE
