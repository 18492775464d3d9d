\* Every scenario, alone and in "all", with two to fourteen strokes.
SPECIFICATION SSpec
CONSTANTS
    Policies <- AllPolicies
    PlanSizes = {}
    RatioNum = 1
    RatioDen = 2
    ReviewTimeout = 60
    MaxStrokes = 14
    MaxInterventions = 2
    Strokes <- MCStrokes
    StrokeTime = 2
    PlanTime = 3
    MaxNow = 200
INVARIANTS ScenarioEndsAsDescribed AllWalksTheDiagram
PROPERTIES ScriptsEnd
\* The programs end.
CHECK_DEADLOCK FALSE
