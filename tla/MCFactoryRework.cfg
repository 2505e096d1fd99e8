SPECIFICATION Spec
CONSTANTS
    MaxRework = 3
    MaxUsd = 2
    MaxTurns = 6
    MaxCrash = 0
    MaxUnits = 2
    DagPlans <- MCPlans
    FreeGates <- MCGates
CHECK_DEADLOCK FALSE
INVARIANT ReworkLimit
