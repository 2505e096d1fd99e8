SPECIFICATION Spec
CONSTANTS
    MaxRework = 1
    MaxUsd = 2
    MaxTurns = 4
    MaxCrash = 1
    MaxUnits = 2
    DagPlans <- MCPlans
    FreeGates <- MCGates
CHECK_DEADLOCK FALSE
INVARIANT AcceptedWholePlan
