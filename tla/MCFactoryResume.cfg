SPECIFICATION ResumedSpec
CONSTANTS
    MaxRework = 1
    MaxUsd = 2
    MaxTurns = 3
    MaxCrash = 1
    MaxUnits = 2
    DagPlans <- MCPlans
    FreeGates <- MCGates
CHECK_DEADLOCK FALSE
PROPERTY ResumeFinishes
