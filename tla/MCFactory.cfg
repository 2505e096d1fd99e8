SPECIFICATION FairSpec
CONSTANTS
    MaxRework = 2
    MaxUsd = 2
    MaxTurns = 4
    MaxCrash = 2
    MaxUnits = 2
    DagPlans <- MCPlans
    FreeGates <- MCGates
INVARIANTS NoDagDeadEnd TablesAgree AcceptedWithinBudget NoRefusedMove
PROPERTIES KeepsPromise AcceptedWorkStands Ends
CHECK_DEADLOCK FALSE
