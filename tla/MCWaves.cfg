SPECIFICATION Spec
CONSTANTS
    MaxRework = 1
    Units = {1, 2, 3}
    DagPlans <- MCPlans
    Declares = {1, 2, 3}
    Meet <- MCMeet
    MaxTurns = 7
    MaxCrash = 2
    NoCommit = NoCommit
INVARIANTS CleanMerge AcceptedShips WaveLimit SharedVerdict AcceptHasVerdicts
CHECK_DEADLOCK FALSE
