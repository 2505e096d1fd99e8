SPECIFICATION Spec
CONSTANTS
    MaxRework = 1
    Units = {1, 2, 3}
    DagPlans <- MCPlans
    Declares = {1, 2, 3}
    Meet <- MCMeet
    MaxTurns = 4
    MaxCrash = 1
    NoCommit = NoCommit
INVARIANT PendingIsLatest
CHECK_DEADLOCK FALSE
