SPECIFICATION FairSpec
CONSTANTS
    MaxUsd = 3
    MaxTurns = 3
    MaxIters = 2
    MaxRework = 1
    WorkerTurns = 2
    Worker = 2
    Reviewer = 1
    Commander = 1
    Mechanical = 1
    Reviewed = TRUE
INVARIANTS OvershootBounded UnchargedBounded
PROPERTIES RunEnds
CHECK_DEADLOCK FALSE
