SPECIFICATION FairSpec
CONSTANTS
    MaxCalls = 2
INVARIANT TimeoutLeavesNobody
PROPERTIES CallEnds
CHECK_DEADLOCK FALSE
