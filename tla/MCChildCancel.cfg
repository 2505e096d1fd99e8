SPECIFICATION Spec
CONSTANTS
    MaxCalls = 1
INVARIANT CancelKillsTree
CHECK_DEADLOCK FALSE
