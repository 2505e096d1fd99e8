CONSTANTS
    Keys <- K
    Dags <- MCDags
    Batches <- MCBatches
    Patterns <- MCPatterns
    Paths <- MCPaths
    Allowed <- MCAllowed
    Forbidden <- MCForbidden
    MaxUnits = 4
    MaxPeers = 3
SPECIFICATION Spec
INVARIANT OverlapFound
CHECK_DEADLOCK FALSE
