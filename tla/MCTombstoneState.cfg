SPECIFICATION Spec
CONSTANTS
    Engines = {e1, e2}
    Cancels = {c1}
    NoProc = NoProc
    MaxEvents = 3
    MaxFaults = 0
INVARIANT StateAgrees
CHECK_DEADLOCK FALSE
