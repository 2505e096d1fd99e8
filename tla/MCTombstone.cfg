SPECIFICATION Spec
CONSTANTS
    Engines = {e1, e2}
    Cancels = {c1}
    NoProc = NoProc
    MaxEvents = 3
    MaxFaults = 1
SYMMETRY Symmetry
INVARIANTS NeverTorn NothingLost MarkdownFollows
CHECK_DEADLOCK FALSE
