SPECIFICATION ReviewSpec
CONSTANTS
    MaxRework = 3
    NoReview = NoReview
INVARIANTS AcceptedThroughGates EnforceSafe EscalatesAtLimit
CHECK_DEADLOCK FALSE
