SPECIFICATION Spec
CONSTANTS
    Paths = {"code", "env", "outside"}
    Old = {"outside"}
    Allowed = {"code", "env"}
    Forbidden = {"env"}
    Scratch = {}
    Meta = {}
    Records = {}
    MustHave = {"code"}
    Needed = {"code"}
    MaxRework = 1
INVARIANTS AcceptedInBounds AcceptedIsOnBranch WorkHandedIn
CHECK_DEADLOCK FALSE
