SPECIFICATION Spec
CONSTANTS
    Paths = {"code", "env", "outside", "lock"}
    Old = {"outside", "env"}
    Allowed = {"code", "env"}
    Forbidden = {"env"}
    Scratch = {"lock"}
    Meta = {}
    Records = {}
    MustHave = {"code"}
    Needed = {"code"}
    MaxRework = 1
INVARIANT HarvestWorks
CHECK_DEADLOCK FALSE
