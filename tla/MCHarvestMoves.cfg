SPECIFICATION Spec
CONSTANTS
    Paths = {"code", "record", "outside"}
    Old = {"outside"}
    Allowed = {"code"}
    Forbidden = {}
    Scratch = {}
    Meta = {"record"}
    Records = {"record"}
    MustHave = {"code"}
    Needed = {"code"}
    MaxRework = 1
INVARIANT OnlyAllowedChange
CHECK_DEADLOCK FALSE
