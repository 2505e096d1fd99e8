SPECIFICATION Spec
CONSTANTS
    Paths = {"code", "env", "old"}
    Old = {"old"}
    Allowed = {"code", "env", "old"}
    Forbidden = {"env"}
    Scratch = {}
    Meta = {}
    Records = {}
    MustHave = {"code"}
    Needed = {"code"}
    MaxRework = 1
INVARIANT ChangesAreCommitted
CHECK_DEADLOCK FALSE
