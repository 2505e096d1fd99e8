SPECIFICATION Spec
CONSTANTS
    Proc = {p1, p2, p3}
    r1 = r1
    r2 = r2
    ga = ga
    gb = gb
    Run = {r1}
    Glob = {ga, gb}
    Paths <- MCPaths
    Overlap <- MCOverlap
    Absent = Absent
    Malformed = Malformed
    NoProc = NoProc
    NoRow = NoRow
    RepoExclusive = FALSE
    EngineStates = {"dispatched", "inner_working", "receipt_ready", "outer_reviewing", "accepted", "failed"}
SYMMETRY Symmetry
PROPERTY TerminalIsFinal
CHECK_DEADLOCK FALSE
