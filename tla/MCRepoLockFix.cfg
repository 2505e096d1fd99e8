SPECIFICATION LockSpec
CONSTANTS
    Proc = {p1, p2, p3}
    r1 = r1
    r2 = r2
    r3 = r3
    r4 = r4
    ga = ga
    gb = gb
    Run = {r1, r2, r3, r4}
    Glob = {ga, gb}
    Paths <- MCPaths
    Overlap <- MCOverlap
    Absent = Absent
    Malformed = Malformed
    NoProc = NoProc
SYMMETRY Symmetry
CHECK_DEADLOCK FALSE
INVARIANT FixLockRecovers
