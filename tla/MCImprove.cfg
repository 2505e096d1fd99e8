SPECIFICATION ImproveSpec
CONSTANTS
    improve = improve
    start = start
    Procs = {improve, start}
    Iterations <- MCIterations
    Cap = 2
    RunMax = 1
    Classes = {red, both}
    Mixed = {both}
    red = red
    both = both
INVARIANTS CapOvershoot RunsRemembered RepeatStops
CHECK_DEADLOCK FALSE
