CONSTANTS
    Workflows = {w1, w2}
    Runs = {r1, r2}
    MaxIssues = 1
    MaxRun = 1
    MaxFailures = 0
    MaxForeign = 0
    w1 = w1
    w2 = w2
    r1 = r1
    r2 = r2
SPECIFICATION Spec
INVARIANTS TicksAreNotLost
SYMMETRY Symmetry
CHECK_DEADLOCK FALSE
