CONSTANTS
    Workflows = {w1}
    Runs = {r1, r2}
    MaxIssues = 2
    MaxRun = 2
    MaxFailures = 2
    MaxForeign = 1
    w1 = w1
    r1 = r1
    r2 = r2
SPECIFICATION FairSpec
INVARIANTS NothingIsDoneTwice OnlyLateTicksAreLost
PROPERTIES TableNeverGoesBack BoxesAreServed
CHECK_DEADLOCK FALSE
