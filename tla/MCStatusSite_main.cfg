CONSTANTS
    TestWorkflows <- MCTestWorkflows
    Prober = "network"
    WalkLimit = 2
    HistoryLimit = 2
    Builds = {1, 2}
    MaxRuns = 3
    MaxPushes = 1
    MaxExpiries = 1
    MaxFailures = 1
SPECIFICATION Spec
INVARIANTS FilesAgree ReachableHasWitness QuietMeansShown
PROPERTIES NoEntryLost
CHECK_DEADLOCK FALSE
CONSTRAINT RunsOrMishaps
