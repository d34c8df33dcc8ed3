CONSTANTS
    c1 = c1
    c2 = c2
    Commands <- MCTwoUsers
    Ops <- MCSomeOps
    SlowExit = FALSE
    MaxWorkers = 2
SPECIFICATION Spec
INVARIANTS
    StopReleases
