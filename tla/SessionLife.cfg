CONSTANTS
    c1 = c1
    c2 = c2
    Commands <- MCOneUser
    Ops <- MCAllOps
    SlowExit = TRUE
    MaxWorkers = 2
SPECIFICATION FairSpec
INVARIANTS
    TypeOK
    NoOrphan
    StopStops
    MarkerHonest
    PausePromise
    PairsTracked
PROPERTIES
    Recovers
