CONSTANTS
    r1 = r1
    r2 = r2
    w1 = w1
    NoOne = NoOne
    Requests <- MCRequests
    Writers <- MCWriters
    SlowPort = FALSE
    MaxOpens = 3
SPECIFICATION FairSpec
INVARIANTS
    LeaseHonest
PROPERTIES
    EveryoneProceeds
    LeaseImplementsOwnership
