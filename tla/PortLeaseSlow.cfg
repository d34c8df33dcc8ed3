CONSTANTS
    r1 = r1
    r2 = r2
    w1 = w1
    NoOne = NoOne
    Requests <- MCRequests
    Writers <- MCWriters
    SlowPort = TRUE
    MaxOpens = 4
SPECIFICATION FairSpec
INVARIANTS
    HandlesSafe
PROPERTIES
    PortFreedAtEnd
