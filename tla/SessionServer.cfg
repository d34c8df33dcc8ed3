CONSTANTS
    c1 = c1
    c2 = c2
    NoOne = NoOne
    Clients <- MCClients
SPECIFICATION FairSpec
INVARIANTS
    PortKept
    DepartedHoldsNothing
    StrayBounded
PROPERTIES
    ClaimEnds
CHECK_DEADLOCK FALSE
