CONSTANTS
    e1 = e1
    c1 = c1
    NoOne = NoOne
    Device = Device
    Endpoints <- MCEndpoints
    Clients <- MCClients
    Capacity = 1
    MaxChunks = 3
SPECIFICATION FairSpec
INVARIANTS
    GoneHoldsNothing
    StrayBounded
PROPERTIES
    BridgeFansOut
    HubNeverBlocks
    BridgeReturns
CHECK_DEADLOCK FALSE
