CONSTANTS
    me = me
    other = other
    Me = me
    Sources <- MCSources
    Capacity = 1
    MaxChunks = 2
    MaxClears = 2
SPECIFICATION FairSpec
INVARIANTS
    TypeOK
    FlushedOnClose
    ClearSpoilsOne
    OverlayFaithful
PROPERTIES
    SourcesReturn
    OverlayCatchesUp
CHECK_DEADLOCK FALSE
