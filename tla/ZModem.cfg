CONSTANTS
    Size <- MCSize
    Unreadable = {2}
    Window = 1
    Checkpoint = 1
    MaxRetries = 2
    MaxSame = 1
    MaxAsks = 2
    MaxDamage = 1
SPECIFICATION FairSpec
INVARIANTS
    TypeOK
    SavedFaithful
    OkMeansSaved
PROPERTIES
    BothEnd
CHECK_DEADLOCK FALSE
