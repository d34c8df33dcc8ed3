CONSTANTS
    Size <- MCSize
    Unreadable = {1}
    Window = 1
    Checkpoint = 1
    MaxRetries = 2
    MaxSame = 1
    MaxAsks = 2
    MaxDamage = 1
SPECIFICATION Spec
INVARIANTS
    SavedPrefix
CHECK_DEADLOCK FALSE
