CONSTANTS
    MaxTransfers = 2
    MaxText = 2
    MaxWire = 2
    HoldMax = 1
    Overtakes = FALSE
SPECIFICATION FairSpec
INVARIANTS
    TypeOK
    HandedOnce
    OpenMeansFree
    OutputKept
PROPERTIES
    ShellComesBack
CHECK_DEADLOCK FALSE
