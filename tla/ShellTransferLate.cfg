CONSTANTS
    MaxTransfers = 2
    MaxText = 1
    MaxWire = 1
    HoldMax = 1
    Overtakes = TRUE
SPECIFICATION Spec
INVARIANT KeysHeld
CHECK_DEADLOCK FALSE
