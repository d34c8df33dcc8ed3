CONSTANTS
    Units = {a, b}
    None = None
    MaxLen = 2
    MaxDisk = 3
    Copies = 1
    Tries = 2
    MaxFaults = 1
SPECIFICATION FairSpec
INVARIANTS
    TypeOK
    DoneMeansThere
PROPERTIES
    KeepsFiles
    ResumeFinishes
CHECK_DEADLOCK FALSE
