SPECIFICATION FairSpec
CONSTANTS
    Chunks = 3
    Tries = 2
    Boards = {"used", "blank"}
    MaxWire = 2
    MaxLosses = 1
    MaxFaults = 1
    MaxResets = 1
    MaxUpdates = 2
INVARIANTS
    IInv
    BrickProof
PROPERTIES
    CommittedIsWhole
    UpdateEnds
CHECK_DEADLOCK FALSE
