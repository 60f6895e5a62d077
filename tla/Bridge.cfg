SPECIFICATION FairBridgeSpec
CONSTANTS
    Peer = {"tool", "script"}
    Value = {0, 1}
    Asks <- MCAsks
    MaxSeq <- MCMaxSeq
    Tries = 2
    Retries = 1
    MaxWire = 1
    MaxBoots = 1
INVARIANTS
    BridgeInv
    ToldHolds
PROPERTIES
    PendingEnds
CHECK_DEADLOCK FALSE
