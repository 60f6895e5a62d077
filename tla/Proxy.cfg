SPECIFICATION FairSpec
CONSTANTS
    SlotCount = 2
    Value = {0, 1}
    Default = 0
INVARIANTS
    IInv
PROPERTIES
    OperatorValueKept
    EverySetIsSent
    CacheCatchesUp
