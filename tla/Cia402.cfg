SPECIFICATION FairSpec
CONSTANTS
    SeqMod = 5
    HandleMax = 2
    RespTimeout = 1
    EraseTimeout = 3
    MaxGap = 2
    MaxLag = 1
INVARIANTS
    IInv
    AnswerIsOurs
    CyclicNotStarved
PROPERTIES
    ServiceSpec
    RequestEnds
