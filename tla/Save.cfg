SPECIFICATION FairSpec
CONSTANTS
    DisableTime = 2
    GraceTime = 1
    OverallTime = 4
INVARIANTS
    IInv
    EnableRestored
    LoggedIsKept
PROPERTIES
    SaveEnds
