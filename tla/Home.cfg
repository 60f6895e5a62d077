SPECIFICATION FairSpec
CONSTANTS
    HomeTimeout = 1
    EncoderType = "inc"
    HomeOnBoot = TRUE
INVARIANTS
    IInv
    HomingOwnsAxis
    DoneIsReal
    HomedConfirmed
PROPERTIES
    OrphanedOnlySo
    AxisReleased
