SPECIFICATION FairSpec
CONSTANTS
    HomeTimeout = 1
    EncoderType = "inc"
    HomeOnBoot = FALSE
PROPERTIES
    StopFreesSlot
