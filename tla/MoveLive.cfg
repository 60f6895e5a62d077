SPECIFICATION FairSpec
CONSTANTS
    Target = {near}
    NoTarget = "nowhere"
    PulseCycles = 2
    Grace = 1
    Commands = {"move", "quick", "enable", "pc"}
    PcModes = {"position"}
    Holding = "off"
    Lossy = FALSE
    Faulty = TRUE
    MotorReboots = FALSE
PROPERTIES
    MoveIsTriggered
    ArrivalIsReal
