SPECIFICATION Spec
CONSTANTS
    Target = {near, far}
    NoTarget = "nowhere"
    PulseCycles = 2
    Grace = 0
    Commands = {"move", "stop", "trim"}
    PcModes = {"position"}
    Holding = "hold"
    Lossy = TRUE
    Faulty = FALSE
    MotorReboots = TRUE
SYMMETRY MCSymmetry
INVARIANTS
    IInv
PROPERTIES
    TriggerAfterSetup
    StopOutlastsStart
