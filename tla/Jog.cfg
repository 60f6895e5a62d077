SPECIFICATION FairSpec
CONSTANTS
    Buttons <- MCButtons
    Raw = {0, 1}
    Centre = 0
    Dwell = 1
    Watchdog = 1
    Holding = "hold"
INVARIANTS
    IInv
PROPERTIES
    MoveUndisturbed
    DeadMan
