SPECIFICATION FairSpec
CONSTANTS
    Panels <- MCPanels
    Number <- MCNumber
    NoNumber = 0
    NoPanel = "nobody"
    Reachable = {"A", "B"}
    Steady = {}
    Silent = {}
    PollTime = 2
    ConnectTime = 1
INVARIANTS
    IInv
    SelectedByLive
PROPERTIES
    SocketComesBack
