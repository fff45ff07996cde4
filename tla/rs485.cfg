SPECIFICATION FairSpec
CONSTANTS
    Requests <- MCRequests
    PanelSettings <- MCPanelSettings
    Pauses = {0, 3, 7}
    RxDepth = 2
    MaxRequests = 2
    MaxLost = 1
    MaxRestart = 1
INVARIANTS RightRequests ReadBack
PROPERTY Answered
CHECK_DEADLOCK FALSE
