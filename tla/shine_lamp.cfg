SPECIFICATION Spec
CONSTANTS
    NCh = 2
    ModeSet = {"manual", "auto"}
    Buttons = {"enter", "on", "off", "back"}
    LoopsPerSec = 1
    CheckDelay = 1
    Time = 2
    NStages = 2
    StageTime <- MCStageTime
    Cycle = 2
    Patient = TRUE
    QueueLen = 2
    MaxNow = 2
    MaxPress = 4
    MaxEdge = 0
    MaxFault = 1
INVARIANTS  IdleMeansOff
