SPECIFICATION FairSpec
CONSTANTS
    NCh = 1
    ModeSet = {"manual"}
    Buttons = {"enter", "on", "off", "back"}
    LoopsPerSec = 1
    CheckDelay = 1
    Time = 2
    NStages = 2
    StageTime <- MCStageTime
    Cycle = 2
    Patient = TRUE
    QueueLen = 2
    MaxNow = 2
    MaxPress = 3
    MaxEdge = 2
    MaxFault = 1
PROPERTIES StatusObeyed FaultEndsLamp BackEnds
