SPECIFICATION FairSpec
CONSTANTS
    NCh = 1
    ModeSet = {"manual", "auto", "multistage"}
    Buttons = {"enter", "on", "off"}
    LoopsPerSec = 2
    CheckDelay = 1
    Time = 2
    NStages = 2
    StageTime <- MCStageTime
    Cycle = 2
    Patient = TRUE
    QueueLen = 2
    MaxNow = 3
    MaxPress = 4
    MaxEdge = 0
    MaxFault = 1
INVARIANTS TimeBooked UninterruptedLength
PROPERTIES RelayOpens IrradiationEnds
