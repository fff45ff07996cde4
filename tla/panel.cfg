SPECIFICATION FairSpec
CONSTANTS
    FrameLen = 3
    MinLen = 2
    BufSize = 7
    CmdSize = 5
    RxDepth = 2
    CmdDepth = 2
    MaxFrames = 4
 
PROPERTY Delivered
CHECK_DEADLOCK FALSE
