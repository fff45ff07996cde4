SPECIFICATION FairSpec
CONSTANTS
    Caller = {"worker", "other"}
    Victim = {"worker"}
    Safe = TRUE
    Header = 3
    MinSize = 3
    Size = 21
    Asked = {1, 9}
    MaxOwned = 2
INVARIANTS HeapSound
PROPERTIES Allocates NullOnlyIfFull CallsReturn
