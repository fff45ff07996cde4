SPECIFICATION LifeFairSpec
CONSTANTS
    b1 = b1
    b2 = b2
    b3 = b3
    Block = {b1, b2, b3}
    Handle = {"shine", "off1"}
    NoThread = NoThread
    Fresh = TRUE
INVARIANTS ThreadsSound
PROPERTY Reclaimed
