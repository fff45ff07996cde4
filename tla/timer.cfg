SPECIFICATION Spec
CONSTANTS
    AppTimer = {"hard", "shot", "beat"}
    Soft = {"shot", "beat"}
    Periodic = {"hard", "beat"}
    ThreadTimer = "thread"
    W = 11
    Durations = {1, 3}
    MaxLag = 1
    MaxSlip = 1
    None = None
INVARIANTS InTime SoftServed
PROPERTIES NeverEarly SleepKept
