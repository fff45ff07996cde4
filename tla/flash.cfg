SPECIFICATION Spec
CONSTANTS
    Names = {"control", "one", "alarm1", "alarm2"}
    Stages = 1
    Savers = {"lcd", "shine"}
    MaxValue = 1
    MaxChange = 1
    Kills = TRUE
INVARIANTS Stored NoGarbage LockHeld
