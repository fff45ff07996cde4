SPECIFICATION Spec
CONSTANTS
    Thread = {"high", "mid", "low", "idle"}
    Idle = "idle"
    Lowest = 3
    InitPrio <- MCInitPrio
    MaxNest = 1
    Sem = {"s"}
    m = m
    n = n
    Mutex = {m, n}
    Event = {"e"}
    Fifo = {"s"}
    Flag = {"f1", "f2"}
    Requests <- MCRequests
    SemStart = 0
    SemMax = 1
    HoldMax = 2
    Mixes <- MCMixes
    Lifo = TRUE
    None = None
    Isr = Isr
INVARIANTS OnePlace HighestRuns SemUnits NoneMissed PriorityRestored Inherits
SYMMETRY Mutexes
