SPECIFICATION FairSpec
CONSTANTS
    t1 = t1
    t2 = t2
    t3 = t3
    t4 = t4
    s1 = s1
    s2 = s2
    m1 = m1
    m2 = m2
    Thread = {t1, t2, t3}
    Isr = {t4}
    Slot = {s1, s2}
    Message = {m1, m2}
    Priority <- MCPriority
    ByPriority = TRUE
    EntryMax = 2
    Sender = {t1, t4}
    Receiver = {t2, t3}
    Operations = {"urgent", "reset"}
    None = None
INVARIANTS PoolKept NoLostWakeup
PROPERTIES WaitInTurn Delivered IsFifo
