SPECIFICATION Spec
CONSTANTS
    p1 = p1
    p2 = p2
    e1 = e1
    t1 = t1
    Pdus <- OnePdu
    Edus <- EduRows
    ToDevice <- ReliableRows
    Unreadable <- NoRows
    DequeueLimit = 2
    MaxAttempts = 2
    Netburst = TRUE
    Keep = 9
    AckTimeout = FALSE
    TriesMax = 2
    PurgeMax = 2
    AbortBudget = 0
    ClearBudget = 0
    CrashBudget = 0
    FlushBudget = 0
INVARIANTS
    ReliableKept
CHECK_DEADLOCK FALSE
