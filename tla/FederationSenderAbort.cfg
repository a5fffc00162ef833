SPECIFICATION Spec
CONSTANTS
    p1 = p1
    p2 = p2
    e1 = e1
    t1 = t1
    Pdus <- NoRows
    Edus <- EduRows
    ToDevice <- ReliableRows
    Unreadable <- NoRows
    DequeueLimit = 2
    MaxAttempts = 2
    Netburst = TRUE
    Keep = 9
    AckTimeout = FALSE
    TriesMax = 2
    PurgeMax = 2
    AbortBudget = 1
    ClearBudget = 1
    CrashBudget = 0
    FlushBudget = 1
CONSTRAINT OneCommand
INVARIANTS
    BusyIsBacked
    WaitingIsWoken
    OneTransaction
    AbortLeavesNothing
    OldWorkStaysDead
CHECK_DEADLOCK FALSE
