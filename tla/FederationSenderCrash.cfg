SPECIFICATION FairSpec
CONSTANTS
    p1 = p1
    p2 = p2
    e1 = e1
    t1 = t1
    Pdus <- PduRows
    Edus <- NoRows
    ToDevice <- ReliableRows
    Unreadable <- SecondPdu
    DequeueLimit = 2
    MaxAttempts = 0
    Netburst = TRUE
    Keep = 9
    AckTimeout = FALSE
    TriesMax = 1
    PurgeMax = 1
    AbortBudget = 0
    ClearBudget = 0
    CrashBudget = 1
    FlushBudget = 0
INVARIANTS
    TypeOK
    ReliableKept
CHECK_DEADLOCK FALSE
PROPERTIES
    ImplementsOutbox
    EveryRowSettles
