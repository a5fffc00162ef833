SPECIFICATION FairSpec
CONSTANTS
    t1 = t1
    t2 = t2
    t3 = t3
    Threads <- Tasks
    GiveUp = TRUE
    MaxMutex = 4
INVARIANTS
    ExclusionUnlessRaced
    MappedUnlessRaced
CHECK_DEADLOCK FALSE
PROPERTIES
    WaiterServed
