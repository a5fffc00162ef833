SPECIFICATION Spec
CONSTANTS
    t1 = t1
    t2 = t2
    t3 = t3
    Threads <- Tasks
    GiveUp = TRUE
    MaxMutex = 4
INVARIANTS
    MutualExclusion
SYMMETRY Symmetry
CHECK_DEADLOCK FALSE
