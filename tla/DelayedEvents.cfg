SPECIFICATION FairSpec
CONSTANTS
    e1 = e1
    e2 = e2
    r1 = r1
    r2 = r2
    Events = {e1}
    Requests = {r1, r2}
    Worker = Worker
    NoEvent = NoEvent
    Delay = 1
    TimeMax = 2
    CrashMax = 1
INVARIANTS
    TypeOK
    FinalizedOnce
    OutcomeTold
    NeverVanishes
CHECK_DEADLOCK FALSE
PROPERTIES
    EveryEventSettles
