SPECIFICATION FairSpec
CONSTANTS
    l1 = l1
    l2 = l2
    r1 = r1
    r2 = r2
    o1 = o1
    j1 = j1
    j2 = j2
    Local = {l1}
    Remote = {r1}
    Old = {}
    Joins = {j1}
    NoEvent = NoEvent
    FailMax = 2
    CrashMax = 1
    ReauthAttempts = 2
    Anchored = TRUE
    GiveUp = TRUE
INVARIANTS
    TypeOK
    MarkersGuardState
    NothingOverwritten
    NewServersServed
    DeferredSurfaces
PROPERTIES
    WaiterReleased
CHECK_DEADLOCK FALSE
