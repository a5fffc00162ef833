SPECIFICATION FairSpec
CONSTANTS
    r1 = r1
    r2 = r2
    p1 = p1
    p2 = p2
    Rooms = {r1, r2}
    Peers = {p1, p2}
    Keys <- ThreePairs
    Triggers = {"Explicit", "Periodic", "Activity"}
    MaxTracked = 2
    MaxConcurrent = 2
    MaxPerPeer = 1
    BackoffBase = 1
    BackoffMax = 2
    UnsupportedBackoff = 2
    DigestsBeforeBackoff = 1
    DigestBackoffBase = 1
    DigestBackoffMax = 1
    CounterMax = 2
    TriggerBudget = 2
    ContinuationBudget = 1
INVARIANTS
    TypeOK
    ReadyMatchesQueued
    ConcurrencyLimits
    TrackingBounded
    NoLostTrigger
PROPERTIES
    AdmissionReopens
    FailedIsRetried
    TriggerIsServed
