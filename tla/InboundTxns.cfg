SPECIFICATION Spec
CONSTANTS
    k1 = k1
    k2 = k2
    k3 = k3
    a = a
    NoKey = NoKey
    b = b
    p1 = p1
    p2 = p2
    e1 = e1
    Txns = {k1, k2, k3}
    Origins = {a, b}
    origin <- Origin
    Items = {p1, p2, e1}
    pdus <- AllPdus
    content <- Content
    Requests = {q1, q2, q3}
    MaxPerOrigin = 1
    MaxActive = 2
    MaxAge = 2
    MaxEntries = 1
    Interval = 1
    TaskMax = 3
    TimeMax = 3
    Panics = FALSE
    Stops = FALSE
SYMMETRY RequestSymmetry
CHECK_DEADLOCK FALSE
INVARIANTS
    TypeOK
    OneTaskPerTxn
    ActiveIsWorkedOn
    LimitsRespected
    AckedIsHandled
    NoUnexpectedAnswer
    ForgottenForCause
