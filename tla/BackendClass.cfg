CONSTANTS
    t1 = t1
    t2 = t2
    b1 = b1
    b2 = b2
    q1 = q1
    q2 = q2
    d1 = d1
    d2 = d2
    Threads = {t1, t2}
    Backends = {b1, b2}
    NoBackend = NoBackend
    Queries = {q1, q2}
    NoQuery = NoQuery
    Databases = {d1, d2}
    DbOf <- MCDbOf
    SessionMax = 1
    SetMax = 2
    NamedTarget = TRUE
    OptimizeSearch = TRUE
    Restart = TRUE
    MaxReqs = 3
    MaxId = 6
SPECIFICATION FairSpec
INVARIANTS
    SessionsAccounted
    SetsMatchTarget
    RightRecords
    WaiterHasWaker
PROPERTIES
    EveryRequestAnswered
\* Clients make a bounded number of requests and stop.
CHECK_DEADLOCK FALSE
