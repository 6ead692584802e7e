CONSTANTS
    a = a
    b = b
    c = c
    x = x
    t1 = t1
    t2 = t2
    t3 = t3
    MaxPkgs = 5
    InFlight = 2
    SetNames = {"default", "B"}
    DbLists <- MCDbLists
    Maps <- MCMaps
    PassVhosts = TRUE
SPECIFICATION Spec
INVARIANTS
    RightRecords
    NoBackendLeft
\* Clients send a bounded number of packages and stop.
CHECK_DEADLOCK FALSE
