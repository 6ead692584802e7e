CONSTANTS
    t1 = t1
    t2 = t2
    MaxPkgs = 4
    InFlight = 2
    SetNames = {"default"}
    TargetLists <- MCTargetLists
    MaxHits = 1
    Index <- MCIndex
    PiggyBounds <- MCPiggyBounds
    ScanArgs <- MCScanArgs
SPECIFICATION Spec
INVARIANTS
    SetsMatchTargets
    NoBackendLeft
    ScanExact
\* Clients send a bounded number of packages and stop.
CHECK_DEADLOCK FALSE
