CONSTANTS
    d1 = d1
    d2 = d2
    d3 = d3
    x1 = x1
    x2 = x2
    x3 = x3
    Proxies = {x1, x2, x3}
    NoProxy = NoProxy
    Dbs = {d1, d2, d3}
    Info <- MCInfo
    MaxHits = 2
    PresentCap = 2
    PiggyBounds <- MCPiggyBounds
    MaxPkgs = 5
    InFlight = 2
SPECIFICATION FairSpec
INVARIANTS
    Consistent
    RightRecords
    ProxiesTried
PROPERTY
    EveryPackageAnswered
\* Clients send a bounded number of packages and stop.
CHECK_DEADLOCK FALSE
