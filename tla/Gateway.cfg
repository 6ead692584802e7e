CONSTANTS
    MaxPkgs = 4
    InFlight = 2
    Hits = 4
    Prefetch = 3
    Key <- MCKey
    Supported = {"xml"}
    Confs <- MCConfs
    Granted = {"own"}
    HttpRequests <- MCHttpRequests
    MaxRecs = 3
SPECIFICATION FairSpec
INVARIANTS
    RightRecords
    Forgotten
    Authorised
PROPERTIES
    EveryPackageAnswered
\* Clients send a bounded number of packages and stop.
CHECK_DEADLOCK FALSE
