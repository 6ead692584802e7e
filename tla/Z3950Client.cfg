SPECIFICATION FairSpec
CONSTANTS
    s1 = s1
    s2 = s2
    t1 = t1
    Sessions = {s1, s2}
    Targets = {t1}
    TargetOf <- MCTargetOf
    MaxSockets = 1
    ForceClose = TRUE
    MaxPkgs <- MCMaxPkgs
INVARIANTS
    AssocsAccounted
    RightResponse
    EndedForgotten
PROPERTIES
    EveryPackageReturns
\* Clients send a bounded number of packages and stop.
CHECK_DEADLOCK FALSE
