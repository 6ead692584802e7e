SPECIFICATION FairBalanceSpec
CONSTANTS
    s1 = s1
    s2 = s2
    Sessions = {s1, s2}
    Targets = {1, 2}
    MaxPkgs <- MCMaxPkgs
INVARIANTS
    StatsBounded
    EndedOnce
PROPERTIES
    EveryInitAnswered
\* Clients send a bounded number of packages and stop.
CHECK_DEADLOCK FALSE
