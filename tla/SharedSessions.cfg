CONSTANTS
    Us = us
    Others = {o}
    NoAuth = none
    Auths = {none, a}
    OtherInfos = {v}
    IgnoreAuth = FALSE
    SessionsPerClass = 2
    MaxClasses = 3
    MaxPkgs = 3
    InFlight = 2
SPECIFICATION SharedSpec
INVARIANTS
    NoStrandedSessions
    OwnCredentials
\* Clients send a bounded number of packages and stop.
CHECK_DEADLOCK FALSE
