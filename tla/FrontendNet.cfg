CONSTANTS
    c1 = c1
    c2 = c2
    c3 = c3
    p1 = p1
    p2 = p2
    Conns = {c1, c2, c3}
    Peers = {p1, p2}
    PeerOf <- MCPeerOf
    Msgs = {m1, m2, m3}
    ConnectTotal = 1
    LocalAnswers = TRUE
SPECIFICATION FairSpec
INVARIANTS
    CountsExact
    ToldThenDeleted
PROPERTIES
    ShutThenDeleted
\* The loop ends, and connections and packages are used once each.
CHECK_DEADLOCK FALSE
