--------------------------- MODULE MCFrontendNet ---------------------------
EXTENDS FrontendNet, TLC

CONSTANTS c1, c2, c3, p1, p2

\* Two connections of one client, the second refused while the first is
\* counted, beside one of another client.
MCPeerOf == c1 :> p1 @@ c2 :> p1 @@ c3 :> p2
=============================================================================
