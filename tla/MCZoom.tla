------------------------------- MODULE MCZoom -------------------------------
EXTENDS Zoom, TLC

CONSTANTS d1, d2, d3, x1, x2, x3

MCInfo == d1 :> [proxies |-> <<x1, x2, x3>>, cfProxy |-> NoProxy, retry |-> TRUE,
              content |-> FALSE, explain |-> FALSE]
       @@ d2 :> [proxies |-> << >>, cfProxy |-> x1, retry |-> FALSE,
              content |-> TRUE, explain |-> FALSE]
       @@ d3 :> [proxies |-> << >>, cfProxy |-> NoProxy, retry |-> FALSE,
              content |-> FALSE, explain |-> TRUE]
MCPiggyBounds == {[small |-> 0, large |-> 1, medium |-> 0],
                  [small |-> 1, large |-> 2, medium |-> 3]}
=============================================================================
