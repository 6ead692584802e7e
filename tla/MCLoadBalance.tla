--------------------------- MODULE MCLoadBalance ----------------------------
EXTENDS LoadBalance

CONSTANTS s1, s2

MCMaxPkgs == [s \in Sessions |-> IF s = s1 THEN 3 ELSE 1]
=============================================================================
