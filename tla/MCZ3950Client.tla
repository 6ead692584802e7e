--------------------------- MODULE MCZ3950Client ----------------------------
EXTENDS Z3950Client

CONSTANTS s1, s2, t1

MCTargetOf == [s \in Sessions |-> t1]
MCMaxPkgs == [s \in Sessions |-> IF s = s1 THEN 3 ELSE 1]
=============================================================================
