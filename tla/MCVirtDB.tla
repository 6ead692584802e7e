------------------------------ MODULE MCVirtDB ------------------------------
EXTENDS VirtDB

CONSTANTS a, b, c, x, t1, t2, t3

MCMaps == << [match |-> {a}, targets |-> {t1}, route |-> "r1"],
             [match |-> {b}, targets |-> {t1, t2}, route |-> "r1"],
             [match |-> {c}, targets |-> {t3}, route |-> "r2"] >>
MCDbLists == {<<b>>, <<a, b>>, <<a, c>>, <<x>>}
=============================================================================
