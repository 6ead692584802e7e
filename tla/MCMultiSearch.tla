--------------------------- MODULE MCMultiSearch ----------------------------
EXTENDS MultiSearch

CONSTANTS t1, t2

\* Terms 1 .. 5; t2 has counts that t1 has not, so that a sum tells its parts
MCIndex == t1 :> <<1, 1, 0, 1, 0>> @@ t2 :> <<0, 2, 2, 0, 2>>
MCTargetLists == {<< >>, <<t2>>, <<t1, t2, t2>>}
MCScanArgs == {a \in [term : 2 .. 4, number : 2 .. 4, position : 0 .. 4] :
                  a.position <= a.number + 1}
MCPiggyBounds == {[small |-> 0, large |-> 1, medium |-> 0],
                  [small |-> 1, large |-> 3, medium |-> 1]}
=============================================================================
