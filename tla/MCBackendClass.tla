--------------------------- MODULE MCBackendClass ---------------------------
EXTENDS BackendClass, TLC

CONSTANTS t1, t2, b1, b2, q1, q2, d1, d2

MCDbOf == q1 :> d1 @@ q2 :> d2
=============================================================================
