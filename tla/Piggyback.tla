----------------------------- MODULE Piggyback ------------------------------
(***************************************************************************)
(* mp_util::piggyback (src/src/util.cpp): how many records a Search        *)
(* response carries, from the hit count and the bounds in the request.     *)
(***************************************************************************)
EXTENDS Naturals

\* What a Search request says: smallSetUpperBound, largeSetLowerBound and
\* mediumSetPresentNumber
Bounds == [small : Nat, large : Nat, medium : Nat]

piggyback(bounds, size) ==
    IF size < bounds.small THEN size
    ELSE IF size > bounds.large THEN 0
    ELSE IF bounds.medium > size THEN size ELSE bounds.medium
=============================================================================
