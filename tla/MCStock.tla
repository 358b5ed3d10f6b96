------------------------------- MODULE MCStock -------------------------------
(* Two items, one order and five requests.                                  *)
EXTENDS Stock, TLC

CONSTANTS i1, i2, o1, r1, r2, r3, r4, r5

MCInitial == i1 :> 1 @@ i2 :> 0
MCDeltas  == {-1, 1}
MCBaskets == {i1 :> 1 @@ i2 :> 2}
MCSymmetry == Permutations(Requests)
=============================================================================
