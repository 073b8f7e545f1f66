------------------------ MODULE MCAllocationService -------------------------
(* A small instance of AllocationService for TLC.                          *)
EXTENDS AllocationService, TLC

CONSTANTS s1, s2, f1, f2, d1, d2

SomeDigests == f1 :> 2 @@ f2 :> 1
SymmetryOfTwo == Permutations({s1, s2})
=============================================================================
