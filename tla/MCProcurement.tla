--------------------------- MODULE MCProcurement ----------------------------
(* Small instances of Procurement for TLC.                                 *)
EXTENDS ProcurementInvariant, TLC

CONSTANTS s1, s2, f1, f2, h1, h2, o1, oForeign, d1, d2

OneHoldingEach  == h1 :> f1 @@ h2 :> f2
OwnHolding      == h1 :> f1
SymmetryOfTwo   == Permutations({s1, s2}) \union Permutations({d1, d2})
=============================================================================
