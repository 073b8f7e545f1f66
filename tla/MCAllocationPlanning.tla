------------------------ MODULE MCAllocationPlanning ------------------------
(* A small instance of AllocationPlanning for TLC.                         *)
EXTENDS AllocationPlanning, TLC

CONSTANTS f1, f2, f3, d1, d2

SomeCapacities == {-1, 2, 4}
SomeDigests == f1 :> 2 @@ f2 :> 1 @@ f3 :> 3

\* A candidate that is not eligible, for its date or for its status, is a small one.
SomeIntents ==
    {intent \in Intents :
        \/ intent.date = Cycle /\ intent.status = "APPROVED"
        \/ /\ intent.quantity = 1
           /\ <<intent.date, intent.status>> \in {<<d1, "PENDING">>, <<d2, "APPROVED">>}}
=============================================================================
