-------------------------- MODULE MCCentreQueries ---------------------------
(* A small instance of CentreQueries for TLC.                              *)
EXTENDS CentreQueries, TLC

CONSTANTS c1, c2, f1, h1, o1

OwnerOfHolding == h1 :> f1
AssignedTo == o1 :> c1
=============================================================================
