-------------------------- MODULE MCPooledRequests --------------------------
(* A small instance of PooledRequests for TLC.                             *)
EXTENDS PooledRequests, TLC

CONSTANTS r1, r2, r3, i1, i2, u1

FarmerIsRegistered == u1 :> i1
=============================================================================
