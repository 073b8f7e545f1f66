---------------------------- MODULE MCMigrations ----------------------------
(* Small instances of Migrations for TLC.                                  *)
EXTENDS Migrations

CONSTANTS m1, m2

SymmetryOfTwo == Permutations({m1, m2})
=============================================================================
