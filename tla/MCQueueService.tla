--------------------------- MODULE MCQueueService ---------------------------
(* Small instances of QueueService for TLC.                                *)
EXTENDS QueueInvariant, TLC

CONSTANTS s1, s2, f1, f2, o1, oForeign, cLocal, cForeign

SymmetryOfTwo == Permutations({s1, s2}) \union Permutations({f1, f2})

=============================================================================
