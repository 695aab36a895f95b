--------------------------- MODULE MCCommitQueue ---------------------------
(* Small instances of the commit queue for TLC.                             *)
EXTENDS CommitQueue, TLC

CONSTANTS c1, c2, t1, t2, t3, r1, r2

MCSymmetry == Permutations(Tasks) \cup Permutations(Callers) \cup Permutations(Changes)
=============================================================================
