-------------------------- MODULE MCPendingChanges --------------------------
(* Small instances of the pending changes of one file for TLC.              *)
EXTENDS PendingChanges, TLC

CONSTANTS u1, u2, a1, a2

MCSymmetry == Permutations(Units) \cup Permutations(Editors)
=============================================================================
