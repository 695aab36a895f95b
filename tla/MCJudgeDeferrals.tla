------------------------- MODULE MCJudgeDeferrals -------------------------
(* Two units and two passes, one edit, one judge run or one fault.          *)
EXTENDS JudgeDeferrals, TLC

CONSTANTS p1, p2

(* The first unit has two texts, the second has one.                     *)
MCIdentities == <<{1, 2}, {1}>>

Allow(edits, runs, faults) == [edits |-> edits, runs |-> runs, faults |-> faults]

MCAllowances == {Allow(1, 0, 0), Allow(0, 1, 0), Allow(0, 0, 1)}

MCPassSymmetry == Permutations(Passes)
=============================================================================
