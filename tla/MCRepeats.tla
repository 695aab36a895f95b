----------------------------- MODULE MCRepeats -----------------------------
(* A small instance of both repeat workflows for TLC: two groups with one   *)
(* editable unit each.                                                      *)
EXTENDS Repeats, TLC

CONSTANTS u1, u2, w1, w2, n1

MCGroupOf == [u \in Units |-> IF u = u2 THEN 2 ELSE 1]

Allow(people, recommend, bulk) ==
    [kind \in {"people", "recommend", "bulk"} |->
        CASE kind = "people" -> people [] kind = "recommend" -> recommend [] OTHER -> bulk]

(* Two plans beside one edit; a plan, a batch and an edit; a batch that is  *)
(* undone or fails beside two edits; start, fault, undo and resume with one *)
(* edit; one more fault or request without any.                             *)
MCAllowances ==
    {Allow(1, 2, 0), Allow(1, 1, 2), Allow(2, 0, 3), Allow(1, 0, 4), Allow(0, 0, 5)}

MCWorkerSymmetry == Permutations(Workers)
=============================================================================
