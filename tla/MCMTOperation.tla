--------------------------- MODULE MCMTOperation ---------------------------
(* Small instances of the durable MT operations for TLC.                    *)
EXTENDS MTOperation, TLC

CONSTANTS o1, o2, u1, u2, w1, w2

(* One receipt for one unit.                                                *)
MCSingle == {[o \in {o1} |-> {u1}]}

(* Two receipts that want the same unit, or one receipt for two units:      *)
(* closed under the permutations of units and receipts, a symmetry as long  *)
(* as all receipts are delegated or none is.                                *)
MCShared(u) == [o \in Operations |-> {u}]
MCPair(p) == [o \in Operations |-> IF o = p THEN Units ELSE {}]
MCSeveral == {MCShared(u) : u \in Units} \cup {MCPair(p) : p \in Operations}
MCSymmetry == Permutations(Units) \cup Permutations(Operations)
=============================================================================
