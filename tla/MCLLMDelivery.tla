--------------------------- MODULE MCLLMDelivery ---------------------------
(* Small instances of the delivery journal for TLC.                         *)
EXTENDS LLMDelivery, TLC

CONSTANTS k1, k2, k3, e1, e2, e3, w1, w2, w3, run1, d1, d2, c1, c2, ok, busy

MCWorkerSymmetry == Permutations(Workers) \cup Permutations(Exchanges)

Call(keys, digest, codec) ==
    [keys |-> keys, digest |-> digest, codec |-> codec, run |-> run1,
     replayOnly |-> FALSE, bind |-> FALSE, primary |-> {}]

(* Machine translation: one batch, a retry of it that names another codec   *)
(* and a reconciliation that may only replay.                               *)
Batch == Call({k1, k2}, d1, None)
MCTranslate == {Batch,
                [Batch EXCEPT !.codec = c1],
                [Batch EXCEPT !.codec = c2, !.replayOnly = TRUE]}

(* Judging: the primary stage of one batch and the fallback stage that its  *)
(* transient reply permits, unless k1 has a legacy reservation.  Both       *)
(* overlap the batch above, as a regrouped request would.                   *)
Primary(keys) == [Call(keys, d1, None) EXCEPT !.bind = TRUE]
MCJudge == {Primary({k1}),
            [Primary({k2}) EXCEPT !.digest = d2, !.primary = {k1}]}

MCMix == MCTranslate \cup MCJudge

(* One request of each kind, for the liveness run.                          *)
MCOne == {Primary({k1}), [Call({k1}, d1, c1) EXCEPT !.replayOnly = TRUE]}
=============================================================================
