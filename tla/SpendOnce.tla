----------------------------- MODULE SpendOnce -----------------------------
(***************************************************************************)
(* What the delivery journal promises about money: a batch of work is      *)
(* claimed as a whole, committed to one paid request at most once, may get *)
(* one answer, and is never free again.  It says nothing of processes,     *)
(* leases, files or crashes; LLMDelivery implements it.                    *)
(***************************************************************************)
EXTENDS Naturals

CONSTANTS Works, Answers, None

VARIABLES spend,  \* "free", then "claimed", then "committed" to the provider
          answer  \* None, then an answer, then "forgotten"

abstractVars == <<spend, answer>>

SpendTypeOK ==
    /\ spend \in [Works -> {"free", "claimed", "committed"}]
    /\ answer \in [Works -> Answers \cup {None, "forgotten"}]

Init ==
    /\ spend = [k \in Works |-> "free"]
    /\ answer = [k \in Works |-> None]

Are(batch, stage) == \A k \in batch : spend[k] = stage

Claim(batch) ==
    /\ Are(batch, "free")
    /\ spend' = [k \in Works |-> IF k \in batch THEN "claimed" ELSE spend[k]]
    /\ UNCHANGED answer

Commit(batch) ==
    /\ Are(batch, "claimed")
    /\ spend' = [k \in Works |-> IF k \in batch THEN "committed" ELSE spend[k]]
    /\ UNCHANGED answer

Answer(batch, b) ==
    /\ Are(batch, "committed")
    /\ \A k \in batch : answer[k] = None
    /\ answer' = [k \in Works |-> IF k \in batch THEN b ELSE answer[k]]
    /\ UNCHANGED spend

Forget(batch) ==
    /\ \A k \in batch : answer[k] \in Answers
    /\ answer' = [k \in Works |-> IF k \in batch THEN "forgotten" ELSE answer[k]]
    /\ UNCHANGED spend

Next == \E batch \in SUBSET Works :
            \/ Claim(batch) \/ Commit(batch) \/ Forget(batch)
            \/ \E b \in Answers : Answer(batch, b)

Spec == Init /\ [][Next]_abstractVars
=============================================================================
