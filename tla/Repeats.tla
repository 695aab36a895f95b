------------------------------ MODULE Repeats ------------------------------
(***************************************************************************)
(* Repeat recommendations and bulk apply over the same groups, with people *)
(* who edit, approve, decide and undo meanwhile.  A decision makes results *)
(* stale, an undo opens its group again, and a batch may only start from   *)
(* results that are current.                                               *)
(***************************************************************************)
EXTENDS RepeatRecommendations, RepeatBulk

vars == <<groupVars, recommendVars, bulkVars>>

Init == GroupsInit /\ RecommendInit /\ BulkInit

Next ==
    \/ PeopleNext /\ UNCHANGED <<recommendVars, bulkVars>>
    \/ RecommendNext /\ UNCHANGED bulkVars
    \/ BulkNext(CurrentGroups) /\ UNCHANGED recommendVars

Spec == Init /\ [][Next]_vars

TypeOK == GroupsTypeOK /\ RecommendTypeOK /\ BulkTypeOK
-----------------------------------------------------------------------------
Paid == {"sent", "completed", "unknown"}

Shares(a, b, g) == /\ attempt[a].frozen[g] # None
                   /\ attempt[a].frozen[g] = attempt[b].frozen[g]

Earlier(a, b) == a[1] < b[1] \/ (a[1] = b[1] /\ a[2] < b[2])

(* An attempt is sent once however often its message is delivered, and the  *)
(* same unchanged context is never sent in two attempts, unless the earlier *)
(* one may have failed and a person consented to send it again, or the plan *)
(* of the later one was overtaken: the group changed or its results arrived *)
(* between the statements that read them.                                   *)
NeverRepurchased ==
    /\ \A a \in Attempts : transports[a] <= 1
    /\ \A a, b \in Attempts, g \in Groups :
          Earlier(a, b) /\ Shares(a, b, g) =>
             /\ ~(attempt[a].status \in Open /\ attempt[b].status \in Open)
             /\ attempt[a].status \in Paid /\ attempt[b].status \in Paid =>
                   \/ attempt[a].status = "unknown" /\ attempt[b].retry
                   \/ g \in attempt[b].missed

(* As soon as nobody is about to finalize it, a run that waits for an       *)
(* attempt says so, a run whose attempts have all ended does not wait, and  *)
(* "completed" means that every answer arrived.  Only a process that died   *)
(* between its outcome and finalize_run leaves a wrong status behind.       *)
Finalized(r) ==
    /\ run[r].status # "absent" /\ r \notin recovering \cup orphaned
    /\ \A w \in Workers : sender[w].pc = "stored" => sender[w].attempt[1] # r

RunsSettle ==
    \A r \in Runs : Finalized(r) =>
        /\ run[r].status = "running" <=> Statuses(r) \cap Open # {} /\ ~run[r].cancelled
        /\ run[r].status = "completed" => Statuses(r) \subseteq {"completed"}

(* A batch writes a unit only while the whole group is as it was reviewed.  *)
ReviewedTextOnly ==
    [][\A n \in Reviews, g \in Groups :
          batch'[Applies(n)].item[g].status = "applied" /\ batch[Applies(n)].item[g].status # "applied"
          => Context(g) = review[n][g] ]_vars

(* What a batch item came to is never changed, whatever is delivered,       *)
(* submitted or started twice: an applied item keeps the event by which it  *)
(* can be undone.                                                           *)
SettledItemsStay ==
    [][\A b \in Batches, g \in Groups :
          batch[b].item[g].status \in {"applied", "skipped", "undone"}
          => batch'[b].item[g] = batch[b].item[g] ]_vars

(* An undo takes back only what the undone decision wrote: not an approved  *)
(* text, not another text of a person, not what a later decision wrote.     *)
UndoKeepsLaterWork ==
    [][\A g \in Groups, u \in Units :
          /\ GroupOf[u] = g /\ unit'[u] # unit[u]
          /\ group'[g].revision # group[g].revision /\ group'[g].decision = "open"
          => /\ ~unit[u].approved /\ unit[u].text = "shared"
             /\ \E e \in event[g] : /\ e.revision + 1 = group[g].revision
                                    /\ u \in e.written /\ unit'[u].text = e.old[u]
                                    /\ author[u] \in {0, e.revision} ]_vars

(* Once an apply batch has an undo batch it applies nothing more, unless a  *)
(* resume had checked for the undo before it was created and saved later.   *)
UndoneBatchStops ==
    [][\A n \in Reviews \ overtaken :
          batch[Undoes(n)].status # "absent" => Applied(n)' = Applied(n) ]_vars
=============================================================================
