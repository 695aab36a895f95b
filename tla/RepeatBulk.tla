----------------------------- MODULE RepeatBulk -----------------------------
(***************************************************************************)
(* Repeat bulk apply and undo (weblate/trans/repeat_bulk.py): a signed     *)
(* review freezes current recommendations; starting it creates a batch of  *)
(* items; a Celery worker applies them one transaction at a time, in which *)
(* it reads the units twice without their locks before it locks and writes *)
(* them; a finished batch may be undone once, a failed one resumed.        *)
(***************************************************************************)
EXTENDS RepeatGroups

CONSTANTS
    Reviews,   \* nonces of signed reviews
    MaxTasks   \* bound: messages of one batch in the broker

VARIABLES
    review,     \* the manifest: context of each reviewed result, or None
    submitting, \* start_bulk calls that saw no batch for the nonce yet
    batch,      \* RepeatBulkRun with its RepeatBulkItem rows
    tasks,      \* messages of each batch
    worker,     \* process_apply_items and process_undo_items
    resuming,   \* resume_bulk calls between the checks and the save, by the
                \* status they read
    overtaken   \* history: reviews whose resume an undo overtook

bulkVars == <<review, submitting, batch, tasks, worker, resuming, overtaken>>

Batches == Reviews \X {"apply", "undo"}
Applies(n) == <<n, "apply">>
Undoes(n) == <<n, "undo">>

(* item.context is what the item froze, item.revision names its event.      *)
NoItem == [status |-> "none", context |-> None, revision |-> 0]
NoBatch == [status |-> "absent", order |-> <<>>, item |-> [g \in Groups |-> NoItem]]

BatchStatus == {"absent", "queued", "running", "completed", "failed"}
ItemStatus == {"none", "pending", "applied", "skipped", "undone"}

(* seen: the fingerprints of the preview a worker holds.                    *)
IdleWorker == [pc |-> "idle", batch |-> None, group |-> None, seen |-> None]

ItemRow == [status : ItemStatus, context : Contexts \cup {None}, revision : Nat]

(* Selections of reviewed results, in the order of the request.             *)
Selections == {s \in UNION {[1 .. k -> Groups] : k \in 1 .. Cardinality(Groups)} :
                  \A i, j \in DOMAIN s : s[i] = s[j] => i = j}
GroupsIn(s) == {s[i] : i \in DOMAIN s}

BatchRow == [status : BatchStatus, order : Selections \cup {<<>>}, item : [Groups -> ItemRow]]
WorkerRow == [pc : {"idle", "next", "item", "preview", "write", "failing"},
              batch : Batches \cup {None}, group : Groups \cup {None},
              seen : Contexts \cup {None}]
InTransaction == {"item", "preview", "write"}

(* Applied and undone items, and those to be undone, name their events.     *)
NamesEvent(b, status) == status \in {"applied", "undone"} \/ (b[2] = "undo" /\ status = "pending")
EventsKnown ==
    \A b \in Batches, g \in Groups : NamesEvent(b, batch[b].item[g].status)
        => \E e \in event[g] : e.revision = batch[b].item[g].revision

BulkTypeOK ==
    /\ review \in [Reviews -> [Groups -> Contexts \cup {None}]]
    /\ submitting \in [Reviews -> SUBSET Selections]
    /\ batch \in [Batches -> BatchRow]
    /\ EventsKnown
    /\ tasks \in [Batches -> Nat]
    /\ worker \in [Workers -> WorkerRow]
    /\ \A w \in Workers : /\ worker[w].pc # "idle" => worker[w].batch \in Batches
                          /\ worker[w].pc \in InTransaction => worker[w].group \in Groups
    /\ resuming \in [Batches -> [{"failed", "open"} -> Nat]]
    /\ overtaken \subseteq Reviews

BulkInit ==
    /\ review = [n \in Reviews |-> [g \in Groups |-> None]]
    /\ submitting = [n \in Reviews |-> {}]
    /\ batch = [b \in Batches |-> NoBatch]
    /\ tasks = [b \in Batches |-> 0]
    /\ worker = [w \in Workers |-> IdleWorker]
    /\ resuming = [b \in Batches |-> [seen \in {"failed", "open"} |-> 0]]
    /\ overtaken = {}

(* The row lock of the batch is held from the choice of an item to the end  *)
(* of its transaction.                                                      *)
MutRunUnlocked(b) == TRUE
RunUnlocked(b) == \A w \in Workers : worker[w].batch = b => worker[w].pc \notin InTransaction

Pending(b) == {g \in Groups : batch[b].item[g].status = "pending"}

(* The pending item with the lowest ordinal.                                *)
IsFirst(b, g) == /\ g \in Pending(b)
                 /\ \E k \in DOMAIN batch[b].order :
                       /\ batch[b].order[k] = g
                       /\ \A j \in 1 .. k - 1 : batch[b].order[j] \notin Pending(b)

(* queue_bulk_run: the broker may refuse, which only resume repairs.        *)
Publish(b) == \E sent \in {0, 1} : /\ tasks[b] + sent <= MaxTasks
                                   /\ tasks' = [tasks EXCEPT ![b] = @ + sent]
-----------------------------------------------------------------------------
(* Requests.  currentGroups: those with a current recommendation.          *)

(* plan_bulk                                                                *)
PlanBulk(n, currentGroups) ==
    /\ Request("bulk")
    /\ permitted
    /\ currentGroups # {} /\ review[n] = [g \in Groups |-> None]
    /\ review' = [review EXCEPT ![n] = [g \in Groups |->
                    IF g \in currentGroups THEN Context(g) ELSE None]]
    /\ UNCHANGED <<unit, group, event, permitted, policyLock, author, touched>>
    /\ UNCHANGED <<submitting, batch, tasks, worker, resuming, overtaken>>

(* start_bulk up to its transaction: no batch has the nonce, and each       *)
(* selected result is still current.                                        *)
StartReads(n, selection) ==
    /\ Request("bulk")
    /\ permitted
    /\ batch[Applies(n)].status = "absent" /\ selection \notin submitting[n]
    /\ \A g \in GroupsIn(selection) : review[n][g] # None /\ review[n][g] = Context(g)
    /\ submitting' = [submitting EXCEPT ![n] = @ \cup {selection}]
    /\ UNCHANGED <<unit, group, event, permitted, policyLock, author, touched>>
    /\ UNCHANGED <<review, batch, tasks, worker, resuming, overtaken>>

(* The unique nonce admits one batch; the others return it.                 *)
NonceFree(n) == batch[Applies(n)].status = "absent"

StartCreates(n, selection) ==
    LET b == Applies(n) IN
    /\ selection \in submitting[n]
    /\ submitting' = [submitting EXCEPT ![n] = @ \ {selection}]
    /\ IF NonceFree(n)
       THEN /\ batch' = [batch EXCEPT ![b] =
                 [status |-> "queued", order |-> selection,
                  item |-> [g \in Groups |-> IF g \notin GroupsIn(selection) THEN NoItem
                                ELSE [status |-> "pending", context |-> review[n][g], revision |-> 0]]]]
            /\ Publish(b)
       ELSE UNCHANGED <<batch, tasks>>
    /\ UNCHANGED groupVars
    /\ UNCHANGED <<review, worker, resuming, overtaken>>

(* start_undo, under the lock of the batch: items for its committed events  *)
(* in the same order, or the undo batch that exists already.  Whoever has   *)
(* project.edit may undo or resume, whatever the actor of the batch may do. *)
MutUndoable(n) == batch[Applies(n)].status \in BatchStatus
Undoable(n) == batch[Applies(n)].status \in {"completed", "failed"}

Applied(n) == {g \in Groups : batch[Applies(n)].item[g].status = "applied"}

Resumes(b) == \E seen \in {"failed", "open"} : resuming[b][seen] > 0

StartUndo(n) ==
    LET b == Undoes(n) IN
    /\ Request("bulk")
    /\ RunUnlocked(Applies(n)) /\ Undoable(n) /\ Applied(n) # {}
    /\ batch' = IF batch[b].status # "absent" THEN batch
                ELSE [batch EXCEPT ![b] =
                       [status |-> "queued", order |-> batch[Applies(n)].order,
                        item |-> [g \in Groups |-> IF g \notin Applied(n) THEN NoItem
                                    ELSE [batch[Applies(n)].item[g] EXCEPT !.status = "pending"]]]]
    /\ overtaken' = IF Resumes(Applies(n)) THEN overtaken \cup {n} ELSE overtaken
    /\ Publish(b)
    /\ UNCHANGED <<unit, group, event, permitted, policyLock, author, touched>>
    /\ UNCHANGED <<review, submitting, worker, resuming>>

(* resume_bulk reads without a lock and saves what it read.                 *)
Resumable(n, kind) ==
    /\ Pending(<<n, kind>>) # {}
    /\ kind = "apply" => batch[Undoes(n)].status = "absent"

ResumeReads(n, kind) ==
    LET b == <<n, kind>> IN
    /\ Request("bulk")
    /\ Resumable(n, kind)
    /\ LET seen == IF batch[b].status = "failed" THEN "failed" ELSE "open"
       IN  resuming' = [resuming EXCEPT ![b][seen] = @ + 1]
    /\ UNCHANGED <<unit, group, event, permitted, policyLock, author, touched>>
    /\ UNCHANGED <<review, submitting, batch, tasks, worker, overtaken>>

ResumeSaves(b, seen) ==
    /\ resuming[b][seen] > 0
    /\ IF seen = "failed"
       THEN RunUnlocked(b) /\ batch' = [batch EXCEPT ![b].status = "queued"]
       ELSE UNCHANGED batch
    /\ resuming' = [resuming EXCEPT ![b][seen] = @ - 1]
    /\ Publish(b)
    /\ UNCHANGED groupVars
    /\ UNCHANGED <<review, submitting, worker, overtaken>>
-----------------------------------------------------------------------------
(* Workers.                                                                *)

At(w, point) == worker[w].pc = point
Kind(w) == worker[w].batch[2]
Return(w) == worker' = [worker EXCEPT ![w] = IdleWorker]
Goto(w, point, g) ==
    worker' = [worker EXCEPT ![w] = [@ EXCEPT !.pc = point, !.group = g, !.seen = None]]

Receive(w, b) ==
    /\ At(w, "idle") /\ tasks[b] > 0
    /\ tasks' = [tasks EXCEPT ![b] = @ - 1]
    /\ worker' = [worker EXCEPT ![w] = [IdleWorker EXCEPT !.pc = "next", !.batch = b]]
    /\ UNCHANGED groupVars
    /\ UNCHANGED <<review, submitting, batch, resuming, overtaken>>

IsOpen(b) == batch[b].status \in {"queued", "running"}

(* process_next_*_item: the batch is locked and its first pending item      *)
(* chosen; or the batch is over, complete, or its actor lost the right.     *)
ChooseItem(w) ==
    LET b == worker[w].batch IN
    /\ At(w, "next") /\ RunUnlocked(b)
    /\ IsOpen(b) /\ permitted
    /\ \E g \in Groups : IsFirst(b, g) /\ Goto(w, "item", g)
    /\ UNCHANGED groupVars
    /\ UNCHANGED <<review, submitting, batch, tasks, resuming, overtaken>>

EndBatch(w) ==
    LET b == worker[w].batch IN
    /\ At(w, "next") /\ RunUnlocked(b)
    /\ ~IsOpen(b) \/ Pending(b) = {} \/ ~permitted
    /\ batch' = IF ~IsOpen(b) THEN batch
                ELSE [batch EXCEPT ![b].status = IF Pending(b) = {} THEN "completed" ELSE "failed"]
    /\ Return(w)
    /\ UNCHANGED groupVars
    /\ UNCHANGED <<review, submitting, tasks, resuming, overtaken>>

(* The transaction of the item commits with this status.                    *)
Settle(w, status, revision) ==
    LET b == worker[w].batch
        g == worker[w].group
        settled == [status |-> status, context |-> batch[b].item[g].context, revision |-> revision]
    IN
    /\ batch' = [batch EXCEPT ![b] = [status |-> "running", order |-> batch[b].order,
                                      item |-> [batch[b].item EXCEPT ![g] = settled]]]
    /\ Goto(w, "next", None)
    /\ UNCHANGED <<review, submitting, tasks, resuming, overtaken>>

Skip(w) == Settle(w, "skipped", batch[worker[w].batch].item[worker[w].group].revision)

Frozen(w) == batch[worker[w].batch].item[worker[w].group].context

(* _apply_item_transaction: with the group and its policy locked, the       *)
(* context is rebuilt from units that are not locked.                       *)
LockGroup(w) ==
    LET g == worker[w].group IN
    /\ At(w, "item") /\ Kind(w) = "apply" /\ policyLock = None
    /\ IF Context(g) = Frozen(w)
       THEN /\ Goto(w, "preview", g)
            /\ policyLock' = w
            /\ UNCHANGED <<unit, group, event, permitted, author, touched, allowance>>
            /\ UNCHANGED <<review, submitting, batch, tasks, resuming, overtaken>>
       ELSE Skip(w) /\ UNCHANGED groupVars

(* preview_group reads the units again: they must agree with the context,   *)
(* and leave something to write.                                            *)
PreviewAgrees(w) == Context(worker[w].group) = Frozen(w)

Preview(w) ==
    LET g == worker[w].group IN
    /\ At(w, "preview")
    /\ IF PreviewAgrees(w) /\ Changing(g) # {}
       THEN /\ worker' = [worker EXCEPT ![w] = [@ EXCEPT !.pc = "write", !.seen = Context(g)]]
            /\ UNCHANGED groupVars
            /\ UNCHANGED <<review, submitting, batch, tasks, resuming, overtaken>>
       ELSE /\ Skip(w)
            /\ policyLock' = None
            /\ UNCHANGED <<unit, group, event, permitted, author, touched, allowance>>

(* apply_preview locks the units and compares their fingerprints once more. *)
MutRecipientsUnchanged(w) == TRUE
RecipientsUnchanged(w) == Context(worker[w].group) = worker[w].seen

Write(w) ==
    LET g == worker[w].group IN
    /\ At(w, "write")
    /\ IF RecipientsUnchanged(w)
       THEN /\ ApplyDecision(g)
            /\ Settle(w, "applied", group[g].revision)
            /\ policyLock' = None
            /\ UNCHANGED <<permitted, allowance>>
       ELSE /\ Skip(w)
            /\ policyLock' = None
            /\ UNCHANGED <<unit, group, event, permitted, author, touched, allowance>>

(* undo_event for the event of the item, if no later decision was made.     *)
UndoItem(w) ==
    LET g == worker[w].group
        undone == {e \in event[g] : /\ e.revision = batch[worker[w].batch].item[g].revision
                                    /\ IsLast(g, e) /\ permitted}
    IN
    /\ At(w, "item") /\ Kind(w) = "undo" /\ policyLock = None
    /\ \/ \E e \in undone : /\ UndoDecision(g, e)
                            /\ Settle(w, "undone", e.revision)
                            /\ UNCHANGED <<permitted, policyLock, allowance>>
       \/ undone = {} /\ Skip(w) /\ UNCHANGED groupVars

(* An unexpected error rolls the item back; its handler then fails the      *)
(* batch in a transaction of its own.                                       *)
Unlocks(w) == policyLock' = IF policyLock = w THEN None ELSE policyLock

Raise(w) ==
    /\ Request("bulk")
    /\ worker[w].pc \in InTransaction
    /\ Goto(w, "failing", None)
    /\ Unlocks(w)
    /\ UNCHANGED <<unit, group, event, permitted, author, touched>>
    /\ UNCHANGED <<review, submitting, batch, tasks, resuming, overtaken>>

FailBatch(w) ==
    LET b == worker[w].batch IN
    /\ At(w, "failing") /\ RunUnlocked(b)
    /\ batch' = IF IsOpen(b) THEN [batch EXCEPT ![b].status = "failed"] ELSE batch
    /\ Return(w)
    /\ UNCHANGED groupVars
    /\ UNCHANGED <<review, submitting, tasks, resuming, overtaken>>

(* The message is acknowledged late: the broker delivers it again.          *)
WorkerDies(w) ==
    /\ Request("bulk")
    /\ ~At(w, "idle")
    /\ tasks' = [tasks EXCEPT ![worker[w].batch] = @ + 1]
    /\ Return(w)
    /\ Unlocks(w)
    /\ UNCHANGED <<unit, group, event, permitted, author, touched>>
    /\ UNCHANGED <<review, submitting, batch, resuming, overtaken>>

WorkerNext(w) ==
    \/ \E b \in Batches : Receive(w, b)
    \/ ChooseItem(w) \/ EndBatch(w) \/ LockGroup(w) \/ Preview(w) \/ Write(w)
    \/ UndoItem(w) \/ Raise(w) \/ FailBatch(w) \/ WorkerDies(w)

BulkNext(currentGroups) ==
    \/ \E n \in Reviews :
          \/ PlanBulk(n, currentGroups)
          \/ \E s \in Selections : StartReads(n, s)
          \/ \E s \in submitting[n] : StartCreates(n, s)
          \/ StartUndo(n)
          \/ \E kind \in {"apply", "undo"} : ResumeReads(n, kind)
    \/ \E b \in Batches, seen \in {"failed", "open"} : ResumeSaves(b, seen)
    \/ \E w \in Workers : WorkerNext(w)
=============================================================================
