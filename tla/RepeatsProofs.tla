--------------------------- MODULE RepeatsProofs ---------------------------
(* Machine-checked facts about the repeat workflows, for any number of      *)
(* groups, units, runs, requests, batches and workers.                      *)
EXTENDS Repeats, TLAPS

LEMMA Ids == /\ GroupOf \in [Units -> Groups] /\ Groups \subseteq Nat
             /\ Runs \subseteq Nat /\ Ordinals \subseteq Nat
  BY RepeatAssumption, RunsAssumption

(* What a recommendation or an item freezes is a context.                   *)
LEMMA ContextTyped ==
    ASSUME unit \in [Units -> UnitRow], group \in [Groups -> GroupRow], NEW g \in Groups
    PROVE  Context(g) \in Contexts
<1>1. [u \in Members(g) |-> unit[u]] \in [Members(g) -> UnitRow]
  BY DEF Members
<1>2. [Members(g) -> UnitRow] \in {[Members(h) -> UnitRow] : h \in Groups}
  OBVIOUS
<1>3. [u \in Members(g) |-> unit[u]] \in UNION {[Members(h) -> UnitRow] : h \in Groups}
  BY <1>1, <1>2
<1> QED
  BY <1>3 DEF Context, Contexts

-----------------------------------------------------------------------------
(* Types of the shared rows.                                               *)

LEMMA AllowanceTyped ==
    ASSUME GroupsTypeOK, NEW kind, Request(kind), kind \in {"people", "recommend", "bulk"}
    PROVE  allowance' \in [{"people", "recommend", "bulk"} -> Nat]
  BY DEF GroupsTypeOK, Request

LEMMA SpreadTyped ==
    ASSUME GroupsTypeOK, NEW g \in Groups, NEW S, Spread(g, S)
    PROVE  unit' \in [Units -> UnitRow] /\ author' \in [Units -> Nat]
<1>1. \A u \in Units : [unit[u] EXCEPT !.text = "shared"] \in UnitRow
  BY DEF GroupsTypeOK, UnitRow, Texts
<1>2. group[g].revision \in Nat
  BY DEF GroupsTypeOK, GroupRow
<1> QED
  BY <1>1, <1>2 DEF Spread, GroupsTypeOK

LEMMA DecidedTyped ==
    ASSUME GroupsTypeOK, NEW g \in Groups,
           NEW decision \in {"open", "shared", "independent"}, Decided(g, decision)
    PROVE  group' \in [Groups -> GroupRow] /\ touched' \subseteq Groups
  BY DEF GroupsTypeOK, GroupRow, Decided

LEMMA ApplyTyped ==
    ASSUME GroupsTypeOK, NEW g \in Groups, ApplyDecision(g)
    PROVE  /\ unit' \in [Units -> UnitRow] /\ author' \in [Units -> Nat]
           /\ group' \in [Groups -> GroupRow] /\ touched' \subseteq Groups
           /\ event' \in [Groups -> SUBSET EventRow]
           /\ \A h \in Groups : \A e \in event'[h] : e.written \subseteq Members(h)
           /\ \A h \in Groups : event[h] \subseteq event'[h]
           /\ \E e \in event'[g] : e.revision = group[g].revision
<1> DEFINE new == [revision |-> group[g].revision, written |-> Changing(g),
                   old |-> [u \in Units |-> unit[u].text]]
<1>1. Spread(g, Changing(g)) /\ Decided(g, "shared")
      /\ event' = [event EXCEPT ![g] = @ \cup {new}]
  BY DEF ApplyDecision
<1>2. Changing(g) \subseteq Members(g) /\ Members(g) \subseteq Units
  BY DEF Changing, Members
<1>3. new \in EventRow
  <2>1. group[g].revision \in Nat
    BY DEF GroupsTypeOK, GroupRow
  <2>2. [u \in Units |-> unit[u].text] \in [Units -> Texts]
    BY DEF GroupsTypeOK, UnitRow
  <2> QED
    BY <1>2, <2>1, <2>2 DEF EventRow
<1>4. event \in [Groups -> SUBSET EventRow] /\ new.written = Changing(g)
      /\ new.revision = group[g].revision
      /\ \A h \in Groups : \A e \in event[h] : e.written \subseteq Members(h)
  BY DEF GroupsTypeOK
<1> HIDE DEF new
<1> QED
  BY <1>1, <1>2, <1>3, <1>4, SpreadTyped, DecidedTyped

LEMMA UndoTyped ==
    ASSUME GroupsTypeOK, NEW g \in Groups, NEW e \in event[g], UndoDecision(g, e)
    PROVE  /\ unit' \in [Units -> UnitRow] /\ author' \in [Units -> Nat]
           /\ group' \in [Groups -> GroupRow] /\ touched' \subseteq Groups
           /\ event' = event
<1>1. e \in EventRow
  BY DEF GroupsTypeOK
<1>2. \A u \in Units : [unit[u] EXCEPT !.text = e.old[u]] \in UnitRow
  BY <1>1 DEF GroupsTypeOK, UnitRow, EventRow
<1>3. unit' \in [Units -> UnitRow] /\ author' \in [Units -> Nat]
  BY <1>2 DEF UndoDecision, GroupsTypeOK
<1> QED
  BY <1>3, DecidedTyped DEF UndoDecision

(* Groups that are the same stay well typed.                                *)
LEMMA GroupsUnchanged ==
    ASSUME GroupsTypeOK, UNCHANGED groupVars
    PROVE  GroupsTypeOK' /\ \A h \in Groups : event[h] \subseteq event'[h]
  BY DEF GroupsTypeOK, groupVars

LEMMA PeopleTyped ==
    ASSUME GroupsTypeOK, PeopleNext
    PROVE  GroupsTypeOK' /\ \A h \in Groups : event[h] \subseteq event'[h]
<1>1. CASE \E u \in Units : Approve(u)
  <2> PICK u \in Units : Approve(u)
    BY <1>1
  <2>1. [unit[u] EXCEPT !.approved = TRUE] \in UnitRow /\ GroupOf[u] \in Groups
    BY Ids DEF GroupsTypeOK, UnitRow
  <2> QED
    BY <2>1, AllowanceTyped DEF Approve, GroupsTypeOK
<1>2. CASE \E u \in Units, text \in Texts : Edit(u, text)
  <2> PICK u \in Units, text \in Texts : Edit(u, text)
    BY <1>2
  <2>1. [text |-> text, approved |-> FALSE] \in UnitRow /\ GroupOf[u] \in Groups
    BY Ids DEF UnitRow
  <2> QED
    BY <2>1, AllowanceTyped DEF Edit, GroupsTypeOK
<1>3. CASE RightsChange
  BY <1>3, AllowanceTyped DEF RightsChange, GroupsTypeOK
<1>4. CASE \E g \in Groups : DecideByHand(g)
  BY <1>4, ApplyTyped, AllowanceTyped DEF DecideByHand, GroupsTypeOK
<1>5. CASE \E g \in Groups : KeepIndependent(g)
  BY <1>5, DecidedTyped, AllowanceTyped DEF KeepIndependent, GroupsTypeOK
<1>6. CASE \E g \in Groups : UndoByHand(g)
  BY <1>6, UndoTyped, AllowanceTyped DEF UndoByHand, GroupsTypeOK
<1> QED
  BY <1>1, <1>2, <1>3, <1>4, <1>5, <1>6 DEF PeopleNext
-----------------------------------------------------------------------------
(* Types of the paid recommendations.                                      *)

LEMMA FinalizeTyped ==
    ASSUME RecommendTypeOK, NEW r \in Runs, NEW statuses, NEW cancelled,
           run' = [run EXCEPT ![r].status = Derived(statuses, cancelled)]
    PROVE  run' \in [Runs -> RunRow]
<1>1. Derived(statuses, cancelled) \in {"running", "completed", "unknown", "failed", "cancelled"}
  BY DEF Derived
<1>2. [run[r] EXCEPT !.status = Derived(statuses, cancelled)] \in RunRow
  BY <1>1 DEF RecommendTypeOK, RunRow
<1> QED
  BY <1>2 DEF RecommendTypeOK

LEMMA StatusTyped ==
    ASSUME NEW row \in AttemptRow, NEW s \in {"reserved", "sent", "completed", "unknown", "failed"}
    PROVE  [row EXCEPT !.status = s] \in AttemptRow
  BY DEF AttemptRow

LEMMA RecommendUnchanged ==
    ASSUME RecommendTypeOK, UNCHANGED recommendVars
    PROVE  RecommendTypeOK'
  BY DEF RecommendTypeOK, recommendVars

LEMMA PlanTyped ==
    ASSUME GroupsTypeOK, RecommendTypeOK
    PROVE  /\ \A retry \in BOOLEAN : PlanReadsCurrent(retry) => RecommendTypeOK'
           /\ PlanReadsActive => RecommendTypeOK'
           /\ PlanDies => RecommendTypeOK'
<1>1. ASSUME NEW retry \in BOOLEAN, PlanReadsCurrent(retry) PROVE RecommendTypeOK'
  <2>1. CurrentGroups \subseteq Groups
    BY DEF CurrentGroups
  <2> QED
    BY <1>1, <2>1 DEF RecommendTypeOK, PlanReadsCurrent
<1>2. ASSUME PlanReadsActive PROVE RecommendTypeOK'
  <2>1. Covered(Open) \subseteq Groups \X (Contexts \cup {None})
    BY DEF Covered, RecommendTypeOK, AttemptRow
  <2> QED
    BY <1>2, <2>1 DEF RecommendTypeOK, PlanReadsActive
<1>3. ASSUME PlanDies PROVE RecommendTypeOK'
  BY <1>3 DEF RecommendTypeOK, PlanDies, IdlePlan
<1> QED
  BY <1>1, <1>2, <1>3

LEMMA ReserveTyped ==
    ASSUME GroupsTypeOK, RecommendTypeOK, NEW r \in Runs,
           NEW requested \in [Ordinals -> SUBSET Candidates], NEW published,
           Reserve(r, requested, published)
    PROVE  RecommendTypeOK'
<1>1. run' \in [Runs -> RunRow]
  <2>1. run \in [Runs -> RunRow]
    BY DEF RecommendTypeOK
  <2>2. \A s \in {"completed", "running"} : [run[r] EXCEPT !.status = s] \in RunRow
    BY <2>1 DEF RunRow
  <2>3. \E s \in {"completed", "running"} : run' = [run EXCEPT ![r].status = s]
    BY DEF Reserve
  <2> QED
    BY <2>1, <2>2, <2>3
<1>2. attempt' \in [Attempts -> AttemptRow]
  <2>1. planner.retry \in BOOLEAN /\ touched \in SUBSET Groups
    BY DEF GroupsTypeOK, RecommendTypeOK
  <2>2. \A S : Reservation(S) \in AttemptRow
    BY <2>1, ContextTyped DEF GroupsTypeOK, Reservation, AttemptRow
  <2> QED
    BY <2>2 DEF Reserve, RecommendTypeOK
<1>3. delivery' \in [Attempts -> Nat]
  BY DEF Reserve, RecommendTypeOK
<1>4. planner' \in [pc : {"idle", "current", "active"}, current : SUBSET Groups,
                    active : SUBSET (Groups \X (Contexts \cup {None})), retry : BOOLEAN]
  BY DEF Reserve, IdlePlan
<1> QED
  BY <1>1, <1>2, <1>3, <1>4 DEF Reserve, RecommendTypeOK

LEMMA MessageTyped ==
    ASSUME RecommendTypeOK, NEW w \in Workers, NEW a \in Attempts
    PROVE  /\ Claim(w, a) => RecommendTypeOK'
           /\ Refuse(w, a) => RecommendTypeOK'
           /\ DropDuplicate(w, a) => RecommendTypeOK'
<1>1. Takes(w, a) => delivery' \in [Attempts -> Nat]
  BY DEF Takes, RecommendTypeOK
<1>2. ASSUME Claim(w, a) PROVE RecommendTypeOK'
  <2>1. attempt' \in [Attempts -> AttemptRow]
    BY <1>2, StatusTyped DEF Claim, RecommendTypeOK
  <2> QED
    BY <1>1, <1>2, <2>1 DEF Claim, RecommendTypeOK
<1>3. ASSUME Refuse(w, a) PROVE RecommendTypeOK'
  <2>1. attempt' \in [Attempts -> AttemptRow]
    BY <1>3, StatusTyped DEF Refuse, RecommendTypeOK
  <2>2. a[1] \in Runs
    BY DEF Attempts
  <2>3. run' \in [Runs -> RunRow]
    BY <1>3, <2>2, FinalizeTyped DEF Refuse
  <2> QED
    BY <1>1, <1>3, <2>1, <2>3 DEF Refuse, RecommendTypeOK
<1>4. ASSUME DropDuplicate(w, a) PROVE RecommendTypeOK'
  BY <1>1, <1>4 DEF DropDuplicate, RecommendTypeOK
<1> QED
  BY <1>2, <1>3, <1>4

LEMMA SenderTyped ==
    ASSUME GroupsTypeOK, RecommendTypeOK, NEW w \in Workers
    PROVE  /\ \A outcome \in Ended : Store(w, outcome) => RecommendTypeOK'
           /\ SenderFinalizes(w) => RecommendTypeOK'
           /\ SenderDies(w) => RecommendTypeOK'
<1>1. ASSUME NEW outcome \in Ended, Store(w, outcome) PROVE RecommendTypeOK'
  <2> DEFINE a == sender[w].attempt
  <2>1. a \in Attempts
    BY <1>1 DEF Store, RecommendTypeOK
  <2>2. attempt' \in [Attempts -> AttemptRow]
    BY <1>1, <2>1, StatusTyped DEF Store, RecommendTypeOK, Ended
  <2>3. \A g \in Groups : attempt[a].frozen[g] \in Contexts \cup {None}
    BY <2>1 DEF RecommendTypeOK, AttemptRow
  <2>4. result' \in [Groups -> SUBSET (Contexts \cup {None})]
    BY <1>1, <2>3 DEF Store, RecommendTypeOK
  <2>5. \A g \in Groups : result'[g] \subseteq Contexts
    BY <1>1, <2>3 DEF Store, RecommendTypeOK
  <2>6. sender' \in [Workers -> [pc : {"idle", "sent", "stored"}, attempt : Attempts \cup {None}]]
        /\ \A v \in Workers : sender'[v].pc # "idle" => sender'[v].attempt \in Attempts
    BY <1>1, <2>1 DEF Store, RecommendTypeOK
  <2> QED
    BY <1>1, <2>2, <2>4, <2>5, <2>6 DEF Store, RecommendTypeOK
<1>2. ASSUME SenderFinalizes(w) PROVE RecommendTypeOK'
  <2>1. sender[w].attempt[1] \in Runs
    BY <1>2 DEF SenderFinalizes, RecommendTypeOK, Attempts
  <2>2. run' \in [Runs -> RunRow] /\ orphaned' \subseteq Runs
    BY <1>2, <2>1, FinalizeTyped DEF SenderFinalizes, Finalize, RecommendTypeOK
  <2> QED
    BY <1>2, <2>2 DEF SenderFinalizes, RecommendTypeOK
<1>3. ASSUME SenderDies(w) PROVE RecommendTypeOK'
  <2>1. sender[w].attempt \in Attempts /\ sender[w].attempt[1] \in Runs
    BY <1>3 DEF SenderDies, RecommendTypeOK, Attempts
  <2> QED
    BY <1>3, <2>1 DEF SenderDies, RecommendTypeOK
<1> QED
  BY <1>1, <1>2, <1>3

LEMMA RecoveryTyped ==
    ASSUME RecommendTypeOK, NEW r \in Runs
    PROVE  /\ \A overdue \in SUBSET Ordinals : Reconcile(r, overdue) => RecommendTypeOK'
           /\ RecoveryFinalizes(r) => RecommendTypeOK'
           /\ Requeue(r) => RecommendTypeOK'
           /\ CancelRun(r) => RecommendTypeOK'
<1>1. ASSUME NEW overdue \in SUBSET Ordinals, Reconcile(r, overdue) PROVE RecommendTypeOK'
  <2>1. attempt' \in [Attempts -> AttemptRow]
    BY <1>1, StatusTyped DEF Reconcile, RecommendTypeOK
  <2> QED
    BY <1>1, <2>1 DEF Reconcile, RecommendTypeOK
<1>2. ASSUME RecoveryFinalizes(r) PROVE RecommendTypeOK'
  <2>1. run' \in [Runs -> RunRow] /\ orphaned' \subseteq Runs
    BY <1>2, FinalizeTyped DEF RecoveryFinalizes, Finalize, RecommendTypeOK
  <2> QED
    BY <1>2, <2>1 DEF RecoveryFinalizes, RecommendTypeOK
<1>3. ASSUME Requeue(r) PROVE RecommendTypeOK'
  BY <1>3 DEF Requeue, RecommendTypeOK
<1>4. ASSUME CancelRun(r) PROVE RecommendTypeOK'
  BY <1>4 DEF CancelRun, RecommendTypeOK, RunRow
<1> QED
  BY <1>1, <1>2, <1>3, <1>4

(* A packing sends only candidates.                                         *)
LEMMA PackingTyped ==
    ASSUME NEW cap, NEW f \in Packings(cap)
    PROVE  f \in [Ordinals -> SUBSET Candidates] /\ Candidates \subseteq Groups
  BY DEF Packings, Candidates

LEMMA RecommendTyped ==
    ASSUME GroupsTypeOK, RecommendTypeOK, RecommendNext
    PROVE  RecommendTypeOK'
<1>1. CASE \E retry \in BOOLEAN : PlanReadsCurrent(retry)
  BY <1>1, PlanTyped
<1>2. CASE PlanReadsActive \/ PlanDies
  BY <1>2, PlanTyped
<1>3. CASE \E r \in Runs, cap \in Ordinals : \E requested \in Packings(cap) :
             \E published \in SUBSET {i \in Ordinals : requested[i] # {}} :
                Reserve(r, requested, published)
  BY <1>3, ReserveTyped, PackingTyped
<1>4. CASE \E w \in Workers, a \in Attempts : Claim(w, a) \/ Refuse(w, a) \/ DropDuplicate(w, a)
  BY <1>4, MessageTyped
<1>5. CASE \E w \in Workers : \/ \E outcome \in Ended : Store(w, outcome)
                              \/ SenderFinalizes(w) \/ SenderDies(w)
  BY <1>5, SenderTyped
<1>6. CASE \E r \in Runs : \/ \E overdue \in SUBSET Ordinals : Reconcile(r, overdue)
                           \/ RecoveryFinalizes(r) \/ Requeue(r) \/ CancelRun(r)
  BY <1>6, RecoveryTyped
<1> QED
  BY <1>1, <1>2, <1>3, <1>4, <1>5, <1>6 DEF RecommendNext

(* The steps of the recommendations leave the groups well typed.            *)
LEMMA RecommendGroups ==
    ASSUME GroupsTypeOK, RecommendTypeOK, RecommendNext
    PROVE  /\ GroupsTypeOK'
           /\ event' = event /\ unit' = unit /\ group' = group /\ author' = author
<1>1. CASE \E retry \in BOOLEAN : PlanReadsCurrent(retry)
  BY <1>1, AllowanceTyped DEF PlanReadsCurrent, GroupsTypeOK
<1>2. CASE PlanReadsActive \/ PlanDies
  BY <1>2, AllowanceTyped DEF PlanReadsActive, PlanDies, GroupsTypeOK, groupVars
<1>3. CASE \E r \in Runs, cap \in Ordinals : \E requested \in Packings(cap) :
             \E published \in SUBSET {i \in Ordinals : requested[i] # {}} :
                Reserve(r, requested, published)
  BY <1>3 DEF Reserve, GroupsTypeOK
<1>4. CASE \E w \in Workers, a \in Attempts : Claim(w, a) \/ Refuse(w, a) \/ DropDuplicate(w, a)
  BY <1>4 DEF Claim, Refuse, DropDuplicate, GroupsTypeOK, groupVars
<1>5. CASE \E w \in Workers : \/ \E outcome \in Ended : Store(w, outcome)
                              \/ SenderFinalizes(w) \/ SenderDies(w)
  BY <1>5, AllowanceTyped DEF Store, SenderFinalizes, SenderDies, GroupsTypeOK, groupVars
<1>6. CASE \E r \in Runs : \/ \E overdue \in SUBSET Ordinals : Reconcile(r, overdue)
                           \/ RecoveryFinalizes(r) \/ Requeue(r) \/ CancelRun(r)
  BY <1>6, AllowanceTyped
  DEF Reconcile, RecoveryFinalizes, Requeue, CancelRun, GroupsTypeOK, groupVars
<1> QED
  BY <1>1, <1>2, <1>3, <1>4, <1>5, <1>6 DEF RecommendNext
-----------------------------------------------------------------------------
(* Types of the batches.                                                   *)

LEMMA BatchIds ==
    /\ \A n \in Reviews : Applies(n) \in Batches /\ Undoes(n) \in Batches
                          /\ Applies(n)[2] = "apply" /\ Undoes(n)[2] = "undo"
                          /\ Applies(n) # Undoes(n)
    /\ \A n, m \in Reviews : Applies(n) # Undoes(m)
                             /\ (n # m => Applies(n) # Applies(m) /\ Undoes(n) # Undoes(m))
    /\ \A b \in Batches : \E n \in Reviews : b = Applies(n) \/ b = Undoes(n)
    /\ \A n \in Reviews, kind \in {"apply", "undo"} : <<n, kind>> \in Batches
  BY DEF Batches, Applies, Undoes

LEMMA BulkUnchanged ==
    ASSUME BulkTypeOK, UNCHANGED bulkVars, \A h \in Groups : event[h] \subseteq event'[h]
    PROVE  BulkTypeOK'
<1>1. EventsKnown'
  BY DEF BulkTypeOK, EventsKnown, bulkVars
<1> QED
  BY <1>1 DEF BulkTypeOK, bulkVars

LEMMA PublishTyped ==
    ASSUME BulkTypeOK, NEW b \in Batches, Publish(b)
    PROVE  tasks' \in [Batches -> Nat]
  BY DEF BulkTypeOK, Publish

(* What a batch gets: a new status, or new rows whose events are known.     *)
LEMMA StatusChangeTyped ==
    ASSUME BulkTypeOK, NEW b \in Batches, NEW s \in BatchStatus,
           batch' = [batch EXCEPT ![b].status = s], event' = event
    PROVE  batch' \in [Batches -> BatchRow] /\ EventsKnown'
<1>1. batch \in [Batches -> BatchRow] /\ EventsKnown
  BY DEF BulkTypeOK
<1>2. [batch[b] EXCEPT !.status = s] \in BatchRow /\ [batch[b] EXCEPT !.status = s].item = batch[b].item
  BY <1>1 DEF BatchRow
<1>3. batch' \in [Batches -> BatchRow] /\ \A c \in Batches : batch'[c].item = batch[c].item
  BY <1>1, <1>2
<1> QED
  BY <1>1, <1>3 DEF EventsKnown

LEMMA NewRowsTyped ==
    ASSUME BulkTypeOK, NEW b \in Batches, NEW row \in BatchRow,
           batch' = [batch EXCEPT ![b] = row], event' = event,
           \A g \in Groups :
              NamesEvent(b, row.item[g].status)
              => \E e \in event[g] : e.revision = row.item[g].revision
    PROVE  batch' \in [Batches -> BatchRow] /\ EventsKnown'
<1>1. batch \in [Batches -> BatchRow] /\ EventsKnown
  BY DEF BulkTypeOK
<1>2. batch' \in [Batches -> BatchRow] /\ batch'[b] = row
      /\ \A c \in Batches \ {b} : batch'[c] = batch[c]
  BY <1>1
<1>3. ASSUME NEW c \in Batches, NEW g \in Groups,
             NamesEvent(c, batch'[c].item[g].status)
      PROVE  \E e \in event'[g] : e.revision = batch'[c].item[g].revision
  <2>1. CASE c = b
    BY <1>2, <1>3, <2>1
  <2>2. CASE c # b
    <3>1. batch'[c] = batch[c]
      BY <1>2, <2>2
    <3> QED
      BY <1>1, <1>3, <3>1 DEF EventsKnown
  <2> QED
    BY <2>1, <2>2
<1> QED
  BY <1>2, <1>3 DEF EventsKnown

LEMMA RequestTyped ==
    ASSUME GroupsTypeOK, BulkTypeOK, NEW n \in Reviews, NEW currentGroups \in SUBSET Groups
    PROVE  /\ PlanBulk(n, currentGroups) => BulkTypeOK'
           /\ \A s \in Selections : StartReads(n, s) => BulkTypeOK'
           /\ \A kind \in {"apply", "undo"} : ResumeReads(n, kind) => BulkTypeOK'
<1>1. ASSUME PlanBulk(n, currentGroups) PROVE BulkTypeOK'
  <2>1. [g \in Groups |-> IF g \in currentGroups THEN Context(g) ELSE None]
        \in [Groups -> Contexts \cup {None}]
    BY ContextTyped DEF GroupsTypeOK
  <2>2. review' \in [Reviews -> [Groups -> Contexts \cup {None}]]
    BY <1>1, <2>1 DEF PlanBulk, BulkTypeOK
  <2>3. UNCHANGED <<event, submitting, batch, tasks, worker, resuming, overtaken>>
    BY <1>1 DEF PlanBulk
  <2> QED
    BY <2>2, <2>3 DEF BulkTypeOK, EventsKnown
<1>2. ASSUME NEW s \in Selections, StartReads(n, s) PROVE BulkTypeOK'
  <2>1. submitting' \in [Reviews -> SUBSET Selections]
    BY <1>2 DEF StartReads, BulkTypeOK
  <2>2. UNCHANGED <<event, review, batch, tasks, worker, resuming, overtaken>>
    BY <1>2 DEF StartReads
  <2> QED
    BY <2>1, <2>2 DEF BulkTypeOK, EventsKnown
<1>3. ASSUME NEW kind \in {"apply", "undo"}, ResumeReads(n, kind) PROVE BulkTypeOK'
  <2>1. PICK seen \in {"failed", "open"} :
           resuming' = [resuming EXCEPT ![<<n, kind>>][seen] = @ + 1]
    BY <1>3 DEF ResumeReads
  <2>2. resuming' \in [Batches -> [{"failed", "open"} -> Nat]]
    <3>1. PICK b \in Batches : resuming' = [resuming EXCEPT ![b][seen] = @ + 1]
      BY <2>1, BatchIds
    <3>2. resuming[b][seen] + 1 \in Nat
      BY DEF BulkTypeOK
    <3> QED
      BY <3>1, <3>2 DEF BulkTypeOK
  <2>3. UNCHANGED <<event, review, submitting, batch, tasks, worker, overtaken>>
    BY <1>3 DEF ResumeReads
  <2> QED
    BY <2>2, <2>3 DEF BulkTypeOK, EventsKnown
<1> QED
  BY <1>1, <1>2, <1>3

LEMMA CreateTyped ==
    ASSUME GroupsTypeOK, BulkTypeOK, NEW n \in Reviews, NEW s \in submitting[n],
           StartCreates(n, s)
    PROVE  BulkTypeOK'
<1> DEFINE b == Applies(n)
           items == [g \in Groups |-> IF g \notin GroupsIn(s) THEN NoItem
                        ELSE [status |-> "pending", context |-> review[n][g], revision |-> 0]]
<1>1. b \in Batches /\ b[2] = "apply" /\ s \in Selections
  BY BatchIds DEF BulkTypeOK
<1>2. submitting' \in [Reviews -> SUBSET Selections]
  BY DEF StartCreates, BulkTypeOK
<1>3. UNCHANGED <<event, review, worker, resuming, overtaken>>
  BY DEF StartCreates, groupVars
<1>4. CASE ~NonceFree(n)
  <2>1. UNCHANGED <<batch, tasks>>
    BY <1>4 DEF StartCreates
  <2> QED
    BY <1>2, <1>3, <2>1 DEF BulkTypeOK, EventsKnown
<1>5. CASE NonceFree(n)
  <2>1. \A g \in Groups : review[n][g] \in Contexts \cup {None}
    BY DEF BulkTypeOK
  <2>2. items \in [Groups -> ItemRow]
    BY <2>1 DEF ItemRow, ItemStatus, NoItem
  <2>3. \A g \in Groups : ~NamesEvent(b, items[g].status)
    BY <1>1 DEF NoItem, NamesEvent
  <2>4. batch' = [batch EXCEPT ![b] = [status |-> "queued", order |-> s, item |-> items]]
        /\ Publish(b)
    BY <1>5 DEF StartCreates
  <2>5. tasks' \in [Batches -> Nat]
    BY <1>1, <2>4, PublishTyped
  <2> HIDE DEF items, b
  <2>6. [status |-> "queued", order |-> s, item |-> items] \in BatchRow
    BY <1>1, <2>2 DEF BatchRow, BatchStatus
  <2>7. batch' \in [Batches -> BatchRow] /\ EventsKnown'
    BY <1>1, <1>3, <2>3, <2>4, <2>6, NewRowsTyped
  <2> QED
    BY <1>2, <1>3, <2>5, <2>7 DEF BulkTypeOK
<1> QED
  BY <1>4, <1>5

LEMMA StartUndoTyped ==
    ASSUME GroupsTypeOK, BulkTypeOK, NEW n \in Reviews, StartUndo(n)
    PROVE  BulkTypeOK'
<1> DEFINE b == Undoes(n)
           items == [g \in Groups |-> IF g \notin Applied(n) THEN NoItem
                        ELSE [batch[Applies(n)].item[g] EXCEPT !.status = "pending"]]
<1>1. b \in Batches /\ Applies(n) \in Batches /\ b # Applies(n)
  BY BatchIds
<1>2. tasks' \in [Batches -> Nat]
  BY <1>1, PublishTyped DEF StartUndo
<1>3. overtaken' \subseteq Reviews
  BY DEF StartUndo, BulkTypeOK
<1>4. UNCHANGED <<event, review, submitting, worker, resuming>>
  BY DEF StartUndo
<1>5. CASE batch' = batch
  BY <1>2, <1>3, <1>4, <1>5 DEF BulkTypeOK, EventsKnown
<1>6. CASE batch' # batch
  <2>1. batch' = [batch EXCEPT ![b] = [status |-> "queued", order |-> batch[Applies(n)].order,
                                       item |-> items]]
    BY <1>6 DEF StartUndo
  <2>2. \A g \in Groups : batch[Applies(n)].item[g] \in ItemRow
    BY <1>1 DEF BulkTypeOK, BatchRow
  <2>3. \A g \in Groups : items[g] \in ItemRow
                          /\ (items[g].status # "none" =>
                                 g \in Applied(n) /\ items[g].revision = batch[Applies(n)].item[g].revision)
    BY <2>2 DEF ItemRow, ItemStatus, NoItem
  <2>4. items \in [Groups -> ItemRow]
    BY <2>3
  <2>5. batch[Applies(n)].order \in Selections \cup {<<>>}
    BY <1>1 DEF BulkTypeOK, BatchRow
  <2>6. \A g \in Applied(n) : \E e \in event[g] : e.revision = batch[Applies(n)].item[g].revision
    BY <1>1 DEF Applied, BulkTypeOK, EventsKnown, NamesEvent
  <2>7. \A g \in Groups : NamesEvent(b, items[g].status)
           => \E e \in event[g] : e.revision = items[g].revision
    BY <2>3, <2>6 DEF NamesEvent
  <2> HIDE DEF items, b
  <2>8. [status |-> "queued", order |-> batch[Applies(n)].order, item |-> items] \in BatchRow
    BY <2>4, <2>5 DEF BatchRow, BatchStatus
  <2>9. batch' \in [Batches -> BatchRow] /\ EventsKnown'
    BY <1>1, <1>4, <2>1, <2>7, <2>8, NewRowsTyped
  <2> QED
    BY <1>2, <1>3, <1>4, <2>9 DEF BulkTypeOK
<1> QED
  BY <1>5, <1>6

LEMMA ResumeTyped ==
    ASSUME GroupsTypeOK, BulkTypeOK, NEW b \in Batches, NEW seen \in {"failed", "open"},
           ResumeSaves(b, seen)
    PROVE  BulkTypeOK'
<1>1. tasks' \in [Batches -> Nat]
  BY PublishTyped DEF ResumeSaves
<1>2. resuming' \in [Batches -> [{"failed", "open"} -> Nat]]
  BY DEF ResumeSaves, BulkTypeOK
<1>3. UNCHANGED <<event, review, submitting, worker, overtaken>>
  BY DEF ResumeSaves, groupVars
<1>4. batch' \in [Batches -> BatchRow] /\ EventsKnown'
  <2>1. CASE batch' = batch
    BY <1>3, <2>1 DEF BulkTypeOK, EventsKnown
  <2>2. CASE batch' # batch
    <3>1. batch' = [batch EXCEPT ![b].status = "queued"]
      BY <2>2 DEF ResumeSaves
    <3>2. "queued" \in BatchStatus
      BY DEF BatchStatus
    <3> QED
      BY <1>3, <3>1, <3>2, StatusChangeTyped
  <2> QED
    BY <2>1, <2>2
<1> QED
  BY <1>1, <1>2, <1>3, <1>4 DEF BulkTypeOK

(* A worker that moves stays a worker.                                      *)
LEMMA GotoTyped ==
    ASSUME BulkTypeOK, NEW w \in Workers, NEW g,
           NEW point \in {"next", "item", "failing", "preview"},
           worker[w].batch \in Batches, point \in InTransaction => g \in Groups,
           g \in Groups \cup {None}, Goto(w, point, g)
    PROVE  /\ worker' \in [Workers -> WorkerRow]
           /\ \A v \in Workers : /\ worker'[v].pc # "idle" => worker'[v].batch \in Batches
                                 /\ worker'[v].pc \in InTransaction => worker'[v].group \in Groups
<1>1. worker \in [Workers -> WorkerRow]
  BY DEF BulkTypeOK
<1> DEFINE row == [worker[w] EXCEPT !.pc = point, !.group = g, !.seen = None]
<1>2. row \in WorkerRow /\ row.pc = point /\ row.group = g /\ row.batch = worker[w].batch
  BY <1>1 DEF WorkerRow
<1>3. worker' = [worker EXCEPT ![w] = row]
  BY DEF Goto
<1> HIDE DEF row
<1>4. worker' \in [Workers -> WorkerRow] /\ worker'[w] = row
      /\ \A v \in Workers \ {w} : worker'[v] = worker[v]
  BY <1>1, <1>2, <1>3
<1> QED
  BY <1>2, <1>4 DEF BulkTypeOK

LEMMA ReturnTyped ==
    ASSUME BulkTypeOK, NEW w \in Workers, Return(w)
    PROVE  /\ worker' \in [Workers -> WorkerRow]
           /\ \A v \in Workers : /\ worker'[v].pc # "idle" => worker'[v].batch \in Batches
                                 /\ worker'[v].pc \in InTransaction => worker'[v].group \in Groups
<1>1. IdleWorker \in WorkerRow /\ IdleWorker.pc = "idle"
  BY DEF IdleWorker, WorkerRow
<1> QED
  BY <1>1 DEF BulkTypeOK, Return, IdleWorker, InTransaction

LEMMA SettleTyped ==
    ASSUME BulkTypeOK, NEW w \in Workers, NEW status \in ItemStatus, NEW revision \in Nat,
           worker[w].pc \in InTransaction, Settle(w, status, revision),
           \A h \in Groups : event[h] \subseteq event'[h],
           NamesEvent(worker[w].batch, status)
              => \E e \in event'[worker[w].group] : e.revision = revision
    PROVE  BulkTypeOK'
<1> DEFINE b == worker[w].batch
           g == worker[w].group
           settled == [status |-> status, context |-> batch[b].item[g].context, revision |-> revision]
           items == [batch[b].item EXCEPT ![g] = settled]
           row == [status |-> "running", order |-> batch[b].order, item |-> items]
<1>1. b \in Batches /\ g \in Groups
  BY DEF BulkTypeOK, InTransaction
<1>2. batch \in [Batches -> BatchRow] /\ EventsKnown
  BY DEF BulkTypeOK
<1>3. batch[b].item \in [Groups -> ItemRow] /\ batch[b].order \in Selections \cup {<<>>}
  BY <1>1, <1>2 DEF BatchRow
<1>4. settled \in ItemRow /\ settled.status = status /\ settled.revision = revision
  BY <1>1, <1>3 DEF ItemRow
<1>5. batch' = [batch EXCEPT ![b] = row]
  BY DEF Settle
<1> HIDE DEF settled
<1>6. /\ items \in [Groups -> ItemRow] /\ items[g] = settled
      /\ \A h \in Groups \ {g} : items[h] = batch[b].item[h]
  BY <1>1, <1>3, <1>4
<1> HIDE DEF items
<1>7. row \in BatchRow /\ row.item = items
  BY <1>3, <1>6 DEF BatchRow, BatchStatus
<1> HIDE DEF row
<1>8. batch' \in [Batches -> BatchRow] /\ batch'[b].item = items
      /\ \A c \in Batches \ {b} : batch'[c] = batch[c]
  BY <1>1, <1>2, <1>5, <1>7
<1>9. ASSUME NEW c \in Batches, NEW h \in Groups,
             NamesEvent(c, batch'[c].item[h].status)
      PROVE  \E e \in event'[h] : e.revision = batch'[c].item[h].revision
  <2>1. CASE c = b /\ h = g
    BY <1>4, <1>6, <1>9, <1>8, <2>1
  <2>2. CASE ~(c = b /\ h = g)
    <3>1. batch'[c].item[h] = batch[c].item[h]
      BY <1>6, <1>8, <2>2
    <3> QED
      BY <1>2, <1>9, <3>1 DEF EventsKnown
  <2> QED
    BY <2>1, <2>2
<1>10. EventsKnown'
  BY <1>9 DEF EventsKnown
<1>11. UNCHANGED <<review, submitting, tasks, resuming, overtaken>> /\ Goto(w, "next", None)
  BY DEF Settle
<1>12. /\ worker' \in [Workers -> WorkerRow]
       /\ \A v \in Workers : /\ worker'[v].pc # "idle" => worker'[v].batch \in Batches
                             /\ worker'[v].pc \in InTransaction => worker'[v].group \in Groups
  <2>1. "next" \notin InTransaction
    BY DEF InTransaction
  <2> QED
    BY <1>1, <1>11, <2>1, GotoTyped
<1> QED
  BY <1>10, <1>11, <1>12, <1>8 DEF BulkTypeOK

LEMMA SkipTyped ==
    ASSUME BulkTypeOK, NEW w \in Workers, worker[w].pc \in InTransaction, Skip(w),
           event' = event
    PROVE  BulkTypeOK'
<1> DEFINE b == worker[w].batch
           g == worker[w].group
<1>1. b \in Batches /\ g \in Groups
  BY DEF BulkTypeOK, InTransaction
<1>2. batch[b].item[g].revision \in Nat
  BY <1>1 DEF BulkTypeOK, BatchRow, ItemRow
<1>3. "skipped" \in ItemStatus /\ ~NamesEvent(b, "skipped")
  BY DEF ItemStatus, NamesEvent
<1> QED
  BY <1>2, <1>3, SettleTyped DEF Skip

(* The steps of a worker that leave the batches alone.                      *)
LEMMA QuietTyped ==
    ASSUME BulkTypeOK, worker' \in [Workers -> WorkerRow],
           \A v \in Workers : /\ worker'[v].pc # "idle" => worker'[v].batch \in Batches
                              /\ worker'[v].pc \in InTransaction => worker'[v].group \in Groups,
           tasks' \in [Batches -> Nat],
           UNCHANGED <<event, review, submitting, batch, resuming, overtaken>>
    PROVE  BulkTypeOK'
  BY DEF BulkTypeOK, EventsKnown

LEMMA ChoiceTyped ==
    ASSUME GroupsTypeOK, BulkTypeOK, NEW w \in Workers
    PROVE  /\ \A b \in Batches : Receive(w, b) => GroupsTypeOK' /\ BulkTypeOK'
           /\ ChooseItem(w) => GroupsTypeOK' /\ BulkTypeOK'
           /\ EndBatch(w) => GroupsTypeOK' /\ BulkTypeOK'
           /\ FailBatch(w) => GroupsTypeOK' /\ BulkTypeOK'
<1>1. ASSUME NEW b \in Batches, Receive(w, b) PROVE GroupsTypeOK' /\ BulkTypeOK'
  <2>1. tasks' \in [Batches -> Nat]
    BY <1>1 DEF Receive, BulkTypeOK
  <2>2. [IdleWorker EXCEPT !.pc = "next", !.batch = b] \in WorkerRow
        /\ [IdleWorker EXCEPT !.pc = "next", !.batch = b].pc = "next"
        /\ [IdleWorker EXCEPT !.pc = "next", !.batch = b].batch = b
    BY DEF IdleWorker, WorkerRow
  <2>3. /\ worker' \in [Workers -> WorkerRow]
        /\ \A v \in Workers : /\ worker'[v].pc # "idle" => worker'[v].batch \in Batches
                              /\ worker'[v].pc \in InTransaction => worker'[v].group \in Groups
    BY <1>1, <2>2 DEF Receive, BulkTypeOK, InTransaction
  <2>4. UNCHANGED groupVars /\ UNCHANGED <<event, review, submitting, batch, resuming, overtaken>>
    BY <1>1 DEF Receive, groupVars
  <2> QED
    BY <2>1, <2>3, <2>4, QuietTyped, GroupsUnchanged
<1>2. ASSUME ChooseItem(w) PROVE GroupsTypeOK' /\ BulkTypeOK'
  <2>1. PICK g \in Groups : Goto(w, "item", g)
    BY <1>2 DEF ChooseItem
  <2>2. worker[w].batch \in Batches
    BY <1>2 DEF ChooseItem, At, BulkTypeOK
  <2>3. UNCHANGED groupVars /\ tasks' \in [Batches -> Nat]
        /\ UNCHANGED <<event, review, submitting, batch, resuming, overtaken>>
    BY <1>2 DEF ChooseItem, groupVars, BulkTypeOK
  <2> QED
    BY <2>1, <2>2, <2>3, GotoTyped, QuietTyped, GroupsUnchanged
<1>3. ASSUME NEW s \in BatchStatus, Return(w), UNCHANGED groupVars,
             UNCHANGED <<review, submitting, tasks, resuming, overtaken>>,
             batch' = batch \/ (worker[w].batch \in Batches /\ batch' = [batch EXCEPT ![worker[w].batch].status = s])
      PROVE  GroupsTypeOK' /\ BulkTypeOK'
  <2>1. event' = event /\ GroupsTypeOK'
    BY <1>3, GroupsUnchanged DEF groupVars
  <2>2. batch' \in [Batches -> BatchRow] /\ EventsKnown'
    <3>1. CASE batch' = batch
      BY <2>1, <3>1 DEF BulkTypeOK, EventsKnown
    <3>2. CASE batch' # batch
      BY <1>3, <2>1, <3>2, StatusChangeTyped
    <3> QED
      BY <3>1, <3>2
  <2> QED
    BY <1>3, <2>1, <2>2, ReturnTyped DEF BulkTypeOK
<1>4. {"completed", "failed"} \subseteq BatchStatus
  BY DEF BatchStatus
<1>5. ASSUME EndBatch(w) PROVE GroupsTypeOK' /\ BulkTypeOK'
  <2>1. worker[w].batch \in Batches
    BY <1>5 DEF EndBatch, At, BulkTypeOK
  <2>2. \E s \in {"completed", "failed"} :
           batch' = batch \/ batch' = [batch EXCEPT ![worker[w].batch].status = s]
    BY <1>5 DEF EndBatch
  <2> QED
    BY <1>3, <1>4, <1>5, <2>1, <2>2 DEF EndBatch
<1>6. ASSUME FailBatch(w) PROVE GroupsTypeOK' /\ BulkTypeOK'
  <2>1. worker[w].batch \in Batches
    BY <1>6 DEF FailBatch, At, BulkTypeOK
  <2>2. batch' = batch \/ batch' = [batch EXCEPT ![worker[w].batch].status = "failed"]
    BY <1>6 DEF FailBatch
  <2> QED
    BY <1>3, <1>4, <1>6, <2>1, <2>2 DEF FailBatch
<1> QED
  BY <1>1, <1>2, <1>5, <1>6

LEMMA ApplyItemTyped ==
    ASSUME GroupsTypeOK, BulkTypeOK, NEW w \in Workers
    PROVE  /\ LockGroup(w) => GroupsTypeOK' /\ BulkTypeOK'
           /\ Preview(w) => GroupsTypeOK' /\ BulkTypeOK'
           /\ Write(w) => GroupsTypeOK' /\ BulkTypeOK'
<1> DEFINE g == worker[w].group
<1>1. ASSUME worker[w].pc \in InTransaction
      PROVE  worker[w].batch \in Batches /\ g \in Groups
  BY <1>1 DEF BulkTypeOK, InTransaction
<1>2. ASSUME LockGroup(w) PROVE GroupsTypeOK' /\ BulkTypeOK'
  <2>1. worker[w].pc \in InTransaction /\ event' = event
    BY <1>2 DEF LockGroup, At, InTransaction, groupVars
  <2>2. CASE Context(g) = Frozen(w)
    <3>1. Goto(w, "preview", g) /\ policyLock' = w /\ tasks' \in [Batches -> Nat]
          /\ UNCHANGED <<unit, group, event, permitted, author, touched, allowance>>
          /\ UNCHANGED <<review, submitting, batch, resuming, overtaken>>
      BY <1>2, <2>2 DEF LockGroup, BulkTypeOK
    <3>2. GroupsTypeOK'
      BY <3>1 DEF GroupsTypeOK
    <3> QED
      BY <1>1, <2>1, <3>1, <3>2, GotoTyped, QuietTyped
  <2>3. CASE Context(g) # Frozen(w)
    BY <1>2, <2>1, <2>3, SkipTyped, GroupsUnchanged DEF LockGroup
  <2> QED
    BY <2>2, <2>3
<1>3. ASSUME Preview(w) PROVE GroupsTypeOK' /\ BulkTypeOK'
  <2>1. worker[w].pc \in InTransaction
    BY <1>3 DEF Preview, At, InTransaction
  <2>2. CASE PreviewAgrees(w) /\ Changing(g) # {}
    <3>1. Context(g) \in Contexts
      BY <1>1, <2>1, ContextTyped DEF GroupsTypeOK
    <3>2. worker' = [worker EXCEPT ![w] = [worker[w] EXCEPT !.pc = "write", !.seen = Context(g)]]
          /\ UNCHANGED groupVars
          /\ UNCHANGED <<review, submitting, batch, tasks, resuming, overtaken>>
      BY <1>3, <2>2 DEF Preview
    <3>3. /\ worker' \in [Workers -> WorkerRow]
          /\ \A v \in Workers : /\ worker'[v].pc # "idle" => worker'[v].batch \in Batches
                                /\ worker'[v].pc \in InTransaction => worker'[v].group \in Groups
      <4>1. worker[w] \in WorkerRow
        BY DEF BulkTypeOK
      <4>2. [worker[w] EXCEPT !.pc = "write", !.seen = Context(g)] \in WorkerRow
            /\ [worker[w] EXCEPT !.pc = "write", !.seen = Context(g)].batch = worker[w].batch
            /\ [worker[w] EXCEPT !.pc = "write", !.seen = Context(g)].group = g
        BY <3>1, <4>1 DEF WorkerRow
      <4> QED
        BY <1>1, <2>1, <3>2, <4>2 DEF BulkTypeOK
    <3>4. tasks' \in [Batches -> Nat] /\ event' = event
      BY <3>2 DEF BulkTypeOK, groupVars
    <3> QED
      BY <3>2, <3>3, <3>4, QuietTyped, GroupsUnchanged
  <2>3. CASE ~(PreviewAgrees(w) /\ Changing(g) # {})
    <3>1. Skip(w) /\ policyLock' = None
          /\ UNCHANGED <<unit, group, event, permitted, author, touched, allowance>>
      BY <1>3, <2>3 DEF Preview
    <3> QED
      BY <2>1, <3>1, SkipTyped DEF GroupsTypeOK
  <2> QED
    BY <2>2, <2>3
<1>4. ASSUME Write(w) PROVE GroupsTypeOK' /\ BulkTypeOK'
  <2>1. worker[w].pc \in InTransaction
    BY <1>4 DEF Write, At, InTransaction
  <2>2. CASE RecipientsUnchanged(w)
    <3>1. ApplyDecision(g) /\ Settle(w, "applied", group[g].revision)
          /\ policyLock' = None /\ UNCHANGED <<permitted, allowance>>
      BY <1>4, <2>2 DEF Write
    <3>2. GroupsTypeOK' /\ \A h \in Groups : event[h] \subseteq event'[h]
      BY <1>1, <2>1, <3>1, ApplyTyped DEF GroupsTypeOK
    <3>3. group[g].revision \in Nat /\ "applied" \in ItemStatus
      BY <1>1, <2>1 DEF GroupsTypeOK, GroupRow, ItemStatus
    <3>4. \E e \in event'[g] : e.revision = group[g].revision
      BY <1>1, <2>1, <3>1, ApplyTyped
    <3> QED
      BY <2>1, <3>1, <3>2, <3>3, <3>4, SettleTyped
  <2>3. CASE ~RecipientsUnchanged(w)
    <3>1. Skip(w) /\ policyLock' = None
          /\ UNCHANGED <<unit, group, event, permitted, author, touched, allowance>>
      BY <1>4, <2>3 DEF Write
    <3> QED
      BY <2>1, <3>1, SkipTyped DEF GroupsTypeOK
  <2> QED
    BY <2>2, <2>3
<1> QED
  BY <1>2, <1>3, <1>4

LEMMA UndoItemTyped ==
    ASSUME GroupsTypeOK, BulkTypeOK, NEW w \in Workers, UndoItem(w)
    PROVE  GroupsTypeOK' /\ BulkTypeOK'
<1> DEFINE g == worker[w].group
<1>1. worker[w].pc \in InTransaction /\ worker[w].batch \in Batches /\ g \in Groups
  BY DEF UndoItem, At, InTransaction, BulkTypeOK
<1>2. CASE \E e \in event[g] : UndoDecision(g, e) /\ Settle(w, "undone", e.revision)
                               /\ UNCHANGED <<permitted, policyLock, allowance>>
  <2>1. PICK e \in event[g] : UndoDecision(g, e) /\ Settle(w, "undone", e.revision)
                              /\ UNCHANGED <<permitted, policyLock, allowance>>
    BY <1>2
  <2>2. GroupsTypeOK' /\ event' = event
    BY <1>1, <2>1, UndoTyped DEF GroupsTypeOK
  <2>3. e.revision \in Nat /\ "undone" \in ItemStatus
    BY <1>1 DEF GroupsTypeOK, EventRow, ItemStatus
  <2> QED
    BY <1>1, <2>1, <2>2, <2>3, SettleTyped
<1>3. CASE Skip(w) /\ UNCHANGED groupVars
  BY <1>1, <1>3, SkipTyped, GroupsUnchanged DEF groupVars
<1> QED
  BY <1>2, <1>3 DEF UndoItem

LEMMA FaultTyped ==
    ASSUME GroupsTypeOK, BulkTypeOK, NEW w \in Workers
    PROVE  /\ Raise(w) => GroupsTypeOK' /\ BulkTypeOK'
           /\ WorkerDies(w) => GroupsTypeOK' /\ BulkTypeOK'
<1>1. Unlocks(w) => policyLock' \in Workers \cup {"planner", None}
  BY DEF Unlocks, GroupsTypeOK
<1>2. ASSUME Raise(w) PROVE GroupsTypeOK' /\ BulkTypeOK'
  <2>1. worker[w].batch \in Batches /\ "failing" \notin InTransaction
    BY <1>2 DEF Raise, BulkTypeOK, InTransaction
  <2>2. GroupsTypeOK'
    BY <1>1, <1>2, AllowanceTyped DEF Raise, GroupsTypeOK
  <2>3. Goto(w, "failing", None) /\ tasks' \in [Batches -> Nat]
        /\ UNCHANGED <<event, review, submitting, batch, resuming, overtaken>>
    BY <1>2 DEF Raise, BulkTypeOK
  <2> QED
    BY <2>1, <2>2, <2>3, GotoTyped, QuietTyped
<1>3. ASSUME WorkerDies(w) PROVE GroupsTypeOK' /\ BulkTypeOK'
  <2>1. GroupsTypeOK'
    BY <1>1, <1>3, AllowanceTyped DEF WorkerDies, GroupsTypeOK
  <2>2. worker[w].batch \in Batches
    BY <1>3 DEF WorkerDies, At, BulkTypeOK
  <2>3. tasks' \in [Batches -> Nat]
    BY <1>3, <2>2 DEF WorkerDies, BulkTypeOK
  <2>4. Return(w) /\ UNCHANGED <<event, review, submitting, batch, resuming, overtaken>>
    BY <1>3 DEF WorkerDies
  <2> QED
    BY <2>1, <2>3, <2>4, ReturnTyped, QuietTyped
<1> QED
  BY <1>2, <1>3

LEMMA BulkTyped ==
    ASSUME GroupsTypeOK, BulkTypeOK, BulkNext(CurrentGroups)
    PROVE  GroupsTypeOK' /\ BulkTypeOK'
<1>1. CurrentGroups \in SUBSET Groups
  BY DEF CurrentGroups
<1>2. CASE \E n \in Reviews : PlanBulk(n, CurrentGroups)
  BY <1>1, <1>2, RequestTyped, AllowanceTyped DEF PlanBulk, GroupsTypeOK
<1>3. CASE \E n \in Reviews, s \in Selections : StartReads(n, s)
  BY <1>1, <1>3, RequestTyped, AllowanceTyped DEF StartReads, GroupsTypeOK
<1>4. CASE \E n \in Reviews : \E s \in submitting[n] : StartCreates(n, s)
  BY <1>4, CreateTyped, GroupsUnchanged DEF StartCreates
<1>5. CASE \E n \in Reviews : StartUndo(n)
  BY <1>5, StartUndoTyped, AllowanceTyped DEF StartUndo, GroupsTypeOK
<1>6. CASE \E n \in Reviews, kind \in {"apply", "undo"} : ResumeReads(n, kind)
  BY <1>1, <1>6, RequestTyped, AllowanceTyped DEF ResumeReads, GroupsTypeOK
<1>7. CASE \E b \in Batches, seen \in {"failed", "open"} : ResumeSaves(b, seen)
  BY <1>7, ResumeTyped, GroupsUnchanged DEF ResumeSaves
<1>8. CASE \E w \in Workers : WorkerNext(w)
  BY <1>8, ChoiceTyped, ApplyItemTyped, UndoItemTyped, FaultTyped DEF WorkerNext
<1> QED
  BY <1>2, <1>3, <1>4, <1>5, <1>6, <1>7, <1>8 DEF BulkNext

-----------------------------------------------------------------------------
LEMMA TypeInit == Init => TypeOK
<1> SUFFICES ASSUME Init PROVE TypeOK
  OBVIOUS
<1>1. GroupsTypeOK
  BY Ids, RepeatAssumption DEF Init, GroupsInit, GroupsTypeOK, UnitRow, GroupRow, Texts, EventRow
<1>2. \A g \in Groups : Context(g) \in Contexts
  BY <1>1, ContextTyped DEF GroupsTypeOK
<1>3. RecommendTypeOK
  <2>1. result \in [Groups -> SUBSET Contexts]
    BY <1>2 DEF Init, RecommendInit
  <2>2. NoAttempt \in AttemptRow
    BY DEF NoAttempt, NoContexts, AttemptRow
  <2> QED
    BY <2>1, <2>2 DEF Init, RecommendInit, RecommendTypeOK, RunRow, IdlePlan
<1>4. BulkTypeOK
  <2>1. NoBatch \in BatchRow /\ \A g \in Groups : NoBatch.item[g].status = "none"
    BY DEF NoBatch, NoItem, BatchRow, BatchStatus, ItemRow, ItemStatus
  <2>2. batch \in [Batches -> BatchRow] /\ EventsKnown
    BY <2>1 DEF Init, BulkInit, EventsKnown, NamesEvent
  <2>3. IdleWorker \in WorkerRow /\ IdleWorker.pc = "idle"
    BY DEF IdleWorker, WorkerRow
  <2> QED
    BY <2>2, <2>3 DEF Init, BulkInit, BulkTypeOK, InTransaction
<1> QED
  BY <1>1, <1>3, <1>4 DEF TypeOK

LEMMA TypeStep == TypeOK /\ [Next]_vars => TypeOK'
<1> SUFFICES ASSUME TypeOK, [Next]_vars PROVE TypeOK'
  OBVIOUS
<1>1. CASE PeopleNext /\ UNCHANGED <<recommendVars, bulkVars>>
  BY <1>1, PeopleTyped, RecommendUnchanged, BulkUnchanged DEF TypeOK
<1>2. CASE RecommendNext /\ UNCHANGED bulkVars
  <2>1. GroupsTypeOK' /\ RecommendTypeOK' /\ event' = event
    BY <1>2, RecommendTyped, RecommendGroups DEF TypeOK
  <2> QED
    BY <1>2, <2>1, BulkUnchanged DEF TypeOK
<1>3. CASE BulkNext(CurrentGroups) /\ UNCHANGED recommendVars
  BY <1>3, BulkTyped, RecommendUnchanged DEF TypeOK
<1>4. CASE UNCHANGED vars
  <2>1. UNCHANGED groupVars /\ UNCHANGED recommendVars /\ UNCHANGED bulkVars
    BY <1>4 DEF vars
  <2> QED
    BY <2>1, GroupsUnchanged, RecommendUnchanged, BulkUnchanged DEF TypeOK
<1> QED
  BY <1>1, <1>2, <1>3, <1>4 DEF Next

(* Rows, messages and local states keep their types: a frozen context is a  *)
(* context, and an applied item names an event of its group.                *)
THEOREM TypeCorrect == Spec => []TypeOK
<1>1. Init => TypeOK
  BY TypeInit
<1>2. TypeOK /\ [Next]_vars => TypeOK'
  BY TypeStep
<1> QED
  BY <1>1, <1>2, PTL DEF Spec
-----------------------------------------------------------------------------
(* What may happen to the rows of the recommendations.                     *)

(* An attempt goes only forward, and what it froze is never changed.        *)
AttemptsAdvance ==
    \A a \in Attempts :
        /\ attempt'[a].frozen = attempt[a].frozen /\ attempt'[a].retry = attempt[a].retry
        /\ attempt'[a].missed = attempt[a].missed
        /\ \/ attempt'[a].status = attempt[a].status
           \/ attempt[a].status = "reserved" /\ attempt'[a].status \in {"sent", "failed"}
           \/ attempt[a].status = "sent" /\ attempt'[a].status \in Ended

(* A run row exists once it was created, and only then.                     *)
RunsStay == \A r \in Runs : run'[r].status = "absent" <=> run[r].status = "absent"

(* Attempts belong to runs that exist, runs are created in order, and who   *)
(* works on an attempt or a run works on one that exists.                   *)
RowsExist ==
    /\ \A a \in Attempts : attempt[a].status # "absent" => run[a[1]].status # "absent"
    /\ \A r, s \in Runs : r < s /\ run[r].status = "absent" => run[s].status = "absent"
    /\ \A r \in Runs : run[r].status = "absent" => ~run[r].cancelled
    /\ \A w \in Workers : sender[w].pc # "idle" =>
          attempt[sender[w].attempt].status \in {"sent"} \cup Ended
    /\ \A r \in recovering : run[r].status # "absent"

LEMMA DerivedExists ==
    ASSUME NEW statuses, NEW cancelled
    PROVE  Derived(statuses, cancelled) # "absent"
  BY DEF Derived

LEMMA StatusWrite ==
    ASSUME RecommendTypeOK, NEW a \in Attempts, NEW s,
           attempt' = [attempt EXCEPT ![a].status = s],
           \/ attempt[a].status = "reserved" /\ s \in {"sent", "failed"}
           \/ attempt[a].status = "sent" /\ s \in Ended
    PROVE  AttemptsAdvance /\ attempt'[a].status = s
           /\ \A b \in Attempts \ {a} : attempt'[b] = attempt[b]
<1>1. attempt \in [Attempts -> AttemptRow] /\ attempt[a] \in AttemptRow
  BY DEF RecommendTypeOK
<1> DEFINE row == [attempt[a] EXCEPT !.status = s]
<1>2. row.status = s /\ row.frozen = attempt[a].frozen /\ row.retry = attempt[a].retry
      /\ row.missed = attempt[a].missed
  BY <1>1 DEF AttemptRow
<1>3. attempt' = [attempt EXCEPT ![a] = row]
  OBVIOUS
<1> HIDE DEF row
<1>4. attempt'[a] = row /\ \A b \in Attempts \ {a} : attempt'[b] = attempt[b]
  BY <1>1, <1>3
<1> QED
  BY <1>2, <1>4 DEF AttemptsAdvance

(* Every step but Reserve.                                                  *)
OtherRecommend ==
    \/ \E retry \in BOOLEAN : PlanReadsCurrent(retry)
    \/ PlanReadsActive \/ PlanDies
    \/ \E w \in Workers, a \in Attempts : Claim(w, a) \/ Refuse(w, a) \/ DropDuplicate(w, a)
    \/ \E w \in Workers :
          \/ \E outcome \in Ended : Store(w, outcome)
          \/ SenderFinalizes(w) \/ SenderDies(w)
    \/ \E r \in Runs :
          \/ \E overdue \in SUBSET Ordinals : Reconcile(r, overdue)
          \/ RecoveryFinalizes(r) \/ Requeue(r) \/ CancelRun(r)

LEMMA StepSplit ==
    ASSUME Next
    PROVE  \/ PeopleNext /\ UNCHANGED <<recommendVars, bulkVars>>
           \/ OtherRecommend /\ UNCHANGED bulkVars
           \/ \E r \in Runs, cap \in Ordinals : \E requested \in Packings(cap) : \E published :
                 planner.pc = "active" /\ Reserve(r, requested, published) /\ UNCHANGED bulkVars
           \/ BulkNext(CurrentGroups) /\ UNCHANGED recommendVars
  BY DEF Next, RecommendNext, OtherRecommend

LEMMA AdvanceSame ==
    ASSUME attempt' = attempt
    PROVE  AttemptsAdvance
  BY DEF AttemptsAdvance

LEMMA SenderAttempt ==
    ASSUME RecommendTypeOK, RowsExist, NEW w \in Workers, sender[w].pc # "idle"
    PROVE  /\ sender[w].attempt \in Attempts /\ sender[w].attempt[1] \in Runs
           /\ run[sender[w].attempt[1]].status # "absent"
<1>1. sender[w].attempt \in Attempts
  BY DEF RecommendTypeOK
<1>2. attempt[sender[w].attempt].status # "absent"
  BY DEF RowsExist, Ended
<1> QED
  BY <1>1, <1>2 DEF Attempts, RowsExist

LEMMA OthersAdvance ==
    ASSUME RecommendTypeOK, OtherRecommend
    PROVE  AttemptsAdvance
<1>1. CASE \E retry \in BOOLEAN : PlanReadsCurrent(retry)
  BY <1>1, AdvanceSame DEF PlanReadsCurrent
<1>2. CASE PlanReadsActive \/ PlanDies
  BY <1>2, AdvanceSame DEF PlanReadsActive, PlanDies
<1>3. CASE \E w \in Workers, a \in Attempts : Claim(w, a) \/ Refuse(w, a) \/ DropDuplicate(w, a)
  <2> PICK w \in Workers, a \in Attempts : Claim(w, a) \/ Refuse(w, a) \/ DropDuplicate(w, a)
    BY <1>3
  <2>1. CASE Claim(w, a)
    BY <2>1, StatusWrite DEF Claim, Claimable
  <2>2. CASE Refuse(w, a)
    BY <2>2, StatusWrite DEF Refuse, Claimable
  <2>3. CASE DropDuplicate(w, a)
    BY <2>3, AdvanceSame DEF DropDuplicate
  <2> QED
    BY <2>1, <2>2, <2>3
<1>4. CASE \E w \in Workers : \E outcome \in Ended : Store(w, outcome)
  <2> PICK w \in Workers, outcome \in Ended : Store(w, outcome)
    BY <1>4
  <2>1. sender[w].attempt \in Attempts
    BY DEF Store, RecommendTypeOK
  <2>2. CASE Storable(sender[w].attempt)
    BY <2>1, <2>2, StatusWrite DEF Store, Storable
  <2>3. CASE ~Storable(sender[w].attempt)
    BY <2>3, AdvanceSame DEF Store
  <2> QED
    BY <2>2, <2>3
<1>5. CASE \E w \in Workers : SenderFinalizes(w) \/ SenderDies(w)
  BY <1>5, AdvanceSame DEF SenderFinalizes, SenderDies
<1>6. CASE \E r \in Runs : \E overdue \in SUBSET Ordinals : Reconcile(r, overdue)
  <2> PICK r \in Runs, overdue \in SUBSET Ordinals : Reconcile(r, overdue)
    BY <1>6
  <2>1. \A a \in Attempts : attempt[a] \in AttemptRow
    BY DEF RecommendTypeOK
  <2>2. \A a \in Attempts : a = <<a[1], a[2]>>
    BY DEF Attempts
  <2>3. \A a \in Attempts : attempt'[a] = IF a[1] = r /\ a[2] \in overdue
                               THEN [attempt[a] EXCEPT !.status = "unknown"] ELSE attempt[a]
    BY DEF Reconcile
  <2>4. \A a \in Attempts : a[1] = r /\ a[2] \in overdue => attempt[a].status = "sent"
    BY <2>2 DEF Reconcile
  <2> QED
    BY <2>1, <2>3, <2>4 DEF AttemptsAdvance, AttemptRow, Ended
<1>7. CASE \E r \in Runs : RecoveryFinalizes(r) \/ Requeue(r) \/ CancelRun(r)
  BY <1>7, AdvanceSame DEF RecoveryFinalizes, Requeue, CancelRun
<1> QED
  BY <1>1, <1>2, <1>3, <1>4, <1>5, <1>6, <1>7 DEF OtherRecommend

LEMMA OthersKeepRuns ==
    ASSUME RecommendTypeOK, RowsExist, OtherRecommend
    PROVE  /\ RunsStay
           /\ \A r \in Runs : run[r].status = "absent" => run'[r] = run[r]
<1> DEFINE Goal == /\ RunsStay
                   /\ \A r \in Runs : run[r].status = "absent" => run'[r] = run[r]
<1>1. ASSUME run' = run PROVE Goal
  BY <1>1 DEF RunsStay
<1>2. ASSUME NEW r \in Runs, NEW s, s # "absent", run[r].status # "absent",
             run' = [run EXCEPT ![r].status = s] \/ run' = [run EXCEPT ![r] = [status |-> s, cancelled |-> TRUE]]
      PROVE  Goal
  <2>1. run \in [Runs -> RunRow]
    BY DEF RecommendTypeOK
  <2>2. run'[r].status = s /\ \A q \in Runs \ {r} : run'[q] = run[q]
    BY <1>2, <2>1 DEF RunRow
  <2> QED
    BY <1>2, <2>2 DEF RunsStay
<1>3. CASE \E retry \in BOOLEAN : PlanReadsCurrent(retry)
  BY <1>1, <1>3 DEF PlanReadsCurrent
<1>4. CASE PlanReadsActive \/ PlanDies
  BY <1>1, <1>4 DEF PlanReadsActive, PlanDies
<1>5. CASE \E w \in Workers, a \in Attempts : Claim(w, a) \/ DropDuplicate(w, a)
  BY <1>1, <1>5 DEF Claim, DropDuplicate
<1>6. CASE \E w \in Workers, a \in Attempts : Refuse(w, a)
  <2> PICK w \in Workers, a \in Attempts : Refuse(w, a)
    BY <1>6
  <2>1. a[1] \in Runs /\ run[a[1]].status # "absent"
    BY DEF Refuse, Claimable, RowsExist, Attempts
  <2> QED
    BY <1>2, <2>1, DerivedExists DEF Refuse
<1>7. CASE \E w \in Workers : \E outcome \in Ended : Store(w, outcome)
  BY <1>1, <1>7 DEF Store
<1>8. CASE \E w \in Workers : SenderFinalizes(w)
  <2> PICK w \in Workers : SenderFinalizes(w)
    BY <1>8
  <2>1. sender[w].attempt[1] \in Runs /\ run[sender[w].attempt[1]].status # "absent"
    BY SenderAttempt DEF SenderFinalizes
  <2>2. Finalize(sender[w].attempt[1])
    BY DEF SenderFinalizes
  <2>3. Derived(Statuses(sender[w].attempt[1]), run[sender[w].attempt[1]].cancelled) # "absent"
    BY DEF Derived
  <2> QED
    BY <1>2, <2>1, <2>2, <2>3 DEF Finalize
<1>9. CASE \E w \in Workers : SenderDies(w)
  BY <1>1, <1>9 DEF SenderDies
<1>10. CASE \E r \in Runs : (\E overdue \in SUBSET Ordinals : Reconcile(r, overdue)) \/ Requeue(r)
  BY <1>1, <1>10 DEF Reconcile, Requeue
<1>11. CASE \E r \in Runs : RecoveryFinalizes(r)
  <2> PICK r \in Runs : RecoveryFinalizes(r)
    BY <1>11
  <2>1. run[r].status # "absent" /\ Finalize(r)
    BY DEF RecoveryFinalizes, RowsExist
  <2>2. Derived(Statuses(r), run[r].cancelled) # "absent"
    BY DEF Derived
  <2> QED
    BY <1>2, <2>1, <2>2 DEF Finalize
<1>12. CASE \E r \in Runs : CancelRun(r)
  BY <1>2, <1>12 DEF CancelRun
<1> QED
  BY <1>3, <1>4, <1>5, <1>6, <1>7, <1>8, <1>9, <1>10, <1>11, <1>12 DEF OtherRecommend

(* What Reserve writes.                                                     *)
LEMMA ReserveWrites ==
    ASSUME RecommendTypeOK, RowsExist, NEW r \in Runs, NEW requested, NEW published,
           Reserve(r, requested, published)
    PROVE  /\ run[r].status = "absent" /\ run'[r].status \in {"running", "completed"}
           /\ ~run'[r].cancelled /\ \A q \in Runs \ {r} : run'[q] = run[q]
           /\ \A a \in Attempts : a[1] = r => attempt[a].status = "absent"
           /\ \A a \in Attempts :
                 \/ attempt'[a] = attempt[a]
                 \/ a[1] = r /\ requested[a[2]] # {} /\ attempt'[a] = Reservation(requested[a[2]])
           /\ (run'[r].status = "running" <=> \E i \in Ordinals : requested[i] # {})
           /\ \A a \in Attempts : a[1] = r /\ requested[a[2]] # {} => attempt'[a].status = "reserved"
<1>1. run \in [Runs -> RunRow] /\ attempt \in [Attempts -> AttemptRow]
  BY DEF RecommendTypeOK
<1>2. run[r].status = "absent" /\ ~run[r].cancelled
  BY DEF Reserve, IsNext, RowsExist
<1> DEFINE s == IF {i \in Ordinals : requested[i] # {}} = {} THEN "completed" ELSE "running"
<1>3. run' = [run EXCEPT ![r].status = s]
  BY DEF Reserve
<1>4. run'[r].status = s /\ run'[r].cancelled = run[r].cancelled
      /\ \A q \in Runs \ {r} : run'[q] = run[q]
  BY <1>1, <1>3 DEF RunRow
<1>5. \A a \in Attempts : a[1] = r => attempt[a].status = "absent"
  BY <1>2 DEF RowsExist
<1>6. \A a \in Attempts : a[2] \in Ordinals /\ <<r, a[2]>> \in Attempts
  BY DEF Attempts
<1>7. \A a \in Attempts : attempt'[a] =
         IF a[1] # r \/ a[2] \notin {i \in Ordinals : requested[i] # {}} THEN attempt[a]
         ELSE Reservation(requested[a[2]])
  BY DEF Reserve
<1>8. \A S : Reservation(S).status = "reserved"
  BY DEF Reservation
<1>9. \A a \in Attempts :
         \/ attempt'[a] = attempt[a]
         \/ a[1] = r /\ requested[a[2]] # {} /\ attempt'[a] = Reservation(requested[a[2]])
  BY <1>6, <1>7
<1>10. \A a \in Attempts : a[1] = r /\ requested[a[2]] # {} => attempt'[a].status = "reserved"
  BY <1>6, <1>7, <1>8
<1>11. run'[r].status = "running" <=> \E i \in Ordinals : requested[i] # {}
  BY <1>4
<1> QED
  BY <1>2, <1>4, <1>5, <1>9, <1>10, <1>11

LEMMA RowsInit == Init => RowsExist
  BY DEF Init, RecommendInit, RowsExist, NoAttempt, Attempts

LEMMA RowsStep ==
    ASSUME TypeOK, RowsExist, [Next]_vars
    PROVE  RowsExist'
<1>1. ASSUME UNCHANGED recommendVars PROVE RowsExist'
  BY <1>1 DEF RowsExist, recommendVars
<1>2. ASSUME OtherRecommend PROVE RowsExist'
  <2>1. RecommendTypeOK
    BY DEF TypeOK
  <2>2. AttemptsAdvance /\ RunsStay /\ \A r \in Runs : run[r].status = "absent" => run'[r] = run[r]
    BY <1>2, <2>1, OthersAdvance, OthersKeepRuns
  <2>3. \A a \in Attempts : attempt'[a].status # "absent" => run'[a[1]].status # "absent"
    BY <2>2 DEF RowsExist, AttemptsAdvance, RunsStay, Attempts
  <2>4. /\ \A r, s \in Runs : r < s /\ run'[r].status = "absent" => run'[s].status = "absent"
        /\ \A r \in Runs : run'[r].status = "absent" => ~run'[r].cancelled
    BY <2>2 DEF RowsExist, RunsStay
  <2>5. \A a \in Attempts : attempt[a].status \in {"sent"} \cup Ended =>
                            attempt'[a].status \in {"sent"} \cup Ended
    BY <2>2 DEF AttemptsAdvance, Ended
  <2>6. \A w \in Workers : sender[w].pc # "idle" => sender[w].attempt \in Attempts
    BY <2>1 DEF RecommendTypeOK
  <2>7. \A w \in Workers : sender'[w].pc # "idle" => attempt'[sender'[w].attempt].status \in {"sent"} \cup Ended
    <3> DEFINE Goal == \A w \in Workers : sender'[w].pc # "idle" =>
                                attempt'[sender'[w].attempt].status \in {"sent"} \cup Ended
    <3>1. ASSUME sender' = sender PROVE Goal
      BY <2>5, <2>6, <3>1 DEF RowsExist
    <3>2. ASSUME NEW w \in Workers, NEW row,
                 sender' = [sender EXCEPT ![w] = row],
                 row.pc # "idle" => row.attempt \in Attempts /\ attempt'[row.attempt].status \in {"sent"} \cup Ended
          PROVE  Goal
      <4>1. sender \in [Workers -> [pc : {"idle", "sent", "stored"}, attempt : Attempts \cup {None}]]
        BY <2>1 DEF RecommendTypeOK
      <4>2. sender'[w] = row /\ \A v \in Workers \ {w} : sender'[v] = sender[v]
        BY <3>2, <4>1
      <4> QED
        BY <2>5, <2>6, <3>2, <4>2 DEF RowsExist
    <3>3. CASE \E retry \in BOOLEAN : PlanReadsCurrent(retry)
      BY <3>1, <3>3 DEF PlanReadsCurrent
    <3>4. CASE PlanReadsActive \/ PlanDies
      BY <3>1, <3>4 DEF PlanReadsActive, PlanDies
    <3>5. CASE \E w \in Workers, a \in Attempts : Claim(w, a)
      <4> PICK w \in Workers, a \in Attempts : Claim(w, a)
        BY <3>5
      <4>1. attempt'[a].status = "sent"
        BY <2>1, StatusWrite DEF Claim, Claimable
      <4> QED
        BY <3>2, <4>1 DEF Claim
    <3>6. CASE \E w \in Workers, a \in Attempts : Refuse(w, a) \/ DropDuplicate(w, a)
      BY <3>1, <3>6 DEF Refuse, DropDuplicate
    <3>7. CASE \E w \in Workers : \E outcome \in Ended : Store(w, outcome)
      <4> PICK w \in Workers, outcome \in Ended : Store(w, outcome)
        BY <3>7
      <4>1. sender' = [sender EXCEPT ![w] = [sender[w] EXCEPT !.pc = "stored"]]
            /\ sender[w].pc # "idle"
        BY DEF Store
      <4>2. [sender[w] EXCEPT !.pc = "stored"].attempt = sender[w].attempt
        BY <2>1 DEF RecommendTypeOK
      <4>3. attempt'[sender[w].attempt].status \in {"sent"} \cup Ended
        BY <2>5, <2>6, <4>1 DEF RowsExist
      <4> QED
        BY <2>6, <3>2, <4>1, <4>2, <4>3
    <3>8. CASE \E w \in Workers : SenderFinalizes(w) \/ SenderDies(w)
      BY <3>2, <3>8 DEF SenderFinalizes, SenderDies
    <3>9. CASE \E r \in Runs : (\E overdue \in SUBSET Ordinals : Reconcile(r, overdue))
                               \/ RecoveryFinalizes(r) \/ Requeue(r) \/ CancelRun(r)
      BY <3>1, <3>9 DEF Reconcile, RecoveryFinalizes, Requeue, CancelRun
    <3> QED
      BY <1>2, <3>3, <3>4, <3>5, <3>6, <3>7, <3>8, <3>9 DEF OtherRecommend
  <2>8. \A r \in recovering' : run'[r].status # "absent"
    <3>1. \A r \in recovering : r \in Runs /\ run'[r].status # "absent"
      BY <2>1, <2>2 DEF RowsExist, RunsStay, RecommendTypeOK
    <3>2. CASE recovering' \subseteq recovering
      BY <3>1, <3>2
    <3>3. CASE \E r \in Runs : \E overdue \in SUBSET Ordinals : Reconcile(r, overdue)
      <4> PICK r \in Runs, overdue \in SUBSET Ordinals : Reconcile(r, overdue)
        BY <3>3
      <4>1. PICK i \in overdue : attempt[<<r, i>>].status = "sent"
        BY DEF Reconcile
      <4>2. <<r, i>> \in Attempts /\ <<r, i>>[1] = r
        BY DEF Attempts
      <4>3. run[r].status # "absent"
        BY <4>1, <4>2 DEF RowsExist
      <4> QED
        BY <2>2, <3>1, <4>3 DEF Reconcile, RunsStay
    <3> QED
      BY <1>2, <3>2, <3>3
      DEF OtherRecommend, PlanReadsCurrent, PlanReadsActive, PlanDies, Claim, Refuse, DropDuplicate,
          Store, SenderFinalizes, SenderDies, RecoveryFinalizes, Requeue, CancelRun
  <2> QED
    BY <2>3, <2>4, <2>7, <2>8 DEF RowsExist
<1>3. ASSUME NEW r \in Runs, NEW requested, NEW published, Reserve(r, requested, published)
      PROVE  RowsExist'
  <2>1. RecommendTypeOK
    BY DEF TypeOK
  <2>2. UNCHANGED <<sender, recovering>>
    BY <1>3 DEF Reserve
  <2>3. \A s \in Runs : s < r => run[s].status # "absent"
    BY <1>3 DEF Reserve, IsNext
  <2>4. \A a \in Attempts : attempt'[a].status # "absent" => run'[a[1]].status # "absent"
    <3>1. /\ run'[r].status \in {"running", "completed"} /\ \A q \in Runs \ {r} : run'[q] = run[q]
          /\ \A a \in Attempts : attempt'[a] = attempt[a] \/ a[1] = r
      BY <1>3, <2>1, ReserveWrites
    <3>2. \A a \in Attempts : a[1] \in Runs
      BY DEF Attempts
    <3>3. \A q \in Runs : run[q].status # "absent" => run'[q].status # "absent"
      BY <3>1
    <3> QED
      BY <3>1, <3>2, <3>3 DEF RowsExist
  <2>5. /\ \A q, s \in Runs : q < s /\ run'[q].status = "absent" => run'[s].status = "absent"
        /\ \A q \in Runs : run'[q].status = "absent" => ~run'[q].cancelled
        /\ \A q \in recovering' : run'[q].status # "absent"
    BY <1>3, <2>1, <2>2, <2>3, ReserveWrites DEF RowsExist, RecommendTypeOK
  <2>6. \A w \in Workers : sender[w].pc # "idle" =>
           sender[w].attempt \in Attempts /\ attempt[sender[w].attempt].status \in {"sent"} \cup Ended
    BY <2>1 DEF RowsExist, RecommendTypeOK
  <2>7. \A a \in Attempts : attempt[a].status \in {"sent"} \cup Ended => attempt'[a] = attempt[a]
    BY <1>3, <2>1, ReserveWrites DEF Ended
  <2> QED
    BY <2>2, <2>4, <2>5, <2>6, <2>7 DEF RowsExist
<1>4. CASE UNCHANGED vars
  BY <1>1, <1>4 DEF vars
<1> QED
  BY <1>1, <1>2, <1>3, <1>4, StepSplit
-----------------------------------------------------------------------------
(* NeverRepurchased.                                                       *)

(* Groups that are not touched keep the rows that a context freezes.        *)
Steady ==
    /\ touched \subseteq touched'
    /\ \A h \in Groups \ touched' : /\ group'[h] = group[h]
                                    /\ \A u \in Members(h) : unit'[u] = unit[u]

LEMMA SteadyContext ==
    ASSUME Steady
    PROVE  \A h \in Groups \ touched' : Context(h)' = Context(h)
<1> TAKE h \in Groups \ touched'
<1>1. group'[h] = group[h] /\ \A u \in Members(h) : unit'[u] = unit[u]
  BY DEF Steady
<1>2. [u \in Members(h) |-> unit'[u]] = [u \in Members(h) |-> unit[u]]
  BY <1>1
<1>3. Members(h)' = Members(h)
  BY DEF Members
<1> QED
  BY <1>1, <1>2, <1>3 DEF Context

LEMMA SteadyUnchanged ==
    ASSUME UNCHANGED <<unit, group, touched>>
    PROVE  Steady
  BY DEF Steady

LEMMA SteadyDecision ==
    ASSUME GroupsTypeOK, NEW g \in Groups
    PROVE  /\ ApplyDecision(g) => Steady
           /\ \A e \in event[g] : UndoDecision(g, e) => Steady
<1>1. group \in [Groups -> GroupRow] /\ unit \in [Units -> UnitRow]
  BY DEF GroupsTypeOK
<1>2. \A h \in Groups \ {g}, u \in Units : u \in Members(h) => u \notin Members(g)
  BY DEF Members
<1>3. \A h \in Groups : Members(h) \subseteq Units
  BY DEF Members
<1>4. ASSUME ApplyDecision(g) PROVE Steady
  <2>1. Changing(g) \subseteq Members(g)
    BY DEF Changing
  <2>2. \A u \in Units \ Members(g) : unit'[u] = unit[u]
    BY <1>4, <2>1 DEF ApplyDecision, Spread
  <2>3. (\A h \in Groups \ {g} : group'[h] = group[h]) /\ touched' = touched \cup {g}
    BY <1>1, <1>4 DEF ApplyDecision, Decided
  <2> QED
    BY <1>2, <1>3, <2>2, <2>3 DEF Steady
<1>5. ASSUME NEW e \in event[g], UndoDecision(g, e) PROVE Steady
  <2>1. Unchanged(e) \subseteq Members(g)
    BY DEF Unchanged, GroupsTypeOK
  <2>2. \A u \in Units \ Members(g) : unit'[u] = unit[u]
    BY <1>5, <2>1 DEF UndoDecision
  <2>3. (\A h \in Groups \ {g} : group'[h] = group[h]) /\ touched' = touched \cup {g}
    BY <1>1, <1>5 DEF UndoDecision, Decided
  <2> QED
    BY <1>2, <1>3, <2>2, <2>3 DEF Steady
<1> QED
  BY <1>4, <1>5

LEMMA PeopleSteady ==
    ASSUME GroupsTypeOK, PeopleNext
    PROVE  Steady
<1>1. group \in [Groups -> GroupRow] /\ unit \in [Units -> UnitRow]
  BY DEF GroupsTypeOK
<1>2. ASSUME NEW u \in Units, NEW row, unit' = [unit EXCEPT ![u] = row],
             touched' = touched \cup {GroupOf[u]}, group' = group
      PROVE  Steady
  <2>1. \A v \in Units \ {u} : unit'[v] = unit[v]
    BY <1>1, <1>2
  <2> QED
    BY <1>2, <2>1 DEF Steady, Members
<1>3. CASE \E u \in Units : Approve(u)
  <2> PICK u \in Units : Approve(u)
    BY <1>3
  <2>1. unit' = [unit EXCEPT ![u] = [unit[u] EXCEPT !.approved = TRUE]]
    BY DEF Approve
  <2> QED
    BY <1>2, <2>1 DEF Approve
<1>4. CASE \E u \in Units, text \in Texts : Edit(u, text)
  BY <1>2, <1>4 DEF Edit
<1>5. CASE RightsChange
  BY <1>5, SteadyUnchanged DEF RightsChange
<1>6. CASE \E g \in Groups : DecideByHand(g)
  BY <1>6, SteadyDecision DEF DecideByHand
<1>7. CASE \E g \in Groups : KeepIndependent(g)
  BY <1>1, <1>7 DEF KeepIndependent, Decided, Steady
<1>8. CASE \E g \in Groups : UndoByHand(g)
  BY <1>8, SteadyDecision DEF UndoByHand
<1> QED
  BY <1>3, <1>4, <1>5, <1>6, <1>7, <1>8 DEF PeopleNext

LEMMA BulkSteady ==
    ASSUME GroupsTypeOK, BulkTypeOK, NEW currentGroups, BulkNext(currentGroups)
    PROVE  Steady
<1>1. CASE \E n \in Reviews : PlanBulk(n, currentGroups)
  BY <1>1, SteadyUnchanged DEF PlanBulk
<1>2. CASE \E n \in Reviews, s \in Selections : StartReads(n, s)
  BY <1>2, SteadyUnchanged DEF StartReads
<1>3. CASE \E n \in Reviews : \E s \in submitting[n] : StartCreates(n, s)
  BY <1>3, SteadyUnchanged DEF StartCreates, groupVars
<1>4. CASE \E n \in Reviews : StartUndo(n)
  BY <1>4, SteadyUnchanged DEF StartUndo
<1>5. CASE \E n \in Reviews, kind \in {"apply", "undo"} : ResumeReads(n, kind)
  BY <1>5, SteadyUnchanged DEF ResumeReads
<1>6. CASE \E b \in Batches, seen \in {"failed", "open"} : ResumeSaves(b, seen)
  BY <1>6, SteadyUnchanged DEF ResumeSaves, groupVars
<1>7. CASE \E w \in Workers : WorkerNext(w)
  <2> PICK w \in Workers : WorkerNext(w)
    BY <1>7
  <2>1. CASE (\E b \in Batches : Receive(w, b)) \/ ChooseItem(w) \/ EndBatch(w) \/ FailBatch(w)
    BY <2>1, SteadyUnchanged DEF Receive, ChooseItem, EndBatch, FailBatch, groupVars
  <2>2. CASE LockGroup(w) \/ Preview(w)
    BY <2>2, SteadyUnchanged DEF LockGroup, Preview, groupVars
  <2>3. CASE Raise(w) \/ WorkerDies(w)
    BY <2>3, SteadyUnchanged DEF Raise, WorkerDies
  <2>4. CASE Write(w)
    <3>1. worker[w].group \in Groups
      BY <2>4 DEF Write, At, InTransaction, BulkTypeOK
    <3> QED
      BY <2>4, <3>1, SteadyDecision, SteadyUnchanged DEF Write
  <2>5. CASE UndoItem(w)
    <3>1. worker[w].group \in Groups
      BY <2>5 DEF UndoItem, At, InTransaction, BulkTypeOK
    <3>2. CASE UNCHANGED groupVars
      BY <3>2, SteadyUnchanged DEF groupVars
    <3>3. CASE \E e \in event[worker[w].group] : UndoDecision(worker[w].group, e)
      BY <3>1, <3>3, SteadyDecision
    <3> QED
      BY <2>5, <3>2, <3>3 DEF UndoItem
  <2> QED
    BY <2>1, <2>2, <2>3, <2>4, <2>5 DEF WorkerNext
<1> QED
  BY <1>1, <1>2, <1>3, <1>4, <1>5, <1>6, <1>7 DEF BulkNext

LEMMA OthersSteady ==
    ASSUME OtherRecommend
    PROVE  (\E retry \in BOOLEAN : PlanReadsCurrent(retry)) \/ Steady
<1>1. CASE PlanReadsActive \/ PlanDies
  BY <1>1, SteadyUnchanged DEF PlanReadsActive, PlanDies, groupVars
<1>2. CASE \E w \in Workers, a \in Attempts : Claim(w, a) \/ Refuse(w, a) \/ DropDuplicate(w, a)
  BY <1>2, SteadyUnchanged DEF Claim, Refuse, DropDuplicate, groupVars
<1>3. CASE \E w \in Workers : \E outcome \in Ended : Store(w, outcome)
  BY <1>3 DEF Store, Steady
<1>4. CASE \E w \in Workers : SenderFinalizes(w) \/ SenderDies(w)
  BY <1>4, SteadyUnchanged DEF SenderFinalizes, SenderDies, groupVars
<1>5. CASE \E r \in Runs : \E overdue \in SUBSET Ordinals : Reconcile(r, overdue)
  BY <1>5, SteadyUnchanged DEF Reconcile
<1>6. CASE \E r \in Runs : RecoveryFinalizes(r) \/ Requeue(r) \/ CancelRun(r)
  BY <1>6, SteadyUnchanged DEF RecoveryFinalizes, Requeue, CancelRun, groupVars
<1> QED
  BY <1>1, <1>2, <1>3, <1>4, <1>5, <1>6 DEF OtherRecommend

(* A request is made once for an attempt, and not before it is claimed.     *)
SentOnce ==
    \A a \in Attempts : /\ transports[a] \in {0, 1}
                        /\ attempt[a].status \in {"absent", "reserved"} => transports[a] = 0

(* A completed attempt left a result for everything it sent.                *)
ResultsLeft ==
    \A a \in Attempts, g \in Groups :
        attempt[a].status = "completed" /\ attempt[a].frozen[g] # None
        => attempt[a].frozen[g] \in result[g]

(* What the plan read still holds, but for groups touched since.            *)
PlanKnowsCurrent ==
    planner.pc # "idle" =>
        \A g \in Groups \ touched : Context(g) \in result[g] => g \in planner.current
PlanKnowsOpen ==
    planner.pc = "active" =>
        \A a \in Attempts, g \in Groups :
            attempt[a].status \in Open => <<g, attempt[a].frozen[g]>> \in planner.active

(* When a context is reserved again, its earlier attempt has ended, and     *)
(* with consent or unseen if it was paid.                                   *)
EarlierEnded ==
    \A a, b \in Attempts, g \in Groups :
        Earlier(a, b) /\ Shares(a, b, g) /\ attempt[b].status # "absent" =>
            /\ attempt[a].status \notin Open
            /\ attempt[a].status \in {"completed", "unknown"} =>
                  \/ attempt[a].status = "unknown" /\ attempt[b].retry
                  \/ g \in attempt[b].missed

PurchaseInv == SentOnce /\ ResultsLeft /\ PlanKnowsCurrent /\ PlanKnowsOpen /\ EarlierEnded

LEMMA PurchaseInit == Init => PurchaseInv
  BY DEF Init, RecommendInit, NoAttempt, NoContexts, IdlePlan, PurchaseInv, SentOnce, ResultsLeft,
         PlanKnowsCurrent, PlanKnowsOpen, EarlierEnded

(* Steps of people and of batches.                                          *)
LEMMA PurchaseElsewhere ==
    ASSUME PurchaseInv, Steady, UNCHANGED recommendVars
    PROVE  PurchaseInv'
<1>1. UNCHANGED <<attempt, result, planner, transports>>
  BY DEF recommendVars
<1>2. SentOnce' /\ ResultsLeft' /\ PlanKnowsOpen' /\ EarlierEnded'
  BY <1>1 DEF PurchaseInv, SentOnce, ResultsLeft, PlanKnowsOpen, EarlierEnded, Shares
<1>3. PlanKnowsCurrent'
  BY <1>1, SteadyContext DEF PurchaseInv, PlanKnowsCurrent, Steady
<1> QED
  BY <1>2, <1>3 DEF PurchaseInv

LEMMA OthersResults ==
    ASSUME RecommendTypeOK, OtherRecommend
    PROVE  /\ \A g \in Groups : result[g] \subseteq result'[g]
           /\ \A g \in Groups \ touched' : result'[g] = result[g]
           /\ \A a \in Attempts : attempt'[a].status = "completed" =>
                 \/ attempt[a].status = "completed"
                 \/ \A g \in Groups : attempt[a].frozen[g] # None => attempt[a].frozen[g] \in result'[g]
<1> DEFINE Goal ==
      /\ \A g \in Groups : result[g] \subseteq result'[g]
      /\ \A g \in Groups \ touched' : result'[g] = result[g]
      /\ \A a \in Attempts : attempt'[a].status = "completed" =>
            \/ attempt[a].status = "completed"
            \/ \A g \in Groups : attempt[a].frozen[g] # None => attempt[a].frozen[g] \in result'[g]
<1>1. ASSUME result' = result, attempt' = attempt PROVE Goal
  BY <1>1
<1>2. CASE \E retry \in BOOLEAN : PlanReadsCurrent(retry)
  BY <1>1, <1>2 DEF PlanReadsCurrent
<1>3. CASE PlanReadsActive \/ PlanDies
  BY <1>1, <1>3 DEF PlanReadsActive, PlanDies
<1>4. CASE \E w \in Workers, a \in Attempts : Claim(w, a) \/ Refuse(w, a)
  <2> PICK w \in Workers, a \in Attempts : Claim(w, a) \/ Refuse(w, a)
    BY <1>4
  <2>1. result' = result /\ \E s \in {"sent", "failed"} : attempt' = [attempt EXCEPT ![a].status = s]
    BY DEF Claim, Refuse
  <2>2. attempt'[a].status # "completed" /\ \A b \in Attempts \ {a} : attempt'[b] = attempt[b]
    <3>1. attempt[a].status = "reserved"
      BY DEF Claim, Refuse, Claimable
    <3> QED
      BY <2>1, <3>1, StatusWrite
  <2> QED
    BY <2>1, <2>2
<1>5. CASE \E w \in Workers, a \in Attempts : DropDuplicate(w, a)
  BY <1>1, <1>5 DEF DropDuplicate
<1>6. CASE \E w \in Workers : \E outcome \in Ended : Store(w, outcome)
  <2> PICK w \in Workers, outcome \in Ended : Store(w, outcome)
    BY <1>6
  <2> DEFINE a == sender[w].attempt
             covered == {g \in Groups : attempt[a].frozen[g] # None}
  <2>1. a \in Attempts /\ result \in [Groups -> SUBSET Contexts]
    BY DEF Store, RecommendTypeOK
  <2>2. CASE Storable(a) /\ outcome = "completed"
    <3>1. result' = [g \in Groups |-> result[g] \cup (IF g \in covered THEN {attempt[a].frozen[g]} ELSE {})]
          /\ touched' = touched \cup covered
          /\ attempt' = [attempt EXCEPT ![a].status = outcome]
      BY <2>2 DEF Store
    <3>2. \A b \in Attempts \ {a} : attempt'[b] = attempt[b]
      BY <2>1, <2>2, <3>1, StatusWrite DEF Storable, Ended
    <3> QED
      BY <2>1, <3>1, <3>2
  <2>3. CASE Storable(a) /\ outcome # "completed"
    <3>1. result' = result /\ attempt' = [attempt EXCEPT ![a].status = outcome]
      BY <2>3 DEF Store
    <3>2. attempt'[a].status = outcome /\ \A b \in Attempts \ {a} : attempt'[b] = attempt[b]
      BY <2>1, <2>3, <3>1, StatusWrite DEF Storable, Ended
    <3> QED
      BY <2>3, <3>1, <3>2
  <2>4. CASE ~Storable(a)
    BY <1>1, <2>4 DEF Store
  <2> QED
    BY <2>2, <2>3, <2>4
<1>7. CASE \E w \in Workers : SenderFinalizes(w) \/ SenderDies(w)
  BY <1>1, <1>7 DEF SenderFinalizes, SenderDies
<1>8. CASE \E r \in Runs : \E overdue \in SUBSET Ordinals : Reconcile(r, overdue)
  <2> PICK r \in Runs, overdue \in SUBSET Ordinals : Reconcile(r, overdue)
    BY <1>8
  <2>1. \A a \in Attempts : attempt[a] \in AttemptRow
    BY DEF RecommendTypeOK
  <2>2. result' = result /\ \A a \in Attempts : attempt'[a] = IF a[1] = r /\ a[2] \in overdue
                               THEN [attempt[a] EXCEPT !.status = "unknown"] ELSE attempt[a]
    BY DEF Reconcile
  <2> QED
    BY <2>1, <2>2 DEF AttemptRow
<1>9. CASE \E r \in Runs : RecoveryFinalizes(r) \/ Requeue(r) \/ CancelRun(r)
  BY <1>1, <1>9 DEF RecoveryFinalizes, Requeue, CancelRun
<1> QED
  BY <1>2, <1>3, <1>4, <1>5, <1>6, <1>7, <1>8, <1>9 DEF OtherRecommend

LEMMA OthersTransport ==
    ASSUME RecommendTypeOK, SentOnce, OtherRecommend
    PROVE  SentOnce'
<1>1. AttemptsAdvance
  BY OthersAdvance
<1>2. ASSUME transports' = transports PROVE SentOnce'
  BY <1>1, <1>2 DEF SentOnce, AttemptsAdvance, Ended
<1>3. CASE \E w \in Workers, a \in Attempts : Claim(w, a)
  <2> PICK w \in Workers, a \in Attempts : Claim(w, a)
    BY <1>3
  <2>1. attempt[a].status = "reserved" /\ attempt' = [attempt EXCEPT ![a].status = "sent"]
        /\ transports' = [transports EXCEPT ![a] = @ + 1]
    BY DEF Claim, Claimable
  <2>2. attempt'[a].status = "sent" /\ \A b \in Attempts \ {a} : attempt'[b] = attempt[b]
    BY <2>1, StatusWrite
  <2>3. transports \in [Attempts -> Nat]
    BY DEF RecommendTypeOK
  <2> QED
    BY <2>1, <2>2, <2>3 DEF SentOnce
<1> QED
  BY <1>2, <1>3 DEF OtherRecommend, PlanReadsCurrent, PlanReadsActive, PlanDies, Refuse, DropDuplicate,
      Store, SenderFinalizes, SenderDies, Reconcile, RecoveryFinalizes, Requeue, CancelRun

LEMMA OthersPlan ==
    ASSUME RecommendTypeOK, PlanKnowsCurrent, PlanKnowsOpen, OtherRecommend
    PROVE  PlanKnowsCurrent' /\ PlanKnowsOpen'
<1>1. AttemptsAdvance
  BY OthersAdvance
<1>2. CASE \E retry \in BOOLEAN : PlanReadsCurrent(retry)
  <2>1. UNCHANGED <<unit, group, result>> /\ planner'.pc = "current" /\ planner'.current = CurrentGroups
    BY <1>2 DEF PlanReadsCurrent
  <2>2. \A g \in Groups : Context(g)' = Context(g)
    BY <2>1 DEF Context, Members
  <2> QED
    BY <2>1, <2>2 DEF PlanKnowsCurrent, PlanKnowsOpen, CurrentGroups
<1>3. CASE PlanReadsActive
  <2>1. UNCHANGED <<unit, group, touched, result, attempt>> /\ planner.pc = "current"
        /\ planner' = [planner EXCEPT !.pc = "active", !.active = Covered(Open)]
    BY <1>3 DEF PlanReadsActive, groupVars
  <2>2. planner'.current = planner.current /\ planner'.active = Covered(Open)
    BY <2>1 DEF RecommendTypeOK
  <2>3. \A g \in Groups : Context(g)' = Context(g)
    BY <2>1 DEF Context, Members
  <2>4. \A a \in Attempts, g \in Groups :
            attempt[a].status \in Open => <<g, attempt[a].frozen[g]>> \in Covered(Open)
    BY DEF Covered
  <2> QED
    BY <2>1, <2>2, <2>3, <2>4 DEF PlanKnowsCurrent, PlanKnowsOpen
<1>4. CASE PlanDies
  BY <1>4 DEF PlanDies, IdlePlan, PlanKnowsCurrent, PlanKnowsOpen
<1>5. CASE planner' = planner /\ Steady
  <2>1. PlanKnowsOpen'
    BY <1>1, <1>5 DEF PlanKnowsOpen, AttemptsAdvance, Open, Ended
  <2>2. PlanKnowsCurrent'
    BY <1>5, SteadyContext, OthersResults DEF PlanKnowsCurrent, Steady
  <2> QED
    BY <2>1, <2>2
<1> QED
  BY <1>2, <1>3, <1>4, <1>5, OthersSteady
  DEF OtherRecommend, Claim, Refuse, DropDuplicate,
      Store, SenderFinalizes, SenderDies, Reconcile, RecoveryFinalizes, Requeue, CancelRun

LEMMA PurchaseOthers ==
    ASSUME RecommendTypeOK, PurchaseInv, OtherRecommend
    PROVE  PurchaseInv'
<1>1. AttemptsAdvance
  BY OthersAdvance
<1>2. SentOnce'
  BY OthersTransport DEF PurchaseInv
<1>3. PlanKnowsCurrent' /\ PlanKnowsOpen'
  BY OthersPlan DEF PurchaseInv
<1>4. ResultsLeft'
  BY <1>1, OthersResults DEF PurchaseInv, ResultsLeft, AttemptsAdvance
<1>5. EarlierEnded'
  <2> SUFFICES ASSUME NEW a \in Attempts, NEW b \in Attempts, NEW g \in Groups,
                      Earlier(a, b), Shares(a, b, g)', attempt'[b].status # "absent"
               PROVE  /\ attempt'[a].status \notin Open
                      /\ attempt'[a].status \in {"completed", "unknown"} =>
                            \/ attempt'[a].status = "unknown" /\ attempt'[b].retry
                            \/ g \in attempt'[b].missed
    BY DEF EarlierEnded, Earlier, Open
  <2>1. Shares(a, b, g) /\ attempt[b].status # "absent"
    BY <1>1 DEF AttemptsAdvance, Shares
  <2>2. attempt[a].status \notin Open
    BY <2>1 DEF PurchaseInv, EarlierEnded
  <2>3. attempt'[a].status = attempt[a].status
    BY <1>1, <2>2 DEF AttemptsAdvance, Open
  <2>4. attempt'[b].retry = attempt[b].retry /\ attempt'[b].missed = attempt[b].missed
    BY <1>1 DEF AttemptsAdvance
  <2> QED
    BY <2>1, <2>3, <2>4 DEF PurchaseInv, EarlierEnded
<1> QED
  BY <1>2, <1>3, <1>4, <1>5 DEF PurchaseInv

LEMMA PurchaseReserve ==
    ASSUME TypeOK, RowsExist, PurchaseInv, NEW r \in Runs, NEW cap \in Ordinals,
           NEW requested \in Packings(cap), NEW published,
           planner.pc = "active", Reserve(r, requested, published)
    PROVE  PurchaseInv'
<1>1. RecommendTypeOK
  BY DEF TypeOK
<1>2. requested \in [Ordinals -> SUBSET Candidates]
      /\ \A i, j \in Ordinals : i < j => \A g \in requested[i], h \in requested[j] : g < h
  BY DEF Packings
<1>3. /\ run[r].status = "absent"
      /\ \A a \in Attempts : a[1] = r => attempt[a].status = "absent"
      /\ \A a \in Attempts :
            \/ attempt'[a] = attempt[a]
            \/ a[1] = r /\ requested[a[2]] # {} /\ attempt'[a] = Reservation(requested[a[2]])
  BY <1>1, ReserveWrites
<1>4. UNCHANGED <<result, transports>> /\ planner'.pc = "idle"
  BY DEF Reserve, IdlePlan
<1>5. \A S : Reservation(S).status = "reserved" /\ Reservation(S).retry = planner.retry
             /\ Reservation(S).missed = touched
             /\ \A g \in Groups : Reservation(S).frozen[g] = IF g \in S THEN Context(g) ELSE None
  BY DEF Reservation
<1>6. SentOnce'
  BY <1>3, <1>4, <1>5 DEF PurchaseInv, SentOnce
<1>7. ResultsLeft'
  BY <1>3, <1>4, <1>5 DEF PurchaseInv, ResultsLeft
<1>8. PlanKnowsCurrent' /\ PlanKnowsOpen'
  BY <1>4 DEF PlanKnowsCurrent, PlanKnowsOpen
<1>9. EarlierEnded'
  <2> SUFFICES ASSUME NEW a \in Attempts, NEW b \in Attempts, NEW g \in Groups,
                      Earlier(a, b), Shares(a, b, g)', attempt'[b].status # "absent"
               PROVE  /\ attempt'[a].status \notin Open
                      /\ attempt'[a].status \in {"completed", "unknown"} =>
                            \/ attempt'[a].status = "unknown" /\ attempt'[b].retry
                            \/ g \in attempt'[b].missed
    BY DEF EarlierEnded, Earlier, Open
  <2>1. /\ a[1] \in Runs /\ b[1] \in Runs /\ a[2] \in Ordinals /\ b[2] \in Ordinals
        /\ a[1] \in Nat /\ b[1] \in Nat /\ r \in Nat /\ a[2] \in Nat /\ b[2] \in Nat /\ g \in Nat
    BY RunsAssumption, RepeatAssumption DEF Attempts
  <2>2. attempt'[a].frozen[g] # None /\ attempt'[a].frozen[g] = attempt'[b].frozen[g]
    BY DEF Shares
  <2>3. CASE attempt'[b] = attempt[b]
    <3>1. run[b[1]].status # "absent"
      BY <2>3 DEF RowsExist
    <3>2. a[1] # r
      BY <1>3, <2>1, <2>3, <3>1 DEF Earlier, RowsExist
    <3>3. attempt'[a] = attempt[a]
      BY <1>3, <3>2
    <3>4. Shares(a, b, g)
      BY <2>2, <2>3, <3>3 DEF Shares
    <3> QED
      BY <2>3, <3>3, <3>4 DEF PurchaseInv, EarlierEnded
  <2>4. CASE b[1] = r /\ requested[b[2]] # {} /\ attempt'[b] = Reservation(requested[b[2]])
    <3>1. g \in requested[b[2]] /\ attempt'[a].frozen[g] = Context(g)
      BY <1>5, <2>2, <2>4
    <3>2. g \in Candidates
      BY <1>2, <2>1, <3>1
    <3>3. attempt'[b].retry = planner.retry /\ attempt'[b].missed = touched
      BY <1>5, <2>4
    <3>4. CASE a[1] = r /\ requested[a[2]] # {} /\ attempt'[a] = Reservation(requested[a[2]])
      <4>1. g \in requested[a[2]]
        BY <1>5, <2>2, <3>4
      <4>2. a[2] < b[2]
        BY <2>1, <2>4, <3>4 DEF Earlier
      <4> QED
        BY <1>2, <2>1, <3>1, <4>1, <4>2
    <3>5. CASE attempt'[a] = attempt[a]
      <4>1. attempt[a].frozen[g] = Context(g) /\ Context(g) # None
        BY <2>2, <3>1, <3>5
      <4>2. attempt[a].status \notin Open
        BY <3>2, <4>1 DEF PurchaseInv, PlanKnowsOpen, Candidates
      <4>3. attempt[a].status = "completed" => g \in touched
        <5>1. attempt[a].status = "completed" => Context(g) \in result[g]
          BY <4>1 DEF PurchaseInv, ResultsLeft
        <5>2. g \notin planner.current
          BY <3>2 DEF Candidates
        <5> QED
          BY <5>1, <5>2 DEF PurchaseInv, PlanKnowsCurrent
      <4>4. attempt[a].status = "unknown" => planner.retry
        <5>1. attempt[a].status = "unknown" => <<g, Context(g)>> \in Covered({"unknown"})
          BY <4>1 DEF Covered
        <5> QED
          BY <3>2, <5>1 DEF Candidates
      <4> QED
        BY <3>3, <3>5, <4>2, <4>3, <4>4
    <3> QED
      BY <1>3, <3>4, <3>5
  <2> QED
    BY <1>3, <2>3, <2>4
<1> QED
  BY <1>6, <1>7, <1>8, <1>9 DEF PurchaseInv

LEMMA PurchaseStep ==
    ASSUME TypeOK, RowsExist, PurchaseInv, [Next]_vars
    PROVE  PurchaseInv'
<1>1. GroupsTypeOK /\ RecommendTypeOK /\ BulkTypeOK
  BY DEF TypeOK
<1>2. CASE PeopleNext /\ UNCHANGED recommendVars
  BY <1>1, <1>2, PeopleSteady, PurchaseElsewhere
<1>3. CASE OtherRecommend
  BY <1>1, <1>3, PurchaseOthers
<1>4. CASE \E r \in Runs, cap \in Ordinals : \E requested \in Packings(cap) : \E published :
              planner.pc = "active" /\ Reserve(r, requested, published)
  BY <1>4, PurchaseReserve
<1>5. CASE BulkNext(CurrentGroups) /\ UNCHANGED recommendVars
  BY <1>1, <1>5, BulkSteady, PurchaseElsewhere
<1>6. CASE UNCHANGED vars
  <2>1. UNCHANGED recommendVars /\ Steady
    BY <1>6, SteadyUnchanged DEF vars, groupVars
  <2> QED
    BY <2>1, PurchaseElsewhere
<1> QED
  BY <1>2, <1>3, <1>4, <1>5, <1>6, StepSplit

(* No attempt is sent twice and no unchanged context is paid for twice, but *)
(* by consent or when its plan was overtaken: plan_recommendations and      *)
(* execute_attempt, whatever messages are lost, repeated or delayed.        *)
THEOREM NothingRepurchased == Spec => []NeverRepurchased
<1>1. Init => TypeOK /\ RowsExist /\ PurchaseInv
  BY TypeInit, RowsInit, PurchaseInit
<1>2. TypeOK /\ RowsExist /\ PurchaseInv /\ [Next]_vars => (TypeOK /\ RowsExist /\ PurchaseInv)'
  BY TypeStep, RowsStep, PurchaseStep
<1>3. PurchaseInv => NeverRepurchased
  BY DEF PurchaseInv, SentOnce, EarlierEnded, NeverRepurchased, Open, Paid
<1> QED
  BY <1>1, <1>2, <1>3, PTL DEF Spec
-----------------------------------------------------------------------------
(* RunsSettle.                                                             *)

Settled(r) ==
    /\ run[r].status = "running" <=> /\ \E a \in Attempts : a[1] = r /\ attempt[a].status \in Open
                                     /\ ~run[r].cancelled
    /\ run[r].status = "completed" =>
          \A a \in Attempts : a[1] = r => attempt[a].status \in {"absent", "completed"}

RunsRight == \A r \in Runs : Finalized(r) => Settled(r)

LEMMA DerivedRight ==
    ASSUME NEW statuses, NEW cancelled \in BOOLEAN,
           statuses \subseteq {"absent", "reserved", "sent", "completed", "unknown", "failed"}
    PROVE  /\ Derived(statuses, cancelled) = "running" <=> statuses \cap Open # {} /\ ~cancelled
           /\ Derived(statuses, cancelled) = "completed" => statuses \subseteq {"absent", "completed"}
<1>1. CASE cancelled
  BY <1>1 DEF Derived
<1>2. CASE ~cancelled /\ statuses \cap Open # {}
  BY <1>2 DEF Derived
<1>3. CASE ~cancelled /\ statuses \cap Open = {} /\ "unknown" \in statuses
  BY <1>3 DEF Derived
<1>4. CASE ~cancelled /\ statuses \cap Open = {} /\ "unknown" \notin statuses /\ "failed" \in statuses
  BY <1>4 DEF Derived, Open
<1>5. CASE ~cancelled /\ statuses \cap Open = {} /\ "unknown" \notin statuses /\ "failed" \notin statuses
  BY <1>5 DEF Derived, Open
<1> QED
  BY <1>1, <1>2, <1>3, <1>4, <1>5

(* What finalize_run writes is right for the attempts it read.              *)
LEMMA FinalizeSettles ==
    ASSUME RecommendTypeOK, RecommendTypeOK', NEW r \in Runs, NEW statuses,
           run' = [run EXCEPT ![r].status = Derived(statuses, run[r].cancelled)],
           statuses \cup {"absent"} = {attempt'[<<r, i>>].status : i \in Ordinals} \cup {"absent"}
    PROVE  /\ Settled(r)'
           /\ \A q \in Runs \ {r} : run'[q] = run[q]
<1>1. run \in [Runs -> RunRow] /\ run[r] \in RunRow
  BY DEF RecommendTypeOK
<1> DEFINE d == Derived(statuses, run[r].cancelled)
<1>2. run'[r].status = d /\ run'[r].cancelled = run[r].cancelled
      /\ \A q \in Runs \ {r} : run'[q] = run[q]
  <2> HIDE DEF d
  <2>1. run' = [run EXCEPT ![r].status = d]
    BY DEF d
  <2> QED
    BY <1>1, <2>1 DEF RunRow
<1>3. \A a \in Attempts : attempt'[a].status \in
         {"absent", "reserved", "sent", "completed", "unknown", "failed"}
  BY DEF RecommendTypeOK, AttemptRow
<1>4. \A i \in Ordinals : <<r, i>> \in Attempts /\ <<r, i>>[1] = r
  BY DEF Attempts
<1>5. \A a \in Attempts : a[2] \in Ordinals /\ a = <<a[1], a[2]>>
  BY DEF Attempts
<1>6. \A s \in statuses \ {"absent"} : \E a \in Attempts : a[1] = r /\ attempt'[a].status = s
  <2> TAKE s \in statuses \ {"absent"}
  <2>1. PICK i \in Ordinals : attempt'[<<r, i>>].status = s
    OBVIOUS
  <2> QED
    BY <1>4, <2>1
<1>7. \A a \in Attempts : a[1] = r => attempt'[a].status \in statuses \cup {"absent"}
  BY <1>5
<1>8. statuses \subseteq {"absent", "reserved", "sent", "completed", "unknown", "failed"}
  BY <1>3, <1>6
<1>9. /\ d = "running" <=> statuses \cap Open # {} /\ ~run[r].cancelled
      /\ d = "completed" => statuses \subseteq {"absent", "completed"}
  BY <1>1, <1>8, DerivedRight DEF RunRow
<1>10. statuses \cap Open # {} <=> \E a \in Attempts : a[1] = r /\ attempt'[a].status \in Open
  BY <1>6, <1>7 DEF Open
<1> HIDE DEF d
<1> QED
  BY <1>2, <1>7, <1>9, <1>10 DEF Settled

LEMMA SettledSame ==
    ASSUME NEW r \in Runs, Settled(r), run'[r] = run[r],
           \A a \in Attempts : a[1] = r => attempt'[a].status = attempt[a].status
    PROVE  Settled(r)'
  BY DEF Settled

(* A run that is finalized after a step of another kind was so before it.   *)
LEMMA FinalizedSame ==
    ASSUME NEW r \in Runs, run'[r] = run[r], recovering \subseteq recovering',
           orphaned \subseteq orphaned', sender' = sender, Finalized(r)'
    PROVE  Finalized(r)
  BY DEF Finalized

LEMMA SenderFinalized ==
    ASSUME RecommendTypeOK, NEW r \in Runs, run'[r] = run[r], recovering' = recovering,
           NEW w \in Workers, NEW row, sender' = [sender EXCEPT ![w] = row],
           r \notin orphaned' => r \notin orphaned,
           sender[w].pc = "stored" => sender[w].attempt[1] # r \/ r \in orphaned',
           Finalized(r)'
    PROVE  Finalized(r)
<1>1. \A v \in Workers \ {w} : sender'[v] = sender[v]
  BY DEF RecommendTypeOK
<1> QED
  BY <1>1 DEF Finalized

LEMMA SettleSenders ==
    ASSUME RecommendTypeOK, RecommendTypeOK', RowsExist, RunsRight, NEW w \in Workers
    PROVE  /\ \A a \in Attempts : Claim(w, a) \/ Refuse(w, a) \/ DropDuplicate(w, a) => RunsRight'
           /\ \A outcome \in Ended : Store(w, outcome) => RunsRight'
           /\ SenderFinalizes(w) \/ SenderDies(w) => RunsRight'
<1>1. ASSUME NEW a \in Attempts, Claim(w, a) PROVE RunsRight'
  <2> SUFFICES ASSUME NEW r \in Runs, Finalized(r)' PROVE Settled(r)'
    BY DEF RunsRight
  <2>1. UNCHANGED <<run, recovering, orphaned>> /\ sender' = [sender EXCEPT ![w] = [pc |-> "sent", attempt |-> a]]
        /\ attempt[a].status = "reserved" /\ ~run[a[1]].cancelled /\ sender[w].pc = "idle"
        /\ attempt' = [attempt EXCEPT ![a].status = "sent"]
    BY <1>1 DEF Claim, Claimable, Takes
  <2>2. attempt'[a].status = "sent" /\ \A b \in Attempts \ {a} : attempt'[b] = attempt[b]
    BY <2>1, StatusWrite
  <2>3. Finalized(r)
    BY <2>1, SenderFinalized
  <2>4. CASE a[1] = r
    <3>1. run[r].status = "running"
      BY <2>1, <2>3, <2>4 DEF RunsRight, Settled, Open
    <3> QED
      BY <2>1, <2>2, <2>4, <3>1 DEF Settled, Open
  <2>5. CASE a[1] # r
    BY <2>1, <2>2, <2>3, <2>5, SettledSame DEF RunsRight
  <2> QED
    BY <2>4, <2>5
<1>2. ASSUME NEW a \in Attempts, Refuse(w, a) PROVE RunsRight'
  <2>1. UNCHANGED <<recovering, sender>> /\ orphaned' = orphaned \ {a[1]}
        /\ attempt' = [attempt EXCEPT ![a].status = "failed"] /\ attempt[a].status = "reserved"
        /\ run' = [run EXCEPT ![a[1]].status =
                     Derived({attempt'[<<a[1], i>>].status : i \in Ordinals}, run[a[1]].cancelled)]
    BY <1>2 DEF Refuse, Claimable
  <2>2. \A b \in Attempts \ {a} : attempt'[b] = attempt[b]
    BY <2>1, StatusWrite
  <2> DEFINE q == a[1]
             statuses == {attempt'[<<q, i>>].status : i \in Ordinals}
  <2>3. q \in Runs /\ \A b \in Attempts : b[1] # q => b # a
    BY DEF Attempts
  <2>4. Settled(q)' /\ \A r \in Runs \ {q} : run'[r] = run[r]
    <3>1. run' = [run EXCEPT ![q].status = Derived(statuses, run[q].cancelled)]
          /\ statuses \cup {"absent"} = {attempt'[<<q, i>>].status : i \in Ordinals} \cup {"absent"}
      BY <2>1
    <3> HIDE DEF q, statuses
    <3> QED
      BY <2>3, <3>1, FinalizeSettles
  <2>5. ASSUME NEW r \in Runs \ {q}, Finalized(r)' PROVE Settled(r)'
    <3>1. Finalized(r)
      BY <2>1, <2>4, <2>5 DEF Finalized
    <3> QED
      BY <2>2, <2>3, <2>4, <2>5, <3>1, SettledSame DEF RunsRight
  <2> QED
    BY <2>4, <2>5 DEF RunsRight
<1>3. ASSUME NEW a \in Attempts, DropDuplicate(w, a) PROVE RunsRight'
  BY <1>3 DEF DropDuplicate, RunsRight, Settled, Finalized
<1>4. ASSUME NEW outcome \in Ended, Store(w, outcome) PROVE RunsRight'
  <2> DEFINE a == sender[w].attempt
  <2> SUFFICES ASSUME NEW r \in Runs, Finalized(r)' PROVE Settled(r)'
    BY DEF RunsRight
  <2>1. UNCHANGED <<run, recovering, orphaned>> /\ sender[w].pc = "sent"
        /\ sender' = [sender EXCEPT ![w] = [sender[w] EXCEPT !.pc = "stored"]]
    BY <1>4 DEF Store
  <2>2. sender'[w].pc = "stored" /\ sender'[w].attempt = a /\ a \in Attempts
    BY <2>1 DEF RecommendTypeOK
  <2>3. a[1] # r
    BY <2>2 DEF Finalized
  <2>4. \A b \in Attempts : b[1] = r => attempt'[b] = attempt[b]
    <3>1. CASE Storable(a)
      <4>1. \A b \in Attempts \ {a} : attempt'[b] = attempt[b]
        BY <1>4, <2>2, <3>1, StatusWrite DEF Store, Storable
      <4> QED
        BY <2>3, <4>1
    <3>2. CASE ~Storable(a)
      BY <1>4, <3>2 DEF Store
    <3> QED
      BY <3>1, <3>2
  <2>5. Finalized(r)
    BY <2>1, SenderFinalized
  <2> QED
    BY <2>1, <2>4, <2>5, SettledSame DEF RunsRight
<1>5. ASSUME SenderFinalizes(w) PROVE RunsRight'
  <2> PICK q : q = sender[w].attempt[1]
    OBVIOUS
  <2>1. UNCHANGED <<attempt, recovering>> /\ orphaned' = orphaned \ {q} /\ sender[w].pc = "stored"
        /\ sender' = [sender EXCEPT ![w] = [pc |-> "idle", attempt |-> None]]
        /\ run' = [run EXCEPT ![q].status = Derived(Statuses(q), run[q].cancelled)]
    BY <1>5 DEF SenderFinalizes, Finalize
  <2>2. q \in Runs
    BY <2>1, SenderAttempt
  <2>3. Statuses(q) \cup {"absent"} = {attempt'[<<q, i>>].status : i \in Ordinals} \cup {"absent"}
    BY <2>1 DEF Statuses
  <2>4. Settled(q)' /\ \A r \in Runs \ {q} : run'[r] = run[r]
    BY <2>1, <2>2, <2>3, FinalizeSettles
  <2>5. ASSUME NEW r \in Runs \ {q}, Finalized(r)' PROVE Settled(r)'
    <3>1. Finalized(r)
      BY <2>1, <2>4, <2>5, SenderFinalized
    <3> QED
      BY <2>1, <2>4, <3>1, SettledSame DEF RunsRight
  <2> QED
    BY <2>4, <2>5 DEF RunsRight
<1>6. ASSUME SenderDies(w) PROVE RunsRight'
  <2> SUFFICES ASSUME NEW r \in Runs, Finalized(r)' PROVE Settled(r)'
    BY DEF RunsRight
  <2>1. UNCHANGED <<run, attempt, recovering>> /\ orphaned \subseteq orphaned'
        /\ sender' = [sender EXCEPT ![w] = [pc |-> "idle", attempt |-> None]]
        /\ (sender[w].pc = "stored" => sender[w].attempt[1] \in orphaned')
    BY <1>6 DEF SenderDies
  <2>2. Finalized(r)
    BY <2>1, SenderFinalized
  <2> QED
    BY <2>1, <2>2, SettledSame DEF RunsRight
<1> QED
  BY <1>1, <1>2, <1>3, <1>4, <1>5, <1>6

LEMMA SettleOthers ==
    ASSUME RecommendTypeOK, RecommendTypeOK', RowsExist, RunsRight, OtherRecommend
    PROVE  RunsRight'
<1>1. ASSUME UNCHANGED <<run, attempt, sender, recovering, orphaned>> PROVE RunsRight'
  BY <1>1 DEF RunsRight, Settled, Finalized
<1>2. CASE \E retry \in BOOLEAN : PlanReadsCurrent(retry)
  BY <1>1, <1>2 DEF PlanReadsCurrent
<1>3. CASE PlanReadsActive \/ PlanDies
  BY <1>1, <1>3 DEF PlanReadsActive, PlanDies
<1>4. CASE \E r \in Runs : \E overdue \in SUBSET Ordinals : Reconcile(r, overdue)
  <2> PICK q \in Runs, overdue \in SUBSET Ordinals : Reconcile(q, overdue)
    BY <1>4
  <2> SUFFICES ASSUME NEW r \in Runs, Finalized(r)' PROVE Settled(r)'
    BY DEF RunsRight
  <2>1. UNCHANGED <<run, sender, orphaned>> /\ recovering' = recovering \cup {q}
        /\ \A a \in Attempts : a[1] # q => attempt'[a] = attempt[a]
    BY DEF Reconcile
  <2>2. r # q /\ Finalized(r)
    BY <2>1 DEF Finalized
  <2> QED
    BY <2>1, <2>2, SettledSame DEF RunsRight
<1>5. CASE \E r \in Runs : RecoveryFinalizes(r)
  <2> PICK q \in Runs : RecoveryFinalizes(q)
    BY <1>5
  <2>1. UNCHANGED <<attempt, sender>> /\ orphaned' = orphaned \ {q} /\ recovering' = recovering \ {q}
        /\ run' = [run EXCEPT ![q].status = Derived(Statuses(q), run[q].cancelled)]
    BY DEF RecoveryFinalizes, Finalize
  <2>2. Statuses(q) \cup {"absent"} = {attempt'[<<q, i>>].status : i \in Ordinals} \cup {"absent"}
    BY <2>1 DEF Statuses
  <2>3. Settled(q)' /\ \A r \in Runs \ {q} : run'[r] = run[r]
    BY <2>1, <2>2, FinalizeSettles
  <2>4. ASSUME NEW r \in Runs \ {q}, Finalized(r)' PROVE Settled(r)'
    <3>1. Finalized(r)
      BY <2>1, <2>3, <2>4 DEF Finalized
    <3> QED
      BY <2>1, <2>3, <3>1, SettledSame DEF RunsRight
  <2> QED
    BY <2>3, <2>4 DEF RunsRight
<1>6. CASE \E r \in Runs : Requeue(r)
  BY <1>1, <1>6 DEF Requeue
<1>7. CASE \E r \in Runs : CancelRun(r)
  <2> PICK q \in Runs : CancelRun(q)
    BY <1>7
  <2>1. run' = [run EXCEPT ![q] = [status |-> "cancelled", cancelled |-> TRUE]]
        /\ UNCHANGED <<attempt, sender, recovering, orphaned>>
    BY DEF CancelRun
  <2>2. run'[q].status = "cancelled" /\ run'[q].cancelled /\ \A r \in Runs \ {q} : run'[r] = run[r]
    BY <2>1 DEF RecommendTypeOK
  <2>3. ASSUME NEW r \in Runs \ {q}, Finalized(r)' PROVE Settled(r)'
    <3>1. Finalized(r)
      BY <2>1, <2>2, <2>3 DEF Finalized
    <3> QED
      BY <2>1, <2>2, <3>1, SettledSame DEF RunsRight
  <2>4. Settled(q)'
    BY <2>2 DEF Settled
  <2> QED
    BY <2>3, <2>4 DEF RunsRight
<1> QED
  BY <1>2, <1>3, <1>4, <1>5, <1>6, <1>7, SettleSenders DEF OtherRecommend

LEMMA SettleReserve ==
    ASSUME RecommendTypeOK, RowsExist, RunsRight, NEW r \in Runs, NEW requested, NEW published,
           Reserve(r, requested, published)
    PROVE  RunsRight'
<1>1. /\ run'[r].status \in {"running", "completed"} /\ ~run'[r].cancelled
      /\ \A q \in Runs \ {r} : run'[q] = run[q]
      /\ \A a \in Attempts : a[1] = r => attempt[a].status = "absent"
      /\ \A a \in Attempts :
            \/ attempt'[a] = attempt[a]
            \/ a[1] = r /\ requested[a[2]] # {} /\ attempt'[a] = Reservation(requested[a[2]])
      /\ run'[r].status = "running" <=> \E i \in Ordinals : requested[i] # {}
      /\ \A a \in Attempts : a[1] = r /\ requested[a[2]] # {} => attempt'[a].status = "reserved"
  BY ReserveWrites
<1>2. UNCHANGED <<sender, recovering, orphaned>>
  BY DEF Reserve
<1>3. Settled(r)'
  <2>1. (\E i \in Ordinals : requested[i] # {}) <=> \E a \in Attempts : a[1] = r /\ requested[a[2]] # {}
    <3>1. \A i \in Ordinals : <<r, i>> \in Attempts /\ <<r, i>>[1] = r /\ <<r, i>>[2] = i
      BY DEF Attempts
    <3>2. \A a \in Attempts : a[2] \in Ordinals
      BY DEF Attempts
    <3> QED
      BY <3>1, <3>2
  <2>2. \A a \in Attempts : a[1] = r => (attempt'[a].status \in Open <=> requested[a[2]] # {})
    BY <1>1 DEF Open
  <2>3. \A a \in Attempts : a[1] = r /\ requested[a[2]] = {} => attempt'[a].status = "absent"
    BY <1>1
  <2> QED
    BY <1>1, <2>1, <2>2, <2>3 DEF Settled
<1>4. ASSUME NEW q \in Runs \ {r}, Finalized(q)' PROVE Settled(q)'
  <2>1. Finalized(q)
    BY <1>1, <1>2, <1>4, FinalizedSame
  <2> QED
    BY <1>1, <2>1, SettledSame DEF RunsRight
<1> QED
  BY <1>3, <1>4 DEF RunsRight

LEMMA SettleStep ==
    ASSUME TypeOK, RowsExist, RunsRight, [Next]_vars
    PROVE  RunsRight'
<1>1. RecommendTypeOK /\ RecommendTypeOK'
  BY TypeStep DEF TypeOK
<1>2. CASE UNCHANGED recommendVars
  BY <1>2 DEF recommendVars, RunsRight, Settled, Finalized
<1>3. CASE OtherRecommend
  BY <1>1, <1>3, SettleOthers
<1>4. CASE \E r \in Runs : \E requested, published : Reserve(r, requested, published)
  BY <1>1, <1>4, SettleReserve
<1>5. CASE UNCHANGED vars
  BY <1>2, <1>5 DEF vars
<1> QED
  BY <1>2, <1>3, <1>4, <1>5, StepSplit

(* A run that nobody is about to finalize has the status that its attempts  *)
(* make it have: finalize_run, unless its caller died.                      *)
THEOREM RunsFinalized == Spec => []RunsSettle
<1>1. Init => TypeOK /\ RowsExist /\ RunsRight
  <2>1. Init => \A r \in Runs : run[r].status = "absent"
    BY DEF Init, RecommendInit
  <2> QED
    BY <2>1, TypeInit, RowsInit DEF RunsRight, Finalized
<1>2. TypeOK /\ RowsExist /\ RunsRight /\ [Next]_vars => (TypeOK /\ RowsExist /\ RunsRight)'
  BY TypeStep, RowsStep, SettleStep
<1>3. RunsRight => RunsSettle
  <2> SUFFICES ASSUME RunsRight, NEW r \in Runs, Finalized(r)
               PROVE  /\ run[r].status = "running" <=> Statuses(r) \cap Open # {} /\ ~run[r].cancelled
                      /\ run[r].status = "completed" => Statuses(r) \subseteq {"completed"}
    BY DEF RunsSettle
  <2>1. Settled(r)
    BY DEF RunsRight
  <2>2. \A i \in Ordinals : <<r, i>> \in Attempts /\ <<r, i>>[1] = r
    BY DEF Attempts
  <2>3. \A a \in Attempts : a[1] = r => a[2] \in Ordinals /\ a = <<r, a[2]>>
    BY DEF Attempts
  <2>4. Statuses(r) \cap Open # {} <=> \E a \in Attempts : a[1] = r /\ attempt[a].status \in Open
    BY <2>2, <2>3 DEF Statuses, Open
  <2>5. Statuses(r) \subseteq {attempt[a].status : a \in {b \in Attempts : b[1] = r}} \ {"absent"}
    BY <2>2 DEF Statuses
  <2> QED
    BY <2>1, <2>4, <2>5 DEF Settled
<1> QED
  BY <1>1, <1>2, <1>3, PTL DEF Spec
-----------------------------------------------------------------------------
(* UndoKeepsLaterWork.                                                     *)

(* What a step may do to the groups.                                        *)
LEMMA GroupSteps ==
    ASSUME TypeOK, [Next]_vars
    PROVE  \/ \E g \in Groups : ApplyDecision(g)
           \/ \E g \in Groups : \E e \in event[g] : IsLast(g, e) /\ UndoDecision(g, e)
           \/ \E g \in Groups : Decided(g, "independent") /\ UNCHANGED <<unit, event, author>>
           \/ UNCHANGED <<group, event>> /\ \A u \in Units : author'[u] \in {0, author[u]}
<1>1. CASE PeopleNext
  <2>1. CASE \E u \in Units : Approve(u) \/ \E text \in Texts : Edit(u, text)
    BY <2>1 DEF Approve, Edit, TypeOK, GroupsTypeOK
  <2>2. CASE RightsChange \/ \E g \in Groups : DecideByHand(g) \/ KeepIndependent(g) \/ UndoByHand(g)
    BY <2>2 DEF RightsChange, DecideByHand, KeepIndependent, UndoByHand
  <2> QED
    BY <1>1, <2>1, <2>2 DEF PeopleNext
<1>2. CASE RecommendNext
  BY <1>2, RecommendGroups DEF TypeOK
<1>3. CASE BulkNext(CurrentGroups)
  <2>1. CASE \E n \in Reviews : \/ PlanBulk(n, CurrentGroups)
                                \/ \E s \in Selections : StartReads(n, s)
                                \/ StartUndo(n)
                                \/ \E kind \in {"apply", "undo"} : ResumeReads(n, kind)
    BY <2>1 DEF PlanBulk, StartReads, StartUndo, ResumeReads
  <2>2. CASE (\E n \in Reviews : \E s \in submitting[n] : StartCreates(n, s)) \/ \E b \in Batches, seen \in {"failed", "open"} : ResumeSaves(b, seen)
    BY <2>2 DEF StartCreates, ResumeSaves, groupVars
  <2>3. CASE \E w \in Workers : WorkerNext(w)
    <3> PICK w \in Workers : WorkerNext(w)
      BY <2>3
    <3>1. CASE (\E b \in Batches : Receive(w, b)) \/ ChooseItem(w) \/ EndBatch(w) \/ FailBatch(w)
      BY <3>1 DEF Receive, ChooseItem, EndBatch, FailBatch, groupVars
    <3>2. CASE LockGroup(w) \/ Preview(w) \/ Raise(w) \/ WorkerDies(w)
      BY <3>2 DEF LockGroup, Preview, Raise, WorkerDies, groupVars
    <3>3. worker[w].pc \in InTransaction => worker[w].group \in Groups
      BY DEF TypeOK, BulkTypeOK
    <3>4. CASE Write(w)
      BY <3>3, <3>4 DEF Write, At, InTransaction
    <3>5. CASE UndoItem(w)
      BY <3>3, <3>5 DEF UndoItem, At, InTransaction, groupVars
    <3> QED
      BY <3>1, <3>2, <3>4, <3>5 DEF WorkerNext
  <2> QED
    BY <1>3, <2>1, <2>2, <2>3 DEF BulkNext
<1>4. CASE UNCHANGED vars
  BY <1>4 DEF vars, groupVars
<1> QED
  BY <1>1, <1>2, <1>3, <1>4 DEF Next

(* The author of a text is no decision before one that wrote the unit.      *)
AuthorsKnown ==
    \A u \in Units :
        /\ author[u] < group[GroupOf[u]].revision
        /\ \A e \in event[GroupOf[u]] :
              /\ e.revision < group[GroupOf[u]].revision
              /\ u \in e.written => author[u] = 0 \/ author[u] >= e.revision

LEMMA AuthorsStep ==
    ASSUME TypeOK, AuthorsKnown, [Next]_vars
    PROVE  AuthorsKnown'
<1>1. /\ \A u \in Units : GroupOf[u] \in Groups /\ author[u] \in Nat
      /\ \A g \in Groups : group[g].revision \in Nat
      /\ \A g \in Groups : \A e \in event[g] : e.revision \in Nat
      /\ group \in [Groups -> GroupRow] /\ event \in [Groups -> SUBSET EventRow]
  BY Ids DEF TypeOK, GroupsTypeOK, GroupRow, EventRow
<1>2. ASSUME NEW g \in Groups, NEW decision, Decided(g, decision)
      PROVE  group'[g].revision = group[g].revision + 1 /\ \A h \in Groups \ {g} : group'[h] = group[h]
  BY <1>1, <1>2 DEF Decided
<1>3. CASE \E g \in Groups : ApplyDecision(g)
  <2> PICK g \in Groups : ApplyDecision(g)
    BY <1>3
  <2>1. group'[g].revision = group[g].revision + 1 /\ \A h \in Groups \ {g} : group'[h] = group[h]
    BY <1>2 DEF ApplyDecision
  <2>2. \A u \in Units : author'[u] = IF u \in Changing(g) THEN group[g].revision ELSE author[u]
    BY DEF ApplyDecision, Spread
  <2>3. \A h \in Groups \ {g} : event'[h] = event[h]
    BY <1>1 DEF ApplyDecision
  <2>4. \A e \in event'[g] : e \in event[g] \/ (e.revision = group[g].revision /\ e.written = Changing(g))
    <3> DEFINE new == [revision |-> group[g].revision, written |-> Changing(g),
                       old |-> [u \in Units |-> unit[u].text]]
    <3>1. event' = [event EXCEPT ![g] = event[g] \cup {new}]
      BY DEF ApplyDecision
    <3>2. new.revision = group[g].revision /\ new.written = Changing(g)
      OBVIOUS
    <3> HIDE DEF new
    <3>3. event'[g] = event[g] \cup {new}
      BY <1>1, <3>1
    <3> QED
      BY <3>2, <3>3
  <2>5. \A u \in Changing(g) : u \in Units /\ GroupOf[u] = g
    BY DEF Changing, Members
  <2> SUFFICES ASSUME NEW u \in Units
               PROVE  /\ author'[u] < group'[GroupOf[u]].revision
                      /\ \A e \in event'[GroupOf[u]] :
                            /\ e.revision < group'[GroupOf[u]].revision
                            /\ u \in e.written => author'[u] = 0 \/ author'[u] >= e.revision
    BY DEF AuthorsKnown
  <2>6. CASE GroupOf[u] # g
    <3>1. author'[u] = author[u] /\ group'[GroupOf[u]] = group[GroupOf[u]] /\ event'[GroupOf[u]] = event[GroupOf[u]]
      BY <1>1, <2>1, <2>2, <2>3, <2>5, <2>6
    <3> QED
      BY <3>1 DEF AuthorsKnown
  <2>7. CASE GroupOf[u] = g
    <3>1. author'[u] < group'[g].revision
      BY <1>1, <2>1, <2>2, <2>7 DEF AuthorsKnown
    <3>2. ASSUME NEW e \in event[g]
          PROVE  e.revision < group'[g].revision /\ (u \in e.written => author'[u] = 0 \/ author'[u] >= e.revision)
      BY <1>1, <2>1, <2>2, <2>7 DEF AuthorsKnown
    <3>3. ASSUME NEW e \in event'[g], e.revision = group[g].revision, e.written = Changing(g)
          PROVE  e.revision < group'[g].revision /\ (u \in e.written => author'[u] >= e.revision)
      BY <1>1, <2>1, <2>2, <3>3
    <3> QED
      BY <2>4, <2>7, <3>1, <3>2, <3>3
  <2> QED
    BY <2>6, <2>7
<1>4. ASSUME event' = event, \A u \in Units : author'[u] \in {0, author[u]},
             \A g \in Groups : group'[g].revision \in {group[g].revision, group[g].revision + 1}
      PROVE  AuthorsKnown'
  BY <1>1, <1>4 DEF AuthorsKnown
<1>5. CASE \E g \in Groups : \E e \in event[g] : UndoDecision(g, e)
  <2> PICK g \in Groups : \E e \in event[g] : UndoDecision(g, e)
    BY <1>5
  <2> PICK e \in event[g] : UndoDecision(g, e)
    OBVIOUS
  <2>1. event' = event /\ \A u \in Units : author'[u] \in {0, author[u]}
    BY DEF UndoDecision
  <2>2. \A h \in Groups : group'[h].revision \in {group[h].revision, group[h].revision + 1}
    BY <1>2 DEF UndoDecision
  <2> QED
    BY <1>4, <2>1, <2>2
<1>6. CASE \E g \in Groups : Decided(g, "independent") /\ UNCHANGED <<unit, event, author>>
  <2>1. \A h \in Groups : group'[h].revision \in {group[h].revision, group[h].revision + 1}
    BY <1>2, <1>6
  <2> QED
    BY <1>4, <1>6, <2>1
<1>7. CASE UNCHANGED <<group, event>> /\ \A u \in Units : author'[u] \in {0, author[u]}
  BY <1>4, <1>7
<1> QED
  BY <1>3, <1>5, <1>6, <1>7, GroupSteps

(* undo_event restores only units that still carry what the last decision   *)
(* wrote, and that decision is the one undone, whoever undoes it: a person, *)
(* or a batch that was started long before.                                 *)
THEOREM LaterWorkKept == Spec => UndoKeepsLaterWork
<1>1. Init => TypeOK /\ AuthorsKnown
  <2>1. Init => AuthorsKnown
    BY Ids DEF Init, GroupsInit, AuthorsKnown
  <2> QED
    BY <2>1, TypeInit
<1>2. TypeOK /\ AuthorsKnown /\ [Next]_vars => (TypeOK /\ AuthorsKnown)'
  BY TypeStep, AuthorsStep
<1> DEFINE Kept == \A g \in Groups, u \in Units :
          /\ GroupOf[u] = g /\ unit'[u] # unit[u]
          /\ group'[g].revision # group[g].revision /\ group'[g].decision = "open"
          => /\ ~unit[u].approved /\ unit[u].text = "shared"
             /\ \E e \in event[g] : /\ e.revision + 1 = group[g].revision
                                    /\ u \in e.written /\ unit'[u].text = e.old[u]
                                    /\ author[u] \in {0, e.revision}
<1>3. TypeOK /\ AuthorsKnown /\ [Next]_vars => [Kept]_vars
  <2> SUFFICES ASSUME TypeOK, AuthorsKnown, [Next]_vars,
                      NEW g \in Groups, NEW u \in Units, GroupOf[u] = g, unit'[u] # unit[u],
                      group'[g].revision # group[g].revision, group'[g].decision = "open"
               PROVE  /\ ~unit[u].approved /\ unit[u].text = "shared"
                      /\ \E e \in event[g] : /\ e.revision + 1 = group[g].revision
                                             /\ u \in e.written /\ unit'[u].text = e.old[u]
                                             /\ author[u] \in {0, e.revision}
    OBVIOUS
  <2>1. /\ group \in [Groups -> GroupRow] /\ unit \in [Units -> UnitRow]
        /\ author[u] \in Nat /\ group[g].revision \in Nat /\ \A e \in event[g] : e.revision \in Nat
    BY DEF TypeOK, GroupsTypeOK, GroupRow, EventRow
  <2>2. ASSUME NEW h \in Groups, NEW decision, Decided(h, decision) PROVE h = g /\ decision = "open"
    BY <2>1, <2>2 DEF Decided
  <2>3. PICK e \in event[g] : IsLast(g, e) /\ UndoDecision(g, e)
    BY <2>2, GroupSteps DEF ApplyDecision, UndoDecision
  <2>4. u \in Unchanged(e) /\ unit'[u] = [unit[u] EXCEPT !.text = e.old[u]]
    BY <2>3 DEF UndoDecision
  <2>5. u \in e.written /\ ~unit[u].approved /\ unit[u].text = "shared" /\ unit'[u].text = e.old[u]
    BY <2>1, <2>4 DEF Unchanged, UnitRow
  <2>6. group[g].revision = e.revision + 1 /\ author[u] \in {0, e.revision}
    BY <2>1, <2>3, <2>5 DEF IsLast, AuthorsKnown
  <2> QED
    BY <2>5, <2>6
<1> QED
  BY <1>1, <1>2, <1>3, PTL DEF Spec, UndoKeepsLaterWork
-----------------------------------------------------------------------------
(* Batches and their workers.                                              *)

(* A batch that does not exist has no items.                                *)
FreshBatches ==
    \A b \in Batches : batch[b].status = "absent" => \A g \in Groups : batch[b].item[g].status = "none"

(* One worker is in a transaction of a batch, on an item that is pending,   *)
(* and from the preview on it holds what the item froze.                    *)
OneTransaction ==
    \A v, w \in Workers : v # w /\ worker[v].pc \in InTransaction /\ worker[w].pc \in InTransaction
        => worker[v].batch # worker[w].batch
WorkersRight ==
    \A w \in Workers : worker[w].pc \in InTransaction =>
        /\ batch[worker[w].batch].item[worker[w].group].status = "pending"
        /\ worker[w].pc \in {"preview", "write"} => worker[w].batch[2] = "apply"
        /\ worker[w].pc = "write" => worker[w].seen = Frozen(w)

(* Items freeze what was reviewed.                                          *)
ItemsReviewed ==
    \A n \in Reviews :
        /\ \A s \in submitting[n] : \A g \in GroupsIn(s) : review[n][g] # None
        /\ \A g \in Groups : batch[Applies(n)].item[g].status # "none" =>
              review[n][g] # None /\ batch[Applies(n)].item[g].context = review[n][g]

ResumesKnown == \A b \in Batches : Resumes(b) => batch[b].status # "absent"

(* An apply batch that has an undo batch has stopped.                       *)
UndoneStopped ==
    \A n \in Reviews \ overtaken : batch[Undoes(n)].status # "absent" =>
        /\ batch[Applies(n)].status \in {"completed", "failed"}
        /\ ~Resumes(Applies(n))
        /\ \A w \in Workers : worker[w].pc \in InTransaction => worker[w].batch # Applies(n)

BatchInv == FreshBatches /\ OneTransaction /\ WorkersRight /\ ItemsReviewed /\ ResumesKnown /\ UndoneStopped

(* A resume that read "failed" saves "queued".                              *)
SawFailed(b) == resuming[b]["failed"] > 0

LEMMA SawIsResuming == \A b : SawFailed(b) => Resumes(b)
  BY DEF SawFailed, Resumes

(* Steps that leave the items alone.                                        *)
ItemsKept ==
    \A b \in Batches :
        /\ \A g \in Groups : batch'[b].item[g] = batch[b].item[g]
        /\ \/ batch'[b].status = batch[b].status
           \/ batch'[b].status # "absent" /\ (IsOpen(b) \/ SawFailed(b))

(* A worker that stays where it was, leaves, or begins with an item.        *)
Moves(w) ==
    \E row :
        /\ worker' = [worker EXCEPT ![w] = row]
        /\ \/ row.pc \notin InTransaction
           \/ /\ row.batch = worker[w].batch /\ row.batch \in Batches /\ row.group \in Groups
              /\ \/ worker[w].pc \in InTransaction /\ row.group = worker[w].group
                 \/ /\ RunUnlocked(row.batch) /\ IsOpen(row.batch)
                    /\ batch[row.batch].item[row.group].status = "pending"
              /\ row.pc \in {"preview", "write"} => row.batch[2] = "apply"
              /\ row.pc = "write" => row.seen = batch[row.batch].item[row.group].context

LEMMA StatusKeeps ==
    ASSUME BulkTypeOK, NEW b \in Batches, NEW s, s # "absent",
           batch' = [batch EXCEPT ![b].status = s], IsOpen(b) \/ SawFailed(b)
    PROVE  ItemsKept
<1>1. batch \in [Batches -> BatchRow] /\ batch[b] \in BatchRow
  BY DEF BulkTypeOK
<1>2. [batch[b] EXCEPT !.status = s].status = s /\ [batch[b] EXCEPT !.status = s].item = batch[b].item
  BY <1>1 DEF BatchRow
<1>3. batch'[b] = [batch[b] EXCEPT !.status = s] /\ \A c \in Batches \ {b} : batch'[c] = batch[c]
  BY <1>1
<1> QED
  BY <1>2, <1>3 DEF ItemsKept

LEMMA WorkerSteps ==
    ASSUME BulkTypeOK, WorkersRight, NEW w \in Workers, WorkerNext(w)
    PROVE  \/ ItemsKept /\ Moves(w) /\ UNCHANGED <<review, submitting, resuming, overtaken>>
           \/ /\ worker[w].pc \in InTransaction
              /\ \E status \in {"applied", "skipped", "undone"} : \E revision : Settle(w, status, revision)
                    /\ (status = "applied" => Context(worker[w].group) = Frozen(w))
<1> DEFINE Quiet == ItemsKept /\ Moves(w) /\ UNCHANGED <<review, submitting, resuming, overtaken>>
<1> DEFINE Settles == /\ worker[w].pc \in InTransaction
                      /\ \E status \in {"applied", "skipped", "undone"} : \E revision : Settle(w, status, revision)
                            /\ (status = "applied" => Context(worker[w].group) = Frozen(w))
<1>1. batch' = batch => ItemsKept
  BY DEF ItemsKept
<1>2. Return(w) => Moves(w)
  <2>1. IdleWorker.pc \notin InTransaction
    BY DEF IdleWorker, InTransaction
  <2> QED
    BY <2>1 DEF Return, Moves
<1>3. worker[w] \in WorkerRow /\ (worker[w].pc # "idle" => worker[w].batch \in Batches)
      /\ (worker[w].pc \in InTransaction => worker[w].group \in Groups)
  BY DEF BulkTypeOK
<1>4. ASSUME NEW point, NEW g, Goto(w, point, g)
      PROVE  \E row : /\ worker' = [worker EXCEPT ![w] = row]
                      /\ row.pc = point /\ row.group = g /\ row.batch = worker[w].batch
  <2> DEFINE row == [worker[w] EXCEPT !.pc = point, !.group = g, !.seen = None]
  <2>1. row.pc = point /\ row.group = g /\ row.batch = worker[w].batch
    BY <1>3 DEF WorkerRow
  <2>2. worker' = [worker EXCEPT ![w] = row]
    BY <1>4 DEF Goto
  <2> HIDE DEF row
  <2> QED
    BY <2>1, <2>2
<1>5. CASE \E b \in Batches : Receive(w, b)
  <2> PICK b \in Batches : Receive(w, b)
    BY <1>5
  <2>1. [IdleWorker EXCEPT !.pc = "next", !.batch = b].pc \notin InTransaction
    BY DEF IdleWorker, InTransaction
  <2> QED
    BY <1>1, <2>1 DEF Receive, Moves
<1>6. CASE ChooseItem(w)
  <2>1. PICK g \in Groups : IsFirst(worker[w].batch, g) /\ Goto(w, "item", g)
    BY <1>6 DEF ChooseItem
  <2>2. RunUnlocked(worker[w].batch) /\ IsOpen(worker[w].batch) /\ worker[w].batch \in Batches
        /\ UNCHANGED <<batch, review, submitting, resuming, overtaken>>
    BY <1>3, <1>6 DEF ChooseItem, At
  <2>3. batch[worker[w].batch].item[g].status = "pending"
    BY <2>1 DEF IsFirst, Pending
  <2>4. Moves(w)
    BY <1>4, <2>1, <2>2, <2>3 DEF Moves
  <2> QED
    BY <1>1, <2>2, <2>4
<1>7. CASE EndBatch(w)
  <2>1. worker[w].batch \in Batches /\ Return(w) /\ UNCHANGED <<review, submitting, resuming, overtaken>>
    BY <1>3, <1>7 DEF EndBatch, At
  <2>2. ItemsKept
    <3>1. CASE IsOpen(worker[w].batch)
      <4>1. \E s \in {"completed", "failed"} : batch' = [batch EXCEPT ![worker[w].batch].status = s]
        BY <1>7, <3>1 DEF EndBatch
      <4> QED
        BY <2>1, <3>1, <4>1, StatusKeeps
    <3>2. CASE ~IsOpen(worker[w].batch)
      BY <1>1, <1>7, <3>2 DEF EndBatch
    <3> QED
      BY <3>1, <3>2
  <2> QED
    BY <1>2, <2>1, <2>2
<1>8. CASE FailBatch(w)
  <2>1. worker[w].batch \in Batches /\ Return(w) /\ UNCHANGED <<review, submitting, resuming, overtaken>>
    BY <1>3, <1>8 DEF FailBatch, At
  <2>2. ItemsKept
    BY <1>1, <1>8, <2>1, StatusKeeps DEF FailBatch
  <2> QED
    BY <1>2, <2>1, <2>2
<1>9. CASE Raise(w)
  <2>1. Goto(w, "failing", None) /\ UNCHANGED <<batch, review, submitting, resuming, overtaken>>
    BY <1>9 DEF Raise
  <2>2. Moves(w)
    BY <1>4, <2>1 DEF Moves, InTransaction
  <2> QED
    BY <1>1, <2>1, <2>2
<1>10. CASE WorkerDies(w)
  BY <1>1, <1>2, <1>10 DEF WorkerDies
<1>11. worker[w].pc \in InTransaction /\ Skip(w) => Settles
  BY DEF Skip
<1>12. CASE LockGroup(w)
  <2>1. worker[w].pc \in InTransaction /\ worker[w].batch \in Batches /\ worker[w].batch[2] = "apply"
    BY <1>3, <1>12 DEF LockGroup, At, InTransaction, Kind
  <2>2. CASE Goto(w, "preview", worker[w].group) /\ UNCHANGED <<batch, review, submitting, resuming, overtaken>>
    <3>1. Moves(w)
      BY <1>3, <1>4, <2>1, <2>2 DEF Moves
    <3> QED
      BY <1>1, <2>2, <3>1
  <2> QED
    BY <1>11, <1>12, <2>1, <2>2 DEF LockGroup
<1>13. CASE Preview(w)
  <2>1. worker[w].pc \in InTransaction /\ worker[w].batch \in Batches /\ worker[w].batch[2] = "apply"
        /\ worker[w].group \in Groups
    BY <1>3, <1>13 DEF Preview, At, InTransaction, WorkersRight
  <2>2. CASE PreviewAgrees(w) /\ Changing(worker[w].group) # {}
    <3> DEFINE row == [worker[w] EXCEPT !.pc = "write", !.seen = Context(worker[w].group)]
    <3>1. worker' = [worker EXCEPT ![w] = row] /\ UNCHANGED <<batch, review, submitting, resuming, overtaken>>
      BY <1>13, <2>2 DEF Preview
    <3>2. row.pc = "write" /\ row.batch = worker[w].batch /\ row.group = worker[w].group
          /\ row.seen = Context(worker[w].group)
      BY <1>3 DEF WorkerRow
    <3> HIDE DEF row
    <3>3. Moves(w)
      BY <2>1, <2>2, <3>1, <3>2 DEF Moves, PreviewAgrees, Frozen
    <3> QED
      BY <1>1, <3>1, <3>3
  <2> QED
    BY <1>11, <1>13, <2>1, <2>2 DEF Preview
<1>14. CASE Write(w)
  <2>1. worker[w].pc \in InTransaction /\ worker[w].pc = "write"
    BY <1>14 DEF Write, At, InTransaction
  <2>2. CASE RecipientsUnchanged(w)
    <3>1. Settle(w, "applied", group[worker[w].group].revision)
      BY <1>14, <2>2 DEF Write
    <3>2. Context(worker[w].group) = Frozen(w)
      BY <2>1, <2>2 DEF RecipientsUnchanged, WorkersRight
    <3> QED
      BY <2>1, <3>1, <3>2
  <2> QED
    BY <1>11, <1>14, <2>1, <2>2 DEF Write
<1>15. CASE UndoItem(w)
  <2>1. worker[w].pc \in InTransaction
    BY <1>15 DEF UndoItem, At, InTransaction
  <2>2. Skip(w) \/ \E revision : Settle(w, "undone", revision)
    BY <1>15 DEF UndoItem
  <2> QED
    BY <1>11, <2>1, <2>2
<1> QED
  BY <1>5, <1>6, <1>7, <1>8, <1>9, <1>10, <1>12, <1>13, <1>14, <1>15 DEF WorkerNext

LEMMA SettleWrites ==
    ASSUME BulkTypeOK, NEW w \in Workers, worker[w].pc \in InTransaction,
           NEW status, NEW revision, Settle(w, status, revision)
    PROVE  LET b == worker[w].batch
               g == worker[w].group
           IN  /\ b \in Batches /\ g \in Groups
               /\ batch'[b].status = "running"
               /\ batch'[b].item[g].status = status /\ batch'[b].item[g].context = batch[b].item[g].context
               /\ \A h \in Groups \ {g} : batch'[b].item[h] = batch[b].item[h]
               /\ \A c \in Batches \ {b} : batch'[c] = batch[c]
               /\ worker'[w].pc = "next" /\ \A v \in Workers \ {w} : worker'[v] = worker[v]
               /\ UNCHANGED <<review, submitting, resuming, overtaken>>
<1> DEFINE b == worker[w].batch
           g == worker[w].group
           settled == [status |-> status, context |-> batch[b].item[g].context, revision |-> revision]
           items == [batch[b].item EXCEPT ![g] = settled]
           row == [status |-> "running", order |-> batch[b].order, item |-> items]
<1>1. b \in Batches /\ g \in Groups
  BY DEF BulkTypeOK, InTransaction
<1>2. batch \in [Batches -> BatchRow] /\ worker \in [Workers -> WorkerRow]
  BY DEF BulkTypeOK
<1>3. batch[b].item \in [Groups -> ItemRow]
  BY <1>1, <1>2 DEF BatchRow
<1>4. settled.status = status /\ settled.context = batch[b].item[g].context
  OBVIOUS
<1>5. batch' = [batch EXCEPT ![b] = row] /\ Goto(w, "next", None)
      /\ UNCHANGED <<review, submitting, resuming, overtaken>>
  BY DEF Settle
<1> HIDE DEF settled
<1>6. items[g] = settled /\ \A h \in Groups \ {g} : items[h] = batch[b].item[h]
  BY <1>1, <1>3
<1> HIDE DEF items
<1>7. row.item = items /\ row.status = "running"
  OBVIOUS
<1> HIDE DEF row
<1>8. batch'[b] = row /\ \A c \in Batches \ {b} : batch'[c] = batch[c]
  BY <1>1, <1>2, <1>5
<1>9. worker'[w].pc = "next" /\ \A v \in Workers \ {w} : worker'[v] = worker[v]
  <2> DEFINE new == [worker[w] EXCEPT !.pc = "next", !.group = None, !.seen = None]
  <2>1. new.pc = "next"
    BY <1>2 DEF WorkerRow
  <2>2. worker' = [worker EXCEPT ![w] = new]
    BY <1>5 DEF Goto
  <2> HIDE DEF new
  <2> QED
    BY <1>2, <2>1, <2>2
<1> QED
  BY <1>1, <1>4, <1>5, <1>6, <1>7, <1>8, <1>9

LEMMA QuietWorkers ==
    ASSUME BulkTypeOK, BatchInv, NEW w \in Workers,
           ItemsKept, Moves(w), UNCHANGED <<review, submitting, resuming, overtaken>>
    PROVE  BatchInv'
<1>1. PICK row :
        /\ worker' = [worker EXCEPT ![w] = row]
        /\ \/ row.pc \notin InTransaction
           \/ /\ row.batch = worker[w].batch /\ row.batch \in Batches /\ row.group \in Groups
              /\ \/ worker[w].pc \in InTransaction /\ row.group = worker[w].group
                 \/ /\ RunUnlocked(row.batch) /\ IsOpen(row.batch)
                    /\ batch[row.batch].item[row.group].status = "pending"
              /\ row.pc \in {"preview", "write"} => row.batch[2] = "apply"
              /\ row.pc = "write" => row.seen = batch[row.batch].item[row.group].context
  BY DEF Moves
<1>2. worker'[w] = row /\ \A v \in Workers \ {w} : worker'[v] = worker[v]
  BY <1>1 DEF BulkTypeOK
<1>3. \A v \in Workers : worker[v].pc \in InTransaction => worker[v].batch \in Batches /\ worker[v].group \in Groups
  BY DEF BulkTypeOK, InTransaction
<1>4. /\ \A b \in Batches, g \in Groups : batch'[b].item[g] = batch[b].item[g]
      /\ \A b \in Batches : \/ batch'[b].status = batch[b].status
                            \/ batch'[b].status # "absent" /\ (IsOpen(b) \/ SawFailed(b))
  BY DEF ItemsKept
<1>5. \A b \in Batches : batch'[b].status = "absent" <=> batch[b].status = "absent"
  BY <1>4, SawIsResuming DEF IsOpen, BatchInv, ResumesKnown
<1>6. FreshBatches' /\ ResumesKnown'
  BY <1>4, <1>5 DEF BatchInv, FreshBatches, ResumesKnown, Resumes
<1>7. OneTransaction'
  <2>1. ASSUME NEW v \in Workers \ {w}, worker[v].pc \in InTransaction, row.pc \in InTransaction
        PROVE  worker[v].batch # row.batch
    <3>1. CASE worker[w].pc \in InTransaction
      BY <1>1, <2>1, <3>1 DEF BatchInv, OneTransaction
    <3>2. CASE RunUnlocked(row.batch)
      BY <2>1, <3>2 DEF RunUnlocked
    <3> QED
      BY <1>1, <2>1, <3>1, <3>2
  <2> QED
    BY <1>2, <2>1 DEF BatchInv, OneTransaction
<1>8. WorkersRight'
  <2> SUFFICES ASSUME NEW v \in Workers, worker'[v].pc \in InTransaction
               PROVE  /\ batch'[worker'[v].batch].item[worker'[v].group].status = "pending"
                      /\ worker'[v].pc \in {"preview", "write"} => worker'[v].batch[2] = "apply"
                      /\ worker'[v].pc = "write" =>
                            worker'[v].seen = batch'[worker'[v].batch].item[worker'[v].group].context
    BY DEF WorkersRight, Frozen
  <2>1. CASE v = w
    <3>1. row.pc \in InTransaction /\ worker'[v] = row
      BY <1>2, <2>1
    <3>2. batch[row.batch].item[row.group].status = "pending"
      BY <1>1, <3>1 DEF BatchInv, WorkersRight
    <3>3. row.batch \in Batches /\ row.group \in Groups
          /\ (row.pc \in {"preview", "write"} => row.batch[2] = "apply")
          /\ (row.pc = "write" => row.seen = batch[row.batch].item[row.group].context)
      BY <1>1, <3>1
    <3> QED
      BY <1>4, <3>1, <3>2, <3>3
  <2>2. CASE v # w
    <3>1. worker'[v] = worker[v]
      BY <1>2, <2>2
    <3>2. worker[v].batch \in Batches /\ worker[v].group \in Groups
      BY <1>3, <3>1
    <3>3. batch'[worker[v].batch].item[worker[v].group] = batch[worker[v].batch].item[worker[v].group]
      BY <1>4, <3>2
    <3> QED
      BY <3>1, <3>3 DEF BatchInv, WorkersRight, Frozen
  <2> QED
    BY <2>1, <2>2
<1>9. ItemsReviewed'
  BY <1>4, BatchIds DEF BatchInv, ItemsReviewed
<1>10. UndoneStopped'
  <2> SUFFICES ASSUME NEW n \in Reviews \ overtaken, batch'[Undoes(n)].status # "absent"
               PROVE  /\ batch'[Applies(n)].status \in {"completed", "failed"}
                      /\ ~Resumes(Applies(n))
                      /\ \A v \in Workers : worker'[v].pc \in InTransaction => worker'[v].batch # Applies(n)
    BY DEF UndoneStopped, Resumes
  <2>1. /\ batch[Applies(n)].status \in {"completed", "failed"} /\ ~Resumes(Applies(n))
        /\ \A v \in Workers : worker[v].pc \in InTransaction => worker[v].batch # Applies(n)
    BY <1>5, BatchIds DEF BatchInv, UndoneStopped
  <2>2. ~IsOpen(Applies(n)) /\ batch'[Applies(n)].status = batch[Applies(n)].status
    BY <1>4, <2>1, BatchIds, SawIsResuming DEF IsOpen
  <2>3. row.pc \in InTransaction => row.batch # Applies(n)
    BY <1>1, <2>1, <2>2
  <2> QED
    BY <1>2, <2>1, <2>2, <2>3
<1> QED
  BY <1>6, <1>7, <1>8, <1>9, <1>10 DEF BatchInv

LEMMA SettlingWorkers ==
    ASSUME BulkTypeOK, BatchInv, NEW w \in Workers, worker[w].pc \in InTransaction,
           NEW status \in {"applied", "skipped", "undone"}, NEW revision, Settle(w, status, revision)
    PROVE  BatchInv'
<1> DEFINE b == worker[w].batch
           g == worker[w].group
<1>1. /\ b \in Batches /\ g \in Groups
      /\ batch'[b].status = "running"
      /\ batch'[b].item[g].status = status /\ batch'[b].item[g].context = batch[b].item[g].context
      /\ \A h \in Groups \ {g} : batch'[b].item[h] = batch[b].item[h]
      /\ \A c \in Batches \ {b} : batch'[c] = batch[c]
      /\ worker'[w].pc = "next" /\ \A v \in Workers \ {w} : worker'[v] = worker[v]
      /\ UNCHANGED <<review, submitting, resuming, overtaken>>
  BY SettleWrites
<1>2. \A v \in Workers : worker[v].pc \in InTransaction => worker[v].batch \in Batches /\ worker[v].group \in Groups
  BY DEF BulkTypeOK, InTransaction
<1>3. batch[b].item[g].status = "pending" /\ "next" \notin InTransaction
  BY DEF BatchInv, WorkersRight, InTransaction
<1>4. batch[b].status # "absent"
  BY <1>1, <1>3 DEF BatchInv, FreshBatches
<1>5. \A v \in Workers : worker'[v].pc \in InTransaction =>
         v # w /\ worker'[v] = worker[v] /\ worker[v].batch # b
  BY <1>1, <1>3 DEF BatchInv, OneTransaction
<1> HIDE DEF b, g
<1>6. FreshBatches' /\ ResumesKnown'
  BY <1>1, <1>4 DEF BatchInv, FreshBatches, ResumesKnown, Resumes
<1>7. OneTransaction'
  BY <1>5 DEF BatchInv, OneTransaction
<1>8. WorkersRight'
  BY <1>1, <1>2, <1>5 DEF BatchInv, WorkersRight, Frozen
<1>9. ItemsReviewed'
  <2> SUFFICES ASSUME NEW n \in Reviews, NEW h \in Groups, batch'[Applies(n)].item[h].status # "none"
               PROVE  review[n][h] # None /\ batch'[Applies(n)].item[h].context = review[n][h]
    BY <1>1 DEF BatchInv, ItemsReviewed
  <2>1. CASE Applies(n) = b /\ h = g
    BY <1>1, <1>3, <2>1 DEF BatchInv, ItemsReviewed
  <2>2. CASE ~(Applies(n) = b /\ h = g)
    <3>1. batch'[Applies(n)].item[h] = batch[Applies(n)].item[h]
      BY <1>1, <2>2, BatchIds
    <3> QED
      BY <3>1 DEF BatchInv, ItemsReviewed
  <2> QED
    BY <2>1, <2>2
<1>10. UndoneStopped'
  <2> SUFFICES ASSUME NEW n \in Reviews \ overtaken, batch'[Undoes(n)].status # "absent"
               PROVE  /\ batch'[Applies(n)].status \in {"completed", "failed"}
                      /\ ~Resumes(Applies(n))
                      /\ \A v \in Workers : worker'[v].pc \in InTransaction => worker'[v].batch # Applies(n)
    BY <1>1 DEF UndoneStopped, Resumes
  <2>1. batch[Undoes(n)].status # "absent"
    BY <1>1, <1>4, BatchIds
  <2>2. /\ batch[Applies(n)].status \in {"completed", "failed"} /\ ~Resumes(Applies(n))
        /\ \A v \in Workers : worker[v].pc \in InTransaction => worker[v].batch # Applies(n)
    BY <2>1 DEF BatchInv, UndoneStopped
  <2>3. Applies(n) # b
    BY <2>2 DEF b
  <2> QED
    BY <1>1, <1>5, <2>2, <2>3, BatchIds
<1> QED
  BY <1>6, <1>7, <1>8, <1>9, <1>10 DEF BatchInv

LEMMA QuietRequests ==
    ASSUME BulkTypeOK, BatchInv, ItemsKept, ItemsReviewed', UNCHANGED <<worker, overtaken>>,
           \A b \in Batches : Resumes(b)' => Resumes(b) \/ batch[b].status # "absent",
           \A n \in Reviews : Resumes(Applies(n))' =>
               Resumes(Applies(n)) \/ batch[Undoes(n)].status = "absent"
    PROVE  BatchInv'
<1>1. /\ \A b \in Batches, g \in Groups : batch'[b].item[g] = batch[b].item[g]
      /\ \A b \in Batches : \/ batch'[b].status = batch[b].status
                            \/ batch'[b].status # "absent" /\ (IsOpen(b) \/ SawFailed(b))
  BY DEF ItemsKept
<1>2. \A b \in Batches : batch'[b].status = "absent" <=> batch[b].status = "absent"
  BY <1>1, SawIsResuming DEF IsOpen, BatchInv, ResumesKnown
<1>3. FreshBatches' /\ OneTransaction' /\ ResumesKnown'
  BY <1>1, <1>2 DEF BatchInv, FreshBatches, OneTransaction, ResumesKnown
<1>4. WorkersRight'
  <2>1. \A w \in Workers : worker[w].pc \in InTransaction =>
           batch'[worker[w].batch].item[worker[w].group] = batch[worker[w].batch].item[worker[w].group]
    BY <1>1 DEF BulkTypeOK, InTransaction
  <2> QED
    BY <2>1 DEF BatchInv, WorkersRight, Frozen
<1>5. UndoneStopped'
  <2> SUFFICES ASSUME NEW n \in Reviews \ overtaken, batch'[Undoes(n)].status # "absent"
               PROVE  /\ batch'[Applies(n)].status \in {"completed", "failed"}
                      /\ ~Resumes(Applies(n))'
                      /\ \A w \in Workers : worker[w].pc \in InTransaction => worker[w].batch # Applies(n)
    BY DEF UndoneStopped
  <2>1. batch[Undoes(n)].status # "absent"
    BY <1>2, BatchIds
  <2>2. /\ batch[Applies(n)].status \in {"completed", "failed"} /\ ~Resumes(Applies(n))
        /\ \A w \in Workers : worker[w].pc \in InTransaction => worker[w].batch # Applies(n)
    BY <2>1 DEF BatchInv, UndoneStopped
  <2>3. batch'[Applies(n)].status = batch[Applies(n)].status
    BY <1>1, <2>2, BatchIds, SawIsResuming DEF IsOpen
  <2> QED
    BY <2>1, <2>2, <2>3
<1> QED
  BY <1>3, <1>4, <1>5 DEF BatchInv

LEMMA NewBatch ==
    ASSUME BulkTypeOK, BatchInv, NEW b \in Batches, NEW row, batch[b].status = "absent",
           batch' = [batch EXCEPT ![b] = row], row.status = "queued", UNCHANGED <<worker, resuming>>
    PROVE  /\ FreshBatches' /\ OneTransaction' /\ WorkersRight' /\ ResumesKnown'
           /\ batch'[b] = row /\ \A c \in Batches \ {b} : batch'[c] = batch[c]
<1>1. batch'[b] = row /\ \A c \in Batches \ {b} : batch'[c] = batch[c]
  BY DEF BulkTypeOK
<1>2. \A g \in Groups : batch[b].item[g].status = "none"
  BY DEF BatchInv, FreshBatches
<1>3. \A w \in Workers : worker[w].pc \in InTransaction => worker[w].batch \in Batches \ {b}
  <2>1. \A w \in Workers : worker[w].pc \in InTransaction => worker[w].batch \in Batches /\ worker[w].group \in Groups
    BY DEF BulkTypeOK, InTransaction
  <2> QED
    BY <1>2, <2>1 DEF BatchInv, WorkersRight
<1>4. FreshBatches' /\ OneTransaction' /\ ResumesKnown'
  BY <1>1 DEF BatchInv, FreshBatches, OneTransaction, ResumesKnown, Resumes
<1>5. WorkersRight'
  BY <1>1, <1>3 DEF BatchInv, WorkersRight, Frozen
<1> QED
  BY <1>1, <1>4, <1>5

LEMMA CreateStep ==
    ASSUME BulkTypeOK, BatchInv, NEW n \in Reviews, NEW s \in submitting[n], StartCreates(n, s)
    PROVE  BatchInv'
<1> DEFINE b == Applies(n)
           items == [g \in Groups |-> IF g \notin GroupsIn(s) THEN NoItem
                        ELSE [status |-> "pending", context |-> review[n][g], revision |-> 0]]
           row == [status |-> "queued", order |-> s, item |-> items]
<1>1. b \in Batches /\ UNCHANGED <<review, worker, resuming, overtaken>>
  BY BatchIds DEF StartCreates
<1>2. \A m \in Reviews : submitting'[m] \subseteq submitting[m]
  BY DEF StartCreates, BulkTypeOK
<1>3. CASE ~NonceFree(n)
  <2>1. batch' = batch
    BY <1>3 DEF StartCreates
  <2>2. ItemsKept /\ ItemsReviewed'
    BY <1>1, <1>2, <2>1 DEF ItemsKept, BatchInv, ItemsReviewed
  <2> QED
    BY <1>1, <2>2, QuietRequests DEF StartCreates, Resumes
<1>4. CASE NonceFree(n)
  <2>1. batch[b].status = "absent" /\ batch' = [batch EXCEPT ![b] = row]
    BY <1>4 DEF StartCreates, NonceFree
  <2>2. \A g \in Groups : items[g].status # "none" => review[n][g] # None /\ items[g].context = review[n][g]
    BY DEF NoItem, BatchInv, ItemsReviewed
  <2>3. row.status = "queued" /\ row.item = items
    OBVIOUS
  <2> HIDE DEF row, items
  <2>4. /\ FreshBatches' /\ OneTransaction' /\ WorkersRight' /\ ResumesKnown'
        /\ batch'[b] = row /\ \A c \in Batches \ {b} : batch'[c] = batch[c]
    BY <1>1, <2>1, <2>3, NewBatch
  <2>5. ItemsReviewed'
    <3>1. \A m \in Reviews \ {n} : batch'[Applies(m)] = batch[Applies(m)]
      BY <2>4, BatchIds
    <3> QED
      BY <1>1, <1>2, <2>2, <2>3, <2>4, <3>1 DEF BatchInv, ItemsReviewed
  <2>6. UndoneStopped'
    <3>1. \A m \in Reviews : batch'[Undoes(m)] = batch[Undoes(m)]
      BY <2>4, BatchIds
    <3>2. \A m \in Reviews \ {n} : batch'[Applies(m)] = batch[Applies(m)]
      BY <2>4, BatchIds
    <3> QED
      BY <1>1, <2>1, <3>1, <3>2 DEF BatchInv, UndoneStopped, Resumes
  <2> QED
    BY <2>4, <2>5, <2>6 DEF BatchInv
<1> QED
  BY <1>3, <1>4

LEMMA UndoStep ==
    ASSUME BulkTypeOK, BatchInv, NEW n \in Reviews, StartUndo(n)
    PROVE  BatchInv'
<1> DEFINE b == Undoes(n)
           items == [g \in Groups |-> IF g \notin Applied(n) THEN NoItem
                        ELSE [batch[Applies(n)].item[g] EXCEPT !.status = "pending"]]
           row == [status |-> "queued", order |-> batch[Applies(n)].order, item |-> items]
<1>1. b \in Batches /\ UNCHANGED <<review, submitting, worker, resuming>>
      /\ RunUnlocked(Applies(n)) /\ Undoable(n)
      /\ overtaken' = IF Resumes(Applies(n)) THEN overtaken \cup {n} ELSE overtaken
  BY BatchIds DEF StartUndo
<1>2. CASE batch[b].status # "absent"
  <2>1. batch' = batch
    BY <1>2 DEF StartUndo
  <2>2. \A m \in Reviews \ overtaken' : m \in Reviews \ overtaken
    BY <1>1
  <2> QED
    BY <1>1, <2>1, <2>2
    DEF BatchInv, FreshBatches, OneTransaction, WorkersRight, Frozen, ItemsReviewed, ResumesKnown, UndoneStopped, Resumes
<1>3. CASE batch[b].status = "absent"
  <2>1. batch' = [batch EXCEPT ![b] = row] /\ row.status = "queued"
    BY <1>3 DEF StartUndo
  <2> HIDE DEF row
  <2>2. /\ FreshBatches' /\ OneTransaction' /\ WorkersRight' /\ ResumesKnown'
        /\ \A c \in Batches \ {b} : batch'[c] = batch[c]
    BY <1>1, <1>3, <2>1, NewBatch
  <2>3. \A m \in Reviews : batch'[Applies(m)] = batch[Applies(m)]
    BY <2>2, BatchIds
  <2>4. ItemsReviewed'
    BY <1>1, <2>3 DEF BatchInv, ItemsReviewed
  <2>5. UndoneStopped'
    <3> SUFFICES ASSUME NEW m \in Reviews \ overtaken', batch'[Undoes(m)].status # "absent"
                 PROVE  /\ batch'[Applies(m)].status \in {"completed", "failed"}
                        /\ ~Resumes(Applies(m))
                        /\ \A w \in Workers : worker[w].pc \in InTransaction => worker[w].batch # Applies(m)
      BY <1>1 DEF UndoneStopped, Resumes
    <3>1. CASE m = n
      BY <1>1, <2>3, <3>1 DEF Undoable, RunUnlocked
    <3>2. CASE m # n
      <4>1. batch'[Undoes(m)] = batch[Undoes(m)] /\ m \in Reviews \ overtaken
        BY <1>1, <2>2, <3>2, BatchIds
      <4> QED
        BY <2>3, <4>1 DEF BatchInv, UndoneStopped
    <3> QED
      BY <3>1, <3>2
  <2> QED
    BY <2>2, <2>4, <2>5 DEF BatchInv
<1> QED
  BY <1>2, <1>3

LEMMA RequestStep ==
    ASSUME BulkTypeOK, BatchInv, NEW n \in Reviews, NEW currentGroups
    PROVE  /\ PlanBulk(n, currentGroups) => BatchInv'
           /\ \A s \in Selections : StartReads(n, s) => BatchInv'
           /\ \A kind \in {"apply", "undo"} : ResumeReads(n, kind) => BatchInv'
<1>1. batch' = batch => ItemsKept
  BY DEF ItemsKept
<1>2. ASSUME PlanBulk(n, currentGroups) PROVE BatchInv'
  <2>1. /\ UNCHANGED <<submitting, batch, worker, resuming, overtaken>>
        /\ \A g \in Groups : review[n][g] = None
        /\ \A m \in Reviews \ {n} : review'[m] = review[m]
    BY <1>2 DEF PlanBulk, BulkTypeOK
  <2>2. \A s \in submitting[n] : GroupsIn(s) = {}
    <3>1. ASSUME NEW s \in submitting[n] PROVE GroupsIn(s) \subseteq Groups
      <4>1. s \in Selections
        BY DEF BulkTypeOK
      <4>2. PICK k \in 1 .. Cardinality(Groups) : s \in [1 .. k -> Groups]
        BY <4>1 DEF Selections
      <4> QED
        BY <4>2 DEF GroupsIn
    <3> QED
      BY <2>1, <3>1 DEF BatchInv, ItemsReviewed
  <2>3. \A g \in Groups : batch[Applies(n)].item[g].status = "none"
    BY <2>1 DEF BatchInv, ItemsReviewed
  <2>4. ItemsReviewed'
    <3> SUFFICES ASSUME NEW m \in Reviews
                 PROVE  /\ \A s \in submitting[m] : \A g \in GroupsIn(s) : review'[m][g] # None
                        /\ \A g \in Groups : batch[Applies(m)].item[g].status # "none" =>
                              review'[m][g] # None /\ batch[Applies(m)].item[g].context = review'[m][g]
      BY <2>1 DEF ItemsReviewed
    <3>1. CASE m = n
      BY <2>2, <2>3, <3>1
    <3>2. CASE m # n
      <4>1. review'[m] = review[m]
        BY <2>1, <3>2
      <4>2. /\ \A s \in submitting[m] : \A g \in GroupsIn(s) : review[m][g] # None
            /\ \A g \in Groups : batch[Applies(m)].item[g].status # "none" =>
                  review[m][g] # None /\ batch[Applies(m)].item[g].context = review[m][g]
        BY DEF BatchInv, ItemsReviewed
      <4> QED
        BY <4>1, <4>2
    <3> QED
      BY <3>1, <3>2
  <2> QED
    BY <1>1, <2>1, <2>4, QuietRequests DEF Resumes
<1>3. ASSUME NEW s \in Selections, StartReads(n, s) PROVE BatchInv'
  <2>1. UNCHANGED <<review, batch, worker, resuming, overtaken>>
        /\ submitting' = [submitting EXCEPT ![n] = @ \cup {s}]
        /\ \A g \in GroupsIn(s) : review[n][g] # None
    BY <1>3 DEF StartReads
  <2>2. \A m \in Reviews : submitting'[m] \subseteq submitting[m] \cup (IF m = n THEN {s} ELSE {})
    BY <2>1 DEF BulkTypeOK
  <2>3. ItemsReviewed'
    BY <2>1, <2>2 DEF BatchInv, ItemsReviewed
  <2> QED
    BY <1>1, <2>1, <2>3, QuietRequests DEF Resumes
<1>4. ASSUME NEW kind \in {"apply", "undo"}, ResumeReads(n, kind) PROVE BatchInv'
  <2> DEFINE b == <<n, kind>>
  <2>1. UNCHANGED <<review, submitting, batch, worker, overtaken>> /\ b \in Batches
        /\ Pending(b) # {} /\ (kind = "apply" => batch[Undoes(n)].status = "absent")
    BY <1>4, BatchIds DEF ResumeReads, Resumable
  <2>2. \A c \in Batches \ {b} : resuming'[c] = resuming[c]
    BY <1>4 DEF ResumeReads, BulkTypeOK
  <2>3. batch[b].status # "absent"
    BY <2>1 DEF Pending, BatchInv, FreshBatches
  <2>4. ItemsReviewed'
    BY <2>1 DEF BatchInv, ItemsReviewed
  <2>5. \A m \in Reviews : Applies(m) = b => m = n /\ kind = "apply"
    BY DEF Applies
  <2>6. \A c \in Batches : Resumes(c)' => Resumes(c) \/ batch[c].status # "absent"
    BY <2>2, <2>3 DEF Resumes
  <2>7. \A m \in Reviews : Resumes(Applies(m))' =>
               Resumes(Applies(m)) \/ batch[Undoes(m)].status = "absent"
    BY <2>1, <2>2, <2>5, BatchIds DEF Resumes
  <2> QED
    BY <1>1, <2>1, <2>4, <2>6, <2>7, QuietRequests
<1> QED
  BY <1>2, <1>3, <1>4

LEMMA ResumeStep ==
    ASSUME BulkTypeOK, BatchInv, NEW b \in Batches, NEW seen \in {"failed", "open"},
           ResumeSaves(b, seen)
    PROVE  BatchInv' /\ ItemsKept
<1>1. UNCHANGED <<review, submitting, worker, overtaken>> /\ \A c \in Batches : Resumes(c)' => Resumes(c)
  <2>1. resuming' = [resuming EXCEPT ![b][seen] = @ - 1] /\ resuming[b][seen] > 0
    BY DEF ResumeSaves
  <2>2. \A c \in Batches \ {b} : resuming'[c] = resuming[c]
    BY <2>1 DEF BulkTypeOK
  <2> QED
    BY <2>1, <2>2 DEF ResumeSaves, Resumes
<1>2. ItemsKept
  <2>1. CASE seen = "failed"
    BY <2>1, StatusKeeps DEF ResumeSaves, SawFailed
  <2>2. CASE seen # "failed"
    BY <2>2 DEF ResumeSaves, ItemsKept
  <2> QED
    BY <2>1, <2>2
<1>3. ItemsReviewed'
  <2>1. \A n \in Reviews, g \in Groups : batch'[Applies(n)].item[g] = batch[Applies(n)].item[g]
    BY <1>2, BatchIds DEF ItemsKept
  <2> QED
    BY <1>1, <2>1 DEF BatchInv, ItemsReviewed
<1> QED
  BY <1>1, <1>2, <1>3, BatchIds, QuietRequests

LEMMA BatchInit == Init => BatchInv
<1> SUFFICES ASSUME Init PROVE BatchInv
  OBVIOUS
<1>1. \A w \in Workers : worker[w].pc \notin InTransaction
  BY DEF Init, BulkInit, IdleWorker, InTransaction
<1>2. \A b \in Batches : /\ batch[b].status = "absent" /\ ~Resumes(b)
                         /\ \A g \in Groups : batch[b].item[g].status = "none"
  BY DEF Init, BulkInit, NoBatch, NoItem, Resumes
<1>3. \A n \in Reviews : submitting[n] = {}
  BY DEF Init, BulkInit
<1> QED
  BY <1>1, <1>2, <1>3, BatchIds
  DEF BatchInv, FreshBatches, OneTransaction, WorkersRight, ItemsReviewed, ResumesKnown, UndoneStopped, Resumes

LEMMA BatchUnchanged ==
    ASSUME BatchInv, UNCHANGED bulkVars
    PROVE  BatchInv'
  BY DEF BatchInv, bulkVars, FreshBatches, OneTransaction, WorkersRight, Frozen, ItemsReviewed,
         ResumesKnown, UndoneStopped, Resumes

LEMMA BatchStep ==
    ASSUME TypeOK, BatchInv, [Next]_vars
    PROVE  BatchInv'
<1>1. BulkTypeOK
  BY DEF TypeOK
<1>2. CASE UNCHANGED bulkVars
  BY <1>2, BatchUnchanged
<1>3. CASE BulkNext(CurrentGroups)
  <2>1. CASE \E n \in Reviews : \/ PlanBulk(n, CurrentGroups)
                                \/ \E s \in Selections : StartReads(n, s)
                                \/ \E kind \in {"apply", "undo"} : ResumeReads(n, kind)
    BY <1>1, <2>1, RequestStep
  <2>2. CASE \E n \in Reviews : \E s \in submitting[n] : StartCreates(n, s)
    BY <1>1, <2>2, CreateStep
  <2>3. CASE \E n \in Reviews : StartUndo(n)
    BY <1>1, <2>3, UndoStep
  <2>4. CASE \E b \in Batches, seen \in {"failed", "open"} : ResumeSaves(b, seen)
    BY <1>1, <2>4, ResumeStep
  <2>5. CASE \E w \in Workers : WorkerNext(w)
    <3> PICK w \in Workers : WorkerNext(w)
      BY <2>5
    <3>1. WorkersRight
      BY DEF BatchInv
    <3>2. CASE ItemsKept /\ Moves(w) /\ UNCHANGED <<review, submitting, resuming, overtaken>>
      BY <1>1, <3>2, QuietWorkers
    <3>3. CASE /\ worker[w].pc \in InTransaction
               /\ \E status \in {"applied", "skipped", "undone"} : \E revision : Settle(w, status, revision)
      BY <1>1, <3>3, SettlingWorkers
    <3> QED
      BY <1>1, <3>1, <3>2, <3>3, WorkerSteps
  <2> QED
    BY <1>3, <2>1, <2>2, <2>3, <2>4, <2>5 DEF BulkNext
<1>4. CASE UNCHANGED vars
  BY <1>2, <1>4 DEF vars
<1> QED
  BY <1>2, <1>3, <1>4 DEF Next

(* Only a new batch, or the worker in the transaction of an item, changes   *)
(* the item.                                                                *)
LEMMA ItemChange ==
    ASSUME TypeOK, BatchInv, [Next]_vars, NEW b \in Batches, NEW g \in Groups,
           batch'[b].item[g] # batch[b].item[g]
    PROVE  \/ batch[b].status = "absent" /\ batch'[b].item[g].status \in {"none", "pending"}
           \/ \E w \in Workers :
                 /\ worker[w].pc \in InTransaction /\ worker[w].batch = b /\ worker[w].group = g
                 /\ batch'[b].item[g].status = "applied" => Context(g) = batch[b].item[g].context
<1>1. BulkTypeOK /\ WorkersRight
  BY DEF TypeOK, BatchInv
<1>2. ~ItemsKept /\ batch' # batch
  BY DEF ItemsKept
<1>3. BulkNext(CurrentGroups)
  BY <1>2 DEF Next, vars, bulkVars
<1>4. CASE \E n \in Reviews : \/ PlanBulk(n, CurrentGroups)
                              \/ \E s \in Selections : StartReads(n, s)
                              \/ \E kind \in {"apply", "undo"} : ResumeReads(n, kind)
  BY <1>2, <1>4 DEF PlanBulk, StartReads, ResumeReads
<1>5. CASE \E n \in Reviews : \E s \in submitting[n] : StartCreates(n, s)
  <2> PICK n \in Reviews : \E s \in submitting[n] : StartCreates(n, s)
    BY <1>5
  <2> PICK s \in submitting[n] : StartCreates(n, s)
    OBVIOUS
  <2> DEFINE items == [h \in Groups |-> IF h \notin GroupsIn(s) THEN NoItem
                        ELSE [status |-> "pending", context |-> review[n][h], revision |-> 0]]
             row == [status |-> "queued", order |-> s, item |-> items]
  <2>1. NonceFree(n) /\ batch' = [batch EXCEPT ![Applies(n)] = row]
    BY <1>2 DEF StartCreates
  <2>2. row.item = items /\ items[g].status \in {"none", "pending"}
    BY DEF NoItem
  <2> HIDE DEF row, items
  <2>3. batch'[Applies(n)] = row /\ \A c \in Batches \ {Applies(n)} : batch'[c] = batch[c]
    BY <1>1, <2>1, BatchIds DEF BulkTypeOK
  <2> QED
    BY <2>1, <2>2, <2>3 DEF NonceFree
<1>6. CASE \E n \in Reviews : StartUndo(n)
  <2> PICK n \in Reviews : StartUndo(n)
    BY <1>6
  <2> DEFINE items == [h \in Groups |-> IF h \notin Applied(n) THEN NoItem
                        ELSE [batch[Applies(n)].item[h] EXCEPT !.status = "pending"]]
             row == [status |-> "queued", order |-> batch[Applies(n)].order, item |-> items]
  <2>1. batch[Undoes(n)].status = "absent" /\ batch' = [batch EXCEPT ![Undoes(n)] = row]
    BY <1>2 DEF StartUndo
  <2>2. batch[Applies(n)].item[g] \in ItemRow
    BY <1>1, BatchIds DEF BulkTypeOK, BatchRow
  <2>3. row.item = items /\ items[g].status \in {"none", "pending"}
    BY <2>2 DEF NoItem, ItemRow
  <2> HIDE DEF row, items
  <2>4. batch'[Undoes(n)] = row /\ \A c \in Batches \ {Undoes(n)} : batch'[c] = batch[c]
    BY <1>1, <2>1, BatchIds DEF BulkTypeOK
  <2> QED
    BY <2>1, <2>3, <2>4
<1>7. CASE \E c \in Batches, seen \in {"failed", "open"} : ResumeSaves(c, seen)
  BY <1>1, <1>2, <1>7, ResumeStep
<1>8. CASE \E w \in Workers : WorkerNext(w)
  <2> PICK w \in Workers : WorkerNext(w)
    BY <1>8
  <2>1. worker[w].pc \in InTransaction
    BY <1>1, <1>2, WorkerSteps
  <2>2. PICK status \in {"applied", "skipped", "undone"} : \E revision : Settle(w, status, revision)
               /\ (status = "applied" => Context(worker[w].group) = Frozen(w))
    BY <1>1, <1>2, WorkerSteps
  <2>3. PICK revision : Settle(w, status, revision)
    BY <2>2
  <2>4. worker[w].batch = b /\ worker[w].group = g /\ batch'[b].item[g].status = status
    BY <1>1, <2>1, <2>3, SettleWrites
  <2> QED
    BY <2>1, <2>2, <2>4 DEF Frozen
<1> QED
  BY <1>3, <1>4, <1>5, <1>6, <1>7, <1>8 DEF BulkNext

LEMMA BatchAlways == Spec => [](TypeOK /\ BatchInv)
<1>1. Init => TypeOK /\ BatchInv
  BY TypeInit, BatchInit
<1>2. TypeOK /\ BatchInv /\ [Next]_vars => (TypeOK /\ BatchInv)'
  BY TypeStep, BatchStep
<1> QED
  BY <1>1, <1>2, PTL DEF Spec

(* A settled item is final: process_next_apply_item takes pending items     *)
(* only, one worker at a time, and the unique nonce admits no second batch. *)
THEOREM SettledItemsAreFinal == Spec => SettledItemsStay
<1> DEFINE Stay == \A b \in Batches, g \in Groups :
          batch[b].item[g].status \in {"applied", "skipped", "undone"}
          => batch'[b].item[g] = batch[b].item[g]
<1>1. TypeOK /\ BatchInv /\ [Next]_vars => [Stay]_vars
  <2> SUFFICES ASSUME TypeOK, BatchInv, [Next]_vars, NEW b \in Batches, NEW g \in Groups,
                      batch[b].item[g].status \in {"applied", "skipped", "undone"},
                      batch'[b].item[g] # batch[b].item[g]
               PROVE  FALSE
    OBVIOUS
  <2>1. CASE batch[b].status = "absent"
    BY <2>1 DEF BatchInv, FreshBatches
  <2>2. CASE \E w \in Workers : worker[w].pc \in InTransaction /\ worker[w].batch = b /\ worker[w].group = g
    BY <2>2 DEF BatchInv, WorkersRight
  <2> QED
    BY <2>1, <2>2, ItemChange
<1> QED
  BY <1>1, BatchAlways, PTL DEF Spec, SettledItemsStay

(* An apply batch writes a group only while its context is the reviewed     *)
(* one: the three reads of _apply_item_transaction and apply_preview.       *)
THEOREM OnlyReviewedText == Spec => ReviewedTextOnly
<1> DEFINE Only == \A n \in Reviews, g \in Groups :
          batch'[Applies(n)].item[g].status = "applied" /\ batch[Applies(n)].item[g].status # "applied"
          => Context(g) = review[n][g]
<1>1. TypeOK /\ BatchInv /\ [Next]_vars => [Only]_vars
  <2> SUFFICES ASSUME TypeOK, BatchInv, [Next]_vars, NEW n \in Reviews, NEW g \in Groups,
                      batch'[Applies(n)].item[g].status = "applied",
                      batch[Applies(n)].item[g].status # "applied"
               PROVE  Context(g) = review[n][g]
    OBVIOUS
  <2> DEFINE b == Applies(n)
  <2>1. b \in Batches /\ batch'[b].item[g] # batch[b].item[g]
    BY BatchIds
  <2> HIDE DEF b
  <2>2. batch'[b].item[g].status = "applied"
    BY DEF b
  <2>3. PICK w \in Workers : worker[w].pc \in InTransaction /\ worker[w].batch = b /\ worker[w].group = g
                             /\ Context(g) = batch[b].item[g].context
    BY <2>1, <2>2, ItemChange
  <2>4. batch[b].item[g].status = "pending"
    BY <2>3 DEF BatchInv, WorkersRight
  <2> QED
    BY <2>3, <2>4 DEF BatchInv, ItemsReviewed, b
<1> QED
  BY <1>1, BatchAlways, PTL DEF Spec, ReviewedTextOnly

(* start_undo and resume_bulk: an apply batch with an undo batch applies    *)
(* nothing more, but when a resume overlapped with the undo.                *)
THEOREM UndoneBatchesStop == Spec => UndoneBatchStops
<1> DEFINE Stops == \A n \in Reviews \ overtaken :
          batch[Undoes(n)].status # "absent" => Applied(n)' = Applied(n)
<1>1. TypeOK /\ BatchInv /\ [Next]_vars => [Stops]_vars
  <2> SUFFICES ASSUME TypeOK, BatchInv, [Next]_vars, NEW n \in Reviews \ overtaken,
                      batch[Undoes(n)].status # "absent"
               PROVE  Applied(n)' = Applied(n)
    OBVIOUS
  <2> DEFINE b == Applies(n)
  <2>1. /\ b \in Batches /\ batch[b].status \in {"completed", "failed"}
        /\ \A w \in Workers : worker[w].pc \in InTransaction => worker[w].batch # b
    BY BatchIds DEF BatchInv, UndoneStopped
  <2> HIDE DEF b
  <2>2. \A g \in Groups : batch'[b].item[g] = batch[b].item[g]
    BY <2>1, ItemChange
  <2> QED
    BY <2>2 DEF Applied, b
<1> QED
  BY <1>1, BatchAlways, PTL DEF Spec, UndoneBatchStops
=============================================================================
