------------------------ MODULE RepeatRecommendations ------------------------
(***************************************************************************)
(* Paid repeat recommendations (weblate/trans/repeat_recommendations.py):  *)
(* a person starts a run, whose plan is read in three statements under the *)
(* lock of the policy; every request is reserved before it is sent; a      *)
(* Celery message claims one reservation, sends it and stores the outcome; *)
(* a person may recover overdue and undelivered requests.                  *)
(*                                                                         *)
(* The database reads committed rows per statement, so the three reads of  *)
(* a plan may see three moments.                                           *)
(***************************************************************************)
EXTENDS RepeatGroups

CONSTANTS
    Runs,       \* RepeatRecommendationRun rows: 1 .. n
    Ordinals,   \* attempts of a run: 1 .. the largest request cap
    MaxMessages \* bound: messages of one attempt in the broker

ASSUME RunsAssumption == Runs \subseteq Nat /\ Ordinals \subseteq Nat

VARIABLES
    run,        \* RepeatRecommendationRun
    attempt,    \* RepeatRecommendationAttempt
    result,     \* contexts for which an attempt left results, by group
    delivery,   \* messages of each attempt
    planner,    \* prepare_run in progress
    sender,     \* execute_attempt in each worker
    recovering, \* runs whose reconciliation has not finalized them yet
    transports, \* history: requests made for each attempt
    orphaned    \* history: runs whose finalizer died before its transaction

recommendVars == <<run, attempt, result, delivery, planner, sender, recovering,
                   transports, orphaned>>

Attempts == Runs \X Ordinals

RunRow == [status : {"absent", "running", "completed", "unknown", "failed", "cancelled"},
           cancelled : BOOLEAN]

(* frozen[g]: the context sent for the group, None for groups left out;     *)
(* retry: the person consented to send again what may have been sent;       *)
(* missed: history, groups that changed or completed during the plan.       *)
NoContexts == [g \in Groups |-> None]
AttemptRow == [status : {"absent", "reserved", "sent", "completed", "unknown", "failed"},
               frozen : [Groups -> Contexts \cup {None}],
               retry : BOOLEAN, missed : SUBSET Groups]
NoAttempt == [status |-> "absent", frozen |-> NoContexts, retry |-> FALSE, missed |-> {}]

Open == {"reserved", "sent"}
Ended == {"completed", "unknown", "failed"}

IdlePlan == [pc |-> "idle", current |-> {}, active |-> {}, retry |-> FALSE]

RecommendTypeOK ==
    /\ run \in [Runs -> RunRow]
    /\ attempt \in [Attempts -> AttemptRow]
    /\ result \in [Groups -> SUBSET Contexts]
    /\ delivery \in [Attempts -> Nat]
    /\ planner \in [pc : {"idle", "current", "active"}, current : SUBSET Groups,
                    active : SUBSET (Groups \X (Contexts \cup {None})), retry : BOOLEAN]
    /\ sender \in [Workers -> [pc : {"idle", "sent", "stored"}, attempt : Attempts \cup {None}]]
    /\ \A w \in Workers : sender[w].pc # "idle" => sender[w].attempt \in Attempts
    /\ recovering \subseteq Runs /\ orphaned \subseteq Runs
    /\ transports \in [Attempts -> Nat]

(* Some groups have a result from an earlier run.                           *)
RecommendInit ==
    /\ run = [r \in Runs |-> [status |-> "absent", cancelled |-> FALSE]]
    /\ attempt = [a \in Attempts |-> NoAttempt]
    /\ \E S \in SUBSET Groups : result = [g \in Groups |-> IF g \in S THEN {Context(g)} ELSE {}]
    /\ delivery = [a \in Attempts |-> 0]
    /\ planner = IdlePlan
    /\ sender = [w \in Workers |-> [pc |-> "idle", attempt |-> None]]
    /\ recovering = {}
    /\ transports = [a \in Attempts |-> 0]
    /\ orphaned = {}
-----------------------------------------------------------------------------
(* prepare_run.                                                            *)

(* _reserved_contexts: group and frozen context of attempts in a status.    *)
Covered(statuses) ==
    {<<g, attempt[a].frozen[g]>> : g \in Groups, a \in {b \in Attempts : attempt[b].status \in statuses}}

(* current_recommendations.                                                 *)
CurrentGroups == {g \in Groups : Context(g) \in result[g]}

(* retry: the consent, without effect before there is an earlier run.       *)
PlanReadsCurrent(retry) ==
    /\ Request("recommend")
    /\ permitted
    /\ planner.pc = "idle" /\ policyLock = None
    /\ retry => \E r \in Runs : run[r].status # "absent"
    /\ \E r \in Runs : run[r].status = "absent"
    /\ planner' = [pc |-> "current", current |-> CurrentGroups, active |-> {}, retry |-> retry]
    /\ policyLock' = "planner"
    /\ touched' = {}
    /\ UNCHANGED <<unit, group, event, permitted, author>>
    /\ UNCHANGED <<run, attempt, result, delivery, sender, recovering, transports, orphaned>>

PlanReadsActive ==
    /\ planner.pc = "current"
    /\ planner' = [planner EXCEPT !.pc = "active", !.active = Covered(Open)]
    /\ UNCHANGED groupVars
    /\ UNCHANGED <<run, attempt, result, delivery, sender, recovering, transports, orphaned>>

(* The plan skips groups without a choice to make, what an open attempt     *)
(* covers, what has a current result, and what may have been sent already.  *)
Candidates ==
    {g \in Groups :
        /\ group[g].decision = "open" /\ \E u \in Members(g) : unit[u].text # "shared"
        /\ <<g, Context(g)>> \notin planner.active
        /\ g \notin planner.current
        /\ <<g, Context(g)>> \in Covered({"unknown"}) => planner.retry}

(* The candidates in the order of their importance, cut into at most cap    *)
(* requests; how many fit into one depends on their texts, and what does    *)
(* not fit into the last stays unsent.                                      *)
Packings(cap) ==
    {f \in [Ordinals -> SUBSET Candidates] :
        /\ \A i \in Ordinals : f[i] # {} => i <= cap /\ \A j \in Ordinals : j < i => f[j] # {}
        /\ \A i, j \in Ordinals : i < j => \A g \in f[i], h \in f[j] : g < h
        /\ LET sent == UNION {f[i] : i \in Ordinals} IN
           /\ sent # Candidates => f[cap] # {}
           /\ \A g \in sent, h \in Candidates \ sent : g < h}

(* The next row of the table.                                               *)
IsNext(r) == /\ run[r].status = "absent"
             /\ \A s \in Runs : s < r => run[s].status # "absent"

Reservation(S) ==
    [status |-> "reserved", retry |-> planner.retry, missed |-> touched,
     frozen |-> [g \in Groups |-> IF g \in S THEN Context(g) ELSE None]]

(* The last read, the run and its reservations commit together; publishing  *)
(* a reservation afterwards may fail.                                       *)
Reserve(r, requested, published) ==
    LET mine == {i \in Ordinals : requested[i] # {}} IN
    /\ IsNext(r)
    /\ run' = [run EXCEPT ![r].status = IF mine = {} THEN "completed" ELSE "running"]
    /\ attempt' = [a \in Attempts |->
         IF a[1] # r \/ a[2] \notin mine THEN attempt[a]
         ELSE Reservation(requested[a[2]])]
    /\ delivery' = [a \in Attempts |->
         IF a[1] = r /\ a[2] \in mine \cap published THEN 1 ELSE delivery[a]]
    /\ planner' = IdlePlan
    /\ policyLock' = None
    /\ UNCHANGED <<unit, group, event, permitted, author, touched, allowance>>
    /\ UNCHANGED <<result, sender, recovering, transports, orphaned>>

(* The request of the person dies: the transaction rolls back.              *)
PlanDies ==
    /\ Request("recommend")
    /\ planner.pc # "idle"
    /\ planner' = IdlePlan
    /\ policyLock' = None
    /\ UNCHANGED <<unit, group, event, permitted, author, touched>>
    /\ UNCHANGED <<run, attempt, result, delivery, sender, recovering, transports, orphaned>>
-----------------------------------------------------------------------------
(* finalize_run, under the lock of the run.                                *)

Statuses(r) == {attempt[<<r, i>>].status : i \in Ordinals} \ {"absent"}

MutDerived(statuses, cancelled) ==
    CASE cancelled -> "cancelled"
      [] ~cancelled /\ statuses \cap (Open \cup {"unknown"}) # {} -> "running"
      [] ~cancelled /\ statuses \cap (Open \cup {"unknown"}) = {} /\ "failed" \in statuses -> "failed"
      [] OTHER -> "completed"
Derived(statuses, cancelled) ==
    CASE cancelled -> "cancelled"
      [] ~cancelled /\ statuses \cap Open # {} -> "running"
      [] ~cancelled /\ statuses \cap Open = {} /\ "unknown" \in statuses -> "unknown"
      [] ~cancelled /\ statuses \cap (Open \cup {"unknown"}) = {} /\ "failed" \in statuses -> "failed"
      [] OTHER -> "completed"

Finalize(r) ==
    /\ run' = [run EXCEPT ![r].status = Derived(Statuses(r), run[r].cancelled)]
    /\ orphaned' = orphaned \ {r}
-----------------------------------------------------------------------------
(* execute_attempt.                                                        *)

MutClaimable(a) == attempt[a].status \in Open
Claimable(a) == attempt[a].status = "reserved"

Takes(w, a) ==
    /\ sender[w].pc = "idle" /\ delivery[a] > 0
    /\ delivery' = [delivery EXCEPT ![a] = @ - 1]

Claim(w, a) ==
    /\ Takes(w, a)
    /\ Claimable(a) /\ ~run[a[1]].cancelled /\ permitted
    /\ attempt' = [attempt EXCEPT ![a].status = "sent"]
    /\ sender' = [sender EXCEPT ![w] = [pc |-> "sent", attempt |-> a]]
    /\ transports' = [transports EXCEPT ![a] = @ + 1]
    /\ UNCHANGED groupVars
    /\ UNCHANGED <<run, result, planner, recovering, orphaned>>

(* The run was cancelled, or rights, visibility or the profile changed: the *)
(* attempt fails and the run is finalized in the same transaction.          *)
Refuse(w, a) ==
    /\ Takes(w, a)
    /\ Claimable(a) /\ (run[a[1]].cancelled \/ ~permitted)
    /\ attempt' = [attempt EXCEPT ![a].status = "failed"]
    /\ run' = [run EXCEPT ![a[1]].status =
                 Derived({attempt'[<<a[1], i>>].status : i \in Ordinals}, run[a[1]].cancelled)]
    /\ orphaned' = orphaned \ {a[1]}
    /\ UNCHANGED groupVars
    /\ UNCHANGED <<result, planner, sender, recovering, transports>>

DropDuplicate(w, a) ==
    /\ Takes(w, a)
    /\ ~Claimable(a)
    /\ UNCHANGED groupVars
    /\ UNCHANGED <<run, attempt, result, planner, sender, recovering, transports, orphaned>>

(* _store_attempt_outcome: nothing when the attempt is no longer "sent".    *)
(* A completed attempt leaves a result for every group it covered, also for *)
(* those the provider omitted.                                              *)
Storable(a) == attempt[a].status = "sent"

Store(w, outcome) ==
    LET a == sender[w].attempt
        covered == {g \in Groups : attempt[a].frozen[g] # None}
        completed == Storable(a) /\ outcome = "completed"
    IN
    /\ sender[w].pc = "sent"
    /\ attempt' = IF Storable(a) THEN [attempt EXCEPT ![a].status = outcome] ELSE attempt
    /\ result' = IF completed
                 THEN [g \in Groups |-> result[g] \cup (IF g \in covered THEN {attempt[a].frozen[g]} ELSE {})]
                 ELSE result
    /\ touched' = IF completed THEN touched \cup covered ELSE touched
    /\ sender' = [sender EXCEPT ![w].pc = "stored"]
    /\ UNCHANGED <<unit, group, event, permitted, policyLock, author, allowance>>
    /\ UNCHANGED <<run, delivery, planner, recovering, transports, orphaned>>

SenderFinalizes(w) ==
    /\ sender[w].pc = "stored"
    /\ Finalize(sender[w].attempt[1])
    /\ sender' = [sender EXCEPT ![w] = [pc |-> "idle", attempt |-> None]]
    /\ UNCHANGED groupVars
    /\ UNCHANGED <<attempt, result, delivery, planner, recovering, transports>>

(* The message is acknowledged late: the broker delivers it again.          *)
SenderDies(w) ==
    LET a == sender[w].attempt IN
    /\ Request("recommend")
    /\ sender[w].pc # "idle"
    /\ delivery' = [delivery EXCEPT ![a] = @ + 1]
    /\ orphaned' = IF sender[w].pc = "stored" THEN orphaned \cup {a[1]} ELSE orphaned
    /\ sender' = [sender EXCEPT ![w] = [pc |-> "idle", attempt |-> None]]
    /\ UNCHANGED <<unit, group, event, permitted, policyLock, author, touched>>
    /\ UNCHANGED <<run, attempt, result, planner, recovering, transports>>
-----------------------------------------------------------------------------
(* Recovery and cancellation by a person.                                  *)

(* reconcile_expired_attempts: sends past their deadline become unknown.    *)
Reconcile(r, overdue) ==
    /\ Request("recommend")
    /\ permitted /\ r \notin recovering
    /\ overdue # {} /\ \A i \in overdue : attempt[<<r, i>>].status = "sent"
    /\ attempt' = [a \in Attempts |-> IF a[1] = r /\ a[2] \in overdue
                                      THEN [attempt[a] EXCEPT !.status = "unknown"] ELSE attempt[a]]
    /\ recovering' = recovering \cup {r}
    /\ UNCHANGED <<unit, group, event, permitted, policyLock, author, touched>>
    /\ UNCHANGED <<run, result, delivery, planner, sender, transports, orphaned>>

RecoveryFinalizes(r) ==
    /\ r \in recovering
    /\ Finalize(r)
    /\ recovering' = recovering \ {r}
    /\ UNCHANGED groupVars
    /\ UNCHANGED <<attempt, result, delivery, planner, sender, transports>>

(* requeue_reserved_attempts.                                               *)
Requeue(r) ==
    LET again == {i \in Ordinals : attempt[<<r, i>>].status = "reserved"} IN
    /\ Request("recommend")
    /\ permitted
    /\ again # {} /\ \A i \in again : delivery[<<r, i>>] < MaxMessages
    /\ delivery' = [a \in Attempts |-> IF a[1] = r /\ a[2] \in again
                                       THEN delivery[a] + 1 ELSE delivery[a]]
    /\ UNCHANGED <<unit, group, event, permitted, policyLock, author, touched>>
    /\ UNCHANGED <<run, attempt, result, planner, sender, recovering, transports, orphaned>>

CancelRun(r) ==
    /\ Request("recommend")
    /\ permitted
    /\ run[r].status # "absent" /\ ~run[r].cancelled
    /\ run' = [run EXCEPT ![r] = [status |-> "cancelled", cancelled |-> TRUE]]
    /\ UNCHANGED <<unit, group, event, permitted, policyLock, author, touched>>
    /\ UNCHANGED <<attempt, result, delivery, planner, sender, recovering, transports, orphaned>>

RecommendNext ==
    \/ \E retry \in BOOLEAN : PlanReadsCurrent(retry)
    \/ PlanReadsActive \/ PlanDies
    \/ /\ planner.pc = "active"
       /\ \E r \in Runs, cap \in Ordinals : \E requested \in Packings(cap) :
             \E published \in SUBSET {i \in Ordinals : requested[i] # {}} :
                Reserve(r, requested, published)
    \/ \E w \in Workers, a \in Attempts : Claim(w, a) \/ Refuse(w, a) \/ DropDuplicate(w, a)
    \/ \E w \in Workers :
          \/ \E outcome \in Ended : Store(w, outcome)
          \/ SenderFinalizes(w) \/ SenderDies(w)
    \/ \E r \in Runs :
          \/ \E overdue \in SUBSET Ordinals : Reconcile(r, overdue)
          \/ RecoveryFinalizes(r) \/ Requeue(r) \/ CancelRun(r)
=============================================================================
