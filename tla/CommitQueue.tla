---------------------------- MODULE CommitQueue ----------------------------
(***************************************************************************)
(* Background commits of one repository (queue_commit_pending of           *)
(* weblate/trans/models/component.py and perform_commit of                 *)
(* weblate/trans/tasks.py).  Translators leave pending changes; people and *)
(* the hourly commit_pending ask for a commit.  A cache key names the one  *)
(* task that is scheduled; who finds the key taken leaves a reschedule     *)
(* request that the task picks up when it ends.                            *)
(*                                                                         *)
(* The cache has no transactions: one action is one cache operation, one   *)
(* message or one commit under the repository lock.                        *)
(***************************************************************************)
EXTENDS Naturals, FiniteSets

CONSTANTS
    Changes,         \* units a translator edits
    Callers,         \* web requests that ask for a commit
    Beat,            \* the periodic commit_pending
    Tasks,           \* bound: task ids in use at the same time
    MaxRetries,      \* max_retries of perform_commit
    MaxDisturbances, \* bound: crashes, errors, lock timeouts, keyless tasks
    None             \* no task

Processes == Callers \cup {Beat} \cup Tasks

ASSUME QueueAssumption ==
    /\ Tasks \cap (Callers \cup {Beat}) = {}
    /\ Beat \notin Callers
    /\ None \notin Processes
    /\ {MaxRetries, MaxDisturbances} \subseteq Nat

VARIABLES
    pending,     \* changes with a PendingUnitChange
    asked,       \* history: pending changes somebody asked to commit
    commitTask,  \* cache: commit_task_key
    reschedule,  \* cache: commit_task_reschedule_key holds a payload
    proc,        \* where each caller and each task is
    late,        \* history: a key expired under its task, or an error came late
    disturbances \* bound: disturbances so far

cache == <<commitTask, reschedule>>
work == <<pending, asked>>
vars == <<work, cache, proc, late, disturbances>>

(* A task that is not in use, or a caller that does nothing, is at rest;    *)
(* lost is a task whose worker or publisher died.                           *)
Points == {"rest", "add", "refused", "publish", "undo key", "undo request",
           "queued", "check", "drop", "read", "clear", "lost"}

(* id: the task being scheduled; failing: after an exception; payload: the  *)
(* request that was read; keyed: scheduled by queue_commit_pending.         *)
Local == [pc : Points, id : Tasks \cup {None}, failing : BOOLEAN,
          payload : BOOLEAN, keyed : BOOLEAN, retries : 0 .. MaxRetries]

AtRest == [pc |-> "rest", id |-> None, failing |-> FALSE, payload |-> FALSE,
           keyed |-> FALSE, retries |-> 0]

TypeOK ==
    /\ pending \subseteq Changes
    /\ asked \subseteq pending
    /\ commitTask \in Tasks \cup {None}
    /\ reschedule \in BOOLEAN
    /\ proc \in [Processes -> Local]
    /\ late \in BOOLEAN
    /\ disturbances \in 0 .. MaxDisturbances

Init ==
    /\ pending = {}
    /\ asked = {}
    /\ commitTask = None
    /\ reschedule = FALSE
    /\ proc = [p \in Processes |-> AtRest]
    /\ late = FALSE
    /\ disturbances = 0

-----------------------------------------------------------------------------
At(p, point) == proc[p].pc = point

Goto(p, point) == proc' = [proc EXCEPT ![p].pc = point]

Rest(p) == proc' = [proc EXCEPT ![p] = AtRest]

Active(p) == proc[p].pc \notin {"rest", "lost"}

(* uuid(): an id nobody knows.  A task that schedules its follow-up no      *)
(* longer needs its own.                                                    *)
Unknown(t) == commitTask # t /\ \A p \in Processes : proc[p].id # t
Fresh(t) == Unknown(t) /\ ~Active(t)

Queued(keyed) == [AtRest EXCEPT !.pc = "queued", !.keyed = keyed]

Disturb == disturbances < MaxDisturbances /\ disturbances' = disturbances + 1

(* A translator saves a unit.                                               *)
Edit(c) ==
    /\ c \notin pending
    /\ pending' = pending \cup {c}
    /\ UNCHANGED <<asked, cache, proc, late, disturbances>>

-----------------------------------------------------------------------------
(* queue_commit_pending.                                                    *)

(* A request or the periodic task calls it; it runs when the transaction    *)
(* commits.                                                                 *)
Ask(p) ==
    /\ p \notin Tasks /\ At(p, "rest")
    /\ p = Beat => pending # {}
    /\ asked' = pending
    /\ Goto(p, "add")
    /\ UNCHANGED <<pending, cache, late, disturbances>>

MutKeyFree == TRUE
KeyFree == commitTask = None

(* cache.add takes the key for a new task id ...                            *)
AddTask(p, t) ==
    /\ At(p, "add") /\ KeyFree
    /\ Fresh(t) \/ (t = p /\ Unknown(t))
    /\ commitTask' = t
    /\ proc' = [proc EXCEPT ![p].pc = "publish", ![p].id = t]
    /\ UNCHANGED <<work, reschedule, late, disturbances>>

(* ... or finds it taken, and the request is left for the running task.     *)
AlreadyScheduled(p) ==
    /\ At(p, "add") /\ ~KeyFree
    /\ Goto(p, "refused")
    /\ UNCHANGED <<work, cache, late, disturbances>>

LeaveRequest(p) ==
    /\ At(p, "refused")
    /\ reschedule' = TRUE
    /\ Rest(p)
    /\ UNCHANGED <<work, commitTask, late, disturbances>>

(* apply_async.                                                             *)
Publish(p) ==
    /\ At(p, "publish")
    /\ proc' = [proc EXCEPT ![p] = AtRest, ![proc[p].id] = Queued(TRUE)]
    /\ UNCHANGED <<work, cache, late, disturbances>>

(* apply_async raises, perhaps after the broker took the message.           *)
PublishFails(p, taken) ==
    /\ At(p, "publish") /\ Disturb
    /\ taken => proc[p].id # p
    /\ IF taken THEN proc' = [proc EXCEPT ![p].pc = "undo key", ![proc[p].id] = Queued(TRUE)]
                ELSE Goto(p, "undo key")
    /\ late' = (late \/ taken)
    /\ UNCHANGED <<work, cache>>

(* delete_commit_task() deletes both keys, whoever wrote them.              *)
UndoKey(p) ==
    /\ At(p, "undo key")
    /\ commitTask' = None
    /\ proc' = [proc EXCEPT ![p].pc = "undo request", ![p].id = None]
    /\ UNCHANGED <<work, reschedule, late, disturbances>>

UndoRequest(p) ==
    /\ At(p, "undo request")
    /\ reschedule' = FALSE
    /\ Rest(p)
    /\ UNCHANGED <<work, commitTask, late, disturbances>>

-----------------------------------------------------------------------------
(* perform_commit.                                                          *)

(* commit_pending under the repository lock: what is pending is committed.  *)
Commit(t) ==
    /\ At(t, "queued")
    /\ pending' = {} /\ asked' = {}
    /\ Goto(t, "check")
    /\ UNCHANGED <<cache, late, disturbances>>

MutMayRetry(t) == proc[t].retries <= MaxRetries
MayRetry(t) == proc[t].retries < MaxRetries

(* The lock is not released in time: Celery sends the task again, unless    *)
(* that was the last retry.                                                 *)
LockTimesOut(t) ==
    /\ At(t, "queued") /\ Disturb
    /\ IF MayRetry(t) THEN proc' = [proc EXCEPT ![t].retries = @ + 1]
                      ELSE Goto(t, "check")
    /\ UNCHANGED <<work, cache, late>>

MutAfterFailure(t) == AtRest
AfterFailure(t) == [proc[t] EXCEPT !.pc = "check", !.failing = TRUE]

(* Any other exception.                                                     *)
CommitRaises(t) ==
    /\ At(t, "queued") /\ Disturb
    /\ proc' = [proc EXCEPT ![t] = AfterFailure(t)]
    /\ UNCHANGED <<work, cache, late>>

(* delete_commit_task(require_match=True): the key must name this task.     *)
KeyMatches(t) ==
    /\ At(t, "check") /\ commitTask = t
    /\ Goto(t, "drop")
    /\ UNCHANGED <<work, cache, late, disturbances>>

KeyDiffers(t) ==
    /\ At(t, "check") /\ commitTask # t
    /\ Rest(t)
    /\ UNCHANGED <<work, cache, late, disturbances>>

DropKey(t) ==
    /\ At(t, "drop")
    /\ commitTask' = None
    /\ Goto(t, "read")
    /\ UNCHANGED <<work, reschedule, late, disturbances>>

(* finish_commit_task reads the request, then deletes it; after an          *)
(* exception it is deleted unread.                                          *)
ReadRequest(t) ==
    /\ At(t, "read")
    /\ proc' = [proc EXCEPT ![t].pc = "clear",
                            ![t].payload = reschedule /\ ~proc[t].failing]
    /\ UNCHANGED <<work, cache, late, disturbances>>

(* schedule_deferred_commit calls queue_commit_pending for what was read.   *)
ClearRequest(t) ==
    /\ At(t, "clear")
    /\ reschedule' = FALSE
    /\ IF proc[t].payload THEN Goto(t, "add") ELSE Rest(t)
    /\ UNCHANGED <<work, commitTask, late, disturbances>>

(* Reset and file sync send perform_commit without taking the key.          *)
SendKeyless(t) ==
    /\ Fresh(t) /\ Disturb
    /\ asked' = pending
    /\ proc' = [proc EXCEPT ![t] = Queued(FALSE)]
    /\ UNCHANGED <<pending, cache, late>>

-----------------------------------------------------------------------------
(* Failures.                                                                *)

(* A caller or a worker dies.  Celery acknowledged the worker's message     *)
(* when it was received, and a task that was to be published never is.      *)
Crash(p) ==
    /\ Active(p) /\ Disturb
    /\ proc' = [q \in Processes |->
                  IF q = p THEN [AtRest EXCEPT !.pc = IF p \in Tasks THEN "lost" ELSE "rest"]
                  ELSE IF q = proc[p].id /\ ~Active(q) THEN [AtRest EXCEPT !.pc = "lost"]
                  ELSE proc[q]]
    /\ UNCHANGED <<work, cache, late>>

Alive(t) == Active(t) \/ \E p \in Processes : proc[p].id = t

MutExpired == commitTask
(* BACKGROUND_TASK_TTL after it was written, perhaps under a live task.     *)
Expired == None

KeyExpires ==
    /\ commitTask # None
    /\ commitTask' = Expired
    /\ late' = (late \/ Alive(commitTask))
    /\ UNCHANGED <<work, reschedule, proc, disturbances>>

RequestExpires ==
    /\ reschedule
    /\ reschedule' = FALSE
    /\ UNCHANGED <<work, commitTask, proc, late, disturbances>>

-----------------------------------------------------------------------------
Schedule(p) ==
    \/ \E t \in Tasks : AddTask(p, t)
    \/ AlreadyScheduled(p) \/ LeaveRequest(p)
    \/ Publish(p) \/ UndoKey(p) \/ UndoRequest(p)

Run(t) ==
    \/ Commit(t)
    \/ KeyMatches(t) \/ KeyDiffers(t) \/ DropKey(t)
    \/ ReadRequest(t) \/ ClearRequest(t)

Failure ==
    \/ \E t \in Tasks : LockTimesOut(t) \/ CommitRaises(t) \/ SendKeyless(t)
    \/ \E p \in Processes : Crash(p) \/ \E taken \in BOOLEAN : PublishFails(p, taken)

Next ==
    \/ \E c \in Changes : Edit(c)
    \/ \E p \in Processes : Ask(p) \/ Schedule(p)
    \/ \E t \in Tasks : Run(t)
    \/ Failure
    \/ KeyExpires \/ RequestExpires

Spec == Init /\ [][Next]_vars

(* Processes that began go on, queued tasks are run, the periodic task is   *)
(* started every hour while something is pending, and keys expire.          *)
Fairness ==
    /\ \A p \in Processes : WF_vars(Schedule(p))
    /\ \A t \in Tasks : WF_vars(Run(t))
    /\ WF_vars(Ask(Beat))
    /\ WF_vars(KeyExpires)

FairSpec == Spec /\ Fairness

-----------------------------------------------------------------------------
(* Until a key expires under its task or the broker reports an error for a  *)
(* message it took, at most one commit of the repository that               *)
(* queue_commit_pending scheduled waits or runs, and the key names it:      *)
(* nobody can schedule a second one, and no undo or finish takes the key of *)
(* somebody else's task.                                                    *)
OneLiveTask ==
    ~late => \A t \in Tasks : At(t, "queued") /\ proc[t].keyed => commitTask = t

(* The key never names a task that ended: it would hold back every commit   *)
(* of the repository for BACKGROUND_TASK_TTL.  Only a crash leaves one.     *)
KeyIsLive == commitTask # None => Alive(commitTask) \/ At(commitTask, "lost")

(* Whatever is pending is committed in the end: no lost task, stale key,    *)
(* dropped request or error stops the commits of a repository.              *)
PendingIsCommitted == \A c \in Changes : c \in pending ~> c \notin pending

(* While keys last as long as their tasks, what somebody asked to commit is *)
(* committed or somebody is still at it: docs/admin/continuous.rst lists    *)
(* "An explicit commit is requested" among the conditions once any of which *)
(* is fulfilled the changes are committed.                                  *)
AskedIsScheduled == ~late /\ asked # {} => \E p \in Processes : Active(p)
=============================================================================
