# TLA+ verification of HCGameLoc

HCGameLoc is a fork of Weblate for game localization. Beside Weblate's core (components in version control, units,
suggestions, background commits) it translates and judges strings with paid language models, in background workers that may
be killed, restarted and overtaken at any time. What costs money or loses a translator's work is what this project models
first: the delivery journal every paid request passes, the durable machine translation batches built on it, the queue
that commits translators' pending changes, what a commit does with them, the paid recommendations for repeated strings with
the batches that apply and undo them, and the drains that ask the judge again after it gave no answer.

All paths below are relative to the repository.

## 1. The system

### Components in the scope of the models

**LLM delivery journal** (`weblate/trans/llm_delivery.py`, `models/llm_delivery.py`).
State: `ProducerLLMWork` (unique semantic key, the spend fence), `ProducerLLMExchange` (reserved, sending, received, unknown,
purged; owner and lease; request and response digest, codec, usage and resolution flags), one private reply file per exchange.
Operations: `dispatch_exchange` (reserve or take over, claim the send, send, record, replay), `record_usage_once`,
`judge_fallback_allowed`, `resolve_run_deliveries`, `cleanup_delivery_bodies`.
Interaction: called in web and Celery processes by the machinery and by the judge; runs are finished by the batch code.
Hard: the file and the row are two writes; a reply may be lost after it was paid; leases expire under a live owner; row locks
are held during a provider call.
Correct when: no unit of work is paid twice, an answer belongs to the request it is returned for, rows and files agree,
each price is accounted once.

**Durable MT operations** (`weblate/trans/mt_operations.py`, `models/producer_mt.py`, `weblate/api/producer/mt.py`).
State: a receipt (`ProducerMTOperation`: state, owner, lease), an attempt per unit (`ProducerMTUnitAttempt`: state, answer,
the revision of the unit it was reserved for), the `ProducerRun` of the receipt.
Operations: accept, retry a key, publish, receive and take the lease, triage, look up saved answers, request a chunk, store,
apply, finish, recover, re-offer, reconcile, cancel.
Interaction: the journal (paid calls), the broker, the grants (delegations), units edited by people at the same time.
Hard: redelivered messages, two owners, a publisher that dies between the broker and the database, rights revoked in the
middle of a batch, transactions that read the run, the component and the grant without their locks and commit later.
Correct when: a unit revision is paid once, a machine answer is only written to the revision it was made for, settled attempts
and ended receipts stay so, a cancellation lets nothing new begin, what is released was never sent, a batch ends.

**Producer run outbox** (`weblate/trans/tasks.py`) and **wizard delegation grants** (`weblate/wizard_auth/grants.py`): the
parts durable MT operations use (unpublished runs, dispatch attempts, the drain; an active or revoked delegation).

**Background commit queue** (`queue_commit_pending` in `models/component.py`, `perform_commit` in `tasks.py`).
State: two cache keys per repository (the scheduled task, a reschedule request) and the task messages.
Interaction: edits leave `PendingUnitChange` rows; requests, tasks and the hourly `commit_pending` schedule commits.
Hard: the cache has no transactions; keys expire; messages are acknowledged before the work; the repository lock times out.
Correct when: one scheduled commit per repository exists at a time, no key names a finished task, and what is pending is
committed in the end.

**Pending changes of a file** (`models/pending.py`, `models/translation.py`, `models/unit.py`, `do_update` in
`models/component.py`).
State: `PendingUnitChange` rows (text, author, state, failure), the units with a snapshot of what the file had before the first
pending change (`disk_state`), the revision of the file (a hash), the file itself.
Operations: save a unit, commit (retry, blocking and policy filters, author groups, writing, deletion of what was applied), merge
upstream's changes, load the file into the database.
Interaction: translators save under a row lock, the rest runs under the repository lock; the commit queue starts commits.
Hard: the file is outside the transaction; writes fail for single units; saves run between the steps of a commit; the load
follows the merge without the lock.
Correct when: no queued change disappears before the file has it or upstream changed the string, the file never goes back to an
older text, what the policy excludes stays out, and loads see what upstream changed.

**Repeat recommendations** (`weblate/trans/repeat_recommendations.py`, `models/repeat.py`).
State: `RepeatRecommendationRun` (status, cancellation), its `RepeatRecommendationAttempt` rows (reserved, sent, completed, unknown,
failed; the context of every group that was sent), the results.
Operations: `prepare_run` (plan and reserve), `execute_attempt` (claim, send, store), `finalize_run`, reconciliation of overdue
attempts, requeueing of undelivered ones, cancellation.
Interaction: the broker; people edit units and decide groups while requests are on their way; each claim checks the actor's rights.
Hard: the plan reads results, open attempts and contexts in three statements; messages are lost, repeated and redelivered after a
worker died; an answer comes after its attempt was declared unknown.
Correct when: no context is bought twice but by consent, and a run says whether it waits and whether all answers came.

**Repeat bulk apply and undo** (`weblate/trans/repeat_bulk.py`, `repeats.py`).
State: `RepeatBulkRun` (apply or undo, status), its `RepeatBulkItem` rows with the reviewed context and the event of the decision;
`RepeatGroup` (revision, decision), `RepeatDecisionEvent`.
Operations: review, `start_bulk`, `process_next_apply_item`, `start_undo`, `_undo_one_item`, `resume_bulk`; by hand
`apply_preview`, `keep_group_independent`, `undo_event`.
Interaction: applies what recommendations found, to the units that translators edit and reviewers approve.
Hard: one review submitted twice, a batch processed by two workers, resume beside undo, undo after later work.
Correct when: a batch writes only what was reviewed, an item is settled once, an undo takes back only what its decision wrote, and a
batch that is being undone applies nothing more.

**Judge deferrals and circuit breaker** (`drain_judge_deferrals` and what it calls in `weblate/trans/judge_loop.py`, `judge.py`,
`models/judge.py`).
State: `JudgeDeferral` (open or closed, due time, claim token and lease) per unit and request identity; `JudgeAdaptiveState` (closed,
open or half-open with its time, streak of failures).
Operations: claim, select, reserve capacity, send in batches, isolate, store each answer, release; judge runs do the last part
without claims.
Interaction: several drains, judge runs and edits of the text, which give the unit another identity.
Hard: leases shorter than a pass, releases that come late, a death between the transaction of the circuit and that of the row.
Correct when: a deferral is asked for by the drain that holds its claim, and only the end of that claim lets another one ask.

### Components outside

| component | state and operations | hard behaviour | what would make it correct |
|---|---|---|---|
| Full-scope producer runs | run cursor, continuation tasks, execution guard | redelivery, stalled runs | every unit once, a run ends |
| Judge rounds, repairs, candidates | verdicts, candidates | repair beside an edit, accept and undo | a candidate only replaces the text it was made for |
| Localization kit | update with portions, cursor and fencing token | restarted worker | every portion once, by the owner |
| Repository and update locks | re-entrant Redis, file or advisory lock | expiry under the owner | mutual exclusion, no foreign release |
| Units, suggestions, workflow | unit state, suggestions, votes | concurrent edits | read-only and approval rules |
| Producer API receipts | idempotency keys with stored responses | concurrent same-key requests | one effect per key |
| Components and version control | repository checkouts, remote | external tools | out of reach: results depend on the tools |
| Wizard sign-in, accounts, billing | tokens, permissions, plans | single transactions | rights are an input of the models |
| MT engines, formats, checks, statistics, web and API views, add-ons, memory, glossary, MCP server, front end | conversions, forms, reporting | none beyond the components above | by unit tests |

`PROJECT.json` lists them with their sources, and under `hazards` every place where this code is hard to test, with the
properties that cover it, or why none does.

## 2. Modules

| module | models | composed with |
|---|---|---|
| `SpendOnce` | what the journal promises about money: free, claimed, committed; one answer; never free again | implemented by `LLMDelivery`, used by `MTOperation` |
| `LLMDelivery` | the delivery journal | `INSTANCE SpendOnce` (refinement) |
| `LLMDeliveryProofs` | theorems about who pays | extends `LLMDelivery` |
| `LLMDeliveryStorageProofs` | theorems about what is stored, and the refinement | extends `LLMDeliveryProofs` |
| `MTOperation` | batches, outbox, workers, reconciliation, people | `INSTANCE SpendOnce` (its journal obeys the same specification) |
| `MTOperationProofs` | theorems about who writes receipts and attempts | extends `MTOperation` |
| `MTOperationSpendingProofs` | theorems about what is paid, and the use of `SpendOnce` | extends `MTOperationProofs` |
| `CommitQueue` | the commit queue of one repository | |
| `CommitQueueProofs` | theorems about it | extends `CommitQueue` |
| `PendingChanges` | saves, commits, updates and loads of one file | details the action `Commit` of `CommitQueue` |
| `PendingChangesProofs` | theorems about the queue and the file | extends `PendingChanges` |
| `RepeatGroups` | units, groups, decisions, and what people do with them | extended by the next two |
| `RepeatRecommendations` | plans, paid attempts, recovery | extends `RepeatGroups` |
| `RepeatBulk` | reviews, apply and undo batches | extends `RepeatGroups` |
| `Repeats` | both workflows over the same rows, and their properties | extends `RepeatRecommendations` and `RepeatBulk` |
| `RepeatsProofs` | theorems about them | extends `Repeats` |
| `JudgeDeferrals` | drains, circuit breaker, judge runs of one seat | |
| `JudgeDeferralsProofs` | theorems about it | extends `JudgeDeferrals` |
| `MCLLMDelivery`, `MCMTOperation`, `MCCommitQueue`, `MCPendingChanges`, `MCRepeats`, `MCJudgeDeferrals` | instances for TLC | |

The two users of the journal meet at `SpendOnce`: `LLMDelivery` shows that the code of the journal implements it,
`MTOperation` keeps its own journal variable whose steps are those of `SpendOnce`, so that the batch model need not repeat
rows, leases and files of the exchanges.

### LLMDelivery

One action is one database transaction, one file operation or one message of the provider. A transaction that stays open over
several steps holds `rowLock`: the judge's send (bound to the association of an attempt) and the clean-up.

| state | code |
|---|---|
| `fence` | `ProducerLLMWork.semantic_key -> exchange` |
| `row` | `ProducerLLMExchange`; `lease` is `lease_until > now` (it expires only while the row is reserved, the one state that reads it); `responseDigest` is the body itself, whose digest tells bodies apart |
| `file` | the reply file of the exchange, which appears by `os.replace` |
| `pc`, `req`, `ref`, `seen`, `got` | program point, arguments and locals of `dispatch_exchange` in a process |
| `paid`, `origin`, `reply`, `billed`, `attempts` | history variables for the properties |

`ReserveSaved`, `ReserveFree`, `Insert`, `InsertCollides`, `ReserveRefused` are `reserve_exchange`; `ClaimSend`, `Send`,
`ReplyArrives`, `StoreBody`, `RecordReceived`, `BindCommits` the send; `SendRaises`, `MarkUnknown` the exception handler;
`ReadRow`, `ReadBody`, `AdoptCodec`, `AssociateAttempt`, `RecordUsage` the replay; `Unlink`, `Purge`, `CleanerCrashes` the
clean-up; `Crash` kills a process at any point and rolls its transaction back.

`RunFinishes` stands for the end of a run in the batch code. A refusal of `guard_paid_run` before anything is reserved is a
call that does not begin. A call that was active when its run was resolved is over when the clean-up comes, thirty days later.
There are as many exchanges as works: every exchange owns at least one key for ever, so that this set bounds nothing.

### MTOperation

One action is one transaction, one message or one provider reply; an operation and its run share an index.

| state | code |
|---|---|
| `unit` | target, text, audit and source revision (`unit_revision`, `compute_decision_revision`) |
| `operation`, `attempt`, `run` | the rows; `lease` is none, live or expired |
| `broker`, `publishing`, `cancelling` | messages waiting, a publication under way, a cancel request between read and save |
| `call` | `process_mt_operation` in each worker |
| `journal` | the journal as `SpendOnce` describes it |
| `transported`, `overwritten` | history: provider requests made for an attempt; runs whose cancellation a late broker error overwrote |
| `authorized`, `writable` | the actor's right or delegation, the component's lock |

The two loops of the triage are steps of their own, one unit per transaction: `TriageKeeps`, `TriageCloses` and `TriageSelects`
check lease, cancellation and unit, `LookupFinds` and `LookupMisses` read the attempt again and check the lease only.
`ChunkReads` and `RequestChunk`, `ApplyReads` and `Apply` or `ApplyRefused`, `FinishReads` and `FinishWrites` are two steps each of
one transaction: run, component and delegation are read without their row locks, and a cancellation, a lock of the component or a
revocation that is saved in between is not seen. The row of the receipt stays locked meanwhile. So a cancellation lets one open
transaction through and no second one (`CancelIsHonoured`), and the chunk that was marked goes on to the provider: `Claim` and
`Transport` look at no cancellation, here as in the code. What is written is protected by the row locks of unit and attempt alone
(`AppliesOnlyReserved`). A cancelled redelivery may close an attempt as failed between the two loops of an owner, whose second loop
then saves a free answer for it; `SettledIsFinal` names this, and nobody applies the answer. `Transport` needs the keys of the group to be claimed still: the claim of the send is a conditional update, and a call
whose exchange another one has sent is refused (`CallRaises`). Duplicates caused by the broker's visibility timeout are the same messages as those of a publisher that dies
before it marks the run. Not modelled: units reserved before audit revisions existed, the refusal of the old routed-parts
prompt, deletion of the actor. The body of a reply is good, too long for the unit, or blank; a good one may be refused at any
time as well, so that a run with good and blank replies meets every path of a long one.

### CommitQueue

One action is one cache operation, one message or one commit under the repository lock. `proc` holds the local state of web
requests, of the periodic task (`Beat`) and of the tasks. Keys expire at any time (`KeyExpires`), also under a task that outlives
`BACKGROUND_TASK_TTL` (six hours), and the broker may report an error for a message it took (`PublishFails(p, TRUE)`); the
history variable `late` remembers that one of the two happened. Messages are acknowledged when received: a dead worker leaves a
`lost` task. A task that schedules its follow-up may reuse its own id, which nobody needs any more, so that the finite set of ids
never blocks the system. The branch `deduplicate=False` of `queue_commit_pending` (`component.py:1964-1977`), which takes the key over
from a waiting task, has no caller and is not modelled. What one commit writes is one action, `Commit`: everything pending. Deletion of the component is not
modelled; no caller passes `force_scan`, so that payloads carry nothing.

### PendingChanges

One file, whose texts are numbered in the order they come up: the text of a row stands for its timestamp and primary key.

| state | code |
|---|---|
| `pending` | `PendingUnitChange`; `good`: its state qualifies under the commit policy; `blocking`, `at`: metadata of the last failure |
| `unit` | `Unit.target` and `details["disk_state"]`; `Gone`: no unit; `Held`: a failure set the state to needs editing |
| `revision`, `file` | the content whose hash `Translation.revision` is; the working tree |
| `commit` | locals of `_commit_pending` and `do_update`: groups, results, units locked by an update |
| `load`, `editor` | a requested `create_translations`; the unit a translator's request has read |
| `clock`, `passing`, `shown`, `missed` | bound and history variables for the properties |

`Open` and `Save` are two steps because the request reads the unit before `Unit.translate` locks its row. `Begin`, `WriteGroup`
(one per author group: `update_units` and `git_commit`) and `Finish` are one transaction, which `Abort` rolls back; the query of
`Begin` locks pending rows only (`of=("self",)`), so that units are locked one group after the other. `Merge` or `MergeNothing`
ends an update, `Load` is `check_sync` at any later time. `WeekPasses` makes failed rows eligible again.

`missed` names the units whose comparison state is wrong for a reason that is a step of the code: a save with stale details, a
unit that keeps the needs-editing state of a failure although its change was written later (nothing takes the state back), and
upstream changes that became part of the stored revision before a load read them. `ComparisonIsFile` says that there is no
other reason. Two consequences of the design that `PendingSurvives` and `FileIsFiltered` allow: after a roll back between two
author groups the file differs from the revision, and a load that comes first takes the file's text and drops the later row;
texts that do not qualify are committed on the way to a later one that does.

Not modelled: strings added by Weblate (`add_unit`), `commit_pending_subset`, files without a name or that cannot be parsed,
reset and file synchronisation, source changes of monolingual files, propagation, a change of the policy.

### Repeats

One action is one statement outside a transaction, one transaction, one message or one provider reply. The row lock of the policy
is `policyLock`: a plan holds it from its first read to its commit, a worker from the lock of the group to its write.

| state | code |
|---|---|
| `unit` | `Unit.target` as the shared text, another one or its own, and approval; `Context` is `build_group_context` |
| `group`, `event` | `RepeatGroup`, the decision events with what they wrote and replaced |
| `permitted` | the actor may edit the project and sees its units, and the profile is the one of the plan |
| `run`, `attempt`, `result` | the rows; `frozen` is the context that an attempt sends for each group |
| `delivery`, `tasks` | messages in the broker |
| `planner`, `sender`, `worker`, `submitting`, `resuming` | locals of `prepare_run`, `execute_attempt`, `process_next_apply_item`, `start_bulk`, `resume_bulk` |
| `review`, `batch` | the signed manifest; a batch of items for its apply and its undo |
| `touched`, `author`, `transports`, `missed`, `orphaned`, `overtaken` | history variables for the properties |

`PlanReadsCurrent`, `PlanReadsActive` and `Reserve` are the three reads and the commit of a plan. `Claim`, `Store` and
`SenderFinalizes` are the transactions of a message; a worker may die between any two (`SenderDies`), and the message comes again.
`Reconcile` and `RecoveryFinalizes`, `Requeue` and `CancelRun` are what a person, or only a test, calls. In a batch, `ChooseItem`
takes the row lock of the batch, `LockGroup`, `Preview` and `Write` or `Skip` are one item; `StartReads` and `StartCreates`, and
`ResumeReads` and `ResumeSaves` are two steps since nothing is locked between them. Resumes may overlap, also on one batch: a second
one saves `queued` over a batch that the first one let end, and the next message ends it again. `start_undo` and `resume_bulk` ask
for `project.edit` of whoever calls, not for the rights of the batch's actor, so that `permitted` guards neither. The two queries
by which `plan_recommendations` looks for candidates (`repeat_recommendations.py:383`, `:386`) are part of the commit. Three history sets name the steps of the code
that the properties exempt, and each exemption is needed: without `missed` a plan that was overtaken between its reads buys a
context again, without `orphaned` a run whose finalizer died stays running, without `overtaken` a resume that looked before an
undo was created goes on applying.

Not modelled: groups too large for a request, automatic recipients and the revision of the producer, exclusions, memberships and
their reconciliation, overlapping policies, expiry of a manifest (all of them make a plan or a batch do less), and which of several
results of a group is the newest. `refresh_group_ids` and `cancel_run` have no caller outside the tests.

### JudgeDeferrals

The rows of one seat, and its circuit. A row is named by its unit and its request identity; `text` is the identity a request would
have now. Rows (`seat`, in their unique key) and circuits (`JudgeAdaptiveState.seat`) belong to one seat each, and no step of a drain
reads or writes those of another seat; a pass selects for both seats at once and then drains them one after the other. Seen from
one seat, what the pass does for the other one is a delay between `Select` and `Reserve`, an exception (`Raise`) or a death
(`Die`), and may leave the pass no time for this one (`Overrun`).

| state | code |
|---|---|
| `row` | `JudgeDeferral`: absent, open (queued or slow) or closed; token; `leased` is `claim_expires_at > now`, `due` is `next_attempt_at <= now` |
| `circuit` | `circuit_state`, `circuit_open_until > now` (`waiting`), `failure_streak` |
| `pass` | a drain: what it claimed, selected, has to send, has sent, what failed, and whether it is in the second round |
| `live` | a request of a judge run, which looks at neither claims nor circuit |
| `held` | history: rows selected under a claim that neither an answer nor the end of the lease has ended, until the first request of the selection is over |

`Claim`, `Select`, `Reserve`, `Send`, `Isolate`, `Answer`, `Release` are the steps of a drain in this order; `Answer` is both
transactions of an answer (`Record` the circuit, `Sync` the rows), `DieStoring` the death between them, `Raise` an exception, after
which the claims are released, `Die` a death that leaves them to their lease. Time is free: a lease, a delay and the time of the
circuit may end between any two steps, so that nothing rests on how long a reservation, building requests or the other seat take.
What the token bucket holds is left open. A verdict with a durable origin may close a selected row (`ended` of `Select`).

`CallsExclusive` is what the claims achieve whatever the clock does: a request is doubled only if an answer took the claim or its lease
ran out after the one check (`judge_loop.py:2365`). That the check covers the first request is not claimed; it does not, once the
other seat comes first. Batches after the first and isolated requests run without any check: the model has them, and
`CallsExclusive` says nothing of them. Of a half-open circuit no property says how many calls it lets through: `Reserve` grants
units for one call per half-open time, under the row lock, and `Send`, `Isolate` and the second round (`judge_loop.py:1900-1915`)
may make several of it.

## 3. Runs

Every run is a bounded instance; the bound on disturbances counts crashes, errors, edits, cancellations and other events that
nothing forces to happen.

| run | instance | question and answer |
|---|---|---|
| `delivery` | 2 processes, 2 works; a translation batch, its retry with a codec, a replay-only call, a judge's primary and fallback stage over the same units; a legacy reservation possible; unbounded crashes | never paid twice, rows and files agree, answers fit the request, usage and attempts once, immutable reservations, a fallback only after a captured transient reply of exactly its batch, and `SpendOnce` is implemented |
| `delivery_calls_end` | 2 processes, 1 work | every call ends, whoever dies with a row lock |
| `mt_batch` | 1 unit, 2 workers, answers good or blank, 2 disturbances, fairness | what is settled is reopened in three named ways only, nothing is written over an edit, a cancellation lets at most one open transaction through; an accepted batch ends, or its run was cancelled or failed; the journal is used as `SpendOnce` allows |
| `mt_receipts` | 2 delegated receipts for one unit, or one for 2 units in a chunk of one or two groups; 1 worker, 2 disturbances | a unit revision is sent once, whatever is released and reserved again; only what was never sent is pending or released; completed means covered |
| `commit_commits` | 1 caller, the periodic task, 2 tasks, 2 disturbances, fairness | one scheduled commit at a time until a key expires under its task or an error comes late; the key never names a task that ended without a crash; what is pending is committed |
| `pending_commit` | 2 units, 2 translators, 3 texts, 3 disturbances | no queued change is lost, the file keeps the order of each unit's texts and the commit policy, and the comparison state is the file's last content |
| `repeats` | 2 groups of one unit, 2 workers, 2 runs of 2 attempts, 1 review with its undo; the five mixes of edits, requests and faults in `MCAllowances` | no context is bought twice and no attempt sent twice, runs get the status of their attempts; a batch writes what was reviewed, items stay settled, an undo takes back its own work only, an undone batch stops |
| `judge_deferrals` | 2 drains, 2 units with three identities, batches of up to 2; one edit, one judge run or one fault | a deferral has two first requests only when an answer or the end of a lease ended one of the claims |

Three works would add only a second overlap of the same kind; two processes are an old owner and the new one, and either may
replay afterwards. Two workers are enough for one lease: the slow owner and its successor, and a third owner would meet the
same rows as the second. Two units allow a chunk of two context groups of which one is paid and one refused. Two tasks allow
one that ends and one that is scheduled or comes from a late or keyless message. Three texts allow two changes of a unit by
two authors and a third that follows them, or one of upstream; three disturbances an upstream change together with a roll
back and a failed write. `MaxEdits` 1 gives a revision that changes once; since every comparison is with the saved revision,
a second change is like the first. `MaxDispatchAttempts` is 5 in the code and 1 or 2 here: what matters is the last failure,
and that there is one before it. `MaxRetries` is 3 in the code and 1 here. In `Repeats` the allowances are the mixes in
which the workflows meet: two plans beside an edit; a plan and a batch; a batch that is undone or fails beside two edits;
start, fault, undo and resume. In `JudgeDeferrals` nothing but the allowance bounds a behaviour: drains begin again for
ever, with a new token each time. Runs of `MTOperation` do not check for deadlock: when every receipt has ended and the
disturbances are used up, the system has nothing to do. The same holds for `PendingChanges` when its texts are used up, for
`Repeats` when its allowance is, and for `JudgeDeferrals` when the queue is empty.

Fairness. In `LLMDelivery` a live process goes on and the HTTP timeout ends each wait; PostgreSQL queues those who wait for
a row lock, so that a step that is enabled again and again is taken: strong fairness of `Step(w)`; nothing makes calls begin,
leases expire or runs finish. In `MTOperation` weak fairness of the workers' steps, of the publisher, of the periodic drain, of
the clock (`LeaseExpires`) and of a cancel request that began. In `CommitQueue` weak fairness of a process that began, of queued
tasks, of the hourly periodic task while something is pending (`tasks.py`, `setup_periodic_tasks`) and of the expiry of keys.
Crashes, errors, edits and people are never forced. `PendingChanges`, `Repeats` and `JudgeDeferrals`
have safety properties only and assume no fairness.

### Disagreements between documents and code

| run | what is said | what the code does |
|---|---|---|
| `mt_blank` | no second paid attempt for a unit revision | a stored blank answer counts as none after a redelivery; with an audit entry of the source in between, the journal takes the retry for new work |
| `commit_stranded` | an explicit commit request leads to a commit | a reschedule request written after the ending task read it is picked up by nobody until somebody asks again |
| `pending_stale` | the snapshot is stored by the first pending change only, and comparisons use the state before pending changes | two requests that read the unit before either saves: the second replaces the snapshot by the first one's text, and a later load of the file drops both changes |
| `pending_missed` | a load checks whether the database is in sync and updates it | a commit between merge and load stores the hash of the merged file; the load then does nothing |

`PaidOncePerRevision` holds without blank answers (`mt_receipts`) and fails with them (`mt_blank`). `SettledIsFinal` and
`TerminalIsFinal` exempt a run that a late broker error marked failed while a worker held the lease: the broker took the message,
a worker settled a unit, and the run can no longer be retried with its key.

Further disagreements, seen while modelling; the models contain them, and no run is spent on each of them:

- "Current results and active reservations are never repurchased" (`docs/product/plans/2026-09-24-repeat-queue-producer-ux.md:80`):
  an answer that arrives between two reads of a plan is seen by neither of them, and its group is bought again (`missed`).
- A run whose worker dies between the outcome of its last attempt and `finalize_run` stays running for ever (`orphaned`):
  the redelivered message finds a terminal attempt and returns.
- `judge_loop.py:2371-2376` says that a lease which covers one request deadline leaves no first request that another worker may
  duplicate, and `:2396-2399` repeats it. The lease is compared once, without slack for the reservation and for building the
  requests, and the seats are drained one after the other (`:2462-2465`): the first request of the second seat starts when the
  whole batch of the first one is over. Batches after the first and isolated requests look at no lease either.
- `judge_loop.py:1020-1022` permits exactly one batched call when half-open, and `_reserve_deferral_requests` grants units for one.
  The adaptive batch budget, which the failures have just halved, splits them into several calls, an unreadable reply is followed
  by one call per member, and the second round asks again for what failed. A pass that was admitted before the circuit opened
  goes on sending.
- `judge_loop.py:1100-1104` keeps a late answer from closing newer deferrals; the row of a text that was restored keeps its
  creation time and is closed all the same, and a late failure reopens a deferral that an opinion has closed.

## 4. Proofs

For all values of the constants that satisfy the modules' assumptions:

- `LLMDeliveryProofs`: `TypeCorrect`; `PaidAtMostOnce` (`Spec => []PaidOnce`); `ReclaimedWorkIsUnsent`
  (`Spec => []ReservedIsUnsent`). `PaidOnce` alone is not inductive: a process that has claimed a send will transport without
  looking again. The invariant `SpendInv` adds who may be about to send: an exchange in `sending` has one sender before the
  transport, the sender owns the row, works of reserved exchanges are unpaid, and a work without an exchange is unpaid. A
  take-over needs `reserved`, and the claim of the send requires owner and `reserved`, so that the old owner is refused.
- `LLMDeliveryStorageProofs`: `AnswersAreForTheirCalls`, `RowsAgreeWithFiles`, `OneAttempt`, `OnePrice`, `FallbacksAreJustified`
  (each `Spec => []P`), `ReservationsAreImmutable` (`Spec => ReservationIsImmutable`) and the refinement
  `JournalImplementsSpendOnce` (`Spec => ImplementsSpendOnce`). The invariant is `StorageInv`. Of an exchange it says that the row
  names the call that created it, that a reserved one has no file, that file and digest are the reply of its one send, that the
  digest is there exactly from `received` on, that the body is there until the run was resolved, and that the flags count attempts
  and prices (`ExchangeInv`). Of a process it says that its exchange is for its call, that a sender up to the file finds `sending`
  and no file, that with `on_response` it holds the row from the send to the commit, and that whoever is past the read has the
  reply (`CallInv`); two processes never send for the same exchange. Lemma `ProcessStep` reduces a step to what it leaves of each
  exchange (`Grows`) and of the other calls (`Spared`). For the refinement, four actions are visible: `Insert` is `Claim`,
  `ClaimSend` is `Commit`, `StoreBody` is `Answer`, `Unlink` is `Forget`; all others leave stage and answer of every work
  (`Hidden`) and map to stutters.
- `MTOperationProofs`: `TypeCorrect`; `CompletedCovers` (`Spec => []CompletedIsCovered`); `SettledStays` (`Spec => SettledIsFinal`),
  `TerminalStays` (`Spec => TerminalIsFinal`), `CancelStops` (`Spec => CancelIsHonoured`) and `OnlyReservedIsApplied`
  (`Spec => AppliesOnlyReserved`). None of the properties is inductive alone: each depends on who may still write an attempt. The
  invariant `ControlInv` says it: a receipt that was never accepted has no attempts, messages or calls; a receipt that ended
  has no live lease, unless a cancellation ended it under its owner; whoever is inside a transaction that requests, applies or ends
  owns the lease, and so is alone; what a live owner has selected is still open, unless a cancellation closed it, and what it has
  requested is `requesting`; a completed receipt is covered. `AttemptWriters` reduces a step to the four that write attempts (`Accept`, a
  worker's step under its lease, the end of a cancelled run, `Reconcile`), `UnitWriters` to the three that write units.
- `MTOperationSpendingProofs`: `PaidOnce` (`Spec => []PaidOncePerRevision`), `UnsentWasNotSent` (`Spec => []UnsentIsProvable`), both
  `ASSUME NoBlanks` (no provider answers with a blank; `mt_blank` refutes the first without it), and `BatchesUseSpendOnce`
  (`Spec => UsesSpendOnce`). What is sent once depends on which calls may still ask for a unit, owners or not: an owner that lost
  its lease goes on with the chunk it has. `SpendInv` says, of an attempt, that a pending one of the current source was not sent
  (`Unspent`) and that one which was sent has its key committed in the journal for as long as the source stays (`RowSpend`); of a
  call, that a live owner has selected only unsent units, that what it is about to send was not sent, and that its keys are those
  of its attempts (`CallSpend`); of two calls of one receipt, that neither has selected or asks for what the other one asks for
  (`Apart`); and of two receipts, that they do not hold one text of a unit at a time (`OneHolder`). Without `Apart` a second owner
  could ask again for what the first one still asks for; the triage excludes that, since it declares `requesting` attempts unknown
  without a request. A blank answer would break `RowSpend`: the attempt is `received`, and yet the next triage selects it. For the
  refinement `JournalInv` says that nothing is answered before it is committed, and that the group of a waiting call is committed;
  `Claim`, `Transport` and the two ways a reply is stored are `Claim`, `Commit` and `Answer`, all else is a stutter.
- `CommitQueueProofs`: `TypeCorrect`; `Deduplicated` (`Spec => []OneLiveTask`); `NoStaleKey` (`Spec => []KeyIsLive`). For the
  first the invariant is `~late => KeyInv`: until a key
  expires under its task or an error comes late, whoever is between taking the key and sending the task is the one named by the
  key, ids in use are distinct from those of others, a keyed task that waits or drops its key is named by the key, and two
  processes never schedule the same task. Lemma `LateStays` says that `late` is never reset, `KeyKept` handles all steps that
  schedule nothing. The second holds whatever was late, with the invariant `NameInv`: an id under way is not that of a running
  task, and a task that dropped its key is named by it again only if it schedules itself.
- `PendingChangesProofs`: `TypeCorrect`; `GroupsRight`; `ComparisonHolds` (`Spec => []ComparisonIsFile`), `OrderHolds`
  (`Spec => []OrderKept`), `FilterHolds` (`Spec => []FileIsFiltered`) and `ChangesSurvive` (`Spec => PendingSurvives`).
  `GroupsRight` is about the recursive function of `Groups`, for every set of rows: that the function exists, and that after each
  text the finished groups are in order, older than the active ones, and that active groups share neither unit nor author
  (`Grouping`), is shown by a least text that contradicts it, since the induction theorems take an operator, which the provers
  cannot instantiate. It also shows that at most one group is in conflict with a row. None of the other properties is inductive
  alone; `ChangesInv` says together, while a commit runs too: a unit with pending changes shows the newest of them or a failure
  (`TargetInv`) and has a state on disk, but for missed units (`DiskInv`); rows that a commit still has to write are pending, later than
  what it wrote of their units, and justified by a change that qualifies, and the file shows the newest of what it wrote
  (`CommitInv`); whenever the file shows an older text than before, the newer one is pending, and a pending row that could bring
  that about has the newer one with it (`ShownInv`). `FinishRows` is the core: rows are applied up to what the file shows of
  their unit, and every other row stays, perhaps with its failure. If no row of a written unit stays, its text is the one in the
  file, by `TargetInv` and `CommitInv` together, which is why the state on disk may be dropped.
- `RepeatsProofs`: `TypeCorrect`, which includes that applied items name an event of their group; `NothingRepurchased`
  (`Spec => []NeverRepurchased`), `RunsFinalized` (`Spec => []RunsSettle`), `LaterWorkKept` (`Spec => UndoKeepsLaterWork`),
  `SettledItemsAreFinal` (`Spec => SettledItemsStay`), `OnlyReviewedText` (`Spec => ReviewedTextOnly`), `UndoneBatchesStop`
  (`Spec => UndoneBatchStops`). `PurchaseInv` makes the first inductive: sent attempts were transported once, an answer leaves its
  results, and what the plan in progress has read is what holds, but for the groups in `touched`, so that the commit cannot
  reserve a paid context outside `missed`. `RunsRight` says that a finalized run has the status of its attempts, `AuthorsKnown`
  that the revision a unit remembers is one of its group. `BatchInv` ties the batches together: a batch comes into being only
  for a fresh nonce, one worker is in the transaction of a batch, it holds the locks it needs and has seen what the units are,
  items froze the reviewed context, and an apply batch with an undo batch has ended but for an overtaken resume.
- `JudgeDeferralsProofs`: `TypeCorrect`; `OneHolder` (`Spec => []CallsExclusive`). The invariant is `LeaseInv`: what a drain holds
  (`held`) carries its token under a live lease, so that no claim of another drain finds it eligible and no late release of another
  drain frees it.

Each proof has the initial condition, a step per action and a temporal step. Every invariant and every action property that a
passing run checks is a theorem, as are both refinements of `SpendOnce`; `PaidOncePerRevision` and `UnsentIsProvable` have the
proviso named above. Only model-checked, since it is out of the provers' reach: liveness under fairness (`CallEnds`,
`OperationSettles`, `PendingIsCommitted`) and `ENABLED`. No module declares a RECURSIVE operator.

## 5. Not modelled

- Full-scope producer runs (`autotranslate.py`, `quality_execution.py`), the localization kit (`loc_kit.py`) and the repository lock
  (`utils/lock.py`) have concurrent behaviour of their own and no module. Their paid requests go through the journal, the batches and
  the deferrals above; the portions of the kit are single transactions that compare their fencing token first; that the lock
  excludes for longer than its expiry is a matter of real time.
- The rest of the repository is what TLC has nothing to say about: forms, serializers, views, file formats, checks, add-ons, version
  control backends and migrations are sequential conversions, or transactions of one request around external tools. They are
  by far most of its lines, which is why the share of the implementation that `map` covers stays small; it covers
  most of the lines of the modules in section 1.
- The parts that the components leave out are named with their modules in section 2 and in `PROJECT.json`.

What would come next: `LocKitUpdate` and `ProducerRun` as modules.
