---------------------------- MODULE MTOperation ----------------------------
(***************************************************************************)
(* Durable machine translation batches (weblate/trans/mt_operations.py):   *)
(* an HTTP request reserves empty unit revisions and a background run      *)
(* (weblate/api/producer/mt.py); the outbox of weblate/trans/tasks.py      *)
(* publishes the run to Celery; a worker takes a lease, pays the provider  *)
(* chunk by chunk through the delivery journal, saves every answer and     *)
(* applies it to the unit; the periodic drain revives what a dead worker   *)
(* left; reconciliation applies saved answers and releases what was never  *)
(* sent.  Meanwhile people edit units, revoke rights and cancel the run.   *)
(*                                                                         *)
(* One action is one database transaction, one message or one provider     *)
(* reply.  An operation owns one run, so Operations indexes both.          *)
(***************************************************************************)
EXTENDS Naturals, FiniteSets

CONSTANTS
    Units,               \* units of one translation
    Operations,          \* receipts that may be accepted, one per key
    Batches,             \* functions that give each receipt its units, or none
    Delegated,           \* receipts bound to a wizard delegation
    Workers,             \* Celery processes of the "translate" queue
    ChunkSize,           \* min(20, engine.batch_size)
    MaxDispatchAttempts, \* PRODUCER_RUN_DISPATCH_MAX_ATTEMPTS
    MaxMessages,         \* bound: messages of one run not acknowledged
    MaxEdits,            \* bound: edits of a unit or of its source
    MaxDisturbances,     \* bound: crashes, edits, revocations, cancels, ...
    Answers,             \* texts a provider may answer: "good", "long", ""
    None                 \* no worker, no operation, no result

ASSUME MTAssumption ==
    /\ Batches \subseteq [Operations -> SUBSET Units]
    /\ Delegated \subseteq Operations
    /\ ChunkSize \in Nat \ {0}
    /\ {MaxDispatchAttempts, MaxMessages, MaxEdits, MaxDisturbances} \subseteq Nat
    /\ IsFiniteSet(Units)
    /\ Answers \subseteq {"good", "long", ""}
    /\ None \notin Workers \cup Operations \cup {"good", "long", "", "missing", "unusable"}

VARIABLES
    unit,        \* Unit with its source unit
    batch,       \* the units each request names, never changed
    writable,    \* the component is unlocked, the translation not read-only
    authorized,  \* the actor may translate and its delegation is active
    operation,   \* ProducerMTOperation
    attempt,     \* ProducerMTUnitAttempt
    run,         \* ProducerRun of the operation
    broker,      \* messages of the run waiting in the queue
    publishing,  \* publish_producer_run_dispatch in progress
    cancelling,  \* a cancel request has read the run and not yet saved it
    call,        \* process_mt_operation in each worker
    journal,     \* ProducerLLMWork and its exchange, as SpendOnce promises
    transported, \* history: provider requests made for an attempt
    overwritten, \* history: a cancelled run became "failed" (CountFailure)
    disturbances \* bound: disturbances so far

env == <<batch, writable, authorized>>
rows == <<operation, run>>
outbox == <<broker, publishing, cancelling>>
history == <<transported, overwritten>>
spending == <<journal, history>>
vars == <<unit, env, rows, attempt, outbox, call, spending, disturbances>>

Edits == 0 .. MaxEdits

(* "empty" is state 0 without target; text stands for source, context and   *)
(* plurals; audit and source are compute_decision_revision of the unit and  *)
(* of its source unit, which every recorded change moves forward.           *)
UnitRow == [text : Edits, target : {"empty", "human", "machine"},
            audit : Nat, source : Edits]

Terminal == {"completed", "partial", "failed", "provider_unknown", "auth_required"}

OperationRow == [state : {"absent", "accepted", "running"} \cup Terminal,
                 owner : Workers \cup {None}, lease : {"none", "live", "expired"}]

RunRow == [status : {"queued", "running", "cancel_requested", "cancelled",
                     "completed", "partial", "failed"},
           published : BOOLEAN, attempts : Nat, error : BOOLEAN]

AttemptRow == [state : {"absent", "pending", "requesting", "received", "applied",
                        "skipped_nonempty", "stale", "failed",
                        "provider_unknown", "released"},
               answer : Answers \cup {""},
               text : Edits, audit : Nat, source : Edits]

(* identity of dispatch_exchange: the unit, the source revision the worker  *)
(* has in memory and the newest audit entry of the source.                  *)
Keys == Units \X Edits \X Edits

JournalRow == [stage : {"free", "claimed", "committed"}, members : SUBSET Keys,
               reply : Answers \cup {"missing", "unusable", None}]

Points == {"idle", "triage", "lookup", "chunk", "requesting", "dispatch", "claimed",
           "wait", "store", "apply", "applying", "finish", "finishing"}

(* Local state of a call: the policy it read last, the units still to do in *)
(* the current loop, those selected for the next one, the chunk that was    *)
(* requested, the part of it in flight, and what is known of it.            *)
Call == [pc : Points, op : Operations \cup {None}, permitted : BOOLEAN,
         todo : SUBSET Units, selected : SUBSET Units, chunk : SUBSET Units,
         group : SUBSET Keys, answers : [Units -> Answers \cup {None}],
         outcome : {"answered", "lost", "refused"}, paused : BOOLEAN,
         cancelled : BOOLEAN]

NoAnswers == [u \in Units |-> None]

NoCall == [pc |-> "idle", op |-> None, permitted |-> FALSE, todo |-> {},
           selected |-> {}, chunk |-> {}, group |-> {}, answers |-> NoAnswers,
           outcome |-> "answered", paused |-> FALSE, cancelled |-> FALSE]

TypeOK ==
    /\ unit \in [Units -> UnitRow]
    /\ batch \in Batches
    /\ writable \in BOOLEAN
    /\ authorized \in [Operations -> BOOLEAN]
    /\ operation \in [Operations -> OperationRow]
    /\ attempt \in [Operations -> [Units -> AttemptRow]]
    /\ run \in [Operations -> RunRow]
    /\ broker \in [Operations -> Nat]
    /\ publishing \in [Operations -> [step : {"idle", "sending", "sent", "raised"},
                                      current : BOOLEAN]]
    /\ cancelling \in [Operations -> BOOLEAN]
    /\ call \in [Workers -> Call]
    /\ journal \in [Keys -> JournalRow]
    /\ transported \in [Operations -> [Units -> Nat]]
    /\ overwritten \in [Operations -> BOOLEAN]
    /\ disturbances \in 0 .. MaxDisturbances

Init ==
    /\ unit = [u \in Units |-> [text |-> 0, target |-> "empty", audit |-> 0, source |-> 0]]
    /\ batch \in Batches
    /\ writable = TRUE
    /\ authorized = [o \in Operations |-> TRUE]
    /\ operation = [o \in Operations |-> [state |-> "absent", owner |-> None, lease |-> "none"]]
    /\ attempt = [o \in Operations |-> [u \in Units |->
                    [state |-> "absent", answer |-> "", text |-> 0, audit |-> 0, source |-> 0]]]
    /\ run = [o \in Operations |-> [status |-> "queued", published |-> FALSE,
                                    attempts |-> 0, error |-> FALSE]]
    /\ broker = [o \in Operations |-> 0]
    /\ publishing = [o \in Operations |-> [step |-> "idle", current |-> TRUE]]
    /\ cancelling = [o \in Operations |-> FALSE]
    /\ call = [w \in Workers |-> NoCall]
    /\ journal = [k \in Keys |-> [stage |-> "free", members |-> {}, reply |-> None]]
    /\ transported = [o \in Operations |-> [u \in Units |-> 0]]
    /\ overwritten = [o \in Operations |-> FALSE]
    /\ disturbances = 0
-----------------------------------------------------------------------------
(* Helpers.                                                                *)

States(o) == {attempt[o][u].state : u \in batch[o]}

(* _attempt_current, under the row locks of the unit and of its source.     *)
MutCurrent(a, u) == unit[u].target = "empty" /\ unit[u].text = a.text
Current(a, u) ==
    /\ unit[u].source = a.source
    /\ unit[u].target = "empty" /\ unit[u].text = a.text
    /\ unit[u].audit = a.audit

Cancelled(o) == run[o].status \in {"cancel_requested", "cancelled"}

Permitted(o) == authorized[o] /\ writable

(* A transaction that requests, applies or ends reads the run, the          *)
(* component and the delegation without their row locks and commits later;  *)
(* it keeps the row of the operation locked, and a lease that runs out      *)
(* meanwhile is seen by nobody before it commits.                           *)
Writing == {"requesting", "applying"}
Unlocked(o) == \A w \in Workers : call[w].op = o => call[w].pc \notin Writing \cup {"finishing"}

(* _owned: the transaction of a live lease owner, else RuntimeError.        *)
MutOwned(w) == operation[call[w].op].lease = "live"
Owned(w) ==
    /\ operation[call[w].op].owner = w
    /\ operation[call[w].op].lease = "live"

At(w, point) == call[w].pc = point

InTransaction(w) == Owned(w) /\ Unlocked(call[w].op)

(* The key dispatch_exchange gets now for a unit of this call.              *)
Key(w, u) == <<u, attempt[call[w].op][u].source, unit[u].source>>

Disturb == disturbances < MaxDisturbances /\ disturbances' = disturbances + 1

SetState(o, u, state) == attempt' = [attempt EXCEPT ![o][u].state = state]

(* Messages published and not acknowledged.                                 *)
InFlight(o) == broker[o] + Cardinality({w \in Workers : call[w].op = o})
-----------------------------------------------------------------------------
(* POST mt/batches.                                                        *)

(* No attempt that was not released holds this revision of the unit.        *)
Reservable(u) ==
    \A o \in Operations : attempt[o][u].state \in {"absent", "released"}
                          \/ attempt[o][u].text # unit[u].text

Accept(o) ==
    /\ operation[o].state = "absent"
    /\ Permitted(o)
    /\ batch[o] # {}
    /\ \A u \in batch[o] : unit[u].target = "empty" /\ Reservable(u)
    /\ operation' = [operation EXCEPT ![o].state = "accepted"]
    /\ attempt' = [attempt EXCEPT ![o] = [u \in Units |->
                     IF u \notin batch[o] THEN @[u]
                     ELSE [state |-> "pending", answer |-> "", text |-> unit[u].text,
                           audit |-> unit[u].audit, source |-> unit[u].source]]]
    /\ UNCHANGED <<unit, env, run, outbox, call, spending, disturbances>>

(* _retryable_dispatch: the same key sent again revives a run the broker    *)
(* never took.                                                              *)
Retryable(o) ==
    /\ run[o].status = "failed" /\ ~run[o].published /\ run[o].error
    /\ States(o) = {"pending"}

RetryDispatch(o) ==
    /\ Retryable(o)
    /\ run' = [run EXCEPT ![o] = [@ EXCEPT !.status = "queued", !.attempts = 0, !.error = FALSE]]
    /\ UNCHANGED <<unit, env, operation, attempt, outbox, call, spending, disturbances>>

(* ProducerRunCancel reads the run without a lock and saves its status.     *)
CancelReads(o) ==
    /\ Disturb
    /\ operation[o].state # "absent" /\ ~cancelling[o]
    /\ run[o].status \in {"queued", "running"}
    /\ cancelling' = [cancelling EXCEPT ![o] = TRUE]
    /\ UNCHANGED <<unit, env, rows, attempt, broker, publishing, call, spending>>

CancelSaves(o) ==
    /\ cancelling[o]
    /\ run' = [run EXCEPT ![o].status = "cancel_requested"]
    /\ cancelling' = [cancelling EXCEPT ![o] = FALSE]
    /\ UNCHANGED <<unit, env, operation, attempt, broker, publishing, call, spending, disturbances>>
-----------------------------------------------------------------------------
(* publish_producer_run_dispatch, called on commit and by the drain.       *)

PublishBegins(o) ==
    /\ operation[o].state # "absent" /\ publishing[o].step = "idle"
    /\ run[o].status = "queued" /\ ~run[o].published
    /\ InFlight(o) < MaxMessages
    /\ publishing' = [publishing EXCEPT ![o] = [step |-> "sending", current |-> TRUE]]
    /\ UNCHANGED <<unit, env, rows, attempt, broker, cancelling, call, spending, disturbances>>

BrokerAccepts(o) ==
    /\ publishing[o].step = "sending"
    /\ broker' = [broker EXCEPT ![o] = @ + 1]
    /\ publishing' = [publishing EXCEPT ![o].step = "sent"]
    /\ UNCHANGED <<unit, env, rows, attempt, cancelling, call, spending, disturbances>>

(* apply_async raises; the broker may have taken the message all the same.  *)
BrokerFails(o) ==
    /\ Disturb
    /\ publishing[o].step = "sending"
    /\ broker' \in {broker, [broker EXCEPT ![o] = @ + 1]}
    /\ publishing' = [publishing EXCEPT ![o].step = "raised"]
    /\ UNCHANGED <<unit, env, rows, attempt, cancelling, call, spending>>

PublishEnds(o) == publishing' = [publishing EXCEPT ![o] = [step |-> "idle", current |-> TRUE]]

(* The conditional UPDATE: the same task id and still unpublished.          *)
MarkPublished(o) ==
    /\ publishing[o].step = "sent"
    /\ PublishEnds(o)
    /\ run' = IF publishing[o].current /\ ~run[o].published
              THEN [run EXCEPT ![o] = [@ EXCEPT !.published = TRUE, !.error = FALSE]] ELSE run
    /\ UNCHANGED <<unit, env, operation, attempt, broker, cancelling, call, spending, disturbances>>

CountedFailure(r) ==
    [r EXCEPT !.attempts = @ + 1, !.error = TRUE,
              !.status = IF r.attempts + 1 >= MaxDispatchAttempts THEN "failed" ELSE @]

CountFailure(o) ==
    /\ publishing[o].step = "raised"
    /\ PublishEnds(o)
    /\ run' = IF publishing[o].current /\ ~run[o].published
              THEN [run EXCEPT ![o] = CountedFailure(@)] ELSE run
    /\ overwritten' = [overwritten EXCEPT ![o] = @ \/ (Cancelled(o) /\ run'[o].status = "failed")]
    /\ UNCHANGED <<unit, env, operation, attempt, broker, cancelling, call, journal, transported, disturbances>>

(* The publisher dies: a sent message stays unmarked and is sent again.     *)
PublisherDies(o) ==
    /\ Disturb
    /\ publishing[o].step # "idle"
    /\ PublishEnds(o)
    /\ UNCHANGED <<unit, env, rows, attempt, broker, cancelling, call, spending>>

(* recover_expired_mt_operations.  A new task id makes a publisher that is  *)
(* under way obsolete.                                                      *)
NewTask(o) ==
    publishing' = [publishing EXCEPT ![o].current = publishing[o].step = "idle"]

MutRecoverable(o) ==
    /\ operation[o].state = "running" /\ operation[o].lease = "expired"
    /\ run[o].status = "queued"
Recoverable(o) ==
    /\ operation[o].state = "running" /\ operation[o].lease = "expired"
    /\ run[o].status \in {"queued", "running"}

RecoverExpired(o) ==
    /\ Unlocked(o)
    /\ Recoverable(o)
    /\ operation' = [operation EXCEPT ![o] = [@ EXCEPT !.owner = None, !.lease = "none"]]
    /\ run' = [run EXCEPT ![o] = [@ EXCEPT !.status = "queued", !.published = FALSE]]
    /\ NewTask(o)
    /\ UNCHANGED <<unit, env, attempt, broker, cancelling, call, spending, disturbances>>

(* Published more than 600 seconds ago and never started.                   *)
Reoffer(o) ==
    /\ Unlocked(o)
    /\ operation[o].state = "accepted" /\ States(o) = {"pending"}
    /\ run[o].status = "queued" /\ run[o].published
    /\ run' = [run EXCEPT ![o].published = FALSE]
    /\ NewTask(o)
    /\ UNCHANGED <<unit, env, operation, attempt, broker, cancelling, call, spending, disturbances>>
-----------------------------------------------------------------------------
(* process_mt_operation: taking a message and the lease.                   *)

Continue(w, next) == call' = [call EXCEPT ![w] = next]

Goto(w, point) == Continue(w, [call[w] EXCEPT !.pc = point])

(* The call returns or raises; Celery acknowledges the message.             *)
Leave(w) == Continue(w, NoCall)

Receive(w, o) ==
    /\ At(w, "idle")
    /\ broker[o] > 0 /\ Unlocked(o)
    /\ broker' = [broker EXCEPT ![o] = @ - 1]

MutHasNothingToDo(o) == ~Cancelled(o) /\ operation[o].lease = "live"
HasNothingToDo(o) ==
    \/ operation[o].state \in Terminal
    \/ run[o].status \in {"failed", "completed", "partial"}
    \/ ~Cancelled(o) /\ operation[o].lease = "live"

DropMessage(w, o) ==
    /\ Receive(w, o)
    /\ HasNothingToDo(o)
    /\ UNCHANGED <<unit, env, rows, attempt, publishing, cancelling, call, spending, disturbances>>

EndCancelled(w, o) ==
    /\ Receive(w, o)
    /\ operation[o].state \notin Terminal /\ Cancelled(o)
    /\ operation' = [operation EXCEPT ![o].state = "failed"]
    /\ attempt' = [attempt EXCEPT ![o] = [u \in Units |->
                     IF @[u].state = "pending" THEN [@[u] EXCEPT !.state = "failed"] ELSE @[u]]]
    /\ run' = [run EXCEPT ![o].status = "cancelled"]
    /\ UNCHANGED <<unit, env, publishing, cancelling, call, spending, disturbances>>

(* The lease is taken and the policy is read once.                          *)
TakeLease(w, o) ==
    /\ Receive(w, o)
    /\ ~HasNothingToDo(o) /\ ~Cancelled(o)
    /\ operation' = [operation EXCEPT ![o] = [state |-> "running", owner |-> w, lease |-> "live"]]
    /\ run' = [run EXCEPT ![o].status = "running"]
    /\ Continue(w, [NoCall EXCEPT !.pc = "triage", !.op = o, !.todo = batch[o],
                                  !.permitted = Permitted(o),
                                  !.paused = o \in Delegated /\ ~Permitted(o)])
    /\ UNCHANGED <<unit, env, attempt, publishing, cancelling, spending, disturbances>>
-----------------------------------------------------------------------------
(* The selection loop, one unit per transaction.                           *)

Settled == {"applied", "skipped_nonempty", "stale", "failed", "provider_unknown", "released"}

(* What a worker does with an attempt it may no longer serve.               *)
Obsolete(a, u) == unit[u].target # "empty" \/ ~Current(a, u)

MutClosed(u) == IF unit[u].target # "empty" THEN "skipped" ELSE "stale"
Closed(u) == IF unit[u].target # "empty" THEN "skipped_nonempty" ELSE "stale"

(* What was selected is looked up next.                                     *)
Triaged(w, u, selected) ==
    LET left == call[w].todo \ {u} IN
    Continue(w, IF left # {} THEN [call[w] EXCEPT !.todo = left, !.selected = selected]
                ELSE [call[w] EXCEPT !.todo = selected, !.selected = {},
                        !.pc = IF selected = {} THEN "chunk" ELSE "lookup"])

InTriage(w, u) ==
    /\ At(w, "triage") /\ u \in call[w].todo
    /\ InTransaction(w)

TriageKeeps(w, u) ==
    LET o == call[w].op
        a == attempt[o][u] IN
    /\ InTriage(w, u)
    /\ \/ a.state \in Settled
       \/ /\ ~Obsolete(a, u) /\ ~call[w].permitted
          /\ o \in Delegated /\ ~Cancelled(o)
    /\ Triaged(w, u, call[w].selected)
    /\ UNCHANGED <<unit, env, rows, attempt, outbox, spending, disturbances>>

TriageCloses(w, u) ==
    LET o == call[w].op
        a == attempt[o][u] IN
    /\ InTriage(w, u)
    /\ a.state \notin Settled
    /\ \/ Obsolete(a, u) /\ SetState(o, u, Closed(u))
       \/ /\ ~Obsolete(a, u)
          /\ Cancelled(o) \/ (~call[w].permitted /\ o \notin Delegated)
          /\ SetState(o, u, "failed")
    /\ Triaged(w, u, call[w].selected)
    /\ UNCHANGED <<unit, env, rows, outbox, spending, disturbances>>

Selectable(w, u) ==
    LET o == call[w].op
        a == attempt[o][u] IN
    /\ a.state \notin Settled /\ ~Obsolete(a, u)
    /\ call[w].permitted /\ ~Cancelled(o)

TriageSelects(w, u) ==
    /\ InTriage(w, u)
    /\ Selectable(w, u)
    /\ Triaged(w, u, call[w].selected \cup {u})
    /\ UNCHANGED <<unit, env, rows, attempt, outbox, spending, disturbances>>
-----------------------------------------------------------------------------
(* The second loop looks for saved, cached and lost answers of what was     *)
(* selected, one unit per transaction.  It reads the attempt again, and     *)
(* looks neither at its state, nor at the unit, nor for a cancellation.     *)

LookedUp(w, u, selected) ==
    LET left == call[w].todo \ {u}
    IN Continue(w, [call[w] EXCEPT !.todo = left, !.selected = selected,
                                   !.pc = IF left = {} THEN "chunk" ELSE "lookup"])

InLookup(w, u) ==
    /\ At(w, "lookup") /\ u \in call[w].todo
    /\ InTransaction(w)

(* A saved answer, or a free one of the machinery cache.  A blank answer is *)
(* no saved answer.                                                         *)
LookupFinds(w, u) ==
    LET o == call[w].op
        a == attempt[o][u] IN
    /\ InLookup(w, u)
    /\ \E b \in IF a.answer # "" THEN {a.answer} ELSE Answers :
          attempt' = [attempt EXCEPT ![o][u] = [@ EXCEPT !.state = "received", !.answer = b]]
    /\ LookedUp(w, u, call[w].selected)
    /\ UNCHANGED <<unit, env, rows, outbox, spending, disturbances>>

(* "Redelivery cannot tell an unpaid request from a paid lost reply."       *)
MutLostRequest(a) == a.state = "provider_unknown"
LostRequest(a) == a.state = "requesting"

LookupMisses(w, u) ==
    LET o == call[w].op
        a == attempt[o][u] IN
    /\ InLookup(w, u)
    /\ a.answer = ""
    /\ IF LostRequest(a)
       THEN SetState(o, u, "provider_unknown") /\ LookedUp(w, u, call[w].selected)
       ELSE LookedUp(w, u, call[w].selected \cup {u}) /\ UNCHANGED attempt
    /\ UNCHANGED <<unit, env, rows, outbox, spending, disturbances>>
-----------------------------------------------------------------------------
(* _receive_pending: one chunk is authorized, requested and stored.         *)

AllReceived(w) ==
    /\ At(w, "chunk")
    /\ call[w].selected = {}
    /\ Goto(w, "apply")
    /\ UNCHANGED <<unit, env, rows, attempt, outbox, spending, disturbances>>

ChunkStops(w) ==
    LET o == call[w].op IN
    /\ At(w, "chunk")
    /\ call[w].selected # {} /\ InTransaction(w)
    /\ Cancelled(o) \/ (o \in Delegated /\ ~Permitted(o))
    /\ Continue(w, [call[w] EXCEPT !.pc = "apply", !.paused = ~Cancelled(o)])
    /\ UNCHANGED <<unit, env, rows, attempt, outbox, spending, disturbances>>

(* The cancellation and the policy are read, one after the other ...        *)
ChunkReads(w) ==
    LET o == call[w].op IN
    /\ At(w, "chunk")
    /\ call[w].selected # {} /\ InTransaction(w)
    /\ ~Cancelled(o) /\ (o \in Delegated => Permitted(o))
    /\ Continue(w, [call[w] EXCEPT !.pc = "requesting", !.permitted = Permitted(o)])
    /\ UNCHANGED <<unit, env, rows, attempt, outbox, spending, disturbances>>

Requested(w, u) ==
    IF Obsolete(attempt[call[w].op][u], u) THEN Closed(u)
    ELSE IF call[w].permitted THEN "requesting" ELSE "failed"

ChunkOf(selected, chunk) ==
    /\ chunk \subseteq selected /\ chunk # {}
    /\ Cardinality(chunk) <= ChunkSize
    /\ Cardinality(chunk) < ChunkSize => chunk = selected

(* ... and the attempts of the chunk are committed, whatever was saved      *)
(* meanwhile.                                                               *)
RequestChunk(w, chunk) ==
    LET o == call[w].op
        requesting == {u \in chunk : Requested(w, u) = "requesting"} IN
    /\ At(w, "requesting")
    /\ ChunkOf(call[w].selected, chunk)
    /\ attempt' = [attempt EXCEPT ![o] = [u \in Units |->
                     IF u \in chunk THEN [@[u] EXCEPT !.state = Requested(w, u)] ELSE @[u]]]
    /\ Continue(w, [call[w] EXCEPT !.selected = @ \ chunk, !.chunk = requesting,
                                   !.todo = requesting, !.answers = NoAnswers,
                                   !.pc = IF requesting = {} THEN "chunk" ELSE "dispatch"])
    /\ UNCHANGED <<unit, env, rows, outbox, spending, disturbances>>

(* The engine sends the context groups of the chunk one after the other.    *)
(* The journal reserves a group; guard_paid_run looks at the delegation.    *)
GuardRefuses(w) ==
    /\ At(w, "dispatch")
    /\ call[w].op \in Delegated /\ ~authorized[call[w].op]
    /\ Continue(w, [call[w] EXCEPT !.pc = "store", !.todo = call[w].chunk, !.outcome = "refused"])
    /\ UNCHANGED <<unit, env, rows, attempt, outbox, spending, disturbances>>

KeysOf(w, units) == {Key(w, u) : u \in units}

(* reserve_exchange: free work, or the same batch reserved and never sent.  *)
MutMayClaim(keys) == TRUE
MayClaim(keys) ==
    \A k \in keys : \/ journal[k].stage = "free"
                   \/ (journal[k].stage = "claimed" /\ journal[k].members = keys)

Dispatches(w, units) ==
    /\ At(w, "dispatch")
    /\ units \subseteq call[w].todo /\ units # {}
    /\ call[w].op \in Delegated => authorized[call[w].op]

Claim(w, units) ==
    /\ Dispatches(w, units)
    /\ MayClaim(KeysOf(w, units))
    /\ journal' = [k \in Keys |-> IF k \notin KeysOf(w, units) THEN journal[k]
                     ELSE [stage |-> "claimed", members |-> KeysOf(w, units), reply |-> None]]
    /\ Continue(w, [call[w] EXCEPT !.pc = "claimed", !.group = KeysOf(w, units), !.todo = @ \ units])
    /\ UNCHANGED <<unit, env, rows, attempt, outbox, history, disturbances>>

GroupUnits(w) == {k[1] : k \in call[w].group}

(* The exchange is committed to "sending" by a conditional UPDATE and the    *)
(* request leaves; an exchange that another call sent refuses (CallRaises).  *)
Transport(w) ==
    LET o == call[w].op IN
    /\ At(w, "claimed")
    /\ \A k \in call[w].group : journal[k].stage = "claimed"
    /\ journal' = [k \in Keys |-> IF k \in call[w].group
                     THEN [journal[k] EXCEPT !.stage = "committed"] ELSE journal[k]]
    /\ transported' = [transported EXCEPT ![o] = [u \in Units |->
                         IF u \in GroupUnits(w) THEN @[u] + 1 ELSE @[u]]]
    /\ Goto(w, "wait")
    /\ UNCHANGED <<unit, env, rows, attempt, outbox, overwritten, disturbances>>

SaveReplies(w, reply) ==
    journal' = [k \in Keys |-> IF k \in call[w].group
                 THEN [journal[k] EXCEPT !.reply = reply[k[1]]] ELSE journal[k]]

(* The answers of a group are known; the next group, or the storage, is next. *)
GroupAnswered(w, units, left, reply) ==
    Continue(w, [call[w] EXCEPT
        !.answers = [u \in Units |-> IF u \in units /\ reply[u] \in Answers
                                     THEN reply[u] ELSE @[u]],
        !.group = {},
        !.pc = IF left = {} THEN "store" ELSE "dispatch",
        !.todo = IF left = {} THEN call[w].chunk ELSE left])

Reply(w, reply) ==
    /\ At(w, "wait")
    /\ SaveReplies(w, reply)
    /\ GroupAnswered(w, GroupUnits(w), call[w].todo, reply)
    /\ UNCHANGED <<unit, env, rows, attempt, outbox, history, disturbances>>

(* The journal knows the reply of this very batch: nothing is sent.         *)
Replayable(keys) ==
    \A k \in keys : /\ journal[k].stage = "committed" /\ journal[k].members = keys
                    /\ journal[k].reply \notin {None, "unusable"}

ReplaySaved(w, units) ==
    /\ Dispatches(w, units)
    /\ Replayable(KeysOf(w, units))
    /\ GroupAnswered(w, units, call[w].todo \ units,
                     [u \in units |-> journal[Key(w, u)].reply])
    /\ UNCHANGED <<unit, env, rows, attempt, outbox, spending, disturbances>>

(* The call raises: nothing comes back, the provider refuses or its reply   *)
(* cannot be parsed (it is saved all the same), or the engine stops before  *)
(* a request.                                                               *)
CallRaises(w) ==
    /\ call[w].pc \in {"dispatch", "claimed", "wait"}
    /\ \/ UNCHANGED journal
       \/ At(w, "wait") /\ SaveReplies(w, [u \in GroupUnits(w) |-> "unusable"])
    /\ Continue(w, [call[w] EXCEPT !.pc = "store", !.todo = call[w].chunk, !.group = {},
                                   !.outcome = "lost"])
    /\ UNCHANGED <<unit, env, rows, attempt, outbox, history, disturbances>>

(* Without an answer: only the absence of a work proves that a refused unit *)
(* was not sent.                                                            *)
MutUnanswered(w, u) ==
    IF call[w].outcome = "refused" THEN "pending"
    ELSE IF call[w].outcome = "answered" THEN "failed" ELSE "provider_unknown"
Unanswered(w, u) ==
    IF call[w].outcome = "answered" THEN "failed"
    ELSE IF call[w].outcome = "refused" /\ journal[Key(w, u)].stage = "free" THEN "pending"
    ELSE "provider_unknown"

(* After an exception the answers of the groups that succeeded come from    *)
(* the cache, if it still has them.                                         *)
StoreAnswer(w, u) ==
    LET o == call[w].op
        left == call[w].todo \ {u} IN
    /\ At(w, "store") /\ u \in call[w].todo
    /\ InTransaction(w)
    /\ \E b \in {call[w].answers[u]} \cup (IF call[w].outcome = "answered" THEN {} ELSE {None}) :
          attempt' = [attempt EXCEPT ![o][u] =
             IF b \in Answers THEN [@ EXCEPT !.state = "received", !.answer = b]
             ELSE [@ EXCEPT !.state = Unanswered(w, u)]]
    /\ Continue(w, IF left # {} THEN [call[w] EXCEPT !.todo = left]
                   ELSE [call[w] EXCEPT !.todo = {}, !.chunk = {}, !.answers = NoAnswers,
                           !.pc = IF call[w].outcome = "answered" THEN "chunk" ELSE "apply",
                           !.paused = call[w].outcome = "refused",
                           !.outcome = "answered"])
    /\ UNCHANGED <<unit, env, rows, outbox, spending, disturbances>>
-----------------------------------------------------------------------------
(* The apply loop and the final transaction.                               *)

Received(o) == {u \in batch[o] : attempt[o][u].state = "received"}

InApply(w) ==
    /\ At(w, "apply")
    /\ Received(call[w].op) # {} /\ InTransaction(w)

Pauses(w) ==
    call[w].op \in Delegated /\ (call[w].paused \/ ~authorized[call[w].op])

(* "The answer stays private and durable; cancellation never applies it."   *)
MutStops(w) == Pauses(w)
Stops(w) == Cancelled(call[w].op) \/ Pauses(w)

ApplyStops(w) ==
    /\ InApply(w)
    /\ Stops(w)
    /\ Continue(w, [call[w] EXCEPT !.pc = "finish",
                                   !.paused = @ \/ ~Cancelled(call[w].op)])
    /\ UNCHANGED <<unit, env, rows, attempt, outbox, spending, disturbances>>

ApplyReads(w) ==
    /\ InApply(w)
    /\ ~Stops(w)
    /\ Continue(w, [call[w] EXCEPT !.pc = "applying", !.permitted = Permitted(call[w].op)])
    /\ UNCHANGED <<unit, env, rows, attempt, outbox, spending, disturbances>>

Usable(a) == a.answer = "good"

Translated(r) == [r EXCEPT !.target = "machine", !.audit = @ + 1]

Serves(w, u) == At(w, "applying") /\ u \in Received(call[w].op)

Apply(w, u) ==
    LET o == call[w].op
        a == attempt[o][u] IN
    /\ Serves(w, u)
    /\ ~Obsolete(a, u) /\ call[w].permitted /\ Usable(a)
    /\ unit' = [unit EXCEPT ![u] = Translated(@)]
    /\ SetState(o, u, "applied")
    /\ Goto(w, "apply")
    /\ UNCHANGED <<env, rows, outbox, spending, disturbances>>

(* Also when the rights are gone at a second look, or the save left the     *)
(* target empty.                                                            *)
ApplyRefused(w, u) ==
    LET o == call[w].op
        a == attempt[o][u] IN
    /\ Serves(w, u)
    /\ SetState(o, u, IF Obsolete(a, u) THEN Closed(u) ELSE "failed")
    /\ Goto(w, "apply")
    /\ UNCHANGED <<unit, env, rows, outbox, spending, disturbances>>

AllApplied(w) ==
    /\ At(w, "apply")
    /\ Received(call[w].op) = {}
    /\ Goto(w, "finish")
    /\ UNCHANGED <<unit, env, rows, attempt, outbox, spending, disturbances>>

(* The final transaction locks the operation and reads the run without a    *)
(* lock ...                                                                 *)
FinishReads(w) ==
    /\ At(w, "finish")
    /\ InTransaction(w)
    /\ Continue(w, [call[w] EXCEPT !.pc = "finishing", !.cancelled = Cancelled(call[w].op)])
    /\ UNCHANGED <<unit, env, rows, attempt, outbox, spending, disturbances>>

MutFinalState(states) ==
    IF "provider_unknown" \in states THEN "provider_unknown"
    ELSE IF "pending" \notin states THEN "completed" ELSE "partial"
FinalState(states) ==
    IF "provider_unknown" \in states THEN "provider_unknown"
    ELSE IF states \subseteq {"applied", "skipped_nonempty"} THEN "completed"
    ELSE "partial"

OperationEnd(w) ==
    IF call[w].cancelled THEN "failed"
    ELSE IF call[w].paused THEN "auth_required"
    ELSE FinalState(States(call[w].op))

(* ... and overwrites its status.                                           *)
FinishWrites(w) ==
    LET o == call[w].op IN
    /\ At(w, "finishing")
    /\ operation' = [operation EXCEPT ![o] =
                       [state |-> OperationEnd(w), owner |-> None, lease |-> "none"]]
    /\ run' = [run EXCEPT ![o].status =
                 IF call[w].cancelled THEN "cancelled"
                 ELSE IF OperationEnd(w) = "completed" THEN "completed" ELSE "partial"]
    /\ Leave(w)
    /\ UNCHANGED <<unit, env, attempt, outbox, spending, disturbances>>

(* "MT operation ownership changed".                                        *)
OwnershipLost(w) ==
    /\ call[w].pc \in {"triage", "lookup", "chunk", "store", "apply", "finish"}
    /\ At(w, "chunk") => call[w].selected # {}
    /\ At(w, "apply") => Received(call[w].op) # {}
    /\ Unlocked(call[w].op) /\ ~Owned(w)
    /\ Leave(w)
    /\ UNCHANGED <<unit, env, rows, attempt, outbox, spending, disturbances>>

(* acks_late and reject_on_worker_lost: the message returns to the queue.   *)
Crash(w) ==
    /\ Disturb
    /\ ~At(w, "idle")
    /\ broker' = [broker EXCEPT ![call[w].op] = @ + 1]
    /\ Leave(w)
    /\ UNCHANGED <<unit, env, rows, attempt, publishing, cancelling, spending>>

(* 600 seconds pass.  While its owner still works it is a slow worker.      *)
LeaseExpires(o) ==
    /\ operation[o].lease = "live"
    /\ Unlocked(o)
    /\ IF \E w \in Workers : call[w].op = o /\ operation[o].owner = w
       THEN Disturb ELSE UNCHANGED disturbances
    /\ operation' = [operation EXCEPT ![o].lease = "expired"]
    /\ UNCHANGED <<unit, env, run, attempt, outbox, call, spending>>
-----------------------------------------------------------------------------
(* reconcile_mt_operation: no provider call, one transaction.              *)

Active(o) == operation[o].state \notin Terminal \/ operation[o].lease = "live"

FreshKey(u) == <<u, unit[u].source, unit[u].source>>

Unresolved == {"requesting", "provider_unknown", "failed"}

(* _recover_saved_bodies: exchanges of a current unresolved attempt whose   *)
(* members all still have the source they were sent with, parsed again.     *)
Reread(o) ==
    {k \in Keys :
        /\ journal[k].stage # "free" /\ Replayable(journal[k].members)
        /\ \A m \in journal[k].members : m = FreshKey(m[1])
        /\ \E u \in batch[o] : /\ FreshKey(u) \in journal[k].members
                               /\ attempt[o][u].state \in Unresolved
                               /\ Current(attempt[o][u], u)}

Recovered(o, u) ==
    LET a == attempt[o][u]
        k == FreshKey(u) IN
    IF /\ a.state \in Unresolved /\ a.audit = unit[u].audit
       /\ k \in Reread(o) /\ journal[k].reply \in Answers
    THEN [a EXCEPT !.state = "received", !.answer = journal[k].reply] ELSE a

(* Coverage first: a filled or changed unit keeps its attempt.  What was    *)
(* never sent is released, a saved answer is applied.                       *)
Reconciled(a, u) ==
    IF Obsolete(a, u) THEN a
    ELSE IF a.state \in {"pending", "released"} THEN [a EXCEPT !.state = "released"]
    ELSE IF a.state = "received" /\ Usable(a) THEN [a EXCEPT !.state = "applied"]
    ELSE a

(* renew: the wizard's current delegation of the same actor replaces the    *)
(* old one; replay: the engine's configuration is unchanged.  While the     *)
(* receipt is not open nothing else changes.                                *)
Reconcile(o, renew, replay) ==
    LET open == /\ (authorized[o] \/ renew) /\ writable
                /\ ~Cancelled(o) /\ ~Active(o)
        found == [u \in Units |-> IF replay THEN Recovered(o, u) ELSE attempt[o][u]]
        after == [u \in Units |-> IF u \in batch[o] THEN Reconciled(found[u], u)
                                  ELSE found[u]] IN
    /\ operation[o].state # "absent" /\ Unlocked(o)
    /\ renew => o \in Delegated
    /\ open \/ renew
    /\ authorized' = [authorized EXCEPT ![o] = @ \/ renew]
    /\ attempt' = IF open THEN [attempt EXCEPT ![o] = after] ELSE attempt
    /\ unit' = [u \in Units |->
                  IF open /\ after[u].state = "applied" /\ found[u].state = "received"
                  THEN Translated(unit[u]) ELSE unit[u]]
    /\ UNCHANGED <<batch, writable, rows, outbox, call, spending, disturbances>>
-----------------------------------------------------------------------------
(* Other people.  Only what some request names is of interest.             *)

Edited(u, row) ==
    /\ Disturb
    /\ \E o \in Operations : u \in batch[o]
    /\ unit' = [unit EXCEPT ![u] = row]
    /\ UNCHANGED <<env, rows, attempt, outbox, call, spending>>

HumanEdits(u) ==
    \E target \in {"empty", "human"} \ {unit[u].target} :
        Edited(u, [unit[u] EXCEPT !.target = target, !.audit = @ + 1])

(* The source string changes, or only gets a new audit entry.               *)
SourceChanges(u) ==
    /\ unit[u].source < MaxEdits
    /\ \/ Edited(u, [unit[u] EXCEPT !.source = @ + 1, !.audit = @ + 1, !.text = @ + 1])
       \/ Edited(u, [unit[u] EXCEPT !.source = @ + 1])

RightsChange(o) ==
    /\ Disturb
    /\ batch[o] # {}
    /\ o \in Delegated => authorized[o]
    /\ authorized' = [authorized EXCEPT ![o] = ~@]
    /\ UNCHANGED <<unit, batch, writable, rows, attempt, outbox, call, spending>>

ComponentLockToggles ==
    /\ Disturb
    /\ writable' = ~writable
    /\ UNCHANGED <<unit, batch, authorized, rows, attempt, outbox, call, spending>>
-----------------------------------------------------------------------------
Publish(o) ==
    \/ PublishBegins(o) \/ BrokerAccepts(o) \/ MarkPublished(o) \/ CountFailure(o)

Drain(o) == RecoverExpired(o) \/ Reoffer(o)

Take(w) == \E o \in Operations : DropMessage(w, o) \/ EndCancelled(w, o) \/ TakeLease(w, o)

Triage(w) ==
    \E u \in Units : \/ TriageKeeps(w, u) \/ TriageCloses(w, u) \/ TriageSelects(w, u)
                     \/ LookupFinds(w, u) \/ LookupMisses(w, u)

Ask(w) ==
    \/ AllReceived(w) \/ ChunkStops(w) \/ ChunkReads(w) \/ GuardRefuses(w) \/ Transport(w) \/ CallRaises(w)
    \/ \E units \in SUBSET Units :
          RequestChunk(w, units) \/ Claim(w, units) \/ ReplaySaved(w, units)
    \/ \E reply \in [GroupUnits(w) -> Answers \cup {"missing"}] : Reply(w, reply)
    \/ \E u \in Units : StoreAnswer(w, u)

Finish(w) ==
    \/ ApplyStops(w) \/ ApplyReads(w) \/ AllApplied(w) \/ FinishReads(w) \/ FinishWrites(w)
    \/ \E u \in Units : Apply(w, u) \/ ApplyRefused(w, u)

(* What a live worker does.                                                 *)
Step(w) == Take(w) \/ Triage(w) \/ Ask(w) \/ Finish(w) \/ OwnershipLost(w)

Next ==
    \/ \E w \in Workers : Step(w) \/ Crash(w)
    \/ \E o \in Operations :
          \/ Accept(o) \/ RetryDispatch(o) \/ CancelReads(o) \/ CancelSaves(o)
          \/ Publish(o) \/ BrokerFails(o) \/ PublisherDies(o) \/ Drain(o)
          \/ LeaseExpires(o) \/ RightsChange(o)
          \/ \E renew, replay \in BOOLEAN : Reconcile(o, renew, replay)
    \/ \E u \in Units : HumanEdits(u) \/ SourceChanges(u)
    \/ ComponentLockToggles

Spec == Init /\ [][Next]_vars

(* Celery workers and the periodic drain keep running, a queue is served,   *)
(* an open HTTP request ends and time passes; crashes, broker failures and  *)
(* edits are not fair.                                                      *)
Fairness ==
    /\ \A w \in Workers : WF_vars(Step(w))
    /\ \A o \in Operations :
          /\ WF_vars(Publish(o)) /\ WF_vars(Drain(o)) /\ WF_vars(LeaseExpires(o))
          /\ WF_vars(CancelSaves(o))

FairSpec == Spec /\ Fairness
-----------------------------------------------------------------------------
(* What a batch promises.                                                  *)

(* "A revision can have at most one paid intent, including across request   *)
(* keys" (ProducerMTUnitAttempt): whatever is redelivered, recovered,       *)
(* released or submitted again, a unit revision is transported once.        *)
PaidOncePerRevision ==
    \A u \in Units : \A o, p \in Operations :
        /\ transported[o][u] <= 1
        /\ o # p /\ transported[o][u] + transported[p][u] > 1 =>
              attempt[o][u].text # attempt[p][u].text

(* "Only a terminal, released, provably unsent intent can enter a new paid  *)
(* batch" (docs/api.rst): a released attempt was never sent, and neither    *)
(* was a pending one that reconciliation could release now.                 *)
UnsentIsProvable ==
    \A o \in Operations : \A u \in Units :
        LET a == attempt[o][u] IN
        a.state = "released" \/ (a.state = "pending" /\ Current(a, u)) =>
            transported[o][u] = 0

(* A worker or a reconciliation only fills an empty target, only for the    *)
(* very text, audit and source revisions that were reserved, and only with  *)
(* the good answer of that attempt, whatever was edited since the request.  *)
AppliesOnlyReserved ==
    [][ \A u \in Units : unit[u].target # "machine" /\ unit'[u].target = "machine" =>
          \E o \in Operations :
             /\ unit[u].target = "empty"
             /\ <<unit[u].text, unit[u].audit, unit[u].source>> =
                   <<attempt[o][u].text, attempt[o][u].audit, attempt[o][u].source>>
             /\ attempt'[o][u].state = "applied" /\ attempt'[o][u].answer = "good" ]_vars

(* An attempt that is settled stays settled, however many workers believe   *)
(* they own the operation, but for three ends of the receipt.  A            *)
(* reconciliation without a live lease takes up what was unknown or failed. *)
(* A message that comes after a cancellation closes what was pending as     *)
(* failed under a worker between its two loops: the second loop may still   *)
(* save a free answer there, which nobody applies.  And a publisher whose   *)
(* last attempt failed writes "failed" over a cancellation: a worker that   *)
(* held the lease then goes on with what was closed.                        *)
SettledIsFinal ==
    [][ \A o \in Operations : \A u \in Units :
          LET old == attempt[o][u].state
              new == attempt'[o][u].state IN
          old \in Settled /\ attempt'[o][u] # attempt[o][u] =>
             /\ operation[o].state \in Terminal
             /\ \/ overwritten[o]
                \/ /\ operation[o].lease # "live"
                   /\ old \in {"provider_unknown", "failed"} /\ new \in {"received", "applied"}
                \/ Cancelled(o) /\ old = "failed" /\ new = "received" ]_vars

(* A receipt that ended is never reopened, not by a duplicate or late       *)
(* message, a recovery or a retry of its key (except as above).             *)
TerminalIsFinal ==
    [][ \A o \in Operations : operation[o].state \in Terminal =>
          overwritten[o] \/ operation'[o].state = operation[o].state ]_vars

(* "completed" covers the whole batch: every unit was filled by this batch  *)
(* or had been filled by somebody else.                                     *)
CompletedIsCovered ==
    \A o \in Operations : operation[o].state = "completed" =>
        States(o) \subseteq {"applied", "skipped_nonempty"}

Writers(o) == {w \in Workers : call[w].op = o /\ call[w].pc \in Writing}

(* From a saved cancellation on no transaction that requests or applies     *)
(* begins.  One that had read the run before may still commit, at most one: *)
(* after it nothing is marked as requested and nothing is applied.  (The    *)
(* chunk it marked still goes to the provider.)                             *)
CancelIsHonoured ==
    [][ \A o \in Operations : Cancelled(o) =>
          /\ Writers(o)' \subseteq Writers(o)
          /\ (\E u \in Units : /\ attempt'[o][u].state \in {"requesting", "applied"}
                               /\ attempt'[o][u].state # attempt[o][u].state) =>
                Writers(o) # {} /\ Writers(o)' = {} ]_vars

(* The batches use the journal as SpendOnce describes it, which LLMDelivery *)
(* implements; a body is opaque to it.                                      *)
Journal == INSTANCE SpendOnce WITH
    Works <- Keys, Answers <- {"body"},
    spend <- [k \in Keys |-> journal[k].stage],
    answer <- [k \in Keys |-> IF journal[k].reply = None THEN None ELSE "body"]

UsesSpendOnce == Journal!Spec

(* An accepted batch ends, or its run was cancelled or failed: dead and     *)
(* slow workers, dead publishers and broker errors only delay it.           *)
OperationSettles ==
    \A o \in Operations :
        operation[o].state = "accepted" ~>
            \/ operation[o].state \in Terminal
            \/ Cancelled(o) \/ run[o].status = "failed"
=============================================================================
