---------------------------- MODULE LLMDelivery ----------------------------
(***************************************************************************)
(* The durable delivery journal of weblate/trans/llm_delivery.py: every    *)
(* billable request to a language model passes dispatch_exchange, which    *)
(* claims the semantic work in the database, commits "sending", talks to   *)
(* the provider and stores the raw reply in a private file before anybody  *)
(* parses it.  Several processes call it, each may die at any point, and   *)
(* the file and the database row are not written together.                 *)
(*                                                                         *)
(* One action is one database transaction, one file operation or one       *)
(* message of the provider.  PostgreSQL row locks held across several      *)
(* steps (select_for_update around the send, or around the purge) are      *)
(* rowLock; a transaction that is one action needs no lock variable.       *)
(***************************************************************************)
EXTENDS Naturals, FiniteSets

CONSTANTS
    Works,      \* semantic keys: one unit, source revision, judge seat, ...
    Exchanges,  \* rows that may be created; each owns a key, so as many as
                \* there are keys are enough and the set bounds nothing
    Workers,    \* processes calling dispatch_exchange
    Runs,       \* producer runs the exchanges are made for
    Digests,    \* request digests
    Codecs,     \* request codecs, NoCodec excluded
    Bodies,     \* replies the provider may give
    Transient,  \* the replies with status 429 or 5xx
    Timeout,    \* the receipt a judge caller serializes for its own timeout
    Legacy,     \* works the old ":pair-fallback" delivery may have reserved
    Requests,   \* the calls of dispatch_exchange that are explored
    None        \* the empty string, NULL, "no file"

(***************************************************************************)
(* A call.  judge callers pass on_response (bind) and, for the second      *)
(* stage, the membership of the primary stage (primary, {} for none).      *)
(***************************************************************************)
Request == [keys : SUBSET Works, digest : Digests, codec : Codecs \cup {None},
            run : Runs, replayOnly : BOOLEAN, bind : BOOLEAN,
            primary : SUBSET Works]

(* The clean-up, when it holds a row lock.                                  *)
Cleaner == "cleanup_delivery_bodies"

ASSUME ConstantsAssumption ==
    /\ Requests \subseteq Request
    /\ \A r \in Requests : r.keys # {}
    /\ Transient \subseteq Bodies
    /\ Timeout \notin Bodies
    /\ Legacy \subseteq Works
    /\ None \notin Works \cup Exchanges \cup Workers \cup Digests
                     \cup Codecs \cup Bodies \cup Requests
    /\ None # Timeout
    /\ Cleaner \notin Workers \cup {None}

Receipts == Bodies \cup {Timeout}

VARIABLES
    fence,      \* ProducerLLMWork: the exchange that owns a semantic key
    row,        \* ProducerLLMExchange
    file,       \* DATA_DIR/private-llm-delivery/<exchange>.reply
    rowLock,    \* who holds a row lock across steps
    legacy,     \* the works it did reserve, before this code was deployed
    finished,   \* runs that are completed and fully parsed
    pc,         \* where each process is in dispatch_exchange
    req,        \* its arguments
    ref,        \* the exchange it works on
    seen,       \* response_digest it read before opening the file
    got,        \* the reply in its hands
    paid,       \* history: how often a work was transported
    origin,     \* history: the call that created the exchange
    reply,      \* history: what came back for the exchange's one send
    billed,     \* history: accounting rows written for an exchange
    attempts    \* history: judge attempts associated with an exchange

dbVars == <<fence, row, rowLock, legacy>>
callVars == <<pc, req, ref, seen, got>>
history == <<paid, origin, reply, billed, attempts>>
vars == <<dbVars, file, finished, callVars, history>>

States == {"absent", "reserved", "sending", "received", "unknown", "purged"}

(* responseDigest stands for response_path and response_digest: the digest  *)
(* of a body tells bodies apart, so the body itself is stored.  lease is    *)
(* lease_until > now, attempt is judge_attempt being set.                   *)
ExchangeRow == [state : States, digest : Digests \cup {None},
                codec : Codecs \cup {None}, owner : Workers \cup {None},
                lease : BOOLEAN, responseDigest : Receipts \cup {None},
                run : Runs \cup {None}, attempt : BOOLEAN,
                usage : BOOLEAN, resolved : BOOLEAN]

AbsentRow == [state |-> "absent", digest |-> None, codec |-> None,
              owner |-> None, lease |-> FALSE, responseDigest |-> None,
              run |-> None, attempt |-> FALSE, usage |-> FALSE,
              resolved |-> FALSE]

(* "reserve" .. "codec" are program points of dispatch_exchange; in "done"  *)
(* the caller holds the body and may account its usage.                     *)
Points == {"idle", "reserve", "insert", "claimed", "call", "wait", "store",
           "record", "captured", "fail", "replay", "read", "codec", "done"}

TypeOK ==
    /\ fence \in [Works -> Exchanges \cup {None}]
    /\ row \in [Exchanges -> ExchangeRow]
    /\ file \in [Exchanges -> Receipts \cup {None}]
    /\ rowLock \in [Exchanges -> Workers \cup {Cleaner, None}]
    /\ legacy \subseteq Legacy
    /\ finished \subseteq Runs
    /\ pc \in [Workers -> Points]
    /\ req \in [Workers -> Requests \cup {None}]
    /\ ref \in [Workers -> Exchanges \cup {None}]
    /\ seen \in [Workers -> Receipts \cup {None}]
    /\ got \in [Workers -> Receipts \cup {None}]
    /\ paid \in [Works -> Nat]
    /\ origin \in [Exchanges -> Requests \cup {None}]
    /\ reply \in [Exchanges -> Receipts \cup {None}]
    /\ billed \in [Exchanges -> Nat]
    /\ attempts \in [Exchanges -> Nat]

Init ==
    /\ fence = [k \in Works |-> None]
    /\ row = [e \in Exchanges |-> AbsentRow]
    /\ file = [e \in Exchanges |-> None]
    /\ rowLock = [e \in Exchanges |-> None]
    /\ legacy \in SUBSET Legacy
    /\ finished = {}
    /\ pc = [w \in Workers |-> "idle"]
    /\ req = [w \in Workers |-> None]
    /\ ref = [w \in Workers |-> None]
    /\ seen = [w \in Workers |-> None]
    /\ got = [w \in Workers |-> None]
    /\ paid = [k \in Works |-> 0]
    /\ origin = [e \in Exchanges |-> None]
    /\ reply = [e \in Exchanges |-> None]
    /\ billed = [e \in Exchanges |-> 0]
    /\ attempts = [e \in Exchanges |-> 0]
-----------------------------------------------------------------------------
(* Helpers.                                                                *)

Members(e) == {k \in Works : fence[k] = e}

Claimed(keys) == {fence[k] : k \in keys} \ {None}

Unlocked(e) == rowLock[e] = None

(* The call of w is over: by a return, an exception, or the process dying.  *)
Leave(w) ==
    /\ pc' = [pc EXCEPT ![w] = "idle"]
    /\ req' = [req EXCEPT ![w] = None]
    /\ ref' = [ref EXCEPT ![w] = None]
    /\ seen' = [seen EXCEPT ![w] = None]
    /\ got' = [got EXCEPT ![w] = None]

Goto(w, point) == pc' = [pc EXCEPT ![w] = point]

(* A rolled back or committed transaction gives its row locks up.           *)
Release(w) ==
    rowLock' = [e \in Exchanges |-> IF rowLock[e] = w THEN None ELSE rowLock[e]]

(* read_response without its UPDATE: the file exists and its checksum is    *)
(* the one the row had when it was read.                                    *)
Readable(e, digest) == file[e] # None /\ digest \in {None, file[e]}

(* The UPDATE of read_response and of record_response.                      *)
MutReceived(r, body) == [r EXCEPT !.state = "received", !.responseDigest = r.digest]
Received(r, body) == [r EXCEPT !.state = "received", !.responseDigest = body]

Adopted(e) ==
    IF row[e].responseDigest = None THEN Received(row[e], file[e]) ELSE row[e]

(* judge_fallback_allowed: the exact primary membership has a captured      *)
(* transient reply and no member has a legacy reservation.                  *)
PrimaryExchange(keys) ==
    {e \in Exchanges : row[e].state # "absent" /\ Members(e) = keys}

MutFallbackAllowed(keys) ==
    /\ keys \cap legacy = {}
    /\ \E e \in PrimaryExchange(keys) : Readable(e, row[e].responseDigest)
MutFallbackIgnoresLegacy(keys) ==
    \E e \in PrimaryExchange(keys) :
        Readable(e, row[e].responseDigest) /\ file[e] \in Transient
FallbackAllowed(keys) ==
    /\ keys \cap legacy = {}
    /\ \E e \in PrimaryExchange(keys) :
          /\ Readable(e, row[e].responseDigest)
          /\ file[e] \in Transient

(* Its read_response adopts a file the row does not know yet; the UPDATE    *)
(* waits for a sender that still holds the row.                             *)
AfterFallbackCheck(keys) ==
    [e \in Exchanges |-> IF e \in PrimaryExchange(keys) THEN Adopted(e) ELSE row[e]]

FallbackReads(keys) ==
    \A e \in PrimaryExchange(keys) :
        row[e].responseDigest # None \/ Unlocked(e) \/ file[e] = None

StagePermits(r) == r.primary = {} \/ FallbackAllowed(r.primary)

TableAtReserve(r) == IF r.primary = {} THEN row ELSE AfterFallbackCheck(r.primary)
-----------------------------------------------------------------------------
(* dispatch_exchange up to the send.                                       *)

(* guard_paid_run may refuse the call: then nothing happens.                *)
Begin(w, r) ==
    /\ pc[w] = "idle"
    /\ Goto(w, "reserve")
    /\ req' = [req EXCEPT ![w] = r]
    /\ UNCHANGED <<dbVars, file, finished, ref, seen, got, history>>

(* The saved reservation fits the call: the same members, the same request  *)
(* and a codec that did not change.                                         *)
MutCodecFits(r, e) == r \in Requests
CodecFits(r, e) == row[e].codec \in {None, r.codec}

MutMatches(r, e) == (\A k \in r.keys : fence[k] = e) /\ CodecFits(r, e)
Matches(r, e) ==
    /\ \A k \in r.keys : fence[k] = e
    /\ Members(e) = r.keys
    /\ row[e].digest = r.digest
    /\ CodecFits(r, e)

(* Only a reserved, provably unsent exchange with an expired lease changes  *)
(* hands.                                                                   *)
Reclaimable(r, e) ==
    /\ ~r.replayOnly
    /\ row[e].state = "reserved"
    /\ ~row[e].lease

Reclaim(w, e) ==
    /\ Reclaimable(req[w], e)
    /\ row' = [TableAtReserve(req[w]) EXCEPT ![e] = [@ EXCEPT !.owner = w, !.lease = TRUE]]
    /\ Goto(w, "claimed")

Replay(w, e) ==
    /\ ~Reclaimable(req[w], e)
    /\ row' = TableAtReserve(req[w])
    /\ Goto(w, "replay")

(* reserve_exchange, when some key is already claimed.  The exchange row is *)
(* locked, which waits for a sender holding it.                             *)
ReserveSaved(w, e) ==
    /\ pc[w] = "reserve"
    /\ StagePermits(req[w]) /\ FallbackReads(req[w].primary)
    /\ Claimed(req[w].keys) = {e}
    /\ Unlocked(e)
    /\ Matches(req[w], e)
    /\ Reclaim(w, e) \/ Replay(w, e)
    /\ ref' = [ref EXCEPT ![w] = e]
    /\ UNCHANGED <<fence, rowLock, legacy, file, finished, req, seen, got, history>>

(* DeliveryUnresolved: an overlapping or changed reservation, a refused     *)
(* fallback, or nothing to replay.  The transaction rolls back.             *)
ReserveRefused(w) ==
    /\ pc[w] = "reserve"
    /\ FallbackReads(req[w].primary)
    /\ \/ ~StagePermits(req[w])
       \/ Claimed(req[w].keys) = {} /\ req[w].replayOnly
       \/ /\ Claimed(req[w].keys) # {}
          /\ ~\E e \in Exchanges : Matches(req[w], e)
    /\ Leave(w)
    /\ UNCHANGED <<dbVars, file, finished, history>>

(* No key is claimed in the snapshot of the SELECT: the INSERTs come next,  *)
(* and another process may be between its own SELECT and INSERTs.           *)
ReserveFree(w) ==
    /\ pc[w] = "reserve"
    /\ StagePermits(req[w]) /\ FallbackReads(req[w].primary)
    /\ Claimed(req[w].keys) = {}
    /\ ~req[w].replayOnly
    /\ Goto(w, "insert")
    /\ UNCHANGED <<dbVars, file, finished, req, ref, seen, got, history>>

(* The exchange and all its works are created together; semantic_key is     *)
(* unique.                                                                  *)
MutMayInsert(w, e) == row[e].state = "absent"
MayInsert(w, e) == row[e].state = "absent" /\ Claimed(req[w].keys) = {}

Insert(w, e) ==
    /\ pc[w] = "insert"
    /\ MayInsert(w, e)
    /\ row' = [TableAtReserve(req[w]) EXCEPT ![e] =
                 [AbsentRow EXCEPT !.state = "reserved", !.digest = req[w].digest,
                                   !.codec = req[w].codec, !.owner = w,
                                   !.lease = TRUE, !.run = req[w].run]]
    /\ fence' = [k \in Works |-> IF k \in req[w].keys THEN e ELSE fence[k]]
    /\ origin' = [origin EXCEPT ![e] = req[w]]
    /\ ref' = [ref EXCEPT ![w] = e]
    /\ Goto(w, "claimed")
    /\ UNCHANGED <<rowLock, legacy, file, finished, req, seen, got, paid, reply, billed, attempts>>

(* IntegrityError on semantic_key: the whole reservation rolls back.        *)
InsertCollides(w) ==
    /\ pc[w] = "insert"
    /\ Claimed(req[w].keys) # {}
    /\ Leave(w)
    /\ UNCHANGED <<dbVars, file, finished, history>>

(* before_send raises (the judge route changed): the reservation stays.     *)
BeforeSendRefuses(w) ==
    /\ pc[w] = "claimed"
    /\ Leave(w)
    /\ UNCHANGED <<dbVars, file, finished, history>>

(* The conditional UPDATE reserved -> sending.                              *)
MutSending(r) == r
Sending(r) == [r EXCEPT !.state = "sending"]

MayClaim(w, e) == row[e].owner = w /\ row[e].state = "reserved" /\ row[e].lease

ClaimSend(w) ==
    /\ pc[w] = "claimed"
    /\ MayClaim(w, ref[w])
    /\ row' = [row EXCEPT ![ref[w]] = Sending(@)]
    /\ Goto(w, "call")
    /\ UNCHANGED <<fence, rowLock, legacy, file, finished, req, ref, seen, got, history>>

ClaimLost(w) ==
    /\ pc[w] = "claimed"
    /\ ~MayClaim(w, ref[w])
    /\ Leave(w)
    /\ UNCHANGED <<dbVars, file, finished, history>>
-----------------------------------------------------------------------------
(* The send and the storage of its reply.                                  *)

(* With on_response the row is locked until the attempt is associated.      *)
MutLockedForBind(w) == rowLock
LockedForBind(w) == IF req[w].bind THEN [rowLock EXCEPT ![ref[w]] = w] ELSE rowLock

Send(w) ==
    /\ pc[w] = "call"
    /\ Unlocked(ref[w])
    /\ rowLock' = LockedForBind(w)
    /\ paid' = [k \in Works |-> IF k \in req[w].keys THEN paid[k] + 1 ELSE paid[k]]
    /\ Goto(w, "wait")
    /\ UNCHANGED <<fence, row, legacy, file, finished, req, ref, seen, got, origin, reply, billed, attempts>>

(* The reply is complete, or a judge caller turned its own timeout into a   *)
(* receipt.                                                                 *)
ReplyArrives(w, b) ==
    /\ pc[w] = "wait"
    /\ b = Timeout => req[w].bind
    /\ got' = [got EXCEPT ![w] = b]
    /\ reply' = [reply EXCEPT ![ref[w]] = b]
    /\ Goto(w, "store")
    /\ UNCHANGED <<dbVars, file, finished, req, ref, seen, paid, origin, billed, attempts>>

(* record_response up to os.replace: a complete file appears at once, and   *)
(* one that is already there is never replaced.                             *)
MutStoreBody(w) ==
    /\ pc[w] = "store"
    /\ row' = [row EXCEPT ![ref[w]] = Received(@, got[w])]
    /\ Goto(w, "record")
    /\ UNCHANGED <<fence, rowLock, legacy, file, finished, req, ref, seen, got, history>>
StoreBody(w) ==
    /\ pc[w] = "store"
    /\ file' = IF file[ref[w]] = None THEN [file EXCEPT ![ref[w]] = got[w]] ELSE file
    /\ Goto(w, "record")
    /\ UNCHANGED <<dbVars, finished, req, ref, seen, got, history>>

(* The UPDATE of record_response, once the file on disk is the reply ("Stored *)
(* response is immutable" otherwise, which SendRaises covers).  Inside the locked transaction it is not  *)
(* visible before the commit, which is BindCommits.                         *)
RecordReceived(w) ==
    /\ pc[w] = "record"
    /\ file[ref[w]] = got[w]
    /\ row' = IF req[w].bind THEN row
              ELSE [row EXCEPT ![ref[w]] = Received(@, got[w])]
    /\ Goto(w, "captured")
    /\ UNCHANGED <<fence, rowLock, legacy, file, finished, req, ref, seen, got, history>>

(* send returns; record_response finds its own file and writes the same.    *)
SendReturns(w) ==
    /\ pc[w] = "captured"
    /\ ~req[w].bind
    /\ Goto(w, "done")
    /\ UNCHANGED <<dbVars, file, finished, req, ref, seen, got, history>>

(* on_response saves the judge attempt and the transaction commits.         *)
BindCommits(w) ==
    /\ pc[w] = "captured"
    /\ req[w].bind
    /\ row' = [row EXCEPT ![ref[w]] = [Received(@, got[w]) EXCEPT !.attempt = TRUE]]
    /\ attempts' = [attempts EXCEPT ![ref[w]] = @ + 1]
    /\ Release(w)
    /\ Goto(w, "done")
    /\ UNCHANGED <<fence, legacy, file, finished, req, ref, seen, got, paid, origin, reply, billed>>

(* A timeout, a lost connection, an oversized body, an HTTP or JSON error   *)
(* after the capture, on_response failing: the transaction rolls back.      *)
SendRaises(w) ==
    /\ pc[w] \in {"wait", "store", "record", "captured"}
    /\ Release(w)
    /\ Goto(w, "fail")
    /\ UNCHANGED <<fence, row, legacy, file, finished, req, ref, seen, got, history>>

(* The exception handler: sending -> unknown, whatever else it finds stays. *)
MutReleasedByHandler(r) ==
    IF r.state = "sending" THEN [r EXCEPT !.state = "reserved"] ELSE r
AfterException(r) ==
    IF r.state = "sending" THEN [r EXCEPT !.state = "unknown"] ELSE r

MarkUnknown(w) ==
    /\ pc[w] = "fail"
    /\ Unlocked(ref[w])
    /\ row' = [row EXCEPT ![ref[w]] = AfterException(@)]
    /\ Leave(w)
    /\ UNCHANGED <<fence, rowLock, legacy, file, finished, history>>
-----------------------------------------------------------------------------
(* The replay of a reply that is already there.                            *)

ReadRow(w) ==
    /\ pc[w] = "replay"
    /\ seen' = [seen EXCEPT ![w] = row[ref[w]].responseDigest]
    /\ Goto(w, "read")
    /\ UNCHANGED <<dbVars, file, finished, req, ref, got, history>>

(* Adoption of a file whose row was never written waits for the row lock.   *)
ReadBody(w) ==
    /\ pc[w] = "read"
    /\ Readable(ref[w], seen[w])
    /\ seen[w] = None => Unlocked(ref[w])
    /\ row' = IF seen[w] = None
              THEN [row EXCEPT ![ref[w]] = Received(@, file[ref[w]])] ELSE row
    /\ got' = [got EXCEPT ![w] = file[ref[w]]]
    /\ Goto(w, IF req[w].codec = None THEN "done" ELSE "codec")
    /\ UNCHANGED <<fence, rowLock, legacy, file, finished, req, ref, seen, history>>

(* No recoverable reply: the paid retry is forbidden.                       *)
MutReadRefused(w) ==
    /\ pc[w] = "read"
    /\ ~Readable(ref[w], seen[w])
    /\ UNCHANGED vars
ReadRefused(w) ==
    /\ pc[w] = "read"
    /\ ~Readable(ref[w], seen[w])
    /\ Leave(w)
    /\ UNCHANGED <<dbVars, file, finished, history>>

(* An unclassified row takes the codec of the first replay that names one.  *)
AdoptCodec(w) ==
    /\ pc[w] = "codec"
    /\ Unlocked(ref[w])
    /\ CodecFits(req[w], ref[w])
    /\ row' = [row EXCEPT ![ref[w]].codec = req[w].codec]
    /\ Goto(w, "done")
    /\ UNCHANGED <<fence, rowLock, legacy, file, finished, req, ref, seen, got, history>>

CodecChanged(w) ==
    /\ pc[w] = "codec"
    /\ Unlocked(ref[w])
    /\ ~CodecFits(req[w], ref[w])
    /\ Leave(w)
    /\ UNCHANGED <<dbVars, file, finished, history>>

(* A judge caller that replays a captured reply associates an attempt when  *)
(* the sender's transaction left none.                                      *)
LacksAttempt(w) == req[w].bind /\ got[w] # Timeout /\ ~row[ref[w]].attempt

AssociateAttempt(w) ==
    /\ pc[w] = "done"
    /\ Unlocked(ref[w])
    /\ LacksAttempt(w)
    /\ row' = [row EXCEPT ![ref[w]].attempt = TRUE]
    /\ attempts' = [attempts EXCEPT ![ref[w]] = @ + 1]
    /\ UNCHANGED <<fence, rowLock, legacy, file, finished, callVars, paid, origin, reply, billed>>

(* record_usage_once: the flag and the accounting row in one transaction.   *)
MutAddUsage(e) ==
    /\ row' = [row EXCEPT ![e].usage = TRUE]
    /\ billed' = [billed EXCEPT ![e] = @ + 1]
AddUsage(e) ==
    IF row[e].usage THEN UNCHANGED <<row, billed>>
    ELSE /\ row' = [row EXCEPT ![e].usage = TRUE]
         /\ billed' = [billed EXCEPT ![e] = @ + 1]

RecordUsage(w) ==
    /\ pc[w] = "done"
    /\ Unlocked(ref[w])
    /\ ~LacksAttempt(w)
    /\ AddUsage(ref[w])
    /\ Leave(w)
    /\ UNCHANGED <<fence, rowLock, legacy, file, finished, paid, origin, reply, attempts>>

(* The caller cannot use the body and accounts nothing.                     *)
SkipUsage(w) ==
    /\ pc[w] = "done"
    /\ Leave(w)
    /\ UNCHANGED <<dbVars, file, finished, history>>

(* The process dies: its transaction rolls back and no handler runs.        *)
Crash(w) ==
    /\ pc[w] # "idle"
    /\ Leave(w)
    /\ Release(w)
    /\ UNCHANGED <<fence, row, legacy, file, finished, history>>
-----------------------------------------------------------------------------
(* Time, runs and the daily clean-up.                                      *)

(* A lease is read only while its exchange is reserved (MayClaim and        *)
(* Reclaimable), so it runs out only there.                                 *)
LeaseExpires(e) ==
    /\ row[e].state = "reserved" /\ row[e].lease
    /\ row' = [row EXCEPT ![e].lease = FALSE]
    /\ UNCHANGED <<fence, rowLock, legacy, file, finished, callVars, history>>

RunFinishes(x) ==
    /\ x \notin finished
    /\ finished' = finished \cup {x}
    /\ UNCHANGED <<dbVars, file, callVars, history>>

(* resolve_run_deliveries.                                                  *)
Resolvable(x, e) == row[e].run = x /\ row[e].state = "received" /\ ~row[e].resolved

Resolve(x) ==
    /\ x \in finished
    /\ \E e \in Exchanges : Resolvable(x, e)
    /\ \A e \in Exchanges : Resolvable(x, e) => Unlocked(e)
    /\ row' = [e \in Exchanges |->
                 IF Resolvable(x, e) THEN [row[e] EXCEPT !.resolved = TRUE] ELSE row[e]]
    /\ UNCHANGED <<fence, rowLock, legacy, file, finished, callVars, history>>

(* cleanup_delivery_bodies, thirty days later: no call that was active when *)
(* the run was resolved is still active.                                    *)
Unlink(e) ==
    /\ Unlocked(e)
    /\ row[e].state = "received" /\ row[e].resolved /\ row[e].run \in finished
    /\ \A w \in Workers : ref[w] # e
    /\ file' = [file EXCEPT ![e] = None]
    /\ rowLock' = [rowLock EXCEPT ![e] = Cleaner]
    /\ UNCHANGED <<fence, row, legacy, finished, callVars, history>>

Purge(e) ==
    /\ rowLock[e] = Cleaner
    /\ row' = [row EXCEPT ![e].state = "purged"]
    /\ rowLock' = [rowLock EXCEPT ![e] = None]
    /\ UNCHANGED <<fence, legacy, file, finished, callVars, history>>

(* The clean-up dies after the unlink: the row stays "received".            *)
CleanerCrashes(e) ==
    /\ rowLock[e] = Cleaner
    /\ rowLock' = [rowLock EXCEPT ![e] = None]
    /\ UNCHANGED <<fence, row, legacy, file, finished, callVars, history>>
-----------------------------------------------------------------------------
Reserve(w) ==
    \/ \E e \in Exchanges : ReserveSaved(w, e)
    \/ ReserveRefused(w)
    \/ ReserveFree(w)
    \/ \E e \in Exchanges : Insert(w, e)
    \/ InsertCollides(w)

Transport(w) ==
    \/ BeforeSendRefuses(w)
    \/ ClaimSend(w)
    \/ ClaimLost(w)
    \/ Send(w)
    \/ \E b \in Receipts : ReplyArrives(w, b)
    \/ StoreBody(w)
    \/ RecordReceived(w)
    \/ SendReturns(w)
    \/ BindCommits(w)
    \/ SendRaises(w)
    \/ MarkUnknown(w)

ReplaySaved(w) ==
    \/ ReadRow(w)
    \/ ReadBody(w)
    \/ ReadRefused(w)
    \/ AdoptCodec(w)
    \/ CodecChanged(w)
    \/ AssociateAttempt(w)
    \/ RecordUsage(w)
    \/ SkipUsage(w)

(* What a live process does once it was called.                             *)
Step(w) == Reserve(w) \/ Transport(w) \/ ReplaySaved(w)

CleanUp(e) == Unlink(e) \/ Purge(e) \/ CleanerCrashes(e)

Next ==
    \/ \E w \in Workers : (\E r \in Requests : Begin(w, r)) \/ Step(w) \/ Crash(w)
    \/ \E e \in Exchanges : LeaseExpires(e) \/ CleanUp(e)
    \/ \E x \in Runs : RunFinishes(x) \/ Resolve(x)

Spec == Init /\ [][Next]_vars

(* A live process keeps running and the HTTP timeout ends every wait.       *)
(* PostgreSQL queues the waiters of a row lock, so a process whose next     *)
(* step is enabled again and again is served in the end: strong fairness.   *)
(* The transaction of the clean-up ends, by commit or by rollback.          *)
Fairness ==
    /\ \A w \in Workers : SF_vars(Step(w))
    /\ \A e \in Exchanges : WF_vars(Purge(e) \/ CleanerCrashes(e))

FairSpec == Spec /\ Fairness
-----------------------------------------------------------------------------
(* What the journal promises.                                              *)

(* "Permanent semantic spend fence" (models/llm_delivery.py): however many  *)
(* processes, retries, reclaims and crashes there are, one unit of work is  *)
(* transported to the provider at most once.                                *)
PaidOnce == \A k \in Works : paid[k] <= 1

(* "Only a reserved (provably unsent) operation may be reclaimed"           *)
(* (reserve_exchange): no member of a reserved exchange was ever            *)
(* transported, whoever owned it before.                                    *)
ReservedIsUnsent ==
    \A e \in Exchanges : row[e].state = "reserved" =>
        \A k \in Members(e) : paid[k] = 0

(* A caller of dispatch_exchange only ever gets the reply the provider gave *)
(* to this very request: same members, same digest, and a body that         *)
(* arrived for the exchange's one send.                                     *)
AnswerIsForTheCall ==
    \A w \in Workers : pc[w] = "done" =>
        /\ got[w] = reply[ref[w]]
        /\ origin[ref[w]].keys = req[w].keys
        /\ origin[ref[w]].digest = req[w].digest

(* The row and the file, which are written one after the other with crashes *)
(* in between, never contradict each other: a digest in the row is the      *)
(* digest of the file, and a received body is on disk until the clean-up of *)
(* a finished run removes it.                                               *)
RowAgreesWithFile ==
    \A e \in Exchanges :
        /\ row[e].responseDigest # None => file[e] \in {None, row[e].responseDigest}
        /\ row[e].state = "received" => file[e] # None \/ row[e].resolved
        /\ row[e].state = "purged" => file[e] = None /\ row[e].run \in finished

(* judge_fallback_allowed: the second, more expensive judge stage exists    *)
(* only for a primary stage with exactly these members whose captured reply *)
(* was transient, and never beside a legacy fallback reservation.           *)
FallbackIsJustified ==
    \A e \in Exchanges : origin[e] # None /\ origin[e].primary # {} =>
        /\ origin[e].primary \cap legacy = {}
        /\ \E p \in Exchanges : Members(p) = origin[e].primary /\ reply[p] \in Transient

(* An exchange gets one judge attempt (models/llm_delivery.py, OneToOne),   *)
(* although the sender's transaction and any number of replays may each     *)
(* associate one: "A replay's reservation lock must not pass the receipt    *)
(* before its mandatory attempt association commits".                       *)
AttemptOnce == \A e \in Exchanges : attempts[e] <= 1

(* The provider's price of an exchange is accounted at most once, although  *)
(* every process that got the body accounts it (record_usage_once), and     *)
(* only for an exchange whose reply arrived.                                *)
UsageOnce ==
    \A e \in Exchanges : billed[e] <= 1 /\ (billed[e] = 1 => reply[e] # None)

(* Once written, a reservation is history: its members, request, codec,     *)
(* reply digest and file are never rewritten, only purged after the run was *)
(* resolved ("Stored response is immutable").                               *)
ReservationIsImmutable ==
    [][ /\ \A k \in Works : fence[k] # None => fence'[k] = fence[k]
        /\ \A e \in Exchanges :
             /\ row[e].digest # None => row'[e].digest = row[e].digest
             /\ row[e].codec # None => row'[e].codec = row[e].codec
             /\ row[e].responseDigest # None =>
                   row'[e].responseDigest = row[e].responseDigest
             /\ file[e] # None =>
                   \/ file'[e] = file[e]
                   \/ file'[e] = None /\ row[e].resolved ]_vars

(* Every call ends: no process waits for ever on a row lock, whoever dies   *)
(* or fails while holding it.                                               *)
CallEnds == \A w \in Workers : pc[w] # "idle" ~> pc[w] = "idle"
-----------------------------------------------------------------------------
(* The promise of the journal without rows, leases, files and processes.    *)
Promise == INSTANCE SpendOnce WITH
    Answers <- Receipts,
    spend <- [k \in Works |->
                IF fence[k] = None THEN "free"
                ELSE IF row[fence[k]].state = "reserved" THEN "claimed"
                ELSE "committed"],
    answer <- [k \in Works |->
                IF fence[k] = None THEN None
                ELSE IF file[fence[k]] # None THEN file[fence[k]]
                ELSE IF row[fence[k]].resolved THEN "forgotten" ELSE None]

ImplementsSpendOnce == Promise!Spec
=============================================================================
