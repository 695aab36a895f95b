------------------------- MODULE MTOperationProofs -------------------------
(* Machine-checked facts about the durable batches, for any number of       *)
(* receipts, units, workers, disturbances and messages.                     *)
EXTENDS MTOperation, TLAPS

(* The text of a unit only changes together with its source.                *)
TextBehindSource == \A u \in Units : unit[u].text <= unit[u].source

(* A call in progress has an operation.                                     *)
CallsNamed == \A w \in Workers : call[w].pc # "idle" => call[w].op \in Operations

TypeInv == TypeOK /\ TextBehindSource /\ CallsNamed
-----------------------------------------------------------------------------
(* What a step of a worker makes of its local state.                        *)
LEMMA Continued ==
    ASSUME TypeInv, NEW w \in Workers, NEW next, Continue(w, next)
    PROVE  /\ call'[w] = next /\ \A v \in Workers \ {w} : call'[v] = call[v]
           /\ next \in Call => call' \in [Workers -> Call]
           /\ next \in Call /\ (next.pc # "idle" => next.op \in Operations) => CallsNamed'
BY DEF TypeInv, TypeOK, Continue, CallsNamed

LEMMA NoCallTyped == NoCall \in Call /\ NoCall.pc = "idle"
BY DEF NoCall, NoAnswers, Call, Points

LEMMA Moved ==
    ASSUME TypeInv, NEW w \in Workers, NEW p \in Points, Goto(w, p), ~At(w, "idle")
    PROVE  call' \in [Workers -> Call] /\ CallsNamed'
<1>1. call[w] \in Call /\ call[w].op \in Operations
  BY DEF TypeInv, TypeOK, CallsNamed, At
<1>2. [call[w] EXCEPT !.pc = p] \in Call /\ [call[w] EXCEPT !.pc = p].op = call[w].op
  BY <1>1 DEF Call
<1> QED
  BY <1>1, <1>2, Continued DEF Goto

LEMMA Left ==
    ASSUME TypeInv, NEW w \in Workers, Leave(w)
    PROVE  call' \in [Workers -> Call] /\ CallsNamed'
BY Continued, NoCallTyped DEF Leave

LEMMA AttemptRows ==
    ASSUME NEW a \in AttemptRow
    PROVE  /\ \A s \in Settled \cup {"requesting", "pending"} : [a EXCEPT !.state = s] \in AttemptRow
           /\ \A b \in Answers : [a EXCEPT !.state = "received", !.answer = b] \in AttemptRow
BY DEF AttemptRow, Settled

(* One attempt is written.                                                  *)
LEMMA OneAttempt ==
    ASSUME TypeInv, NEW o \in Operations, NEW u \in Units, NEW a \in AttemptRow,
           attempt' = [attempt EXCEPT ![o][u] = a]
    PROVE  attempt' \in [Operations -> [Units -> AttemptRow]]
BY DEF TypeInv, TypeOK

LEMMA StateWritten ==
    ASSUME TypeInv, NEW o \in Operations, NEW u \in Units,
           NEW s \in Settled \cup {"requesting", "pending"}, SetState(o, u, s)
    PROVE  attempt' \in [Operations -> [Units -> AttemptRow]]
<1>1. attempt[o][u] \in AttemptRow
  BY DEF TypeInv, TypeOK
<1>2. attempt' = [attempt EXCEPT ![o][u] = [attempt[o][u] EXCEPT !.state = s]]
  BY DEF SetState, TypeInv, TypeOK
<1> QED
  BY <1>1, <1>2, AttemptRows, OneAttempt

LEMMA Bounds == MaxEdits \in Nat /\ MaxDisturbances \in Nat /\ 0 \in Edits
<1>1. MaxEdits \in Nat /\ MaxDisturbances \in Nat
  BY MTAssumption
<1> QED
  BY <1>1 DEF Edits

LEMMA TypeInit == Init => TypeInv
<1> SUFFICES ASSUME Init PROVE TypeInv
  OBVIOUS
<1>1. unit \in [Units -> UnitRow] /\ TextBehindSource
  <2>1. unit = [u \in Units |-> [text |-> 0, target |-> "empty", audit |-> 0, source |-> 0]]
    BY DEF Init
  <2> QED
    BY <2>1, Bounds DEF UnitRow, TextBehindSource
<1>2. attempt \in [Operations -> [Units -> AttemptRow]]
  BY Bounds DEF Init, AttemptRow
<1>3. journal \in [Keys -> JournalRow]
  BY DEF Init, JournalRow
<1>4. operation \in [Operations -> OperationRow] /\ run \in [Operations -> RunRow]
  BY DEF Init, OperationRow, RunRow
<1>5. call \in [Workers -> Call] /\ CallsNamed
  BY NoCallTyped DEF Init, CallsNamed
<1>6. publishing \in [Operations -> [step : {"idle", "sending", "sent", "raised"},
                                     current : BOOLEAN]]
  BY DEF Init
<1>7. transported \in [Operations -> [Units -> Nat]]
  BY DEF Init
<1>8. disturbances \in 0 .. MaxDisturbances
  <2>1. disturbances = 0
    BY DEF Init
  <2> QED
    BY <2>1, Bounds
<1> QED
  BY <1>1, <1>2, <1>3, <1>4, <1>5, <1>6, <1>7, <1>8 DEF Init, TypeInv, TypeOK

LEMMA Written ==
    ASSUME NEW S, NEW T, NEW f \in [S -> T], NEW x \in S, NEW v \in T
    PROVE  [f EXCEPT ![x] = v] \in [S -> T]
OBVIOUS

LEMMA OperationRows ==
    ASSUME NEW r \in OperationRow
    PROVE  /\ \A s \in {"accepted", "running"} \cup Terminal : [r EXCEPT !.state = s] \in OperationRow
           /\ [r EXCEPT !.lease = "expired"] \in OperationRow
           /\ [r EXCEPT !.owner = None, !.lease = "none"] \in OperationRow
BY DEF OperationRow

Statuses == {"queued", "running", "cancel_requested", "cancelled", "completed", "partial", "failed"}

LEMMA RunRows ==
    ASSUME NEW r \in RunRow
    PROVE  /\ \A s \in Statuses : [r EXCEPT !.status = s] \in RunRow
           /\ [r EXCEPT !.status = "queued", !.attempts = 0, !.error = FALSE] \in RunRow
           /\ [r EXCEPT !.published = TRUE, !.error = FALSE] \in RunRow
           /\ [r EXCEPT !.status = "queued", !.published = FALSE] \in RunRow
           /\ [r EXCEPT !.published = FALSE] \in RunRow
           /\ CountedFailure(r) \in RunRow
<1>1. /\ \A s \in Statuses : [r EXCEPT !.status = s] \in RunRow
      /\ [r EXCEPT !.status = "queued", !.attempts = 0, !.error = FALSE] \in RunRow
      /\ [r EXCEPT !.published = TRUE, !.error = FALSE] \in RunRow
      /\ [r EXCEPT !.status = "queued", !.published = FALSE] \in RunRow
      /\ [r EXCEPT !.published = FALSE] \in RunRow
  BY DEF RunRow, Statuses
<1>2. r.attempts + 1 \in Nat /\ r.status \in Statuses
  BY DEF RunRow, Statuses
<1>3. CountedFailure(r) \in RunRow
  BY <1>2 DEF CountedFailure, RunRow, Statuses
<1> QED
  BY <1>1, <1>3

PublishingRow == [step : {"idle", "sending", "sent", "raised"}, current : BOOLEAN]

LEMMA PublishingRows ==
    ASSUME NEW r \in PublishingRow
    PROVE  /\ \A s \in {"sent", "raised"} : [r EXCEPT !.step = s] \in PublishingRow
           /\ \A c \in BOOLEAN : [r EXCEPT !.current = c] \in PublishingRow
BY DEF PublishingRow

(* The parts of the type invariant, one by one.                             *)
LEMMA Typed ==
    ASSUME TypeInv
    PROVE  /\ unit \in [Units -> UnitRow] /\ batch \in Batches /\ writable \in BOOLEAN
           /\ authorized \in [Operations -> BOOLEAN]
           /\ operation \in [Operations -> OperationRow]
           /\ attempt \in [Operations -> [Units -> AttemptRow]]
           /\ run \in [Operations -> RunRow] /\ broker \in [Operations -> Nat]
           /\ publishing \in [Operations -> PublishingRow]
           /\ cancelling \in [Operations -> BOOLEAN]
           /\ call \in [Workers -> Call] /\ journal \in [Keys -> JournalRow]
           /\ transported \in [Operations -> [Units -> Nat]]
           /\ overwritten \in [Operations -> BOOLEAN]
           /\ disturbances \in 0 .. MaxDisturbances
BY DEF TypeInv, TypeOK, PublishingRow

LEMMA TypedNext ==
    ASSUME TypeInv,
           unit' \in [Units -> UnitRow] /\ TextBehindSource',
           batch' = batch /\ writable' \in BOOLEAN /\ authorized' \in [Operations -> BOOLEAN],
           operation' \in [Operations -> OperationRow],
           attempt' \in [Operations -> [Units -> AttemptRow]],
           run' \in [Operations -> RunRow],
           broker' \in [Operations -> Nat] /\ publishing' \in [Operations -> PublishingRow],
           cancelling' \in [Operations -> BOOLEAN],
           call' \in [Workers -> Call] /\ CallsNamed',
           journal' \in [Keys -> JournalRow],
           transported' \in [Operations -> [Units -> Nat]],
           overwritten' \in [Operations -> BOOLEAN],
           disturbances' \in 0 .. MaxDisturbances
    PROVE  TypeInv'
BY DEF TypeInv, TypeOK, PublishingRow

LEMMA SameUnits == ASSUME TypeInv, UNCHANGED unit PROVE unit' \in [Units -> UnitRow] /\ TextBehindSource'
BY DEF TypeInv, TypeOK, TextBehindSource

LEMMA SameCalls == ASSUME TypeInv, UNCHANGED call PROVE call' \in [Workers -> Call] /\ CallsNamed'
BY DEF TypeInv, TypeOK, CallsNamed

LEMMA Disturbed == ASSUME TypeInv, Disturb PROVE disturbances' \in 0 .. MaxDisturbances
<1>1. disturbances' = disturbances + 1 /\ disturbances < MaxDisturbances
  BY DEF Disturb
<1> QED
  BY <1>1, Bounds DEF TypeInv, TypeOK

LEMMA BatchTyped == ASSUME TypeInv PROVE batch \in [Operations -> SUBSET Units]
BY Typed, MTAssumption

(* The steps outside the workers.                                           *)
LEMMA RequestTyped ==
    ASSUME TypeInv, NEW o \in Operations,
           \/ Accept(o) \/ RetryDispatch(o) \/ CancelReads(o) \/ CancelSaves(o)
           \/ RightsChange(o)
    PROVE  TypeInv'
<1> USE DEF env, rows, outbox, spending, history
<1>1. CASE Accept(o)
  <2>1. operation' = [operation EXCEPT ![o] = [operation[o] EXCEPT !.state = "accepted"]]
    BY <1>1 DEF Accept
  <2>2. operation' \in [Operations -> OperationRow]
    BY <2>1, Typed, OperationRows, Written
  <2>3. \A u \in Units : [state |-> "pending", answer |-> "", text |-> unit[u].text,
                          audit |-> unit[u].audit, source |-> unit[u].source] \in AttemptRow
    BY Typed DEF UnitRow, AttemptRow
  <2> DEFINE new == [u \in Units |->
                IF u \notin batch[o] THEN attempt[o][u]
                ELSE [state |-> "pending", answer |-> "", text |-> unit[u].text,
                      audit |-> unit[u].audit, source |-> unit[u].source]]
  <2>4. new \in [Units -> AttemptRow]
    BY <2>3, Typed
  <2>5. attempt' = [attempt EXCEPT ![o] = new]
    BY <1>1 DEF Accept
  <2> HIDE DEF new
  <2>6. attempt' \in [Operations -> [Units -> AttemptRow]]
    BY <2>4, <2>5, Typed
  <2> QED
    BY <1>1, <2>2, <2>6, Typed, TypedNext, SameUnits, SameCalls DEF Accept
<1>2. CASE RetryDispatch(o) \/ CancelSaves(o)
  <2>1. PICK r \in RunRow : run' = [run EXCEPT ![o] = r]
    BY <1>2, Typed, RunRows DEF RetryDispatch, CancelSaves, Statuses
  <2>2. run' \in [Operations -> RunRow]
    BY <2>1, Typed
  <2>3. cancelling' \in [Operations -> BOOLEAN]
    BY <1>2, Typed DEF RetryDispatch, CancelSaves
  <2> QED
    BY <1>2, <2>2, <2>3, Typed, TypedNext, SameUnits, SameCalls DEF RetryDispatch, CancelSaves
<1>3. CASE CancelReads(o)
  BY <1>3, Disturbed, Typed, TypedNext, SameUnits, SameCalls DEF CancelReads
<1>4. CASE RightsChange(o)
  BY <1>4, Disturbed, Typed, TypedNext, SameUnits, SameCalls DEF RightsChange
<1> QED
  BY <1>1, <1>2, <1>3, <1>4

LEMMA DispatchTyped ==
    ASSUME TypeInv, NEW o \in Operations,
           Publish(o) \/ BrokerFails(o) \/ PublisherDies(o) \/ Drain(o) \/ LeaseExpires(o)
    PROVE  TypeInv'
<1> USE DEF env, rows, outbox, spending, history
<1>1. CASE PublishBegins(o)
  <2>1. publishing' \in [Operations -> PublishingRow]
    BY <1>1, Typed DEF PublishBegins, PublishingRow
  <2> QED
    BY <1>1, <2>1, Typed, TypedNext, SameUnits, SameCalls DEF PublishBegins
<1>2. ASSUME BrokerAccepts(o) \/ BrokerFails(o)
      PROVE  publishing' \in [Operations -> PublishingRow] /\ broker' \in [Operations -> Nat]
  <2>3. \E r \in PublishingRow : publishing' = [publishing EXCEPT ![o] = r]
    BY <1>2, Typed, PublishingRows DEF BrokerAccepts, BrokerFails
  <2>1. publishing' \in [Operations -> PublishingRow]
    BY <2>3, Typed
  <2>2. broker' \in [Operations -> Nat]
    BY <1>2, Typed DEF BrokerAccepts, BrokerFails
  <2> QED
    BY <2>1, <2>2
<1>3. CASE BrokerAccepts(o)
  BY <1>2, <1>3, Typed, TypedNext, SameUnits, SameCalls DEF BrokerAccepts
<1>4. CASE BrokerFails(o)
  BY <1>2, <1>4, Disturbed, Typed, TypedNext, SameUnits, SameCalls DEF BrokerFails
<1>5. ASSUME PublishEnds(o) PROVE publishing' \in [Operations -> PublishingRow]
  BY <1>5, Typed DEF PublishEnds, PublishingRow
<1>6. CASE MarkPublished(o) \/ CountFailure(o)
  <2>1. run' = run \/ \E r \in RunRow : run' = [run EXCEPT ![o] = r]
    BY <1>6, Typed, RunRows DEF MarkPublished, CountFailure
  <2>2. run' \in [Operations -> RunRow]
    BY <2>1, Typed
  <2>3. overwritten' \in [Operations -> BOOLEAN]
    BY <1>6, Typed DEF MarkPublished, CountFailure
  <2> QED
    BY <1>5, <1>6, <2>2, <2>3, Typed, TypedNext, SameUnits, SameCalls
    DEF MarkPublished, CountFailure
<1>7. CASE PublisherDies(o)
  BY <1>5, <1>7, Disturbed, Typed, TypedNext, SameUnits, SameCalls DEF PublisherDies
<1>8. CASE RecoverExpired(o) \/ Reoffer(o)
  <2>6. \E r \in PublishingRow : publishing' = [publishing EXCEPT ![o] = r]
    BY <1>8, Typed, PublishingRows DEF RecoverExpired, Reoffer, NewTask
  <2>1. publishing' \in [Operations -> PublishingRow]
    BY <2>6, Typed
  <2>2. \E r \in RunRow : run' = [run EXCEPT ![o] = r]
    BY <1>8, Typed, RunRows DEF RecoverExpired, Reoffer
  <2>3. run' \in [Operations -> RunRow]
    BY <2>2, Typed
  <2>4. operation' = operation \/ \E r \in OperationRow : operation' = [operation EXCEPT ![o] = r]
    BY <1>8, Typed, OperationRows DEF RecoverExpired, Reoffer
  <2>5. operation' \in [Operations -> OperationRow]
    BY <2>4, Typed
  <2> QED
    BY <1>8, <2>1, <2>3, <2>5, Typed, TypedNext, SameUnits, SameCalls DEF RecoverExpired, Reoffer
<1>9. CASE LeaseExpires(o)
  <2>1. operation' = [operation EXCEPT ![o] = [operation[o] EXCEPT !.lease = "expired"]]
    BY <1>9 DEF LeaseExpires
  <2>2. operation' \in [Operations -> OperationRow]
    BY <2>1, Typed, OperationRows, Written
  <2>3. disturbances' \in 0 .. MaxDisturbances
    BY <1>9, Disturbed, Typed DEF LeaseExpires
  <2> QED
    BY <1>9, <2>2, <2>3, Typed, TypedNext, SameUnits, SameCalls DEF LeaseExpires
<1> QED
  BY <1>1, <1>3, <1>4, <1>6, <1>7, <1>8, <1>9 DEF Publish, Drain

LEMMA UnitWritten ==
    ASSUME TypeInv, NEW u \in Units, NEW r \in UnitRow, r.text <= r.source,
           unit' = [unit EXCEPT ![u] = r]
    PROVE  unit' \in [Units -> UnitRow] /\ TextBehindSource'
BY Typed DEF TextBehindSource, TypeInv

LEMMA EnvironmentTyped ==
    ASSUME TypeInv,
           (\E u \in Units : HumanEdits(u) \/ SourceChanges(u)) \/ ComponentLockToggles
    PROVE  TypeInv'
<1> USE DEF env, rows, outbox, spending, history
<1>1. CASE ComponentLockToggles
  BY <1>1, Disturbed, Typed, TypedNext, SameUnits, SameCalls DEF ComponentLockToggles
<1>2. ASSUME NEW u \in Units, NEW r \in UnitRow, r.text <= r.source, Edited(u, r)
      PROVE  TypeInv'
  BY <1>2, UnitWritten, Disturbed, Typed, TypedNext, SameCalls DEF Edited
<1>3. ASSUME NEW u \in Units, HumanEdits(u) \/ SourceChanges(u)
      PROVE  TypeInv'
  <2>1. unit[u] \in UnitRow /\ unit[u].text <= unit[u].source /\ MaxEdits \in Nat
    BY Bounds, Typed DEF TypeInv, TextBehindSource
  <2>2. CASE HumanEdits(u)
    <3>1. PICK t \in {"empty", "human"} :
              Edited(u, [unit[u] EXCEPT !.target = t, !.audit = unit[u].audit + 1])
      BY <2>2 DEF HumanEdits
    <3> DEFINE r == [unit[u] EXCEPT !.target = t, !.audit = unit[u].audit + 1]
    <3>2. r \in UnitRow /\ r.text <= r.source
      <4> DEFINE n == unit[u].audit + 1
      <4>1. n \in Nat
        BY <2>1 DEF UnitRow
      <4> HIDE DEF n
      <4>2. [unit[u] EXCEPT !.target = t, !.audit = n] \in UnitRow
        BY <2>1, <4>1 DEF UnitRow
      <4>3. [unit[u] EXCEPT !.target = t, !.audit = n].text = unit[u].text
            /\ [unit[u] EXCEPT !.target = t, !.audit = n].source = unit[u].source
        BY <2>1 DEF UnitRow
      <4> QED
        BY <2>1, <4>2, <4>3 DEF n
    <3> HIDE DEF r
    <3> QED
      BY <1>2, <3>1, <3>2 DEF r
  <2>3. CASE SourceChanges(u)
    <3> DEFINE n == unit[u].source + 1
               t == unit[u].text + 1
               a == unit[u].audit + 1
               p == [unit[u] EXCEPT !.source = n, !.audit = a, !.text = t]
               q == [unit[u] EXCEPT !.source = n]
    <3>1. unit[u].source < MaxEdits
      BY <2>3 DEF SourceChanges
    <3>2. n \in Edits /\ t \in Edits /\ t <= n /\ unit[u].text <= n /\ a \in Nat
      BY <2>1, <3>1 DEF UnitRow, Edits
    <3>3. Edited(u, p) \/ Edited(u, q)
      BY <2>3 DEF SourceChanges
    <3>4. p \in UnitRow /\ q \in UnitRow /\ p.text <= p.source /\ q.text <= q.source
      <4> HIDE DEF n, t, a
      <4>1. p \in UnitRow /\ q \in UnitRow
        BY <2>1, <3>2 DEF UnitRow
      <4>2. p.text = t /\ p.source = n /\ q.text = unit[u].text /\ q.source = n
        BY <2>1 DEF UnitRow
      <4> QED
        BY <3>2, <4>1, <4>2
    <3> HIDE DEF n, t, a, p, q
    <3> QED
      BY <1>2, <3>3, <3>4
  <2> QED
    BY <1>3, <2>2, <2>3
<1> QED
  BY <1>1, <1>3

LEMMA TranslatedRow ==
    ASSUME NEW r \in UnitRow
    PROVE  Translated(r) \in UnitRow /\ Translated(r).text = r.text
           /\ Translated(r).source = r.source
<1> DEFINE n == r.audit + 1
<1>1. n \in Nat /\ Translated(r) = [r EXCEPT !.target = "machine", !.audit = n]
  BY DEF UnitRow, Translated
<1> HIDE DEF n
<1> QED
  BY <1>1 DEF UnitRow

LEMMA ReconcileTyped ==
    ASSUME TypeInv, NEW o \in Operations, NEW renew \in BOOLEAN, NEW replay \in BOOLEAN,
           Reconcile(o, renew, replay)
    PROVE  TypeInv'
<1> DEFINE open == /\ (authorized[o] \/ renew) /\ writable
                   /\ ~Cancelled(o) /\ ~Active(o)
           found == [u \in Units |-> IF replay THEN Recovered(o, u) ELSE attempt[o][u]]
           after == [u \in Units |-> IF u \in batch[o] THEN Reconciled(found[u], u)
                                     ELSE found[u]]
<1>1. attempt' = IF open THEN [attempt EXCEPT ![o] = after] ELSE attempt
  BY DEF Reconcile
<1>2. \A u \in Units : attempt[o][u] \in AttemptRow
  BY Typed
<1>3. \A a \in AttemptRow : \A b \in Answers :
          /\ [a EXCEPT !.state = "received", !.answer = b] \in AttemptRow
          /\ [a EXCEPT !.state = "released"] \in AttemptRow
          /\ [a EXCEPT !.state = "applied"] \in AttemptRow
  BY AttemptRows DEF Settled
<1>4. \A a \in AttemptRow : /\ [a EXCEPT !.state = "released"] \in AttemptRow
                            /\ [a EXCEPT !.state = "applied"] \in AttemptRow
  BY AttemptRows DEF Settled
<1>5. \A u \in Units : Recovered(o, u) \in AttemptRow
  BY <1>2, <1>3 DEF Recovered
<1>6. \A u \in Units : found[u] \in AttemptRow
  BY <1>2, <1>5
<1> HIDE DEF found
<1>7. \A u \in Units : Reconciled(found[u], u) \in AttemptRow
  BY <1>4, <1>6 DEF Reconciled
<1>8. after \in [Units -> AttemptRow]
  BY <1>6, <1>7
<1>9. unit' = [u \in Units |->
                  IF open /\ after[u].state = "applied" /\ found[u].state = "received"
                  THEN Translated(unit[u]) ELSE unit[u]]
  BY DEF Reconcile, found
<1> HIDE DEF after, open
<1>10. attempt' \in [Operations -> [Units -> AttemptRow]]
  BY <1>1, <1>8, Typed
<1>11. \A u \in Units : Translated(unit[u]) \in UnitRow
                        /\ Translated(unit[u]).text = unit[u].text
                        /\ Translated(unit[u]).source = unit[u].source
  BY TranslatedRow, Typed
<1>12. unit' \in [Units -> UnitRow] /\ TextBehindSource'
  BY <1>9, <1>11, Typed DEF TypeInv, TextBehindSource
<1>13. authorized' \in [Operations -> BOOLEAN]
  BY Typed DEF Reconcile
<1> QED
  BY <1>10, <1>12, <1>13, Typed, TypedNext, SameCalls
  DEF Reconcile, rows, outbox, spending, history

(* The steps of a worker.                                                   *)
LEMMA CallRow ==
    ASSUME TypeInv, NEW w \in Workers, ~At(w, "idle")
    PROVE  /\ call[w] \in Call /\ call[w].op \in Operations
           /\ attempt[call[w].op] \in [Units -> AttemptRow]
           /\ \A u \in Units : attempt[call[w].op][u] \in AttemptRow
           /\ operation[call[w].op] \in OperationRow
BY Typed DEF TypeInv, CallsNamed, At

LEMMA TakeTyped ==
    ASSUME TypeInv, NEW w \in Workers, NEW o \in Operations,
           DropMessage(w, o) \/ EndCancelled(w, o) \/ TakeLease(w, o)
    PROVE  TypeInv'
<1> USE DEF env, rows, outbox, spending, history
<1>1. broker' \in [Operations -> Nat]
  <2>1. broker[o] > 0 /\ broker' = [broker EXCEPT ![o] = broker[o] - 1]
    BY DEF DropMessage, EndCancelled, TakeLease, Receive
  <2> QED
    BY <2>1, Typed
<1>2. CASE DropMessage(w, o)
  BY <1>1, <1>2, Typed, TypedNext, SameUnits, SameCalls DEF DropMessage
<1>3. CASE EndCancelled(w, o)
  <2>1. operation' = [operation EXCEPT ![o] = [operation[o] EXCEPT !.state = "failed"]]
    BY <1>3 DEF EndCancelled
  <2>2. operation' \in [Operations -> OperationRow]
    BY <2>1, Typed, OperationRows, Written DEF Terminal
  <2>3. run' = [run EXCEPT ![o] = [run[o] EXCEPT !.status = "cancelled"]]
    BY <1>3 DEF EndCancelled
  <2>4. run' \in [Operations -> RunRow]
    BY <2>3, Typed, RunRows DEF Statuses
  <2> DEFINE new == [u \in Units |-> IF attempt[o][u].state = "pending"
                        THEN [attempt[o][u] EXCEPT !.state = "failed"] ELSE attempt[o][u]]
  <2>9. \A a \in AttemptRow : [a EXCEPT !.state = "failed"] \in AttemptRow
    BY AttemptRows DEF Settled
  <2>8. \A u \in Units : [attempt[o][u] EXCEPT !.state = "failed"] \in AttemptRow
    BY <2>9, Typed
  <2>5. new \in [Units -> AttemptRow]
    BY <2>8, Typed
  <2>6. attempt' = [attempt EXCEPT ![o] = new]
    BY <1>3 DEF EndCancelled
  <2> HIDE DEF new
  <2>7. attempt' \in [Operations -> [Units -> AttemptRow]]
    BY <2>5, <2>6, Typed
  <2> QED
    BY <1>1, <1>3, <2>2, <2>4, <2>7, Typed, TypedNext, SameUnits, SameCalls DEF EndCancelled
<1>4. CASE TakeLease(w, o)
  <2> DEFINE next == [NoCall EXCEPT !.pc = "triage", !.op = o, !.todo = batch[o],
                                  !.permitted = Permitted(o),
                                  !.paused = o \in Delegated /\ ~Permitted(o)]
  <2>1. batch[o] \subseteq Units
    BY BatchTyped
  <2>2. Permitted(o) \in BOOLEAN /\ (o \in Delegated /\ ~Permitted(o)) \in BOOLEAN
    BY Typed DEF Permitted
  <2>3. next \in Call /\ next.op = o
    <3> DEFINE p == Permitted(o)
               q == o \in Delegated /\ ~Permitted(o)
    <3>1. p \in BOOLEAN /\ q \in BOOLEAN
      BY <2>2
    <3> HIDE DEF p, q
    <3>2. [NoCall EXCEPT !.pc = "triage", !.op = o, !.todo = batch[o],
                         !.permitted = p, !.paused = q] \in Call
      BY <2>1, <3>1, NoCallTyped DEF Call, Points
    <3> QED
      BY <3>2, NoCallTyped DEF Call, p, q
  <2>4. Continue(w, next)
    BY <1>4 DEF TakeLease
  <2> HIDE DEF next
  <2>5. call' \in [Workers -> Call] /\ CallsNamed'
    BY <2>3, <2>4, Continued
  <2>6. operation' = [operation EXCEPT ![o] = [state |-> "running", owner |-> w, lease |-> "live"]]
    BY <1>4 DEF TakeLease
  <2>7. [state |-> "running", owner |-> w, lease |-> "live"] \in OperationRow
    BY DEF OperationRow
  <2>8. operation' \in [Operations -> OperationRow]
    BY <2>6, <2>7, Typed
  <2>9. run' = [run EXCEPT ![o] = [run[o] EXCEPT !.status = "running"]]
    BY <1>4 DEF TakeLease
  <2>10. run' \in [Operations -> RunRow]
    BY <2>9, Typed, RunRows DEF Statuses
  <2> QED
    BY <1>1, <1>4, <2>5, <2>8, <2>10, Typed, TypedNext, SameUnits DEF TakeLease
<1> QED
  BY <1>2, <1>3, <1>4

LEMMA TriageMoves ==
    ASSUME TypeInv, NEW w \in Workers, NEW u \in Units, NEW selected \in SUBSET Units,
           ~At(w, "idle"), Triaged(w, u, selected) \/ LookedUp(w, u, selected)
    PROVE  call' \in [Workers -> Call] /\ CallsNamed'
<1> DEFINE left == call[w].todo \ {u}
<1>1. call[w] \in Call /\ call[w].op \in Operations
  BY CallRow
<1>2. left \in SUBSET Units /\ {} \in SUBSET Units
  BY <1>1 DEF Call
<1>3. \E t, s \in SUBSET Units, p \in Points :
        Continue(w, [call[w] EXCEPT !.todo = t, !.selected = s, !.pc = p])
  <2>1. CASE Triaged(w, u, selected) /\ left = {}
    <3> DEFINE p == IF selected = {} THEN "chunk" ELSE "lookup"
    <3>1. p \in Points
      BY DEF Points
    <3>2. Continue(w, [call[w] EXCEPT !.todo = selected, !.selected = {}, !.pc = p])
      BY <2>1 DEF Triaged
    <3> QED
      BY <1>2, <3>1, <3>2
  <2>2. CASE Triaged(w, u, selected) /\ left # {}
    <3> DEFINE p == call[w].pc
    <3>1. p \in Points
      BY <1>1 DEF Call
    <3>2. [call[w] EXCEPT !.todo = left, !.selected = selected, !.pc = p]
            = [call[w] EXCEPT !.todo = left, !.selected = selected]
      BY <1>1 DEF Call
    <3>3. Continue(w, [call[w] EXCEPT !.todo = left, !.selected = selected])
      BY <2>2 DEF Triaged
    <3> QED
      BY <1>2, <3>1, <3>2, <3>3
  <2>3. CASE LookedUp(w, u, selected)
    <3> DEFINE p == IF left = {} THEN "chunk" ELSE "lookup"
    <3>1. p \in Points
      BY DEF Points
    <3>2. Continue(w, [call[w] EXCEPT !.todo = left, !.selected = selected, !.pc = p])
      BY <2>3 DEF LookedUp
    <3> QED
      BY <1>2, <3>1, <3>2
  <2> QED
    BY <2>1, <2>2, <2>3
<1>4. PICK t, s \in SUBSET Units, p \in Points :
        Continue(w, [call[w] EXCEPT !.todo = t, !.selected = s, !.pc = p])
  BY <1>3
<1> DEFINE next == [call[w] EXCEPT !.todo = t, !.selected = s, !.pc = p]
<1>5. next \in Call /\ next.op = call[w].op
  BY <1>1 DEF Call
<1>6. Continue(w, next)
  BY <1>4
<1> HIDE DEF next
<1> QED
  BY <1>1, <1>5, <1>6, Continued

LEMMA TriageTyped ==
    ASSUME TypeInv, NEW w \in Workers, NEW u \in Units,
           \/ TriageKeeps(w, u) \/ TriageCloses(w, u) \/ TriageSelects(w, u)
           \/ LookupFinds(w, u) \/ LookupMisses(w, u)
    PROVE  TypeInv'
<1> USE DEF env, rows, outbox, spending, history
<1> DEFINE o == call[w].op
<1>1. ~At(w, "idle") /\ call[w] \in Call
  BY CallRow DEF TriageKeeps, TriageCloses, TriageSelects, LookupFinds, LookupMisses,
     InTriage, InLookup, At
<1>2. o \in Operations /\ attempt[o][u] \in AttemptRow
      /\ call[w].selected \in SUBSET Units /\ call[w].selected \cup {u} \in SUBSET Units
  BY <1>1, CallRow DEF Call
<1>3. call' \in [Workers -> Call] /\ CallsNamed'
  BY <1>1, <1>2, TriageMoves
  DEF TriageKeeps, TriageCloses, TriageSelects, LookupFinds, LookupMisses
<1>4. attempt' \in [Operations -> [Units -> AttemptRow]]
  <2>1. CASE TriageKeeps(w, u) \/ TriageSelects(w, u)
    BY <2>1, Typed DEF TriageKeeps, TriageSelects
  <2>2. CASE TriageCloses(w, u)
    <3>1. SetState(o, u, Closed(u)) \/ SetState(o, u, "failed")
      BY <2>2 DEF TriageCloses
    <3> QED
      BY <1>2, <3>1, StateWritten DEF Closed, Settled
  <2>3. CASE LookupFinds(w, u)
    <3>1. PICK b \in IF attempt[o][u].answer # "" THEN {attempt[o][u].answer} ELSE Answers :
            attempt' = [attempt EXCEPT ![o][u] =
                          [attempt[o][u] EXCEPT !.state = "received", !.answer = b]]
      BY <2>3 DEF LookupFinds
    <3>2. b \in Answers
      BY <1>2, <3>1 DEF AttemptRow
    <3> QED
      BY <1>2, <3>1, <3>2, AttemptRows, OneAttempt
  <2>4. CASE LookupMisses(w, u)
    BY <1>2, <2>4, Typed, StateWritten DEF LookupMisses, Settled
  <2> QED
    BY <2>1, <2>2, <2>3, <2>4
<1> QED
  BY <1>3, <1>4, Typed, TypedNext, SameUnits
  DEF TriageKeeps, TriageCloses, TriageSelects, LookupFinds, LookupMisses

(* A call goes on with a typed state for the same operation.                *)
LEMMA CallMoves ==
    ASSUME TypeInv, NEW w \in Workers, NEW next \in Call, next.op = call[w].op,
           ~At(w, "idle"), Continue(w, next)
    PROVE  call' \in [Workers -> Call] /\ CallsNamed'
BY CallRow, Continued

LEMMA PolicyRead ==
    ASSUME TypeInv, NEW w \in Workers, ~At(w, "idle"), NEW p \in Points,
           Continue(w, [call[w] EXCEPT !.pc = p, !.permitted = Permitted(call[w].op)])
    PROVE  call' \in [Workers -> Call] /\ CallsNamed'
<1> DEFINE c == Permitted(call[w].op)
           next == [call[w] EXCEPT !.pc = p, !.permitted = c]
<1>1. call[w] \in Call /\ Continue(w, next) /\ c \in BOOLEAN
  BY CallRow, Typed DEF Permitted
<1> HIDE DEF c
<1>2. next \in Call /\ next.op = call[w].op
  BY <1>1 DEF Call
<1> HIDE DEF next
<1> QED
  BY <1>1, <1>2, CallMoves

LEMMA KeysTyped ==
    ASSUME TypeInv, NEW w \in Workers, ~At(w, "idle"), NEW units \in SUBSET Units
    PROVE  KeysOf(w, units) \in SUBSET Keys
<1>1. ASSUME NEW u \in Units PROVE Key(w, u) \in Keys
  <2>1. attempt[call[w].op][u].source \in Edits /\ unit[u].source \in Edits
    BY CallRow, Typed DEF AttemptRow, UnitRow
  <2> QED
    BY <2>1 DEF Key, Keys
<1> QED
  BY <1>1 DEF KeysOf

LEMMA JournalRows ==
    ASSUME NEW r \in JournalRow
    PROVE  /\ [r EXCEPT !.stage = "committed"] \in JournalRow
           /\ \A b \in Answers \cup {"missing", "unusable"} : [r EXCEPT !.reply = b] \in JournalRow
BY DEF JournalRow

LEMMA GroupNamed ==
    ASSUME TypeInv, NEW w \in Workers
    PROVE  GroupUnits(w) \in SUBSET Units
BY Typed DEF GroupUnits, Call, Keys

LEMMA RepliesTyped ==
    ASSUME TypeInv, NEW w \in Workers,
           NEW reply \in [GroupUnits(w) -> Answers \cup {"missing", "unusable"}],
           SaveReplies(w, reply)
    PROVE  journal' \in [Keys -> JournalRow]
<1>1. \A k \in call[w].group : reply[k[1]] \in Answers \cup {"missing", "unusable"}
  BY DEF GroupUnits
<1>2. \A k \in Keys : journal[k] \in JournalRow
  BY Typed
<1>3. \A k \in Keys : k \in call[w].group => [journal[k] EXCEPT !.reply = reply[k[1]]] \in JournalRow
  BY <1>1, <1>2, JournalRows
<1> QED
  BY <1>2, <1>3 DEF SaveReplies

LEMMA AnsweredTyped ==
    ASSUME TypeInv, NEW w \in Workers, ~At(w, "idle"), NEW units, NEW left \in SUBSET Units,
           NEW reply, GroupAnswered(w, units, left, reply)
    PROVE  call' \in [Workers -> Call] /\ CallsNamed'
<1> DEFINE answers == [u \in Units |-> IF u \in units /\ reply[u] \in Answers
                                       THEN reply[u] ELSE call[w].answers[u]]
           p == IF left = {} THEN "store" ELSE "dispatch"
           t == IF left = {} THEN call[w].chunk ELSE left
           next == [call[w] EXCEPT !.answers = answers, !.group = {}, !.pc = p, !.todo = t]
<1>1. Continue(w, next)
  BY DEF GroupAnswered
<1>2. call[w] \in Call /\ call[w].answers \in [Units -> Answers \cup {None}]
      /\ call[w].chunk \in SUBSET Units
  BY CallRow DEF Call
<1>3. answers \in [Units -> Answers \cup {None}] /\ p \in Points /\ t \in SUBSET Units
  BY <1>2 DEF Points
<1> HIDE DEF answers, p, t
<1>4. next \in Call /\ next.op = call[w].op
  BY <1>2, <1>3 DEF Call
<1> HIDE DEF next
<1> QED
  BY <1>1, <1>4, CallMoves

LEMMA AskCallTyped ==
    ASSUME TypeInv, NEW w \in Workers,
           \/ AllReceived(w) \/ ChunkStops(w) \/ ChunkReads(w) \/ GuardRefuses(w)
           \/ CallRaises(w) \/ Transport(w)
           \/ \E units \in SUBSET Units : RequestChunk(w, units) \/ Claim(w, units)
    PROVE  call' \in [Workers -> Call] /\ CallsNamed'
<1> DEFINE o == call[w].op
<1>1. ~At(w, "idle")
  BY DEF AllReceived, ChunkStops, ChunkReads, GuardRefuses, CallRaises, Transport,
     RequestChunk, Claim, Dispatches, At
<1>2. call[w] \in Call
  BY <1>1, CallRow
<1>3. /\ call[w].todo \in SUBSET Units /\ call[w].selected \in SUBSET Units
      /\ call[w].chunk \in SUBSET Units
  BY <1>2 DEF Call
<1>4. CASE AllReceived(w)
  BY <1>1, <1>4, Moved DEF AllReceived, Points
<1>5. CASE ChunkStops(w)
  <2> DEFINE c == ~Cancelled(o)
             next == [call[w] EXCEPT !.pc = "apply", !.paused = c]
  <2>1. Continue(w, next) /\ c \in BOOLEAN
    BY <1>5 DEF ChunkStops
  <2> HIDE DEF c
  <2>2. next \in Call /\ next.op = call[w].op
    BY <1>2, <2>1 DEF Call, Points
  <2> HIDE DEF next
  <2> QED
    BY <1>1, <2>1, <2>2, CallMoves
<1>6. CASE GuardRefuses(w)
  <2> DEFINE next == [call[w] EXCEPT !.pc = "store", !.todo = call[w].chunk, !.outcome = "refused"]
  <2>1. Continue(w, next)
    BY <1>6 DEF GuardRefuses
  <2>2. next \in Call /\ next.op = call[w].op
    BY <1>2, <1>3 DEF Call, Points
  <2> HIDE DEF next
  <2> QED
    BY <1>1, <2>1, <2>2, CallMoves
<1>7. CASE CallRaises(w)
  <2> DEFINE next == [call[w] EXCEPT !.pc = "store", !.todo = call[w].chunk, !.group = {},
                                     !.outcome = "lost"]
  <2>1. Continue(w, next)
    BY <1>7 DEF CallRaises
  <2>2. next \in Call /\ next.op = call[w].op
    BY <1>2, <1>3 DEF Call, Points
  <2> HIDE DEF next
  <2> QED
    BY <1>1, <2>1, <2>2, CallMoves
<1>8. CASE Transport(w)
  BY <1>1, <1>8, Moved DEF Transport, Points
<1>9. ASSUME NEW units \in SUBSET Units, RequestChunk(w, units)
      PROVE  call' \in [Workers -> Call] /\ CallsNamed'
  <2> DEFINE requesting == {u \in units : Requested(w, u) = "requesting"}
             rest == call[w].selected \ units
             p == IF requesting = {} THEN "chunk" ELSE "dispatch"
             next == [call[w] EXCEPT !.selected = rest, !.chunk = requesting,
                                     !.todo = requesting, !.answers = NoAnswers, !.pc = p]
  <2>1. Continue(w, next)
    BY <1>9 DEF RequestChunk
  <2>2. requesting \in SUBSET Units /\ rest \in SUBSET Units /\ p \in Points
    BY <1>3 DEF Points
  <2>3. NoAnswers \in [Units -> Answers \cup {None}]
    BY DEF NoAnswers
  <2> HIDE DEF requesting, rest, p
  <2>4. next \in Call /\ next.op = call[w].op
    BY <1>2, <2>2, <2>3 DEF Call
  <2> HIDE DEF next
  <2> QED
    BY <1>1, <2>1, <2>4, CallMoves
<1>10. ASSUME NEW units \in SUBSET Units, Claim(w, units)
       PROVE  call' \in [Workers -> Call] /\ CallsNamed'
  <2> DEFINE g == KeysOf(w, units)
             rest == call[w].todo \ units
             next == [call[w] EXCEPT !.pc = "claimed", !.group = g, !.todo = rest]
  <2>1. Continue(w, next)
    BY <1>10 DEF Claim
  <2>2. g \in SUBSET Keys /\ rest \in SUBSET Units
    BY <1>1, <1>3, KeysTyped
  <2> HIDE DEF g, rest
  <2>3. next \in Call /\ next.op = call[w].op
    BY <1>2, <2>2 DEF Call, Points
  <2> HIDE DEF next
  <2> QED
    BY <1>1, <2>1, <2>3, CallMoves
<1>11. CASE ChunkReads(w)
  BY <1>1, <1>11, PolicyRead DEF ChunkReads, Points
<1> QED
  BY <1>4, <1>5, <1>6, <1>7, <1>8, <1>9, <1>10, <1>11

LEMMA AskTyped ==
    ASSUME TypeInv, NEW w \in Workers, Ask(w)
    PROVE  TypeInv'
<1> USE DEF env, rows, outbox, spending, history
<1> DEFINE o == call[w].op
<1>1. CASE AllReceived(w) \/ ChunkStops(w) \/ ChunkReads(w) \/ GuardRefuses(w)
  BY <1>1, AskCallTyped, Typed, TypedNext, SameUnits
  DEF AllReceived, ChunkStops, ChunkReads, GuardRefuses
<1>2. CASE Transport(w)
  <2>1. ~At(w, "idle") /\ o \in Operations
    BY <1>2, CallRow DEF Transport, At
  <2>2. \A k \in Keys : [journal[k] EXCEPT !.stage = "committed"] \in JournalRow
    BY Typed, JournalRows
  <2>3. journal' \in [Keys -> JournalRow]
    BY <1>2, <2>2, Typed DEF Transport
  <2>4. \A u \in Units : transported[o][u] \in Nat
    BY <2>1, Typed
  <2> DEFINE new == [u \in Units |-> IF u \in GroupUnits(w) THEN transported[o][u] + 1
                                     ELSE transported[o][u]]
  <2>5. new \in [Units -> Nat]
    BY <2>4
  <2>6. transported' = [transported EXCEPT ![o] = new]
    BY <1>2 DEF Transport
  <2> HIDE DEF new
  <2>7. transported' \in [Operations -> [Units -> Nat]]
    BY <2>5, <2>6, Typed
  <2> QED
    BY <1>2, <2>3, <2>7, AskCallTyped, Typed, TypedNext, SameUnits DEF Transport
<1>3. CASE CallRaises(w)
  <2>1. journal' \in [Keys -> JournalRow]
    <3>1. CASE UNCHANGED journal
      BY <3>1, Typed
    <3>2. CASE SaveReplies(w, [u \in GroupUnits(w) |-> "unusable"])
      BY <3>2, RepliesTyped
    <3> QED
      BY <1>3, <3>1, <3>2 DEF CallRaises
  <2> QED
    BY <1>3, <2>1, AskCallTyped, Typed, TypedNext, SameUnits DEF CallRaises
<1>4. ASSUME NEW units \in SUBSET Units, RequestChunk(w, units)
      PROVE  TypeInv'
  <2>1. ~At(w, "idle") /\ o \in Operations
    BY <1>4, CallRow DEF RequestChunk, At
  <2>2. \A a \in AttemptRow : /\ [a EXCEPT !.state = "requesting"] \in AttemptRow
                              /\ [a EXCEPT !.state = "failed"] \in AttemptRow
                              /\ [a EXCEPT !.state = "stale"] \in AttemptRow
                              /\ [a EXCEPT !.state = "skipped_nonempty"] \in AttemptRow
    BY AttemptRows DEF Settled
  <2>3. \A u \in Units : Requested(w, u) \in {"requesting", "failed", "stale", "skipped_nonempty"}
    BY DEF Requested, Closed
  <2>8. \A u \in Units : attempt[o][u] \in AttemptRow
    BY <2>1, Typed
  <2> HIDE DEF o
  <2>4. ASSUME NEW u \in Units
        PROVE  [attempt[o][u] EXCEPT !.state = Requested(w, u)] \in AttemptRow
    <3>1. PICK s \in {"requesting", "failed", "stale", "skipped_nonempty"} : Requested(w, u) = s
      BY <2>3
    <3>2. [attempt[o][u] EXCEPT !.state = s] \in AttemptRow
      BY <2>2, <2>8
    <3> QED
      BY <3>1, <3>2
  <2> USE DEF o
  <2> DEFINE new == [u \in Units |-> IF u \in units
                       THEN [attempt[o][u] EXCEPT !.state = Requested(w, u)] ELSE attempt[o][u]]
  <2>5. new \in [Units -> AttemptRow]
    BY <2>1, <2>4, Typed
  <2>6. attempt' = [attempt EXCEPT ![o] = new]
    BY <1>4 DEF RequestChunk
  <2> HIDE DEF new
  <2>7. attempt' \in [Operations -> [Units -> AttemptRow]]
    BY <2>1, <2>5, <2>6, Typed
  <2> QED
    BY <1>4, <2>7, AskCallTyped, Typed, TypedNext, SameUnits DEF RequestChunk
<1>5. ASSUME NEW units \in SUBSET Units, Claim(w, units)
      PROVE  TypeInv'
  <2>1. KeysOf(w, units) \in SUBSET Keys
    BY <1>5, KeysTyped DEF Claim, Dispatches, At
  <2>2. [stage |-> "claimed", members |-> KeysOf(w, units), reply |-> None] \in JournalRow
    BY <2>1 DEF JournalRow
  <2>3. journal' \in [Keys -> JournalRow]
    BY <1>5, <2>2, Typed DEF Claim
  <2> QED
    BY <1>5, <2>3, AskCallTyped, Typed, TypedNext, SameUnits DEF Claim
<1>6. ASSUME NEW units \in SUBSET Units, ReplaySaved(w, units)
      PROVE  TypeInv'
  <2>1. ~At(w, "idle") /\ call[w].todo \ units \in SUBSET Units
    BY <1>6, CallRow DEF ReplaySaved, Dispatches, At, Call
  <2>2. call' \in [Workers -> Call] /\ CallsNamed'
    BY <1>6, <2>1, AnsweredTyped DEF ReplaySaved
  <2> QED
    BY <1>6, <2>2, Typed, TypedNext, SameUnits DEF ReplaySaved
<1>7. ASSUME NEW reply \in [GroupUnits(w) -> Answers \cup {"missing"}], Reply(w, reply)
      PROVE  TypeInv'
  <2>1. ~At(w, "idle") /\ call[w].todo \in SUBSET Units
    BY <1>7, CallRow DEF Reply, At, Call
  <2>2. call' \in [Workers -> Call] /\ CallsNamed'
    BY <1>7, <2>1, AnsweredTyped DEF Reply
  <2>3. reply \in [GroupUnits(w) -> Answers \cup {"missing", "unusable"}]
    OBVIOUS
  <2>4. journal' \in [Keys -> JournalRow]
    BY <1>7, <2>3, RepliesTyped DEF Reply
  <2> QED
    BY <1>7, <2>2, <2>4, Typed, TypedNext, SameUnits DEF Reply
<1>8. ASSUME NEW u \in Units, StoreAnswer(w, u)
      PROVE  TypeInv'
  <2>1. ~At(w, "idle") /\ o \in Operations /\ attempt[o][u] \in AttemptRow
    BY <1>8, CallRow DEF StoreAnswer, At
  <2>2. PICK b : attempt' = [attempt EXCEPT ![o][u] =
             IF b \in Answers THEN [attempt[o][u] EXCEPT !.state = "received", !.answer = b]
             ELSE [attempt[o][u] EXCEPT !.state = Unanswered(w, u)]]
    BY <1>8 DEF StoreAnswer
  <2>3. \A a \in AttemptRow : /\ [a EXCEPT !.state = "failed"] \in AttemptRow
                              /\ [a EXCEPT !.state = "pending"] \in AttemptRow
                              /\ [a EXCEPT !.state = "provider_unknown"] \in AttemptRow
    BY AttemptRows DEF Settled
  <2>4. [attempt[o][u] EXCEPT !.state = Unanswered(w, u)] \in AttemptRow
    BY <2>1, <2>3 DEF Unanswered
  <2>5. attempt' \in [Operations -> [Units -> AttemptRow]]
    BY <2>1, <2>2, <2>4, AttemptRows, OneAttempt
  <2>6. call' \in [Workers -> Call] /\ CallsNamed'
    <3> DEFINE left == call[w].todo \ {u}
               p == IF call[w].outcome = "answered" THEN "chunk" ELSE "apply"
               r == call[w].outcome = "refused"
               n1 == [call[w] EXCEPT !.todo = left]
               n2 == [call[w] EXCEPT !.todo = {}, !.chunk = {}, !.answers = NoAnswers,
                           !.pc = p, !.paused = r, !.outcome = "answered"]
    <3>1. Continue(w, IF left # {} THEN n1 ELSE n2)
      BY <1>8 DEF StoreAnswer
    <3>2. call[w] \in Call
      BY <2>1, CallRow
    <3>3. left \in SUBSET Units /\ p \in Points /\ r \in BOOLEAN
          /\ NoAnswers \in [Units -> Answers \cup {None}]
      BY <3>2 DEF Call, Points, NoAnswers
    <3> HIDE DEF left, p, r
    <3>4. n1 \in Call /\ n1.op = call[w].op
      BY <3>2, <3>3 DEF Call
    <3>5. n2 \in Call /\ n2.op = call[w].op
      BY <3>2, <3>3 DEF Call
    <3> HIDE DEF n1, n2
    <3> QED
      BY <2>1, <3>1, <3>4, <3>5, CallMoves
  <2> QED
    BY <1>8, <2>5, <2>6, Typed, TypedNext, SameUnits DEF StoreAnswer
<1> QED
  BY <1>1, <1>2, <1>3, <1>4, <1>5, <1>6, <1>7, <1>8 DEF Ask

LEMMA FinishTyped ==
    ASSUME TypeInv, NEW w \in Workers, Finish(w) \/ OwnershipLost(w) \/ Crash(w)
    PROVE  TypeInv'
<1> USE DEF env, rows, outbox, spending, history
<1> DEFINE o == call[w].op
<1>1. CASE ApplyStops(w) \/ ApplyReads(w) \/ AllApplied(w) \/ FinishReads(w)
  <2>1. ~At(w, "idle")
    BY <1>1 DEF ApplyStops, ApplyReads, AllApplied, FinishReads, InApply, At
  <2>2. call[w] \in Call
    BY <2>1, CallRow
  <2>5. ASSUME ApplyReads(w) PROVE call' \in [Workers -> Call] /\ CallsNamed'
    <3>1. "applying" \in Points
      BY DEF Points
    <3>2. Continue(w, [call[w] EXCEPT !.pc = "applying", !.permitted = Permitted(call[w].op)])
      BY <2>5 DEF ApplyReads
    <3> QED
      BY <2>1, <3>1, <3>2, PolicyRead
  <2>3. ASSUME ~ApplyReads(w)
        PROVE  \E next \in Call : next.op = call[w].op /\ Continue(w, next)
    <3>1. CASE ApplyStops(w)
      <4> DEFINE p == call[w].paused \/ ~Cancelled(call[w].op)
                 next == [call[w] EXCEPT !.pc = "finish", !.paused = p]
      <4>1. p \in BOOLEAN /\ Continue(w, next)
        BY <2>2, <3>1 DEF ApplyStops, Call
      <4> HIDE DEF p
      <4>2. next \in Call /\ next.op = call[w].op
        BY <2>2, <4>1 DEF Call, Points
      <4> QED
        BY <4>1, <4>2
    <3>2. CASE AllApplied(w)
      <4>1. [call[w] EXCEPT !.pc = "finish"] \in Call
            /\ [call[w] EXCEPT !.pc = "finish"].op = call[w].op
        BY <2>2 DEF Call, Points
      <4> QED
        BY <3>2, <4>1 DEF AllApplied, Goto
    <3>3. CASE FinishReads(w)
      <4> DEFINE c == Cancelled(call[w].op)
                 next == [call[w] EXCEPT !.pc = "finishing", !.cancelled = c]
      <4>1. c \in BOOLEAN /\ Continue(w, next)
        BY <3>3 DEF FinishReads, Cancelled
      <4> HIDE DEF c
      <4>2. next \in Call /\ next.op = call[w].op
        BY <2>2, <4>1 DEF Call, Points
      <4> QED
        BY <4>1, <4>2
    <3> QED
      BY <1>1, <2>3, <3>1, <3>2, <3>3
  <2>4. call' \in [Workers -> Call] /\ CallsNamed'
    BY <2>1, <2>3, <2>5, CallMoves
  <2> QED
    BY <1>1, <2>4, Typed, TypedNext, SameUnits
    DEF ApplyStops, ApplyReads, AllApplied, FinishReads
<1>2. CASE FinishWrites(w)
  <2>1. ~At(w, "idle") /\ o \in Operations
    BY <1>2, CallRow DEF FinishWrites, At
  <2>2. OperationEnd(w) \in Terminal
    BY DEF OperationEnd, FinalState, Terminal
  <2>3. [state |-> OperationEnd(w), owner |-> None, lease |-> "none"] \in OperationRow
    BY <2>2 DEF OperationRow
  <2>4. operation' \in [Operations -> OperationRow]
    BY <1>2, <2>1, <2>3, Typed DEF FinishWrites
  <2> DEFINE s == IF call[w].cancelled THEN "cancelled"
                  ELSE IF OperationEnd(w) = "completed" THEN "completed" ELSE "partial"
  <2>5. s \in Statuses /\ run' = [run EXCEPT ![o] = [run[o] EXCEPT !.status = s]]
    BY <1>2 DEF FinishWrites, Statuses
  <2> HIDE DEF s
  <2>6. run' \in [Operations -> RunRow]
    BY <2>1, <2>5, Typed, RunRows
  <2>7. call' \in [Workers -> Call] /\ CallsNamed'
    BY <1>2, Left DEF FinishWrites
  <2> QED
    BY <1>2, <2>4, <2>6, <2>7, Typed, TypedNext, SameUnits DEF FinishWrites
<1>3. ASSUME NEW u \in Units, Apply(w, u) \/ ApplyRefused(w, u)
      PROVE  TypeInv'
  <2>1. ~At(w, "idle") /\ o \in Operations
    BY <1>3, CallRow DEF Apply, ApplyRefused, Serves, At
  <2>4. call' \in [Workers -> Call] /\ CallsNamed'
    BY <1>3, <2>1, Moved DEF Apply, ApplyRefused, Points
  <2>2. attempt' \in [Operations -> [Units -> AttemptRow]]
    <3>1. \E s \in Settled : SetState(o, u, s)
      BY <1>3 DEF Apply, ApplyRefused, Closed, Settled
    <3> QED
      BY <2>1, <3>1, StateWritten
  <2>3. unit' \in [Units -> UnitRow] /\ TextBehindSource'
    <3>1. CASE Apply(w, u)
      <4>1. unit' = [unit EXCEPT ![u] = Translated(unit[u])]
        BY <3>1 DEF Apply
      <4>2. Translated(unit[u]) \in UnitRow /\ Translated(unit[u]).text <= Translated(unit[u]).source
        BY TranslatedRow, Typed DEF TypeInv, TextBehindSource
      <4> QED
        BY <4>1, <4>2, UnitWritten
    <3>2. CASE ApplyRefused(w, u)
      BY <3>2, SameUnits DEF ApplyRefused
    <3> QED
      BY <1>3, <3>1, <3>2
  <2> QED
    BY <1>3, <2>2, <2>3, <2>4, Typed, TypedNext DEF Apply, ApplyRefused
<1>4. CASE OwnershipLost(w)
  BY <1>4, Left, Typed, TypedNext, SameUnits DEF OwnershipLost
<1>5. CASE Crash(w)
  <2>1. o \in Operations
    BY <1>5, CallRow DEF Crash
  <2>2. broker' \in [Operations -> Nat]
    BY <1>5, <2>1, Typed DEF Crash
  <2> QED
    BY <1>5, <2>2, Left, Disturbed, Typed, TypedNext, SameUnits DEF Crash
<1> QED
  BY <1>1, <1>2, <1>3, <1>4, <1>5 DEF Finish

LEMMA TypeStep == TypeInv /\ [Next]_vars => TypeInv'
<1> SUFFICES ASSUME TypeInv, [Next]_vars PROVE TypeInv'
  OBVIOUS
<1>1. CASE UNCHANGED vars
  BY <1>1, Typed, TypedNext, SameUnits, SameCalls
  DEF vars, env, rows, outbox, spending, history
<1>2. CASE Next
  BY <1>2, RequestTyped, DispatchTyped, EnvironmentTyped, ReconcileTyped, TakeTyped,
     TriageTyped, AskTyped, FinishTyped
  DEF Next, Step, Take, Triage
<1> QED
  BY <1>1, <1>2

(* In every reachable state units, receipts, attempts, runs, messages,      *)
(* publishers, calls, the journal and the histories have their types: every *)
(* stored state is one the code knows.                                      *)
THEOREM TypeCorrect == Spec => []TypeOK
<1>1. TypeInv => TypeOK
  BY DEF TypeInv
<1> QED
  BY <1>1, TypeInit, TypeStep, PTL DEF Spec

-----------------------------------------------------------------------------
(* Control: who may still change the attempts of a receipt.                 *)

(* A receipt that was not accepted has no message, publisher, call or       *)
(* attempt.                                                                 *)
Untouched(o) ==
    /\ broker[o] = 0 /\ publishing[o].step = "idle" /\ operation[o].lease = "none"
    /\ \A u \in Units : attempt[o][u].state = "absent"
    /\ \A w \in Workers : call[w].op # o
AbsentIsUntouched ==
    \A o \in Operations : operation[o].state = "absent" => Untouched(o)

(* A worker only holds the lease of a receipt that ended if a cancellation  *)
(* ended it.                                                                *)
EndedByCancel(o) ==
    operation[o].state = "failed" /\ (Cancelled(o) \/ overwritten[o])
EndedIsLeft ==
    \A o \in Operations :
        operation[o].state \in Terminal /\ operation[o].lease = "live" => EndedByCancel(o)

(* A transaction that keeps the row locked is the owner's; after a           *)
(* cancellation ended the receipt only the final one goes on.               *)
Locked == Writing \cup {"finishing"}
Locking(w) == call[w].pc \in Locked
Held(w) ==
    /\ Owned(w)
    /\ operation[call[w].op].state \in Terminal =>
          /\ operation[call[w].op].state = "failed"
          /\ overwritten[call[w].op] \/ (At(w, "finishing") /\ call[w].cancelled)
LockIsOwned == \A w \in Workers : Locking(w) => Held(w)

(* What the selection loop chose is not settled, the units a lease owner    *)
(* goes on with are open, those it requested are "requesting", unless a     *)
(* cancellation ended the receipt meanwhile.                                *)
Undecided(w, u) ==
    attempt[call[w].op][u].state \in Settled =>
        /\ attempt[call[w].op][u].state = "failed"
        /\ operation[call[w].op].state \in Terminal
Open(w, u) == attempt[call[w].op][u].state \notin Settled \cup {"requesting"}
Requesting(w, u) == attempt[call[w].op][u].state = "requesting"
Selecting == {"lookup", "chunk", "requesting", "dispatch", "claimed", "wait", "store"}
Sending == {"dispatch", "claimed", "wait"}
Works(w) ==
    /\ call[w].pc \in {"triage", "lookup"} => call[w].todo \cap call[w].selected = {}
    /\ At(w, "triage") => \A u \in call[w].selected : Undecided(w, u)
    /\ At(w, "lookup") => \A u \in call[w].todo : Undecided(w, u)
    /\ call[w].pc \in Selecting =>
          \/ operation[call[w].op].state \in Terminal
          \/ \A u \in call[w].selected : Open(w, u)
    /\ call[w].pc \in Sending =>
          call[w].todo \subseteq call[w].chunk /\ \A u \in call[w].chunk : Requesting(w, u)
    /\ At(w, "store") => \A u \in call[w].todo : Requesting(w, u)
OwnerWorks == \A w \in Workers : ~At(w, "idle") /\ Owned(w) => Works(w)

ControlInv ==
    /\ TypeInv /\ AbsentIsUntouched /\ EndedIsLeft /\ LockIsOwned
    /\ CompletedIsCovered /\ OwnerWorks

LEMMA ControlTyped == ControlInv => TypeInv
BY DEF ControlInv

LEMMA ControlInit == Init => ControlInv
<1> SUFFICES ASSUME Init PROVE ControlInv
  OBVIOUS
<1>1. \A w \in Workers : call[w].pc = "idle" /\ call[w].op = None
  BY DEF Init, NoCall
<1>2. None \notin Operations
  BY MTAssumption
<1>3. AbsentIsUntouched
  BY <1>1, <1>2 DEF Init, AbsentIsUntouched, Untouched
<1>4. EndedIsLeft /\ CompletedIsCovered
  BY DEF Init, EndedIsLeft, CompletedIsCovered, Terminal
<1>5. LockIsOwned /\ OwnerWorks
  BY <1>1 DEF LockIsOwned, OwnerWorks, At, Locking, Locked, Writing
<1> QED
  BY <1>3, <1>4, <1>5, TypeInit DEF ControlInv

(* A receipt has one owner.                                                 *)
LEMMA OneOwner ==
    ASSUME NEW v, NEW w, Owned(v), Owned(w), call[v].op = call[w].op
    PROVE  v = w
BY DEF Owned

(* Steps that leave receipts, attempts and calls alone.                     *)
LEMMA ControlFrame ==
    ASSUME ControlInv, TypeInv', UNCHANGED <<operation, attempt, call, batch>>,
           \A o \in Operations : operation[o].state = "absent" =>
               broker'[o] = 0 /\ publishing'[o].step = "idle",
           \A o \in Operations : overwritten[o] => overwritten'[o],
           \A o \in Operations : operation[o].state \in Terminal /\ Cancelled(o) =>
               Cancelled(o)' \/ overwritten'[o]
    PROVE  ControlInv'
<1>1. AbsentIsUntouched'
  BY DEF ControlInv, AbsentIsUntouched, Untouched
<1>2. EndedIsLeft'
  BY DEF ControlInv, EndedIsLeft, EndedByCancel
<1>3. LockIsOwned'
  <2> SUFFICES ASSUME NEW w \in Workers, Locking(w)' PROVE Held(w)'
    BY DEF LockIsOwned
  <2>1. Locking(w) /\ Held(w) /\ call[w].op \in Operations
    BY DEF ControlInv, LockIsOwned, TypeInv, CallsNamed, Locking, Locked, Writing
  <2> QED
    BY <2>1 DEF Held, Owned, At
<1>4. CompletedIsCovered'
  BY DEF ControlInv, CompletedIsCovered, States
<1>5. OwnerWorks'
  BY DEF ControlInv, OwnerWorks, Works, At, Owned, Open, Requesting, Undecided
<1> QED
  BY <1>1, <1>2, <1>3, <1>4, <1>5 DEF ControlInv

LEMMA SameControl == ASSUME ControlInv, UNCHANGED vars PROVE ControlInv'
<1> USE DEF vars, env, rows, outbox, spending, history
<1>1. TypeInv'
  BY TypeStep, ControlTyped
<1> QED
  BY <1>1, ControlFrame DEF ControlInv, AbsentIsUntouched, Untouched, Cancelled

LEMMA RequestsControlled ==
    ASSUME ControlInv, TypeInv', NEW o \in Operations,
           RetryDispatch(o) \/ CancelReads(o) \/ CancelSaves(o) \/ RightsChange(o)
    PROVE  ControlInv'
<1> USE DEF env, rows, outbox, spending, history
<1>1. \A p \in Operations : Cancelled(p) => Cancelled(p)'
  <2>1. CASE run' = run
    BY <2>1 DEF Cancelled
  <2>2. CASE RetryDispatch(o)
    BY <2>2, ControlTyped, Typed DEF RetryDispatch, Retryable, Cancelled
  <2>3. CASE CancelSaves(o)
    BY <2>3, ControlTyped, Typed DEF CancelSaves, Cancelled, RunRow
  <2> QED
    BY <2>1, <2>2, <2>3 DEF CancelReads, RightsChange
<1> QED
  BY <1>1, ControlFrame
  DEF RetryDispatch, CancelReads, CancelSaves, RightsChange, ControlInv,
      AbsentIsUntouched, Untouched

LEMMA PublishingControlled ==
    ASSUME ControlInv, TypeInv', NEW o \in Operations,
           Publish(o) \/ BrokerFails(o) \/ PublisherDies(o) \/ Reoffer(o)
    PROVE  ControlInv'
<1> USE DEF env, rows, outbox, spending, history
<1>1. \A p \in Operations : overwritten[p] => overwritten'[p]
  BY ControlTyped, Typed
  DEF Publish, PublishBegins, BrokerAccepts, MarkPublished, CountFailure, BrokerFails,
      PublisherDies, Reoffer
<1>2. \A p \in Operations : Cancelled(p) => Cancelled(p)' \/ overwritten'[p]
  <2>1. CASE run' = run
    BY <2>1 DEF Cancelled
  <2>2. CASE MarkPublished(o) \/ Reoffer(o)
    <3>2. \A r \in RunRow : /\ [r EXCEPT !.published = TRUE, !.error = FALSE].status = r.status
                            /\ [r EXCEPT !.published = FALSE].status = r.status
      BY DEF RunRow
    <3>3. \/ run' = run
          \/ run' = [run EXCEPT ![o] = [run[o] EXCEPT !.published = TRUE, !.error = FALSE]]
          \/ run' = [run EXCEPT ![o] = [run[o] EXCEPT !.published = FALSE]]
      BY <2>2 DEF MarkPublished, Reoffer
    <3>4. run[o] \in RunRow /\ run \in [Operations -> RunRow]
      BY ControlTyped, Typed
    <3>5. run' = run \/ \E r : run' = [run EXCEPT ![o] = r] /\ r.status = run[o].status
      BY <3>2, <3>3, <3>4
    <3>1. \A p \in Operations : run'[p].status = run[p].status
      BY <3>4, <3>5
    <3> QED
      BY <3>1 DEF Cancelled
  <2>3. CASE CountFailure(o)
    <3>1. \A p \in Operations : p # o => run'[p] = run[p]
      BY <2>3, ControlTyped, Typed DEF CountFailure
    <3>2. run'[o].status \in {run[o].status, "failed"}
      <4>1. CASE run' = run
        BY <4>1
      <4>2. CASE run' = [run EXCEPT ![o] = CountedFailure(run[o])]
        <5>1. run[o] \in RunRow /\ run'[o] = CountedFailure(run[o])
          BY <4>2, ControlTyped, Typed
        <5>2. CountedFailure(run[o]).status \in {run[o].status, "failed"}
          BY <5>1 DEF CountedFailure, RunRow
        <5> QED
          BY <5>1, <5>2
      <4> QED
        BY <2>3, <4>1, <4>2 DEF CountFailure
    <3>3. Cancelled(o) /\ run'[o].status = "failed" => overwritten'[o]
      BY <2>3, ControlTyped, Typed DEF CountFailure
    <3> QED
      BY <3>1, <3>2, <3>3 DEF Cancelled
  <2> QED
    BY <2>1, <2>2, <2>3 DEF Publish, PublishBegins, BrokerAccepts, BrokerFails, PublisherDies
<1>3. \A p \in Operations : operation[p].state = "absent" =>
          broker'[p] = 0 /\ publishing'[p].step = "idle"
  <2> SUFFICES ASSUME NEW p \in Operations, operation[p].state = "absent"
               PROVE  broker'[p] = 0 /\ publishing'[p].step = "idle"
    OBVIOUS
  <2>1. broker[p] = 0 /\ publishing[p].step = "idle"
    BY DEF ControlInv, AbsentIsUntouched, Untouched
  <2>2. CASE PublishBegins(o) \/ BrokerAccepts(o) \/ BrokerFails(o) \/ MarkPublished(o)
             \/ CountFailure(o) \/ PublisherDies(o)
    <3>1. p # o /\ broker'[p] = broker[p] /\ publishing'[p] = publishing[p]
      BY <2>1, <2>2, ControlTyped, Typed
      DEF PublishBegins, BrokerAccepts, BrokerFails, MarkPublished, CountFailure,
          PublisherDies, PublishEnds
    <3> QED
      BY <2>1, <3>1
  <2>3. CASE Reoffer(o)
    <3>1. p # o
      BY <2>3 DEF Reoffer
    <3> QED
      BY <2>1, <2>3, <3>1, ControlTyped, Typed DEF Reoffer, NewTask
  <2> QED
    BY <2>2, <2>3 DEF Publish
<1> QED
  BY <1>1, <1>2, <1>3, ControlFrame
  DEF Publish, PublishBegins, BrokerAccepts, MarkPublished, CountFailure, BrokerFails,
      PublisherDies, Reoffer

LEMMA EnvironmentControlled ==
    ASSUME ControlInv, TypeInv',
           (\E u \in Units : HumanEdits(u) \/ SourceChanges(u)) \/ ComponentLockToggles
    PROVE  ControlInv'
<1> USE DEF env, rows, outbox, spending, history
<1>1. UNCHANGED <<operation, run, attempt, call, batch, broker, publishing, overwritten>>
  BY DEF HumanEdits, SourceChanges, ComponentLockToggles, Edited
<1> QED
  BY <1>1, ControlFrame DEF ControlInv, AbsentIsUntouched, Untouched, Cancelled

(* A step of a worker inside its call.                                      *)
LEMMA WorkerFrame ==
    ASSUME ControlInv, TypeInv', NEW w \in Workers, ~At(w, "idle"), NEW next,
           Continue(w, next), next.op = call[w].op, next.pc # "idle",
           next.pc \notin Locked \/ Held(w)',
           UNCHANGED <<operation, batch, broker, publishing, overwritten, run>>,
           \A p \in Operations : p # call[w].op => attempt'[p] = attempt[p],
           attempt' = attempt \/ Owned(w),
           Owned(w) => Works(w)'
    PROVE  ControlInv'
<1> DEFINE o == call[w].op
<1>1. TypeInv /\ o \in Operations /\ operation[o].state # "absent"
  BY ControlTyped, CallRow DEF ControlInv, AbsentIsUntouched, Untouched
<1>2. \A v \in Workers : call'[v].op = call[v].op
                         /\ call'[v] = IF v = w THEN next ELSE call[v]
  BY <1>1, Continued
<1>3. AbsentIsUntouched'
  <2>1. ASSUME NEW p \in Operations, operation[p].state = "absent" PROVE Untouched(p)'
    <3>1. Untouched(p) /\ p # o
      BY <1>1, <2>1 DEF ControlInv, AbsentIsUntouched
    <3>2. attempt'[p] = attempt[p]
      BY <3>1
    <3> QED
      BY <1>2, <3>1, <3>2 DEF Untouched
  <2> QED
    BY <2>1 DEF AbsentIsUntouched
<1>4. EndedIsLeft'
  BY DEF ControlInv, EndedIsLeft, EndedByCancel, Cancelled
<1>5. LockIsOwned'
  <2> SUFFICES ASSUME NEW v \in Workers, Locking(v)' PROVE Held(v)'
    BY DEF LockIsOwned
  <2>1. CASE v = w
    BY <1>2, <2>1 DEF Locking
  <2>2. CASE v # w
    <3>1. call'[v] = call[v] /\ Locking(v)
      BY <1>2, <2>2 DEF Locking
    <3>2. Held(v)
      BY <3>1 DEF ControlInv, LockIsOwned
    <3> QED
      BY <3>1, <3>2 DEF Held, Owned, At
  <2> QED
    BY <2>1, <2>2
<1>6. CompletedIsCovered'
  <2>1. ASSUME NEW p \in Operations, operation[p].state = "completed"
        PROVE  attempt'[p] = attempt[p]
    <3>1. CASE p = o /\ Owned(w)
      <4>1. operation[p].lease = "live"
        BY <3>1 DEF Owned
      <4> QED
        BY <2>1, <4>1 DEF ControlInv, EndedIsLeft, EndedByCancel, Terminal
    <3> QED
      BY <3>1
  <2> QED
    BY <2>1 DEF ControlInv, CompletedIsCovered, States
<1>7. OwnerWorks'
  <2> SUFFICES ASSUME NEW v \in Workers, ~At(v, "idle")', Owned(v)' PROVE Works(v)'
    BY DEF OwnerWorks
  <2>1. Owned(v)
    BY <1>2 DEF Owned
  <2>2. CASE v = w
    BY <2>1, <2>2
  <2>3. CASE v # w
    <3>1. call'[v] = call[v] /\ ~At(v, "idle")
      BY <1>2, <2>3 DEF At
    <3>2. Works(v) /\ call[v].op \in Operations
      BY <1>1, <2>1, <3>1, CallRow DEF ControlInv, OwnerWorks
    <3>3. attempt'[call[v].op] = attempt[call[v].op]
      BY <2>1, <2>3, <3>2, OneOwner
    <3> QED
      BY <3>1, <3>2, <3>3 DEF Works, At, Open, Requesting, Undecided
  <2> QED
    BY <2>2, <2>3
<1> QED
  BY <1>3, <1>4, <1>5, <1>6, <1>7 DEF ControlInv

LEMMA Working ==
    ASSUME ControlInv, NEW w \in Workers, ~At(w, "idle"), Owned(w)
    PROVE  Works(w)
BY DEF ControlInv, OwnerWorks

(* Only one attempt of the call's receipt is written.                       *)
LEMMA OneState ==
    ASSUME TypeInv, NEW o \in Operations, NEW u \in Units, NEW s, SetState(o, u, s)
    PROVE  /\ \A p \in Operations : p # o => attempt'[p] = attempt[p]
           /\ \A v \in Units : v # u => attempt'[o][v] = attempt[o][v]
           /\ attempt'[o][u] = [attempt[o][u] EXCEPT !.state = s]
           /\ attempt'[o][u].state = s
<1>5. attempt[o][u] \in AttemptRow
  BY Typed
<1>1. [attempt[o][u] EXCEPT !.state = s].state = s
  BY <1>5 DEF AttemptRow
<1>2. attempt' = [attempt EXCEPT ![o][u] = [attempt[o][u] EXCEPT !.state = s]]
  BY DEF SetState
<1> DEFINE r == [attempt[o][u] EXCEPT !.state = s]
<1> HIDE DEF r
<1>3. attempt' = [attempt EXCEPT ![o][u] = r]
  BY <1>2 DEF r
<1>4. /\ \A p \in Operations : p # o => attempt'[p] = attempt[p]
      /\ \A v \in Units : v # u => attempt'[o][v] = attempt[o][v]
      /\ attempt'[o][u] = r
  BY <1>3, Typed
<1> QED
  BY <1>1, <1>4 DEF r

(* One attempt of the call's receipt gets a free or saved answer.           *)
LEMMA OneAnswer ==
    ASSUME TypeInv, NEW o \in Operations, NEW u \in Units, NEW b,
           attempt' = [attempt EXCEPT ![o][u] =
                         [attempt[o][u] EXCEPT !.state = "received", !.answer = b]]
    PROVE  /\ \A p \in Operations : p # o => attempt'[p] = attempt[p]
           /\ \A v \in Units : v # u => attempt'[o][v] = attempt[o][v]
<1> DEFINE r == [attempt[o][u] EXCEPT !.state = "received", !.answer = b]
<1>1. attempt' = [attempt EXCEPT ![o][u] = r]
  OBVIOUS
<1> HIDE DEF r
<1> QED
  BY <1>1, Typed

LEMMA TriageControlled ==
    ASSUME ControlInv, TypeInv', NEW w \in Workers, NEW u \in Units,
           TriageKeeps(w, u) \/ TriageCloses(w, u) \/ TriageSelects(w, u)
    PROVE  ControlInv'
<1> USE DEF env, rows, outbox, spending, history
<1> DEFINE o == call[w].op
           left == call[w].todo \ {u}
<1>1. InTriage(w, u)
  BY DEF TriageKeeps, TriageCloses, TriageSelects
<1>2. At(w, "triage") /\ ~At(w, "idle") /\ Owned(w) /\ TypeInv /\ u \in call[w].todo
  BY <1>1, ControlTyped DEF InTriage, InTransaction, At
<1>3. o \in Operations /\ call[w] \in Call /\ Works(w)
  BY <1>2, CallRow, Working
<1>4. PICK selected : /\ selected = call[w].selected \/ selected = call[w].selected \cup {u}
                      /\ Triaged(w, u, selected)
                      /\ u \in selected => Undecided(w, u) /\ UNCHANGED attempt
  <2>1. CASE TriageSelects(w, u)
    BY <2>1 DEF TriageSelects, Undecided, Selectable
  <2>2. CASE TriageKeeps(w, u) \/ TriageCloses(w, u)
    <3>1. Triaged(w, u, call[w].selected)
      BY <2>2 DEF TriageKeeps, TriageCloses
    <3>2. u \notin call[w].selected
      BY <1>2, <1>3 DEF Works, At
    <3> QED
      BY <3>1, <3>2
  <2> QED
    BY <2>1, <2>2
<1>5. PICK next : /\ Continue(w, next) /\ next.op = o
                  /\ \/ /\ next.pc = "triage" /\ next.todo = left /\ next.selected = selected
                     \/ /\ next.pc \in {"lookup", "chunk"}
                        /\ next.todo = selected /\ next.selected = {}
  <2>1. CASE left # {}
    <3> DEFINE n == [call[w] EXCEPT !.todo = left, !.selected = selected]
    <3>1. Continue(w, n)
      BY <1>4, <2>1 DEF Triaged
    <3>2. n.op = o /\ n.pc = "triage" /\ n.todo = left /\ n.selected = selected
      BY <1>2, <1>3 DEF Call, At
    <3> QED
      BY <3>1, <3>2
  <2>2. CASE left = {}
    <3> DEFINE p == IF selected = {} THEN "chunk" ELSE "lookup"
               n == [call[w] EXCEPT !.todo = selected, !.selected = {}, !.pc = p]
    <3>1. Continue(w, n) /\ p \in {"lookup", "chunk"}
      BY <1>4, <2>2 DEF Triaged
    <3> HIDE DEF p
    <3>2. n.op = o /\ n.pc = p /\ n.todo = selected /\ n.selected = {}
      BY <1>3 DEF Call
    <3> QED
      BY <3>1, <3>2
  <2> QED
    BY <2>1, <2>2
<1>6. /\ \A p \in Operations : p # o => attempt'[p] = attempt[p]
      /\ \A v \in Units : v # u => attempt'[o][v] = attempt[o][v]
  <2>1. CASE attempt' = attempt
    BY <2>1
  <2>2. CASE \E s : SetState(o, u, s)
    BY <1>2, <1>3, <2>2, OneState
  <2> QED
    BY <2>1, <2>2 DEF TriageKeeps, TriageCloses, TriageSelects
<1>7. Works(w)'
  <2>1. call'[w] = next
    BY <1>2, <1>5, Continued
  <2>2. UNCHANGED operation
    BY DEF TriageKeeps, TriageCloses, TriageSelects
  <2>3. next.pc \in {"triage", "lookup"} => next.todo \cap next.selected = {}
    BY <1>2, <1>3, <1>4, <1>5 DEF Works, At
  <2>4. ASSUME NEW v \in selected
        PROVE  attempt'[o][v].state \in Settled =>
                 attempt'[o][v].state = "failed" /\ operation[o].state \in Terminal
    <3>1. Undecided(w, v) /\ v \in Units
      BY <1>2, <1>3, <1>4, <2>4 DEF Works, At, Call
    <3>2. attempt'[o][v] = attempt[o][v]
      BY <1>4, <1>6, <2>4, <3>1
    <3> QED
      BY <3>1, <3>2 DEF Undecided
  <2> QED
    BY <1>5, <2>1, <2>2, <2>3, <2>4 DEF Works, At, Open, Undecided, Selecting, Sending
<1>8. UNCHANGED <<operation, batch, broker, publishing, overwritten, run>>
  BY DEF TriageKeeps, TriageCloses, TriageSelects
<1>9. next.pc # "idle" /\ next.pc \notin Locked
  BY <1>5 DEF Locked, Writing
<1> QED
  BY <1>2, <1>5, <1>6, <1>7, <1>8, <1>9, WorkerFrame

LEMMA LookupControlled ==
    ASSUME ControlInv, TypeInv', NEW w \in Workers, NEW u \in Units,
           LookupFinds(w, u) \/ LookupMisses(w, u)
    PROVE  ControlInv'
<1> USE DEF env, rows, outbox, spending, history
<1> DEFINE o == call[w].op
           left == call[w].todo \ {u}
<1>1. InLookup(w, u)
  BY DEF LookupFinds, LookupMisses
<1>2. At(w, "lookup") /\ ~At(w, "idle") /\ Owned(w) /\ TypeInv /\ u \in call[w].todo
  BY <1>1, ControlTyped DEF InLookup, InTransaction, At
<1>3. o \in Operations /\ call[w] \in Call /\ Works(w)
  BY <1>2, CallRow, Working
<1>4. PICK selected : /\ selected = call[w].selected \/ selected = call[w].selected \cup {u}
                      /\ LookedUp(w, u, selected)
                      /\ u \in selected =>
                            /\ operation[o].state \in Terminal \/ Open(w, u)
                            /\ UNCHANGED attempt
  <2>1. CASE LookupMisses(w, u) /\ ~LostRequest(attempt[o][u])
    <3>1. Undecided(w, u)
      BY <1>2, <1>3 DEF Works
    <3> QED
      BY <2>1, <3>1 DEF LookupMisses, Open, LostRequest, Undecided
  <2>2. CASE ~(LookupMisses(w, u) /\ ~LostRequest(attempt[o][u]))
    <3>1. LookedUp(w, u, call[w].selected)
      BY <2>2 DEF LookupFinds, LookupMisses
    <3>2. u \notin call[w].selected
      BY <1>2, <1>3 DEF Works, At
    <3> QED
      BY <3>1, <3>2
  <2> QED
    BY <2>1, <2>2
<1>5. PICK next : /\ Continue(w, next) /\ next.op = o /\ next.pc \in {"lookup", "chunk"}
                  /\ next.todo = left /\ next.selected = selected
  <2> DEFINE p == IF left = {} THEN "chunk" ELSE "lookup"
             n == [call[w] EXCEPT !.todo = left, !.selected = selected, !.pc = p]
  <2>1. Continue(w, n) /\ p \in {"lookup", "chunk"}
    BY <1>4 DEF LookedUp
  <2> HIDE DEF p
  <2>2. n.op = o /\ n.pc = p /\ n.todo = left /\ n.selected = selected
    BY <1>3 DEF Call
  <2> QED
    BY <2>1, <2>2
<1>6. /\ \A p \in Operations : p # o => attempt'[p] = attempt[p]
      /\ \A v \in Units : v # u => attempt'[o][v] = attempt[o][v]
  <2>1. CASE attempt' = attempt
    BY <2>1
  <2>2. CASE \E s : SetState(o, u, s)
    BY <1>2, <1>3, <2>2, OneState
  <2>3. CASE LookupFinds(w, u)
    <3>1. PICK b : attempt' = [attempt EXCEPT ![o][u] =
                          [attempt[o][u] EXCEPT !.state = "received", !.answer = b]]
      BY <2>3 DEF LookupFinds
    <3> QED
      BY <1>2, <1>3, <3>1, OneAnswer
  <2> QED
    BY <2>1, <2>2, <2>3 DEF LookupMisses
<1>7. Works(w)'
  <2>1. call'[w] = next
    BY <1>2, <1>5, Continued
  <2>2. UNCHANGED operation
    BY DEF LookupFinds, LookupMisses
  <2>3. next.todo \cap next.selected = {}
    BY <1>2, <1>3, <1>4, <1>5 DEF Works, At
  <2>4. ASSUME NEW v \in left
        PROVE  attempt'[o][v].state \in Settled =>
                 attempt'[o][v].state = "failed" /\ operation[o].state \in Terminal
    <3>1. Undecided(w, v) /\ v \in Units /\ v # u
      BY <1>2, <1>3, <2>4 DEF Works, Call
    <3> QED
      BY <1>6, <3>1 DEF Undecided
  <2>5. \/ operation[o].state \in Terminal
        \/ \A v \in selected : attempt'[o][v].state \notin Settled \cup {"requesting"}
    <3> SUFFICES ASSUME operation[o].state \notin Terminal, NEW v \in selected
                 PROVE  attempt'[o][v].state \notin Settled \cup {"requesting"}
      OBVIOUS
    <3>1. Open(w, v) /\ v \in Units
      BY <1>2, <1>3, <1>4 DEF Works, At, Selecting, Call
    <3>2. attempt'[o][v] = attempt[o][v]
      BY <1>4, <1>6, <3>1
    <3> QED
      BY <3>1, <3>2 DEF Open
  <2> QED
    BY <1>5, <2>1, <2>2, <2>3, <2>4, <2>5 DEF Works, At, Open, Undecided, Sending
<1>8. UNCHANGED <<operation, batch, broker, publishing, overwritten, run>>
  BY DEF LookupFinds, LookupMisses
<1>9. next.pc # "idle" /\ next.pc \notin Locked
  BY <1>5 DEF Locked, Writing
<1> QED
  BY <1>2, <1>5, <1>6, <1>7, <1>8, <1>9, WorkerFrame

(* A transaction that keeps the row locked begins.                          *)
LEMMA ReadsControlled ==
    ASSUME ControlInv, TypeInv', NEW w \in Workers,
           ChunkReads(w) \/ ApplyReads(w) \/ FinishReads(w)
    PROVE  ControlInv'
<1> USE DEF env, rows, outbox, spending, history
<1> DEFINE o == call[w].op
<1>1. UNCHANGED <<operation, batch, broker, publishing, overwritten, run, attempt>>
  BY DEF ChunkReads, ApplyReads, FinishReads
<1>2. TypeInv /\ ~At(w, "idle") /\ Owned(w)
  BY ControlTyped DEF ChunkReads, ApplyReads, FinishReads, InApply, At, InTransaction
<1>3. call[w] \in Call /\ o \in Operations /\ Works(w)
  BY <1>2, CallRow, Working
<1>4. operation[o].state \in Terminal => EndedByCancel(o)
  BY <1>2, <1>3 DEF ControlInv, EndedIsLeft, Owned
<1>5. PICK next : /\ Continue(w, next) /\ next.op = o
                  /\ \/ /\ next.pc = "requesting" /\ At(w, "chunk") /\ ~Cancelled(o)
                        /\ next.selected = call[w].selected
                     \/ next.pc = "applying" /\ ~Cancelled(o)
                     \/ next.pc = "finishing" /\ (next.cancelled <=> Cancelled(o))
  <2>1. CASE ChunkReads(w) \/ ApplyReads(w)
    <3> DEFINE c == Permitted(o)
               m == [call[w] EXCEPT !.pc = "requesting", !.permitted = c]
               n == [call[w] EXCEPT !.pc = "applying", !.permitted = c]
    <3>1. \/ Continue(w, m) /\ At(w, "chunk") /\ ~Cancelled(o)
          \/ Continue(w, n) /\ ~Cancelled(o)
      BY <2>1 DEF ChunkReads, ApplyReads, Stops
    <3> HIDE DEF c
    <3>2. /\ m.op = o /\ m.pc = "requesting" /\ m.selected = call[w].selected
          /\ n.op = o /\ n.pc = "applying"
      BY <1>3 DEF Call
    <3> QED
      BY <3>1, <3>2
  <2>2. CASE FinishReads(w)
    <3> DEFINE c == Cancelled(o)
               n == [call[w] EXCEPT !.pc = "finishing", !.cancelled = c]
    <3>1. Continue(w, n)
      BY <2>2 DEF FinishReads
    <3>2. c \in BOOLEAN /\ (c <=> Cancelled(o))
      BY DEF Cancelled
    <3> HIDE DEF c
    <3>3. n.op = o /\ n.pc = "finishing" /\ n.cancelled = c
      BY <1>3 DEF Call
    <3> QED
      BY <3>1, <3>2, <3>3
  <2> QED
    BY <2>1, <2>2
<1>6. call'[w] = next
  BY <1>2, <1>5, Continued
<1>7. Works(w)'
  BY <1>1, <1>3, <1>5, <1>6 DEF Works, At, Open, Selecting, Sending
<1>8. Held(w)'
  BY <1>1, <1>2, <1>4, <1>5, <1>6 DEF Held, Owned, EndedByCancel, At
<1>9. next.pc # "idle"
  BY <1>5
<1> QED
  BY <1>1, <1>2, <1>5, <1>7, <1>8, <1>9, WorkerFrame

LEMMA ChunkControlled ==
    ASSUME ControlInv, TypeInv', NEW w \in Workers, NEW units \in SUBSET Units,
           RequestChunk(w, units)
    PROVE  ControlInv'
<1> USE DEF env, rows, outbox, spending, history
<1> DEFINE o == call[w].op
           requesting == {u \in units : Requested(w, u) = "requesting"}
           rest == call[w].selected \ units
           p == IF requesting = {} THEN "chunk" ELSE "dispatch"
           next == [call[w] EXCEPT !.selected = rest, !.chunk = requesting,
                                   !.todo = requesting, !.answers = NoAnswers, !.pc = p]
           new == [u \in Units |-> IF u \in units
                       THEN [attempt[o][u] EXCEPT !.state = Requested(w, u)] ELSE attempt[o][u]]
<1>1. UNCHANGED <<operation, batch, broker, publishing, overwritten, run>>
  BY DEF RequestChunk
<1>2. TypeInv /\ ~At(w, "idle") /\ At(w, "requesting") /\ Owned(w)
  BY ControlTyped DEF RequestChunk, At, ControlInv, LockIsOwned, Locking, Locked, Writing, Held
<1>3. call[w] \in Call /\ o \in Operations /\ Works(w)
  BY <1>2, CallRow, Working
<1>4. Continue(w, next) /\ attempt' = [attempt EXCEPT ![o] = new]
  BY DEF RequestChunk
<1>5. \A u \in Units : attempt[o][u] \in AttemptRow
  BY <1>2, <1>3, Typed
<1>6. \A u \in requesting : new[u].state = "requesting"
  <2> SUFFICES ASSUME NEW u \in requesting PROVE new[u].state = "requesting"
    OBVIOUS
  <2>1. new[u] = [attempt[o][u] EXCEPT !.state = "requesting"]
    OBVIOUS
  <2> QED
    BY <1>5, <2>1 DEF AttemptRow
<1>7. \A u \in rest : u \in Units /\ new[u] = attempt[o][u]
  BY <1>3 DEF Call
<1>8. p \in {"chunk", "dispatch"}
  OBVIOUS
<1> HIDE DEF requesting, rest, p, new
<1>9. next.op = o /\ next.pc = p /\ next.chunk = requesting /\ next.todo = requesting
      /\ next.selected = rest
  BY <1>3 DEF Call
<1> HIDE DEF next
<1>10. attempt'[o] = new /\ \A q \in Operations : q # o => attempt'[q] = attempt[q]
  BY <1>2, <1>3, <1>4, Typed
<1>11. Works(w)'
  <2>1. call'[w] = next
    BY <1>2, <1>4, Continued
  <2>2. operation[o].state \in Terminal \/ \A u \in call[w].selected : Open(w, u)
    BY <1>2, <1>3 DEF Works, At, Selecting
  <2>3. operation[o].state \in Terminal
        \/ \A u \in rest : attempt'[o][u].state \notin Settled \cup {"requesting"}
    BY <1>7, <1>10, <2>2 DEF Open, rest
  <2> QED
    BY <1>1, <1>6, <1>8, <1>9, <1>10, <2>1, <2>3 DEF Works, At, Open, Requesting, Undecided
<1>12. next.pc # "idle" /\ next.pc \notin Locked
  BY <1>8, <1>9 DEF Locked, Writing
<1> QED
  BY <1>1, <1>2, <1>4, <1>9, <1>10, <1>11, <1>12, WorkerFrame

LEMMA StoreControlled ==
    ASSUME ControlInv, TypeInv', NEW w \in Workers, NEW u \in Units, StoreAnswer(w, u)
    PROVE  ControlInv'
<1> USE DEF env, rows, outbox, spending, history
<1> DEFINE o == call[w].op
           left == call[w].todo \ {u}
           p == IF call[w].outcome = "answered" THEN "chunk" ELSE "apply"
           r == call[w].outcome = "refused"
           n1 == [call[w] EXCEPT !.todo = left]
           n2 == [call[w] EXCEPT !.todo = {}, !.chunk = {}, !.answers = NoAnswers,
                           !.pc = p, !.paused = r, !.outcome = "answered"]
<1>1. UNCHANGED <<operation, batch, broker, publishing, overwritten, run>>
  BY DEF StoreAnswer
<1>2. TypeInv /\ ~At(w, "idle") /\ At(w, "store") /\ Owned(w) /\ u \in call[w].todo
  BY ControlTyped DEF StoreAnswer, At, InTransaction
<1>3. call[w] \in Call /\ o \in Operations /\ Works(w)
  BY <1>2, CallRow, Working
<1>4. Continue(w, IF left # {} THEN n1 ELSE n2) /\ p \in {"chunk", "apply"}
  BY DEF StoreAnswer
<1> HIDE DEF p, r
<1>5. n1.op = o /\ n1.pc = "store" /\ n1.todo = left /\ n1.selected = call[w].selected
  BY <1>2, <1>3 DEF Call, At
<1>6. n2.op = o /\ n2.pc = p /\ n2.todo = {} /\ n2.selected = call[w].selected
  BY <1>3 DEF Call
<1>7. PICK next : /\ Continue(w, next) /\ next.op = o /\ next.selected = call[w].selected
                  /\ \/ next.pc = "store" /\ next.todo = left
                     \/ next.pc \in {"chunk", "apply"}
  BY <1>4, <1>5, <1>6
<1>8. /\ \A q \in Operations : q # o => attempt'[q] = attempt[q]
      /\ \A v \in Units : v # u => attempt'[o][v] = attempt[o][v]
  <2>1. PICK b : attempt' = [attempt EXCEPT ![o][u] =
             IF b \in Answers THEN [attempt[o][u] EXCEPT !.state = "received", !.answer = b]
             ELSE [attempt[o][u] EXCEPT !.state = Unanswered(w, u)]]
    BY DEF StoreAnswer
  <2> DEFINE a == IF b \in Answers THEN [attempt[o][u] EXCEPT !.state = "received", !.answer = b]
                  ELSE [attempt[o][u] EXCEPT !.state = Unanswered(w, u)]
  <2>2. attempt' = [attempt EXCEPT ![o][u] = a]
    BY <2>1
  <2> HIDE DEF a
  <2> QED
    BY <1>2, <1>3, <2>2, Typed
<1>9. Works(w)'
  <2>1. call'[w] = next
    BY <1>2, <1>7, Continued
  <2>2. \A v \in call[w].todo : v \in Units /\ Requesting(w, v)
    BY <1>2, <1>3 DEF Works, At, Call
  <2>3. \A v \in left : attempt'[o][v].state = "requesting"
    BY <1>8, <2>2 DEF Requesting
  <2>4. operation[o].state \in Terminal \/ \A v \in call[w].selected : Open(w, v)
    BY <1>2, <1>3 DEF Works, At, Selecting
  <2>5. operation[o].state \in Terminal
        \/ \A v \in call[w].selected : attempt'[o][v].state \notin Settled \cup {"requesting"}
    <3> SUFFICES ASSUME operation[o].state \notin Terminal, NEW v \in call[w].selected
                 PROVE  attempt'[o][v].state \notin Settled \cup {"requesting"}
      OBVIOUS
    <3>1. Open(w, v) /\ v \in Units /\ v # u
      BY <1>2, <1>3, <2>2, <2>4 DEF Open, Requesting, Undecided, Call
    <3> QED
      BY <1>8, <3>1 DEF Open
  <2> QED
    BY <1>1, <1>7, <2>1, <2>3, <2>5 DEF Works, At, Open, Requesting, Undecided, Sending
<1>10. next.pc # "idle" /\ next.pc \notin Locked
  BY <1>7 DEF Locked, Writing
<1> QED
  BY <1>1, <1>2, <1>7, <1>8, <1>9, <1>10, WorkerFrame

LEMMA AskControlled ==
    ASSUME ControlInv, TypeInv', NEW w \in Workers, Ask(w)
    PROVE  ControlInv'
<1> USE DEF env, rows, outbox, spending, history
<1> DEFINE o == call[w].op
<1>1. UNCHANGED <<operation, batch, broker, publishing, overwritten, run>>
  BY DEF Ask, AllReceived, ChunkStops, ChunkReads, GuardRefuses, Transport, CallRaises,
     RequestChunk, Claim, ReplaySaved, Reply, StoreAnswer
<1>2. TypeInv
  BY ControlTyped
<1>3. CASE AllReceived(w) \/ ChunkStops(w)
  <2>1. ~At(w, "idle")
    BY <1>3 DEF AllReceived, ChunkStops, At
  <2>2. call[w] \in Call
    BY <1>2, <2>1, CallRow
  <2>3. \E next : Continue(w, next) /\ next.op = o /\ next.pc = "apply"
    <3> DEFINE c == ~Cancelled(o)
               m == [call[w] EXCEPT !.pc = "apply"]
               n == [call[w] EXCEPT !.pc = "apply", !.paused = c]
    <3>1. Continue(w, m) \/ Continue(w, n)
      BY <1>3 DEF AllReceived, ChunkStops, Goto
    <3> HIDE DEF c
    <3>2. m.op = o /\ m.pc = "apply" /\ n.op = o /\ n.pc = "apply"
      BY <2>2 DEF Call
    <3> QED
      BY <3>1, <3>2
  <2>4. PICK next : Continue(w, next) /\ next.op = o /\ next.pc = "apply"
    BY <2>3
  <2>5. Works(w)'
    BY <1>2, <2>4, Continued DEF Works, At, Selecting, Sending
  <2>6. UNCHANGED attempt
    BY <1>3 DEF AllReceived, ChunkStops
  <2>7. next.pc # "idle" /\ next.pc \notin Locked
    BY <2>4 DEF Locked, Writing
  <2> QED
    BY <1>1, <2>1, <2>4, <2>5, <2>6, <2>7, WorkerFrame
<1>4. CASE Transport(w)
  <2> DEFINE next == [call[w] EXCEPT !.pc = "wait"]
  <2>1. ~At(w, "idle") /\ At(w, "claimed")
    BY <1>4 DEF Transport, At
  <2>2. call[w] \in Call
    BY <1>2, <2>1, CallRow
  <2>3. Continue(w, next)
    BY <1>4 DEF Transport, Goto
  <2>4. next.op = o /\ next.pc = "wait" /\ next.chunk = call[w].chunk
        /\ next.todo = call[w].todo /\ next.selected = call[w].selected
    BY <2>2 DEF Call
  <2> HIDE DEF next
  <2>5. UNCHANGED attempt
    BY <1>4 DEF Transport
  <2>6. Owned(w) => Works(w)'
    <3> SUFFICES ASSUME Owned(w) PROVE Works(w)'
      OBVIOUS
    <3>1. Works(w)
      BY <2>1, Working
    <3>2. call'[w] = next
      BY <1>2, <2>3, Continued
    <3> QED
      BY <1>1, <2>1, <2>4, <2>5, <3>1, <3>2
      DEF Works, At, Selecting, Sending, Open, Requesting, Undecided
  <2>7. next.pc # "idle" /\ next.pc \notin Locked
    BY <2>4 DEF Locked, Writing
  <2> QED
    BY <1>1, <2>1, <2>3, <2>4, <2>5, <2>6, <2>7, WorkerFrame
<1>5. ASSUME GuardRefuses(w) \/ CallRaises(w)
             \/ \E units, left, reply : GroupAnswered(w, units, left, reply)
                                        /\ left \subseteq call[w].todo,
             UNCHANGED attempt, call[w].pc \in Sending
      PROVE  ControlInv'
  <2>1. ~At(w, "idle")
    BY <1>5 DEF Sending, At
  <2>2. call[w] \in Call
    BY <1>2, <2>1, CallRow
  <2>3. PICK next :
            /\ Continue(w, next) /\ next.op = o /\ next.chunk = call[w].chunk
            /\ next.selected = call[w].selected
            /\ \/ next.pc = "store" /\ next.todo = call[w].chunk
               \/ next.pc = "dispatch" /\ next.todo \subseteq call[w].todo
    <3>1. CASE GuardRefuses(w)
      <4> DEFINE n == [call[w] EXCEPT !.pc = "store", !.todo = call[w].chunk, !.outcome = "refused"]
      <4>1. Continue(w, n)
        BY <3>1 DEF GuardRefuses
      <4>2. n.op = o /\ n.chunk = call[w].chunk /\ n.selected = call[w].selected
            /\ n.pc = "store" /\ n.todo = call[w].chunk
        BY <2>2 DEF Call
      <4> QED
        BY <4>1, <4>2
    <3>2. CASE CallRaises(w)
      <4> DEFINE n == [call[w] EXCEPT !.pc = "store", !.todo = call[w].chunk, !.group = {},
                                      !.outcome = "lost"]
      <4>1. Continue(w, n)
        BY <3>2 DEF CallRaises
      <4>2. n.op = o /\ n.chunk = call[w].chunk /\ n.selected = call[w].selected
            /\ n.pc = "store" /\ n.todo = call[w].chunk
        BY <2>2 DEF Call
      <4> QED
        BY <4>1, <4>2
    <3>3. ASSUME NEW units, NEW left, NEW reply, GroupAnswered(w, units, left, reply),
                 left \subseteq call[w].todo
          PROVE  \E next :
            /\ Continue(w, next) /\ next.op = o /\ next.chunk = call[w].chunk
            /\ next.selected = call[w].selected
            /\ \/ next.pc = "store" /\ next.todo = call[w].chunk
               \/ next.pc = "dispatch" /\ next.todo \subseteq call[w].todo
      <4> DEFINE answers == [u \in Units |-> IF u \in units /\ reply[u] \in Answers
                                       THEN reply[u] ELSE call[w].answers[u]]
                 p == IF left = {} THEN "store" ELSE "dispatch"
                 t == IF left = {} THEN call[w].chunk ELSE left
                 n == [call[w] EXCEPT !.answers = answers, !.group = {}, !.pc = p, !.todo = t]
      <4>1. Continue(w, n)
        BY <3>3 DEF GroupAnswered
      <4>2. (p = "store" /\ t = call[w].chunk) \/ (p = "dispatch" /\ t \subseteq call[w].todo)
        BY <3>3
      <4> HIDE DEF answers, p, t
      <4>3. n.op = o /\ n.chunk = call[w].chunk /\ n.selected = call[w].selected
            /\ n.pc = p /\ n.todo = t
        BY <2>2 DEF Call
      <4> QED
        BY <4>1, <4>2, <4>3
    <3> QED
      BY <1>5, <3>1, <3>2, <3>3
  <2>4. Owned(w) => Works(w)'
    <3> SUFFICES ASSUME Owned(w) PROVE Works(w)'
      OBVIOUS
    <3>1. Works(w)
      BY <2>1, Working
    <3>2. call'[w] = next
      BY <1>2, <2>3, Continued
    <3> QED
      BY <1>1, <1>5, <2>1, <2>3, <3>1, <3>2
      DEF Works, At, Selecting, Sending, Open, Requesting, Undecided
  <2>5. next.pc # "idle" /\ next.pc \notin Locked
    BY <2>3 DEF Locked, Writing
  <2> QED
    BY <1>1, <1>5, <2>1, <2>3, <2>4, <2>5, WorkerFrame
<1>6. CASE GuardRefuses(w) \/ CallRaises(w)
  BY <1>5, <1>6 DEF GuardRefuses, CallRaises, At, Sending
<1>7. ASSUME NEW units \in SUBSET Units, ReplaySaved(w, units)
      PROVE  ControlInv'
  <2>1. call[w].todo \ units \subseteq call[w].todo
    OBVIOUS
  <2> QED
    BY <1>5, <1>7, <2>1 DEF ReplaySaved, Dispatches, At, Sending
<1>8. ASSUME NEW reply \in [GroupUnits(w) -> Answers \cup {"missing"}], Reply(w, reply)
      PROVE  ControlInv'
  BY <1>5, <1>8 DEF Reply, At, Sending
<1>9. ASSUME NEW units \in SUBSET Units, Claim(w, units)
      PROVE  ControlInv'
  <2> DEFINE g == KeysOf(w, units)
             rest == call[w].todo \ units
             next == [call[w] EXCEPT !.pc = "claimed", !.group = g, !.todo = rest]
  <2>1. ~At(w, "idle") /\ At(w, "dispatch")
    BY <1>9 DEF Claim, Dispatches, At
  <2>2. call[w] \in Call
    BY <1>2, <2>1, CallRow
  <2>3. Continue(w, next) /\ rest \subseteq call[w].todo
    BY <1>9 DEF Claim
  <2> HIDE DEF g, rest
  <2>4. next.op = o /\ next.pc = "claimed" /\ next.chunk = call[w].chunk
        /\ next.todo = rest /\ next.selected = call[w].selected
    BY <2>2 DEF Call
  <2> HIDE DEF next
  <2>5. UNCHANGED attempt
    BY <1>9 DEF Claim
  <2>6. Owned(w) => Works(w)'
    <3> SUFFICES ASSUME Owned(w) PROVE Works(w)'
      OBVIOUS
    <3>1. Works(w)
      BY <2>1, Working
    <3>2. call'[w] = next
      BY <1>2, <2>3, Continued
    <3> QED
      BY <1>1, <2>1, <2>3, <2>4, <2>5, <3>1, <3>2
      DEF Works, At, Selecting, Sending, Open, Requesting, Undecided
  <2>7. next.pc # "idle" /\ next.pc \notin Locked
    BY <2>4 DEF Locked, Writing
  <2> QED
    BY <1>1, <2>1, <2>3, <2>4, <2>5, <2>6, <2>7, WorkerFrame
<1>10. ASSUME NEW units \in SUBSET Units, RequestChunk(w, units)
       PROVE  ControlInv'
  BY <1>10, ChunkControlled
<1>11. ASSUME NEW u \in Units, StoreAnswer(w, u)
       PROVE  ControlInv'
  BY <1>11, StoreControlled
<1>12. CASE ChunkReads(w)
  BY <1>12, ReadsControlled
<1> QED
  BY <1>3, <1>4, <1>6, <1>7, <1>8, <1>9, <1>10, <1>11, <1>12 DEF Ask

LEMMA FinishControlled ==
    ASSUME ControlInv, TypeInv', NEW w \in Workers,
           \/ ApplyStops(w) \/ AllApplied(w)
           \/ \E u \in Units : Apply(w, u) \/ ApplyRefused(w, u)
    PROVE  ControlInv'
<1> USE DEF env, rows, outbox, spending, history
<1> DEFINE o == call[w].op
<1>1. UNCHANGED <<operation, batch, broker, publishing, overwritten, run>>
  BY DEF ApplyStops, AllApplied, Apply, ApplyRefused
<1>2. TypeInv /\ ~At(w, "idle")
  BY ControlTyped DEF ApplyStops, AllApplied, Apply, ApplyRefused, Serves, InApply, At
<1>3. call[w] \in Call /\ o \in Operations
  BY <1>2, CallRow
<1>5. PICK next : Continue(w, next) /\ next.op = o /\ next.pc \in {"apply", "finish"}
  <2> DEFINE c == call[w].paused \/ ~Cancelled(call[w].op)
             m == [call[w] EXCEPT !.pc = "finish", !.paused = c]
             n == [call[w] EXCEPT !.pc = "finish"]
             p == [call[w] EXCEPT !.pc = "apply"]
  <2>1. Continue(w, m) \/ Continue(w, n) \/ Continue(w, p)
    BY DEF ApplyStops, AllApplied, Apply, ApplyRefused, Goto
  <2> HIDE DEF c
  <2>2. /\ m.op = o /\ m.pc = "finish" /\ n.op = o /\ n.pc = "finish"
        /\ p.op = o /\ p.pc = "apply"
    BY <1>3 DEF Call
  <2> QED
    BY <2>1, <2>2
<1>6. Works(w)'
  BY <1>2, <1>5, Continued DEF Works, At, Selecting, Sending
<1>7. /\ \A p \in Operations : p # o => attempt'[p] = attempt[p]
      /\ attempt' = attempt \/ Owned(w)
  <2>1. CASE UNCHANGED attempt
    BY <2>1
  <2>2. ASSUME NEW u \in Units, Apply(w, u) \/ ApplyRefused(w, u)
        PROVE  Owned(w) /\ \E s : SetState(o, u, s)
    <3>1. Owned(w)
      BY <2>2
      DEF Apply, ApplyRefused, Serves, At, ControlInv, LockIsOwned, Locking, Locked, Writing, Held
    <3> QED
      BY <2>2, <3>1 DEF Apply, ApplyRefused
  <2> QED
    BY <1>2, <1>3, <2>1, <2>2, OneState DEF ApplyStops, AllApplied
<1>8. next.pc # "idle" /\ next.pc \notin Locked
  BY <1>5 DEF Locked, Writing
<1> QED
  BY <1>1, <1>2, <1>5, <1>6, <1>7, <1>8, WorkerFrame

(* Calls that ended and attempts that stayed as they are need no more: a    *)
(* step that changes one receipt.                                           *)
LEMMA ReceiptFrame ==
    ASSUME ControlInv, TypeInv', NEW o \in Operations,
           UNCHANGED <<batch, overwritten>>,
           \A p \in Operations : p # o =>
               /\ operation'[p] = operation[p] /\ run'[p] = run[p]
               /\ attempt'[p] = attempt[p]
               /\ broker'[p] = broker[p] /\ publishing'[p] = publishing[p],
           \A v \in Workers : \/ call'[v] = call[v]
                              \/ call'[v].pc = "idle" /\ call'[v].op = None
                              \/ call'[v].op = o /\ ~Locking(v)',
           operation'[o].state # "absent",
           operation'[o].state \in Terminal /\ operation'[o].lease = "live" => EndedByCancel(o)',
           \A v \in Workers : Locking(v)' /\ call'[v].op = o => Held(v)',
           operation'[o].state = "completed" => States(o)' \subseteq {"applied", "skipped_nonempty"},
           \A v \in Workers : ~At(v, "idle")' /\ call'[v].op = o /\ Owned(v)' => Works(v)'
    PROVE  ControlInv'
<1>1. None \notin Operations /\ TypeInv
  BY MTAssumption, ControlTyped
<1>2. AbsentIsUntouched'
  <2>1. ASSUME NEW p \in Operations, operation'[p].state = "absent" PROVE Untouched(p)'
    <3>1. p # o
      BY <2>1
    <3>2. operation[p].state = "absent"
      BY <2>1, <3>1
    <3>3. Untouched(p)
      BY <3>2 DEF ControlInv, AbsentIsUntouched
    <3>4. \A v \in Workers : call'[v].op # p
      BY <1>1, <3>1, <3>3 DEF Untouched
    <3> QED
      BY <3>1, <3>3, <3>4 DEF Untouched
  <2> QED
    BY <2>1 DEF AbsentIsUntouched
<1>3. EndedIsLeft'
  <2>1. ASSUME NEW p \in Operations, p # o,
               operation'[p].state \in Terminal /\ operation'[p].lease = "live"
        PROVE  EndedByCancel(p)'
    BY <2>1 DEF ControlInv, EndedIsLeft, EndedByCancel, Cancelled
  <2> QED
    BY <2>1 DEF EndedIsLeft
<1>4. LockIsOwned'
  <2> SUFFICES ASSUME NEW v \in Workers, Locking(v)', call'[v].op # o
               PROVE  Held(v)'
    BY DEF LockIsOwned
  <2>1. call'[v] = call[v] /\ Locking(v)
    BY DEF Locking, Locked, Writing
  <2>2. call[v].op \in Operations /\ Held(v)
    BY <1>1, <2>1 DEF TypeInv, CallsNamed, Locking, Locked, Writing, ControlInv, LockIsOwned
  <2>3. operation'[call[v].op] = operation[call[v].op]
    BY <2>1, <2>2
  <2> QED
    BY <2>1, <2>2, <2>3 DEF Held, Owned, At
<1>5. CompletedIsCovered'
  <2>1. ASSUME NEW p \in Operations, p # o, operation'[p].state = "completed"
        PROVE  States(p)' \subseteq {"applied", "skipped_nonempty"}
    BY <2>1 DEF ControlInv, CompletedIsCovered, States
  <2> QED
    BY <2>1 DEF CompletedIsCovered
<1>6. OwnerWorks'
  <2> SUFFICES ASSUME NEW v \in Workers, ~At(v, "idle")', Owned(v)', call'[v].op # o
               PROVE  Works(v)'
    BY DEF OwnerWorks
  <2>1. call'[v] = call[v] /\ ~At(v, "idle")
    BY DEF At
  <2>2. call[v].op \in Operations
    BY <1>1, <2>1 DEF TypeInv, CallsNamed, At
  <2>3. operation'[call[v].op] = operation[call[v].op] /\ attempt'[call[v].op] = attempt[call[v].op]
    BY <2>1, <2>2
  <2>4. Owned(v)
    BY <2>1, <2>3 DEF Owned
  <2>5. Works(v)
    BY <2>1, <2>4, Working
  <2> QED
    BY <2>1, <2>3, <2>5 DEF Works, At, Open, Requesting, Undecided
<1> QED
  BY <1>2, <1>3, <1>4, <1>5, <1>6 DEF ControlInv

(* No final transaction holds the receipt.                                  *)
LEMMA NotLocked ==
    ASSUME NEW o \in Operations, Unlocked(o), NEW v \in Workers, Locking(v)
    PROVE  call[v].op # o
BY DEF Unlocked, Locking, Locked

LEMMA AcceptControlled ==
    ASSUME ControlInv, TypeInv', NEW o \in Operations, Accept(o)
    PROVE  ControlInv'
<1> USE DEF env, rows, outbox, spending, history
<1>1. TypeInv /\ Untouched(o)
  BY ControlTyped DEF Accept, ControlInv, AbsentIsUntouched
<1>2. operation' = [operation EXCEPT ![o] = [operation[o] EXCEPT !.state = "accepted"]]
  BY DEF Accept
<1>3. operation[o] \in OperationRow
  BY <1>1, Typed
<1>4. [operation[o] EXCEPT !.state = "accepted"].state = "accepted"
  BY <1>3 DEF OperationRow
<1>5. operation'[o].state = "accepted" /\ \A p \in Operations : p # o => operation'[p] = operation[p]
  BY <1>1, <1>2, <1>4, Typed
<1>6. \A p \in Operations : p # o => attempt'[p] = attempt[p]
  BY <1>1, Typed DEF Accept
<1>7. \A v \in Workers : call'[v] = call[v] /\ call'[v].op # o
  BY <1>1 DEF Accept, Untouched
<1>8. UNCHANGED <<batch, overwritten, run, broker, publishing>>
  BY DEF Accept
<1>9. "accepted" \notin Terminal
  BY DEF Terminal
<1> QED
  BY <1>5, <1>6, <1>7, <1>8, <1>9, ReceiptFrame

LEMMA RecoverControlled ==
    ASSUME ControlInv, TypeInv', NEW o \in Operations, RecoverExpired(o)
    PROVE  ControlInv'
<1> USE DEF env, rows, outbox, spending, history
<1>1. TypeInv /\ operation[o] \in OperationRow /\ operation[o].state = "running" /\ Unlocked(o)
  BY ControlTyped, Typed DEF RecoverExpired, Recoverable
<1> DEFINE r == [operation[o] EXCEPT !.owner = None, !.lease = "none"]
<1>2. operation' = [operation EXCEPT ![o] = r]
  BY DEF RecoverExpired
<1>3. r.state = "running" /\ r.lease = "none"
  BY <1>1 DEF OperationRow
<1> HIDE DEF r
<1>4. operation'[o] = r /\ \A p \in Operations : p # o => operation'[p] = operation[p]
  BY <1>1, <1>2, Typed
<1>5. \A p \in Operations : p # o => run'[p] = run[p] /\ publishing'[p] = publishing[p]
  BY <1>1, Typed DEF RecoverExpired, NewTask
<1>6. UNCHANGED <<batch, overwritten, broker, attempt, call>>
  BY DEF RecoverExpired
<1>7. \A v \in Workers : Locking(v)' => call'[v].op # o
  BY <1>1, <1>6, NotLocked DEF Locking
<1>8. \A v \in Workers : call'[v].op = o => ~Owned(v)'
  BY <1>3, <1>4, <1>6 DEF Owned
<1>9. "running" \notin Terminal
  BY DEF Terminal
<1> QED
  BY <1>3, <1>4, <1>5, <1>6, <1>7, <1>8, <1>9, ReceiptFrame

LEMMA ExpiryControlled ==
    ASSUME ControlInv, TypeInv', NEW o \in Operations, LeaseExpires(o)
    PROVE  ControlInv'
<1> USE DEF env, rows, outbox, spending, history
<1>1. TypeInv /\ operation[o] \in OperationRow /\ Unlocked(o)
      /\ operation[o].lease = "live"
  BY ControlTyped, Typed DEF LeaseExpires
<1> DEFINE r == [operation[o] EXCEPT !.lease = "expired"]
<1>2. operation' = [operation EXCEPT ![o] = r]
  BY DEF LeaseExpires
<1>3. r.state = operation[o].state /\ r.lease = "expired"
  BY <1>1 DEF OperationRow
<1> HIDE DEF r
<1>4. operation'[o] = r /\ \A p \in Operations : p # o => operation'[p] = operation[p]
  BY <1>1, <1>2, Typed
<1>5. UNCHANGED <<batch, overwritten, broker, publishing, attempt, call, run>>
  BY DEF LeaseExpires
<1>6. operation[o].state \notin {"absent", "completed"}
        \/ operation[o].state = "completed"
        \/ operation[o].state = "absent"
  OBVIOUS
<1>7. \A v \in Workers : Locking(v)' => call'[v].op # o
  BY <1>1, <1>5, NotLocked DEF Locking
<1>8. \A v \in Workers : call'[v].op = o => ~Owned(v)'
  BY <1>3, <1>4, <1>5 DEF Owned
<1>9. operation'[o].state = "completed" => States(o)' \subseteq {"applied", "skipped_nonempty"}
  BY <1>3, <1>4, <1>5 DEF ControlInv, CompletedIsCovered, States
<1>10. operation[o].state # "absent"
  BY <1>1 DEF ControlInv, AbsentIsUntouched, Untouched
<1> QED
  BY <1>3, <1>4, <1>5, <1>7, <1>8, <1>9, <1>10, ReceiptFrame

LEMMA TakeControlled ==
    ASSUME ControlInv, TypeInv', NEW w \in Workers, NEW o \in Operations,
           DropMessage(w, o) \/ EndCancelled(w, o) \/ TakeLease(w, o)
    PROVE  ControlInv'
<1> USE DEF env, rows, outbox, spending, history
<1>1. TypeInv /\ At(w, "idle") /\ broker[o] > 0 /\ Unlocked(o)
      /\ broker' = [broker EXCEPT ![o] = broker[o] - 1]
  BY ControlTyped DEF DropMessage, EndCancelled, TakeLease, Receive
<1>2. operation[o] \in OperationRow /\ operation[o].state # "absent"
      /\ \A p \in Operations : p # o => broker'[p] = broker[p]
  BY <1>1, Typed DEF ControlInv, AbsentIsUntouched, Untouched
<1>3. CASE DropMessage(w, o)
  <2>1. UNCHANGED <<operation, attempt, call, batch, publishing, overwritten, run>>
    BY <1>3 DEF DropMessage
  <2> QED
    BY <1>2, <2>1, ControlFrame DEF ControlInv, AbsentIsUntouched, Untouched, Cancelled
<1>4. CASE EndCancelled(w, o)
  <2> DEFINE r == [operation[o] EXCEPT !.state = "failed"]
             s == [run[o] EXCEPT !.status = "cancelled"]
             new == [u \in Units |-> IF attempt[o][u].state = "pending"
                        THEN [attempt[o][u] EXCEPT !.state = "failed"] ELSE attempt[o][u]]
  <2>1. operation' = [operation EXCEPT ![o] = r] /\ run' = [run EXCEPT ![o] = s]
        /\ attempt' = [attempt EXCEPT ![o] = new]
        /\ UNCHANGED <<batch, overwritten, publishing, call>>
    BY <1>4 DEF EndCancelled
  <2>2. r.state = "failed" /\ r.owner = operation[o].owner /\ r.lease = operation[o].lease
    BY <1>2 DEF OperationRow
  <2>3. run[o] \in RunRow
    BY <1>1, Typed
  <2>4. s.status = "cancelled"
    BY <2>3 DEF RunRow
  <2>5. \A u \in Units : attempt[o][u].state = "requesting" => new[u] = attempt[o][u]
    OBVIOUS
  <2>11. \A u \in Units : new[u] = attempt[o][u] \/ new[u].state = "failed"
    <3>1. \A u \in Units : attempt[o][u] \in AttemptRow
      BY <1>1, Typed
    <3>2. \A a \in AttemptRow : [a EXCEPT !.state = "failed"].state = "failed"
      BY DEF AttemptRow
    <3> QED
      BY <3>1, <3>2
  <2> HIDE DEF r, s, new
  <2>6. /\ operation'[o] = r /\ \A p \in Operations : p # o => operation'[p] = operation[p]
        /\ run'[o] = s /\ \A p \in Operations : p # o => run'[p] = run[p]
        /\ attempt'[o] = new /\ \A p \in Operations : p # o => attempt'[p] = attempt[p]
    BY <1>1, <2>1, Typed
  <2>7. EndedByCancel(o)'
    BY <2>2, <2>4, <2>6 DEF EndedByCancel, Cancelled
  <2>8. \A v \in Workers : Locking(v)' => call'[v].op # o
    BY <1>1, <2>1, NotLocked DEF Locking
  <2>9. ASSUME NEW v \in Workers, ~At(v, "idle")', call'[v].op = o, Owned(v)'
        PROVE  Works(v)'
    <3>1. ~At(v, "idle") /\ Owned(v) /\ call'[v] = call[v]
      BY <2>1, <2>2, <2>6, <2>9 DEF At, Owned
    <3>2. Works(v) /\ call[v] \in Call
      BY <1>1, <3>1, Working, CallRow
    <3>3. \A u \in Units : Requesting(v, u) => Requesting(v, u)'
      BY <2>5, <2>6, <2>9, <3>1 DEF Requesting
    <3>4. /\ call[v].todo \subseteq Units /\ call[v].chunk \subseteq Units
          /\ call[v].selected \subseteq Units
      BY <3>2 DEF Call
    <3>5. operation'[call'[v].op].state \in Terminal
      BY <2>2, <2>6, <2>9 DEF Terminal
    <3>6. \A u \in Units : Undecided(v, u) => Undecided(v, u)'
      BY <2>6, <2>9, <2>11, <3>1, <3>5 DEF Undecided
    <3> QED
      BY <3>1, <3>2, <3>3, <3>4, <3>5, <3>6 DEF Works, At
  <2>10. operation'[o].state # "completed" /\ operation'[o].state # "absent"
    BY <2>2, <2>6
  <2> QED
    BY <1>2, <2>1, <2>6, <2>7, <2>8, <2>9, <2>10, ReceiptFrame
<1>5. CASE TakeLease(w, o)
  <2> DEFINE next == [NoCall EXCEPT !.pc = "triage", !.op = o, !.todo = batch[o],
                                  !.permitted = Permitted(o),
                                  !.paused = o \in Delegated /\ ~Permitted(o)]
  <2>1. Continue(w, next)
    BY <1>5 DEF TakeLease
  <2>2. next.op = o /\ next.pc = "triage" /\ next.selected = {}
    BY DEF NoCall
  <2> HIDE DEF next
  <2>3. call'[w] = next /\ \A v \in Workers \ {w} : call'[v] = call[v]
    BY <1>1, <2>1, Continued
  <2>4. operation' = [operation EXCEPT ![o] = [state |-> "running", owner |-> w, lease |-> "live"]]
        /\ UNCHANGED <<batch, overwritten, publishing, attempt>>
    BY <1>5 DEF TakeLease
  <2>5. operation'[o].state = "running" /\ operation'[o].owner = w
        /\ \A p \in Operations : p # o => operation'[p] = operation[p]
    BY <1>1, <2>4, Typed
  <2>6. \A p \in Operations : p # o => run'[p] = run[p]
    BY <1>1, <1>5, Typed DEF TakeLease
  <2>7. \A v \in Workers : Locking(v)' => call'[v].op # o
    BY <1>1, <2>2, <2>3, NotLocked DEF Locking, Locked, Writing
  <2>8. Works(w)'
    BY <2>2, <2>3 DEF Works, At, Selecting, Sending
  <2>9. \A v \in Workers : call'[v].op = o /\ Owned(v)' => v = w
    BY <2>5 DEF Owned
  <2>10. "running" \notin Terminal
    BY DEF Terminal
  <2>11. \A v \in Workers : \/ call'[v] = call[v]
                            \/ call'[v].op = o /\ ~Locking(v)'
    BY <2>2, <2>3 DEF Locking, Locked, Writing
  <2> QED
    BY <1>2, <2>4, <2>5, <2>6, <2>7, <2>8, <2>9, <2>10, <2>11, ReceiptFrame
<1> QED
  BY <1>3, <1>4, <1>5

LEMMA EndControlled ==
    ASSUME ControlInv, TypeInv', NEW w \in Workers,
           FinishWrites(w) \/ OwnershipLost(w) \/ Crash(w)
    PROVE  ControlInv'
<1> USE DEF env, rows, outbox, spending, history
<1>1. TypeInv /\ ~At(w, "idle") /\ Leave(w)
  BY ControlTyped DEF FinishWrites, OwnershipLost, Crash, At
<1>0. PICK o \in Operations : o = call[w].op
  BY <1>1, CallRow
<1>2. o \in Operations /\ operation[o].state # "absent"
  BY <1>0 DEF ControlInv, AbsentIsUntouched, Untouched
<1>3. call'[w].pc = "idle" /\ call'[w].op = None
      /\ \A v \in Workers \ {w} : call'[v] = call[v]
  BY <1>1, Continued DEF Leave, NoCall
<1>4. \A v \in Workers : ~At(v, "idle")' => v # w /\ call'[v] = call[v] /\ ~At(v, "idle")
  BY <1>3 DEF At
<1>5. \A v \in Workers : \/ call'[v] = call[v]
                         \/ call'[v].pc = "idle" /\ call'[v].op = None
  BY <1>3
<1>6. CASE FinishWrites(w)
  <2>1. operation' = [operation EXCEPT ![o] =
                       [state |-> OperationEnd(w), owner |-> None, lease |-> "none"]]
        /\ UNCHANGED <<batch, overwritten, broker, publishing, attempt>>
    BY <1>0, <1>6 DEF FinishWrites
  <2>2. operation'[o].state = OperationEnd(w) /\ operation'[o].lease = "none"
        /\ \A p \in Operations : p # o => operation'[p] = operation[p]
    BY <1>1, <1>2, <2>1, Typed
  <2>3. \A p \in Operations : p # o => run'[p] = run[p]
    BY <1>0, <1>1, <1>6, Typed DEF FinishWrites
  <2>4. \A v \in Workers : Locking(v)' => call'[v].op # o
    <3> SUFFICES ASSUME NEW v \in Workers, Locking(v)', call'[v].op = o PROVE FALSE
      OBVIOUS
    <3>1. v # w /\ Locking(v) /\ call[v].op = o
      BY <1>4 DEF Locking, Locked, Writing, At
    <3>2. Owned(v) /\ Owned(w)
      BY <1>6, <3>1
      DEF ControlInv, LockIsOwned, Held, FinishWrites, Locking, Locked, Writing, At
    <3> QED
      BY <1>0, <3>1, <3>2, OneOwner
  <2>5. OperationEnd(w) = "completed" => States(o) \subseteq {"applied", "skipped_nonempty"}
    BY <1>0 DEF OperationEnd, FinalState
  <2>6. States(o)' = States(o)
    BY <2>1 DEF States
  <2>7. \A v \in Workers : call'[v].op = o => ~Owned(v)'
    BY <2>2 DEF Owned
  <2>8. OperationEnd(w) # "absent"
    BY DEF OperationEnd, FinalState
  <2> QED
    BY <1>2, <1>5, <2>1, <2>2, <2>3, <2>4, <2>5, <2>6, <2>7, <2>8, ReceiptFrame
<1>7. CASE OwnershipLost(w) \/ Crash(w)
  <2>1. UNCHANGED <<operation, attempt, run, batch, overwritten, publishing>>
    BY <1>7 DEF OwnershipLost, Crash
  <2>2. \A p \in Operations : p # o => broker'[p] = broker[p]
    BY <1>0, <1>1, <1>2, <1>7, Typed DEF OwnershipLost, Crash
  <2>3. operation[o].state \in Terminal /\ operation[o].lease = "live" => EndedByCancel(o)
    BY <1>2 DEF ControlInv, EndedIsLeft
  <2>4. EndedByCancel(o)' <=> EndedByCancel(o)
    BY <2>1 DEF EndedByCancel, Cancelled
  <2>5. ASSUME NEW v \in Workers, Locking(v)', call'[v].op = o PROVE Held(v)'
    <3>1. call'[v] = call[v] /\ Held(v)
      BY <1>4, <2>5 DEF At, ControlInv, LockIsOwned, Locking, Locked, Writing
    <3> QED
      BY <2>1, <3>1 DEF Held, Owned, At
  <2>6. operation'[o].state = "completed" => States(o)' \subseteq {"applied", "skipped_nonempty"}
    BY <1>2, <2>1 DEF ControlInv, CompletedIsCovered, States
  <2>7. ASSUME NEW v \in Workers, ~At(v, "idle")', call'[v].op = o, Owned(v)' PROVE Works(v)'
    <3>1. call'[v] = call[v] /\ ~At(v, "idle")
      BY <1>4, <2>7
    <3>2. Owned(v)
      BY <2>1, <2>7, <3>1 DEF Owned
    <3>3. Works(v)
      BY <3>1, <3>2, Working
    <3> QED
      BY <2>1, <3>1, <3>3 DEF Works, At, Open, Requesting, Undecided
  <2> QED
    BY <1>2, <1>5, <2>1, <2>2, <2>3, <2>4, <2>5, <2>6, <2>7, ReceiptFrame
<1> QED
  BY <1>1, <1>6, <1>7

(* What reconciliation makes of an attempt.                                 *)
LEMMA ReconciledStates ==
    ASSUME TypeInv, NEW o \in Operations, NEW u \in Units, NEW b, NEW a \in AttemptRow,
           b = Recovered(o, u) \/ b = attempt[o][u], a = Reconciled(b, u) \/ a = b,
           b \in AttemptRow
    PROVE  /\ a.state = attempt[o][u].state => a = attempt[o][u]
           /\ attempt[o][u].state \in Settled /\ a # attempt[o][u] =>
                 /\ attempt[o][u].state \in {"provider_unknown", "failed"}
                 /\ a.state \in {"received", "applied"}
           /\ b.text = attempt[o][u].text /\ b.audit = attempt[o][u].audit
           /\ b.source = attempt[o][u].source /\ a.text = b.text /\ a.audit = b.audit
           /\ a.source = b.source /\ a.answer = b.answer
<1>1. attempt[o][u] \in AttemptRow
  BY Typed
<1>3. \A r \in AttemptRow :
          /\ [r EXCEPT !.state = "released"].state = "released"
          /\ [r EXCEPT !.state = "released"].text = r.text
          /\ [r EXCEPT !.state = "released"].audit = r.audit
          /\ [r EXCEPT !.state = "released"].source = r.source
          /\ [r EXCEPT !.state = "released"].answer = r.answer
  BY DEF AttemptRow
<1>4. \A r \in AttemptRow :
          /\ [r EXCEPT !.state = "applied"].state = "applied"
          /\ [r EXCEPT !.state = "applied"].text = r.text
          /\ [r EXCEPT !.state = "applied"].audit = r.audit
          /\ [r EXCEPT !.state = "applied"].source = r.source
          /\ [r EXCEPT !.state = "applied"].answer = r.answer
  BY DEF AttemptRow
<1>5. \A r \in AttemptRow : r.state = "released" => [r EXCEPT !.state = "released"] = r
  BY DEF AttemptRow
<1>6. \/ b = attempt[o][u]
      \/ /\ attempt[o][u].state \in Unresolved
         /\ b.state = "received" /\ b.text = attempt[o][u].text
         /\ b.audit = attempt[o][u].audit /\ b.source = attempt[o][u].source
  <2> DEFINE c == attempt[o][u]
             y == journal[FreshKey(u)].reply
  <2>1. \/ b = c
        \/ c.state \in Unresolved /\ y \in Answers
           /\ b = [c EXCEPT !.state = "received", !.answer = y]
    BY DEF Recovered
  <2> HIDE DEF y, c
  <2>2. c \in AttemptRow
    BY <1>1 DEF c
  <2>3. \/ b = c
        \/ /\ c.state \in Unresolved
           /\ b.state = "received" /\ b.text = c.text
           /\ b.audit = c.audit /\ b.source = c.source
    <3> DEFINE z == [c EXCEPT !.state = "received", !.answer = y]
    <3>1. z.state = "received" /\ z.text = c.text /\ z.audit = c.audit /\ z.source = c.source
      BY <2>2 DEF AttemptRow
    <3>2. b = c \/ (c.state \in Unresolved /\ b = z)
      BY <2>1
    <3> HIDE DEF z
    <3> QED
      BY <3>1, <3>2
  <2> QED
    BY <2>3 DEF c
<1>7. \/ a = b
      \/ /\ b.state = "pending" /\ a.state = "released"
         /\ a.text = b.text /\ a.audit = b.audit /\ a.source = b.source /\ a.answer = b.answer
      \/ /\ b.state = "received" /\ a.state = "applied"
         /\ a.text = b.text /\ a.audit = b.audit /\ a.source = b.source /\ a.answer = b.answer
  <2>1. \/ a = b
        \/ b.state \in {"pending", "released"} /\ a = [b EXCEPT !.state = "released"]
        \/ b.state = "received" /\ a = [b EXCEPT !.state = "applied"]
    BY DEF Reconciled
  <2>2. CASE b.state \in {"pending", "released"} /\ a = [b EXCEPT !.state = "released"]
    BY <1>3, <1>5, <2>2
  <2>3. CASE b.state = "received" /\ a = [b EXCEPT !.state = "applied"]
    BY <1>4, <2>3
  <2> QED
    BY <2>1, <2>2, <2>3
<1> QED
  BY <1>6, <1>7 DEF Unresolved, Settled

LEMMA ReconcileSteps ==
    ASSUME TypeInv, NEW o \in Operations, NEW renew \in BOOLEAN, NEW replay \in BOOLEAN,
           Reconcile(o, renew, replay)
    PROVE  /\ Unlocked(o) /\ operation[o].state # "absent"
           /\ attempt' = attempt \/ ~Active(o)
           /\ \A p \in Operations : p # o => attempt'[p] = attempt[p]
           /\ \A u \in Units : attempt[o][u].state \in Settled /\ attempt'[o][u] # attempt[o][u] =>
                 /\ attempt[o][u].state \in {"provider_unknown", "failed"}
                 /\ attempt'[o][u].state \in {"received", "applied"}
           /\ \A u \in Units :
                 Cancelled(o) /\ attempt'[o][u].state \in {"requesting", "applied"} =>
                    attempt'[o][u] = attempt[o][u]
           /\ \A u \in Units : unit'[u] = unit[u] \/
                 /\ unit'[u] = Translated(unit[u]) /\ attempt'[o][u].state = "applied"
                 /\ attempt'[o][u].answer = "good" /\ Current(attempt[o][u], u)
                 /\ ~Cancelled(o) /\ writable
<1> DEFINE open == /\ (authorized[o] \/ renew) /\ writable
                   /\ ~Cancelled(o) /\ ~Active(o)
           found == [u \in Units |-> IF replay THEN Recovered(o, u) ELSE attempt[o][u]]
           after == [u \in Units |-> IF u \in batch[o] THEN Reconciled(found[u], u)
                                     ELSE found[u]]
<1>1. attempt' = IF open THEN [attempt EXCEPT ![o] = after] ELSE attempt
  BY DEF Reconcile
<1>2. unit' = [u \in Units |->
                  IF open /\ after[u].state = "applied" /\ found[u].state = "received"
                  THEN Translated(unit[u]) ELSE unit[u]]
  BY DEF Reconcile
<1>3. open => ~Cancelled(o) /\ ~Active(o) /\ writable
  OBVIOUS
<1>4. Unlocked(o) /\ operation[o].state # "absent"
  BY DEF Reconcile
<1>5. CASE open
  <2>1. attempt'[o] = after /\ \A p \in Operations : p # o => attempt'[p] = attempt[p]
    BY <1>1, <1>5, Typed
  <2>2. \A u \in Units : attempt'[o][u] \in AttemptRow /\ attempt[o][u] \in AttemptRow
    BY ReconcileTyped, Typed DEF TypeInv, TypeOK
  <2>3. ASSUME NEW u \in Units
        PROVE  /\ found[u] = Recovered(o, u) \/ found[u] = attempt[o][u]
               /\ after[u] = Reconciled(found[u], u) \/ after[u] = found[u]
               /\ found[u] \in AttemptRow /\ after[u] = attempt'[o][u]
               /\ after[u].state = "applied" /\ found[u].state = "received" =>
                     after[u] = Reconciled(found[u], u)
    <3>1. \A x \in Answers : [attempt[o][u] EXCEPT !.state = "received", !.answer = x] \in AttemptRow
      BY <2>2, AttemptRows
    <3>2. found[u] \in AttemptRow
      BY <2>2, <3>1 DEF Recovered
    <3> QED
      BY <2>1, <3>2
  <2>4. \A u \in Units : unit'[u] = unit[u] \/
            (unit'[u] = Translated(unit[u]) /\ after[u].state = "applied"
             /\ found[u].state = "received")
    BY <1>2
  <2> HIDE DEF open, found, after
  <2>5. ASSUME NEW u \in Units
        PROVE  /\ attempt[o][u].state \in Settled /\ attempt'[o][u] # attempt[o][u] =>
                     /\ attempt[o][u].state \in {"provider_unknown", "failed"}
                     /\ attempt'[o][u].state \in {"received", "applied"}
               /\ found[u].text = attempt[o][u].text /\ found[u].audit = attempt[o][u].audit
               /\ found[u].source = attempt[o][u].source /\ after[u].answer = found[u].answer
    BY <2>2, <2>3, ReconciledStates
  <2>6. ASSUME NEW u \in Units, unit'[u] # unit[u]
        PROVE  /\ unit'[u] = Translated(unit[u]) /\ attempt'[o][u].state = "applied"
               /\ attempt'[o][u].answer = "good" /\ Current(attempt[o][u], u)
    <3>1. unit'[u] = Translated(unit[u]) /\ after[u].state = "applied"
          /\ found[u].state = "received" /\ after[u] = Reconciled(found[u], u)
      BY <2>3, <2>4, <2>6
    <3>2. ~Obsolete(found[u], u) /\ Usable(found[u])
      BY <3>1 DEF Reconciled
    <3> QED
      BY <2>3, <2>5, <3>1, <3>2 DEF Obsolete, Usable, Current
  <2> QED
    BY <1>3, <1>4, <1>5, <2>1, <2>5, <2>6
<1>6. CASE ~open
  <2>1. attempt' = attempt
    BY <1>1, <1>6
  <2>2. \A u \in Units : unit'[u] = unit[u]
    BY <1>2, <1>6
  <2> QED
    BY <1>4, <2>1, <2>2
<1> QED
  BY <1>5, <1>6

LEMMA ReconcileControlled ==
    ASSUME ControlInv, TypeInv', NEW o \in Operations, NEW renew \in BOOLEAN,
           NEW replay \in BOOLEAN, Reconcile(o, renew, replay)
    PROVE  ControlInv'
<1> USE DEF env, rows, outbox, spending, history
<1>1. TypeInv
  BY ControlTyped
<1>2. UNCHANGED <<batch, operation, run, broker, publishing, overwritten, call>>
  BY DEF Reconcile
<1>3. CASE attempt' = attempt
  BY <1>2, <1>3, ControlFrame DEF ControlInv, AbsentIsUntouched, Untouched, Cancelled
<1>4. CASE ~Active(o)
  <2>1. /\ Unlocked(o) /\ operation[o].state # "absent" /\ operation[o].lease # "live"
        /\ \A p \in Operations : p # o => attempt'[p] = attempt[p]
    BY <1>1, <1>4, ReconcileSteps DEF Active
  <2>2. \A v \in Workers : Locking(v)' => call'[v].op # o
    BY <1>2, <2>1, NotLocked DEF Locking
  <2>3. \A v \in Workers : call'[v].op = o => ~Owned(v)'
    BY <1>2, <2>1 DEF Owned
  <2>4. operation'[o].state = "completed" => States(o)' \subseteq {"applied", "skipped_nonempty"}
    <3> SUFFICES ASSUME operation[o].state = "completed"
                 PROVE  States(o)' \subseteq {"applied", "skipped_nonempty"}
      BY <1>2
    <3>1. \A u \in batch[o] : attempt[o][u].state \in {"applied", "skipped_nonempty"}
      BY DEF ControlInv, CompletedIsCovered, States
    <3>2. batch[o] \subseteq Units
      BY <1>1, BatchTyped
    <3>3. \A u \in batch[o] : attempt'[o][u] = attempt[o][u]
      BY <1>1, <3>1, <3>2, ReconcileSteps DEF Settled
    <3> QED
      BY <1>2, <3>1, <3>3 DEF States
  <2> QED
    BY <1>2, <2>1, <2>2, <2>3, <2>4, ReceiptFrame
<1> QED
  BY <1>1, <1>3, <1>4, ReconcileSteps

LEMMA ControlStep == ControlInv /\ [Next]_vars => ControlInv'
<1> SUFFICES ASSUME ControlInv, [Next]_vars PROVE ControlInv'
  OBVIOUS
<1>1. TypeInv'
  BY TypeStep, ControlTyped
<1>2. CASE UNCHANGED vars
  BY <1>2, SameControl
<1>3. CASE Next
  BY <1>1, <1>3, AcceptControlled, RequestsControlled, PublishingControlled,
     RecoverControlled, ExpiryControlled, EnvironmentControlled, ReconcileControlled,
     TakeControlled, TriageControlled, LookupControlled, AskControlled, FinishControlled,
     ReadsControlled, EndControlled
  DEF Next, Step, Take, Triage, Publish, Drain, Finish
<1> QED
  BY <1>2, <1>3

LEMMA Control == Spec => []ControlInv
BY ControlInit, ControlStep, PTL DEF Spec

(* "completed" covers the whole batch: every unit was filled by this batch  *)
(* or had been filled by somebody else.                                     *)
THEOREM CompletedCovers == Spec => []CompletedIsCovered
<1>1. ControlInv => CompletedIsCovered
  BY DEF ControlInv
<1> QED
  BY <1>1, Control, PTL

(* A receipt that ended is never reopened, not by a duplicate or late       *)
(* message, a recovery or a retry of its key, unless the last failure of    *)
(* its publisher was written over a cancellation.                           *)
THEOREM TerminalStays == Spec => TerminalIsFinal
<1> USE DEF env, rows, outbox, spending, history
<1>1. ControlInv /\ [Next]_vars =>
        [\A o \in Operations : operation[o].state \in Terminal =>
            overwritten[o] \/ operation'[o].state = operation[o].state]_vars
  <2> SUFFICES ASSUME ControlInv, Next, NEW o \in Operations,
                      operation[o].state \in Terminal, ~overwritten[o]
               PROVE  operation'[o].state = operation[o].state
    BY DEF vars
  <2> DEFINE Same == operation'[o].state = operation[o].state
  <2>1. TypeInv
    BY ControlTyped
  <2>2. ASSUME NEW p \in Operations, p # o,
               \A q \in Operations : q # p => operation'[q] = operation[q]
        PROVE  Same
    BY <2>2
  <2>3. CASE UNCHANGED operation
    BY <2>3
  <2>4. ASSUME NEW p \in Operations, Accept(p) PROVE Same
    <3>1. p # o
      BY <2>4 DEF Accept, Terminal
    <3>2. \A q \in Operations : q # p => operation'[q] = operation[q]
      BY <2>1, <2>4, Typed DEF Accept
    <3> QED
      BY <2>2, <3>1, <3>2
  <2>5. ASSUME NEW p \in Operations, RecoverExpired(p) PROVE Same
    <3>1. p # o
      BY <2>5 DEF RecoverExpired, Recoverable, Terminal
    <3>2. \A q \in Operations : q # p => operation'[q] = operation[q]
      BY <2>1, <2>5, Typed DEF RecoverExpired
    <3> QED
      BY <2>2, <3>1, <3>2
  <2>6. ASSUME NEW p \in Operations, LeaseExpires(p) PROVE Same
    <3> DEFINE r == [operation[p] EXCEPT !.lease = "expired"]
    <3>1. operation' = [operation EXCEPT ![p] = r]
      BY <2>6 DEF LeaseExpires
    <3>2. operation[p] \in OperationRow
      BY <2>1, Typed
    <3>3. r.state = operation[p].state
      BY <3>2 DEF OperationRow
    <3> HIDE DEF r
    <3> QED
      BY <2>1, <3>1, <3>3, Typed
  <2>7. ASSUME NEW w \in Workers, NEW p \in Operations, EndCancelled(w, p) \/ TakeLease(w, p)
        PROVE  Same
    <3>1. p # o
      BY <2>7 DEF EndCancelled, TakeLease, HasNothingToDo
    <3>2. \A q \in Operations : q # p => operation'[q] = operation[q]
      BY <2>1, <2>7, Typed DEF EndCancelled, TakeLease
    <3> QED
      BY <2>2, <3>1, <3>2
  <2>8. ASSUME NEW w \in Workers, FinishWrites(w) PROVE Same
    <3>1. PICK p \in Operations : p = call[w].op
      BY <2>1, <2>8, CallRow DEF FinishWrites, At
    <3>2. operation' = [operation EXCEPT ![p] =
              [state |-> OperationEnd(w), owner |-> None, lease |-> "none"]]
      BY <2>8, <3>1 DEF FinishWrites
    <3>3. CASE p = o
      <4>1. operation[o].state = "failed" /\ call[w].cancelled
        BY <2>8, <3>1, <3>3 DEF ControlInv, LockIsOwned, Locking, Locked, Held, FinishWrites, At, Terminal
      <4>2. OperationEnd(w) = "failed"
        BY <4>1 DEF OperationEnd
      <4> QED
        BY <2>1, <3>2, <3>3, <4>1, <4>2, Typed
    <3>4. CASE p # o
      BY <2>1, <2>2, <3>2, <3>4, Typed
    <3> QED
      BY <3>3, <3>4
  <2>9. ASSUME NEW w \in Workers,
               \/ Triage(w) \/ Ask(w) \/ OwnershipLost(w) \/ Crash(w)
               \/ ApplyStops(w) \/ ApplyReads(w) \/ AllApplied(w) \/ FinishReads(w)
               \/ \E u \in Units : Apply(w, u) \/ ApplyRefused(w, u)
               \/ \E p \in Operations : DropMessage(w, p)
        PROVE  UNCHANGED operation
    BY <2>9 DEF Triage, TriageKeeps, TriageCloses, TriageSelects, LookupFinds, LookupMisses,
       Ask, AllReceived, ChunkStops, ChunkReads, GuardRefuses, Transport, CallRaises,
       RequestChunk, Claim, ReplaySaved, Reply, StoreAnswer, OwnershipLost, Crash,
       ApplyStops, ApplyReads, AllApplied, FinishReads, Apply, ApplyRefused, DropMessage
  <2>10. ASSUME NEW p \in Operations,
                \/ RetryDispatch(p) \/ CancelReads(p) \/ CancelSaves(p) \/ Publish(p)
                \/ BrokerFails(p) \/ PublisherDies(p) \/ Reoffer(p) \/ RightsChange(p)
                \/ \E renew, replay \in BOOLEAN : Reconcile(p, renew, replay)
         PROVE  UNCHANGED operation
    BY <2>10 DEF RetryDispatch, CancelReads, CancelSaves, Publish, PublishBegins,
       BrokerAccepts, MarkPublished, CountFailure, BrokerFails, PublisherDies, Reoffer,
       RightsChange, Reconcile
  <2>11. ASSUME NEW u \in Units, HumanEdits(u) \/ SourceChanges(u) PROVE UNCHANGED operation
    BY <2>11 DEF HumanEdits, SourceChanges, Edited
  <2>12. CASE ComponentLockToggles
    BY <2>12 DEF ComponentLockToggles
  <2> HIDE DEF Same
  <2>13. Same
    BY <2>3, <2>4, <2>5, <2>6, <2>7, <2>8, <2>9, <2>10, <2>11, <2>12
    DEF Next, Step, Take, Finish, Drain, Same
  <2> QED
    BY <2>13 DEF Same
<1> QED
  BY <1>1, Control, PTL DEF Spec, TerminalIsFinal

(* The steps that write attempts.                                           *)
LEMMA AttemptWriters ==
    ASSUME Next
    PROVE  \/ UNCHANGED attempt
           \/ \E o \in Operations : Accept(o)
           \/ \E w \in Workers, o \in Operations : EndCancelled(w, o)
           \/ \E w \in Workers, u \in Units :
                 \/ TriageCloses(w, u) \/ LookupFinds(w, u) \/ LookupMisses(w, u)
                 \/ StoreAnswer(w, u) \/ Apply(w, u) \/ ApplyRefused(w, u)
           \/ \E w \in Workers, units \in SUBSET Units : RequestChunk(w, units)
           \/ \E o \in Operations, renew, replay \in BOOLEAN : Reconcile(o, renew, replay)
<1>1. ASSUME NEW w \in Workers,
             \/ OwnershipLost(w) \/ Crash(w) \/ AllReceived(w) \/ ChunkStops(w)
             \/ ChunkReads(w) \/ GuardRefuses(w) \/ Transport(w) \/ CallRaises(w)
             \/ ApplyStops(w) \/ ApplyReads(w) \/ AllApplied(w) \/ FinishReads(w)
             \/ FinishWrites(w)
             \/ \E u \in Units : TriageKeeps(w, u) \/ TriageSelects(w, u)
             \/ \E units \in SUBSET Units : Claim(w, units) \/ ReplaySaved(w, units)
             \/ \E reply \in [GroupUnits(w) -> Answers \cup {"missing"}] : Reply(w, reply)
             \/ \E o \in Operations : DropMessage(w, o) \/ TakeLease(w, o)
      PROVE  UNCHANGED attempt
  BY <1>1 DEF TriageKeeps, TriageSelects, AllReceived, ChunkStops, ChunkReads, GuardRefuses,
     Transport, CallRaises, Claim, ReplaySaved, Reply, OwnershipLost, Crash, ApplyStops,
     ApplyReads, AllApplied, FinishReads, FinishWrites, DropMessage, TakeLease
<1>2. ASSUME NEW o \in Operations,
             \/ RetryDispatch(o) \/ CancelReads(o) \/ CancelSaves(o) \/ Publish(o)
             \/ BrokerFails(o) \/ PublisherDies(o) \/ Drain(o) \/ LeaseExpires(o)
             \/ RightsChange(o)
      PROVE  UNCHANGED attempt
  BY <1>2 DEF RetryDispatch, CancelReads, CancelSaves, Publish, PublishBegins,
     BrokerAccepts, MarkPublished, CountFailure, BrokerFails, PublisherDies, Drain,
     RecoverExpired, Reoffer, LeaseExpires, RightsChange
<1>3. ASSUME NEW u \in Units, HumanEdits(u) \/ SourceChanges(u) PROVE UNCHANGED attempt
  BY <1>3 DEF HumanEdits, SourceChanges, Edited
<1>4. ComponentLockToggles => UNCHANGED attempt
  BY DEF ComponentLockToggles
<1>5. ASSUME NEW w \in Workers, Step(w) \/ Crash(w)
      PROVE  \/ UNCHANGED attempt
             \/ \E o \in Operations : EndCancelled(w, o)
             \/ \E u \in Units :
                   \/ TriageCloses(w, u) \/ LookupFinds(w, u) \/ LookupMisses(w, u)
                   \/ StoreAnswer(w, u) \/ Apply(w, u) \/ ApplyRefused(w, u)
             \/ \E units \in SUBSET Units : RequestChunk(w, units)
  BY <1>1, <1>5 DEF Step, Take, Triage, Ask, Finish
<1> QED
  BY <1>2, <1>3, <1>4, <1>5 DEF Next

(* What each of them writes.                                                *)
LEMMA AttemptOfUnit ==
    ASSUME TypeInv, NEW w \in Workers, NEW u \in Units,
           \/ TriageCloses(w, u) \/ LookupFinds(w, u) \/ LookupMisses(w, u)
           \/ StoreAnswer(w, u) \/ Apply(w, u) \/ ApplyRefused(w, u)
    PROVE  /\ ~At(w, "idle") /\ call[w].op \in Operations
           /\ \A p \in Operations : p # call[w].op => attempt'[p] = attempt[p]
           /\ \A v \in Units : v # u => attempt'[call[w].op][v] = attempt[call[w].op][v]
           /\ \/ attempt'[call[w].op][u] = attempt[call[w].op][u]
              \/ attempt'[call[w].op][u].state \in {"received", "pending"} \cup Settled
           /\ ~Apply(w, u) => \/ attempt'[call[w].op][u] = attempt[call[w].op][u]
                              \/ attempt'[call[w].op][u].state # "applied"
<1>1. PICK o : o = call[w].op
  OBVIOUS
<1>2. ~At(w, "idle")
  BY DEF TriageCloses, LookupFinds, LookupMisses, InTriage, InLookup, StoreAnswer, Apply,
     ApplyRefused, Serves, At
<1>3. o \in Operations /\ attempt[o][u] \in AttemptRow
  BY <1>1, <1>2, CallRow
<1>4. ASSUME NEW r, attempt' = [attempt EXCEPT ![o][u] = r]
      PROVE  /\ \A p \in Operations : p # o => attempt'[p] = attempt[p]
             /\ \A v \in Units : v # u => attempt'[o][v] = attempt[o][v]
             /\ attempt'[o][u] = r
  BY <1>3, <1>4, Typed
<1>5. ASSUME NEW s, SetState(o, u, s), s \in {"pending"} \cup Settled,
             s = "applied" => Apply(w, u)
      PROVE  /\ \A p \in Operations : p # o => attempt'[p] = attempt[p]
             /\ \A v \in Units : v # u => attempt'[o][v] = attempt[o][v]
             /\ attempt'[o][u].state \in {"received", "pending"} \cup Settled
             /\ ~Apply(w, u) => attempt'[o][u].state # "applied"
  <2>1. /\ \A p \in Operations : p # o => attempt'[p] = attempt[p]
        /\ \A v \in Units : v # u => attempt'[o][v] = attempt[o][v]
        /\ attempt'[o][u].state = s
    BY <1>3, <1>5, OneState
  <2> QED
    BY <1>5, <2>1
<1>6. ASSUME NEW b, attempt' = [attempt EXCEPT ![o][u] =
                        [attempt[o][u] EXCEPT !.state = "received", !.answer = b]]
      PROVE  /\ \A p \in Operations : p # o => attempt'[p] = attempt[p]
             /\ \A v \in Units : v # u => attempt'[o][v] = attempt[o][v]
             /\ attempt'[o][u].state = "received"
  <2> DEFINE r == [attempt[o][u] EXCEPT !.state = "received", !.answer = b]
  <2>1. r.state = "received"
    BY <1>3 DEF AttemptRow
  <2> HIDE DEF r
  <2>2. attempt' = [attempt EXCEPT ![o][u] = r]
    BY <1>6 DEF r
  <2> QED
    BY <1>4, <2>1, <2>2
<1>7. CASE TriageCloses(w, u) \/ ApplyRefused(w, u)
  <2>1. \E s \in {"failed", "skipped_nonempty", "stale"} : SetState(o, u, s)
    BY <1>1, <1>7 DEF TriageCloses, ApplyRefused, Closed
  <2> QED
    BY <1>1, <1>2, <1>3, <1>5, <2>1 DEF Settled
<1>8. CASE LookupFinds(w, u)
  <2>1. \E b : attempt' = [attempt EXCEPT ![o][u] =
                        [attempt[o][u] EXCEPT !.state = "received", !.answer = b]]
    BY <1>1, <1>8 DEF LookupFinds
  <2> QED
    BY <1>1, <1>2, <1>3, <1>6, <2>1
<1>9. CASE LookupMisses(w, u)
  <2>1. SetState(o, u, "provider_unknown") \/ UNCHANGED attempt
    BY <1>1, <1>9 DEF LookupMisses
  <2> QED
    BY <1>1, <1>2, <1>3, <1>5, <2>1 DEF Settled
<1>10. CASE StoreAnswer(w, u)
  <2>1. PICK b : attempt' = [attempt EXCEPT ![o][u] =
             IF b \in Answers THEN [attempt[o][u] EXCEPT !.state = "received", !.answer = b]
             ELSE [attempt[o][u] EXCEPT !.state = Unanswered(w, u)]]
    BY <1>1, <1>10 DEF StoreAnswer
  <2>2. CASE b \in Answers
    BY <1>1, <1>2, <1>3, <1>6, <2>1, <2>2
  <2>3. CASE b \notin Answers
    <3>1. SetState(o, u, Unanswered(w, u))
      BY <2>1, <2>3 DEF SetState
    <3>2. Unanswered(w, u) \in {"failed", "pending", "provider_unknown"}
      BY DEF Unanswered
    <3> QED
      BY <1>1, <1>2, <1>3, <1>5, <3>1, <3>2 DEF Settled
  <2> QED
    BY <2>2, <2>3
<1>11. CASE Apply(w, u)
  <2>1. SetState(o, u, "applied")
    BY <1>1, <1>11 DEF Apply
  <2> QED
    BY <1>1, <1>2, <1>3, <1>5, <1>11, <2>1 DEF Settled
<1> QED
  BY <1>7, <1>8, <1>9, <1>10, <1>11

LEMMA AttemptOfAccept ==
    ASSUME TypeInv, NEW o \in Operations, Accept(o)
    PROVE  /\ \A p \in Operations : p # o => attempt'[p] = attempt[p]
           /\ \A u \in Units : \/ attempt'[o][u] = attempt[o][u]
                               \/ attempt'[o][u].state = "pending"
<1> DEFINE new == [u \in Units |->
                IF u \notin batch[o] THEN attempt[o][u]
                ELSE [state |-> "pending", answer |-> "", text |-> unit[u].text,
                      audit |-> unit[u].audit, source |-> unit[u].source]]
<1>1. attempt' = [attempt EXCEPT ![o] = new]
  BY DEF Accept
<1>2. \A u \in Units : new[u] = attempt[o][u] \/ new[u].state = "pending"
  OBVIOUS
<1> HIDE DEF new
<1> QED
  BY <1>1, <1>2, Typed

LEMMA AttemptOfCancel ==
    ASSUME TypeInv, NEW w \in Workers, NEW o \in Operations, EndCancelled(w, o)
    PROVE  /\ \A p \in Operations : p # o => attempt'[p] = attempt[p]
           /\ \A u \in Units : \/ attempt'[o][u] = attempt[o][u]
                               \/ /\ attempt[o][u].state = "pending"
                                  /\ attempt'[o][u].state = "failed"
<1> DEFINE new == [u \in Units |-> IF attempt[o][u].state = "pending"
                        THEN [attempt[o][u] EXCEPT !.state = "failed"] ELSE attempt[o][u]]
<1>1. attempt' = [attempt EXCEPT ![o] = new]
  BY DEF EndCancelled
<1>3. \A u \in Units : attempt[o][u] \in AttemptRow
  BY Typed
<1>4. ASSUME NEW u \in Units
      PROVE  new[u] = attempt[o][u] \/ (attempt[o][u].state = "pending" /\ new[u].state = "failed")
  <2> DEFINE r == [attempt[o][u] EXCEPT !.state = "failed"]
  <2>1. r.state = "failed"
    BY <1>3 DEF AttemptRow
  <2>2. new[u] = IF attempt[o][u].state = "pending" THEN r ELSE attempt[o][u]
    OBVIOUS
  <2> HIDE DEF r, new
  <2> QED
    BY <2>1, <2>2
<1> HIDE DEF new
<1> QED
  BY <1>1, <1>4, Typed

LEMMA AttemptOfChunk ==
    ASSUME TypeInv, NEW w \in Workers, NEW units \in SUBSET Units, RequestChunk(w, units)
    PROVE  /\ call[w].op \in Operations
           /\ At(w, "requesting") /\ units \subseteq call[w].selected
           /\ \A p \in Operations : p # call[w].op => attempt'[p] = attempt[p]
           /\ \A u \in Units \ units : attempt'[call[w].op][u] = attempt[call[w].op][u]
<1>1. ~At(w, "idle")
  BY DEF RequestChunk, At
<1>2. PICK o \in Operations : o = call[w].op
  BY <1>1, CallRow
<1> DEFINE new == [u \in Units |-> IF u \in units
                       THEN [attempt[o][u] EXCEPT !.state = Requested(w, u)] ELSE attempt[o][u]]
<1>3. attempt' = [attempt EXCEPT ![o] = new]
  BY <1>2 DEF RequestChunk
<1>4. \A u \in Units \ units : new[u] = attempt[o][u]
  OBVIOUS
<1> HIDE DEF new
<1>5. /\ \A p \in Operations : p # o => attempt'[p] = attempt[p]
      /\ \A u \in Units \ units : attempt'[o][u] = attempt[o][u]
  BY <1>3, <1>4, Typed
<1> QED
  BY <1>2, <1>5 DEF RequestChunk, ChunkOf

LEMMA UnitWriters ==
    ASSUME Next
    PROVE  \/ UNCHANGED unit
           \/ \E w \in Workers, u \in Units : Apply(w, u)
           \/ \E o \in Operations, renew, replay \in BOOLEAN : Reconcile(o, renew, replay)
           \/ \E u \in Units : HumanEdits(u) \/ SourceChanges(u)
<1>1. ASSUME NEW w \in Workers, Step(w) \/ Crash(w)
      PROVE  UNCHANGED unit \/ \E u \in Units : Apply(w, u)
  BY <1>1 DEF Step, Crash, Take, DropMessage, EndCancelled, TakeLease, Triage, TriageKeeps,
     TriageCloses, TriageSelects, LookupFinds, LookupMisses, Ask, AllReceived, ChunkStops,
     ChunkReads, GuardRefuses, Transport, CallRaises, RequestChunk, Claim, ReplaySaved,
     Reply, StoreAnswer, Finish, ApplyStops, ApplyReads, AllApplied, FinishReads,
     FinishWrites, ApplyRefused, OwnershipLost
<1>2. ASSUME NEW o \in Operations,
             \/ Accept(o) \/ RetryDispatch(o) \/ CancelReads(o) \/ CancelSaves(o)
             \/ Publish(o) \/ BrokerFails(o) \/ PublisherDies(o) \/ Drain(o)
             \/ LeaseExpires(o) \/ RightsChange(o)
      PROVE  UNCHANGED unit
  BY <1>2 DEF Accept, RetryDispatch, CancelReads, CancelSaves, Publish, PublishBegins,
     BrokerAccepts, MarkPublished, CountFailure, BrokerFails, PublisherDies, Drain,
     RecoverExpired, Reoffer, LeaseExpires, RightsChange
<1>3. ComponentLockToggles => UNCHANGED unit
  BY DEF ComponentLockToggles
<1> QED
  BY <1>1, <1>2, <1>3 DEF Next

LEMMA FoundIsReceived ==
    ASSUME TypeInv, NEW w \in Workers, NEW u \in Units, LookupFinds(w, u)
    PROVE  attempt'[call[w].op][u].state = "received"
<1>1. PICK o \in Operations : o = call[w].op
  BY CallRow DEF LookupFinds, InLookup, At
<1>2. PICK b : attempt' = [attempt EXCEPT ![o][u] =
                  [attempt[o][u] EXCEPT !.state = "received", !.answer = b]]
  BY <1>1 DEF LookupFinds
<1> DEFINE r == [attempt[o][u] EXCEPT !.state = "received", !.answer = b]
<1>3. r.state = "received"
  <2>1. attempt[o][u] \in AttemptRow
    BY Typed
  <2> QED
    BY <2>1 DEF AttemptRow
<1>4. attempt' = [attempt EXCEPT ![o][u] = r]
  BY <1>2
<1> HIDE DEF r
<1> QED
  BY <1>1, <1>3, <1>4, Typed

(* An attempt that is settled stays settled, however many workers believe   *)
(* they own the operation, but for three ends of the receipt: a later       *)
(* reconciliation takes up what was unknown or failed, the second loop of a *)
(* worker saves a free answer for what a cancellation closed under it, and  *)
(* a worker goes on after "failed" was written over its cancellation.       *)
THEOREM SettledStays == Spec => SettledIsFinal
<1>1. ControlInv /\ [Next]_vars =>
        [\A o \in Operations : \A u \in Units :
          LET old == attempt[o][u].state
              new == attempt'[o][u].state IN
          old \in Settled /\ attempt'[o][u] # attempt[o][u] =>
             /\ operation[o].state \in Terminal
             /\ \/ overwritten[o]
                \/ /\ operation[o].lease # "live"
                   /\ old \in {"provider_unknown", "failed"} /\ new \in {"received", "applied"}
                \/ Cancelled(o) /\ old = "failed" /\ new = "received"]_vars
  <2> SUFFICES ASSUME ControlInv, Next, NEW o \in Operations, NEW u \in Units,
                      attempt[o][u].state \in Settled, attempt'[o][u] # attempt[o][u]
               PROVE  LET old == attempt[o][u].state
                          new == attempt'[o][u].state IN
                      /\ operation[o].state \in Terminal
                      /\ \/ overwritten[o]
                         \/ /\ operation[o].lease # "live"
                            /\ old \in {"provider_unknown", "failed"}
                            /\ new \in {"received", "applied"}
                         \/ Cancelled(o) /\ old = "failed" /\ new = "received"
    BY DEF vars
  <2> DEFINE Goal == /\ operation[o].state \in Terminal
                     /\ \/ overwritten[o]
                        \/ /\ operation[o].lease # "live"
                           /\ attempt[o][u].state \in {"provider_unknown", "failed"}
                           /\ attempt'[o][u].state \in {"received", "applied"}
                        \/ /\ Cancelled(o) /\ attempt[o][u].state = "failed"
                           /\ attempt'[o][u].state = "received"
  <2>1. TypeInv
    BY ControlTyped
  <2>2. ASSUME NEW p \in Operations, Accept(p) PROVE FALSE
    <3>1. p = o
      BY <2>1, <2>2, AttemptOfAccept
    <3>2. attempt[o][u].state = "absent"
      BY <2>2, <3>1 DEF Accept, ControlInv, AbsentIsUntouched, Untouched
    <3> QED
      BY <3>2 DEF Settled
  <2>3. ASSUME NEW w \in Workers, NEW p \in Operations, EndCancelled(w, p) PROVE FALSE
    BY <2>1, <2>3, AttemptOfCancel DEF Settled
  <2>4. ASSUME NEW w \in Workers, NEW v \in Units,
               \/ TriageCloses(w, v) \/ LookupFinds(w, v) \/ LookupMisses(w, v)
               \/ StoreAnswer(w, v) \/ Apply(w, v) \/ ApplyRefused(w, v)
        PROVE  Goal
    <3>1. call[w].op = o /\ v = u /\ ~At(w, "idle")
      BY <2>1, <2>4, AttemptOfUnit
    <3>2. ~TriageCloses(w, v)
      BY <3>1 DEF TriageCloses
    <3>3. ~LookupMisses(w, v)
      <4>1. LookupMisses(w, v) => UNCHANGED attempt
        BY <3>1 DEF LookupMisses, LostRequest, Settled
      <4> QED
        BY <4>1
    <3>4. CASE LookupFinds(w, v)
      <4>1. Owned(w) /\ At(w, "lookup") /\ u \in call[w].todo
        BY <3>1, <3>4 DEF LookupFinds, InLookup, InTransaction
      <4>2. Undecided(w, u)
        BY <3>1, <4>1, Working DEF Works
      <4>3. attempt[o][u].state = "failed" /\ operation[o].state \in Terminal
        BY <3>1, <4>2 DEF Undecided
      <4>4. EndedByCancel(o)
        BY <3>1, <4>1, <4>3 DEF ControlInv, EndedIsLeft, Owned
      <4>5. attempt'[o][u].state = "received"
        BY <2>1, <3>1, <3>4, FoundIsReceived
      <4> QED
        BY <4>3, <4>4, <4>5 DEF EndedByCancel
    <3>5. ~StoreAnswer(w, v)
      <4>1. ASSUME StoreAnswer(w, v) PROVE FALSE
        <5>1. Works(w) /\ At(w, "store") /\ u \in call[w].todo
          BY <3>1, <4>1, Working DEF StoreAnswer, InTransaction
        <5>2. Requesting(w, u)
          BY <5>1 DEF Works
        <5> QED
          BY <3>1, <5>2 DEF Requesting, Settled
      <4> QED
        BY <4>1
    <3>6. ~Apply(w, v) /\ ~ApplyRefused(w, v)
      BY <3>1 DEF Apply, ApplyRefused, Serves, Received, Settled
    <3> QED
      BY <2>4, <3>2, <3>3, <3>4, <3>5, <3>6
  <2>5. ASSUME NEW w \in Workers, NEW units \in SUBSET Units, RequestChunk(w, units)
        PROVE  Goal
    <3>1. call[w].op = o /\ u \in call[w].selected /\ At(w, "requesting")
      BY <2>1, <2>5, AttemptOfChunk
    <3>2. Held(w)
      BY <3>1 DEF ControlInv, LockIsOwned, Locking, Locked, Writing, At
    <3>3. Works(w)
      BY <3>1, <3>2, Working DEF At, Held
    <3>4. operation[o].state \in Terminal
      BY <3>1, <3>3 DEF Works, At, Selecting, Open
    <3> QED
      BY <3>1, <3>2, <3>4 DEF Held, At
  <2>6. ASSUME NEW p \in Operations, NEW renew \in BOOLEAN, NEW replay \in BOOLEAN,
               Reconcile(p, renew, replay)
        PROVE  Goal
    <3>1. p = o
      BY <2>1, <2>6, ReconcileSteps
    <3>2. operation[o].state \in Terminal /\ operation[o].lease # "live"
      BY <2>1, <2>6, <3>1, ReconcileSteps DEF Active
    <3> QED
      BY <2>1, <2>6, <3>1, <3>2, ReconcileSteps
  <2> HIDE DEF Goal
  <2>7. Goal
    BY <2>2, <2>3, <2>4, <2>5, <2>6, AttemptWriters
  <2> QED
    BY <2>7 DEF Goal
<1> QED
  BY <1>1, Control, PTL DEF Spec, SettledIsFinal

(* Who enters a transaction that requests or applies, or waits for a reply. *)
Marked == Writing \cup {"wait"}
Enters(v) ==
    call'[v].pc \in Marked =>
        call'[v] = call[v] \/ ChunkReads(v) \/ ApplyReads(v) \/ Transport(v)

LEMMA EntersNot ==
    ASSUME TypeInv, NEW w \in Workers, NEW next, Continue(w, next), next.pc \notin Marked,
           NEW v \in Workers
    PROVE  Enters(v)
BY Continued DEF Enters

LEMMA Parted ==
    ASSUME TypeInv, NEW w \in Workers, NEW v \in Workers, w # v, NEW next, Continue(w, next)
    PROVE  Enters(v)
BY Continued DEF Enters

LEMMA TriagedCall ==
    ASSUME TypeInv, NEW w \in Workers, NEW u, NEW selected,
           \/ At(w, "triage") /\ Triaged(w, u, selected)
           \/ LookedUp(w, u, selected)
    PROVE  \E next : /\ Continue(w, next) /\ next.op = call[w].op
                     /\ next.pc \in {"triage", "lookup", "chunk"}
                     /\ next.chunk = call[w].chunk
                     /\ next.selected \in {{}, selected}
                     /\ next.todo \subseteq call[w].todo \cup selected
<1>1. call[w] \in Call
  BY Typed
<1> DEFINE left == call[w].todo \ {u}
           p == IF selected = {} THEN "chunk" ELSE "lookup"
           q == IF left = {} THEN "chunk" ELSE "lookup"
           m == [call[w] EXCEPT !.todo = left, !.selected = selected]
           n == [call[w] EXCEPT !.todo = selected, !.selected = {}, !.pc = p]
           l == [call[w] EXCEPT !.todo = left, !.selected = selected, !.pc = q]
<1>2. \/ At(w, "triage") /\ (Continue(w, m) \/ Continue(w, n))
      \/ Continue(w, l)
  BY DEF Triaged, LookedUp
<1>3. {p, q} \subseteq {"lookup", "chunk"} /\ left \subseteq call[w].todo
  OBVIOUS
<1> HIDE DEF left, p, q
<1>4. /\ m.op = call[w].op /\ m.pc = call[w].pc /\ m.chunk = call[w].chunk
      /\ m.selected = selected /\ m.todo = left
  BY <1>1 DEF Call
<1>5. /\ n.op = call[w].op /\ n.pc = p /\ n.chunk = call[w].chunk
      /\ n.selected = {} /\ n.todo = selected
  BY <1>1 DEF Call
<1>6. /\ l.op = call[w].op /\ l.pc = q /\ l.chunk = call[w].chunk
      /\ l.selected = selected /\ l.todo = left
  BY <1>1 DEF Call
<1> HIDE DEF m, n, l
<1> QED
  BY <1>2, <1>3, <1>4, <1>5, <1>6 DEF At

LEMMA AskEnters ==
    ASSUME TypeInv, NEW w \in Workers, Ask(w), ~ChunkReads(w), ~Transport(w), NEW v \in Workers
    PROVE  Enters(v)
<1> USE DEF Marked, Writing
<1>1. call[w] \in Call
  BY Typed
<1>2. CASE AllReceived(w)
  <2> DEFINE n == [call[w] EXCEPT !.pc = "apply"]
  <2>1. Continue(w, n) /\ n.pc = "apply"
    BY <1>1, <1>2 DEF AllReceived, Goto, Call
  <2> QED
    BY <2>1, EntersNot
<1>3. CASE ChunkStops(w)
  <2> DEFINE c == ~Cancelled(call[w].op)
             n == [call[w] EXCEPT !.pc = "apply", !.paused = c]
  <2>1. Continue(w, n)
    BY <1>3 DEF ChunkStops
  <2> HIDE DEF c
  <2>2. n.pc = "apply"
    BY <1>1 DEF Call
  <2> QED
    BY <2>1, <2>2, EntersNot
<1>4. CASE GuardRefuses(w)
  <2> DEFINE n == [call[w] EXCEPT !.pc = "store", !.todo = call[w].chunk, !.outcome = "refused"]
  <2>1. Continue(w, n) /\ n.pc = "store"
    BY <1>1, <1>4 DEF GuardRefuses, Call
  <2> QED
    BY <2>1, EntersNot
<1>5. CASE CallRaises(w)
  <2> DEFINE n == [call[w] EXCEPT !.pc = "store", !.todo = call[w].chunk, !.group = {},
                                  !.outcome = "lost"]
  <2>1. Continue(w, n) /\ n.pc = "store"
    BY <1>1, <1>5 DEF CallRaises, Call
  <2> QED
    BY <2>1, EntersNot
<1>6. ASSUME NEW chunk \in SUBSET Units, RequestChunk(w, chunk) PROVE Enters(v)
  <2> DEFINE r == {u \in chunk : Requested(w, u) = "requesting"}
             p == IF r = {} THEN "chunk" ELSE "dispatch"
             s == call[w].selected \ chunk
             n == [call[w] EXCEPT !.selected = s, !.chunk = r, !.todo = r,
                                  !.answers = NoAnswers, !.pc = p]
  <2>1. Continue(w, n) /\ p \in {"chunk", "dispatch"}
    BY <1>6 DEF RequestChunk
  <2> HIDE DEF r, p, s
  <2>2. n.pc = p
    BY <1>1 DEF Call
  <2> QED
    BY <2>1, <2>2, EntersNot
<1>7. ASSUME NEW units \in SUBSET Units, Claim(w, units) PROVE Enters(v)
  <2> DEFINE left == call[w].todo \ units
             n == [call[w] EXCEPT !.pc = "claimed", !.group = KeysOf(w, units), !.todo = left]
  <2>1. Continue(w, n)
    BY <1>7 DEF Claim
  <2> HIDE DEF left
  <2>2. n.pc = "claimed"
    BY <1>1 DEF Call
  <2> QED
    BY <2>1, <2>2, EntersNot
<1>8. ASSUME NEW units, NEW left, NEW reply, GroupAnswered(w, units, left, reply)
      PROVE  Enters(v)
  <2> DEFINE p == IF left = {} THEN "store" ELSE "dispatch"
             t == IF left = {} THEN call[w].chunk ELSE left
             a == [u \in Units |-> IF u \in units /\ reply[u] \in Answers THEN reply[u]
                                   ELSE call[w].answers[u]]
             n == [call[w] EXCEPT !.answers = a, !.group = {}, !.pc = p, !.todo = t]
  <2>1. Continue(w, n) /\ p \in {"store", "dispatch"}
    BY <1>8 DEF GroupAnswered
  <2> HIDE DEF p, t, a
  <2>2. n.pc = p
    BY <1>1 DEF Call
  <2> QED
    BY <2>1, <2>2, EntersNot
<1>9. ASSUME NEW u \in Units, StoreAnswer(w, u) PROVE Enters(v)
  <2> DEFINE left == call[w].todo \ {u}
             p == IF call[w].outcome = "answered" THEN "chunk" ELSE "apply"
             r == call[w].outcome = "refused"
             m == [call[w] EXCEPT !.todo = left]
             n == [call[w] EXCEPT !.todo = {}, !.chunk = {}, !.answers = NoAnswers, !.pc = p,
                                  !.paused = r, !.outcome = "answered"]
  <2>1. At(w, "store") /\ (Continue(w, m) \/ Continue(w, n)) /\ p \in {"chunk", "apply"}
    BY <1>9 DEF StoreAnswer
  <2> HIDE DEF left, p, r
  <2>2. m.pc = "store" /\ n.pc = p
    BY <1>1, <2>1 DEF Call, At
  <2> HIDE DEF m, n
  <2> QED
    BY <2>1, <2>2, EntersNot
<1> QED
  BY <1>2, <1>3, <1>4, <1>5, <1>6, <1>7, <1>8, <1>9 DEF Ask, ReplaySaved, Reply

LEMMA OnlyReadsEnter ==
    ASSUME TypeInv, [Next]_vars, NEW v \in Workers
    PROVE  Enters(v)
<1> USE DEF Marked, Writing
<1>1. CASE UNCHANGED call
  BY <1>1 DEF Enters
<1>2. ASSUME NEW w \in Workers, Step(w) \/ Crash(w) PROVE Enters(v)
  <2>0. call[w] \in Call
    BY Typed
  <2>1. CASE FinishWrites(w) \/ OwnershipLost(w) \/ Crash(w)
    BY <2>1, NoCallTyped, EntersNot DEF FinishWrites, OwnershipLost, Crash, Leave
  <2>2. CASE Take(w)
    <3>1. ASSUME NEW o \in Operations, TakeLease(w, o) PROVE Enters(v)
      <4> DEFINE b == batch[o]
                 p == Permitted(o)
                 d == o \in Delegated /\ ~Permitted(o)
                 n == [NoCall EXCEPT !.pc = "triage", !.op = o, !.todo = b,
                                     !.permitted = p, !.paused = d]
      <4>1. Continue(w, n)
        BY <3>1 DEF TakeLease
      <4> HIDE DEF b, p, d
      <4>2. n.pc = "triage"
        BY DEF NoCall
      <4> QED
        BY <4>1, <4>2, EntersNot
    <3> QED
      BY <1>1, <2>2, <3>1 DEF Take, DropMessage, EndCancelled
  <2>3. CASE Triage(w)
    <3>1. PICK u, selected : \/ At(w, "triage") /\ Triaged(w, u, selected)
                             \/ LookedUp(w, u, selected)
      BY <2>3 DEF Triage, TriageKeeps, TriageCloses, TriageSelects, InTriage, LookupFinds,
         LookupMisses
    <3>2. PICK next : Continue(w, next) /\ next.pc \in {"triage", "lookup", "chunk"}
      BY <3>1, TriagedCall
    <3> QED
      BY <3>2, EntersNot
  <2>4. CASE ChunkReads(w) \/ Transport(w) \/ ApplyReads(w)
    <3>1. CASE w = v
      BY <2>4, <3>1 DEF Enters
    <3>2. CASE w # v
      <4>1. \E next : Continue(w, next)
        BY <2>4 DEF ChunkReads, Transport, ApplyReads, Goto
      <4> QED
        BY <3>2, <4>1, Parted
    <3> QED
      BY <3>1, <3>2
  <2>5. CASE Ask(w) /\ ~ChunkReads(w) /\ ~Transport(w)
    BY <2>5, AskEnters
  <2>6. CASE \/ AllApplied(w) \/ ApplyStops(w) \/ FinishReads(w)
             \/ \E u \in Units : Apply(w, u) \/ ApplyRefused(w, u)
    <3> DEFINE p2 == call[w].paused \/ ~Cancelled(call[w].op)
               c == Cancelled(call[w].op)
               n0 == [call[w] EXCEPT !.pc = "apply"]
               n1 == [call[w] EXCEPT !.pc = "finish"]
               n2 == [call[w] EXCEPT !.pc = "finish", !.paused = p2]
               n3 == [call[w] EXCEPT !.pc = "finishing", !.cancelled = c]
    <3>1. Continue(w, n0) \/ Continue(w, n1) \/ Continue(w, n2) \/ Continue(w, n3)
      BY <2>6 DEF AllApplied, Goto, ApplyStops, FinishReads, Apply, ApplyRefused
    <3> HIDE DEF p2, c
    <3>2. n0.pc = "apply" /\ n1.pc = "finish" /\ n2.pc = "finish" /\ n3.pc = "finishing"
      BY <2>0 DEF Call
    <3> HIDE DEF n0, n1, n2, n3
    <3> QED
      BY <3>1, <3>2, EntersNot
  <2> QED
    BY <1>2, <2>1, <2>2, <2>3, <2>4, <2>5, <2>6 DEF Step, Finish
<1>3. ASSUME NEW o \in Operations,
             \/ Accept(o) \/ RetryDispatch(o) \/ CancelReads(o) \/ CancelSaves(o)
             \/ Publish(o) \/ BrokerFails(o) \/ PublisherDies(o) \/ Drain(o)
             \/ LeaseExpires(o) \/ RightsChange(o)
             \/ \E renew, replay \in BOOLEAN : Reconcile(o, renew, replay)
      PROVE  UNCHANGED call
  BY <1>3 DEF Accept, RetryDispatch, CancelReads, CancelSaves, Publish, PublishBegins,
     BrokerAccepts, MarkPublished, CountFailure, BrokerFails, PublisherDies, Drain,
     RecoverExpired, Reoffer, LeaseExpires, RightsChange, Reconcile, outbox
<1>4. CASE (\E u \in Units : HumanEdits(u) \/ SourceChanges(u)) \/ ComponentLockToggles
  BY <1>1, <1>4 DEF HumanEdits, SourceChanges, Edited, ComponentLockToggles
<1> QED
  BY <1>1, <1>2, <1>3, <1>4 DEF Next, vars

(* The reads keep the operation; the writes end the transaction.            *)
LEMMA ReadsStay ==
    ASSUME TypeInv, NEW w \in Workers, ChunkReads(w) \/ ApplyReads(w)
    PROVE  call'[w].op = call[w].op /\ call'[w].pc \in Writing
<1> DEFINE c == Permitted(call[w].op)
           m == [call[w] EXCEPT !.pc = "requesting", !.permitted = c]
           n == [call[w] EXCEPT !.pc = "applying", !.permitted = c]
<1>1. Continue(w, m) \/ Continue(w, n)
  BY DEF ChunkReads, ApplyReads
<1> HIDE DEF c
<1>2. m.op = call[w].op /\ n.op = call[w].op /\ m.pc = "requesting" /\ n.pc = "applying"
  <2>1. call[w] \in Call
    BY Typed
  <2> QED
    BY <2>1 DEF Call
<1> HIDE DEF m, n
<1> QED
  BY <1>1, <1>2, Continued DEF Writing

LEMMA WritesEnd ==
    ASSUME TypeInv, NEW w \in Workers,
           \/ \E units \in SUBSET Units : RequestChunk(w, units)
           \/ \E u \in Units : Apply(w, u)
    PROVE  call[w].pc \in Writing /\ call'[w] # call[w]
<1>1. call[w] \in Call
  BY Typed
<1>2. CASE \E u \in Units : Apply(w, u)
  <2> DEFINE n == [call[w] EXCEPT !.pc = "apply"]
  <2>1. At(w, "applying") /\ Continue(w, n)
    BY <1>2 DEF Apply, Serves, Goto
  <2>2. n.pc = "apply"
    BY <1>1 DEF Call
  <2> HIDE DEF n
  <2> QED
    BY <2>1, <2>2, Continued DEF At, Writing
<1>3. ASSUME NEW units \in SUBSET Units, RequestChunk(w, units)
      PROVE  call[w].pc \in Writing /\ call'[w] # call[w]
  <2> DEFINE r == {u \in units : Requested(w, u) = "requesting"}
             p == IF r = {} THEN "chunk" ELSE "dispatch"
             s == call[w].selected \ units
             n == [call[w] EXCEPT !.selected = s, !.chunk = r, !.todo = r,
                                  !.answers = NoAnswers, !.pc = p]
  <2>1. At(w, "requesting") /\ Continue(w, n) /\ p \in {"chunk", "dispatch"}
    BY <1>3 DEF RequestChunk
  <2> HIDE DEF r, p, s
  <2>2. n.pc = p
    BY <1>1 DEF Call
  <2> HIDE DEF n
  <2> QED
    BY <2>1, <2>2, Continued DEF At, Writing
<1> QED
  BY <1>2, <1>3

(* From a saved cancellation on no transaction that requests or applies     *)
(* begins, and at most one that had read the run before still commits.      *)
THEOREM CancelStops == Spec => CancelIsHonoured
<1>1. ControlInv /\ [Next]_vars =>
        [\A o \in Operations : Cancelled(o) =>
          /\ Writers(o)' \subseteq Writers(o)
          /\ (\E u \in Units : /\ attempt'[o][u].state \in {"requesting", "applied"}
                               /\ attempt'[o][u].state # attempt[o][u].state) =>
                Writers(o) # {} /\ Writers(o)' = {}]_vars
  <2> SUFFICES ASSUME ControlInv, Next, NEW o \in Operations, Cancelled(o)
               PROVE  /\ Writers(o)' \subseteq Writers(o)
                      /\ \A u \in Units :
                            attempt'[o][u].state \in {"requesting", "applied"}
                            /\ attempt'[o][u].state # attempt[o][u].state =>
                                  Writers(o) # {} /\ Writers(o)' = {}
    BY DEF vars
  <2>1. TypeInv
    BY ControlTyped
  <2>2. ASSUME NEW w \in Workers, call'[w].op = o, call'[w].pc \in Writing
        PROVE  call'[w] = call[w]
    <3>1. Enters(w)
      BY <2>1, OnlyReadsEnter
    <3>2. ~ChunkReads(w) /\ ~ApplyReads(w)
      <4>1. ASSUME ChunkReads(w) \/ ApplyReads(w) PROVE FALSE
        <5>1. call[w].op = o
          BY <2>1, <2>2, <4>1, ReadsStay
        <5> QED
          BY <4>1, <5>1 DEF ChunkReads, ApplyReads, Stops
      <4> QED
        BY <4>1
    <3>3. ~Transport(w)
      <4>1. ASSUME Transport(w) PROVE call'[w].pc = "wait"
        <5> DEFINE n == [call[w] EXCEPT !.pc = "wait"]
        <5>1. Continue(w, n)
          BY <4>1 DEF Transport, Goto
        <5>2. n.pc = "wait"
          <6>1. call[w] \in Call
            BY <2>1, Typed
          <6> QED
            BY <6>1 DEF Call
        <5> HIDE DEF n
        <5> QED
          BY <2>1, <5>1, <5>2, Continued
      <4> QED
        BY <2>2, <4>1 DEF Writing
    <3> QED
      BY <2>2, <3>1, <3>2, <3>3 DEF Enters, Marked
  <2>3. Writers(o)' \subseteq Writers(o)
    BY <2>2 DEF Writers
  <2>4. ASSUME NEW w \in Workers, call[w].op = o, call[w].pc \in Writing,
               call'[w] # call[w]
        PROVE  Writers(o) # {} /\ Writers(o)' = {}
    <3>1. w \in Writers(o)
      BY <2>4 DEF Writers
    <3>2. ASSUME NEW v \in Workers, v \in Writers(o)' PROVE FALSE
      <4>1. call'[v].op = o /\ call'[v].pc \in Writing
        BY <3>2 DEF Writers
      <4>2. call'[v] = call[v]
        BY <2>2, <4>1
      <4>3. Owned(v) /\ Owned(w)
        BY <2>4, <4>1, <4>2 DEF ControlInv, LockIsOwned, Locking, Locked, Held
      <4>4. v = w
        BY <2>4, <4>1, <4>2, <4>3, OneOwner
      <4> QED
        BY <2>4, <4>2, <4>4
    <3> QED
      BY <3>1, <3>2 DEF Writers
  <2>5. ASSUME NEW u \in Units, attempt'[o][u].state \in {"requesting", "applied"},
               attempt'[o][u].state # attempt[o][u].state
        PROVE  \E w \in Workers : /\ call[w].op = o /\ call[w].pc \in Writing
                                  /\ call'[w] # call[w]
    <3>1. ASSUME NEW p \in Operations, Accept(p) PROVE FALSE
      BY <2>1, <2>5, <3>1, AttemptOfAccept
    <3>2. ASSUME NEW w \in Workers, NEW p \in Operations, EndCancelled(w, p) PROVE FALSE
      BY <2>1, <2>5, <3>2, AttemptOfCancel
    <3>3. ASSUME NEW p \in Operations, NEW renew \in BOOLEAN, NEW replay \in BOOLEAN,
                 Reconcile(p, renew, replay)
          PROVE  FALSE
      BY <2>1, <2>5, <3>3, ReconcileSteps
    <3>4. ASSUME NEW w \in Workers, NEW v \in Units,
                 \/ TriageCloses(w, v) \/ LookupFinds(w, v) \/ LookupMisses(w, v)
                 \/ StoreAnswer(w, v) \/ Apply(w, v) \/ ApplyRefused(w, v)
          PROVE  call[w].op = o /\ Apply(w, u)
      <4>1. call[w].op = o /\ v = u
        BY <2>1, <2>5, <3>4, AttemptOfUnit
      <4>2. attempt'[o][u].state = "applied"
        BY <2>1, <2>5, <3>4, <4>1, AttemptOfUnit DEF Settled
      <4> QED
        BY <2>1, <2>5, <3>4, <4>1, <4>2, AttemptOfUnit
    <3>5. ASSUME NEW w \in Workers, NEW units \in SUBSET Units, RequestChunk(w, units)
          PROVE  call[w].op = o
      BY <2>1, <2>5, <3>5, AttemptOfChunk
    <3>6. PICK w \in Workers : /\ call[w].op = o
                               /\ \/ Apply(w, u)
                                  \/ \E units \in SUBSET Units : RequestChunk(w, units)
      BY <2>5, <3>1, <3>2, <3>3, <3>4, <3>5, AttemptWriters
    <3> QED
      BY <2>1, <3>6, WritesEnd
  <2>6. ASSUME NEW u \in Units, attempt'[o][u].state \in {"requesting", "applied"},
               attempt'[o][u].state # attempt[o][u].state
        PROVE  Writers(o) # {} /\ Writers(o)' = {}
    <3>1. PICK w \in Workers : /\ call[w].op = o /\ call[w].pc \in Writing
                               /\ call'[w] # call[w]
      BY <2>5, <2>6
    <3> QED
      BY <2>4, <3>1
  <2> QED
    BY <2>3, <2>6
<1> QED
  BY <1>1, Control, PTL DEF Spec, CancelIsHonoured

(* A worker or a reconciliation only fills an empty target, only for the    *)
(* very text, audit and source revisions that were reserved, and only with  *)
(* the good answer of that attempt.                                         *)
THEOREM OnlyReservedIsApplied == Spec => AppliesOnlyReserved
<1>1. TypeInv /\ [Next]_vars =>
        [\A u \in Units : unit[u].target # "machine" /\ unit'[u].target = "machine" =>
          \E o \in Operations :
             /\ unit[u].target = "empty"
             /\ <<unit[u].text, unit[u].audit, unit[u].source>> =
                   <<attempt[o][u].text, attempt[o][u].audit, attempt[o][u].source>>
             /\ attempt'[o][u].state = "applied" /\ attempt'[o][u].answer = "good"]_vars
  <2> SUFFICES ASSUME TypeInv, Next, NEW u \in Units,
                      unit[u].target # "machine", unit'[u].target = "machine"
               PROVE  \E o \in Operations :
             /\ unit[u].target = "empty"
             /\ <<unit[u].text, unit[u].audit, unit[u].source>> =
                   <<attempt[o][u].text, attempt[o][u].audit, attempt[o][u].source>>
             /\ attempt'[o][u].state = "applied" /\ attempt'[o][u].answer = "good"
    BY DEF vars
  <2> DEFINE Goal == \E o \in Operations :
             /\ Current(attempt[o][u], u)
             /\ attempt'[o][u].state = "applied" /\ attempt'[o][u].answer = "good"
  <2>1. CASE UNCHANGED unit
    BY <2>1
  <2>2. ASSUME NEW w \in Workers, NEW v \in Units, Apply(w, v) PROVE Goal
    <3>1. PICK o \in Operations : o = call[w].op
      BY <2>2, CallRow DEF Apply, Serves, At
    <3>2. v = u
      BY <2>2, Typed DEF Apply
    <3>3. Current(attempt[o][u], u) /\ Usable(attempt[o][u]) /\ SetState(o, u, "applied")
      BY <2>2, <3>1, <3>2 DEF Apply, Obsolete
    <3>4. attempt'[o][u] = [attempt[o][u] EXCEPT !.state = "applied"]
          /\ attempt[o][u] \in AttemptRow
      BY <3>3, OneState, Typed
    <3> DEFINE r == [attempt[o][u] EXCEPT !.state = "applied"]
    <3>5. r.state = "applied" /\ r.answer = attempt[o][u].answer
      BY <3>4 DEF AttemptRow
    <3> HIDE DEF r
    <3>6. attempt'[o][u] = r
      BY <3>4 DEF r
    <3> QED
      BY <3>3, <3>5, <3>6 DEF Usable
  <2>3. ASSUME NEW o \in Operations, NEW renew \in BOOLEAN, NEW replay \in BOOLEAN,
               Reconcile(o, renew, replay)
        PROVE  Goal
    BY <2>3, ReconcileSteps
  <2>4. ASSUME NEW v \in Units, HumanEdits(v) \/ SourceChanges(v) PROVE FALSE
    <3>1. CASE v # u
      BY <2>4, <3>1, Typed DEF HumanEdits, SourceChanges, Edited
    <3>2. ASSUME NEW r, Edited(u, r) PROVE unit'[u] = r
      BY <3>2, Typed DEF Edited
    <3>3. unit[u] \in UnitRow
      BY Typed
    <3>4. CASE HumanEdits(u)
      <4>1. PICK t \in {"empty", "human"} :
              Edited(u, [unit[u] EXCEPT !.target = t, !.audit = unit[u].audit + 1])
        BY <3>4 DEF HumanEdits
      <4> DEFINE n == unit[u].audit + 1
                 r == [unit[u] EXCEPT !.target = t, !.audit = n]
      <4> HIDE DEF n
      <4>2. r.target = t
        BY <3>3 DEF UnitRow
      <4>3. Edited(u, r)
        BY <4>1 DEF n
      <4> HIDE DEF r
      <4> QED
        BY <3>2, <4>2, <4>3
    <3>5. CASE SourceChanges(u)
      <4> DEFINE n == unit[u].source + 1
                 t == unit[u].text + 1
                 a == unit[u].audit + 1
                 p == [unit[u] EXCEPT !.source = n, !.audit = a, !.text = t]
                 q == [unit[u] EXCEPT !.source = n]
      <4>1. Edited(u, p) \/ Edited(u, q)
        BY <3>5 DEF SourceChanges
      <4> HIDE DEF n, t, a
      <4>2. p.target = unit[u].target /\ q.target = unit[u].target
        BY <3>3 DEF UnitRow
      <4> HIDE DEF p, q
      <4> QED
        BY <3>2, <4>1, <4>2
    <3> QED
      BY <2>4, <3>1, <3>4, <3>5
  <2> HIDE DEF Goal
  <2>5. Goal
    BY <2>1, <2>2, <2>3, <2>4, UnitWriters
  <2> QED
    BY <2>5 DEF Goal, Current
<1>2. ControlInv => TypeInv
  BY ControlTyped
<1> QED
  BY <1>1, <1>2, Control, PTL DEF Spec, AppliesOnlyReserved
=============================================================================
