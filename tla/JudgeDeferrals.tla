--------------------------- MODULE JudgeDeferrals ---------------------------
(***************************************************************************)
(* Deferred judge requests (weblate/trans/judge_loop.py, judge.py,         *)
(* models/judge.py).  A request that ends without an opinion leaves a row   *)
(* per unit, seat and request identity; a periodic pass claims what is due, *)
(* asks the circuit breaker and the token bucket of the seat, sends the     *)
(* requests in batches and stores what came of them, beside judge runs      *)
(* that people start and that look at neither claims nor circuit.           *)
(*                                                                         *)
(* The module is what happens to the rows of one seat.  Rows and circuits   *)
(* belong to one seat each; a pass drains the seats of a translation one    *)
(* after the other, so what it does for another seat first is a delay       *)
(* before Reserve, an exception there is Raise, and the time it takes may   *)
(* leave nothing for this seat (Overrun).                                   *)
(*                                                                         *)
(* Time is free: a lease, a delay or the time of a circuit may end between  *)
(* any two steps.  Whether a lease covers another request is left open, and *)
(* so is what the token bucket has left.  The settings stay as they are:    *)
(* the queue is enabled and not stopped.                                    *)
(***************************************************************************)
EXTENDS Naturals, FiniteSets

CONSTANTS
    Units,     \* units of one language, numbered as their primary keys
    Identities, \* Identities[u]: its request identities, which depend on its
                \* text, its context and the profile
    Passes,    \* drain_judge_deferrals tasks
    BatchSize, \* profile.batch_size
    Threshold, \* JUDGE_DEFERRAL_CIRCUIT_FAILURE_THRESHOLD
    Allowances, \* bound: how many edits, judge runs and faults may happen;
                \* a behaviour starts with one of them
    None       \* no token

ASSUME DeferralAssumption ==
    /\ Units \subseteq Nat /\ IsFiniteSet(Units)
    /\ BatchSize \in Nat \ {0} /\ Threshold \in Nat \ {0}
    /\ Allowances \subseteq [{"edits", "runs", "faults"} -> Nat]
    /\ None \notin Passes

VARIABLES
    text,    \* the identity a request for the unit would have now
    row,     \* JudgeDeferral
    circuit, \* JudgeAdaptiveState: state, circuit_open_until, failure_streak
    pass,    \* drain_judge_deferrals in progress
    live,    \* a request of a judge run in progress
    held,    \* history: rows selected under a claim that has ended neither
             \* by an answer nor with its lease, until the first request of
             \* the selection is over
    allowance \* bound: what is left of the allowance

vars == <<text, row, circuit, pass, live, held, allowance>>

Rows == UNION {{<<u, v>> : v \in Identities[u]} : u \in Units}

RowState == [state : {"absent", "open", "closed"}, token : Passes \cup {None},
             leased : BOOLEAN, due : BOOLEAN]

NoRow == [state |-> "absent", token |-> None, leased |-> FALSE, due |-> FALSE]
Closed == [NoRow EXCEPT !.state = "closed"]
Deferred == [NoRow EXCEPT !.state = "open"]

(* Rows of other identities that exist when requests are built.             *)
Known(requests) ==
    {r \in Rows \ requests : row[r].state # "absent" /\ \E s \in requests : s[1] = r[1]}

(* Answers of a batch; "down": the endpoint failed, "length": cut off.      *)
Results == {"opinion", "down", "defect", "length"}

(* claimed: rows still to be selected; admitted: rows selected, until the   *)
(* first request for them is over; rest, batch and failed: what a round has *)
(* yet to send, has sent, and what failed in it; known: rows as old as the  *)
(* round; again: it is the second one.                                      *)
IdlePass == [pc |-> "idle", claimed |-> {}, admitted |-> {}, known |-> {}, rest |-> {},
             batch |-> {}, failed |-> {}, again |-> FALSE]

PassState == [pc : {"idle", "claimed", "reserve", "ready", "calling"},
              claimed : SUBSET Rows, admitted : SUBSET Rows, known : SUBSET Rows,
              rest : SUBSET Rows, batch : SUBSET Rows, failed : SUBSET Rows,
              again : BOOLEAN]

IdleLive == [batch |-> {}, known |-> {}]

TypeOK ==
    /\ text \in [Units -> UNION {Identities[u] : u \in Units}]
    /\ \A u \in Units : text[u] \in Identities[u]
    /\ row \in [Rows -> RowState]
    /\ circuit \in [state : {"closed", "open", "half-open"}, waiting : BOOLEAN,
                    streak : 0 .. Threshold]
    /\ pass \in [Passes -> PassState]
    /\ live \in [batch : SUBSET Rows, known : SUBSET Rows]
    /\ held \in [Passes -> SUBSET Rows]
    /\ allowance \in [{"edits", "runs", "faults"} -> Nat]

IsCurrent(r) == text[r[1]] = r[2]

Init ==
    /\ text \in {f \in [Units -> UNION {Identities[u] : u \in Units}] :
                   \A u \in Units : f[u] \in Identities[u]}
    /\ row \in {f \in [Rows -> {NoRow, Deferred}] : \A r \in Rows : f[r] = Deferred => IsCurrent(r)}
    /\ circuit = [state |-> "closed", waiting |-> FALSE, streak |-> 0]
    /\ pass = [p \in Passes |-> IdlePass]
    /\ live = IdleLive
    /\ held = [p \in Passes |-> {}]
    /\ allowance \in Allowances

Event(kind) ==
    /\ allowance[kind] > 0
    /\ allowance' = [allowance EXCEPT ![kind] = @ - 1]
-----------------------------------------------------------------------------
(* _update_deferral_circuit, for the first answer without an opinion, or    *)
(* the first answer: only a failure of the endpoint counts.                 *)
Unparsed(answer) == {r \in DOMAIN answer : answer[r] # "opinion"}

IsDown(answer) ==
    \E r \in Unparsed(answer) : answer[r] = "down" /\ \A s \in Unparsed(answer) : r[1] <= s[1]

MutCircuitAfter(answer) ==
    IF Unparsed(answer) = {}
    THEN [state |-> "closed", waiting |-> FALSE, streak |-> 0]
    ELSE IF IsDown(answer) THEN [circuit EXCEPT !.streak = @ + 1] ELSE circuit

CircuitAfter(answer) ==
    IF Unparsed(answer) = {}
    THEN [state |-> "closed", waiting |-> FALSE, streak |-> 0]
    ELSE IF ~IsDown(answer) THEN circuit
    ELSE IF circuit.streak + 1 >= Threshold \/ circuit.state = "half-open"
         THEN [state |-> "open", waiting |-> TRUE,
               streak |-> IF circuit.streak < Threshold THEN circuit.streak + 1 ELSE Threshold]
         ELSE [circuit EXCEPT !.streak = @ + 1]

Record(answer) == circuit' = CircuitAfter(answer)

(* _sync_deferral for every answer: an opinion, or an answer that will be   *)
(* cut off every time, closes the row, another failure puts it off; what is *)
(* open for other identities of the unit and older than the round is        *)
(* closed.  In every case the claim is gone, whoever holds it.              *)
Sync(answer, known) ==
    row' = [r \in Rows |->
        IF r \in DOMAIN answer
        THEN CASE answer[r] = "opinion" -> IF row[r].state = "open" THEN Closed ELSE row[r]
               [] answer[r] = "length" -> Closed
               [] OTHER -> Deferred
        ELSE IF /\ \E s \in DOMAIN answer : s[1] = r[1]
                /\ row[r].state = "open" /\ r \in known
             THEN Closed ELSE row[r]]

(* What a pass still holds after such an answer.                            *)
Kept(p) == {r \in held[p] : row[r].token # p \/ row'[r].token = p}
-----------------------------------------------------------------------------
(* A pass.                                                                 *)

At(p, point) == pass[p].pc = point

(* _claim_judge_deferrals, with a new token: what a dead pass of the same   *)
(* number left is nobody's.                                                 *)
Eligible == {r \in Rows : row[r].state = "open" /\ row[r].due /\ ~row[r].leased}

Claim(p) ==
    /\ At(p, "idle") /\ Eligible # {}
    /\ \A r \in Rows : row[r].token = p => ~row[r].leased
    /\ row' = [r \in Rows |->
         IF r \in Eligible THEN [row[r] EXCEPT !.token = p, !.leased = TRUE]
         ELSE IF row[r].token = p THEN [row[r] EXCEPT !.token = None] ELSE row[r]]
    /\ pass' = [pass EXCEPT ![p] = [IdlePass EXCEPT !.pc = "claimed", !.claimed = Eligible]]
    /\ UNCHANGED <<text, circuit, live, held, allowance>>

(* _select_drain_requests for the claimed rows of one translation: those    *)
(* whose identity is not the unit's, or whose verdict has a durable origin, *)
(* are closed if still claimed, those whose lease does not cover a request  *)
(* are left.                                                                *)
Admissible(p, r) == row[r].token = p /\ row[r].leased

Select(p, part, ended, admitted) ==
    LET mine == {r \in pass[p].claimed : r[1] \in part} IN
    /\ At(p, "claimed") /\ mine # {}
    /\ {r \in mine : ~IsCurrent(r)} \subseteq ended
    /\ admitted \subseteq mine \ ended /\ \A r \in admitted : Admissible(p, r)
    /\ row' = [r \in Rows |-> IF r \in mine \cap ended /\ row[r].token = p
                              THEN Closed ELSE row[r]]
    /\ pass' = [pass EXCEPT ![p].pc = IF admitted = {} THEN "claimed" ELSE "reserve",
                            ![p].claimed = @ \ mine, ![p].admitted = admitted]
    /\ held' = [held EXCEPT ![p] = admitted]
    /\ UNCHANGED <<text, circuit, live, allowance>>

(* After 240 seconds the seats that are left are not drained.               *)
Overrun(p) ==
    /\ At(p, "reserve")
    /\ pass' = [pass EXCEPT ![p].pc = "claimed", ![p].admitted = {}]
    /\ held' = [held EXCEPT ![p] = {}]
    /\ UNCHANGED <<text, row, circuit, live, allowance>>

(* _reserve_deferral_requests: the state of the circuit, and for how many   *)
(* calls it admits units: for one when its time is over, for none until     *)
(* that one is answered or its own time is over.                            *)
Admission(calls) ==
    IF circuit.state = "closed" THEN [circuit |-> circuit, most |-> calls]
    ELSE IF circuit.waiting THEN [circuit |-> circuit, most |-> 0]
    ELSE IF circuit.state = "open"
    THEN [circuit |-> [circuit EXCEPT !.state = "half-open", !.waiting = TRUE], most |-> 1]
    ELSE [circuit |-> [circuit EXCEPT !.state = "open", !.waiting = TRUE], most |-> 0]

(* The first units of the seat, as many as the calls carry.                 *)
FirstOf(S, n) == {r \in S : Cardinality({s \in S : s[1] < r[1]}) < n}

Calls(p) == (Cardinality(pass[p].admitted) + BatchSize - 1) \div BatchSize

(* If calls are admitted, run_judge_batch reads the units again and builds  *)
(* their requests.                                                          *)
Reserve(p, granted) ==
    LET admission == Admission(Calls(p))
        units == {r[1] : r \in FirstOf(pass[p].admitted, granted * BatchSize)}
        requests == {<<u, text[u]>> : u \in units}
    IN
    /\ At(p, "reserve") /\ granted <= admission.most
    /\ circuit' = admission.circuit
    /\ held' = IF granted = 0 THEN [held EXCEPT ![p] = {}] ELSE held
    /\ pass' = [pass EXCEPT ![p] =
         IF granted = 0 THEN [@ EXCEPT !.pc = "claimed", !.admitted = {}]
         ELSE [@ EXCEPT !.pc = "ready", !.rest = requests, !.known = Known(requests)]]
    /\ UNCHANGED <<text, row, live, allowance>>

(* request_verdicts: the next batch, whose size the adaptive budget may     *)
(* shrink; neither lease nor circuit is looked at again.                    *)
Send(p, n) ==
    LET batch == FirstOf(pass[p].rest, n) IN
    /\ At(p, "ready") /\ pass[p].rest # {}
    /\ pass' = [pass EXCEPT ![p].pc = "calling", ![p].batch = batch, ![p].rest = @ \ batch]
    /\ UNCHANGED <<text, row, circuit, live, held, allowance>>

(* _run_batch after a reply that cannot be read: each member is asked for   *)
(* alone, whatever the lease.                                               *)
Isolate(p) ==
    /\ At(p, "calling") /\ pass[p].admitted # {} /\ Cardinality(pass[p].batch) > 1
    /\ pass' = [pass EXCEPT ![p].admitted = {}]
    /\ held' = [held EXCEPT ![p] = {}]
    /\ UNCHANGED <<text, row, circuit, live, allowance>>

(* The two transactions of persist; after the last batch, the second round  *)
(* asks again for what failed, or the translation is done.  What is refused *)
(* for its credentials, and the rest of that round, is not asked for again. *)
AfterBatch(p, failed, refused) ==
    IF ~refused /\ pass[p].rest # {}
    THEN [pass[p] EXCEPT !.pc = "ready", !.batch = {}, !.admitted = {}, !.failed = failed]
    ELSE IF failed # {} /\ ~pass[p].again
    THEN [pass[p] EXCEPT !.pc = "ready", !.batch = {}, !.admitted = {}, !.failed = {},
                         !.again = TRUE, !.rest = failed, !.known = Known(failed)]
    ELSE [IdlePass EXCEPT !.pc = "claimed", !.claimed = pass[p].claimed]

Answer(p, answer, refused) ==
    /\ At(p, "calling")
    /\ Record(answer)
    /\ Sync(answer, pass[p].known)
    /\ pass' = [pass EXCEPT ![p] =
         AfterBatch(p, pass[p].failed \cup IF refused THEN {} ELSE Unparsed(answer), refused)]
    /\ held' = [q \in Passes |-> IF q = p THEN {} ELSE Kept(q)]
    /\ UNCHANGED <<text, live, allowance>>

(* _release_judge_deferrals, at the end of the pass or after 240 seconds.   *)
MutIsOwn(p, r) == row[r].state = "open"

IsOwn(p, r) == row[r].token = p /\ row[r].state = "open"

Released(p) ==
    row' = [r \in Rows |-> IF IsOwn(p, r) THEN [row[r] EXCEPT !.token = None, !.leased = FALSE]
                           ELSE row[r]]

(* The pass of p is over.                                                   *)
Idles(p) ==
    /\ pass' = [pass EXCEPT ![p] = IdlePass]
    /\ held' = [held EXCEPT ![p] = {}]

Release(p) ==
    /\ At(p, "claimed")
    /\ Released(p)
    /\ Idles(p)
    /\ UNCHANGED <<text, circuit, live, allowance>>

Raise(p) ==
    /\ Event("faults")
    /\ ~At(p, "idle")
    /\ Released(p)
    /\ Idles(p)
    /\ UNCHANGED <<text, circuit, live>>

Die(p) ==
    /\ Event("faults")
    /\ ~At(p, "idle")
    /\ Idles(p)
    /\ UNCHANGED <<text, row, circuit, live>>

(* Between the two transactions.                                            *)
DieStoring(p, answer) ==
    /\ Event("faults")
    /\ At(p, "calling")
    /\ Record(answer)
    /\ Idles(p)
    /\ UNCHANGED <<text, row, live>>
-----------------------------------------------------------------------------
(* People and judge runs.                                                  *)

Edit(u, v) ==
    /\ Event("edits")
    /\ text[u] # v
    /\ text' = [text EXCEPT ![u] = v]
    /\ UNCHANGED <<row, circuit, pass, live, held>>

LiveSends(u) ==
    LET requests == {<<u, text[u]>>} IN
    /\ Event("runs")
    /\ live.batch = {}
    /\ live' = [batch |-> requests, known |-> Known(requests)]
    /\ UNCHANGED <<text, row, circuit, pass, held>>

LiveAnswer(answer) ==
    /\ live.batch # {}
    /\ Record(answer)
    /\ Sync(answer, live.known)
    /\ live' = IdleLive
    /\ held' = [p \in Passes |-> Kept(p)]
    /\ UNCHANGED <<text, pass, allowance>>
-----------------------------------------------------------------------------
(* Time.                                                                   *)

LeaseExpires(r) ==
    /\ row[r].leased
    /\ row' = [row EXCEPT ![r].leased = FALSE]
    /\ held' = [p \in Passes |-> IF row[r].token = p THEN held[p] \ {r} ELSE held[p]]
    /\ UNCHANGED <<text, circuit, pass, live, allowance>>

DelayEnds(r) ==
    /\ row[r].state = "open" /\ ~row[r].due
    /\ row' = [row EXCEPT ![r].due = TRUE]
    /\ UNCHANGED <<text, circuit, pass, live, held, allowance>>

CircuitWaitEnds ==
    /\ circuit.waiting
    /\ circuit' = [circuit EXCEPT !.waiting = FALSE]
    /\ UNCHANGED <<text, row, pass, live, held, allowance>>

Tick ==
    \/ \E r \in Rows : LeaseExpires(r) \/ DelayEnds(r)
    \/ CircuitWaitEnds
-----------------------------------------------------------------------------
AnswersTo(batch) == [batch -> Results]

PassAnswers(p) ==
    \E answer \in AnswersTo(pass[p].batch) :
        \/ Answer(p, answer, FALSE)
        \/ (\A r \in pass[p].batch : answer[r] = "defect") /\ Answer(p, answer, TRUE)

PassStep(p) ==
    \/ Claim(p)
    \/ \E part \in SUBSET Units \ {{}} : \E ended, admitted \in SUBSET pass[p].claimed :
          Select(p, part, ended, admitted)
    \/ Overrun(p)
    \/ \E granted \in 0 .. Cardinality(Units) : Reserve(p, granted)
    \/ \E n \in 1 .. BatchSize : Send(p, n)
    \/ Isolate(p) \/ PassAnswers(p) \/ Release(p)

LiveStep == \E answer \in AnswersTo(live.batch) : LiveAnswer(answer)

Next ==
    \/ \E p \in Passes : \/ PassStep(p) \/ Raise(p) \/ Die(p)
                         \/ \E answer \in AnswersTo(pass[p].batch) : DieStoring(p, answer)
    \/ \E u \in Units : LiveSends(u) \/ \E v \in Identities[u] : Edit(u, v)
    \/ LiveStep \/ Tick

Spec == Init /\ [][Next]_vars

-----------------------------------------------------------------------------
(* A claim ends by an answer, with its lease or by the pass that made it.   *)
(* Of two passes that have the first request of a selection out for the     *)
(* same deferral, one was overtaken: its lease, looked at when the deferral *)
(* was selected and not again, ran out before the answer, or the answer to  *)
(* another request ended the claim.  Late releases, death and the claims of *)
(* others never bring it about.                                             *)
CallsExclusive ==
    \A p, q \in Passes : p # q /\ At(p, "calling") /\ At(q, "calling") =>
        (pass[p].batch \cap held[p]) \cap (pass[q].batch \cap held[q]) = {}
=============================================================================
