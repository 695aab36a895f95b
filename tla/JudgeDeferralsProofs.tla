----------------------- MODULE JudgeDeferralsProofs -----------------------
(* Machine-checked facts about deferred judge requests, for any number of   *)
(* units, identities and passes, any batch size and any threshold.          *)
EXTENDS JudgeDeferrals, TLAPS

LEMMA RowsOfUnits ==
    /\ \A u \in Units : \A v \in Identities[u] : <<u, v>> \in Rows
    /\ \A r \in Rows : r[1] \in Units
<1>1. ASSUME NEW u \in Units, NEW v \in Identities[u] PROVE <<u, v>> \in Rows
  <2>1. <<u, v>> \in {<<u, w>> : w \in Identities[u]}
    OBVIOUS
  <2>2. {<<u, w>> : w \in Identities[u]} \in {{<<x, w>> : w \in Identities[x]} : x \in Units}
    OBVIOUS
  <2> QED
    BY <2>1, <2>2 DEF Rows
<1>2. ASSUME NEW r \in Rows PROVE r[1] \in Units
  <2>1. PICK u \in Units : r \in {<<u, v>> : v \in Identities[u]}
    BY DEF Rows
  <2> QED
    BY <2>1
<1> QED
  BY <1>1, <1>2

LEMMA StatesOfRows == NoRow \in RowState /\ Closed \in RowState /\ Deferred \in RowState
<1>1. NoRow \in RowState
  BY DEF NoRow, RowState
<1>2. Closed \in RowState
  BY <1>1 DEF Closed, RowState
<1>3. Deferred \in RowState
  BY <1>1 DEF Deferred, RowState
<1> QED
  BY <1>1, <1>2, <1>3

LEMMA IdleTyped == IdlePass \in PassState
  BY DEF IdlePass, PassState

-----------------------------------------------------------------------------
(* Types of the parts that several steps change.                           *)

LEMMA RecordTyped ==
    ASSUME TypeOK, NEW answer, Record(answer)
    PROVE  circuit' \in [state : {"closed", "open", "half-open"}, waiting : BOOLEAN,
                         streak : 0 .. Threshold]
<1>1. Threshold \in Nat \ {0}
  BY DeferralAssumption
<1>2. circuit \in [state : {"closed", "open", "half-open"}, waiting : BOOLEAN,
                   streak : 0 .. Threshold]
  BY DEF TypeOK
<1>3. circuit' = CircuitAfter(answer)
  BY DEF Record
<1> HIDE DEF IsDown, Unparsed
<1>4. CircuitAfter(answer) \in [state : {"closed", "open", "half-open"}, waiting : BOOLEAN,
                                streak : 0 .. Threshold]
  BY <1>1, <1>2 DEF CircuitAfter
<1> QED
  BY <1>3, <1>4

LEMMA SyncTyped ==
    ASSUME TypeOK, NEW answer, NEW known, Sync(answer, known)
    PROVE  row' \in [Rows -> RowState]
<1>1. \A r \in Rows : row[r] \in RowState
  BY DEF TypeOK
<1>2. \A r \in Rows : row'[r] \in {row[r], Closed, Deferred}
  BY DEF Sync
<1>3. row' = [r \in Rows |-> row'[r]]
  BY DEF Sync
<1> QED
  BY <1>1, <1>2, <1>3, StatesOfRows

LEMMA ReleasedTyped ==
    ASSUME TypeOK, NEW p, Released(p)
    PROVE  row' \in [Rows -> RowState]
<1>1. \A r \in Rows : row[r] \in RowState
  BY DEF TypeOK
<1>2. \A r \in Rows : [row[r] EXCEPT !.token = None, !.leased = FALSE] \in RowState
  BY <1>1 DEF RowState
<1> QED
  BY <1>1, <1>2 DEF Released

LEMMA KeptTyped ==
    ASSUME TypeOK, NEW p \in Passes
    PROVE  Kept(p) \subseteq held[p] /\ Kept(p) \in SUBSET Rows
  BY DEF TypeOK, Kept

LEMMA IdlesTyped ==
    ASSUME TypeOK, NEW p \in Passes, Idles(p)
    PROVE  pass' \in [Passes -> PassState] /\ held' \in [Passes -> SUBSET Rows]
  BY IdleTyped DEF TypeOK, Idles

LEMMA EventTyped ==
    ASSUME TypeOK, NEW kind \in {"edits", "runs", "faults"}, Event(kind)
    PROVE  allowance' \in [{"edits", "runs", "faults"} -> Nat]
  BY DEF TypeOK, Event

LEMMA RequestsTyped ==
    ASSUME TypeOK, NEW S \in SUBSET Units
    PROVE  {<<u, text[u]>> : u \in S} \subseteq Rows
  BY RowsOfUnits DEF TypeOK
-----------------------------------------------------------------------------
LEMMA InitTyped == Init => TypeOK
<1> SUFFICES ASSUME Init PROVE TypeOK
  OBVIOUS
<1>1. row \in [Rows -> RowState]
  BY StatesOfRows DEF Init
<1>2. pass \in [Passes -> PassState] /\ live \in [batch : SUBSET Rows, known : SUBSET Rows]
  BY IdleTyped DEF Init, IdleLive
<1>3. circuit \in [state : {"closed", "open", "half-open"}, waiting : BOOLEAN,
                   streak : 0 .. Threshold]
  BY DeferralAssumption DEF Init
<1>4. allowance \in [{"edits", "runs", "faults"} -> Nat]
  BY DeferralAssumption DEF Init
<1>5. held \in [Passes -> SUBSET Rows]
  BY DEF Init
<1> QED
  BY <1>1, <1>2, <1>3, <1>4, <1>5 DEF Init, TypeOK

LEMMA AfterBatchTyped ==
    ASSUME TypeOK, NEW p \in Passes, NEW failed \in SUBSET Rows, NEW refused \in BOOLEAN
    PROVE  AfterBatch(p, failed, refused) \in PassState
<1>1. pass[p] \in PassState
  BY DEF TypeOK
<1>2. Known(failed) \subseteq Rows
  BY DEF Known
<1> HIDE DEF Known
<1> QED
  BY <1>1, <1>2 DEF AfterBatch, PassState, IdlePass

LEMMA PassTyped ==
    ASSUME TypeOK, NEW p \in Passes, PassStep(p)
    PROVE  TypeOK'
<1> USE DEF TypeOK
<1>0. pass[p] \in PassState
  OBVIOUS
<1>1. CASE Claim(p)
  <2>0. \A r \in Rows : /\ [row[r] EXCEPT !.token = p, !.leased = TRUE] \in RowState
                        /\ [row[r] EXCEPT !.token = None] \in RowState
    BY DEF RowState
  <2>1. row' \in [Rows -> RowState]
    BY <1>1, <2>0 DEF Claim
  <2>2. Eligible \subseteq Rows
    BY DEF Eligible
  <2>3. [IdlePass EXCEPT !.pc = "claimed", !.claimed = Eligible] \in PassState
    BY <2>2 DEF IdlePass, PassState
  <2> QED
    BY <1>1, <2>1, <2>3 DEF Claim
<1>2. ASSUME NEW part \in SUBSET Units, NEW ended \in SUBSET pass[p].claimed,
             NEW admitted \in SUBSET pass[p].claimed, Select(p, part, ended, admitted)
      PROVE  TypeOK'
  <2>1. row' \in [Rows -> RowState]
    BY <1>2, StatesOfRows DEF Select
  <2>2. pass[p].claimed \ {r \in pass[p].claimed : r[1] \in part} \in SUBSET Rows
    BY <1>0 DEF PassState
  <2>3. pass' \in [Passes -> PassState]
    BY <1>0, <1>2, <2>2 DEF Select, PassState
  <2>4. held' \in [Passes -> SUBSET Rows]
    BY <1>0, <1>2 DEF Select, PassState
  <2> QED
    BY <1>2, <2>1, <2>3, <2>4 DEF Select
<1>8. CASE Overrun(p)
  <2>1. pass' \in [Passes -> PassState] /\ held' \in [Passes -> SUBSET Rows]
    BY <1>0, <1>8 DEF Overrun, PassState
  <2> QED
    BY <1>8, <2>1 DEF Overrun
<1>3. ASSUME NEW granted \in 0 .. Cardinality(Units), Reserve(p, granted)
      PROVE  TypeOK'
  <2> DEFINE units == {r[1] : r \in FirstOf(pass[p].admitted, granted * BatchSize)}
             requests == {<<u, text[u]>> : u \in units}
  <2>0. FirstOf(pass[p].admitted, granted * BatchSize) \subseteq Rows
    BY <1>0 DEF FirstOf, PassState
  <2>1. units \in SUBSET Units
    BY <2>0, RowsOfUnits
  <2>2. requests \subseteq Rows /\ Known(requests) \subseteq Rows
    BY <2>1, RequestsTyped DEF Known
  <2>3. pass' = [pass EXCEPT ![p] =
          IF granted = 0 THEN [@ EXCEPT !.pc = "claimed", !.admitted = {}]
          ELSE [@ EXCEPT !.pc = "ready", !.rest = requests, !.known = Known(requests)]]
    BY <1>3 DEF Reserve
  <2> HIDE DEF units, requests
  <2>4. pass' \in [Passes -> PassState]
    BY <1>0, <2>2, <2>3 DEF PassState
  <2>5. circuit' = Admission(Calls(p)).circuit
    BY <1>3 DEF Reserve
  <2>6. circuit' \in [state : {"closed", "open", "half-open"}, waiting : BOOLEAN,
                      streak : 0 .. Threshold]
    BY <2>5 DEF Admission
  <2>7. held' \in [Passes -> SUBSET Rows]
    BY <1>3 DEF Reserve
  <2> QED
    BY <1>3, <2>4, <2>6, <2>7 DEF Reserve
<1>4. ASSUME NEW n \in 1 .. BatchSize, Send(p, n)
      PROVE  TypeOK'
  <2>1. FirstOf(pass[p].rest, n) \subseteq Rows /\ pass[p].rest \ FirstOf(pass[p].rest, n) \subseteq Rows
    BY <1>0 DEF FirstOf, PassState
  <2>2. pass' \in [Passes -> PassState]
    BY <1>0, <1>4, <2>1 DEF Send, PassState
  <2> QED
    BY <1>4, <2>2 DEF Send
<1>5. CASE Isolate(p)
  <2>1. pass' \in [Passes -> PassState] /\ held' \in [Passes -> SUBSET Rows]
    BY <1>0, <1>5 DEF Isolate, PassState
  <2> QED
    BY <1>5, <2>1 DEF Isolate
<1>6. ASSUME NEW answer \in AnswersTo(pass[p].batch), NEW refused \in BOOLEAN,
             Answer(p, answer, refused)
      PROVE  TypeOK'
  <2> DEFINE failed == pass[p].failed \cup IF refused THEN {} ELSE Unparsed(answer)
  <2>1. failed \in SUBSET Rows
    BY <1>0 DEF AnswersTo, Unparsed, PassState
  <2>2. pass' = [pass EXCEPT ![p] = AfterBatch(p, failed, refused)]
    BY <1>6 DEF Answer
  <2> HIDE DEF failed
  <2>3. AfterBatch(p, failed, refused) \in PassState
    BY <2>1, AfterBatchTyped
  <2>4. pass' \in [Passes -> PassState]
    BY <2>2, <2>3
  <2>5. Record(answer) /\ Sync(answer, pass[p].known)
    BY <1>6 DEF Answer
  <2>6. row' \in [Rows -> RowState]
    BY <2>5, SyncTyped
  <2>7. held' \in [Passes -> SUBSET Rows]
    BY <1>6, KeptTyped DEF Answer
  <2> QED
    BY <1>6, <2>4, <2>5, <2>6, <2>7, RecordTyped DEF Answer
<1>7. CASE Release(p)
  BY <1>7, IdlesTyped, ReleasedTyped DEF Release
<1> QED
  BY <1>1, <1>2, <1>3, <1>4, <1>5, <1>6, <1>7, <1>8 DEF PassStep, PassAnswers

LEMMA FaultTyped ==
    ASSUME TypeOK, NEW p \in Passes,
           \/ Raise(p) \/ Die(p)
           \/ \E answer \in AnswersTo(pass[p].batch) : DieStoring(p, answer)
    PROVE  TypeOK'
<1> USE DEF TypeOK
<1>0. pass[p] \in PassState
  OBVIOUS
<1>1. CASE Raise(p)
  BY <1>1, IdlesTyped, ReleasedTyped, EventTyped DEF Raise
<1>2. CASE Die(p)
  BY <1>2, IdlesTyped, EventTyped DEF Die
<1>3. ASSUME NEW answer, DieStoring(p, answer)
      PROVE  TypeOK'
  BY <1>3, IdlesTyped, EventTyped, RecordTyped DEF DieStoring
<1> QED
  BY <1>1, <1>2, <1>3

LEMMA OthersTyped ==
    ASSUME TypeOK,
           \/ \E u \in Units : LiveSends(u) \/ \E v \in Identities[u] : Edit(u, v)
           \/ LiveStep \/ Tick
    PROVE  TypeOK'
<1> USE DEF TypeOK
<1>1. ASSUME NEW u \in Units, LiveSends(u) PROVE TypeOK'
  <2>1. {<<u, text[u]>>} \subseteq Rows
    BY RowsOfUnits
  <2>2. live' \in [batch : SUBSET Rows, known : SUBSET Rows]
    BY <1>1, <2>1 DEF LiveSends, Known
  <2> QED
    BY <1>1, <2>2, EventTyped DEF LiveSends
<1>2. ASSUME NEW u \in Units, NEW v \in Identities[u], Edit(u, v) PROVE TypeOK'
  <2>1. v \in UNION {Identities[w] : w \in Units}
    OBVIOUS
  <2>2. text' \in [Units -> UNION {Identities[w] : w \in Units}]
    BY <1>2, <2>1 DEF Edit
  <2>3. \A w \in Units : text'[w] \in Identities[w]
    BY <1>2 DEF Edit
  <2> QED
    BY <1>2, <2>2, <2>3, EventTyped DEF Edit
<1>3. CASE LiveStep
  <2>1. PICK answer \in AnswersTo(live.batch) : LiveAnswer(answer)
    BY <1>3 DEF LiveStep
  <2>2. live' \in [batch : SUBSET Rows, known : SUBSET Rows]
    BY <2>1 DEF LiveAnswer, IdleLive
  <2>3. row' \in [Rows -> RowState]
    BY <2>1, SyncTyped DEF LiveAnswer
  <2>4. held' \in [Passes -> SUBSET Rows]
    BY <2>1, KeptTyped DEF LiveAnswer
  <2> QED
    BY <2>1, <2>2, <2>3, <2>4, RecordTyped DEF LiveAnswer
<1>4. ASSUME NEW r \in Rows, LeaseExpires(r) \/ DelayEnds(r) PROVE TypeOK'
  <2>0. [row[r] EXCEPT !.leased = FALSE] \in RowState /\ [row[r] EXCEPT !.due = TRUE] \in RowState
    BY DEF RowState
  <2>1. row' \in [Rows -> RowState]
    BY <1>4, <2>0 DEF LeaseExpires, DelayEnds
  <2>2. held' \in [Passes -> SUBSET Rows]
    BY <1>4 DEF LeaseExpires, DelayEnds
  <2> QED
    BY <1>4, <2>1, <2>2 DEF LeaseExpires, DelayEnds
<1>5. CASE CircuitWaitEnds
  <2>1. circuit' \in [state : {"closed", "open", "half-open"}, waiting : BOOLEAN,
                      streak : 0 .. Threshold]
    BY <1>5 DEF CircuitWaitEnds
  <2> QED
    BY <1>5, <2>1 DEF CircuitWaitEnds
<1> QED
  BY <1>1, <1>2, <1>3, <1>4, <1>5 DEF Tick

(* Rows, passes and the circuit keep their types.                          *)
THEOREM TypeCorrect == Spec => []TypeOK
<1>1. TypeOK /\ [Next]_vars => TypeOK'
  <2> SUFFICES ASSUME TypeOK, [Next]_vars PROVE TypeOK'
    OBVIOUS
  <2>1. CASE UNCHANGED vars
    BY <2>1 DEF TypeOK, vars
  <2>2. CASE Next
    BY <2>2, PassTyped, FaultTyped, OthersTyped DEF Next
  <2> QED
    BY <2>1, <2>2
<1> QED
  BY InitTyped, <1>1, PTL DEF Spec
-----------------------------------------------------------------------------
(* The claim of a pass.                                                    *)

(* What a pass holds is under its claim.                                    *)
Holds(p) == \A r \in held[p] : row[r].token = p /\ row[r].leased

LeaseInv == \A p \in Passes : Holds(p)

LEMMA NoneIsNoPass == None \notin Passes
  BY DeferralAssumption

LEMMA HeldRows ==
    ASSUME TypeOK, NEW p \in Passes
    PROVE  held[p] \subseteq Rows
  BY DEF TypeOK

(* A pass that holds nothing new, and whose rows stay as they are.          *)
LEMMA HoldsStill ==
    ASSUME LeaseInv, NEW p \in Passes, held'[p] \subseteq held[p],
           \A r \in held'[p] : row'[r] = row[r]
    PROVE  Holds(p)'
  BY DEF LeaseInv, Holds

LEMMA RowsStay ==
    ASSUME LeaseInv, row' = row, \A p \in Passes : held'[p] \subseteq held[p]
    PROVE  LeaseInv'
<1>1. \A p \in Passes : Holds(p)'
  BY HoldsStill
<1> QED
  BY <1>1 DEF LeaseInv

(* Where an answer leaves a claim alone, it leaves the row alone.           *)
LEMMA SyncKeeps ==
    ASSUME TypeOK, LeaseInv, NEW answer, NEW known, Sync(answer, known), NEW p \in Passes,
           held'[p] \subseteq Kept(p)
    PROVE  Holds(p)'
<1>1. ASSUME NEW r \in held'[p] PROVE r \in held[p] /\ row'[r] = row[r]
  <2>1. /\ r \in held[p] /\ r \in Rows
        /\ row[r].token # p \/ row'[r].token = p
    BY <1>1, HeldRows DEF Kept
  <2>2. row'[r].token = p
    BY <2>1 DEF LeaseInv, Holds
  <2>3. Closed.token = None /\ Deferred.token = None
    BY DEF Closed, Deferred, NoRow
  <2>4. row'[r] \in {row[r], Closed, Deferred}
    BY <2>1 DEF Sync
  <2> QED
    BY <2>1, <2>2, <2>3, <2>4, NoneIsNoPass
<1>2. held'[p] \subseteq held[p]
  BY <1>1
<1> QED
  BY <1>1, <1>2, HoldsStill

(* A pass that ends, releasing what it claimed or leaving it.               *)
LEMMA EndHolds ==
    ASSUME TypeOK, LeaseInv, NEW p \in Passes, Idles(p), Released(p) \/ row' = row
    PROVE  LeaseInv'
<1> SUFFICES ASSUME NEW q \in Passes PROVE Holds(q)'
  BY DEF LeaseInv
<1>1. held'[q] = IF q = p THEN {} ELSE held[q]
  BY DEF Idles, TypeOK
<1>2. ASSUME NEW r \in held'[q] PROVE row'[r] = row[r]
  <2>1. q # p /\ r \in held[q] /\ r \in Rows
    BY <1>1, <1>2, HeldRows
  <2>2. row[r].token # p
    BY <2>1 DEF LeaseInv, Holds
  <2> QED
    BY <2>1, <2>2 DEF Released, IsOwn
<1>3. held'[q] \subseteq held[q]
  BY <1>1
<1> QED
  BY <1>2, <1>3, HoldsStill

LEMMA PassKeepsLease ==
    ASSUME TypeOK, LeaseInv, NEW p \in Passes, PassStep(p)
    PROVE  LeaseInv'
<1>0. held \in [Passes -> SUBSET Rows]
  BY DEF TypeOK
<1>1. CASE Claim(p)
  <2> SUFFICES ASSUME NEW q \in Passes PROVE Holds(q)'
    BY DEF LeaseInv
  <2>1. held' = held
    BY <1>1 DEF Claim
  <2>2. ASSUME NEW r \in held[q] PROVE row'[r] = row[r]
    <3>1. row[r].token = q /\ row[r].leased /\ r \in Rows
      BY <2>2, HeldRows DEF LeaseInv, Holds
    <3>2. row[r].token # p /\ r \notin Eligible
      BY <1>1, <3>1 DEF Claim, Eligible
    <3> QED
      BY <1>1, <3>1, <3>2 DEF Claim
  <2> QED
    BY <2>1, <2>2, HoldsStill
<1>2. ASSUME NEW part \in SUBSET Units, NEW ended \in SUBSET pass[p].claimed,
             NEW admitted \in SUBSET pass[p].claimed, Select(p, part, ended, admitted)
      PROVE  LeaseInv'
  <2> SUFFICES ASSUME NEW q \in Passes PROVE Holds(q)'
    BY DEF LeaseInv
  <2>1. held'[q] = IF q = p THEN admitted ELSE held[q]
    BY <1>0, <1>2 DEF Select
  <2>2. CASE q = p
    <3>1. ASSUME NEW r \in admitted
          PROVE  row[r].token = p /\ row[r].leased /\ row'[r] = row[r]
      <4>1. Admissible(p, r) /\ r \notin ended
        BY <1>2, <3>1 DEF Select
      <4>2. r \in Rows
        BY <3>1 DEF TypeOK, PassState
      <4> QED
        BY <1>2, <4>1, <4>2 DEF Select, Admissible
    <3> QED
      BY <2>1, <2>2, <3>1 DEF Holds
  <2>3. CASE q # p
    <3>1. ASSUME NEW r \in held[q] PROVE row'[r] = row[r]
      <4>1. row[r].token = q /\ r \in Rows
        BY <3>1, HeldRows DEF LeaseInv, Holds
      <4> QED
        BY <1>2, <2>3, <4>1 DEF Select
    <3> QED
      BY <2>1, <2>3, <3>1, HoldsStill
  <2> QED
    BY <2>2, <2>3
<1>3. ASSUME NEW granted, Reserve(p, granted) PROVE LeaseInv'
  <2>1. row' = row /\ \A q \in Passes : held'[q] \subseteq held[q]
    BY <1>0, <1>3 DEF Reserve
  <2> QED
    BY <2>1, RowsStay
<1>4. CASE Overrun(p) \/ Isolate(p)
  <2>1. row' = row /\ \A q \in Passes : held'[q] \subseteq held[q]
    BY <1>0, <1>4 DEF Overrun, Isolate
  <2> QED
    BY <2>1, RowsStay
<1>5. ASSUME NEW n, Send(p, n) PROVE LeaseInv'
  <2>1. row' = row /\ held' = held
    BY <1>5 DEF Send
  <2> QED
    BY <2>1, RowsStay
<1>6. ASSUME NEW answer, NEW refused, Answer(p, answer, refused) PROVE LeaseInv'
  <2> SUFFICES ASSUME NEW q \in Passes PROVE Holds(q)'
    BY DEF LeaseInv
  <2>1. Sync(answer, pass[p].known) /\ held'[q] \subseteq Kept(q)
    BY <1>6 DEF Answer
  <2> QED
    BY <2>1, SyncKeeps
<1>7. CASE Release(p)
  BY <1>7, EndHolds DEF Release
<1> QED
  BY <1>1, <1>2, <1>3, <1>4, <1>5, <1>6, <1>7 DEF PassStep, PassAnswers

LEMMA StepKeepsLease ==
    ASSUME TypeOK, LeaseInv, [Next]_vars
    PROVE  LeaseInv'
<1>0. held \in [Passes -> SUBSET Rows]
  BY DEF TypeOK
<1>1. ASSUME NEW p \in Passes,
             \/ Raise(p) \/ Die(p)
             \/ \E answer \in AnswersTo(pass[p].batch) : DieStoring(p, answer)
      PROVE  LeaseInv'
  BY <1>1, EndHolds DEF Raise, Die, DieStoring
<1>2. CASE \E u \in Units : LiveSends(u) \/ \E v \in Identities[u] : Edit(u, v)
  <2>1. row' = row /\ held' = held
    BY <1>2 DEF LiveSends, Edit
  <2> QED
    BY <2>1, RowsStay
<1>3. CASE LiveStep
  <2> SUFFICES ASSUME NEW q \in Passes PROVE Holds(q)'
    BY DEF LeaseInv
  <2>1. PICK answer : LiveAnswer(answer)
    BY <1>3 DEF LiveStep
  <2>2. Sync(answer, live.known) /\ held'[q] \subseteq Kept(q)
    BY <2>1 DEF LiveAnswer
  <2> QED
    BY <2>2, SyncKeeps
<1>4. ASSUME NEW r \in Rows, LeaseExpires(r) PROVE LeaseInv'
  <2> SUFFICES ASSUME NEW q \in Passes PROVE Holds(q)'
    BY DEF LeaseInv
  <2>1. held'[q] = IF row[r].token = q THEN held[q] \ {r} ELSE held[q]
    BY <1>4 DEF LeaseExpires
  <2>2. ASSUME NEW s \in held'[q] PROVE row'[s] = row[s]
    <3>1. s \in held[q] /\ s \in Rows /\ row[s].token = q
      BY <2>1, <2>2, HeldRows DEF LeaseInv, Holds
    <3>2. s # r
      BY <2>1, <2>2, <3>1
    <3> QED
      BY <1>4, <3>1, <3>2 DEF LeaseExpires, TypeOK
  <2>3. held'[q] \subseteq held[q]
    BY <2>1
  <2> QED
    BY <2>2, <2>3, HoldsStill
<1>5. ASSUME NEW r \in Rows, DelayEnds(r) PROVE LeaseInv'
  <2> DEFINE due == [row[r] EXCEPT !.due = TRUE]
  <2>1. row' = [row EXCEPT ![r] = due] /\ held' = held
    BY <1>5 DEF DelayEnds
  <2>2. due.token = row[r].token /\ due.leased = row[r].leased
    BY DEF TypeOK, RowState
  <2> HIDE DEF due
  <2>3. ASSUME NEW q \in Passes, NEW s \in held[q] PROVE row'[s].token = q /\ row'[s].leased
    <3>1. s \in Rows /\ row[s].token = q /\ row[s].leased
      BY <2>3, HeldRows DEF LeaseInv, Holds
    <3> QED
      BY <2>1, <2>2, <3>1 DEF TypeOK
  <2> QED
    BY <2>1, <2>3 DEF LeaseInv, Holds
<1>6. CASE CircuitWaitEnds \/ UNCHANGED vars
  <2>1. row' = row /\ held' = held
    BY <1>6 DEF CircuitWaitEnds, vars
  <2> QED
    BY <2>1, RowsStay
<1> QED
  BY <1>1, <1>2, <1>3, <1>4, <1>5, <1>6, PassKeepsLease DEF Next, Tick

(* Of two passes with the first request of a selection out for the same     *)
(* deferral, one lost its claim to an answer or with its lease.             *)
THEOREM OneHolder == Spec => []CallsExclusive
<1>1. Init => LeaseInv
  BY DEF Init, LeaseInv, Holds
<1>2. LeaseInv => CallsExclusive
  BY DEF LeaseInv, Holds, CallsExclusive
<1> QED
  BY <1>1, <1>2, TypeCorrect, StepKeepsLease, PTL DEF Spec
=============================================================================
