---------------------- MODULE MTOperationSpendingProofs ----------------------
(* Machine-checked facts about the money of the durable batches, for any    *)
(* number of receipts, units, workers, disturbances and messages: what is   *)
(* sent is sent once, what is released was never sent, and the batches use  *)
(* the journal as SpendOnce allows.                                         *)
EXTENDS MTOperationProofs

(* A blank answer is stored, and counts as none afterwards (mt_blank).      *)
NoBlanks == "" \notin Answers

(* The units a call has asked the provider for, or is about to.             *)
Asked(w) ==
    IF call[w].pc \in Sending THEN call[w].chunk
    ELSE IF At(w, "store") THEN call[w].todo ELSE {}

(* A revision that may be paid: nothing was sent for it, or its source      *)
(* moved on, so that nobody sends it again.                                 *)
Unspent(o, u) == attempt[o][u].source = unit[u].source => transported[o][u] = 0

(* What holds of each attempt.                                              *)
RowSpend(o, u) ==
    LET a == attempt[o][u] IN
    /\ transported[o][u] <= 1
    /\ a.source <= unit[u].source
    /\ a.state = "received" => a.answer # ""
    /\ a.state \in {"absent", "released"} => transported[o][u] = 0
    /\ a.state = "pending" => Unspent(o, u)
    /\ Unspent(o, u) \/ journal[<<u, a.source, a.source>>].stage = "committed"

(* Until the second loop has looked at it, a selected unit may have been    *)
(* requested or answered before; the loop does not pass it on then.         *)
Unclear(w, u) ==
    /\ At(w, "triage") \/ (At(w, "lookup") /\ u \in call[w].todo)
    /\ attempt[call[w].op][u].state \in {"requesting", "received"}

(* What the call would ask the provider for.                                *)
Chosen(w) ==
    {u \in call[w].selected \cup (IF At(w, "lookup") THEN call[w].todo ELSE {}) :
        ~Unclear(w, u)}

(* What holds of each call: what it has chosen was not sent, what it asks   *)
(* for is not pending or released, what it is about to send was not sent,   *)
(* and its keys are those of its attempts.                                  *)
Selects(w, u) ==
    /\ attempt[call[w].op][u].state # "released"
    /\ Unspent(call[w].op, u) /\ u \notin Asked(w)

Sends(w) ==
    /\ call[w].todo \subseteq call[w].chunk
    /\ \A u \in call[w].todo : transported[call[w].op][u] = 0

Groups(w) ==
    GroupUnits(w) \subseteq call[w].chunk /\ GroupUnits(w) \cap call[w].todo = {}

Keyed(w, k) ==
    /\ transported[call[w].op][k[1]] = 0
    /\ k[2] = attempt[call[w].op][k[1]].source
    /\ unit[k[1]].source = k[2] => k[3] = k[2]

Known(w, u) == attempt[call[w].op][u].state # "absent"

CallSpend(w) ==
    /\ \A u \in call[w].todo \cup call[w].selected \cup call[w].chunk : Known(w, u)
    /\ \A u \in Asked(w) : attempt[call[w].op][u].state \notin {"pending", "released"}
    /\ call[w].pc \in Sending => Sends(w)
    /\ call[w].pc \in {"claimed", "wait"} => Groups(w)
    /\ At(w, "claimed") => \A k \in call[w].group : Keyed(w, k)
    /\ Owned(w) => \A u \in Chosen(w) : Selects(w, u)

(* Two calls of a receipt never ask for the same unit, and the owner of the *)
(* lease does not choose what another one asks for.                         *)
Apart(v, w) ==
    /\ Asked(v) \cap Asked(w) = {}
    /\ Owned(w) => Chosen(w) \cap Asked(v) = {}

(* An attempt that keeps its revision for itself.                           *)
Holds(o, u) == attempt[o][u].state \notin {"absent", "released"}

RowsSpend == \A o \in Operations : \A u \in Units : RowSpend(o, u)
CallsSpend == \A w \in Workers : ~At(w, "idle") => CallSpend(w)
CallsApart ==
    \A v, w \in Workers :
        v # w /\ ~At(v, "idle") /\ ~At(w, "idle") /\ call[v].op = call[w].op => Apart(v, w)
OneHolder ==
    \A o, p \in Operations : \A u \in Units :
        o # p /\ Holds(o, u) /\ Holds(p, u) => attempt[o][u].text # attempt[p][u].text
AcceptedAll ==
    \A o \in Operations : operation[o].state # "absent" =>
        \A u \in batch[o] : attempt[o][u].state # "absent"

SpendInv == RowsSpend /\ CallsSpend /\ CallsApart /\ OneHolder /\ AcceptedAll
-----------------------------------------------------------------------------
LEMMA SpendInit == Init => SpendInv
<1> SUFFICES ASSUME Init PROVE SpendInv
  OBVIOUS
<1>1. \A w \in Workers : At(w, "idle")
  BY DEF Init, NoCall, At
<1>2. \A o \in Operations : \A u \in Units :
        /\ attempt[o][u].state = "absent" /\ attempt[o][u].source = 0
        /\ transported[o][u] = 0 /\ unit[u].source = 0
  BY DEF Init
<1>3. ASSUME NEW o \in Operations, NEW u \in Units PROVE RowSpend(o, u)
  <2>1. 0 <= 1 /\ 0 <= 0
    OBVIOUS
  <2> QED
    BY <1>2, <2>1 DEF RowSpend, Unspent
<1>4. CallsSpend /\ CallsApart
  BY <1>1 DEF CallsSpend, CallsApart
<1>5. OneHolder
  BY <1>2 DEF OneHolder, Holds
<1>6. AcceptedAll
  BY DEF Init, AcceptedAll
<1> QED
  BY <1>3, <1>4, <1>5, <1>6 DEF SpendInv, RowsSpend

(* Sources only move on, and what is committed stays so.                    *)
Grows ==
    /\ \A u \in Units : unit[u].source <= unit'[u].source
    /\ \A k \in Keys : journal[k].stage = "committed" => journal'[k].stage = "committed"

(* An attempt that keeps its revision, is not given up and not taken back.  *)
Kept(o, u) ==
    /\ attempt'[o][u].text = attempt[o][u].text
    /\ attempt'[o][u].source = attempt[o][u].source
    /\ \/ attempt'[o][u] = attempt[o][u]
       \/ /\ attempt[o][u].state \notin {"absent", "released"}
          /\ attempt'[o][u].state \notin {"absent", "pending", "released"}
          /\ attempt'[o][u].state = "received" => attempt'[o][u].answer # ""

LEMMA Numbers ==
    ASSUME TypeInv, NEW o \in Operations, NEW u \in Units
    PROVE  /\ attempt[o][u].source \in Nat /\ unit[u].source \in Nat
           /\ transported[o][u] \in Nat /\ attempt[o][u] \in AttemptRow
           /\ <<u, attempt[o][u].source, attempt[o][u].source>> \in Keys
<1>1. attempt[o][u] \in AttemptRow /\ unit[u] \in UnitRow /\ transported[o][u] \in Nat
  BY Typed
<1>2. attempt[o][u].source \in Edits /\ unit[u].source \in Edits
  BY <1>1 DEF AttemptRow, UnitRow
<1>3. \A n \in Edits : n \in Nat
  BY Bounds DEF Edits
<1> QED
  BY <1>1, <1>2, <1>3 DEF Keys

LEMMA NextSources ==
    ASSUME TypeInv', NEW u \in Units
    PROVE  unit'[u].source \in Nat
<1>1. unit'[u] \in UnitRow
  BY DEF TypeInv, TypeOK
<1>2. unit'[u].source \in Edits
  BY <1>1 DEF UnitRow
<1> QED
  BY <1>2, Bounds DEF Edits

LEMMA UnspentStays ==
    ASSUME TypeInv, TypeInv', Grows, NEW o \in Operations, NEW u \in Units,
           attempt[o][u].source <= unit[u].source,
           attempt'[o][u].source = attempt[o][u].source,
           transported'[o][u] = transported[o][u], Unspent(o, u)
    PROVE  Unspent(o, u)'
<1>1. /\ attempt[o][u].source \in Nat /\ unit[u].source \in Nat
      /\ unit'[u].source \in Nat /\ unit[u].source <= unit'[u].source
  BY Numbers, NextSources DEF Grows
<1>2. attempt[o][u].source = unit'[u].source => attempt[o][u].source = unit[u].source
  BY <1>1
<1> QED
  BY <1>2 DEF Unspent

LEMMA RowKept ==
    ASSUME TypeInv, TypeInv', Grows, NEW o \in Operations, NEW u \in Units,
           RowSpend(o, u), Kept(o, u), transported'[o][u] = transported[o][u]
    PROVE  RowSpend(o, u)'
<1>1. /\ attempt[o][u].source \in Nat /\ unit[u].source \in Nat /\ unit'[u].source \in Nat
      /\ <<u, attempt[o][u].source, attempt[o][u].source>> \in Keys
      /\ unit[u].source <= unit'[u].source /\ attempt[o][u].source <= unit[u].source
      /\ attempt'[o][u].source = attempt[o][u].source
  BY Numbers, NextSources DEF Grows, RowSpend, Kept
<1>2. attempt'[o][u].source <= unit'[u].source
  BY <1>1
<1>3. Unspent(o, u) => Unspent(o, u)'
  BY <1>1, UnspentStays
<1>4. Unspent(o, u)' \/ journal'[<<u, attempt'[o][u].source, attempt'[o][u].source>>].stage
                          = "committed"
  BY <1>1, <1>3 DEF RowSpend, Grows
<1>5. /\ transported'[o][u] <= 1
      /\ attempt'[o][u].state = "received" => attempt'[o][u].answer # ""
      /\ attempt'[o][u].state \in {"absent", "released"} => transported'[o][u] = 0
      /\ attempt'[o][u].state = "pending" => Unspent(o, u)'
  BY <1>3 DEF RowSpend, Kept
<1> QED
  BY <1>2, <1>4, <1>5 DEF RowSpend

LEMMA ChosenNamed ==
    ASSUME TypeInv, NEW w \in Workers
    PROVE  Chosen(w) \subseteq call[w].todo \cup call[w].selected /\ Chosen(w) \subseteq Units
<1>1. call[w] \in Call
  BY Typed
<1> QED
  BY <1>1 DEF Chosen, Call

LEMMA ChosenLater ==
    ASSUME NEW w, call[w].pc \notin {"triage", "lookup"}
    PROVE  Chosen(w) = call[w].selected
BY DEF Chosen, Unclear, At

LEMMA ChosenLaterNext ==
    ASSUME NEW w, call'[w].pc \notin {"triage", "lookup"}
    PROVE  Chosen(w)' = call'[w].selected
BY DEF Chosen, Unclear, At

(* What was requested or answered stays so.                                 *)
Quiet(w) ==
    \A u \in Units : attempt[call[w].op][u].state \in {"requesting", "received"} =>
                        attempt'[call[w].op][u] = attempt[call[w].op][u]

LEMMA ChosenStays ==
    ASSUME TypeInv, NEW w \in Workers, call'[w] = call[w], Quiet(w)
    PROVE  Chosen(w)' \subseteq Chosen(w)
<1>1. call[w] \in Call
  BY Typed
<1> SUFFICES ASSUME NEW u \in Chosen(w)' PROVE u \in Chosen(w)
  OBVIOUS
<1>2. u \in call[w].selected \cup (IF At(w, "lookup") THEN call[w].todo ELSE {})
      /\ ~Unclear(w, u)'
  BY DEF Chosen, At
<1>3. u \in Units
  BY <1>1, <1>2 DEF Call
<1>4. ~Unclear(w, u)
  BY <1>2, <1>3 DEF Unclear, Quiet, At
<1> QED
  BY <1>2, <1>4 DEF Chosen

(* A call that does not move, when nothing that it relies on does.          *)
LEMMA CallKept ==
    ASSUME TypeInv, TypeInv', Grows, RowsSpend, NEW w \in Workers, ~At(w, "idle"),
           CallSpend(w), call'[w] = call[w], Owned(w)' => Owned(w),
           NEW o \in Operations, o = call[w].op,
           \A u \in Units : attempt'[o][u].source = attempt[o][u].source,
           \A u \in Units : Known(w, u) => attempt'[o][u].state # "absent",
           \A u \in Asked(w) :
               /\ attempt'[o][u].state \notin {"pending", "released"}
               /\ transported'[o][u] = transported[o][u],
           Owned(w)' => Chosen(w)' \subseteq Chosen(w),
           Owned(w)' => \A u \in Chosen(w) :
               /\ attempt'[o][u].state # "released"
               /\ transported'[o][u] = transported[o][u]
    PROVE  CallSpend(w)'
<1>1. /\ call[w] \in Call /\ GroupUnits(w)' = GroupUnits(w) /\ Asked(w)' = Asked(w)
      /\ \A point : At(w, point)' = At(w, point)
      /\ \A k \in call[w].group : k \in Keys /\ k[1] \in Units /\ k[1] \in GroupUnits(w)
  BY Typed DEF GroupUnits, Asked, At, Call, Keys
<1>2. \A u \in call[w].todo \cup call[w].selected \cup call[w].chunk : u \in Units /\ Known(w, u)'
  BY <1>1 DEF CallSpend, Known, Call
<1>3. \A u \in Asked(w)' : attempt'[o][u].state \notin {"pending", "released"}
  BY <1>1
<1>4. call[w].pc \in Sending => Asked(w) = call[w].chunk
  BY DEF Asked
<1>5. call[w].pc \in Sending => Sends(w)'
  BY <1>4 DEF CallSpend, Sends
<1>6. call[w].pc \in {"claimed", "wait"} => Groups(w)'
  BY <1>1 DEF CallSpend, Groups
<1>7. ASSUME At(w, "claimed"), NEW k \in call[w].group PROVE Keyed(w, k)'
  <2>1. Keyed(w, k) /\ k[1] \in Units /\ k[1] \in Asked(w)
    BY <1>1, <1>4, <1>7 DEF CallSpend, Groups, At, Sending
  <2>2. /\ unit[k[1]].source <= unit'[k[1]].source
        /\ attempt[o][k[1]].source <= unit[k[1]].source
        /\ attempt[o][k[1]].source \in Nat /\ unit[k[1]].source \in Nat
        /\ unit'[k[1]].source \in Nat
    BY <2>1, Numbers, NextSources DEF Grows, RowsSpend, RowSpend
  <2>3. unit'[k[1]].source = k[2] => unit[k[1]].source = k[2]
    BY <2>1, <2>2 DEF Keyed
  <2> QED
    BY <2>1, <2>3 DEF Keyed
<1>8. ASSUME Owned(w)', NEW u \in Chosen(w)' PROVE Selects(w, u)'
  <2>1. Selects(w, u) /\ u \in Units /\ u \in Chosen(w)
    BY <1>8, ChosenNamed DEF CallSpend
  <2>2. Unspent(o, u)'
    BY <1>8, <2>1, UnspentStays DEF Selects, RowsSpend, RowSpend
  <2> QED
    BY <1>1, <1>8, <2>1, <2>2 DEF Selects
<1> QED
  BY <1>1, <1>2, <1>3, <1>5, <1>6, <1>7, <1>8 DEF CallSpend

(* What a step may do to an attempt that it does not reserve.               *)
Stays(o, u) ==
    /\ attempt'[o][u].text = attempt[o][u].text
    /\ Holds(o, u)' => Holds(o, u)
    /\ attempt[o][u].state # "absent" => attempt'[o][u].state # "absent"

(* What a step may do to the call that makes it: only the owner of the      *)
(* lease asks for more, and only for what it had chosen.                    *)
Goes(w) ==
    /\ ~At(w, "idle") /\ call'[w].op = call[w].op /\ CallSpend(w)'
    /\ Owned(w)' => Owned(w)
    /\ Owned(w) \/ Asked(w)' \subseteq Asked(w)
    /\ Asked(w)' \subseteq Asked(w) \cup Chosen(w)
    /\ \A u \in Chosen(w)' :
          \/ u \in Chosen(w)
          \/ \A v \in Workers \ {w} :
                ~At(v, "idle") /\ call[v].op = call[w].op => u \notin Asked(v)

Alone(w) ==
    /\ \A v \in Workers \ {w} :
          call'[v] = call[v] /\ (~At(v, "idle") /\ Owned(v)' => Owned(v) /\ Quiet(v))
    /\ w \in Workers /\ ~At(w, "idle")' => Goes(w)

LEMMA StayApart ==
    ASSUME SpendInv, TypeInv, NEW w, Alone(w)
    PROVE  CallsApart'
<1> SUFFICES ASSUME NEW v \in Workers, NEW x \in Workers, v # x, ~At(v, "idle")', ~At(x, "idle")',
                    call'[v].op = call'[x].op
             PROVE  Apart(v, x)'
  BY DEF CallsApart
<1>1. ASSUME NEW y \in Workers, y # w, ~At(y, "idle")'
      PROVE  /\ call'[y] = call[y] /\ ~At(y, "idle") /\ Asked(y)' = Asked(y)
             /\ Owned(y)' => Owned(y) /\ Chosen(y)' \subseteq Chosen(y)
  <2>1. call'[y] = call[y] /\ (~At(y, "idle") /\ Owned(y)' => Owned(y) /\ Quiet(y))
    BY <1>1 DEF Alone
  <2>2. ~At(y, "idle") /\ Asked(y)' = Asked(y)
    BY <1>1, <2>1 DEF At, Asked
  <2> QED
    BY <2>1, <2>2, ChosenStays
<1>2. ~At(w, "idle")' /\ w \in Workers => Goes(w)
  BY DEF Alone
<1>3. CASE v # w /\ x # w
  <2>1. Apart(v, x)
    BY <1>1, <1>3 DEF SpendInv, CallsApart
  <2> QED
    BY <1>1, <1>3, <2>1 DEF Apart
<1>4. CASE v = w
  <2>1. /\ Goes(w) /\ Apart(w, x) /\ Apart(x, w) /\ call[x].op = call[w].op
        /\ Asked(x)' = Asked(x) /\ (Owned(x)' => Owned(x) /\ Chosen(x)' \subseteq Chosen(x))
    BY <1>1, <1>2, <1>4 DEF SpendInv, CallsApart, Goes
  <2>2. Owned(x)' => ~Owned(w)
    BY <1>4, <2>1, OneOwner
  <2>3. Owned(x)' => Chosen(x)' \cap Asked(w)' = {}
    BY <2>1, <2>2 DEF Goes, Apart
  <2>4. Asked(w)' \cap Asked(x)' = {}
    BY <2>1 DEF Goes, Apart
  <2> QED
    BY <1>4, <2>3, <2>4 DEF Apart
<1>5. CASE x = w
  <2>1. /\ Goes(w) /\ Apart(w, v) /\ Apart(v, w) /\ call[v].op = call[w].op /\ ~At(v, "idle")
        /\ Asked(v)' = Asked(v)
    BY <1>1, <1>2, <1>5 DEF SpendInv, CallsApart, Goes
  <2>2. ASSUME Owned(w)', NEW u \in Chosen(w)' PROVE u \notin Asked(v)
    BY <1>5, <2>1, <2>2 DEF Goes, Apart
  <2>3. Asked(v)' \cap Asked(w)' = {}
    BY <2>1 DEF Goes, Apart
  <2> QED
    BY <1>5, <2>1, <2>2, <2>3 DEF Apart
<1> QED
  BY <1>3, <1>4, <1>5

LEMMA SpendFrame ==
    ASSUME SpendInv, UNCHANGED batch, NEW w, Alone(w),
           \A o \in Operations : operation'[o].state # "absent" => operation[o].state # "absent",
           \A o \in Operations : \A u \in Units : RowSpend(o, u)' /\ Stays(o, u),
           \A v \in Workers \ {w} : ~At(v, "idle") => CallSpend(v)',
           TypeInv
    PROVE  SpendInv'
<1>1. RowsSpend'
  BY DEF RowsSpend
<1>2. CallsSpend'
  <2> SUFFICES ASSUME NEW v \in Workers, ~At(v, "idle")' PROVE CallSpend(v)'
    BY DEF CallsSpend
  <2>1. CASE v = w
    BY <2>1 DEF Alone, Goes
  <2>2. CASE v # w
    BY <2>2 DEF Alone, At
  <2> QED
    BY <2>1, <2>2
<1>3. OneHolder'
  <2> SUFFICES ASSUME NEW o \in Operations, NEW p \in Operations, NEW u \in Units,
                      o # p, Holds(o, u)', Holds(p, u)'
               PROVE  attempt'[o][u].text # attempt'[p][u].text
    BY DEF OneHolder
  <2> QED
    BY DEF SpendInv, OneHolder, Stays
<1>4. AcceptedAll'
  <2> SUFFICES ASSUME NEW o \in Operations, operation'[o].state # "absent", NEW u \in batch[o]
               PROVE  attempt'[o][u].state # "absent"
    BY DEF AcceptedAll
  <2>1. u \in Units /\ attempt[o][u].state # "absent"
    BY BatchTyped DEF SpendInv, AcceptedAll
  <2> QED
    BY <2>1 DEF Stays
<1> QED
  BY <1>1, <1>2, <1>3, <1>4, StayApart DEF SpendInv

(* Steps that send nothing and give nothing up.                             *)
LEMMA SpendKept ==
    ASSUME SpendInv, TypeInv, TypeInv', Grows, UNCHANGED batch, NEW w, Alone(w),
           \A o \in Operations : operation'[o].state # "absent" => operation[o].state # "absent",
           \A o \in Operations : \A u \in Units :
               Kept(o, u) /\ transported'[o][u] = transported[o][u]
    PROVE  SpendInv'
<1>1. ASSUME NEW o \in Operations, NEW u \in Units PROVE RowSpend(o, u)' /\ Stays(o, u)
  <2>1. RowSpend(o, u) /\ Kept(o, u) /\ transported'[o][u] = transported[o][u]
    BY DEF SpendInv, RowsSpend
  <2>2. RowSpend(o, u)'
    BY <2>1, RowKept
  <2> QED
    BY <2>1, <2>2 DEF Kept, Stays, Holds
<1>2. ASSUME NEW v \in Workers \ {w}, ~At(v, "idle") PROVE CallSpend(v)'
  <2>1. call'[v] = call[v] /\ (Owned(v)' => Owned(v) /\ Quiet(v)) /\ CallSpend(v)
    BY <1>2 DEF Alone, SpendInv, CallsSpend
  <2>2. PICK o \in Operations : o = call[v].op
    BY <1>2, CallRow
  <2>3. \A u \in Units : Kept(o, u) /\ transported'[o][u] = transported[o][u]
    OBVIOUS
  <2>4. call[v] \in Call
    BY Typed
  <2>5. Asked(v) \subseteq Units /\ Chosen(v) \subseteq Units
    BY <2>4, ChosenNamed DEF Asked, Call
  <2>6. \A u \in Units : attempt'[o][u].source = attempt[o][u].source
    BY <2>3 DEF Kept
  <2>7. \A u \in Units : Known(v, u) => attempt'[o][u].state # "absent"
    BY <2>2, <2>3 DEF Kept, Known
  <2>8. ASSUME NEW u \in Asked(v)
        PROVE  attempt'[o][u].state \notin {"pending", "released"}
               /\ transported'[o][u] = transported[o][u]
    <3>1. attempt[o][u].state \notin {"pending", "released"} /\ u \in Units
      BY <2>1, <2>2, <2>5 DEF CallSpend
    <3>2. Kept(o, u) /\ transported'[o][u] = transported[o][u]
      BY <2>3, <3>1
    <3> QED
      BY <3>1, <3>2 DEF Kept
  <2>9. ASSUME Owned(v)', NEW u \in Chosen(v)
        PROVE  attempt'[o][u].state # "released" /\ transported'[o][u] = transported[o][u]
    <3>1. attempt[o][u].state # "released" /\ u \in Units
      BY <2>1, <2>2, <2>5, <2>9 DEF CallSpend, Selects
    <3>2. Kept(o, u) /\ transported'[o][u] = transported[o][u]
      BY <2>3, <3>1
    <3> QED
      BY <3>1, <3>2 DEF Kept
  <2>10. Owned(v)' => Chosen(v)' \subseteq Chosen(v)
    BY <2>1, ChosenStays
  <2> QED
    BY <1>2, <2>1, <2>2, <2>6, <2>7, <2>8, <2>9, <2>10, CallKept DEF SpendInv
<1> QED
  BY <1>1, <1>2, SpendFrame

LEMMA SameAttempts ==
    ASSUME UNCHANGED attempt
    PROVE  \A o \in Operations : \A u \in Units : Kept(o, u)
BY DEF Kept

(* Steps outside the calls: they may end a call and take a lease away.      *)
LEMMA Outside ==
    ASSUME SpendInv, TypeInv, TypeInv', UNCHANGED <<attempt, batch, journal, transported>>,
           \A u \in Units : unit'[u].source = unit[u].source,
           NEW w,
           \A v \in Workers \ {w} : call'[v] = call[v],
           w \in Workers => At(w, "idle")',
           \A o \in Operations :
               /\ operation'[o].state # "absent" => operation[o].state # "absent"
               /\ \/ operation'[o].owner = operation[o].owner /\ operation'[o].lease = operation[o].lease
                  \/ operation'[o].owner = None
                  \/ operation'[o].lease # "live"
    PROVE  SpendInv'
<1>1. Grows
  <2>1. \A u \in Units : unit[u].source \in Nat
    <3>1. \A u \in Units : unit[u] \in UnitRow
      BY Typed
    <3> QED
      BY <3>1, Bounds DEF UnitRow, Edits
  <2> QED
    BY <2>1 DEF Grows
<1>2. Alone(w)
  <2> SUFFICES ASSUME NEW v \in Workers \ {w}, ~At(v, "idle"), Owned(v)' PROVE Owned(v)
    BY DEF Alone, Quiet
  <2>1. call'[v] = call[v] /\ v # None /\ call[v].op \in Operations
    BY MTAssumption, CallRow
  <2> QED
    BY <2>1 DEF Owned
<1>3. \A o \in Operations : \A u \in Units : Kept(o, u) /\ transported'[o][u] = transported[o][u]
  BY SameAttempts
<1> QED
  BY <1>1, <1>2, <1>3, SpendKept

LEMMA RequestsSpend ==
    ASSUME SpendInv, TypeInv, TypeInv', NEW o \in Operations,
           \/ RetryDispatch(o) \/ CancelReads(o) \/ CancelSaves(o) \/ RightsChange(o)
           \/ Publish(o) \/ BrokerFails(o) \/ PublisherDies(o) \/ Drain(o) \/ LeaseExpires(o)
    PROVE  SpendInv'
<1> USE DEF env, rows, outbox, spending, history
<1>1. UNCHANGED <<attempt, batch, journal, transported, unit, call>>
  BY DEF RetryDispatch, CancelReads, CancelSaves, RightsChange, Publish, PublishBegins,
         BrokerAccepts, MarkPublished, CountFailure, BrokerFails, PublisherDies, Drain,
         RecoverExpired, Reoffer, LeaseExpires
<1>2. \/ UNCHANGED operation
      \/ operation' = [operation EXCEPT ![o] = [operation[o] EXCEPT !.owner = None, !.lease = "none"]]
         /\ operation[o].state # "absent"
      \/ operation' = [operation EXCEPT ![o].lease = "expired"]
  BY DEF RetryDispatch, CancelReads, CancelSaves, RightsChange, Publish, PublishBegins,
         BrokerAccepts, MarkPublished, CountFailure, BrokerFails, PublisherDies, Drain,
         RecoverExpired, Recoverable, Reoffer, LeaseExpires
<1>3. operation \in [Operations -> OperationRow] /\ operation[o] \in OperationRow
  BY Typed
<1>4. ASSUME NEW p \in Operations
      PROVE  /\ operation'[p].state # "absent" => operation[p].state # "absent"
             /\ \/ operation'[p].owner = operation[p].owner /\ operation'[p].lease = operation[p].lease
                \/ operation'[p].owner = None
                \/ operation'[p].lease # "live"
  <2>1. CASE UNCHANGED operation
    BY <2>1
  <2>2. CASE operation' = [operation EXCEPT ![o] = [operation[o] EXCEPT !.owner = None, !.lease = "none"]]
             /\ operation[o].state # "absent"
    <3> DEFINE r == [operation[o] EXCEPT !.owner = None, !.lease = "none"]
    <3>1. r.lease = "none"
      BY <1>3 DEF OperationRow
    <3>2. operation' = [operation EXCEPT ![o] = r] /\ operation[o].state # "absent"
      BY <2>2
    <3> HIDE DEF r
    <3> QED
      BY <1>3, <3>1, <3>2
  <2>3. CASE operation' = [operation EXCEPT ![o].lease = "expired"]
    <3> DEFINE r == [operation[o] EXCEPT !.lease = "expired"]
    <3>1. r.lease = "expired" /\ r.state = operation[o].state
      BY <1>3 DEF OperationRow
    <3>2. operation' = [operation EXCEPT ![o] = r]
      BY <2>3
    <3> HIDE DEF r
    <3> QED
      BY <1>3, <3>1, <3>2
  <2> QED
    BY <1>2, <2>1, <2>2, <2>3
<1>5. None \notin Workers
  BY MTAssumption
<1> QED
  BY <1>1, <1>4, <1>5, Outside

LEMMA EditsSpend ==
    ASSUME SpendInv, TypeInv, TypeInv',
           \/ \E u \in Units : HumanEdits(u) \/ SourceChanges(u)
           \/ ComponentLockToggles \/ UNCHANGED vars
    PROVE  SpendInv'
<1> USE DEF vars, env, rows, outbox, spending, history
<1>1. UNCHANGED <<attempt, batch, journal, transported, call, operation>>
  BY DEF HumanEdits, SourceChanges, Edited, ComponentLockToggles
<1>2. unit \in [Units -> UnitRow] /\ \A u \in Units : unit[u] \in UnitRow /\ unit[u].source \in Nat
  <2>1. unit \in [Units -> UnitRow] /\ \A u \in Units : unit[u] \in UnitRow
    BY Typed
  <2> QED
    BY <2>1, Bounds DEF UnitRow, Edits
<1>3. ASSUME NEW v \in Units PROVE unit[v].source <= unit'[v].source
  <2>1. CASE UNCHANGED unit
    BY <1>2, <2>1
  <2>2. CASE \E u \in Units : HumanEdits(u) \/ SourceChanges(u)
    <3>1. PICK u \in Units : HumanEdits(u) \/ SourceChanges(u)
      BY <2>2
    <3>2. CASE HumanEdits(u)
      <4>1. PICK target : unit' = [unit EXCEPT ![u] =
                             [unit[u] EXCEPT !.target = target, !.audit = unit[u].audit + 1]]
        BY <3>2 DEF HumanEdits, Edited
      <4> DEFINE r == [unit[u] EXCEPT !.target = target, !.audit = unit[u].audit + 1]
      <4>2. r.source = unit[u].source
        BY <1>2 DEF UnitRow
      <4>3. unit' = [unit EXCEPT ![u] = r]
        BY <4>1
      <4> HIDE DEF r
      <4> QED
        BY <1>2, <4>2, <4>3
    <3>3. CASE SourceChanges(u)
      <4> DEFINE r == [unit[u] EXCEPT !.source = unit[u].source + 1, !.audit = unit[u].audit + 1,
                                      !.text = unit[u].text + 1]
                 s == [unit[u] EXCEPT !.source = unit[u].source + 1]
      <4>1. r.source = unit[u].source + 1 /\ s.source = unit[u].source + 1
        BY <1>2 DEF UnitRow
      <4>2. unit' = [unit EXCEPT ![u] = r] \/ unit' = [unit EXCEPT ![u] = s]
        BY <3>3 DEF SourceChanges, Edited
      <4> HIDE DEF r, s
      <4> QED
        BY <1>2, <4>1, <4>2
    <3> QED
      BY <3>1, <3>2, <3>3
  <2> QED
    BY <2>1, <2>2 DEF ComponentLockToggles
<1>4. Grows
  BY <1>1, <1>3 DEF Grows
<1>5. None \notin Workers /\ Alone(None)
  BY <1>1, MTAssumption DEF Alone, Owned, Quiet
<1> QED
  BY <1>1, <1>4, <1>5, SameAttempts, SpendKept

LEMMA LeavesSpend ==
    ASSUME SpendInv, ControlInv, TypeInv', NEW w \in Workers,
           \/ FinishWrites(w) \/ OwnershipLost(w) \/ Crash(w)
           \/ \E o \in Operations : DropMessage(w, o)
    PROVE  SpendInv'
<1> USE DEF env, rows, outbox, spending, history
<1>0. TypeInv
  BY ControlTyped
<1>1. UNCHANGED <<attempt, batch, journal, transported, unit>>
  BY DEF FinishWrites, OwnershipLost, Crash, DropMessage
<1>2. At(w, "idle")' /\ \A v \in Workers \ {w} : call'[v] = call[v]
  <2>1. CASE Leave(w)
    BY <1>0, <2>1, Continued, NoCallTyped DEF Leave, At
  <2>2. CASE UNCHANGED call /\ At(w, "idle")
    BY <2>2 DEF At
  <2> QED
    BY <2>1, <2>2 DEF FinishWrites, OwnershipLost, Crash, DropMessage, Receive
<1>3. ASSUME NEW p \in Operations
      PROVE  /\ operation'[p].state # "absent" => operation[p].state # "absent"
             /\ \/ operation'[p].owner = operation[p].owner /\ operation'[p].lease = operation[p].lease
                \/ operation'[p].owner = None
                \/ operation'[p].lease # "live"
  <2>1. CASE UNCHANGED operation
    BY <2>1
  <2>2. CASE FinishWrites(w)
    <3> DEFINE r == [state |-> OperationEnd(w), owner |-> None, lease |-> "none"]
    <3>1. r.owner = None
      OBVIOUS
    <3>2. operation' = [operation EXCEPT ![call[w].op] = r] /\ operation \in [Operations -> OperationRow]
      BY <1>0, <2>2, Typed DEF FinishWrites
    <3> HIDE DEF r
    <3>3. CASE p # call[w].op
      BY <3>2, <3>3
    <3>4. CASE p = call[w].op
      <4>1. operation[p].state # "absent"
        BY <3>4 DEF ControlInv, AbsentIsUntouched, Untouched
      <4> QED
        BY <3>1, <3>2, <3>4, <4>1
    <3> QED
      BY <3>3, <3>4
  <2> QED
    BY <2>1, <2>2 DEF OwnershipLost, Crash, DropMessage
<1> QED
  BY <1>0, <1>1, <1>2, <1>3, Outside

(* A step of a worker inside its call.                                      *)
LEMMA WorkerSpends ==
    ASSUME SpendInv, TypeInv, TypeInv', NEW w \in Workers, NEW next, Continue(w, next),
           UNCHANGED <<batch, transported, operation>>,
           \A u \in Units : unit'[u].source = unit[u].source,
           \A k \in Keys : journal[k].stage = "committed" => journal'[k].stage = "committed",
           \A o \in Operations : \A u \in Units : Kept(o, u),
           \/ UNCHANGED attempt
           \/ Owned(w) /\ \A o \in Operations : o # call[w].op => attempt'[o] = attempt[o],
           Goes(w)
    PROVE  SpendInv'
<1>1. \A v \in Workers \ {w} : call'[v] = call[v]
  BY Continued
<1>2. Alone(w)
  <2>1. ASSUME NEW v \in Workers \ {w}, ~At(v, "idle"), Owned(v)' PROVE Owned(v) /\ Quiet(v)
    <3>1. Owned(v) /\ call[v].op \in Operations
      BY <1>1, <2>1, CallRow DEF Owned
    <3>2. UNCHANGED attempt \/ call[v].op # call[w].op
      BY <2>1, <3>1, OneOwner
    <3> QED
      BY <3>1, <3>2 DEF Quiet
  <2> QED
    BY <1>1, <2>1 DEF Alone
<1>3. \A u \in Units : unit[u].source \in Nat
  <2>1. \A u \in Units : unit[u] \in UnitRow
    BY Typed
  <2> QED
    BY <2>1, Bounds DEF UnitRow, Edits
<1>4. Grows
  BY <1>3 DEF Grows
<1> QED
  BY <1>2, <1>4, SpendKept

(* The call goes on with no attempt written and nothing more to ask for.    *)
LEMMA MovesOn ==
    ASSUME SpendInv, TypeInv, TypeInv', NEW w \in Workers, ~At(w, "idle"),
           NEW next, Continue(w, next), next.op = call[w].op,
           UNCHANGED <<batch, transported, operation, unit, attempt>>,
           \A k \in Keys : journal[k].stage = "committed" => journal'[k].stage = "committed",
           Chosen(w)' \subseteq Chosen(w), next.selected \subseteq call[w].selected,
           next.todo \cup next.chunk \subseteq call[w].todo \cup call[w].chunk,
           Asked(w)' \subseteq Asked(w),
           next.pc \in Sending =>
               call[w].pc \in Sending /\ next.chunk = call[w].chunk /\ next.todo \subseteq call[w].todo,
           next.pc \in {"claimed", "wait"} => Groups(w)',
           next.pc = "claimed" => \A k \in next.group : Keyed(w, k)'
    PROVE  SpendInv'
<1>1. call'[w] = next /\ CallSpend(w)
  BY Continued DEF SpendInv, CallsSpend
<1>2. CallSpend(w)'
  <2>1. \A u \in next.todo \cup next.selected \cup next.chunk : Known(w, u)'
    BY <1>1 DEF CallSpend, Known
  <2>2. \A u \in Asked(w)' : attempt'[next.op][u].state \notin {"pending", "released"}
    BY <1>1 DEF CallSpend
  <2>3. next.pc \in Sending => Sends(w)'
    BY <1>1 DEF CallSpend, Sends
  <2>4. Owned(w)' => \A u \in Chosen(w)' : Selects(w, u)'
    BY <1>1 DEF CallSpend, Selects, Owned, Unspent
  <2> QED
    BY <1>1, <2>1, <2>2, <2>3, <2>4 DEF CallSpend, At
<1>3. Goes(w)
  BY <1>1, <1>2 DEF Goes, Owned
<1> QED
  BY <1>3, SameAttempts, WorkerSpends

(* Points of a call that ask the provider for nothing.                      *)
Silent == {"triage", "lookup", "chunk", "requesting", "apply", "applying", "finish", "finishing"}

LEMMA StaysSilent ==
    ASSUME SpendInv, TypeInv, TypeInv', NEW w \in Workers, ~At(w, "idle"),
           call[w].pc \notin {"triage", "lookup"},
           NEW next, Continue(w, next), next.op = call[w].op,
           UNCHANGED <<batch, transported, operation, unit, attempt, journal>>,
           next.selected = call[w].selected, next.todo = call[w].todo,
           next.chunk = call[w].chunk, next.pc \in Silent \ {"triage", "lookup"}
    PROVE  SpendInv'
<1>1. call'[w] = next
  BY Continued
<1>2. Asked(w)' = {}
  BY <1>1 DEF Asked, At, Silent, Sending
<1>3. next.pc \notin Sending \cup {"claimed", "wait"}
  BY DEF Silent, Sending
<1>4. Chosen(w)' \subseteq Chosen(w)
  BY <1>1, ChosenLater, ChosenLaterNext
<1> QED
  BY <1>2, <1>3, <1>4, MovesOn

LEMMA SilentSteps ==
    ASSUME SpendInv, TypeInv, TypeInv', NEW w \in Workers,
           \/ AllReceived(w) \/ ChunkStops(w) \/ ChunkReads(w) \/ ApplyStops(w)
           \/ ApplyReads(w) \/ AllApplied(w) \/ FinishReads(w)
    PROVE  SpendInv'
<1> USE DEF env, rows, outbox, spending, history
<1>1. /\ ~At(w, "idle") /\ call[w].pc \notin {"triage", "lookup"}
      /\ UNCHANGED <<batch, transported, operation, unit, attempt, journal>>
  BY DEF AllReceived, ChunkStops, ChunkReads, ApplyStops, ApplyReads, InApply, AllApplied,
         FinishReads, At
<1>2. call[w] \in Call
  BY <1>1, CallRow
<1>3. PICK next : /\ Continue(w, next) /\ next.op = call[w].op
                  /\ next.pc \in Silent \ {"triage", "lookup"}
                  /\ next.selected = call[w].selected /\ next.chunk = call[w].chunk
                  /\ next.todo = call[w].todo
  <2>1. CASE AllReceived(w) \/ AllApplied(w)
    <3> DEFINE a == [call[w] EXCEPT !.pc = "apply"]
               f == [call[w] EXCEPT !.pc = "finish"]
    <3>1. Continue(w, a) \/ Continue(w, f)
      BY <2>1 DEF AllReceived, AllApplied, Goto
    <3>2. /\ a.op = call[w].op /\ a.pc = "apply" /\ a.todo = call[w].todo
          /\ a.selected = call[w].selected /\ a.chunk = call[w].chunk
          /\ f.op = call[w].op /\ f.pc = "finish" /\ f.todo = call[w].todo
          /\ f.selected = call[w].selected /\ f.chunk = call[w].chunk
      BY <1>2 DEF Call
    <3> QED
      BY <3>1, <3>2 DEF Silent
  <2>2. CASE ChunkStops(w) \/ ApplyStops(w) \/ FinishReads(w)
    <3> DEFINE p1 == ~Cancelled(call[w].op)
               p2 == call[w].paused \/ ~Cancelled(call[w].op)
               c == Cancelled(call[w].op)
               n1 == [call[w] EXCEPT !.pc = "apply", !.paused = p1]
               n2 == [call[w] EXCEPT !.pc = "finish", !.paused = p2]
               n3 == [call[w] EXCEPT !.pc = "finishing", !.cancelled = c]
    <3>1. Continue(w, n1) \/ Continue(w, n2) \/ Continue(w, n3)
      BY <2>2 DEF ChunkStops, ApplyStops, FinishReads
    <3> HIDE DEF p1, p2, c
    <3>2. /\ n1.op = call[w].op /\ n1.pc = "apply" /\ n1.todo = call[w].todo
          /\ n1.selected = call[w].selected /\ n1.chunk = call[w].chunk
      BY <1>2 DEF Call
    <3>3. /\ n2.op = call[w].op /\ n2.pc = "finish" /\ n2.todo = call[w].todo
          /\ n2.selected = call[w].selected /\ n2.chunk = call[w].chunk
      BY <1>2 DEF Call
    <3>4. /\ n3.op = call[w].op /\ n3.pc = "finishing" /\ n3.todo = call[w].todo
          /\ n3.selected = call[w].selected /\ n3.chunk = call[w].chunk
      BY <1>2 DEF Call
    <3> HIDE DEF n1, n2, n3
    <3> QED
      BY <3>1, <3>2, <3>3, <3>4 DEF Silent
  <2>3. CASE ChunkReads(w) \/ ApplyReads(w)
    <3> DEFINE c == Permitted(call[w].op)
               n1 == [call[w] EXCEPT !.pc = "requesting", !.permitted = c]
               n2 == [call[w] EXCEPT !.pc = "applying", !.permitted = c]
    <3>1. Continue(w, n1) \/ Continue(w, n2)
      BY <2>3 DEF ChunkReads, ApplyReads
    <3> HIDE DEF c
    <3>2. /\ n1.op = call[w].op /\ n1.pc = "requesting" /\ n1.todo = call[w].todo
          /\ n1.selected = call[w].selected /\ n1.chunk = call[w].chunk
      BY <1>2 DEF Call
    <3>3. /\ n2.op = call[w].op /\ n2.pc = "applying" /\ n2.todo = call[w].todo
          /\ n2.selected = call[w].selected /\ n2.chunk = call[w].chunk
      BY <1>2 DEF Call
    <3> HIDE DEF n1, n2
    <3> QED
      BY <3>1, <3>2, <3>3 DEF Silent
  <2> QED
    BY <2>1, <2>2, <2>3
<1> QED
  BY <1>1, <1>3, StaysSilent

(* After a group, or after an exception: the rest of the chunk is sent, or  *)
(* the chunk is stored; what is asked for is the chunk all the time.        *)
LEMMA ChunkGoesOn ==
    ASSUME SpendInv, TypeInv, TypeInv', NEW w \in Workers, call[w].pc \in Sending,
           NEW next, Continue(w, next), next.op = call[w].op,
           UNCHANGED <<batch, transported, operation, unit, attempt>>,
           \A k \in Keys : journal[k].stage = "committed" => journal'[k].stage = "committed",
           next.selected = call[w].selected, next.chunk = call[w].chunk,
           \/ next.pc = "store" /\ next.todo = call[w].chunk
           \/ next.pc = "dispatch" /\ next.todo \subseteq call[w].todo
    PROVE  SpendInv'
<1>1. call'[w] = next /\ ~At(w, "idle")
  BY Continued DEF Sending, At
<1>2. Asked(w) = call[w].chunk
  BY DEF Asked
<1>3. Asked(w)' = call[w].chunk
  BY <1>1 DEF Asked, At, Sending
<1>4. next.todo \cup next.chunk \subseteq call[w].todo \cup call[w].chunk
  OBVIOUS
<1>5. next.pc \in Sending => next.todo \subseteq call[w].todo
  BY DEF Sending
<1>6. Chosen(w)' \subseteq Chosen(w)
  BY <1>1, ChosenLater, ChosenLaterNext DEF Sending
<1> QED
  BY <1>1, <1>2, <1>3, <1>4, <1>5, <1>6, MovesOn

LEMMA AnswersSpend ==
    ASSUME SpendInv, TypeInv, TypeInv', NEW w \in Workers, call[w].pc \in Sending,
           NEW units, NEW left \in SUBSET call[w].todo, NEW reply,
           GroupAnswered(w, units, left, reply),
           UNCHANGED <<batch, transported, operation, unit, attempt>>,
           \A k \in Keys : journal[k].stage = "committed" => journal'[k].stage = "committed"
    PROVE  SpendInv'
<1> DEFINE a == [u \in Units |-> IF u \in units /\ reply[u] \in Answers
                                 THEN reply[u] ELSE call[w].answers[u]]
           p == IF left = {} THEN "store" ELSE "dispatch"
           t == IF left = {} THEN call[w].chunk ELSE left
           next == [call[w] EXCEPT !.answers = a, !.group = {}, !.pc = p, !.todo = t]
<1>1. Continue(w, next)
  BY DEF GroupAnswered
<1>2. \/ p = "store" /\ t = call[w].chunk
      \/ p = "dispatch" /\ t \subseteq call[w].todo
  OBVIOUS
<1> HIDE DEF a, p, t
<1>3. call[w] \in Call
  BY Typed
<1>4. /\ next.op = call[w].op /\ next.pc = p /\ next.todo = t
      /\ next.selected = call[w].selected /\ next.chunk = call[w].chunk
  BY <1>3 DEF Call
<1> HIDE DEF next
<1> QED
  BY <1>1, <1>2, <1>4, ChunkGoesOn

LEMMA SavedReplies ==
    ASSUME TypeInv, NEW w \in Workers, NEW reply, SaveReplies(w, reply)
    PROVE  \A k \in Keys : /\ journal'[k].stage = journal[k].stage
                           /\ \/ journal'[k] = journal[k]
                              \/ k \in call[w].group /\ journal'[k].reply = reply[k[1]]
<1> SUFFICES ASSUME NEW k \in Keys
             PROVE  /\ journal'[k].stage = journal[k].stage
                    /\ \/ journal'[k] = journal[k]
                       \/ k \in call[w].group /\ journal'[k].reply = reply[k[1]]
  OBVIOUS
<1>1. journal[k] \in JournalRow
  BY Typed
<1> DEFINE r == [journal[k] EXCEPT !.reply = reply[k[1]]]
<1>2. r.stage = journal[k].stage /\ r.reply = reply[k[1]]
  BY <1>1 DEF JournalRow
<1>3. journal'[k] = IF k \in call[w].group THEN r ELSE journal[k]
  BY DEF SaveReplies
<1> HIDE DEF r
<1> QED
  BY <1>2, <1>3

LEMMA RepliesSpend ==
    ASSUME SpendInv, TypeInv, TypeInv', NEW w \in Workers,
           \/ GuardRefuses(w) \/ CallRaises(w)
           \/ \E units \in SUBSET Units : ReplaySaved(w, units)
           \/ \E reply \in [GroupUnits(w) -> Answers \cup {"missing"}] : Reply(w, reply)
    PROVE  SpendInv'
<1> USE DEF env, rows, outbox, spending, history
<1>1. call[w].pc \in Sending /\ UNCHANGED <<batch, transported, operation, unit, attempt>>
  BY DEF GuardRefuses, CallRaises, ReplaySaved, Dispatches, Reply, At, Sending
<1>2. call[w] \in Call
  BY Typed
<1>3. \A k \in Keys : journal[k].stage = "committed" => journal'[k].stage = "committed"
  BY SavedReplies DEF GuardRefuses, CallRaises, ReplaySaved, Reply
<1>4. CASE GuardRefuses(w)
  <2> DEFINE n == [call[w] EXCEPT !.pc = "store", !.todo = call[w].chunk, !.outcome = "refused"]
  <2>1. Continue(w, n)
    BY <1>4 DEF GuardRefuses
  <2>2. /\ n.op = call[w].op /\ n.pc = "store" /\ n.todo = call[w].chunk
        /\ n.selected = call[w].selected /\ n.chunk = call[w].chunk
    BY <1>2 DEF Call
  <2> HIDE DEF n
  <2> QED
    BY <1>1, <1>3, <2>1, <2>2, ChunkGoesOn
<1>5. CASE CallRaises(w)
  <2> DEFINE n == [call[w] EXCEPT !.pc = "store", !.todo = call[w].chunk, !.group = {},
                                  !.outcome = "lost"]
  <2>1. Continue(w, n)
    BY <1>5 DEF CallRaises
  <2>2. /\ n.op = call[w].op /\ n.pc = "store" /\ n.todo = call[w].chunk
        /\ n.selected = call[w].selected /\ n.chunk = call[w].chunk
    BY <1>2 DEF Call
  <2> HIDE DEF n
  <2> QED
    BY <1>1, <1>3, <2>1, <2>2, ChunkGoesOn
<1>6. CASE \E units \in SUBSET Units : ReplaySaved(w, units)
  <2>1. PICK units \in SUBSET Units : ReplaySaved(w, units)
    BY <1>6
  <2>2. GroupAnswered(w, units, call[w].todo \ units,
                      [u \in units |-> journal[Key(w, u)].reply])
    BY <2>1 DEF ReplaySaved
  <2>3. call[w].todo \ units \subseteq call[w].todo
    OBVIOUS
  <2> QED
    BY <1>1, <1>3, <2>2, <2>3, AnswersSpend
<1>7. CASE \E reply \in [GroupUnits(w) -> Answers \cup {"missing"}] : Reply(w, reply)
  <2>1. PICK reply : GroupAnswered(w, GroupUnits(w), call[w].todo, reply)
    BY <1>7 DEF Reply
  <2> QED
    BY <1>1, <1>3, <2>1, AnswersSpend
<1> QED
  BY <1>4, <1>5, <1>6, <1>7

LEMMA ClaimSpends ==
    ASSUME SpendInv, TypeInv, TypeInv', NEW w \in Workers, NEW units \in SUBSET Units,
           Claim(w, units)
    PROVE  SpendInv'
<1> USE DEF env, rows, outbox, spending, history
<1> DEFINE left == call[w].todo \ units
           keys == KeysOf(w, units)
           next == [call[w] EXCEPT !.pc = "claimed", !.group = keys, !.todo = left]
<1>1. /\ At(w, "dispatch") /\ ~At(w, "idle") /\ call[w].pc \in Sending
      /\ units \subseteq call[w].todo
      /\ UNCHANGED <<batch, transported, operation, unit, attempt>>
  BY DEF Claim, Dispatches, At, Sending
<1>2. PICK o \in Operations : o = call[w].op
  BY <1>1, CallRow
<1>3. call[w] \in Call /\ CallSpend(w) /\ Sends(w)
  BY <1>1, Typed DEF SpendInv, CallsSpend, CallSpend
<1>4. Continue(w, next)
  BY DEF Claim
<1>5. /\ next.op = call[w].op /\ next.pc = "claimed" /\ next.group = keys /\ next.todo = left
      /\ next.selected = call[w].selected /\ next.chunk = call[w].chunk
  <2> HIDE DEF keys, left
  <2> QED
    BY <1>3 DEF Call
<1> HIDE DEF next
<1>6. call'[w] = next
  BY <1>4, Continued
<1>7. \A k \in Keys : journal[k].stage = "committed" => journal'[k].stage = "committed"
  BY DEF Claim, MayClaim
<1>8. \A k \in keys : k[1] \in units /\ k[2] = attempt[o][k[1]].source
                      /\ k[3] = unit[k[1]].source
  BY <1>2 DEF KeysOf, Key
<1>9. Asked(w)' = call[w].chunk /\ Asked(w) = call[w].chunk
  BY <1>1, <1>5, <1>6 DEF Asked, Sending
<1>10. Groups(w)'
  <2>1. GroupUnits(w)' \subseteq units
    BY <1>5, <1>6, <1>8 DEF GroupUnits
  <2>2. units \subseteq call[w].chunk /\ units \cap left = {}
    BY <1>1, <1>3 DEF Sends
  <2> QED
    BY <1>5, <1>6, <2>1, <2>2 DEF Groups
<1>11. ASSUME NEW k \in keys PROVE Keyed(w, k)'
  <2>1. transported[o][k[1]] = 0
    BY <1>1, <1>2, <1>3, <1>8, <1>11 DEF Sends
  <2>2. transported' = transported /\ attempt' = attempt /\ unit' = unit /\ call'[w].op = o
    BY <1>1, <1>2, <1>5, <1>6
  <2> QED
    BY <1>8, <1>11, <2>1, <2>2 DEF Keyed
<1>12. Chosen(w)' \subseteq Chosen(w)
  BY <1>1, <1>5, <1>6, ChosenLater, ChosenLaterNext DEF At
<1> QED
  BY <1>1, <1>4, <1>5, <1>7, <1>9, <1>10, <1>11, <1>12, MovesOn

(* The journal lets a key be sent that is claimed; the call's keys are      *)
(* those of attempts that were never sent.                                  *)
LEMMA TransportSpends ==
    ASSUME SpendInv, TypeInv, TypeInv', NEW w \in Workers, Transport(w)
    PROVE  SpendInv'
<1> USE DEF env, rows, outbox, spending, history
<1> DEFINE next == [call[w] EXCEPT !.pc = "wait"]
<1>1. /\ At(w, "claimed") /\ ~At(w, "idle") /\ call[w].pc \in Sending
      /\ UNCHANGED <<batch, operation, unit, attempt>>
  BY DEF Transport, At, Sending
<1>2. PICK o \in Operations : o = call[w].op
  BY <1>1, CallRow
<1>3. call[w] \in Call /\ CallSpend(w) /\ Sends(w) /\ Groups(w)
      /\ \A k \in call[w].group : Keyed(w, k) /\ k \in Keys
  <2>1. call[w] \in Call /\ CallSpend(w)
    BY <1>1, Typed DEF SpendInv, CallsSpend
  <2> QED
    BY <1>1, <2>1 DEF CallSpend, Call, At
<1>4. Continue(w, next)
  BY DEF Transport, Goto
<1>5. /\ next.op = o /\ next.pc = "wait" /\ next.group = call[w].group
      /\ next.todo = call[w].todo
      /\ next.selected = call[w].selected /\ next.chunk = call[w].chunk
  BY <1>2, <1>3 DEF Call
<1> HIDE DEF next
<1>6. call'[w] = next /\ \A v \in Workers \ {w} : call'[v] = call[v]
  BY <1>4, Continued
<1>7. /\ \A p \in Operations : p # o => transported'[p] = transported[p]
      /\ \A u \in Units : transported'[o][u] =
            IF u \in GroupUnits(w) THEN transported[o][u] + 1 ELSE transported[o][u]
  <2> DEFINE f == [u \in Units |-> IF u \in GroupUnits(w) THEN transported[o][u] + 1
                                   ELSE transported[o][u]]
  <2>1. transported' = [transported EXCEPT ![o] = f]
    BY <1>2 DEF Transport
  <2>2. transported \in [Operations -> [Units -> Nat]]
    BY Typed
  <2>3. \A u \in Units : f[u] = IF u \in GroupUnits(w) THEN transported[o][u] + 1
                                ELSE transported[o][u]
    OBVIOUS
  <2> HIDE DEF f
  <2> QED
    BY <2>1, <2>2, <2>3
<1>8. /\ \A k \in Keys : journal[k].stage = "committed" => journal'[k].stage = "committed"
      /\ \A k \in call[w].group : journal'[k].stage = "committed"
  <2> SUFFICES ASSUME NEW k \in Keys, k \in call[w].group \/ journal[k].stage = "committed"
               PROVE  journal'[k].stage = "committed"
    BY <1>3
  <2>1. journal[k] \in JournalRow
    BY Typed
  <2>2. [journal[k] EXCEPT !.stage = "committed"].stage = "committed"
    BY <2>1 DEF JournalRow
  <2> QED
    BY <2>2 DEF Transport
<1>9. \A u \in Units : unit[u].source \in Nat
  <2>1. \A u \in Units : unit[u] \in UnitRow
    BY Typed
  <2> QED
    BY <2>1, Bounds DEF UnitRow, Edits
<1>10. Grows
  BY <1>1, <1>8, <1>9 DEF Grows
<1>11. Asked(w)' = call[w].chunk /\ Asked(w) = call[w].chunk
  BY <1>1, <1>5, <1>6 DEF Asked, Sending
<1>12. GroupUnits(w)' = GroupUnits(w) /\ GroupUnits(w) \subseteq call[w].chunk
       /\ call[w].chunk \subseteq Units
  BY <1>3, <1>5, <1>6 DEF GroupUnits, Groups, Call
<1>13. ASSUME NEW p \in Operations, NEW u \in Units PROVE RowSpend(p, u)' /\ Stays(p, u)
  <2>1. RowSpend(p, u) /\ Kept(p, u) /\ Stays(p, u)
    BY <1>1 DEF SpendInv, RowsSpend, Kept, Stays, Holds
  <2>2. CASE p = o /\ u \in GroupUnits(w)
    <3>1. PICK k \in call[w].group : k[1] = u
      BY <2>2 DEF GroupUnits
    <3>2. Keyed(w, k) /\ k \in Keys /\ k[1] = u
      BY <1>3, <3>1
    <3>3. transported[p][u] = 0 /\ transported'[p][u] = 1
      BY <1>2, <1>7, <2>2, <3>2 DEF Keyed
    <3>4. attempt[p][u].state \notin {"absent", "pending", "released"}
      BY <1>2, <1>3, <1>11, <1>12, <2>2 DEF CallSpend, Known
    <3>5. attempt[p][u].source = unit[u].source => k = <<u, attempt[p][u].source, attempt[p][u].source>>
      BY <1>2, <2>2, <3>2 DEF Keyed, Keys
    <3>6. attempt[p][u].source = unit[u].source =>
            journal'[<<u, attempt[p][u].source, attempt[p][u].source>>].stage = "committed"
      BY <1>8, <3>5
    <3>7. Unspent(p, u)'
          \/ journal'[<<u, attempt'[p][u].source, attempt'[p][u].source>>].stage = "committed"
      BY <1>1, <3>6 DEF Unspent
    <3>8. transported'[p][u] <= 1
      BY <3>3
    <3>9. attempt'[p][u].source <= unit'[u].source
          /\ (attempt'[p][u].state = "received" => attempt'[p][u].answer # "")
          /\ attempt'[p][u].state \notin {"absent", "pending", "released"}
      BY <1>1, <2>1, <3>4 DEF RowSpend
    <3> QED
      BY <2>1, <3>7, <3>8, <3>9 DEF RowSpend
  <2>3. CASE ~(p = o /\ u \in GroupUnits(w))
    <3>1. transported'[p][u] = transported[p][u]
      BY <1>7, <2>3
    <3> QED
      BY <1>10, <2>1, <3>1, RowKept
  <2> QED
    BY <2>2, <2>3
<1>14. ASSUME NEW v \in Workers \ {w}, ~At(v, "idle") PROVE CallSpend(v)'
  <2>1. call'[v] = call[v] /\ (Owned(v)' => Owned(v)) /\ CallSpend(v) /\ call[v] \in Call
    BY <1>1, <1>6, <1>14, Typed DEF Owned, SpendInv, CallsSpend
  <2>2. PICK p \in Operations : p = call[v].op
    BY <1>14, CallRow
  <2>3. Asked(v) \subseteq Units /\ Chosen(v) \subseteq Units /\ Chosen(v)' \subseteq Chosen(v)
    BY <1>1, <2>1, ChosenNamed, ChosenStays DEF Asked, Call, Quiet
  <2>4. p = o => /\ Asked(v) \cap GroupUnits(w) = {}
                 /\ Owned(v) => Chosen(v) \cap GroupUnits(w) = {}
    <3>1. CASE p = o
      <4>1. Apart(v, w) /\ Apart(w, v)
        BY <1>1, <1>2, <1>14, <2>2, <3>1 DEF SpendInv, CallsApart
      <4> QED
        BY <1>11, <1>12, <4>1 DEF Apart
    <3> QED
      BY <3>1
  <2>5. /\ \A u \in Asked(v) : transported'[p][u] = transported[p][u]
        /\ Owned(v)' => \A u \in Chosen(v) : transported'[p][u] = transported[p][u]
    BY <1>7, <2>1, <2>3, <2>4
  <2>6. \A u \in Asked(v) : attempt'[p][u].state \notin {"pending", "released"}
    BY <1>1, <2>1, <2>2 DEF CallSpend
  <2>7. Owned(v)' => \A u \in Chosen(v) : attempt'[p][u].state # "released"
    BY <1>1, <2>1, <2>2 DEF CallSpend, Selects
  <2>8. /\ \A u \in Units : attempt'[p][u].source = attempt[p][u].source
        /\ \A u \in Units : Known(v, u) => attempt'[p][u].state # "absent"
    BY <1>1, <2>2 DEF Known
  <2> QED
    BY <1>10, <1>14, <2>1, <2>2, <2>3, <2>5, <2>6, <2>7, <2>8, CallKept DEF SpendInv
<1>20. Chosen(w) = call[w].selected /\ Chosen(w)' = call[w].selected
  BY <1>1, <1>5, <1>6, ChosenLater, ChosenLaterNext DEF At
<1>15. CallSpend(w)'
  <2>1. \A u \in call[w].todo \cup call[w].selected \cup call[w].chunk : Known(w, u)'
    BY <1>1, <1>2, <1>3, <1>5, <1>6 DEF CallSpend, Known
  <2>2. \A u \in call[w].chunk : attempt'[o][u].state \notin {"pending", "released"}
    BY <1>1, <1>2, <1>3, <1>11 DEF CallSpend
  <2>3. Sends(w)'
    <3>1. call[w].todo \subseteq call[w].chunk /\ GroupUnits(w) \cap call[w].todo = {}
          /\ \A u \in call[w].todo : transported[o][u] = 0
      BY <1>2, <1>3 DEF Sends, Groups
    <3>2. \A u \in call[w].todo : transported'[o][u] = 0
      BY <1>7, <1>12, <3>1
    <3> QED
      BY <1>5, <1>6, <3>1, <3>2 DEF Sends
  <2>4. Groups(w)'
    BY <1>3, <1>5, <1>6, <1>12 DEF Groups
  <2>5. ASSUME Owned(w)', NEW u \in Chosen(w)' PROVE Selects(w, u)'
    <3>1. Owned(w)
      BY <1>1, <1>2, <1>5, <1>6, <2>5 DEF Owned
    <3>2. Selects(w, u) /\ u \notin call[w].chunk /\ u \in Units
      BY <1>3, <1>11, <1>20, <2>5, <3>1 DEF CallSpend, Selects, Call
    <3>3. transported'[o][u] = transported[o][u]
      BY <1>7, <1>12, <3>2
    <3> QED
      BY <1>1, <1>2, <1>5, <1>6, <1>11, <3>2, <3>3 DEF Selects, Unspent
  <2> QED
    BY <1>5, <1>6, <1>11, <2>1, <2>2, <2>3, <2>4, <2>5 DEF CallSpend, At
<1>16. Alone(w)
  BY <1>1, <1>2, <1>5, <1>6, <1>11, <1>15, <1>20 DEF Alone, Goes, Owned, Quiet
<1> QED
  BY <1>1, <1>13, <1>14, <1>16, SpendFrame

LEMMA OneKept ==
    ASSUME TypeInv, NEW o \in Operations, NEW u \in Units, NEW r,
           attempt' = [attempt EXCEPT ![o][u] = r],
           r.text = attempt[o][u].text, r.source = attempt[o][u].source,
           attempt[o][u].state \notin {"absent", "released"},
           r.state \notin {"absent", "pending", "released"},
           r.state = "received" => r.answer # ""
    PROVE  \A p \in Operations : \A v \in Units : Kept(p, v)
<1> SUFFICES ASSUME NEW p \in Operations, NEW v \in Units PROVE Kept(p, v)
  OBVIOUS
<1>1. attempt'[o][u] = r
  BY Typed
<1>2. p # o \/ v # u => attempt'[p][v] = attempt[p][v]
  BY Typed
<1> QED
  BY <1>1, <1>2 DEF Kept

LEMMA StateKept ==
    ASSUME TypeInv, NEW o \in Operations, NEW u \in Units, NEW s, SetState(o, u, s),
           attempt[o][u].state \notin {"absent", "released"},
           s \notin {"absent", "pending", "received", "released"}
    PROVE  \A p \in Operations : \A v \in Units : Kept(p, v)
<1>1. attempt[o][u] \in AttemptRow
  BY Typed
<1> DEFINE r == [attempt[o][u] EXCEPT !.state = s]
<1>2. r.text = attempt[o][u].text /\ r.source = attempt[o][u].source /\ r.state = s
  BY <1>1 DEF AttemptRow
<1>3. attempt' = [attempt EXCEPT ![o][u] = [attempt[o][u] EXCEPT !.state = s]]
  BY DEF SetState
<1> HIDE DEF r
<1>4. attempt' = [attempt EXCEPT ![o][u] = r]
  BY <1>3 DEF r
<1>5. r.state \notin {"absent", "pending", "received", "released"}
  BY <1>2
<1> QED
  BY <1>2, <1>4, <1>5, OneKept

(* A call that asks for nothing, and selects nothing more.                  *)
LEMMA SilentGoes ==
    ASSUME SpendInv, TypeInv, NEW w \in Workers, ~At(w, "idle"), NEW next, Continue(w, next),
           next.op = call[w].op, next.pc \in Silent, next.chunk \subseteq call[w].chunk,
           next.todo \cup next.selected \subseteq call[w].todo \cup call[w].selected,
           \A u \in Chosen(w)' :
               u \in Chosen(w) \/ (u \in Units /\ attempt[call[w].op][u].state = "pending"),
           UNCHANGED <<operation, transported>>,
           \A u \in Units : unit'[u].source = unit[u].source,
           \A o \in Operations : \A u \in Units : Kept(o, u)
    PROVE  Goes(w)
<1>1. call'[w] = next /\ CallSpend(w)
  BY Continued DEF SpendInv, CallsSpend
<1>2. PICK o \in Operations : o = call[w].op
  BY CallRow
<1>3. call[w] \in Call
  BY Typed
<1>4. Asked(w)' = {}
  BY <1>1 DEF Asked, At, Silent, Sending
<1>5. ASSUME NEW u \in next.todo \cup next.selected \cup next.chunk PROVE Known(w, u)'
  <2>1. Known(w, u) /\ u \in Units
    BY <1>1, <1>3, <1>5 DEF CallSpend, Call
  <2>2. Kept(o, u)
    BY <2>1
  <2> QED
    BY <1>1, <1>2, <2>1, <2>2 DEF Known, Kept
<1>6. ASSUME Owned(w)', NEW u \in Chosen(w)' PROVE Selects(w, u)'
  <2>1. u \in Units /\ Unspent(o, u) /\ attempt[o][u].state # "released"
    <3>1. CASE u \in Chosen(w)
      BY <1>1, <1>2, <1>6, <3>1, ChosenNamed DEF CallSpend, Selects, Owned
    <3>2. CASE u \in Units /\ attempt[o][u].state = "pending"
      BY <3>2 DEF SpendInv, RowsSpend, RowSpend
    <3> QED
      BY <1>2, <1>6, <3>1, <3>2
  <2>2. Kept(o, u)
    BY <2>1
  <2> QED
    BY <1>1, <1>2, <1>4, <2>1, <2>2 DEF Selects, Kept, Unspent
<1>7. next.pc \notin Sending \cup {"claimed", "wait"}
  BY DEF Silent, Sending
<1>8. CallSpend(w)'
  BY <1>1, <1>4, <1>5, <1>6, <1>7 DEF CallSpend, At
<1>9. ASSUME NEW u \in Units, attempt[o][u].state = "pending", NEW v \in Workers \ {w},
             ~At(v, "idle"), call[v].op = call[w].op
      PROVE  u \notin Asked(v)
  BY <1>2, <1>9 DEF SpendInv, CallsSpend, CallSpend
<1> QED
  BY <1>1, <1>2, <1>4, <1>8, <1>9 DEF Goes, Owned

(* Where a unit of one of the two loops leaves the call: only what was      *)
(* pending is newly chosen.                                                 *)
LEMMA LoopCall ==
    ASSUME NoBlanks, SpendInv, ControlInv, TypeInv, NEW w \in Workers, NEW u \in Units,
           \/ TriageKeeps(w, u) \/ TriageCloses(w, u) \/ TriageSelects(w, u)
           \/ LookupFinds(w, u) \/ LookupMisses(w, u)
    PROVE  \E next :
              /\ Continue(w, next) /\ next.op = call[w].op /\ next.pc \in Silent
              /\ next.chunk = call[w].chunk
              /\ next.todo \cup next.selected \subseteq call[w].todo \cup call[w].selected
              /\ \A x \in Chosen(w)' :
                    x \in Chosen(w) \/ (x \in Units /\ attempt[call[w].op][x].state = "pending")
<1>1. /\ ~At(w, "idle") /\ Owned(w) /\ u \in call[w].todo
      /\ call[w].pc \in {"triage", "lookup"}
  BY DEF TriageKeeps, TriageCloses, TriageSelects, InTriage, LookupFinds, LookupMisses,
         InLookup, InTransaction, At
<1>2. PICK o \in Operations : o = call[w].op
  BY <1>1, CallRow
<1>3. /\ CallSpend(w) /\ call[w] \in Call /\ attempt[o][u] \in AttemptRow /\ RowSpend(o, u)
      /\ call[w].todo \cap call[w].selected = {}
  BY <1>1, <1>2, Typed, Working DEF SpendInv, CallsSpend, RowsSpend, Works
<1>4. \A x \in Units : x # u => attempt'[o][x] = attempt[o][x]
  <2>1. CASE TriageCloses(w, u) \/ LookupFinds(w, u) \/ LookupMisses(w, u)
    BY <1>2, <2>1, AttemptOfUnit
  <2>2. CASE TriageKeeps(w, u) \/ TriageSelects(w, u)
    BY <2>2 DEF TriageKeeps, TriageSelects
  <2> QED
    BY <2>1, <2>2
<1>5. CASE At(w, "triage")
  <2>1. PICK sel : /\ Triaged(w, u, sel)
                   /\ \/ sel = call[w].selected
                      \/ sel = call[w].selected \cup {u} /\ TriageSelects(w, u)
    BY <1>5 DEF TriageKeeps, TriageCloses, TriageSelects, LookupFinds, LookupMisses,
       InLookup, At
  <2>2. PICK next :
          /\ Continue(w, next) /\ next.op = call[w].op /\ next.chunk = call[w].chunk
          /\ \/ /\ next.pc = "triage" /\ next.selected = sel
                /\ next.todo \subseteq call[w].todo
             \/ next.pc \in {"lookup", "chunk"} /\ next.selected = {} /\ next.todo = sel
    <3> DEFINE left == call[w].todo \ {u}
               p == IF sel = {} THEN "chunk" ELSE "lookup"
               m == [call[w] EXCEPT !.todo = left, !.selected = sel]
               n == [call[w] EXCEPT !.todo = sel, !.selected = {}, !.pc = p]
    <3>1. (Continue(w, m) \/ Continue(w, n)) /\ left \subseteq call[w].todo
          /\ p \in {"lookup", "chunk"}
      BY <2>1 DEF Triaged
    <3> HIDE DEF left, p
    <3>2. /\ m.op = call[w].op /\ m.pc = "triage" /\ m.chunk = call[w].chunk
          /\ m.selected = sel /\ m.todo = left
      BY <1>3, <1>5 DEF Call, At
    <3>3. /\ n.op = call[w].op /\ n.pc = p /\ n.chunk = call[w].chunk
          /\ n.selected = {} /\ n.todo = sel
      BY <1>3 DEF Call
    <3> HIDE DEF m, n
    <3> QED
      BY <3>1, <3>2, <3>3
  <2>3. call'[w] = next /\ next.pc \in Silent
    BY <2>2, Continued DEF Silent
  <2>4. sel \subseteq call[w].todo \cup call[w].selected /\ sel \subseteq Units
    BY <1>1, <1>3, <2>1 DEF Call
  <2>5. ASSUME NEW x \in Chosen(w)'
        PROVE  x \in sel /\ attempt'[o][x].state \notin {"requesting", "received"}
    <3>1. x \in sel
      BY <2>2, <2>3, <2>5 DEF Chosen, At
    <3>2. ~Unclear(w, x)'
      BY <2>5 DEF Chosen
    <3>3. next.pc = "chunk" => x \notin Chosen(w)'
      BY <2>2, <2>3, ChosenLaterNext
    <3> QED
      BY <1>2, <2>2, <2>3, <2>5, <3>1, <3>2, <3>3 DEF Unclear, At
  <2>6. ASSUME NEW x \in Chosen(w)'
        PROVE  x \in Chosen(w) \/ (x \in Units /\ attempt[o][x].state = "pending")
    <3>1. CASE x # u
      <4>1. x \in call[w].selected /\ attempt[o][x].state \notin {"requesting", "received"}
        BY <1>4, <2>1, <2>4, <2>5, <2>6, <3>1
      <4> QED
        BY <1>2, <4>1 DEF Chosen, Unclear
    <3>2. CASE x = u
      <4>1. TriageSelects(w, u)
        BY <1>1, <1>3, <2>1, <2>5, <2>6, <3>2
      <4>2. attempt[o][u].state \notin Settled \cup {"absent", "requesting", "received"}
        BY <1>1, <1>2, <1>3, <2>5, <2>6, <3>2, <4>1
        DEF TriageSelects, Selectable, CallSpend, Known
      <4> QED
        BY <1>3, <3>2, <4>2 DEF AttemptRow, Settled
    <3> QED
      BY <3>1, <3>2
  <2> QED
    BY <1>2, <2>2, <2>3, <2>4, <2>6
<1>6. CASE At(w, "lookup")
  <2>1. PICK sel : /\ LookedUp(w, u, sel)
                   /\ \/ sel = call[w].selected
                      \/ /\ sel = call[w].selected \cup {u} /\ attempt' = attempt
                         /\ attempt[o][u].answer = "" /\ attempt[o][u].state # "requesting"
    BY <1>2, <1>6 DEF TriageKeeps, TriageCloses, TriageSelects, LookupFinds, LookupMisses,
       InTriage, At, LostRequest
  <2>2. PICK next :
          /\ Continue(w, next) /\ next.op = call[w].op /\ next.chunk = call[w].chunk
          /\ next.selected = sel /\ next.todo = call[w].todo \ {u}
          /\ next.pc \in {"lookup", "chunk"}
    <3> DEFINE left == call[w].todo \ {u}
               p == IF left = {} THEN "chunk" ELSE "lookup"
               n == [call[w] EXCEPT !.todo = left, !.selected = sel, !.pc = p]
    <3>1. Continue(w, n) /\ p \in {"lookup", "chunk"}
      BY <2>1 DEF LookedUp
    <3> HIDE DEF p
    <3>2. /\ n.op = call[w].op /\ n.pc = p /\ n.chunk = call[w].chunk
          /\ n.selected = sel /\ n.todo = left
      BY <1>3 DEF Call
    <3> HIDE DEF n
    <3> QED
      BY <3>1, <3>2
  <2>3. call'[w] = next /\ next.pc \in Silent
    BY <2>2, Continued DEF Silent
  <2>4. ASSUME NEW x \in Chosen(w)'
        PROVE  x \in sel \/ (x \in call[w].todo \ {u} /\ ~Unclear(w, x)')
    BY <2>2, <2>3, <2>4 DEF Chosen, At
  <2>5. ASSUME NEW x \in Chosen(w)' PROVE x \in Chosen(w)
    <3>1. CASE x \in call[w].selected
      BY <1>3, <1>6, <3>1 DEF Chosen, Unclear, At
    <3>2. CASE x \in call[w].todo \ {u} /\ ~Unclear(w, x)' /\ x \notin sel
      <4>1. next.pc = "lookup"
        <5>1. next.pc = "chunk" => Chosen(w)' = sel
          BY <2>2, <2>3, ChosenLaterNext
        <5> QED
          BY <2>2, <2>5, <3>2, <5>1
      <4>2. attempt'[o][x] = attempt[o][x]
        BY <1>3, <1>4, <3>2 DEF Call
      <4>3. ~Unclear(w, x)
        BY <1>2, <2>2, <2>3, <3>2, <4>1, <4>2 DEF Unclear, At
      <4> QED
        BY <1>6, <3>2, <4>3 DEF Chosen
    <3>3. CASE x \notin call[w].selected /\ x \in sel
      <4>1. /\ x = u /\ attempt[o][u].answer = "" /\ attempt[o][u].state # "requesting"
        BY <2>1, <3>3
      <4>2. attempt[o][u].state # "received"
        BY <1>3, <4>1 DEF RowSpend
      <4> QED
        BY <1>1, <1>2, <1>6, <4>1, <4>2 DEF Chosen, Unclear
    <3> QED
      BY <2>4, <2>5, <3>1, <3>2, <3>3
  <2> QED
    BY <1>1, <2>1, <2>2, <2>3, <2>5
<1> QED
  BY <1>1, <1>5, <1>6 DEF At

LEMMA TriageSpends ==
    ASSUME NoBlanks, SpendInv, ControlInv, TypeInv, TypeInv', NEW w \in Workers, NEW u \in Units,
           \/ TriageKeeps(w, u) \/ TriageCloses(w, u) \/ TriageSelects(w, u)
           \/ LookupFinds(w, u) \/ LookupMisses(w, u)
    PROVE  SpendInv'
<1> USE DEF env, rows, outbox, spending, history
<1>1. /\ ~At(w, "idle") /\ Owned(w) /\ u \in call[w].todo
      /\ UNCHANGED <<batch, transported, operation, unit, journal>>
  BY DEF TriageKeeps, TriageCloses, TriageSelects, InTriage, LookupFinds, LookupMisses,
         InLookup, InTransaction, At
<1>2. PICK o \in Operations : o = call[w].op
  BY <1>1, CallRow
<1>3. CallSpend(w) /\ call[w] \in Call /\ attempt[o][u] \in AttemptRow
  BY <1>1, Typed DEF SpendInv, CallsSpend
<1>4. attempt[o][u].state # "absent"
  BY <1>1, <1>2, <1>3 DEF CallSpend, Known
<1>5. \A p \in Operations : \A v \in Units : Kept(p, v)
  <2>1. CASE LookupFinds(w, u)
    <3>1. PICK b : /\ b # ""
                   /\ attempt' = [attempt EXCEPT ![o][u] =
                         [attempt[o][u] EXCEPT !.state = "received", !.answer = b]]
      BY <1>2, <2>1 DEF LookupFinds, NoBlanks
    <3> DEFINE r == [attempt[o][u] EXCEPT !.state = "received", !.answer = b]
    <3>2. /\ r.text = attempt[o][u].text /\ r.source = attempt[o][u].source
          /\ r.state = "received" /\ r.answer = b
      BY <1>3 DEF AttemptRow
    <3> HIDE DEF r
    <3>3. attempt' = [attempt EXCEPT ![o][u] = r]
      BY <3>1 DEF r
    <3>4. attempt[o][u].state # "released"
      <4>1. At(w, "lookup")
        BY <2>1 DEF LookupFinds, InLookup
      <4>2. Unclear(w, u) \/ u \in Chosen(w)
        BY <1>1, <4>1 DEF Chosen
      <4> QED
        BY <1>1, <1>2, <1>3, <4>2 DEF CallSpend, Selects, Unclear
    <3> QED
      BY <1>4, <3>1, <3>2, <3>3, <3>4, OneKept
  <2>2. CASE TriageCloses(w, u)
    <3>1. PICK s \in {"skipped_nonempty", "stale", "failed"} : SetState(o, u, s)
      BY <1>2, <2>2 DEF TriageCloses, Closed
    <3>2. attempt[o][u].state # "released"
      BY <1>2, <2>2 DEF TriageCloses, Settled
    <3> QED
      BY <1>4, <3>1, <3>2, StateKept
  <2>3. CASE LookupMisses(w, u) /\ LostRequest(attempt[o][u])
    <3>1. SetState(o, u, "provider_unknown") /\ attempt[o][u].state = "requesting"
      BY <1>2, <2>3 DEF LookupMisses, LostRequest
    <3> QED
      BY <3>1, StateKept
  <2>4. CASE UNCHANGED attempt
    BY <2>4, SameAttempts
  <2> QED
    BY <1>2, <2>1, <2>2, <2>3, <2>4 DEF TriageKeeps, TriageSelects, LookupMisses
<1>6. \A p \in Operations : p # call[w].op => attempt'[p] = attempt[p]
  <2>1. CASE TriageCloses(w, u) \/ LookupFinds(w, u) \/ LookupMisses(w, u)
    BY <2>1, AttemptOfUnit
  <2>2. CASE TriageKeeps(w, u) \/ TriageSelects(w, u)
    BY <2>2 DEF TriageKeeps, TriageSelects
  <2> QED
    BY <2>1, <2>2
<1>7. PICK next :
          /\ Continue(w, next) /\ next.op = call[w].op /\ next.pc \in Silent
          /\ next.chunk = call[w].chunk
          /\ next.todo \cup next.selected \subseteq call[w].todo \cup call[w].selected
          /\ \A x \in Chosen(w)' :
                    x \in Chosen(w) \/ (x \in Units /\ attempt[call[w].op][x].state = "pending")
  BY LoopCall
<1>8. Goes(w)
  BY <1>1, <1>5, <1>7, SilentGoes
<1> QED
  BY <1>1, <1>5, <1>6, <1>7, <1>8, WorkerSpends

LEMMA AppliesSpend ==
    ASSUME SpendInv, ControlInv, TypeInv, TypeInv', NEW w \in Workers, NEW u \in Units,
           Apply(w, u) \/ ApplyRefused(w, u)
    PROVE  SpendInv'
<1> USE DEF env, rows, outbox, spending, history
<1>1. /\ u \in Received(call[w].op) /\ At(w, "applying") /\ ~At(w, "idle")
      /\ UNCHANGED <<batch, transported, operation, journal>>
  BY DEF Apply, ApplyRefused, Serves, At
<1>2. PICK o \in Operations : o = call[w].op
  BY <1>1, CallRow
<1>3. attempt[o][u].state = "received"
  BY <1>1, <1>2 DEF Received
<1>4. \A p \in Operations : \A v \in Units : Kept(p, v)
  <2>1. PICK s \in {"skipped_nonempty", "stale", "failed", "applied"} : SetState(o, u, s)
    BY <1>2 DEF Apply, ApplyRefused, Closed
  <2> QED
    BY <1>3, <2>1, StateKept
<1>5. \A v \in Units : unit'[v].source = unit[v].source
  <2>1. CASE UNCHANGED unit
    BY <2>1
  <2>2. CASE Apply(w, u)
    <3>1. unit' = [unit EXCEPT ![u] = Translated(unit[u])] /\ unit \in [Units -> UnitRow]
      BY <2>2, Typed DEF Apply
    <3>2. Translated(unit[u]).source = unit[u].source
      BY <3>1, TranslatedRow
    <3> QED
      BY <3>1, <3>2
  <2> QED
    BY <2>1, <2>2 DEF ApplyRefused
<1>6. Owned(w) /\ \A p \in Operations : p # call[w].op => attempt'[p] = attempt[p]
  BY <1>1, AttemptOfUnit DEF ControlInv, LockIsOwned, Locking, Locked, Writing, Held, At
<1> DEFINE next == [call[w] EXCEPT !.pc = "apply"]
<1>7. Continue(w, next)
  BY DEF Apply, ApplyRefused, Goto
<1>8. /\ next.op = call[w].op /\ next.pc = "apply" /\ next.chunk = call[w].chunk
      /\ next.todo = call[w].todo /\ next.selected = call[w].selected
  BY <1>1, CallRow DEF Call
<1> HIDE DEF next
<1>9. call'[w] = next
  BY <1>7, Continued
<1>10. Chosen(w)' \subseteq Chosen(w)
  BY <1>1, <1>8, <1>9, ChosenLater, ChosenLaterNext DEF At
<1>11. Goes(w)
  BY <1>1, <1>4, <1>5, <1>7, <1>8, <1>10, SilentGoes DEF Silent
<1> QED
  BY <1>1, <1>4, <1>5, <1>6, <1>7, <1>11, WorkerSpends

LEMMA EndCancelledSpends ==
    ASSUME SpendInv, ControlInv, TypeInv, TypeInv', NEW w \in Workers, NEW o \in Operations,
           EndCancelled(w, o)
    PROVE  SpendInv'
<1> USE DEF env, rows, outbox, spending, history
<1>1. UNCHANGED <<batch, transported, journal, unit, call>>
  BY DEF EndCancelled
<1>2. /\ \A p \in Operations : p # o => attempt'[p] = attempt[p]
      /\ \A u \in Units : attempt'[o][u] = IF attempt[o][u].state = "pending"
            THEN [attempt[o][u] EXCEPT !.state = "failed"] ELSE attempt[o][u]
  <2> DEFINE f == [u \in Units |-> IF attempt[o][u].state = "pending"
                      THEN [attempt[o][u] EXCEPT !.state = "failed"] ELSE attempt[o][u]]
  <2>1. attempt' = [attempt EXCEPT ![o] = f]
    BY DEF EndCancelled
  <2>2. \A u \in Units : f[u] = IF attempt[o][u].state = "pending"
            THEN [attempt[o][u] EXCEPT !.state = "failed"] ELSE attempt[o][u]
    OBVIOUS
  <2> HIDE DEF f
  <2> QED
    BY <2>1, <2>2, Typed
<1>3. ASSUME NEW p \in Operations, NEW u \in Units PROVE Kept(p, u)
  <2>1. attempt[o][u] \in AttemptRow
    BY Typed
  <2> DEFINE r == [attempt[o][u] EXCEPT !.state = "failed"]
  <2>2. r.text = attempt[o][u].text /\ r.source = attempt[o][u].source /\ r.state = "failed"
    BY <2>1 DEF AttemptRow
  <2>3. attempt'[o][u] = IF attempt[o][u].state = "pending" THEN r ELSE attempt[o][u]
    BY <1>2
  <2> HIDE DEF r
  <2> QED
    BY <1>2, <2>2, <2>3 DEF Kept
<1>4. \A p \in Operations :
        /\ operation'[p].owner = operation[p].owner /\ operation'[p].lease = operation[p].lease
        /\ operation'[p].state # "absent" => operation[p].state # "absent"
  <2> DEFINE r == [operation[o] EXCEPT !.state = "failed"]
  <2>1. operation \in [Operations -> OperationRow] /\ operation[o] \in OperationRow
    BY Typed
  <2>2. r.owner = operation[o].owner /\ r.lease = operation[o].lease
    BY <2>1 DEF OperationRow
  <2>3. operation' = [operation EXCEPT ![o] = r]
    BY DEF EndCancelled
  <2>4. operation[o].state # "absent"
    <3>1. broker[o] # 0
      BY Typed DEF EndCancelled, Receive
    <3> QED
      BY <3>1 DEF ControlInv, AbsentIsUntouched, Untouched
  <2> HIDE DEF r
  <2> QED
    BY <2>1, <2>2, <2>3, <2>4
<1>5. \A v \in Units : unit[v].source \in Nat
  <2>1. \A v \in Units : unit[v] \in UnitRow
    BY Typed
  <2> QED
    BY <2>1, Bounds DEF UnitRow, Edits
<1>6. Grows
  BY <1>1, <1>5 DEF Grows
<1>7. None \notin Workers
  BY MTAssumption
<1>8. ASSUME NEW v \in Workers, ~At(v, "idle"), Owned(v)' PROVE Owned(v)
  <2>1. call[v].op \in Operations
    BY <1>8, CallRow
  <2> QED
    BY <1>1, <1>4, <1>8, <2>1 DEF Owned
<1>10. ASSUME NEW v \in Workers, ~At(v, "idle") PROVE Quiet(v)
  <2>1. call[v].op \in Operations
    BY <1>10, CallRow
  <2> QED
    BY <1>2, <2>1 DEF Quiet
<1>9. Alone(None)
  BY <1>1, <1>7, <1>8, <1>10 DEF Alone
<1> QED
  BY <1>1, <1>3, <1>4, <1>6, <1>9, SpendKept

LEMMA ChunkSpends ==
    ASSUME SpendInv, ControlInv, TypeInv, TypeInv', NEW w \in Workers, NEW units \in SUBSET Units,
           RequestChunk(w, units)
    PROVE  SpendInv'
<1> USE DEF env, rows, outbox, spending, history
<1>1. /\ At(w, "requesting") /\ ~At(w, "idle") /\ Owned(w) /\ units \subseteq call[w].selected
      /\ UNCHANGED <<batch, transported, operation, unit, journal>>
  BY DEF RequestChunk, ChunkOf, At, ControlInv, LockIsOwned, Locking, Locked, Writing, Held
<1>2. PICK o \in Operations : o = call[w].op
  BY <1>1, CallRow
<1>3. call[w] \in Call /\ CallSpend(w)
  BY <1>1, Typed DEF SpendInv, CallsSpend
<1> DEFINE requesting == {u \in units : Requested(w, u) = "requesting"}
           rest == call[w].selected \ units
           p == IF requesting = {} THEN "chunk" ELSE "dispatch"
           next == [call[w] EXCEPT !.selected = rest, !.chunk = requesting,
                                   !.todo = requesting, !.answers = NoAnswers, !.pc = p]
           new == [u \in Units |-> IF u \in units
                       THEN [attempt[o][u] EXCEPT !.state = Requested(w, u)] ELSE attempt[o][u]]
<1>4. Continue(w, next) /\ attempt' = [attempt EXCEPT ![o] = new]
  BY <1>2 DEF RequestChunk
<1>5. \A u \in Units : attempt[o][u] \in AttemptRow
  BY Typed
<1>6. ASSUME NEW u \in Units
      PROVE  /\ new[u].text = attempt[o][u].text /\ new[u].source = attempt[o][u].source
             /\ u \in units => new[u].state = Requested(w, u)
             /\ u \notin units => new[u] = attempt[o][u]
  <2> DEFINE r == [attempt[o][u] EXCEPT !.state = Requested(w, u)]
  <2>1. r.text = attempt[o][u].text /\ r.source = attempt[o][u].source
        /\ r.state = Requested(w, u)
    BY <1>5 DEF AttemptRow
  <2>2. new[u] = IF u \in units THEN r ELSE attempt[o][u]
    OBVIOUS
  <2> HIDE DEF r, new
  <2> QED
    BY <2>1, <2>2
<1>7. /\ \A u \in units : Requested(w, u) \in {"skipped_nonempty", "stale", "requesting", "failed"}
      /\ \A u \in units : Requested(w, u) = "requesting" => Current(attempt[o][u], u)
      /\ requesting \subseteq units
      /\ \A u \in requesting : Requested(w, u) = "requesting"
  BY <1>2 DEF Requested, Closed, Obsolete
<1>8. \/ p = "chunk" /\ requesting = {}
      \/ p = "dispatch"
  OBVIOUS
<1> HIDE DEF requesting, p, new
<1>9. /\ next.op = o /\ next.pc = p /\ next.chunk = requesting /\ next.todo = requesting
      /\ next.selected = rest
  BY <1>2, <1>3 DEF Call
<1> HIDE DEF next
<1>10. call'[w] = next
  BY <1>4, Continued
<1>11. attempt'[o] = new /\ \A q \in Operations : q # o => attempt'[q] = attempt[q]
  BY <1>4, Typed
<1>18. Chosen(w) = call[w].selected /\ Chosen(w)' = rest
  BY <1>1, <1>8, <1>9, <1>10, ChosenLater, ChosenLaterNext DEF At
<1>12. \A u \in call[w].selected :
          /\ u \in Units /\ u \notin Asked(w) /\ Unspent(o, u)
          /\ attempt[o][u].state \notin {"absent", "released"}
  BY <1>1, <1>2, <1>3, <1>18 DEF CallSpend, Selects, Known, Call
<1>13. ASSUME NEW q \in Operations, NEW u \in Units PROVE Kept(q, u)
  <2>1. CASE q = o /\ u \in units
    <3>1. attempt'[o][u].state \in {"skipped_nonempty", "stale", "requesting", "failed"}
      BY <1>6, <1>7, <1>11, <2>1
    <3>2. attempt[o][u].state \notin {"absent", "released"}
      BY <1>1, <1>12, <2>1
    <3> QED
      BY <1>6, <1>11, <2>1, <3>1, <3>2 DEF Kept
  <2>2. CASE q = o /\ u \notin units
    BY <1>6, <1>11, <2>2 DEF Kept
  <2>3. CASE q # o
    BY <1>11, <2>3 DEF Kept
  <2> QED
    BY <2>1, <2>2, <2>3
<1>14. Asked(w)' = requesting /\ Asked(w) = {}
  <2>1. Asked(w) = {}
    BY <1>1 DEF Asked, At, Sending
  <2>2. Asked(w)' = requesting
    BY <1>8, <1>9, <1>10 DEF Asked, At, Sending
  <2> QED
    BY <2>1, <2>2
<1>15. requesting \subseteq call[w].selected /\ rest \subseteq call[w].selected
       /\ rest \cap requesting = {}
  BY <1>1, <1>7
<1>16. CallSpend(w)'
  <2>1. ASSUME NEW u \in requesting \cup rest PROVE Known(w, u)'
    <3>1. u \in Units /\ attempt[o][u].state # "absent"
      BY <1>12, <1>15, <2>1
    <3>2. Kept(o, u)
      BY <1>13, <3>1
    <3> QED
      BY <1>9, <1>10, <3>1, <3>2 DEF Known, Kept
  <2>2. ASSUME NEW u \in requesting
        PROVE  attempt'[o][u].state = "requesting" /\ transported[o][u] = 0
    <3>1. u \in Units /\ u \in units /\ Requested(w, u) = "requesting" /\ Unspent(o, u)
      BY <1>7, <1>12, <1>15, <2>2
    <3>2. Current(attempt[o][u], u)
      BY <1>7, <3>1
    <3> QED
      BY <1>6, <1>11, <3>1, <3>2 DEF Current, Unspent
  <2>3. Sends(w)'
    BY <1>1, <1>9, <1>10, <2>2 DEF Sends
  <2>4. ASSUME NEW u \in rest PROVE Selects(w, u)'
    <3>1. u \in Units /\ Unspent(o, u) /\ attempt[o][u].state # "released" /\ u \notin requesting
          /\ u \notin units
      BY <1>12, <1>15, <2>4
    <3>2. attempt'[o][u] = attempt[o][u]
      BY <1>6, <1>11, <3>1
    <3> QED
      BY <1>1, <1>9, <1>10, <1>14, <3>1, <3>2 DEF Selects, Unspent
  <2>5. next.pc \notin {"claimed", "wait"}
    BY <1>8, <1>9
  <2>6. \A u \in Asked(w)' : attempt'[o][u].state \notin {"pending", "released"}
    BY <1>14, <2>2
  <2> QED
    BY <1>9, <1>10, <1>18, <2>1, <2>3, <2>4, <2>5, <2>6 DEF CallSpend, At
<1>17. Goes(w)
  BY <1>1, <1>2, <1>9, <1>10, <1>14, <1>15, <1>16, <1>18 DEF Goes
<1> QED
  <2>1. \A q \in Operations : q # call[w].op => attempt'[q] = attempt[q]
    BY <1>2, <1>11
  <2> QED
    BY <1>1, <1>4, <1>13, <1>17, <2>1, WorkerSpends

(* An answer is stored, or the absence of one: back to "pending" only when  *)
(* the journal has no work of the unit.                                     *)
LEMMA StoreSpends ==
    ASSUME NoBlanks, SpendInv, TypeInv, TypeInv', NEW w \in Workers, NEW u \in Units,
           StoreAnswer(w, u)
    PROVE  SpendInv'
<1> USE DEF env, rows, outbox, spending, history
<1>1. /\ At(w, "store") /\ ~At(w, "idle") /\ Owned(w) /\ u \in call[w].todo
      /\ UNCHANGED <<batch, transported, operation, unit, journal>>
  BY DEF StoreAnswer, InTransaction, At
<1>2. PICK o \in Operations : o = call[w].op
  BY <1>1, CallRow
<1>3. call[w] \in Call /\ CallSpend(w) /\ attempt[o][u] \in AttemptRow /\ RowSpend(o, u)
  BY <1>1, Typed DEF SpendInv, CallsSpend, RowsSpend
<1>4. Asked(w) = call[w].todo /\ call[w].todo \subseteq Units
  BY <1>1, <1>3 DEF Asked, At, Sending, Call
<1> DEFINE left == call[w].todo \ {u}
           p == IF call[w].outcome = "answered" THEN "chunk" ELSE "apply"
           r == call[w].outcome = "refused"
           n1 == [call[w] EXCEPT !.todo = left]
           n2 == [call[w] EXCEPT !.todo = {}, !.chunk = {}, !.answers = NoAnswers,
                           !.pc = p, !.paused = r, !.outcome = "answered"]
<1>5. Continue(w, IF left # {} THEN n1 ELSE n2) /\ p \in {"chunk", "apply"}
  BY DEF StoreAnswer
<1> HIDE DEF p, r
<1>6. n1.op = o /\ n1.pc = "store" /\ n1.todo = left /\ n1.selected = call[w].selected
      /\ n1.chunk = call[w].chunk
  BY <1>1, <1>2, <1>3 DEF Call, At
<1>7. n2.op = o /\ n2.pc = p /\ n2.todo = {} /\ n2.selected = call[w].selected /\ n2.chunk = {}
  BY <1>2, <1>3 DEF Call
<1>8. PICK next : /\ Continue(w, next) /\ next.op = o /\ next.selected = call[w].selected
                  /\ next.chunk \subseteq call[w].chunk /\ next.todo \subseteq left
                  /\ next.pc \in {"store", "chunk", "apply"}
  BY <1>5, <1>6, <1>7
<1>9. call'[w] = next /\ \A v \in Workers \ {w} : call'[v] = call[v]
  BY <1>8, Continued
<1>10. PICK a : /\ attempt' = [attempt EXCEPT ![o][u] = a]
                /\ a.text = attempt[o][u].text /\ a.source = attempt[o][u].source
                /\ \/ a.state = "received" /\ a.answer # ""
                   \/ a.state = Unanswered(w, u)
  <2>1. PICK b : attempt' = [attempt EXCEPT ![o][u] =
             IF b \in Answers THEN [attempt[o][u] EXCEPT !.state = "received", !.answer = b]
             ELSE [attempt[o][u] EXCEPT !.state = Unanswered(w, u)]]
    BY <1>2 DEF StoreAnswer
  <2> DEFINE c == [attempt[o][u] EXCEPT !.state = "received", !.answer = b]
             d == [attempt[o][u] EXCEPT !.state = Unanswered(w, u)]
  <2>2. /\ c.text = attempt[o][u].text /\ c.source = attempt[o][u].source
        /\ c.state = "received" /\ c.answer = b
    BY <1>3 DEF AttemptRow
  <2>3. /\ d.text = attempt[o][u].text /\ d.source = attempt[o][u].source
        /\ d.state = Unanswered(w, u)
    BY <1>3 DEF AttemptRow
  <2>4. attempt' = [attempt EXCEPT ![o][u] = IF b \in Answers THEN c ELSE d]
    BY <2>1
  <2> HIDE DEF c, d
  <2>5. CASE b \in Answers
    <3>1. attempt' = [attempt EXCEPT ![o][u] = c] /\ b # ""
      BY <2>4, <2>5 DEF NoBlanks
    <3> QED
      BY <2>2, <3>1
  <2>6. CASE b \notin Answers
    <3>1. attempt' = [attempt EXCEPT ![o][u] = d]
      BY <2>4, <2>6
    <3> QED
      BY <2>3, <3>1
  <2> QED
    BY <2>5, <2>6
<1>11. /\ attempt'[o][u] = a
       /\ \A q \in Operations : \A v \in Units : q # o \/ v # u => attempt'[q][v] = attempt[q][v]
  BY <1>10, Typed
<1>12. /\ Unanswered(w, u) \in {"failed", "pending", "provider_unknown"}
       /\ Unanswered(w, u) = "pending" => journal[<<u, attempt[o][u].source, unit[u].source>>].stage = "free"
  BY <1>2 DEF Unanswered, Key
<1>13. attempt[o][u].state \notin {"absent", "pending", "released"}
  BY <1>1, <1>2, <1>3, <1>4 DEF CallSpend, Known
<1>14. \A v \in Units : unit[v].source \in Nat
  <2>1. \A v \in Units : unit[v] \in UnitRow
    BY Typed
  <2> QED
    BY <2>1, Bounds DEF UnitRow, Edits
<1>15. Grows
  BY <1>1, <1>14 DEF Grows
<1>16. ASSUME NEW q \in Operations, NEW v \in Units PROVE RowSpend(q, v)' /\ Stays(q, v)
  <2>1. CASE q = o /\ v = u
    <3>1. attempt'[q][v] = a /\ RowSpend(q, v)
      BY <1>3, <1>11, <2>1
    <3>2. a.state \in {"received", "failed", "pending", "provider_unknown"}
      BY <1>10, <1>12
    <3>3. Unspent(q, v)' <=> Unspent(q, v)
      BY <1>1, <1>10, <2>1, <3>1 DEF Unspent
    <3>4. a.state = "pending" => Unspent(q, v)
      BY <1>10, <1>12, <2>1, <3>1 DEF RowSpend, Unspent
    <3>5. RowSpend(q, v)'
      BY <1>1, <1>10, <1>12, <2>1, <3>1, <3>2, <3>3, <3>4 DEF RowSpend
    <3>6. Stays(q, v)
      BY <1>10, <1>13, <2>1, <3>1, <3>2 DEF Stays, Holds
    <3> QED
      BY <3>5, <3>6
  <2>2. CASE q # o \/ v # u
    <3>1. Kept(q, v) /\ RowSpend(q, v) /\ Stays(q, v)
      BY <1>11, <2>2 DEF Kept, SpendInv, RowsSpend, Stays, Holds
    <3> QED
      BY <1>1, <1>15, <3>1, RowKept
  <2> QED
    BY <2>1, <2>2
<1>17. ASSUME NEW v \in Workers \ {w}, ~At(v, "idle") PROVE CallSpend(v)'
  <2>1. call'[v] = call[v] /\ (Owned(v)' => Owned(v)) /\ CallSpend(v) /\ call[v] \in Call
    BY <1>1, <1>9, <1>17, Typed DEF Owned, SpendInv, CallsSpend
  <2>2. PICK q \in Operations : q = call[v].op
    BY <1>17, CallRow
  <2>3. Asked(v) \subseteq Units /\ Chosen(v) \subseteq Units
    BY <2>1, ChosenNamed DEF Asked, Call
  <2>4. q = o => u \notin Asked(v) /\ ~Owned(v)
    <3>1. CASE q = o
      <4>1. Apart(v, w)
        BY <1>1, <1>2, <1>17, <2>2, <3>1 DEF SpendInv, CallsApart
      <4>2. ~Owned(v)
        BY <1>1, <1>2, <2>2, <3>1, OneOwner
      <4> QED
        BY <1>1, <1>4, <4>1, <4>2 DEF Apart
    <3> QED
      BY <3>1
  <2>5. \A x \in Asked(v) : attempt'[q][x] = attempt[q][x]
    BY <1>11, <2>3, <2>4
  <2>6. Owned(v)' => \A x \in Units : attempt'[q][x] = attempt[q][x]
    BY <1>11, <2>1, <2>4
  <2>7. \A x \in Asked(v) : attempt'[q][x].state \notin {"pending", "released"}
    BY <2>1, <2>2, <2>5 DEF CallSpend
  <2>8. Owned(v)' => \A x \in Chosen(v) : attempt'[q][x].state # "released"
    BY <2>1, <2>2, <2>3, <2>6 DEF CallSpend, Selects
  <2>11. Owned(v)' => Chosen(v)' \subseteq Chosen(v)
    BY <2>1, <2>2, <2>6, ChosenStays DEF Quiet
  <2>9. \A x \in Units : attempt'[q][x].source = attempt[q][x].source
    BY <1>10, <1>11
  <2>10. ASSUME NEW x \in Units, Known(v, x) PROVE attempt'[q][x].state # "absent"
    BY <1>16, <2>2, <2>10 DEF Stays, Known
  <2> QED
    BY <1>1, <1>15, <1>17, <2>1, <2>2, <2>3, <2>7, <2>8, <2>9, <2>10, <2>11, CallKept DEF SpendInv
<1>21. Chosen(w) = call[w].selected /\ Chosen(w)' = call[w].selected
  BY <1>1, <1>8, <1>9, ChosenLater, ChosenLaterNext DEF At
<1>18. Asked(w)' \subseteq left
  BY <1>8, <1>9 DEF Asked, At, Sending
<1>19. CallSpend(w)'
  <2>1. ASSUME NEW x \in next.todo \cup next.selected \cup next.chunk PROVE Known(w, x)'
    <3>1. Known(w, x) /\ x \in Units
      BY <1>3, <1>8, <2>1 DEF CallSpend, Call
    <3>2. Stays(o, x)
      BY <1>16, <3>1
    <3> QED
      BY <1>2, <1>8, <1>9, <3>1, <3>2 DEF Known, Stays
  <2>2. ASSUME NEW x \in Asked(w)' PROVE attempt'[o][x].state \notin {"pending", "released"}
    <3>1. x \in Asked(w) /\ x # u /\ x \in Units
      BY <1>4, <1>18, <2>2
    <3> QED
      BY <1>2, <1>3, <1>11, <3>1 DEF CallSpend
  <2>3. ASSUME NEW x \in Chosen(w)' PROVE Selects(w, x)'
    <3>1. Selects(w, x) /\ x \notin Asked(w) /\ x \in Units
      BY <1>1, <1>3, <1>21, <2>3 DEF CallSpend, Selects, Call
    <3>2. x # u /\ x \notin Asked(w)'
      BY <1>1, <1>4, <1>18, <3>1
    <3>3. attempt'[o][x] = attempt[o][x]
      BY <1>11, <3>1, <3>2
    <3> QED
      BY <1>1, <1>2, <1>8, <1>9, <3>1, <3>2, <3>3 DEF Selects, Unspent
  <2>4. next.pc \notin Sending \cup {"claimed", "wait"}
    BY <1>8 DEF Sending
  <2> QED
    BY <1>8, <1>9, <2>1, <2>2, <2>3, <2>4 DEF CallSpend, At
<1>22. Goes(w)
  BY <1>1, <1>2, <1>4, <1>8, <1>9, <1>18, <1>19, <1>21 DEF Goes, Owned
<1>23. ASSUME NEW v \in Workers \ {w}, ~At(v, "idle"), Owned(v)' PROVE Owned(v) /\ Quiet(v)
  <2>1. Owned(v) /\ call[v].op \in Operations
    BY <1>1, <1>9, <1>23, CallRow DEF Owned
  <2>2. call[v].op # o
    BY <1>1, <1>2, <1>23, <2>1, OneOwner
  <2> QED
    BY <1>11, <2>1, <2>2 DEF Quiet
<1>20. Alone(w)
  BY <1>9, <1>22, <1>23 DEF Alone
<1> QED
  BY <1>1, <1>16, <1>17, <1>20, SpendFrame

LEMMA LeaseSpends ==
    ASSUME SpendInv, ControlInv, TypeInv, TypeInv', NEW w \in Workers, NEW o \in Operations,
           TakeLease(w, o)
    PROVE  SpendInv'
<1> USE DEF env, rows, outbox, spending, history
<1>1. At(w, "idle") /\ UNCHANGED <<batch, transported, unit, journal, attempt>>
  BY DEF TakeLease, Receive
<1>2. operation[o].state # "absent"
  <2>1. broker[o] # 0
    BY Typed DEF TakeLease, Receive
  <2> QED
    BY <2>1 DEF ControlInv, AbsentIsUntouched, Untouched
<1>3. /\ operation'[o].owner = w
      /\ \A p \in Operations : p # o => operation'[p] = operation[p]
  BY Typed DEF TakeLease
<1> DEFINE permitted == Permitted(o)
           paused == o \in Delegated /\ ~Permitted(o)
           next == [NoCall EXCEPT !.pc = "triage", !.op = o, !.todo = batch[o],
                                  !.permitted = permitted, !.paused = paused]
<1>4. Continue(w, next)
  BY DEF TakeLease
<1> HIDE DEF permitted, paused
<1>5. next.pc = "triage" /\ next.op = o /\ next.todo = batch[o] /\ next.selected = {} /\ next.chunk = {}
  BY DEF NoCall
<1> HIDE DEF next
<1>6. call'[w] = next /\ \A v \in Workers \ {w} : call'[v] = call[v]
  BY <1>4, Continued
<1>7. Asked(w)' = {}
  BY <1>5, <1>6 DEF Asked, At, Sending
<1>8. RowsSpend' /\ OneHolder'
  BY <1>1 DEF SpendInv, RowsSpend, RowSpend, Unspent, OneHolder, Holds
<1>9. AcceptedAll'
  BY <1>1, <1>2, <1>3 DEF SpendInv, AcceptedAll
<1>10. ASSUME NEW v \in Workers \ {w}, ~At(v, "idle")'
       PROVE  /\ ~At(v, "idle") /\ call'[v] = call[v] /\ (Owned(v)' => Owned(v))
              /\ call[v].op = o => ~Owned(v)'
              /\ Asked(v)' = Asked(v)
  <2>1. call'[v] = call[v] /\ ~At(v, "idle")
    BY <1>6, <1>10 DEF At
  <2>2. call[v].op \in Operations
    BY <2>1, CallRow
  <2>3. call[v].op = o => ~Owned(v)'
    BY <1>3, <2>1 DEF Owned
  <2>4. call[v].op # o => (Owned(v)' => Owned(v))
    BY <1>3, <2>1, <2>2 DEF Owned
  <2> QED
    BY <2>1, <2>3, <2>4 DEF Asked, At
<1>11. CallsSpend'
  <2> SUFFICES ASSUME NEW v \in Workers, ~At(v, "idle")' PROVE CallSpend(v)'
    BY DEF CallsSpend
  <2>1. CASE v = w
    <3>1. \A u \in batch[o] : Known(w, u)'
      BY <1>1, <1>2, <1>5, <1>6 DEF SpendInv, AcceptedAll, Known
    <3> QED
      BY <1>5, <1>6, <1>7, <2>1, <3>1 DEF CallSpend, Chosen, At, Sending
  <2>2. CASE v # w
    <3>1. v \in Workers \ {w}
      BY <2>2
    <3>2. CallSpend(v) /\ call'[v] = call[v] /\ (Owned(v)' => Owned(v)) /\ Asked(v)' = Asked(v)
      BY <1>10, <3>1 DEF SpendInv, CallsSpend
    <3> QED
      BY <1>1, <3>2 DEF CallSpend, Known, Sends, Groups, GroupUnits, Keyed, Chosen, Unclear,
         Selects, Unspent, At
  <2> QED
    BY <2>1, <2>2
<1>12. CallsApart'
  <2> SUFFICES ASSUME NEW v \in Workers, NEW x \in Workers, v # x, ~At(v, "idle")', ~At(x, "idle")',
                      call'[v].op = call'[x].op
               PROVE  Apart(v, x)'
    BY DEF CallsApart
  <2>1. CASE v = w
    <3>1. x \in Workers \ {w} /\ call[x].op = o
      BY <1>5, <1>6, <2>1
    <3>2. ~Owned(x)'
      BY <1>10, <3>1
    <3> QED
      BY <1>7, <2>1, <3>2 DEF Apart
  <2>2. CASE x = w
    BY <1>5, <1>6, <1>7, <2>2 DEF Apart, Chosen, At
  <2>3. CASE v # w /\ x # w
    <3>1. v \in Workers \ {w} /\ x \in Workers \ {w}
      BY <2>3
    <3>2. /\ Asked(v)' = Asked(v) /\ Asked(x)' = Asked(x) /\ call'[x] = call[x]
          /\ Owned(x)' => Owned(x)
      BY <1>10, <3>1
    <3>3. Apart(v, x)
      BY <1>10, <3>1 DEF SpendInv, CallsApart
    <3> QED
      BY <1>1, <3>2, <3>3 DEF Apart, Chosen, Unclear, At
  <2> QED
    BY <2>1, <2>2, <2>3
<1> QED
  BY <1>8, <1>9, <1>11, <1>12 DEF SpendInv

(* A revision is reserved that no other receipt holds and nobody sent.      *)
LEMMA AcceptSpends ==
    ASSUME SpendInv, ControlInv, TypeInv, TypeInv', NEW o \in Operations, Accept(o)
    PROVE  SpendInv'
<1> USE DEF env, rows, outbox, spending, history
<1>1. operation[o].state = "absent" /\ UNCHANGED <<batch, transported, unit, journal, call>>
  BY DEF Accept
<1>2. /\ \A u \in Units : attempt[o][u].state = "absent"
      /\ \A v \in Workers : call[v].op # o
  BY <1>1 DEF ControlInv, AbsentIsUntouched, Untouched
<1>3. /\ \A p \in Operations : p # o => attempt'[p] = attempt[p] /\ operation'[p] = operation[p]
      /\ \A u \in Units : u \notin batch[o] => attempt'[o][u] = attempt[o][u]
      /\ \A u \in Units : u \in batch[o] =>
            /\ attempt'[o][u].state = "pending" /\ attempt'[o][u].source = unit[u].source
            /\ attempt'[o][u].text = unit[u].text
  <2> DEFINE r(u) == [state |-> "pending", answer |-> "", text |-> unit[u].text,
                      audit |-> unit[u].audit, source |-> unit[u].source]
             f == [u \in Units |-> IF u \notin batch[o] THEN attempt[o][u] ELSE r(u)]
  <2>1. attempt' = [attempt EXCEPT ![o] = f]
    BY DEF Accept
  <2>2. \A u \in Units : r(u).state = "pending" /\ r(u).source = unit[u].source
                         /\ r(u).text = unit[u].text
    OBVIOUS
  <2>3. \A u \in Units : f[u] = IF u \notin batch[o] THEN attempt[o][u] ELSE r(u)
    OBVIOUS
  <2> HIDE DEF f, r
  <2>4. attempt'[o] = f /\ \A p \in Operations : p # o => attempt'[p] = attempt[p]
    BY <2>1, Typed
  <2>5. \A p \in Operations : p # o => operation'[p] = operation[p]
    BY Typed DEF Accept
  <2> QED
    BY <2>2, <2>3, <2>4, <2>5
<1>4. ASSUME NEW p \in Operations, NEW u \in Units PROVE RowSpend(p, u)'
  <2>1. RowSpend(p, u)
    BY DEF SpendInv, RowsSpend
  <2>2. CASE p = o /\ u \in batch[o]
    <3>1. transported'[p][u] = 0 /\ unit'[u].source \in Nat
      BY <1>1, <1>2, <2>1, <2>2, NextSources DEF RowSpend
    <3>2. attempt'[p][u].state = "pending" /\ attempt'[p][u].source = unit'[u].source
      BY <1>1, <1>3, <2>2
    <3>3. Unspent(p, u)'
      BY <3>1 DEF Unspent
    <3>4. transported'[p][u] <= 1 /\ attempt'[p][u].source <= unit'[u].source
      BY <3>1, <3>2
    <3> QED
      BY <3>1, <3>2, <3>3, <3>4 DEF RowSpend
  <2>3. CASE ~(p = o /\ u \in batch[o])
    <3>1. Kept(p, u) /\ transported'[p][u] = transported[p][u]
      BY <1>1, <1>3, <2>3 DEF Kept
    <3>2. \A v \in Units : unit[v].source \in Nat
      BY Numbers
    <3>3. Grows
      BY <1>1, <3>2 DEF Grows
    <3> QED
      BY <2>1, <3>1, <3>3, RowKept
  <2> QED
    BY <2>2, <2>3
<1>5. OneHolder'
  <2> SUFFICES ASSUME NEW p \in Operations, NEW q \in Operations, NEW u \in Units,
                      p # q, Holds(p, u)', Holds(q, u)'
               PROVE  attempt'[p][u].text # attempt'[q][u].text
    BY DEF OneHolder
  <2>1. ASSUME NEW x \in Operations, x # o, Holds(x, u)', Holds(o, u)'
        PROVE  attempt'[x][u].text # attempt'[o][u].text
    <3>1. u \in batch[o]
      BY <1>2, <1>3, <2>1 DEF Holds
    <3>2. Reservable(u)
      BY <3>1 DEF Accept
    <3> QED
      BY <1>3, <2>1, <3>1, <3>2 DEF Reservable, Holds
  <2>2. CASE p = o
    BY <2>1, <2>2
  <2>3. CASE q = o
    BY <2>1, <2>3
  <2>4. CASE p # o /\ q # o
    BY <1>3, <2>4 DEF SpendInv, OneHolder, Holds
  <2> QED
    BY <2>2, <2>3, <2>4
<1>6. AcceptedAll'
  <2> SUFFICES ASSUME NEW p \in Operations, operation'[p].state # "absent", NEW u \in batch[p]
               PROVE  attempt'[p][u].state # "absent"
    BY <1>1 DEF AcceptedAll
  <2>1. u \in Units
    BY BatchTyped
  <2> QED
    BY <1>3, <2>1 DEF SpendInv, AcceptedAll
<1>7. ASSUME NEW v \in Workers, ~At(v, "idle")
      PROVE  /\ attempt'[call[v].op] = attempt[call[v].op] /\ call'[v] = call[v]
             /\ Owned(v)' <=> Owned(v)
  <2>1. call[v].op \in Operations /\ call[v].op # o /\ call'[v] = call[v]
    BY <1>1, <1>2, <1>7, CallRow
  <2> QED
    BY <1>3, <2>1 DEF Owned
<1>8. CallsSpend'
  <2> SUFFICES ASSUME NEW v \in Workers, ~At(v, "idle")' PROVE CallSpend(v)'
    BY DEF CallsSpend
  <2>1. ~At(v, "idle") /\ CallSpend(v)
    BY <1>1 DEF At, SpendInv, CallsSpend
  <2>2. attempt'[call[v].op] = attempt[call[v].op] /\ call'[v] = call[v] /\ (Owned(v)' => Owned(v))
    BY <1>7, <2>1
  <2> QED
    BY <1>1, <2>1, <2>2
    DEF CallSpend, Asked, Known, Sends, Groups, GroupUnits, Keyed, Chosen, Unclear, Selects,
        Unspent, At
<1>9. CallsApart'
  <2> SUFFICES ASSUME NEW v \in Workers, NEW x \in Workers, v # x, ~At(v, "idle")', ~At(x, "idle")',
                      call'[v].op = call'[x].op
               PROVE  Apart(v, x)'
    BY DEF CallsApart
  <2>1. Apart(v, x) /\ ~At(x, "idle")
    BY <1>1 DEF At, SpendInv, CallsApart
  <2>2. (Owned(x)' <=> Owned(x)) /\ attempt'[call[x].op] = attempt[call[x].op]
    BY <1>7, <2>1
  <2> QED
    BY <1>1, <2>1, <2>2 DEF Apart, Asked, Chosen, Unclear, At
<1> QED
  BY <1>4, <1>5, <1>6, <1>8, <1>9 DEF SpendInv, RowsSpend

(* What reconciliation makes of an attempt.                                 *)
Outcome(o, u, a) ==
    /\ a.text = attempt[o][u].text /\ a.source = attempt[o][u].source
    /\ \/ a = attempt[o][u]
       \/ /\ attempt[o][u].state = "pending" /\ a.state = "released"
          /\ Current(attempt[o][u], u)
       \/ /\ attempt[o][u].state \in Unresolved \cup {"received"}
          /\ a.state \in {"received", "applied"}
          /\ a.state = "received" => a.answer # ""

LEMMA ReconciledRow ==
    ASSUME NoBlanks, TypeInv, NEW o \in Operations, NEW u \in Units, NEW b, NEW a,
           b = Recovered(o, u) \/ b = attempt[o][u], a = Reconciled(b, u) \/ a = b
    PROVE  Outcome(o, u, a)
<1> DEFINE c == attempt[o][u]
           y == journal[FreshKey(u)].reply
           z == [c EXCEPT !.state = "received", !.answer = y]
<1>1. c \in AttemptRow
  BY Typed
<1>2. b = c \/ (c.state \in Unresolved /\ y \in Answers /\ b = z)
  BY DEF Recovered
<1> HIDE DEF y, c
<1>3. /\ z.state = "received" /\ z.text = c.text /\ z.source = c.source /\ z.answer = y
      /\ y \in Answers => z \in AttemptRow
  BY <1>1, AttemptRows DEF AttemptRow
<1> HIDE DEF z
<1>4. /\ b \in AttemptRow /\ b.text = c.text /\ b.source = c.source
      /\ \/ b = c
         \/ c.state \in Unresolved /\ b.state = "received" /\ b.answer # ""
  BY <1>1, <1>2, <1>3 DEF NoBlanks
<1> DEFINE s == [b EXCEPT !.state = "released"]
           t == [b EXCEPT !.state = "applied"]
<1>5. /\ s.state = "released" /\ s.text = b.text /\ s.source = b.source
      /\ b.state = "released" => s = b
      /\ t.state = "applied" /\ t.text = b.text /\ t.source = b.source
  BY <1>4 DEF AttemptRow
<1>6. \/ a = b
      \/ ~Obsolete(b, u) /\ b.state \in {"pending", "released"} /\ a = s
      \/ b.state = "received" /\ a = t
  BY DEF Reconciled
<1> HIDE DEF s, t
<1>7. CASE a = b
  BY <1>4, <1>7 DEF c, Outcome
<1>8. CASE ~Obsolete(b, u) /\ b.state \in {"pending", "released"} /\ a = s
  <2>1. b = c
    BY <1>4, <1>8
  <2> QED
    BY <1>5, <1>8, <2>1 DEF c, Obsolete, Outcome
<1>9. CASE b.state = "received" /\ a = t
  <2>1. c.state \in Unresolved \cup {"received"}
    BY <1>4, <1>9
  <2> QED
    BY <1>4, <1>5, <1>9, <2>1 DEF c, Outcome
<1> QED
  BY <1>6, <1>7, <1>8, <1>9

LEMMA ReconcileSpends ==
    ASSUME NoBlanks, SpendInv, ControlInv, TypeInv, TypeInv', NEW o \in Operations,
           NEW renew \in BOOLEAN, NEW replay \in BOOLEAN, Reconcile(o, renew, replay)
    PROVE  SpendInv'
<1> USE DEF env, rows, outbox, spending, history
<1>1. UNCHANGED <<batch, transported, operation, journal, call>>
  BY DEF Reconcile
<1>2. /\ attempt' = attempt \/ ~Active(o)
      /\ \A p \in Operations : p # o => attempt'[p] = attempt[p]
      /\ \A u \in Units : unit'[u] = unit[u] \/ unit'[u] = Translated(unit[u])
  BY ReconcileSteps
<1>3. ASSUME NEW u \in Units PROVE Outcome(o, u, attempt'[o][u])
  <2>1. CASE attempt' = attempt
    BY <2>1 DEF Outcome
  <2>2. CASE attempt' # attempt
    <3> DEFINE found == [v \in Units |-> IF replay THEN Recovered(o, v) ELSE attempt[o][v]]
               after == [v \in Units |-> IF v \in batch[o] THEN Reconciled(found[v], v)
                                         ELSE found[v]]
               open == /\ (authorized[o] \/ renew) /\ writable
                       /\ ~Cancelled(o) /\ ~Active(o)
    <3>1. attempt' = IF open THEN [attempt EXCEPT ![o] = after] ELSE attempt
      BY DEF Reconcile
    <3>2. attempt' = [attempt EXCEPT ![o] = after]
      BY <2>2, <3>1
    <3>3. /\ found[u] = Recovered(o, u) \/ found[u] = attempt[o][u]
          /\ after[u] = Reconciled(found[u], u) \/ after[u] = found[u]
      OBVIOUS
    <3> HIDE DEF found, after
    <3>4. attempt'[o][u] = after[u]
      BY <3>2, Typed
    <3>5. PICK b, a : /\ a = after[u]
                      /\ b = Recovered(o, u) \/ b = attempt[o][u]
                      /\ a = Reconciled(b, u) \/ a = b
      BY <3>3
    <3>6. Outcome(o, u, a)
      BY <3>5, ReconciledRow
    <3> QED
      BY <3>4, <3>5, <3>6
  <2> QED
    BY <2>1, <2>2
<1>4. \A u \in Units : unit'[u].source = unit[u].source /\ unit[u].source \in Nat
  <2> SUFFICES ASSUME NEW u \in Units
               PROVE  unit'[u].source = unit[u].source /\ unit[u].source \in Nat
    OBVIOUS
  <2>1. unit[u] \in UnitRow
    BY Typed
  <2> QED
    BY <1>2, <2>1, TranslatedRow, Numbers
<1>5. Grows
  BY <1>1, <1>4 DEF Grows
<1>6. ASSUME NEW p \in Operations, NEW u \in Units
      PROVE  \/ Kept(p, u)
             \/ /\ p = o /\ attempt[o][u].state = "pending" /\ attempt'[o][u].state = "released"
                /\ Current(attempt[o][u], u)
  <2>1. CASE p # o
    BY <1>2, <2>1 DEF Kept
  <2>2. CASE p = o
    BY <1>3, <2>2 DEF Kept, Outcome, Unresolved
  <2> QED
    BY <2>1, <2>2
<1>7. ASSUME NEW p \in Operations, NEW u \in Units PROVE RowSpend(p, u)' /\ Stays(p, u)
  <2>1. RowSpend(p, u) /\ transported'[p][u] = transported[p][u]
    BY <1>1 DEF SpendInv, RowsSpend
  <2>2. CASE Kept(p, u)
    <3>1. RowSpend(p, u)'
      BY <1>5, <2>1, <2>2, RowKept
    <3> QED
      BY <2>2, <3>1 DEF Stays, Kept, Holds
  <2>3. CASE p = o /\ attempt[o][u].state = "pending" /\ attempt'[o][u].state = "released"
             /\ Current(attempt[o][u], u)
    <3>1. transported[p][u] = 0
      BY <2>1, <2>3 DEF RowSpend, Unspent, Current
    <3>2. transported'[p][u] <= 1 /\ transported'[p][u] = 0
      BY <2>1, <3>1
    <3>3. /\ attempt'[p][u].text = attempt[p][u].text
          /\ attempt'[p][u].source = attempt[p][u].source
          /\ attempt'[p][u].source <= unit'[u].source
      BY <1>3, <1>4, <2>1, <2>3 DEF RowSpend, Outcome
    <3>4. Unspent(p, u)'
      BY <3>2 DEF Unspent
    <3>5. RowSpend(p, u)'
      BY <2>3, <3>2, <3>3, <3>4 DEF RowSpend
    <3> QED
      BY <2>3, <3>3, <3>5 DEF Stays, Holds
  <2> QED
    BY <1>6, <2>2, <2>3
<1>8. ASSUME NEW v \in Workers, ~At(v, "idle") PROVE CallSpend(v)'
  <2>1. call'[v] = call[v] /\ (Owned(v)' => Owned(v)) /\ CallSpend(v) /\ call[v] \in Call
    BY <1>1, <1>8, Typed DEF Owned, SpendInv, CallsSpend
  <2>2. PICK p \in Operations : p = call[v].op
    BY <1>8, CallRow
  <2>3. Asked(v) \subseteq Units /\ Chosen(v) \subseteq Units
    BY <2>1, ChosenNamed DEF Asked, Call
  <2>4. ASSUME NEW u \in Asked(v)
        PROVE  attempt'[p][u].state \notin {"pending", "released"}
               /\ transported'[p][u] = transported[p][u]
    <3>1. attempt[p][u].state \notin {"pending", "released"} /\ u \in Units
      BY <2>1, <2>2, <2>3, <2>4 DEF CallSpend
    <3>2. Kept(p, u)
      BY <1>6, <3>1
    <3> QED
      BY <1>1, <3>1, <3>2 DEF Kept
  <2>5. Owned(v)' => attempt' = attempt \/ p # o
    BY <1>2, <2>1, <2>2 DEF Owned, Active
  <2>9. Owned(v)' => Chosen(v)' \subseteq Chosen(v)
    BY <1>2, <2>1, <2>2, <2>5, ChosenStays DEF Quiet
  <2>6. ASSUME Owned(v)', NEW u \in Chosen(v)
        PROVE  attempt'[p][u].state # "released" /\ transported'[p][u] = transported[p][u]
    <3>1. attempt[p][u].state # "released" /\ u \in Units
      BY <2>1, <2>2, <2>3, <2>6 DEF CallSpend, Selects
    <3>2. attempt'[p][u] = attempt[p][u]
      BY <1>2, <2>5, <2>6
    <3> QED
      BY <1>1, <3>1, <3>2
  <2>7. \A u \in Units : attempt'[p][u].source = attempt[p][u].source
    BY <1>2, <1>3 DEF Outcome
  <2>8. ASSUME NEW u \in Units, Known(v, u) PROVE attempt'[p][u].state # "absent"
    BY <1>7, <2>2, <2>8 DEF Stays, Known
  <2> QED
    BY <1>5, <1>8, <2>1, <2>2, <2>4, <2>6, <2>7, <2>8, <2>9, CallKept DEF SpendInv
<1>10. ASSUME NEW v \in Workers, ~At(v, "idle"), Owned(v)' PROVE Owned(v) /\ Quiet(v)
  <2>1. Owned(v) /\ call[v].op \in Operations
    BY <1>1, <1>10, CallRow DEF Owned
  <2>2. attempt' = attempt \/ call[v].op # o
    BY <1>2, <2>1 DEF Owned, Active
  <2> QED
    BY <1>2, <2>1, <2>2 DEF Quiet
<1>9. None \notin Workers /\ Alone(None)
  BY <1>1, <1>10, MTAssumption DEF Alone
<1> QED
  BY <1>1, <1>7, <1>8, <1>9, SpendFrame

-----------------------------------------------------------------------------
LEMMA SpendStep ==
    ASSUME NoBlanks, ControlInv, SpendInv, [Next]_vars
    PROVE  SpendInv'
<1>1. TypeInv /\ TypeInv'
  BY ControlTyped, TypeStep
<1>2. CASE UNCHANGED vars
  BY <1>1, <1>2, EditsSpend
<1>3. ASSUME NEW w \in Workers, Step(w) \/ Crash(w) PROVE SpendInv'
  <2>1. CASE Take(w)
    <3>1. PICK o \in Operations : DropMessage(w, o) \/ EndCancelled(w, o) \/ TakeLease(w, o)
      BY <2>1 DEF Take
    <3> QED
      BY <1>1, <3>1, LeavesSpend, EndCancelledSpends, LeaseSpends
  <2>2. CASE Triage(w)
    <3>1. PICK u \in Units : \/ TriageKeeps(w, u) \/ TriageCloses(w, u) \/ TriageSelects(w, u)
                             \/ LookupFinds(w, u) \/ LookupMisses(w, u)
      BY <2>2 DEF Triage
    <3> QED
      BY <1>1, <3>1, TriageSpends
  <2>3. CASE Ask(w)
    <3>1. CASE AllReceived(w) \/ ChunkStops(w) \/ ChunkReads(w)
      BY <1>1, <3>1, SilentSteps
    <3>2. CASE \/ GuardRefuses(w) \/ CallRaises(w)
               \/ \E units \in SUBSET Units : ReplaySaved(w, units)
               \/ \E reply \in [GroupUnits(w) -> Answers \cup {"missing"}] : Reply(w, reply)
      BY <1>1, <3>2, RepliesSpend
    <3>3. CASE Transport(w)
      BY <1>1, <3>3, TransportSpends
    <3>4. CASE \E units \in SUBSET Units : RequestChunk(w, units) \/ Claim(w, units)
      BY <1>1, <3>4, ChunkSpends, ClaimSpends
    <3>5. CASE \E u \in Units : StoreAnswer(w, u)
      BY <1>1, <3>5, StoreSpends
    <3> QED
      BY <2>3, <3>1, <3>2, <3>3, <3>4, <3>5 DEF Ask
  <2>4. CASE Finish(w)
    <3>1. CASE ApplyStops(w) \/ ApplyReads(w) \/ AllApplied(w) \/ FinishReads(w)
      BY <1>1, <3>1, SilentSteps
    <3>2. CASE FinishWrites(w)
      BY <1>1, <3>2, LeavesSpend
    <3>3. CASE \E u \in Units : Apply(w, u) \/ ApplyRefused(w, u)
      BY <1>1, <3>3, AppliesSpend
    <3> QED
      BY <2>4, <3>1, <3>2, <3>3 DEF Finish
  <2>5. CASE OwnershipLost(w) \/ Crash(w)
    BY <1>1, <2>5, LeavesSpend
  <2> QED
    BY <1>3, <2>1, <2>2, <2>3, <2>4, <2>5 DEF Step
<1>4. ASSUME NEW o \in Operations,
             \/ Accept(o) \/ RetryDispatch(o) \/ CancelReads(o) \/ CancelSaves(o)
             \/ Publish(o) \/ BrokerFails(o) \/ PublisherDies(o) \/ Drain(o)
             \/ LeaseExpires(o) \/ RightsChange(o)
             \/ \E renew, replay \in BOOLEAN : Reconcile(o, renew, replay)
      PROVE  SpendInv'
  BY <1>1, <1>4, AcceptSpends, RequestsSpend, ReconcileSpends
<1>5. CASE (\E u \in Units : HumanEdits(u) \/ SourceChanges(u)) \/ ComponentLockToggles
  BY <1>1, <1>5, EditsSpend
<1> QED
  BY <1>2, <1>3, <1>4, <1>5 DEF Next

LEMMA Spending == ASSUME NoBlanks PROVE Spec => [](ControlInv /\ SpendInv)
<1>1. Init => SpendInv
  BY SpendInit
<1>2. ControlInv /\ SpendInv /\ [Next]_vars => SpendInv'
  BY SpendStep
<1> QED
  BY <1>1, <1>2, Control, PTL DEF Spec

(* A unit revision is sent to the provider once, whatever is redelivered,   *)
(* recovered, released, reconciled or submitted again under another key, by *)
(* however many workers at once (dispatch_exchange, _receive_pending,       *)
(* reserve_mt_batch) - provided that no provider answers with a blank: such *)
(* an answer is stored and counts as none (run mt_blank).                   *)
THEOREM PaidOnce == ASSUME NoBlanks PROVE Spec => []PaidOncePerRevision
<1>1. ControlInv /\ SpendInv => PaidOncePerRevision
  <2> SUFFICES ASSUME ControlInv, SpendInv, NEW u \in Units, NEW o \in Operations,
                      NEW p \in Operations
               PROVE  /\ transported[o][u] <= 1
                      /\ o # p /\ transported[o][u] + transported[p][u] > 1 =>
                            attempt[o][u].text # attempt[p][u].text
    BY DEF PaidOncePerRevision
  <2>1. RowSpend(o, u) /\ RowSpend(p, u)
    BY DEF SpendInv, RowsSpend
  <2>2. transported[o][u] \in Nat /\ transported[p][u] \in Nat
    BY ControlTyped, Numbers
  <2>3. transported[o][u] + transported[p][u] > 1 => transported[o][u] # 0 /\ transported[p][u] # 0
    <3>1. transported[o][u] <= 1 /\ transported[p][u] <= 1
      BY <2>1 DEF RowSpend
    <3> QED
      BY <2>2, <3>1
  <2>4. transported[o][u] + transported[p][u] > 1 => Holds(o, u) /\ Holds(p, u)
    BY <2>1, <2>3 DEF RowSpend, Holds
  <2>5. transported[o][u] <= 1
    BY <2>1 DEF RowSpend
  <2>6. Holds(o, u) /\ Holds(p, u) /\ o # p => attempt[o][u].text # attempt[p][u].text
    BY DEF SpendInv, OneHolder
  <2> QED
    BY <2>4, <2>5, <2>6
<1> QED
  BY <1>1, Spending, PTL

(* What was released, and what reconciliation could release now, was never  *)
(* sent (reconcile_mt_operation), under the same proviso.                   *)
THEOREM UnsentWasNotSent == ASSUME NoBlanks PROVE Spec => []UnsentIsProvable
<1>1. SpendInv => UnsentIsProvable
  BY DEF SpendInv, RowsSpend, RowSpend, Unspent, UnsentIsProvable, Current
<1> QED
  BY <1>1, Spending, PTL

-----------------------------------------------------------------------------
(* The batches use the journal as SpendOnce allows.  Nothing is answered    *)
(* before it was committed, and the group of a call that waits for a reply  *)
(* is committed.                                                            *)
JournalInv ==
    /\ \A k \in Keys : journal[k].stage # "committed" => journal[k].reply = None
    /\ \A w \in Workers : At(w, "wait") =>
           \A k \in call[w].group : journal[k].stage = "committed"

LEMMA JournalStarts ==
    ASSUME Init
    PROVE  \A k \in Keys : journal[k].stage = "free" /\ journal[k].reply = None
<1>1. journal = [k \in Keys |-> [stage |-> "free", members |-> {}, reply |-> None]]
  BY DEF Init
<1> QED
  BY <1>1

LEMMA JournalInit == Init => JournalInv
<1> SUFFICES ASSUME Init PROVE JournalInv
  OBVIOUS
<1>1. \A w \in Workers : ~At(w, "wait")
  <2>1. call = [w \in Workers |-> NoCall]
    BY DEF Init
  <2> QED
    BY <2>1, NoCallTyped DEF At
<1> QED
  BY <1>1, JournalStarts DEF JournalInv

(* Only Transport makes a call wait.                                        *)
LEMMA OnlyTransportWaits ==
    ASSUME TypeInv, [Next]_vars, NEW v \in Workers, At(v, "wait")', ~Transport(v)
    PROVE  call'[v] = call[v]
<1>1. Enters(v)
  BY OnlyReadsEnter
<1>2. ~ChunkReads(v) /\ ~ApplyReads(v)
  BY ReadsStay DEF Writing, At
<1> QED
  BY <1>1, <1>2 DEF Enters, Marked, At

(* Who writes the journal.                                                  *)
LEMMA JournalWriters ==
    ASSUME [Next]_vars
    PROVE  \/ UNCHANGED journal
           \/ \E w \in Workers :
                 \/ Transport(w) \/ CallRaises(w)
                 \/ \E units \in SUBSET Units : Claim(w, units)
                 \/ \E reply \in [GroupUnits(w) -> Answers \cup {"missing"}] : Reply(w, reply)
<1> USE DEF spending
<1>1. ASSUME NEW w \in Workers,
             \/ OwnershipLost(w) \/ Crash(w) \/ AllReceived(w) \/ ChunkStops(w)
             \/ ChunkReads(w) \/ ApplyReads(w)
             \/ GuardRefuses(w) \/ ApplyStops(w) \/ AllApplied(w) \/ FinishReads(w)
             \/ FinishWrites(w)
             \/ \E u \in Units : \/ TriageKeeps(w, u) \/ TriageCloses(w, u)
                                 \/ TriageSelects(w, u) \/ LookupFinds(w, u) \/ LookupMisses(w, u)
                                 \/ StoreAnswer(w, u) \/ Apply(w, u) \/ ApplyRefused(w, u)
             \/ \E units \in SUBSET Units : RequestChunk(w, units) \/ ReplaySaved(w, units)
             \/ \E o \in Operations : DropMessage(w, o) \/ EndCancelled(w, o) \/ TakeLease(w, o)
      PROVE  UNCHANGED journal
  BY <1>1 DEF OwnershipLost, Crash, AllReceived, ChunkStops, ChunkReads, ApplyReads, GuardRefuses,
     ApplyStops,
     AllApplied, FinishReads, FinishWrites, TriageKeeps, TriageCloses, TriageSelects,
     LookupFinds, LookupMisses, StoreAnswer, Apply, ApplyRefused, RequestChunk, ReplaySaved,
     DropMessage, EndCancelled, TakeLease
<1>2. ASSUME NEW o \in Operations,
             \/ Accept(o) \/ RetryDispatch(o) \/ CancelReads(o) \/ CancelSaves(o)
             \/ Publish(o) \/ BrokerFails(o) \/ PublisherDies(o) \/ Drain(o)
             \/ LeaseExpires(o) \/ RightsChange(o)
             \/ \E renew, replay \in BOOLEAN : Reconcile(o, renew, replay)
      PROVE  UNCHANGED journal
  BY <1>2 DEF Accept, RetryDispatch, CancelReads, CancelSaves, Publish, PublishBegins,
     BrokerAccepts, MarkPublished, CountFailure, BrokerFails, PublisherDies, Drain,
     RecoverExpired, Reoffer, LeaseExpires, RightsChange, Reconcile
<1>3. ASSUME NEW u \in Units, HumanEdits(u) \/ SourceChanges(u) PROVE UNCHANGED journal
  BY <1>3 DEF HumanEdits, SourceChanges, Edited
<1>4. ComponentLockToggles => UNCHANGED journal
  BY DEF ComponentLockToggles
<1>5. ASSUME NEW w \in Workers, Step(w) \/ Crash(w)
      PROVE  \/ UNCHANGED journal
             \/ Transport(w) \/ CallRaises(w)
             \/ \E units \in SUBSET Units : Claim(w, units)
             \/ \E reply \in [GroupUnits(w) -> Answers \cup {"missing"}] : Reply(w, reply)
  BY <1>1, <1>5 DEF Step, Take, Triage, Ask, Finish
<1> QED
  BY <1>2, <1>3, <1>4, <1>5 DEF Next, vars

(* What each of them writes.                                                *)
Claims(keys) ==
    \A k \in Keys :
        IF k \in keys THEN /\ journal[k].stage # "committed"
                              /\ journal'[k].stage = "claimed" /\ journal'[k].reply = None
        ELSE journal'[k] = journal[k]

Commits(keys) ==
    \A k \in Keys :
        IF k \in keys THEN /\ journal[k].stage = "claimed" /\ journal'[k].stage = "committed"
                              /\ journal'[k].reply = journal[k].reply
        ELSE journal'[k] = journal[k]

Replies(keys) ==
    \A k \in Keys :
        IF k \in keys THEN /\ journal[k].stage = "committed" /\ journal'[k].stage = "committed"
                              /\ journal'[k].reply # None
        ELSE journal'[k] = journal[k]

LEMMA ClaimClaims ==
    ASSUME NEW w \in Workers, NEW units, Claim(w, units)
    PROVE  Claims(KeysOf(w, units))
BY DEF Claim, MayClaim, Claims

LEMMA TransportCommits ==
    ASSUME TypeInv, NEW w \in Workers, Transport(w)
    PROVE  Commits(call[w].group)
<1> SUFFICES ASSUME NEW k \in Keys, k \in call[w].group
             PROVE  /\ journal'[k].stage = "committed" /\ journal'[k].reply = journal[k].reply
  BY DEF Commits, Transport
<1>1. journal[k] \in JournalRow
  BY Typed
<1> DEFINE r == [journal[k] EXCEPT !.stage = "committed"]
<1>2. r.stage = "committed" /\ r.reply = journal[k].reply
  BY <1>1 DEF JournalRow
<1>3. journal'[k] = r
  BY DEF Transport
<1> HIDE DEF r
<1> QED
  BY <1>2, <1>3

LEMMA AnswersReply ==
    ASSUME TypeInv, JournalInv, NEW w \in Workers, At(w, "wait"),
           NEW reply \in [GroupUnits(w) -> Answers \cup {"missing", "unusable"}],
           SaveReplies(w, reply)
    PROVE  Replies(call[w].group)
<1> SUFFICES ASSUME NEW k \in Keys
             PROVE  IF k \in call[w].group
                    THEN /\ journal[k].stage = "committed" /\ journal'[k].stage = "committed"
                         /\ journal'[k].reply # None
                    ELSE journal'[k] = journal[k]
  BY DEF Replies
<1>1. CASE k \notin call[w].group
  BY <1>1 DEF SaveReplies
<1>2. CASE k \in call[w].group
  <2>1. journal[k].stage = "committed"
    BY <1>2 DEF JournalInv
  <2>2. reply[k[1]] # None
    <3>1. k[1] \in GroupUnits(w)
      BY <1>2 DEF GroupUnits
    <3> QED
      BY <3>1, MTAssumption
  <2>3. journal[k] \in JournalRow
    BY Typed
  <2> DEFINE r == [journal[k] EXCEPT !.reply = reply[k[1]]]
  <2>4. r.stage = journal[k].stage /\ r.reply = reply[k[1]]
    BY <2>3 DEF JournalRow
  <2>5. journal'[k] = r
    BY <1>2 DEF SaveReplies
  <2> HIDE DEF r
  <2> QED
    BY <1>2, <2>1, <2>2, <2>4, <2>5
<1> QED
  BY <1>1, <1>2

LEMMA JournalSteps ==
    ASSUME TypeInv, JournalInv, [Next]_vars
    PROVE  \/ UNCHANGED journal
           \/ \E keys \in SUBSET Keys : Claims(keys) \/ Commits(keys) \/ Replies(keys)
<1>1. \A w \in Workers : call[w].group \in SUBSET Keys
  <2>1. \A w \in Workers : call[w] \in Call
    BY Typed
  <2> QED
    BY <2>1 DEF Call
<1>2. ASSUME NEW w \in Workers, NEW units \in SUBSET Units, Claim(w, units)
      PROVE  \E keys \in SUBSET Keys : Claims(keys)
  <2>1. ~At(w, "idle")
    BY <1>2 DEF Claim, Dispatches, At
  <2> QED
    BY <1>2, <2>1, KeysTyped, ClaimClaims
<1>3. ASSUME NEW w \in Workers, Transport(w)
      PROVE  \E keys \in SUBSET Keys : Commits(keys)
  BY <1>1, <1>3, TransportCommits
<1>4. ASSUME NEW w \in Workers, CallRaises(w)
      PROVE  \/ UNCHANGED journal
             \/ \E keys \in SUBSET Keys : Replies(keys)
  <2>1. CASE At(w, "wait") /\ SaveReplies(w, [u \in GroupUnits(w) |-> "unusable"])
    <3> DEFINE reply == [u \in GroupUnits(w) |-> "unusable"]
    <3>1. reply \in [GroupUnits(w) -> Answers \cup {"missing", "unusable"}]
      OBVIOUS
    <3>2. SaveReplies(w, reply)
      BY <2>1
    <3> HIDE DEF reply
    <3> QED
      BY <1>1, <2>1, <3>1, <3>2, AnswersReply
  <2> QED
    BY <1>4, <2>1 DEF CallRaises
<1>5. ASSUME NEW w \in Workers, NEW reply \in [GroupUnits(w) -> Answers \cup {"missing"}],
             Reply(w, reply)
      PROVE  \E keys \in SUBSET Keys : Replies(keys)
  <2>1. At(w, "wait") /\ SaveReplies(w, reply)
    BY <1>5 DEF Reply
  <2>2. reply \in [GroupUnits(w) -> Answers \cup {"missing", "unusable"}]
    OBVIOUS
  <2> QED
    BY <1>1, <2>1, <2>2, AnswersReply
<1> QED
  BY <1>2, <1>3, <1>4, <1>5, JournalWriters

LEMMA JournalStep ==
    ASSUME TypeInv, JournalInv, [Next]_vars
    PROVE  JournalInv'
<1>1. \A w \in Workers : call[w].group \in SUBSET Keys
  <2>1. \A w \in Workers : call[w] \in Call
    BY Typed
  <2> QED
    BY <2>1 DEF Call
<1>2. /\ \A k \in Keys : journal[k].stage = "committed" => journal'[k].stage = "committed"
      /\ \A k \in Keys : journal'[k].stage # "committed" => journal'[k].reply = None
  <2> SUFFICES ASSUME NEW k \in Keys
               PROVE  /\ journal[k].stage = "committed" => journal'[k].stage = "committed"
                      /\ journal'[k].stage # "committed" => journal'[k].reply = None
    OBVIOUS
  <2>1. \/ journal'[k] = journal[k]
        \/ journal[k].stage # "committed" /\ journal'[k].reply = None
        \/ journal'[k].stage = "committed"
    BY JournalSteps DEF Claims, Commits, Replies
  <2> QED
    BY <2>1 DEF JournalInv
<1>3. CASE ~\E w \in Workers : Transport(w)
  <2>1. \A v \in Workers : At(v, "wait")' => At(v, "wait") /\ call'[v] = call[v]
    BY <1>3, OnlyTransportWaits DEF At
  <2> QED
    BY <1>1, <1>2, <2>1 DEF JournalInv, At
<1>4. ASSUME NEW w \in Workers, Transport(w) PROVE JournalInv'
  <2> DEFINE n == [call[w] EXCEPT !.pc = "wait"]
  <2>1. n.group = call[w].group
    <3>1. call[w] \in Call
      BY Typed
    <3> QED
      BY <3>1 DEF Call
  <2>2. Continue(w, n)
    BY <1>4 DEF Transport, Goto
  <2> HIDE DEF n
  <2>3. call'[w].group = call[w].group /\ \A v \in Workers \ {w} : call'[v] = call[v]
    BY <2>1, <2>2, Continued
  <2>4. \A k \in call[w].group : journal'[k].stage = "committed"
    BY <1>1, <1>4, TransportCommits DEF Commits
  <2> SUFFICES ASSUME NEW v \in Workers, At(v, "wait")', NEW k \in call'[v].group
               PROVE  journal'[k].stage = "committed"
    BY <1>2 DEF JournalInv
  <2>5. CASE v = w
    BY <2>3, <2>4, <2>5
  <2>6. CASE v # w
    BY <1>1, <1>2, <2>3, <2>6 DEF JournalInv, At
  <2> QED
    BY <2>5, <2>6
<1> QED
  BY <1>3, <1>4

(* A key's stage and answer, as SpendOnce sees them.                        *)
AnswerOf(k) == IF journal[k].reply = None THEN None ELSE "body"

LEMMA JournalKeepsPromise ==
    ASSUME TypeInv, JournalInv, [Next]_vars
    PROVE  Journal!Next \/ UNCHANGED Journal!abstractVars
<1> USE DEF AnswerOf
<1>1. CASE UNCHANGED journal
  BY <1>1 DEF Journal!abstractVars
<1>2. ASSUME NEW keys \in SUBSET Keys, Claims(keys) PROVE Journal!Next
  <2>1. PICK free \in SUBSET Keys :
            free = {k \in keys : journal[k].stage = "free"}
    OBVIOUS
  <2>2. \A k \in Keys : journal[k].stage \in {"free", "claimed", "committed"}
    <3>1. \A k \in Keys : journal[k] \in JournalRow
      BY Typed
    <3> QED
      BY <3>1 DEF JournalRow
  <2>3. ASSUME NEW k \in Keys
        PROVE  /\ k \in free => journal[k].stage = "free"
               /\ journal'[k].stage = IF k \in free THEN "claimed" ELSE journal[k].stage
               /\ AnswerOf(k)' = AnswerOf(k)
    BY <1>2, <2>1, <2>2 DEF Claims, JournalInv
  <2>4. Journal!Claim(free)
    BY <2>3 DEF Journal!Claim, Journal!Are
  <2> QED
    BY <2>4 DEF Journal!Next
<1>3. ASSUME NEW keys \in SUBSET Keys, Commits(keys) PROVE Journal!Next
  <2>1. ASSUME NEW k \in Keys
        PROVE  /\ k \in keys => journal[k].stage = "claimed"
               /\ journal'[k].stage = IF k \in keys THEN "committed" ELSE journal[k].stage
               /\ AnswerOf(k)' = AnswerOf(k)
    BY <1>3 DEF Commits
  <2>2. Journal!Commit(keys)
    BY <2>1 DEF Journal!Commit, Journal!Are
  <2> QED
    BY <2>2 DEF Journal!Next
<1>4. ASSUME NEW keys \in SUBSET Keys, Replies(keys) PROVE Journal!Next
  <2>1. PICK first \in SUBSET Keys : first = {k \in keys : journal[k].reply = None}
    OBVIOUS
  <2>2. ASSUME NEW k \in Keys
        PROVE  /\ k \in first => journal[k].stage = "committed" /\ AnswerOf(k) = None
               /\ journal'[k].stage = journal[k].stage
               /\ AnswerOf(k)' = IF k \in first THEN "body" ELSE AnswerOf(k)
    BY <1>4, <2>1 DEF Replies
  <2>3. Journal!Answer(first, "body")
    BY <2>2 DEF Journal!Answer, Journal!Are
  <2> QED
    BY <2>3 DEF Journal!Next
<1> QED
  BY <1>1, <1>2, <1>3, <1>4, JournalSteps

(* Of the journal the batches ask no more than SpendOnce allows, which      *)
(* LLMDelivery keeps: whoever shares a key, it is claimed, sent once by     *)
(* whoever commits it first, and answered once (dispatch_exchange).         *)
THEOREM BatchesUseSpendOnce == Spec => UsesSpendOnce
<1>1. Init => Journal!Init
  BY JournalStarts DEF Journal!Init
<1>2. TypeInv /\ JournalInv /\ [Next]_vars => [Journal!Next]_(Journal!abstractVars)
  BY JournalKeepsPromise
<1>3. TypeInv /\ JournalInv /\ [Next]_vars => TypeInv' /\ JournalInv'
  BY TypeStep, JournalStep
<1> QED
  BY <1>1, <1>2, <1>3, TypeInit, JournalInit, PTL DEF Spec, UsesSpendOnce, Journal!Spec
==============================================================================
