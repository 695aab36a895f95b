------------------------- MODULE CommitQueueProofs -------------------------
(* Machine-checked facts about the commit queue, for any number of callers, *)
(* tasks, retries and failures.                                             *)
EXTENDS CommitQueue, TLAPS

(* Until a key expires under its task or an error comes late:               *)
(* who schedules a task holds the key with its id ...                       *)
SchedulerHoldsKey ==
    \A p \in Processes :
        IF proc[p].pc \in {"publish", "undo key"}
        THEN proc[p].id \in Tasks /\ commitTask = proc[p].id
        ELSE proc[p].id = None

(* ... an id that nobody else schedules and no running task has ...         *)
IdsAreOwn ==
    \A p, q \in Processes :
        proc[p].id = q /\ q \in Tasks => p = q \/ ~Active(q)

(* ... and a scheduled task holds it until it drops it.                     *)
TaskHoldsKey ==
    \A t \in Tasks :
        (At(t, "queued") /\ proc[t].keyed) \/ At(t, "drop") => commitTask = t

(* One process schedules at a time.                                         *)
OneScheduler ==
    \A p, q \in Processes : proc[p].id # None /\ proc[p].id = proc[q].id => p = q

KeyInv == SchedulerHoldsKey /\ IdsAreOwn /\ TaskHoldsKey /\ OneScheduler

-----------------------------------------------------------------------------
LEMMA Bounds == MaxRetries \in Nat /\ MaxDisturbances \in Nat
  BY QueueAssumption

(* A local state that moves to a program point is a local state.            *)
LEMMA LocalMoves ==
    ASSUME NEW l \in Local
    PROVE  /\ \A point \in Points : [l EXCEPT !.pc = point] \in Local
           /\ \A point \in Points, t \in Tasks \cup {None} :
                 [l EXCEPT !.pc = point, !.id = t] \in Local
           /\ \A b \in BOOLEAN : [l EXCEPT !.pc = "clear", !.payload = b] \in Local
           /\ [l EXCEPT !.pc = "check", !.failing = TRUE] \in Local
           /\ l.retries < MaxRetries => [l EXCEPT !.retries = @ + 1] \in Local
<1>1. \A point \in Points : [l EXCEPT !.pc = point] \in Local
  BY DEF Local
<1>2. \A point \in Points, t \in Tasks \cup {None} :
          [l EXCEPT !.pc = point, !.id = t] \in Local
  BY DEF Local
<1>3. \A b \in BOOLEAN : [l EXCEPT !.pc = "clear", !.payload = b] \in Local
  BY DEF Local, Points
<1>4. [l EXCEPT !.pc = "check", !.failing = TRUE] \in Local
  BY DEF Local, Points
<1>5. ASSUME l.retries < MaxRetries PROVE [l EXCEPT !.retries = @ + 1] \in Local
  <2>1. l.retries \in 0 .. MaxRetries /\ l.retries + 1 \in 0 .. MaxRetries
    BY <1>5, Bounds DEF Local
  <2> QED
    BY <2>1 DEF Local
<1> QED
  BY <1>1, <1>2, <1>3, <1>4, <1>5

LEMMA RestTyped ==
    /\ AtRest \in Local
    /\ \A b \in BOOLEAN : Queued(b) \in Local
    /\ \A point \in Points : [AtRest EXCEPT !.pc = point] \in Local
<1>1. AtRest \in Local
  <2>1. 0 \in 0 .. MaxRetries
    BY Bounds
  <2> QED
    BY <2>1 DEF AtRest, Local, Points
<1>2. \A b \in BOOLEAN : [AtRest EXCEPT !.pc = "queued", !.keyed = b] \in Local
  BY <1>1 DEF Local, Points
<1>3. \A point \in Points : [AtRest EXCEPT !.pc = point] \in Local
  BY <1>1, LocalMoves
<1> QED
  BY <1>1, <1>2, <1>3 DEF Queued

LEMMA TypeInit == Init => TypeOK
<1>1. 0 \in 0 .. MaxDisturbances
  BY Bounds
<1>2. ASSUME Init PROVE proc \in [Processes -> Local]
  BY <1>2, RestTyped DEF Init
<1> QED
  BY <1>1, <1>2 DEF Init, TypeOK

LEMMA TypeStep == TypeOK /\ [Next]_vars => TypeOK'
<1> SUFFICES ASSUME TypeOK, [Next]_vars PROVE TypeOK'
  OBVIOUS
<1> USE DEF TypeOK
<1>0. \A t \in Tasks : t \in Processes
  BY DEF Processes
<1>1. ASSUME NEW c \in Changes, Edit(c) PROVE TypeOK'
  BY <1>1 DEF Edit, cache
<1>2. ASSUME NEW p \in Processes, Ask(p) PROVE TypeOK'
  BY <1>2, LocalMoves DEF Ask, cache, Goto, Points
<1>3. ASSUME NEW p \in Processes, Schedule(p) PROVE TypeOK'
  <2>1. ASSUME NEW t \in Tasks, AddTask(p, t) PROVE TypeOK'
    <3>1. [proc[p] EXCEPT !.pc = "publish", !.id = t] \in Local
      BY LocalMoves DEF Points
    <3>2. proc' = [proc EXCEPT ![p] = [proc[p] EXCEPT !.pc = "publish", !.id = t]]
      BY <2>1 DEF AddTask
    <3> QED
      BY <2>1, <3>1, <3>2 DEF AddTask, work
  <2>2. ASSUME AlreadyScheduled(p) PROVE TypeOK'
    BY <2>2, LocalMoves DEF AlreadyScheduled, Goto, work, cache, Points
  <2>3. ASSUME LeaveRequest(p) \/ UndoRequest(p) PROVE TypeOK'
    BY <2>3, RestTyped DEF LeaveRequest, UndoRequest, Rest, work
  <2>4. ASSUME Publish(p) PROVE TypeOK'
    BY <2>4, RestTyped DEF Publish, work, cache
  <2>5. ASSUME UndoKey(p) PROVE TypeOK'
    <3>1. [proc[p] EXCEPT !.pc = "undo request", !.id = None] \in Local
      BY LocalMoves DEF Points
    <3>2. proc' = [proc EXCEPT ![p] = [proc[p] EXCEPT !.pc = "undo request", !.id = None]]
      BY <2>5 DEF UndoKey
    <3> QED
      BY <2>5, <3>1, <3>2 DEF UndoKey, work
  <2> QED
    BY <1>3, <2>1, <2>2, <2>3, <2>4, <2>5 DEF Schedule
<1>4. ASSUME NEW t \in Tasks, Run(t) PROVE TypeOK'
  <2>1. ASSUME Commit(t) PROVE TypeOK'
    BY <1>0, <2>1, LocalMoves DEF Commit, Goto, cache, Points
  <2>2. ASSUME KeyMatches(t) PROVE TypeOK'
    BY <1>0, <2>2, LocalMoves DEF KeyMatches, Goto, work, cache, Points
  <2>3. ASSUME KeyDiffers(t) PROVE TypeOK'
    BY <2>3, RestTyped DEF KeyDiffers, Rest, work, cache
  <2>4. ASSUME DropKey(t) PROVE TypeOK'
    BY <1>0, <2>4, LocalMoves DEF DropKey, Goto, work, Points
  <2>5. ASSUME ReadRequest(t) PROVE TypeOK'
    <3> DEFINE b == reschedule /\ ~proc[t].failing
    <3>1. b \in BOOLEAN
      BY <1>0 DEF Local
    <3>2. [proc[t] EXCEPT !.pc = "clear", !.payload = b] \in Local
      BY <1>0, <3>1, LocalMoves
    <3>3. proc' = [proc EXCEPT ![t] = [proc[t] EXCEPT !.pc = "clear", !.payload = b]]
      BY <2>5 DEF ReadRequest
    <3> HIDE DEF b
    <3> QED
      BY <2>5, <3>2, <3>3 DEF ReadRequest, work, cache
  <2>6. ASSUME ClearRequest(t) PROVE TypeOK'
    <3>1. proc[t] \in Local /\ [proc[t] EXCEPT !.pc = "add"] \in Local /\ AtRest \in Local
      BY <1>0, LocalMoves, RestTyped DEF Points
    <3>2. \/ proc' = [proc EXCEPT ![t] = [proc[t] EXCEPT !.pc = "add"]]
          \/ proc' = [proc EXCEPT ![t] = AtRest]
      BY <2>6 DEF ClearRequest, Goto, Rest
    <3>3. proc' \in [Processes -> Local]
      BY <3>1, <3>2
    <3> QED
      BY <2>6, <3>3 DEF ClearRequest, work
  <2> QED
    BY <1>4, <2>1, <2>2, <2>3, <2>4, <2>5, <2>6 DEF Run
<1>5. ASSUME Failure PROVE TypeOK'
  <2>1. ASSUME Disturb PROVE disturbances' \in 0 .. MaxDisturbances
    BY <2>1, QueueAssumption DEF Disturb
  <2>2. ASSUME NEW t \in Tasks, LockTimesOut(t) PROVE TypeOK'
    <3>1. CASE MayRetry(t)
      <4>1. [proc[t] EXCEPT !.retries = @ + 1] \in Local
        BY <1>0, <3>1, LocalMoves DEF MayRetry
      <4>2. proc' = [proc EXCEPT ![t] = [proc[t] EXCEPT !.retries = @ + 1]]
        BY <2>2, <3>1 DEF LockTimesOut
      <4> QED
        BY <2>1, <2>2, <4>1, <4>2 DEF LockTimesOut, work, cache
    <3>2. CASE ~MayRetry(t)
      <4>1. [proc[t] EXCEPT !.pc = "check"] \in Local
        BY <1>0, LocalMoves DEF Points
      <4>2. proc' = [proc EXCEPT ![t] = [proc[t] EXCEPT !.pc = "check"]]
        BY <2>2, <3>2 DEF LockTimesOut, Goto
      <4> QED
        BY <2>1, <2>2, <4>1, <4>2 DEF LockTimesOut, work, cache
    <3> QED
      BY <3>1, <3>2
  <2>3. ASSUME NEW t \in Tasks, CommitRaises(t) PROVE TypeOK'
    BY <1>0, <2>1, <2>3, LocalMoves DEF CommitRaises, AfterFailure, work, cache
  <2>4. ASSUME NEW t \in Tasks, SendKeyless(t) PROVE TypeOK'
    BY <2>1, <2>4, RestTyped DEF SendKeyless, cache
  <2>5. ASSUME NEW p \in Processes, Crash(p) PROVE TypeOK'
    BY <2>1, <2>5, RestTyped DEF Crash, work, cache, Points
  <2>6. ASSUME NEW p \in Processes, NEW taken \in BOOLEAN, PublishFails(p, taken)
        PROVE TypeOK'
    <3>1. [proc[p] EXCEPT !.pc = "undo key"] \in Local
      BY LocalMoves DEF Points
    <3>2. proc' \in [Processes -> Local]
      BY <2>6, <3>1, RestTyped DEF PublishFails, Goto
    <3> QED
      BY <2>1, <2>6, <3>2 DEF PublishFails, work, cache
  <2> QED
    BY <1>5, <2>2, <2>3, <2>4, <2>5, <2>6 DEF Failure
<1>6. ASSUME KeyExpires \/ RequestExpires PROVE TypeOK'
  BY <1>6 DEF KeyExpires, RequestExpires, Expired, work
<1>7. ASSUME UNCHANGED vars PROVE TypeOK'
  BY <1>7 DEF vars, work, cache
<1> QED
  BY <1>1, <1>2, <1>3, <1>4, <1>5, <1>6, <1>7 DEF Next

(* The queue's keys, requests and local states keep their types.            *)
THEOREM TypeCorrect == Spec => []TypeOK
  BY TypeInit, TypeStep, PTL DEF Spec

-----------------------------------------------------------------------------
(* No step forgets that an error or an expiry came at the wrong time.       *)
LEMMA LateStays == [Next]_vars /\ late => late'
<1> SUFFICES ASSUME [Next]_vars, late PROVE late'
  OBVIOUS
<1>1. ASSUME NEW p \in Processes, Ask(p) \/ Schedule(p) PROVE late'
  BY <1>1 DEF Ask, Schedule, AddTask, AlreadyScheduled, LeaveRequest, Publish, UndoKey, UndoRequest
<1>2. ASSUME NEW t \in Tasks, Run(t) PROVE late'
  BY <1>2 DEF Run, Commit, KeyMatches, KeyDiffers, DropKey, ReadRequest, ClearRequest
<1>3. ASSUME Failure PROVE late'
  BY <1>3 DEF Failure, LockTimesOut, CommitRaises, SendKeyless, Crash, PublishFails
<1>4. ASSUME KeyExpires \/ RequestExpires PROVE late'
  BY <1>4 DEF KeyExpires, RequestExpires
<1>5. ASSUME NEW c \in Changes, Edit(c) PROVE late'
  BY <1>5 DEF Edit
<1>6. ASSUME UNCHANGED vars PROVE late'
  BY <1>6 DEF vars
<1> QED
  BY <1>1, <1>2, <1>3, <1>4, <1>5, <1>6 DEF Next

LEMMA KeyInit == Init => KeyInv
<1> SUFFICES ASSUME Init PROVE KeyInv
  OBVIOUS
<1>1. \A p \in Processes : proc[p].pc = "rest" /\ proc[p].id = None
  BY DEF Init, AtRest
<1>2. None \notin Tasks /\ \A t \in Tasks : t \in Processes
  BY QueueAssumption DEF Processes
<1> QED
  BY <1>1, <1>2 DEF KeyInv, SchedulerHoldsKey, IdsAreOwn, TaskHoldsKey, OneScheduler, At

(* A process that schedules nothing and moves on leaves the keys in order.  *)
LEMMA KeyKept ==
    ASSUME KeyInv, commitTask' = commitTask, NEW p \in Processes,
           \A q \in Processes : q # p => proc'[q] = proc[q],
           proc'[p].pc \notin {"publish", "undo key"}, proc'[p].id = None,
           Active(p),
           (proc'[p].pc = "queued" /\ proc'[p].keyed) \/ proc'[p].pc = "drop"
              => commitTask = p
    PROVE  KeyInv'
<1> USE QueueAssumption DEF KeyInv, Processes
<1>1. SchedulerHoldsKey'
  BY DEF SchedulerHoldsKey
<1>2. IdsAreOwn'
  <2> SUFFICES ASSUME NEW r \in Processes, NEW q \in Processes,
                      proc'[r].id = q, q \in Tasks
               PROVE  r = q \/ proc'[q].pc \in {"rest", "lost"}
    BY DEF IdsAreOwn, Active
  <2>1. r # p /\ proc[r].id = q
    OBVIOUS
  <2>2. r = q \/ ~Active(q)
    BY <2>1 DEF IdsAreOwn
  <2> QED
    BY <2>1, <2>2 DEF Active
<1>3. TaskHoldsKey'
  <2> SUFFICES ASSUME NEW t \in Tasks,
                      \/ proc'[t].pc = "queued" /\ proc'[t].keyed
                      \/ proc'[t].pc = "drop"
               PROVE  commitTask' = t
    BY DEF TaskHoldsKey, At
  <2>1. CASE t = p
    BY <2>1
  <2>2. CASE t # p
    BY <2>2 DEF TaskHoldsKey, At
  <2> QED
    BY <2>1, <2>2
<1>4. OneScheduler'
  BY DEF OneScheduler
<1> QED
  BY <1>1, <1>2, <1>3, <1>4

LEMMA KeyStep == TypeOK /\ (~late => KeyInv) /\ [Next]_vars => (~late' => KeyInv')
<1> SUFFICES ASSUME ~late', TypeOK, KeyInv, [Next]_vars PROVE KeyInv'
  BY LateStays
<1> USE DEF KeyInv, SchedulerHoldsKey, IdsAreOwn, TaskHoldsKey, OneScheduler, At, Active
<1>0. /\ \A t \in Tasks : t \in Processes
      /\ None \notin Tasks
      /\ proc \in [Processes -> Local]
      /\ \A p \in Processes : proc[p] \in Local
  BY QueueAssumption DEF Processes, TypeOK
<1>1. ASSUME NEW c \in Changes, Edit(c) PROVE KeyInv'
  BY <1>1 DEF Edit, cache
<1>2. ASSUME NEW p \in Processes, Ask(p) PROVE KeyInv'
  BY <1>0, <1>2 DEF Ask, cache, Goto, Local
<1>3. ASSUME NEW p \in Processes, Schedule(p) PROVE KeyInv'
  <2>1. ASSUME NEW t \in Tasks, AddTask(p, t) PROVE KeyInv'
    BY <1>0, <2>1 DEF AddTask, Fresh, Unknown, KeyFree, Local
  <2>2. ASSUME AlreadyScheduled(p) PROVE KeyInv'
    <3>1. /\ commitTask' = commitTask /\ Active(p)
          /\ \A q \in Processes : q # p => proc'[q] = proc[q]
          /\ proc'[p].pc = "refused" /\ proc'[p].id = None
      BY <1>0, <2>2 DEF AlreadyScheduled, Goto, cache, Local
    <3> QED
      BY <3>1, KeyKept
  <2>3. ASSUME LeaveRequest(p) PROVE KeyInv'
    <3>1. commitTask' = commitTask /\ Active(p)
      BY <2>3 DEF LeaveRequest
    <3>2. /\ \A q \in Processes : q # p => proc'[q] = proc[q]
          /\ proc'[p].pc = "rest" /\ proc'[p].id = None
      BY <1>0, <2>3 DEF LeaveRequest, Rest, AtRest
    <3> QED
      BY <3>1, <3>2, KeyKept
  <2>4. ASSUME UndoRequest(p) PROVE KeyInv'
    <3>1. commitTask' = commitTask /\ Active(p)
      BY <2>4 DEF UndoRequest
    <3>2. /\ \A q \in Processes : q # p => proc'[q] = proc[q]
          /\ proc'[p].pc = "rest" /\ proc'[p].id = None
      BY <1>0, <2>4 DEF UndoRequest, Rest, AtRest
    <3> QED
      BY <3>1, <3>2, KeyKept
  <2>5. ASSUME Publish(p) PROVE KeyInv'
    <3> DEFINE t == proc[p].id
    <3>1. t \in Tasks /\ t \in Processes /\ commitTask = t /\ commitTask' = t
      BY <1>0, <2>5 DEF Publish, cache
    <3>2. /\ proc'[t].pc = "queued" /\ proc'[t].id = None
          /\ p # t => proc'[p].pc = "rest" /\ proc'[p].id = None
          /\ \A q \in Processes : q \notin {p, t} => proc'[q] = proc[q]
      BY <1>0, <2>5, <3>1 DEF Publish, Queued, AtRest
    <3>3. \A q \in Processes : q \notin {p, t} =>
             proc[q].id # t /\ proc[q].pc \notin {"publish", "undo key"}
      BY <1>0, <3>1
    <3>4. \A q \in Processes : q \notin {p, t} => proc[q].id = None
      BY <3>3
    <3> HIDE DEF t
    <3>5. \A q \in Processes : proc'[q].pc \notin {"publish", "undo key"}
      BY <1>0, <3>1, <3>2, <3>3
    <3>6. \A q \in Processes : proc'[q].id = None
      <4> SUFFICES ASSUME NEW q \in Processes PROVE proc'[q].id = None
        OBVIOUS
      <4>1. CASE q \in {p, t}
        BY <3>2, <4>1
      <4>2. CASE q \notin {p, t}
        BY <3>2, <3>4, <4>2
      <4> QED
        BY <4>1, <4>2
    <3>7. TaskHoldsKey'
      BY <1>0, <3>1, <3>2, <3>3
    <3> QED
      BY <1>0, <3>5, <3>6, <3>7
  <2>6. ASSUME UndoKey(p) PROVE KeyInv'
    BY <1>0, <2>6 DEF UndoKey, Local
  <2> QED
    BY <1>3, <2>1, <2>2, <2>3, <2>4, <2>5, <2>6 DEF Schedule
<1>4. ASSUME NEW t \in Tasks, Run(t) PROVE KeyInv'
  <2>1. ASSUME Commit(t) PROVE KeyInv'
    <3>1. /\ commitTask' = commitTask /\ Active(t)
          /\ \A q \in Processes : q # t => proc'[q] = proc[q]
          /\ proc'[t].pc = "check" /\ proc'[t].id = None
      BY <1>0, <2>1 DEF Commit, Goto, cache, Local
    <3> QED
      BY <1>0, <3>1, KeyKept
  <2>2. ASSUME KeyMatches(t) PROVE KeyInv'
    <3>1. /\ commitTask' = commitTask /\ Active(t)
          /\ \A q \in Processes : q # t => proc'[q] = proc[q]
          /\ proc'[t].pc = "drop" /\ commitTask = t /\ proc'[t].id = None
      BY <1>0, <2>2 DEF KeyMatches, Goto, cache, Local
    <3> QED
      BY <1>0, <3>1, KeyKept
  <2>3. ASSUME KeyDiffers(t) PROVE KeyInv'
    <3>1. /\ commitTask' = commitTask /\ Active(t)
          /\ \A q \in Processes : q # t => proc'[q] = proc[q]
          /\ proc'[t].pc = "rest" /\ proc'[t].id = None
      BY <1>0, <2>3 DEF KeyDiffers, Rest, AtRest, cache
    <3> QED
      BY <1>0, <3>1, KeyKept
  <2>4. ASSUME ClearRequest(t) PROVE KeyInv'
    <3>1. /\ commitTask' = commitTask /\ Active(t)
          /\ \A q \in Processes : q # t => proc'[q] = proc[q]
          /\ proc'[t].pc \in {"add", "rest"} /\ proc'[t].id = None
      <4>1. commitTask' = commitTask /\ At(t, "clear")
        BY <2>4 DEF ClearRequest
      <4>2. \/ proc' = [proc EXCEPT ![t].pc = "add"]
            \/ proc' = [proc EXCEPT ![t] = AtRest]
        BY <2>4 DEF ClearRequest, Goto, Rest
      <4>3. proc[t].id = None
        BY <1>0, <4>1
      <4>4. /\ \A q \in Processes : q # t => proc'[q] = proc[q]
            /\ proc'[t].pc \in {"add", "rest"} /\ proc'[t].id = None
        <5>1. CASE proc' = [proc EXCEPT ![t].pc = "add"]
          BY <1>0, <4>3, <5>1 DEF Local
        <5>2. CASE proc' = [proc EXCEPT ![t] = AtRest]
          BY <1>0, <5>2 DEF AtRest
        <5> QED
          BY <4>2, <5>1, <5>2
      <4> QED
        BY <4>1, <4>4
    <3> QED
      BY <1>0, <3>1, KeyKept
  <2>5. ASSUME DropKey(t) PROVE KeyInv'
    BY <1>0, <2>5 DEF DropKey, Goto, Local
  <2>6. ASSUME ReadRequest(t) PROVE KeyInv'
    BY <1>0, <2>6 DEF ReadRequest, cache, Local
  <2> QED
    BY <1>4, <2>1, <2>2, <2>3, <2>4, <2>5, <2>6 DEF Run
<1>5. ASSUME Failure PROVE KeyInv'
  <2>1. ASSUME NEW t \in Tasks, LockTimesOut(t) PROVE KeyInv'
    <3>1. /\ commitTask' = commitTask /\ At(t, "queued")
          /\ \A q \in Processes : q # t => proc'[q] = proc[q]
          /\ proc'[t].id = None
      <4>1. commitTask' = commitTask /\ At(t, "queued")
        BY <2>1 DEF LockTimesOut, cache
      <4>2. \/ proc' = [proc EXCEPT ![t].retries = @ + 1]
            \/ proc' = [proc EXCEPT ![t].pc = "check"]
        BY <2>1 DEF LockTimesOut, Goto
      <4>3. proc[t].id = None
        BY <1>0, <4>1
      <4>4. /\ \A q \in Processes : q # t => proc'[q] = proc[q]
            /\ proc'[t].id = None
        BY <1>0, <4>2, <4>3 DEF Local
      <4> QED
        BY <4>1, <4>4
    <3>2. \/ proc'[t].pc = "check"
          \/ proc'[t].pc = "queued" /\ proc'[t].keyed = proc[t].keyed
      BY <1>0, <2>1 DEF LockTimesOut, Goto, Local
    <3> QED
      BY <1>0, <3>1, <3>2, KeyKept
  <2>2. ASSUME NEW t \in Tasks, CommitRaises(t) PROVE KeyInv'
    <3>1. /\ commitTask' = commitTask /\ Active(t)
          /\ \A q \in Processes : q # t => proc'[q] = proc[q]
          /\ proc'[t].pc = "check" /\ proc'[t].id = None
      BY <1>0, <2>2 DEF CommitRaises, AfterFailure, cache, Local
    <3> QED
      BY <1>0, <3>1, KeyKept
  <2>3. ASSUME NEW t \in Tasks, SendKeyless(t) PROVE KeyInv'
    BY <1>0, <2>3 DEF SendKeyless, Fresh, Unknown, Queued, AtRest, cache, Local
  <2>4. ASSUME NEW p \in Processes, Crash(p) PROVE KeyInv'
    BY <1>0, <2>4 DEF Crash, AtRest, cache, Local
  <2>5. ASSUME NEW p \in Processes, NEW taken \in BOOLEAN, PublishFails(p, taken)
        PROVE KeyInv'
    <3>1. commitTask' = commitTask /\ proc[p].pc = "publish"
      BY <2>5 DEF PublishFails, cache
    <3>2. proc' = [proc EXCEPT ![p].pc = "undo key"]
      BY <2>5 DEF PublishFails, Goto
    <3>3. /\ \A q \in Processes : q # p => proc'[q] = proc[q]
          /\ proc'[p].pc = "undo key" /\ proc'[p].id = proc[p].id
      BY <1>0, <3>2 DEF Local
    <3>4. proc[p].id \in Tasks /\ commitTask = proc[p].id
      BY <3>1
    <3>5. \A q \in Processes : proc'[q].id = proc[q].id
      BY <3>3
    <3>6. SchedulerHoldsKey' /\ OneScheduler'
      BY <3>1, <3>3, <3>4, <3>5
    <3>7. IdsAreOwn'
      <4> SUFFICES ASSUME NEW r \in Processes, NEW q \in Tasks, proc[r].id = q, r # q
                   PROVE  proc'[q].pc \in {"rest", "lost"}
        BY <3>5
      <4>1. proc[q].pc \in {"rest", "lost"}
        BY <1>0
      <4>2. q # p
        BY <3>1, <4>1
      <4> QED
        BY <1>0, <3>3, <4>1, <4>2
    <3>8. TaskHoldsKey'
      BY <1>0, <3>1, <3>3
    <3> QED
      BY <3>6, <3>7, <3>8
  <2> QED
    BY <1>5, <2>1, <2>3, <2>4, <2>5, <2>2 DEF Failure
<1>6. ASSUME KeyExpires \/ RequestExpires PROVE KeyInv'
  BY <1>0, <1>6 DEF KeyExpires, RequestExpires, Expired, Alive
<1>7. ASSUME UNCHANGED vars PROVE KeyInv'
  BY <1>7 DEF vars, cache
<1> QED
  BY <1>1, <1>2, <1>3, <1>4, <1>5, <1>6, <1>7 DEF Next

(* Until a key expires under its task or the broker reports an error for a  *)
(* message it took, at most one scheduled commit of a repository waits or   *)
(* runs, whatever number of requests, retries and crashes.                  *)
THEOREM Deduplicated == Spec => []OneLiveTask
<1>1. (~late => KeyInv) => OneLiveTask
  BY DEF KeyInv, TaskHoldsKey, OneLiveTask
<1>2. Init => TypeOK /\ (~late => KeyInv)
  BY TypeInit, KeyInit
<1>3. TypeOK /\ (~late => KeyInv) /\ [Next]_vars => (TypeOK /\ (~late => KeyInv))'
  BY TypeStep, KeyStep
<1> QED
  BY <1>1, <1>2, <1>3, PTL DEF Spec
-----------------------------------------------------------------------------
(* Whether or not something came late: who schedules has a task's id ...    *)
SchedulerHasId ==
    \A p \in Processes :
        IF proc[p].pc \in {"publish", "undo key"} THEN proc[p].id \in Tasks
                                                  ELSE proc[p].id = None

(* ... of a task that does not run yet, unless it is its own ...            *)
PublishedIsNew ==
    \A p \in Processes :
        At(p, "publish") /\ proc[p].id # p => ~Active(proc[p].id)

(* ... and a task that dropped its key is not named by it any more, unless  *)
(* it schedules itself again.                                               *)
PastKey(t) ==
    \/ proc[t].pc \in {"add", "refused", "undo request", "read", "clear"}
    \/ proc[t].pc \in {"publish", "undo key"} /\ proc[t].id # t

DroppedStaysDropped == \A t \in Tasks : PastKey(t) => commitTask # t

NameInv ==
    SchedulerHasId /\ OneScheduler /\ PublishedIsNew /\ DroppedStaysDropped /\ KeyIsLive

LEMMA NameInit == Init => NameInv
<1> SUFFICES ASSUME Init PROVE NameInv
  OBVIOUS
<1>1. \A p \in Processes : proc[p].pc = "rest" /\ proc[p].id = None
  BY DEF Init, AtRest
<1>2. commitTask = None /\ \A t \in Tasks : t \in Processes
  BY DEF Init, Processes
<1> QED
  BY <1>1, <1>2 DEF NameInv, SchedulerHasId, OneScheduler, PublishedIsNew,
                    DroppedStaysDropped, PastKey, KeyIsLive, At

(* A process that schedules nothing moves: the key is in order when it does *)
(* not name a task that leaves it behind.                                   *)
LEMMA NameKept ==
    ASSUME NameInv, commitTask' \in {commitTask, None}, commitTask \in Tasks \cup {None},
           NEW p \in Processes,
           \A q \in Processes : q # p => proc'[q] = proc[q],
           proc[p].id = None, proc'[p].id = None,
           proc'[p].pc \notin {"publish", "undo key"},
           p \in Tasks => Active(p),
           p \in Tasks => \/ proc'[p].pc \in {"queued", "check", "drop", "lost"}
                          \/ commitTask' # p
    PROVE  NameInv'
<1> USE DEF NameInv
<1>0. None \notin Tasks /\ \A t \in Tasks : t \in Processes
  BY QueueAssumption DEF Processes
<1>1. SchedulerHasId'
  BY DEF SchedulerHasId
<1>2. OneScheduler'
  BY DEF OneScheduler
<1>3. PublishedIsNew'
  <2> SUFFICES ASSUME NEW q \in Processes, At(q, "publish")', proc'[q].id # q
               PROVE  ~Active(proc[q].id)'
    BY DEF PublishedIsNew
  <2>1. q # p /\ proc'[q] = proc[q]
    BY DEF At
  <2>2. proc[q].id \in Tasks /\ ~Active(proc[q].id)
    BY <2>1 DEF At, PublishedIsNew, SchedulerHasId
  <2>3. proc[q].id # p
    BY <2>2
  <2> QED
    BY <1>0, <2>1, <2>2, <2>3 DEF Active
<1>4. DroppedStaysDropped'
  <2> SUFFICES ASSUME NEW t \in Tasks, PastKey(t)' PROVE commitTask' # t
    BY DEF DroppedStaysDropped
  <2>1. CASE t = p
    BY <2>1 DEF PastKey
  <2>2. CASE t # p
    <3>1. PastKey(t)
      BY <1>0, <2>2 DEF PastKey
    <3> QED
      BY <1>0, <3>1 DEF DroppedStaysDropped
  <2> QED
    BY <2>1, <2>2
<1>5. KeyIsLive'
  <2> SUFFICES ASSUME NEW t \in Tasks, commitTask = t, commitTask' = t
               PROVE  Alive(t)' \/ At(t, "lost")'
    BY <1>0 DEF KeyIsLive
  <2>1. CASE t = p
    BY <2>1 DEF Alive, Active, At
  <2>2. CASE t # p
    <3>1. Alive(t) \/ At(t, "lost")
      BY <1>0 DEF KeyIsLive
    <3>2. proc'[t] = proc[t]
      BY <1>0, <2>2
    <3>3. CASE \E q \in Processes : proc[q].id = t
      <4>1. PICK q \in Processes : proc[q].id = t
        BY <3>3
      <4>2. q # p
        BY <1>0, <4>1
      <4> QED
        BY <4>1, <4>2 DEF Alive
    <3>4. CASE Active(t) \/ At(t, "lost")
      BY <3>2, <3>4 DEF Alive, Active, At
    <3> QED
      BY <3>1, <3>3, <3>4 DEF Alive
  <2> QED
    BY <2>1, <2>2
<1> QED
  BY <1>1, <1>2, <1>3, <1>4, <1>5

LEMMA NameStep == TypeOK /\ NameInv /\ [Next]_vars => NameInv'
<1> SUFFICES ASSUME TypeOK, NameInv, [Next]_vars PROVE NameInv'
  OBVIOUS
<1>0. /\ \A t \in Tasks : t \in Processes
      /\ None \notin Tasks
      /\ proc \in [Processes -> Local]
      /\ \A p \in Processes : proc[p] \in Local
      /\ commitTask \in Tasks \cup {None}
  BY QueueAssumption DEF Processes, TypeOK
<1>a. \A p \in Processes : proc[p].pc \notin {"publish", "undo key"} => proc[p].id = None
  BY DEF NameInv, SchedulerHasId
<1>b. ASSUME proc' = proc, commitTask' = commitTask PROVE NameInv'
  BY <1>b DEF NameInv, SchedulerHasId, OneScheduler, PublishedIsNew, DroppedStaysDropped,
              PastKey, KeyIsLive, Alive, Active, At
<1>1. ASSUME NEW c \in Changes, Edit(c) PROVE NameInv'
  BY <1>1, <1>b DEF Edit, cache
<1>2. ASSUME NEW p \in Processes, Ask(p) PROVE NameInv'
  <2>1. commitTask' = commitTask /\ p \notin Tasks /\ At(p, "rest")
    BY <1>2 DEF Ask, cache
  <2>2. /\ \A q \in Processes : q # p => proc'[q] = proc[q]
        /\ proc'[p].pc = "add" /\ proc'[p].id = proc[p].id
    BY <1>0, <1>2 DEF Ask, Goto, Local
  <2>3. proc[p].id = None
    BY <1>a, <2>1 DEF At
  <2> QED
    BY <1>0, <2>1, <2>2, <2>3, NameKept
<1>3. ASSUME NEW p \in Processes, Schedule(p) PROVE NameInv'
  <2>1. ASSUME NEW t \in Tasks, AddTask(p, t) PROVE NameInv'
    <3>1. /\ commitTask = None /\ commitTask' = t /\ proc[p].pc = "add" /\ proc[p].id = None
          /\ \A q \in Processes : proc[q].id # t
          /\ t = p \/ ~Active(t)
      BY <1>a, <2>1 DEF AddTask, KeyFree, Fresh, Unknown, At
    <3>2. /\ \A q \in Processes : q # p => proc'[q] = proc[q]
          /\ proc'[p].pc = "publish" /\ proc'[p].id = t
      BY <1>0, <2>1 DEF AddTask, Local
    <3>3. SchedulerHasId'
      BY <3>1, <3>2 DEF NameInv, SchedulerHasId
    <3>4. OneScheduler'
      BY <3>1, <3>2 DEF NameInv, OneScheduler
    <3>5. PublishedIsNew'
      <4> SUFFICES ASSUME NEW q \in Processes, At(q, "publish")', proc'[q].id # q
                   PROVE  ~Active(proc[q].id)' 
        BY DEF PublishedIsNew
      <4>1. CASE q = p
        BY <1>0, <3>1, <3>2, <4>1 DEF Active
      <4>2. CASE q # p
        <5>1. proc'[q] = proc[q] /\ At(q, "publish") /\ proc[q].id # q
          BY <3>2, <4>2 DEF At
        <5>2. proc[q].id \in Tasks /\ ~Active(proc[q].id)
          BY <5>1 DEF NameInv, PublishedIsNew, SchedulerHasId, At
        <5>3. proc[q].id # p
          BY <3>1, <5>2 DEF Active
        <5> QED
          BY <1>0, <3>2, <5>1, <5>2, <5>3 DEF Active
      <4> QED
        BY <4>1, <4>2
    <3>6. DroppedStaysDropped'
      BY <1>0, <3>1, <3>2 DEF DroppedStaysDropped, PastKey, Active
    <3>7. KeyIsLive'
      BY <3>1, <3>2 DEF KeyIsLive, Alive
    <3> QED
      BY <3>3, <3>4, <3>5, <3>6, <3>7 DEF NameInv
  <2>2. ASSUME AlreadyScheduled(p) PROVE NameInv'
    <3>1. commitTask' = commitTask /\ proc[p].pc = "add" /\ proc[p].id = None
      BY <1>a, <2>2 DEF AlreadyScheduled, cache, At
    <3>2. /\ \A q \in Processes : q # p => proc'[q] = proc[q]
          /\ proc'[p].pc = "refused" /\ proc'[p].id = None
      BY <1>0, <2>2, <3>1 DEF AlreadyScheduled, Goto, Local
    <3>3. p \in Tasks => Active(p) /\ commitTask # p
      BY <3>1 DEF NameInv, DroppedStaysDropped, PastKey, Active
    <3> QED
      BY <1>0, <3>1, <3>2, <3>3, NameKept
  <2>3. ASSUME LeaveRequest(p) \/ UndoRequest(p) PROVE NameInv'
    <3>1. commitTask' = commitTask /\ proc[p].pc \in {"refused", "undo request"} /\ proc[p].id = None
      BY <1>a, <2>3 DEF LeaveRequest, UndoRequest, At
    <3>2. /\ \A q \in Processes : q # p => proc'[q] = proc[q]
          /\ proc'[p].pc = "rest" /\ proc'[p].id = None
      <4>1. proc' = [proc EXCEPT ![p] = AtRest]
        BY <2>3 DEF LeaveRequest, UndoRequest, Rest
      <4> QED
        BY <1>0, <4>1 DEF AtRest
    <3>3. p \in Tasks => Active(p) /\ commitTask # p
      BY <3>1 DEF NameInv, DroppedStaysDropped, PastKey, Active
    <3> QED
      BY <1>0, <3>1, <3>2, <3>3, NameKept
  <2>4. ASSUME Publish(p) PROVE NameInv'
    <3> DEFINE t == proc[p].id
    <3>1. /\ t \in Tasks /\ t \in Processes /\ commitTask' = commitTask
          /\ proc[p].pc = "publish" /\ (t # p => ~Active(t))
      BY <1>0, <2>4 DEF Publish, cache, NameInv, SchedulerHasId, PublishedIsNew, At
    <3>2. /\ proc'[t].pc = "queued" /\ proc'[t].id = None
          /\ p # t => proc'[p].pc = "rest" /\ proc'[p].id = None
          /\ \A q \in Processes : q \notin {p, t} => proc'[q] = proc[q]
      BY <1>0, <2>4, <3>1 DEF Publish, Queued, AtRest
    <3>3. \A q \in Processes : q # p => proc[q].id # t
      BY <1>0, <3>1 DEF NameInv, OneScheduler
    <3>4. p \in Tasks /\ p # t => commitTask # p
      BY <3>1 DEF NameInv, DroppedStaysDropped, PastKey
    <3> HIDE DEF t
    <3>5. SchedulerHasId'
      BY <3>2 DEF NameInv, SchedulerHasId
    <3>6. OneScheduler'
      BY <1>0, <3>2 DEF NameInv, OneScheduler
    <3>7. PublishedIsNew'
      <4> SUFFICES ASSUME NEW q \in Processes, At(q, "publish")', proc'[q].id # q
                   PROVE  ~Active(proc[q].id)'
        BY DEF PublishedIsNew
      <4>1. q \notin {p, t} /\ proc'[q] = proc[q]
        BY <3>2 DEF At
      <4>2. proc[q].id \in Tasks /\ ~Active(proc[q].id) /\ proc[q].id # t
        BY <3>3, <4>1 DEF NameInv, PublishedIsNew, SchedulerHasId, At
      <4>3. proc[q].id # p
        BY <3>1, <4>2 DEF Active
      <4> QED
        BY <1>0, <3>2, <4>1, <4>2, <4>3 DEF Active
    <3>8. DroppedStaysDropped'
      BY <1>0, <3>1, <3>2, <3>4 DEF NameInv, DroppedStaysDropped, PastKey
    <3>9. KeyIsLive'
      <4> SUFFICES ASSUME NEW r \in Tasks, commitTask = r PROVE Alive(r)' \/ At(r, "lost")'
        BY <1>0, <3>1 DEF KeyIsLive
      <4>1. CASE r = t
        BY <3>2, <4>1 DEF Alive, Active
      <4>2. CASE r # t
        <5>1. r # p
          BY <3>4, <4>2
        <5>2. proc'[r] = proc[r] /\ (Alive(r) \/ At(r, "lost"))
          BY <1>0, <3>2, <4>2, <5>1 DEF NameInv, KeyIsLive
        <5>3. ASSUME NEW q \in Processes, proc[q].id = r PROVE proc'[q].id = r
          <6>1. q # p
            BY <4>2, <5>3 DEF t
          <6>2. q # t
            BY <1>0, <3>1, <5>3, <6>1 DEF NameInv, SchedulerHasId, Active
          <6> QED
            BY <3>2, <5>3, <6>1, <6>2
        <5> QED
          BY <5>2, <5>3 DEF Alive, Active, At
      <4> QED
        BY <4>1, <4>2
    <3> QED
      BY <3>5, <3>6, <3>7, <3>8, <3>9 DEF NameInv
  <2>5. ASSUME UndoKey(p) PROVE NameInv'
    <3>1. commitTask' = None
      BY <2>5 DEF UndoKey
    <3>2. /\ \A q \in Processes : q # p => proc'[q] = proc[q]
          /\ proc'[p].pc = "undo request" /\ proc'[p].id = None
          /\ proc[p].pc = "undo key"
      BY <1>0, <2>5 DEF UndoKey, Local, At
    <3>3. SchedulerHasId' /\ OneScheduler'
      BY <3>2 DEF NameInv, SchedulerHasId, OneScheduler
    <3>4. PublishedIsNew'
      <4> SUFFICES ASSUME NEW q \in Processes, At(q, "publish")', proc'[q].id # q
                   PROVE  ~Active(proc[q].id)'
        BY DEF PublishedIsNew
      <4>1. q # p /\ proc'[q] = proc[q]
        BY <3>2 DEF At
      <4>2. proc[q].id \in Tasks /\ ~Active(proc[q].id) /\ proc[q].id # p
        BY <3>2, <4>1 DEF NameInv, PublishedIsNew, SchedulerHasId, At, Active
      <4> QED
        BY <1>0, <3>2, <4>1, <4>2 DEF Active
    <3>5. DroppedStaysDropped' /\ KeyIsLive'
      BY <1>0, <3>1 DEF DroppedStaysDropped, KeyIsLive
    <3> QED
      BY <3>3, <3>4, <3>5 DEF NameInv
  <2> QED
    BY <1>3, <2>1, <2>2, <2>3, <2>4, <2>5 DEF Schedule
<1>4. ASSUME NEW t \in Tasks, Run(t) PROVE NameInv'
  <2>0. t \in Processes
    BY <1>0
  <2>1. ASSUME Commit(t) \/ KeyMatches(t) PROVE NameInv'
    <3>1. commitTask' = commitTask /\ proc[t].pc \in {"queued", "check"} /\ proc[t].id = None
      BY <1>a, <2>0, <2>1 DEF Commit, KeyMatches, cache, At
    <3>2. /\ \A q \in Processes : q # t => proc'[q] = proc[q]
          /\ proc'[t].pc \in {"check", "drop"} /\ proc'[t].id = None
      BY <1>0, <2>0, <2>1, <3>1 DEF Commit, KeyMatches, Goto, Local
    <3> QED
      BY <1>0, <2>0, <3>1, <3>2, NameKept DEF Active
  <2>2. ASSUME KeyDiffers(t) PROVE NameInv'
    <3>1. /\ commitTask' = commitTask /\ proc[t].pc = "check" /\ proc[t].id = None
          /\ commitTask # t
      BY <1>a, <2>0, <2>2 DEF KeyDiffers, cache, At
    <3>2. /\ \A q \in Processes : q # t => proc'[q] = proc[q]
          /\ proc'[t].pc = "rest" /\ proc'[t].id = None
      BY <1>0, <2>0, <2>2 DEF KeyDiffers, Rest, AtRest
    <3> QED
      BY <1>0, <2>0, <3>1, <3>2, NameKept DEF Active
  <2>3. ASSUME DropKey(t) PROVE NameInv'
    <3>1. commitTask' = None /\ proc[t].pc = "drop" /\ proc[t].id = None
      BY <1>a, <2>0, <2>3 DEF DropKey, At
    <3>2. /\ \A q \in Processes : q # t => proc'[q] = proc[q]
          /\ proc'[t].pc = "read" /\ proc'[t].id = None
      BY <1>0, <2>0, <2>3, <3>1 DEF DropKey, Goto, Local
    <3> QED
      BY <1>0, <2>0, <3>1, <3>2, NameKept DEF Active
  <2>4. ASSUME ReadRequest(t) PROVE NameInv'
    <3>1. commitTask' = commitTask /\ proc[t].pc = "read" /\ proc[t].id = None
      BY <1>a, <2>0, <2>4 DEF ReadRequest, cache, At
    <3>2. /\ \A q \in Processes : q # t => proc'[q] = proc[q]
          /\ proc'[t].pc = "clear" /\ proc'[t].id = None
      BY <1>0, <2>0, <2>4, <3>1 DEF ReadRequest, Local
    <3>3. commitTask # t
      BY <3>1 DEF NameInv, DroppedStaysDropped, PastKey
    <3> QED
      BY <1>0, <2>0, <3>1, <3>2, <3>3, NameKept DEF Active
  <2>5. ASSUME ClearRequest(t) PROVE NameInv'
    <3>1. commitTask' = commitTask /\ proc[t].pc = "clear" /\ proc[t].id = None
      BY <1>a, <2>0, <2>5 DEF ClearRequest, At
    <3>2. \/ proc' = [proc EXCEPT ![t].pc = "add"]
          \/ proc' = [proc EXCEPT ![t] = AtRest]
      BY <2>5 DEF ClearRequest, Goto, Rest
    <3>3. /\ \A q \in Processes : q # t => proc'[q] = proc[q]
          /\ proc'[t].pc \in {"add", "rest"} /\ proc'[t].id = None
      <4>1. CASE proc' = [proc EXCEPT ![t].pc = "add"]
        BY <1>0, <2>0, <3>1, <4>1 DEF Local
      <4>2. CASE proc' = [proc EXCEPT ![t] = AtRest]
        BY <1>0, <2>0, <4>2 DEF AtRest
      <4> QED
        BY <3>2, <4>1, <4>2
    <3>4. commitTask # t
      BY <3>1 DEF NameInv, DroppedStaysDropped, PastKey
    <3> QED
      BY <1>0, <2>0, <3>1, <3>3, <3>4, NameKept DEF Active
  <2> QED
    BY <1>4, <2>1, <2>2, <2>3, <2>4, <2>5 DEF Run
<1>5. ASSUME Failure PROVE NameInv'
  <2>1. ASSUME NEW t \in Tasks, LockTimesOut(t) \/ CommitRaises(t) PROVE NameInv'
    <3>0. t \in Processes
      BY <1>0
    <3>1. commitTask' = commitTask /\ proc[t].pc = "queued" /\ proc[t].id = None
      BY <1>a, <2>1, <3>0 DEF LockTimesOut, CommitRaises, cache, At
    <3>2. \/ proc' = [proc EXCEPT ![t].retries = @ + 1]
          \/ proc' = [proc EXCEPT ![t].pc = "check"]
          \/ proc' = [proc EXCEPT ![t] = AfterFailure(t)]
      BY <2>1 DEF LockTimesOut, CommitRaises, Goto
    <3>3. /\ \A q \in Processes : q # t => proc'[q] = proc[q]
          /\ proc'[t].pc \in {"queued", "check"} /\ proc'[t].id = None
      <4>1. CASE proc' = [proc EXCEPT ![t].retries = @ + 1]
        BY <1>0, <3>0, <3>1, <4>1 DEF Local
      <4>2. CASE proc' = [proc EXCEPT ![t].pc = "check"]
        BY <1>0, <3>0, <3>1, <4>2 DEF Local
      <4>3. CASE proc' = [proc EXCEPT ![t] = AfterFailure(t)]
        <5>1. AfterFailure(t).pc = "check" /\ AfterFailure(t).id = proc[t].id
          BY <1>0, <3>0 DEF Local, AfterFailure
        <5> QED
          BY <1>0, <3>0, <3>1, <4>3, <5>1
      <4> QED
        BY <3>2, <4>1, <4>2, <4>3
    <3> QED
      BY <1>0, <3>0, <3>1, <3>3, NameKept DEF Active
  <2>2. ASSUME NEW t \in Tasks, SendKeyless(t) PROVE NameInv'
    <3>0. t \in Processes
      BY <1>0
    <3>1. /\ commitTask' = commitTask /\ commitTask # t /\ ~Active(t)
          /\ \A q \in Processes : proc[q].id # t
      BY <2>2 DEF SendKeyless, Fresh, Unknown, cache
    <3>2. /\ \A q \in Processes : q # t => proc'[q] = proc[q]
          /\ proc'[t].pc = "queued" /\ proc'[t].id = None
      BY <1>0, <3>0, <2>2 DEF SendKeyless, Queued, AtRest
    <3>3. proc[t].id = None
      BY <1>a, <3>0, <3>1 DEF Active
    <3>4. SchedulerHasId' /\ OneScheduler'
      BY <1>0, <3>2 DEF NameInv, SchedulerHasId, OneScheduler
    <3>5. PublishedIsNew'
      <4> SUFFICES ASSUME NEW q \in Processes, At(q, "publish")', proc'[q].id # q
                   PROVE  ~Active(proc[q].id)'
        <5>1. \A q \in Processes : At(q, "publish")' => proc'[q].id = proc[q].id
          BY <3>2 DEF At
        <5> QED
          BY <5>1 DEF PublishedIsNew
      <4>1. q # t /\ proc'[q] = proc[q]
        BY <3>2 DEF At
      <4>2. proc[q].id \in Tasks /\ ~Active(proc[q].id) /\ proc[q].id # t
        BY <3>1, <4>1 DEF NameInv, PublishedIsNew, SchedulerHasId, At
      <4> QED
        BY <1>0, <3>2, <4>1, <4>2 DEF Active
    <3>6. DroppedStaysDropped'
      BY <1>0, <3>1, <3>2 DEF NameInv, DroppedStaysDropped, PastKey
    <3>7. KeyIsLive'
      BY <1>0, <3>1, <3>2, <3>3 DEF NameInv, KeyIsLive, Alive, Active, At
    <3> QED
      BY <3>4, <3>5, <3>6, <3>7 DEF NameInv
  <2>3. ASSUME NEW p \in Processes, Crash(p) PROVE NameInv'
    <3>1. /\ commitTask' = commitTask /\ Active(p)
          /\ proc'[p].id = None
          /\ proc'[p].pc = IF p \in Tasks THEN "lost" ELSE "rest"
          /\ \A q \in Processes : q # p =>
                IF q = proc[p].id /\ ~Active(q)
                THEN proc'[q].id = None /\ proc'[q].pc = "lost"
                ELSE proc'[q] = proc[q]
      BY <2>3 DEF Crash, AtRest, cache
    <3>2. SchedulerHasId'
      BY <3>1 DEF NameInv, SchedulerHasId
    <3>3. OneScheduler'
      BY <1>0, <3>1 DEF NameInv, OneScheduler
    <3>4. PublishedIsNew'
      <4> SUFFICES ASSUME NEW q \in Processes, At(q, "publish")', proc'[q].id # q
                   PROVE  ~Active(proc[q].id)'
        BY DEF PublishedIsNew
      <4>1. q # p /\ proc'[q] = proc[q]
        BY <3>1 DEF At
      <4>2. proc[q].id \in Tasks /\ ~Active(proc[q].id)
        BY <4>1 DEF NameInv, PublishedIsNew, SchedulerHasId, At
      <4>3. proc[q].id # p
        BY <3>1, <4>2
      <4>4. proc'[proc[q].id].pc = "lost" \/ proc'[proc[q].id] = proc[proc[q].id]
        BY <1>0, <3>1, <4>2, <4>3
      <4> QED
        BY <4>1, <4>2, <4>4 DEF Active
    <3>5. DroppedStaysDropped'
      BY <1>0, <3>1 DEF NameInv, DroppedStaysDropped, PastKey
    <3>6. KeyIsLive'
      <4> SUFFICES ASSUME NEW r \in Tasks, commitTask = r PROVE Alive(r)' \/ At(r, "lost")'
        BY <1>0, <3>1 DEF KeyIsLive
      <4>1. Alive(r) \/ At(r, "lost")
        BY <1>0 DEF NameInv, KeyIsLive
      <4>2. CASE proc'[r].pc = "lost"
        BY <4>2 DEF At
      <4>3. CASE proc'[r].pc # "lost"
        <5>1. r # p /\ proc'[r] = proc[r] /\ ~At(r, "lost")
          BY <1>0, <3>1, <4>3 DEF At
        <5>2. CASE Active(r)
          BY <5>1, <5>2 DEF Alive, Active
        <5>3. CASE ~Active(r)
          <6>1. PICK q \in Processes : proc[q].id = r
            BY <4>1, <5>1, <5>3 DEF Alive
          <6>2. q # p
            BY <1>0, <3>1, <4>3, <5>1, <5>3, <6>1
          <6>3. Active(q)
            BY <1>0, <6>1 DEF NameInv, SchedulerHasId, Active
          <6> QED
            BY <3>1, <6>1, <6>2, <6>3 DEF Alive
        <5> QED
          BY <5>2, <5>3
      <4> QED
        BY <4>2, <4>3
    <3> QED
      BY <3>2, <3>3, <3>4, <3>5, <3>6 DEF NameInv
  <2>4. ASSUME NEW p \in Processes, NEW taken \in BOOLEAN, PublishFails(p, taken)
        PROVE NameInv'
    <3> DEFINE t == proc[p].id
    <3>1. /\ t \in Tasks /\ t \in Processes /\ commitTask' = commitTask
          /\ proc[p].pc = "publish" /\ (t # p => ~Active(t))
      BY <1>0, <2>4 DEF PublishFails, cache, NameInv, SchedulerHasId, PublishedIsNew, At
    <3>2. /\ proc'[p].pc = "undo key" /\ proc'[p].id = t
          /\ \/ t # p /\ proc'[t].pc = "queued" /\ proc'[t].id = None
             \/ t # p /\ proc'[t] = proc[t]
             \/ t = p
          /\ \A q \in Processes : q \notin {p, t} => proc'[q] = proc[q]
      <4>1. CASE taken
        <5>1. p # t /\ proc' = [proc EXCEPT ![p].pc = "undo key", ![t] = Queued(TRUE)]
          BY <2>4, <4>1 DEF PublishFails
        <5> QED
          BY <1>0, <3>1, <5>1 DEF Local, Queued, AtRest
      <4>2. CASE ~taken
        <5>1. proc' = [proc EXCEPT ![p].pc = "undo key"]
          BY <2>4, <4>2 DEF PublishFails, Goto
        <5> QED
          BY <1>0, <3>1, <5>1 DEF Local
      <4> QED
        BY <4>1, <4>2
    <3>3. \A q \in Processes : q # p => proc[q].id # t
      BY <1>0, <3>1 DEF NameInv, OneScheduler
    <3>4. t # p => proc[t].id = None
      BY <1>a, <3>1 DEF Active
    <3> HIDE DEF t
    <3>5. \A q \in Processes : q # p => proc'[q].id = proc[q].id
      BY <3>2, <3>4
    <3>6. proc[p].id = t
      BY DEF t
    <3>7. SchedulerHasId'
      BY <1>0, <3>1, <3>2 DEF NameInv, SchedulerHasId
    <3>8. OneScheduler'
      <4>1. \A q \in Processes : proc'[q].id = proc[q].id
        BY <3>2, <3>5, <3>6
      <4> QED
        BY <4>1 DEF NameInv, OneScheduler
    <3>9. PublishedIsNew'
      <4> SUFFICES ASSUME NEW q \in Processes, At(q, "publish")', proc'[q].id # q
                   PROVE  ~Active(proc[q].id)'
        <5>1. \A q \in Processes : At(q, "publish")' => q # p
          BY <3>2 DEF At
        <5> QED
          BY <3>5, <5>1 DEF PublishedIsNew
      <4>1. q # p
        BY <3>2 DEF At
      <4>2. q # t
        BY <3>1, <3>2, <4>1 DEF At, Active
      <4>3. proc'[q] = proc[q]
        BY <3>2, <4>1, <4>2
      <4>4. proc[q].id \in Tasks /\ ~Active(proc[q].id) /\ proc[q].id # t
        BY <3>3, <4>1, <4>3 DEF NameInv, PublishedIsNew, SchedulerHasId, At
      <4>5. proc[q].id # p
        BY <3>1, <4>4 DEF Active
      <4> QED
        BY <1>0, <3>2, <4>3, <4>4, <4>5 DEF Active
    <3>10. DroppedStaysDropped'
      <4> SUFFICES ASSUME NEW r \in Tasks, PastKey(r)' PROVE commitTask # r
        BY <3>1 DEF DroppedStaysDropped
      <4>1. CASE r = p
        BY <3>1, <3>2, <3>6, <4>1 DEF NameInv, DroppedStaysDropped, PastKey
      <4>2. CASE r = t /\ t # p
        BY <3>1, <3>2, <4>2 DEF NameInv, DroppedStaysDropped, PastKey
      <4>3. CASE r \notin {p, t}
        BY <1>0, <3>2, <4>3 DEF NameInv, DroppedStaysDropped, PastKey
      <4> QED
        BY <4>1, <4>2, <4>3
    <3>11. KeyIsLive'
      <4> SUFFICES ASSUME NEW r \in Tasks, commitTask = r PROVE Alive(r)' \/ At(r, "lost")'
        BY <1>0, <3>1 DEF KeyIsLive
      <4>1. Alive(r) \/ At(r, "lost")
        BY <1>0 DEF NameInv, KeyIsLive
      <4>2. CASE r = t
        BY <3>2, <4>2 DEF Alive
      <4>3. CASE r # t /\ \E q \in Processes : proc[q].id = r
        BY <3>5, <3>6, <4>3 DEF Alive
      <4>4. CASE r = p
        BY <3>2, <4>4 DEF Alive, Active
      <4>5. CASE r \notin {p, t}
        BY <1>0, <3>2, <3>5, <3>6, <4>1, <4>5 DEF Alive, Active, At
      <4> QED
        BY <4>2, <4>4, <4>5
    <3> QED
      BY <3>7, <3>8, <3>9, <3>10, <3>11 DEF NameInv
  <2> QED
    BY <1>5, <2>1, <2>2, <2>3, <2>4 DEF Failure
<1>6. ASSUME KeyExpires \/ RequestExpires PROVE NameInv'
  <2>1. CASE RequestExpires
    BY <1>b, <2>1 DEF RequestExpires
  <2>2. CASE KeyExpires
    <3>1. commitTask' = None /\ proc' = proc
      BY <2>2 DEF KeyExpires, Expired
    <3> QED
      BY <1>0, <3>1 DEF NameInv, SchedulerHasId, OneScheduler, PublishedIsNew,
                        DroppedStaysDropped, KeyIsLive, Active, At
  <2> QED
    BY <1>6, <2>1, <2>2
<1>7. ASSUME UNCHANGED vars PROVE NameInv'
  BY <1>7, <1>b DEF vars, cache
<1> QED
  BY <1>1, <1>2, <1>3, <1>4, <1>5, <1>6, <1>7 DEF Next

(* The key never names a task that ended, whoever was late, crashed or      *)
(* failed: only a crash leaves a key behind.                                *)
THEOREM NoStaleKey == Spec => []KeyIsLive
<1>1. NameInv => KeyIsLive
  BY DEF NameInv
<1> QED
  BY <1>1, TypeInit, TypeStep, NameInit, NameStep, PTL DEF Spec
=============================================================================
