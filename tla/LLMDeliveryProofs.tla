------------------------- MODULE LLMDeliveryProofs -------------------------
(* Machine-checked facts about the delivery journal, for any number of      *)
(* processes, works, exchanges and calls.                                   *)
EXTENDS LLMDelivery, TLAPS

(* The program points at which a process works on an exchange, and those at *)
(* which it has a reply in its hands.                                       *)
HoldsExchange == Points \ {"idle", "reserve", "insert"}
HoldsReply == {"store", "record", "captured", "codec", "done"}

(* The local variables are set at the points that use them.                 *)
LocalsOK ==
    \A w \in Workers :
        /\ pc[w] # "idle" => req[w] \in Requests
        /\ pc[w] \in HoldsExchange => ref[w] \in Exchanges
        /\ pc[w] \in HoldsReply => got[w] \in Receipts

TypeInv == TypeOK /\ LocalsOK

-----------------------------------------------------------------------------
(* The rows written by the helpers are rows.                                *)
LEMMA RowHelpers ==
    ASSUME NEW r \in ExchangeRow
    PROVE  /\ \A b \in Receipts \cup {None} : Received(r, b) \in ExchangeRow
           /\ Sending(r) \in ExchangeRow
           /\ AfterException(r) \in ExchangeRow
           /\ \A w \in Workers : [r EXCEPT !.owner = w, !.lease = TRUE] \in ExchangeRow
           /\ \A c \in Codecs \cup {None} : [r EXCEPT !.codec = c] \in ExchangeRow
           /\ [r EXCEPT !.attempt = TRUE] \in ExchangeRow
           /\ [r EXCEPT !.usage = TRUE] \in ExchangeRow
           /\ [r EXCEPT !.lease = FALSE] \in ExchangeRow
           /\ [r EXCEPT !.resolved = TRUE] \in ExchangeRow
           /\ [r EXCEPT !.state = "purged"] \in ExchangeRow
<1>1. \A b \in Receipts \cup {None} : Received(r, b) \in ExchangeRow
  BY DEF ExchangeRow, States, Received
<1>2. Sending(r) \in ExchangeRow
  BY DEF ExchangeRow, States, Sending
<1>3. AfterException(r) \in ExchangeRow
  BY DEF ExchangeRow, States, AfterException
<1>4. \A w \in Workers : [r EXCEPT !.owner = w, !.lease = TRUE] \in ExchangeRow
  BY DEF ExchangeRow
<1>5. \A c \in Codecs \cup {None} : [r EXCEPT !.codec = c] \in ExchangeRow
  BY DEF ExchangeRow
<1>6. /\ [r EXCEPT !.attempt = TRUE] \in ExchangeRow
      /\ [r EXCEPT !.usage = TRUE] \in ExchangeRow
      /\ [r EXCEPT !.lease = FALSE] \in ExchangeRow
  BY DEF ExchangeRow
<1>7. /\ [r EXCEPT !.resolved = TRUE] \in ExchangeRow
      /\ [r EXCEPT !.state = "purged"] \in ExchangeRow
  BY DEF ExchangeRow, States
<1> QED
  BY <1>1, <1>2, <1>3, <1>4, <1>5, <1>6, <1>7

(* The table a reservation leaves behind its fallback check is a table.     *)
LEMMA TableTyped ==
    ASSUME TypeOK, NEW r \in Requests
    PROVE  TableAtReserve(r) \in [Exchanges -> ExchangeRow]
<1>1. \A e \in Exchanges : Adopted(e) \in ExchangeRow
  BY RowHelpers DEF Adopted, TypeOK
<1> QED
  BY <1>1 DEF TableAtReserve, AfterFallbackCheck, TypeOK

LEMMA LeaveTyped ==
    ASSUME TypeInv, NEW w \in Workers, Leave(w)
    PROVE  /\ pc' \in [Workers -> Points]
           /\ req' \in [Workers -> Requests \cup {None}]
           /\ ref' \in [Workers -> Exchanges \cup {None}]
           /\ seen' \in [Workers -> Receipts \cup {None}]
           /\ got' \in [Workers -> Receipts \cup {None}]
           /\ LocalsOK'
  BY DEF TypeInv, TypeOK, LocalsOK, Leave, Points, HoldsExchange, HoldsReply

LEMMA ReleaseTyped ==
    ASSUME TypeInv, NEW w \in Workers, Release(w)
    PROVE  rowLock' \in [Exchanges -> Workers \cup {Cleaner, None}]
  BY DEF TypeInv, TypeOK, Release

LEMMA TypeInit == Init => TypeInv
  BY ConstantsAssumption DEF Init, TypeInv, TypeOK, LocalsOK, Points, AbsentRow,
     ExchangeRow, States, HoldsExchange, HoldsReply

LEMMA TypeStep == TypeInv /\ [Next]_vars => TypeInv'
<1> SUFFICES ASSUME TypeInv, [Next]_vars PROVE TypeInv'
  OBVIOUS
<1> USE DEF TypeInv
<1>1. ASSUME NEW w \in Workers, NEW r \in Requests, Begin(w, r) PROVE TypeInv'
  BY <1>1 DEF TypeOK, LocalsOK, Begin, Goto, dbVars, history, Points,
     HoldsExchange, HoldsReply
<1>2. ASSUME NEW w \in Workers, NEW e \in Exchanges, ReserveSaved(w, e) PROVE TypeInv'
  <2>1. req[w] \in Requests
    BY <1>2 DEF LocalsOK, ReserveSaved
  <2>2. TableAtReserve(req[w]) \in [Exchanges -> ExchangeRow]
    BY <2>1, TableTyped
  <2>3. row' \in [Exchanges -> ExchangeRow]
    <3> DEFINE T == TableAtReserve(req[w])
    <3>1. [T[e] EXCEPT !.owner = w, !.lease = TRUE] \in ExchangeRow
      BY <2>2, RowHelpers
    <3>2. row' = T \/ row' = [T EXCEPT ![e] = [T[e] EXCEPT !.owner = w, !.lease = TRUE]]
      BY <1>2, <2>2 DEF ReserveSaved, Reclaim, Replay
    <3> HIDE DEF T
    <3> QED
      BY <2>2, <3>1, <3>2 DEF T
  <2>4. pc' \in [Workers -> Points] /\ pc'[w] \in {"claimed", "replay"}
        /\ \A v \in Workers \ {w} : pc'[v] = pc[v]
    BY <1>2 DEF TypeOK, ReserveSaved, Reclaim, Replay, Goto, Points
  <2> QED
    BY <1>2, <2>1, <2>3, <2>4 DEF TypeOK, LocalsOK, ReserveSaved, history,
       HoldsExchange, HoldsReply
<1>3. ASSUME NEW w \in Workers, ReserveRefused(w) PROVE TypeInv'
  BY <1>3, LeaveTyped DEF TypeOK, ReserveRefused, dbVars, history
<1>4. ASSUME NEW w \in Workers, ReserveFree(w) PROVE TypeInv'
  BY <1>4 DEF TypeOK, LocalsOK, ReserveFree, Goto, dbVars, history, Points,
     HoldsExchange, HoldsReply
<1>5. ASSUME NEW w \in Workers, NEW e \in Exchanges, Insert(w, e) PROVE TypeInv'
  <2>1. req[w] \in Requests /\ req[w] \in Request
    BY <1>5, ConstantsAssumption DEF LocalsOK, Insert
  <2>2. TableAtReserve(req[w]) \in [Exchanges -> ExchangeRow]
    BY <2>1, TableTyped
  <2>3. [AbsentRow EXCEPT !.state = "reserved", !.digest = req[w].digest,
                          !.codec = req[w].codec, !.owner = w,
                          !.lease = TRUE, !.run = req[w].run] \in ExchangeRow
    BY <2>1 DEF AbsentRow, ExchangeRow, States, Request
  <2>4. row' \in [Exchanges -> ExchangeRow]
    BY <1>5, <2>2, <2>3 DEF Insert
  <2> QED
    BY <1>5, <2>1, <2>4 DEF TypeOK, LocalsOK, Insert, Goto, Points,
       HoldsExchange, HoldsReply
<1>6. ASSUME NEW w \in Workers, InsertCollides(w) PROVE TypeInv'
  BY <1>6, LeaveTyped DEF TypeOK, InsertCollides, dbVars, history
<1>7. ASSUME NEW w \in Workers, BeforeSendRefuses(w) \/ ClaimLost(w) PROVE TypeInv'
  BY <1>7, LeaveTyped DEF TypeOK, BeforeSendRefuses, ClaimLost, dbVars, history
<1>8. ASSUME NEW w \in Workers, ClaimSend(w) PROVE TypeInv'
  <2>1. ref[w] \in Exchanges
    BY <1>8 DEF LocalsOK, ClaimSend, HoldsExchange, Points
  <2>2. row' \in [Exchanges -> ExchangeRow]
    BY <1>8, <2>1, RowHelpers DEF ClaimSend, TypeOK
  <2> QED
    BY <1>8, <2>1, <2>2 DEF TypeOK, LocalsOK, ClaimSend, Goto, history, Points,
       HoldsExchange, HoldsReply
<1>9. ASSUME NEW w \in Workers, Send(w) PROVE TypeInv'
  BY <1>9 DEF TypeOK, LocalsOK, Send, LockedForBind, Goto, Points,
     HoldsExchange, HoldsReply
<1>10. ASSUME NEW w \in Workers, NEW b \in Receipts, ReplyArrives(w, b) PROVE TypeInv'
  BY <1>10 DEF TypeOK, LocalsOK, ReplyArrives, Goto, dbVars, Points,
     HoldsExchange, HoldsReply
<1>11. ASSUME NEW w \in Workers, StoreBody(w) PROVE TypeInv'
  BY <1>11 DEF TypeOK, LocalsOK, StoreBody, Goto, dbVars, history, Points,
     HoldsExchange, HoldsReply
<1>12. ASSUME NEW w \in Workers, RecordReceived(w) PROVE TypeInv'
  <2>1. ref[w] \in Exchanges /\ got[w] \in Receipts
    BY <1>12 DEF LocalsOK, RecordReceived, HoldsExchange, HoldsReply, Points
  <2>2. row' \in [Exchanges -> ExchangeRow]
    BY <1>12, <2>1, RowHelpers DEF RecordReceived, TypeOK
  <2> QED
    BY <1>12, <2>1, <2>2 DEF TypeOK, LocalsOK, RecordReceived, Goto, history,
       Points, HoldsExchange, HoldsReply
<1>13. ASSUME NEW w \in Workers, SendReturns(w) PROVE TypeInv'
  BY <1>13 DEF TypeOK, LocalsOK, SendReturns, Goto, dbVars, history, Points,
     HoldsExchange, HoldsReply
<1>14. ASSUME NEW w \in Workers, BindCommits(w) PROVE TypeInv'
  <2>1. ref[w] \in Exchanges /\ got[w] \in Receipts
    BY <1>14 DEF LocalsOK, BindCommits, HoldsExchange, HoldsReply, Points
  <2>2. row' \in [Exchanges -> ExchangeRow]
    BY <1>14, <2>1, RowHelpers DEF BindCommits, TypeOK
  <2> QED
    BY <1>14, <2>1, <2>2, ReleaseTyped DEF TypeOK, LocalsOK, BindCommits, Goto,
       Points, HoldsExchange, HoldsReply
<1>15. ASSUME NEW w \in Workers, SendRaises(w) PROVE TypeInv'
  BY <1>15, ReleaseTyped DEF TypeOK, LocalsOK, SendRaises, Goto, history, Points,
     HoldsExchange, HoldsReply
<1>16. ASSUME NEW w \in Workers, MarkUnknown(w) PROVE TypeInv'
  <2>1. row' \in [Exchanges -> ExchangeRow]
    BY <1>16, RowHelpers DEF MarkUnknown, TypeOK
  <2> QED
    BY <1>16, <2>1, LeaveTyped DEF TypeOK, MarkUnknown, history
<1>17. ASSUME NEW w \in Workers, ReadRow(w) PROVE TypeInv'
  <2>1. row[ref[w]].responseDigest \in Receipts \cup {None}
    BY <1>17 DEF TypeOK, LocalsOK, ReadRow, HoldsExchange, Points, ExchangeRow
  <2> QED
    BY <1>17, <2>1 DEF TypeOK, LocalsOK, ReadRow, Goto, dbVars, history, Points,
       HoldsExchange, HoldsReply
<1>18. ASSUME NEW w \in Workers, ReadBody(w) PROVE TypeInv'
  <2>1. ref[w] \in Exchanges /\ file[ref[w]] \in Receipts
    BY <1>18 DEF TypeOK, LocalsOK, ReadBody, Readable, HoldsExchange, Points
  <2>2. row' \in [Exchanges -> ExchangeRow]
    BY <1>18, <2>1, RowHelpers DEF ReadBody, TypeOK
  <2> QED
    BY <1>18, <2>1, <2>2 DEF TypeOK, LocalsOK, ReadBody, Goto, history, Points,
       HoldsExchange, HoldsReply
<1>19. ASSUME NEW w \in Workers, ReadRefused(w) \/ CodecChanged(w) \/ SkipUsage(w)
       PROVE TypeInv'
  BY <1>19, LeaveTyped DEF TypeOK, ReadRefused, CodecChanged, SkipUsage, dbVars, history
<1>20. ASSUME NEW w \in Workers, AdoptCodec(w) PROVE TypeInv'
  <2>1. ref[w] \in Exchanges /\ req[w] \in Requests /\ req[w].codec \in Codecs \cup {None}
    BY <1>20, ConstantsAssumption DEF LocalsOK, AdoptCodec, HoldsExchange, Points, Request
  <2>2. row' \in [Exchanges -> ExchangeRow]
    BY <1>20, <2>1, RowHelpers DEF AdoptCodec, TypeOK
  <2> QED
    BY <1>20, <2>1, <2>2 DEF TypeOK, LocalsOK, AdoptCodec, Goto, history, Points,
       HoldsExchange, HoldsReply
<1>21. ASSUME NEW w \in Workers, AssociateAttempt(w) PROVE TypeInv'
  <2>1. row' \in [Exchanges -> ExchangeRow]
    BY <1>21, RowHelpers DEF AssociateAttempt, TypeOK
  <2> QED
    BY <1>21, <2>1 DEF TypeOK, LocalsOK, AssociateAttempt, callVars
<1>22. ASSUME NEW w \in Workers, RecordUsage(w) PROVE TypeInv'
  <2>1. [row[ref[w]] EXCEPT !.usage = TRUE] \in ExchangeRow
    BY <1>22, RowHelpers DEF RecordUsage, LocalsOK, TypeOK, Points, HoldsExchange
  <2>2. row' \in [Exchanges -> ExchangeRow]
    BY <1>22, <2>1 DEF RecordUsage, AddUsage, TypeOK
  <2>3. billed' \in [Exchanges -> Nat]
    BY <1>22 DEF RecordUsage, AddUsage, TypeOK
  <2> QED
    BY <1>22, <2>2, <2>3, LeaveTyped DEF TypeOK, RecordUsage
<1>23. ASSUME NEW w \in Workers, Crash(w) PROVE TypeInv'
  BY <1>23, LeaveTyped, ReleaseTyped DEF TypeOK, Crash, history
<1>24. ASSUME NEW e \in Exchanges, LeaseExpires(e) PROVE TypeInv'
  <2>1. row' \in [Exchanges -> ExchangeRow]
    BY <1>24, RowHelpers DEF LeaseExpires, TypeOK
  <2> QED
    BY <1>24, <2>1 DEF TypeOK, LocalsOK, LeaseExpires, callVars, history
<1>25. ASSUME NEW e \in Exchanges, CleanUp(e) PROVE TypeInv'
  <2>1. CASE Unlink(e)
    BY <2>1 DEF TypeOK, LocalsOK, Unlink, callVars, history
  <2>2. CASE Purge(e)
    <3>1. row' \in [Exchanges -> ExchangeRow]
      BY <2>2, RowHelpers DEF Purge, TypeOK
    <3> QED
      BY <2>2, <3>1 DEF TypeOK, LocalsOK, Purge, callVars, history
  <2>3. CASE CleanerCrashes(e)
    BY <2>3 DEF TypeOK, LocalsOK, CleanerCrashes, callVars, history
  <2> QED
    BY <1>25, <2>1, <2>2, <2>3 DEF CleanUp
<1>26. ASSUME NEW x \in Runs, RunFinishes(x) PROVE TypeInv'
  BY <1>26 DEF TypeOK, LocalsOK, RunFinishes, dbVars, callVars, history
<1>27. ASSUME NEW x \in Runs, Resolve(x) PROVE TypeInv'
  <2>1. row' \in [Exchanges -> ExchangeRow]
    BY <1>27, RowHelpers DEF Resolve, TypeOK
  <2> QED
    BY <1>27, <2>1 DEF TypeOK, LocalsOK, Resolve, callVars, history
<1>28. CASE UNCHANGED vars
  BY <1>28 DEF TypeOK, LocalsOK, vars, dbVars, callVars, history
<1> QED
  BY <1>1, <1>2, <1>3, <1>4, <1>5, <1>6, <1>7, <1>8, <1>9, <1>10, <1>11, <1>12,
     <1>13, <1>14, <1>15, <1>16, <1>17, <1>18, <1>19, <1>20, <1>21, <1>22, <1>23,
     <1>24, <1>25, <1>26, <1>27, <1>28
     DEF Next, Step, Reserve, Transport, ReplaySaved

(* The journal, the files, the row locks and the local variables of every   *)
(* process keep their types; a local may be unset.                          *)
THEOREM TypeCorrect == Spec => []TypeOK
<1>1. Spec => []TypeInv
  BY TypeInit, TypeStep, PTL DEF Spec
<1> QED
  BY <1>1, PTL DEF TypeInv
-----------------------------------------------------------------------------
(* Why work is paid at most once.  A key that was transported has a fence   *)
(* whose exchange left "reserved"; only one process can stand between the   *)
(* commit of "sending" and the transport; and its keys are exactly those    *)
(* fenced by the exchange it holds.                                         *)
FencedIsPresent ==
    \A k \in Works : fence[k] # None => row[fence[k]].state # "absent"

UnfencedIsUnpaid == \A k \in Works : fence[k] = None => paid[k] = 0

SenderOwnsKeys ==
    \A w \in Workers : pc[w] \in {"claimed", "call"} =>
        \A k \in req[w].keys : fence[k] = ref[w]

SenderIsFirst ==
    \A w \in Workers : pc[w] = "call" =>
        /\ row[ref[w]].state # "reserved"
        /\ \A k \in req[w].keys : paid[k] = 0

OneSender ==
    \A v, w \in Workers :
        pc[v] = "call" /\ pc[w] = "call" /\ ref[v] = ref[w] => v = w

SpendInv ==
    /\ FencedIsPresent
    /\ UnfencedIsUnpaid
    /\ ReservedIsUnsent
    /\ SenderOwnsKeys
    /\ SenderIsFirst
    /\ OneSender
    /\ PaidOnce

(* Most steps are quiet: they move no process towards the provider, touch   *)
(* no fence, and bring no exchange back to "reserved".                      *)
QuietRows ==
    \A e \in Exchanges :
        /\ row'[e].state = "reserved" => row[e].state = "reserved"
        /\ row[e].state # "absent" => row'[e].state # "absent"

QuietCalls ==
    \A w \in Workers : pc'[w] \in {"claimed", "call"} =>
        pc[w] = pc'[w] /\ ref'[w] = ref[w] /\ req'[w] = req[w]

Quiet == QuietRows /\ QuietCalls /\ UNCHANGED <<fence, paid>>

LEMMA QuietKeepsSpendInv ==
    ASSUME TypeInv, SpendInv, Quiet
    PROVE  SpendInv'
<1> USE DEF Quiet, TypeInv
<1>1. FencedIsPresent'
  BY DEF SpendInv, FencedIsPresent, QuietRows, TypeOK
<1>2. UnfencedIsUnpaid'
  BY DEF SpendInv, UnfencedIsUnpaid
<1>3. ReservedIsUnsent'
  BY DEF SpendInv, ReservedIsUnsent, QuietRows, Members
<1>4. SenderOwnsKeys'
  BY DEF SpendInv, SenderOwnsKeys, QuietCalls
<1>5. SenderIsFirst'
  <2> SUFFICES ASSUME NEW w \in Workers, pc'[w] = "call"
               PROVE  /\ row'[ref'[w]].state # "reserved"
                      /\ \A k \in req'[w].keys : paid'[k] = 0
    BY DEF SenderIsFirst
  <2>1. pc[w] = "call" /\ ref'[w] = ref[w] /\ req'[w] = req[w]
    BY DEF QuietCalls
  <2>2. ref[w] \in Exchanges
    BY <2>1 DEF LocalsOK, HoldsExchange, Points
  <2> QED
    BY <2>1, <2>2 DEF SpendInv, SenderIsFirst, QuietRows
<1>6. OneSender'
  BY DEF SpendInv, OneSender, QuietCalls
<1>7. PaidOnce'
  BY DEF SpendInv, PaidOnce
<1> QED
  BY <1>1, <1>2, <1>3, <1>4, <1>5, <1>6, <1>7 DEF SpendInv

LEMMA SpendInit == Init => SpendInv
  BY DEF Init, SpendInv, FencedIsPresent, UnfencedIsUnpaid, ReservedIsUnsent,
     SenderOwnsKeys, SenderIsFirst, OneSender, PaidOnce, Members, AbsentRow

(* The fallback check may adopt a reply, which is a quiet change of a row.  *)
LEMMA TableQuiet ==
    ASSUME TypeInv, NEW r \in Requests, NEW e \in Exchanges
    PROVE  /\ TableAtReserve(r)[e].state \in {row[e].state, "received"}
           /\ row[e].state = "absent" => TableAtReserve(r)[e] = row[e]
<1>1. row[e] \in ExchangeRow
  BY DEF TypeInv, TypeOK
<1>2. Adopted(e).state \in {row[e].state, "received"}
  BY <1>1 DEF Adopted, Received, ExchangeRow
<1> QED
  BY <1>1, <1>2 DEF TableAtReserve, AfterFallbackCheck, PrimaryExchange

(* The call of a process is over, or it died.                               *)
LEMMA LeaveQuiet ==
    ASSUME TypeInv, NEW w \in Workers, Leave(w)
    PROVE  QuietCalls
  BY DEF TypeInv, TypeOK, Leave, QuietCalls

(* A process moves to a point that is not one of the sender's.              *)
LEMMA GotoQuiet ==
    ASSUME TypeInv, NEW w \in Workers, NEW p \in Points \ {"claimed", "call"},
           Goto(w, p), \A v \in Workers \ {w} : ref'[v] = ref[v] /\ req'[v] = req[v]
    PROVE  QuietCalls
  BY DEF TypeInv, TypeOK, Goto, QuietCalls

LEMMA SameRowQuiet == ASSUME row' = row PROVE QuietRows
  BY DEF QuietRows

(* The row of one exchange is replaced.                                     *)
LEMMA OneRowQuiet ==
    ASSUME TypeInv, NEW e \in Exchanges, NEW r,
           row' = [row EXCEPT ![e] = r], r.state \notin {"absent", "reserved"}
    PROVE  QuietRows
  BY DEF TypeInv, TypeOK, QuietRows

LEMMA OneRowSameState ==
    ASSUME TypeInv, NEW e \in Exchanges, NEW r,
           row' = [row EXCEPT ![e] = r], r.state = row[e].state
    PROVE  QuietRows
  BY DEF TypeInv, TypeOK, QuietRows

LEMMA SpendStep == TypeInv /\ TypeInv' /\ SpendInv /\ [Next]_vars => SpendInv'
<1> SUFFICES ASSUME TypeInv, TypeInv', SpendInv, [Next]_vars PROVE SpendInv'
  OBVIOUS
<1>1. ASSUME NEW w \in Workers, NEW r \in Requests, Begin(w, r) PROVE SpendInv'
  <2>1. QuietCalls
    BY <1>1 DEF TypeInv, TypeOK, Begin, Goto, QuietCalls
  <2> QED
    BY <1>1, <2>1, SameRowQuiet, QuietKeepsSpendInv DEF Begin, dbVars, history, Quiet
<1>2. ASSUME NEW w \in Workers, NEW e \in Exchanges, ReserveSaved(w, e) PROVE SpendInv'
  <2>1. req[w] \in Requests /\ pc[w] = "reserve"
    BY <1>2 DEF TypeInv, LocalsOK, ReserveSaved
  <2> DEFINE T == TableAtReserve(req[w])
  <2>2. T \in [Exchanges -> ExchangeRow]
    BY <2>1, TableTyped DEF TypeInv
  <2>3. \A x \in Exchanges : T[x].state \in {row[x].state, "received"}
    BY <2>1, TableQuiet
  <2>4. \A x \in Exchanges : row[x].state = "absent" => T[x] = row[x]
    BY <2>1, TableQuiet
  <2> HIDE DEF T
  <2>5. \A x \in Exchanges : row'[x].state = T[x].state
    <3>1. row' = T \/ row' = [T EXCEPT ![e] = [T[e] EXCEPT !.owner = w, !.lease = TRUE]]
      BY <1>2, <2>2 DEF ReserveSaved, Reclaim, Replay, T
    <3>2. [T[e] EXCEPT !.owner = w, !.lease = TRUE].state = T[e].state
      BY <2>2 DEF ExchangeRow
    <3> QED
      BY <2>2, <3>1, <3>2
  <2>6. QuietRows
    BY <2>3, <2>4, <2>5 DEF QuietRows
  <2>7. \A k \in req[w].keys : fence[k] = e
    BY <1>2 DEF ReserveSaved, Matches
  <2>8. UNCHANGED <<fence, paid, req>> /\ ref' = [ref EXCEPT ![w] = e]
    BY <1>2 DEF ReserveSaved, history
  <2>9. pc'[w] \in {"claimed", "replay"} /\ \A v \in Workers \ {w} : pc'[v] = pc[v]
    BY <1>2 DEF TypeInv, TypeOK, ReserveSaved, Reclaim, Replay, Goto
  <2>10. \A v \in Workers \ {w} : ref'[v] = ref[v]
    BY <2>8 DEF TypeInv, TypeOK
  <2>11. ref'[w] = e
    BY <2>8 DEF TypeInv, TypeOK
  <2>12. FencedIsPresent' /\ UnfencedIsUnpaid' /\ ReservedIsUnsent' /\ PaidOnce'
    BY <2>6, <2>8 DEF SpendInv, FencedIsPresent, UnfencedIsUnpaid, ReservedIsUnsent,
       PaidOnce, QuietRows, Members, TypeInv, TypeOK
  <2>13. SenderOwnsKeys'
    BY <2>7, <2>8, <2>9, <2>10, <2>11 DEF SpendInv, SenderOwnsKeys
  <2>14. SenderIsFirst'
    <3> SUFFICES ASSUME NEW v \in Workers, pc'[v] = "call"
                 PROVE  /\ row'[ref'[v]].state # "reserved"
                        /\ \A k \in req'[v].keys : paid'[k] = 0
      BY DEF SenderIsFirst
    <3>1. v # w /\ pc[v] = "call" /\ ref'[v] = ref[v]
      BY <2>9, <2>10
    <3>2. ref[v] \in Exchanges
      BY <3>1 DEF TypeInv, LocalsOK, HoldsExchange, Points
    <3> QED
      BY <3>1, <3>2, <2>6, <2>8 DEF SpendInv, SenderIsFirst, QuietRows
  <2>15. OneSender'
    BY <2>9, <2>10 DEF SpendInv, OneSender
  <2> QED
    BY <2>12, <2>13, <2>14, <2>15 DEF SpendInv
<1>3. ASSUME NEW w \in Workers,
             \/ ReserveRefused(w) \/ InsertCollides(w) \/ BeforeSendRefuses(w)
             \/ ClaimLost(w) \/ ReadRefused(w) \/ CodecChanged(w) \/ SkipUsage(w)
      PROVE  SpendInv'
  <2>1. Leave(w) /\ UNCHANGED <<row, fence, paid>>
    BY <1>3 DEF ReserveRefused, InsertCollides, BeforeSendRefuses, ClaimLost,
       ReadRefused, CodecChanged, SkipUsage, dbVars, history
  <2> QED
    BY <2>1, LeaveQuiet, SameRowQuiet, QuietKeepsSpendInv DEF Quiet
<1>4. ASSUME NEW w \in Workers, ReserveFree(w) PROVE SpendInv'
  BY <1>4, GotoQuiet, SameRowQuiet, QuietKeepsSpendInv
     DEF ReserveFree, dbVars, history, Quiet, Points
<1>5. ASSUME NEW w \in Workers, NEW e \in Exchanges, Insert(w, e) PROVE SpendInv'
  <2>1. req[w] \in Requests /\ pc[w] = "insert" /\ row[e].state = "absent"
    BY <1>5 DEF TypeInv, LocalsOK, Insert, MayInsert
  <2>2. \A x \in Exchanges : row'[x].state = IF x = e THEN "reserved"
                                             ELSE TableAtReserve(req[w])[x].state
    <3>1. TableAtReserve(req[w]) \in [Exchanges -> ExchangeRow]
      BY <2>1, TableTyped DEF TypeInv
    <3> QED
      BY <1>5, <3>1 DEF Insert, AbsentRow
  <2>3. \A x \in Exchanges \ {e} : /\ row'[x].state \in {row[x].state, "received"}
                                   /\ row[x].state # "absent" => row'[x].state # "absent"
    BY <2>1, <2>2, TableQuiet
  <2>4. \A k \in Works : fence[k] # e
    BY <2>1, ConstantsAssumption DEF SpendInv, FencedIsPresent, TypeInv, TypeOK
  <2>5. \A k \in req[w].keys : fence[k] = None
    BY <1>5 DEF Insert, MayInsert, Claimed
  <2>6. \A k \in Works : fence'[k] = IF k \in req[w].keys THEN e ELSE fence[k]
    BY <1>5 DEF Insert
  <2>7. UNCHANGED <<paid, req>> /\ ref' = [ref EXCEPT ![w] = e]
        /\ pc' = [pc EXCEPT ![w] = "claimed"]
    BY <1>5 DEF Insert, Goto
  <2>8. req[w].keys \subseteq Works
    BY <2>1, ConstantsAssumption DEF Request
  <2>9. \A v \in Workers \ {w} : ref'[v] = ref[v] /\ pc'[v] = pc[v]
    BY <2>7 DEF TypeInv, TypeOK
  <2>10. ref'[w] = e /\ pc'[w] = "claimed"
    BY <2>7 DEF TypeInv, TypeOK
  <2>11. FencedIsPresent'
    BY <2>2, <2>3, <2>6 DEF SpendInv, FencedIsPresent, TypeInv, TypeOK
  <2>12. UnfencedIsUnpaid' /\ PaidOnce'
    BY <2>6, <2>7, ConstantsAssumption DEF SpendInv, UnfencedIsUnpaid, PaidOnce
  <2>13. ReservedIsUnsent'
    <3> SUFFICES ASSUME NEW x \in Exchanges, row'[x].state = "reserved",
                        NEW k \in Works, fence'[k] = x
                 PROVE  paid'[k] = 0
      BY DEF ReservedIsUnsent, Members
    <3>1. CASE x = e
      BY <3>1, <2>4, <2>5, <2>6, <2>7 DEF SpendInv, UnfencedIsUnpaid
    <3>2. CASE x # e
      <4>1. row[x].state = "reserved" /\ fence[k] = x
        BY <3>2, <2>3, <2>6
      <4> QED
        BY <4>1, <2>7 DEF SpendInv, ReservedIsUnsent, Members
    <3> QED
      BY <3>1, <3>2
  <2>14. \A v \in Workers \ {w} : pc[v] \in {"claimed", "call"} =>
            /\ req[v] \in Requests
            /\ ref[v] \in Exchanges
            /\ ref[v] # e
            /\ \A k \in req[v].keys : k \in Works /\ fence[k] = ref[v]
    <3> SUFFICES ASSUME NEW v \in Workers \ {w}, pc[v] \in {"claimed", "call"}
                 PROVE  /\ req[v] \in Requests
                        /\ ref[v] \in Exchanges
                        /\ ref[v] # e
                        /\ \A k \in req[v].keys : k \in Works /\ fence[k] = ref[v]
      OBVIOUS
    <3>1. req[v] \in Requests /\ ref[v] \in Exchanges
      BY DEF TypeInv, LocalsOK, HoldsExchange, Points
    <3>2. \A k \in req[v].keys : k \in Works /\ fence[k] = ref[v]
      BY <3>1, ConstantsAssumption DEF SpendInv, SenderOwnsKeys, Request
    <3>3. req[v].keys # {}
      BY <3>1, ConstantsAssumption
    <3> QED
      BY <3>1, <3>2, <3>3, <2>4
  <2>15. SenderOwnsKeys'
    <3> SUFFICES ASSUME NEW v \in Workers, pc'[v] \in {"claimed", "call"},
                        NEW k \in req'[v].keys
                 PROVE  fence'[k] = ref'[v]
      BY DEF SenderOwnsKeys
    <3>1. CASE v = w
      BY <3>1, <2>6, <2>7, <2>8, <2>10
    <3>2. CASE v # w
      <4>1. k \in Works /\ fence[k] = ref[v] /\ ref[v] \in Exchanges
        BY <3>2, <2>7, <2>9, <2>14
      <4>2. k \notin req[w].keys
        BY <4>1, <2>5, ConstantsAssumption
      <4> QED
        BY <3>2, <4>1, <4>2, <2>6, <2>9
    <3> QED
      BY <3>1, <3>2
  <2>16. SenderIsFirst'
    <3> SUFFICES ASSUME NEW v \in Workers, pc'[v] = "call"
                 PROVE  /\ row'[ref'[v]].state # "reserved"
                        /\ \A k \in req'[v].keys : paid'[k] = 0
      BY DEF SenderIsFirst
    <3>1. v # w /\ pc[v] = "call" /\ ref'[v] = ref[v]
      BY <2>9, <2>10
    <3>2. ref[v] \in Exchanges \ {e}
      BY <3>1, <2>14
    <3> QED
      BY <3>1, <3>2, <2>3, <2>7 DEF SpendInv, SenderIsFirst
  <2>17. OneSender'
    BY <2>9, <2>10 DEF SpendInv, OneSender
  <2> QED
    BY <2>11, <2>12, <2>13, <2>15, <2>16, <2>17 DEF SpendInv
<1>6. ASSUME NEW w \in Workers, ClaimSend(w) PROVE SpendInv'
  <2>1. pc[w] = "claimed" /\ ref[w] \in Exchanges /\ req[w] \in Requests
    BY <1>6 DEF ClaimSend, TypeInv, LocalsOK, HoldsExchange, Points
  <2>2. row[ref[w]].state = "reserved"
    BY <1>6 DEF ClaimSend, MayClaim
  <2>3. row' = [row EXCEPT ![ref[w]] = Sending(row[ref[w]])]
        /\ pc' = [pc EXCEPT ![w] = "call"] /\ UNCHANGED <<fence, paid, req, ref>>
    BY <1>6 DEF ClaimSend, Goto, history
  <2>4. Sending(row[ref[w]]).state = "sending"
    BY <2>1 DEF Sending, TypeInv, TypeOK, ExchangeRow
  <2>5. QuietRows /\ row'[ref[w]].state = "sending"
    BY <2>1, <2>3, <2>4, OneRowQuiet DEF TypeInv, TypeOK
  <2>6. pc'[w] = "call" /\ \A v \in Workers \ {w} : pc'[v] = pc[v]
    BY <2>3 DEF TypeInv, TypeOK
  <2>7. \A k \in req[w].keys : k \in Works /\ fence[k] = ref[w] /\ paid[k] = 0
    BY <2>1, <2>2, ConstantsAssumption
       DEF SpendInv, SenderOwnsKeys, ReservedIsUnsent, Members, Request
  <2>8. \A v \in Workers \ {w} : pc[v] = "call" => ref[v] # ref[w]
    BY <2>2 DEF SpendInv, SenderIsFirst
  <2>9. FencedIsPresent' /\ UnfencedIsUnpaid' /\ ReservedIsUnsent' /\ PaidOnce'
    BY <2>3, <2>5 DEF SpendInv, FencedIsPresent, UnfencedIsUnpaid, ReservedIsUnsent,
       PaidOnce, QuietRows, Members, TypeInv, TypeOK
  <2>10. SenderOwnsKeys'
    BY <2>1, <2>3, <2>6 DEF SpendInv, SenderOwnsKeys
  <2>11. SenderIsFirst'
    <3> SUFFICES ASSUME NEW v \in Workers, pc'[v] = "call"
                 PROVE  /\ row'[ref[v]].state # "reserved"
                        /\ \A k \in req[v].keys : paid[k] = 0
      BY <2>3 DEF SenderIsFirst
    <3>1. CASE v = w
      BY <3>1, <2>5, <2>7
    <3>2. CASE v # w
      <4>1. pc[v] = "call" /\ ref[v] \in Exchanges
        BY <3>2, <2>6 DEF TypeInv, LocalsOK, HoldsExchange, Points
      <4> QED
        BY <4>1, <2>5 DEF SpendInv, SenderIsFirst, QuietRows
    <3> QED
      BY <3>1, <3>2
  <2>12. OneSender'
    BY <2>3, <2>6, <2>8 DEF SpendInv, OneSender
  <2> QED
    BY <2>9, <2>10, <2>11, <2>12 DEF SpendInv
<1>7. ASSUME NEW w \in Workers, Send(w) PROVE SpendInv'
  <2>1. pc[w] = "call" /\ ref[w] \in Exchanges /\ req[w] \in Requests
    BY <1>7 DEF Send, TypeInv, LocalsOK, HoldsExchange, Points
  <2>2. UNCHANGED <<fence, row, req, ref>> /\ pc' = [pc EXCEPT ![w] = "wait"]
    BY <1>7 DEF Send, Goto
  <2>3. \A k \in Works : paid'[k] = IF k \in req[w].keys THEN 1 ELSE paid[k]
    BY <1>7, <2>1 DEF Send, SpendInv, SenderIsFirst
  <2>4. \A k \in req[w].keys : k \in Works /\ fence[k] = ref[w]
    BY <2>1, ConstantsAssumption DEF SpendInv, SenderOwnsKeys, Request
  <2>5. row[ref[w]].state # "reserved"
    BY <2>1 DEF SpendInv, SenderIsFirst
  <2>6. QuietCalls
    BY <2>2 DEF QuietCalls, TypeInv, TypeOK
  <2>7. FencedIsPresent' /\ SenderOwnsKeys' /\ OneSender'
    BY <2>2, <2>6 DEF SpendInv, FencedIsPresent, SenderOwnsKeys, OneSender, QuietCalls
  <2>8. UnfencedIsUnpaid'
    BY <2>1, <2>2, <2>3, <2>4, ConstantsAssumption DEF SpendInv, UnfencedIsUnpaid
  <2>9. ReservedIsUnsent'
    BY <2>2, <2>3, <2>4, <2>5 DEF SpendInv, ReservedIsUnsent, Members
  <2>10. SenderIsFirst'
    <3> SUFFICES ASSUME NEW v \in Workers, pc'[v] = "call"
                 PROVE  /\ row[ref[v]].state # "reserved"
                        /\ \A k \in req[v].keys : paid'[k] = 0
      BY <2>2 DEF SenderIsFirst
    <3>1. v # w /\ pc[v] = "call"
      BY <2>2 DEF TypeInv, TypeOK
    <3>2. ref[v] # ref[w]
      BY <2>1, <3>1 DEF SpendInv, OneSender
    <3>3. req[v] \in Requests
      BY <3>1 DEF TypeInv, LocalsOK
    <3>4. \A k \in req[v].keys : k \in Works /\ fence[k] = ref[v]
      BY <3>1, <3>3, ConstantsAssumption DEF SpendInv, SenderOwnsKeys, Request
    <3>5. \A k \in req[v].keys : k \notin req[w].keys
      BY <3>2, <3>4, <2>4
    <3> QED
      BY <3>1, <3>4, <3>5, <2>3 DEF SpendInv, SenderIsFirst
  <2>11. PaidOnce'
    BY <2>3 DEF SpendInv, PaidOnce
  <2> QED
    BY <2>7, <2>8, <2>9, <2>10, <2>11 DEF SpendInv
<1>8. ASSUME NEW w \in Workers,
             \/ \E b \in Receipts : ReplyArrives(w, b)
             \/ StoreBody(w) \/ SendReturns(w) \/ ReadRow(w)
      PROVE  SpendInv'
  <2>1. QuietCalls
    BY <1>8 DEF ReplyArrives, StoreBody, SendReturns, ReadRow, Goto, QuietCalls,
       TypeInv, TypeOK
  <2>2. UNCHANGED <<row, fence, paid>>
    BY <1>8 DEF ReplyArrives, StoreBody, SendReturns, ReadRow, dbVars, history
  <2> QED
    BY <2>1, <2>2, SameRowQuiet, QuietKeepsSpendInv DEF Quiet
<1>9. ASSUME NEW w \in Workers, RecordReceived(w) \/ BindCommits(w) \/ ReadBody(w)
      PROVE  SpendInv'
  <2>1. ref[w] \in Exchanges
    BY <1>9 DEF RecordReceived, BindCommits, ReadBody, TypeInv, LocalsOK,
       HoldsExchange, Points
  <2>2. QuietCalls
    BY <1>9 DEF RecordReceived, BindCommits, ReadBody, Goto, QuietCalls, TypeInv, TypeOK
  <2>3. \A x : Received(row[ref[w]], x).state = "received"
    BY <2>1 DEF Received, TypeInv, TypeOK, ExchangeRow
  <2>4. \A x : [Received(row[ref[w]], x) EXCEPT !.attempt = TRUE].state = "received"
    BY <2>1 DEF Received, TypeInv, TypeOK, ExchangeRow
  <2>5. QuietRows
    BY <1>9, <2>1, <2>3, <2>4, OneRowQuiet, SameRowQuiet
       DEF RecordReceived, BindCommits, ReadBody
  <2>6. UNCHANGED <<fence, paid>>
    BY <1>9 DEF RecordReceived, BindCommits, ReadBody, history
  <2> QED
    BY <2>2, <2>5, <2>6, QuietKeepsSpendInv DEF Quiet
<1>10. ASSUME NEW w \in Workers, SendRaises(w) PROVE SpendInv'
  BY <1>10, GotoQuiet, SameRowQuiet, QuietKeepsSpendInv
     DEF SendRaises, history, Quiet, Points
<1>11. ASSUME NEW w \in Workers, MarkUnknown(w) PROVE SpendInv'
  <2>1. ref[w] \in Exchanges
    BY <1>11 DEF MarkUnknown, TypeInv, LocalsOK, HoldsExchange, Points
  <2>2. AfterException(row[ref[w]]).state \in {row[ref[w]].state, "unknown"}
    BY <2>1 DEF AfterException, TypeInv, TypeOK, ExchangeRow
  <2>3. QuietRows
    BY <1>11, <2>1, <2>2, OneRowQuiet, OneRowSameState DEF MarkUnknown
  <2> QED
    BY <1>11, <2>3, LeaveQuiet, QuietKeepsSpendInv DEF MarkUnknown, history, Quiet
<1>12. ASSUME NEW w \in Workers, AdoptCodec(w) PROVE SpendInv'
  <2>1. ref[w] \in Exchanges
    BY <1>12 DEF AdoptCodec, TypeInv, LocalsOK, HoldsExchange, Points
  <2>2. QuietRows
    BY <1>12, <2>1 DEF AdoptCodec, QuietRows, TypeInv, TypeOK, ExchangeRow
  <2>3. QuietCalls
    BY <1>12 DEF AdoptCodec, Goto, QuietCalls, TypeInv, TypeOK
  <2> QED
    BY <1>12, <2>2, <2>3, QuietKeepsSpendInv DEF AdoptCodec, history, Quiet
<1>13. ASSUME NEW w \in Workers, AssociateAttempt(w) \/ RecordUsage(w) PROVE SpendInv'
  <2>1. ref[w] \in Exchanges
    BY <1>13 DEF AssociateAttempt, RecordUsage, TypeInv, LocalsOK, HoldsExchange, Points
  <2>2. QuietRows
    <3>1. /\ [row[ref[w]] EXCEPT !.attempt = TRUE].state = row[ref[w]].state
          /\ [row[ref[w]] EXCEPT !.usage = TRUE].state = row[ref[w]].state
      BY <2>1 DEF TypeInv, TypeOK, ExchangeRow
    <3> QED
      BY <1>13, <2>1, <3>1, OneRowSameState, SameRowQuiet
         DEF AssociateAttempt, RecordUsage, AddUsage
  <2>3. QuietCalls
    BY <1>13, LeaveQuiet DEF AssociateAttempt, RecordUsage, callVars, QuietCalls
  <2> QED
    BY <1>13, <2>2, <2>3, QuietKeepsSpendInv DEF AssociateAttempt, RecordUsage, Quiet
<1>14. ASSUME NEW w \in Workers, Crash(w) PROVE SpendInv'
  BY <1>14, LeaveQuiet, SameRowQuiet, QuietKeepsSpendInv DEF Crash, history, Quiet
<1>15. ASSUME NEW e \in Exchanges, LeaseExpires(e) \/ CleanUp(e) PROVE SpendInv'
  <2>1. QuietRows
    BY <1>15 DEF LeaseExpires, CleanUp, Unlink, Purge, CleanerCrashes, QuietRows,
       TypeInv, TypeOK, ExchangeRow
  <2>2. QuietCalls /\ UNCHANGED <<fence, paid>>
    BY <1>15 DEF LeaseExpires, CleanUp, Unlink, Purge, CleanerCrashes, QuietCalls,
       callVars, history
  <2> QED
    BY <2>1, <2>2, QuietKeepsSpendInv DEF Quiet
<1>16. ASSUME NEW x \in Runs, RunFinishes(x) \/ Resolve(x) PROVE SpendInv'
  <2>1. QuietRows
    BY <1>16 DEF RunFinishes, Resolve, QuietRows, TypeInv, TypeOK, ExchangeRow, dbVars
  <2>2. QuietCalls /\ UNCHANGED <<fence, paid>>
    BY <1>16 DEF RunFinishes, Resolve, QuietCalls, callVars, history, dbVars
  <2> QED
    BY <2>1, <2>2, QuietKeepsSpendInv DEF Quiet
<1>17. CASE UNCHANGED vars
  BY <1>17, SameRowQuiet, QuietKeepsSpendInv
     DEF vars, dbVars, callVars, history, Quiet, QuietCalls
<1> QED
  BY <1>1, <1>2, <1>3, <1>4, <1>5, <1>6, <1>7, <1>8, <1>9, <1>10, <1>11, <1>12,
     <1>13, <1>14, <1>15, <1>16, <1>17
     DEF Next, Step, Reserve, Transport, ReplaySaved

LEMMA SpendInvariant == Spec => [](TypeInv /\ SpendInv)
<1>1. Init => TypeInv /\ SpendInv
  BY TypeInit, SpendInit
<1>2. TypeInv /\ SpendInv /\ [Next]_vars => TypeInv' /\ SpendInv'
  BY TypeStep, SpendStep
<1> QED
  BY <1>1, <1>2, PTL DEF Spec

(* No work is ever transported twice, for any number of processes, retries, *)
(* lease take-overs, replays and crashes.                                   *)
THEOREM PaidAtMostOnce == Spec => []PaidOnce
  BY SpendInvariant, PTL DEF SpendInv

(* What may be taken over was never sent.                                   *)
THEOREM ReclaimedWorkIsUnsent == Spec => []ReservedIsUnsent
  BY SpendInvariant, PTL DEF SpendInv
=============================================================================
