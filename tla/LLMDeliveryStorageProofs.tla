---------------------- MODULE LLMDeliveryStorageProofs ----------------------
(* Machine-checked facts about what the journal stores: the reply of an     *)
(* exchange, its row and its file, its attempt and its price, the fallback  *)
(* stages, and that the journal implements SpendOnce.                       *)
EXTENDS LLMDeliveryProofs

(* The part of dispatch_exchange between the claim of the send and its end. *)
SendPoints == {"call", "wait", "store", "record", "captured", "fail"}

Captured(e) == row[e].responseDigest # None \/ file[e] # None

(* Facts about one exchange.                                                *)
BlankUntilInserted(e) ==
    row[e].state = "absent" =>
        /\ row[e] = AbsentRow
        /\ file[e] = None /\ origin[e] = None
        /\ billed[e] = 0 /\ attempts[e] = 0

NamesItsCall(e) ==
    row[e].state # "absent" =>
        /\ origin[e] \in Requests
        /\ Members(e) = origin[e].keys
        /\ row[e].digest = origin[e].digest

BodyIsReply(e) ==
    /\ row[e].state = "reserved" => file[e] = None
    /\ file[e] # None => file[e] = reply[e]
    /\ row[e].responseDigest # None <=> row[e].state \in {"received", "purged"}
    /\ row[e].responseDigest # None => row[e].responseDigest = reply[e]

BodyIsKept(e) ==
    /\ row[e].state = "received" => file[e] # None \/ row[e].resolved
    /\ row[e].resolved => row[e].state \in {"received", "purged"}
    /\ rowLock[e] = Cleaner => row[e].state = "received"
    /\ rowLock[e] = Cleaner \/ row[e].state = "purged" =>
           row[e].resolved /\ file[e] = None /\ row[e].run \in finished

Accounted(e) ==
    /\ billed[e] = IF row[e].usage THEN 1 ELSE 0
    /\ attempts[e] = IF row[e].attempt THEN 1 ELSE 0
    /\ row[e].usage \/ row[e].attempt => row[e].responseDigest # None

ExchangeInv(e) ==
    /\ BlankUntilInserted(e)
    /\ NamesItsCall(e)
    /\ BodyIsReply(e)
    /\ BodyIsKept(e)
    /\ Accounted(e)

(* Facts about the call of one process and the exchange it works on.        *)
Justified(keys) ==
    /\ keys \cap legacy = {}
    /\ \E p \in Exchanges : /\ Members(p) = keys
                            /\ Captured(p) /\ reply[p] \in Transient

WorksOnItsCall(w) ==
    pc[w] \in HoldsExchange =>
        /\ row[ref[w]].state # "absent"
        /\ origin[ref[w]].keys = req[w].keys
        /\ origin[ref[w]].digest = req[w].digest

SendsOnce(w) ==
    /\ pc[w] \in SendPoints => row[ref[w]].state # "reserved"
    /\ pc[w] \in {"call", "wait", "store"} =>
           row[ref[w]].state = "sending" /\ file[ref[w]] = None
    /\ pc[w] \in {"store", "record", "captured"} => got[w] = reply[ref[w]]
    /\ pc[w] \in {"record", "captured"} => file[ref[w]] # None
    /\ pc[w] = "captured" /\ ~req[w].bind => row[ref[w]].responseDigest # None

BindsAlone(w) ==
    /\ pc[w] \in {"wait", "store", "record", "captured"} /\ req[w].bind =>
           rowLock[ref[w]] = w
    /\ pc[w] \in SendPoints \ {"fail"} /\ req[w].bind => ~row[ref[w]].attempt

ReadsTheReply(w) ==
    /\ pc[w] = "read" /\ seen[w] # None => row[ref[w]].responseDigest # None
    /\ pc[w] \in {"codec", "done"} =>
           row[ref[w]].responseDigest # None /\ got[w] = reply[ref[w]]

FallbackInv(w) ==
    pc[w] = "insert" /\ req[w].primary # {} => Justified(req[w].primary)

CallInv(w) ==
    /\ WorksOnItsCall(w)
    /\ SendsOnce(w)
    /\ BindsAlone(w)
    /\ ReadsTheReply(w)
    /\ FallbackInv(w)

OneSending ==
    \A v, w \in Workers :
        pc[v] \in SendPoints /\ pc[w] \in SendPoints /\ ref[v] = ref[w] => v = w

OriginsJustified ==
    \A e \in Exchanges :
        origin[e] # None /\ origin[e].primary # {} => Justified(origin[e].primary)

StorageInv ==
    /\ \A e \in Exchanges : ExchangeInv(e)
    /\ \A w \in Workers : CallInv(w)
    /\ OneSending
    /\ OriginsJustified
-----------------------------------------------------------------------------
(* What every step leaves of an exchange: nothing that was written changes, *)
(* except that a resolved body is removed.                                  *)
Grows(e) ==
    /\ row[e].state # "absent" =>
          /\ row'[e].state # "absent"
          /\ origin'[e] = origin[e]
          /\ Members(e)' = Members(e)
    /\ row[e].state \notin {"absent", "reserved"} => row'[e].state # "reserved"
    /\ row[e].digest # None => row'[e].digest = row[e].digest
    /\ row[e].codec # None => row'[e].codec = row[e].codec
    /\ row[e].responseDigest # None => row'[e].responseDigest = row[e].responseDigest
    /\ Captured(e) => Captured(e)' /\ reply'[e] = reply[e]
    /\ file[e] # None => \/ file'[e] = file[e]
                         \/ file'[e] = None /\ row[e].resolved

(* A step that SpendOnce does not see.                                      *)
Hidden(e) ==
    row[e].state # "absent" =>
        /\ row'[e].state = "reserved" <=> row[e].state = "reserved"
        /\ file'[e] = file[e]
        /\ file[e] = None => row'[e].resolved = row[e].resolved

(* A step changes of the exchange at most its row and who locks it.         *)
RowOnly(e) ==
    /\ file'[e] = file[e] /\ reply'[e] = reply[e] /\ origin'[e] = origin[e]
    /\ billed'[e] = billed[e] /\ attempts'[e] = attempts[e]
    /\ Members(e)' = Members(e)
    /\ rowLock'[e] = Cleaner => rowLock[e] = Cleaner
    /\ finished \subseteq finished'

Fine(e) == ExchangeInv(e)' /\ Grows(e) /\ Hidden(e)

LEMMA KeptIsFine ==
    ASSUME NEW e \in Exchanges, ExchangeInv(e), RowOnly(e), row'[e] = row[e]
    PROVE  Fine(e)
BY DEF Fine, ExchangeInv, BlankUntilInserted, NamesItsCall, BodyIsReply, BodyIsKept,
   Accounted, RowOnly, Grows, Hidden, Captured

(* The owner, the lease, or a codec that was unknown.                       *)
LEMMA LeasedIsFine ==
    ASSUME NEW e \in Exchanges, ExchangeInv(e), RowOnly(e),
           row[e].state # "absent",
           row'[e].state = row[e].state, row'[e].digest = row[e].digest,
           row'[e].responseDigest = row[e].responseDigest, row'[e].run = row[e].run,
           row'[e].attempt = row[e].attempt, row'[e].usage = row[e].usage,
           row'[e].resolved = row[e].resolved,
           row[e].codec # None => row'[e].codec = row[e].codec
    PROVE  Fine(e)
BY DEF Fine, ExchangeInv, BlankUntilInserted, NamesItsCall, BodyIsReply, BodyIsKept,
   Accounted, RowOnly, Grows, Hidden, Captured

(* read_response adopts the file its row does not know yet.                 *)
LEMMA AdoptedIsFine ==
    ASSUME NEW e \in Exchanges, TypeInv, ExchangeInv(e), RowOnly(e),
           row[e].responseDigest = None, file[e] # None,
           row'[e] = Received(row[e], file[e])
    PROVE  Fine(e)
<1>1. row[e] \in ExchangeRow
  BY DEF TypeInv, TypeOK
<1>2. /\ row'[e].state = "received" /\ row'[e].responseDigest = file[e]
      /\ row'[e].digest = row[e].digest /\ row'[e].codec = row[e].codec
      /\ row'[e].run = row[e].run /\ row'[e].attempt = row[e].attempt
      /\ row'[e].usage = row[e].usage /\ row'[e].resolved = row[e].resolved
  BY <1>1 DEF Received, ExchangeRow
<1>3. row[e].state \notin {"absent", "reserved", "received", "purged"} /\ ~row[e].resolved
  BY DEF ExchangeInv, BlankUntilInserted, BodyIsReply, BodyIsKept
<1> QED
  BY <1>2, <1>3 DEF Fine, ExchangeInv, BlankUntilInserted, NamesItsCall, BodyIsReply,
     BodyIsKept, Accounted, RowOnly, Grows, Hidden, Captured

-----------------------------------------------------------------------------
(* What a step leaves of the calls of the other processes.                  *)
SameCall(v) ==
    /\ pc'[v] = pc[v] /\ req'[v] = req[v] /\ ref'[v] = ref[v]
    /\ seen'[v] = seen[v] /\ got'[v] = got[v]

Spared(v) ==
    /\ pc[v] \in {"call", "wait", "store"} =>
           row'[ref[v]].state = row[ref[v]].state /\ file'[ref[v]] = file[ref[v]]
    /\ pc[v] \in {"record", "captured"} => file'[ref[v]] = file[ref[v]]
    /\ pc[v] \in {"store", "record", "captured"} => reply'[ref[v]] = reply[ref[v]]
    /\ pc[v] \in SendPoints /\ rowLock[ref[v]] = v => rowLock'[ref[v]] = v
    /\ pc[v] \in SendPoints \ {"fail"} /\ req[v].bind =>
           row'[ref[v]].attempt = row[ref[v]].attempt

LEMMA JustifiedStays ==
    ASSUME \A e \in Exchanges : ExchangeInv(e) /\ Grows(e), legacy' = legacy,
           NEW keys, Justified(keys)
    PROVE  Justified(keys)'
<1>1. PICK p \in Exchanges : Members(p) = keys /\ Captured(p) /\ reply[p] \in Transient
  BY DEF Justified
<1>2. row[p].state # "absent"
  BY <1>1 DEF ExchangeInv, BlankUntilInserted, Captured, AbsentRow
<1> QED
  BY <1>1, <1>2 DEF Justified, Grows

LEMMA OtherCall ==
    ASSUME TypeInv, \A e \in Exchanges : ExchangeInv(e) /\ Grows(e), legacy' = legacy,
           NEW v \in Workers, CallInv(v), SameCall(v), Spared(v)
    PROVE  CallInv(v)'
<1>1. pc[v] \in HoldsExchange => ref[v] \in Exchanges
  BY DEF TypeInv, LocalsOK
<1>2. WorksOnItsCall(v)'
  BY <1>1 DEF CallInv, WorksOnItsCall, SameCall, Grows
<1>3. SendsOnce(v)'
  <2>1. pc[v] \in SendPoints => ref[v] \in Exchanges /\ row[ref[v]].state # "absent"
    BY <1>1 DEF CallInv, WorksOnItsCall, SendPoints, HoldsExchange, Points
  <2> QED
    BY <2>1 DEF CallInv, SendsOnce, SameCall, Grows, Spared, SendPoints
<1>4. BindsAlone(v)'
  BY DEF CallInv, BindsAlone, SameCall, Spared, SendPoints
<1>5. ReadsTheReply(v)'
  <2>1. pc[v] \in {"read", "codec", "done"} => ref[v] \in Exchanges
    BY <1>1 DEF HoldsExchange, Points
  <2> QED
    BY <2>1 DEF CallInv, ReadsTheReply, SameCall, Grows, Captured
<1>6. FallbackInv(v)'
  BY JustifiedStays DEF CallInv, FallbackInv, SameCall
<1> QED
  BY <1>2, <1>3, <1>4, <1>5, <1>6 DEF CallInv
-----------------------------------------------------------------------------
Unseen == UNCHANGED fence /\ \A e \in Exchanges : Hidden(e)

Stored == StorageInv' /\ \A e \in Exchanges : Grows(e)

(* A step of one process, given what it leaves of every exchange and of the *)
(* other calls.                                                             *)
LEMMA ProcessStep ==
    ASSUME TypeInv, StorageInv, NEW w \in Workers, legacy' = legacy,
           \A v \in Workers \ {w} : SameCall(v) /\ Spared(v),
           \A e \in Exchanges : ExchangeInv(e)' /\ Grows(e),
           CallInv(w)',
           pc'[w] \in SendPoints =>
               /\ ref'[w] = ref[w]
               /\ pc[w] \in SendPoints \/ row[ref[w]].state = "reserved",
           \A e \in Exchanges : \/ origin'[e] = origin[e]
                                \/ /\ origin'[e] = req[w]
                                   /\ req[w].primary = {} \/ Justified(req[w].primary)
    PROVE  Stored
<1>1. \A v \in Workers : CallInv(v)'
  <2> SUFFICES ASSUME NEW v \in Workers \ {w} PROVE CallInv(v)'
    OBVIOUS
  <2> QED
    BY OtherCall DEF StorageInv
<1>2. OneSending'
  <2>1. \A v \in Workers \ {w} : pc[v] \in SendPoints => row[ref[v]].state # "reserved"
    BY DEF StorageInv, CallInv, SendsOnce
  <2>2. \A v \in Workers \ {w} : pc'[v] = pc[v] /\ ref'[v] = ref[v]
    BY DEF SameCall
  <2> SUFFICES ASSUME NEW u \in Workers, NEW v \in Workers,
                      pc'[u] \in SendPoints, pc'[v] \in SendPoints, ref'[u] = ref'[v], u # v
               PROVE  FALSE
    BY DEF OneSending
  <2>3. CASE u # w /\ v # w
    BY <2>2, <2>3 DEF StorageInv, OneSending
  <2>4. CASE u = w /\ v # w
    BY <2>1, <2>2, <2>4 DEF StorageInv, OneSending
  <2>5. CASE u # w /\ v = w
    BY <2>1, <2>2, <2>5 DEF StorageInv, OneSending
  <2> QED
    BY <2>3, <2>4, <2>5
<1>3. OriginsJustified'
  <2> SUFFICES ASSUME NEW e \in Exchanges, (origin[e] # None)', (origin[e].primary # {})'
               PROVE  Justified(origin[e].primary)'
    BY DEF OriginsJustified
  <2>1. PICK keys : keys = (origin[e].primary)'
    OBVIOUS
  <2>2. Justified(keys)
    <3>1. CASE origin'[e] = origin[e]
      BY <2>1, <3>1 DEF StorageInv, OriginsJustified
    <3>2. CASE origin'[e] = req[w] /\ (req[w].primary = {} \/ Justified(req[w].primary))
      BY <2>1, <3>2
    <3> QED
      BY <3>1, <3>2
  <2>3. Justified(keys)'
    BY <2>2, JustifiedStays DEF StorageInv
  <2> QED
    BY <2>1, <2>3 DEF Justified
<1> QED
  BY <1>1, <1>2, <1>3 DEF Stored, StorageInv

(* A step of nobody's call: time, the end of a run, the clean-up.           *)
LEMMA OutsideStep ==
    ASSUME TypeInv, StorageInv, legacy' = legacy, origin' = origin,
           \A v \in Workers : SameCall(v) /\ Spared(v),
           \A e \in Exchanges : ExchangeInv(e)' /\ Grows(e)
    PROVE  Stored
<1>1. \A v \in Workers : CallInv(v)'
  BY OtherCall DEF StorageInv
<1>2. OneSending'
  BY DEF StorageInv, OneSending, SameCall
<1>3. OriginsJustified'
  <2> SUFFICES ASSUME NEW e \in Exchanges, origin[e] # None, origin[e].primary # {}
               PROVE  Justified(origin[e].primary)'
    BY DEF OriginsJustified
  <2>1. Justified(origin[e].primary)
    BY DEF StorageInv, OriginsJustified
  <2>2. PICK keys : keys = origin[e].primary
    OBVIOUS
  <2>3. Justified(keys)'
    BY <2>1, <2>2, JustifiedStays DEF StorageInv
  <2>4. origin'[e].primary = keys
    BY <2>2
  <2> QED
    BY <2>2, <2>3
<1> QED
  BY <1>1, <1>2, <1>3 DEF Stored, StorageInv

(* A step that writes nothing but row locks: a transaction of w takes or    *)
(* gives up its own.                                                        *)
LocksOnly(w) ==
    /\ UNCHANGED <<fence, row, file, finished, legacy, origin, reply, billed, attempts>>
    /\ \A e \in Exchanges :
          /\ rowLock'[e] = Cleaner => rowLock[e] = Cleaner
          /\ \A v \in Workers \ {w} : rowLock[e] = v => rowLock'[e] = v

LEMMA LocksOnlyStep ==
    ASSUME TypeInv, StorageInv, NEW w \in Workers, LocksOnly(w),
           \A v \in Workers \ {w} : SameCall(v),
           CallInv(w)',
           pc'[w] \in SendPoints => ref'[w] = ref[w] /\ pc[w] \in SendPoints
    PROVE  Stored /\ Unseen
<1>1. \A e \in Exchanges : Members(e)' = Members(e)
  BY DEF LocksOnly, Members
<1>2. \A e \in Exchanges : Fine(e)
  BY <1>1, KeptIsFine DEF LocksOnly, RowOnly, StorageInv
<1>3. \A v \in Workers \ {w} : Spared(v)
  <2> SUFFICES ASSUME NEW v \in Workers \ {w} PROVE Spared(v)
    OBVIOUS
  <2>1. pc[v] \in SendPoints => ref[v] \in Exchanges
    BY DEF TypeInv, LocalsOK, SendPoints, HoldsExchange, Points
  <2> QED
    BY <2>1 DEF Spared, LocksOnly
<1> QED
  BY <1>2, <1>3, ProcessStep DEF LocksOnly, Fine, Unseen

LEMMA LeftCall ==
    ASSUME TypeInv, NEW w \in Workers, Leave(w)
    PROVE  /\ pc'[w] = "idle" /\ CallInv(w)'
           /\ \A v \in Workers \ {w} : SameCall(v)
BY DEF TypeInv, TypeOK, Leave, SameCall, CallInv, WorksOnItsCall, SendsOnce, BindsAlone,
   ReadsTheReply, FallbackInv, HoldsExchange, Points, SendPoints

LEMMA MovedCall ==
    ASSUME TypeInv, NEW w \in Workers, NEW p \in Points, Goto(w, p)
    PROVE  /\ pc'[w] = p
           /\ UNCHANGED <<req, ref, seen, got>> => \A v \in Workers \ {w} : SameCall(v)
BY DEF TypeInv, TypeOK, Goto, SameCall

LEMMA ReleasedLocks ==
    ASSUME TypeInv, NEW w \in Workers, Release(w)
    PROVE  \A e \in Exchanges :
             /\ rowLock'[e] = Cleaner => rowLock[e] = Cleaner
             /\ \A v \in Workers \ {w} : rowLock[e] = v => rowLock'[e] = v
BY ConstantsAssumption DEF TypeInv, TypeOK, Release

-----------------------------------------------------------------------------
(* The steps of dispatch_exchange, one by one.                              *)
LEMMA PermitsJustified ==
    ASSUME TypeInv, StorageInv, NEW r \in Requests, StagePermits(r)
    PROVE  r.primary = {} \/ Justified(r.primary)
<1> SUFFICES ASSUME r.primary # {} PROVE Justified(r.primary)
  OBVIOUS
<1>1. PICK e \in PrimaryExchange(r.primary) :
          Readable(e, row[e].responseDigest) /\ file[e] \in Transient
  BY DEF StagePermits, FallbackAllowed
<1>2. e \in Exchanges /\ Members(e) = r.primary
  BY DEF PrimaryExchange
<1>3. Captured(e) /\ reply[e] \in Transient
  BY <1>1, <1>2 DEF Readable, Captured, StorageInv, ExchangeInv, BodyIsReply
<1>4. r.primary \cap legacy = {}
  BY DEF StagePermits, FallbackAllowed
<1> QED
  BY <1>2, <1>3, <1>4 DEF Justified

(* The table after the fallback check: at most the primary exchange has     *)
(* adopted its file, and there is one to adopt.                             *)
LEMMA TableAdopts ==
    ASSUME TypeInv, StorageInv, NEW r \in Requests, NEW e \in Exchanges,
           r.primary = {} \/ Justified(r.primary)
    PROVE  \/ TableAtReserve(r)[e] = row[e]
           \/ /\ row[e].responseDigest = None /\ file[e] # None
              /\ TableAtReserve(r)[e] = Received(row[e], file[e])
<1>1. CASE r.primary = {} \/ e \notin PrimaryExchange(r.primary)
  BY <1>1 DEF TableAtReserve, AfterFallbackCheck
<1>2. CASE r.primary # {} /\ e \in PrimaryExchange(r.primary)
  <2>1. PICK p \in Exchanges : Members(p) = r.primary /\ Captured(p)
    BY <1>2 DEF Justified
  <2>2. p = e
    BY <1>2, <2>1 DEF PrimaryExchange, Members
  <2>3. TableAtReserve(r)[e] = Adopted(e)
    BY <1>2 DEF TableAtReserve, AfterFallbackCheck
  <2> QED
    BY <2>1, <2>2, <2>3 DEF Captured, Adopted
<1> QED
  BY <1>1, <1>2

LEMMA BeginStep ==
    ASSUME TypeInv, StorageInv, NEW w \in Workers, NEW r \in Requests, Begin(w, r)
    PROVE  Stored /\ Unseen
<1>1. pc'[w] = "reserve" /\ \A v \in Workers \ {w} : SameCall(v)
  BY DEF TypeInv, TypeOK, Begin, Goto, SameCall
<1>2. CallInv(w)'
  BY <1>1 DEF CallInv, WorksOnItsCall, SendsOnce, BindsAlone, ReadsTheReply, FallbackInv,
     HoldsExchange, Points, SendPoints
<1>3. LocksOnly(w)
  BY DEF Begin, LocksOnly, dbVars, history
<1> QED
  BY <1>1, <1>2, <1>3, LocksOnlyStep DEF SendPoints

(* The call ends without a trace, but for the locks of a dead process.      *)
LEMMA LeaveStep ==
    ASSUME TypeInv, StorageInv, NEW w \in Workers,
           \/ ReserveRefused(w) \/ InsertCollides(w) \/ BeforeSendRefuses(w) \/ ClaimLost(w)
           \/ ReadRefused(w) \/ CodecChanged(w) \/ SkipUsage(w) \/ Crash(w)
    PROVE  Stored /\ Unseen
<1>1. Leave(w) /\ (Release(w) \/ UNCHANGED rowLock)
      /\ UNCHANGED <<fence, row, file, finished, legacy, origin, reply, billed, attempts>>
  BY DEF ReserveRefused, InsertCollides, BeforeSendRefuses, ClaimLost, ReadRefused,
     CodecChanged, SkipUsage, Crash, dbVars, history
<1>2. LocksOnly(w)
  BY <1>1, ReleasedLocks DEF LocksOnly
<1> QED
  BY <1>1, <1>2, LeftCall, LocksOnlyStep DEF SendPoints

LEMMA ReserveFreeStep ==
    ASSUME TypeInv, StorageInv, NEW w \in Workers, ReserveFree(w)
    PROVE  Stored /\ Unseen
<1>1. req[w] \in Requests
  BY DEF TypeInv, LocalsOK, ReserveFree
<1>2. req[w].primary = {} \/ Justified(req[w].primary)
  BY <1>1, PermitsJustified DEF ReserveFree
<1>3. Goto(w, "insert") /\ UNCHANGED <<req, ref, seen, got>> /\ LocksOnly(w)
  BY DEF ReserveFree, LocksOnly, dbVars, history
<1>4. pc'[w] = "insert" /\ \A v \in Workers \ {w} : SameCall(v)
  BY <1>3, MovedCall DEF Points
<1>5. Justified(req[w].primary)' = Justified(req[w].primary)
  BY <1>3 DEF LocksOnly, Justified, Members, Captured
<1>6. CallInv(w)'
  BY <1>2, <1>3, <1>4, <1>5 DEF CallInv, WorksOnItsCall, SendsOnce, BindsAlone,
     ReadsTheReply, FallbackInv, HoldsExchange, Points, SendPoints
<1> QED
  BY <1>3, <1>4, <1>6, LocksOnlyStep DEF SendPoints

LEMMA SendRaisesStep ==
    ASSUME TypeInv, StorageInv, NEW w \in Workers, SendRaises(w)
    PROVE  Stored /\ Unseen
<1>1. Goto(w, "fail") /\ UNCHANGED <<req, ref, seen, got>> /\ Release(w)
      /\ pc[w] \in {"wait", "store", "record", "captured"}
      /\ UNCHANGED <<fence, row, file, finished, legacy, origin, reply, billed, attempts>>
  BY DEF SendRaises, history
<1>2. LocksOnly(w)
  BY <1>1, ReleasedLocks DEF LocksOnly
<1>3. pc'[w] = "fail" /\ \A v \in Workers \ {w} : SameCall(v)
  BY <1>1, MovedCall DEF Points
<1>4. CallInv(w)'
  BY <1>1, <1>3 DEF StorageInv, CallInv, WorksOnItsCall, SendsOnce, BindsAlone,
     ReadsTheReply, FallbackInv, HoldsExchange, Points, SendPoints
<1> QED
  BY <1>1, <1>2, <1>3, <1>4, LocksOnlyStep DEF SendPoints

(* With on_response the sender takes the row lock, which nobody has.        *)
LEMMA SendStep ==
    ASSUME TypeInv, StorageInv, NEW w \in Workers, Send(w)
    PROVE  Stored /\ Unseen
<1>1. Goto(w, "wait") /\ UNCHANGED <<req, ref, seen, got>> /\ pc[w] = "call"
      /\ UNCHANGED <<fence, row, file, finished, legacy, origin, reply, billed, attempts>>
      /\ rowLock[ref[w]] = None /\ rowLock' = LockedForBind(w)
  BY DEF Send, Unlocked
<1>2. ref[w] \in Exchanges /\ rowLock \in [Exchanges -> Workers \cup {Cleaner, None}]
  BY <1>1 DEF TypeInv, TypeOK, LocalsOK, HoldsExchange, Points
<1>3. LocksOnly(w)
  BY <1>1, <1>2, ConstantsAssumption DEF LocksOnly, LockedForBind
<1>4. pc'[w] = "wait" /\ \A v \in Workers \ {w} : SameCall(v)
  BY <1>1, MovedCall DEF Points
<1>5. req[w].bind => rowLock'[ref[w]] = w
  BY <1>1, <1>2 DEF LockedForBind
<1>6. CallInv(w)'
  BY <1>1, <1>4, <1>5 DEF StorageInv, CallInv, WorksOnItsCall, SendsOnce, BindsAlone,
     ReadsTheReply, FallbackInv, HoldsExchange, Points, SendPoints
<1> QED
  BY <1>1, <1>3, <1>4, <1>6, LocksOnlyStep DEF SendPoints

LEMMA SendReturnsStep ==
    ASSUME TypeInv, StorageInv, NEW w \in Workers, SendReturns(w)
    PROVE  Stored /\ Unseen
<1>1. Goto(w, "done") /\ UNCHANGED <<req, ref, seen, got>> /\ pc[w] = "captured" /\ ~req[w].bind
      /\ UNCHANGED <<row, file, origin, reply>> /\ LocksOnly(w)
  BY DEF SendReturns, LocksOnly, dbVars, history
<1>2. pc'[w] = "done" /\ \A v \in Workers \ {w} : SameCall(v)
  BY <1>1, MovedCall DEF Points
<1>3. CallInv(w)'
  BY <1>1, <1>2 DEF StorageInv, CallInv, WorksOnItsCall, SendsOnce, BindsAlone,
     ReadsTheReply, FallbackInv, HoldsExchange, Points, SendPoints
<1> QED
  BY <1>1, <1>2, <1>3, LocksOnlyStep DEF SendPoints

LEMMA ReadRowStep ==
    ASSUME TypeInv, StorageInv, NEW w \in Workers, ReadRow(w)
    PROVE  Stored /\ Unseen
<1>1. pc[w] = "replay" /\ UNCHANGED <<row, origin>> /\ LocksOnly(w)
  BY DEF ReadRow, LocksOnly, dbVars, history
<1>2. /\ pc'[w] = "read" /\ req'[w] = req[w] /\ ref'[w] = ref[w]
      /\ seen'[w] = row[ref[w]].responseDigest
      /\ \A v \in Workers \ {w} : SameCall(v)
  BY DEF ReadRow, Goto, SameCall, TypeInv, TypeOK
<1>3. CallInv(w)'
  BY <1>1, <1>2 DEF StorageInv, CallInv, WorksOnItsCall, SendsOnce, BindsAlone,
     ReadsTheReply, FallbackInv, HoldsExchange, Points, SendPoints
<1> QED
  BY <1>1, <1>2, <1>3, LocksOnlyStep DEF SendPoints

(* A step that writes no file spares the other calls if it takes no reply   *)
(* from a sender, touches no attempt and leaves their locks.                *)
LEMMA SparedCalls ==
    ASSUME TypeInv, StorageInv, NEW v \in Workers, UNCHANGED <<file, reply>>,
           \A e \in Exchanges :
               /\ row'[e].state = row[e].state \/ row[e].state # "sending" \/ file[e] # None
               /\ row[e].state # "absent" => row'[e].attempt = row[e].attempt
               /\ rowLock[e] = v => rowLock'[e] = v
    PROVE  Spared(v)
<1>1. pc[v] \in SendPoints => ref[v] \in Exchanges /\ row[ref[v]].state # "absent"
  BY DEF TypeInv, LocalsOK, StorageInv, CallInv, WorksOnItsCall, HoldsExchange, SendPoints,
     Points
<1> QED
  BY <1>1 DEF StorageInv, CallInv, SendsOnce, Spared, SendPoints

LEMMA ReserveSavedStep ==
    ASSUME TypeInv, StorageInv, NEW w \in Workers, NEW e \in Exchanges, ReserveSaved(w, e)
    PROVE  Stored /\ Unseen
<1> DEFINE T == TableAtReserve(req[w])
<1>1. req[w] \in Requests /\ req[w].digest # None
  BY ConstantsAssumption DEF TypeInv, LocalsOK, ReserveSaved, Request
<1>2. T \in [Exchanges -> ExchangeRow]
  BY <1>1, TableTyped DEF TypeInv
<1>3. \A g \in Exchanges : \/ T[g] = row[g]
                           \/ /\ row[g].responseDigest = None /\ file[g] # None
                              /\ T[g] = Received(row[g], file[g])
  BY <1>1, PermitsJustified, TableAdopts DEF ReserveSaved
<1>4. row[e].state = "reserved" => T[e] = row[e]
  BY <1>3 DEF StorageInv, ExchangeInv, BodyIsReply
<1>5. \/ row' = T
      \/ /\ row[e].state = "reserved"
         /\ row' = [T EXCEPT ![e] = [T[e] EXCEPT !.owner = w, !.lease = TRUE]]
  BY DEF ReserveSaved, Reclaim, Replay, Reclaimable
<1> HIDE DEF T
<1>6. \A g \in Exchanges : RowOnly(g)
  BY DEF ReserveSaved, RowOnly, Members, history
<1>7. ASSUME NEW g \in Exchanges PROVE Fine(g) /\ (row[g].state # "absent" => row'[g].attempt = row[g].attempt)
                                       /\ (row'[g].state = row[g].state \/ file[g] # None)
  <2>1. row[g] \in ExchangeRow
    BY DEF TypeInv, TypeOK
  <2>2. CASE row'[g] = T[g]
    BY <1>3, <1>6, <2>1, <2>2, KeptIsFine, AdoptedIsFine DEF StorageInv, Received, ExchangeRow
  <2>3. CASE g = e /\ row[e].state = "reserved"
             /\ row'[g] = [row[e] EXCEPT !.owner = w, !.lease = TRUE]
    <3>1. /\ row'[g].state = row[g].state /\ row'[g].digest = row[g].digest
          /\ row'[g].responseDigest = row[g].responseDigest /\ row'[g].run = row[g].run
          /\ row'[g].attempt = row[g].attempt /\ row'[g].usage = row[g].usage
          /\ row'[g].resolved = row[g].resolved /\ row'[g].codec = row[g].codec
      BY <2>1, <2>3 DEF ExchangeRow
    <3> QED
      BY <1>6, <2>3, <3>1, LeasedIsFine DEF StorageInv
  <2> QED
    BY <1>2, <1>4, <1>5, <2>2, <2>3
<1>8. /\ pc'[w] \in {"claimed", "replay"} /\ req'[w] = req[w] /\ ref'[w] = e
      /\ \A v \in Workers \ {w} : SameCall(v)
  BY DEF ReserveSaved, Reclaim, Replay, Goto, SameCall, TypeInv, TypeOK
<1>9. Members(e) = req[w].keys /\ row[e].digest = req[w].digest /\ row[e].state # "absent"
  BY <1>1 DEF ReserveSaved, Matches, StorageInv, ExchangeInv, BlankUntilInserted, AbsentRow
<1>10. row'[e].state # "absent" /\ origin'[e] = origin[e]
  BY <1>7, <1>9 DEF Fine, Grows
<1>11. CallInv(w)'
  BY <1>8, <1>9, <1>10 DEF StorageInv, ExchangeInv, NamesItsCall, CallInv, WorksOnItsCall,
     SendsOnce, BindsAlone, ReadsTheReply, FallbackInv, HoldsExchange, Points, SendPoints
<1>12. \A v \in Workers : Spared(v)
  BY <1>7, SparedCalls DEF ReserveSaved, history
<1>13. UNCHANGED <<fence, legacy, origin>>
  BY DEF ReserveSaved, history
<1> QED
  BY <1>7, <1>8, <1>11, <1>12, <1>13, ProcessStep DEF Fine, Unseen, SendPoints

(* A new exchange appears, and becomes the owner of works nobody owned.     *)
LEMMA InsertStep ==
    ASSUME TypeInv, SpendInv, StorageInv, NEW w \in Workers, NEW e \in Exchanges, Insert(w, e)
    PROVE  Stored /\ \A g \in Exchanges \ {e} : Hidden(g)
<1> DEFINE T == TableAtReserve(req[w])
           N == [AbsentRow EXCEPT !.state = "reserved", !.digest = req[w].digest,
                                  !.codec = req[w].codec, !.owner = w,
                                  !.lease = TRUE, !.run = req[w].run]
<1>1. req[w] \in Requests /\ req[w] \in Request
  BY ConstantsAssumption DEF TypeInv, LocalsOK, Insert
<1>2. T \in [Exchanges -> ExchangeRow]
  BY <1>1, TableTyped DEF TypeInv
<1>3. req[w].primary = {} \/ Justified(req[w].primary)
  BY DEF StorageInv, CallInv, FallbackInv, Insert
<1>4. \A g \in Exchanges : \/ T[g] = row[g]
                           \/ /\ row[g].responseDigest = None /\ file[g] # None
                              /\ T[g] = Received(row[g], file[g])
  BY <1>1, <1>3, TableAdopts
<1>5. /\ N.state = "reserved" /\ N.digest = req[w].digest /\ N.responseDigest = None
      /\ N.attempt = FALSE /\ N.usage = FALSE /\ N.resolved = FALSE
  BY DEF AbsentRow
<1>6. row'[e] = N /\ \A g \in Exchanges \ {e} : row'[g] = T[g]
  BY <1>2 DEF Insert
<1>7. /\ row[e].state = "absent" /\ row[e] = AbsentRow /\ file[e] = None /\ origin[e] = None
      /\ billed[e] = 0 /\ attempts[e] = 0
  BY DEF Insert, MayInsert, StorageInv, ExchangeInv, BlankUntilInserted
<1>8. \A k \in req[w].keys : fence[k] = None
  BY DEF Insert, MayInsert, Claimed
<1>9. Members(e) = {} /\ req[w].keys \subseteq Works
  <2>1. Members(e) = {}
    BY <1>7, ConstantsAssumption DEF Members, SpendInv, FencedIsPresent
  <2> QED
    BY <1>1, <2>1 DEF Request
<1>10. Members(e)' = req[w].keys /\ \A g \in Exchanges \ {e} : Members(g)' = Members(g)
  BY <1>8, <1>9, ConstantsAssumption DEF Insert, Members
<1>11. /\ UNCHANGED <<file, reply, billed, attempts, rowLock, finished, legacy, req>>
       /\ origin'[e] = req[w] /\ \A g \in Exchanges \ {e} : origin'[g] = origin[g]
  BY DEF Insert, TypeInv, TypeOK
<1> HIDE DEF T, N
<1>12. ExchangeInv(e)' /\ Grows(e)
  <2>1. rowLock[e] # Cleaner
    BY <1>7 DEF StorageInv, ExchangeInv, BodyIsKept
  <2> QED
    BY <1>1, <1>5, <1>6, <1>7, <1>10, <1>11, <2>1, ConstantsAssumption
       DEF ExchangeInv, BlankUntilInserted, NamesItsCall, BodyIsReply, BodyIsKept,
           Accounted, Grows, Captured, AbsentRow
<1>13. ASSUME NEW g \in Exchanges \ {e} PROVE Fine(g)
  <2>1. RowOnly(g)
    BY <1>10, <1>11 DEF RowOnly
  <2> QED
    BY <1>4, <1>6, <2>1, KeptIsFine, AdoptedIsFine DEF StorageInv
<1>14. ASSUME NEW g \in Exchanges
       PROVE  /\ row'[g].state = row[g].state \/ row[g].state # "sending" \/ file[g] # None
              /\ row[g].state # "absent" => row'[g].attempt = row[g].attempt
  <2>1. row[g] \in ExchangeRow
    BY DEF TypeInv, TypeOK
  <2>2. CASE g = e
    BY <1>7, <2>2
  <2>3. CASE g # e /\ T[g] = row[g]
    BY <1>6, <2>3
  <2>4. CASE file[g] # None /\ g # e /\ T[g] = Received(row[g], file[g])
    BY <1>6, <2>1, <2>4 DEF Received, ExchangeRow
  <2> QED
    BY <1>4, <2>2, <2>3, <2>4
<1>15. \A v \in Workers : Spared(v)
  BY <1>11, <1>14, SparedCalls
<1>16. /\ pc'[w] = "claimed" /\ req'[w] = req[w] /\ ref'[w] = e
       /\ \A v \in Workers \ {w} : SameCall(v)
  BY DEF Insert, Goto, SameCall, TypeInv, TypeOK
<1>17. CallInv(w)'
  BY <1>5, <1>6, <1>11, <1>16 DEF CallInv, WorksOnItsCall,
     SendsOnce, BindsAlone, ReadsTheReply, FallbackInv, HoldsExchange, Points, SendPoints
<1> QED
  BY <1>3, <1>11, <1>12, <1>13, <1>15, <1>16, <1>17, ProcessStep DEF Fine, SendPoints

(* Nobody is past the claim of an exchange that is still reserved.          *)
LEMMA ClaimSendStep ==
    ASSUME TypeInv, StorageInv, NEW w \in Workers, ClaimSend(w)
    PROVE  Stored
<1>1. ref[w] \in Exchanges /\ row[ref[w]] \in ExchangeRow
  BY DEF TypeInv, TypeOK, LocalsOK, ClaimSend, HoldsExchange, Points
<1>2. PICK e \in Exchanges : e = ref[w]
  BY <1>1
<1>3. /\ row[e].state = "reserved" /\ row'[e] = Sending(row[e])
      /\ \A g \in Exchanges \ {e} : row'[g] = row[g]
      /\ UNCHANGED <<fence, rowLock, legacy, file, finished, origin, reply, billed, attempts>>
  BY <1>2 DEF ClaimSend, MayClaim, TypeInv, TypeOK, history
<1>4. /\ row'[e].state = "sending" /\ row'[e].digest = row[e].digest
      /\ row'[e].responseDigest = row[e].responseDigest /\ row'[e].run = row[e].run
      /\ row'[e].attempt = row[e].attempt /\ row'[e].usage = row[e].usage
      /\ row'[e].resolved = row[e].resolved /\ row'[e].codec = row[e].codec
  BY <1>1, <1>2, <1>3 DEF Sending, ExchangeRow
<1>5. \A g \in Exchanges : RowOnly(g)
  BY <1>3 DEF RowOnly, Members
<1>6. ASSUME NEW g \in Exchanges PROVE ExchangeInv(g)' /\ Grows(g)
  <2>1. CASE g = e
    BY <1>3, <1>4, <1>5, <2>1 DEF StorageInv, ExchangeInv, BlankUntilInserted, NamesItsCall,
       BodyIsReply, BodyIsKept, Accounted, Grows, Captured, RowOnly
  <2>2. CASE g # e
    BY <1>3, <1>5, <2>2, KeptIsFine DEF StorageInv, Fine
  <2> QED
    BY <2>1, <2>2
<1>7. \A v \in Workers : Spared(v)
  BY <1>3, <1>4, SparedCalls
<1>8. /\ pc[w] = "claimed" /\ pc'[w] = "call" /\ UNCHANGED <<req, ref, seen, got>>
      /\ \A v \in Workers \ {w} : SameCall(v)
  BY MovedCall DEF ClaimSend, Points
<1>9. ~row[e].attempt /\ file[e] = None
  BY <1>3 DEF StorageInv, ExchangeInv, Accounted, BodyIsReply
<1>10. CallInv(w)'
  BY <1>2, <1>3, <1>4, <1>8, <1>9 DEF StorageInv, CallInv, WorksOnItsCall, SendsOnce,
     BindsAlone, ReadsTheReply, FallbackInv, HoldsExchange, Points, SendPoints
<1> QED
  BY <1>2, <1>3, <1>6, <1>7, <1>8, <1>10, ProcessStep

(* A sender spares the other calls: none of them is sending its exchange.   *)
LEMMA SparedBySender ==
    ASSUME TypeInv, StorageInv, NEW w \in Workers, pc[w] \in SendPoints,
           NEW v \in Workers \ {w},
           \A e \in Exchanges \ {ref[w]} :
               row'[e] = row[e] /\ file'[e] = file[e] /\ reply'[e] = reply[e],
           \A e \in Exchanges : rowLock[e] = v => rowLock'[e] = v
    PROVE  Spared(v)
<1>1. pc[v] \in SendPoints => ref[v] \in Exchanges /\ ref[v] # ref[w]
  BY DEF TypeInv, LocalsOK, StorageInv, OneSending, HoldsExchange, SendPoints, Points
<1> QED
  BY <1>1 DEF Spared, SendPoints

LEMMA RecordedIsFine ==
    ASSUME NEW e \in Exchanges, TypeInv, ExchangeInv(e), RowOnly(e), file[e] # None,
           row'[e] = Received(row[e], file[e])
    PROVE  Fine(e)
<1>1. CASE row[e].responseDigest = None
  BY <1>1, AdoptedIsFine
<1>2. CASE row[e].responseDigest # None
  <2>1. row[e] \in ExchangeRow
    BY DEF TypeInv, TypeOK
  <2>2. row[e].responseDigest = file[e] /\ row[e].state = "received"
    BY <1>2 DEF ExchangeInv, BodyIsReply, BodyIsKept
  <2>3. /\ row'[e].state = row[e].state /\ row'[e].digest = row[e].digest
        /\ row'[e].responseDigest = row[e].responseDigest /\ row'[e].run = row[e].run
        /\ row'[e].attempt = row[e].attempt /\ row'[e].usage = row[e].usage
        /\ row'[e].resolved = row[e].resolved /\ row'[e].codec = row[e].codec
    BY <2>1, <2>2 DEF Received, ExchangeRow
  <2> QED
    BY <2>2, <2>3, LeasedIsFine
<1> QED
  BY <1>1, <1>2

LEMMA ReplyArrivesStep ==
    ASSUME TypeInv, StorageInv, NEW w \in Workers, NEW b \in Receipts, ReplyArrives(w, b)
    PROVE  Stored /\ Unseen
<1>1. PICK e \in Exchanges : e = ref[w]
  BY DEF TypeInv, LocalsOK, ReplyArrives, HoldsExchange, Points
<1>2. /\ pc[w] = "wait" /\ UNCHANGED <<req, ref, seen>>
      /\ UNCHANGED <<fence, row, rowLock, legacy, file, finished, origin, billed, attempts>>
      /\ reply'[e] = b /\ \A g \in Exchanges \ {e} : reply'[g] = reply[g]
  BY <1>1 DEF ReplyArrives, dbVars, TypeInv, TypeOK
<1>3. row[e].state = "sending" /\ file[e] = None
  BY <1>1, <1>2 DEF StorageInv, CallInv, SendsOnce
<1>4. row[e].responseDigest = None
  BY <1>3 DEF StorageInv, ExchangeInv, BodyIsReply
<1>5. \A g \in Exchanges : Members(g)' = Members(g)
  BY <1>2 DEF Members
<1>6. ASSUME NEW g \in Exchanges PROVE Fine(g)
  <2>1. CASE g = e
    BY <1>2, <1>3, <1>4, <1>5, <2>1 DEF StorageInv, ExchangeInv, BlankUntilInserted,
       NamesItsCall, BodyIsReply, BodyIsKept, Accounted, Fine, Grows, Hidden, Captured
  <2>2. CASE g # e
    BY <1>2, <1>5, <2>2, KeptIsFine DEF StorageInv, RowOnly
  <2> QED
    BY <2>1, <2>2
<1>7. \A v \in Workers \ {w} : Spared(v)
  BY <1>1, <1>2, SparedBySender DEF SendPoints
<1>8. /\ pc'[w] = "store" /\ got'[w] = b
      /\ \A v \in Workers \ {w} : SameCall(v)
  BY DEF ReplyArrives, Goto, SameCall, TypeInv, TypeOK
<1>9. CallInv(w)'
  BY <1>1, <1>2, <1>3, <1>8 DEF StorageInv, CallInv, WorksOnItsCall, SendsOnce,
     BindsAlone, ReadsTheReply, FallbackInv, HoldsExchange, Points, SendPoints
<1> QED
  BY <1>2, <1>6, <1>7, <1>8, <1>9, ProcessStep DEF Fine, Unseen, SendPoints

LEMMA StoreBodyStep ==
    ASSUME TypeInv, StorageInv, NEW w \in Workers, StoreBody(w)
    PROVE  Stored
<1>1. PICK e \in Exchanges : e = ref[w]
  BY DEF TypeInv, LocalsOK, StoreBody, HoldsExchange, Points
<1>2. pc[w] = "store" /\ row[e].state = "sending" /\ file[e] = None /\ got[w] = reply[e]
  BY <1>1 DEF StorageInv, CallInv, SendsOnce, StoreBody
<1>3. got[w] # None
  BY <1>2, ConstantsAssumption DEF TypeInv, LocalsOK, HoldsReply, Receipts
<1>4. /\ UNCHANGED <<req, ref, seen, got>>
      /\ UNCHANGED <<fence, row, rowLock, legacy, finished, origin, reply, billed, attempts>>
      /\ file'[e] = got[w] /\ \A g \in Exchanges \ {e} : file'[g] = file[g]
  BY <1>1, <1>2 DEF StoreBody, dbVars, history, TypeInv, TypeOK
<1>5. row[e].responseDigest = None /\ ~row[e].resolved /\ rowLock[e] # Cleaner
  BY <1>2 DEF StorageInv, ExchangeInv, BodyIsReply, BodyIsKept
<1>6. \A g \in Exchanges : Members(g)' = Members(g)
  BY <1>4 DEF Members
<1>7. ASSUME NEW g \in Exchanges PROVE ExchangeInv(g)' /\ Grows(g)
  <2>1. CASE g = e
    BY <1>2, <1>4, <1>5, <1>6, <2>1 DEF StorageInv, ExchangeInv, BlankUntilInserted,
       NamesItsCall, BodyIsReply, BodyIsKept, Accounted, Grows, Captured
  <2>2. CASE g # e
    BY <1>4, <1>6, <2>2, KeptIsFine DEF StorageInv, RowOnly, Fine
  <2> QED
    BY <2>1, <2>2
<1>8. \A v \in Workers \ {w} : Spared(v)
  BY <1>1, <1>2, <1>4, SparedBySender DEF SendPoints
<1>9. pc'[w] = "record" /\ \A v \in Workers \ {w} : SameCall(v)
  BY <1>4, MovedCall DEF StoreBody, Points
<1>10. CallInv(w)'
  BY <1>1, <1>2, <1>3, <1>4, <1>9 DEF StorageInv, CallInv, WorksOnItsCall, SendsOnce,
     BindsAlone, ReadsTheReply, FallbackInv, HoldsExchange, Points, SendPoints
<1> QED
  BY <1>2, <1>4, <1>7, <1>8, <1>9, <1>10, ProcessStep DEF SendPoints

LEMMA RecordReceivedStep ==
    ASSUME TypeInv, StorageInv, NEW w \in Workers, RecordReceived(w)
    PROVE  Stored /\ Unseen
<1>1. PICK e \in Exchanges : e = ref[w]
  BY DEF TypeInv, LocalsOK, RecordReceived, HoldsExchange, Points
<1>2. /\ pc[w] = "record" /\ file[e] = got[w] /\ file[e] # None
      /\ UNCHANGED <<req, ref, seen, got>>
      /\ UNCHANGED <<fence, rowLock, file, legacy, finished, origin, reply, billed, attempts>>
  BY <1>1 DEF RecordReceived, history, StorageInv, CallInv, SendsOnce
<1>3. /\ row'[e] = IF req[w].bind THEN row[e] ELSE Received(row[e], file[e])
      /\ \A g \in Exchanges \ {e} : row'[g] = row[g]
  BY <1>1, <1>2 DEF RecordReceived, TypeInv, TypeOK
<1>4. \A g \in Exchanges : RowOnly(g)
  BY <1>2 DEF RowOnly, Members
<1>5. ASSUME NEW g \in Exchanges PROVE Fine(g)
  <2>1. CASE row'[g] = row[g]
    BY <1>4, <2>1, KeptIsFine DEF StorageInv
  <2>2. CASE g = e /\ row'[e] = Received(row[e], file[e])
    BY <1>2, <1>4, <2>2, RecordedIsFine DEF StorageInv
  <2> QED
    BY <1>3, <2>1, <2>2
<1>6. \A v \in Workers \ {w} : Spared(v)
  BY <1>1, <1>2, <1>3, SparedBySender DEF SendPoints
<1>7. pc'[w] = "captured" /\ \A v \in Workers \ {w} : SameCall(v)
  BY <1>2, MovedCall DEF RecordReceived, Points
<1>8. row[e] \in ExchangeRow
  BY DEF TypeInv, TypeOK
<1>9. ~req[w].bind => row'[e].state = "received" /\ row'[e].responseDigest = file[e]
  BY <1>3, <1>8 DEF Received, ExchangeRow
<1>10. row'[e].state \notin {"absent", "reserved"} /\ (req[w].bind => row'[e] = row[e])
  BY <1>1, <1>2, <1>3, <1>9 DEF StorageInv, CallInv, WorksOnItsCall, SendsOnce,
     HoldsExchange, Points, SendPoints
<1>11. CallInv(w)'
  BY <1>1, <1>2, <1>7, <1>9, <1>10 DEF StorageInv, CallInv, WorksOnItsCall, SendsOnce,
     BindsAlone, ReadsTheReply, FallbackInv, HoldsExchange, Points, SendPoints
<1> QED
  BY <1>2, <1>5, <1>6, <1>7, <1>11, ProcessStep DEF Fine, Unseen, SendPoints

(* The transaction of on_response commits: until then nobody else could     *)
(* associate an attempt, because w holds the row.                           *)
LEMMA BindCommitsStep ==
    ASSUME TypeInv, StorageInv, NEW w \in Workers, BindCommits(w)
    PROVE  Stored /\ Unseen
<1>1. PICK e \in Exchanges : e = ref[w]
  BY DEF TypeInv, LocalsOK, BindCommits, HoldsExchange, Points
<1>2. row[e] \in ExchangeRow /\ attempts[e] \in Nat
  BY DEF TypeInv, TypeOK
<1>3. /\ pc[w] = "captured" /\ req[w].bind /\ file[e] # None /\ got[w] = reply[e]
      /\ row[e].state # "reserved" /\ row[e].state # "absent" /\ ~row[e].attempt
      /\ file[e] = reply[e]
  BY <1>1 DEF BindCommits, StorageInv, CallInv, WorksOnItsCall, SendsOnce, BindsAlone,
     ExchangeInv, BodyIsReply, HoldsExchange, Points, SendPoints
<1>4. /\ row'[e] = [Received(row[e], got[w]) EXCEPT !.attempt = TRUE]
      /\ \A g \in Exchanges \ {e} : row'[g] = row[g]
  BY <1>1 DEF BindCommits, TypeInv, TypeOK
<1>5. /\ row'[e].state = "received" /\ row'[e].digest = row[e].digest
      /\ row'[e].responseDigest = reply[e] /\ row'[e].run = row[e].run
      /\ row'[e].attempt = TRUE /\ row'[e].usage = row[e].usage
      /\ row'[e].resolved = row[e].resolved /\ row'[e].codec = row[e].codec
  BY <1>2, <1>3, <1>4 DEF Received, ExchangeRow
<1>6. /\ UNCHANGED <<fence, file, legacy, finished, origin, reply, billed, req, ref, seen, got>>
      /\ attempts'[e] = attempts[e] + 1
      /\ \A g \in Exchanges \ {e} : attempts'[g] = attempts[g]
  BY <1>1 DEF BindCommits, TypeInv, TypeOK
<1>7. \A g \in Exchanges : /\ rowLock'[g] = Cleaner => rowLock[g] = Cleaner
                           /\ \A v \in Workers \ {w} : rowLock[g] = v => rowLock'[g] = v
  BY ReleasedLocks DEF BindCommits
<1>8. \A g \in Exchanges : Members(g)' = Members(g)
  BY <1>6 DEF Members
<1>9. ASSUME NEW g \in Exchanges PROVE Fine(g)
  <2>1. CASE g = e
    <3>1. reply[e] # None /\ row[e].state # "purged" /\ rowLock'[e] # Cleaner
      BY <1>3, <1>7 DEF StorageInv, ExchangeInv, BodyIsKept
    <3>2. attempts[e] = 0
      BY <1>3 DEF StorageInv, ExchangeInv, Accounted
    <3>3. row[e].responseDigest # None => row[e].responseDigest = reply[e]
      BY DEF StorageInv, ExchangeInv, BodyIsReply
    <3>4. Accounted(e)'
      BY <1>5, <1>6, <3>1, <3>2 DEF StorageInv, ExchangeInv, Accounted
    <3>5. BodyIsKept(e)' /\ BodyIsReply(e)'
      BY <1>3, <1>5, <1>6, <3>1 DEF StorageInv, ExchangeInv, BodyIsKept, BodyIsReply
    <3>6. BlankUntilInserted(e)' /\ NamesItsCall(e)'
      BY <1>3, <1>5, <1>6, <1>8 DEF StorageInv, ExchangeInv, BlankUntilInserted, NamesItsCall
    <3>7. Grows(e) /\ Hidden(e)
      BY <1>3, <1>5, <1>6, <1>8, <3>3 DEF Grows, Hidden, Captured
    <3> QED
      BY <2>1, <3>4, <3>5, <3>6, <3>7 DEF Fine, ExchangeInv
  <2>2. CASE g # e
    BY <1>4, <1>6, <1>7, <1>8, <2>2, KeptIsFine DEF StorageInv, RowOnly
  <2> QED
    BY <2>1, <2>2
<1>10. \A v \in Workers \ {w} : Spared(v)
  BY <1>1, <1>3, <1>4, <1>6, <1>7, SparedBySender DEF SendPoints
<1>11. pc'[w] = "done" /\ \A v \in Workers \ {w} : SameCall(v)
  BY <1>6, MovedCall DEF BindCommits, Points
<1>12. reply[e] # None
  BY <1>3
<1>13. CallInv(w)'
  BY <1>1, <1>3, <1>5, <1>6, <1>11, <1>12 DEF StorageInv, CallInv, WorksOnItsCall, SendsOnce,
     BindsAlone, ReadsTheReply, FallbackInv, HoldsExchange, Points, SendPoints
<1> QED
  BY <1>6, <1>9, <1>10, <1>11, <1>13, ProcessStep DEF Fine, Unseen, SendPoints

LEMMA MarkUnknownStep ==
    ASSUME TypeInv, StorageInv, NEW w \in Workers, MarkUnknown(w)
    PROVE  Stored /\ Unseen
<1>1. PICK e \in Exchanges : e = ref[w]
  BY DEF TypeInv, LocalsOK, MarkUnknown, HoldsExchange, Points
<1>2. row[e] \in ExchangeRow
  BY DEF TypeInv, TypeOK
<1>3. /\ row'[e] = AfterException(row[e])
      /\ \A g \in Exchanges \ {e} : row'[g] = row[g]
      /\ UNCHANGED <<fence, rowLock, legacy, file, finished, origin, reply, billed, attempts>>
  BY <1>1 DEF MarkUnknown, TypeInv, TypeOK, history
<1>4. /\ row'[e].digest = row[e].digest
      /\ row'[e].responseDigest = row[e].responseDigest /\ row'[e].run = row[e].run
      /\ row'[e].attempt = row[e].attempt /\ row'[e].usage = row[e].usage
      /\ row'[e].resolved = row[e].resolved /\ row'[e].codec = row[e].codec
      /\ row'[e].state = IF row[e].state = "sending" THEN "unknown" ELSE row[e].state
  BY <1>2, <1>3 DEF AfterException, ExchangeRow
<1>5. \A g \in Exchanges : RowOnly(g)
  BY <1>3 DEF RowOnly, Members
<1>6. ASSUME NEW g \in Exchanges PROVE Fine(g)
  <2>1. CASE g = e /\ row[e].state = "sending"
    BY <1>3, <1>4, <1>5, <2>1 DEF StorageInv, ExchangeInv, BlankUntilInserted, NamesItsCall,
       BodyIsReply, BodyIsKept, Accounted, Fine, Grows, Hidden, Captured, RowOnly
  <2>2. CASE g # e \/ row[e].state # "sending"
    BY <1>3, <1>5, <2>2, KeptIsFine DEF StorageInv, AfterException
  <2> QED
    BY <2>1, <2>2
<1>7. pc[w] = "fail" /\ Leave(w)
  BY DEF MarkUnknown
<1>8. \A v \in Workers \ {w} : Spared(v)
  BY <1>1, <1>3, <1>7, SparedBySender DEF SendPoints
<1> QED
  BY <1>3, <1>6, <1>7, <1>8, LeftCall, ProcessStep DEF Fine, Unseen, SendPoints

(* A replay reads the reply, and adopts a file whose row was never written. *)
LEMMA ReadBodyStep ==
    ASSUME TypeInv, StorageInv, NEW w \in Workers, ReadBody(w)
    PROVE  Stored /\ Unseen
<1>1. PICK e \in Exchanges : e = ref[w]
  BY DEF TypeInv, LocalsOK, ReadBody, HoldsExchange, Points
<1>2. row[e] \in ExchangeRow
  BY DEF TypeInv, TypeOK
<1>3. /\ pc[w] = "read" /\ file[e] # None
      /\ UNCHANGED <<req, ref, seen>>
      /\ UNCHANGED <<fence, rowLock, file, legacy, finished, origin, reply, billed, attempts>>
      /\ seen[w] # None => row[e].responseDigest # None
  BY <1>1 DEF ReadBody, Readable, history, StorageInv, CallInv, ReadsTheReply
<1>4. /\ row'[e] = IF seen[w] = None THEN Received(row[e], file[e]) ELSE row[e]
      /\ \A g \in Exchanges \ {e} : row'[g] = row[g]
  BY <1>1 DEF ReadBody, TypeInv, TypeOK
<1>5. \A g \in Exchanges : RowOnly(g)
  BY <1>3 DEF RowOnly, Members
<1>6. ASSUME NEW g \in Exchanges PROVE Fine(g)
  <2>1. CASE row'[g] = row[g]
    BY <1>5, <2>1, KeptIsFine DEF StorageInv
  <2>2. CASE g = e /\ row'[e] = Received(row[e], file[e])
    BY <1>3, <1>5, <2>2, RecordedIsFine DEF StorageInv
  <2> QED
    BY <1>4, <2>1, <2>2
<1>7. row'[e].responseDigest # None /\ row'[e].attempt = row[e].attempt
      /\ (row'[e].state = row[e].state \/ file[e] # None)
  BY <1>2, <1>3, <1>4 DEF Received, ExchangeRow
<1>8. \A v \in Workers : Spared(v)
  BY <1>3, <1>4, <1>7, SparedCalls
<1>9. /\ pc'[w] \in {"codec", "done"} /\ got'[w] = file[e]
      /\ \A v \in Workers \ {w} : SameCall(v)
  BY <1>1 DEF ReadBody, Goto, SameCall, TypeInv, TypeOK
<1>10. file[e] = reply[e] /\ row'[e].state # "absent"
  BY <1>1, <1>3, <1>6 DEF StorageInv, ExchangeInv, BodyIsReply, CallInv, WorksOnItsCall,
     Fine, Grows, HoldsExchange, Points
<1>11. CallInv(w)'
  BY <1>1, <1>3, <1>7, <1>9, <1>10 DEF StorageInv, CallInv, WorksOnItsCall, SendsOnce,
     BindsAlone, ReadsTheReply, FallbackInv, HoldsExchange, Points, SendPoints
<1> QED
  BY <1>3, <1>6, <1>8, <1>9, <1>11, ProcessStep DEF Fine, Unseen, SendPoints

LEMMA AdoptCodecStep ==
    ASSUME TypeInv, StorageInv, NEW w \in Workers, AdoptCodec(w)
    PROVE  Stored /\ Unseen
<1>1. PICK e \in Exchanges : e = ref[w]
  BY DEF TypeInv, LocalsOK, AdoptCodec, HoldsExchange, Points
<1>2. row[e] \in ExchangeRow
  BY DEF TypeInv, TypeOK
<1>3. /\ pc[w] = "codec" /\ UNCHANGED <<req, ref, seen, got>>
      /\ UNCHANGED <<fence, rowLock, file, legacy, finished, origin, reply, billed, attempts>>
      /\ row'[e] = [row[e] EXCEPT !.codec = req[w].codec]
      /\ row[e].codec \in {None, req[w].codec}
      /\ \A g \in Exchanges \ {e} : row'[g] = row[g]
  BY <1>1 DEF AdoptCodec, CodecFits, history, TypeInv, TypeOK
<1>4. /\ row'[e].state = row[e].state /\ row'[e].digest = row[e].digest
      /\ row'[e].responseDigest = row[e].responseDigest /\ row'[e].run = row[e].run
      /\ row'[e].attempt = row[e].attempt /\ row'[e].usage = row[e].usage
      /\ row'[e].resolved = row[e].resolved
      /\ row[e].codec # None => row'[e].codec = row[e].codec
  BY <1>2, <1>3 DEF ExchangeRow
<1>5. row[e].state # "absent" /\ row[e].responseDigest # None /\ got[w] = reply[e]
  BY <1>1, <1>3 DEF StorageInv, CallInv, WorksOnItsCall, ReadsTheReply, HoldsExchange, Points
<1>6. \A g \in Exchanges : RowOnly(g)
  BY <1>3 DEF RowOnly, Members
<1>7. ASSUME NEW g \in Exchanges PROVE Fine(g)
  BY <1>3, <1>4, <1>5, <1>6, KeptIsFine, LeasedIsFine DEF StorageInv
<1>8. \A v \in Workers : Spared(v)
  BY <1>3, <1>4, SparedCalls
<1>9. pc'[w] = "done" /\ \A v \in Workers \ {w} : SameCall(v)
  BY <1>3, MovedCall DEF AdoptCodec, Points
<1>10. CallInv(w)'
  BY <1>1, <1>3, <1>4, <1>5, <1>9 DEF StorageInv, CallInv, WorksOnItsCall, SendsOnce,
     BindsAlone, ReadsTheReply, FallbackInv, HoldsExchange, Points, SendPoints
<1> QED
  BY <1>3, <1>7, <1>8, <1>9, <1>10, ProcessStep DEF Fine, Unseen, SendPoints

(* A replay that finds the row unlocked and without an attempt is alone: a  *)
(* sender with on_response would hold the row.                              *)
LEMMA AssociateAttemptStep ==
    ASSUME TypeInv, StorageInv, NEW w \in Workers, AssociateAttempt(w)
    PROVE  Stored /\ Unseen
<1>1. PICK e \in Exchanges : e = ref[w]
  BY DEF TypeInv, LocalsOK, AssociateAttempt, HoldsExchange, Points
<1>2. row[e] \in ExchangeRow
  BY DEF TypeInv, TypeOK
<1>3. /\ pc[w] = "done" /\ rowLock[e] = None /\ ~row[e].attempt
      /\ UNCHANGED <<fence, rowLock, file, legacy, finished, origin, reply, billed>>
      /\ UNCHANGED <<pc, req, ref, seen, got>>
      /\ row'[e] = [row[e] EXCEPT !.attempt = TRUE]
      /\ \A g \in Exchanges \ {e} : row'[g] = row[g]
      /\ attempts'[e] = attempts[e] + 1
      /\ \A g \in Exchanges \ {e} : attempts'[g] = attempts[g]
  BY <1>1 DEF AssociateAttempt, LacksAttempt, Unlocked, callVars, TypeInv, TypeOK
<1>4. /\ row'[e].state = row[e].state /\ row'[e].digest = row[e].digest
      /\ row'[e].responseDigest = row[e].responseDigest /\ row'[e].run = row[e].run
      /\ row'[e].attempt = TRUE /\ row'[e].usage = row[e].usage
      /\ row'[e].resolved = row[e].resolved /\ row'[e].codec = row[e].codec
  BY <1>2, <1>3 DEF ExchangeRow
<1>5. row[e].state # "absent" /\ row[e].responseDigest # None
  BY <1>1, <1>3 DEF StorageInv, CallInv, WorksOnItsCall, ReadsTheReply, HoldsExchange, Points
<1>6. \A g \in Exchanges : Members(g)' = Members(g)
  BY <1>3 DEF Members
<1>7. ASSUME NEW g \in Exchanges PROVE Fine(g)
  <2>1. CASE g = e
    <3>1. attempts[e] = 0
      BY <1>3 DEF StorageInv, ExchangeInv, Accounted
    <3>2. Accounted(e)'
      BY <1>3, <1>4, <1>5, <3>1 DEF StorageInv, ExchangeInv, Accounted
    <3>3. BodyIsReply(e)' /\ BodyIsKept(e)'
      BY <1>3, <1>4 DEF StorageInv, ExchangeInv, BodyIsReply, BodyIsKept
    <3>4. BlankUntilInserted(e)' /\ NamesItsCall(e)'
      BY <1>3, <1>4, <1>5, <1>6 DEF StorageInv, ExchangeInv, BlankUntilInserted, NamesItsCall
    <3>5. Grows(e) /\ Hidden(e)
      BY <1>3, <1>4, <1>6 DEF Grows, Hidden, Captured
    <3> QED
      BY <2>1, <3>2, <3>3, <3>4, <3>5 DEF Fine, ExchangeInv
  <2>2. CASE g # e
    BY <1>3, <1>6, <2>2, KeptIsFine DEF StorageInv, RowOnly
  <2> QED
    BY <2>1, <2>2
<1>8. ASSUME NEW v \in Workers PROVE Spared(v)
  <2>1. pc[v] \in SendPoints => ref[v] \in Exchanges
    BY DEF TypeInv, LocalsOK, HoldsExchange, SendPoints, Points
  <2>2. row[e].state # "sending"
    BY <1>5 DEF StorageInv, ExchangeInv, BodyIsReply
  <2>3. pc[v] = "call" => row[ref[v]].state = "sending"
    BY DEF StorageInv, CallInv, SendsOnce
  <2>4. pc[v] \in {"wait", "store", "record", "captured"} /\ req[v].bind => rowLock[ref[v]] # None
    BY ConstantsAssumption DEF StorageInv, CallInv, BindsAlone
  <2>5. pc[v] \in SendPoints \ {"fail"} /\ req[v].bind => ref[v] # e
    BY <1>3, <2>2, <2>3, <2>4 DEF SendPoints
  <2> QED
    BY <1>3, <1>4, <2>1, <2>5 DEF Spared, SendPoints
<1>9. \A v \in Workers : SameCall(v)
  BY <1>3 DEF SameCall
<1> QED
  BY <1>3, <1>7, <1>8, <1>9, OutsideStep DEF Fine, Unseen

LEMMA RecordUsageStep ==
    ASSUME TypeInv, StorageInv, NEW w \in Workers, RecordUsage(w)
    PROVE  Stored /\ Unseen
<1>1. PICK e \in Exchanges : e = ref[w]
  BY DEF TypeInv, LocalsOK, RecordUsage, HoldsExchange, Points
<1>2. row[e] \in ExchangeRow
  BY DEF TypeInv, TypeOK
<1>3. /\ pc[w] = "done" /\ Leave(w)
      /\ UNCHANGED <<fence, rowLock, file, legacy, finished, origin, reply, attempts>>
      /\ \A g \in Exchanges \ {e} : row'[g] = row[g] /\ billed'[g] = billed[g]
  BY <1>1 DEF RecordUsage, AddUsage, TypeInv, TypeOK
<1>4. \/ row'[e] = row[e] /\ billed'[e] = billed[e]
      \/ /\ ~row[e].usage /\ row'[e] = [row[e] EXCEPT !.usage = TRUE]
         /\ billed'[e] = billed[e] + 1
  BY <1>1 DEF RecordUsage, AddUsage, TypeInv, TypeOK
<1>5. row[e].state # "absent" /\ row[e].responseDigest # None
  BY <1>1, <1>3 DEF StorageInv, CallInv, WorksOnItsCall, ReadsTheReply, HoldsExchange, Points
<1>6. \A g \in Exchanges : Members(g)' = Members(g)
  BY <1>3 DEF Members
<1>7. /\ row'[e].state = row[e].state /\ row'[e].digest = row[e].digest
      /\ row'[e].responseDigest = row[e].responseDigest /\ row'[e].run = row[e].run
      /\ row'[e].attempt = row[e].attempt
      /\ row'[e].resolved = row[e].resolved /\ row'[e].codec = row[e].codec
      /\ \/ row'[e].usage = row[e].usage /\ billed'[e] = billed[e]
         \/ ~row[e].usage /\ row'[e].usage = TRUE /\ billed'[e] = billed[e] + 1
  BY <1>2, <1>4 DEF ExchangeRow
<1>8. ASSUME NEW g \in Exchanges PROVE Fine(g)
  <2>1. CASE g = e
    BY <1>3, <1>5, <1>6, <1>7, <2>1 DEF StorageInv, ExchangeInv, BlankUntilInserted,
       NamesItsCall, BodyIsReply, BodyIsKept, Accounted, Fine, Grows, Hidden, Captured
  <2>2. CASE g # e
    BY <1>3, <1>6, <2>2, KeptIsFine DEF StorageInv, RowOnly
  <2> QED
    BY <2>1, <2>2
<1>9. \A v \in Workers : Spared(v)
  BY <1>3, <1>7, SparedCalls
<1> QED
  BY <1>3, <1>8, <1>9, LeftCall, ProcessStep DEF Fine, Unseen, SendPoints
-----------------------------------------------------------------------------
(* The steps outside the calls.                                             *)
LEMMA LeaseExpiresStep ==
    ASSUME TypeInv, StorageInv, NEW e \in Exchanges, LeaseExpires(e)
    PROVE  Stored /\ Unseen
<1>1. row[e] \in ExchangeRow
  BY DEF TypeInv, TypeOK
<1>2. /\ UNCHANGED <<fence, rowLock, file, legacy, finished, origin, reply, billed, attempts>>
      /\ UNCHANGED <<pc, req, ref, seen, got>>
      /\ row'[e] = [row[e] EXCEPT !.lease = FALSE] /\ row[e].state # "absent"
      /\ \A g \in Exchanges \ {e} : row'[g] = row[g]
  BY DEF LeaseExpires, callVars, history, TypeInv, TypeOK
<1>3. /\ row'[e].state = row[e].state /\ row'[e].digest = row[e].digest
      /\ row'[e].responseDigest = row[e].responseDigest /\ row'[e].run = row[e].run
      /\ row'[e].attempt = row[e].attempt /\ row'[e].usage = row[e].usage
      /\ row'[e].resolved = row[e].resolved /\ row'[e].codec = row[e].codec
  BY <1>1, <1>2 DEF ExchangeRow
<1>4. \A g \in Exchanges : RowOnly(g)
  BY <1>2 DEF RowOnly, Members
<1>5. \A g \in Exchanges : Fine(g)
  BY <1>2, <1>3, <1>4, KeptIsFine, LeasedIsFine DEF StorageInv
<1>6. \A v \in Workers : SameCall(v) /\ Spared(v)
  BY <1>2, <1>3, SparedCalls DEF SameCall
<1> QED
  BY <1>2, <1>5, <1>6, OutsideStep DEF Fine, Unseen

(* A run ends, the clean-up dies after its unlink, or nothing happens.      *)
LEMMA NoRowStep ==
    ASSUME TypeInv, StorageInv,
           \/ \E x \in Runs : RunFinishes(x)
           \/ \E e \in Exchanges : CleanerCrashes(e)
           \/ UNCHANGED vars
    PROVE  Stored /\ Unseen
<1>1. /\ UNCHANGED <<fence, row, file, legacy, origin, reply, billed, attempts>>
      /\ UNCHANGED <<pc, req, ref, seen, got>> /\ finished \subseteq finished'
  BY DEF RunFinishes, CleanerCrashes, vars, dbVars, callVars, history
<1>2. ASSUME NEW g \in Exchanges
      PROVE  /\ rowLock'[g] = Cleaner => rowLock[g] = Cleaner
             /\ \A v \in Workers : rowLock[g] = v => rowLock'[g] = v
  BY ConstantsAssumption DEF RunFinishes, CleanerCrashes, vars, dbVars, TypeInv, TypeOK
<1>3. \A g \in Exchanges : RowOnly(g)
  BY <1>1, <1>2 DEF RowOnly, Members
<1>4. \A g \in Exchanges : Fine(g)
  BY <1>1, <1>3, KeptIsFine DEF StorageInv
<1>5. \A v \in Workers : SameCall(v) /\ Spared(v)
  BY <1>1, <1>2, SparedCalls DEF SameCall
<1> QED
  BY <1>1, <1>4, <1>5, OutsideStep DEF Fine, Unseen

LEMMA ResolveStep ==
    ASSUME TypeInv, StorageInv, NEW x \in Runs, Resolve(x)
    PROVE  Stored /\ Unseen
<1>1. /\ UNCHANGED <<fence, rowLock, file, legacy, finished, origin, reply, billed, attempts>>
      /\ UNCHANGED <<pc, req, ref, seen, got>>
  BY DEF Resolve, callVars, history
<1>2. \A g \in Exchanges : RowOnly(g)
  BY <1>1 DEF RowOnly, Members
<1>3. ASSUME NEW g \in Exchanges
      PROVE  Fine(g) /\ row'[g].state = row[g].state /\ row'[g].attempt = row[g].attempt
  <2>1. row[g] \in ExchangeRow
    BY DEF TypeInv, TypeOK
  <2>2. CASE row'[g] = row[g]
    BY <1>2, <2>2, KeptIsFine DEF StorageInv
  <2>3. CASE /\ row[g].state = "received" /\ ~row[g].resolved
             /\ row'[g] = [row[g] EXCEPT !.resolved = TRUE]
    <3>1. /\ row'[g].state = row[g].state /\ row'[g].digest = row[g].digest
          /\ row'[g].responseDigest = row[g].responseDigest /\ row'[g].run = row[g].run
          /\ row'[g].attempt = row[g].attempt /\ row'[g].usage = row[g].usage
          /\ row'[g].resolved = TRUE /\ row'[g].codec = row[g].codec
      BY <2>1, <2>3 DEF ExchangeRow
    <3>2. file[g] # None /\ rowLock[g] # Cleaner
      BY <2>3 DEF StorageInv, ExchangeInv, BodyIsKept
    <3> QED
      <4>1. BlankUntilInserted(g)' /\ NamesItsCall(g)'
        BY <1>2, <2>3, <3>1 DEF StorageInv, ExchangeInv, BlankUntilInserted, NamesItsCall,
           RowOnly
      <4>2. BodyIsReply(g)' /\ BodyIsKept(g)'
        BY <1>2, <2>3, <3>1, <3>2 DEF StorageInv, ExchangeInv, BodyIsReply, BodyIsKept, RowOnly
      <4>3. Accounted(g)' /\ Grows(g) /\ Hidden(g)
        BY <1>2, <2>3, <3>1, <3>2 DEF StorageInv, ExchangeInv, Accounted, Grows, Hidden,
           Captured, RowOnly
      <4> QED
        BY <3>1, <4>1, <4>2, <4>3 DEF Fine, ExchangeInv
  <2> QED
    BY <2>2, <2>3 DEF Resolve, Resolvable
<1>4. \A v \in Workers : SameCall(v) /\ Spared(v)
  BY <1>1, <1>3, SparedCalls DEF SameCall
<1> QED
  BY <1>1, <1>3, <1>4, OutsideStep DEF Fine, Unseen

(* No call works on the exchange whose file is removed.                     *)
LEMMA UnlinkStep ==
    ASSUME TypeInv, StorageInv, NEW e \in Exchanges, Unlink(e)
    PROVE  Stored
<1>1. /\ UNCHANGED <<fence, row, legacy, finished, origin, reply, billed, attempts>>
      /\ UNCHANGED <<pc, req, ref, seen, got>>
      /\ file'[e] = None /\ rowLock'[e] = Cleaner
      /\ \A g \in Exchanges \ {e} : file'[g] = file[g] /\ rowLock'[g] = rowLock[g]
      /\ row[e].state = "received" /\ row[e].resolved /\ row[e].run \in finished
      /\ \A w \in Workers : ref[w] # e
  BY DEF Unlink, callVars, history, TypeInv, TypeOK
<1>2. \A g \in Exchanges : Members(g)' = Members(g)
  BY <1>1 DEF Members
<1>3. ASSUME NEW g \in Exchanges PROVE ExchangeInv(g)' /\ Grows(g)
  <2>1. CASE g = e
    BY <1>1, <1>2, <2>1 DEF StorageInv, ExchangeInv, BlankUntilInserted, NamesItsCall,
       BodyIsReply, BodyIsKept, Accounted, Grows, Captured
  <2>2. CASE g # e
    BY <1>1, <1>2, <2>2, KeptIsFine DEF StorageInv, RowOnly, Fine
  <2> QED
    BY <2>1, <2>2
<1>4. \A v \in Workers : SameCall(v) /\ Spared(v)
  <2> SUFFICES ASSUME NEW v \in Workers PROVE SameCall(v) /\ Spared(v)
    OBVIOUS
  <2>1. pc[v] \in SendPoints => ref[v] \in Exchanges \ {e}
    BY <1>1 DEF TypeInv, LocalsOK, HoldsExchange, SendPoints, Points
  <2> QED
    BY <1>1, <2>1 DEF SameCall, Spared, SendPoints
<1> QED
  BY <1>1, <1>3, <1>4, OutsideStep

LEMMA PurgeStep ==
    ASSUME TypeInv, StorageInv, NEW e \in Exchanges, Purge(e)
    PROVE  Stored /\ Unseen
<1>1. row[e] \in ExchangeRow
  BY DEF TypeInv, TypeOK
<1>2. /\ UNCHANGED <<fence, file, legacy, finished, origin, reply, billed, attempts>>
      /\ UNCHANGED <<pc, req, ref, seen, got>>
      /\ row'[e] = [row[e] EXCEPT !.state = "purged"] /\ rowLock[e] = Cleaner /\ rowLock'[e] = None
      /\ \A g \in Exchanges \ {e} : row'[g] = row[g] /\ rowLock'[g] = rowLock[g]
  BY DEF Purge, callVars, history, TypeInv, TypeOK
<1>3. /\ row'[e].state = "purged" /\ row'[e].digest = row[e].digest
      /\ row'[e].responseDigest = row[e].responseDigest /\ row'[e].run = row[e].run
      /\ row'[e].attempt = row[e].attempt /\ row'[e].usage = row[e].usage
      /\ row'[e].resolved = row[e].resolved /\ row'[e].codec = row[e].codec
  BY <1>1, <1>2 DEF ExchangeRow
<1>4. \A g \in Exchanges : Members(g)' = Members(g)
  BY <1>2 DEF Members
<1>5. row[e].state = "received" /\ row[e].resolved /\ file[e] = None /\ row[e].run \in finished
  BY <1>2 DEF StorageInv, ExchangeInv, BodyIsKept
<1>6. ASSUME NEW g \in Exchanges PROVE Fine(g)
  <2>1. CASE g = e
    <3>1. BlankUntilInserted(e)' /\ NamesItsCall(e)'
      BY <1>2, <1>3, <1>4, <1>5 DEF StorageInv, ExchangeInv, BlankUntilInserted, NamesItsCall
    <3>2. BodyIsReply(e)' /\ BodyIsKept(e)'
      BY <1>2, <1>3, <1>5, ConstantsAssumption DEF StorageInv, ExchangeInv, BodyIsReply,
         BodyIsKept
    <3>3. Accounted(e)' /\ Grows(e) /\ Hidden(e)
      BY <1>2, <1>3, <1>4, <1>5 DEF StorageInv, ExchangeInv, Accounted, Grows, Hidden, Captured
    <3> QED
      BY <2>1, <3>1, <3>2, <3>3 DEF Fine, ExchangeInv
  <2>2. CASE g # e
    BY <1>2, <1>4, <2>2, KeptIsFine DEF StorageInv, RowOnly
  <2> QED
    BY <2>1, <2>2
<1>7. \A v \in Workers : SameCall(v) /\ Spared(v)
  <2>1. ASSUME NEW v \in Workers, NEW g \in Exchanges, rowLock[g] = v PROVE rowLock'[g] = v
    <3>1. g # e
      BY <1>2, <2>1, ConstantsAssumption
    <3> QED
      BY <1>2, <2>1, <3>1
  <2>2. \A g \in Exchanges :
            /\ row'[g].state = row[g].state \/ row[g].state # "sending"
            /\ row'[g].attempt = row[g].attempt
    BY <1>2, <1>3, <1>5
  <2> QED
    BY <1>2, <2>1, <2>2, SparedCalls DEF SameCall
<1> QED
  BY <1>2, <1>6, <1>7, OutsideStep DEF Fine, Unseen
-----------------------------------------------------------------------------
LEMMA StorageInit == Init => StorageInv
<1> SUFFICES ASSUME Init PROVE StorageInv
  OBVIOUS
<1>1. \A e \in Exchanges : /\ row[e] = AbsentRow /\ file[e] = None /\ rowLock[e] = None
                           /\ origin[e] = None /\ billed[e] = 0 /\ attempts[e] = 0
  BY DEF Init
<1>2. ASSUME NEW e \in Exchanges PROVE ExchangeInv(e)
  <2>1. /\ row[e].state = "absent" /\ row[e].responseDigest = None /\ rowLock[e] # Cleaner
        /\ ~row[e].usage /\ ~row[e].attempt /\ ~row[e].resolved
    BY <1>1, ConstantsAssumption DEF AbsentRow
  <2>2. BlankUntilInserted(e) /\ NamesItsCall(e)
    BY <1>1, <2>1 DEF BlankUntilInserted, NamesItsCall
  <2>3. BodyIsReply(e) /\ BodyIsKept(e) /\ Accounted(e)
    BY <1>1, <2>1 DEF BodyIsReply, BodyIsKept, Accounted
  <2> QED
    BY <2>2, <2>3 DEF ExchangeInv
<1>3. \A w \in Workers : pc[w] = "idle"
  BY DEF Init
<1>4. \A w \in Workers : CallInv(w)
  BY <1>3 DEF CallInv, WorksOnItsCall, SendsOnce, BindsAlone, ReadsTheReply, FallbackInv,
     HoldsExchange, Points, SendPoints
<1> QED
  BY <1>1, <1>2, <1>3, <1>4 DEF StorageInv, OneSending, OriginsJustified, SendPoints

(* The four steps that SpendOnce sees.                                      *)
Seen ==
    \/ \E w \in Workers, e \in Exchanges : Insert(w, e)
    \/ \E w \in Workers : ClaimSend(w) \/ StoreBody(w)
    \/ \E e \in Exchanges : Unlink(e)

LEMMA StorageStep ==
    ASSUME TypeInv, SpendInv, StorageInv, [Next]_vars
    PROVE  Stored /\ (Unseen \/ Seen)
<1>1. ASSUME NEW w \in Workers, (\E r \in Requests : Begin(w, r)) \/ Crash(w)
      PROVE  Stored /\ Unseen
  BY <1>1, BeginStep, LeaveStep
<1>2. ASSUME NEW w \in Workers, Reserve(w)
      PROVE  Stored /\ (Unseen \/ Seen)
  BY <1>2, ReserveSavedStep, LeaveStep, ReserveFreeStep, InsertStep DEF Reserve, Seen
<1>3. ASSUME NEW w \in Workers, Transport(w)
      PROVE  Stored /\ (Unseen \/ Seen)
  BY <1>3, LeaveStep, ClaimSendStep, SendStep, ReplyArrivesStep, StoreBodyStep,
     RecordReceivedStep, SendReturnsStep, BindCommitsStep, SendRaisesStep, MarkUnknownStep
     DEF Transport, Seen
<1>4. ASSUME NEW w \in Workers, ReplaySaved(w)
      PROVE  Stored /\ Unseen
  BY <1>4, ReadRowStep, ReadBodyStep, LeaveStep, AdoptCodecStep, AssociateAttemptStep,
     RecordUsageStep DEF ReplaySaved
<1>5. ASSUME NEW e \in Exchanges, LeaseExpires(e) \/ CleanUp(e)
      PROVE  Stored /\ (Unseen \/ Seen)
  BY <1>5, LeaseExpiresStep, UnlinkStep, PurgeStep, NoRowStep DEF CleanUp, Seen
<1>6. ASSUME NEW x \in Runs, RunFinishes(x) \/ Resolve(x)
      PROVE  Stored /\ Unseen
  BY <1>6, NoRowStep, ResolveStep
<1>7. CASE UNCHANGED vars
  BY <1>7, NoRowStep
<1> QED
  BY <1>1, <1>2, <1>3, <1>4, <1>5, <1>6, <1>7 DEF Next, Step

StoredInv == TypeInv /\ SpendInv /\ StorageInv

LEMMA StorageInvariant == Spec => []StoredInv
<1>1. Init => StorageInv
  BY StorageInit
<1>2. TypeInv /\ SpendInv /\ StorageInv /\ [Next]_vars => StorageInv'
  BY StorageStep DEF Stored
<1> QED
  BY <1>1, <1>2, SpendInvariant, PTL DEF Spec, StoredInv

-----------------------------------------------------------------------------
(* A caller that gets a reply gets the one that came back for this very     *)
(* request, however many processes sent, crashed and replayed it.           *)
THEOREM AnswersAreForTheirCalls == Spec => []AnswerIsForTheCall
<1>1. StoredInv => AnswerIsForTheCall
  BY DEF StoredInv, StorageInv, CallInv, WorksOnItsCall, ReadsTheReply, AnswerIsForTheCall,
     HoldsExchange, Points
<1> QED
  BY <1>1, StorageInvariant, PTL

(* What the row says of the file is true, through every crash between the   *)
(* two writes and through the clean-up.                                     *)
THEOREM RowsAgreeWithFiles == Spec => []RowAgreesWithFile
<1>1. StoredInv => RowAgreesWithFile
  BY DEF StoredInv, StorageInv, ExchangeInv, BodyIsReply, BodyIsKept, RowAgreesWithFile
<1> QED
  BY <1>1, StorageInvariant, PTL

(* One judge attempt for an exchange, whether its sender or a replay saves  *)
(* it.                                                                      *)
THEOREM OneAttempt == Spec => []AttemptOnce
<1>1. StoredInv => AttemptOnce
  BY DEF StoredInv, StorageInv, ExchangeInv, Accounted, AttemptOnce
<1> QED
  BY <1>1, StorageInvariant, PTL

(* One accounting row for an exchange, and none without a reply.            *)
THEOREM OnePrice == Spec => []UsageOnce
<1>1. ASSUME StoredInv, NEW e \in Exchanges
      PROVE  billed[e] <= 1 /\ (billed[e] = 1 => reply[e] # None)
  <2>1. billed[e] = IF row[e].usage THEN 1 ELSE 0
    BY <1>1 DEF StoredInv, StorageInv, ExchangeInv, Accounted
  <2>2. row[e].usage => reply[e] # None
    BY <1>1 DEF StoredInv, StorageInv, ExchangeInv, Accounted, BodyIsReply
  <2> QED
    BY <2>1, <2>2
<1>2. StoredInv => UsageOnce
  BY <1>1 DEF UsageOnce
<1> QED
  BY <1>2, StorageInvariant, PTL

(* The second judge stage is only ever paid after the transient reply of a  *)
(* first stage with the same members.                                       *)
THEOREM FallbacksAreJustified == Spec => []FallbackIsJustified
<1>1. StoredInv => FallbackIsJustified
  BY DEF StoredInv, StorageInv, OriginsJustified, Justified, FallbackIsJustified
<1> QED
  BY <1>1, StorageInvariant, PTL

(* No step rewrites a reservation, its request, its reply or its file.      *)
THEOREM ReservationsAreImmutable == Spec => ReservationIsImmutable
<1>1. ASSUME StoredInv, [Next]_vars, NEW k \in Works, fence[k] # None
      PROVE  fence'[k] = fence[k]
  <2>1. PICK e \in Exchanges : e = fence[k]
    BY <1>1 DEF StoredInv, TypeInv, TypeOK
  <2>2. row[e].state # "absent"
    BY <1>1, <2>1 DEF StoredInv, SpendInv, FencedIsPresent
  <2>3. Members(e)' = Members(e)
    BY <1>1, <2>2, StorageStep DEF StoredInv, Stored, Grows
  <2> QED
    BY <2>1, <2>3 DEF Members
<1>2. ASSUME StoredInv, [Next]_vars, NEW e \in Exchanges PROVE Grows(e)
  BY <1>2, StorageStep DEF StoredInv, Stored
<1>3. StoredInv /\ [Next]_vars =>
        /\ \A k \in Works : fence[k] # None => fence'[k] = fence[k]
        /\ \A e \in Exchanges :
             /\ row[e].digest # None => row'[e].digest = row[e].digest
             /\ row[e].codec # None => row'[e].codec = row[e].codec
             /\ row[e].responseDigest # None =>
                   row'[e].responseDigest = row[e].responseDigest
             /\ file[e] # None =>
                   \/ file'[e] = file[e]
                   \/ file'[e] = None /\ row[e].resolved
  BY <1>1, <1>2 DEF Grows
<1> QED
  BY <1>3, StorageInvariant, PTL DEF Spec, ReservationIsImmutable
-----------------------------------------------------------------------------
(* The journal implements SpendOnce: a work's stage and answer, read off    *)
(* its fence, row and file, are those of the abstract specification.        *)
SpendOf(k) ==
    IF fence[k] = None THEN "free"
    ELSE IF row[fence[k]].state = "reserved" THEN "claimed" ELSE "committed"

AnswerOf(k) ==
    IF fence[k] = None THEN None
    ELSE IF file[fence[k]] # None THEN file[fence[k]]
    ELSE IF row[fence[k]].resolved THEN "forgotten" ELSE None

LEMMA Fenced ==
    ASSUME StoredInv, NEW k \in Works, fence[k] # None
    PROVE  /\ fence[k] \in Exchanges /\ row[fence[k]].state # "absent"
           /\ k \in Members(fence[k])
BY DEF StoredInv, TypeInv, TypeOK, SpendInv, FencedIsPresent, Members

(* An exchange whose step is hidden shows its works unchanged.              *)
LEMMA HiddenShowsNothing ==
    ASSUME StoredInv, NEW k \in Works, fence'[k] = fence[k],
           fence[k] # None => Hidden(fence[k])
    PROVE  SpendOf(k)' = SpendOf(k) /\ AnswerOf(k)' = AnswerOf(k)
<1>1. CASE fence[k] = None
  BY <1>1 DEF SpendOf, AnswerOf
<1>2. CASE fence[k] # None
  BY <1>2, Fenced DEF SpendOf, AnswerOf, Hidden
<1> QED
  BY <1>1, <1>2

LEMMA UnseenIsStutter ==
    ASSUME \A k \in Works : SpendOf(k)' = SpendOf(k) /\ AnswerOf(k)' = AnswerOf(k)
    PROVE  UNCHANGED Promise!abstractVars
BY DEF SpendOf, AnswerOf, Promise!abstractVars

LEMMA InsertClaims ==
    ASSUME StoredInv, NEW w \in Workers, NEW e \in Exchanges, Insert(w, e)
    PROVE  Promise!Next
<1>1. req[w].keys \in SUBSET Works /\ \A k \in req[w].keys : fence[k] = None
  BY ConstantsAssumption DEF StoredInv, TypeInv, LocalsOK, Insert, MayInsert, Claimed, Request
<1>2. row'[e].state = "reserved" /\ file'[e] = None /\ ~row'[e].resolved
  <2>1. req[w] \in Requests
    BY DEF StoredInv, TypeInv, LocalsOK, Insert
  <2>2. TableAtReserve(req[w]) \in [Exchanges -> ExchangeRow]
    BY <2>1, TableTyped DEF StoredInv, TypeInv
  <2> QED
    BY <2>2 DEF Insert, MayInsert, StoredInv, StorageInv, ExchangeInv, BlankUntilInserted,
       AbsentRow
<1>3. \A k \in Works : fence'[k] = IF k \in req[w].keys THEN e ELSE fence[k]
  BY DEF Insert
<1>4. \A g \in Exchanges \ {e} : Hidden(g)
  BY InsertStep DEF StoredInv
<1>5. ASSUME NEW k \in Works, k \in req[w].keys
      PROVE  /\ SpendOf(k) = "free" /\ SpendOf(k)' = "claimed"
             /\ AnswerOf(k) = None /\ AnswerOf(k)' = None
  BY <1>1, <1>2, <1>3, <1>5, ConstantsAssumption DEF SpendOf, AnswerOf
<1>6. ASSUME NEW k \in Works, k \notin req[w].keys
      PROVE  SpendOf(k)' = SpendOf(k) /\ AnswerOf(k)' = AnswerOf(k)
  <2>1. fence[k] # None => fence[k] \in Exchanges \ {e}
    BY <1>6, Fenced DEF Insert, MayInsert
  <2> QED
    BY <1>3, <1>4, <1>6, <2>1, HiddenShowsNothing
<1>7. PICK batch \in SUBSET Works : batch = req[w].keys
  BY <1>1
<1>8. Promise!Claim(batch)
  BY <1>5, <1>6, <1>7 DEF Promise!Claim, Promise!Are, SpendOf, AnswerOf
<1> QED
  BY <1>8 DEF Promise!Next

(* The three other steps change one exchange and its members.               *)
LEMMA OnlyOneExchange ==
    ASSUME StoredInv, NEW e \in Exchanges, UNCHANGED fence,
           \A g \in Exchanges \ {e} : row'[g] = row[g] /\ file'[g] = file[g]
    PROVE  \A k \in Works : k \notin Members(e) =>
               SpendOf(k)' = SpendOf(k) /\ AnswerOf(k)' = AnswerOf(k)
<1> SUFFICES ASSUME NEW k \in Works, fence[k] # e
             PROVE  SpendOf(k)' = SpendOf(k) /\ AnswerOf(k)' = AnswerOf(k)
  BY DEF Members
<1>1. CASE fence[k] = None
  BY <1>1 DEF SpendOf, AnswerOf
<1>2. CASE fence[k] # None
  BY <1>2, Fenced DEF SpendOf, AnswerOf
<1> QED
  BY <1>1, <1>2

LEMMA MembersShow ==
    ASSUME StoredInv, NEW e \in Exchanges, NEW k \in Members(e)
    PROVE  /\ k \in Works /\ fence[k] = e
           /\ SpendOf(k) = IF row[e].state = "reserved" THEN "claimed" ELSE "committed"
           /\ AnswerOf(k) = IF file[e] # None THEN file[e]
                            ELSE IF row[e].resolved THEN "forgotten" ELSE None
BY ConstantsAssumption DEF Members, SpendOf, AnswerOf

LEMMA ClaimSendCommits ==
    ASSUME StoredInv, NEW w \in Workers, ClaimSend(w)
    PROVE  Promise!Next
<1>1. PICK e \in Exchanges : e = ref[w]
  BY DEF StoredInv, TypeInv, LocalsOK, ClaimSend, HoldsExchange, Points
<1>2. row[e] \in ExchangeRow
  BY DEF StoredInv, TypeInv, TypeOK
<1>3. /\ UNCHANGED <<fence, file>> /\ row[e].state = "reserved"
      /\ row'[e] = Sending(row[e]) /\ \A g \in Exchanges \ {e} : row'[g] = row[g]
  BY <1>1 DEF ClaimSend, MayClaim, StoredInv, TypeInv, TypeOK
<1>4. row'[e].state = "sending" /\ row'[e].resolved = row[e].resolved
  BY <1>2, <1>3 DEF Sending, ExchangeRow
<1>5. PICK batch \in SUBSET Works : batch = Members(e)
  BY DEF Members
<1>6. ASSUME NEW k \in batch
      PROVE  /\ SpendOf(k) = "claimed" /\ SpendOf(k)' = "committed"
             /\ AnswerOf(k)' = AnswerOf(k)
  <2>1. fence[k] = e /\ SpendOf(k) = "claimed"
    BY <1>3, <1>5, MembersShow
  <2> QED
    BY <1>3, <1>4, <2>1, ConstantsAssumption DEF SpendOf, AnswerOf
<1>7. \A k \in Works : k \notin batch =>
          SpendOf(k)' = SpendOf(k) /\ AnswerOf(k)' = AnswerOf(k)
  BY <1>3, <1>5, OnlyOneExchange
<1>8. Promise!Commit(batch)
  BY <1>6, <1>7 DEF Promise!Commit, Promise!Are, SpendOf, AnswerOf
<1> QED
  BY <1>8 DEF Promise!Next

LEMMA StoreBodyAnswers ==
    ASSUME StoredInv, NEW w \in Workers, StoreBody(w)
    PROVE  Promise!Next
<1>1. PICK e \in Exchanges : e = ref[w]
  BY DEF StoredInv, TypeInv, LocalsOK, StoreBody, HoldsExchange, Points
<1>2. row[e].state = "sending" /\ file[e] = None /\ ~row[e].resolved
  BY <1>1 DEF StoredInv, StorageInv, CallInv, SendsOnce, StoreBody, ExchangeInv, BodyIsKept
<1>3. got[w] \in Receipts /\ got[w] # None
  BY ConstantsAssumption DEF StoredInv, TypeInv, LocalsOK, StoreBody, HoldsReply, Receipts
<1>4. /\ UNCHANGED <<fence, row>> /\ file'[e] = got[w]
      /\ \A g \in Exchanges \ {e} : file'[g] = file[g]
  BY <1>1, <1>2 DEF StoreBody, dbVars, StoredInv, TypeInv, TypeOK
<1>5. PICK batch \in SUBSET Works : batch = Members(e)
  BY DEF Members
<1>6. PICK b \in Receipts : b = got[w]
  BY <1>3
<1>7. ASSUME NEW k \in batch
      PROVE  /\ SpendOf(k) = "committed" /\ SpendOf(k)' = "committed"
             /\ AnswerOf(k) = None /\ AnswerOf(k)' = b
  <2>1. fence[k] = e /\ SpendOf(k) = "committed" /\ AnswerOf(k) = None
    BY <1>2, <1>5, MembersShow
  <2> QED
    BY <1>2, <1>3, <1>4, <1>6, <2>1, ConstantsAssumption DEF SpendOf, AnswerOf
<1>8. \A k \in Works : k \notin batch =>
          SpendOf(k)' = SpendOf(k) /\ AnswerOf(k)' = AnswerOf(k)
  BY <1>4, <1>5, OnlyOneExchange
<1>9. Promise!Answer(batch, b)
  BY <1>7, <1>8 DEF Promise!Answer, Promise!Are, SpendOf, AnswerOf
<1> QED
  BY <1>9 DEF Promise!Next

LEMMA UnlinkForgets ==
    ASSUME StoredInv, NEW e \in Exchanges, Unlink(e)
    PROVE  Promise!Next \/ UNCHANGED Promise!abstractVars
<1>1. /\ UNCHANGED <<fence, row>> /\ row[e].resolved /\ row[e].state # "reserved"
      /\ file'[e] = None /\ \A g \in Exchanges \ {e} : file'[g] = file[g]
      /\ file[e] \in Receipts \cup {None}
  BY DEF Unlink, StoredInv, TypeInv, TypeOK
<1>2. PICK batch \in SUBSET Works : batch = Members(e)
  BY DEF Members
<1>3. ASSUME NEW k \in batch
      PROVE  /\ SpendOf(k)' = SpendOf(k) /\ AnswerOf(k)' = "forgotten"
             /\ AnswerOf(k) = IF file[e] # None THEN file[e] ELSE "forgotten"
  <2>1. fence[k] = e
    BY <1>2, MembersShow
  <2> QED
    BY <1>1, <2>1, ConstantsAssumption DEF SpendOf, AnswerOf
<1>4. \A k \in Works : k \notin batch =>
          SpendOf(k)' = SpendOf(k) /\ AnswerOf(k)' = AnswerOf(k)
  BY <1>1, <1>2, OnlyOneExchange
<1>5. CASE file[e] # None
  <2>1. Promise!Forget(batch)
    BY <1>1, <1>3, <1>4, <1>5 DEF Promise!Forget, SpendOf, AnswerOf
  <2> QED
    BY <2>1 DEF Promise!Next
<1>6. CASE file[e] = None
  BY <1>3, <1>4, <1>6, UnseenIsStutter
<1> QED
  BY <1>5, <1>6

(* The journal keeps the promise of SpendOnce: whatever its processes do, a *)
(* work is claimed, committed to one request, answered at most once and     *)
(* never free again.                                                        *)
THEOREM JournalImplementsSpendOnce == Spec => ImplementsSpendOnce
<1>1. Init => Promise!Init
  BY DEF Init, Promise!Init
<1>2. ASSUME StoredInv, [Next]_vars
      PROVE  Promise!Next \/ UNCHANGED Promise!abstractVars
  <2>1. CASE Unseen
    <3>1. \A k \in Works : SpendOf(k)' = SpendOf(k) /\ AnswerOf(k)' = AnswerOf(k)
      BY <1>2, <2>1, Fenced, HiddenShowsNothing DEF Unseen
    <3> QED
      BY <3>1, UnseenIsStutter
  <2>2. CASE Seen
    BY <1>2, <2>2, InsertClaims, ClaimSendCommits, StoreBodyAnswers, UnlinkForgets DEF Seen
  <2> QED
    BY <1>2, <2>1, <2>2, StorageStep DEF StoredInv
<1>3. StoredInv /\ [Next]_vars => [Promise!Next]_(Promise!abstractVars)
  BY <1>2
<1> QED
  BY <1>1, <1>3, StorageInvariant, PTL DEF Spec, ImplementsSpendOnce, Promise!Spec
=============================================================================
