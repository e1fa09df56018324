------------------------ MODULE LockManagerSyncProofs ------------------------
(***************************************************************************)
(* Proofs about the lock manager with its rwlocks and mutexes: its calls   *)
(* are atomic, so that what AVLTreeLockManagerProofs proves holds for it,  *)
(* and its threads wait for each other for ever in two ways only, whether  *)
(* or not events run again.                                                *)
(***************************************************************************)
EXTENDS LockManagerSync, AVLTreeLockManagerProofs

\* The call has looked at the key, whose mutex it holds, and has yet to record.
AtRecord(th) == step[th] \in {"createTid", "interval"}

\* The local variables of the call are what the key as it is now gives.
Found(th) ==
    LET r == request[th]
        l == local[th]
    IN  IF r.op = "tryBackwardLock"
        THEN /\ l.table = BackwardLock(root[r.key], r.tid, r.ts, r.is_read)
             /\ l.start = BackwardStart(root[r.key], r.ts, r.is_read)
             /\ l.granted = BackwardGranted(root[r.key], r.ts, r.is_read)
             /\ l.stop = BackwardStop(root[r.key], r.ts, r.is_read).end
        ELSE /\ l.table = PointLock(root[r.key], r.tid, r.ts, r.is_read)
             /\ l.start = r.ts
             /\ l.granted = TRUE
             /\ PointGranted(root[r.key], r.ts, r.is_read)

\* The thread is on its way to the mutex of its next key.
Visits(th) == Walking(th) /\ todo[th] # {}

\* The call of a transaction, not of an event that runs again.
Own(th) == InCall(th) /\ ~request[th].again

\* The thread is in freeze or unlock and has not deleted the record yet.
Finishing(th) == pc[th] \in {"freeze", "unlock", "delete"}

\* The transactions with a record, and those that have gone.
Known == transaction_map \cup finished

\* Every event that can run is of a known transaction.
EventsKnown == \A k \in Keys, t \in TS : events[k][t] \subseteq Known

\* What holds of one thread...
ThreadInv(th) ==
    /\ InCall(th) => request[th] \in LockRequest /\ pc[th] \in {"idle", "run"}
    /\ Own(th) => Active(Tid(th))
    /\ InCall(th) /\ request[th].again => Tid(th) \in Known
    /\ AtRecord(th) => Found(th)
    /\ step[th] = "interval" => Tid(th) \in transaction_map
    /\ step[th] = "createTid" /\ request[th].again => Tid(th) \in finished
    /\ Finishing(th) => arg[th] \in transaction_map /\ arg[th] \in finished
    /\ \A e \in fired[th] : e[1] \in Known
    /\ th \in reading => step[th] \in {"mutex", "createTid", "interval"} \/ Visits(th)

\* ...and of two: a transaction makes one call and is finished once, a key has one
\* mutex, and the record that is about to be made is not one about to go.
PairInv(th, other) ==
    /\ Own(th) /\ Own(other) => Tid(th) # Tid(other)
    /\ AtRecord(th) /\ AtRecord(other) => Key(th) # Key(other)
    /\ Finishing(th) /\ Finishing(other) => arg[th] # arg[other]
    /\ step[th] = "createTid" /\ Finishing(other) => Tid(th) # arg[other]

Steps == {"none", "createKey", "mutex", "createTid", "interval"}

SyncTypes ==
    /\ step \in [Threads -> Steps]
    /\ DOMAIN request = Threads
    /\ DOMAIN local = Threads
    /\ reading \subseteq Threads

\* The inductive invariant.
SyncInv ==
    /\ TableInv
    /\ SyncTypes
    /\ EventsKnown
    /\ \A th \in Threads : ThreadInv(th)
    /\ \A th, other \in Threads : th # other => PairInv(th, other)

\* No call is under way when the threads start.
LEMMA SyncInitInv == SyncInit => SyncInv
<1> SUFFICES ASSUME SyncInit PROVE SyncInv
  OBVIOUS
<1>1. TableInv
  BY TableInit DEF SyncInit
<1>2. SyncTypes
  BY DEF SyncInit, SyncTypes, Steps
<1>3. \A th \in Threads :
         /\ step[th] = "none" /\ pc[th] = "idle" /\ fired[th] = {} /\ th \notin reading
  BY DEF SyncInit, Init
<1>4. \A th \in Threads : ThreadInv(th)
  BY <1>3 DEF ThreadInv, InCall, Own, AtRecord, Finishing
<1>5. \A th, other \in Threads : PairInv(th, other)
  BY <1>3 DEF PairInv, InCall, Own, AtRecord, Finishing
<1>6. EventsKnown
  BY DEF SyncInit, Init, EventsKnown
<1> QED
  BY <1>1, <1>2, <1>4, <1>5, <1>6 DEF SyncInv

\* The fields of a lock request.
LEMMA RequestFields ==
    ASSUME NEW r \in LockRequest
    PROVE  /\ r.op \in {"tryBackwardLock", "tryLock"}
           /\ r.key \in Keys /\ r.tid \in Tids /\ r.ts \in Times
           /\ r.op = "tryBackwardLock" => r.is_read \in BackwardModes
           /\ r.op = "tryLock" => r.is_read \in PointModes /\ ~r.again
           /\ r.again \in BOOLEAN
           /\ r.again => Reruns /\ r.is_read /\ r.op = "tryBackwardLock"
BY DEF LockRequest

-----------------------------------------------------------------------------
(* Every step is one of the atomic lock manager, or changes nothing there   *)

\* A thread that enters its request is not held up by its record, neither by the
\* map nor by the record's mutex.
LEMMA MayRecord ==
    ASSUME SyncInv, NEW th \in Threads, At(th, "createTid") \/ At(th, "interval")
    PROVE  CanRecord(Tid(th))
<1>1. CASE At(th, "createTid")
  BY <1>1 DEF At, Waits, TransactionReaders, CanRecord
<1>2. CASE At(th, "interval")
  BY <1>2 DEF At, Waits, TransactionMutexHeld, CanRecord, SyncInv, ThreadInv
<1> QED
  BY <1>1, <1>2

\* What becomes visible when a request is recorded is the whole of tryBackwardLock
\* or tryLock.
LEMMA PublishIsLock ==
    ASSUME SyncInv, NEW th \in Threads, AtRecord(th), CanRecord(Tid(th)), Publish(th)
    PROVE  Lock(Key(th), Tid(th)) /\ Key(th) \in Keys /\ Tid(th) \in Tids
<1> DEFINE r == request[th]
           l == local[th]
<1>1. /\ r \in LockRequest /\ CanRecord(r.tid) /\ Found(th)
      /\ r.again \/ Active(r.tid)
  BY DEF SyncInv, ThreadInv, AtRecord, InCall, Own, Tid
<1>2. /\ r.key \in Keys /\ r.tid \in Tids /\ r.ts \in Times
      /\ r.op \in {"tryBackwardLock", "tryLock"}
      /\ r.op = "tryBackwardLock" => r.is_read \in BackwardModes
      /\ r.op = "tryLock" => r.is_read \in PointModes /\ ~r.again
      /\ r.again => Reruns /\ r.is_read
  BY <1>1, RequestFields
<1>3. CASE r.op = "tryBackwardLock"
  <2>1. tryBackwardLock(r.key, r.tid, r.ts, r.is_read)
    BY <1>1, <1>3 DEF Found, Publish, tryBackwardLock
  <2> QED
    BY <1>1, <1>2, <1>3, <2>1 DEF Lock, Key, Tid
<1>4. CASE r.op = "tryLock"
  <2>1. r.ts .. r.ts = {r.ts}
    BY <1>2, TimesType DEF TS
  <2>2. /\ l.table = PointLock(root[r.key], r.tid, r.ts, r.is_read)
        /\ l.start = r.ts /\ l.granted
        /\ PointGranted(root[r.key], r.ts, r.is_read)
    BY <1>1, <1>4 DEF Found
  <2>3. tryLock(r.key, r.tid, r.ts, r.is_read)
    BY <1>1, <2>1, <2>2 DEF Publish, tryLock
  <2> QED
    BY <1>1, <1>2, <1>4, <2>3 DEF Lock, Key, Tid
<1> QED
  BY <1>2, <1>3, <1>4 DEF Key, Tid

\* A refused tryLock, which records nothing.
LEMMA RefusedIsLock ==
    ASSUME SyncInv, NEW th \in Threads, pointSearch(th),
           ~PointGranted(root[Key(th)], request[th].ts, request[th].is_read)
    PROVE  Lock(Key(th), Tid(th)) /\ Key(th) \in Keys /\ Tid(th) \in Tids
<1> DEFINE r == request[th]
<1>1. r \in LockRequest /\ r.op = "tryLock" /\ (r.again \/ Active(r.tid))
  BY DEF pointSearch, At, SyncInv, ThreadInv, InCall, Own, Tid
<1>2. /\ r.key \in Keys /\ r.tid \in Tids /\ r.ts \in Times /\ r.is_read \in PointModes
      /\ Active(r.tid)
  BY <1>1, RequestFields
<1>3. tryLock(r.key, r.tid, r.ts, r.is_read)
  BY DEF pointSearch, Key, tryLock, recordVars, threadVars, historyVars
<1> QED
  BY <1>1, <1>2, <1>3 DEF Lock, Key, Tid

\* A step of the threads is a step of the atomic lock manager or one that it does
\* not show.
LEMMA AtomicStep ==
    ASSUME SyncInv, [SyncNext]_allVars
    PROVE  [Next]_vars
<1>1. ASSUME NEW th \in Threads, SyncStep(th) PROVE [Next]_vars
  <2>0. CASE \E r \in LockRequest : runAgain(th, r)
    <3>1. PICK r \in LockRequest : runAgain(th, r)
      BY <2>0
    <3>2. <<r.tid, r.key>> \in Request
      BY RequestFields DEF Request
    <3> QED
      BY <3>1, <3>2 DEF runAgain, Finish, Next
  <2>1. CASE \E r \in LockRequest : Call(th, r)
    BY <2>1 DEF Call
  <2>2. CASE createKeyInfo(th)
    BY <2>2 DEF createKeyInfo
  <2>3. CASE backwardWalk(th)
    BY <2>3 DEF backwardWalk
  <2>4. CASE pointSearch(th)
    <3>1. CASE PointGranted(root[Key(th)], request[th].ts, request[th].is_read)
      BY <2>4, <3>1
        DEF pointSearch, Key, vars, tableVars, recordVars, threadVars, historyVars
    <3>2. CASE ~PointGranted(root[Key(th)], request[th].ts, request[th].is_read)
      BY <2>4, <3>2, RefusedIsLock DEF Next
    <3> QED
      BY <3>1, <3>2
  <2>5. CASE createTransactionInfo(th) \/ addInterval(th)
    <3>1. AtRecord(th) /\ Publish(th) /\ (At(th, "createTid") \/ At(th, "interval"))
      BY <2>5 DEF createTransactionInfo, addInterval, At, AtRecord
    <3> QED
      BY <3>1, MayRecord, PublishIsLock DEF Next
  <2>6. CASE \E tid \in Tids : start(th, tid)
    BY <2>6 DEF start, Finish, Next
  <2>7. CASE nextKey(th)
    BY <2>7 DEF nextKey
  <2>8. CASE visitKey(th)
    BY <2>8 DEF visitKey, Finish, Next
  <2>9. CASE end(th)
    BY <2>9 DEF end, Finish, Next
  <2> QED
    BY <1>1, <2>0, <2>1, <2>2, <2>3, <2>4, <2>5, <2>6, <2>7, <2>8, <2>9 DEF SyncStep
<1>2. CASE UNCHANGED allVars
  BY <1>2 DEF allVars
<1> QED
  BY <1>1, <1>2 DEF SyncNext

-----------------------------------------------------------------------------
(* Every step keeps the invariant                                           *)

\* The step leaves the thread o alone.
Same(o) ==
    /\ step'[o] = step[o] /\ request'[o] = request[o] /\ local'[o] = local[o]
    /\ pc'[o] = pc[o] /\ arg'[o] = arg[o] /\ todo'[o] = todo[o] /\ fired'[o] = fired[o]
    /\ o \in reading' => o \in reading

\* A thread that is left alone keeps its part of the invariant when the key it has
\* looked at does not change, and its transaction stays as it is.
LEMMA ThreadFrame ==
    ASSUME SyncInv, NEW o \in Threads, Same(o),
           finished \subseteq finished', Known \subseteq Known',
           Own(o) => Active(Tid(o))',
           AtRecord(o) => root'[Key(o)] = root[Key(o)],
           step[o] = "interval" => Tid(o) \in transaction_map',
           Finishing(o) => arg[o] \in transaction_map'
    PROVE  ThreadInv(o)'
<1>1. ThreadInv(o)
  BY DEF SyncInv
<1>2. /\ InCall(o)' = InCall(o) /\ Own(o)' = Own(o) /\ AtRecord(o)' = AtRecord(o)
      /\ Finishing(o)' = Finishing(o) /\ Visits(o)' = Visits(o)
  BY DEF Same, InCall, Own, AtRecord, Finishing, Walking, Visits
<1>3. AtRecord(o) => Found(o)'
  BY <1>1 DEF ThreadInv, Found, Key, Same
<1>4. Tid(o)' = Tid(o) /\ LockRequest' = LockRequest
  BY DEF Tid, LockRequest, Same
<1>5. /\ InCall(o)' => request'[o] \in LockRequest' /\ pc'[o] \in {"idle", "run"}
      /\ InCall(o)' /\ request'[o].again => Tid(o)' \in Known'
      /\ step'[o] = "interval" => Tid(o)' \in transaction_map'
      /\ step'[o] = "createTid" /\ request'[o].again => Tid(o)' \in finished'
      /\ Finishing(o)' => arg'[o] \in transaction_map' /\ arg'[o] \in finished'
      /\ \A e \in fired'[o] : e[1] \in Known'
  BY <1>1, <1>2, <1>4 DEF ThreadInv, Same
<1>6. o \in reading' => step'[o] \in {"mutex", "createTid", "interval"} \/ Visits(o)'
  BY <1>1, <1>2 DEF ThreadInv, Same
<1> QED
  BY <1>2, <1>3, <1>5, <1>6 DEF ThreadInv

\* Two threads that are left alone.
LEMMA PairFrame ==
    ASSUME SyncInv, NEW th \in Threads, NEW other \in Threads, th # other,
           Same(th), Same(other)
    PROVE  PairInv(th, other)'
BY DEF SyncInv, PairInv, InCall, Own, AtRecord, Finishing, Tid, Key, Same

\* A step of th that leaves all other threads alone.
LEMMA OthersPair ==
    ASSUME SyncInv, NEW th \in Threads,
           TableInv', SyncTypes', EventsKnown', ThreadInv(th)',
           \A o \in Threads \ {th} : Same(o) /\ ThreadInv(o)',
           \A o \in Threads \ {th} : PairInv(th, o)' /\ PairInv(o, th)'
    PROVE  SyncInv'
<1>1. ASSUME NEW u \in Threads, NEW o \in Threads, u # o PROVE PairInv(u, o)'
  <2>1. CASE u = th \/ o = th
    BY <1>1, <2>1
  <2>2. CASE u # th /\ o # th
    BY <1>1, <2>2, PairFrame
  <2> QED
    BY <2>1, <2>2
<1> QED
  BY <1>1 DEF SyncInv

\* What a step of th that changes no table and no record does to the others.
LEMMA QuietStep ==
    ASSUME SyncInv, NEW th \in Threads,
           root' = root, events' = events, transaction_map' = transaction_map,
           finished' = finished, waiting' \subseteq waiting,
           \A o \in Threads \ {th} : Same(o)
    PROVE  /\ EventsKnown' /\ Known' = Known
           /\ \A o \in Threads \ {th} : ThreadInv(o)'
<1>1. Known' = Known
  BY DEF Known
<1>2. EventsKnown'
  BY <1>1 DEF SyncInv, EventsKnown
<1>3. ASSUME NEW o \in Threads \ {th} PROVE ThreadInv(o)'
  <2>1. Own(o) => Active(Tid(o))'
    BY <1>3 DEF SyncInv, ThreadInv, Active, Tid, Same
  <2>2. /\ step[o] = "interval" => Tid(o) \in transaction_map'
        /\ Finishing(o) => arg[o] \in transaction_map'
    BY DEF SyncInv, ThreadInv
  <2> QED
    BY <1>1, <1>3, <2>1, <2>2, ThreadFrame
<1> QED
  BY <1>1, <1>2, <1>3

\* What a new call changes.
LEMMA EnterStep ==
    ASSUME SyncInv, NEW th \in Threads, NEW r, enter(th, r),
           pc' = pc, arg' = arg, todo' = todo, pc[th] \in {"idle", "run"},
           \A o \in Threads \ {th} : fired'[o] = fired[o]
    PROVE  /\ SyncTypes' /\ step[th] = "none"
           /\ step'[th] \in {"mutex", "createKey"} /\ request'[th] = r
           /\ th \in reading' => step'[th] = "mutex"
           /\ \A o \in Threads \ {th} : Same(o)
<1>1. /\ step' = [step EXCEPT ![th] = step'[th]] /\ step'[th] \in {"mutex", "createKey"}
      /\ request' = [request EXCEPT ![th] = r]
      /\ \/ reading' = reading \cup {th} /\ step'[th] = "mutex"
         \/ reading' = reading
      /\ local' = local /\ step[th] = "none"
  BY DEF enter, InCall, lookup, Goto, SyncInv, SyncTypes
<1>2. th \notin reading
  BY <1>1 DEF SyncInv, ThreadInv, Visits, Walking
<1>3. SyncTypes'
  BY <1>1 DEF SyncInv, SyncTypes, Steps
<1>4. request'[th] = r
  BY <1>1 DEF SyncInv, SyncTypes
<1>5. ASSUME NEW o \in Threads \ {th} PROVE Same(o)
  BY <1>1, <1>5 DEF SyncInv, SyncTypes, Same
<1> QED
  BY <1>1, <1>2, <1>3, <1>4, <1>5

\* A new call of a transaction is the only one of its own.
LEMMA InvCall ==
    ASSUME SyncInv, TableInv', NEW th \in Threads, NEW r \in LockRequest, Call(th, r)
    PROVE  SyncInv'
<1>1. /\ enter(th, r) /\ pc[th] = "idle" /\ ~r.again /\ Active(r.tid) /\ FreeOf(r.tid)
      /\ pc' = pc /\ arg' = arg /\ todo' = todo /\ fired' = fired
      /\ root' = root /\ events' = events /\ transaction_map' = transaction_map
      /\ finished' = finished /\ waiting' = waiting
  BY DEF Call, vars, tableVars, recordVars, threadVars, historyVars
<1>2. /\ SyncTypes' /\ step[th] = "none"
      /\ step'[th] \in {"mutex", "createKey"} /\ request'[th] = r
      /\ th \in reading' => step'[th] = "mutex"
      /\ \A o \in Threads \ {th} : Same(o)
  BY <1>1, EnterStep
<1>3. /\ EventsKnown' /\ Known' = Known
      /\ \A o \in Threads \ {th} : ThreadInv(o)'
  BY <1>1, <1>2, QuietStep
<1>4. ThreadInv(th)'
  <2>1. Tid(th)' = r.tid /\ Active(Tid(th))' /\ LockRequest' = LockRequest
    BY <1>1, <1>2 DEF Active, Tid, LockRequest
  <2>2. ~Finishing(th)' /\ \A e \in fired'[th] : e[1] \in Known'
    BY <1>1, <1>3 DEF Finishing, SyncInv, ThreadInv
  <2> QED
    BY <1>1, <1>2, <2>1, <2>2 DEF ThreadInv, AtRecord
<1>5. ASSUME NEW o \in Threads \ {th} PROVE PairInv(th, o)' /\ PairInv(o, th)'
  <2>1. Own(o)' => Tid(o)' # Tid(th)'
    BY <1>1, <1>2, <1>5 DEF FreeOf, Own, InCall, Tid, Same
  <2>2. ~AtRecord(th)' /\ ~Finishing(th)' /\ step'[th] # "createTid"
    BY <1>1, <1>2 DEF AtRecord, Finishing
  <2> QED
    BY <2>1, <2>2 DEF PairInv
<1> QED
  BY <1>2, <1>3, <1>4, <1>5, OthersPair

\* An event that runs again is of a known transaction.
LEMMA InvRunAgain ==
    ASSUME SyncInv, TableInv', NEW th \in Threads, NEW r \in LockRequest, runAgain(th, r)
    PROVE  SyncInv'
<1>1. /\ enter(th, r) /\ pc[th] = "run" /\ r.again
      /\ pc' = pc /\ arg' = arg /\ todo' = todo
      /\ <<r.tid, r.key>> \in fired[th]
      /\ fired' = [fired EXCEPT ![th] = @ \ {<<r.tid, r.key>>}]
      /\ root' = root /\ events' = events /\ transaction_map' = transaction_map
      /\ finished' = finished /\ waiting' \subseteq waiting
  BY DEF runAgain, runEvent, tableVars, recordVars
<1>2. fired \in [Threads -> SUBSET Request]
  BY DEF SyncInv, TableInv, TypeOK
<1>3. /\ \A o \in Threads \ {th} : fired'[o] = fired[o]
      /\ fired'[th] \subseteq fired[th]
  BY <1>1, <1>2
<1>4. /\ SyncTypes' /\ step[th] = "none"
      /\ step'[th] \in {"mutex", "createKey"} /\ request'[th] = r
      /\ th \in reading' => step'[th] = "mutex"
      /\ \A o \in Threads \ {th} : Same(o)
  BY <1>1, <1>3, EnterStep
<1>5. /\ EventsKnown' /\ Known' = Known
      /\ \A o \in Threads \ {th} : ThreadInv(o)'
  BY <1>1, <1>4, QuietStep
<1>6. ~AtRecord(th)' /\ ~Finishing(th)' /\ ~Own(th)' /\ step'[th] # "createTid"
  BY <1>1, <1>4 DEF AtRecord, Finishing, Own
<1>7. ThreadInv(th)'
  <2>1. Tid(th)' \in Known' /\ LockRequest' = LockRequest
    BY <1>1, <1>4, <1>5 DEF SyncInv, ThreadInv, Tid, LockRequest
  <2>2. \A e \in fired'[th] : e[1] \in Known'
    BY <1>3, <1>5 DEF SyncInv, ThreadInv
  <2> QED
    BY <1>1, <1>4, <1>6, <2>1, <2>2 DEF ThreadInv, AtRecord
<1>8. ASSUME NEW o \in Threads \ {th} PROVE PairInv(th, o)' /\ PairInv(o, th)'
  BY <1>6 DEF PairInv
<1> QED
  BY <1>4, <1>5, <1>7, <1>8, OthersPair

\* createKeyInfo changes no key that another call has looked at.
LEMMA InvCreateKey ==
    ASSUME SyncInv, TableInv', NEW th \in Threads, createKeyInfo(th)
    PROVE  SyncInv'
<1>1. /\ step' = [step EXCEPT ![th] = "mutex"] /\ step[th] = "createKey"
      /\ request' = request /\ local' = local
      /\ reading' = reading \cup {th}
      /\ pc' = pc /\ arg' = arg /\ todo' = todo /\ fired' = fired
      /\ root' = root /\ events' = events /\ transaction_map' = transaction_map
      /\ finished' = finished /\ waiting' = waiting
  BY DEF createKeyInfo, At, Goto, vars, tableVars, recordVars, threadVars, historyVars
<1>2. /\ SyncTypes' /\ step'[th] = "mutex"
      /\ \A o \in Threads \ {th} : Same(o)
  BY <1>1 DEF SyncInv, SyncTypes, Steps, Same
<1>3. /\ EventsKnown' /\ Known' = Known
      /\ \A o \in Threads \ {th} : ThreadInv(o)'
  BY <1>1, <1>2, QuietStep
<1>4. /\ InCall(th)' /\ InCall(th) /\ Own(th)' = Own(th) /\ Tid(th)' = Tid(th)
      /\ ~AtRecord(th)' /\ Finishing(th)' = Finishing(th)
      /\ Active(Tid(th))' = Active(Tid(th)) /\ LockRequest' = LockRequest
  BY <1>1, <1>2 DEF InCall, Own, Tid, AtRecord, Finishing, Active, LockRequest
<1>5. ThreadInv(th)
  BY DEF SyncInv
<1>6. ThreadInv(th)'
  BY <1>1, <1>2, <1>3, <1>4, <1>5 DEF ThreadInv
<1>7. ASSUME NEW o \in Threads \ {th} PROVE PairInv(th, o)' /\ PairInv(o, th)'
  <2>1. PairInv(th, o) /\ PairInv(o, th)
    BY <1>7 DEF SyncInv
  <2>2. /\ Own(o)' = Own(o) /\ Tid(o)' = Tid(o) /\ AtRecord(o)' = AtRecord(o)
        /\ Finishing(o)' = Finishing(o) /\ (step[o] = "createTid")' = (step[o] = "createTid")
    BY <1>2 DEF Same, Own, InCall, Tid, AtRecord, Finishing
  <2> QED
    BY <1>1, <1>2, <1>4, <2>1, <2>2 DEF PairInv
<1> QED
  BY <1>2, <1>3, <1>6, <1>7, OthersPair

\* A call that has computed its results alone holds the mutex of the key.  When it
\* finds no record, none of a thread in freeze or unlock is its transaction's.
LEMMA InvFound ==
    ASSUME SyncInv, TableInv', NEW th \in Threads, At(th, "mutex"), record(th, Tid(th)),
           DOMAIN local' = Threads, \A o \in Threads \ {th} : local'[o] = local[o],
           Found(th)', UNCHANGED <<vars, request, reading>>
    PROVE  SyncInv'
<1>1. /\ step' = [step EXCEPT ![th] = step'[th]] /\ step[th] = "mutex"
      /\ step'[th] \in {"createTid", "interval"}
      /\ step'[th] = "interval" => Tid(th) \in transaction_map
      /\ step'[th] = "createTid" => Tid(th) \notin transaction_map
      /\ request' = request /\ reading' = reading
      /\ pc' = pc /\ arg' = arg /\ todo' = todo /\ fired' = fired
      /\ root' = root /\ events' = events /\ transaction_map' = transaction_map
      /\ finished' = finished /\ waiting' = waiting
  BY DEF record, At, Goto, SyncInv, SyncTypes, vars, tableVars, recordVars, threadVars,
         historyVars
<1>2. SyncTypes' /\ \A o \in Threads \ {th} : Same(o)
  BY <1>1 DEF SyncInv, SyncTypes, Steps, Same
<1>3. /\ EventsKnown' /\ Known' = Known
      /\ \A o \in Threads \ {th} : ThreadInv(o)'
  BY <1>1, <1>2, QuietStep
<1>4. /\ InCall(th)' /\ InCall(th) /\ Own(th)' = Own(th) /\ Tid(th)' = Tid(th)
      /\ Finishing(th)' = Finishing(th)
      /\ Active(Tid(th))' = Active(Tid(th)) /\ LockRequest' = LockRequest
  BY <1>1 DEF InCall, Own, Tid, Finishing, Active, LockRequest
<1>5. ThreadInv(th) /\ ~Finishing(th)
  BY <1>4 DEF SyncInv, ThreadInv, Finishing
<1>6. ThreadInv(th)'
  <2>1. step'[th] = "createTid" /\ request'[th].again => Tid(th)' \in finished'
    BY <1>1, <1>4, <1>5 DEF ThreadInv, Known
  <2> QED
    BY <1>1, <1>3, <1>4, <1>5, <2>1 DEF ThreadInv
<1>7. ASSUME NEW o \in Threads \ {th} PROVE PairInv(th, o)' /\ PairInv(o, th)'
  <2>1. PairInv(th, o) /\ PairInv(o, th) /\ ThreadInv(o)
    BY <1>7 DEF SyncInv
  <2>2. /\ Own(o)' = Own(o) /\ Tid(o)' = Tid(o) /\ AtRecord(o)' = AtRecord(o)
        /\ Key(o)' = Key(o) /\ Key(th)' = Key(th) /\ arg'[o] = arg[o]
        /\ Finishing(o)' = Finishing(o) /\ (step[o] = "createTid")' = (step[o] = "createTid")
    BY <1>1, <1>2 DEF Same, Own, InCall, Tid, Key, AtRecord, Finishing
  <2>3. ~AtRecord(o) \/ Key(o) # Key(th)
    BY <1>7 DEF At, Waits, KeyMutexHeld, AtRecord
  <2>4. step'[th] = "createTid" /\ Finishing(o) => Tid(th) # arg[o]
    BY <1>1, <2>1 DEF ThreadInv
  <2> QED
    BY <1>4, <1>5, <2>1, <2>2, <2>3, <2>4 DEF PairInv
<1> QED
  BY <1>2, <1>3, <1>6, <1>7, OthersPair

\* backwardWalk computes what the key gives, and pointSearch too when it succeeds.
LEMMA InvSearch ==
    ASSUME SyncInv, TableInv', NEW th \in Threads,
           \/ backwardWalk(th)
           \/ /\ pointSearch(th)
              /\ PointGranted(root[Key(th)], request[th].ts, request[th].is_read)
    PROVE  SyncInv'
<1> DEFINE r == request[th]
<1>0. DOMAIN local = Threads /\ request' = request
  BY DEF SyncInv, SyncTypes, backwardWalk, pointSearch, Key
<1>1. CASE backwardWalk(th)
  <2>1. /\ local'[th].table = BackwardLock(root[r.key], r.tid, r.ts, r.is_read)
        /\ local'[th].start = BackwardStart(root[r.key], r.ts, r.is_read)
        /\ local'[th].granted = BackwardGranted(root[r.key], r.ts, r.is_read)
        /\ local'[th].stop = BackwardStop(root[r.key], r.ts, r.is_read).end
        /\ r.op = "tryBackwardLock"
        /\ DOMAIN local' = Threads /\ \A o \in Threads \ {th} : local'[o] = local[o]
    BY <1>0, <1>1 DEF backwardWalk
  <2>2. UNCHANGED <<vars, request, reading>> /\ root' = root
    BY <1>1 DEF backwardWalk, vars, tableVars
  <2>3. Found(th)'
    BY <2>1, <2>2 DEF Found
  <2> QED
    BY <1>1, <2>1, <2>2, <2>3, InvFound DEF backwardWalk
<1>2. CASE /\ pointSearch(th)
           /\ PointGranted(root[Key(th)], request[th].ts, request[th].is_read)
  <2>1. /\ local'[th].table = PointLock(root[r.key], r.tid, r.ts, r.is_read)
        /\ local'[th].start = r.ts /\ local'[th].granted = TRUE
        /\ r.op = "tryLock"
        /\ DOMAIN local' = Threads /\ \A o \in Threads \ {th} : local'[o] = local[o]
    BY <1>0, <1>2 DEF pointSearch, Key
  <2>2. UNCHANGED <<vars, request, reading>> /\ root' = root
    BY <1>2 DEF pointSearch, Key, vars, tableVars, recordVars, threadVars, historyVars
  <2>3. Found(th)'
    BY <1>2, <2>1, <2>2 DEF Found, Key
  <2>4. At(th, "mutex") /\ record(th, Tid(th))
    BY <1>2 DEF pointSearch, Key, Tid
  <2> QED
    BY <2>1, <2>2, <2>3, <2>4, InvFound
<1> QED
  BY <1>1, <1>2

\* A call that returns, having changed at most the key whose mutex it holds and the
\* record of its own transaction.
LEMMA InvReturn ==
    ASSUME SyncInv, TableInv', EventsKnown', NEW th \in Threads, InCall(th), Return(th),
           UNCHANGED <<threadVars, finished>>,
           transaction_map \subseteq transaction_map',
           \A x \in Tids, k \in Keys :
              <<x, k>> \in waiting' => <<x, k>> \in waiting \/ x = Tid(th),
           \A o \in Threads \ {th} : AtRecord(o) => root'[Key(o)] = root[Key(o)]
    PROVE  SyncInv'
<1>1. /\ SyncTypes'
      /\ step'[th] = "none" /\ th \notin reading'
      /\ pc' = pc /\ arg' = arg /\ todo' = todo /\ fired' = fired /\ finished' = finished
      /\ \A o \in Threads \ {th} : Same(o)
  BY DEF Return, Goto, SyncInv, SyncTypes, Steps, threadVars, Same
<1>2. Known \subseteq Known'
  BY <1>1 DEF Known
<1>3. /\ ~InCall(th)' /\ ~Own(th)' /\ ~AtRecord(th)' /\ ~Finishing(th) /\ ~Finishing(th)'
  BY <1>1 DEF SyncInv, ThreadInv, InCall, Own, AtRecord, Finishing
<1>4. ThreadInv(th)'
  <2>1. \A e \in fired'[th] : e[1] \in Known'
    BY <1>1, <1>2 DEF SyncInv, ThreadInv
  <2> QED
    BY <1>1, <1>3, <2>1 DEF ThreadInv
<1>5. ASSUME NEW o \in Threads \ {th} PROVE ThreadInv(o)'
  <2>1. Own(o) => Active(Tid(o))'
    <3>1. SUFFICES ASSUME Own(o) PROVE Active(Tid(o))'
      OBVIOUS
    <3>2. Tid(o) \in Tids /\ Active(Tid(o)) /\ Tid(o)' = Tid(o) /\ Own(o)
      BY <1>1, <1>5, <3>1, RequestFields DEF SyncInv, ThreadInv, Own, Tid, Same
    <3>3. CASE Own(th)
      <4>1. Tid(o) # Tid(th)
        BY <1>5, <3>2, <3>3 DEF SyncInv, PairInv
      <4> QED
        BY <1>1, <3>2, <4>1 DEF Active
    <3>4. CASE ~Own(th)
      <4>1. Reruns
        BY <3>4, RequestFields DEF SyncInv, ThreadInv, Own
      <4> QED
        BY <1>1, <3>2, <4>1 DEF Active
    <3> QED
      BY <3>3, <3>4
  <2>2. /\ step[o] = "interval" => Tid(o) \in transaction_map'
        /\ Finishing(o) => arg[o] \in transaction_map'
    BY <1>5 DEF SyncInv, ThreadInv
  <2> QED
    BY <1>1, <1>2, <1>5, <2>1, <2>2, ThreadFrame
<1>6. \A o \in Threads \ {th} : PairInv(th, o)' /\ PairInv(o, th)'
  BY <1>1, <1>3 DEF PairInv
<1> QED
  BY <1>1, <1>4, <1>5, <1>6, OthersPair

\* A refused tryLock creates at most the KeyInfo.
LEMMA InvRefused ==
    ASSUME SyncInv, TableInv', NEW th \in Threads, pointSearch(th),
           ~PointGranted(root[Key(th)], request[th].ts, request[th].is_read)
    PROVE  SyncInv'
<1>1. /\ InCall(th) /\ Return(th) /\ UNCHANGED <<threadVars, finished>>
      /\ transaction_map' = transaction_map /\ waiting' = waiting /\ root' = root
      /\ events' = events /\ finished' = finished
  BY DEF pointSearch, Key, At, InCall, recordVars, historyVars
<1>2. EventsKnown'
  BY <1>1 DEF SyncInv, EventsKnown, Known
<1> QED
  BY <1>1, <1>2, InvReturn

\* Recording changes a key that nobody else has looked at, and a record whose
\* transaction makes no other call of its own.
LEMMA InvPublish ==
    ASSUME SyncInv, TableInv', NEW th \in Threads, AtRecord(th), Publish(th), Return(th)
    PROVE  SyncInv'
<1>1. /\ InCall(th) /\ UNCHANGED <<threadVars, finished>> /\ finished' = finished
      /\ transaction_map' = transaction_map \cup {Tid(th)}
  BY DEF AtRecord, InCall, Publish, addTransactionLock, Tid
<1>2. waiting' = waiting \/ waiting' = waiting \cup {<<Tid(th), Key(th)>>}
  BY DEF Publish, Tid, Key
<1>3. ASSUME NEW o \in Threads \ {th}, AtRecord(o) PROVE root'[Key(o)] = root[Key(o)]
  <2>1. Key(o) # Key(th) /\ Key(o) \in Keys
    BY <1>3, RequestFields DEF SyncInv, ThreadInv, PairInv, InCall, AtRecord, Key
  <2>2. root' = [root EXCEPT ![Key(th)] = local[th].table]
    BY DEF Publish, Key
  <2> QED
    BY <2>1, <2>2 DEF SyncInv, TableInv, TypeOK
<1>4. EventsKnown'
  <2>1. Known' = Known \cup {Tid(th)}
    BY <1>1 DEF Known
  <2>2. events \in [Keys -> [TS -> SUBSET Tids]]
    BY DEF SyncInv, TableInv, TypeOK
  <2>3. CASE local[th].granted
    BY <2>1, <2>3 DEF Publish, SyncInv, EventsKnown
  <2>4. CASE ~local[th].granted
    <3>1. addEvent(Key(th), local[th].stop, Tid(th))
      BY <2>4 DEF Publish, Key, Tid
    <3>2. \A k \in Keys, t \in TS : events'[k][t] \subseteq events[k][t] \cup {Tid(th)}
      BY <2>2, <3>1 DEF addEvent
    <3> QED
      BY <2>1, <3>2 DEF SyncInv, EventsKnown
  <2> QED
    BY <2>3, <2>4
<1> QED
  BY <1>1, <1>2, <1>3, <1>4, InvReturn

\* A step of freeze or unlock, in which no call of th is under way.
LEMMA InvFinish ==
    ASSUME SyncInv, TableInv', EventsKnown', NEW th \in Threads,
           ~InCall(th), UNCHANGED callVars,
           reading' \subseteq Threads, th \in reading' => Visits(th)',
           Finishing(th)' => /\ arg'[th] \in transaction_map' /\ arg'[th] \in finished'
                             /\ arg'[th] \notin finished \/ (Finishing(th) /\ arg'[th] = arg[th]),
           \A e \in fired'[th] : e[1] \in Known',
           finished \subseteq finished', Known \subseteq Known',
           \A o \in Threads \ {th} :
              /\ pc'[o] = pc[o] /\ arg'[o] = arg[o] /\ todo'[o] = todo[o]
              /\ fired'[o] = fired[o]
              /\ o \in reading' => o \in reading
              /\ Own(o) => Active(Tid(o))'
              /\ AtRecord(o) => root'[Key(o)] = root[Key(o)]
              /\ step[o] = "interval" => Tid(o) \in transaction_map'
              /\ Finishing(o) => arg[o] \in transaction_map'
    PROVE  SyncInv'
<1>1. /\ SyncTypes' /\ step' = step /\ request' = request /\ local' = local
      /\ \A o \in Threads \ {th} : Same(o)
  BY DEF SyncInv, SyncTypes, callVars, Same
<1>2. step[th] = "none" /\ ~InCall(th)' /\ ~Own(th)' /\ ~AtRecord(th)' /\ step'[th] = "none"
  BY <1>1 DEF InCall, Own, AtRecord
<1>3. ThreadInv(th)'
  BY <1>2 DEF ThreadInv
<1>4. ASSUME NEW o \in Threads \ {th} PROVE ThreadInv(o)'
  BY <1>1, <1>4, ThreadFrame
<1>5. ASSUME NEW o \in Threads \ {th} PROVE PairInv(th, o)' /\ PairInv(o, th)'
  <2>1. PairInv(th, o) /\ PairInv(o, th) /\ ThreadInv(o) /\ Same(o)
    BY <1>1, <1>5 DEF SyncInv
  <2>2. Finishing(o)' = Finishing(o) /\ arg'[o] = arg[o] /\ Tid(o)' = Tid(o)
    BY <1>1, <2>1 DEF Finishing, Tid, Same
  <2>3. Finishing(th)' /\ Finishing(o)' => arg'[th] # arg'[o]
    BY <2>1, <2>2 DEF PairInv, ThreadInv
  <2>4. step'[o] = "createTid" /\ Finishing(th)' => Tid(o)' # arg'[th]
    <3>1. SUFFICES ASSUME step[o] = "createTid", Finishing(th)', arg'[th] \notin finished
                   PROVE  Tid(o) # arg'[th]
      BY <1>1, <2>1, <2>2 DEF PairInv
    <3>2. CASE request[o].again
      BY <2>1, <3>1, <3>2 DEF ThreadInv
    <3>3. CASE ~request[o].again
      \* The transaction is active still, and that of th is not.
      <4>1. Own(o) /\ Active(Tid(o))'
        BY <1>5, <3>1, <3>3 DEF Own, InCall
      <4> QED
        BY <2>2, <3>1, <4>1 DEF Active
    <3> QED
      BY <3>2, <3>3
  <2> QED
    BY <1>2, <2>3, <2>4 DEF PairInv
<1> QED
  BY <1>1, <1>3, <1>4, <1>5, OthersPair

\* freeze and unlock begin for a transaction that makes no call of its own.
LEMMA InvStart ==
    ASSUME SyncInv, TableInv', NEW th \in Threads, NEW tid \in Tids, start(th, tid)
    PROVE  SyncInv'
<1>1. /\ \E s \in {"freeze", "unlock"} : Begin(th, tid, s)
      /\ ~InCall(th) /\ Active(tid) /\ FreeOf(tid) /\ UNCHANGED <<callVars, reading>>
  BY DEF start, beginFreeze, beginUnlock, syncVars
<1>2. /\ pc[th] = "idle" /\ finished' = finished \cup {tid} /\ tid \notin finished
      /\ root' = root /\ events' = events /\ transaction_map' = transaction_map
      /\ waiting' = waiting /\ fired' = fired
      /\ \A o \in Threads \ {th} : pc'[o] = pc[o] /\ arg'[o] = arg[o] /\ todo'[o] = todo[o]
  <2>1. PICK s \in {"freeze", "unlock"} : Begin(th, tid, s)
    BY <1>1
  <2>2. /\ pc[th] = "idle" /\ finished' = finished \cup {tid} /\ tid \notin finished
        /\ root' = root /\ events' = events /\ transaction_map' = transaction_map
        /\ waiting' = waiting /\ fired' = fired
    BY <1>1, <2>1 DEF Begin, tableVars, recordVars, Active
  <2>3. /\ DOMAIN pc = Threads /\ DOMAIN arg = Threads /\ DOMAIN todo = Threads
    BY DEF SyncInv, TableInv, TypeOK
  <2>4. \A o \in Threads \ {th} : pc'[o] = pc[o] /\ arg'[o] = arg[o] /\ todo'[o] = todo[o]
    BY <2>1, <2>3 DEF Begin
  <2> QED
    BY <2>2, <2>4
<1>3. Finishing(th)' => arg'[th] = tid /\ tid \in transaction_map
  <2>1. DOMAIN arg = Threads
    BY DEF SyncInv, TableInv, TypeOK
  <2>2. CASE tid \in transaction_map
    BY <1>1, <2>1, <2>2 DEF Begin
  <2>3. CASE tid \notin transaction_map
    BY <1>1, <1>2, <2>3 DEF Begin, Finishing
  <2> QED
    BY <2>2, <2>3
<1>4. th \notin reading /\ reading \subseteq Threads
  BY <1>1, <1>2 DEF SyncInv, ThreadInv, Visits, Walking, InCall, SyncTypes
<1>5. ASSUME NEW o \in Threads \ {th}, Own(o) PROVE Active(Tid(o))'
  <2>1. Active(Tid(o)) /\ Tid(o) # tid /\ Tid(o)' = Tid(o)
    BY <1>1, <1>5 DEF SyncInv, ThreadInv, FreeOf, InCall, Own, Tid, callVars
  <2> QED
    BY <1>2, <2>1 DEF Active
<1>6. \A o \in Threads \ {th} :
         /\ step[o] = "interval" => Tid(o) \in transaction_map'
         /\ Finishing(o) => arg[o] \in transaction_map'
  BY <1>2 DEF SyncInv, ThreadInv
<1>7. Known \subseteq Known' /\ EventsKnown' /\ \A e \in fired'[th] : e[1] \in Known'
  BY <1>2 DEF Known, SyncInv, EventsKnown, ThreadInv
<1> QED
  BY <1>1, <1>2, <1>3, <1>4, <1>5, <1>6, <1>7, InvFinish

\* A walker has no call under way.
LEMMA WalkerIdle ==
    ASSUME SyncInv, NEW th \in Threads
    PROVE  /\ pc[th] \notin {"idle", "run"} => ~InCall(th)
           /\ \A o \in Threads \ {th} : Own(o) => Active(Tid(o))
           /\ \A o \in Threads \ {th} :
                 /\ step[o] = "interval" => Tid(o) \in transaction_map
                 /\ Finishing(o) => arg[o] \in transaction_map
           /\ ~InCall(th) /\ th \in reading => Visits(th)
           /\ Finishing(th) => arg[th] \in transaction_map /\ arg[th] \in finished
           /\ \A e \in fired[th] : e[1] \in Known
           /\ reading \subseteq Threads
BY DEF SyncInv, ThreadInv, InCall, SyncTypes

\* The events a freeze or unlock collects are of known transactions.
LEMMA FireKnown ==
    ASSUME SyncInv, NEW th \in Threads, NEW key \in Keys, NEW ends \in SUBSET TS,
           Fire(th, key, ends)
    PROVE  /\ \A e \in fired'[th] : e[1] \in Known
           /\ \A o \in Threads \ {th} : fired'[o] = fired[o]
<1>1. fired \in [Threads -> SUBSET Request]
  BY DEF SyncInv, TableInv, TypeOK
<1>2. fired'[th] = fired[th] \cup {<<x, key>> : x \in UNION {events[key][t] : t \in ends}}
  BY <1>1 DEF Fire
<1>3. \A t \in ends : events[key][t] \subseteq Known
  BY DEF SyncInv, EventsKnown
<1>4. \A e \in fired[th] : e[1] \in Known
  BY WalkerIdle
<1> QED
  BY <1>1, <1>2, <1>3, <1>4 DEF Fire

\* Visiting a key: its mutex is free, so that nobody else has looked at it.
LEMMA InvVisit ==
    ASSUME SyncInv, TableInv', NEW th \in Threads, visitKey(th)
    PROVE  SyncInv'
<1>1. PICK key \in Keys : freezeKey(th, key) \/ unlockKey(th, key)
  BY DEF visitKey
<1>2. /\ Walking(th) /\ Finishing(th) /\ NextKey(th, key)
      /\ \A k \in Keys \ {key} : root'[k] = root[k]
      /\ \A o \in Threads \ {th} : todo'[o] = todo[o]
      /\ pc' = pc /\ arg' = arg /\ transaction_map' = transaction_map /\ events' = events
      /\ waiting' = waiting /\ finished' = finished
  <2>1. root \in [Keys -> {root[k] : k \in Keys}] /\ todo \in [Threads -> SUBSET Keys]
    BY DEF SyncInv, TableInv, TypeOK
  <2>2. CASE freezeKey(th, key)
    BY <2>1, <2>2 DEF freezeKey, Walking, Finishing, recordVars, historyVars
  <2>3. CASE unlockKey(th, key)
    BY <2>1, <2>3 DEF unlockKey, Walking, Finishing, recordVars
  <2> QED
    BY <1>1, <2>2, <2>3
<1>3. /\ \A e \in fired'[th] : e[1] \in Known
      /\ \A o \in Threads \ {th} : fired'[o] = fired[o]
  <2>1. GoodTable(root[key])
    BY GoodTables DEF SyncInv
  <2>2. arg[th] \in Tids
    BY DEF SyncInv, TableInv, TypeOK
  <2>3. \/ fired' = fired
        \/ \E ends \in SUBSET TS : Fire(th, key, ends)
    BY <1>1, <2>1, <2>2, EndsType DEF freezeKey, unlockKey
  <2> QED
    BY <2>3, FireKnown, WalkerIdle
<1>4. /\ reading' = reading \ {th} /\ UNCHANGED callVars
      /\ ~KeyMutexHeld(key)
  BY <1>2 DEF visitKey, Waits
<1>5. ASSUME NEW o \in Threads \ {th}, AtRecord(o) PROVE root'[Key(o)] = root[Key(o)]
  <2>1. Key(o) # key
    BY <1>4, <1>5 DEF KeyMutexHeld, AtRecord
  <2>2. Key(o) \in Keys
    BY <1>5, RequestFields DEF SyncInv, ThreadInv, InCall, AtRecord, Key
  <2> QED
    BY <1>2, <2>1, <2>2
<1>6. \A o \in Threads \ {th} : Own(o) => Active(Tid(o))'
  BY <1>2, <1>4, WalkerIdle DEF Active, Tid, callVars
<1>7. Known' = Known /\ EventsKnown'
  BY <1>2 DEF Known, SyncInv, EventsKnown
<1>8. ~InCall(th)
  BY <1>2, WalkerIdle DEF Walking
<1>9. Finishing(th)' => /\ arg'[th] \in transaction_map' /\ arg'[th] \in finished'
                        /\ Finishing(th) /\ arg'[th] = arg[th]
  BY <1>2, WalkerIdle
<1> QED
  BY <1>2, <1>3, <1>4, <1>5, <1>6, <1>7, <1>8, <1>9, WalkerIdle, InvFinish

\* The end of freeze and unlock: a record goes when nobody reads the map.
LEMMA InvEnd ==
    ASSUME SyncInv, TableInv', NEW th \in Threads, end(th)
    PROVE  SyncInv'
<1>1. UNCHANGED callVars /\ reading' = reading /\ ~InCall(th)
  BY DEF end, syncVars
<1>2. /\ pc \in [Threads -> {"idle", "freeze", "unlock", "delete", "run"}]
      /\ fired \in [Threads -> SUBSET Request] /\ arg \in [Threads -> Tids]
  BY DEF SyncInv, TableInv, TypeOK
<1>3. /\ ~Visits(th) /\ arg' = arg
      /\ \A o \in Threads \ {th} : pc'[o] = pc[o] /\ fired'[o] = fired[o]
      /\ root' = root /\ events' = events /\ todo' = todo
      /\ finished' = finished /\ waiting' \subseteq waiting
      /\ fired'[th] \subseteq fired[th]
      /\ \/ transaction_map' = transaction_map
            /\ (Finishing(th)' => Finishing(th))
         \/ /\ TransactionReaders = {} /\ Finishing(th) /\ ~Finishing(th)'
            /\ transaction_map' = transaction_map \ {arg[th]}
  <2>1. CASE clearIntervals(th)
    BY <1>2, <2>1 DEF clearIntervals, Walking, Finishing, Visits, tableVars, historyVars
  <2>2. CASE ~Waits(th) /\ deleteTransactionInfo(th)
    BY <1>2, <2>2 DEF deleteTransactionInfo, Waits, Walking, Finishing, Visits, tableVars,
                      historyVars
  <2>3. CASE \E e \in Request : runEvent(th, e)
    BY <1>2, <2>3 DEF runEvent, Walking, Finishing, Visits, tableVars, recordVars
  <2>4. CASE return(th)
    BY <1>2, <2>4 DEF return, Walking, Finishing, Visits, tableVars, recordVars, historyVars
  <2> QED
    BY <2>1, <2>2, <2>3, <2>4 DEF end
<1>4. \A o \in Threads \ {th} : Own(o) => Active(Tid(o))'
  BY <1>1, <1>3, WalkerIdle DEF Active, Tid, callVars
<1>5. Known' = Known
  BY <1>3, WalkerIdle DEF Known
<1>6. ASSUME NEW o \in Threads \ {th}
      PROVE  /\ step[o] = "interval" => Tid(o) \in transaction_map'
             /\ Finishing(o) => arg[o] \in transaction_map'
  <2>1. PairInv(th, o)
    BY <1>6 DEF SyncInv
  <2> QED
    BY <1>3, <1>6, <2>1, WalkerIdle DEF TransactionReaders, PairInv
<1>7. EventsKnown'
  BY <1>3, <1>5 DEF SyncInv, EventsKnown
<1>8. Finishing(th)' => /\ arg'[th] \in transaction_map' /\ arg'[th] \in finished'
                        /\ Finishing(th) /\ arg'[th] = arg[th]
  BY <1>3, WalkerIdle
<1>9. th \notin reading' /\ \A e \in fired'[th] : e[1] \in Known'
  BY <1>1, <1>3, <1>5, WalkerIdle
<1> QED
  BY <1>1, <1>3, <1>4, <1>5, <1>6, <1>7, <1>8, <1>9, WalkerIdle, InvFinish

\* A walker takes _key_map_lock for its next key.
LEMMA InvNextKey ==
    ASSUME SyncInv, TableInv', NEW th \in Threads, nextKey(th)
    PROVE  SyncInv'
<1>1. /\ reading' = reading \cup {th} /\ UNCHANGED callVars /\ Visits(th)
      /\ pc[th] \notin {"idle", "run"}
      /\ root' = root /\ events' = events /\ arg' = arg /\ pc' = pc /\ todo' = todo
      /\ fired' = fired
      /\ transaction_map' = transaction_map /\ finished' = finished /\ waiting' = waiting
  BY DEF nextKey, Visits, Walking, vars, tableVars, recordVars, threadVars, historyVars
<1>2. Visits(th)' /\ Finishing(th)' = Finishing(th)
  BY <1>1 DEF Visits, Walking, Finishing
<1>3. \A o \in Threads \ {th} : Own(o) => Active(Tid(o))'
  BY <1>1, WalkerIdle DEF Active, Tid, callVars
<1>4. Known' = Known /\ EventsKnown'
  BY <1>1 DEF Known, SyncInv, EventsKnown
<1>5. ~InCall(th)
  BY <1>1, WalkerIdle
<1> QED
  BY <1>1, <1>2, <1>3, <1>4, <1>5, WalkerIdle, InvFinish

\* Every step keeps the invariant.
LEMMA SyncStepInv ==
    ASSUME SyncInv, [SyncNext]_allVars
    PROVE  SyncInv'
<1>1. TableInv'
  BY AtomicStep, TableStep DEF SyncInv
<1>2. ASSUME NEW th \in Threads, SyncStep(th) PROVE SyncInv'
  <2>0. CASE \E r \in LockRequest : runAgain(th, r)
    BY <1>1, <2>0, InvRunAgain
  <2>1. CASE \E r \in LockRequest : Call(th, r)
    BY <1>1, <2>1, InvCall
  <2>2. CASE createKeyInfo(th)
    BY <1>1, <2>2, InvCreateKey
  <2>3. CASE backwardWalk(th) \/ pointSearch(th)
    BY <1>1, <2>3, InvSearch, InvRefused
  <2>4. CASE createTransactionInfo(th) \/ addInterval(th)
    BY <1>1, <2>4, InvPublish DEF createTransactionInfo, addInterval, At, AtRecord
  <2>5. CASE \E tid \in Tids : start(th, tid)
    BY <1>1, <2>5, InvStart
  <2>6. CASE nextKey(th)
    BY <1>1, <2>6, InvNextKey
  <2>7. CASE visitKey(th)
    BY <1>1, <2>7, InvVisit
  <2>8. CASE end(th)
    BY <1>1, <2>8, InvEnd
  <2> QED
    BY <1>2, <2>0, <2>1, <2>2, <2>3, <2>4, <2>5, <2>6, <2>7, <2>8 DEF SyncStep
<1>3. CASE UNCHANGED allVars
  <2>1. UNCHANGED <<vars, syncVars>>
    BY <1>3 DEF allVars
  <2>2. /\ step' = step /\ request' = request /\ local' = local /\ reading' = reading
        /\ root' = root /\ arg' = arg /\ pc' = pc /\ todo' = todo /\ fired' = fired
        /\ events' = events
        /\ transaction_map' = transaction_map /\ finished' = finished /\ waiting' = waiting
    BY <2>1 DEF vars, syncVars, callVars, tableVars, recordVars, threadVars, historyVars
  <2>3. Known' = Known /\ EventsKnown' /\ \A o \in Threads : Same(o)
    BY <2>2 DEF Known, SyncInv, EventsKnown, Same
  <2>4. ASSUME NEW o \in Threads PROVE ThreadInv(o)'
    <3>1. Own(o) => Active(Tid(o))'
      BY <2>2 DEF SyncInv, ThreadInv, Active, Tid
    <3>2. /\ step[o] = "interval" => Tid(o) \in transaction_map'
          /\ Finishing(o) => arg[o] \in transaction_map'
      BY <2>2 DEF SyncInv, ThreadInv
    <3> QED
      BY <2>2, <2>3, <3>1, <3>2, ThreadFrame
  <2>5. \A u, o \in Threads : u # o => PairInv(u, o)'
    BY <2>3, PairFrame
  <2>6. SyncTypes'
    BY <2>2 DEF SyncInv, SyncTypes
  <2> QED
    BY <1>1, <2>3, <2>4, <2>5, <2>6 DEF SyncInv
<1> QED
  BY <1>2, <1>3 DEF SyncNext, SyncInv

-----------------------------------------------------------------------------
(* The theorems                                                             *)

\* With the rwlocks and mutexes the code takes, for any number of keys, threads and
\* transactions, and whether or not events run again while their transaction commits
\* or aborts, every lock request has its effect at one moment: the threads implement
\* the atomic lock manager.
THEOREM CallsAtomic == SyncSpec => CallsAreAtomic
<1>1. SyncInit => Init
  BY DEF SyncInit
<1>2. SyncInv /\ [SyncNext]_allVars => SyncInv' /\ [Next]_vars
  BY SyncStepInv, AtomicStep
<1> QED
  BY SyncInitInv, <1>1, <1>2, PTL DEF SyncSpec, CallsAreAtomic, Spec

\* The record that createTransactionInfo makes is there when the interval is entered.
THEOREM RecordsStay == SyncSpec => []RecordStays
<1>1. ASSUME SyncInv PROVE RecordStays
  <2> SUFFICES ASSUME NEW th \in Threads, step[th] = "createTid"
               PROVE  /\ \A other \in Threads : Finishing(other) => arg[other] # Tid(th)
                      /\ request[th].again => Tid(th) \in finished
    BY DEF RecordStays, Finishing
  <2>1. ThreadInv(th) /\ ~Finishing(th)
    BY <1>1 DEF SyncInv, ThreadInv, InCall, Finishing
  <2>2. ASSUME NEW other \in Threads, Finishing(other) PROVE arg[other] # Tid(th)
    BY <1>1, <2>1, <2>2 DEF SyncInv, PairInv
  <2> QED
    BY <2>1, <2>2 DEF ThreadInv
<1>2. SyncInv /\ [SyncNext]_allVars => SyncInv'
  BY SyncStepInv
<1> QED
  BY SyncInitInv, <1>1, <1>2, PTL DEF SyncSpec

\* When all threads that have something to do wait, one of them is in freeze or
\* unlock and waits for the mutex of a key, whose holder makes the first lock of its
\* transaction, or runs an event again whose transaction is in freeze or unlock: no
\* other order of the four kinds of locks can deadlock.
THEOREM DeadlocksKnown == SyncSpec => []OnlyKnownDeadlocks
<1>1. ASSUME SyncInv PROVE OnlyKnownDeadlocks
  <2> DEFINE busy == {th \in Threads : InCall(th) \/ pc[th] # "idle"}
  <2> SUFFICES ASSUME busy # {}, \A th \in busy : Waits(th)
               PROVE  FirstLockCycle \/ RerunCycle
    BY DEF OnlyKnownDeadlocks
  <2>0. \A th \in Threads : ThreadInv(th)
    BY <1>1 DEF SyncInv
  <2>1. ASSUME NEW th \in Threads, step[th] = "interval"
        PROVE  request[th].again /\ TransactionMutexHeld(Tid(th))
    \* The mutex of the record is held by a thread that finishes the transaction,
    \* which then makes no call of its own.
    <3>1. th \in busy /\ InCall(th) /\ pc[th] \in {"idle", "run"}
      BY <2>0, <2>1 DEF ThreadInv, InCall
    <3>2. TransactionMutexHeld(Tid(th))
      BY <2>1, <3>1 DEF Waits, Walking
    <3>3. Tid(th) \in finished
      BY <2>0, <3>2 DEF TransactionMutexHeld, ThreadInv, Finishing, Walking
    <3> QED
      BY <2>0, <3>1, <3>2, <3>3 DEF ThreadInv, Own, Active
  <2>2. CASE \E th \in Threads : Walking(th)
    <3>1. PICK walker \in Threads : Walking(walker)
      BY <2>2
    <3>2. walker \in busy /\ pc[walker] # "delete" /\ step[walker] = "none"
      BY <2>0, <3>1 DEF Walking, ThreadInv, InCall
    <3>3. PICK key \in Keys : walker \in reading /\ NextKey(walker, key) /\ KeyMutexHeld(key)
      BY <3>2 DEF Waits
    <3>4. PICK locker \in Threads :
             step[locker] \in {"createTid", "interval"} /\ Key(locker) = key
      BY <3>3 DEF KeyMutexHeld
    <3>5. WaitsAtKey(walker, key)
      BY <3>1, <3>3 DEF WaitsAtKey
    <3> QED
      BY <2>1, <3>4, <3>5 DEF FirstLockCycle, RerunCycle
  <2>3. CASE \A th \in Threads : ~Walking(th)
    <3>0. \A th \in Threads : step[th] # "interval"
      BY <2>1, <2>3 DEF TransactionMutexHeld
    <3>1. TransactionReaders = {}
      BY <2>3, <3>0 DEF TransactionReaders
    <3>2. \A th \in Threads : step[th] # "createTid"
      BY <2>0, <3>1 DEF Waits, ThreadInv, InCall, Walking
    <3>3. \A key \in Keys : ~KeyMutexHeld(key)
      BY <3>0, <3>2 DEF KeyMutexHeld
    <3>4. \A th \in Threads : step[th] # "mutex"
      <4> SUFFICES ASSUME NEW th \in Threads, step[th] = "mutex" PROVE FALSE
        OBVIOUS
      <4>1. th \in busy /\ pc[th] \in {"idle", "run"}
        BY <2>0 DEF ThreadInv, InCall
      <4>2. KeyMutexHeld(Key(th))
        BY <4>1 DEF Waits, Walking
      <4> QED
        BY <3>0, <3>2, <4>2 DEF KeyMutexHeld
    <3>5. reading = {}
      BY <1>1, <2>0, <2>3, <3>0, <3>2, <3>4 DEF SyncInv, SyncTypes, ThreadInv, Visits
    <3>6. \A th \in busy : ~Waits(th)
      BY <2>3, <3>0, <3>1, <3>2, <3>4, <3>5 DEF Waits
    <3> QED
      BY <3>6
  <2> QED
    BY <2>2, <2>3
<1>2. SyncInv /\ [SyncNext]_allVars => SyncInv'
  BY SyncStepInv
<1> QED
  BY SyncInitInv, <1>1, <1>2, PTL DEF SyncSpec

\* What is proved of the atomic lock manager therefore holds under the locks of the
\* code.
THEOREM SyncSafe ==
    ASSUME SharedUnlock = FALSE
    PROVE  SyncSpec => /\ [](TypeOK /\ TablesTile /\ ExclusiveOwners /\ LocksRecorded)
                       /\ [](ReadProtected /\ NoLostWakeup)
                       /\ FrozenForever
BY CallsAtomic, TypeCorrect, TimePartitioned, FrozenIsForever, OwnersAreExclusive,
   LocksAccountedFor, ReadsAreProtected, WakeupsAreKept, PTL DEF CallsAreAtomic
=============================================================================
