------------------------- MODULE AVLTreeLockManager -------------------------
(***************************************************************************)
(* The lock manager of the server: interval locks per key, the events of   *)
(* blocked requests, and the intervals recorded per transaction.           *)
(*                                                                         *)
(* tryBackwardLock and tryLock run under the key's mutex from the lookup   *)
(* to the end, so each is one action.  freeze and unlock take the keys one *)
(* after the other, then delete the transaction's record, then run the     *)
(* events they collected: one action each, so that the requests of other   *)
(* transactions come in between.                                           *)
(***************************************************************************)
EXTENDS LockTable

CONSTANTS
    Keys,            \* keys, numbers since std::map walks them in order
    Threads,         \* the threads that call freeze and unlock
    Times,           \* the timestamps requests are made at
    BackwardModes,   \* the values of is_read passed to tryBackwardLock
    PointModes,      \* the values of is_read passed to tryLock
    Aborters,        \* the transactions that may call unlock
    Reruns,          \* whether events run again, for transactions that have gone on
    SharedUnlock     \* whether unlock may meet a read lock that others own too

ASSUME ManagerAssumption ==
    /\ Keys \subseteq Nat
    /\ Times \subseteq 0 .. MaxTs - 1
    /\ BackwardModes \subseteq BOOLEAN
    /\ PointModes \subseteq BOOLEAN
    /\ Tids # {} /\ Aborters \subseteq Tids
    /\ Reruns \in BOOLEAN
    /\ SharedUnlock \in BOOLEAN

VARIABLES
    key_map,          \* the keys that have a KeyInfo
    root,             \* KeyInfo::_root, the interval table of each key
    events,           \* KeyInfo::_events: the requests registered at an end
    transaction_map,  \* the transactions that have a TransactionInfo
    intervals,        \* TransactionInfo::_intervals
    pc,               \* where a thread is in freeze or unlock
    arg,              \* the transaction a thread freezes or unlocks
    todo,             \* the keys of arg a thread has not visited yet
    fired,            \* the local set events of freeze and unlock
    waiting,          \* history: blocked requests whose event has not run yet
    covered,          \* history: the times a reader was told it has read-locked
    finished          \* history: the transactions handed to freeze or unlock

tableVars == <<key_map, root, events>>
recordVars == <<transaction_map, intervals>>
threadVars == <<pc, arg, todo, fired>>
historyVars == <<waiting, covered, finished>>
vars == <<tableVars, recordVars, threadVars, historyVars>>

\* An event is named after the transaction and the key of its request.
Request == Tids \X Keys

Interval == [lo : TS, hi : TS]

\* No entry in _intervals: the neutral element of the hull below.
NoInterval == [lo |-> MaxTs, hi |-> 0]

\* A thread that is in no call yet has no argument; any one does.
Init ==
    /\ key_map = {}
    /\ root = [k \in Keys |-> InitialTable]
    /\ events = [k \in Keys |-> [t \in TS |-> {}]]
    /\ transaction_map = {}
    /\ intervals = [x \in Tids |-> [k \in Keys |-> NoInterval]]
    /\ pc = [th \in Threads |-> "idle"]
    /\ arg = [th \in Threads |-> CHOOSE tid \in Tids : TRUE]
    /\ todo = [th \in Threads |-> {}]
    /\ fired = [th \in Threads |-> {}]
    /\ waiting = {}
    /\ covered = [x \in Tids |-> [k \in Keys |-> {}]]
    /\ finished = {}

-----------------------------------------------------------------------------
(* tryBackwardLock and tryLock                                              *)

\* A thread between the first and the last key of freeze or unlock: it holds
\* _transaction_map_lock for reading and the mutex of its transaction.
Walking(th) == pc[th] \in {"freeze", "unlock"}

\* addTransactionLock gets past the mutex of tid's record and, for a first
\* lock, past _transaction_map_lock, which createTransactionInfo takes for
\* writing.
CanRecord(tid) ==
    \A th \in Threads :
        Walking(th) => arg[th] # tid /\ tid \in transaction_map

\* Mutant: a later lock replaces the recorded interval.
addTransactionLock_Last(tid, key, lo, hi) ==
    /\ transaction_map' = transaction_map \cup {tid}
    /\ intervals' = [intervals EXCEPT ![tid][key] = [lo |-> lo, hi |-> hi]]

\* addTransactionLock: the recorded interval becomes the hull with [lo, hi].
addTransactionLock(tid, key, lo, hi) ==
    /\ transaction_map' = transaction_map \cup {tid}
    /\ intervals' = [intervals EXCEPT ![tid][key] =
           [lo |-> IF lo < @.lo THEN lo ELSE @.lo,
            hi |-> IF hi > @.hi THEN hi ELSE @.hi]]

\* Mutant: the event is not registered.
addEvent_Lost(key, ts_end, tid) == events' = events

\* addEvent
addEvent(key, ts_end, tid) ==
    events' = [events EXCEPT ![key][ts_end] = @ \cup {tid}]

tryBackwardLock(key, tid, ts_end, is_read) ==
    LET start   == BackwardStart(root[key], ts_end, is_read)
        granted == BackwardGranted(root[key], ts_end, is_read)
    IN  /\ CanRecord(tid)
        /\ key_map' = key_map \cup {key}
        /\ root' = [root EXCEPT ![key] = BackwardLock(@, tid, ts_end, is_read)]
        /\ addTransactionLock(tid, key, start, ts_end)
        /\ IF granted
           THEN UNCHANGED <<events, waiting>>
           ELSE /\ addEvent(key, BackwardStop(root[key], ts_end, is_read).end, tid)
                /\ waiting' = waiting \cup {<<tid, key>>}
        /\ covered' = IF is_read
                      THEN [covered EXCEPT ![tid][key] = @ \cup (start .. ts_end)]
                      ELSE covered
        /\ UNCHANGED <<threadVars, finished>>

\* tryLock(key, tid, ts, ts, is_read), the only way the server calls it.  A refused
\* one records nothing and waits for nobody's record.
tryLock(key, tid, ts, is_read) ==
    /\ key_map' = key_map \cup {key}
    /\ IF PointGranted(root[key], ts, is_read)
       THEN /\ CanRecord(tid)
            /\ root' = [root EXCEPT ![key] = PointLock(@, tid, ts, is_read)]
            /\ addTransactionLock(tid, key, ts, ts)
            /\ covered' = IF is_read
                          THEN [covered EXCEPT ![tid][key] = @ \cup {ts}]
                          ELSE covered
       ELSE UNCHANGED <<root, recordVars, covered>>
    /\ UNCHANGED <<events, threadVars, waiting, finished>>

-----------------------------------------------------------------------------
(* freeze and unlock                                                        *)

\* Both start by taking the record of tid; without one they return at once.
Begin(th, tid, step) ==
    /\ pc[th] = "idle"
    /\ finished' = finished \cup {tid}
    /\ IF tid \in transaction_map
       THEN /\ pc' = [pc EXCEPT ![th] = step]
            /\ arg' = [arg EXCEPT ![th] = tid]
            /\ todo' = [todo EXCEPT ![th] =
                   {k \in Keys : intervals[tid][k] # NoInterval}]
       ELSE UNCHANGED <<pc, arg, todo>>
    /\ UNCHANGED <<tableVars, recordVars, fired, waiting, covered>>

beginFreeze(th, tid) == Begin(th, tid, "freeze")

beginUnlock(th, tid) == tid \in Aborters /\ Begin(th, tid, "unlock")

\* The next key in the order of the std::map.
NextKey(th, key) == key \in todo[th] /\ \A k \in todo[th] : key <= k

\* Mutant: the ends are collected in place of the events registered there.
Fire_Ends(th, key, ends) ==
    fired' = [fired EXCEPT ![th] = @ \cup {<<t, key>> : t \in ends}]

Fire(th, key, ends) ==
    fired' = [fired EXCEPT ![th] =
        @ \cup {<<x, key>> : x \in UNION {events[key][t] : t \in ends}}]

freezeKey(th, key) ==
    /\ pc[th] = "freeze"
    /\ NextKey(th, key)
    /\ todo' = [todo EXCEPT ![th] = @ \ {key}]
    /\ IF key \in key_map
       THEN LET i == intervals[arg[th]][key]
            IN  /\ root' = [root EXCEPT ![key] = FreezeNodes(@, arg[th], i)]
                /\ Fire(th, key, FreezeEnds(root[key], arg[th], i))
       ELSE UNCHANGED <<root, fired>>
    /\ UNCHANGED <<key_map, events, recordVars, pc, arg, historyVars>>

\* The nodes of tid in its interval are its alone.
Unshared(tid, key) ==
    \A s \in OwnedIn(root[key], tid, intervals[tid][key]) : root[key][s].tids = {tid}

\* unlock gives up what the reader was told it holds.
unlockKey(th, key) ==
    /\ pc[th] = "unlock"
    /\ NextKey(th, key)
    /\ SharedUnlock \/ Unshared(arg[th], key)
    /\ todo' = [todo EXCEPT ![th] = @ \ {key}]
    /\ IF key \in key_map
       THEN LET i == intervals[arg[th]][key]
            IN  /\ root' = [root EXCEPT ![key] = UnlockNodes(@, arg[th], i)]
                /\ Fire(th, key, UnlockEnds(root[key], arg[th], i))
       ELSE UNCHANGED <<root, fired>>
    /\ covered' = [covered EXCEPT ![arg[th]][key] = {}]
    /\ UNCHANGED <<key_map, events, recordVars, pc, arg, waiting, finished>>

\* Mutant: the record is deleted before the walk over its keys has ended.
clearIntervals_Early(th) ==
    /\ Walking(th)
    /\ intervals' = [intervals EXCEPT ![arg[th]] = [k \in Keys |-> NoInterval]]
    /\ pc' = [pc EXCEPT ![th] = "delete"]
    /\ UNCHANGED <<tableVars, transaction_map, arg, todo, fired, historyVars>>

\* _intervals.clear() and the release of the two locks.
clearIntervals(th) ==
    /\ Walking(th)
    /\ todo[th] = {}
    /\ intervals' = [intervals EXCEPT ![arg[th]] = [k \in Keys |-> NoInterval]]
    /\ pc' = [pc EXCEPT ![th] = "delete"]
    /\ UNCHANGED <<tableVars, transaction_map, arg, todo, fired, historyVars>>

\* deleteTransactionInfo takes _transaction_map_lock for writing.
deleteTransactionInfo(th) ==
    /\ pc[th] = "delete"
    /\ \A other \in Threads : ~Walking(other)
    /\ transaction_map' = transaction_map \ {arg[th]}
    /\ pc' = [pc EXCEPT ![th] = "run"]
    /\ UNCHANGED <<tableVars, intervals, arg, todo, fired, historyVars>>

\* The loop over the collected events, in the arbitrary order of their addresses.
\* An event stays registered in _events after it ran.
runEvent(th, request) ==
    /\ pc[th] = "run"
    /\ request \in fired[th]
    /\ fired' = [fired EXCEPT ![th] = @ \ {request}]
    /\ waiting' = waiting \ {request}
    /\ UNCHANGED <<tableVars, recordVars, pc, arg, todo, covered, finished>>

return(th) ==
    /\ pc[th] = "run"
    /\ fired[th] = {}
    /\ pc' = [pc EXCEPT ![th] = "idle"]
    /\ UNCHANGED <<tableVars, recordVars, arg, todo, fired, historyVars>>

-----------------------------------------------------------------------------
(* The callers: a transaction makes no call after its commit or abort, nor  *)
(* while a request of its is blocked.  The event of a blocked read stays    *)
(* registered when it has run; with Reruns it may run again at any time.    *)

Active(tid) ==
    /\ tid \notin finished
    /\ Reruns \/ \A k \in Keys : <<tid, k>> \notin waiting

Lock(key, tid) ==
    \/ \E t \in Times, r \in BackwardModes :
          /\ Active(tid) \/ (Reruns /\ r)
          /\ tryBackwardLock(key, tid, t, r)
    \/ \E t \in Times, r \in PointModes :
          Active(tid) /\ tryLock(key, tid, t, r)

Finish(th) ==
    \/ \E tid \in Tids :
          Active(tid) /\ (beginFreeze(th, tid) \/ beginUnlock(th, tid))
    \/ \E key \in Keys : freezeKey(th, key) \/ unlockKey(th, key)
    \/ clearIntervals(th)
    \/ deleteTransactionInfo(th)
    \/ \E request \in Request : runEvent(th, request)
    \/ return(th)

Next ==
    \/ \E key \in Keys, tid \in Tids : Lock(key, tid)
    \/ \E th \in Threads : Finish(th)

Spec == Init /\ [][Next]_vars

-----------------------------------------------------------------------------
(* Properties                                                               *)

TypeOK ==
    /\ key_map \subseteq Keys
    /\ root \in [Keys -> {root[k] : k \in Keys}]
    /\ \A k \in Keys : IsTable(root[k])
    /\ events \in [Keys -> [TS -> SUBSET Tids]]
    /\ transaction_map \subseteq Tids
    /\ intervals \in [Tids -> [Keys -> Interval]]
    /\ pc \in [Threads -> {"idle", "freeze", "unlock", "delete", "run"}]
    /\ arg \in [Threads -> Tids]
    /\ todo \in [Threads -> SUBSET Keys]
    /\ fired \in [Threads -> SUBSET Request]
    /\ waiting \subseteq Request
    /\ covered \in [Tids -> [Keys -> SUBSET TS]]
    /\ finished \subseteq Tids

\* Whatever is locked, frozen and released on a key, splitting nodes never loses
\* or doubles a timestamp: the nodes partition time, and time 0 stays the frozen
\* initial version at which every backward walk ends.
TablesTile ==
    \A k \in Keys : Tiles(root[k]) /\ InitialVersion(root[k])

\* What a commit froze stays frozen, as a read or as a write, at every timestamp.
FrozenForever ==
    [][\A k \in Keys, t \in TS :
          Frozen(StatusAt(root[k], t)) => StatusAt(root'[k], t) = StatusAt(root[k], t)]_vars

\* A free or frozen node has no owner left behind, a read-locked one has some, and
\* a write-locked one has exactly one, across every split, commit and abort.
ExclusiveOwners ==
    \A k \in Keys : \A s \in DOMAIN root[k] : ExclusiveNode(root[k][s])

\* A read lock that an event took when it ran after its transaction's commit.
Late(x, n) ==
    /\ Reruns /\ n.status = "READ_LOCK"
    /\ x \in finished
    /\ \A th \in Threads : Walking(th) => arg[th] # x

\* Everything a transaction owns lies inside the interval recorded for it, of a
\* key that freeze and unlock will still visit: no lock outlives its transaction,
\* other than a read lock an event took too late.
LocksRecorded ==
    \A k \in Keys : \A s \in DOMAIN root[k] : \A x \in root[k][s].tids :
        \/ Late(x, root[k][s])
        \/ /\ k \in key_map
           /\ x \in transaction_map
           /\ intervals[x][k].lo <= s /\ root[k][s].end <= intervals[x][k].hi
           /\ x \in finished =>
                 \E th \in Threads : Walking(th) /\ arg[th] = x /\ k \in todo[th]

\* The times tryBackwardLock and tryLock told a reader it has locked stay closed
\* to writers until the reader aborts: they are read-locked by it or frozen for
\* reading.  This is what makes the version it read the right one.
ReadProtected ==
    \A x \in Tids, k \in Keys : \A t \in covered[x][k] : ReadCovered(root[k], x, t)

\* A blocked request is not forgotten: the lock it waits for is still held, or a
\* thread has collected its event and is about to run it.
NoLostWakeup ==
    \A x \in Tids, k \in Keys :
        <<x, k>> \in waiting =>
            \/ \E s \in DOMAIN root[k] :
                  x \in events[k][root[k][s].end] /\ Locked(root[k][s])
            \/ \E th \in Threads : <<x, k>> \in fired[th]
=============================================================================
