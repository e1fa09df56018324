---------------------- MODULE AVLTreeLockManagerProofs ----------------------
(***************************************************************************)
(* Proofs of the properties of AVLTreeLockManager for any set of keys,     *)
(* transactions and threads, any range of timestamps and any number of     *)
(* requests.                                                               *)
(***************************************************************************)
EXTENDS AVLTreeLockManager, LockTableProofs

\* Types and tables together: the invariant the table lemmas apply to.
TableInv == TypeOK /\ TablesTile

\* The table of every key is well formed.
LEMMA GoodTables ==
    ASSUME TableInv, NEW k \in Keys
    PROVE  GoodTable(root[k])
BY DEF TableInv, TypeOK, TablesTile, GoodTable

\* Replacing the table of one key by a good one keeps TypeOK and TablesTile of
\* root.
LEMMA RootStep ==
    ASSUME TableInv, NEW key \in Keys, NEW tbl, GoodTable(tbl),
           root' = [root EXCEPT ![key] = tbl]
    PROVE  /\ root' \in [Keys -> {root'[k] : k \in Keys}]
           /\ \A k \in Keys : IsTable(root'[k])
           /\ TablesTile'
           /\ root'[key] = tbl /\ \A k \in Keys \ {key} : root'[k] = root[k]
<1>1. root'[key] = tbl /\ \A k \in Keys \ {key} : root'[k] = root[k]
  BY DEF TableInv, TypeOK
<1>2. root' \in [Keys -> {root'[k] : k \in Keys}]
  BY DEF TableInv, TypeOK
<1>3. ASSUME NEW k \in Keys
      PROVE  IsTable(root'[k]) /\ Tiles(root'[k]) /\ InitialVersion(root'[k])
  BY <1>1, GoodTables DEF GoodTable
<1> QED
  BY <1>1, <1>2, <1>3 DEF TablesTile

\* Updating one entry of a table of tables.
LEMMA Update2 ==
    ASSUME NEW A, NEW B, NEW C, NEW f \in [A -> [B -> C]],
           NEW a \in A, NEW b \in B, NEW v \in C
    PROVE  [f EXCEPT ![a][b] = v] \in [A -> [B -> C]]
OBVIOUS

\* A time a request is made at, and the next one, are timestamps.
LEMMA TimesType == ASSUME NEW t \in Times PROVE t \in TS /\ t + 1 \in TS
BY ManagerAssumption, MaxTsAssumption DEF TS

\* The hull addTransactionLock records is an interval.
LEMMA RecordType ==
    ASSUME TableInv, NEW tid \in Tids, NEW key \in Keys, NEW lo \in TS, NEW hi \in TS,
           addTransactionLock(tid, key, lo, hi)
    PROVE  /\ transaction_map' = transaction_map \cup {tid}
           /\ intervals' \in [Tids -> [Keys -> Interval]]
           /\ intervals'[tid][key].lo <= intervals[tid][key].lo
           /\ intervals'[tid][key].lo <= lo
           /\ intervals[tid][key].hi <= intervals'[tid][key].hi
           /\ hi <= intervals'[tid][key].hi
           /\ \A x \in Tids, k \in Keys :
                 x # tid \/ k # key => intervals'[x][k] = intervals[x][k]
<1> DEFINE i == intervals[tid][key]
           j == [lo |-> IF lo < i.lo THEN lo ELSE i.lo, hi |-> IF hi > i.hi THEN hi ELSE i.hi]
<1>1. i \in Interval /\ intervals \in [Tids -> [Keys -> Interval]]
  BY DEF TableInv, TypeOK
<1>2. /\ j \in Interval /\ j.lo <= i.lo /\ j.lo <= lo /\ i.hi <= j.hi /\ hi <= j.hi
  BY <1>1, MaxTsAssumption DEF Interval, TS
<1>3. intervals' = [intervals EXCEPT ![tid][key] = j]
  BY DEF addTransactionLock
<1> HIDE DEF j
<1>4. /\ intervals' \in [Tids -> [Keys -> Interval]]
      /\ intervals'[tid][key] = j
      /\ \A x \in Tids, k \in Keys :
            x # tid \/ k # key => intervals'[x][k] = intervals[x][k]
  BY <1>1, <1>2, <1>3
<1> QED
  BY <1>2, <1>4 DEF addTransactionLock

-----------------------------------------------------------------------------
(* Types, the partition of time, and what is frozen                         *)

\* The tables createKeyInfo builds are well formed.
LEMMA TableInit == Init => TableInv
<1> SUFFICES ASSUME Init PROVE TableInv
  OBVIOUS
<1>1. \A k \in Keys : root[k] = InitialTable
  BY DEF Init
<1>2. root \in [Keys -> {root[k] : k \in Keys}]
  BY DEF Init
<1>3. TablesTile /\ \A k \in Keys : IsTable(root[k])
  BY <1>1, InitialTableGood DEF TablesTile, GoodTable
<1>4. NoInterval \in Interval
  BY MaxTsAssumption DEF NoInterval, Interval, TS
<1>5. (CHOOSE tid \in Tids : TRUE) \in Tids
  BY ManagerAssumption
<1> QED
  BY <1>2, <1>3, <1>4, <1>5 DEF Init, TableInv, TypeOK

\* A table that does not change keeps what is frozen.
LEMMA FrozenSame == ASSUME NEW tbl PROVE FrozenKept(tbl, tbl)
BY DEF FrozenKept

\* tryBackwardLock keeps the tables well formed and what is frozen.
LEMMA TableBackward ==
    ASSUME TableInv, NEW key \in Keys, NEW tid \in Tids, NEW ts \in Times,
           NEW is_read \in BackwardModes, tryBackwardLock(key, tid, ts, is_read)
    PROVE  TableInv' /\ \A k \in Keys : FrozenKept(root[k], root'[k])
<1> DEFINE start == BackwardStart(root[key], ts, is_read)
           stop  == BackwardStop(root[key], ts, is_read)
           tbl   == BackwardLock(root[key], tid, ts, is_read)
<1>1. ts \in TS /\ is_read \in BOOLEAN
  BY TimesType, ManagerAssumption
<1>2. BackwardEffect(root[key], tbl, tid, ts, is_read)
  BY <1>1, GoodTables, BackwardLockEffect
<1>3. start \in TS /\ start .. ts \subseteq TS /\ stop.end \in TS
  BY <1>1, <1>2, TimesType, MaxTsAssumption DEF BackwardEffect, TS
<1>4. /\ GrantOf(root[key], tbl, tid, start, ts, is_read)
  BY <1>2 DEF BackwardEffect
<1>5. GoodTable(tbl) /\ FrozenKept(root[key], tbl)
  BY <1>1, <1>4, GoodTables, GrantKeeps
<1>6. /\ root' = [root EXCEPT ![key] = tbl]
      /\ key_map' = key_map \cup {key}
      /\ addTransactionLock(tid, key, start, ts)
      /\ \/ UNCHANGED <<events, waiting>>
         \/ /\ events' = [events EXCEPT ![key][stop.end] = @ \cup {tid}]
            /\ waiting' = waiting \cup {<<tid, key>>}
      /\ \/ covered' = covered
         \/ covered' = [covered EXCEPT ![tid][key] = @ \cup (start .. ts)]
      /\ UNCHANGED <<threadVars, finished>>
  BY DEF tryBackwardLock, addEvent
<1> HIDE DEF start, stop, tbl
<1>7. /\ root' \in [Keys -> {root'[k] : k \in Keys}]
      /\ \A k \in Keys : IsTable(root'[k])
      /\ TablesTile'
      /\ root'[key] = tbl /\ \A k \in Keys \ {key} : root'[k] = root[k]
  BY <1>5, <1>6, RootStep
<1>8. /\ transaction_map' = transaction_map \cup {tid}
      /\ intervals' \in [Tids -> [Keys -> Interval]]
  BY <1>1, <1>3, <1>6, RecordType
<1>9. events' \in [Keys -> [TS -> SUBSET Tids]] /\ waiting' \subseteq Request
  <2>1. /\ events \in [Keys -> [TS -> SUBSET Tids]] /\ waiting \subseteq Request
        /\ events[key][stop.end] \cup {tid} \in SUBSET Tids
        /\ <<tid, key>> \in Request
    BY <1>3 DEF TableInv, TypeOK, Request
  <2>2. [events EXCEPT ![key][stop.end] = events[key][stop.end] \cup {tid}]
            \in [Keys -> [TS -> SUBSET Tids]]
    BY <1>3, <2>1, Update2
  <2> QED
    BY <1>6, <2>1, <2>2
<1>10. covered' \in [Tids -> [Keys -> SUBSET TS]]
  <2>1. /\ covered \in [Tids -> [Keys -> SUBSET TS]]
        /\ covered[tid][key] \cup (start .. ts) \in SUBSET TS
    BY <1>3 DEF TableInv, TypeOK
  <2>2. [covered EXCEPT ![tid][key] = covered[tid][key] \cup (start .. ts)]
            \in [Tids -> [Keys -> SUBSET TS]]
    BY <2>1, Update2
  <2> QED
    BY <1>6, <2>1, <2>2
<1>11. TypeOK'
  BY <1>6, <1>7, <1>8, <1>9, <1>10 DEF TableInv, TypeOK, threadVars
<1> QED
  BY <1>5, <1>7, <1>11, FrozenSame DEF TableInv

\* tryLock keeps the tables well formed and what is frozen.
LEMMA TablePoint ==
    ASSUME TableInv, NEW key \in Keys, NEW tid \in Tids, NEW ts \in Times,
           NEW is_read \in PointModes, tryLock(key, tid, ts, is_read)
    PROVE  TableInv' /\ \A k \in Keys : FrozenKept(root[k], root'[k])
<1> DEFINE tbl == PointLock(root[key], tid, ts, is_read)
<1>1. ts \in TS /\ is_read \in BOOLEAN
  BY TimesType, ManagerAssumption
<1>2. CASE PointGranted(root[key], ts, is_read)
  <2>1. PointEffect(root[key], tbl, tid, ts, is_read)
    BY <1>1, <1>2, GoodTables, PointLockEffect
  <2>2. GrantOf(root[key], tbl, tid, ts, ts, is_read)
    BY <2>1 DEF PointEffect
  <2>3. GoodTable(tbl) /\ FrozenKept(root[key], tbl)
    BY <1>1, <2>2, GoodTables, GrantKeeps
  <2>4. /\ root' = [root EXCEPT ![key] = tbl]
        /\ key_map' = key_map \cup {key}
        /\ addTransactionLock(tid, key, ts, ts)
        /\ \/ covered' = covered
           \/ covered' = [covered EXCEPT ![tid][key] = @ \cup {ts}]
        /\ UNCHANGED <<events, threadVars, waiting, finished>>
    BY <1>2 DEF tryLock
  <2> HIDE DEF tbl
  <2>5. /\ root' \in [Keys -> {root'[k] : k \in Keys}]
        /\ \A k \in Keys : IsTable(root'[k])
        /\ TablesTile'
        /\ root'[key] = tbl /\ \A k \in Keys \ {key} : root'[k] = root[k]
    BY <2>3, <2>4, RootStep
  <2>6. /\ transaction_map' = transaction_map \cup {tid}
        /\ intervals' \in [Tids -> [Keys -> Interval]]
    BY <1>1, <2>4, RecordType
  <2>7. covered' \in [Tids -> [Keys -> SUBSET TS]]
    <3>1. /\ covered \in [Tids -> [Keys -> SUBSET TS]]
          /\ covered[tid][key] \cup {ts} \in SUBSET TS
      BY <1>1 DEF TableInv, TypeOK
    <3>2. [covered EXCEPT ![tid][key] = covered[tid][key] \cup {ts}]
              \in [Tids -> [Keys -> SUBSET TS]]
      BY <3>1, Update2
    <3> QED
      BY <2>4, <3>1, <3>2
  <2>8. TypeOK'
    BY <2>4, <2>5, <2>6, <2>7 DEF TableInv, TypeOK, threadVars
  <2> QED
    BY <2>3, <2>5, <2>8, FrozenSame DEF TableInv
<1>3. CASE ~PointGranted(root[key], ts, is_read)
  BY <1>3, FrozenSame
    DEF tryLock, TableInv, TypeOK, TablesTile, recordVars, threadVars
<1> QED
  BY <1>2, <1>3

\* The requests collected at a key are requests.
LEMMA FireType ==
    ASSUME TableInv, NEW th \in Threads, NEW key \in Keys, NEW ends \in SUBSET TS,
           Fire(th, key, ends)
    PROVE  fired' \in [Threads -> SUBSET Request]
<1>1. {<<x, key>> : x \in UNION {events[key][t] : t \in ends}} \subseteq Request
  BY DEF TableInv, TypeOK, Request
<1> QED
  BY <1>1 DEF Fire, TableInv, TypeOK

\* The ends whose events are fired are timestamps.
LEMMA EndsType ==
    ASSUME NEW tbl, GoodTable(tbl), NEW tid \in Tids, NEW i
    PROVE  FreezeEnds(tbl, tid, i) \subseteq TS /\ UnlockEnds(tbl, tid, i) \subseteq TS
BY DEF FreezeEnds, UnlockEnds, OwnedIn, GoodTable, IsTable, Node

\* Freezing a key keeps the tables well formed and what is frozen.
LEMMA TableFreeze ==
    ASSUME TableInv, NEW th \in Threads, NEW key \in Keys, freezeKey(th, key)
    PROVE  TableInv' /\ \A k \in Keys : FrozenKept(root[k], root'[k])
<1> DEFINE tid == arg[th]
           i   == intervals[tid][key]
           tbl == FreezeNodes(root[key], tid, i)
<1>1. tid \in Tids /\ GoodTable(root[key])
  BY GoodTables DEF TableInv, TypeOK
<1>2. todo' \in [Threads -> SUBSET Keys]
  BY DEF freezeKey, TableInv, TypeOK
<1>3. CASE key \in key_map
  <2>1. FreezeEffect(root[key], tbl, tid, i)
    BY <1>1, FreezeNodesEffect
  <2>2. GoodTable(tbl) /\ FrozenKept(root[key], tbl)
    BY <2>1 DEF FreezeEffect
  <2>3. fired' \in [Threads -> SUBSET Request]
    BY <1>1, <1>3, EndsType, FireType DEF freezeKey
  <2>4. /\ root' = [root EXCEPT ![key] = tbl]
        /\ UNCHANGED <<key_map, events, recordVars, pc, arg, historyVars>>
    BY <1>3 DEF freezeKey
  <2> HIDE DEF tid, i, tbl
  <2>5. /\ root' \in [Keys -> {root'[k] : k \in Keys}]
        /\ \A k \in Keys : IsTable(root'[k])
        /\ TablesTile'
        /\ root'[key] = tbl /\ \A k \in Keys \ {key} : root'[k] = root[k]
    BY <2>2, <2>4, RootStep
  <2>6. TypeOK'
    BY <1>2, <2>3, <2>4, <2>5 DEF TableInv, TypeOK, recordVars, historyVars
  <2> QED
    BY <2>2, <2>5, <2>6, FrozenSame DEF TableInv
<1>4. CASE key \notin key_map
  BY <1>2, <1>4, FrozenSame
    DEF freezeKey, TableInv, TypeOK, TablesTile, recordVars, historyVars
<1> QED
  BY <1>3, <1>4

\* Unlocking a key keeps the tables well formed and what is frozen.
LEMMA TableUnlock ==
    ASSUME TableInv, NEW th \in Threads, NEW key \in Keys, unlockKey(th, key)
    PROVE  TableInv' /\ \A k \in Keys : FrozenKept(root[k], root'[k])
<1> DEFINE tid == arg[th]
           i   == intervals[tid][key]
           tbl == UnlockNodes(root[key], tid, i)
<1>1. tid \in Tids /\ GoodTable(root[key])
  BY GoodTables DEF TableInv, TypeOK
<1>2. /\ todo' \in [Threads -> SUBSET Keys]
      /\ covered' \in [Tids -> [Keys -> SUBSET TS]]
  <2>1. covered \in [Tids -> [Keys -> SUBSET TS]] /\ {} \in SUBSET TS
    BY DEF TableInv, TypeOK
  <2>2. [covered EXCEPT ![tid][key] = {}] \in [Tids -> [Keys -> SUBSET TS]]
    BY <1>1, <2>1, Update2
  <2> QED
    BY <2>2 DEF unlockKey, TableInv, TypeOK
<1>3. CASE key \in key_map
  <2>1. UnlockEffect(root[key], tbl, tid, i)
    BY <1>1, UnlockNodesEffect
  <2>2. GoodTable(tbl) /\ FrozenKept(root[key], tbl)
    BY <2>1 DEF UnlockEffect
  <2>3. fired' \in [Threads -> SUBSET Request]
    BY <1>1, <1>3, EndsType, FireType DEF unlockKey
  <2>4. /\ root' = [root EXCEPT ![key] = tbl]
        /\ UNCHANGED <<key_map, events, recordVars, pc, arg, waiting, finished>>
    BY <1>3 DEF unlockKey
  <2> HIDE DEF tid, i, tbl
  <2>5. /\ root' \in [Keys -> {root'[k] : k \in Keys}]
        /\ \A k \in Keys : IsTable(root'[k])
        /\ TablesTile'
        /\ root'[key] = tbl /\ \A k \in Keys \ {key} : root'[k] = root[k]
    BY <2>2, <2>4, RootStep
  <2>6. TypeOK'
    BY <1>2, <2>3, <2>4, <2>5 DEF TableInv, TypeOK, recordVars
  <2> QED
    BY <2>2, <2>5, <2>6, FrozenSame DEF TableInv
<1>4. CASE key \notin key_map
  BY <1>2, <1>4, FrozenSame
    DEF unlockKey, TableInv, TypeOK, TablesTile, recordVars
<1> QED
  BY <1>3, <1>4

\* The start of freeze and unlock leaves the tables alone.
LEMMA TableBegin ==
    ASSUME TableInv, NEW th \in Threads, NEW tid \in Tids,
           beginFreeze(th, tid) \/ beginUnlock(th, tid)
    PROVE  TableInv' /\ root' = root
<1>1. PICK step \in {"freeze", "unlock"} : Begin(th, tid, step)
  BY DEF beginFreeze, beginUnlock
<1>2. /\ pc' \in [Threads -> {"idle", "freeze", "unlock", "delete", "run"}]
      /\ arg' \in [Threads -> Tids]
      /\ todo' \in [Threads -> SUBSET Keys]
      /\ finished' \subseteq Tids
  <2>1. finished' \subseteq Tids
    BY <1>1 DEF Begin, TableInv, TypeOK
  <2>2. CASE tid \in transaction_map
    <3>1. /\ pc' = [pc EXCEPT ![th] = step]
          /\ arg' = [arg EXCEPT ![th] = tid]
          /\ todo' = [todo EXCEPT ![th] = {k \in Keys : intervals[tid][k] # NoInterval}]
      BY <1>1, <2>2 DEF Begin
    <3>2. pc' \in [Threads -> {"idle", "freeze", "unlock", "delete", "run"}]
      BY <3>1 DEF TableInv, TypeOK
    <3>3. arg' \in [Threads -> Tids]
      BY <3>1 DEF TableInv, TypeOK
    <3>4. todo' \in [Threads -> SUBSET Keys]
      BY <3>1 DEF TableInv, TypeOK
    <3> QED
      BY <2>1, <3>2, <3>3, <3>4
  <2>3. CASE tid \notin transaction_map
    BY <1>1, <2>1, <2>3 DEF Begin, TableInv, TypeOK
  <2> QED
    BY <2>2, <2>3
<1> QED
  BY <1>1, <1>2 DEF Begin, TableInv, TypeOK, TablesTile, tableVars, recordVars

\* Every step keeps types, the partition of time, and what is frozen.
LEMMA TableStep ==
    ASSUME TableInv, [Next]_vars
    PROVE  TableInv' /\ \A k \in Keys : FrozenKept(root[k], root'[k])
<1>1. ASSUME NEW key \in Keys, NEW tid \in Tids, Lock(key, tid)
      PROVE  TableInv' /\ \A k \in Keys : FrozenKept(root[k], root'[k])
  BY <1>1, TableBackward, TablePoint DEF Lock
<1>2. ASSUME NEW th \in Threads, Finish(th)
      PROVE  TableInv' /\ \A k \in Keys : FrozenKept(root[k], root'[k])
  <2>1. CASE \E tid \in Tids :
               Active(tid) /\ (beginFreeze(th, tid) \/ beginUnlock(th, tid))
    BY <2>1, TableBegin, FrozenSame
  <2>2. CASE \E key \in Keys : freezeKey(th, key) \/ unlockKey(th, key)
    BY <2>2, TableFreeze, TableUnlock
  <2>3. CASE clearIntervals(th)
    <3>1. NoInterval \in Interval
      BY MaxTsAssumption DEF NoInterval, Interval, TS
    <3> QED
      BY <2>3, <3>1, FrozenSame
        DEF clearIntervals, TableInv, TypeOK, TablesTile, tableVars, historyVars
  <2>4. CASE deleteTransactionInfo(th)
    BY <2>4, FrozenSame
      DEF deleteTransactionInfo, TableInv, TypeOK, TablesTile, tableVars, historyVars
  <2>5. CASE \E request \in Request : runEvent(th, request)
    BY <2>5, FrozenSame DEF runEvent, TableInv, TypeOK, TablesTile, tableVars, recordVars
  <2>6. CASE return(th)
    BY <2>6, FrozenSame
      DEF return, TableInv, TypeOK, TablesTile, tableVars, recordVars, historyVars
  <2> QED
    BY <1>2, <2>1, <2>2, <2>3, <2>4, <2>5, <2>6 DEF Finish
<1>3. CASE UNCHANGED vars
  BY <1>3, FrozenSame
    DEF vars, TableInv, TypeOK, TablesTile, tableVars, recordVars, threadVars, historyVars
<1> QED
  BY <1>1, <1>2, <1>3 DEF Next

\* Every variable keeps its type in every execution of the lock manager.
THEOREM TypeCorrect == Spec => []TypeOK
<1>1. TableInv /\ [Next]_vars => TableInv'
  BY TableStep
<1>2. TableInv => TypeOK
  BY DEF TableInv
<1> QED
  BY TableInit, <1>1, <1>2, PTL DEF Spec

\* The nodes of every key partition time, whatever is locked, frozen or released,
\* and time 0 stays frozen: find always finds a node and every walk ends.
THEOREM TimePartitioned == Spec => []TablesTile
<1>1. TableInv /\ [Next]_vars => TableInv'
  BY TableStep
<1>2. TableInv => TablesTile
  BY DEF TableInv
<1> QED
  BY TableInit, <1>1, <1>2, PTL DEF Spec

\* What a commit froze no step ever changes, at any timestamp of any key.
THEOREM FrozenIsForever == Spec => FrozenForever
<1> DEFINE Kept == \A k \in Keys, t \in TS :
              Frozen(StatusAt(root[k], t)) => StatusAt(root'[k], t) = StatusAt(root[k], t)
<1>1. TableInv /\ [Next]_vars => TableInv' /\ Kept
  BY TableStep DEF FrozenKept
<1> QED
  BY TableInit, <1>1, PTL DEF Spec, FrozenForever

-----------------------------------------------------------------------------
(* Ownership, read protection and wakeups                                   *)

\* A transaction is frozen or unlocked once, by one thread.
OneWalker ==
    /\ \A th \in Threads : Walking(th) \/ pc[th] = "delete" => arg[th] \in finished
    /\ \A th, other \in Threads :
          Walking(th) /\ Walking(other) /\ arg[th] = arg[other] => th = other

\* The inductive invariant.
LockInv ==
    /\ TableInv
    /\ ExclusiveOwners
    /\ LocksRecorded
    /\ ReadProtected
    /\ NoLostWakeup
    /\ OneWalker

\* The inductive invariant holds of an empty lock manager.
LEMMA LockInit == Init => LockInv
<1> SUFFICES ASSUME Init PROVE LockInv
  OBVIOUS
<1>1. TableInv
  BY TableInit
<1>2. \A k \in Keys : \A s \in DOMAIN root[k] :
          root[k][s].tids = {} /\ ~Locked(root[k][s])
  BY DEF Init, InitialTable, Locked
<1>3. ExclusiveOwners
  BY <1>2 DEF ExclusiveOwners, ExclusiveNode, Locked
<1>4. LocksRecorded
  BY <1>2 DEF LocksRecorded
<1>5. ReadProtected /\ NoLostWakeup /\ OneWalker
  BY DEF Init, ReadProtected, NoLostWakeup, OneWalker, Walking
<1> QED
  BY <1>1, <1>3, <1>4, <1>5 DEF LockInv

\* What tryBackwardLock and tryLock keep: they grant tid pieces inside lo .. hi of
\* a key and record that interval.
LEMMA GrantStep ==
    ASSUME LockInv, NEW key \in Keys, NEW tid \in Tids, NEW lo \in TS, NEW hi \in TS,
           NEW is_read \in BOOLEAN, NEW tbl,
           GrantOf(root[key], tbl, tid, lo, hi, is_read),
           Active(tid) \/ (Reruns /\ is_read), CanRecord(tid),
           root' = [root EXCEPT ![key] = tbl], key_map' = key_map \cup {key},
           addTransactionLock(tid, key, lo, hi), UNCHANGED <<threadVars, finished>>
    PROVE  /\ ExclusiveOwners' /\ LocksRecorded' /\ OneWalker'
           /\ root'[key] = tbl
           /\ \A k \in Keys : /\ LockedEndsKept(root[k], root'[k])
                              /\ \A x \in Tids, t \in TS :
                                    ReadCovered(root[k], x, t) => ReadCovered(root'[k], x, t)
<1> USE DEF LockInv
<1>1. GoodTable(root[key])
  BY GoodTables
<1>2. GoodTable(tbl) /\ FrozenKept(root[key], tbl) /\ ReadersKept(root[key], tbl)
  BY <1>1, GrantKeeps
<1>3. \A s \in DOMAIN root[key] : ExclusiveNode(root[key][s])
  BY DEF ExclusiveOwners
<1>4. /\ \A s \in DOMAIN tbl : ExclusiveNode(tbl[s])
      /\ OwnersKept(root[key], tbl, tid, lo, hi, LockedStatus(is_read))
      /\ LockedEndsKept(root[key], tbl)
  BY <1>1, <1>3, GrantOwners
<1>5. root'[key] = tbl /\ \A k \in Keys \ {key} : root'[k] = root[k]
  BY <1>2, RootStep
<1>6. ExclusiveOwners'
  BY <1>4, <1>5 DEF ExclusiveOwners
<1>7. OneWalker'
  BY DEF OneWalker, Walking, threadVars
<1>8. /\ transaction_map' = transaction_map \cup {tid}
      /\ intervals' \in [Tids -> [Keys -> Interval]]
      /\ intervals'[tid][key].lo <= intervals[tid][key].lo
      /\ intervals'[tid][key].lo <= lo
      /\ intervals[tid][key].hi <= intervals'[tid][key].hi
      /\ hi <= intervals'[tid][key].hi
      /\ \A x \in Tids, k \in Keys :
            x # tid \/ k # key => intervals'[x][k] = intervals[x][k]
  BY RecordType
<1>9. LocksRecorded'
  <2> SUFFICES ASSUME NEW k \in Keys, NEW s \in DOMAIN root'[k], NEW x \in root'[k][s].tids
               PROVE  \/ Late(x, root[k][s])'
                      \/ /\ k \in key_map'
                         /\ x \in transaction_map'
                         /\ intervals'[x][k].lo <= s /\ root'[k][s].end <= intervals'[x][k].hi
                         /\ x \in finished' =>
                               \E th \in Threads :
                                   Walking(th)' /\ arg'[th] = x /\ k \in todo'[th]
    BY DEF LocksRecorded
  <2>1. CASE k # key
    <3>1. root'[k] = root[k]
      BY <1>5, <2>1
    <3>2. x \in Tids
      BY <3>1, GoodTables DEF GoodTable, IsTable, Node
    <3> QED
      BY <1>8, <2>1, <3>1, <3>2 DEF LocksRecorded, Late, Walking, threadVars
  <2>2. CASE k = key
    <3>1. s \in DOMAIN tbl /\ x \in tbl[s].tids /\ root'[k] = tbl
      BY <1>5, <2>2
    <3>2. x \in Tids /\ s \in Int /\ tbl[s].end \in Int
      BY <1>2, <3>1, MaxTsAssumption DEF GoodTable, IsTable, Node, TS
    <3>3. /\ intervals'[x][key].lo \in Int /\ intervals'[x][key].hi \in Int
          /\ intervals[x][key].lo \in Int /\ intervals[x][key].hi \in Int
          /\ lo \in Int /\ hi \in Int
      BY <1>8, <3>2, MaxTsAssumption DEF TableInv, TypeOK, Interval, TS
    <3>4. CASE /\ x = tid /\ lo <= s /\ tbl[s].end <= hi
               /\ tbl[s].status = LockedStatus(is_read)
      <4>1. intervals'[x][key].lo <= s /\ tbl[s].end <= intervals'[x][key].hi
        BY <1>8, <3>2, <3>3, <3>4
      <4>2. CASE Active(tid)
        <5>1. x \notin finished'
          BY <3>4, <4>2 DEF Active
        <5> QED
          BY <1>8, <2>2, <3>1, <3>4, <4>1, <5>1
      <4>3. CASE Reruns /\ is_read /\ tid \in finished
        <5>1. Late(x, tbl[s])'
          BY <3>4, <4>3 DEF Late, LockedStatus, CanRecord, Walking, threadVars
        <5> QED
          BY <2>2, <3>1, <5>1
      <4>4. CASE Reruns /\ is_read /\ tid \notin finished
        BY <1>8, <2>2, <3>1, <3>4, <4>1, <4>4
      <4> QED
        BY <4>2, <4>3, <4>4
    <3>5. CASE \E r \in DOMAIN root[key] :
                  /\ x \in root[key][r].tids /\ r <= s /\ tbl[s].end <= root[key][r].end
                  /\ tbl[s].status = root[key][r].status
      <4>1. PICK r \in DOMAIN root[key] :
                  /\ x \in root[key][r].tids /\ r <= s /\ tbl[s].end <= root[key][r].end
                  /\ tbl[s].status = root[key][r].status
        BY <3>5
      <4>2. r \in Int /\ root[key][r].end \in Int
        BY <1>1, MaxTsAssumption DEF GoodTable, IsTable, Node, TS
      <4>3. CASE Late(x, root[key][r])
        <5>1. Late(x, tbl[s])'
          BY <4>1, <4>3 DEF Late, Walking, threadVars
        <5> QED
          BY <2>2, <3>1, <5>1
      <4>4. CASE ~Late(x, root[key][r])
        <5>1. /\ x \in transaction_map
              /\ intervals[x][key].lo <= r /\ root[key][r].end <= intervals[x][key].hi
              /\ x \in finished =>
                    \E th \in Threads : Walking(th) /\ arg[th] = x /\ key \in todo[th]
          BY <4>1, <4>4 DEF LocksRecorded
        <5>2. /\ intervals'[x][key].lo <= intervals[x][key].lo
              /\ intervals[x][key].hi <= intervals'[x][key].hi
          <6>1. CASE x = tid
            BY <1>8, <6>1
          <6>2. CASE x # tid
            BY <1>8, <3>2, <3>3, <6>2
          <6> QED
            BY <6>1, <6>2
        <5>3. intervals'[x][key].lo <= s /\ tbl[s].end <= intervals'[x][key].hi
          BY <3>2, <3>3, <4>1, <4>2, <5>1, <5>2
        <5> QED
          BY <1>8, <2>2, <3>1, <5>1, <5>3 DEF Walking, threadVars
      <4> QED
        BY <4>3, <4>4
    <3> QED
      BY <1>4, <3>1, <3>4, <3>5 DEF OwnersKept
  <2> QED
    BY <2>1, <2>2
<1>10. ASSUME NEW k \in Keys
       PROVE  /\ LockedEndsKept(root[k], root'[k])
              /\ \A x \in Tids, t \in TS :
                    ReadCovered(root[k], x, t) => ReadCovered(root'[k], x, t)
  <2>1. CASE k # key
    BY <1>5, <2>1 DEF LockedEndsKept
  <2>2. CASE k = key
    BY <1>2, <1>4, <1>5, <2>2 DEF ReadCovered, FrozenKept, ReadersKept, Frozen
  <2> QED
    BY <2>1, <2>2
<1> QED
  BY <1>5, <1>6, <1>7, <1>9, <1>10

\* tryBackwardLock keeps the inductive invariant.
LEMMA LockBackward ==
    ASSUME LockInv, NEW key \in Keys, NEW tid \in Tids, NEW ts \in Times,
           NEW is_read \in BackwardModes, Active(tid) \/ (Reruns /\ is_read),
           tryBackwardLock(key, tid, ts, is_read)
    PROVE  LockInv'
<1> DEFINE start == BackwardStart(root[key], ts, is_read)
           stop  == BackwardStop(root[key], ts, is_read)
           tbl   == BackwardLock(root[key], tid, ts, is_read)
<1>0. TableInv'
  BY TableBackward DEF LockInv
<1>1. ts \in TS /\ is_read \in BOOLEAN
  BY TimesType, ManagerAssumption
<1>2. BackwardEffect(root[key], tbl, tid, ts, is_read)
  BY <1>1, GoodTables, BackwardLockEffect DEF LockInv
<1>3. /\ GrantOf(root[key], tbl, tid, start, ts, is_read)
      /\ start \in TS /\ stop.end \in TS
      /\ is_read => \A u \in start .. ts : ReadCovered(tbl, tid, u)
      /\ ~BackwardGranted(root[key], ts, is_read) =>
            \E s \in DOMAIN tbl : tbl[s].end = stop.end /\ Locked(tbl[s])
  BY <1>1, <1>2, TimesType, MaxTsAssumption DEF BackwardEffect, TS
<1>4. /\ CanRecord(tid)
      /\ root' = [root EXCEPT ![key] = tbl]
      /\ key_map' = key_map \cup {key}
      /\ addTransactionLock(tid, key, start, ts)
      /\ \/ UNCHANGED <<events, waiting>>
         \/ /\ ~BackwardGranted(root[key], ts, is_read)
            /\ events' = [events EXCEPT ![key][stop.end] = @ \cup {tid}]
            /\ waiting' = waiting \cup {<<tid, key>>}
      /\ \/ covered' = covered
         \/ is_read /\ covered' = [covered EXCEPT ![tid][key] = @ \cup (start .. ts)]
      /\ UNCHANGED <<threadVars, finished>>
  BY DEF tryBackwardLock, addEvent
<1> HIDE DEF start, stop, tbl
<1>5. /\ ExclusiveOwners' /\ LocksRecorded' /\ OneWalker'
      /\ root'[key] = tbl
      /\ \A k \in Keys : /\ LockedEndsKept(root[k], root'[k])
                         /\ \A x \in Tids, t \in TS :
                               ReadCovered(root[k], x, t) => ReadCovered(root'[k], x, t)
  BY <1>1, <1>3, <1>4, GrantStep
<1>6. ReadProtected'
  <2> SUFFICES ASSUME NEW x \in Tids, NEW k \in Keys, NEW t \in covered'[x][k]
               PROVE  ReadCovered(root'[k], x, t)
    BY DEF ReadProtected
  <2>1. CASE t \in covered[x][k]
    <3>1. t \in TS
      BY <2>1 DEF LockInv, TableInv, TypeOK
    <3> QED
      BY <1>5, <2>1, <3>1 DEF LockInv, ReadProtected
  <2>2. CASE t \notin covered[x][k]
    <3>1. is_read /\ x = tid /\ k = key /\ t \in start .. ts
      BY <1>4, <2>2 DEF LockInv, TableInv, TypeOK
    <3> QED
      BY <1>3, <1>5, <3>1
  <2> QED
    BY <2>1, <2>2
<1>7. NoLostWakeup'
  <2> SUFFICES ASSUME NEW x \in Tids, NEW k \in Keys, <<x, k>> \in waiting'
               PROVE  \/ \E s \in DOMAIN root'[k] :
                            x \in events'[k][root'[k][s].end] /\ Locked(root'[k][s])
                      \/ \E th \in Threads : <<x, k>> \in fired'[th]
    BY DEF NoLostWakeup
  <2>0. \A t \in TS : events[k][t] \subseteq events'[k][t]
    <3>1. events \in [Keys -> [TS -> SUBSET Tids]]
      BY DEF LockInv, TableInv, TypeOK
    <3>2. CASE UNCHANGED events
      BY <3>2
    <3>3. CASE events' = [events EXCEPT ![key][stop.end] = @ \cup {tid}]
      BY <1>3, <3>1, <3>3
    <3> QED
      BY <1>4, <3>2, <3>3
  <2>1. CASE <<x, k>> \in waiting
    <3>1. CASE \E th \in Threads : <<x, k>> \in fired[th]
      BY <1>4, <3>1 DEF threadVars
    <3>2. CASE \E r \in DOMAIN root[k] :
                  x \in events[k][root[k][r].end] /\ Locked(root[k][r])
      <4>1. PICK r \in DOMAIN root[k] :
                  x \in events[k][root[k][r].end] /\ Locked(root[k][r])
        BY <3>2
      <4>2. PICK s \in DOMAIN root'[k] :
                  root'[k][s].end = root[k][r].end /\ Locked(root'[k][s])
        BY <1>5, <4>1 DEF LockedEndsKept
      <4>3. root[k][r].end \in TS
        BY DEF LockInv, TableInv, TypeOK, IsTable, Node
      <4> QED
        BY <2>0, <4>1, <4>2, <4>3
    <3> QED
      BY <2>1, <3>1, <3>2 DEF LockInv, NoLostWakeup
  <2>2. CASE <<x, k>> \notin waiting
    <3>1. /\ x = tid /\ k = key /\ ~BackwardGranted(root[key], ts, is_read)
          /\ events' = [events EXCEPT ![key][stop.end] = @ \cup {tid}]
      BY <1>4, <2>2
    <3>2. PICK s \in DOMAIN tbl : tbl[s].end = stop.end /\ Locked(tbl[s])
      BY <1>3, <3>1
    <3>3. tid \in events'[key][stop.end]
      BY <1>3, <3>1 DEF LockInv, TableInv, TypeOK
    <3> QED
      BY <1>5, <3>1, <3>2, <3>3
  <2> QED
    BY <2>1, <2>2
<1> QED
  BY <1>0, <1>5, <1>6, <1>7 DEF LockInv

\* tryLock keeps the inductive invariant.
LEMMA LockPoint ==
    ASSUME LockInv, NEW key \in Keys, NEW tid \in Tids, NEW ts \in Times,
           NEW is_read \in PointModes, Active(tid),
           tryLock(key, tid, ts, is_read)
    PROVE  LockInv'
<1> DEFINE tbl == PointLock(root[key], tid, ts, is_read)
<1>0. TableInv'
  BY TablePoint DEF LockInv
<1>1. ts \in TS /\ is_read \in BOOLEAN
  BY TimesType, ManagerAssumption
<1>2. CASE PointGranted(root[key], ts, is_read)
  <2>1. PointEffect(root[key], tbl, tid, ts, is_read)
    BY <1>1, <1>2, GoodTables, PointLockEffect DEF LockInv
  <2>2. /\ GrantOf(root[key], tbl, tid, ts, ts, is_read)
        /\ is_read => ReadCovered(tbl, tid, ts)
    BY <2>1 DEF PointEffect
  <2>3. /\ Active(tid)
        /\ root' = [root EXCEPT ![key] = tbl]
        /\ key_map' = key_map \cup {key}
        /\ addTransactionLock(tid, key, ts, ts)
        /\ \/ covered' = covered
           \/ is_read /\ covered' = [covered EXCEPT ![tid][key] = @ \cup {ts}]
        /\ UNCHANGED <<events, threadVars, waiting, finished>>
    BY <1>2 DEF tryLock
  <2>0. CanRecord(tid)
    BY <1>2 DEF tryLock
  <2> HIDE DEF tbl
  <2>4. /\ ExclusiveOwners' /\ LocksRecorded' /\ OneWalker'
        /\ root'[key] = tbl
        /\ \A k \in Keys : /\ LockedEndsKept(root[k], root'[k])
                           /\ \A x \in Tids, t \in TS :
                                 ReadCovered(root[k], x, t) => ReadCovered(root'[k], x, t)
    BY <1>1, <2>0, <2>2, <2>3, GrantStep
  <2>5. ReadProtected'
    <3> SUFFICES ASSUME NEW x \in Tids, NEW k \in Keys, NEW t \in covered'[x][k]
                 PROVE  ReadCovered(root'[k], x, t)
      BY DEF ReadProtected
    <3>1. CASE t \in covered[x][k]
      <4>1. t \in TS
        BY <3>1 DEF LockInv, TableInv, TypeOK
      <4> QED
        BY <2>4, <3>1, <4>1 DEF LockInv, ReadProtected
    <3>2. CASE t \notin covered[x][k]
      <4>1. is_read /\ x = tid /\ k = key /\ t = ts
        BY <2>3, <3>2 DEF LockInv, TableInv, TypeOK
      <4> QED
        BY <2>2, <2>4, <4>1
    <3> QED
      BY <3>1, <3>2
  <2>6. NoLostWakeup'
    <3> SUFFICES ASSUME NEW x \in Tids, NEW k \in Keys, <<x, k>> \in waiting,
                        ~\E th \in Threads : <<x, k>> \in fired[th]
                 PROVE  \E s \in DOMAIN root'[k] :
                            x \in events[k][root'[k][s].end] /\ Locked(root'[k][s])
      BY <2>3 DEF NoLostWakeup, threadVars
    <3>1. PICK r \in DOMAIN root[k] :
                x \in events[k][root[k][r].end] /\ Locked(root[k][r])
      BY DEF LockInv, NoLostWakeup
    <3>2. PICK s \in DOMAIN root'[k] :
                root'[k][s].end = root[k][r].end /\ Locked(root'[k][s])
      BY <2>4, <3>1 DEF LockedEndsKept
    <3> QED
      BY <3>1, <3>2
  <2> QED
    BY <1>0, <2>4, <2>5, <2>6 DEF LockInv
<1>3. CASE ~PointGranted(root[key], ts, is_read)
  BY <1>0, <1>3
    DEF tryLock, LockInv, ExclusiveOwners, LocksRecorded, Late, ReadProtected, NoLostWakeup,
        OneWalker, Walking, recordVars, threadVars
<1> QED
  BY <1>2, <1>3

\* freeze and unlock visit every node of the transaction on the key.
LEMMA OwnedVisited ==
    ASSUME LockInv, NEW key \in Keys, NEW th \in Threads, Walking(th),
           NEW s \in DOMAIN root[key], arg[th] \in root[key][s].tids
    PROVE  s \in OwnedIn(root[key], arg[th], intervals[arg[th]][key])
<1> DEFINE tid == arg[th]
           i == intervals[tid][key]
           n == root[key][s]
<1>0. tid \in Tids
  BY DEF LockInv, TableInv, TypeOK
<1>1. i.lo <= s /\ n.end <= i.hi
  BY DEF LockInv, LocksRecorded, Late
<1>2. s <= n.end
  BY DEF LockInv, TableInv, TablesTile, Tiles
<1>3. s \in Int /\ n.end \in Int /\ i.lo \in Int /\ i.hi \in Int
  BY <1>0, MaxTsAssumption DEF LockInv, TableInv, TypeOK, IsTable, Node, Interval, TS
<1>4. Locked(n)
  BY DEF LockInv, ExclusiveOwners, ExclusiveNode, Locked
<1>5. i.lo <= i.hi /\ s <= i.hi /\ i.lo <= n.end
  BY <1>1, <1>2, <1>3
<1> QED
  BY <1>4, <1>5 DEF OwnedIn, Locked

\* Taking the next key of arg[th] away from its owners keeps every lock recorded:
\* arg[th] owns nothing there any more, and no other owner changes.
LEMMA FinishKeyStep ==
    ASSUME LockInv, NEW th \in Threads, NEW key \in Keys, NEW tbl, SameShape(root[key], tbl),
           Walking(th), key \in todo[th],
           root' = [root EXCEPT ![key] = tbl],
           todo' = [todo EXCEPT ![th] = @ \ {key}],
           UNCHANGED <<key_map, recordVars, pc, arg, finished>>,
           \A s \in DOMAIN root[key] :
               /\ tbl[s].tids \subseteq root[key][s].tids \ {arg[th]}
               /\ tbl[s].tids # {} => tbl[s].status = root[key][s].status
    PROVE  LocksRecorded' /\ OneWalker'
<1> USE DEF LockInv
<1>1. root'[key] = tbl /\ \A k \in Keys \ {key} : root'[k] = root[k]
  BY DEF TableInv, TypeOK
<1>2. todo'[th] = todo[th] \ {key} /\ \A o \in Threads \ {th} : todo'[o] = todo[o]
  BY DEF TableInv, TypeOK
<1>3. OneWalker'
  BY DEF OneWalker, Walking
<1>4. LocksRecorded'
  <2> SUFFICES ASSUME NEW k \in Keys, NEW s \in DOMAIN root'[k], NEW x \in root'[k][s].tids,
                      ~Late(x, root[k][s])
               PROVE  /\ k \in key_map
                      /\ x \in transaction_map
                      /\ intervals[x][k].lo <= s /\ root'[k][s].end <= intervals[x][k].hi
                      /\ x \in finished =>
                            \E o \in Threads :
                                Walking(o) /\ arg[o] = x /\ k \in todo'[o]
    <3>1. ASSUME NEW k \in Keys, NEW s \in DOMAIN root'[k], NEW x \in root'[k][s].tids,
                 Late(x, root[k][s])
          PROVE  Late(x, root[k][s])'
      <4>1. root'[k][s].status = root[k][s].status
        BY <1>1 DEF SameShape
      <4> QED
        BY <3>1, <4>1 DEF Late, Walking
    <3> QED
      BY <3>1 DEF LocksRecorded, Walking, recordVars
  <2>1. /\ s \in DOMAIN root[k] /\ x \in root[k][s].tids
        /\ root'[k][s].end = root[k][s].end
        /\ k = key => x # arg[th]
    <3>1. CASE k = key
      BY <1>1, <3>1 DEF SameShape
    <3>2. CASE k # key
      BY <1>1, <3>2
    <3> QED
      BY <3>1, <3>2
  <2>2. /\ k \in key_map
        /\ x \in transaction_map
        /\ intervals[x][k].lo <= s /\ root[k][s].end <= intervals[x][k].hi
        /\ x \in finished =>
              \E o \in Threads : Walking(o) /\ arg[o] = x /\ k \in todo[o]
    BY <2>1 DEF LocksRecorded
  <2>3. ASSUME NEW o \in Threads, Walking(o), arg[o] = x, k \in todo[o]
        PROVE  k \in todo'[o]
    BY <1>2, <2>1, <2>3
  <2> QED
    BY <2>1, <2>2, <2>3
<1> QED
  BY <1>3, <1>4

\* A request that waits at a node keeps its lock or is collected.
LEMMA WakeupStep ==
    ASSUME LockInv, NEW th \in Threads, NEW key \in Keys, NEW tbl, SameShape(root[key], tbl),
           NEW O \in SUBSET DOMAIN root[key], NEW ends,
           root' = [root EXCEPT ![key] = tbl],
           \A s \in DOMAIN root[key] \ O : tbl[s] = root[key][s],
           \A s \in O : root[key][s].end \in ends,
           Fire(th, key, ends), UNCHANGED <<events, waiting>>
    PROVE  NoLostWakeup'
<1> USE DEF LockInv
<1>1. root'[key] = tbl /\ \A k \in Keys \ {key} : root'[k] = root[k]
  BY DEF TableInv, TypeOK
<1>2. /\ \A o \in Threads : fired[o] \subseteq fired'[o]
      /\ \A t \in ends : \A x \in events[key][t] : <<x, key>> \in fired'[th]
  BY DEF Fire, TableInv, TypeOK
<1> SUFFICES ASSUME NEW x \in Tids, NEW k \in Keys, <<x, k>> \in waiting,
                    ~\E o \in Threads : <<x, k>> \in fired'[o]
             PROVE  \E s \in DOMAIN root'[k] :
                        x \in events[k][root'[k][s].end] /\ Locked(root'[k][s])
  BY DEF NoLostWakeup
<1>3. PICK s \in DOMAIN root[k] : x \in events[k][root[k][s].end] /\ Locked(root[k][s])
  BY <1>2 DEF NoLostWakeup
<1>4. k = key => s \notin O
  BY <1>2, <1>3
<1> QED
  BY <1>1, <1>3, <1>4 DEF SameShape

\* Freezing a key keeps the inductive invariant.
LEMMA LockFreeze ==
    ASSUME LockInv, NEW th \in Threads, NEW key \in Keys, freezeKey(th, key)
    PROVE  LockInv'
<1> DEFINE tid == arg[th]
           i   == intervals[tid][key]
           tbl == FreezeNodes(root[key], tid, i)
           O   == OwnedIn(root[key], tid, i)
<1>0. TableInv'
  BY TableFreeze DEF LockInv
<1>1. tid \in Tids /\ GoodTable(root[key]) /\ Walking(th) /\ key \in todo[th]
  BY GoodTables DEF LockInv, TableInv, TypeOK, freezeKey, NextKey, Walking
<1>2. /\ todo' = [todo EXCEPT ![th] = @ \ {key}]
      /\ UNCHANGED <<key_map, events, recordVars, pc, arg, historyVars>>
  BY DEF freezeKey
<1>3. FreezeEffect(root[key], tbl, tid, i)
  BY <1>1, FreezeNodesEffect
<1>4. O \in SUBSET DOMAIN root[key]
  BY DEF OwnedIn
<1>5. CASE key \in key_map
  <2>1. root' = [root EXCEPT ![key] = tbl] /\ Fire(th, key, FreezeEnds(root[key], tid, i))
    BY <1>5 DEF freezeKey
  <2>2. \A s \in O : root[key][s].end \in FreezeEnds(root[key], tid, i)
    BY DEF FreezeEnds
  <2>3. \A s \in DOMAIN root[key] : tid \in root[key][s].tids => s \in O
    BY <1>1, OwnedVisited
  <2>4. /\ SameShape(root[key], tbl)
        /\ \A s \in O : Frozen(tbl[s].status) /\ tbl[s].tids = {}
        /\ \A s \in DOMAIN root[key] \ O : tbl[s] = root[key][s]
        /\ \A x \in Tids, t \in TS : ReadCovered(root[key], x, t) => ReadCovered(tbl, x, t)
    BY <1>3 DEF FreezeEffect
  <2> DEFINE ends == FreezeEnds(root[key], tid, i)
  <2> HIDE DEF tbl, O, i, ends
  <2>5. \A s \in DOMAIN root[key] :
            /\ tbl[s].tids \subseteq root[key][s].tids \ {tid}
            /\ tbl[s].tids # {} => tbl[s].status = root[key][s].status
    BY <1>4, <2>3, <2>4
  <2>6. LocksRecorded' /\ OneWalker'
    BY <1>1, <1>2, <2>1, <2>4, <2>5, FinishKeyStep DEF historyVars
  <2>7. NoLostWakeup'
    <3>1. Fire(th, key, ends) /\ \A s \in O : root[key][s].end \in ends
      BY <2>1, <2>2 DEF ends
    <3> QED
      BY <1>2, <1>4, <2>1, <2>4, <3>1, WakeupStep DEF historyVars
  <2>8. root'[key] = tbl /\ \A k \in Keys \ {key} : root'[k] = root[k]
    BY <2>1 DEF LockInv, TableInv, TypeOK
  <2>9. ExclusiveOwners'
    <3>1. \A s \in DOMAIN root[key] : ExclusiveNode(tbl[s])
      BY <2>4 DEF LockInv, ExclusiveOwners, ExclusiveNode, Frozen
    <3> QED
      BY <2>4, <2>8, <3>1 DEF LockInv, ExclusiveOwners, SameShape
  <2>10. ReadProtected'
    <3> SUFFICES ASSUME NEW x \in Tids, NEW k \in Keys, NEW t \in covered[x][k]
                 PROVE  ReadCovered(root'[k], x, t)
      BY <1>2 DEF ReadProtected, historyVars
    <3>1. t \in TS /\ ReadCovered(root[k], x, t)
      BY DEF LockInv, TableInv, TypeOK, ReadProtected
    <3> QED
      BY <2>4, <2>8, <3>1
  <2> QED
    BY <1>0, <2>6, <2>7, <2>9, <2>10 DEF LockInv
<1>6. CASE key \notin key_map
  <2>1. UNCHANGED <<root, fired>>
    BY <1>6 DEF freezeKey
  <2>3. todo'[th] = todo[th] \ {key} /\ \A o \in Threads \ {th} : todo'[o] = todo[o]
    BY <1>2 DEF LockInv, TableInv, TypeOK
  <2>4. LocksRecorded'
    <3>1. \A k \in Keys, o \in Threads : k # key /\ k \in todo[o] => k \in todo'[o]
      BY <2>3
    <3> QED
      BY <1>2, <1>6, <2>1, <3>1
        DEF LockInv, LocksRecorded, Late, Walking, recordVars, historyVars
  <2> QED
    BY <1>0, <1>2, <2>1, <2>4
      DEF LockInv, ExclusiveOwners, ReadProtected, NoLostWakeup, OneWalker, Walking, historyVars
<1> QED
  BY <1>5, <1>6

\* Unlocking a key whose locks are not shared keeps the inductive invariant.
LEMMA LockUnlock ==
    ASSUME LockInv, SharedUnlock = FALSE, NEW th \in Threads, NEW key \in Keys,
           unlockKey(th, key)
    PROVE  LockInv'
<1> DEFINE tid == arg[th]
           i   == intervals[tid][key]
           tbl == UnlockNodes(root[key], tid, i)
           O   == OwnedIn(root[key], tid, i)
<1>0. TableInv'
  BY TableUnlock DEF LockInv
<1>1. tid \in Tids /\ GoodTable(root[key]) /\ Walking(th) /\ key \in todo[th]
  BY GoodTables DEF LockInv, TableInv, TypeOK, unlockKey, NextKey, Walking
<1>2. /\ todo' = [todo EXCEPT ![th] = @ \ {key}]
      /\ covered' = [covered EXCEPT ![tid][key] = {}]
      /\ UNCHANGED <<key_map, events, recordVars, pc, arg, waiting, finished>>
  BY DEF unlockKey
<1>3. UnlockEffect(root[key], tbl, tid, i)
  BY <1>1, UnlockNodesEffect
<1>4. /\ O \in SUBSET DOMAIN root[key]
      /\ \A s \in O : root[key][s].tids = {tid}
  BY DEF OwnedIn, unlockKey, Unshared
<1>5. \A x \in Tids, k \in Keys :
          covered'[x][k] = IF x = tid /\ k = key THEN {} ELSE covered[x][k]
  BY <1>1, <1>2 DEF LockInv, TableInv, TypeOK
<1>6. CASE key \in key_map
  <2>1. root' = [root EXCEPT ![key] = tbl] /\ Fire(th, key, UnlockEnds(root[key], tid, i))
    BY <1>6 DEF unlockKey
  <2>2. \A s \in O : root[key][s].end \in UnlockEnds(root[key], tid, i)
    BY <1>4 DEF UnlockEnds
  <2>3. \A s \in DOMAIN root[key] : tid \in root[key][s].tids => s \in O
    BY <1>1, OwnedVisited
  <2>4. /\ SameShape(root[key], tbl) /\ FrozenKept(root[key], tbl)
        /\ \A t \in TS : StartOf(tbl, t) = StartOf(root[key], t)
        /\ \A s \in O : tbl[s].status = "FREE" /\ tbl[s].tids = root[key][s].tids \ {tid}
        /\ \A s \in DOMAIN root[key] \ O : tbl[s] = root[key][s]
    BY <1>3 DEF UnlockEffect
  <2> DEFINE ends == UnlockEnds(root[key], tid, i)
  <2> HIDE DEF tbl, O, i, ends
  <2>5. \A s \in DOMAIN root[key] :
            /\ tbl[s].tids \subseteq root[key][s].tids \ {tid}
            /\ tbl[s].tids # {} => tbl[s].status = root[key][s].status
    BY <1>4, <2>3, <2>4
  <2>6. LocksRecorded' /\ OneWalker'
    BY <1>1, <1>2, <2>1, <2>4, <2>5, FinishKeyStep
  <2>7. NoLostWakeup'
    <3>1. Fire(th, key, ends) /\ \A s \in O : root[key][s].end \in ends
      BY <2>1, <2>2 DEF ends
    <3> QED
      BY <1>2, <1>4, <2>1, <2>4, <3>1, WakeupStep
  <2>8. root'[key] = tbl /\ \A k \in Keys \ {key} : root'[k] = root[k]
    BY <2>1 DEF LockInv, TableInv, TypeOK
  <2>9. ExclusiveOwners'
    <3>1. \A s \in DOMAIN root[key] : ExclusiveNode(tbl[s])
      BY <1>4, <2>4 DEF LockInv, ExclusiveOwners, ExclusiveNode
    <3> QED
      BY <2>4, <2>8, <3>1 DEF LockInv, ExclusiveOwners, SameShape
  <2>10. ReadProtected'
    <3> SUFFICES ASSUME NEW x \in Tids, NEW k \in Keys, NEW t \in covered'[x][k]
                 PROVE  ReadCovered(root'[k], x, t)
      BY DEF ReadProtected
    <3>1. t \in covered[x][k] /\ ~(x = tid /\ k = key)
      BY <1>5
    <3>2. t \in TS /\ ReadCovered(root[k], x, t)
      BY <3>1 DEF LockInv, TableInv, TypeOK, ReadProtected
    <3>3. CASE k # key
      BY <2>8, <3>2, <3>3
    <3>4. CASE k = key /\ StatusAt(root[key], t) = "FREEZE_READ_LOCK"
      BY <2>4, <2>8, <3>2, <3>4 DEF FrozenKept, Frozen, ReadCovered
    <3>5. CASE k = key /\ x \in TidsAt(root[key], t) /\ StatusAt(root[key], t) = "READ_LOCK"
      <4>1. StartOf(root[key], t) \in DOMAIN root[key]
        BY <1>1, <3>2, FindNode
      <4>2. StartOf(root[key], t) \notin O
        BY <1>4, <3>1, <3>5 DEF TidsAt
      <4>3. StatusAt(tbl, t) = StatusAt(root[key], t) /\ TidsAt(tbl, t) = TidsAt(root[key], t)
        BY <2>4, <3>2, <4>1, <4>2 DEF StatusAt, TidsAt
      <4> QED
        BY <2>8, <3>5, <4>3 DEF ReadCovered
    <3> QED
      BY <3>2, <3>3, <3>4, <3>5 DEF ReadCovered
  <2> QED
    BY <1>0, <2>6, <2>7, <2>9, <2>10 DEF LockInv
<1>7. CASE key \notin key_map
  <2>1. UNCHANGED <<root, fired>>
    BY <1>7 DEF unlockKey
  <2>2. todo'[th] = todo[th] \ {key} /\ \A o \in Threads \ {th} : todo'[o] = todo[o]
    BY <1>2 DEF LockInv, TableInv, TypeOK
  <2>3. LocksRecorded'
    <3>1. \A k \in Keys, o \in Threads : k # key /\ k \in todo[o] => k \in todo'[o]
      BY <2>2
    <3> QED
      BY <1>2, <1>7, <2>1, <3>1 DEF LockInv, LocksRecorded, Late, Walking, recordVars
  <2>4. ReadProtected'
    BY <1>5, <2>1 DEF LockInv, ReadProtected
  <2> QED
    BY <1>0, <1>2, <2>1, <2>3, <2>4
      DEF LockInv, ExclusiveOwners, NoLostWakeup, OneWalker, Walking
<1> QED
  BY <1>6, <1>7

\* A recorded interval that holds a lock is not the empty one, so freeze and
\* unlock set out to visit its key.
LEMMA LockBegin ==
    ASSUME LockInv, NEW th \in Threads, NEW tid \in Tids, Active(tid),
           beginFreeze(th, tid) \/ beginUnlock(th, tid)
    PROVE  LockInv'
<1> USE DEF LockInv
<1>0. TableInv'
  BY TableBegin
<1>1. PICK step \in {"freeze", "unlock"} : Begin(th, tid, step)
  BY DEF beginFreeze, beginUnlock
<1>2. /\ pc[th] = "idle" /\ tid \notin finished
      /\ finished' = finished \cup {tid}
      /\ UNCHANGED <<tableVars, recordVars, fired, waiting, covered>>
  BY <1>1 DEF Begin, Active
<1>3. ASSUME NEW k \in Keys, NEW s \in DOMAIN root[k], tid \in root[k][s].tids
      PROVE  tid \in transaction_map /\ intervals[tid][k] # NoInterval
  <2>1. /\ tid \in transaction_map
        /\ intervals[tid][k].lo <= s /\ root[k][s].end <= intervals[tid][k].hi
    BY <1>2, <1>3 DEF LocksRecorded, Late
  <2>2. s <= root[k][s].end
    BY DEF TableInv, TablesTile, Tiles
  <2>3. s \in Int /\ root[k][s].end \in Int
    BY MaxTsAssumption DEF TableInv, TypeOK, IsTable, Node, TS
  <2> QED
    BY <2>1, <2>2, <2>3, MaxTsAssumption DEF NoInterval
<1>4. CASE tid \in transaction_map
  <2>1. /\ pc' = [pc EXCEPT ![th] = step]
        /\ arg' = [arg EXCEPT ![th] = tid]
        /\ todo' = [todo EXCEPT ![th] = {k \in Keys : intervals[tid][k] # NoInterval}]
    BY <1>1, <1>4 DEF Begin
  <2>2. /\ pc'[th] = step /\ arg'[th] = tid
        /\ todo'[th] = {k \in Keys : intervals[tid][k] # NoInterval}
        /\ \A o \in Threads \ {th} :
              pc'[o] = pc[o] /\ arg'[o] = arg[o] /\ todo'[o] = todo[o]
    BY <2>1 DEF TableInv, TypeOK
  <2>3. /\ Walking(th)' /\ ~Walking(th)
        /\ \A o \in Threads \ {th} : Walking(o)' = Walking(o)
    BY <1>2, <2>2 DEF Walking
  <2>4. OneWalker'
    BY <1>2, <2>2, <2>3 DEF OneWalker
  <2>5. LocksRecorded'
    <3>0. ASSUME NEW k \in Keys, NEW s \in DOMAIN root[k], NEW x \in root[k][s].tids,
                 Late(x, root[k][s])
          PROVE  Late(x, root[k][s])'
      BY <1>2, <2>2, <2>3, <3>0 DEF Late, tableVars
    <3> SUFFICES ASSUME NEW k \in Keys, NEW s \in DOMAIN root[k], NEW x \in root[k][s].tids,
                        ~Late(x, root[k][s]), x \in finished'
                 PROVE  \E o \in Threads : Walking(o)' /\ arg'[o] = x /\ k \in todo'[o]
      BY <1>2, <3>0 DEF LocksRecorded, tableVars, recordVars
    <3>1. CASE x = tid
      BY <1>3, <2>2, <2>3, <3>1
    <3>2. CASE x # tid
      <4>1. PICK o \in Threads : Walking(o) /\ arg[o] = x /\ k \in todo[o]
        BY <1>2, <3>2 DEF LocksRecorded
      <4> QED
        BY <2>2, <2>3, <4>1
    <3> QED
      BY <3>1, <3>2
  <2>6. ExclusiveOwners' /\ ReadProtected' /\ NoLostWakeup'
    BY <1>2 DEF ExclusiveOwners, ReadProtected, NoLostWakeup, tableVars
  <2> QED
    BY <1>0, <2>4, <2>5, <2>6
<1>5. CASE tid \notin transaction_map
  <2>1. UNCHANGED <<pc, arg, todo>>
    BY <1>1, <1>5 DEF Begin
  <2>2. OneWalker'
    BY <1>2, <2>1 DEF OneWalker, Walking
  <2>3. LocksRecorded'
    BY <1>2, <1>3, <1>5, <2>1 DEF LocksRecorded, Late, Walking, tableVars, recordVars
  <2>4. ExclusiveOwners' /\ ReadProtected' /\ NoLostWakeup'
    BY <1>2 DEF ExclusiveOwners, ReadProtected, NoLostWakeup, tableVars
  <2> QED
    BY <1>0, <2>2, <2>3, <2>4
<1> QED
  BY <1>4, <1>5

\* A transaction whose keys have all been visited owns nothing.
LEMMA LockClear ==
    ASSUME LockInv, TableInv', NEW th \in Threads, clearIntervals(th)
    PROVE  LockInv'
<1> USE DEF LockInv
<1>1. /\ Walking(th) /\ todo[th] = {}
      /\ intervals' = [intervals EXCEPT ![arg[th]] = [k \in Keys |-> NoInterval]]
      /\ pc' = [pc EXCEPT ![th] = "delete"]
      /\ UNCHANGED <<tableVars, transaction_map, arg, todo, fired, historyVars>>
  BY DEF clearIntervals
<1>2. \A k \in Keys : \A s \in DOMAIN root[k] : arg[th] \notin root[k][s].tids
  BY <1>1 DEF LocksRecorded, Late, OneWalker
<1>3. /\ ~Walking(th)'
      /\ \A o \in Threads \ {th} : Walking(o)' = Walking(o)
  BY <1>1 DEF Walking, TableInv, TypeOK
<1>4. \A x \in Tids \ {arg[th]} : intervals'[x] = intervals[x]
  BY <1>1 DEF TableInv, TypeOK
<1>5. LocksRecorded'
  <2>0. ASSUME NEW k \in Keys, NEW s \in DOMAIN root[k], NEW x \in root[k][s].tids,
               Late(x, root[k][s])
        PROVE  Late(x, root[k][s])'
    BY <1>1, <1>3, <2>0 DEF Late, tableVars, historyVars
  <2> SUFFICES ASSUME NEW k \in Keys, NEW s \in DOMAIN root[k], NEW x \in root[k][s].tids,
                      ~Late(x, root[k][s])
               PROVE  /\ k \in key_map /\ x \in transaction_map
                      /\ intervals'[x][k].lo <= s /\ root[k][s].end <= intervals'[x][k].hi
                      /\ x \in finished =>
                            \E o \in Threads : Walking(o)' /\ arg[o] = x /\ k \in todo[o]
    BY <1>1, <2>0 DEF LocksRecorded, tableVars, historyVars
  <2>1. x # arg[th] /\ x \in Tids
    BY <1>2 DEF TableInv, TypeOK, IsTable, Node
  <2>2. \A o \in Threads : Walking(o) /\ arg[o] = x => Walking(o)'
    BY <1>3, <2>1
  <2> QED
    BY <1>4, <2>1, <2>2 DEF LocksRecorded
<1>6. OneWalker'
  BY <1>1, <1>3 DEF OneWalker, historyVars
<1>7. ExclusiveOwners' /\ ReadProtected' /\ NoLostWakeup'
  BY <1>1 DEF ExclusiveOwners, ReadProtected, NoLostWakeup, tableVars, historyVars
<1> QED
  BY <1>5, <1>6, <1>7

\* Nobody is walking, so a transaction that is finished owns late read locks only.
LEMMA LockDelete ==
    ASSUME LockInv, TableInv', NEW th \in Threads, deleteTransactionInfo(th)
    PROVE  LockInv'
<1> USE DEF LockInv
<1>1. /\ pc[th] = "delete" /\ \A o \in Threads : ~Walking(o)
      /\ transaction_map' = transaction_map \ {arg[th]}
      /\ pc' = [pc EXCEPT ![th] = "run"]
      /\ UNCHANGED <<tableVars, intervals, arg, todo, fired, historyVars>>
  BY DEF deleteTransactionInfo
<1>2. \A k \in Keys : \A s \in DOMAIN root[k] : \A x \in root[k][s].tids :
          x \notin finished \/ Late(x, root[k][s])
  BY <1>1 DEF LocksRecorded
<1>3. \A o \in Threads : ~Walking(o)'
  BY <1>1 DEF Walking, TableInv, TypeOK
<1>4. LocksRecorded'
  BY <1>1, <1>2, <1>3 DEF LocksRecorded, Late, OneWalker, tableVars, historyVars
<1>5. OneWalker'
  <2>1. \A o \in Threads : pc'[o] = "delete" => pc[o] = "delete"
    BY <1>1 DEF TableInv, TypeOK
  <2> QED
    BY <1>1, <1>3, <2>1 DEF OneWalker, historyVars
<1>6. ExclusiveOwners' /\ ReadProtected' /\ NoLostWakeup'
  BY <1>1 DEF ExclusiveOwners, ReadProtected, NoLostWakeup, tableVars, historyVars
<1> QED
  BY <1>4, <1>5, <1>6

\* With unlock never meeting a shared read lock, every step keeps LockInv.
LEMMA LockStep ==
    ASSUME LockInv, [Next]_vars, SharedUnlock = FALSE
    PROVE  LockInv'
<1>0. TableInv'
  BY TableStep DEF LockInv
<1>1. ASSUME NEW key \in Keys, NEW tid \in Tids, Lock(key, tid) PROVE LockInv'
  BY <1>1, LockBackward, LockPoint DEF Lock
<1>2. ASSUME NEW th \in Threads, Finish(th) PROVE LockInv'
  <2>1. CASE \E tid \in Tids :
               Active(tid) /\ (beginFreeze(th, tid) \/ beginUnlock(th, tid))
    BY <2>1, LockBegin
  <2>2. CASE \E key \in Keys : freezeKey(th, key) \/ unlockKey(th, key)
    BY <2>2, LockFreeze, LockUnlock
  <2>3. CASE clearIntervals(th)
    BY <1>0, <2>3, LockClear
  <2>4. CASE deleteTransactionInfo(th)
    BY <1>0, <2>4, LockDelete
  <2>5. CASE \E request \in Request : runEvent(th, request)
    <3>1. PICK request \in Request : runEvent(th, request)
      BY <2>5
    <3>2. NoLostWakeup'
      <4>1. \A r \in Request, o \in Threads :
                r # request /\ r \in fired[o] => r \in fired'[o]
        BY <3>1 DEF runEvent, LockInv, TableInv, TypeOK
      <4>2. \A x \in Tids, k \in Keys : <<x, k>> \in Request
        BY DEF Request
      <4> QED
        BY <3>1, <4>1, <4>2 DEF runEvent, LockInv, NoLostWakeup, tableVars
    <3> QED
      BY <1>0, <3>1, <3>2
        DEF runEvent, LockInv, ExclusiveOwners, LocksRecorded, Late, ReadProtected, OneWalker,
            Walking, tableVars, recordVars
  <2>6. CASE return(th)
    <3>1. \A o \in Threads : /\ Walking(o)' = Walking(o)
                             /\ pc'[o] = "delete" => pc[o] = "delete"
      BY <2>6 DEF return, Walking, LockInv, TableInv, TypeOK
    <3>2. LocksRecorded' /\ OneWalker'
      BY <2>6, <3>1
        DEF return, LockInv, LocksRecorded, Late, OneWalker, tableVars, recordVars, historyVars
    <3> QED
      BY <1>0, <2>6, <3>2
        DEF return, LockInv, ExclusiveOwners, ReadProtected, NoLostWakeup, tableVars,
            historyVars
  <2> QED
    BY <1>2, <2>1, <2>2, <2>3, <2>4, <2>5, <2>6 DEF Finish
<1>3. CASE UNCHANGED vars
  BY <1>0, <1>3
    DEF vars, LockInv, ExclusiveOwners, LocksRecorded, Late, ReadProtected, NoLostWakeup,
        OneWalker, Walking, tableVars, recordVars, threadVars, historyVars
<1> QED
  BY <1>1, <1>2, <1>3 DEF Next

\* As long as unlock meets no read lock that others own too, every lock has the
\* owners its status calls for: one writer, or the readers that were granted it.
THEOREM OwnersAreExclusive ==
    ASSUME SharedUnlock = FALSE
    PROVE  Spec => []ExclusiveOwners
<1>1. LockInv /\ [Next]_vars => LockInv'
  BY LockStep
<1>2. LockInv => ExclusiveOwners
  BY DEF LockInv
<1> QED
  BY LockInit, <1>1, <1>2, PTL DEF Spec

\* Under the same condition, every lock lies inside the interval recorded for its
\* owner, where the owner's freeze or unlock will find it, except for the read lock
\* of an event that freeze or unlock ran when its owner had already left.
THEOREM LocksAccountedFor ==
    ASSUME SharedUnlock = FALSE
    PROVE  Spec => []LocksRecorded
<1>1. LockInv /\ [Next]_vars => LockInv'
  BY LockStep
<1>2. LockInv => LocksRecorded
  BY DEF LockInv
<1> QED
  BY LockInit, <1>1, <1>2, PTL DEF Spec

\* Under the same condition, what a reader was told it has locked stays closed to
\* writers until it aborts, and for ever once it has committed.
THEOREM ReadsAreProtected ==
    ASSUME SharedUnlock = FALSE
    PROVE  Spec => []ReadProtected
<1>1. LockInv /\ [Next]_vars => LockInv'
  BY LockStep
<1>2. LockInv => ReadProtected
  BY DEF LockInv
<1> QED
  BY LockInit, <1>1, <1>2, PTL DEF Spec

\* Under the same condition, no blocked request is ever forgotten, for readers and
\* backward writers alike.
THEOREM WakeupsAreKept ==
    ASSUME SharedUnlock = FALSE
    PROVE  Spec => []NoLostWakeup
<1>1. LockInv /\ [Next]_vars => LockInv'
  BY LockStep
<1>2. LockInv => NoLostWakeup
  BY DEF LockInv
<1> QED
  BY LockInit, <1>1, <1>2, PTL DEF Spec
=============================================================================
