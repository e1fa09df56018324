--------------------------- MODULE LockManagerSync ---------------------------
(***************************************************************************)
(* The lock manager with its locks: _key_map_lock, the mutex of every key, *)
(* _transaction_map_lock and the mutex of every transaction, taken one     *)
(* after the other by threads that also make the lock requests.            *)
(*                                                                         *)
(* Both rwlocks are held for writing only while a map changes, so that a   *)
(* writer waits for the readers and a reader never waits.  What a request  *)
(* changes is computed when it has the mutex of the key and appears when   *)
(* it is recorded; nobody else looks at the key in between.                *)
(*                                                                         *)
(* With Reruns the event of a read may run again while its transaction     *)
(* makes other calls, freeze and unlock included, and after them.          *)
(***************************************************************************)
EXTENDS AVLTreeLockManager

CONSTANT NoRequest

VARIABLES
    request,   \* the call of tryBackwardLock or tryLock each thread is in
    step,      \* what the thread does next in it
    local,     \* what the call found on the key: its local variables
    created,   \* the keys of _key_map; key_map has those some call has locked
    reading    \* the threads that hold _key_map_lock for reading

callVars == <<request, step, local>>
syncVars == <<callVars, created, reading>>
allVars == <<vars, syncVars>>

NoLocal == [table |-> InitialTable, start |-> 0, granted |-> FALSE, stop |-> 0]

SyncInit ==
    /\ Init
    /\ request = [th \in Threads |-> NoRequest]
    /\ step = [th \in Threads |-> "none"]
    /\ local = [th \in Threads |-> NoLocal]
    /\ created = {}
    /\ reading = {}

-----------------------------------------------------------------------------
(* Who holds what                                                           *)

Key(th) == request[th].key
Tid(th) == request[th].tid

InCall(th) == step[th] # "none"

\* The transaction makes no call: it makes one at a time, besides the events that
\* run again.
FreeOf(tid) == \A th \in Threads : InCall(th) => request[th].again \/ Tid(th) # tid

\* Mutant: the mutex is given up before the transaction is entered.
KeyMutexHeld_Recorded(key) ==
    \E th \in Threads : step[th] = "interval" /\ Key(th) = key

KeyMutexHeld(key) ==
    \E th \in Threads : step[th] \in {"createTid", "interval"} /\ Key(th) = key

TransactionMutexHeld(tid) == \E th \in Threads : Walking(th) /\ arg[th] = tid

\* The threads that hold _transaction_map_lock for reading.
TransactionReaders == {th \in Threads : Walking(th) \/ step[th] = "interval"}

\* A thread that cannot take the next lock of its call.
Waits(th) ==
    \/ step[th] = "createKey" /\ reading # {}
    \/ step[th] = "mutex" /\ KeyMutexHeld(Key(th))
    \/ step[th] = "createTid" /\ TransactionReaders # {}
    \/ step[th] = "interval" /\ TransactionMutexHeld(Tid(th))
    \/ /\ Walking(th) /\ th \in reading
       /\ \E key \in Keys : NextKey(th, key) /\ KeyMutexHeld(key)
    \/ pc[th] = "delete" /\ TransactionReaders # {}

-----------------------------------------------------------------------------
(* tryBackwardLock and tryLock                                              *)

At(th, s) == step[th] = s /\ ~Waits(th)
Goto(th, s) == step' = [step EXCEPT ![th] = s]

\* The call returns and gives up all locks it has.
Return(th) ==
    /\ Goto(th, "none")
    /\ request' = [request EXCEPT ![th] = NoRequest]
    /\ local' = [local EXCEPT ![th] = NoLocal]
    /\ reading' = reading \ {th}

\* Mutant: _key_map_lock is kept while createKeyInfo is called.
lookup_KeepsLock(th, key) ==
    /\ Goto(th, IF key \in created THEN "mutex" ELSE "createKey")
    /\ reading' = reading \cup {th}

\* The search for the key with _key_map_lock held for reading.
lookup(th, key) ==
    IF key \in created
    THEN Goto(th, "mutex") /\ reading' = reading \cup {th}
    ELSE Goto(th, "createKey") /\ UNCHANGED reading

enter(th, r) ==
    /\ ~InCall(th)
    /\ request' = [request EXCEPT ![th] = r]
    /\ lookup(th, r.key)
    /\ UNCHANGED <<local, created>>

\* A call of a transaction that makes no other one.
Call(th, r) ==
    /\ ~r.again /\ pc[th] = "idle"
    /\ Active(r.tid) /\ FreeOf(r.tid)
    /\ enter(th, r)
    /\ UNCHANGED vars

\* freeze or unlock runs an event it has collected, whatever its transaction is doing
\* by now: a blocked read asks for its lock again.
runAgain(th, r) ==
    /\ r.again
    /\ runEvent(th, <<r.tid, r.key>>)
    /\ enter(th, r)

\* createKeyInfo, after which the lock is taken for reading again.
createKeyInfo(th) ==
    /\ At(th, "createKey")
    /\ created' = created \cup {Key(th)}
    /\ reading' = reading \cup {th}
    /\ Goto(th, "mutex")
    /\ UNCHANGED <<vars, request, local>>

\* Mutant: the transaction is created without a search for it.
record_NoSearch(th, tid) == Goto(th, "createTid")

\* addTransactionLock: the search for the transaction, with _transaction_map_lock
\* held for reading, and what is waited for next.
record(th, tid) == Goto(th, IF tid \in transaction_map THEN "interval" ELSE "createTid")

\* The mutex of the key, and what the request does there.
backwardWalk(th) ==
    /\ At(th, "mutex") /\ request[th].op = "tryBackwardLock"
    /\ LET r == request[th]
           table == root[r.key]
       IN  local' = [local EXCEPT ![th] =
               [table   |-> BackwardLock(table, r.tid, r.ts, r.is_read),
                start   |-> BackwardStart(table, r.ts, r.is_read),
                granted |-> BackwardGranted(table, r.ts, r.is_read),
                stop    |-> BackwardStop(table, r.ts, r.is_read).end]]
    /\ record(th, Tid(th))
    /\ UNCHANGED <<vars, request, created, reading>>

\* A refused tryLock returns at once.
pointSearch(th) ==
    /\ At(th, "mutex") /\ request[th].op = "tryLock"
    /\ LET r == request[th]
           table == root[r.key]
       IN  IF PointGranted(table, r.ts, r.is_read)
           THEN /\ local' = [local EXCEPT ![th] =
                       [table |-> PointLock(table, r.tid, r.ts, r.is_read),
                        start |-> r.ts, granted |-> TRUE, stop |-> r.ts]]
                /\ record(th, r.tid)
                /\ UNCHANGED <<request, reading, key_map>>
           ELSE Return(th) /\ key_map' = key_map \cup {r.key}
    /\ UNCHANGED <<root, events, recordVars, threadVars, historyVars, created>>

-----------------------------------------------------------------------------
(* createTransactionInfo and the rest of addTransactionLock                 *)

\* What the call does to the key and to the record becomes visible.
Publish(th) ==
    LET r == request[th]
        l == local[th]
    IN  /\ key_map' = key_map \cup {r.key}
        /\ root' = [root EXCEPT ![r.key] = l.table]
        /\ addTransactionLock(r.tid, r.key, l.start, r.ts)
        /\ IF l.granted
           THEN UNCHANGED <<events, waiting>>
           ELSE /\ addEvent(r.key, l.stop, r.tid)
                /\ waiting' = waiting \cup {<<r.tid, r.key>>}
        /\ covered' = IF r.is_read
                      THEN [covered EXCEPT ![r.tid][r.key] = @ \cup (l.start .. r.ts)]
                      ELSE covered
        /\ UNCHANGED <<threadVars, finished>>

\* createTransactionInfo; the interval follows with nothing to wait for, since no
\* freeze or unlock can take the new record: the transaction's own call is its first
\* one, and an event that runs again finds no record only after they are through.
createTransactionInfo(th) ==
    /\ At(th, "createTid")
    /\ Publish(th)
    /\ Return(th)
    /\ UNCHANGED created

\* The mutex of the record, and the interval.
addInterval(th) ==
    /\ At(th, "interval")
    /\ Publish(th)
    /\ Return(th)
    /\ UNCHANGED created

-----------------------------------------------------------------------------
(* freeze and unlock                                                        *)

\* Both take _transaction_map_lock for reading, and the mutex of the record.  Nobody
\* keeps that mutex but the other freeze or unlock of the transaction.
start(th, tid) ==
    /\ ~InCall(th)
    /\ Active(tid)
    /\ FreeOf(tid)
    /\ beginFreeze(th, tid) \/ beginUnlock(th, tid)
    /\ UNCHANGED syncVars

\* The next key: _key_map_lock, then the mutex of the key.
nextKey(th) ==
    /\ Walking(th) /\ todo[th] # {}
    /\ th \notin reading
    /\ reading' = reading \cup {th}
    /\ UNCHANGED <<vars, callVars, created>>

visitKey(th) ==
    /\ th \in reading /\ ~Waits(th)
    /\ \E key \in Keys : freezeKey(th, key) \/ unlockKey(th, key)
    /\ reading' = reading \ {th}
    /\ UNCHANGED <<callVars, created>>

\* The end of the call; with Reruns the events it runs are steps of runAgain.
end(th) ==
    /\ ~InCall(th)
    /\ \/ clearIntervals(th)
       \/ ~Waits(th) /\ deleteTransactionInfo(th)
       \/ ~Reruns /\ \E e \in Request : runEvent(th, e)
       \/ return(th)
    /\ UNCHANGED syncVars

-----------------------------------------------------------------------------
LockRequest ==
    [op : {"tryBackwardLock"}, key : Keys, tid : Tids, ts : Times, is_read : BackwardModes,
     again : {FALSE}]
    \cup [op : {"tryLock"}, key : Keys, tid : Tids, ts : Times, is_read : PointModes,
          again : {FALSE}]
    \cup [op : {"tryBackwardLock"}, key : Keys, tid : Tids, ts : Times,
          is_read : BackwardModes \cap {TRUE}, again : {Reruns} \cap {TRUE}]

SyncStep(th) ==
    \/ \E r \in LockRequest : Call(th, r) \/ runAgain(th, r)
    \/ createKeyInfo(th)
    \/ backwardWalk(th) \/ pointSearch(th)
    \/ createTransactionInfo(th) \/ addInterval(th)
    \/ \E tid \in Tids : start(th, tid)
    \/ nextKey(th) \/ visitKey(th) \/ end(th)

SyncNext == \E th \in Threads : SyncStep(th)

SyncSpec == SyncInit /\ [][SyncNext]_allVars

-----------------------------------------------------------------------------
(* Properties                                                               *)

\* Under the locks the code takes, every call has its effect at one moment: the
\* threads implement the atomic lock manager the theorems and the server's model
\* are about.  No request, freeze or unlock sees or overwrites a half-done one.
CallsAreAtomic == Spec

\* A record that createTransactionInfo has made is still there when the interval is
\* entered, with _transaction_map_lock given up in between: no freeze or unlock of the
\* transaction is under way, nor can one begin.
RecordStays ==
    \A th \in Threads : step[th] = "createTid" =>
        /\ \A other \in Threads :
              pc[other] \in {"freeze", "unlock", "delete"} => arg[other] # Tid(th)
        /\ request[th].again => Tid(th) \in finished

\* A thread in freeze or unlock that has to wait for the mutex of its next key.
WaitsAtKey(walker, key) == Walking(walker) /\ walker \in reading /\ NextKey(walker, key)

\* The holder of that mutex waits to enter its transaction in the map that the first
\* thread reads.
FirstLockCycle ==
    \E walker, locker \in Threads : \E key \in Keys :
        /\ WaitsAtKey(walker, key)
        /\ step[locker] = "createTid" /\ Key(locker) = key

\* The holder of that mutex runs an event again, and waits for the record of a
\* transaction that is in freeze or unlock.
RerunCycle ==
    \E walker, locker \in Threads : \E key \in Keys :
        /\ WaitsAtKey(walker, key)
        /\ step[locker] = "interval" /\ Key(locker) = key
        /\ request[locker].again /\ TransactionMutexHeld(Tid(locker))

\* The only two ways for the threads to wait for each other for ever: a freeze or
\* unlock meets on one of its keys the first lock of a transaction, or an event that
\* runs again for a transaction in freeze or unlock.
OnlyKnownDeadlocks ==
    LET busy == {th \in Threads : InCall(th) \/ pc[th] # "idle"}
    IN  (busy # {} /\ \A th \in busy : Waits(th)) => FirstLockCycle \/ RerunCycle
=============================================================================
