---------------------------- MODULE SimpleTServer ----------------------------
(***************************************************************************)
(* The server: worker threads take requests with getEvent and run them as  *)
(* ServerEvents over the lock manager and the multi-version store, while   *)
(* coordinators make requests.                                             *)
(*                                                                         *)
(* A worker's stack holds the handler it runs.  freeze and unlock run the  *)
(* read events they wake on the same stack, before the commit or abort     *)
(* that called them goes on.                                               *)
(***************************************************************************)
EXTENDS AVLTreeLockManager, Sequences

CONSTANTS StartTimes, SameTimes, Readers, Writers, Quitters, MaxWrites, Lossy

ASSUME ServerAssumption ==
    /\ "none" \notin Tids
    /\ StartTimes \subseteq 1 .. MaxTs - 1
    /\ Times = 0 .. MaxTs - 1
    /\ BackwardModes = {TRUE}
    /\ PointModes = {FALSE}
    /\ Aborters = Tids
    /\ Reruns
    /\ Lossy \subseteq Tids
    /\ MaxWrites \in Nat

VARIABLES
    start_ts, read_nodes, write_nodes, written, stage, vote, call, queued, asked, writes,
    stack,               \* the handlers each worker runs, the innermost first
    phase,               \* _phase of the read event of a transaction and key
    read_ts,             \* its read_args->start_ts, which tryBackwardLock overwrites
    tid_to_nodes,        \* the transactions with an entry in _tid_to_nodes
    tid_to_write_nodes,  \* the transactions with an entry in _tid_to_write_nodes
    leaked,              \* the mutexes of the server that stay locked for ever
    pend_writes,         \* _pend_writes, the keys in the order of the requests
    rdy_to_commit,       \* the transactions with an entry in _rdy_to_commit
    store,               \* _store: which transaction wrote the version at a time
    crashed,             \* whether the process is gone, and why
    reads                \* history: the versions read by transactions

Client == INSTANCE Coordinator

progVars == <<start_ts, read_nodes, write_nodes, written, stage, asked, writes>>
clientVars == <<progVars, vote, call, queued>>
nodeVars == <<tid_to_nodes, tid_to_write_nodes, leaked>>
eventVars == <<phase, read_ts>>
dataVars == <<pend_writes, rdy_to_commit, store>>
serverVars == <<stack, eventVars, nodeVars, dataVars, crashed, reads>>
allVars == <<vars, clientVars, serverVars>>

NoCall == Client!NoCall
NoVersion == "none"

\* A handler and its local variables: n is ts in ReadEvent::run, i in
\* P1CEvent::run.
Handler == [op : {"read0", "read1", "read2", "write", "p1c", "refused", "p2c", "locks", "stuck"},
            tid : Tids, key : Keys \cup {0}, n : Nat]
NewHandler(op, tid, key) == [op |-> op, tid |-> tid, key |-> key, n |-> 0]

\* ReadEvent::run reads start_ts and branches on _phase; all phases from 2 on are
\* the same to it.
ReadHandler(e, ph, ts) ==
    [op |-> CASE ph = 0 -> "read0" [] ph = 1 -> "read1" [] OTHER -> "read2",
     tid |-> e[1], key |-> e[2], n |-> ts]
NextPhase(ph) == IF ph < 2 THEN ph + 1 ELSE 2

ServerInit ==
    /\ Init
    /\ Client!Init
    /\ stack = [th \in Threads |-> <<>>]
    /\ phase = [e \in Request |-> 0]
    /\ read_ts = [e \in Request |-> 0]
    /\ tid_to_nodes = {}
    /\ tid_to_write_nodes = {}
    /\ leaked = {}
    /\ pend_writes = [x \in Tids |-> <<>>]
    /\ rdy_to_commit = {}
    /\ store = [k \in Keys |-> [t \in TS |-> NoVersion]]
    /\ crashed = "no"
    /\ reads = {}

-----------------------------------------------------------------------------
(* The stack of a worker, and replies                                       *)

Runs(th, op) == stack[th] # <<>> /\ Head(stack[th]).op = op
Top(th) == Head(stack[th])

Push(th, handler) == stack' = [stack EXCEPT ![th] = <<handler>> \o @]
Pop(th)           == stack' = [stack EXCEPT ![th] = Tail(@)]
Become(th, op)    == stack' = [stack EXCEPT ![th][1].op = op]

\* The reply reaches the coordinator: its request returns.
sendReply(tid) ==
    /\ call' = [call EXCEPT ![tid] = NoCall]
    /\ UNCHANGED <<progVars, queued>>

-----------------------------------------------------------------------------
(* SimpleTServer::getEvent                                                  *)

\* asyncNextRequest hands out a request of some type.
Takes(th, tid, type) ==
    /\ stack[th] = <<>>
    /\ tid \in queued
    /\ call[tid].type = type

\* The mutexes the lookup for a request type locks.
Mutexes(type) ==
    CASE type = "TREAD"  -> {"_tid_mutex"}
      [] type = "TWRITE" -> {"_tid_mutex", "_tid_write_mutex"}
      [] type = "TP1C"   -> {"_tid_write_mutex"}
      [] type = "TP2C"   -> {"_tid_mutex"}

Dispatch(th, tid, handler) ==
    /\ queued' = queued \ {tid}
    /\ Push(th, handler)
    /\ UNCHANGED <<vars, progVars, vote, call, leaked, dataVars, crashed, reads>>

getRead(th, tid) ==
    /\ Takes(th, tid, "TREAD") /\ Mutexes("TREAD") \cap leaked = {}
    /\ tid_to_nodes' = tid_to_nodes \cup {tid}
    /\ read_ts' = [read_ts EXCEPT ![<<tid, call[tid].key>>] = start_ts[tid]]
    /\ phase' = [phase EXCEPT ![<<tid, call[tid].key>>] = 0]
    /\ Dispatch(th, tid, ReadHandler(<<tid, call[tid].key>>, 0, start_ts[tid]))
    /\ UNCHANGED tid_to_write_nodes

\* Mutant: a write is not entered in _tid_to_write_nodes.
getWrite_NoEntry(th, tid) ==
    /\ Takes(th, tid, "TWRITE") /\ Mutexes("TWRITE") \cap leaked = {}
    /\ tid_to_nodes' = tid_to_nodes \cup {tid}
    /\ Dispatch(th, tid, NewHandler("write", tid, call[tid].key))
    /\ UNCHANGED <<tid_to_write_nodes, eventVars>>

getWrite(th, tid) ==
    /\ Takes(th, tid, "TWRITE") /\ Mutexes("TWRITE") \cap leaked = {}
    /\ tid_to_nodes' = tid_to_nodes \cup {tid}
    /\ tid_to_write_nodes' = tid_to_write_nodes \cup {tid}
    /\ Dispatch(th, tid, NewHandler("write", tid, call[tid].key))
    /\ UNCHANGED eventVars

getP1C(th, tid) ==
    /\ Takes(th, tid, "TP1C") /\ Mutexes("TP1C") \cap leaked = {}
    /\ tid \in tid_to_write_nodes
    /\ tid_to_write_nodes' = tid_to_write_nodes \ {tid}
    /\ Dispatch(th, tid, NewHandler("p1c", tid, 0))
    /\ UNCHANGED <<tid_to_nodes, eventVars>>

getP2C(th, tid) ==
    /\ Takes(th, tid, "TP2C") /\ Mutexes("TP2C") \cap leaked = {}
    /\ tid \in tid_to_nodes
    /\ tid_to_nodes' = tid_to_nodes \ {tid}
    /\ Dispatch(th, tid, NewHandler("p2c", tid, 0))
    /\ UNCHANGED <<tid_to_write_nodes, eventVars>>

\* A commit of a transaction the server does not know is answered with no nodes
\* and with whatever is in vote, and the worker goes on with the mutex locked.
\* The client takes the vote into account and sends the request again.
getUnknown(th, tid) ==
    /\ \/ /\ Takes(th, tid, "TP1C") /\ Mutexes("TP1C") \cap leaked = {}
          /\ tid \notin tid_to_write_nodes
          /\ leaked' = leaked \cup {"_tid_write_mutex"}
          /\ \E b \in BOOLEAN : vote' = [vote EXCEPT ![tid] = @ /\ b]
       \/ /\ Takes(th, tid, "TP2C") /\ Mutexes("TP2C") \cap leaked = {}
          /\ tid \notin tid_to_nodes
          /\ leaked' = leaked \cup {"_tid_mutex"}
          /\ UNCHANGED vote
    /\ UNCHANGED <<vars, progVars, call, queued, stack, eventVars, tid_to_nodes,
                   tid_to_write_nodes, dataVars, crashed, reads>>

\* A worker that needs a mutex another one left locked waits for ever.
getStuck(th, tid) ==
    /\ \E type \in Client!RequestType :
          Takes(th, tid, type) /\ Mutexes(type) \cap leaked # {}
    /\ Dispatch(th, tid, NewHandler("stuck", tid, 0))
    /\ UNCHANGED <<eventVars, tid_to_nodes, tid_to_write_nodes>>

-----------------------------------------------------------------------------
(* ReadEvent::run and WriteEvent::run                                       *)

\* SimpleTServer::get; the version at time 0 needs no entry.
get(key, ts) == IF ts = 0 THEN "initial" ELSE store[key][ts]

\* Phase 0.  The walk overwrites start_ts with the time it stopped at, from
\* which a woken event goes on; when it is granted, run() is entered again.  The
\* call and _phase++ are one step, so that no second worker runs the event between
\* the two; what the call waits for inside is in LockManagerSync.
readLock(th) ==
    /\ Runs(th, "read0")
    /\ LET tid == Top(th).tid
           key == Top(th).key
           e   == <<tid, key>>
           ts  == Top(th).n - 1
       IN  /\ tryBackwardLock(key, tid, ts, TRUE)
           /\ read_ts' = [read_ts EXCEPT ![e] = BackwardStart(root[key], ts, TRUE)]
           /\ IF BackwardGranted(root[key], ts, TRUE)
              THEN /\ phase' = [phase EXCEPT ![e] = NextPhase(@)]
                   /\ stack' = [stack EXCEPT ![th] =
                          <<ReadHandler(e, phase'[e], read_ts'[e])>> \o Tail(@)]
              ELSE UNCHANGED phase /\ Pop(th)
    /\ UNCHANGED <<clientVars, nodeVars, dataVars, crashed, reads>>

\* Phase 1.  A version that is not in the store is a null pointer, which the next
\* line dereferences.  A second reply to the same request ends the process.
readValue(th) ==
    /\ Runs(th, "read1")
    /\ LET tid == Top(th).tid
           key == Top(th).key
           e   == <<tid, key>>
           ts  == Top(th).n - 1
       IN  /\ phase' = [phase EXCEPT ![e] = NextPhase(@)]
           /\ IF get(key, ts) # NoVersion /\ phase[e] = 1
              THEN /\ reads' = reads \cup {[tid |-> tid, key |-> key, ts |-> ts]}
                   /\ sendReply(tid) /\ UNCHANGED vote
                   /\ Pop(th)
                   /\ UNCHANGED crashed
              ELSE /\ crashed' = IF phase[e] = 1 THEN "null" ELSE "exit"
                   /\ UNCHANGED <<clientVars, stack, reads>>
    /\ UNCHANGED <<vars, read_ts, nodeVars, dataVars>>

\* Any later phase ends the process.
readExit(th) ==
    /\ Runs(th, "read2")
    /\ crashed' = "exit"
    /\ UNCHANGED <<vars, clientVars, stack, eventVars, nodeVars, dataVars, reads>>

\* Mutant: add is called with its arguments swapped.
writeRun_Swapped(th) ==
    /\ Runs(th, "write")
    /\ pend_writes' = [pend_writes EXCEPT ![Top(th).tid] = Append(@, Top(th).tid)]
    /\ sendReply(Top(th).tid) /\ UNCHANGED vote
    /\ Pop(th)
    /\ UNCHANGED <<vars, eventVars, nodeVars, rdy_to_commit, store, crashed, reads>>

\* WriteEvent::run with SimpleTServer::add
writeRun(th) ==
    /\ Runs(th, "write")
    /\ pend_writes' = [pend_writes EXCEPT ![Top(th).tid] = Append(@, Top(th).key)]
    /\ sendReply(Top(th).tid) /\ UNCHANGED vote
    /\ Pop(th)
    /\ UNCHANGED <<vars, eventVars, nodeVars, rdy_to_commit, store, crashed, reads>>

-----------------------------------------------------------------------------
(* P1CEvent::run                                                            *)

\* The keys of getKeys, one tryLock at a time; the first refusal ends the loop.
p1cLock(th) ==
    /\ Runs(th, "p1c")
    /\ LET tid == Top(th).tid
           n   == Top(th).n + 1
       IN  /\ n <= Len(pend_writes[tid])
           /\ LET key == pend_writes[tid][n]
              IN  /\ tryLock(key, tid, start_ts[tid], FALSE)
                  /\ IF PointGranted(root[key], start_ts[tid], FALSE)
                     THEN stack' = [stack EXCEPT ![th][1].n = n]
                     ELSE Become(th, "refused")
    /\ UNCHANGED <<clientVars, eventVars, nodeVars, dataVars, crashed, reads>>

\* Mutant: the vote does not depend on the locks.
p1cVote_Yes(th) ==
    /\ \/ Runs(th, "p1c") /\ Top(th).n = Len(pend_writes[Top(th).tid])
       \/ Runs(th, "refused")
    /\ rdy_to_commit' = rdy_to_commit \cup {Top(th).tid}
    /\ UNCHANGED vote
    /\ sendReply(Top(th).tid)
    /\ Pop(th)
    /\ UNCHANGED <<vars, eventVars, nodeVars, pend_writes, store, crashed, reads>>

\* SimpleTServer::prepare and the vote, which the client joins to its own.
p1cVote(th) ==
    /\ \/ Runs(th, "p1c") /\ Top(th).n = Len(pend_writes[Top(th).tid])
       \/ Runs(th, "refused")
    /\ rdy_to_commit' = rdy_to_commit \cup {Top(th).tid}
    /\ vote' = [vote EXCEPT ![Top(th).tid] = @ /\ Top(th).op = "p1c"]
    /\ sendReply(Top(th).tid)
    /\ Pop(th)
    /\ UNCHANGED <<vars, eventVars, nodeVars, pend_writes, store, crashed, reads>>

-----------------------------------------------------------------------------
(* P2CEvent::run                                                            *)

p2cStart(th) ==
    /\ Runs(th, "p2c")
    /\ IF vote[Top(th).tid]
       THEN beginFreeze(th, Top(th).tid)
       ELSE beginUnlock(th, Top(th).tid)
    /\ Become(th, "locks")
    /\ UNCHANGED <<clientVars, eventVars, nodeVars, dataVars, crashed, reads>>

\* freeze and unlock up to the events they have collected...
p2cLocks(th) ==
    /\ Runs(th, "locks")
    /\ \/ \E key \in Keys : freezeKey(th, key) \/ unlockKey(th, key)
       \/ clearIntervals(th)
       \/ deleteTransactionInfo(th)
       \/ return(th)
    /\ UNCHANGED <<clientVars, serverVars>>

\* ...and those events, which run inside.
p2cWake(th) ==
    /\ Runs(th, "locks")
    /\ \E e \in Request :
          /\ runEvent(th, e)
          /\ Push(th, ReadHandler(e, phase[e], read_ts[e]))
    /\ UNCHANGED <<clientVars, eventVars, nodeVars, dataVars, crashed, reads>>

\* Mutants: the writes are installed whatever the outcome; only the first write is.
finalize_Always(tid, success) ==
    /\ rdy_to_commit' = rdy_to_commit \ {tid}
    /\ pend_writes' = [pend_writes EXCEPT ![tid] = <<>>]
    /\ store' = [k \in Keys |->
           IF \E i \in 1 .. Len(pend_writes[tid]) : pend_writes[tid][i] = k
           THEN [store[k] EXCEPT ![start_ts[tid]] = tid]
           ELSE store[k]]
finalize_First(tid, success) ==
    /\ rdy_to_commit' = rdy_to_commit \ {tid}
    /\ pend_writes' = [pend_writes EXCEPT ![tid] = <<>>]
    /\ store' = [k \in Keys |->
           IF success /\ pend_writes[tid] # <<>> /\ Head(pend_writes[tid]) = k
           THEN [store[k] EXCEPT ![start_ts[tid]] = tid]
           ELSE store[k]]

\* SimpleTServer::finalize, with set for every pending write.  Only a
\* transaction with writes was prepared.
finalize(tid, success) ==
    /\ rdy_to_commit' = rdy_to_commit \ {tid}
    /\ IF tid \in rdy_to_commit
       THEN /\ pend_writes' = [pend_writes EXCEPT ![tid] = <<>>]
            /\ store' = [k \in Keys |->
                   IF success /\ \E i \in 1 .. Len(pend_writes[tid]) : pend_writes[tid][i] = k
                   THEN [store[k] EXCEPT ![start_ts[tid]] = tid]
                   ELSE store[k]]
       ELSE UNCHANGED <<pend_writes, store>>

p2cFinalize(th) ==
    /\ Runs(th, "locks") /\ pc[th] = "idle"
    /\ finalize(Top(th).tid, vote[Top(th).tid])
    /\ sendReply(Top(th).tid) /\ UNCHANGED vote
    /\ Pop(th)
    /\ UNCHANGED <<vars, eventVars, nodeVars, crashed, reads>>

-----------------------------------------------------------------------------
getEvent(th) ==
    \E tid \in Tids :
        \/ getRead(th, tid)
        \/ getWrite(th, tid)
        \/ getP1C(th, tid)
        \/ getP2C(th, tid)
        \/ getUnknown(th, tid)
        \/ getStuck(th, tid)

\* One step of the loop of a worker thread.
Worker(th) ==
    /\ crashed = "no"
    /\ \/ getEvent(th)
       \/ readLock(th) \/ readValue(th) \/ readExit(th)
       \/ writeRun(th)
       \/ p1cLock(th) \/ p1cVote(th)
       \/ p2cStart(th) \/ p2cLocks(th) \/ p2cWake(th) \/ p2cFinalize(th)

ClientStep(tid) ==
    /\ crashed = "no"
    /\ Client!Step(tid)
    /\ UNCHANGED <<vars, serverVars>>

ServerNext ==
    \/ \E th \in Threads : Worker(th)
    \/ \E tid \in Tids : ClientStep(tid)

ServerSpec == ServerInit /\ [][ServerNext]_allVars

\* Every worker keeps running, and a program that waits for no reply goes on to
\* commit or abort and to its second phase.
FairServerSpec ==
    /\ ServerSpec
    /\ \A th \in Threads : WF_allVars(Worker(th))
    /\ \A tid \in Tids : WF_allVars(ClientStep(tid))

-----------------------------------------------------------------------------
(* Properties                                                               *)

ServerTypeOK ==
    /\ stack \in [Threads -> Seq(Handler)]
    /\ phase \in [Request -> 0 .. 2]
    /\ read_ts \in [Request -> TS]
    /\ tid_to_nodes \subseteq Tids
    /\ tid_to_write_nodes \subseteq Tids
    /\ leaked \subseteq {"_tid_mutex", "_tid_write_mutex"}
    /\ pend_writes \in [Tids -> Seq(Keys)]
    /\ rdy_to_commit \subseteq Tids
    /\ store \in [Keys -> [TS -> Tids \cup {NoVersion}]]
    /\ crashed \in {"no", "null", "exit"}
    /\ reads \subseteq [tid : Tids, key : Keys, ts : TS]

Aborted(tid) == stage[tid] = "end" /\ ~vote[tid]

\* Multi-version timestamp ordering: what a transaction read is, and stays until
\* it aborts, the last version before its timestamp.  A commit that comes later,
\* with a timestamp in between, must fail.
ReadsLatest ==
    \A r \in reads : ~Aborted(r.tid) =>
        \A t \in r.ts + 1 .. start_ts[r.tid] - 1 : store[r.key][t] = NoVersion

\* The store and the lock manager agree: a version is where a write lock was
\* frozen, and is missing there only until the commit that froze it is finalized.
VersionsFrozen ==
    \A k \in Keys : \A t \in TS \ {0} :
        /\ store[k][t] # NoVersion => StatusAt(root[k], t) = "FREEZE_WRITE_LOCK"
        /\ StatusAt(root[k], t) = "FREEZE_WRITE_LOCK" =>
              \/ store[k][t] # NoVersion
              \/ \E th \in Threads : \E i \in DOMAIN stack[th] :
                    stack[th][i].op = "locks" /\ start_ts[stack[th][i].tid] = t

\* The versions of x are its writes if it committed, and none otherwise.
Atomic(x) ==
    Client!Returned(x) =>
        \A k \in Keys : store[k][start_ts[x]] = x <=> vote[x] /\ k \in written[x]

\* commit() that returned true installed all the writes, under its own name even
\* when another transaction has the same timestamp; any other installed none.
\* This is so unless an RPC of the transaction failed.
AllOrNothing == \A x \in Tids \ Lossy : Atomic(x)

\* The same when RPCs fail, as for a commit() that returns true to promise it.
AlwaysAtomic == \A x \in Tids : Atomic(x)

\* No write, or no read and no write, of the transaction has reached the server.
NoWrite(tid) == pend_writes[tid] = <<>>
Unheard(tid) == NoWrite(tid) /\ \A k \in Keys : read_ts[<<tid, k>>] = 0

\* A mutex stays locked only after a failed RPC: because of a commit of a
\* transaction whose every write was lost, or whose every read and write was.
\* The entry of any other transaction lasts until its commit takes it.
LeaksOnlyAfterLoss ==
    /\ "_tid_write_mutex" \in leaked =>
          \E x \in Lossy : call[x].type = "TP1C" /\ NoWrite(x)
    /\ "_tid_mutex" \in leaked =>
          \E x \in Lossy : call[x].type = "TP2C" /\ Unheard(x)

\* A read finds the version the lock manager stopped it at.
ReadsFindVersion == crashed # "null"

\* "Reads do not have phase" 2: an event that has been answered is not run again.
AnsweredOnce == crashed # "exit"

\* The server calls the lock manager the way its clients may: there is
\* no call for a transaction once freeze or unlock was called for it.
UsesLockManager == Spec

\* Every request is answered, unless the process ends: a blocked read is woken,
\* and readers and writers never wait for each other in a circle.
EveryCallReturns ==
    \A x \in Tids : call[x] # NoCall ~> call[x] = NoCall \/ crashed # "no"
=============================================================================
