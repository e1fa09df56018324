----------------------------- MODULE Coordinator -----------------------------
(***************************************************************************)
(* The client side: a Coordinator per transaction, its calls through       *)
(* SimpleResolutionClient, and the requests waiting at the server.         *)
(*                                                                         *)
(* A coordinator has one request outstanding at a time.  SimpleKeyMapper   *)
(* puts every key on node 0 and SimpleResolutionClient resolves it to one  *)
(* server, so a request to a set of nodes is one message, or none if the   *)
(* set is empty.                                                           *)
(***************************************************************************)
EXTENDS Integers

CONSTANTS
    Tids,         \* the transactions, one coordinator each
    Keys,         \* the keys of the store
    StartTimes,   \* the values the timestamp generator may return
    SameTimes,    \* whether it may return one twice: its clock counts seconds
    Readers,      \* the transactions that may read
    Writers,      \* the transactions that may write
    Quitters,     \* the transactions whose program may call abort()
    MaxWrites,    \* bound on the write() calls of a transaction
    Lossy         \* the transactions whose RPCs of reads and writes may fail

VARIABLES
    start_ts,     \* _start_ts
    read_nodes,   \* _read_nodes
    write_nodes,  \* _write_nodes
    written,      \* the keys of _pend_writes
    stage,        \* where the transaction's program is
    vote,         \* rsl_p1c_args.vote, then p2c_args.vote
    call,         \* the request the coordinator waits for
    queued,       \* the transactions whose request no worker has taken yet
    asked,        \* history: the keys the transaction has requested to read
    writes        \* history: the number of write() calls

progVars == <<start_ts, read_nodes, write_nodes, written, stage, asked, writes>>
clientVars == <<progVars, vote, call, queued>>

\* SimpleKeyMapper::getNode
getNode(key) == 0
Nodes == {getNode(k) : k \in Keys}

RequestType == {"TREAD", "TWRITE", "TP1C", "TP2C"}
NoCall == [type |-> "none"]

\* SimpleTimestampGenerator: what the transactions may get from a clock that counts
\* seconds.
genStartTimestamp ==
    {ts \in [Tids -> StartTimes] :
        SameTimes \/ \A x, y \in Tids : ts[x] = ts[y] => x = y}

Init ==
    /\ start_ts \in genStartTimestamp
    /\ read_nodes = [x \in Tids |-> {}]
    /\ write_nodes = [x \in Tids |-> {}]
    /\ written = [x \in Tids |-> {}]
    /\ stage = [x \in Tids |-> "running"]
    /\ vote = [x \in Tids |-> TRUE]
    /\ call = [x \in Tids |-> NoCall]
    /\ queued = {}
    /\ asked = [x \in Tids |-> {}]
    /\ writes = [x \in Tids |-> 0]

Idle(tid) == call[tid] = NoCall

\* SimpleResolutionClient::request: nothing is sent when there is no node.
request(tid, nodes, c) ==
    IF nodes = {}
    THEN UNCHANGED <<call, queued>>
    ELSE /\ call' = [call EXCEPT ![tid] = c]
         /\ queued' = queued \cup {tid}

\* A key of _pend_writes is answered without a request.  Bound: one read of a key
\* per transaction.
read(tid, key) ==
    /\ stage[tid] = "running" /\ Idle(tid)
    /\ tid \in Readers /\ key \notin asked[tid]
    /\ key \notin written[tid]
    /\ request(tid, {getNode(key)}, [type |-> "TREAD", key |-> key])
    /\ read_nodes' = [read_nodes EXCEPT ![tid] = @ \cup {getNode(key)}]
    /\ asked' = [asked EXCEPT ![tid] = @ \cup {key}]
    /\ UNCHANGED <<start_ts, write_nodes, written, stage, writes, vote>>

write(tid, key) ==
    /\ stage[tid] = "running" /\ Idle(tid)
    /\ tid \in Writers /\ writes[tid] < MaxWrites
    /\ request(tid, {getNode(key)}, [type |-> "TWRITE", key |-> key])
    /\ written' = [written EXCEPT ![tid] = @ \cup {key}]
    /\ write_nodes' = [write_nodes EXCEPT ![tid] = @ \cup {getNode(key)}]
    /\ writes' = [writes EXCEPT ![tid] = @ + 1]
    /\ UNCHANGED <<start_ts, read_nodes, stage, asked, vote>>

\* commit() and abort() send the first phase to _write_nodes...
firstPhase(tid, s) ==
    /\ stage[tid] = "running" /\ Idle(tid)
    /\ stage' = [stage EXCEPT ![tid] = s]
    /\ vote' = [vote EXCEPT ![tid] = TRUE]
    /\ request(tid, write_nodes[tid], [type |-> "TP1C"])
    /\ UNCHANGED <<start_ts, read_nodes, write_nodes, written, asked, writes>>

commit(tid) == firstPhase(tid, "commit")
abort(tid)  == tid \in Quitters /\ firstPhase(tid, "abort")

\* Mutant: the second phase does not wait for the answer to the first.
secondPhase_Hasty(tid) ==
    /\ stage[tid] \in {"commit", "abort"} /\ tid \notin queued
    /\ stage' = [stage EXCEPT ![tid] = "end"]
    /\ vote' = [vote EXCEPT ![tid] = @ /\ stage[tid] = "commit"]
    /\ request(tid, write_nodes[tid] \cup read_nodes[tid], [type |-> "TP2C"])
    /\ UNCHANGED <<start_ts, read_nodes, write_nodes, written, asked, writes>>

\* ...and, once it is answered, the second one to all nodes; abort() votes no
\* whatever the answer was.
secondPhase(tid) ==
    /\ stage[tid] \in {"commit", "abort"} /\ Idle(tid)
    /\ stage' = [stage EXCEPT ![tid] = "end"]
    /\ vote' = [vote EXCEPT ![tid] = @ /\ stage[tid] = "commit"]
    /\ request(tid, write_nodes[tid] \cup read_nodes[tid], [type |-> "TP2C"])
    /\ UNCHANGED <<start_ts, read_nodes, write_nodes, written, asked, writes>>

\* syncRPC fails before the request reaches the server: the body of the retry
\* loop returns, and the coordinator goes on.
loseRequest(tid) ==
    /\ tid \in Lossy /\ tid \in queued
    /\ call[tid].type \in {"TREAD", "TWRITE"}
    /\ call' = [call EXCEPT ![tid] = NoCall]
    /\ queued' = queued \ {tid}
    /\ UNCHANGED <<progVars, vote>>

\* commit() or abort() has returned.
Returned(tid) == stage[tid] = "end" /\ Idle(tid)

Step(tid) ==
    \/ \E key \in Keys : read(tid, key) \/ write(tid, key)
    \/ commit(tid)
    \/ abort(tid)
    \/ secondPhase(tid)
    \/ loseRequest(tid)
=============================================================================
