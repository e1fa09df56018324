------------------------------ MODULE RemoteCalls ------------------------------
(***************************************************************************)
(* The remote calls of client programs to ServerMain: GRPCClient at one    *)
(* end, GRPCServer at the other.  The threads of a program share its       *)
(* GRPCClient and its SimpleResolutionClient, and each runs one            *)
(* transaction after the other.  The shell is such a program, with one     *)
(* thread; the mutexes of the two classes are there for several.           *)
(*                                                                         *)
(* Of the server proper only what shows through its replies is here: a     *)
(* read may wait for a transaction between the two phases of its commit,   *)
(* and is answered when the second phase runs.                             *)
(***************************************************************************)
EXTENDS Integers, Sequences, FiniteSets, Functions

CONSTANTS
    Workers, Threads, Processes, ProcessOf, Sync, Fallible, MaxTag, None,
    MaxIds,   \* bound on the transactions of a program
    Commands  \* the reads and writes of each transaction, at least one, in their order

\* A coordinator is named after its program and its _tid.
Coordinators == Processes \X (0 .. MaxIds - 1)

\* The requests of a coordinator: read() and write() make one each, commit() and
\* abort() the first phase, to the nodes it has written to, and the second.
Requests == [k \in Coordinators |->
    Commands[k] \o IF "TWRITE" \in Range(Commands[k]) THEN <<"TP1C", "TP2C">> ELSE <<"TP2C">>]

Calls == UNION {{k} \X DOMAIN Requests[k] : k \in Coordinators}
TypeOf == [c \in Calls |-> Requests[c[1]][c[2]]]

ASSUME RemoteCallsAssumption ==
    /\ ProcessOf \in [Threads -> Processes]
    /\ Sync \subseteq {"TREAD", "TWRITE", "TP1C", "TP2C"}
    /\ Fallible \cap Sync = {}
    /\ MaxTag \in Nat /\ MaxIds \in Nat
    /\ Commands \in [Coordinators -> Seq({"TREAD", "TWRITE"}) \ {<<>>}]
    /\ None \notin Threads \cup Coordinators \cup Calls

VARIABLES
    sent, answered,
    prepared, status, finishing, cq, request_queue, reply_queue, worker, rid, owes, exited,
    failed, returned, pc, call, stub, mutex1, mutex2, tag_mutex, next_tag, tag, rpc_tag,
    tag_to_handler, drained,
    taken,      \* history: how often the request of a call was handed to a worker
    cur_id,     \* _cur_id of the SimpleTransactionIDGenerator of a program
    coord,      \* the coordinator a thread has made last
    prepares,   \* the coordinators whose transaction is between its two commit phases
    waits_for   \* the coordinator whose transaction a read waits for

Server == INSTANCE GRPCServer
Client == INSTANCE GRPCClient

RequestType == Server!RequestType

messageVars == <<sent, answered>>
serverVars == <<prepared, status, finishing, cq, request_queue, reply_queue, worker, rid, owes, exited>>
clientVars == <<failed, returned, pc, call, stub, mutex1, mutex2, tag_mutex, next_tag, tag, rpc_tag,
                tag_to_handler, drained>>
mainVars == <<cur_id, coord>>
eventVars == <<prepares, waits_for>>
vars == <<messageVars, serverVars, clientVars, taken, mainVars, eventVars>>

Init ==
    /\ sent = {}
    /\ answered = {}
    /\ Server!Init
    /\ Client!Init
    /\ taken = [c \in Calls |-> 0]
    /\ cur_id = [p \in Processes |-> 0]
    /\ coord = [t \in Threads |-> None]
    /\ prepares = {}
    /\ waits_for = [c \in Calls |-> None]

-----------------------------------------------------------------------------
(* The transactions of a program                                            *)

NextCall(t) == <<coord[t], IF call[t] = None THEN 1 ELSE call[t][2] + 1>>

\* The thread has brought its transaction to its end, or has none yet.
Waiting(t) == pc[t] = "idle" /\ (coord[t] = None \/ NextCall(t) \notin Calls)

\* A new Coordinator, which draws its _tid.  Bound: MaxIds transactions.
begin(t) ==
    /\ Waiting(t)
    /\ LET p == ProcessOf[t]
       IN  /\ cur_id[p] < MaxIds
           /\ coord' = [coord EXCEPT ![t] = <<p, cur_id[p]>>]
           /\ cur_id' = [cur_id EXCEPT ![p] = @ + 1]
    /\ call' = [call EXCEPT ![t] = None]
    /\ UNCHANGED <<messageVars, serverVars, failed, returned, pc, stub, mutex1, mutex2, tag_mutex,
                   next_tag, tag, rpc_tag, tag_to_handler, drained, taken, eventVars>>

\* The next request of the coordinator.
request(t) ==
    /\ coord[t] # None /\ NextCall(t) \in Calls
    /\ Client!beginSync(t, NextCall(t)) \/ Client!beginAsync(t, NextCall(t))
    /\ UNCHANGED <<serverVars, taken, mainVars, eventVars>>

clientStep(t) == Client!Step(t) /\ UNCHANGED <<serverVars, taken, mainVars, eventVars>>

-----------------------------------------------------------------------------
(* The events of the server                                                 *)

\* ReadEvent::run is granted its lock, or waits for one of the transactions that
\* hold locks.
runRead(w) ==
    /\ TypeOf[rid[w]] = "TREAD"
    /\ \/ Server!run(w, {rid[w]}) /\ UNCHANGED waits_for
       \/ \E k \in prepares :
             /\ Server!run(w, {})
             /\ waits_for' = [waits_for EXCEPT ![rid[w]] = k]
    /\ UNCHANGED prepares

\* WriteEvent::run takes no lock.
runWrite(w) ==
    /\ TypeOf[rid[w]] = "TWRITE"
    /\ Server!run(w, {rid[w]})
    /\ UNCHANGED eventVars

\* P1CEvent::run takes locks, all or some of them, and does not wait for one.
runP1C(w) ==
    /\ TypeOf[rid[w]] = "TP1C"
    /\ Server!run(w, {rid[w]})
    /\ prepares' = prepares \cup {rid[w][1]}
    /\ UNCHANGED waits_for

\* P2CEvent::run: freeze or unlock runs the reads that wait, which are answered or
\* wait for another transaction.
runP2C(w) ==
    /\ TypeOf[rid[w]] = "TP2C"
    /\ LET k     == rid[w][1]
           woken == {c \in Calls : waits_for[c] = k}
       IN  /\ prepares' = prepares \ {k}
           /\ \E again \in [woken -> prepares' \cup {None}] :
                 /\ waits_for' = [c \in Calls |-> IF c \in woken THEN again[c] ELSE waits_for[c]]
                 /\ Server!run(w, {rid[w]} \cup {c \in woken : again[c] = None})

runEvent(w) ==
    /\ rid[w] # None
    /\ runRead(w) \/ runWrite(w) \/ runP1C(w) \/ runP2C(w)
    /\ UNCHANGED <<messageVars, clientVars, taken, mainVars>>

serverStep(w) ==
    /\ Server!Step(w)
    /\ taken' = IF worker[w] = "erase request" THEN [taken EXCEPT ![rid[w]] = @ + 1] ELSE taken
    /\ UNCHANGED <<clientVars, mainVars, eventVars>>

-----------------------------------------------------------------------------

deliver(c) ==
    /\ Server!receive(c) \/ Server!complete(c)
    /\ UNCHANGED <<clientVars, taken, mainVars, eventVars>>

fail(c) == Client!fail(c) /\ UNCHANGED <<serverVars, taken, mainVars, eventVars>>

Next ==
    \/ \E t \in Threads : begin(t) \/ request(t) \/ clientStep(t)
    \/ \E w \in Workers : runEvent(w) \/ serverStep(w)
    \/ \E c \in Calls : deliver(c) \/ fail(c)

Spec == Init /\ [][Next]_vars

\* Threads and workers are scheduled, and gRPC delivers what it accepts; an RPC need
\* not fail, and a program need not go on with a transaction.
Fairness ==
    /\ \A t \in Threads : WF_vars(clientStep(t))
    /\ \A w \in Workers : WF_vars(runEvent(w)) /\ WF_vars(serverStep(w))
    /\ \A c \in Calls : WF_vars(deliver(c))

FairSpec == Spec /\ Fairness

-----------------------------------------------------------------------------
(* Properties                                                               *)

\* The values the variables take; a worker has a request or a reply in hand except
\* where getEvent looks for one.
TypeOK ==
    /\ sent \cup answered \cup failed \cup returned \cup finishing \cup cq \cup drained \subseteq Calls
    /\ prepared \in [RequestType -> Nat]
    /\ status \in [Calls -> Server!RequestStatus]
    /\ request_queue \in Seq(Calls) /\ reply_queue \in Seq(Calls)
    /\ worker \in [Workers -> {"requests", "replies", "erase request", "erase reply", "run", "reply",
                                "delete"}]
    /\ rid \in [Workers -> Calls \cup {None}]
    /\ \A w \in Workers : rid[w] = None <=> worker[w] \in {"requests", "replies"}
    /\ owes \in [Workers -> SUBSET Calls]
    /\ exited \in {"no", "status", "undefined"}
    /\ pc \in [Threads -> {"idle", "syncRPC", "blocked", "asyncRPC", "getStub", "insert",
                            "waitAsyncReply", "proceed"}]
    /\ call \in [Threads -> Calls \cup {None}]
    /\ mutex1 \in [Processes -> Threads \cup {None}]
    /\ mutex2 \in [Processes -> Threads \cup {None}]
    /\ tag_mutex \in [Processes -> Threads \cup {None}]
    /\ cur_id \in [Processes -> 0 .. MaxIds]
    /\ coord \in [Threads -> Coordinators \cup {None}]
    /\ prepares \subseteq Coordinators
    /\ waits_for \in [Calls -> Coordinators \cup {None}]

\* A thread sent the request of the call and waits for its reply.
Underway == {"blocked", "insert", "waitAsyncReply", "proceed"}
Made(c) == \E t \in Threads : call[t] = c /\ pc[t] \in Underway

\* How far a call is in the terms of RPC; a request handed out twice has no place
\* there.
Stage(c) ==
    IF c \in failed THEN "lost"
    ELSE IF c \in returned THEN "returned"
    ELSE IF c \in answered THEN "answered"
    ELSE IF taken[c] > 1 THEN "taken twice"
    ELSE IF taken[c] = 1 THEN "taken"
    ELSE IF Made(c) THEN "sent" ELSE "unsent"

\* The completion queue, the handlers and their queues at the server, and the
\* mutexes, tags and handlers of the clients, together implement remote calls: every
\* request is handed out at most once, and a call returns only with its own reply.
AsRPC == INSTANCE RPC WITH stage <- [c \in Calls |-> Stage(c)]
ImplementsRPC == AsRPC!Spec

\* No status check of a handler ends the server: its request is taken, answered and
\* deleted in that order, once each, however events and replies interleave.
StatusChecksPass == exited # "status"

\* The server always listens for every type of request: either a handler waits, or
\* the event that will prepare the next one has not been read.
AlwaysListening ==
    \A type \in RequestType :
        prepared[type] + Cardinality({c \in cq : status[c] = "PROCESS" /\ TypeOf[c] = type}) = 1

\* gRPC, a queue, a worker or a waiting event has a pointer to the handler.
Referenced(c) ==
    \/ c \in cq \cup finishing \cup Range(request_queue) \cup Range(reply_queue)
    \/ \E w \in Workers : (rid[w] = c /\ worker[w] # "requests") \/ c \in owes[w]
    \/ waits_for[c] # None

\* No handler is deleted while something still has a pointer to it.
NoDanglingHandler == \A c \in Calls : Referenced(c) => status[c] # "deleted"

\* waitAsyncReply waits for the handler of the thread's own request, although the
\* threads of a program draw their tags from one counter.
OwnHandler ==
    \A t \in Threads : pc[t] = "proceed" => Client!Handler(t) = call[t]

\* A thread waits a second time for a failed RPC, for ever and with _mutex2 locked.
WaitsForFailed(t) == pc[t] = "proceed" /\ Client!Handler(t) \in drained

\* The request of the call is sent, and neither lost nor a read that waits for a
\* transaction.
Pending(c) == Made(c) /\ c \notin failed /\ waits_for[c] = None

\* Every request that is sent returns with its reply, or waits for a transaction,
\* whatever the other threads do, unless one of them waits for a failed RPC: of the
\* calls, which are finitely many, none stays pending for ever.  The server forgets
\* no request, and no other mutex is held for ever.
EveryRequestEnds ==
    <>[]((\E t \in Threads : WaitsForFailed(t)) \/ \A c \in Calls : ~Pending(c))
=============================================================================
