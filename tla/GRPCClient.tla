------------------------------ MODULE GRPCClient ------------------------------
(***************************************************************************)
(* The clients' end of the remote calls: the threads of a program run      *)
(* coordinators over one SimpleResolutionClient and one GRPCClient.  The   *)
(* shell is the only program of the repository that sends requests, and    *)
(* has one thread.  Requests of the types in Sync use syncRPC, which are   *)
(* the reads and writes of SimpleResolutionClient; the others use asyncRPC *)
(* and waitAsyncReply.                                                     *)
(*                                                                         *)
(* There is one server, so one address, one stub and one message for each  *)
(* request.                                                                *)
(***************************************************************************)
EXTENDS Naturals

CONSTANTS
    Threads,    \* the client threads, each with one coordinator at a time
    Processes,  \* the client programs
    ProcessOf,  \* the program each thread belongs to
    Calls,      \* the remote calls
    TypeOf,     \* the type of the request of each call
    Sync,       \* the types of the requests made with syncRPC
    Fallible,   \* the types of the requests whose RPC may fail
    MaxTag,     \* bound on the tags a program uses
    None        \* no thread, no call

VARIABLES
    sent,            \* the requests that no handler of the server has received
    answered,        \* the calls whose reply the server has written out
    failed,          \* the calls whose RPC failed
    returned,        \* history: the calls that returned with a reply
    pc,              \* where a thread is in SimpleResolutionClient::request
    call,            \* the call it makes, or made last
    stub,            \* the programs with an entry in _address_to_stub
    mutex1,          \* the thread that holds _mutex1 of a GRPCClient
    mutex2,          \* the thread that holds _mutex2 of a GRPCClient
    tag_mutex,       \* the thread that holds _mutex2 of a SimpleResolutionClient
    next_tag,        \* _tag of a SimpleResolutionClient
    tag,             \* the local variable tag of a thread
    rpc_tag,         \* the argument tag of its asyncRPC
    tag_to_handler,  \* _tag_to_handler: the call a handler is for, None if null
    drained          \* the failed calls whose completion queue has been emptied

mutexVars == <<mutex1, mutex2, tag_mutex>>
tagVars == <<next_tag, tag, rpc_tag, tag_to_handler>>
clientVars == <<failed, returned, pc, call, stub, mutexVars, tagVars, drained>>

Tags == 1 .. MaxTag

\* _tag starts at 135643 and counts up; the model counts the requests from 1.
Init ==
    /\ failed = {}
    /\ returned = {}
    /\ pc = [t \in Threads |-> "idle"]
    /\ call = [t \in Threads |-> None]
    /\ stub = {}
    /\ mutex1 = [p \in Processes |-> None]
    /\ mutex2 = [p \in Processes |-> None]
    /\ tag_mutex = [p \in Processes |-> None]
    /\ next_tag = [p \in Processes |-> 1]
    /\ tag = [t \in Threads |-> 0]
    /\ rpc_tag = [t \in Threads |-> 0]
    /\ tag_to_handler = [p \in Processes |-> [n \in Tags |-> None]]
    /\ drained = {}

Goto(t, from, to) == pc[t] = from /\ pc' = [pc EXCEPT ![t] = to]

Free(mutex, t)    == mutex[ProcessOf[t]] = None
Lock(mutex, t)    == Free(mutex, t) /\ mutex' = [mutex EXCEPT ![ProcessOf[t]] = t]
Unlock(mutex, t)  == mutex' = [mutex EXCEPT ![ProcessOf[t]] = None]

\* GRPCClient::makeStub locks and unlocks _mutex1.
makeStub(t) == Free(mutex1, t) /\ stub' = stub \cup {ProcessOf[t]}

\* GRPCClient::getStub
getStub(t) == Free(mutex1, t)

\* The request a call stands for, made from its arguments, leaves.
Send(c) == sent' = sent \cup {c}

\* The request does not reach the server; the status of the RPC is not OK.
fail(c) ==
    /\ c \in sent /\ TypeOf[c] \in Fallible
    /\ sent' = sent \ {c}
    /\ failed' = failed \cup {c}
    /\ UNCHANGED <<answered, returned, pc, call, stub, mutexVars, tagVars, drained>>

-----------------------------------------------------------------------------
(* syncRPC                                                                  *)

beginSync(t, c) ==
    /\ TypeOf[c] \in Sync
    /\ Goto(t, "idle", "syncRPC")
    /\ call' = [call EXCEPT ![t] = c]
    /\ makeStub(t)
    /\ UNCHANGED <<sent, answered, failed, returned, mutexVars, tagVars, drained>>

\* The blocking call is made with _mutex1 locked.
callSync(t) ==
    /\ Goto(t, "syncRPC", "blocked")
    /\ Lock(mutex1, t)
    /\ Send(call[t])
    /\ UNCHANGED <<answered, failed, returned, call, stub, mutex2, tag_mutex, tagVars, drained>>

\* Mutant: the call returns without its reply.
returnSync_Early(t) ==
    /\ Goto(t, "blocked", "idle")
    /\ returned' = returned \cup {call[t]}
    /\ Unlock(mutex1, t)
    /\ UNCHANGED <<sent, answered, failed, call, stub, mutex2, tag_mutex, tagVars, drained>>

returnSync(t) ==
    /\ Goto(t, "blocked", "idle")
    /\ call[t] \in answered
    /\ returned' = returned \cup {call[t]}
    /\ Unlock(mutex1, t)
    /\ UNCHANGED <<sent, answered, failed, call, stub, mutex2, tag_mutex, tagVars, drained>>

-----------------------------------------------------------------------------
(* asyncRPC and waitAsyncReply                                              *)

\* Mutant: the resolution client does not lock its _mutex2.
beginAsync_NoMutex(t, c) ==
    /\ TypeOf[c] \notin Sync
    /\ Goto(t, "idle", "asyncRPC")
    /\ call' = [call EXCEPT ![t] = c]
    /\ tag' = [tag EXCEPT ![t] = next_tag[ProcessOf[t]]]
    /\ UNCHANGED <<sent, answered, failed, returned, stub, mutexVars, next_tag, rpc_tag,
                   tag_to_handler, drained>>

\* Step Two of a commit phase: tag = _tag, with _mutex2 locked.
beginAsync(t, c) ==
    /\ TypeOf[c] \notin Sync
    /\ Goto(t, "idle", "asyncRPC")
    /\ call' = [call EXCEPT ![t] = c]
    /\ Lock(tag_mutex, t)
    /\ tag' = [tag EXCEPT ![t] = next_tag[ProcessOf[t]]]
    /\ UNCHANGED <<sent, answered, failed, returned, stub, mutex1, mutex2, next_tag, rpc_tag,
                   tag_to_handler, drained>>

\* asyncRPC(_tag++).  Bound: MaxTag requests.
callAsync(t) ==
    /\ Goto(t, "asyncRPC", "getStub")
    /\ LET p == ProcessOf[t]
       IN  /\ next_tag[p] \in Tags
           /\ rpc_tag' = [rpc_tag EXCEPT ![t] = next_tag[p]]
           /\ next_tag' = [next_tag EXCEPT ![p] = @ + 1]
    /\ makeStub(t)
    /\ UNCHANGED <<sent, answered, failed, returned, call, mutexVars, tag, tag_to_handler, drained>>

\* The constructor of the handler, of any of the four types.
RequestHandler(c, t) == getStub(t) /\ Send(c)

newHandler(t) ==
    /\ Goto(t, "getStub", "insert")
    /\ RequestHandler(call[t], t)
    /\ UNCHANGED <<answered, failed, returned, call, stub, mutexVars, tagVars, drained>>

insertHandler(t) ==
    /\ Goto(t, "insert", "waitAsyncReply")
    /\ Free(mutex2, t)
    /\ tag_to_handler' = [tag_to_handler EXCEPT ![ProcessOf[t]][rpc_tag[t]] = call[t]]
    /\ rpc_tag' = [rpc_tag EXCEPT ![t] = 0]
    /\ Unlock(tag_mutex, t)
    /\ UNCHANGED <<sent, answered, failed, returned, call, stub, mutex1, mutex2, next_tag, tag, drained>>

\* Step Three: waitAsyncReply blocks in proceed() with _mutex2 locked.
waitAsyncReply(t) ==
    /\ Goto(t, "waitAsyncReply", "proceed")
    /\ Lock(mutex2, t)
    /\ UNCHANGED <<sent, answered, failed, returned, call, stub, mutex1, tag_mutex, tagVars, drained>>

\* The handler a thread waits for.
Handler(t) == tag_to_handler[ProcessOf[t]][tag[t]]

\* proceed() returns with the next event of the handler's own completion queue:
\* that of one of the calls c.
proceed(t, c, then) == Goto(t, "proceed", then) /\ Handler(t) \in c

\* Mutant: _mutex2 stays locked.
returnAsync_KeepsMutex(t) ==
    /\ proceed(t, answered, "idle")
    /\ tag_to_handler' = [tag_to_handler EXCEPT ![ProcessOf[t]][tag[t]] = None]
    /\ returned' = returned \cup {call[t]}
    /\ tag' = [tag EXCEPT ![t] = 0]
    /\ UNCHANGED <<sent, answered, failed, call, stub, mutexVars, next_tag, rpc_tag, drained>>

\* The handler leaves the map, where delete puts a null pointer in its place.
returnAsync(t) ==
    /\ proceed(t, answered, "idle")
    /\ tag_to_handler' = [tag_to_handler EXCEPT ![ProcessOf[t]][tag[t]] = None]
    /\ returned' = returned \cup {call[t]}
    /\ tag' = [tag EXCEPT ![t] = 0]
    /\ Unlock(mutex2, t)
    /\ UNCHANGED <<sent, answered, failed, call, stub, mutex1, tag_mutex, next_tag, rpc_tag, drained>>

\* A failed RPC is waited for again, but its completion queue has no further event:
\* the next proceed() never returns.
failAsync(t) ==
    /\ proceed(t, failed \ drained, "waitAsyncReply")
    /\ drained' = drained \cup {Handler(t)}
    /\ Unlock(mutex2, t)
    /\ UNCHANGED <<sent, answered, failed, returned, call, stub, mutex1, tag_mutex, tagVars>>

Step(t) ==
    \/ callSync(t)
    \/ returnSync(t)
    \/ callAsync(t)
    \/ newHandler(t)
    \/ insertHandler(t)
    \/ waitAsyncReply(t)
    \/ returnAsync(t)
    \/ failAsync(t)
=============================================================================
