------------------------------ MODULE GRPCServer ------------------------------
(***************************************************************************)
(* The server's end of the remote calls: GRPCServer as the worker threads  *)
(* of SimpleTServer::getEvent drive it.                                    *)
(*                                                                         *)
(* A RequestHandler waits for a request of its type; once it has one it is *)
(* named by the call it serves.  An event of the completion queue is the   *)
(* handler it was registered with, and what the event means is decided by  *)
(* the status of the handler when the event is read.                       *)
(***************************************************************************)
EXTENDS Naturals, Sequences

CONSTANTS
    Workers,  \* the threads that call getEvent
    Calls,    \* the remote calls
    TypeOf,   \* the type of the request of each call
    None      \* no call

VARIABLES
    sent,           \* the requests that no handler has received
    answered,       \* the calls whose reply is written out
    prepared,       \* the handlers of each type that wait for a request
    status,         \* _status of the handler of a call, or that it is deleted
    finishing,      \* the replies gRPC has not written out
    cq,             \* _queue: the handlers with an event to be read
    request_queue,  \* _request_queue
    reply_queue,    \* _reply_queue
    worker,         \* where in getEvent or in an event's run() a worker is
    rid,            \* its rid1 or rid2
    owes,           \* the replies the event it runs has yet to send
    exited          \* whether the process has ended, and why

handlerVars == <<prepared, status, finishing, cq>>
queueVars == <<request_queue, reply_queue>>
workerVars == <<worker, rid, owes>>
serverVars == <<handlerVars, queueVars, workerVars, exited>>

RequestType == {"TREAD", "TWRITE", "TP1C", "TP2C"}

\* The statuses a RequestHandler has after its constructor, and that it is deleted.
RequestStatus == {"PROCESS", "FINISH", "deleted"}

\* The constructor makes one handler of each type.  RequestHandler() sets CREATE,
\* but every subclass sets PROCESS at once, before a request is there.
Init ==
    /\ prepared = [type \in RequestType |-> 1]
    /\ status = [c \in Calls |-> "PROCESS"]
    /\ finishing = {}
    /\ cq = {}
    /\ request_queue = <<>>
    /\ reply_queue = <<>>
    /\ worker = [w \in Workers |-> "requests"]
    /\ rid = [w \in Workers |-> None]
    /\ owes = [w \in Workers |-> {}]
    /\ exited = "no"

At(w, place) == worker[w] = place /\ exited = "no"
Goto(w, place) == worker' = [worker EXCEPT ![w] = place]

\* The worker goes on, or enters the loop of getEvent again, where rid1 and rid2
\* are reset.
GotoOr(w, again, place) ==
    /\ Goto(w, IF again THEN "requests" ELSE place)
    /\ rid' = [rid EXCEPT ![w] = IF again THEN None ELSE @]

-----------------------------------------------------------------------------
(* gRPC                                                                     *)

\* A request goes to a handler that waits for its type; without one it is held.
receive(c) ==
    /\ c \in sent /\ prepared[TypeOf[c]] > 0
    /\ sent' = sent \ {c}
    /\ prepared' = [prepared EXCEPT ![TypeOf[c]] = @ - 1]
    /\ cq' = cq \cup {c}
    /\ UNCHANGED <<answered, status, finishing, queueVars, workerVars, exited>>

\* A reply is written out: the client has it, and Finish is complete.
complete(c) ==
    /\ c \in finishing
    /\ finishing' = finishing \ {c}
    /\ answered' = answered \cup {c}
    /\ cq' = cq \cup {c}
    /\ UNCHANGED <<sent, prepared, status, queueVars, workerVars, exited>>

-----------------------------------------------------------------------------
(* processAsyncQueue, and the first steps of the calls that begin with it   *)

\* Mutant: no handler is prepared for the next request of the type.
processAsyncQueue_Deaf(w) ==
    /\ At(w, "requests") \/ At(w, "replies")
    /\ \E c \in cq :
          /\ cq' = cq \ {c}
          /\ \/ /\ status[c] = "PROCESS"
                /\ request_queue' = Append(request_queue, c)
                /\ UNCHANGED reply_queue
             \/ /\ status[c] = "FINISH"
                /\ reply_queue' = Append(reply_queue, c)
                /\ UNCHANGED request_queue
    /\ UNCHANGED <<sent, answered, prepared, status, finishing, workerVars, exited>>

\* A new handler waits for the next request of the type.
prepareNextRequest(type) == prepared' = [prepared EXCEPT ![type] = @ + 1]

\* One turn of the loop of processAsyncQueue.
processAsyncQueue(w) ==
    /\ At(w, "requests") \/ At(w, "replies")
    /\ \E c \in cq :
          /\ cq' = cq \ {c}
          /\ \/ /\ status[c] = "PROCESS"
                /\ request_queue' = Append(request_queue, c)
                /\ prepareNextRequest(TypeOf[c])
                /\ UNCHANGED reply_queue
             \/ /\ status[c] = "FINISH"
                /\ reply_queue' = Append(reply_queue, c)
                /\ UNCHANGED <<request_queue, prepared>>
    /\ UNCHANGED <<sent, answered, status, finishing, workerVars, exited>>

\* The loop ends when the completion queue is empty; then the vector is tested and
\* its first element read.
Front(w, place, queue, found, otherwise) ==
    /\ At(w, place) /\ cq = {}
    /\ IF queue = <<>>
       THEN Goto(w, otherwise) /\ UNCHANGED rid
       ELSE Goto(w, found) /\ rid' = [rid EXCEPT ![w] = Head(queue)]
    /\ UNCHANGED <<sent, answered, handlerVars, queueVars, owes, exited>>

asyncNextRequest(w)        == Front(w, "requests", request_queue, "erase request", "replies")
asyncNextCompletedReply(w) == Front(w, "replies", reply_queue, "erase reply", "requests")

-----------------------------------------------------------------------------
(* The rest of asyncNextRequest and asyncNextCompletedReply                 *)

\* A status check of a handler ends the process unless it finds what it expects.
Check(c, expected) == IF status[c] = expected THEN "no" ELSE "status"

\* The vectors are shared by the workers without a mutex, so that one may be empty
\* here: erase then moves memory that is not there.
Erase(queue) == IF queue = <<>> THEN <<>> ELSE Tail(queue)
EraseEnds(queue) == IF queue = <<>> THEN "undefined" ELSE "no"

\* Both give the worker what it asks for only in PROCESS.
getRequest(c) == Check(c, "PROCESS")
getArgs(c)    == Check(c, "PROCESS")

eraseRequest(w) ==
    /\ At(w, "erase request")
    /\ request_queue' = Erase(request_queue)
    /\ exited' = CASE EraseEnds(request_queue) # "no" -> EraseEnds(request_queue)
                 [] getRequest(rid[w]) # "no" -> getRequest(rid[w])
                 [] OTHER -> getArgs(rid[w])
    /\ Goto(w, "run")
    /\ UNCHANGED <<sent, answered, handlerVars, reply_queue, rid, owes>>

\* Mutant: the handler stays in the queue of replies.
eraseReply_Keep(w) ==
    /\ At(w, "erase reply")
    /\ exited' = EraseEnds(reply_queue)
    /\ Goto(w, "delete")
    /\ UNCHANGED <<sent, answered, handlerVars, queueVars, rid, owes>>

eraseReply(w) ==
    /\ At(w, "erase reply")
    /\ reply_queue' = Erase(reply_queue)
    /\ exited' = EraseEnds(reply_queue)
    /\ Goto(w, "delete")
    /\ UNCHANGED <<sent, answered, handlerVars, request_queue, rid, owes>>

-----------------------------------------------------------------------------
(* The event the worker runs, and its replies                               *)

\* The event of the request in rid[w] will answer the calls in replies: none if the
\* read waits for a lock, others too if a second phase wakes them.
run(w, replies) ==
    /\ At(w, "run")
    /\ owes' = [owes EXCEPT ![w] = replies]
    /\ GotoOr(w, replies = {}, "reply")
    /\ UNCHANGED <<sent, answered, handlerVars, queueVars, exited>>

\* FINISH, and the reply goes out.
setReply(c) ==
    /\ exited' = Check(c, "PROCESS")
    /\ status' = [status EXCEPT ![c] = "FINISH"]
    /\ finishing' = finishing \cup {c}

\* Mutant: the handler is put in the queue of replies when the reply is sent, and
\* again when it is written out.
sendReply_Early(w, c) ==
    /\ At(w, "reply")
    /\ c \in owes[w] /\ (c = rid[w] => owes[w] = {c})
    /\ owes' = [owes EXCEPT ![w] = @ \ {c}]
    /\ setReply(c)
    /\ reply_queue' = Append(reply_queue, c)
    /\ GotoOr(w, owes[w] = {c}, "reply")
    /\ UNCHANGED <<sent, answered, prepared, cq, request_queue>>

\* The woken calls are answered first.
sendReply(w, c) ==
    /\ At(w, "reply")
    /\ c \in owes[w] /\ (c = rid[w] => owes[w] = {c})
    /\ owes' = [owes EXCEPT ![w] = @ \ {c}]
    /\ setReply(c)
    /\ GotoOr(w, owes[w] = {c}, "reply")
    /\ UNCHANGED <<sent, answered, prepared, cq, queueVars>>

\* Mutant: getEvent does not reset rid2.
deleteRequest_KeepsRid(w) ==
    /\ At(w, "delete")
    /\ exited' = Check(rid[w], "FINISH")
    /\ status' = [status EXCEPT ![rid[w]] = "deleted"]
    /\ Goto(w, "requests")
    /\ UNCHANGED <<sent, answered, prepared, finishing, cq, queueVars, rid, owes>>

\* With ~RequestHandler.
deleteRequest(w) ==
    /\ At(w, "delete")
    /\ exited' = Check(rid[w], "FINISH")
    /\ status' = [status EXCEPT ![rid[w]] = "deleted"]
    /\ GotoOr(w, TRUE, "delete")
    /\ UNCHANGED <<sent, answered, prepared, finishing, cq, queueVars, owes>>

Step(w) ==
    \/ processAsyncQueue(w)
    \/ asyncNextRequest(w)
    \/ asyncNextCompletedReply(w)
    \/ eraseRequest(w)
    \/ eraseReply(w)
    \/ \E c \in Calls : sendReply(w, c)
    \/ deleteRequest(w)
=============================================================================
