---------------------------------- MODULE RPC ----------------------------------
(***************************************************************************)
(* What the coordinators and the server assume of the remote calls between *)
(* them: a request is handed to the server at most once, it is answered at *)
(* most once, and a call returns only after the server answered that call. *)
(***************************************************************************)
CONSTANT Calls  \* the calls the clients make

VARIABLE stage  \* how far each call is

Stages == {"unsent", "sent", "lost", "taken", "answered", "returned"}

Init == stage = [c \in Calls |-> "unsent"]

Move(c, from, to) ==
    /\ stage[c] = from
    /\ stage' = [stage EXCEPT ![c] = to]

\* RPCClient: the request leaves, and may fail to reach the server.
send(c) == Move(c, "unsent", "sent")
lose(c) == Move(c, "sent", "lost")

\* RPCServer: the request is handed out, and its reply is sent.
nextRequest(c) == Move(c, "sent", "taken")
sendReply(c)   == Move(c, "taken", "answered")

\* RPCClient: syncRPC or waitAsyncReply returns with the reply.
return(c) == Move(c, "answered", "returned")

Next == \E c \in Calls :
    send(c) \/ lose(c) \/ nextRequest(c) \/ sendReply(c) \/ return(c)

Spec == Init /\ [][Next]_stage
=============================================================================
