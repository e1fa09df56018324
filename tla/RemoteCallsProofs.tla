-------------------------- MODULE RemoteCallsProofs --------------------------
(***************************************************************************)
(* Proofs about the remote calls.  The types, the handlers that wait for   *)
(* requests and the tags of the clients are right for any number of        *)
(* workers.  With one worker no status check fails, no handler is used     *)
(* after it is deleted, and both ends together implement remote calls.     *)
(***************************************************************************)
EXTENDS RemoteCalls, FiniteSetTheorems, SequenceTheorems, TLAPS

-----------------------------------------------------------------------------
(* Queues without repetitions                                               *)

Distinct(s) == \A i, j \in 1 .. Len(s) : s[i] = s[j] => i = j

LEMMA AppendFacts ==
    ASSUME NEW S, NEW s \in Seq(S), NEW e \in S
    PROVE  /\ Append(s, e) \in Seq(S)
           /\ Range(Append(s, e)) = Range(s) \cup {e}
           /\ Distinct(s) /\ e \notin Range(s) => Distinct(Append(s, e))
<1>1. /\ Append(s, e) \in Seq(S) /\ Len(Append(s, e)) = Len(s) + 1 /\ Len(s) \in Nat
      /\ \A i \in 1 .. Len(s) : Append(s, e)[i] = s[i]
      /\ Append(s, e)[Len(s) + 1] = e
  OBVIOUS
<1>2. /\ Range(s) = {s[i] : i \in 1 .. Len(s)}
      /\ Range(Append(s, e)) = {Append(s, e)[i] : i \in 1 .. Len(Append(s, e))}
  BY <1>1, RangeEquality
<1>3. Range(Append(s, e)) = Range(s) \cup {e}
  BY <1>1, <1>2
<1>4. ASSUME Distinct(s), e \notin Range(s) PROVE Distinct(Append(s, e))
  BY <1>1, <1>2, <1>4 DEF Distinct
<1> QED
  BY <1>1, <1>3, <1>4

LEMMA TailFacts ==
    ASSUME NEW S, NEW s \in Seq(S), s # <<>>
    PROVE  /\ Head(s) \in S /\ Tail(s) \in Seq(S)
           /\ Range(s) = Range(Tail(s)) \cup {Head(s)}
           /\ Distinct(s) => Distinct(Tail(s)) /\ Head(s) \notin Range(Tail(s))
<1>1. /\ Head(s) \in S /\ Tail(s) \in Seq(S)
      /\ Len(s) \in Nat \ {0} /\ Len(Tail(s)) = Len(s) - 1 /\ Head(s) = s[1]
      /\ \A i \in 1 .. Len(Tail(s)) : Tail(s)[i] = s[i + 1]
  BY HeadTailProperties, EmptySeq
<1>2. /\ Range(s) = {s[i] : i \in 1 .. Len(s)}
      /\ Range(Tail(s)) = {Tail(s)[i] : i \in 1 .. Len(Tail(s))}
  BY <1>1, RangeEquality
<1>3. ASSUME NEW i \in 1 .. Len(s) PROVE s[i] \in Range(Tail(s)) \cup {Head(s)}
  <2>1. CASE i = 1
    BY <1>1, <2>1
  <2>2. CASE i # 1
    <3>1. i - 1 \in 1 .. Len(Tail(s)) /\ Tail(s)[i - 1] = s[i]
      BY <1>1, <2>2
    <3> QED
      BY <1>2, <3>1
  <2> QED
    BY <2>1, <2>2
<1>4. Range(Tail(s)) \cup {Head(s)} \subseteq Range(s)
  <2>1. \A i \in 1 .. Len(Tail(s)) : i + 1 \in 1 .. Len(s)
    BY <1>1
  <2>2. 1 \in 1 .. Len(s)
    BY <1>1
  <2> QED
    BY <1>1, <1>2, <2>1, <2>2
<1>5. ASSUME Distinct(s) PROVE Distinct(Tail(s)) /\ Head(s) \notin Range(Tail(s))
  BY <1>1, <1>2, <1>5 DEF Distinct
<1> QED
  BY <1>1, <1>2, <1>3, <1>4, <1>5

LEMMA EmptyRange == Range(<<>>) = {} /\ Distinct(<<>>)
<1>1. <<>> \in Seq({}) /\ Len(<<>>) = 0
  BY EmptySeq
<1>2. Range(<<>>) \in SUBSET {}
  BY <1>1, RangeOfSeq
<1> QED
  BY <1>1, <1>2 DEF Distinct

\* Counting up or down.
LEMMA Counting ==
    ASSUME NEW S, NEW f \in [S -> Nat], NEW s \in S
    PROVE  /\ [f EXCEPT ![s] = f[s] + 1] \in [S -> Nat]
           /\ f[s] > 0 => [f EXCEPT ![s] = f[s] - 1] \in [S -> Nat]
OBVIOUS

-----------------------------------------------------------------------------
(* Calls and their types                                                    *)

\* A coordinator makes a sequence of requests of the four types.
LEMMA RequestFacts ==
    /\ RequestType = {"TREAD", "TWRITE", "TP1C", "TP2C"}
    /\ \A k \in Coordinators : Requests[k] \in Seq(RequestType)
<1>1. RequestType = {"TREAD", "TWRITE", "TP1C", "TP2C"}
  BY DEF RequestType, Server!RequestType
<1>2. ASSUME NEW k \in Coordinators PROVE Requests[k] \in Seq(RequestType)
  <2>1. Commands[k] \in Seq(RequestType)
    BY <1>1, RemoteCallsAssumption
  <2>2. <<"TP1C", "TP2C">> \in Seq(RequestType) /\ <<"TP2C">> \in Seq(RequestType)
    BY <1>1
  <2>3. PICK phases \in Seq(RequestType) : Requests[k] = Commands[k] \o phases
    BY <2>2 DEF Requests
  <2> QED
    BY <2>1, <2>3
<1> QED
  BY <1>1, <1>2

LEMMA CallFacts ==
    /\ \A c \in Calls : /\ c # None /\ c = <<c[1], c[2]>>
                        /\ c[1] \in Coordinators /\ c[2] \in Nat
                        /\ TypeOf[c] \in RequestType
    /\ \A k \in Coordinators : k # None /\ k[1] \in Processes /\ k[2] \in Nat
    /\ \A t \in Threads : t # None /\ ProcessOf[t] \in Processes
<1>1. ASSUME NEW c \in Calls
      PROVE  c # None /\ c = <<c[1], c[2]>> /\ c[1] \in Coordinators /\ c[2] \in Nat
             /\ TypeOf[c] \in RequestType
  <2>1. PICK k \in Coordinators : c \in {k} \X DOMAIN Requests[k]
    BY DEF Calls
  <2>2. c = <<c[1], c[2]>> /\ c[1] = k /\ c[2] \in DOMAIN Requests[k]
    BY <2>1
  <2>3. c[2] \in Nat /\ Requests[k][c[2]] \in RequestType
    BY <2>2, RequestFacts
  <2>4. TypeOf[c] = Requests[k][c[2]]
    BY <2>2 DEF TypeOf
  <2> QED
    BY <2>2, <2>3, <2>4, RemoteCallsAssumption
<1>2. \A k \in Coordinators : k # None /\ k[1] \in Processes /\ k[2] \in Nat
  BY RemoteCallsAssumption DEF Coordinators
<1>3. \A t \in Threads : t # None /\ ProcessOf[t] \in Processes
  BY RemoteCallsAssumption
<1> QED
  BY <1>1, <1>2, <1>3

\* The request after the one a thread has made.
LEMMA NextCallFacts ==
    ASSUME NEW t \in Threads, call[t] \in Calls \cup {None}, NextCall(t) \in Calls
    PROVE  NextCall(t)[1] = coord[t] /\ (call[t] # None => NextCall(t)[2] > call[t][2])
<1>1. call[t] # None => call[t][2] \in Nat
  BY CallFacts
<1> QED
  BY <1>1 DEF NextCall

-----------------------------------------------------------------------------
(* The threads of the clients, their coordinators and calls                 *)

\* A program gives every _tid to one coordinator.
IdsOK ==
    /\ \A t \in Threads : coord[t] # None => coord[t][2] < cur_id[coord[t][1]]
    /\ \A t, u \in Threads : coord[t] # None /\ coord[t] = coord[u] => t = u

\* A thread makes calls of its coordinator.
CallersOK ==
    \A t \in Threads :
        /\ call[t] # None => coord[t] # None /\ call[t][1] = coord[t]
        /\ pc[t] # "idle" => call[t] # None

TagType ==
    /\ next_tag \in [Processes -> Nat]
    /\ tag \in [Threads -> Nat]
    /\ rpc_tag \in [Threads -> Nat]
    /\ tag_to_handler \in [Processes -> [Client!Tags -> Calls \cup {None}]]

\* From callAsync on the tag is the thread's own.
Tagged(t) == pc[t] \in {"getStub", "insert", "waitAsyncReply", "proceed"}

\* The handler of a call is where its thread looks for it.
TagOK(t) ==
    LET p == ProcessOf[t]
    IN  /\ pc[t] \in {"asyncRPC", "getStub", "insert"} => tag_mutex[p] = t
        /\ pc[t] = "asyncRPC" => tag[t] = next_tag[p]
        /\ pc[t] \in {"getStub", "insert"} => rpc_tag[t] = tag[t]
        /\ Tagged(t) => tag[t] \in Client!Tags /\ tag[t] < next_tag[p]
        /\ pc[t] \in {"waitAsyncReply", "proceed"} => tag_to_handler[p][tag[t]] = call[t]

SameTag(t, u) ==
    Tagged(t) /\ Tagged(u) /\ ProcessOf[t] = ProcessOf[u] /\ tag[t] = tag[u]

TagsOK ==
    /\ \A t \in Threads : TagOK(t)
    /\ \A t, u \in Threads : SameTag(t, u) => t = u

ClientInv ==
    TypeOK /\ taken \in [Calls -> Nat] /\ IdsOK /\ CallersOK /\ TagType /\ TagsOK

-----------------------------------------------------------------------------
(* Types                                                                    *)

MessageType ==
    /\ sent \subseteq Calls /\ answered \subseteq Calls /\ failed \subseteq Calls
    /\ returned \subseteq Calls /\ finishing \subseteq Calls /\ cq \subseteq Calls
    /\ drained \subseteq Calls

HandlerType ==
    /\ prepared \in [RequestType -> Nat]
    /\ status \in [Calls -> Server!RequestStatus]
    /\ request_queue \in Seq(Calls) /\ reply_queue \in Seq(Calls)
    /\ exited \in {"no", "status", "undefined"}

WorkerType ==
    /\ worker \in [Workers -> {"requests", "replies", "erase request", "erase reply", "run",
                                "reply", "delete"}]
    /\ rid \in [Workers -> Calls \cup {None}]
    /\ \A w \in Workers : rid[w] = None <=> worker[w] \in {"requests", "replies"}
    /\ owes \in [Workers -> SUBSET Calls]

EventType ==
    /\ prepares \subseteq Coordinators
    /\ waits_for \in [Calls -> Coordinators \cup {None}]

ThreadType ==
    /\ pc \in [Threads -> {"idle", "syncRPC", "blocked", "asyncRPC", "getStub", "insert",
                            "waitAsyncReply", "proceed"}]
    /\ call \in [Threads -> Calls \cup {None}]
    /\ mutex1 \in [Processes -> Threads \cup {None}]
    /\ mutex2 \in [Processes -> Threads \cup {None}]
    /\ tag_mutex \in [Processes -> Threads \cup {None}]
    /\ cur_id \in [Processes -> 0 .. MaxIds]
    /\ coord \in [Threads -> Coordinators \cup {None}]

LEMMA TypeParts ==
    TypeOK <=> MessageType /\ HandlerType /\ WorkerType /\ EventType /\ ThreadType
<1>1. TypeOK => MessageType /\ HandlerType /\ WorkerType /\ EventType /\ ThreadType
  BY DEF TypeOK, MessageType, HandlerType, WorkerType, EventType, ThreadType
<1>2. MessageType =>
        sent \cup answered \cup failed \cup returned \cup finishing \cup cq \cup drained \subseteq Calls
  BY DEF MessageType
<1>3. MessageType /\ HandlerType /\ WorkerType /\ EventType /\ ThreadType => TypeOK
  BY <1>2 DEF TypeOK, HandlerType, WorkerType, EventType, ThreadType
<1> QED
  BY <1>1, <1>3

LEMMA PrimedParts ==
    TypeOK' <=> MessageType' /\ HandlerType' /\ WorkerType' /\ EventType' /\ ThreadType'
BY TypeParts, PTL

\* What a thread of a client does leaves the server alone, and the reverse.
ClientActs == UNCHANGED <<serverVars, taken, eventVars>>
ServerActs == UNCHANGED <<clientVars, mainVars>>

LEMMA ClientTypes ==
    ASSUME TypeOK, ClientActs, MessageType', ThreadType'
    PROVE  TypeOK'
<1>1. MessageType /\ HandlerType /\ WorkerType /\ EventType /\ ThreadType
  BY TypeParts
<1>2. HandlerType' /\ WorkerType' /\ EventType'
  BY <1>1 DEF ClientActs, serverVars, eventVars, HandlerType, WorkerType, EventType
<1> QED
  BY <1>2, PrimedParts

\* The steps of a client thread keep the types.
LEMMA ClientTyped ==
    ASSUME ClientInv, NEW t \in Threads,
           begin(t) \/ request(t) \/ clientStep(t)
    PROVE  TypeOK' /\ TagType' /\ ClientActs
<1> DEFINE Goal == MessageType' /\ ThreadType' /\ TagType' /\ ClientActs
<1>0. PICK p \in Processes : p = ProcessOf[t]
  BY CallFacts
<1>1. /\ MessageType /\ ThreadType /\ TagType /\ TagOK(t)
      /\ pc[t] # "idle" => call[t] \in Calls
  <2>1. MessageType /\ ThreadType
    BY TypeParts DEF ClientInv
  <2> QED
    BY <2>1 DEF ThreadType, ClientInv, CallersOK, TagsOK
<1> USE DEF MessageType, ThreadType, TagType, ClientActs, serverVars, mainVars, Client!mutexVars,
            Client!tagVars, Client!Tags, Client!Goto, Client!Lock, Client!Free, Client!Unlock,
            Client!makeStub, Client!getStub, Client!Send, Client!RequestHandler, Client!proceed,
            Client!Handler, TagOK
<1>2. ASSUME begin(t) PROVE Goal
  <2>1. cur_id[p] \in 0 .. MaxIds /\ cur_id[p] < MaxIds /\ MaxIds \in Nat
    BY <1>0, <1>1, <1>2, RemoteCallsAssumption DEF begin
  <2>2. <<p, cur_id[p]>> \in Coordinators /\ cur_id[p] + 1 \in 0 .. MaxIds
    BY <2>1 DEF Coordinators
  <2>3. /\ coord' = [coord EXCEPT ![t] = <<p, cur_id[p]>>]
        /\ cur_id' = [cur_id EXCEPT ![p] = cur_id[p] + 1]
        /\ call' = [call EXCEPT ![t] = None]
        /\ UNCHANGED <<messageVars, serverVars, failed, returned, pc, stub, mutex1, mutex2, tag_mutex,
                       next_tag, tag, rpc_tag, tag_to_handler, drained, taken, eventVars>>
    BY <1>0, <1>2 DEF begin
  <2>4. MessageType' /\ ClientActs
    BY <1>1, <2>3 DEF messageVars, eventVars
  <2>5. TagType'
    BY <1>1, <2>3
  <2>6. ThreadType'
    BY <1>1, <2>2, <2>3
  <2> QED
    BY <2>4, <2>5, <2>6
<1>3. ASSUME request(t) PROVE Goal
  <2>1. PICK c \in Calls : c = NextCall(t)
    BY <1>3 DEF request
  <2>2. UNCHANGED <<serverVars, taken, mainVars, eventVars>>
    BY <1>3 DEF request
  <2>3. CASE Client!beginSync(t, c)
    BY <1>0, <1>1, <2>2, <2>3 DEF Client!beginSync
  <2>4. CASE Client!beginAsync(t, c)
    BY <1>0, <1>1, <2>2, <2>4 DEF Client!beginAsync
  <2> QED
    BY <1>3, <2>1, <2>3, <2>4 DEF request
<1>4. ASSUME Client!callSync(t), UNCHANGED <<serverVars, taken, mainVars, eventVars>> PROVE Goal
  BY <1>0, <1>1, <1>4 DEF Client!callSync
<1>5. ASSUME Client!returnSync(t), UNCHANGED <<serverVars, taken, mainVars, eventVars>> PROVE Goal
  BY <1>0, <1>1, <1>5 DEF Client!returnSync
<1>6. ASSUME Client!callAsync(t), UNCHANGED <<serverVars, taken, mainVars, eventVars>> PROVE Goal
  BY <1>0, <1>1, <1>6 DEF Client!callAsync
<1>7. ASSUME Client!newHandler(t), UNCHANGED <<serverVars, taken, mainVars, eventVars>> PROVE Goal
  BY <1>0, <1>1, <1>7 DEF Client!newHandler
<1>8. ASSUME Client!insertHandler(t), UNCHANGED <<serverVars, taken, mainVars, eventVars>> PROVE Goal
  BY <1>0, <1>1, <1>8 DEF Client!insertHandler
<1>9. ASSUME Client!waitAsyncReply(t), UNCHANGED <<serverVars, taken, mainVars, eventVars>> PROVE Goal
  BY <1>0, <1>1, <1>9 DEF Client!waitAsyncReply
<1>10. ASSUME Client!returnAsync(t), UNCHANGED <<serverVars, taken, mainVars, eventVars>> PROVE Goal
  BY <1>0, <1>1, <1>10 DEF Client!returnAsync
<1>11. ASSUME Client!failAsync(t), UNCHANGED <<serverVars, taken, mainVars, eventVars>> PROVE Goal
  BY <1>0, <1>1, <1>11 DEF Client!failAsync
<1>12. Goal
  BY <1>2, <1>3, <1>4, <1>5, <1>6, <1>7, <1>8, <1>9, <1>10, <1>11 DEF clientStep, Client!Step
<1> QED
  BY <1>12, ClientTypes DEF ClientInv

LEMMA ServerTypes ==
    ASSUME TypeOK, ServerActs, MessageType', HandlerType', WorkerType', EventType'
    PROVE  TypeOK'
<1>1. ThreadType
  BY TypeParts
<1>2. ThreadType'
  BY <1>1 DEF ServerActs, clientVars, mainVars, ThreadType
<1> QED
  BY <1>2, PrimedParts

\* The worker leaves the loop of getEvent with a request or a reply.
LEMMA FrontTyped ==
    ASSUME WorkerType, NEW w \in Workers, NEW q \in Seq(Calls),
           NEW place \in {"requests", "replies"}, NEW otherwise \in {"requests", "replies"},
           NEW found \in {"erase request", "erase reply"},
           Server!Front(w, place, q, found, otherwise)
    PROVE  WorkerType'
<1>1. q # <<>> => Head(q) \in Calls /\ Head(q) # None
  BY TailFacts, CallFacts
<1> QED
  BY <1>1 DEF WorkerType, Server!Front, Server!At, Server!Goto

\* The steps of a worker keep the types.
LEMMA WorkerTyped ==
    ASSUME TypeOK, taken \in [Calls -> Nat], NEW w \in Workers, runEvent(w) \/ serverStep(w)
    PROVE  TypeOK' /\ taken' \in [Calls -> Nat] /\ ServerActs
<1> DEFINE Goal == MessageType' /\ HandlerType' /\ WorkerType' /\ EventType'
<1>1. MessageType /\ HandlerType /\ WorkerType /\ EventType
  BY TypeParts
<1>2. ServerActs
  BY DEF runEvent, serverStep, ServerActs, mainVars
<1>3. UNCHANGED <<failed, returned, drained>>
  BY <1>2 DEF ServerActs, clientVars
<1>4. taken' \in [Calls -> Nat]
  <2>1. CASE runEvent(w)
    BY <2>1 DEF runEvent
  <2>2. CASE serverStep(w) /\ worker[w] = "erase request"
    <3>1. rid[w] \in Calls /\ taken' = [taken EXCEPT ![rid[w]] = @ + 1]
      BY <1>1, <2>2 DEF serverStep, WorkerType
    <3> QED
      BY <3>1
  <2>3. CASE serverStep(w) /\ worker[w] # "erase request"
    BY <2>3 DEF serverStep
  <2> QED
    BY <2>1, <2>2, <2>3
<1>5. ASSUME NEW replies \in SUBSET Calls, Server!run(w, replies), UNCHANGED messageVars, EventType'
      PROVE  Goal
  BY <1>1, <1>3, <1>5
    DEF MessageType, HandlerType, WorkerType, messageVars, Server!run, Server!GotoOr, Server!Goto, Server!At,
        Server!handlerVars, Server!queueVars
<1>6. ASSUME runEvent(w) PROVE Goal
  <2>1. /\ rid[w] \in Calls /\ UNCHANGED messageVars
        /\ runRead(w) \/ runWrite(w) \/ runP1C(w) \/ runP2C(w)
    BY <1>1, <1>6 DEF runEvent, WorkerType
  <2>2. rid[w][1] \in Coordinators
    BY <2>1, CallFacts
  <2>3. CASE runRead(w)
    <3>1. CASE Server!run(w, {rid[w]}) /\ UNCHANGED waits_for /\ UNCHANGED prepares
      BY <1>1, <1>5, <2>1, <3>1 DEF EventType
    <3>2. ASSUME NEW k \in prepares, Server!run(w, {}),
                 waits_for' = [waits_for EXCEPT ![rid[w]] = k], UNCHANGED prepares
          PROVE  Goal
      BY <1>1, <1>5, <2>1, <3>2 DEF EventType
    <3> QED
      BY <2>3, <3>1, <3>2 DEF runRead
  <2>4. CASE runWrite(w)
    BY <1>1, <1>5, <2>1, <2>4 DEF runWrite, EventType, eventVars
  <2>5. CASE runP1C(w)
    BY <1>1, <1>5, <2>1, <2>2, <2>5 DEF runP1C, EventType
  <2>6. CASE runP2C(w)
    <3> DEFINE woken == {c \in Calls : waits_for[c] = rid[w][1]}
    <3>1. prepares' = prepares \ {rid[w][1]}
      BY <2>6 DEF runP2C
    <3>2. PICK again \in [woken -> prepares' \cup {None}] :
            /\ waits_for' = [c \in Calls |-> IF c \in woken THEN again[c] ELSE waits_for[c]]
            /\ Server!run(w, {rid[w]} \cup {c \in woken : again[c] = None})
      BY <2>6 DEF runP2C
    <3>3. woken \subseteq Calls
      OBVIOUS
    <3> HIDE DEF woken
    <3>4. EventType'
      BY <1>1, <3>3, <3>1, <3>2 DEF EventType
    <3>5. {rid[w]} \cup {c \in woken : again[c] = None} \in SUBSET Calls
      BY <2>1, <3>3
    <3> QED
      BY <1>5, <2>1, <3>2, <3>4, <3>5
  <2> QED
    BY <2>1, <2>3, <2>4, <2>5, <2>6
<1>7. ASSUME serverStep(w) PROVE Goal
  <2>1. EventType'
    BY <1>1, <1>7 DEF serverStep, eventVars, EventType
  <2> USE DEF MessageType, HandlerType, WorkerType, Server!handlerVars, Server!queueVars,
              Server!workerVars, Server!At, Server!Goto, Server!GotoOr
  <2>2. CASE Server!processAsyncQueue(w)
    <3>1. PICK c \in cq :
            /\ cq' = cq \ {c}
            /\ \/ /\ status[c] = "PROCESS"
                  /\ request_queue' = Append(request_queue, c)
                  /\ prepared' = [prepared EXCEPT ![TypeOf[c]] = @ + 1]
                  /\ UNCHANGED reply_queue
               \/ /\ status[c] = "FINISH"
                  /\ reply_queue' = Append(reply_queue, c)
                  /\ UNCHANGED <<request_queue, prepared>>
      BY <2>2 DEF Server!processAsyncQueue, Server!prepareNextRequest
    <3>2. c \in Calls /\ TypeOf[c] \in RequestType
      BY <1>1, CallFacts
    <3>3. Append(request_queue, c) \in Seq(Calls) /\ Append(reply_queue, c) \in Seq(Calls)
      BY <1>1, <3>2, AppendFacts
    <3>4. UNCHANGED <<sent, answered, status, finishing, worker, rid, owes, exited>>
      BY <2>2 DEF Server!processAsyncQueue
    <3>5. MessageType' /\ WorkerType'
      BY <1>1, <1>3, <3>1, <3>4
    <3>6. HandlerType'
      <4>1. [prepared EXCEPT ![TypeOf[c]] = prepared[TypeOf[c]] + 1] \in [RequestType -> Nat]
        BY <1>1, <3>2, Counting
      <4> QED
        BY <1>1, <3>1, <3>3, <3>4, <4>1
    <3> QED
      BY <2>1, <3>5, <3>6
  <2>3. CASE Server!asyncNextRequest(w) \/ Server!asyncNextCompletedReply(w)
    <3>1. WorkerType'
      BY <1>1, <2>3, FrontTyped DEF Server!asyncNextRequest, Server!asyncNextCompletedReply
    <3> QED
      BY <1>1, <1>3, <2>1, <2>3, <3>1
        DEF Server!asyncNextRequest, Server!asyncNextCompletedReply, Server!Front
  <2>4. CASE Server!eraseRequest(w) \/ Server!eraseReply(w)
    <3>1. \A q \in Seq(Calls) : Server!Erase(q) \in Seq(Calls)
      BY TailFacts DEF Server!Erase
    <3>2. rid[w] \in Calls
      BY <1>1, <2>4 DEF Server!eraseRequest, Server!eraseReply
    <3>3. exited' \in {"no", "status", "undefined"}
      BY <2>4 DEF Server!eraseRequest, Server!eraseReply, Server!EraseEnds, Server!getRequest,
                  Server!getArgs, Server!Check
    <3> QED
      BY <1>1, <1>3, <2>1, <2>4, <3>1, <3>2, <3>3 DEF Server!eraseRequest, Server!eraseReply
  <2>5. ASSUME NEW c \in Calls, Server!sendReply(w, c) PROVE Goal
    BY <1>1, <1>3, <2>1, <2>5 DEF Server!sendReply, Server!setReply, Server!Check, Server!RequestStatus
  <2>6. CASE Server!deleteRequest(w)
    BY <1>1, <1>3, <2>1, <2>6 DEF Server!deleteRequest, Server!Check, Server!RequestStatus
  <2> QED
    BY <1>7, <2>2, <2>3, <2>4, <2>5, <2>6 DEF serverStep, Server!Step
<1> QED
  BY <1>2, <1>4, <1>6, <1>7, ServerTypes

\* So do gRPC's.
LEMMA DeliveryTyped ==
    ASSUME TypeOK, NEW c \in Calls, deliver(c) \/ fail(c)
    PROVE  TypeOK'
<1>1. MessageType /\ HandlerType /\ WorkerType /\ EventType /\ ThreadType
  BY TypeParts
<1>2. TypeOf[c] \in RequestType
  BY CallFacts
<1>3. CASE deliver(c)
  <2>1. ServerActs /\ EventType' /\ UNCHANGED <<failed, returned, drained>>
    BY <1>1, <1>3 DEF deliver, ServerActs, EventType, eventVars, clientVars
  <2> USE DEF MessageType, HandlerType, WorkerType, Server!queueVars, Server!workerVars
  <2>2. CASE Server!receive(c)
    <3>1. MessageType' /\ WorkerType'
      BY <1>1, <2>1, <2>2 DEF Server!receive
    <3>2. HandlerType'
      <4>1. [prepared EXCEPT ![TypeOf[c]] = prepared[TypeOf[c]] - 1] \in [RequestType -> Nat]
        BY <1>1, <1>2, <2>2, Counting DEF Server!receive
      <4> QED
        BY <1>1, <2>2, <4>1 DEF Server!receive
    <3> QED
      BY <2>1, <3>1, <3>2, ServerTypes
  <2>3. CASE Server!complete(c)
    <3>1. MessageType' /\ HandlerType' /\ WorkerType'
      BY <1>1, <2>1, <2>3 DEF Server!complete
    <3> QED
      BY <2>1, <3>1, ServerTypes
  <2> QED
    BY <1>3, <2>2, <2>3 DEF deliver
<1>4. CASE fail(c)
  <2>1. ClientActs
    BY <1>4 DEF fail, ClientActs
  <2>2. MessageType' /\ ThreadType'
    BY <1>1, <1>4 DEF fail, Client!fail, MessageType, ThreadType, serverVars, mainVars, Client!mutexVars
  <2> QED
    BY <2>1, <2>2, ClientTypes
<1> QED
  BY <1>3, <1>4

-----------------------------------------------------------------------------
(* The invariant of the client threads                                      *)

\* The _tid of a new coordinator is one that no thread has, and the others keep theirs.
LEMMA BeginKeepsIds ==
    ASSUME ClientInv, NEW t \in Threads, begin(t)
    PROVE  /\ IdsOK'
           /\ coord'[t] = <<ProcessOf[t], cur_id[ProcessOf[t]]>>
           /\ \A u \in Threads : u # t => coord'[u] = coord[u]
           /\ \A q \in Processes : cur_id[q] \in Nat /\ cur_id'[q] \in Nat /\ cur_id'[q] >= cur_id[q]
<1>0. PICK p \in Processes : p = ProcessOf[t]
  BY CallFacts
<1>1. /\ cur_id \in [Processes -> 0 .. MaxIds] /\ MaxIds \in Nat
      /\ coord \in [Threads -> Coordinators \cup {None}]
      /\ coord' = [coord EXCEPT ![t] = <<p, cur_id[p]>>]
      /\ cur_id' = [cur_id EXCEPT ![p] = cur_id[p] + 1]
  BY <1>0, RemoteCallsAssumption DEF begin, ClientInv, TypeOK
<1>2. \A q \in Processes : cur_id[q] \in Nat /\ cur_id'[q] \in Nat /\ cur_id'[q] >= cur_id[q]
  BY <1>1
<1>3. coord'[t] = <<p, cur_id[p]>> /\ \A u \in Threads : u # t => coord'[u] = coord[u]
  BY <1>1
<1>4. ASSUME NEW u \in Threads, coord[u] # None
      PROVE  /\ coord[u] # <<p, cur_id[p]>>
             /\ coord[u][2] < cur_id'[coord[u][1]]
  <2>1. coord[u][1] \in Processes /\ coord[u][2] \in Nat /\ coord[u][2] < cur_id[coord[u][1]]
    BY <1>1, <1>4, CallFacts DEF ClientInv, IdsOK
  <2> QED
    BY <1>2, <2>1
<1>5. ASSUME NEW u \in Threads, coord'[u] # None PROVE coord'[u][2] < cur_id'[coord'[u][1]]
  <2>1. CASE u = t
    BY <1>1, <1>2, <1>3, <2>1
  <2>2. CASE u # t
    BY <1>3, <1>4, <1>5, <2>2
  <2> QED
    BY <2>1, <2>2
<1>6. ASSUME NEW u \in Threads, NEW v \in Threads, coord'[u] # None, coord'[u] = coord'[v] PROVE u = v
  <2>1. CASE u = t \/ v = t
    BY <1>3, <1>4, <1>6, <2>1
  <2>2. CASE u # t /\ v # t
    BY <1>3, <1>6, <2>2 DEF ClientInv, IdsOK
  <2> QED
    BY <2>1, <2>2
<1> QED
  BY <1>0, <1>2, <1>3, <1>5, <1>6 DEF IdsOK

\* The steps of a client thread keep the identifiers and the coordinators.
LEMMA CallersKept ==
    ASSUME ClientInv, NEW t \in Threads,
           begin(t) \/ request(t) \/ clientStep(t)
    PROVE  IdsOK' /\ CallersOK'
<1>1. /\ pc \in [Threads -> {"idle", "syncRPC", "blocked", "asyncRPC", "getStub", "insert",
                              "waitAsyncReply", "proceed"}]
      /\ call \in [Threads -> Calls \cup {None}]
      /\ coord \in [Threads -> Coordinators \cup {None}]
      /\ CallersOK /\ IdsOK
  BY DEF ClientInv, TypeOK
<1>2. CASE begin(t)
  <2>1. CallersOK'
    BY <1>1, <1>2 DEF begin, CallersOK, Waiting
  <2> QED
    BY <1>2, <2>1, BeginKeepsIds
<1>3. ASSUME UNCHANGED mainVars PROVE IdsOK'
  BY <1>1, <1>3 DEF mainVars, IdsOK
<1>4. CASE request(t)
  <2>1. PICK c \in Calls : c = NextCall(t) /\ c[1] = coord[t]
    BY <1>1, <1>4, NextCallFacts DEF request
  <2>2. /\ call' = [call EXCEPT ![t] = c] /\ UNCHANGED mainVars
        /\ pc[t] = "idle" /\ \E place \in {"syncRPC", "asyncRPC"} : pc' = [pc EXCEPT ![t] = place]
    BY <1>4, <2>1 DEF request, Client!beginSync, Client!beginAsync, Client!Goto
  <2>3. CallersOK'
    BY <1>1, <1>4, <2>1, <2>2, CallFacts DEF CallersOK, mainVars, request
  <2> QED
    BY <1>3, <2>2, <2>3
<1>5. CASE clientStep(t)
  <2>1. UNCHANGED mainVars
    BY <1>5 DEF clientStep
  <2>2. UNCHANGED call /\ pc[t] # "idle" /\ \A u \in Threads : u # t => pc'[u] = pc[u]
    BY <1>1, <1>5
      DEF clientStep, Client!Step, Client!callSync, Client!returnSync, Client!callAsync, Client!newHandler,
          Client!insertHandler, Client!waitAsyncReply, Client!returnAsync, Client!failAsync, Client!Goto,
          Client!proceed
  <2>3. CallersOK'
    BY <1>1, <2>1, <2>2 DEF CallersOK, mainVars
  <2> QED
    BY <1>3, <2>1, <2>3
<1> QED
  BY <1>2, <1>4, <1>5

\* The threads keep their tags, and find the handlers of their own requests.
LEMMA TagsKept ==
    ASSUME ClientInv, NEW t \in Threads,
           begin(t) \/ request(t) \/ clientStep(t)
    PROVE  TagsOK'
<1>0. PICK p \in Processes : p = ProcessOf[t]
  BY CallFacts
<1>1. /\ ThreadType /\ TagType /\ TagsOK
      /\ \A u \in Threads : u # None /\ ProcessOf[u] \in Processes
  BY TypeParts, CallFacts DEF ClientInv
<1> USE DEF TagType, ThreadType, TagsOK, TagOK, SameTag, Tagged, Client!mutexVars,
            Client!tagVars, Client!Tags, Client!Goto, Client!Lock, Client!Free, Client!Unlock,
            Client!makeStub, Client!getStub, Client!Send, Client!RequestHandler, Client!proceed,
            Client!Handler
<1>2. CASE begin(t)
  BY <1>1, <1>2 DEF begin, Waiting
<1>3. CASE request(t)
  <2>1. PICK c : Client!beginSync(t, c) \/ Client!beginAsync(t, c)
    BY <1>3 DEF request
  <2>2. CASE Client!beginSync(t, c)
    BY <1>1, <2>2 DEF Client!beginSync
  <2>3. CASE Client!beginAsync(t, c)
    BY <1>0, <1>1, <2>3 DEF Client!beginAsync
  <2> QED
    BY <2>1, <2>2, <2>3
<1>4. CASE Client!callSync(t)
  BY <1>0, <1>1, <1>4 DEF Client!callSync
<1>5. CASE Client!returnSync(t)
  BY <1>0, <1>1, <1>5 DEF Client!returnSync
<1>6. CASE Client!callAsync(t)
  BY <1>0, <1>1, <1>6 DEF Client!callAsync
<1>7. CASE Client!newHandler(t)
  BY <1>0, <1>1, <1>7 DEF Client!newHandler
<1>8. CASE Client!insertHandler(t)
  <2>1. pc[t] = "insert" /\ rpc_tag[t] = tag[t] /\ tag[t] \in 1 .. MaxTag /\ tag_mutex[p] = t
    BY <1>0, <1>1, <1>8 DEF Client!insertHandler
  <2>2. /\ pc' = [pc EXCEPT ![t] = "waitAsyncReply"]
        /\ tag_to_handler' = [tag_to_handler EXCEPT ![p] = [@ EXCEPT ![tag[t]] = call[t]]]
        /\ rpc_tag' = [rpc_tag EXCEPT ![t] = 0]
        /\ tag_mutex' = [tag_mutex EXCEPT ![p] = None]
        /\ UNCHANGED <<call, tag, next_tag>>
    BY <1>0, <1>8, <2>1 DEF Client!insertHandler
  <2>3. /\ tag_to_handler'[p][tag[t]] = call[t]
        /\ \A q \in Processes : q # p => tag_to_handler'[q] = tag_to_handler[q]
        /\ \A n \in 1 .. MaxTag : n # tag[t] => tag_to_handler'[p][n] = tag_to_handler[p][n]
    BY <1>1, <2>1, <2>2
  <2>4. TagOK(t)'
    BY <1>0, <1>1, <2>1, <2>2, <2>3
  <2>5. ASSUME NEW u \in Threads, u # t PROVE TagOK(u)'
    <3>1. /\ pc'[u] = pc[u] /\ rpc_tag'[u] = rpc_tag[u] /\ TagOK(u)
          /\ pc[u] \in {"asyncRPC", "getStub", "insert"} => ProcessOf[u] # p
          /\ Tagged(u) => ProcessOf[u] # p \/ tag[u] # tag[t]
      BY <1>0, <1>1, <2>1, <2>2, <2>5
    <3>2. Tagged(u) => tag_to_handler'[ProcessOf[u]][tag[u]] = tag_to_handler[ProcessOf[u]][tag[u]]
      BY <1>1, <2>3, <3>1
    <3>3. pc[u] \in {"asyncRPC", "getStub", "insert"} => tag_mutex'[ProcessOf[u]] = tag_mutex[ProcessOf[u]]
      BY <1>1, <2>2, <3>1
    <3> QED
      BY <2>2, <3>1, <3>2, <3>3
  <2>6. \A u, v \in Threads : SameTag(u, v)' => u = v
    BY <1>1, <2>1, <2>2
  <2> QED
    BY <2>4, <2>5, <2>6
<1>9. CASE Client!waitAsyncReply(t)
  BY <1>0, <1>1, <1>9 DEF Client!waitAsyncReply
<1>10. CASE Client!returnAsync(t)
  BY <1>0, <1>1, <1>10 DEF Client!returnAsync
<1>11. CASE Client!failAsync(t)
  BY <1>0, <1>1, <1>11 DEF Client!failAsync
<1> QED
  BY <1>2, <1>3, <1>4, <1>5, <1>6, <1>7, <1>8, <1>9, <1>10, <1>11 DEF clientStep, Client!Step

LEMMA ClientsInit == Init => ClientInv
<1> SUFFICES ASSUME Init PROVE ClientInv
  OBVIOUS
<1> USE DEF Init, Client!Init, Server!Init
<1>2. MessageType /\ EventType /\ WorkerType
  BY CallFacts DEF MessageType, EventType, WorkerType
<1>3. HandlerType
  <2>1. prepared \in [RequestType -> Nat]
    BY RequestFacts DEF Server!RequestType
  <2> QED
    BY <2>1 DEF HandlerType, Server!RequestStatus
<1>4. ThreadType
  BY RemoteCallsAssumption DEF ThreadType
<1>5. TypeOK
  BY <1>2, <1>3, <1>4, TypeParts
<1>6. IdsOK
  BY DEF IdsOK
<1>7. CallersOK /\ TagType /\ TagsOK /\ taken \in [Calls -> Nat]
  BY DEF CallersOK, TagType, TagsOK, TagOK, SameTag, Tagged
<1> QED
  BY <1>5, <1>6, <1>7 DEF ClientInv

\* Steps of the server, and of gRPC, leave the threads alone.
LEMMA ThreadsKept ==
    ASSUME ClientInv,
           UNCHANGED <<pc, call, tag_mutex, next_tag, tag, rpc_tag, tag_to_handler, cur_id, coord>>
    PROVE  IdsOK' /\ CallersOK' /\ TagType' /\ TagsOK'
BY DEF ClientInv, IdsOK, CallersOK, TagType, TagsOK, TagOK, SameTag, Tagged

LEMMA ClientsStep == ClientInv /\ [Next]_vars => ClientInv'
<1> SUFFICES ASSUME ClientInv, [Next]_vars PROVE ClientInv'
  OBVIOUS
<1>1. ASSUME NEW t \in Threads, begin(t) \/ request(t) \/ clientStep(t) PROVE ClientInv'
  <2>1. TypeOK' /\ TagType' /\ ClientActs
    BY <1>1, ClientTyped
  <2>2. IdsOK' /\ CallersOK' /\ TagsOK'
    BY <1>1, CallersKept, TagsKept
  <2>3. taken' \in [Calls -> Nat]
    BY <2>1 DEF ClientActs, ClientInv
  <2> QED
    BY <2>1, <2>2, <2>3 DEF ClientInv
<1>2. ASSUME NEW w \in Workers, runEvent(w) \/ serverStep(w) PROVE ClientInv'
  <2>1. TypeOK' /\ taken' \in [Calls -> Nat] /\ ServerActs
    BY <1>2, WorkerTyped DEF ClientInv
  <2> QED
    BY <2>1, ThreadsKept DEF ServerActs, clientVars, mainVars, ClientInv
<1>3. ASSUME NEW c \in Calls, deliver(c) \/ fail(c) PROVE ClientInv'
  <2>1. TypeOK'
    BY <1>3, DeliveryTyped DEF ClientInv
  <2>2. /\ UNCHANGED <<pc, call, tag_mutex, next_tag, tag, rpc_tag, tag_to_handler, cur_id, coord>>
        /\ UNCHANGED taken
    BY <1>3 DEF deliver, fail, Client!fail, clientVars, mainVars, Client!mutexVars, Client!tagVars
  <2> QED
    BY <2>1, <2>2, ThreadsKept DEF ClientInv
<1>4. CASE UNCHANGED vars
  <2>1. /\ UNCHANGED <<pc, call, tag_mutex, next_tag, tag, rpc_tag, tag_to_handler, cur_id, coord>>
        /\ UNCHANGED taken
    BY <1>4 DEF vars, clientVars, mainVars
  <2>2. TypeOK'
    BY <1>4 DEF vars, messageVars, serverVars, clientVars, mainVars, eventVars, ClientInv, TypeOK
  <2> QED
    BY <2>1, <2>2, ThreadsKept DEF ClientInv
<1> QED
  BY <1>1, <1>2, <1>3, <1>4 DEF Next

\* The values of all the variables are of their types, and a worker has a request or a
\* reply in hand except where it looks for one (TypeOK).
THEOREM CallsTypeCorrect == Spec => []TypeOK
<1>1. ClientInv => TypeOK
  BY DEF ClientInv
<1> QED
  BY <1>1, ClientsInit, ClientsStep, PTL DEF Spec

\* waitAsyncReply finds the handler of the thread's own request: however many threads
\* and programs there are, no two of a program have one tag (TagsOK).
THEOREM OwnHandlerFound == Spec => []OwnHandler
<1>1. ClientInv => OwnHandler
  BY DEF ClientInv, TagsOK, TagOK, OwnHandler, Client!Handler
<1> QED
  BY <1>1, ClientsInit, ClientsStep, PTL DEF Spec

-----------------------------------------------------------------------------
(* Calls that are not made yet, and calls under way                         *)

Before == {"syncRPC", "asyncRPC", "getStub"}

\* A thread may yet make the call, or is about to send its request.
Unmade(c) ==
    \/ c[1][2] >= cur_id[c[1][1]]
    \/ \E t \in Threads : coord[t] = c[1] /\ (call[t] = None \/ c[2] > call[t][2])
    \/ \E t \in Threads : call[t] = c /\ pc[t] \in Before

CallPlaces ==
    /\ \A t \in Threads : call[t] # None =>
          /\ Unmade(call[t]) <=> pc[t] \in Before
          /\ Made(call[t]) <=> pc[t] \in Underway
    /\ \A c \in Calls : ~(Unmade(c) /\ Made(c))

\* Only one thread makes a call, after those that come before it in the program.
LEMMA OnePlace == ClientInv => CallPlaces
<1> SUFFICES ASSUME ClientInv PROVE CallPlaces
  OBVIOUS
<1>1. /\ call \in [Threads -> Calls \cup {None}]
      /\ CallersOK /\ IdsOK
      /\ \A t \in Threads : pc[t] # "idle" => call[t] # None
      /\ cur_id \in [Processes -> 0 .. MaxIds]
  BY DEF ClientInv, TypeOK, CallersOK
<1>2. \A t, u \in Threads : call[t] # None /\ call[t] = call[u] => t = u
  BY <1>1 DEF CallersOK, IdsOK
<1>3. ASSUME NEW t \in Threads, call[t] # None
      PROVE  /\ Unmade(call[t]) <=> pc[t] \in Before
             /\ Made(call[t]) <=> pc[t] \in Underway
  <2>1. call[t] \in Calls /\ coord[t] = call[t][1] /\ coord[t] # None /\ call[t][2] \in Nat
    BY <1>1, <1>3, CallFacts DEF CallersOK
  <2>2. ~(call[t][1][2] >= cur_id[call[t][1][1]])
    BY <1>1, <2>1, CallFacts DEF IdsOK
  <2>3. ASSUME NEW u \in Threads, coord[u] = call[t][1], call[u] = None \/ call[t][2] > call[u][2] PROVE FALSE
    <3>1. u = t
      BY <1>1, <2>1, <2>3 DEF IdsOK
    <3> QED
      BY <1>3, <2>1, <2>3, <3>1
  <2>4. Unmade(call[t]) <=> pc[t] \in Before
    BY <1>2, <1>3, <2>2, <2>3 DEF Unmade
  <2>5. Made(call[t]) <=> pc[t] \in Underway
    BY <1>2, <1>3 DEF Made
  <2> QED
    BY <2>4, <2>5
<1>4. ASSUME NEW c \in Calls, Unmade(c), Made(c) PROVE FALSE
  <2>1. PICK t \in Threads : call[t] = c /\ pc[t] \in Underway
    BY <1>4 DEF Made
  <2>2. pc[t] \in Before
    BY <1>3, <1>4, <2>1, CallFacts
  <2> QED
    BY <2>1, <2>2 DEF Before, Underway
<1> QED
  BY <1>3, <1>4 DEF CallPlaces

LEMMA OnePlaceAfter == ClientInv' => CallPlaces'
BY OnePlace, PTL

\* What a step of a thread does to the calls: nothing, or it sends the request of one,
\* or returns from one.
Quiet ==
    /\ \A c \in Calls : (Unmade(c)' => Unmade(c)) /\ (Made(c)' <=> Made(c))
    /\ UNCHANGED <<sent, answered, failed, returned>>

Sends(c) ==
    /\ Unmade(c) /\ ~Unmade(c)' /\ Made(c)'
    /\ \A d \in Calls \ {c} : (Unmade(d)' => Unmade(d)) /\ (Made(d)' <=> Made(d))
    /\ sent' = sent \cup {c}
    /\ UNCHANGED <<answered, failed, returned>>

Returns(c) ==
    /\ Made(c) /\ ~Unmade(c)' /\ ~Made(c)' /\ c \in answered
    /\ \A d \in Calls \ {c} : (Unmade(d)' => Unmade(d)) /\ (Made(d)' <=> Made(d))
    /\ returned' = returned \cup {c}
    /\ UNCHANGED <<sent, answered, failed>>

LEMMA BeginIsQuiet == ASSUME ClientInv, NEW t \in Threads, begin(t) PROVE Quiet
<1>1. /\ pc[t] = "idle" /\ UNCHANGED <<pc, sent, answered, failed, returned>>
      /\ \A u \in Threads : u # t => coord'[u] = coord[u] /\ call'[u] = call[u]
      /\ coord'[t] = <<ProcessOf[t], cur_id[ProcessOf[t]]>> /\ call'[t] = None
  BY BeginKeepsIds DEF begin, Waiting, messageVars, ClientInv, TypeOK
<1>2. ASSUME NEW c \in Calls PROVE (Unmade(c)' => Unmade(c)) /\ (Made(c)' <=> Made(c))
  <2>1. c # None /\ c[1][1] \in Processes /\ c[1][2] \in Nat
    BY CallFacts
  <2>2. Made(c)' <=> Made(c)
    BY <1>1, <2>1 DEF Made, Underway
  <2>3. ASSUME c[1][2] >= cur_id'[c[1][1]] PROVE Unmade(c)
    BY <2>1, <2>3, BeginKeepsIds DEF Unmade
  <2>4. ASSUME NEW u \in Threads, coord'[u] = c[1], call'[u] = None \/ c[2] > call'[u][2] PROVE Unmade(c)
    <3>1. CASE u = t
      <4>1. c[1][1] = ProcessOf[t] /\ c[1][2] = cur_id[ProcessOf[t]]
        BY <1>1, <2>4, <3>1
      <4> QED
        BY <2>1, <4>1 DEF Unmade
    <3>2. CASE u # t
      BY <1>1, <2>4, <3>2 DEF Unmade
    <3> QED
      BY <3>1, <3>2
  <2>5. ASSUME NEW u \in Threads, call'[u] = c, pc'[u] \in Before PROVE Unmade(c)
    BY <1>1, <2>1, <2>5 DEF Unmade
  <2> QED
    BY <2>2, <2>3, <2>4, <2>5 DEF Unmade
<1> QED
  BY <1>1, <1>2 DEF Quiet

LEMMA RequestIsQuiet == ASSUME ClientInv, NEW t \in Threads, request(t) PROVE Quiet
<1>1. /\ call \in [Threads -> Calls \cup {None}] /\ coord \in [Threads -> Coordinators \cup {None}]
      /\ pc \in [Threads -> {"idle", "syncRPC", "blocked", "asyncRPC", "getStub", "insert",
                              "waitAsyncReply", "proceed"}]
      /\ call[t] # None => call[t][1] = coord[t]
  BY DEF ClientInv, TypeOK, CallersOK
<1>2. PICK e \in Calls : /\ e = NextCall(t) /\ e[1] = coord[t]
                         /\ call[t] # None => e[2] > call[t][2]
  BY <1>1, NextCallFacts DEF request
<1>3. coord[t] # None
  BY DEF request
<1>5. /\ call' = [call EXCEPT ![t] = e] /\ UNCHANGED <<cur_id, coord, sent, answered, failed, returned>>
      /\ pc[t] = "idle" /\ \E place \in {"syncRPC", "asyncRPC"} : pc' = [pc EXCEPT ![t] = place]
  BY <1>2 DEF request, mainVars, Client!beginSync, Client!beginAsync, Client!Goto
<1>6. /\ \A u \in Threads : u # t => call'[u] = call[u] /\ pc'[u] = pc[u]
      /\ call'[t] = e /\ pc'[t] \in Before /\ pc'[t] \notin Underway /\ pc[t] \notin Underway
  BY <1>1, <1>5 DEF Before, Underway
<1>7. ASSUME NEW c \in Calls PROVE (Unmade(c)' => Unmade(c)) /\ (Made(c)' <=> Made(c))
  <2>1. Made(c)' <=> Made(c)
    BY <1>6 DEF Made
  <2>2. ASSUME NEW u \in Threads, coord[u] = c[1], call'[u] = None \/ c[2] > call'[u][2] PROVE Unmade(c)
    <3>1. CASE u = t
      <4>1. c[2] \in Nat /\ e[2] \in Nat /\ (call[t] # None => call[t][2] \in Nat)
        BY <1>1, CallFacts
      <4>2. call[t] = None \/ c[2] > call[t][2]
        BY <1>2, <1>6, <2>2, <3>1, <4>1, CallFacts
      <4> QED
        BY <2>2, <3>1, <4>2 DEF Unmade
    <3>2. CASE u # t
      BY <1>6, <2>2, <3>2 DEF Unmade
    <3> QED
      BY <3>1, <3>2
  <2>3. ASSUME NEW u \in Threads, call'[u] = c, pc'[u] \in Before PROVE Unmade(c)
    <3>1. CASE u = t
      BY <1>2, <1>6, <2>3, <3>1 DEF Unmade
    <3>2. CASE u # t
      BY <1>6, <2>3, <3>2 DEF Unmade
    <3> QED
      BY <3>1, <3>2
  <2> QED
    BY <1>5, <2>1, <2>2, <2>3 DEF Unmade
<1> QED
  BY <1>5, <1>7 DEF Quiet

LEMMA ClientEffects ==
    ASSUME ClientInv, NEW t \in Threads, begin(t) \/ request(t) \/ clientStep(t)
    PROVE  Quiet \/ \E c \in Calls : Sends(c) \/ Returns(c)
<1>1. CASE begin(t)
  BY <1>1, BeginIsQuiet
<1>2. CASE request(t)
  BY <1>2, RequestIsQuiet
<1>3. CASE clientStep(t)
  <2>1. ClientInv'
    BY <1>3, ClientsStep DEF Next
  <2>2. CallPlaces /\ CallPlaces'
    BY <2>1, OnePlace, OnePlaceAfter
  <2>3. /\ call \in [Threads -> Calls \cup {None}]
        /\ pc \in [Threads -> {"idle", "syncRPC", "blocked", "asyncRPC", "getStub", "insert",
                                "waitAsyncReply", "proceed"}]
        /\ pc[t] # "idle" => call[t] # None
        /\ TagOK(t)
    BY DEF ClientInv, TypeOK, CallersOK, TagsOK
  <2>4. /\ UNCHANGED <<cur_id, coord, call>> /\ pc[t] # "idle"
        /\ \A u \in Threads : u # t => pc'[u] = pc[u]
    BY <1>3, <2>3
      DEF clientStep, Client!Step, Client!callSync, Client!returnSync, Client!callAsync, Client!newHandler,
          Client!insertHandler, Client!waitAsyncReply, Client!returnAsync, Client!failAsync, Client!Goto,
          Client!proceed, mainVars
  <2>5. PICK c \in Calls : c = call[t]
    BY <2>3, <2>4
  <2>6. \A d \in Calls \ {c} : (Unmade(d)' <=> Unmade(d)) /\ (Made(d)' <=> Made(d))
    BY <2>4, <2>5 DEF Unmade, Made
  <2>7. /\ Unmade(c) <=> pc[t] \in Before
        /\ Made(c) <=> pc[t] \in Underway
        /\ Unmade(c)' <=> pc'[t] \in Before
        /\ Made(c)' <=> pc'[t] \in Underway
    <3>1. c # None /\ call'[t] = c
      BY <2>4, <2>5, CallFacts
    <3> QED
      BY <2>2, <2>5, <3>1 DEF CallPlaces
  <2> USE DEF Client!mutexVars, Client!tagVars, Client!Goto, Client!Send, Client!RequestHandler,
              Client!proceed, Client!Handler, TagOK, Before, Underway
  <2>8. CASE Client!callSync(t) \/ Client!newHandler(t)
    BY <2>3, <2>5, <2>6, <2>7, <2>8 DEF Client!callSync, Client!newHandler, Sends
  <2>9. CASE Client!returnSync(t)
    BY <2>3, <2>5, <2>6, <2>7, <2>9 DEF Client!returnSync, Returns
  <2>10. CASE Client!returnAsync(t)
    BY <2>3, <2>5, <2>6, <2>7, <2>10 DEF Client!returnAsync, Returns
  <2>11. CASE Client!callAsync(t) \/ Client!insertHandler(t) \/ Client!waitAsyncReply(t) \/ Client!failAsync(t)
    <3>1. (Unmade(c)' <=> Unmade(c)) /\ (Made(c)' <=> Made(c))
      BY <2>3, <2>7, <2>11
        DEF Client!callAsync, Client!insertHandler, Client!waitAsyncReply, Client!failAsync
    <3>2. UNCHANGED <<sent, answered, failed, returned>>
      BY <2>11 DEF Client!callAsync, Client!insertHandler, Client!waitAsyncReply, Client!failAsync
    <3> QED
      BY <2>6, <3>1, <3>2 DEF Quiet
  <2> QED
    BY <1>3, <2>8, <2>9, <2>10, <2>11 DEF clientStep, Client!Step
<1> QED
  BY <1>1, <1>2, <1>3

-----------------------------------------------------------------------------
(* Where the server has a call                                              *)

\* The server has read the request.
Seen(c) ==
    \/ c \in Range(request_queue) \cup Range(reply_queue) \cup finishing \cup answered
    \/ \E w \in Workers : rid[w] = c \/ c \in owes[w]
    \/ waits_for[c] # None
    \/ status[c] # "PROCESS"
    \/ taken[c] # 0

\* The requests the handlers have received and no worker has read.
Unread(type) == {c \in cq : status[c] = "PROCESS" /\ TypeOf[c] = type}

\* A request that is not made, sent, failed or unread is nowhere else.
PlacesOK ==
    \A c \in Calls :
        /\ Unmade(c) => c \notin sent \cup cq \cup failed /\ ~Seen(c)
        /\ c \in sent => c \notin cq \cup failed /\ ~Seen(c)
        /\ c \in failed => c \notin cq /\ ~Seen(c)
        /\ c \in cq /\ status[c] = "PROCESS" => ~Seen(c)
        /\ c \in finishing => status[c] # "PROCESS"

Listens(type) ==
    \/ prepared[type] = 1 /\ Unread(type) = {}
    \/ prepared[type] = 0 /\ \E c \in Calls : Unread(type) = {c}

PlaceInv ==
    /\ ClientInv
    /\ PlacesOK
    /\ \A type \in RequestType : Listens(type)

\* A worker goes on with a request it has: what it does to a call it does to one the
\* server has seen.
Handled ==
    /\ UNCHANGED <<clientVars, mainVars, sent, answered, prepared, cq>>
    /\ Range(request_queue') \subseteq Range(request_queue)
    /\ \A c \in Calls : Seen(c)' => Seen(c)
    /\ \A c \in Calls : status'[c] # status[c] => Seen(c) /\ status'[c] # "PROCESS"
    /\ \A c \in Calls : c \in finishing' => c \in finishing \/ status'[c] # "PROCESS"

LEMMA RunIsHandled ==
    ASSUME ClientInv, NEW w \in Workers, runEvent(w)
    PROVE  Handled
<1>1. /\ rid \in [Workers -> Calls \cup {None}] /\ owes \in [Workers -> SUBSET Calls]
      /\ waits_for \in [Calls -> Coordinators \cup {None}]
      /\ rid[w] \in Calls /\ Seen(rid[w])
      /\ UNCHANGED <<messageVars, clientVars, taken, mainVars>>
      /\ runRead(w) \/ runWrite(w) \/ runP1C(w) \/ runP2C(w)
  BY DEF ClientInv, TypeOK, runEvent, Seen
<1>2. ASSUME NEW replies, Server!run(w, replies), \A c \in replies : Seen(c),
             \A c \in Calls : waits_for'[c] # None => Seen(c)
      PROVE  Handled
  <2>1. /\ UNCHANGED <<answered, prepared, status, finishing, cq, request_queue, reply_queue>>
        /\ owes' = [owes EXCEPT ![w] = replies]
        /\ \E r \in {rid[w], None} : rid' = [rid EXCEPT ![w] = r]
    BY <1>2 DEF Server!run, Server!GotoOr, Server!handlerVars, Server!queueVars
  <2>2. ASSUME NEW c \in Calls, Seen(c)' PROVE Seen(c)
    <3>1. ASSUME NEW v \in Workers, rid'[v] = c \/ c \in owes'[v] PROVE Seen(c)
      BY <1>1, <1>2, <2>1, <3>1, CallFacts DEF Seen
    <3> QED
      BY <1>1, <1>2, <2>1, <2>2, <3>1 DEF Seen
  <2> QED
    BY <1>1, <2>1, <2>2 DEF Handled, messageVars
<1>3. CASE runRead(w)
  BY <1>1, <1>2, <1>3 DEF runRead, Seen
<1>4. CASE runWrite(w) \/ runP1C(w)
  BY <1>1, <1>2, <1>4 DEF runWrite, runP1C, eventVars, Seen
<1>5. CASE runP2C(w)
  <2> DEFINE woken == {c \in Calls : waits_for[c] = rid[w][1]}
  <2>1. PICK again \in [woken -> prepares' \cup {None}] :
          /\ waits_for' = [c \in Calls |-> IF c \in woken THEN again[c] ELSE waits_for[c]]
          /\ Server!run(w, {rid[w]} \cup {c \in woken : again[c] = None})
    BY <1>5 DEF runP2C
  <2>2. \A c \in woken : Seen(c)
    BY <1>1, CallFacts DEF Seen
  <2>3. \A c \in Calls : waits_for'[c] # None => Seen(c)
    BY <2>1, <2>2 DEF Seen
  <2> QED
    BY <1>1, <1>2, <2>1, <2>2, <2>3
<1> QED
  BY <1>1, <1>3, <1>4, <1>5

LEMMA FrontIsHandled ==
    ASSUME ClientInv, NEW w \in Workers, NEW q \in Seq(Calls), NEW place, NEW found, NEW otherwise,
           Server!Front(w, place, q, found, otherwise), UNCHANGED <<clientVars, mainVars, eventVars, taken>>,
           \A c \in Range(q) : Seen(c)
    PROVE  Handled
<1>1. rid \in [Workers -> Calls \cup {None}]
  BY DEF ClientInv, TypeOK
<1>2. /\ UNCHANGED <<sent, answered, prepared, status, finishing, cq, request_queue, reply_queue, owes>>
      /\ \/ rid' = rid
         \/ q # <<>> /\ rid' = [rid EXCEPT ![w] = Head(q)]
  BY DEF Server!Front, Server!Goto, Server!handlerVars, Server!queueVars
<1>3. q # <<>> => Seen(Head(q))
  BY TailFacts
<1>4. \A v \in Workers : rid'[v] = rid[v] \/ Seen(rid'[v])
  BY <1>1, <1>2, <1>3
<1>5. \A c \in Calls : Seen(c)' => Seen(c)
  BY <1>2, <1>4 DEF Seen, eventVars
<1> QED
  BY <1>2, <1>5 DEF Handled

LEMMA ServerIsHandled ==
    ASSUME ClientInv, NEW w \in Workers, serverStep(w), ~Server!processAsyncQueue(w)
    PROVE  Handled
<1>1. /\ rid \in [Workers -> Calls \cup {None}] /\ owes \in [Workers -> SUBSET Calls]
      /\ rid[w] = None <=> worker[w] \in {"requests", "replies"}
      /\ status \in [Calls -> Server!RequestStatus]
      /\ request_queue \in Seq(Calls) /\ reply_queue \in Seq(Calls)
      /\ taken \in [Calls -> Nat]
      /\ UNCHANGED <<clientVars, mainVars, eventVars>>
      /\ taken' = IF worker[w] = "erase request" THEN [taken EXCEPT ![rid[w]] = @ + 1] ELSE taken
  BY DEF ClientInv, TypeOK, serverStep
<1>2. \A q \in Seq(Calls) : Range(Server!Erase(q)) \subseteq Range(q)
  BY TailFacts DEF Server!Erase
<1> USE DEF Server!handlerVars, Server!queueVars, Server!At, Server!Goto, Server!GotoOr, eventVars
<1>3. CASE Server!asyncNextRequest(w)
  <2>1. worker[w] = "requests"
    BY <1>3 DEF Server!asyncNextRequest, Server!Front
  <2> QED
    BY <1>1, <1>3, <2>1, FrontIsHandled DEF Server!asyncNextRequest, Seen
<1>4. CASE Server!asyncNextCompletedReply(w)
  <2>1. worker[w] = "replies"
    BY <1>4 DEF Server!asyncNextCompletedReply, Server!Front
  <2> QED
    BY <1>1, <1>4, <2>1, FrontIsHandled DEF Server!asyncNextCompletedReply, Seen
<1>5. CASE Server!eraseRequest(w)
  <2>1. /\ rid[w] \in Calls /\ Seen(rid[w]) /\ taken' = [taken EXCEPT ![rid[w]] = @ + 1]
        /\ Range(request_queue') \subseteq Range(request_queue)
        /\ UNCHANGED <<sent, answered, prepared, status, finishing, cq, reply_queue, rid, owes>>
    BY <1>1, <1>2, <1>5 DEF Server!eraseRequest, Seen
  <2>2. \A c \in Calls : Seen(c)' => Seen(c)
    BY <1>1, <2>1 DEF Seen
  <2> QED
    BY <1>1, <2>1, <2>2 DEF Handled
<1>6. CASE Server!eraseReply(w)
  <2>1. /\ taken' = taken
        /\ Range(reply_queue') \subseteq Range(reply_queue)
        /\ UNCHANGED <<sent, answered, prepared, status, finishing, cq, request_queue, rid, owes>>
    BY <1>1, <1>2, <1>6 DEF Server!eraseReply
  <2>2. \A c \in Calls : Seen(c)' => Seen(c)
    BY <1>1, <2>1 DEF Seen
  <2> QED
    BY <1>1, <2>1, <2>2 DEF Handled
<1>7. ASSUME NEW c \in Calls, Server!sendReply(w, c) PROVE Handled
  <2>1. /\ taken' = taken /\ Seen(c)
        /\ status' = [status EXCEPT ![c] = "FINISH"] /\ finishing' = finishing \cup {c}
        /\ owes' = [owes EXCEPT ![w] = @ \ {c}]
        /\ \E r \in {rid[w], None} : rid' = [rid EXCEPT ![w] = r]
        /\ UNCHANGED <<sent, answered, prepared, cq, request_queue, reply_queue>>
    BY <1>1, <1>7 DEF Server!sendReply, Server!setReply, Seen
  <2>2. \A v \in Workers : (rid'[v] = rid[v] \/ rid'[v] = None) /\ owes'[v] \subseteq owes[v]
    BY <1>1, <2>1
  <2>3. ASSUME NEW d \in Calls, d # c, Seen(d)' PROVE Seen(d)
    <3>1. status'[d] = status[d] /\ (d \in finishing' => d \in finishing)
      BY <1>1, <2>1, <2>3
    <3> QED
      BY <1>1, <2>1, <2>2, <2>3, <3>1, CallFacts DEF Seen
  <2>4. \A d \in Calls : Seen(d)' => Seen(d)
    BY <2>1, <2>3
  <2> QED
    BY <1>1, <2>1, <2>4 DEF Handled
<1>8. CASE Server!deleteRequest(w)
  <2>1. /\ taken' = taken /\ rid[w] \in Calls /\ Seen(rid[w])
        /\ status' = [status EXCEPT ![rid[w]] = "deleted"]
        /\ rid' = [rid EXCEPT ![w] = None]
        /\ UNCHANGED <<sent, answered, prepared, finishing, cq, request_queue, reply_queue, owes>>
    BY <1>1, <1>8 DEF Server!deleteRequest, Seen
  <2>2. \A v \in Workers : rid'[v] = rid[v] \/ rid'[v] = None
    BY <1>1, <2>1
  <2>3. \A d \in Calls : Seen(d)' => Seen(d)
    BY <1>1, <2>1, <2>2, CallFacts DEF Seen
  <2> QED
    BY <1>1, <2>1, <2>3 DEF Handled
<1> QED
  BY <1>3, <1>4, <1>5, <1>6, <1>7, <1>8 DEF serverStep, Server!Step

\* A worker reads an event: a request is seen from here on, and the next handler of its
\* type is prepared.
Reads(c) ==
    /\ c \in cq /\ cq' = cq \ {c}
    /\ UNCHANGED <<clientVars, mainVars, sent, answered, status, finishing>>
    /\ \A d \in Calls \ {c} : Seen(d)' => Seen(d)
    /\ \/ /\ status[c] = "PROCESS"
          /\ prepared' = [prepared EXCEPT ![TypeOf[c]] = @ + 1]
          /\ Range(request_queue') \subseteq Range(request_queue) \cup {c}
       \/ /\ status[c] # "PROCESS"
          /\ UNCHANGED <<prepared, request_queue>>

LEMMA ReadEffects ==
    ASSUME ClientInv, NEW w \in Workers, serverStep(w), Server!processAsyncQueue(w)
    PROVE  \E c \in Calls : Reads(c)
<1>1. PICK c \in cq :
        /\ cq' = cq \ {c}
        /\ \/ /\ status[c] = "PROCESS"
              /\ request_queue' = Append(request_queue, c)
              /\ prepared' = [prepared EXCEPT ![TypeOf[c]] = @ + 1]
              /\ UNCHANGED reply_queue
           \/ /\ status[c] = "FINISH"
              /\ reply_queue' = Append(reply_queue, c)
              /\ UNCHANGED <<request_queue, prepared>>
  BY DEF Server!processAsyncQueue, Server!prepareNextRequest
<1>2. /\ c \in Calls /\ request_queue \in Seq(Calls) /\ reply_queue \in Seq(Calls)
      /\ UNCHANGED <<clientVars, mainVars, sent, answered, status, finishing, rid, owes, waits_for>>
  BY DEF ClientInv, TypeOK, serverStep, Server!processAsyncQueue, Server!workerVars, eventVars
<1>3. taken' = taken
  BY DEF serverStep, Server!processAsyncQueue, Server!At
<1>4. /\ Range(request_queue') \subseteq Range(request_queue) \cup {c}
      /\ Range(reply_queue') \subseteq Range(reply_queue) \cup {c}
  <2>1. \A s \in Seq(Calls) : Range(Append(s, c)) = Range(s) \cup {c}
    BY <1>2, AppendFacts
  <2> QED
    BY <1>1, <1>2, <2>1
<1>5. \A d \in Calls \ {c} : Seen(d)' => Seen(d)
  BY <1>2, <1>3, <1>4 DEF Seen
<1> QED
  BY <1>1, <1>2, <1>4, <1>5 DEF Reads

\* Threads, workers and gRPC keep the places; first that Unmade depends on the threads
\* alone.
LEMMA SameUnmade ==
    ASSUME UNCHANGED <<cur_id, coord, call, pc>>
    PROVE  \A c \in Calls : Unmade(c)' = Unmade(c)
BY DEF Unmade

LEMMA SameServer ==
    ASSUME UNCHANGED <<serverVars, answered, taken, eventVars>>
    PROVE  /\ \A c \in Calls : Seen(c)' = Seen(c)
           /\ \A type \in RequestType : Listens(type)' = Listens(type)
<1>1. UNCHANGED <<prepared, status, finishing, cq, request_queue, reply_queue, rid, owes, waits_for,
                  taken, answered>>
  BY DEF serverVars, eventVars
<1> QED
  BY <1>1 DEF Seen, Listens, Unread

LEMMA ClientsKeepPlaces ==
    ASSUME PlaceInv, NEW t \in Threads, begin(t) \/ request(t) \/ clientStep(t)
    PROVE  PlaceInv'
<1>1. UNCHANGED <<serverVars, taken, eventVars>>
  BY ClientTyped DEF ClientActs, PlaceInv
<1>2. UNCHANGED <<status, finishing, cq>>
  BY <1>1 DEF serverVars
<1>3. Quiet \/ \E c \in Calls : Sends(c) \/ Returns(c)
  BY ClientEffects DEF PlaceInv
<1>4. UNCHANGED answered
  BY <1>3 DEF Quiet, Sends, Returns
<1>5. /\ \A d \in Calls : Seen(d)' = Seen(d)
      /\ \A type \in RequestType : Listens(type)' = Listens(type)
  BY <1>1, <1>4, SameServer
<1>6. PlacesOK'
  <2>1. CASE Quiet
    BY <1>2, <1>5, <2>1 DEF PlaceInv, PlacesOK, Quiet
  <2>2. ASSUME NEW c \in Calls, Sends(c) PROVE PlacesOK'
    BY <1>2, <1>5, <2>2 DEF PlaceInv, PlacesOK, Sends
  <2>3. ASSUME NEW c \in Calls, Returns(c) PROVE PlacesOK'
    BY <1>2, <1>5, <2>3 DEF PlaceInv, PlacesOK, Returns
  <2> QED
    BY <1>3, <2>1, <2>2, <2>3
<1>7. ClientInv'
  BY ClientsStep DEF Next, PlaceInv
<1> QED
  BY <1>5, <1>6, <1>7 DEF PlaceInv

LEMMA HandledKeepsPlaces ==
    ASSUME PlaceInv, Handled
    PROVE  PlacesOK' /\ \A type \in RequestType : Listens(type)'
<1>1. UNCHANGED <<cur_id, coord, call, pc, failed, sent, answered, prepared, cq>> /\ cq \subseteq Calls
  BY DEF Handled, clientVars, mainVars, PlaceInv, ClientInv, TypeOK
<1>2. \A c \in Calls : Unmade(c)' = Unmade(c)
  BY <1>1, SameUnmade
<1>3. \A c \in Calls : c \in cq => (status'[c] = "PROCESS" <=> status[c] = "PROCESS")
  BY DEF Handled, PlaceInv, PlacesOK
<1>4. \A type \in RequestType : Unread(type)' = Unread(type)
  BY <1>1, <1>3 DEF Unread
<1>5. \A type \in RequestType : Listens(type)'
  BY <1>1, <1>4 DEF Listens, PlaceInv
<1>6. PlacesOK'
  BY <1>1, <1>2, <1>3 DEF PlaceInv, PlacesOK, Handled
<1> QED
  BY <1>5, <1>6

LEMMA ReadKeepsPlaces ==
    ASSUME PlaceInv, NEW c \in Calls, Reads(c)
    PROVE  PlacesOK' /\ \A type \in RequestType : Listens(type)'
<1>1. /\ UNCHANGED <<cur_id, coord, call, pc, failed, sent, answered, status, finishing>>
      /\ c \in cq /\ cq' = cq \ {c} /\ cq \subseteq Calls
  BY DEF Reads, clientVars, mainVars, PlaceInv, ClientInv, TypeOK
<1>2. \A d \in Calls : Unmade(d)' = Unmade(d)
  BY <1>1, SameUnmade
<1>3. PlacesOK'
  BY <1>1, <1>2 DEF PlaceInv, PlacesOK, Reads
<1>4. \A type \in RequestType : Unread(type)' = Unread(type) \ {c}
  BY <1>1 DEF Unread
<1>5. prepared \in [RequestType -> Nat] /\ TypeOf[c] \in RequestType
  BY CallFacts DEF PlaceInv, ClientInv, TypeOK
<1>6. ASSUME NEW type \in RequestType PROVE Listens(type)'
  <2>1. Listens(type)
    BY DEF PlaceInv
  <2>2. CASE status[c] = "PROCESS" /\ type = TypeOf[c]
    <3>1. c \in Unread(type)
      BY <1>1, <2>2 DEF Unread
    <3>2. prepared[type] = 0 /\ Unread(type) = {c}
      BY <2>1, <3>1 DEF Listens
    <3>3. prepared'[type] = 1
      BY <1>5, <2>2, <3>2 DEF Reads
    <3> QED
      BY <1>4, <3>2, <3>3 DEF Listens
  <2>3. CASE ~(status[c] = "PROCESS" /\ type = TypeOf[c])
    <3>1. c \notin Unread(type)
      BY <2>3 DEF Unread
    <3>2. prepared'[type] = prepared[type]
      BY <1>5, <2>3 DEF Reads
    <3> QED
      BY <1>4, <2>1, <3>1, <3>2 DEF Listens
  <2> QED
    BY <2>2, <2>3
<1> QED
  BY <1>3, <1>6

LEMMA ReceiveKeepsPlaces ==
    ASSUME PlaceInv, NEW c \in Calls, deliver(c), Server!receive(c)
    PROVE  PlacesOK' /\ \A type \in RequestType : Listens(type)'
<1>1. /\ UNCHANGED <<cur_id, coord, call, pc, failed, answered, status, finishing, request_queue,
                     reply_queue, rid, owes, taken, waits_for>>
      /\ c \in sent /\ sent' = sent \ {c} /\ cq' = cq \cup {c}
      /\ prepared[TypeOf[c]] > 0 /\ prepared' = [prepared EXCEPT ![TypeOf[c]] = @ - 1]
      /\ cq \subseteq Calls
  BY DEF deliver, Server!receive, clientVars, mainVars, eventVars, Server!queueVars, Server!workerVars,
         PlaceInv, ClientInv, TypeOK
<1>2. \A d \in Calls : Unmade(d)' = Unmade(d)
  BY <1>1, SameUnmade
<1>3. \A d \in Calls : Seen(d)' = Seen(d)
  BY <1>1 DEF Seen
<1>4. ~Seen(c) /\ status[c] = "PROCESS"
  BY <1>1 DEF PlaceInv, PlacesOK, Seen
<1>5. PlacesOK'
  BY <1>1, <1>2, <1>3, <1>4 DEF PlaceInv, PlacesOK
<1>6. prepared \in [RequestType -> Nat] /\ TypeOf[c] \in RequestType
  BY CallFacts DEF PlaceInv, ClientInv, TypeOK
<1>7. ASSUME NEW type \in RequestType PROVE Listens(type)'
  <2>1. Listens(type)
    BY DEF PlaceInv
  <2>2. CASE type = TypeOf[c]
    <3>1. prepared[type] = 1 /\ Unread(type) = {}
      BY <1>1, <2>1, <2>2 DEF Listens
    <3>2. prepared'[type] = 0
      BY <1>1, <1>6, <2>2, <3>1
    <3>3. Unread(type)' = {c}
      BY <1>1, <1>4, <2>2, <3>1 DEF Unread
    <3> QED
      BY <3>2, <3>3 DEF Listens
  <2>3. CASE type # TypeOf[c]
    <3>1. prepared'[type] = prepared[type]
      BY <1>1, <1>6, <2>3
    <3>2. Unread(type)' = Unread(type)
      BY <1>1, <2>3 DEF Unread
    <3> QED
      BY <2>1, <3>1, <3>2 DEF Listens
  <2> QED
    BY <2>2, <2>3
<1> QED
  BY <1>5, <1>7

LEMMA CompleteKeepsPlaces ==
    ASSUME PlaceInv, NEW c \in Calls, deliver(c), Server!complete(c)
    PROVE  PlacesOK' /\ \A type \in RequestType : Listens(type)'
<1>1. /\ UNCHANGED <<cur_id, coord, call, pc, sent, failed, prepared, status, request_queue,
                     reply_queue, rid, owes, taken, waits_for>>
      /\ c \in finishing /\ finishing' = finishing \ {c} /\ cq' = cq \cup {c}
      /\ answered' = answered \cup {c}
      /\ cq \subseteq Calls
  BY DEF deliver, Server!complete, clientVars, mainVars, eventVars, Server!queueVars, Server!workerVars,
         PlaceInv, ClientInv, TypeOK
<1>2. \A d \in Calls : Unmade(d)' = Unmade(d)
  BY <1>1, SameUnmade
<1>3. Seen(c) /\ status[c] # "PROCESS"
  BY <1>1 DEF PlaceInv, PlacesOK, Seen
<1>4. \A d \in Calls : Seen(d)' => Seen(d)
  BY <1>1, <1>3 DEF Seen
<1>5. PlacesOK'
  BY <1>1, <1>2, <1>3, <1>4 DEF PlaceInv, PlacesOK
<1>6. \A type \in RequestType : Unread(type)' = Unread(type)
  BY <1>1, <1>3 DEF Unread
<1>7. \A type \in RequestType : Listens(type)'
  BY <1>1, <1>6 DEF Listens, PlaceInv
<1> QED
  BY <1>5, <1>7

LEMMA FailKeepsPlaces ==
    ASSUME PlaceInv, NEW c \in Calls, fail(c)
    PROVE  PlacesOK' /\ \A type \in RequestType : Listens(type)'
<1>1. /\ UNCHANGED <<serverVars, answered, taken, eventVars>>
      /\ UNCHANGED <<cur_id, coord, call, pc, status, finishing, cq>>
      /\ c \in sent /\ sent' = sent \ {c} /\ failed' = failed \cup {c}
  BY DEF fail, Client!fail, serverVars, mainVars
<1>2. \A d \in Calls : Unmade(d)' = Unmade(d)
  BY <1>1, SameUnmade
<1>3. /\ \A d \in Calls : Seen(d)' = Seen(d)
      /\ \A type \in RequestType : Listens(type)' = Listens(type)
  BY <1>1, SameServer
<1>4. PlacesOK'
  BY <1>1, <1>2, <1>3 DEF PlaceInv, PlacesOK
<1> QED
  BY <1>3, <1>4 DEF PlaceInv

LEMMA PlacesInit == Init => PlaceInv
<1> SUFFICES ASSUME Init PROVE PlaceInv
  OBVIOUS
<1>1. /\ sent = {} /\ answered = {} /\ failed = {} /\ finishing = {} /\ cq = {}
      /\ request_queue = <<>> /\ reply_queue = <<>>
      /\ rid = [w \in Workers |-> None] /\ owes = [w \in Workers |-> {}]
      /\ waits_for = [c \in Calls |-> None] /\ taken = [c \in Calls |-> 0]
      /\ status = [c \in Calls |-> "PROCESS"]
  BY DEF Init, Server!Init, Client!Init
<1>2. \A c \in Calls : ~Seen(c)
  BY <1>1, EmptyRange, CallFacts DEF Seen
<1>3. PlacesOK
  BY <1>1, <1>2 DEF PlacesOK
<1>4. \A type \in RequestType : prepared[type] = 1
  BY RequestFacts DEF Init, Server!Init, Server!RequestType
<1>5. \A type \in RequestType : Listens(type)
  BY <1>1, <1>4 DEF Listens, Unread
<1> QED
  BY <1>3, <1>5, ClientsInit DEF PlaceInv

LEMMA PlacesStep == PlaceInv /\ [Next]_vars => PlaceInv'
<1> SUFFICES ASSUME PlaceInv, [Next]_vars PROVE PlaceInv'
  OBVIOUS
<1>1. ClientInv'
  BY ClientsStep DEF PlaceInv
<1>2. ASSUME NEW t \in Threads, begin(t) \/ request(t) \/ clientStep(t) PROVE PlaceInv'
  BY <1>2, ClientsKeepPlaces
<1>3. ASSUME NEW w \in Workers, runEvent(w) \/ serverStep(w) PROVE PlaceInv'
  <2>1. Handled \/ \E c \in Calls : Reads(c)
    BY <1>3, RunIsHandled, ServerIsHandled, ReadEffects DEF PlaceInv
  <2> QED
    BY <1>1, <2>1, HandledKeepsPlaces, ReadKeepsPlaces DEF PlaceInv
<1>4. ASSUME NEW c \in Calls, deliver(c) \/ fail(c) PROVE PlaceInv'
  <2>1. PlacesOK' /\ \A type \in RequestType : Listens(type)'
    BY <1>4, ReceiveKeepsPlaces, CompleteKeepsPlaces, FailKeepsPlaces DEF deliver
  <2> QED
    BY <1>1, <2>1 DEF PlaceInv
<1>5. CASE UNCHANGED vars
  <2>1. UNCHANGED <<serverVars, answered, taken, eventVars, cur_id, coord, call, pc, sent, failed>>
    BY <1>5 DEF vars, messageVars, clientVars, mainVars
  <2>2. \A d \in Calls : Unmade(d)' = Unmade(d)
    BY <2>1, SameUnmade
  <2>3. /\ \A d \in Calls : Seen(d)' = Seen(d)
        /\ \A type \in RequestType : Listens(type)' = Listens(type)
    BY <2>1, SameServer
  <2>4. PlacesOK'
    BY <2>1, <2>2, <2>3 DEF PlaceInv, PlacesOK, serverVars
  <2> QED
    BY <1>1, <2>3, <2>4 DEF PlaceInv
<1> QED
  BY <1>2, <1>3, <1>4, <1>5 DEF Next

\* A handler of every type waits for a request, or the event that will prepare one has
\* not been read, however many workers read the events: asyncNextRequest and
\* asyncNextCompletedReply prepare a handler for each request they read, once
\* (AlwaysListening).
THEOREM ListensForEveryType == Spec => []AlwaysListening
<1>1. ASSUME PlaceInv PROVE AlwaysListening
  <2>1. SUFFICES ASSUME NEW type \in RequestType
                 PROVE  prepared[type] + Cardinality(Unread(type)) = 1
    BY <2>1 DEF AlwaysListening, Unread
  <2>2. Listens(type)
    BY <1>1 DEF PlaceInv
  <2>3. Cardinality({}) = 0 /\ \A c \in Calls : Cardinality({c}) = 1
    BY FS_EmptySet, FS_Singleton
  <2> QED
    BY <2>2, <2>3 DEF Listens
<1> QED
  BY <1>1, PlacesInit, PlacesStep, PTL DEF Spec

-----------------------------------------------------------------------------
(* One worker: how the server handles a call                                *)

SingleWorker == \A v, w \in Workers : v = w

\* The event of the call waits, runs, or has its reply to send.
InHand(c) ==
    \/ waits_for[c] # None
    \/ \E w \in Workers : (rid[w] = c /\ worker[w] = "run") \/ c \in owes[w]

RequestsOK ==
    /\ Distinct(request_queue)
    /\ \A c \in Range(request_queue) : taken[c] = 0 /\ status[c] = "PROCESS" /\ c \notin cq

HandsOK == \A c \in Calls : InHand(c) => taken[c] = 1 /\ status[c] = "PROCESS" /\ c \notin cq

FinishingOK ==
    \A c \in finishing : taken[c] = 1 /\ status[c] = "FINISH" /\ c \notin cq \cup answered

AnsweredOK == \A c \in answered : taken[c] = 1 /\ status[c] # "PROCESS"

EventsOK == \A c \in cq : status[c] # "deleted" /\ (status[c] = "FINISH" => c \in answered)

RepliesOK ==
    /\ Distinct(reply_queue)
    /\ \A c \in Range(reply_queue) : status[c] = "FINISH" /\ c \in answered /\ c \notin cq

WorkerOK(w) ==
    /\ worker[w] = "erase request" => request_queue # <<>> /\ rid[w] = Head(request_queue)
    /\ worker[w] = "erase reply" => reply_queue # <<>> /\ rid[w] = Head(reply_queue)
    /\ worker[w] = "run" => waits_for[rid[w]] = None
    /\ worker[w] = "reply" => rid[w] \in owes[w]
    /\ worker[w] # "reply" => owes[w] = {}
    /\ worker[w] = "delete" =>
          rid[w] \in answered /\ status[rid[w]] = "FINISH" /\ rid[w] \notin cq \cup Range(reply_queue)
    /\ \A c \in owes[w] : waits_for[c] = None

WorkersOK == \A w \in Workers : WorkerOK(w)

\* The thread of a request that no worker was given waits for its reply, and a call
\* returns with one.
AnswersOK ==
    /\ returned \subseteq answered
    /\ \A c \in Calls : Made(c) => c \notin returned
    /\ \A c \in Calls :
          c \in sent \cup Range(request_queue) \/ (c \in cq /\ status[c] = "PROCESS") => Made(c)

HandlingOK ==
    /\ RequestsOK /\ HandsOK /\ FinishingOK /\ AnsweredOK /\ EventsOK /\ RepliesOK /\ WorkersOK
    /\ exited = "no"

ServerInv == PlaceInv /\ HandlingOK /\ AnswersOK

LEMMA SameHandling ==
    ASSUME HandlingOK, UNCHANGED <<serverVars, answered, taken, waits_for>>
    PROVE  HandlingOK'
<1>1. UNCHANGED <<status, finishing, cq, request_queue, reply_queue, worker, rid, owes, exited,
                  answered, taken, waits_for>>
  BY DEF serverVars
<1>2. \A c \in Calls : InHand(c)' <=> InHand(c)
  BY <1>1 DEF InHand
<1>3. HandsOK'
  BY <1>1, <1>2 DEF HandlingOK, HandsOK
<1>4. WorkersOK'
  <2>1. WorkersOK
    BY DEF HandlingOK
  <2>2. /\ worker' = worker /\ rid' = rid /\ owes' = owes /\ waits_for' = waits_for
        /\ request_queue' = request_queue /\ reply_queue' = reply_queue
        /\ cq' = cq /\ answered' = answered /\ status' = status
    BY <1>1
  <2>3. ASSUME NEW w \in Workers PROVE WorkerOK(w)'
    <3>1. WorkerOK(w)
      BY <2>1 DEF WorkersOK
    <3> QED
      BY <2>2, <3>1 DEF WorkerOK
  <2> QED
    BY <2>3 DEF WorkersOK
<1> QED
  BY <1>1, <1>3, <1>4 DEF HandlingOK, RequestsOK, FinishingOK, AnsweredOK, EventsOK, RepliesOK

\* The types that the steps of the worker need.
LEMMA HandlingTypes ==
    ASSUME PlaceInv
    PROVE  /\ rid \in [Workers -> Calls \cup {None}] /\ owes \in [Workers -> SUBSET Calls]
           /\ worker \in [Workers -> {"requests", "replies", "erase request", "erase reply", "run",
                                       "reply", "delete"}]
           /\ \A w \in Workers : rid[w] = None <=> worker[w] \in {"requests", "replies"}
           /\ status \in [Calls -> Server!RequestStatus]
           /\ waits_for \in [Calls -> Coordinators \cup {None}]
           /\ taken \in [Calls -> Nat]
           /\ request_queue \in Seq(Calls) /\ reply_queue \in Seq(Calls)
           /\ cq \subseteq Calls /\ finishing \subseteq Calls /\ answered \subseteq Calls
           /\ \A c \in Calls : c # None
BY CallFacts DEF PlaceInv, ClientInv, TypeOK

\* The event runs: its call and those it wakes stay in hand.
LEMMA RunHandles ==
    ASSUME PlaceInv, HandlingOK, SingleWorker, NEW w \in Workers, NEW replies \in SUBSET Calls,
           rid[w] # None, Server!run(w, replies), UNCHANGED <<answered, taken>>,
           replies # {} => rid[w] \in replies,
           \A c \in replies : InHand(c) /\ waits_for'[c] = None,
           \A c \in Calls : waits_for'[c] # None => InHand(c)
    PROVE  HandlingOK'
<1>1. \A v \in Workers : v = w
  BY DEF SingleWorker
<1>2. /\ UNCHANGED <<prepared, status, finishing, cq, request_queue, reply_queue, exited>>
      /\ owes' = [owes EXCEPT ![w] = replies]
      /\ worker' = [worker EXCEPT ![w] = IF replies = {} THEN "requests" ELSE "reply"]
      /\ rid' = [rid EXCEPT ![w] = IF replies = {} THEN None ELSE @]
  BY DEF Server!run, Server!GotoOr, Server!Goto, Server!handlerVars, Server!queueVars
<1>3. /\ owes'[w] = replies
      /\ worker'[w] = IF replies = {} THEN "requests" ELSE "reply"
      /\ rid'[w] = IF replies = {} THEN None ELSE rid[w]
  BY <1>2, HandlingTypes
<1>4. \A c \in Calls : InHand(c)' => InHand(c)
  BY <1>1, <1>3 DEF InHand
<1>5. WorkersOK'
  BY <1>1, <1>3 DEF WorkersOK, WorkerOK
<1> QED
  BY <1>2, <1>4, <1>5 DEF HandlingOK, RequestsOK, HandsOK, FinishingOK, AnsweredOK, EventsOK, RepliesOK

LEMMA RunEventHandles ==
    ASSUME PlaceInv, HandlingOK, SingleWorker, NEW w \in Workers, runEvent(w)
    PROVE  HandlingOK'
<1>1. /\ rid[w] \in Calls /\ rid[w] # None /\ UNCHANGED <<answered, taken>>
      /\ runRead(w) \/ runWrite(w) \/ runP1C(w) \/ runP2C(w)
  BY HandlingTypes DEF runEvent, messageVars
<1>2. worker[w] = "run"
  BY <1>1 DEF runRead, runWrite, runP1C, runP2C, Server!run, Server!At
<1>3. /\ InHand(rid[w]) /\ waits_for[rid[w]] = None
      /\ \A c \in Calls : waits_for[c] # None => InHand(c)
  BY <1>1, <1>2 DEF InHand, HandlingOK, WorkersOK, WorkerOK
<1>4. CASE Server!run(w, {rid[w]}) /\ UNCHANGED waits_for
  BY <1>1, <1>3, <1>4, RunHandles
<1>5. CASE runRead(w)
  <2>1. ASSUME NEW k \in prepares, Server!run(w, {}), waits_for' = [waits_for EXCEPT ![rid[w]] = k]
        PROVE  HandlingOK'
    <3>1. \A c \in Calls : waits_for'[c] # None => InHand(c)
      BY <1>3, <2>1, HandlingTypes
    <3> QED
      BY <1>1, <2>1, <3>1, RunHandles
  <2> QED
    BY <1>4, <1>5, <2>1 DEF runRead
<1>6. CASE runWrite(w) \/ runP1C(w)
  BY <1>4, <1>6 DEF runWrite, runP1C, eventVars
<1>7. CASE runP2C(w)
  <2> DEFINE woken == {c \in Calls : waits_for[c] = rid[w][1]}
  <2>1. PICK again \in [woken -> prepares' \cup {None}] :
          /\ waits_for' = [c \in Calls |-> IF c \in woken THEN again[c] ELSE waits_for[c]]
          /\ Server!run(w, {rid[w]} \cup {c \in woken : again[c] = None})
    BY <1>7 DEF runP2C
  <2>2. rid[w] \notin woken /\ \A c \in woken : waits_for[c] # None
    BY <1>1, <1>3, CallFacts
  <2> DEFINE replies == {rid[w]} \cup {c \in woken : again[c] = None}
  <2>3. replies \in SUBSET Calls /\ rid[w] \in replies
    BY <1>1
  <2>4. \A c \in replies : InHand(c) /\ waits_for'[c] = None
    BY <1>1, <1>3, <2>1, <2>2
  <2>5. \A c \in Calls : waits_for'[c] # None => InHand(c)
    BY <1>3, <2>1, <2>2
  <2>6. Server!run(w, replies)
    BY <2>1
  <2> HIDE DEF replies, woken
  <2> QED
    BY <1>1, <2>3, <2>4, <2>5, <2>6, RunHandles
<1> QED
  BY <1>1, <1>5, <1>6, <1>7

\* processAsyncQueue puts the handler of the event into the queue where it belongs.
LEMMA ReadHandles ==
    ASSUME PlaceInv, HandlingOK, SingleWorker, NEW w \in Workers, Server!processAsyncQueue(w),
           UNCHANGED <<taken, waits_for>>
    PROVE  HandlingOK'
<1>1. PICK c \in cq :
        /\ cq' = cq \ {c}
        /\ \/ /\ status[c] = "PROCESS"
              /\ request_queue' = Append(request_queue, c)
              /\ UNCHANGED reply_queue
           \/ /\ status[c] = "FINISH"
              /\ reply_queue' = Append(reply_queue, c)
              /\ UNCHANGED request_queue
  BY DEF Server!processAsyncQueue
<1>2. /\ \A v \in Workers : v = w
      /\ worker[w] \in {"requests", "replies"}
      /\ c \in Calls
      /\ UNCHANGED <<answered, status, finishing, worker, rid, owes, exited>>
  BY HandlingTypes DEF SingleWorker, Server!processAsyncQueue, Server!At, Server!workerVars
<1>3. \A s \in Seq(Calls) : /\ Range(Append(s, c)) = Range(s) \cup {c}
                            /\ Distinct(s) /\ c \notin Range(s) => Distinct(Append(s, c))
  BY <1>2, AppendFacts
<1>4. \A d \in Calls : InHand(d)' = InHand(d)
  BY <1>2 DEF InHand
<1>5. HandsOK' /\ FinishingOK' /\ AnsweredOK' /\ EventsOK'
  BY <1>1, <1>2, <1>4 DEF HandlingOK, HandsOK, FinishingOK, AnsweredOK, EventsOK
<1>6. WorkersOK'
  BY <1>2 DEF HandlingOK, WorkersOK, WorkerOK
<1>7. RequestsOK' /\ RepliesOK'
  <2>1. CASE status[c] = "PROCESS"
    <3>1. taken[c] = 0 /\ c \notin Range(request_queue)
      BY <1>1, <1>2, <2>1 DEF HandlingOK, RequestsOK, PlaceInv, PlacesOK, Seen
    <3>2. /\ Range(request_queue') = Range(request_queue) \cup {c} /\ Distinct(request_queue')
          /\ UNCHANGED reply_queue
      BY <1>1, <1>3, <2>1, <3>1, HandlingTypes DEF HandlingOK, RequestsOK
    <3> QED
      BY <1>1, <1>2, <2>1, <3>1, <3>2 DEF HandlingOK, RequestsOK, RepliesOK
  <2>2. CASE status[c] = "FINISH"
    <3>1. c \in answered /\ c \notin Range(reply_queue)
      BY <1>1, <2>2 DEF HandlingOK, RepliesOK, EventsOK
    <3>2. /\ Range(reply_queue') = Range(reply_queue) \cup {c} /\ Distinct(reply_queue')
          /\ UNCHANGED request_queue
      BY <1>1, <1>3, <2>2, <3>1, HandlingTypes DEF HandlingOK, RepliesOK
    <3> QED
      BY <1>1, <1>2, <2>2, <3>1, <3>2 DEF HandlingOK, RequestsOK, RepliesOK
  <2> QED
    BY <1>1, <2>1, <2>2
<1> QED
  BY <1>2, <1>5, <1>6, <1>7 DEF HandlingOK

\* The worker takes the first request or reply, or goes round the loop.
LEMMA FrontHandles ==
    ASSUME PlaceInv, HandlingOK, SingleWorker, NEW w \in Workers,
           Server!asyncNextRequest(w) \/ Server!asyncNextCompletedReply(w), UNCHANGED <<taken, waits_for>>
    PROVE  HandlingOK'
<1>1. /\ UNCHANGED <<answered, status, finishing, cq, request_queue, reply_queue, owes, exited>>
      /\ worker[w] \in {"requests", "replies"}
      /\ \/ worker' = [worker EXCEPT ![w] = "requests"]
         \/ worker' = [worker EXCEPT ![w] = "replies"]
         \/ /\ request_queue # <<>> /\ worker' = [worker EXCEPT ![w] = "erase request"]
            /\ rid' = [rid EXCEPT ![w] = Head(request_queue)]
         \/ /\ reply_queue # <<>> /\ worker' = [worker EXCEPT ![w] = "erase reply"]
            /\ rid' = [rid EXCEPT ![w] = Head(reply_queue)]
  BY DEF Server!asyncNextRequest, Server!asyncNextCompletedReply, Server!Front, Server!At, Server!Goto,
         Server!handlerVars, Server!queueVars
<1>2. \A v \in Workers : v = w
  BY DEF SingleWorker
<1>3. /\ worker'[w] \in {"requests", "replies", "erase request", "erase reply"}
      /\ worker'[w] = "erase request" => request_queue # <<>> /\ rid'[w] = Head(request_queue)
      /\ worker'[w] = "erase reply" => reply_queue # <<>> /\ rid'[w] = Head(reply_queue)
  BY <1>1, HandlingTypes
<1>4. \A c \in Calls : InHand(c)' = InHand(c)
  BY <1>1, <1>2, <1>3 DEF InHand
<1>5. WorkersOK'
  BY <1>1, <1>2, <1>3 DEF HandlingOK, WorkersOK, WorkerOK
<1> QED
  BY <1>1, <1>4, <1>5 DEF HandlingOK, RequestsOK, HandsOK, FinishingOK, AnsweredOK, EventsOK, RepliesOK

\* getRequest and getArgs find the handler in PROCESS, and the request leaves the queue.
LEMMA EraseRequestHandles ==
    ASSUME PlaceInv, HandlingOK, SingleWorker, NEW w \in Workers, Server!eraseRequest(w),
           taken' = [taken EXCEPT ![rid[w]] = @ + 1], UNCHANGED waits_for
    PROVE  HandlingOK'
<1>1. worker[w] = "erase request" /\ request_queue # <<>> /\ rid[w] = Head(request_queue)
  BY DEF HandlingOK, WorkersOK, WorkerOK, Server!eraseRequest, Server!At
<1>2. PICK c \in Calls : c = rid[w] /\ c \in Range(request_queue)
  BY <1>1, TailFacts, HandlingTypes
<1>3. taken[c] = 0 /\ status[c] = "PROCESS" /\ c \notin cq
  BY <1>2 DEF HandlingOK, RequestsOK
<1>4. /\ Range(request_queue) = Range(Tail(request_queue)) \cup {c}
      /\ Distinct(Tail(request_queue)) /\ c \notin Range(Tail(request_queue))
  <2>1. request_queue \in Seq(Calls) /\ Distinct(request_queue) /\ c = Head(request_queue)
    BY <1>1, <1>2, HandlingTypes DEF HandlingOK, RequestsOK
  <2> QED
    BY <1>1, <2>1, TailFacts
<1>5. /\ request_queue' = Tail(request_queue) /\ exited' = "no"
      /\ worker' = [worker EXCEPT ![w] = "run"]
      /\ UNCHANGED <<answered, status, finishing, cq, reply_queue, rid, owes>>
  BY <1>1, <1>2, <1>3
    DEF Server!eraseRequest, Server!Erase, Server!EraseEnds, Server!getRequest, Server!getArgs,
        Server!Check, Server!Goto, Server!handlerVars
<1>6. \A v \in Workers : v = w
  BY DEF SingleWorker
<1>7. /\ worker'[w] = "run" /\ taken'[c] = 1 /\ \A d \in Calls : d # c => taken'[d] = taken[d]
  <2>1. worker'[w] = "run"
    BY <1>5, HandlingTypes
  <2>2. taken \in [Calls -> Nat] /\ taken' = [taken EXCEPT ![c] = @ + 1]
    BY <1>2, HandlingTypes
  <2> QED
    BY <1>3, <2>1, <2>2
<1>8. ~InHand(c) /\ c \notin finishing /\ c \notin answered
  BY <1>3 DEF HandlingOK, HandsOK, FinishingOK, AnsweredOK
<1>9. \A d \in Calls : InHand(d)' => InHand(d) \/ d = c
  BY <1>2, <1>5, <1>6 DEF InHand
<1>10. HandsOK'
  BY <1>3, <1>5, <1>7, <1>9 DEF HandlingOK, HandsOK
<1>11. WorkersOK'
  BY <1>1, <1>2, <1>5, <1>6, <1>7, <1>8 DEF HandlingOK, WorkersOK, WorkerOK, InHand
<1>12. RequestsOK'
  BY <1>4, <1>5, <1>7, HandlingTypes, RangeOfSeq DEF HandlingOK, RequestsOK
<1>13. FinishingOK' /\ AnsweredOK' /\ EventsOK' /\ RepliesOK'
  BY <1>5, <1>7, <1>8, HandlingTypes DEF HandlingOK, FinishingOK, AnsweredOK, EventsOK, RepliesOK
<1> QED
  BY <1>5, <1>10, <1>11, <1>12, <1>13 DEF HandlingOK

\* The reply leaves the queue.
LEMMA EraseReplyHandles ==
    ASSUME PlaceInv, HandlingOK, SingleWorker, NEW w \in Workers, Server!eraseReply(w),
           UNCHANGED <<taken, waits_for>>
    PROVE  HandlingOK'
<1>1. worker[w] = "erase reply" /\ reply_queue # <<>> /\ rid[w] = Head(reply_queue) /\ owes[w] = {}
  BY DEF HandlingOK, WorkersOK, WorkerOK, Server!eraseReply, Server!At
<1>2. PICK c \in Calls : c = rid[w] /\ c \in Range(reply_queue)
  BY <1>1, TailFacts, HandlingTypes
<1>3. status[c] = "FINISH" /\ c \in answered /\ c \notin cq
  BY <1>2 DEF HandlingOK, RepliesOK
<1>4. /\ Range(reply_queue) = Range(Tail(reply_queue)) \cup {c}
      /\ Distinct(Tail(reply_queue)) /\ c \notin Range(Tail(reply_queue))
  <2>1. reply_queue \in Seq(Calls) /\ Distinct(reply_queue) /\ c = Head(reply_queue)
    BY <1>1, <1>2, HandlingTypes DEF HandlingOK, RepliesOK
  <2> QED
    BY <1>1, <2>1, TailFacts
<1>5. /\ reply_queue' = Tail(reply_queue) /\ exited' = "no"
      /\ worker' = [worker EXCEPT ![w] = "delete"]
      /\ UNCHANGED <<answered, status, finishing, cq, request_queue, rid, owes>>
  BY <1>1
    DEF Server!eraseReply, Server!Erase, Server!EraseEnds, Server!Goto, Server!handlerVars
<1>6. /\ \A v \in Workers : v = w
      /\ worker'[w] = "delete"
  BY <1>5, HandlingTypes DEF SingleWorker
<1>7. \A d \in Calls : InHand(d)' => InHand(d)
  BY <1>5, <1>6 DEF InHand
<1>8. WorkersOK'
  BY <1>1, <1>2, <1>3, <1>4, <1>5, <1>6 DEF WorkersOK, WorkerOK
<1>9. RepliesOK'
  BY <1>4, <1>5 DEF HandlingOK, RepliesOK
<1> QED
  BY <1>5, <1>7, <1>8, <1>9 DEF HandlingOK, RequestsOK, HandsOK, FinishingOK, AnsweredOK, EventsOK

\* setReply finds the handler in PROCESS, and leaves it in FINISH.
LEMMA SendReplyHandles ==
    ASSUME PlaceInv, HandlingOK, SingleWorker, NEW w \in Workers, NEW c \in Calls, Server!sendReply(w, c),
           UNCHANGED <<taken, waits_for>>
    PROVE  HandlingOK'
<1>1. /\ worker[w] = "reply" /\ c \in owes[w] /\ (c = rid[w] => owes[w] = {c})
      /\ rid[w] \in owes[w] /\ waits_for[c] = None
  BY DEF HandlingOK, WorkersOK, WorkerOK, Server!sendReply, Server!At
<1>2. taken[c] = 1 /\ status[c] = "PROCESS" /\ c \notin cq
  BY <1>1 DEF HandlingOK, HandsOK, InHand
<1>3. c \notin answered /\ c \notin Range(request_queue) /\ c \notin Range(reply_queue)
  BY <1>2 DEF HandlingOK, AnsweredOK, RequestsOK, RepliesOK
<1>4. /\ exited' = "no" /\ status' = [status EXCEPT ![c] = "FINISH"]
      /\ finishing' = finishing \cup {c}
      /\ owes' = [owes EXCEPT ![w] = @ \ {c}]
      /\ worker' = [worker EXCEPT ![w] = IF owes[w] = {c} THEN "requests" ELSE "reply"]
      /\ rid' = [rid EXCEPT ![w] = IF owes[w] = {c} THEN None ELSE @]
      /\ UNCHANGED <<answered, cq, request_queue, reply_queue>>
  BY <1>2 DEF Server!sendReply, Server!setReply, Server!Check, Server!GotoOr, Server!Goto, Server!queueVars
<1>5. /\ \A v \in Workers : v = w
      /\ owes'[w] = owes[w] \ {c}
      /\ worker'[w] = IF owes[w] = {c} THEN "requests" ELSE "reply"
      /\ rid'[w] = IF owes[w] = {c} THEN None ELSE rid[w]
      /\ status'[c] = "FINISH" /\ \A d \in Calls : d # c => status'[d] = status[d]
  BY <1>4, HandlingTypes DEF SingleWorker
<1>6. \A d \in Calls : InHand(d)' => InHand(d) /\ d # c
  BY <1>1, <1>5 DEF InHand
<1>7. HandsOK'
  BY <1>4, <1>5, <1>6 DEF HandlingOK, HandsOK
<1>8. WorkersOK'
  <2>1. \A d \in owes'[w] : waits_for'[d] = None
    BY <1>5 DEF HandlingOK, WorkersOK, WorkerOK
  <2>2. CASE owes[w] = {c}
    BY <1>5, <2>1, <2>2 DEF WorkersOK, WorkerOK
  <2>3. CASE owes[w] # {c}
    BY <1>1, <1>5, <2>1, <2>3 DEF WorkersOK, WorkerOK
  <2> QED
    BY <2>2, <2>3
<1>9. RequestsOK' /\ RepliesOK'
  BY <1>3, <1>4, <1>5, HandlingTypes, RangeOfSeq DEF HandlingOK, RequestsOK, RepliesOK
<1>10. FinishingOK' /\ AnsweredOK' /\ EventsOK'
  BY <1>2, <1>3, <1>4, <1>5, HandlingTypes DEF HandlingOK, FinishingOK, AnsweredOK, EventsOK
<1> QED
  BY <1>4, <1>7, <1>8, <1>9, <1>10 DEF HandlingOK

\* deleteRequest finds the handler in FINISH; nothing else has a pointer to it.
LEMMA DeleteRequestHandles ==
    ASSUME PlaceInv, HandlingOK, SingleWorker, NEW w \in Workers, Server!deleteRequest(w),
           UNCHANGED <<taken, waits_for>>
    PROVE  HandlingOK'
<1>1. worker[w] = "delete" /\ owes[w] = {}
  BY DEF HandlingOK, WorkersOK, WorkerOK, Server!deleteRequest, Server!At
<1>2. PICK c \in Calls : c = rid[w]
  BY <1>1, HandlingTypes
<1>3. c \in answered /\ status[c] = "FINISH" /\ c \notin cq /\ c \notin Range(reply_queue)
  BY <1>1, <1>2 DEF HandlingOK, WorkersOK, WorkerOK
<1>4. c \notin finishing /\ c \notin Range(request_queue) /\ ~InHand(c)
  BY <1>3 DEF HandlingOK, FinishingOK, RequestsOK, HandsOK
<1>5. /\ exited' = "no" /\ status' = [status EXCEPT ![c] = "deleted"]
      /\ worker' = [worker EXCEPT ![w] = "requests"]
      /\ rid' = [rid EXCEPT ![w] = None]
      /\ UNCHANGED <<answered, finishing, cq, request_queue, reply_queue, owes>>
  BY <1>2, <1>3 DEF Server!deleteRequest, Server!Check, Server!GotoOr, Server!Goto, Server!queueVars
<1>6. /\ \A v \in Workers : v = w
      /\ worker'[w] = "requests"
      /\ status'[c] = "deleted" /\ \A d \in Calls : d # c => status'[d] = status[d]
  BY <1>5, HandlingTypes DEF SingleWorker
<1>7. \A d \in Calls : InHand(d)' => InHand(d)
  BY <1>5, <1>6 DEF InHand
<1>8. HandsOK'
  BY <1>4, <1>5, <1>6, <1>7 DEF HandlingOK, HandsOK
<1>9. WorkersOK'
  BY <1>1, <1>5, <1>6 DEF WorkersOK, WorkerOK
<1>10. RequestsOK' /\ RepliesOK'
  BY <1>3, <1>4, <1>5, <1>6, HandlingTypes, RangeOfSeq DEF HandlingOK, RequestsOK, RepliesOK
<1>11. FinishingOK' /\ AnsweredOK' /\ EventsOK'
  BY <1>3, <1>4, <1>5, <1>6, HandlingTypes DEF HandlingOK, FinishingOK, AnsweredOK, EventsOK
<1> QED
  BY <1>5, <1>8, <1>9, <1>10, <1>11 DEF HandlingOK

\* A request that arrives is nowhere at the server.
LEMMA ReceiveHandles ==
    ASSUME PlaceInv, HandlingOK, NEW c \in Calls, deliver(c), Server!receive(c)
    PROVE  HandlingOK'
<1>1. /\ UNCHANGED <<answered, status, finishing, request_queue, reply_queue, worker, rid, owes, exited,
                     taken, waits_for>>
      /\ c \in sent /\ cq' = cq \cup {c}
  BY DEF deliver, Server!receive, eventVars, Server!queueVars, Server!workerVars
<1>2. ~Seen(c) /\ status[c] = "PROCESS"
  BY <1>1 DEF PlaceInv, PlacesOK, Seen
<1>3. /\ c \notin finishing /\ c \notin Range(request_queue) /\ c \notin Range(reply_queue) /\ ~InHand(c)
      /\ \A w \in Workers : rid[w] # c
  BY <1>2 DEF Seen, InHand
<1>4. \A d \in Calls : InHand(d)' <=> InHand(d)
  BY <1>1 DEF InHand
<1>5. HandsOK' /\ RequestsOK' /\ RepliesOK'
  BY <1>1, <1>3, <1>4 DEF HandlingOK, HandsOK, RequestsOK, RepliesOK
<1>6. FinishingOK' /\ AnsweredOK' /\ EventsOK'
  BY <1>1, <1>2, <1>3 DEF HandlingOK, FinishingOK, AnsweredOK, EventsOK
<1>7. ASSUME NEW w \in Workers PROVE WorkerOK(w)'
  <2>1. WorkerOK(w)
    BY DEF HandlingOK, WorkersOK
  <2> QED
    BY <1>1, <1>3, <2>1 DEF WorkerOK
<1> QED
  BY <1>1, <1>5, <1>6, <1>7 DEF HandlingOK, WorkersOK

\* A reply that is written out is in no queue, and no worker has it.
LEMMA CompleteHandles ==
    ASSUME PlaceInv, HandlingOK, NEW c \in Calls, deliver(c), Server!complete(c)
    PROVE  HandlingOK'
<1>1. /\ UNCHANGED <<status, request_queue, reply_queue, worker, rid, owes, exited, taken, waits_for>>
      /\ c \in finishing /\ finishing' = finishing \ {c}
      /\ cq' = cq \cup {c} /\ answered' = answered \cup {c}
  BY DEF deliver, Server!complete, eventVars, Server!queueVars, Server!workerVars
<1>2. taken[c] = 1 /\ status[c] = "FINISH" /\ c \notin answered
  BY <1>1 DEF HandlingOK, FinishingOK
<1>3. c \notin Range(request_queue) /\ c \notin Range(reply_queue) /\ ~InHand(c)
  BY <1>2 DEF HandlingOK, RequestsOK, RepliesOK, HandsOK
<1>4. \A d \in Calls : InHand(d)' <=> InHand(d)
  BY <1>1 DEF InHand
<1>5. HandsOK' /\ RequestsOK' /\ RepliesOK'
  BY <1>1, <1>3, <1>4 DEF HandlingOK, HandsOK, RequestsOK, RepliesOK
<1>6. FinishingOK' /\ AnsweredOK' /\ EventsOK'
  BY <1>1, <1>2 DEF HandlingOK, FinishingOK, AnsweredOK, EventsOK
<1>7. ASSUME NEW w \in Workers PROVE WorkerOK(w)'
  <2>1. WorkerOK(w)
    BY DEF HandlingOK, WorkersOK
  <2> QED
    BY <1>1, <1>2, <2>1 DEF WorkerOK
<1> QED
  BY <1>1, <1>5, <1>6, <1>7 DEF HandlingOK, WorkersOK

LEMMA HandlingStep ==
    ASSUME PlaceInv, HandlingOK, SingleWorker, [Next]_vars
    PROVE  HandlingOK'
<1>1. ASSUME NEW t \in Threads, begin(t) \/ request(t) \/ clientStep(t) PROVE HandlingOK'
  <2>1. UNCHANGED <<serverVars, taken, eventVars>>
    BY <1>1, ClientTyped DEF ClientActs, PlaceInv
  <2>2. UNCHANGED answered
    BY <1>1, ClientEffects DEF PlaceInv, Quiet, Sends, Returns
  <2> QED
    BY <2>1, <2>2, SameHandling DEF eventVars
<1>2. ASSUME NEW w \in Workers, runEvent(w) PROVE HandlingOK'
  BY <1>2, RunEventHandles
<1>3. ASSUME NEW w \in Workers, serverStep(w) PROVE HandlingOK'
  <2>1. UNCHANGED waits_for
    BY <1>3 DEF serverStep, eventVars
  <2>2. CASE Server!eraseRequest(w)
    <3>1. taken' = [taken EXCEPT ![rid[w]] = @ + 1]
      BY <1>3, <2>2 DEF serverStep, Server!eraseRequest, Server!At
    <3> QED
      BY <2>1, <2>2, <3>1, EraseRequestHandles
  <2>3. ~Server!eraseRequest(w) => UNCHANGED taken
    BY <1>3
      DEF serverStep, Server!Step, Server!processAsyncQueue, Server!asyncNextRequest, Server!eraseReply,
          Server!asyncNextCompletedReply, Server!Front, Server!sendReply, Server!deleteRequest, Server!At
  <2>4. ASSUME NEW c \in Calls, Server!sendReply(w, c) PROVE HandlingOK'
    <3>1. UNCHANGED taken
      BY <1>3, <2>4 DEF serverStep, Server!sendReply, Server!At
    <3> QED
      BY <2>1, <2>4, <3>1, SendReplyHandles
  <2> QED
    BY <1>3, <2>1, <2>2, <2>3, <2>4, ReadHandles, FrontHandles, EraseReplyHandles, DeleteRequestHandles
      DEF serverStep, Server!Step
<1>4. ASSUME NEW c \in Calls, deliver(c) PROVE HandlingOK'
  BY <1>4, ReceiveHandles, CompleteHandles DEF deliver
<1>5. ASSUME NEW c \in Calls, fail(c) PROVE HandlingOK'
  BY <1>5, SameHandling DEF fail, Client!fail, eventVars
<1>6. CASE UNCHANGED vars
  BY <1>6, SameHandling DEF vars, messageVars, eventVars
<1> QED
  BY <1>1, <1>2, <1>3, <1>4, <1>5, <1>6 DEF Next

-----------------------------------------------------------------------------
(* One worker: both ends as remote calls                                    *)

\* A call that is answered is not on its way to a worker.
LEMMA AnsweredOnce ==
    ASSUME ServerInv, NEW c \in answered
    PROVE  /\ c \in Calls /\ taken[c] = 1 /\ status[c] # "PROCESS"
           /\ c \notin sent /\ c \notin failed /\ c \notin Range(request_queue)
<1>1. c \in Calls /\ Seen(c)
  BY HandlingTypes DEF ServerInv, Seen
<1>2. taken[c] = 1 /\ status[c] # "PROCESS"
  BY DEF ServerInv, HandlingOK, AnsweredOK
<1> QED
  BY <1>1, <1>2 DEF ServerInv, HandlingOK, RequestsOK, PlaceInv, PlacesOK

\* The call is on its way to a worker.
OnItsWay(c) == c \in sent \cup Range(request_queue) \/ (c \in cq /\ status[c] = "PROCESS")

\* A step that is not one of a thread makes no call and returns from none.
LEMMA AnswersKept ==
    ASSUME ServerInv, UNCHANGED <<pc, call, returned>>, answered \subseteq answered',
           \A c \in Calls : OnItsWay(c)' => OnItsWay(c)
    PROVE  AnswersOK'
<1>1. \A c \in Calls : Made(c)' <=> Made(c)
  BY DEF Made
<1>2. \A c \in Calls : OnItsWay(c)' => Made(c)'
  BY <1>1 DEF ServerInv, AnswersOK, OnItsWay
<1> QED
  BY <1>1, <1>2 DEF ServerInv, AnswersOK, OnItsWay

LEMMA AnswersStep ==
    ASSUME ServerInv, SingleWorker, [Next]_vars
    PROVE  AnswersOK'
<1>1. ASSUME NEW t \in Threads, begin(t) \/ request(t) \/ clientStep(t) PROVE AnswersOK'
  <2>1. UNCHANGED <<cq, status, request_queue>>
    BY <1>1, ClientTyped DEF ClientActs, ServerInv, PlaceInv, serverVars
  <2>2. Quiet \/ \E c \in Calls : Sends(c) \/ Returns(c)
    BY <1>1, ClientEffects DEF ServerInv, PlaceInv
  <2>3. CASE Quiet
    BY <2>1, <2>3 DEF Quiet, ServerInv, AnswersOK
  <2>4. ASSUME NEW c \in Calls, Sends(c) PROVE AnswersOK'
    <3>1. c \notin answered
      BY <2>4 DEF Sends, ServerInv, PlaceInv, PlacesOK, Seen
    <3> QED
      BY <2>1, <2>4, <3>1 DEF Sends, ServerInv, AnswersOK
  <2>5. ASSUME NEW c \in Calls, Returns(c) PROVE AnswersOK'
    <3>1. c \in answered /\ ~OnItsWay(c)
      BY <2>5, AnsweredOnce DEF Returns, OnItsWay
    <3> QED
      BY <2>1, <2>5, <3>1 DEF Returns, ServerInv, AnswersOK, OnItsWay
  <2> QED
    BY <2>2, <2>3, <2>4, <2>5
<1>2. ASSUME NEW w \in Workers, runEvent(w) \/ serverStep(w) PROVE AnswersOK'
  <2>1. Handled \/ \E c \in Calls : Reads(c)
    BY <1>2, RunIsHandled, ServerIsHandled, ReadEffects DEF ServerInv, PlaceInv
  <2>2. CASE Handled
    <3>1. \A c \in Calls : OnItsWay(c)' => OnItsWay(c)
      BY <2>2 DEF Handled, OnItsWay
    <3> QED
      BY <2>2, <3>1, AnswersKept DEF Handled, clientVars
  <2>3. ASSUME NEW c \in Calls, Reads(c) PROVE AnswersOK'
    <3>1. \A d \in Calls : OnItsWay(d)' => OnItsWay(d)
      BY <2>3 DEF Reads, OnItsWay
    <3> QED
      BY <2>3, <3>1, AnswersKept DEF Reads, clientVars
  <2> QED
    BY <2>1, <2>2, <2>3
<1>3. ASSUME NEW c \in Calls, deliver(c) PROVE AnswersOK'
  <2>1. UNCHANGED <<pc, call, returned, status, request_queue>>
    BY <1>3 DEF deliver, clientVars, Server!receive, Server!complete, Server!queueVars
  <2>2. CASE Server!receive(c)
    BY <2>1, <2>2, AnswersKept DEF Server!receive, OnItsWay
  <2>3. CASE Server!complete(c)
    <3>1. status[c] = "FINISH"
      BY <2>3 DEF Server!complete, ServerInv, HandlingOK, FinishingOK
    <3> QED
      BY <2>1, <2>3, <3>1, AnswersKept DEF Server!complete, OnItsWay
  <2> QED
    BY <1>3, <2>2, <2>3 DEF deliver
<1>4. ASSUME NEW c \in Calls, fail(c) PROVE AnswersOK'
  BY <1>4, AnswersKept DEF fail, Client!fail, serverVars, OnItsWay
<1>5. CASE UNCHANGED vars
  BY <1>5, AnswersKept DEF vars, messageVars, clientVars, serverVars, OnItsWay
<1> QED
  BY <1>1, <1>2, <1>3, <1>4, <1>5 DEF Next

LEMMA ServerInit == Init => ServerInv
<1> SUFFICES ASSUME Init PROVE ServerInv
  OBVIOUS
<1>1. /\ sent = {} /\ answered = {} /\ returned = {} /\ finishing = {} /\ cq = {}
      /\ request_queue = <<>> /\ reply_queue = <<>> /\ exited = "no"
      /\ worker = [w \in Workers |-> "requests"]
      /\ rid = [w \in Workers |-> None] /\ owes = [w \in Workers |-> {}]
      /\ waits_for = [c \in Calls |-> None]
      /\ pc = [t \in Threads |-> "idle"]
  BY DEF Init, Server!Init, Client!Init
<1>2. \A c \in Calls : ~InHand(c) /\ ~Made(c)
  BY <1>1 DEF InHand, Made, Underway
<1>3. WorkersOK
  BY <1>1 DEF WorkersOK, WorkerOK
<1>4. HandlingOK /\ AnswersOK
  BY <1>1, <1>2, <1>3, EmptyRange
    DEF HandlingOK, AnswersOK, RequestsOK, RepliesOK, HandsOK, FinishingOK, AnsweredOK, EventsOK
<1> QED
  BY <1>4, PlacesInit DEF ServerInv

LEMMA ServerStep ==
    ASSUME SingleWorker
    PROVE  ServerInv /\ [Next]_vars => ServerInv'
BY PlacesStep, HandlingStep, AnswersStep DEF ServerInv

LEMMA ServerAlways ==
    ASSUME SingleWorker
    PROVE  Spec => []ServerInv
BY ServerInit, ServerStep, PTL DEF Spec

\* With one worker every status check of a handler passes (StatusChecksPass): getRequest,
\* getArgs and setReply find PROCESS, and deleteRequest finds FINISH.
THEOREM ChecksPass ==
    ASSUME SingleWorker
    PROVE  Spec => []StatusChecksPass
<1>1. ServerInv => StatusChecksPass
  BY DEF ServerInv, HandlingOK, StatusChecksPass
<1> QED
  BY <1>1, ServerAlways, PTL

\* With one worker no handler is deleted that an event, a queue, the worker or a waiting
\* read still points to (NoDanglingHandler).
THEOREM NoHandlerDangles ==
    ASSUME SingleWorker
    PROVE  Spec => []NoDanglingHandler
<1>1. ASSUME ServerInv PROVE NoDanglingHandler
  <2>1. \A c \in cq \cup finishing \cup Range(request_queue) \cup Range(reply_queue) : status[c] # "deleted"
    BY <1>1 DEF ServerInv, HandlingOK, EventsOK, FinishingOK, RequestsOK, RepliesOK
  <2>2. ASSUME NEW w \in Workers, rid[w] # None PROVE status[rid[w]] # "deleted"
    <3>1. /\ rid[w] \in Calls
          /\ worker[w] \in {"erase request", "erase reply", "run", "reply", "delete"}
          /\ WorkerOK(w)
      BY <1>1, <2>2, HandlingTypes DEF ServerInv, HandlingOK, WorkersOK
    <3>a. \A q \in Seq(Calls) : q # <<>> => Head(q) \in Range(q)
      BY TailFacts
    <3>b. request_queue \in Seq(Calls) /\ reply_queue \in Seq(Calls)
      BY <1>1, HandlingTypes DEF ServerInv
    <3>2. worker[w] = "erase request" => rid[w] \in Range(request_queue)
      BY <3>1, <3>a, <3>b DEF WorkerOK
    <3>3. worker[w] = "erase reply" => rid[w] \in Range(reply_queue)
      BY <3>1, <3>a, <3>b DEF WorkerOK
    <3>4. worker[w] \in {"run", "reply"} => status[rid[w]] = "PROCESS"
      BY <1>1, <3>1 DEF WorkerOK, ServerInv, HandlingOK, HandsOK, InHand
    <3> QED
      BY <2>1, <3>1, <3>2, <3>3, <3>4 DEF WorkerOK
  <2>3. \A c \in Calls : waits_for[c] # None => status[c] # "deleted"
    BY <1>1 DEF ServerInv, HandlingOK, HandsOK, InHand
  <2>4. ASSUME NEW w \in Workers, NEW c \in owes[w] PROVE status[c] # "deleted"
    <3>1. c \in Calls /\ InHand(c)
      BY <1>1, <2>4, HandlingTypes DEF ServerInv, InHand
    <3> QED
      BY <1>1, <3>1 DEF ServerInv, HandlingOK, HandsOK
  <2>5. ASSUME NEW c \in Calls, Referenced(c) PROVE status[c] # "deleted"
    <3>1. c # None
      BY CallFacts
    <3>2. ASSUME NEW w \in Workers, rid[w] = c PROVE status[c] # "deleted"
      BY <2>2, <3>1, <3>2
    <3>3. ASSUME NEW w \in Workers, c \in owes[w] PROVE status[c] # "deleted"
      BY <2>4, <3>3
    <3>4. CASE c \in cq \cup finishing \cup Range(request_queue) \cup Range(reply_queue)
      BY <2>1, <3>4
    <3>5. CASE waits_for[c] # None
      BY <2>3, <3>5
    <3>6. \/ c \in cq \cup finishing \cup Range(request_queue) \cup Range(reply_queue)
          \/ \E w \in Workers : rid[w] = c \/ c \in owes[w]
          \/ waits_for[c] # None
      BY <2>5 DEF Referenced
    <3> QED
      BY <3>2, <3>3, <3>4, <3>5, <3>6
  <2> QED
    BY <2>5 DEF NoDanglingHandler
<1> QED
  BY <1>1, ServerAlways, PTL

\* The stages of RPC that the places of a call amount to.
StageOK(c) ==
    /\ Unmade(c) => Stage(c) = "unsent"
    /\ c \in sent \cup Range(request_queue) => Stage(c) = "sent"
    /\ c \in failed => Stage(c) = "lost"
    /\ taken[c] = 1 /\ c \notin answered => Stage(c) = "taken"
    /\ c \in answered \ returned => Stage(c) = "answered"
    /\ c \in returned => Stage(c) = "returned"

StagesOK == \A c \in Calls : StageOK(c)

LEMMA StagesAlways == ServerInv => StagesOK
<1> SUFFICES ASSUME ServerInv, NEW c \in Calls PROVE StageOK(c)
  BY DEF StagesOK
<1>1. /\ Unmade(c) => c \notin failed /\ ~Seen(c) /\ ~Made(c)
      /\ c \in sent => c \notin failed /\ ~Seen(c)
      /\ c \in failed => ~Seen(c)
  BY OnePlace DEF ServerInv, PlaceInv, PlacesOK, CallPlaces
<1>2. ~Seen(c) => c \notin answered /\ taken[c] = 0
  BY DEF Seen
<1>3. /\ returned \subseteq answered
      /\ c \in sent \cup Range(request_queue) => Made(c)
      /\ c \in answered => c \notin failed
      /\ c \in Range(request_queue) => taken[c] = 0 /\ c \notin answered /\ Seen(c)
      /\ taken[c] = 1 => Seen(c)
  BY AnsweredOnce DEF ServerInv, AnswersOK, HandlingOK, RequestsOK, Seen
<1>4. (Unmade(c) => Stage(c) = "unsent") /\ (c \in sent \cup Range(request_queue) => Stage(c) = "sent")
  BY <1>1, <1>2, <1>3 DEF Stage
<1>5. /\ c \in failed => Stage(c) = "lost"
      /\ taken[c] = 1 /\ c \notin answered => Stage(c) = "taken"
      /\ c \in answered \ returned => Stage(c) = "answered"
      /\ c \in returned => Stage(c) = "returned"
  BY <1>1, <1>2, <1>3 DEF Stage
<1> QED
  BY <1>4, <1>5 DEF StageOK

LEMMA StagesAfter == ServerInv' => StagesOK'
BY StagesAlways, PTL

\* A step that does not touch a call leaves it in its stage.
LEMMA SameStage ==
    ASSUME NEW c \in Calls, Made(c)' <=> Made(c), c \in failed' <=> c \in failed,
           c \in returned' <=> c \in returned, c \in answered' <=> c \in answered, taken'[c] = taken[c]
    PROVE  Stage(c)' = Stage(c)
BY DEF Stage

Moves == {<<"unsent", "sent">>, <<"sent", "lost">>, <<"sent", "taken">>, <<"taken", "answered">>,
          <<"answered", "returned">>}

Stays == \A c \in Calls : Stage(c)' = Stage(c)

Moved(c) ==
    /\ \A d \in Calls \ {c} : Stage(d)' = Stage(d)
    /\ <<Stage(c), Stage(c)'>> \in Moves

LEMMA StageStep ==
    ASSUME ServerInv, SingleWorker, [Next]_vars
    PROVE  Stays \/ \E c \in Calls : Moved(c)
<1>1. StagesOK /\ StagesOK'
  BY StagesAlways, StagesAfter, ServerStep
<1>2. ASSUME NEW t \in Threads, begin(t) \/ request(t) \/ clientStep(t)
      PROVE  Stays \/ \E c \in Calls : Moved(c)
  <2>1. UNCHANGED taken
    BY <1>2, ClientTyped DEF ClientActs, ServerInv, PlaceInv
  <2>2. Quiet \/ \E c \in Calls : Sends(c) \/ Returns(c)
    BY <1>2, ClientEffects DEF ServerInv, PlaceInv
  <2>3. CASE Quiet
    BY <2>1, <2>3, SameStage DEF Quiet, Stays
  <2>4. ASSUME NEW c \in Calls, Sends(c) PROVE Moved(c)
    <3>1. \A d \in Calls \ {c} : Stage(d)' = Stage(d)
      BY <2>1, <2>4, SameStage DEF Sends
    <3>2. Stage(c) = "unsent" /\ Stage(c)' = "sent"
      BY <1>1, <2>4 DEF Sends, StagesOK, StageOK
    <3> QED
      BY <3>1, <3>2 DEF Moved, Moves
  <2>5. ASSUME NEW c \in Calls, Returns(c) PROVE Moved(c)
    <3>1. \A d \in Calls \ {c} : Stage(d)' = Stage(d)
      BY <2>1, <2>5, SameStage DEF Returns
    <3>2. c \notin returned
      BY <2>5 DEF Returns, ServerInv, AnswersOK
    <3>3. Stage(c) = "answered" /\ Stage(c)' = "returned"
      BY <1>1, <2>5, <3>2 DEF Returns, StagesOK, StageOK
    <3> QED
      BY <3>1, <3>3 DEF Moved, Moves
  <2> QED
    BY <2>2, <2>3, <2>4, <2>5
<1>3. ASSUME UNCHANGED <<pc, call>> PROVE \A c \in Calls : Made(c)' <=> Made(c)
  BY <1>3 DEF Made
<1>4. ASSUME UNCHANGED <<pc, call, failed, returned, answered, taken>> PROVE Stays
  BY <1>3, <1>4, SameStage DEF Stays
<1>5. ASSUME NEW w \in Workers, runEvent(w) PROVE Stays
  BY <1>4, <1>5 DEF runEvent, messageVars, clientVars
<1>6. ASSUME NEW w \in Workers, serverStep(w) PROVE Stays \/ \E c \in Calls : Moved(c)
  <2>1. UNCHANGED <<pc, call, failed, returned, answered>>
    BY <1>6
      DEF serverStep, clientVars, Server!Step, Server!processAsyncQueue, Server!asyncNextRequest,
          Server!asyncNextCompletedReply, Server!Front, Server!eraseRequest, Server!eraseReply,
          Server!sendReply, Server!deleteRequest
  <2>2. CASE worker[w] # "erase request"
    BY <1>4, <1>6, <2>1, <2>2 DEF serverStep
  <2>3. CASE worker[w] = "erase request"
    <3>1. WorkerOK(w) /\ request_queue \in Seq(Calls) /\ taken \in [Calls -> Nat]
      BY HandlingTypes DEF ServerInv, HandlingOK, WorkersOK
    <3>2. \A q \in Seq(Calls) : q # <<>> => Head(q) \in Range(q) /\ Head(q) \in Calls
      BY TailFacts
    <3>3. PICK c \in Calls : c = rid[w] /\ c \in Range(request_queue)
      BY <2>3, <3>1, <3>2 DEF WorkerOK
    <3>4. taken' = [taken EXCEPT ![c] = @ + 1] /\ taken[c] = 0 /\ c \notin answered
      BY <1>6, <2>3, <3>3 DEF serverStep, ServerInv, HandlingOK, RequestsOK, AnsweredOK
    <3>5. \A d \in Calls \ {c} : Stage(d)' = Stage(d)
      BY <1>3, <2>1, <3>1, <3>4, SameStage
    <3>6. taken'[c] = 1 /\ c \notin answered'
      BY <2>1, <3>1, <3>4
    <3>7. Stage(c) = "sent" /\ Stage(c)' = "taken"
      BY <1>1, <3>3, <3>6 DEF StagesOK, StageOK
    <3> QED
      BY <3>5, <3>7 DEF Moved, Moves
  <2> QED
    BY <2>2, <2>3
<1>7. ASSUME NEW c \in Calls, deliver(c) PROVE Stays \/ Moved(c)
  <2>1. UNCHANGED <<pc, call, failed, returned, taken>>
    BY <1>7 DEF deliver, clientVars
  <2>2. CASE Server!receive(c)
    BY <1>4, <2>1, <2>2 DEF Server!receive
  <2>3. CASE Server!complete(c)
    <3>1. taken[c] = 1 /\ c \notin answered /\ answered' = answered \cup {c}
      BY <2>3 DEF Server!complete, ServerInv, HandlingOK, FinishingOK
    <3>2. \A d \in Calls \ {c} : Stage(d)' = Stage(d)
      BY <1>3, <2>1, <3>1, SameStage
    <3>3. c \notin returned'
      BY <2>1, <3>1 DEF ServerInv, AnswersOK
    <3>4. Stage(c) = "taken" /\ Stage(c)' = "answered"
      BY <1>1, <3>1, <3>3 DEF StagesOK, StageOK
    <3> QED
      BY <3>2, <3>4 DEF Moved, Moves
  <2> QED
    BY <1>7, <2>2, <2>3 DEF deliver
<1>8. ASSUME NEW c \in Calls, fail(c) PROVE Moved(c)
  <2>1. /\ UNCHANGED <<pc, call, returned, answered, taken>>
        /\ c \in sent /\ failed' = failed \cup {c}
    BY <1>8 DEF fail, Client!fail
  <2>2. \A d \in Calls \ {c} : Stage(d)' = Stage(d)
    BY <1>3, <2>1, SameStage
  <2>3. Stage(c) = "sent" /\ Stage(c)' = "lost"
    BY <1>1, <2>1 DEF StagesOK, StageOK
  <2> QED
    BY <2>2, <2>3 DEF Moved, Moves
<1>9. CASE UNCHANGED vars
  BY <1>4, <1>9 DEF vars, messageVars, clientVars
<1> QED
  BY <1>2, <1>5, <1>6, <1>7, <1>8, <1>9 DEF Next

\* With one worker GRPCServer and the clients' GRPCClient are remote calls (ImplementsRPC):
\* a request is handed out at most once, answered at most once after that, and a call
\* returns once, with its own reply.
THEOREM CallsImplementRPC ==
    ASSUME SingleWorker
    PROVE  Spec => ImplementsRPC
<1> DEFINE stages == [c \in Calls |-> Stage(c)]
<1>1. Init => AsRPC!Init
  <2> SUFFICES ASSUME Init PROVE \A c \in Calls : Stage(c) = "unsent"
    BY DEF AsRPC!Init
  <2> QED
    BY DEF Init, Server!Init, Client!Init, Stage, Made, Underway
<1>2. ASSUME ServerInv, [Next]_vars PROVE [AsRPC!Next]_stages
  <2>1. CASE Stays
    BY <2>1 DEF Stays
  <2>2. ASSUME NEW c \in Calls, Moved(c) PROVE AsRPC!Next
    <3>1. /\ stages[c] = Stage(c)
          /\ stages' = [stages EXCEPT ![c] = Stage(c)']
      BY <2>2 DEF Moved
    <3>2. <<Stage(c), Stage(c)'>> \in Moves
      BY <2>2 DEF Moved
    <3> QED
      BY <3>1, <3>2
        DEF Moves, AsRPC!Next, AsRPC!Move, AsRPC!send, AsRPC!lose, AsRPC!nextRequest, AsRPC!sendReply,
            AsRPC!return
  <2> QED
    BY <1>2, <2>1, <2>2, StageStep
<1> QED
  BY <1>1, <1>2, ServerAlways, PTL DEF Spec, ImplementsRPC, AsRPC!Spec
=============================================================================
