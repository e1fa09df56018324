------------------------ MODULE SimpleTServerDataProofs ------------------------
(***************************************************************************)
(* What the steps of the server do to its tasks and data, action by        *)
(* action, and the invariant CommitInv of what the server has of a         *)
(* transaction: the writes and reads its coordinator sent, from the first  *)
(* phase on prepared, until finalize.  From these follows here that        *)
(* getEvent leaves a mutex locked only because of a failed RPC: a          *)
(* transaction the server has a write or a read of has its entries until   *)
(* the request that takes them out, and one it has nothing of, and whose   *)
(* commit it is asked for, has lost what its program sent.                 *)
(*                                                                         *)
(* Then the multi-version store: versions are where write locks were       *)
(* frozen, a transaction keeps reading the last version before its         *)
(* timestamp, and commit() installs all the writes or none.  A transaction *)
(* holds the locks of its writes from the first phase until finalize,      *)
(* which is why nobody installs a version where it will.  What is used of  *)
(* the locks is LockInv, so unlock is taken never to meet a node with      *)
(* several owners.                                                         *)
(***************************************************************************)
EXTENDS SimpleTServerProofs

-----------------------------------------------------------------------------
(* The tasks and read events of all workers                                 *)

Running == UNION {Tasks(th) : th \in Threads}
Reading == UNION {ReadsOf(th) : th \in Threads}

\* What a task of a worker is.
LEMMA TaskFacts ==
    ASSUME ServerInv, NEW h \in Running
    PROVE  /\ h \in Handler /\ h.tid \in Tids /\ h.n \in Nat /\ Serves(h)
           /\ ~IsRead(h) /\ StageOK(h.tid)
<1>1. PICK th \in Threads : h \in Tasks(th)
  BY DEF Running
<1>2. h \in Handler /\ h.tid \in Tids /\ h.n \in Nat
  BY <1>1, HandlersType, HandlerFields DEF ServerInv
<1> QED
  BY <1>1, <1>2 DEF ServerInv, Discipline, TasksOK, StagesOK, Tasks

\* A transaction has one task.
LEMMA TaskUnique ==
    ASSUME ServerInv, NEW h \in Running, NEW g \in Running, h.tid = g.tid
    PROVE  h = g
<1>1. PICK th \in Threads : h \in Tasks(th)
  BY DEF Running
<1>2. g \in Tasks(th)
  BY <1>1 DEF Running, ServerInv, Discipline, OneTask
<1>3. stack[th] \in Seq(Handler) /\ Len(stack[th]) \in Nat
  BY DEF ServerInv, StackOK
<1>4. CASE stack[th] = <<>>
  BY <1>1, <1>4, IdleStack DEF ServerInv
<1>5. CASE Len(stack[th]) = 1
  BY <1>1, <1>2, <1>5 DEF Tasks, Handlers
<1>6. CASE Len(stack[th]) = 2 /\ IsRead(stack[th][1])
  BY <1>1, <1>2, <1>6 DEF Tasks, Handlers
<1> QED
  BY <1>4, <1>5, <1>6 DEF ServerInv, StackOK

\* What becomes of them when one stack changes.
LEMMA RunningStep ==
    ASSUME ServerInv, NEW th \in Threads, NEW T, NEW R, StackStep(th, T, R)
    PROVE  /\ Running' = (Running \ Tasks(th)) \cup T
           /\ Reading' \subseteq Reading \cup R
<1>1. \A o \in Threads \ {th} : Tasks(o) \cap Tasks(th) = {}
  BY DEF ServerInv, Discipline, OneTask
<1>2. /\ Tasks(th)' = T /\ ReadsOf(th)' = R
      /\ \A o \in Threads \ {th} : Tasks(o)' = Tasks(o) /\ ReadsOf(o)' = ReadsOf(o)
  BY DEF StackStep
<1>3. ASSUME NEW h PROVE h \in Running' <=> h \in (Running \ Tasks(th)) \cup T
  <2>1. h \in Running' <=> \E o \in Threads : h \in Tasks(o)'
    BY DEF Running
  <2>2. h \in Running <=> \E o \in Threads : h \in Tasks(o)
    BY DEF Running
  <2>3. h \in Running \ Tasks(th) <=> \E o \in Threads \ {th} : h \in Tasks(o)
    BY <1>1, <2>2
  <2> QED
    BY <1>2, <2>1, <2>3
<1>4. Reading' \subseteq Reading \cup R
  BY <1>2 DEF Reading
<1> QED
  BY <1>3, <1>4

-----------------------------------------------------------------------------
(* What the actions do, as far as the store is concerned                    *)

\* The request of x is answered.
Answered(x) ==
    /\ call'[x] = NoCall /\ \A y \in Tids \ {x} : call'[y] = call[y]
    /\ UNCHANGED <<progVars, queued>>

LEMMA AnswerFacts ==
    ASSUME ServerInv, NEW x \in Tids, sendReply(x)
    PROVE  Answered(x)
<1>1. call \in [Tids -> CallType] /\ call' = [call EXCEPT ![x] = NoCall]
  BY DEF ServerInv, ClientTypeOK, sendReply
<1>2. call'[x] = NoCall /\ \A y \in Tids \ {x} : call'[y] = call[y]
  BY <1>1
<1> QED
  BY <1>2 DEF sendReply, Answered

\* The stacks do not change.
LEMMA SameRunning ==
    ASSUME ServerInv, UNCHANGED stack
    PROVE  Running' = Running /\ Reading' = Reading
BY SameStack DEF ServerInv, Running, Reading

\* A worker takes a read.
LEMMA GetReadEffect ==
    ASSUME ServerInv, NEW th \in Threads, NEW x \in Tids, getRead(th, x)
    PROVE  \E k \in Keys :
              /\ x \in queued /\ queued' = queued \ {x}
              /\ call[x] = [type |-> "TREAD", key |-> k]
              /\ Running' = Running
              /\ \A h \in Reading' :
                    h \in Reading \/ (h.tid = x /\ h.key = k /\ h.n = start_ts[x])
              /\ read_ts'[<<x, k>>] = start_ts[x]
              /\ \A e \in Request \ {<<x, k>>} : read_ts'[e] = read_ts[e]
              /\ tid_to_nodes' = tid_to_nodes \cup {x}
              /\ UNCHANGED <<vars, progVars, vote, call, leaked, dataVars, crashed, reads>>
              /\ UNCHANGED tid_to_write_nodes
<1> DEFINE k == call[x].key
<1>1. /\ stack[th] = <<>> /\ x \in queued /\ call[x].type = "TREAD"
      /\ read_ts' = [read_ts EXCEPT ![<<x, k>>] = start_ts[x]]
      /\ queued' = queued \ {x} /\ Push(th, ReadHandler(<<x, k>>, 0, start_ts[x]))
      /\ tid_to_nodes' = tid_to_nodes \cup {x}
      /\ UNCHANGED <<vars, progVars, vote, call, leaked, dataVars, crashed, reads>>
      /\ UNCHANGED tid_to_write_nodes
  BY DEF getRead, Dispatch, Takes
<1>2. /\ k \in Keys /\ call[x] = [type |-> "TREAD", key |-> k]
      /\ start_ts[x] \in 1 .. MaxTs
  BY <1>1, CallFields, StartType DEF ServerInv
<1> HIDE DEF k
<1>3. PICK h \in Handler :
          /\ h = ReadHandler(<<x, k>>, 0, start_ts[x])
          /\ IsRead(h) /\ h.tid = x /\ h.key = k /\ h.n = start_ts[x]
  BY <1>2, ReadHandlerType
<1>4. StackStep(th, {}, {h}) /\ Tasks(th) = {}
  BY <1>1, <1>3, PushStep, IdleStack DEF ServerInv
<1>5. Running' = Running /\ Reading' \subseteq Reading \cup {h}
  BY <1>4, RunningStep
<1>6. read_ts \in [Request -> TS] /\ <<x, k>> \in Request
  BY <1>2 DEF ServerInv, ServerTypeOK, Request
<1>7. /\ read_ts'[<<x, k>>] = start_ts[x]
      /\ \A e \in Request \ {<<x, k>>} : read_ts'[e] = read_ts[e]
  BY <1>1, <1>6
<1> QED
  BY <1>1, <1>2, <1>3, <1>5, <1>7

\* A worker takes another request.
LEMMA GetTaskEffect ==
    ASSUME ServerInv, NEW th \in Threads, NEW x \in Tids,
           \/ getWrite(th, x) \/ getP1C(th, x) \/ getP2C(th, x) \/ getStuck(th, x)
    PROVE  \E h \in Handler :
              /\ x \in queued /\ queued' = queued \ {x}
              /\ h.tid = x /\ Running' = Running \cup {h} /\ Reading' \subseteq Reading
              /\ h.op \in {"write", "p1c", "p2c", "stuck"}
              /\ getWrite(th, x) => h.op = "write"
              /\ getP1C(th, x) => h.op = "p1c"
              /\ getP2C(th, x) => h.op = "p2c"
              /\ getStuck(th, x) => h.op = "stuck"
              /\ h.op = "write" => h.key \in Keys /\ call[x] = [type |-> "TWRITE", key |-> h.key]
              /\ h.op = "p1c" => h.n = 0 /\ call[x].type = "TP1C"
              /\ h.op = "p2c" => call[x].type = "TP2C"
              /\ UNCHANGED <<vars, progVars, vote, call, leaked, dataVars, crashed, reads, eventVars>>
<1>1. PICK op \in {"write", "p1c", "p2c", "stuck"}, key \in Keys \cup {0} :
          /\ Dispatch(th, x, NewHandler(op, x, key))
          /\ stack[th] = <<>> /\ x \in queued
          /\ op = "write" => key \in Keys /\ call[x] = [type |-> "TWRITE", key |-> key]
          /\ op = "p1c" => call[x].type = "TP1C"
          /\ op = "p2c" => call[x].type = "TP2C"
          /\ getWrite(th, x) => op = "write"
          /\ getP1C(th, x) => op = "p1c"
          /\ getP2C(th, x) => op = "p2c"
          /\ getStuck(th, x) => op = "stuck"
          /\ UNCHANGED eventVars
  <2>1. CASE getWrite(th, x)
    <3>1. call[x].key \in Keys /\ call[x] = [type |-> "TWRITE", key |-> call[x].key]
      BY <2>1, CallFields DEF getWrite, Takes, ServerInv
    <3>2. call[x].type = "TWRITE" /\ x \in queued /\ Mutexes("TWRITE") \cap leaked = {}
      BY <2>1 DEF getWrite, Takes
    <3>3. ~getP1C(th, x) /\ ~getP2C(th, x)
      BY <3>2 DEF getP1C, getP2C, Takes
    <3>4. ~getStuck(th, x)
      BY <3>2 DEF getStuck, Takes
    <3> QED
      BY <2>1, <3>1, <3>3, <3>4 DEF getWrite, Takes
  <2>2. CASE getP1C(th, x)
    <3>1. call[x].type = "TP1C" /\ x \in queued /\ Mutexes("TP1C") \cap leaked = {}
      BY <2>2 DEF getP1C, Takes
    <3>2. ~getWrite(th, x) /\ ~getP2C(th, x) /\ ~getStuck(th, x)
      BY <3>1 DEF getWrite, getP2C, getStuck, Takes
    <3> QED
      BY <2>2, <3>2 DEF getP1C, Takes
  <2>3. CASE getP2C(th, x)
    <3>1. call[x].type = "TP2C" /\ x \in queued /\ Mutexes("TP2C") \cap leaked = {}
      BY <2>3 DEF getP2C, Takes
    <3>2. ~getWrite(th, x) /\ ~getP1C(th, x) /\ ~getStuck(th, x)
      BY <3>1 DEF getWrite, getP1C, getStuck, Takes
    <3> QED
      BY <2>3, <3>2 DEF getP2C, Takes
  <2>4. CASE getStuck(th, x)
    <3>1. \E type : call[x].type = type /\ Mutexes(type) \cap leaked # {}
      BY <2>4 DEF getStuck, Takes
    <3>2. ~getWrite(th, x) /\ ~getP1C(th, x) /\ ~getP2C(th, x)
      BY <3>1 DEF getWrite, getP1C, getP2C, Takes
    <3> QED
      BY <2>4, <3>2 DEF getStuck, Takes
  <2> QED
    BY <2>1, <2>2, <2>3, <2>4
<1>2. PICK h \in Handler :
          /\ h = NewHandler(op, x, key)
          /\ ~IsRead(h) /\ h.tid = x /\ h.op = op /\ h.key = key /\ h.n = 0
  BY NewHandlerType
<1>3. /\ queued' = queued \ {x} /\ Push(th, h)
      /\ UNCHANGED <<vars, progVars, vote, call, leaked, dataVars, crashed, reads>>
  BY <1>1, <1>2 DEF Dispatch
<1>4. StackStep(th, {h}, {}) /\ Tasks(th) = {}
  BY <1>1, <1>2, <1>3, PushStep, IdleStack DEF ServerInv
<1>5. Running' = Running \cup {h} /\ Reading' \subseteq Reading
  BY <1>4, RunningStep
<1> QED
  BY <1>1, <1>2, <1>3, <1>5

\* A task answers its request and returns.
LEMMA ReplyEffect ==
    ASSUME ServerInv, NEW th \in Threads, stack[th] # <<>>, ~IsRead(Top(th)),
           sendReply(Top(th).tid), Pop(th)
    PROVE  \E h \in Running :
              /\ h = Top(th) /\ Tasks(th) = {h}
              /\ Running' = Running \ {h} /\ Reading' \subseteq Reading
              /\ Answered(h.tid)
<1>1. PICK h \in Handler : h = Top(th) /\ Tasks(th) = {h} /\ h.tid \in Tids
  BY TopOf, HandlerFields DEF ServerInv
<1>2. StackStep(th, {}, {})
  BY <1>1, TopStep DEF ServerInv
<1>3. Running' = (Running \ {h}) \cup {} /\ Reading' \subseteq Reading \cup {}
  BY <1>1, <1>2, RunningStep
<1>4. h \in Running
  BY <1>1 DEF Running
<1>5. Answered(h.tid)
  BY <1>1, AnswerFacts
<1> QED
  BY <1>1, <1>3, <1>4, <1>5

LEMMA WriteEffect ==
    ASSUME ServerInv, NEW th \in Threads, writeRun(th)
    PROVE  \E h \in Running :
              /\ h.op = "write"
              /\ Running' = Running \ {h} /\ Reading' \subseteq Reading
              /\ Answered(h.tid)
              /\ pend_writes'[h.tid] = Append(pend_writes[h.tid], h.key)
              /\ \A y \in Tids \ {h.tid} : pend_writes'[y] = pend_writes[y]
              /\ UNCHANGED <<vars, vote, eventVars, nodeVars, rdy_to_commit, store, crashed, reads>>
<1>1. stack[th] # <<>> /\ ~IsRead(Top(th)) /\ Top(th).op = "write"
  BY RunsTask DEF writeRun
<1>2. PICK h \in Running : /\ h = Top(th)
                           /\ Running' = Running \ {h} /\ Reading' \subseteq Reading
                           /\ Answered(h.tid)
  BY <1>1, ReplyEffect DEF writeRun
<1>3. /\ pend_writes' = [pend_writes EXCEPT ![h.tid] = Append(@, h.key)]
      /\ UNCHANGED <<vars, vote, eventVars, nodeVars, rdy_to_commit, store, crashed, reads>>
  BY <1>2 DEF writeRun
<1>4. pend_writes \in [Tids -> Seq(Keys)] /\ h.tid \in Tids
  BY TaskFacts DEF ServerInv, ServerTypeOK
<1>5. /\ pend_writes'[h.tid] = Append(pend_writes[h.tid], h.key)
      /\ \A y \in Tids \ {h.tid} : pend_writes'[y] = pend_writes[y]
  BY <1>3, <1>4
<1> QED
  BY <1>1, <1>2, <1>3, <1>5

LEMMA VoteEffect ==
    ASSUME ServerInv, NEW th \in Threads, p1cVote(th)
    PROVE  \E h \in Running :
              /\ \/ h.op = "p1c" /\ h.n = Len(pend_writes[h.tid])
                 \/ h.op = "refused"
              /\ Running' = Running \ {h} /\ Reading' \subseteq Reading
              /\ Answered(h.tid)
              /\ rdy_to_commit' = rdy_to_commit \cup {h.tid}
              /\ vote'[h.tid] = (vote[h.tid] /\ h.op = "p1c")
              /\ \A y \in Tids \ {h.tid} : vote'[y] = vote[y]
              /\ UNCHANGED <<vars, eventVars, nodeVars, pend_writes, store, crashed, reads>>
<1>1. /\ \/ Runs(th, "p1c") /\ Top(th).n = Len(pend_writes[Top(th).tid])
         \/ Runs(th, "refused")
      /\ rdy_to_commit' = rdy_to_commit \cup {Top(th).tid}
      /\ vote' = [vote EXCEPT ![Top(th).tid] = @ /\ Top(th).op = "p1c"]
      /\ sendReply(Top(th).tid) /\ Pop(th)
      /\ UNCHANGED <<vars, eventVars, nodeVars, pend_writes, store, crashed, reads>>
  BY DEF p1cVote
<1>2. /\ stack[th] # <<>> /\ ~IsRead(Top(th))
      /\ \/ Top(th).op = "p1c" /\ Top(th).n = Len(pend_writes[Top(th).tid])
         \/ Top(th).op = "refused"
  BY <1>1, RunsTask
<1>3. PICK h \in Running : /\ h = Top(th)
                           /\ Running' = Running \ {h} /\ Reading' \subseteq Reading
                           /\ Answered(h.tid)
  BY <1>1, <1>2, ReplyEffect
<1>4. vote \in [Tids -> BOOLEAN] /\ h.tid \in Tids
  BY TaskFacts DEF ServerInv, ClientTypeOK
<1>5. vote' = [vote EXCEPT ![h.tid] = @ /\ h.op = "p1c"]
  BY <1>1, <1>3
<1>6. /\ vote'[h.tid] = (vote[h.tid] /\ h.op = "p1c")
      /\ \A y \in Tids \ {h.tid} : vote'[y] = vote[y]
  BY <1>4, <1>5
<1> QED
  BY <1>1, <1>2, <1>3, <1>6

\* The first phase asks for the lock of one write.
LEMMA LockEffect ==
    ASSUME ServerInv, NEW th \in Threads, p1cLock(th)
    PROVE  \E h \in Running, g \in Handler :
              LET x == h.tid
                  n == h.n + 1
                  k == pend_writes[x][n]
              IN  /\ h.op = "p1c" /\ g.tid = x
                  /\ Running' = (Running \ {h}) \cup {g} /\ Reading' \subseteq Reading
                  /\ n \in 1 .. Len(pend_writes[x]) /\ k \in Keys
                  /\ x \notin finished /\ start_ts[x] \in Times
                  /\ tryLock(k, x, start_ts[x], FALSE)
                  /\ IF PointGranted(root[k], start_ts[x], FALSE)
                     THEN g.op = "p1c" /\ g.n = n
                     ELSE g.op = "refused"
                  /\ UNCHANGED <<clientVars, eventVars, nodeVars, dataVars, crashed, reads>>
<1>1. PICK h \in Handler :
          /\ h = Top(th) /\ h = stack[th][1] /\ stack[th] # <<>> /\ ~IsRead(h) /\ h.op = "p1c"
          /\ Tasks(th) = {h} /\ h.tid \in Tids
  BY RunsTask DEF p1cLock
<1> DEFINE x == h.tid
           n == h.n + 1
           k == pend_writes[x][n]
<1>2. /\ IF PointGranted(root[k], start_ts[x], FALSE)
         THEN stack' = [stack EXCEPT ![th][1].n = n]
         ELSE stack' = [stack EXCEPT ![th][1].op = "refused"]
      /\ UNCHANGED <<clientVars, eventVars, nodeVars, dataVars, crashed, reads>>
  BY <1>1 DEF p1cLock, Become
<1>3. /\ n \in 1 .. Len(pend_writes[x]) /\ k \in Keys
      /\ x \notin finished /\ start_ts[x] \in Times
      /\ tryLock(k, x, start_ts[x], FALSE)
  BY <1>1, P1CLockCall
<1>4. n \in Nat
  BY HandlerFields
<1> DEFINE granted == PointGranted(root[k], start_ts[x], FALSE)
<1>5. \E g \in Handler :
          /\ g.tid = x /\ g.op \in {"p1c", "refused"}
          /\ IF granted THEN g.op = "p1c" /\ g.n = n ELSE g.op = "refused"
          /\ stack' = [stack EXCEPT ![th][1] = g]
  <2> HIDE DEF granted
  <2>1. CASE granted
    <3> DEFINE g == [h EXCEPT !.n = n]
    <3>1. g \in Handler /\ g.tid = x /\ g.op = "p1c" /\ g.n = n
      BY <1>1, <1>4 DEF Handler
    <3>2. stack' = [stack EXCEPT ![th][1] = g]
      BY <1>1, <1>2, <2>1 DEF granted
    <3> QED
      BY <2>1, <3>1, <3>2
  <2>2. CASE ~granted
    <3> DEFINE g == [h EXCEPT !.op = "refused"]
    <3>1. g \in Handler /\ g.tid = x /\ g.op = "refused"
      BY <1>1 DEF Handler
    <3>2. stack' = [stack EXCEPT ![th][1] = g]
      BY <1>1, <1>2, <2>2 DEF granted
    <3> QED
      BY <2>2, <3>1, <3>2
  <2> QED
    BY <2>1, <2>2
<1>6. PICK g \in Handler :
          /\ g.tid = x /\ g.op \in {"p1c", "refused"}
          /\ IF granted THEN g.op = "p1c" /\ g.n = n ELSE g.op = "refused"
          /\ stack' = [stack EXCEPT ![th][1] = g]
  BY <1>5
<1>7. StackStep(th, {g}, {})
  BY <1>1, <1>6, ChangeTop DEF ServerInv, IsRead
<1>8. Running' = (Running \ {h}) \cup {g} /\ Reading' \subseteq Reading \cup {}
  BY <1>1, <1>7, RunningStep
<1>9. h \in Running
  BY <1>1 DEF Running
<1> QED
  BY <1>1, <1>2, <1>3, <1>6, <1>8, <1>9

\* A read event tries to lock the times before n, the timestamp it got to.
LEMMA ReadLockEffect ==
    ASSUME ServerInv, NEW th \in Threads, readLock(th)
    PROVE  \E h \in Reading :
              LET x     == h.tid
                  k     == h.key
                  start == BackwardStart(root[k], h.n - 1, TRUE)
              IN  /\ x \in Tids /\ k \in Keys /\ h.n \in 1 .. MaxTs /\ h.n - 1 \in Times
                  /\ read_ts[<<x, k>>] # 0
                  /\ tryBackwardLock(k, x, h.n - 1, TRUE)
                  /\ start \in 1 .. h.n
                  /\ read_ts'[<<x, k>>] = start
                  /\ \A e \in Request \ {<<x, k>>} : read_ts'[e] = read_ts[e]
                  /\ Running' = Running
                  /\ \A g \in Reading' :
                        g \in Reading \/ (g.tid = x /\ g.key = k /\ g.n = start)
                  /\ UNCHANGED <<clientVars, nodeVars, dataVars, crashed, reads>>
<1>1. /\ Top(th).tid \in Tids /\ Top(th).key \in Keys /\ Top(th).n \in 1 .. MaxTs
      /\ Top(th).n - 1 \in Times /\ read_ts[<<Top(th).tid, Top(th).key>>] # 0
      /\ IsRead(Top(th)) /\ ReadsOf(th) = {Top(th)}
      /\ tryBackwardLock(Top(th).key, Top(th).tid, Top(th).n - 1, TRUE)
  BY ReadLockCall
<1>2. stack[th] # <<>>
  BY DEF readLock, Runs
<1>3. PICK h \in Handler : h = Top(th)
  BY <1>2, TopOf DEF ServerInv
<1>4. h \in Reading
  BY <1>1, <1>3 DEF Reading
<1> DEFINE x     == h.tid
           k     == h.key
           e     == <<x, k>>
<1>5. PICK start : start = BackwardStart(root[k], h.n - 1, TRUE)
  OBVIOUS
<1>6. /\ read_ts' = [read_ts EXCEPT ![e] = start]
      /\ \/ stack' = [stack EXCEPT ![th] =
                   <<ReadHandler(e, phase'[e], read_ts'[e])>> \o Tail(@)]
         \/ Pop(th)
      /\ UNCHANGED <<clientVars, nodeVars, dataVars, crashed, reads>>
  BY <1>3, <1>5 DEF readLock
<1>7. start \in 1 .. h.n
  <2>1. h.n - 1 + 1 = h.n
    BY <1>1, <1>3
  <2>2. start \in 1 .. (h.n - 1) + 1
    BY <1>1, <1>3, <1>5, BackwardCall DEF ServerInv
  <2> QED
    BY <2>1, <2>2
<1>8. read_ts \in [Request -> TS] /\ e \in Request
  BY <1>1, <1>3 DEF ServerInv, ServerTypeOK, Request
<1> HIDE DEF e
<1>9. read_ts'[e] = start /\ \A r \in Request \ {e} : read_ts'[r] = read_ts[r]
  BY <1>6, <1>8
<1>10. PICK g \in Handler :
          /\ g = ReadHandler(e, phase'[e], read_ts'[e])
          /\ IsRead(g) /\ g.tid = x /\ g.key = k /\ g.n = start
  <2>1. start \in Nat
    BY <1>1, <1>3, <1>7
  <2> QED
    BY <1>1, <1>3, <1>9, <2>1, ReadHandlerType DEF e
<1>11. StackStep(th, Tasks(th), {g}) \/ StackStep(th, Tasks(th), {})
  <2>1. StackOK
    BY DEF ServerInv
  <2>2. \/ Pop(th)
        \/ stack' = [stack EXCEPT ![th] = <<g>> \o Tail(@)]
    BY <1>6, <1>10
  <2> QED
    BY <1>1, <1>2, <1>10, <2>1, <2>2, TopStep
<1>12. Running' = (Running \ Tasks(th)) \cup Tasks(th) /\ Reading' \subseteq Reading \cup {g}
  BY <1>11, RunningStep
<1>13. Running' = Running
  BY <1>12 DEF Running
<1> QED
  BY <1>1, <1>3, <1>4, <1>5, <1>6, <1>7, <1>9, <1>10, <1>12, <1>13 DEF e

\* A read event returns the version it has reached, or ends the process.
LEMMA ReadValueEffect ==
    ASSUME ServerInv, NEW th \in Threads, readValue(th)
    PROVE  /\ Running' = Running /\ Reading' \subseteq Reading
           /\ UNCHANGED <<vars, vote, read_ts, nodeVars, dataVars>>
           /\ \/ \E h \in Reading :
                    /\ h.tid \in Tids /\ h.key \in Keys /\ h.n \in 1 .. MaxTs
                    /\ read_ts[<<h.tid, h.key>>] # 0
                    /\ call[h.tid] = [type |-> "TREAD", key |-> h.key]
                    /\ Answered(h.tid)
                    /\ reads' = reads \cup {[tid |-> h.tid, key |-> h.key, ts |-> h.n - 1]}
              \/ UNCHANGED <<clientVars, reads>>
<1>1. PICK h \in Handler :
          /\ h = Top(th) /\ h.tid \in Tids /\ ReadArgs(h) /\ IsRead(h) /\ ReadsOf(th) = {h}
          /\ stack[th] # <<>>
  BY RunsRead DEF readValue
<1>2. /\ \/ /\ phase[<<h.tid, h.key>>] = 1 /\ sendReply(h.tid) /\ UNCHANGED vote /\ Pop(th)
            /\ reads' = reads \cup {[tid |-> h.tid, key |-> h.key, ts |-> h.n - 1]}
         \/ UNCHANGED <<clientVars, stack, reads>>
      /\ UNCHANGED <<vars, read_ts, nodeVars, dataVars>>
  BY <1>1 DEF readValue
<1>3. h.key \in Keys /\ h.n \in 1 .. MaxTs /\ read_ts[<<h.tid, h.key>>] # 0 /\ h \in Reading
  BY <1>1 DEF ReadArgs, Reading
<1>4. CASE UNCHANGED <<clientVars, stack, reads>>
  BY <1>2, <1>4, SameRunning DEF clientVars
<1>5. CASE /\ phase[<<h.tid, h.key>>] = 1 /\ sendReply(h.tid) /\ UNCHANGED vote /\ Pop(th)
           /\ reads' = reads \cup {[tid |-> h.tid, key |-> h.key, ts |-> h.n - 1]}
  <2>1. StackStep(th, Tasks(th), {})
    BY <1>1, <1>5, TopStep DEF ServerInv
  <2>2. Running' = (Running \ Tasks(th)) \cup Tasks(th) /\ Reading' \subseteq Reading \cup {}
    BY <2>1, RunningStep
  <2>3. Running' = Running
    BY <2>2 DEF Running
  <2>4. call[h.tid] = [type |-> "TREAD", key |-> h.key]
    BY <1>1, <1>3, <1>5 DEF ServerInv, Discipline, ReadsLive, LiveRead
  <2>5. Answered(h.tid)
    BY <1>1, <1>5, AnswerFacts
  <2> QED
    BY <1>1, <1>2, <1>3, <1>5, <2>2, <2>3, <2>4, <2>5
<1> QED
  BY <1>2, <1>4, <1>5

\* The second phase calls freeze or unlock.
LEMMA StartEffect ==
    ASSUME ServerInv, NEW th \in Threads, p2cStart(th)
    PROVE  \E h \in Running, g \in Handler :
              /\ h.op = "p2c" /\ g.op = "locks" /\ g.tid = h.tid
              /\ Running' = (Running \ {h}) \cup {g} /\ Reading' \subseteq Reading
              /\ finished' = finished \cup {h.tid}
              /\ \A o \in Threads \ {th} : pc'[o] = pc[o] /\ arg'[o] = arg[o]
              /\ pc'[th] \in {"freeze", "unlock"} => arg'[th] = h.tid
              /\ pc'[th] = "freeze" => vote[h.tid]
              /\ pc'[th] = "unlock" => ~vote[h.tid]
              /\ UNCHANGED <<root, covered>>
              /\ UNCHANGED <<clientVars, eventVars, nodeVars, dataVars, crashed, reads>>
<1>1. PICK h \in Handler :
          /\ h = Top(th) /\ h = stack[th][1] /\ stack[th] # <<>> /\ ~IsRead(h) /\ h.op = "p2c"
          /\ Tasks(th) = {h} /\ h.tid \in Tids
  BY RunsTask DEF p2cStart
<1>2. PICK step \in {"freeze", "unlock"} :
          /\ Begin(th, h.tid, step)
          /\ step = "freeze" => vote[h.tid]
          /\ step = "unlock" => ~vote[h.tid]
  BY <1>1 DEF p2cStart, beginFreeze, beginUnlock
<1>3. PICK g \in Handler : /\ g.op = "locks" /\ g.tid = h.tid /\ ~IsRead(g)
                           /\ stack' = [stack EXCEPT ![th][1] = g]
  <2> DEFINE g == [h EXCEPT !.op = "locks"]
  <2>1. g \in Handler /\ g.op = "locks" /\ g.tid = h.tid /\ ~IsRead(g)
    BY DEF Handler, IsRead
  <2>2. stack' = [stack EXCEPT ![th][1] = g]
    BY <1>1 DEF p2cStart, Become
  <2> QED
    BY <2>1, <2>2
<1>4. StackStep(th, {g}, {})
  BY <1>1, <1>3, ChangeTop DEF ServerInv
<1>5. Running' = (Running \ {h}) \cup {g} /\ Reading' \subseteq Reading \cup {}
  BY <1>1, <1>4, RunningStep
<1>6. h \in Running
  BY <1>1 DEF Running
<1>7. /\ finished' = finished \cup {h.tid}
      /\ \/ UNCHANGED <<pc, arg>>
         \/ pc' = [pc EXCEPT ![th] = step] /\ arg' = [arg EXCEPT ![th] = h.tid]
      /\ UNCHANGED <<root, covered>> /\ pc[th] = "idle"
  BY <1>2 DEF Begin, tableVars
<1>8. /\ pc \in [Threads -> {"idle", "freeze", "unlock", "delete", "run"}]
      /\ arg \in [Threads -> Tids]
  BY DEF ServerInv, TableInv, TypeOK
<1>9. /\ \A o \in Threads \ {th} : pc'[o] = pc[o] /\ arg'[o] = arg[o]
      /\ \/ pc'[th] = "idle"
         \/ pc'[th] = step /\ arg'[th] = h.tid
  BY <1>7, <1>8
<1>10. /\ pc'[th] \in {"freeze", "unlock"} => arg'[th] = h.tid
       /\ pc'[th] = "freeze" => vote[h.tid]
       /\ pc'[th] = "unlock" => ~vote[h.tid]
  BY <1>2, <1>9
<1> QED
  BY <1>1, <1>3, <1>5, <1>6, <1>7, <1>9, <1>10 DEF p2cStart

\* A commit or abort runs an event it has collected.
LEMMA WakeEffect ==
    ASSUME ServerInv, NEW th \in Threads, p2cWake(th)
    PROVE  /\ Running' = Running
           /\ \A g \in Reading' :
                 \/ g \in Reading
                 \/ /\ g.tid \in Tids /\ g.key \in Keys
                    /\ read_ts[<<g.tid, g.key>>] # 0 /\ g.n = read_ts[<<g.tid, g.key>>]
           /\ UNCHANGED <<root, covered, finished, pc, arg>>
           /\ UNCHANGED <<clientVars, eventVars, nodeVars, dataVars, crashed, reads>>
<1>1. stack[th] # <<>> /\ ~IsRead(Top(th))
  BY RunsTask DEF p2cWake
<1>2. PICK e \in Request :
          /\ runEvent(th, e)
          /\ Push(th, ReadHandler(e, phase[e], read_ts[e]))
  BY DEF p2cWake
<1>3. PICK x \in Tids, k \in Keys : e = <<x, k>>
  BY DEF Request
<1>4. read_ts[e] # 0 /\ read_ts[e] \in Nat
  <2>1. read_ts[e] # 0 /\ read_ts[e] \in TS
    BY <1>2 DEF runEvent, ServerInv, ServerTypeOK, Discipline, Registered
  <2> QED
    BY <2>1, MaxTsAssumption DEF TS
<1>5. PICK h \in Handler :
          /\ h = ReadHandler(e, phase[e], read_ts[e])
          /\ IsRead(h) /\ h.tid = x /\ h.key = k /\ h.n = read_ts[e]
  BY <1>3, <1>4, ReadHandlerType
<1>6. StackStep(th, Tasks(th), {h})
  BY <1>1, <1>2, <1>5, PushStep DEF ServerInv
<1>7. Running' = (Running \ Tasks(th)) \cup Tasks(th) /\ Reading' \subseteq Reading \cup {h}
  BY <1>6, RunningStep
<1>8. Running' = Running
  BY <1>7 DEF Running
<1>9. UNCHANGED <<root, covered, finished, pc, arg>>
  BY <1>2 DEF runEvent, tableVars
<1> QED
  BY <1>3, <1>4, <1>5, <1>7, <1>8, <1>9 DEF p2cWake

\* The second phase ends: the writes are installed, if they are to be.
LEMMA FinalizeEffect ==
    ASSUME ServerInv, NEW th \in Threads, p2cFinalize(th)
    PROVE  \E h \in Running :
              LET x == h.tid
              IN  /\ h.op = "locks" /\ Tasks(th) = {h} /\ pc[th] = "idle"
                  /\ Running' = Running \ {h} /\ Reading' \subseteq Reading
                  /\ Answered(x)
                  /\ rdy_to_commit' = rdy_to_commit \ {x}
                  /\ \A y \in Tids \ {x} : pend_writes'[y] = pend_writes[y]
                  /\ x \in rdy_to_commit => pend_writes'[x] = <<>>
                  /\ x \notin rdy_to_commit => pend_writes' = pend_writes
                  /\ \A k \in Keys, t \in TS :
                        store'[k][t] =
                            IF /\ x \in rdy_to_commit /\ vote[x] /\ t = start_ts[x]
                               /\ \E i \in 1 .. Len(pend_writes[x]) : pend_writes[x][i] = k
                            THEN x
                            ELSE store[k][t]
                  /\ UNCHANGED <<vars, vote, eventVars, nodeVars, crashed, reads>>
<1>1. /\ Runs(th, "locks") /\ pc[th] = "idle"
      /\ finalize(Top(th).tid, vote[Top(th).tid])
      /\ sendReply(Top(th).tid) /\ UNCHANGED vote /\ Pop(th)
      /\ UNCHANGED <<vars, eventVars, nodeVars, crashed, reads>>
  BY DEF p2cFinalize
<1>2. stack[th] # <<>> /\ ~IsRead(Top(th)) /\ Top(th).op = "locks"
  BY <1>1, RunsTask
<1>3. PICK h \in Running : /\ h = Top(th) /\ Tasks(th) = {h}
                           /\ Running' = Running \ {h} /\ Reading' \subseteq Reading
                           /\ Answered(h.tid)
  BY <1>1, <1>2, ReplyEffect
<1>4. PICK x \in Tids : x = h.tid
  BY TaskFacts
<1>5. finalize(x, vote[x])
  BY <1>1, <1>3, <1>4
<1>6. /\ pend_writes \in [Tids -> Seq(Keys)]
      /\ store \in [Keys -> [TS -> Tids \cup {NoVersion}]]
  BY DEF ServerInv, ServerTypeOK
<1>7. start_ts[x] \in TS
  BY StartType DEF ServerInv
<1>8. CASE x \notin rdy_to_commit
  BY <1>1, <1>2, <1>3, <1>4, <1>5, <1>8 DEF finalize
<1>9. CASE x \in rdy_to_commit
  <2>1. /\ pend_writes' = [pend_writes EXCEPT ![x] = <<>>]
        /\ store' = [k \in Keys |->
               IF vote[x] /\ \E i \in 1 .. Len(pend_writes[x]) : pend_writes[x][i] = k
               THEN [store[k] EXCEPT ![start_ts[x]] = x]
               ELSE store[k]]
        /\ rdy_to_commit' = rdy_to_commit \ {x}
    BY <1>5, <1>9 DEF finalize
  <2>2. pend_writes'[x] = <<>> /\ \A y \in Tids \ {x} : pend_writes'[y] = pend_writes[y]
    BY <1>6, <2>1
  <2>3. ASSUME NEW k \in Keys, NEW t \in TS
        PROVE  store'[k][t] =
                   IF /\ vote[x] /\ t = start_ts[x]
                      /\ \E i \in 1 .. Len(pend_writes[x]) : pend_writes[x][i] = k
                   THEN x
                   ELSE store[k][t]
    <3>1. store[k] \in [TS -> Tids \cup {NoVersion}]
      BY <1>6
    <3>2. \/ /\ vote[x] /\ \E i \in 1 .. Len(pend_writes[x]) : pend_writes[x][i] = k
             /\ store'[k] = [store[k] EXCEPT ![start_ts[x]] = x]
          \/ /\ ~(vote[x] /\ \E i \in 1 .. Len(pend_writes[x]) : pend_writes[x][i] = k)
             /\ store'[k] = store[k]
      BY <2>1
    <3> QED
      BY <1>7, <3>1, <3>2
  <2> QED
    BY <1>1, <1>2, <1>3, <1>4, <1>9, <2>1, <2>2, <2>3
<1> QED
  BY <1>8, <1>9

LEMMA NoCallType == NoCall.type = "none" /\ NoCall \in CallType
BY DEF NoCall, Client!NoCall, CallType

\* A coordinator leaves the server alone.
LEMMA ClientEffect ==
    ASSUME ServerInv, NEW x \in Tids, ClientStep(x)
    PROVE  /\ UNCHANGED <<vars, serverVars, start_ts>>
           /\ Running' = Running /\ Reading' = Reading
<1>1. UNCHANGED <<vars, serverVars>>
  BY DEF ClientStep
<1>2. UNCHANGED stack
  BY <1>1 DEF serverVars
<1>3. UNCHANGED start_ts
  BY DEF ClientStep, Client!Step, Client!read, Client!write, Client!commit, Client!abort,
         Client!firstPhase, Client!secondPhase, Client!loseRequest, Client!progVars
<1> QED
  BY <1>1, <1>2, <1>3, SameRunning

\* What a step of the coordinator of x changes of x; the others' is unchanged.
Only(x) ==
    \A y \in Tids \ {x} :
        /\ call'[y] = call[y] /\ (y \in queued' <=> y \in queued)
        /\ stage'[y] = stage[y] /\ vote'[y] = vote[y]
        /\ written'[y] = written[y] /\ asked'[y] = asked[y]
        /\ write_nodes'[y] = write_nodes[y] /\ read_nodes'[y] = read_nodes[y]

ReadSent(x) ==
    \E key \in Keys :
        /\ stage[x] = "running" /\ call[x] = NoCall
        /\ call'[x] = [type |-> "TREAD", key |-> key]
        /\ asked'[x] = asked[x] \cup {key} /\ read_nodes'[x] = read_nodes[x] \cup {0}
        /\ UNCHANGED <<written, write_nodes, stage, vote>>

WriteSent(x) ==
    \E key \in Keys :
        /\ stage[x] = "running" /\ call[x] = NoCall
        /\ call'[x] = [type |-> "TWRITE", key |-> key]
        /\ written'[x] = written[x] \cup {key} /\ write_nodes'[x] = write_nodes[x] \cup {0}
        /\ UNCHANGED <<asked, read_nodes, stage, vote>>

FirstSent(x) ==
    /\ stage[x] = "running" /\ call[x] = NoCall
    /\ stage'[x] \in {"commit", "abort"} /\ vote'[x] = TRUE
    /\ call'[x] = IF write_nodes[x] = {} THEN NoCall ELSE [type |-> "TP1C"]
    /\ UNCHANGED <<written, write_nodes, asked, read_nodes>>

SecondSent(x) ==
    /\ stage[x] \in {"commit", "abort"} /\ call[x] = NoCall
    /\ stage'[x] = "end" /\ vote'[x] = (vote[x] /\ stage[x] = "commit")
    /\ call'[x] = IF write_nodes[x] \cup read_nodes[x] = {} THEN NoCall ELSE [type |-> "TP2C"]
    /\ UNCHANGED <<written, write_nodes, asked, read_nodes>>

Lost(x) ==
    /\ x \in Lossy /\ x \in queued /\ call[x].type \in {"TREAD", "TWRITE"}
    /\ call'[x] = NoCall /\ x \notin queued'
    /\ UNCHANGED <<written, write_nodes, asked, read_nodes, stage, vote>>

LEMMA ClientCases ==
    ASSUME ServerInv, NEW x \in Tids, ClientStep(x)
    PROVE  /\ Only(x)
           /\ ReadSent(x) \/ WriteSent(x) \/ FirstSent(x) \/ SecondSent(x) \/ Lost(x)
<1> USE DEF NoCall, Client!NoCall
<1>1. /\ call \in [Tids -> CallType]
      /\ stage \in [Tids -> {"running", "commit", "abort", "end"}] /\ vote \in [Tids -> BOOLEAN]
      /\ written \in [Tids -> SUBSET Keys] /\ asked \in [Tids -> SUBSET Keys]
      /\ write_nodes \in [Tids -> SUBSET {0}] /\ read_nodes \in [Tids -> SUBSET {0}]
  BY DEF ServerInv, ClientTypeOK
<1>2. ASSUME NEW nodes, NEW c, Client!request(x, nodes, c)
      PROVE  /\ call'[x] = IF nodes = {} THEN call[x] ELSE c
             /\ \A y \in Tids \ {x} : call'[y] = call[y] /\ (y \in queued' <=> y \in queued)
  BY <1>1, <1>2 DEF Client!request
<1>3. ASSUME NEW key \in Keys, Client!read(x, key) PROVE Only(x) /\ ReadSent(x)
  <2>1. Client!request(x, {0}, [type |-> "TREAD", key |-> key])
    BY <1>3 DEF Client!read, Client!getNode
  <2>2. /\ call'[x] = [type |-> "TREAD", key |-> key]
        /\ \A y \in Tids \ {x} : call'[y] = call[y] /\ (y \in queued' <=> y \in queued)
    BY <1>2, <2>1
  <2>3. /\ stage[x] = "running" /\ call[x] = NoCall
        /\ read_nodes' = [read_nodes EXCEPT ![x] = @ \cup {0}]
        /\ asked' = [asked EXCEPT ![x] = @ \cup {key}]
        /\ UNCHANGED <<write_nodes, written, stage, vote>>
    BY <1>3 DEF Client!read, Client!Idle, Client!getNode
  <2> QED
    BY <1>1, <2>2, <2>3 DEF Only, ReadSent
<1>4. ASSUME NEW key \in Keys, Client!write(x, key) PROVE Only(x) /\ WriteSent(x)
  <2>1. Client!request(x, {0}, [type |-> "TWRITE", key |-> key])
    BY <1>4 DEF Client!write, Client!getNode
  <2>2. /\ call'[x] = [type |-> "TWRITE", key |-> key]
        /\ \A y \in Tids \ {x} : call'[y] = call[y] /\ (y \in queued' <=> y \in queued)
    BY <1>2, <2>1
  <2>3. /\ stage[x] = "running" /\ call[x] = NoCall
        /\ write_nodes' = [write_nodes EXCEPT ![x] = @ \cup {0}]
        /\ written' = [written EXCEPT ![x] = @ \cup {key}]
        /\ UNCHANGED <<read_nodes, asked, stage, vote>>
    BY <1>4 DEF Client!write, Client!Idle, Client!getNode
  <2> QED
    BY <1>1, <2>2, <2>3 DEF Only, WriteSent
<1>5. ASSUME NEW s \in {"commit", "abort"}, Client!firstPhase(x, s)
      PROVE  Only(x) /\ FirstSent(x)
  <2>1. Client!request(x, write_nodes[x], [type |-> "TP1C"])
    BY <1>5 DEF Client!firstPhase
  <2>2. /\ call'[x] = IF write_nodes[x] = {} THEN call[x] ELSE [type |-> "TP1C"]
        /\ \A y \in Tids \ {x} : call'[y] = call[y] /\ (y \in queued' <=> y \in queued)
    BY <1>2, <2>1
  <2>3. /\ stage[x] = "running" /\ call[x] = NoCall
        /\ stage' = [stage EXCEPT ![x] = s] /\ vote' = [vote EXCEPT ![x] = TRUE]
        /\ UNCHANGED <<read_nodes, write_nodes, written, asked>>
    BY <1>5 DEF Client!firstPhase, Client!Idle
  <2>4. stage'[x] = s /\ \A y \in Tids \ {x} : stage'[y] = stage[y]
    BY <1>1, <2>3
  <2>5. vote'[x] = TRUE /\ \A y \in Tids \ {x} : vote'[y] = vote[y]
    BY <1>1, <2>3
  <2> QED
    BY <2>2, <2>3, <2>4, <2>5 DEF Only, FirstSent
<1>6. ASSUME Client!secondPhase(x) PROVE Only(x) /\ SecondSent(x)
  <2>1. Client!request(x, write_nodes[x] \cup read_nodes[x], [type |-> "TP2C"])
    BY <1>6 DEF Client!secondPhase
  <2>2. /\ call'[x] = IF write_nodes[x] \cup read_nodes[x] = {} THEN call[x] ELSE [type |-> "TP2C"]
        /\ \A y \in Tids \ {x} : call'[y] = call[y] /\ (y \in queued' <=> y \in queued)
    BY <1>2, <2>1
  <2>3. /\ stage[x] \in {"commit", "abort"} /\ call[x] = NoCall
        /\ stage' = [stage EXCEPT ![x] = "end"]
        /\ vote' = [vote EXCEPT ![x] = @ /\ stage[x] = "commit"]
        /\ UNCHANGED <<read_nodes, write_nodes, written, asked>>
    BY <1>6 DEF Client!secondPhase, Client!Idle
  <2>4. stage'[x] = "end" /\ \A y \in Tids \ {x} : stage'[y] = stage[y]
    BY <1>1, <2>3
  <2>5. /\ vote'[x] = (vote[x] /\ stage[x] = "commit")
        /\ \A y \in Tids \ {x} : vote'[y] = vote[y]
    BY <1>1, <2>3
  <2> QED
    BY <2>2, <2>3, <2>4, <2>5 DEF Only, SecondSent
<1>7. ASSUME Client!loseRequest(x) PROVE Only(x) /\ Lost(x)
  <2>1. /\ x \in Lossy /\ x \in queued /\ call[x].type \in {"TREAD", "TWRITE"}
        /\ call' = [call EXCEPT ![x] = NoCall] /\ queued' = queued \ {x}
        /\ UNCHANGED <<written, write_nodes, asked, read_nodes, stage, vote>>
    BY <1>7 DEF Client!loseRequest, Client!progVars
  <2> QED
    BY <1>1, <2>1 DEF Only, Lost
<1> QED
  BY <1>3, <1>4, <1>5, <1>6, <1>7 DEF ClientStep, Client!Step, Client!commit, Client!abort

\* Workers change what coordinators wait for only by answering them: a read in a
\* read event, anything else in the task it has, the second phase with finalize.
LEMMA WorkerReplies ==
    ASSUME ServerInv, NEW th \in Threads, Worker(th), NEW x \in Tids
    PROVE  /\ UNCHANGED progVars
           /\ \/ call'[x] = call[x]
              \/ /\ call'[x] = NoCall
                 /\ \/ call[x].type = "TREAD"
                    \/ \E h \in Running : h.op # "stuck" /\ h.tid = x
                 /\ call[x].type = "TP2C" =>
                       p2cFinalize(th) /\ \E h \in Tasks(th) : h.op = "locks" /\ h.tid = x
<1> DEFINE Replied ==
              \/ call'[x] = call[x]
              \/ /\ call'[x] = NoCall
                 /\ \/ call[x].type = "TREAD"
                    \/ \E h \in Running : h.op # "stuck" /\ h.tid = x
                 /\ call[x].type = "TP2C" =>
                       p2cFinalize(th) /\ \E h \in Tasks(th) : h.op = "locks" /\ h.tid = x
<1>1. ASSUME NEW y \in Tids, Answered(y),
             y = x => /\ \/ call[x].type = "TREAD"
                         \/ \E h \in Running : h.op # "stuck" /\ h.tid = x
                      /\ \/ call[x].type # "TP2C"
                         \/ p2cFinalize(th) /\ \E h \in Tasks(th) : h.op = "locks" /\ h.tid = x
      PROVE  UNCHANGED progVars /\ Replied
  BY <1>1 DEF Answered
<1>2. CASE getEvent(th)
  <2>1. UNCHANGED <<progVars, call>>
    BY <1>2 DEF getEvent, getRead, getWrite, getP1C, getP2C, getUnknown, getStuck, Dispatch
  <2> QED
    BY <2>1
<1>3. CASE readLock(th) \/ readExit(th) \/ p1cLock(th) \/ p2cStart(th) \/ p2cLocks(th) \/ p2cWake(th)
  <2>1. UNCHANGED <<progVars, call>>
    BY <1>3 DEF readLock, readExit, p1cLock, p2cStart, p2cLocks, p2cWake, clientVars
  <2> QED
    BY <2>1
<1>4. CASE readValue(th)
  <2>1. CASE UNCHANGED clientVars
    BY <2>1 DEF clientVars
  <2>2. ASSUME NEW h \in Reading, h.tid \in Tids, Answered(h.tid),
               call[h.tid] = [type |-> "TREAD", key |-> h.key]
        PROVE  UNCHANGED progVars /\ Replied
    <3>1. call[h.tid].type = "TREAD"
      BY <2>2
    <3> QED
      BY <1>1, <2>2, <3>1
  <2> QED
    BY <1>4, <2>1, <2>2, ReadValueEffect
<1>5. CASE writeRun(th)
  <2>1. PICK h \in Running : h.op = "write" /\ Answered(h.tid)
    BY <1>5, WriteEffect
  <2>2. h.tid \in Tids /\ call[h.tid] = [type |-> "TWRITE", key |-> h.key]
    BY <2>1, TaskFacts DEF Serves
  <2>3. call[h.tid].type # "TP2C"
    BY <2>2
  <2> QED
    BY <1>1, <2>1, <2>2, <2>3
<1>6. CASE p1cVote(th)
  <2>1. PICK h \in Running : h.op \in {"p1c", "refused"} /\ Answered(h.tid)
    BY <1>6, VoteEffect
  <2>2. h.tid \in Tids /\ call[h.tid].type # "TP2C"
    BY <2>1, TaskFacts DEF Serves
  <2> QED
    BY <1>1, <2>1, <2>2
<1>7. CASE p2cFinalize(th)
  <2>1. PICK h \in Running : h.op = "locks" /\ Tasks(th) = {h} /\ Answered(h.tid)
    BY <1>7, FinalizeEffect
  <2>2. h.tid \in Tids
    BY <2>1, TaskFacts
  <2> QED
    BY <1>1, <1>7, <2>1, <2>2
<1> QED
  BY <1>2, <1>3, <1>4, <1>5, <1>6, <1>7 DEF Worker

-----------------------------------------------------------------------------
(* What the server has of a transaction, and what its coordinator knows     *)

Pending(x) == {pend_writes[x][i] : i \in 1 .. Len(pend_writes[x])}

\* A request is for something the program has asked for.
SentOK(x) ==
    /\ written[x] = {} <=> write_nodes[x] = {}
    /\ read_nodes[x] # {} => asked[x] # {}
    /\ call[x].type = "TWRITE" => call[x].key \in written[x]
    /\ call[x].type = "TP1C" => written[x] # {}
    /\ call[x].type = "TP2C" => written[x] # {} \/ asked[x] # {}
    /\ Pending(x) \subseteq written[x]

\* A transaction with writes is prepared from its first phase to its second.
PreparedOK(x) ==
    /\ x \in rdy_to_commit => stage[x] # "running" /\ call[x].type # "TP1C"
    /\ written[x] # {} /\ stage[x] # "running" /\ call[x].type # "TP1C"
          /\ ~Client!Returned(x) => x \in rdy_to_commit

\* When no request was lost the server has every write until it installs them,
\* and knows of every read.
HeardOK(x) ==
    /\ \A k \in written[x] :
          \/ k \in Pending(x)
          \/ call[x] = [type |-> "TWRITE", key |-> k]
          \/ Client!Returned(x)
    /\ \A k \in asked[x] :
          \/ read_ts[<<x, k>>] # 0
          \/ call[x] = [type |-> "TREAD", key |-> k]

CommitOK(x) == SentOK(x) /\ PreparedOK(x) /\ (x \notin Lossy => HeardOK(x))

CommitInv == \A x \in Tids : CommitOK(x)

\* What is said of x stays true while x is left alone.
LEMMA CommitFrame ==
    ASSUME NEW x \in Tids, CommitOK(x), asked[x] \subseteq Keys,
           written'[x] = written[x], asked'[x] = asked[x], stage'[x] = stage[x],
           write_nodes'[x] = write_nodes[x], read_nodes'[x] = read_nodes[x],
           call'[x] = call[x], pend_writes'[x] = pend_writes[x],
           x \in rdy_to_commit' <=> x \in rdy_to_commit,
           \A e \in Request : read_ts[e] # 0 => read_ts'[e] # 0
    PROVE  CommitOK(x)'
<1>1. \A k \in asked[x] : <<x, k>> \in Request
  BY DEF Request
<1>2. Pending(x)' = Pending(x)
  BY DEF Pending
<1>3. Client!Returned(x)' <=> Client!Returned(x)
  BY DEF Client!Returned, Client!Idle
<1>4. SentOK(x)'
  BY <1>2 DEF CommitOK, SentOK
<1>5. PreparedOK(x)'
  BY <1>3 DEF CommitOK, PreparedOK
<1>6. x \notin Lossy => HeardOK(x)'
  BY <1>1, <1>2, <1>3 DEF CommitOK, HeardOK
<1> QED
  BY <1>4, <1>5, <1>6 DEF CommitOK

\* Reading never forgets that the server has taken a read.
LEMMA ReadsRemembered ==
    ASSUME ServerInv, [ServerNext]_allVars
    PROVE  \A e \in Request : read_ts[e] # 0 => read_ts'[e] # 0
<1>1. ASSUME NEW th \in Threads, readLock(th)
      PROVE  \A e \in Request : read_ts[e] # 0 => read_ts'[e] # 0
  <2>1. PICK h \in Reading :
            \E start \in 1 .. h.n :
               /\ read_ts'[<<h.tid, h.key>>] = start
               /\ \A e \in Request \ {<<h.tid, h.key>>} : read_ts'[e] = read_ts[e]
    BY <1>1, ReadLockEffect
  <2>2. PICK start \in 1 .. h.n :
            /\ read_ts'[<<h.tid, h.key>>] = start
            /\ \A e \in Request \ {<<h.tid, h.key>>} : read_ts'[e] = read_ts[e]
    BY <2>1
  <2>3. start # 0
    OBVIOUS
  <2> QED
    BY <2>2, <2>3
<1>2. ASSUME NEW th \in Threads, NEW x \in Tids, getRead(th, x)
      PROVE  \A e \in Request : read_ts[e] # 0 => read_ts'[e] # 0
  <2>1. PICK k \in Keys :
            /\ read_ts'[<<x, k>>] = start_ts[x]
            /\ \A e \in Request \ {<<x, k>>} : read_ts'[e] = read_ts[e]
    BY <1>2, GetReadEffect
  <2>2. start_ts[x] # 0
    BY StartType, MaxTsAssumption DEF ServerInv
  <2> QED
    BY <2>1, <2>2
<1>3. ASSUME NEW th \in Threads, Worker(th),
             ~readLock(th), \A x \in Tids : ~getRead(th, x)
      PROVE  UNCHANGED read_ts
  <2>1. CASE getEvent(th)
    BY <1>3, <2>1 DEF getEvent, getWrite, getP1C, getP2C, getUnknown, getStuck, eventVars
  <2>2. CASE ~getEvent(th)
    BY <1>3, <2>2 DEF Worker, readValue, readExit, writeRun, p1cLock, p1cVote, p2cStart, p2cLocks,
          p2cWake, p2cFinalize, eventVars, serverVars
  <2> QED
    BY <2>1, <2>2
<1>4. ASSUME NEW x \in Tids, ClientStep(x) PROVE UNCHANGED read_ts
  BY <1>4, ClientEffect DEF serverVars, eventVars
<1>5. CASE UNCHANGED allVars
  BY <1>5 DEF allVars, serverVars, eventVars
<1> QED
  BY <1>1, <1>2, <1>3, <1>4, <1>5 DEF ServerNext

\* A request of x is answered: something of x changed, and nothing of the others.
LEMMA AnswerFrame ==
    ASSUME ServerInv, CommitInv, NEW x \in Tids, Answered(x), CommitOK(x)',
           \A y \in Tids \ {x} : /\ pend_writes'[y] = pend_writes[y]
                                 /\ y \in rdy_to_commit' <=> y \in rdy_to_commit,
           \A e \in Request : read_ts[e] # 0 => read_ts'[e] # 0
    PROVE  CommitInv'
<1> SUFFICES ASSUME NEW y \in Tids, y # x PROVE CommitOK(y)'
  BY DEF CommitInv
<1>1. asked[y] \subseteq Keys
  BY DEF ServerInv, ClientTypeOK
<1>2. UNCHANGED <<written, asked, stage, write_nodes, read_nodes>> /\ call'[y] = call[y]
  BY DEF Answered, progVars
<1> QED
  BY <1>1, <1>2, CommitFrame DEF CommitInv

\* A worker's step keeps what is known of every transaction.
LEMMA CommitWrite ==
    ASSUME ServerInv, CommitInv, NEW th \in Threads, writeRun(th)
    PROVE  CommitInv'
<1>1. PICK h \in Running :
          /\ h.op = "write"
          /\ Answered(h.tid)
          /\ pend_writes'[h.tid] = Append(pend_writes[h.tid], h.key)
          /\ \A y \in Tids \ {h.tid} : pend_writes'[y] = pend_writes[y]
          /\ UNCHANGED <<eventVars, rdy_to_commit>>
  BY WriteEffect
<1>2. PICK x \in Tids : x = h.tid
  BY TaskFacts
<1>3. /\ call[x] = [type |-> "TWRITE", key |-> h.key] /\ h.key \in Keys
      /\ stage[x] = "running"
  BY <1>1, <1>2, TaskFacts DEF Serves, StageOK
<1>4. Pending(x)' = Pending(x) \cup {h.key}
  <2>1. pend_writes[x] \in Seq(Keys)
    BY DEF ServerInv, ServerTypeOK
  <2>2. /\ Len(pend_writes'[x]) = Len(pend_writes[x]) + 1 /\ Len(pend_writes[x]) \in Nat
        /\ \A i \in 1 .. Len(pend_writes[x]) : pend_writes'[x][i] = pend_writes[x][i]
        /\ pend_writes'[x][Len(pend_writes[x]) + 1] = h.key
    BY <1>1, <1>2, <1>3, <2>1, AppendProperties
  <2> DEFINE n == Len(pend_writes[x])
  <2>3. PICK new, m : new = pend_writes'[x] /\ m = n
    OBVIOUS
  <2>4. 1 .. m + 1 = (1 .. m) \cup {m + 1} /\ m + 1 \notin 1 .. m
    BY <2>2, <2>3
  <2>5. Pending(x)' = {new[i] : i \in 1 .. m + 1}
    BY <2>2, <2>3 DEF Pending
  <2> QED
    BY <2>2, <2>3, <2>4, <2>5 DEF Pending
<1>5. /\ call'[x] = NoCall /\ UNCHANGED <<written, write_nodes, read_nodes, asked, stage>>
  BY <1>1, <1>2 DEF Answered, progVars
<1>6. SentOK(x)'
  BY <1>3, <1>4, <1>5, NoCallType DEF CommitInv, CommitOK, SentOK
<1>7. PreparedOK(x)'
  BY <1>1, <1>3, <1>5, NoCallType DEF CommitInv, CommitOK, PreparedOK
<1>8. ASSUME x \notin Lossy PROVE HeardOK(x)'
  <2>1. HeardOK(x) /\ ~Client!Returned(x)
    BY <1>3, <1>8 DEF CommitInv, CommitOK, Client!Returned
  <2>2. \A k : /\ call[x] = [type |-> "TWRITE", key |-> k] => k = h.key
               /\ call[x] # [type |-> "TREAD", key |-> k]
    BY <1>3
  <2>3. \A k \in written[x] : k \in Pending(x)'
    BY <1>4, <2>1, <2>2 DEF HeardOK
  <2>4. \A k \in asked[x] : read_ts'[<<x, k>>] # 0
    BY <1>1, <2>1, <2>2 DEF HeardOK, eventVars
  <2> QED
    BY <1>5, <2>3, <2>4 DEF HeardOK
<1>9. CommitOK(x)'
  BY <1>6, <1>7, <1>8 DEF CommitOK
<1>10. /\ \A y \in Tids \ {x} : /\ pend_writes'[y] = pend_writes[y]
                                /\ y \in rdy_to_commit' <=> y \in rdy_to_commit
       /\ \A e \in Request : read_ts[e] # 0 => read_ts'[e] # 0
       /\ Answered(x)
  BY <1>1, <1>2 DEF eventVars
<1> QED
  BY <1>9, <1>10, AnswerFrame

LEMMA CommitVote ==
    ASSUME ServerInv, CommitInv, NEW th \in Threads, p1cVote(th)
    PROVE  CommitInv'
<1>1. PICK h \in Running :
          /\ h.op \in {"p1c", "refused"}
          /\ Answered(h.tid)
          /\ rdy_to_commit' = rdy_to_commit \cup {h.tid}
          /\ UNCHANGED <<eventVars, pend_writes>>
  BY VoteEffect
<1>2. PICK x \in Tids : x = h.tid
  BY TaskFacts
<1>3. call[x].type = "TP1C" /\ stage[x] \in {"commit", "abort"}
  BY <1>1, <1>2, TaskFacts DEF Serves, StageOK
<1>4. Pending(x)' = Pending(x)
  BY <1>1 DEF Pending
<1>5. /\ call'[x] = NoCall /\ UNCHANGED <<written, write_nodes, read_nodes, asked, stage>>
  BY <1>1, <1>2 DEF Answered, progVars
<1>6. SentOK(x)'
  BY <1>3, <1>4, <1>5, NoCallType DEF CommitInv, CommitOK, SentOK
<1>7. PreparedOK(x)'
  BY <1>1, <1>2, <1>3, <1>5, NoCallType DEF CommitInv, CommitOK, PreparedOK
<1>8. ASSUME x \notin Lossy PROVE HeardOK(x)'
  <2>1. HeardOK(x) /\ ~Client!Returned(x)
    BY <1>3, <1>8 DEF CommitInv, CommitOK, Client!Returned
  <2>2. \A k : /\ call[x] # [type |-> "TWRITE", key |-> k]
               /\ call[x] # [type |-> "TREAD", key |-> k]
    BY <1>3
  <2>3. \A k \in written[x] : k \in Pending(x)'
    BY <1>4, <2>1, <2>2 DEF HeardOK
  <2>4. \A k \in asked[x] : read_ts'[<<x, k>>] # 0
    BY <1>1, <2>1, <2>2 DEF HeardOK, eventVars
  <2> QED
    BY <1>5, <2>3, <2>4 DEF HeardOK
<1>9. CommitOK(x)'
  BY <1>6, <1>7, <1>8 DEF CommitOK
<1>10. /\ \A y \in Tids \ {x} : /\ pend_writes'[y] = pend_writes[y]
                                /\ y \in rdy_to_commit' <=> y \in rdy_to_commit
       /\ \A e \in Request : read_ts[e] # 0 => read_ts'[e] # 0
       /\ Answered(x)
  BY <1>1, <1>2 DEF eventVars
<1> QED
  BY <1>9, <1>10, AnswerFrame

LEMMA CommitFinalize ==
    ASSUME ServerInv, CommitInv, NEW th \in Threads, p2cFinalize(th)
    PROVE  CommitInv'
<1>1. PICK h \in Running :
          /\ h.op = "locks"
          /\ Answered(h.tid)
          /\ rdy_to_commit' = rdy_to_commit \ {h.tid}
          /\ \A y \in Tids \ {h.tid} : pend_writes'[y] = pend_writes[y]
          /\ h.tid \in rdy_to_commit => pend_writes'[h.tid] = <<>>
          /\ h.tid \notin rdy_to_commit => pend_writes' = pend_writes
          /\ UNCHANGED eventVars
  BY FinalizeEffect
<1>2. PICK x \in Tids : x = h.tid
  BY TaskFacts
<1>3. call[x].type = "TP2C" /\ stage[x] = "end"
  BY <1>1, <1>2, TaskFacts DEF Serves, StageOK
<1>4. Pending(x)' \subseteq Pending(x)
  BY <1>1, <1>2 DEF Pending
<1>5. /\ call'[x] = NoCall /\ UNCHANGED <<written, write_nodes, read_nodes, asked, stage>>
  BY <1>1, <1>2 DEF Answered, progVars
<1>6. Client!Returned(x)'
  BY <1>3, <1>5 DEF Client!Returned, Client!Idle, NoCall
<1>7. SentOK(x)'
  BY <1>3, <1>4, <1>5, NoCallType DEF CommitInv, CommitOK, SentOK
<1>8. PreparedOK(x)'
  BY <1>1, <1>2, <1>6 DEF PreparedOK
<1>9. ASSUME x \notin Lossy PROVE HeardOK(x)'
  <2>1. HeardOK(x)
    BY <1>9 DEF CommitInv, CommitOK
  <2>2. \A k : call[x] # [type |-> "TREAD", key |-> k]
    BY <1>3
  <2>3. \A k \in asked[x] : read_ts'[<<x, k>>] # 0
    BY <1>1, <2>1, <2>2 DEF HeardOK, eventVars
  <2> QED
    BY <1>5, <1>6, <2>3 DEF HeardOK
<1>10. CommitOK(x)'
  BY <1>7, <1>8, <1>9 DEF CommitOK
<1>11. /\ \A y \in Tids \ {x} : /\ pend_writes'[y] = pend_writes[y]
                                /\ y \in rdy_to_commit' <=> y \in rdy_to_commit
       /\ \A e \in Request : read_ts[e] # 0 => read_ts'[e] # 0
       /\ Answered(x)
  BY <1>1, <1>2 DEF eventVars
<1> QED
  BY <1>10, <1>11, AnswerFrame

\* A step that answers no request and has no data of a transaction change.
LEMMA CommitQuiet ==
    ASSUME ServerInv, CommitInv, [ServerNext]_allVars,
           UNCHANGED <<progVars, call, pend_writes, rdy_to_commit>>
    PROVE  CommitInv'
<1> SUFFICES ASSUME NEW x \in Tids PROVE CommitOK(x)'
  BY DEF CommitInv
<1>1. asked[x] \subseteq Keys /\ CommitOK(x)
  BY DEF ServerInv, ClientTypeOK, CommitInv
<1>2. UNCHANGED <<written, asked, stage, write_nodes, read_nodes>>
  BY DEF progVars
<1> QED
  BY <1>1, <1>2, ReadsRemembered, CommitFrame

LEMMA CommitReadValue ==
    ASSUME ServerInv, CommitInv, NEW th \in Threads, readValue(th), [ServerNext]_allVars
    PROVE  CommitInv'
<1>1. UNCHANGED <<pend_writes, rdy_to_commit, read_ts>>
  BY ReadValueEffect DEF dataVars
<1>2. CASE UNCHANGED clientVars
  BY <1>1, <1>2, CommitQuiet DEF clientVars
<1>3. ASSUME NEW h \in Reading,
             h.tid \in Tids, read_ts[<<h.tid, h.key>>] # 0,
             call[h.tid] = [type |-> "TREAD", key |-> h.key], Answered(h.tid)
      PROVE  CommitInv'
  <2>1. PICK x \in Tids : x = h.tid
    BY <1>3
  <2>2. PICK k : k = h.key
    OBVIOUS
  <2>3. call[x].type = "TREAD" /\ stage[x] = "running"
    BY <1>3, <2>1 DEF ServerInv, Discipline, StagesOK, StageOK
  <2>4. /\ call'[x] = NoCall /\ UNCHANGED <<written, write_nodes, read_nodes, asked, stage>>
    BY <1>3, <2>1 DEF Answered, progVars
  <2>5. Pending(x)' = Pending(x)
    BY <1>1 DEF Pending
  <2>6. SentOK(x)'
    BY <2>4, <2>5, NoCallType DEF CommitInv, CommitOK, SentOK
  <2>7. PreparedOK(x)'
    BY <1>1, <2>3, <2>4, NoCallType DEF CommitInv, CommitOK, PreparedOK
  <2>8. ASSUME x \notin Lossy PROVE HeardOK(x)'
    <3>1. HeardOK(x) /\ ~Client!Returned(x)
      BY <2>3, <2>8 DEF CommitInv, CommitOK, Client!Returned
    <3>2. /\ \A j : call[x] # [type |-> "TWRITE", key |-> j]
          /\ \A j : call[x] = [type |-> "TREAD", key |-> j] => j = k
      BY <1>3, <2>1, <2>2
    <3>3. \A j \in written[x] : j \in Pending(x)'
      BY <2>5, <3>1, <3>2 DEF HeardOK
    <3>4. \A j \in asked[x] : read_ts'[<<x, j>>] # 0
      BY <1>1, <1>3, <2>1, <2>2, <3>1, <3>2 DEF HeardOK
    <3> QED
      BY <2>4, <3>3, <3>4 DEF HeardOK
  <2>9. CommitOK(x)'
    BY <2>6, <2>7, <2>8 DEF CommitOK
  <2>10. /\ \A y \in Tids \ {x} : /\ pend_writes'[y] = pend_writes[y]
                                  /\ y \in rdy_to_commit' <=> y \in rdy_to_commit
         /\ \A e \in Request : read_ts[e] # 0 => read_ts'[e] # 0
         /\ Answered(x)
    BY <1>1, <1>3, <2>1
  <2> QED
    BY <2>9, <2>10, AnswerFrame
<1> QED
  BY <1>2, <1>3, ReadValueEffect

\* A coordinator asks for something, or goes on after losing a request.
LEMMA CommitClient ==
    ASSUME ServerInv, CommitInv, NEW x \in Tids, ClientStep(x)
    PROVE  CommitInv'
<1>1. Only(x) /\ UNCHANGED <<pend_writes, rdy_to_commit, read_ts>>
  BY ClientCases, ClientEffect DEF serverVars, dataVars, eventVars
<1>2. ASSUME NEW y \in Tids, y # x PROVE CommitOK(y)'
  <2>1. asked[y] \subseteq Keys /\ CommitOK(y)
    BY DEF ServerInv, ClientTypeOK, CommitInv
  <2> QED
    BY <1>1, <1>2, <2>1, CommitFrame DEF Only
<1>3. /\ SentOK(x) /\ PreparedOK(x) /\ (x \notin Lossy => HeardOK(x))
      /\ Pending(x)' = Pending(x)
  BY <1>1 DEF CommitInv, CommitOK, Pending
<1>4. Client!Returned(x) <=> stage[x] = "end" /\ call[x] = NoCall
  BY DEF Client!Returned, Client!Idle, NoCall
<1>5. ASSUME call[x] = NoCall
      PROVE  \A k : /\ call[x] # [type |-> "TWRITE", key |-> k]
                    /\ call[x] # [type |-> "TREAD", key |-> k]
  <2>1. call[x].type = "none"
    BY <1>5, NoCallType
  <2> QED
    BY <2>1
<1>6. ASSUME ReadSent(x) PROVE CommitOK(x)'
  <2>1. PICK key \in Keys :
            /\ stage[x] = "running" /\ call[x] = NoCall
            /\ call'[x] = [type |-> "TREAD", key |-> key]
            /\ asked'[x] = asked[x] \cup {key} /\ read_nodes'[x] = read_nodes[x] \cup {0}
            /\ UNCHANGED <<written, write_nodes, stage>>
    BY <1>6 DEF ReadSent
  <2>2. SentOK(x)'
    BY <1>3, <2>1 DEF SentOK
  <2>3. PreparedOK(x)'
    BY <1>1, <1>3, <2>1, NoCallType DEF PreparedOK
  <2>4. x \notin Lossy => HeardOK(x)'
    BY <1>1, <1>3, <1>4, <1>5, <2>1 DEF HeardOK
  <2> QED
    BY <2>2, <2>3, <2>4 DEF CommitOK
<1>7. ASSUME WriteSent(x) PROVE CommitOK(x)'
  <2>1. PICK key \in Keys :
            /\ stage[x] = "running" /\ call[x] = NoCall
            /\ call'[x] = [type |-> "TWRITE", key |-> key]
            /\ written'[x] = written[x] \cup {key} /\ write_nodes'[x] = write_nodes[x] \cup {0}
            /\ UNCHANGED <<asked, read_nodes, stage>>
    BY <1>7 DEF WriteSent
  <2>2. SentOK(x)'
    BY <1>3, <2>1 DEF SentOK
  <2>3. PreparedOK(x)'
    BY <1>1, <1>3, <2>1, NoCallType DEF PreparedOK
  <2>4. x \notin Lossy => HeardOK(x)'
    BY <1>1, <1>3, <1>4, <1>5, <2>1 DEF HeardOK
  <2> QED
    BY <2>2, <2>3, <2>4 DEF CommitOK
<1>8. ASSUME FirstSent(x) PROVE CommitOK(x)'
  <2>1. /\ stage[x] = "running" /\ call[x] = NoCall /\ stage'[x] \in {"commit", "abort"}
        /\ \/ write_nodes[x] = {} /\ call'[x] = NoCall
           \/ write_nodes[x] # {} /\ call'[x] = [type |-> "TP1C"]
        /\ UNCHANGED <<written, write_nodes, asked, read_nodes>>
    BY <1>8 DEF FirstSent
  <2>2. SentOK(x)'
    BY <1>3, <2>1, NoCallType DEF SentOK
  <2>3. PreparedOK(x)'
    BY <1>1, <1>3, <2>1, NoCallType DEF PreparedOK, SentOK
  <2>4. x \notin Lossy => HeardOK(x)'
    BY <1>1, <1>3, <1>4, <1>5, <2>1 DEF HeardOK
  <2> QED
    BY <2>2, <2>3, <2>4 DEF CommitOK
<1>9. ASSUME SecondSent(x) PROVE CommitOK(x)'
  <2>1. /\ stage[x] \in {"commit", "abort"} /\ call[x] = NoCall /\ stage'[x] = "end"
        /\ \/ write_nodes[x] \cup read_nodes[x] = {} /\ call'[x] = NoCall
           \/ write_nodes[x] \cup read_nodes[x] # {} /\ call'[x] = [type |-> "TP2C"]
        /\ UNCHANGED <<written, write_nodes, asked, read_nodes>>
    BY <1>9 DEF SecondSent
  <2>2. SentOK(x)'
    BY <1>3, <2>1, NoCallType DEF SentOK
  <2>3. PreparedOK(x)'
    BY <1>1, <1>3, <1>4, <2>1, NoCallType DEF PreparedOK
  <2>4. x \notin Lossy => HeardOK(x)'
    BY <1>1, <1>3, <1>4, <1>5, <2>1 DEF HeardOK
  <2> QED
    BY <2>2, <2>3, <2>4 DEF CommitOK
<1>10. ASSUME Lost(x) PROVE CommitOK(x)'
  <2>1. /\ x \in Lossy /\ call[x].type \in {"TREAD", "TWRITE"} /\ call'[x] = NoCall
        /\ UNCHANGED <<written, write_nodes, asked, read_nodes, stage>>
    BY <1>10 DEF Lost
  <2>2. stage[x] = "running"
    BY <2>1 DEF ServerInv, Discipline, StagesOK, StageOK
  <2>3. SentOK(x)'
    BY <1>3, <2>1, NoCallType DEF SentOK
  <2>4. PreparedOK(x)'
    BY <1>1, <1>3, <2>1, <2>2, NoCallType DEF PreparedOK
  <2> QED
    BY <2>1, <2>3, <2>4 DEF CommitOK
<1>11. CommitOK(x)'
  BY <1>6, <1>7, <1>8, <1>9, <1>10, ClientCases
<1> QED
  BY <1>2, <1>11 DEF CommitInv

LEMMA CommitInitial == ServerInit => CommitInv
<1> SUFFICES ASSUME ServerInit, NEW x \in Tids PROVE CommitOK(x)
  BY DEF CommitInv
<1>1. /\ written[x] = {} /\ write_nodes[x] = {} /\ read_nodes[x] = {} /\ asked[x] = {}
      /\ call[x] = NoCall /\ stage[x] = "running"
      /\ pend_writes[x] = <<>> /\ rdy_to_commit = {}
  BY DEF ServerInit, Client!Init, NoCall
<1>2. Pending(x) = {}
  BY <1>1 DEF Pending
<1> QED
  BY <1>1, <1>2, NoCallType DEF CommitOK, SentOK, PreparedOK, HeardOK

\* What the server has of a transaction follows from what its coordinator did.
LEMMA CommitStep ==
    ASSUME ServerInv, CommitInv, [ServerNext]_allVars
    PROVE  CommitInv'
<1>1. ASSUME NEW th \in Threads, getEvent(th)
      PROVE  UNCHANGED <<progVars, call, pend_writes, rdy_to_commit>>
  BY <1>1 DEF getEvent, getRead, getWrite, getP1C, getP2C, getUnknown, getStuck, Dispatch, dataVars
<1>2. ASSUME NEW th \in Threads, Worker(th), ~getEvent(th), ~readValue(th), ~writeRun(th),
             ~p1cVote(th), ~p2cFinalize(th)
      PROVE  UNCHANGED <<progVars, call, pend_writes, rdy_to_commit>>
  BY <1>2 DEF Worker, readLock, readExit, p1cLock, p2cStart, p2cLocks, p2cWake,
              clientVars, serverVars, dataVars
<1>3. CASE UNCHANGED <<progVars, call, pend_writes, rdy_to_commit>>
  BY <1>3, CommitQuiet
<1>4. ASSUME NEW th \in Threads, Worker(th) PROVE CommitInv'
  BY <1>1, <1>2, <1>3, <1>4, CommitReadValue, CommitWrite, CommitVote, CommitFinalize
<1>5. CASE UNCHANGED allVars
  BY <1>3, <1>5 DEF allVars, clientVars, serverVars, dataVars
<1> QED
  BY <1>4, <1>5, CommitClient DEF ServerNext

-----------------------------------------------------------------------------
(* Mutexes left locked                                                       *)

\* The server has taken a write of x, or a read or a write.
HasWrite(x) == ~NoWrite(x) \/ \E h \in Running : h.op = "write" /\ h.tid = x
Heard(x)    == HasWrite(x) \/ \E k \in Keys : read_ts[<<x, k>>] # 0

-----------------------------------------------------------------------------
(* What a step does to the entries and to what the server has               *)

\* Once a request is taken, the maps of entries and the mutexes are left alone,
\* and pending writes come from the writes that were taken.
WorkQuiet ==
    /\ UNCHANGED <<queued, nodeVars>>
    /\ \A h \in Running \ Running' : h.op # "stuck"
    /\ \A g \in Running' \ Running : g.op # "write"
    /\ \A x \in Tids :
          \/ pend_writes'[x] = pend_writes[x]
          \/ \E h \in Running : h.tid = x /\ h.op = "write"
          \/ pend_writes'[x] = <<>> /\ \E h \in Running : h.tid = x /\ h.op = "locks"
    /\ \A e \in Request : read_ts[e] = 0 => read_ts'[e] = 0

LEMMA WorkIsQuiet ==
    ASSUME ServerInv, NEW th \in Threads, Worker(th), ~getEvent(th)
    PROVE  WorkQuiet
<1>1. CASE readLock(th)
  <2>1. PICK h \in Reading :
            /\ read_ts[<<h.tid, h.key>>] # 0
            /\ \A e \in Request \ {<<h.tid, h.key>>} : read_ts'[e] = read_ts[e]
            /\ Running' = Running
            /\ UNCHANGED <<clientVars, nodeVars, dataVars>>
    BY <1>1, ReadLockEffect
  <2>2. \A e \in Request : read_ts[e] = 0 => read_ts'[e] = 0
    BY <2>1
  <2> QED
    BY <2>1, <2>2 DEF WorkQuiet, clientVars, dataVars
<1>2. CASE readValue(th)
  <2>1. UNCHANGED queued
    BY <1>2 DEF readValue, sendReply, clientVars
  <2> QED
    BY <1>2, <2>1, ReadValueEffect DEF WorkQuiet, dataVars
<1>3. CASE readExit(th) \/ p2cLocks(th)
  BY <1>3, SameRunning
     DEF WorkQuiet, readExit, p2cLocks, clientVars, serverVars, eventVars, dataVars
<1>4. CASE writeRun(th)
  <2>1. PICK h \in Running :
            /\ h.op = "write" /\ Running' = Running \ {h} /\ Answered(h.tid)
            /\ \A y \in Tids \ {h.tid} : pend_writes'[y] = pend_writes[y]
            /\ UNCHANGED <<eventVars, nodeVars>>
    BY <1>4, WriteEffect
  <2> QED
    BY <2>1 DEF WorkQuiet, Answered, eventVars
<1>5. CASE p1cLock(th)
  <2>1. PICK h \in Running, g \in Handler :
            /\ h.op = "p1c" /\ g.op \in {"p1c", "refused"} /\ Running' = (Running \ {h}) \cup {g}
            /\ UNCHANGED <<clientVars, eventVars, nodeVars, dataVars>>
    BY <1>5, LockEffect
  <2> QED
    BY <2>1 DEF WorkQuiet, clientVars, eventVars, dataVars
<1>6. CASE p1cVote(th)
  <2>1. PICK h \in Running :
            /\ h.op \in {"p1c", "refused"} /\ Running' = Running \ {h} /\ Answered(h.tid)
            /\ UNCHANGED <<eventVars, nodeVars, pend_writes>>
    BY <1>6, VoteEffect
  <2> QED
    BY <2>1 DEF WorkQuiet, Answered, eventVars
<1>7. CASE p2cStart(th)
  <2>1. PICK h \in Running, g \in Handler :
            /\ h.op = "p2c" /\ g.op = "locks" /\ Running' = (Running \ {h}) \cup {g}
            /\ UNCHANGED <<clientVars, eventVars, nodeVars, dataVars>>
    BY <1>7, StartEffect
  <2> QED
    BY <2>1 DEF WorkQuiet, clientVars, eventVars, dataVars
<1>8. CASE p2cWake(th)
  BY <1>8, WakeEffect DEF WorkQuiet, clientVars, eventVars, dataVars
<1>9. CASE p2cFinalize(th)
  <2>1. PICK h \in Running :
            /\ h.op = "locks" /\ Running' = Running \ {h} /\ Answered(h.tid)
            /\ \A y \in Tids \ {h.tid} : pend_writes'[y] = pend_writes[y]
            /\ h.tid \in rdy_to_commit => pend_writes'[h.tid] = <<>>
            /\ h.tid \notin rdy_to_commit => pend_writes' = pend_writes
            /\ UNCHANGED <<eventVars, nodeVars>>
    BY <1>9, FinalizeEffect
  <2> QED
    BY <2>1 DEF WorkQuiet, Answered, eventVars
<1> QED
  BY <1>1, <1>2, <1>3, <1>4, <1>5, <1>6, <1>7, <1>8, <1>9 DEF Worker

\* Nor does a coordinator change what the server has.
LEMMA ClientIsQuiet ==
    ASSUME ServerInv, UNCHANGED <<nodeVars, stack, pend_writes, read_ts>>
    PROVE  /\ Running' = Running
           /\ UNCHANGED <<tid_to_nodes, tid_to_write_nodes, leaked>>
           /\ \A x \in Tids : (HasWrite(x)' <=> HasWrite(x)) /\ (Heard(x)' <=> Heard(x))
<1>1. Running' = Running
  BY SameRunning
<1> QED
  BY <1>1 DEF nodeVars, HasWrite, Heard, NoWrite

\* A request other than a read becomes a task.
LEMMA TaskTaken ==
    ASSUME ServerInv, NEW th \in Threads, NEW x \in Tids,
           \/ getWrite(th, x) \/ getP1C(th, x) \/ getP2C(th, x) \/ getStuck(th, x)
    PROVE  \E h \in Handler :
              /\ h.tid = x /\ Running' = Running \cup {h} /\ queued' = queued \ {x}
              /\ h.op = "write" => getWrite(th, x)
              /\ getStuck(th, x) => h.op = "stuck"
<1>1. PICK h \in Handler :
          /\ x \in queued /\ queued' = queued \ {x}
          /\ h.tid = x /\ Running' = Running \cup {h} /\ Reading' \subseteq Reading
          /\ h.op \in {"write", "p1c", "p2c", "stuck"}
          /\ getWrite(th, x) => h.op = "write"
          /\ getP1C(th, x) => h.op = "p1c"
          /\ getP2C(th, x) => h.op = "p2c"
          /\ getStuck(th, x) => h.op = "stuck"
          /\ h.op = "write" => h.key \in Keys /\ call[x] = [type |-> "TWRITE", key |-> h.key]
          /\ h.op = "p1c" => h.n = 0 /\ call[x].type = "TP1C"
          /\ h.op = "p2c" => call[x].type = "TP2C"
          /\ UNCHANGED <<vars, progVars, vote, call, leaked, dataVars, crashed, reads, eventVars>>
  BY GetTaskEffect, SMTT(60)
<1>2. h.op = "write" => getWrite(th, x)
  BY <1>1
<1> QED
  BY <1>1, <1>2

\* What the server has of a transaction it has taken.
LEMMA HeardFrom ==
    ASSUME ServerInv, [ServerNext]_allVars, NEW x \in Tids
    PROVE  /\ HasWrite(x)' => HasWrite(x) \/ \E th \in Threads : getWrite(th, x)
           /\ Heard(x)' => Heard(x) \/ \E th \in Threads : getWrite(th, x) \/ getRead(th, x)
<1>1. CASE WorkQuiet
  <2>1. HasWrite(x)' => HasWrite(x)
    BY <1>1 DEF WorkQuiet, HasWrite, NoWrite
  <2>2. \A k \in Keys : <<x, k>> \in Request
    BY DEF Request
  <2> QED
    BY <1>1, <2>1, <2>2 DEF WorkQuiet, Heard
<1>2. CASE UNCHANGED <<nodeVars, stack, pend_writes, read_ts>>
  BY <1>2, ClientIsQuiet
<1>3. ASSUME NEW th \in Threads, NEW y \in Tids, getRead(th, y)
      PROVE  /\ HasWrite(x)' => HasWrite(x)
             /\ Heard(x)' => Heard(x) \/ x = y
  <2>1. PICK k \in Keys :
            /\ y \in queued /\ queued' = queued \ {y}
            /\ call[y] = [type |-> "TREAD", key |-> k]
            /\ Running' = Running
            /\ \A h \in Reading' :
                  h \in Reading \/ (h.tid = y /\ h.key = k /\ h.n = start_ts[y])
            /\ read_ts'[<<y, k>>] = start_ts[y]
            /\ \A e \in Request \ {<<y, k>>} : read_ts'[e] = read_ts[e]
            /\ tid_to_nodes' = tid_to_nodes \cup {y}
            /\ UNCHANGED <<vars, progVars, vote, call, leaked, dataVars, crashed, reads>>
            /\ UNCHANGED tid_to_write_nodes
    BY <1>3, GetReadEffect, Zenon
  <2>2. HasWrite(x)' <=> HasWrite(x)
    BY <2>1 DEF HasWrite, NoWrite, dataVars
  <2>3. ASSUME x # y PROVE \A j \in Keys : read_ts'[<<x, j>>] = read_ts[<<x, j>>]
    <3> SUFFICES ASSUME NEW j \in Keys PROVE read_ts'[<<x, j>>] = read_ts[<<x, j>>]
      OBVIOUS
    <3>1. <<x, j>> \in Request \ {<<y, k>>}
      BY <2>3 DEF Request
    <3> QED
      BY <2>1, <3>1
  <2> QED
    BY <2>2, <2>3 DEF Heard
<1>4. ASSUME NEW th \in Threads, NEW y \in Tids,
             \/ getWrite(th, y) \/ getP1C(th, y) \/ getP2C(th, y) \/ getStuck(th, y)
      PROVE  HasWrite(x)' \/ Heard(x)' =>
                 \/ Heard(x) /\ (HasWrite(x)' => HasWrite(x))
                 \/ x = y /\ getWrite(th, y)
  <2>1. PICK h \in Handler :
            /\ h.tid = y /\ Running' = Running \cup {h}
            /\ h.op = "write" => getWrite(th, y)
    BY <1>4, TaskTaken
  <2>2. UNCHANGED <<pend_writes, read_ts>>
    BY <1>4 DEF getWrite, getP1C, getP2C, getStuck, Dispatch, dataVars, eventVars
  <2>3. HasWrite(x)' => HasWrite(x) \/ (x = y /\ getWrite(th, y))
    BY <1>4, <2>1, <2>2 DEF HasWrite, NoWrite
  <2>4. Heard(x)' => Heard(x) \/ HasWrite(x)'
    BY <2>2 DEF Heard
  <2> QED
    BY <2>3, <2>4 DEF Heard
<1>5. ASSUME NEW th \in Threads, getEvent(th)
      PROVE  /\ HasWrite(x)' => HasWrite(x) \/ \E o \in Threads : getWrite(o, x)
             /\ Heard(x)' => Heard(x) \/ \E o \in Threads : getWrite(o, x) \/ getRead(o, x)
  <2>1. PICK y \in Tids :
            \/ getRead(th, y) \/ getUnknown(th, y)
            \/ getWrite(th, y) \/ getP1C(th, y) \/ getP2C(th, y) \/ getStuck(th, y)
    BY <1>5 DEF getEvent
  <2>2. CASE getRead(th, y)
    BY <1>3, <2>2
  <2>3. CASE getUnknown(th, y)
    <3>1. Running' = Running /\ UNCHANGED <<pend_writes, read_ts>>
      BY <2>3, SameRunning DEF getUnknown, dataVars, eventVars
    <3> QED
      BY <3>1 DEF HasWrite, Heard, NoWrite
  <2>4. CASE getWrite(th, y) \/ getP1C(th, y) \/ getP2C(th, y) \/ getStuck(th, y)
    BY <1>4, <2>4 DEF Heard
  <2> QED
    BY <2>1, <2>2, <2>3, <2>4
<1>6. ASSUME NEW y \in Tids, ClientStep(y) PROVE UNCHANGED <<nodeVars, stack, pend_writes, read_ts>>
  BY <1>6, ClientEffect DEF serverVars, dataVars, eventVars
<1>7. ASSUME UNCHANGED allVars PROVE UNCHANGED <<nodeVars, stack, pend_writes, read_ts>>
  BY <1>7 DEF allVars, serverVars, dataVars, eventVars
<1> QED
  BY <1>1, <1>2, <1>5, <1>6, <1>7, WorkIsQuiet DEF ServerNext

\* Whose request a worker takes.
LEMMA EntriesKept ==
    ASSUME ServerInv, [ServerNext]_allVars, NEW x \in Tids
    PROVE  /\ x \in tid_to_write_nodes =>
                 x \in tid_to_write_nodes' \/ \E th \in Threads : getP1C(th, x)
           /\ x \in tid_to_nodes => x \in tid_to_nodes' \/ \E th \in Threads : getP2C(th, x)
<1>1. CASE UNCHANGED nodeVars
  BY <1>1 DEF nodeVars
<1>2. ASSUME NEW th \in Threads, getEvent(th)
      PROVE  /\ x \in tid_to_write_nodes =>
                   x \in tid_to_write_nodes' \/ \E o \in Threads : getP1C(o, x)
             /\ x \in tid_to_nodes => x \in tid_to_nodes' \/ \E o \in Threads : getP2C(o, x)
  <2>1. PICK y \in Tids :
            \/ getP1C(th, y) \/ getP2C(th, y)
            \/ getRead(th, y) \/ getUnknown(th, y) \/ getWrite(th, y) \/ getStuck(th, y)
    BY <1>2 DEF getEvent
  <2>2. CASE getP1C(th, y)
    <3>1. tid_to_write_nodes' = tid_to_write_nodes \ {y} /\ tid_to_nodes' = tid_to_nodes
      BY <2>2 DEF getP1C
    <3> QED
      BY <2>2, <3>1
  <2>3. CASE getP2C(th, y)
    <3>1. tid_to_nodes' = tid_to_nodes \ {y} /\ tid_to_write_nodes' = tid_to_write_nodes
      BY <2>3 DEF getP2C
    <3> QED
      BY <2>3, <3>1
  <2>4. CASE getRead(th, y) \/ getUnknown(th, y) \/ getWrite(th, y) \/ getStuck(th, y)
    <3>1. tid_to_nodes \subseteq tid_to_nodes' /\ tid_to_write_nodes \subseteq tid_to_write_nodes'
      BY <2>4 DEF getRead, getUnknown, getWrite, getStuck
    <3> QED
      BY <3>1
  <2> QED
    BY <2>1, <2>2, <2>3, <2>4
<1>3. ASSUME NEW y \in Tids, ClientStep(y) PROVE UNCHANGED nodeVars
  BY <1>3, ClientEffect DEF serverVars
<1>4. ASSUME UNCHANGED allVars PROVE UNCHANGED nodeVars
  BY <1>4 DEF allVars, serverVars
<1> QED
  BY <1>1, <1>2, <1>3, <1>4, WorkIsQuiet DEF ServerNext, WorkQuiet

\* A worker takes requests, and never makes one.
LEMMA QueueShrinks ==
    ASSUME ServerInv, NEW th \in Threads, Worker(th)
    PROVE  queued' \subseteq queued
<1>1. CASE getEvent(th)
  BY <1>1 DEF getEvent, getRead, getWrite, getP1C, getP2C, getUnknown, getStuck, Dispatch
<1> QED
  BY <1>1, WorkIsQuiet DEF WorkQuiet

\* The first phase of x has been sent, and its request been taken...
FirstTaken(x) == stage[x] # "running" /\ ~(x \in queued /\ call[x].type = "TP1C")

\* ...and so has the second.
SecondTaken(x) == stage[x] = "end" /\ x \notin queued

\* A coordinator sends each of them once.
LEMMA TakenOnce ==
    ASSUME ServerInv, [ServerNext]_allVars, NEW x \in Tids
    PROVE  /\ FirstTaken(x) => FirstTaken(x)'
           /\ SecondTaken(x) => SecondTaken(x)'
<1>1. ASSUME NEW th \in Threads, Worker(th)
      PROVE  (FirstTaken(x) => FirstTaken(x)') /\ (SecondTaken(x) => SecondTaken(x)')
  <2>1. stage'[x] = stage[x] /\ queued' \subseteq queued
    BY <1>1, WorkerReplies, QueueShrinks DEF progVars
  <2>2. call'[x] = call[x] \/ call'[x].type = "none"
    BY <1>1, WorkerReplies, NoCallType
  <2> QED
    BY <2>1, <2>2 DEF FirstTaken, SecondTaken
<1>2. ASSUME NEW y \in Tids, ClientStep(y)
      PROVE  (FirstTaken(x) => FirstTaken(x)') /\ (SecondTaken(x) => SecondTaken(x)')
  <2>1. CASE x # y
    BY <1>2, <2>1, ClientCases DEF Only, FirstTaken, SecondTaken
  <2>2. CASE x = y
    <3>1. ASSUME SecondSent(x)
          PROVE  (FirstTaken(x) => FirstTaken(x)') /\ (SecondTaken(x) => SecondTaken(x)')
      <4>1. stage'[x] = "end" /\ stage[x] # "end" /\ call'[x].type \in {"none", "TP2C"}
        BY <3>1, NoCallType DEF SecondSent
      <4> QED
        BY <4>1 DEF FirstTaken, SecondTaken
    <3>2. ASSUME Lost(x)
          PROVE  (FirstTaken(x) => FirstTaken(x)') /\ (SecondTaken(x) => SecondTaken(x)')
      BY <3>2 DEF Lost, FirstTaken, SecondTaken
    <3>3. ReadSent(x) \/ WriteSent(x) \/ FirstSent(x) => stage[x] = "running"
      BY DEF ReadSent, WriteSent, FirstSent
    <3>4. stage[x] = "running" => ~FirstTaken(x) /\ ~SecondTaken(x)
      BY DEF FirstTaken, SecondTaken
    <3> QED
      BY <1>2, <2>2, <3>1, <3>2, <3>3, <3>4, ClientCases
  <2> QED
    BY <2>1, <2>2
<1>3. ASSUME UNCHANGED allVars
      PROVE  (FirstTaken(x) => FirstTaken(x)') /\ (SecondTaken(x) => SecondTaken(x)')
  BY <1>3 DEF allVars, clientVars, progVars, FirstTaken, SecondTaken
<1> QED
  BY <1>1, <1>2, <1>3 DEF ServerNext

-----------------------------------------------------------------------------
(* Entries last until the request that takes them out                       *)

EntryOK(x) ==
    /\ HasWrite(x) => x \in tid_to_write_nodes \/ FirstTaken(x)
    /\ Heard(x) => x \in tid_to_nodes \/ SecondTaken(x)

LEMMA EntryStep ==
    ASSUME ServerInv, [ServerNext]_allVars, NEW x \in Tids, EntryOK(x)
    PROVE  EntryOK(x)'
<1>1. ASSUME NEW th \in Threads, getWrite(th, x)
      PROVE  x \in tid_to_write_nodes' /\ x \in tid_to_nodes'
  BY <1>1 DEF getWrite
<1>2. ASSUME NEW th \in Threads, getRead(th, x) PROVE x \in tid_to_nodes'
  BY <1>2 DEF getRead
<1>3. ASSUME NEW th \in Threads, getP1C(th, x) PROVE FirstTaken(x)'
  <2>1. queued' = queued \ {x} /\ stage'[x] = stage[x] /\ x \in queued /\ call[x].type = "TP1C"
    BY <1>3 DEF getP1C, Takes, Dispatch, progVars
  <2>2. stage[x] # "running"
    BY <2>1 DEF ServerInv, Discipline, StagesOK, StageOK
  <2> QED
    BY <2>1, <2>2 DEF FirstTaken
<1>4. ASSUME NEW th \in Threads, getP2C(th, x) PROVE SecondTaken(x)'
  <2>1. queued' = queued \ {x} /\ stage'[x] = stage[x] /\ x \in queued /\ call[x].type = "TP2C"
    BY <1>4 DEF getP2C, Takes, Dispatch, progVars
  <2>2. stage[x] = "end"
    BY <2>1 DEF ServerInv, Discipline, StagesOK, StageOK
  <2> QED
    BY <2>1, <2>2 DEF SecondTaken
<1>5. HasWrite(x)' => x \in tid_to_write_nodes' \/ FirstTaken(x)'
  BY <1>1, <1>3, HeardFrom, EntriesKept, TakenOnce DEF EntryOK
<1>6. Heard(x)' => x \in tid_to_nodes' \/ SecondTaken(x)'
  BY <1>1, <1>2, <1>4, HeardFrom, EntriesKept, TakenOnce DEF EntryOK
<1> QED
  BY <1>5, <1>6 DEF EntryOK

-----------------------------------------------------------------------------
(* A transaction that makes a worker leak a mutex waits for ever            *)

Waits(x) == x \in queued \/ \E h \in Running : h.op = "stuck" /\ h.tid = x

LEMMA WaitsFacts ==
    ASSUME ServerInv, NEW x \in Tids, Waits(x)
    PROVE  \A h \in Running : h.tid = x => h.op = "stuck"
<1>1. ASSUME x \in queued, NEW h \in Running PROVE h.tid # x
  BY <1>1, TaskFacts DEF Serves
<1>2. ASSUME NEW g \in Running, g.op = "stuck", g.tid = x, NEW h \in Running, h.tid = x
      PROVE  h.op = "stuck"
  BY <1>2, TaskUnique
<1> QED
  BY <1>1, <1>2 DEF Waits

LEMMA WaitsKept ==
    ASSUME ServerInv, [ServerNext]_allVars, NEW x \in Tids, Waits(x),
           call[x].type \in {"TP1C", "TP2C"}, Mutexes(call[x].type) \cap leaked # {}
    PROVE  Waits(x)' /\ call'[x] = call[x]
<1>1. ASSUME NEW th \in Threads, getEvent(th) PROVE Waits(x)' /\ call'[x] = call[x]
  <2>1. PICK y \in Tids :
            \/ getRead(th, y) \/ getUnknown(th, y)
            \/ getWrite(th, y) \/ getP1C(th, y) \/ getP2C(th, y) \/ getStuck(th, y)
    BY <1>1 DEF getEvent
  <2>2. UNCHANGED call
    BY <2>1 DEF getRead, getUnknown, getWrite, getP1C, getP2C, getStuck, Dispatch
  <2>3. CASE getUnknown(th, y)
    <3>1. Running' = Running /\ UNCHANGED queued
      BY <2>3, SameRunning DEF getUnknown
    <3> QED
      BY <2>2, <3>1 DEF Waits
  <2>4. CASE getRead(th, y)
    <3>1. queued' = queued \ {y} /\ call[y].type = "TREAD"
      BY <2>4 DEF getRead, Dispatch, Takes
    <3>2. Running' = Running
      BY <2>4, GetReadEffect
    <3> QED
      BY <2>2, <3>1, <3>2 DEF Waits
  <2>5. CASE getWrite(th, y) \/ getP1C(th, y) \/ getP2C(th, y) \/ getStuck(th, y)
    <3>1. Running \subseteq Running' /\ queued' = queued \ {y}
      BY <2>5, TaskTaken
    <3>2. CASE x # y
      BY <2>2, <3>1, <3>2 DEF Waits
    <3>3. ASSUME x = y PROVE getStuck(th, x)
      <4>1. ~getWrite(th, x)
        BY DEF getWrite, Takes
      <4>2. ~getP1C(th, x)
        BY DEF getP1C, Takes
      <4>3. ~getP2C(th, x)
        BY DEF getP2C, Takes
      <4> QED
        BY <2>5, <3>3, <4>1, <4>2, <4>3
    <3>4. CASE x = y
      <4>1. getStuck(th, x)
        BY <3>3, <3>4
      <4>2. PICK h \in Handler : h.op = "stuck" /\ h.tid = x /\ Running' = Running \cup {h}
        BY <4>1, TaskTaken
      <4> QED
        BY <2>2, <4>2 DEF Waits
    <3> QED
      BY <3>2, <3>4
  <2> QED
    BY <2>1, <2>3, <2>4, <2>5
<1>2. ASSUME NEW th \in Threads, Worker(th), ~getEvent(th) PROVE Waits(x)' /\ call'[x] = call[x]
  <2>1. WorkQuiet
    BY <1>2, WorkIsQuiet
  <2>2. Waits(x)'
    BY <2>1 DEF WorkQuiet, Waits
  <2>3. call'[x] = call[x]
    BY <1>2, WorkerReplies, WaitsFacts
  <2> QED
    BY <2>2, <2>3
<1>3. ASSUME NEW y \in Tids, ClientStep(y) PROVE Waits(x)' /\ call'[x] = call[x]
  <2>1. Running' = Running
    BY <1>3, ClientEffect
  <2>2. CASE x # y
    BY <1>3, <2>1, <2>2, ClientCases DEF Only, Waits
  <2>3. CASE x = y
    <3>1. call[x] # NoCall
      BY NoCallType
    <3>2. ~ReadSent(x) /\ ~WriteSent(x) /\ ~FirstSent(x) /\ ~SecondSent(x) /\ ~Lost(x)
      BY <3>1 DEF ReadSent, WriteSent, FirstSent, SecondSent, Lost
    <3> QED
      BY <1>3, <2>3, <3>2, ClientCases
  <2> QED
    BY <2>2, <2>3
<1>4. ASSUME UNCHANGED allVars PROVE Waits(x)' /\ call'[x] = call[x]
  <2>1. Running' = Running /\ UNCHANGED <<queued, call>>
    BY <1>4, SameRunning DEF allVars, clientVars, serverVars
  <2> QED
    BY <2>1 DEF Waits
<1> QED
  BY <1>1, <1>2, <1>3, <1>4 DEF ServerNext

\* The server has nothing of a transaction that waits for its commit for ever.
FirstLost(x)  == call[x].type = "TP1C" /\ ~HasWrite(x) /\ Waits(x)
SecondLost(x) == call[x].type = "TP2C" /\ ~Heard(x) /\ Waits(x)

LeakOK ==
    /\ "_tid_write_mutex" \in leaked => \E x \in Lossy : FirstLost(x)
    /\ "_tid_mutex" \in leaked => \E x \in Lossy : SecondLost(x)

LeakInv == LeakOK /\ \A x \in Tids : EntryOK(x)

LEMMA LostKept ==
    ASSUME ServerInv, [ServerNext]_allVars, NEW x \in Tids
    PROVE  /\ "_tid_write_mutex" \in leaked /\ FirstLost(x) => FirstLost(x)'
           /\ "_tid_mutex" \in leaked /\ SecondLost(x) => SecondLost(x)'
<1>1. ASSUME "_tid_write_mutex" \in leaked, FirstLost(x) PROVE FirstLost(x)'
  <2>1. "_tid_write_mutex" \in Mutexes(call[x].type)
    BY <1>1 DEF FirstLost, Mutexes
  <2>2. Waits(x)' /\ call'[x] = call[x]
    BY <1>1, <2>1, WaitsKept DEF FirstLost
  <2>3. \A th \in Threads : ~getWrite(th, x)
    BY <1>1 DEF FirstLost, getWrite, Takes
  <2> QED
    BY <1>1, <2>2, <2>3, HeardFrom DEF FirstLost
<1>2. ASSUME "_tid_mutex" \in leaked, SecondLost(x) PROVE SecondLost(x)'
  <2>1. "_tid_mutex" \in Mutexes(call[x].type)
    BY <1>2 DEF SecondLost, Mutexes
  <2>2. Waits(x)' /\ call'[x] = call[x]
    BY <1>2, <2>1, WaitsKept DEF SecondLost
  <2>3. \A th \in Threads : ~getWrite(th, x) /\ ~getRead(th, x)
    BY <1>2 DEF SecondLost, getWrite, getRead, Takes
  <2> QED
    BY <1>2, <2>2, <2>3, HeardFrom DEF SecondLost
<1> QED
  BY <1>1, <1>2

\* Only a transaction that lost a request is unknown when it commits.
LEMMA UnknownLost ==
    ASSUME ServerInv, CommitInv, LeakInv, NEW th \in Threads, NEW x \in Tids, getUnknown(th, x)
    PROVE  /\ x \in Lossy
           /\ \/ FirstLost(x)' /\ leaked' = leaked \cup {"_tid_write_mutex"}
              \/ SecondLost(x)' /\ leaked' = leaked \cup {"_tid_mutex"}
<1>1. x \in queued /\ UNCHANGED <<stack, queued, call, pend_writes, read_ts>>
  BY DEF getUnknown, Takes, dataVars, eventVars
<1>2. Waits(x)' /\ (HasWrite(x)' <=> HasWrite(x)) /\ (Heard(x)' <=> Heard(x))
  BY <1>1, SameRunning DEF Waits, HasWrite, Heard, NoWrite
<1>3. EntryOK(x) /\ SentOK(x) /\ (x \notin Lossy => HeardOK(x))
  BY DEF LeakInv, CommitInv, CommitOK
<1>4. ASSUME x \notin Lossy, call[x].type \in {"TP1C", "TP2C"}
      PROVE  /\ written[x] # {} => HasWrite(x)
             /\ asked[x] # {} => Heard(x)
  <2>1. /\ \A k : /\ call[x] # [type |-> "TWRITE", key |-> k]
                  /\ call[x] # [type |-> "TREAD", key |-> k]
        /\ call[x] # NoCall
    BY <1>4, NoCallType
  <2>2. ~Client!Returned(x)
    BY <2>1 DEF Client!Returned, Client!Idle, NoCall
  <2>3. \A k \in written[x] : k \in Pending(x)
    BY <1>3, <1>4, <2>1, <2>2 DEF HeardOK
  <2>4. Pending(x) # {} => HasWrite(x)
    BY DEF Pending, HasWrite, NoWrite
  <2>5. \A k \in asked[x] : k \in Keys /\ read_ts[<<x, k>>] # 0
    BY <1>3, <1>4, <2>1 DEF HeardOK, ServerInv, ClientTypeOK
  <2> QED
    BY <2>3, <2>4, <2>5 DEF Heard
<1>5. CASE call[x].type = "TP1C" /\ x \notin tid_to_write_nodes
           /\ leaked' = leaked \cup {"_tid_write_mutex"}
  <2>1. ~HasWrite(x)
    BY <1>1, <1>3, <1>5 DEF EntryOK, FirstTaken
  <2>2. x \in Lossy
    BY <1>3, <1>4, <1>5, <2>1 DEF SentOK
  <2> QED
    BY <1>1, <1>2, <1>5, <2>1, <2>2 DEF FirstLost
<1>6. CASE call[x].type = "TP2C" /\ x \notin tid_to_nodes
           /\ leaked' = leaked \cup {"_tid_mutex"}
  <2>1. ~Heard(x)
    BY <1>1, <1>3, <1>6 DEF EntryOK, SecondTaken
  <2>2. x \in Lossy
    BY <1>3, <1>4, <1>6, <2>1 DEF SentOK, Heard
  <2> QED
    BY <1>1, <1>2, <1>6, <2>1, <2>2 DEF SecondLost
<1> QED
  BY <1>5, <1>6 DEF getUnknown, Takes

LEMMA LeakStep ==
    ASSUME ServerInv, CommitInv, LeakInv, [ServerNext]_allVars
    PROVE  LeakInv'
<1>1. \A x \in Tids : EntryOK(x)'
  BY EntryStep DEF LeakInv
<1>2. Lossy \subseteq Tids
  BY ServerAssumption
<1>3. /\ "_tid_write_mutex" \in leaked => \E x \in Lossy : FirstLost(x)'
      /\ "_tid_mutex" \in leaked => \E x \in Lossy : SecondLost(x)'
  BY <1>2, LostKept DEF LeakInv, LeakOK
<1>4. ASSUME NEW th \in Threads, NEW x \in Tids, getUnknown(th, x) PROVE LeakOK'
  BY <1>3, <1>4, UnknownLost DEF LeakOK
<1>5. ASSUME NEW th \in Threads, getEvent(th), \A x \in Tids : ~getUnknown(th, x)
      PROVE  UNCHANGED leaked
  BY <1>5 DEF getEvent, getRead, getWrite, getP1C, getP2C, getStuck, Dispatch
<1>6. ASSUME NEW th \in Threads, Worker(th), ~getEvent(th) PROVE UNCHANGED leaked
  BY <1>6, WorkIsQuiet DEF WorkQuiet, nodeVars
<1>7. ASSUME NEW x \in Tids, ClientStep(x) PROVE UNCHANGED leaked
  BY <1>7, ClientEffect DEF serverVars, nodeVars
<1>8. ASSUME UNCHANGED allVars PROVE UNCHANGED leaked
  BY <1>8 DEF allVars, serverVars, nodeVars
<1>9. UNCHANGED leaked => LeakOK'
  BY <1>3 DEF LeakOK
<1>10. LeakOK'
  BY <1>4, <1>5, <1>6, <1>7, <1>8, <1>9 DEF ServerNext
<1> QED
  BY <1>1, <1>10 DEF LeakInv

LEMMA LeakInitial == ServerInit => LeakInv
<1> SUFFICES ASSUME ServerInit PROVE LeakInv
  OBVIOUS
<1>1. /\ pend_writes = [x \in Tids |-> <<>>] /\ leaked = {}
      /\ read_ts = [e \in Request |-> 0] /\ stack = [th \in Threads |-> <<>>]
  BY DEF ServerInit
<1>2. Running = {}
  BY <1>1, ServerInitial, IdleStack DEF Running, ServerInv
<1>3. \A x \in Tids : ~HasWrite(x) /\ ~Heard(x)
  BY <1>1, <1>2 DEF HasWrite, Heard, NoWrite, Request
<1> QED
  BY <1>1, <1>3 DEF LeakInv, LeakOK, EntryOK

\* getEvent returns with _tid_mutex or _tid_write_mutex locked only because of a
\* commit of a transaction that lost requests, and every write of it, or every read
\* and write: the entry that getEvent makes for a request lasts until the phase
\* that takes it out, whatever the other workers do.
THEOREM LeaksNeedLoss == ServerSpec => []LeaksOnlyAfterLoss
<1>1. ServerInit => ServerInv /\ CommitInv /\ LeakInv
  BY ServerInitial, CommitInitial, LeakInitial
<1>2. ServerInv /\ CommitInv /\ LeakInv /\ [ServerNext]_allVars
          => (ServerInv /\ CommitInv /\ LeakInv)'
  BY ServerStep, CommitStep, LeakStep
<1>3. LeakInv => LeaksOnlyAfterLoss
  BY DEF LeakInv, LeakOK, LeaksOnlyAfterLoss, FirstLost, SecondLost, HasWrite, Heard, Unheard
<1> QED
  BY <1>1, <1>2, <1>3, PTL DEF ServerSpec

-----------------------------------------------------------------------------
(* The outcome of a transaction                                             *)

\* A step of the client of x, or of the task that prepares x.
Undecided(x) ==
    \/ x \in queued
    \/ call[x] = NoCall /\ stage[x] # "end"
    \/ \E h \in Running : h.op \in {"p1c", "refused"} /\ h.tid = x

LEMMA VoteStep ==
    ASSUME ServerInv, [ServerNext]_allVars, NEW x \in Tids
    PROVE  \/ vote'[x] = vote[x] /\ stage'[x] = stage[x]
           \/ /\ Undecided(x)
              /\ stage[x] = "end" => stage'[x] = "end"
              /\ stage[x] = "running" => stage'[x] # "end"
              /\ stage[x] # "running" => (vote'[x] => vote[x])
<1>1. stage[x] \in {"running", "commit", "abort", "end"} /\ vote \in [Tids -> BOOLEAN]
  BY DEF ServerInv, ClientTypeOK
<1>2. ASSUME NEW th \in Threads, p1cVote(th)
      PROVE  \/ vote'[x] = vote[x] /\ stage'[x] = stage[x]
             \/ Undecided(x) /\ (vote'[x] => vote[x]) /\ stage'[x] = stage[x]
  <2>1. PICK h \in Running :
            /\ h.op \in {"p1c", "refused"}
            /\ vote'[h.tid] = (vote[h.tid] /\ h.op = "p1c")
            /\ \A y \in Tids \ {h.tid} : vote'[y] = vote[y]
            /\ UNCHANGED stage
    BY <1>2, VoteEffect DEF Answered, progVars
  <2> QED
    BY <1>1, <2>1, TaskFacts DEF Undecided
<1>3. ASSUME NEW th \in Threads, NEW y \in Tids, getUnknown(th, y)
      PROVE  \/ vote'[x] = vote[x] /\ stage'[x] = stage[x]
             \/ Undecided(x) /\ (vote'[x] => vote[x]) /\ stage'[x] = stage[x]
  <2>1. /\ y \in queued /\ UNCHANGED stage
        /\ \/ UNCHANGED vote
           \/ \E b \in BOOLEAN : vote' = [vote EXCEPT ![y] = @ /\ b]
    BY <1>3 DEF getUnknown, Takes, progVars
  <2> QED
    BY <1>1, <2>1 DEF Undecided
<1>4. ASSUME NEW th \in Threads, Worker(th), ~p1cVote(th), \A y \in Tids : ~getUnknown(th, y)
      PROVE  UNCHANGED <<vote, stage>>
  <2>1. CASE getEvent(th)
    BY <1>4, <2>1 DEF getEvent, getRead, getWrite, getP1C, getP2C, getStuck, Dispatch, progVars
  <2>2. CASE ~getEvent(th)
    BY <1>4, <2>2 DEF Worker, readLock, readValue, readExit, writeRun, p1cLock, p2cStart, p2cLocks,
          p2cWake, p2cFinalize, sendReply, clientVars, progVars
  <2> QED
    BY <2>1, <2>2
<1>5. ASSUME NEW y \in Tids, ClientStep(y)
      PROVE  \/ vote'[x] = vote[x] /\ stage'[x] = stage[x]
             \/ /\ Undecided(x) /\ stage[x] # "end"
                /\ stage[x] = "running" => stage'[x] # "end"
                /\ stage[x] # "running" => (vote'[x] => vote[x])
  <2>1. CASE x # y
    BY <1>5, <2>1, ClientCases DEF Only
  <2>2. CASE x = y
    BY <1>5, <2>2, ClientCases DEF ReadSent, WriteSent, FirstSent, SecondSent, Lost, Undecided
  <2> QED
    BY <2>1, <2>2
<1>6. CASE UNCHANGED allVars
  BY <1>6 DEF allVars, clientVars, progVars
<1> QED
  BY <1>2, <1>3, <1>4, <1>5, <1>6 DEF ServerNext

\* The second phase of a transaction does not change the outcome it carries out.
LEMMA FateKept ==
    ASSUME ServerInv, [ServerNext]_allVars, NEW h \in Running, h.op = "locks"
    PROVE  vote'[h.tid] = vote[h.tid] /\ stage'[h.tid] = stage[h.tid]
<1>1. h.tid \in Tids /\ Serves(h) /\ StageOK(h.tid)
  BY TaskFacts
<1>2. ~Undecided(h.tid)
  BY <1>1, TaskUnique DEF Undecided, Serves
<1> QED
  BY <1>1, <1>2, VoteStep

\* An abort is for ever.
LEMMA AbortedStays ==
    ASSUME ServerInv, [ServerNext]_allVars, NEW x \in Tids, Aborted(x)
    PROVE  Aborted(x)'
BY VoteStep DEF Aborted

\* So is the outcome of commit() or abort() that returned.
LEMMA OutcomeKept ==
    ASSUME ServerInv, [ServerNext]_allVars, NEW x \in Tids, Client!Returned(x)
    PROVE  vote'[x] = vote[x] /\ stage'[x] = stage[x]
<1>1. stage[x] = "end" /\ call[x] = NoCall
  BY DEF Client!Returned, Client!Idle, NoCall
<1>2. ~Undecided(x)
  BY <1>1, TaskFacts DEF Undecided, Serves, ServerInv, Discipline, StagesOK, StageOK
<1> QED
  BY <1>2, VoteStep

-----------------------------------------------------------------------------
(* What a step does to the lock of a key at a time                          *)

RootKept(k, t) == SameAt(root[k], root'[k], t)

ReadTaken(k, t) ==
    /\ StatusAt(root[k], t) \in {"FREE", "READ_LOCK"}
    /\ StatusAt(root'[k], t) = "READ_LOCK"

\* The first phase of a transaction takes the lock of its next write.
WriteTaken(x, k, t) ==
    /\ StatusAt(root[k], t) = "FREE" /\ StatusAt(root'[k], t) = "WRITE_LOCK"
    /\ TidsAt(root'[k], t) = TidsAt(root[k], t) \cup {x}
    /\ t = start_ts[x] /\ k \in Pending(x)
    /\ \E h \in Running : h.tid = x /\ h.op = "p1c"
    /\ \E g \in Running' : g.tid = x /\ g.op = "p1c"

\* freeze or unlock of x visits the key.
FrozenBy(th, k, t) ==
    /\ pc[th] = "freeze" /\ arg[th] \in TidsAt(root[k], t)
    /\ \/ StatusAt(root[k], t) = "READ_LOCK" /\ StatusAt(root'[k], t) = "FREEZE_READ_LOCK"
       \/ StatusAt(root[k], t) = "WRITE_LOCK" /\ StatusAt(root'[k], t) = "FREEZE_WRITE_LOCK"

FreedBy(th, k, t) ==
    /\ pc[th] = "unlock" /\ arg[th] \in TidsAt(root[k], t)
    /\ StatusAt(root[k], t) \in {"READ_LOCK", "WRITE_LOCK"} /\ StatusAt(root'[k], t) = "FREE"

RootChange(k, t) ==
    \/ RootKept(k, t)
    \/ ReadTaken(k, t)
    \/ \E x \in Tids : WriteTaken(x, k, t)
    \/ \E th \in Threads : FrozenBy(th, k, t) \/ FreedBy(th, k, t)

\* A table that is replaced at one key.
LEMMA RootAt ==
    ASSUME TableInv, NEW key \in Keys, NEW tbl, root' = [root EXCEPT ![key] = tbl],
           NEW k \in Keys, NEW t \in TS, RootChange(key, t)
    PROVE  RootChange(k, t)
<1>1. k # key => root'[k] = root[k]
  BY DEF TableInv, TypeOK
<1> QED
  BY <1>1 DEF RootChange, RootKept, SameAt

LEMMA RootReadLock ==
    ASSUME ServerInv, NEW th \in Threads, readLock(th), NEW k \in Keys, NEW t \in TS
    PROVE  RootChange(k, t)
<1>1. PICK h \in Reading :
          /\ h.tid \in Tids /\ h.key \in Keys /\ h.n - 1 \in Times
          /\ tryBackwardLock(h.key, h.tid, h.n - 1, TRUE)
  BY ReadLockEffect
<1>2. PICK key \in Keys, x \in Tids, ts \in Times : tryBackwardLock(key, x, ts, TRUE)
  BY <1>1
<1>3. PICK tbl : tbl = BackwardLock(root[key], x, ts, TRUE)
  OBVIOUS
<1>4. root' = [root EXCEPT ![key] = tbl] /\ root'[key] = tbl
  BY <1>2, <1>3 DEF tryBackwardLock, ServerInv, TableInv, TypeOK
<1>5. ts \in TS /\ GoodTable(root[key])
  BY TimesType, GoodTables DEF ServerInv
<1>6. PICK start : start = BackwardStart(root[key], ts, TRUE)
  OBVIOUS
<1>7. GrantOf(root[key], tbl, x, start, ts, TRUE) /\ start \in 1 .. ts + 1
  BY <1>3, <1>5, <1>6, BackwardLockEffect DEF BackwardEffect
<1>8. start \in Int /\ ts \in Int
  BY <1>5, <1>7, MaxTsAssumption DEF TS
<1>9. \/ SameAt(root[key], tbl, t)
      \/ /\ Lockable(StatusAt(root[key], t), TRUE)
         /\ StatusAt(tbl, t) = LockedStatus(TRUE)
  BY <1>5, <1>7, <1>8, GrantAt
<1>10. RootChange(key, t)
  BY <1>4, <1>9 DEF RootChange, RootKept, ReadTaken, Lockable, LockedStatus
<1> QED
  BY <1>4, <1>10, RootAt DEF ServerInv

\* A write lock that is granted changes one time, which was free.
LEMMA PointAt ==
    ASSUME NEW old, GoodTable(old), NEW x \in Tids, NEW ts \in TS,
           NEW tbl, PointEffect(old, tbl, x, ts, FALSE)
    PROVE  /\ StatusAt(old, ts) = "FREE" /\ StatusAt(tbl, ts) = "WRITE_LOCK"
           /\ TidsAt(tbl, ts) = TidsAt(old, ts) \cup {x}
           /\ \A t \in TS \ {ts} : SameAt(old, tbl, t)
<1>1. PICK mode \in BOOLEAN : mode = FALSE
  OBVIOUS
<1>2. /\ GrantOf(old, tbl, x, ts, ts, mode)
      /\ StatusAt(old, ts) = "FREE" /\ StatusAt(tbl, ts) = "WRITE_LOCK"
  BY <1>1 DEF PointEffect
<1>3. ts \in Int
  BY MaxTsAssumption DEF TS
<1>4. ASSUME NEW t \in TS
      PROVE  \/ SameAt(old, tbl, t)
             \/ /\ ts <= t /\ t <= ts /\ Lockable(StatusAt(old, t), mode)
                /\ StatusAt(tbl, t) = LockedStatus(mode)
                /\ TidsAt(tbl, t) = TidsAt(old, t) \cup {x}
  BY <1>2, <1>3, GrantAt
<1>5. \A t \in TS : ts <= t /\ t <= ts => t = ts
  BY MaxTsAssumption DEF TS
<1>6. ~SameAt(old, tbl, ts)
  BY <1>2 DEF SameAt
<1> QED
  BY <1>2, <1>4, <1>5, <1>6

\* The first phase asks for the lock of a write, and takes it if it is granted.
LEMMA LockTaken ==
    ASSUME ServerInv, NEW th \in Threads, p1cLock(th)
    PROVE  \E h \in Running, g \in Handler, x \in Tids, key \in Keys, ts \in TS :
              /\ h.op = "p1c" /\ h.tid = x /\ g.tid = x /\ g.op \in {"p1c", "refused"}
              /\ h.n + 1 \in 1 .. Len(pend_writes[x]) /\ key = pend_writes[x][h.n + 1]
              /\ Running' = (Running \ {h}) \cup {g} /\ Reading' \subseteq Reading
              /\ ts = start_ts[x]
              /\ g.op = "p1c" => g.n = h.n + 1 /\ WriteTaken(x, key, ts)
              /\ \A k \in Keys, t \in TS : RootKept(k, t) \/ WriteTaken(x, k, t)
              /\ UNCHANGED <<clientVars, eventVars, nodeVars, dataVars, crashed, reads>>
<1>1. PICK h \in Running, g \in Handler :
          LET n == h.n + 1
              key == pend_writes[h.tid][n]
          IN  /\ h.op = "p1c" /\ g.tid = h.tid
              /\ Running' = (Running \ {h}) \cup {g} /\ Reading' \subseteq Reading
              /\ n \in 1 .. Len(pend_writes[h.tid]) /\ key \in Keys
              /\ tryLock(key, h.tid, start_ts[h.tid], FALSE)
              /\ IF PointGranted(root[key], start_ts[h.tid], FALSE)
                 THEN g.op = "p1c" /\ g.n = n
                 ELSE g.op = "refused"
              /\ UNCHANGED <<clientVars, eventVars, nodeVars, dataVars, crashed, reads>>
  BY LockEffect
<1>2. PICK x \in Tids : x = h.tid
  BY TaskFacts
<1>3. PICK key \in Keys : /\ key = pend_writes[x][h.n + 1]
                          /\ key \in Pending(x)
                          /\ tryLock(key, x, start_ts[x], FALSE)
                          /\ IF PointGranted(root[key], start_ts[x], FALSE)
                             THEN g.op = "p1c" /\ g.n = h.n + 1
                             ELSE g.op = "refused"
  BY <1>1, <1>2 DEF Pending
<1>4. PICK ts \in TS : ts = start_ts[x]
  BY StartType DEF ServerInv
<1>5. GoodTable(root[key])
  BY GoodTables DEF ServerInv
<1>6. ASSUME ~PointGranted(root[key], ts, FALSE)
      PROVE  g.op = "refused" /\ \A k \in Keys, t \in TS : RootKept(k, t)
  BY <1>3, <1>4, <1>6 DEF tryLock, RootKept, SameAt
<1>7. ASSUME PointGranted(root[key], ts, FALSE)
      PROVE  /\ g.op = "p1c" /\ g.n = h.n + 1 /\ WriteTaken(x, key, ts)
             /\ \A k \in Keys, t \in TS : RootKept(k, t) \/ WriteTaken(x, k, t)
  <2>1. PICK old, tbl : old = root[key] /\ tbl = PointLock(old, x, ts, FALSE)
    OBVIOUS
  <2>2. root' = [root EXCEPT ![key] = tbl]
    BY <1>3, <1>4, <1>7, <2>1 DEF tryLock
  <2>3. root'[key] = tbl /\ \A k \in Keys \ {key} : root'[k] = root[k]
    BY <2>2 DEF ServerInv, TableInv, TypeOK
  <2>4. /\ StatusAt(old, ts) = "FREE" /\ StatusAt(tbl, ts) = "WRITE_LOCK"
        /\ TidsAt(tbl, ts) = TidsAt(old, ts) \cup {x}
        /\ \A t \in TS \ {ts} : SameAt(old, tbl, t)
    <3>1. GoodTable(old) /\ PointEffect(old, tbl, x, ts, FALSE)
      BY <1>5, <1>7, <2>1, PointLockEffect
    <3> QED
      BY <3>1, PointAt
  <2>5. g.op = "p1c" /\ g.n = h.n + 1
    BY <1>3, <1>4, <1>7
  <2>6. /\ h \in Running /\ h.tid = x /\ h.op = "p1c"
        /\ g.tid = x /\ g \in Running'
    BY <1>1, <1>2
  <2>7. WriteTaken(x, key, ts)
    BY <1>3, <1>4, <2>1, <2>3, <2>4, <2>5, <2>6 DEF WriteTaken
  <2>8. \A k \in Keys \ {key}, t \in TS : RootKept(k, t)
    BY <2>3 DEF RootKept, SameAt
  <2>9. \A t \in TS \ {ts} : RootKept(key, t)
    BY <2>1, <2>3, <2>4 DEF RootKept
  <2> QED
    BY <2>5, <2>7, <2>8, <2>9
<1>8. /\ h \in Running /\ g \in Handler /\ h.op = "p1c" /\ h.tid = x /\ g.tid = x
      /\ h.n + 1 \in 1 .. Len(pend_writes[x]) /\ key = pend_writes[x][h.n + 1]
      /\ Running' = (Running \ {h}) \cup {g} /\ Reading' \subseteq Reading
      /\ UNCHANGED <<clientVars, eventVars, nodeVars, dataVars, crashed, reads>>
  BY <1>1, <1>2, <1>3
<1>9. CASE PointGranted(root[key], ts, FALSE)
  BY <1>4, <1>7, <1>8, <1>9
<1>10. CASE ~PointGranted(root[key], ts, FALSE)
  BY <1>4, <1>6, <1>8, <1>10
<1> QED
  BY <1>9, <1>10

LEMMA RootWriteLock ==
    ASSUME ServerInv, NEW th \in Threads, p1cLock(th), NEW k \in Keys, NEW t \in TS
    PROVE  RootChange(k, t)
<1>1. PICK x \in Tids : RootKept(k, t) \/ WriteTaken(x, k, t)
  BY LockTaken
<1> QED
  BY <1>1 DEF RootChange

LEMMA RootFinish ==
    ASSUME ServerInv, NEW th \in Threads, NEW key \in Keys, freezeKey(th, key) \/ unlockKey(th, key),
           NEW k \in Keys, NEW t \in TS
    PROVE  RootChange(k, t)
<1>1. arg[th] \in Tids /\ GoodTable(root[key])
  BY GoodTables DEF ServerInv, TableInv, TypeOK
<1>2. PICK x \in Tids : x = arg[th]
  BY <1>1
<1>3. PICK i : i = intervals[arg[th]][key]
  OBVIOUS
<1>4. CASE UNCHANGED root
  BY <1>4 DEF RootChange, RootKept, SameAt
<1>5. CASE ~UNCHANGED root /\ freezeKey(th, key)
  <2>1. PICK tbl : tbl = FreezeNodes(root[key], x, i)
    OBVIOUS
  <2>2. pc[th] = "freeze" /\ root' = [root EXCEPT ![key] = tbl] /\ root'[key] = tbl
    BY <1>2, <1>3, <1>5, <2>1 DEF freezeKey, ServerInv, TableInv, TypeOK
  <2>3. RootChange(key, t)
    BY <1>1, <1>2, <1>3, <2>1, <2>2, FreezeAt DEF RootChange, RootKept, FrozenBy
  <2> QED
    BY <2>2, <2>3, RootAt DEF ServerInv
<1>6. CASE ~UNCHANGED root /\ unlockKey(th, key)
  <2>1. PICK tbl : tbl = UnlockNodes(root[key], x, i)
    OBVIOUS
  <2>2. pc[th] = "unlock" /\ root' = [root EXCEPT ![key] = tbl] /\ root'[key] = tbl
    BY <1>2, <1>3, <1>6, <2>1 DEF unlockKey, ServerInv, TableInv, TypeOK
  <2>3. RootChange(key, t)
    BY <1>1, <1>2, <1>3, <2>1, <2>2, UnlockAt DEF RootChange, RootKept, FreedBy
  <2> QED
    BY <2>2, <2>3, RootAt DEF ServerInv
<1> QED
  BY <1>4, <1>5, <1>6

\* Every step leaves a time as it is, or is one of four.
LEMMA RootStepAt ==
    ASSUME ServerInv, [ServerNext]_allVars, NEW k \in Keys, NEW t \in TS
    PROVE  RootChange(k, t)
<1>1. UNCHANGED root => RootChange(k, t)
  BY DEF RootChange, RootKept, SameAt
<1>2. ASSUME NEW th \in Threads, p2cLocks(th) PROVE RootChange(k, t)
  <2>1. CASE \E key \in Keys : freezeKey(th, key) \/ unlockKey(th, key)
    BY <2>1, RootFinish
  <2>2. CASE clearIntervals(th) \/ deleteTransactionInfo(th) \/ return(th)
    BY <1>1, <2>2 DEF clearIntervals, deleteTransactionInfo, return, tableVars
  <2> QED
    BY <1>2, <2>1, <2>2 DEF p2cLocks
<1>3. ASSUME NEW th \in Threads, Worker(th), ~readLock(th), ~p1cLock(th), ~p2cLocks(th)
      PROVE  UNCHANGED root
  <2>1. CASE getEvent(th)
    BY <2>1 DEF getEvent, getRead, getWrite, getP1C, getP2C, getUnknown, getStuck, Dispatch,
          vars, tableVars
  <2>2. CASE p2cStart(th) \/ p2cWake(th)
    BY <2>2, StartEffect, WakeEffect
  <2>3. CASE readValue(th) \/ readExit(th) \/ writeRun(th) \/ p1cVote(th) \/ p2cFinalize(th)
    BY <2>3 DEF readValue, readExit, writeRun, p1cVote, p2cFinalize, vars, tableVars
  <2> QED
    BY <1>3, <2>1, <2>2, <2>3 DEF Worker
<1>4. ASSUME NEW x \in Tids, ClientStep(x) PROVE UNCHANGED root
  BY <1>4 DEF ClientStep, vars, tableVars
<1>5. CASE UNCHANGED allVars
  BY <1>1, <1>5 DEF allVars, vars, tableVars
<1> QED
  BY <1>1, <1>2, <1>3, <1>4, <1>5, RootReadLock, RootWriteLock DEF ServerNext

-----------------------------------------------------------------------------
(* The second phase carries out the outcome its coordinator sent            *)

WalksOK ==
    \A th \in Threads :
        /\ pc[th] = "freeze" => vote[arg[th]]
        /\ pc[th] = "unlock" => Aborted(arg[th])

\* A thread in freeze or unlock runs the second phase of its transaction.
LEMMA WalkTask ==
    ASSUME ServerInv, NEW th \in Threads, pc[th] # "idle"
    PROVE  \E h \in Running : h.op = "locks" /\ h.tid = arg[th] /\ h \in Tasks(th)
BY DEF ServerInv, Discipline, CallersOK, Running

LEMMA WalksStep ==
    ASSUME ServerInv, WalksOK, [ServerNext]_allVars
    PROVE  WalksOK'
<1>1. ASSUME NEW th \in Threads, pc'[th] = pc[th], arg'[th] = arg[th]
      PROVE  /\ pc'[th] = "freeze" => vote'[arg'[th]]
             /\ pc'[th] = "unlock" => Aborted(arg[th])'
  <2>1. CASE pc[th] = "idle"
    BY <1>1, <2>1
  <2>2. CASE pc[th] # "idle"
    <3>1. PICK h \in Running : h.op = "locks" /\ h.tid = arg[th]
      BY <2>2, WalkTask
    <3>2. vote'[arg[th]] = vote[arg[th]] /\ stage'[arg[th]] = stage[arg[th]]
      BY <3>1, FateKept
    <3> QED
      BY <1>1, <3>2 DEF WalksOK, Aborted
  <2> QED
    BY <2>1, <2>2
<1>2. ASSUME NEW th \in Threads, p2cStart(th) PROVE WalksOK'
  <2>1. PICK h \in Running :
            /\ h.op = "p2c"
            /\ \A o \in Threads \ {th} : pc'[o] = pc[o] /\ arg'[o] = arg[o]
            /\ pc'[th] \in {"freeze", "unlock"} => arg'[th] = h.tid
            /\ pc'[th] = "freeze" => vote[h.tid]
            /\ pc'[th] = "unlock" => ~vote[h.tid]
            /\ UNCHANGED <<vote, stage>>
    BY <1>2, StartEffect DEF clientVars, progVars
  <2>2. stage[h.tid] = "end"
    BY <2>1, TaskFacts DEF Serves, StageOK
  <2>3. /\ pc'[th] = "freeze" => vote'[arg'[th]]
        /\ pc'[th] = "unlock" => stage'[arg'[th]] = "end" /\ ~vote'[arg'[th]]
    BY <2>1, <2>2
  <2>4. \A o \in Threads \ {th} :
            /\ pc'[o] = "freeze" => vote'[arg'[o]]
            /\ pc'[o] = "unlock" => stage'[arg'[o]] = "end" /\ ~vote'[arg'[o]]
    BY <2>1 DEF WalksOK, Aborted
  <2> QED
    BY <2>3, <2>4 DEF WalksOK, Aborted
<1>3. ASSUME NEW th \in Threads, p2cLocks(th), NEW o \in Threads
      PROVE  \/ pc'[o] = pc[o] /\ arg'[o] = arg[o]
             \/ pc'[o] \notin {"freeze", "unlock"}
  <2>1. /\ UNCHANGED arg
        /\ \/ UNCHANGED pc
           \/ \E step \in {"delete", "run", "idle"} : pc' = [pc EXCEPT ![th] = step]
    BY <1>3 DEF p2cLocks, freezeKey, unlockKey, clearIntervals, deleteTransactionInfo, return
  <2>2. pc \in [Threads -> {"idle", "freeze", "unlock", "delete", "run"}]
    BY DEF ServerInv, TableInv, TypeOK
  <2> QED
    BY <2>1, <2>2
<1>4. ASSUME NEW th \in Threads, Worker(th), ~p2cStart(th), ~p2cLocks(th)
      PROVE  UNCHANGED <<pc, arg>>
  <2>1. CASE getEvent(th)
    BY <2>1 DEF getEvent, getRead, getWrite, getP1C, getP2C, getUnknown, getStuck, Dispatch,
          vars, threadVars
  <2>2. CASE readLock(th)
    BY <2>2 DEF readLock, tryBackwardLock, threadVars
  <2>3. CASE p1cLock(th)
    BY <2>3 DEF p1cLock, tryLock, threadVars
  <2>4. CASE p2cWake(th)
    BY <2>4, WakeEffect
  <2>5. CASE readValue(th) \/ readExit(th) \/ writeRun(th) \/ p1cVote(th) \/ p2cFinalize(th)
    BY <2>5 DEF readValue, readExit, writeRun, p1cVote, p2cFinalize, vars, threadVars
  <2> QED
    BY <1>4, <2>1, <2>2, <2>3, <2>4, <2>5 DEF Worker
<1>5. ASSUME NEW x \in Tids, ClientStep(x) PROVE UNCHANGED <<pc, arg>>
  BY <1>5 DEF ClientStep, vars, threadVars
<1>6. CASE UNCHANGED allVars
  BY <1>1, <1>6 DEF WalksOK, allVars, vars, threadVars
<1>7. CASE UNCHANGED <<pc, arg>>
  BY <1>1, <1>7 DEF WalksOK
<1>8. ASSUME NEW th \in Threads, p2cLocks(th) PROVE WalksOK'
  <2> SUFFICES ASSUME NEW o \in Threads
               PROVE  /\ pc'[o] = "freeze" => vote'[arg'[o]]
                      /\ pc'[o] = "unlock" => Aborted(arg[o])'
    BY DEF WalksOK
  <2> QED
    BY <1>1, <1>3, <1>8
<1> QED
  BY <1>2, <1>4, <1>5, <1>6, <1>7, <1>8 DEF ServerNext

\* freeze or unlock was called for every transaction that has left its locks, and
\* this is not taken back.
LEMMA FinishedGrows ==
    ASSUME ServerInv, [ServerNext]_allVars
    PROVE  finished \subseteq finished'
<1>1. [Next]_vars
  BY UsesStep
<1>2. ASSUME NEW key \in Keys, NEW x \in Tids, Lock(key, x) PROVE UNCHANGED finished
  BY <1>2 DEF Lock, tryBackwardLock, tryLock
<1>3. ASSUME NEW th \in Threads, Finish(th) PROVE finished \subseteq finished'
  BY <1>3 DEF Finish, beginFreeze, beginUnlock, Begin, freezeKey, unlockKey, clearIntervals,
              deleteTransactionInfo, runEvent, return, historyVars
<1>4. CASE UNCHANGED vars
  BY <1>4 DEF vars, historyVars
<1> QED
  BY <1>1, <1>2, <1>3, <1>4 DEF Next

\* When freeze or unlock is over, its transaction has no write lock left.
LEMMA NoLockLeft ==
    ASSUME ServerInv, LockInv, NEW th \in Threads, NEW h \in Tasks(th), h.op = "locks",
           pc[th] = "idle", NEW k \in Keys, NEW t \in TS,
           StatusAt(root[k], t) = "WRITE_LOCK"
    PROVE  h.tid \notin TidsAt(root[k], t)
<1> SUFFICES ASSUME h.tid \in TidsAt(root[k], t) PROVE FALSE
  OBVIOUS
<1>1. PICK x : x = h.tid
  OBVIOUS
<1>2. x \in finished
  BY <1>1 DEF ServerInv, Discipline, TasksOK, Serves
<1>3. PICK s \in DOMAIN root[k] : root[k][s].status = "WRITE_LOCK" /\ x \in root[k][s].tids
  <2>1. StartOf(root[k], t) \in DOMAIN root[k]
    BY GoodTables, FindNode DEF LockInv
  <2> QED
    BY <1>1, <2>1 DEF StatusAt, TidsAt
<1>4. PICK o \in Threads : Walking(o) /\ arg[o] = x
  BY <1>2, <1>3 DEF LockInv, LocksRecorded, Late
<1>5. PICK g \in Tasks(o) : g.tid = x
  BY <1>4, WalkTask DEF Walking
<1>6. o = th
  BY <1>1, <1>5 DEF ServerInv, Discipline, OneTask
<1> QED
  BY <1>4, <1>6 DEF Walking

-----------------------------------------------------------------------------
(* What a step does to the tasks, the pending writes and the store          *)

\* Nothing but that tasks come, take the lock of a write, or go on to freeze and
\* unlock.
DataQuiet ==
    /\ UNCHANGED dataVars
    /\ \A h \in Running \ Running' :
          \/ h.op = "p2c"
          \/ h.op = "p1c" /\ \E g \in Running' : g.tid = h.tid /\ g.op \in {"p1c", "refused"}
    /\ \A g \in Running' \ Running :
          g.op = "p1c" /\ g.n # 0 =>
              \E h \in Running :
                  /\ h.op = "p1c" /\ h.tid = g.tid /\ g.n = h.n + 1
                  /\ WriteTaken(g.tid, pend_writes[g.tid][g.n], start_ts[g.tid])

DataWrite(h) ==
    /\ h.op = "write" /\ Running' = Running \ {h}
    /\ Pending(h.tid) \subseteq Pending(h.tid)'
    /\ \A y \in Tids \ {h.tid} : pend_writes'[y] = pend_writes[y]
    /\ UNCHANGED <<rdy_to_commit, store>>

DataVote(h) ==
    /\ \/ h.op = "p1c" /\ h.n = Len(pend_writes[h.tid])
       \/ h.op = "refused" /\ ~vote'[h.tid]
    /\ Running' = Running \ {h}
    /\ rdy_to_commit' = rdy_to_commit \cup {h.tid}
    /\ UNCHANGED <<pend_writes, store>>

DataFinalize(th, h) ==
    /\ h.op = "locks" /\ pc[th] = "idle" /\ Running' = Running \ {h}
    /\ call'[h.tid] = NoCall
    /\ rdy_to_commit' = rdy_to_commit \ {h.tid}
    /\ \A y \in Tids \ {h.tid} : pend_writes'[y] = pend_writes[y]
    /\ \A k \in Keys, t \in TS :
          store'[k][t] =
              IF /\ h.tid \in rdy_to_commit /\ vote[h.tid] /\ t = start_ts[h.tid]
                 /\ k \in Pending(h.tid)
              THEN h.tid
              ELSE store[k][t]

DataStep ==
    \/ DataQuiet
    \/ \E h \in Running : DataWrite(h) \/ DataVote(h)
    \/ \E th \in Threads : \E h \in Tasks(th) : DataFinalize(th, h)

LEMMA DataCases ==
    ASSUME ServerInv, [ServerNext]_allVars
    PROVE  DataStep
<1>1. ASSUME Running \subseteq Running', UNCHANGED dataVars,
             \A g \in Running' \ Running : g.op = "p1c" => g.n = 0
      PROVE  DataQuiet
  BY <1>1 DEF DataQuiet
<1>2. ASSUME NEW th \in Threads, getEvent(th) PROVE DataQuiet
  <2>1. PICK x \in Tids :
            \/ getRead(th, x) \/ getUnknown(th, x)
            \/ getWrite(th, x) \/ getP1C(th, x) \/ getP2C(th, x) \/ getStuck(th, x)
    BY <1>2 DEF getEvent
  <2>2. CASE getRead(th, x)
    BY <1>1, <2>2, GetReadEffect
  <2>3. CASE getUnknown(th, x)
    BY <1>1, <2>3, SameRunning DEF getUnknown
  <2>4. CASE getWrite(th, x) \/ getP1C(th, x) \/ getP2C(th, x) \/ getStuck(th, x)
    <3>1. PICK h \in Handler : /\ Running' = Running \cup {h} /\ UNCHANGED dataVars
                               /\ h.op = "p1c" => h.n = 0
      BY <2>4, GetTaskEffect
    <3> QED
      BY <1>1, <3>1
  <2> QED
    BY <2>1, <2>2, <2>3, <2>4
<1>3. ASSUME NEW th \in Threads, p1cLock(th) PROVE DataQuiet
  <2>1. PICK h \in Running, g \in Handler, x \in Tids, key \in Keys, ts \in TS :
            /\ h.op = "p1c" /\ h.tid = x /\ g.tid = x /\ g.op \in {"p1c", "refused"}
            /\ key = pend_writes[x][h.n + 1] /\ ts = start_ts[x]
            /\ Running' = (Running \ {h}) \cup {g}
            /\ g.op = "p1c" => g.n = h.n + 1 /\ WriteTaken(x, key, ts)
            /\ UNCHANGED dataVars
    BY <1>3, LockTaken
  <2> QED
    BY <2>1 DEF DataQuiet
<1>4. ASSUME NEW th \in Threads, p2cStart(th) PROVE DataQuiet
  <2>1. PICK h \in Running, g \in Handler :
            /\ h.op = "p2c" /\ g.op = "locks"
            /\ Running' = (Running \ {h}) \cup {g} /\ UNCHANGED dataVars
    BY <1>4, StartEffect
  <2> QED
    BY <2>1 DEF DataQuiet
<1>5. ASSUME NEW th \in Threads, readLock(th) \/ readValue(th) \/ p2cWake(th)
      PROVE  DataQuiet
  BY <1>1, <1>5, ReadLockEffect, ReadValueEffect, WakeEffect
<1>6. ASSUME NEW th \in Threads, readExit(th) \/ p2cLocks(th)
      PROVE  DataQuiet
  BY <1>1, <1>6, SameRunning DEF readExit, p2cLocks, serverVars
<1>7. ASSUME NEW th \in Threads, writeRun(th)
      PROVE  \E h \in Running : DataWrite(h)
  <2>1. PICK h \in Running :
              /\ h.op = "write" /\ Running' = Running \ {h}
              /\ pend_writes'[h.tid] = Append(pend_writes[h.tid], h.key)
              /\ \A y \in Tids \ {h.tid} : pend_writes'[y] = pend_writes[y]
              /\ UNCHANGED <<rdy_to_commit, store>>
    BY <1>7, WriteEffect
  <2>2. h.key \in Keys /\ pend_writes[h.tid] \in Seq(Keys)
    BY <2>1, TaskFacts DEF Serves, ServerInv, ServerTypeOK
  <2>3. PICK old, new : old = pend_writes[h.tid] /\ new = pend_writes'[h.tid]
    OBVIOUS
  <2>4. /\ Len(new) = Len(old) + 1 /\ Len(old) \in Nat
        /\ \A i \in 1 .. Len(old) : new[i] = old[i]
    BY <2>1, <2>2, <2>3, AppendProperties
  <2>5. Pending(h.tid) \subseteq Pending(h.tid)'
    BY <2>3, <2>4 DEF Pending
  <2> QED
    BY <2>1, <2>5 DEF DataWrite
<1>8. ASSUME NEW th \in Threads, p1cVote(th)
      PROVE  \E h \in Running : DataVote(h)
  BY <1>8, VoteEffect DEF DataVote
<1>9. ASSUME NEW th \in Threads, p2cFinalize(th)
      PROVE  \E h \in Tasks(th) : DataFinalize(th, h)
  <2>1. PICK h \in Running :
            /\ h.op = "locks" /\ Tasks(th) = {h} /\ pc[th] = "idle"
            /\ Running' = Running \ {h} /\ Answered(h.tid)
            /\ rdy_to_commit' = rdy_to_commit \ {h.tid}
            /\ \A y \in Tids \ {h.tid} : pend_writes'[y] = pend_writes[y]
            /\ \A k \in Keys, t \in TS :
                  store'[k][t] =
                      IF /\ h.tid \in rdy_to_commit /\ vote[h.tid] /\ t = start_ts[h.tid]
                         /\ \E i \in 1 .. Len(pend_writes[h.tid]) : pend_writes[h.tid][i] = k
                      THEN h.tid
                      ELSE store[k][t]
    BY <1>9, FinalizeEffect
  <2>2. \A k : k \in Pending(h.tid) <=>
                  \E i \in 1 .. Len(pend_writes[h.tid]) : pend_writes[h.tid][i] = k
    BY DEF Pending
  <2> QED
    BY <2>1, <2>2 DEF DataFinalize, Answered
<1>10. ASSUME NEW x \in Tids, ClientStep(x) PROVE DataQuiet
  BY <1>1, <1>10, ClientEffect DEF serverVars
<1>11. CASE UNCHANGED allVars
  BY <1>1, <1>11, SameRunning DEF allVars, serverVars, DataStep
<1>12. ASSUME NEW th \in Threads, Worker(th) PROVE DataStep
  BY <1>2, <1>3, <1>4, <1>5, <1>6, <1>7, <1>8, <1>9, <1>12 DEF Worker, DataStep
<1> QED
  BY <1>10, <1>11, <1>12 DEF ServerNext, DataStep

\* A transaction keeps its timestamp.
LEMMA StartKept ==
    ASSUME ServerInv, [ServerNext]_allVars
    PROVE  UNCHANGED start_ts
<1>1. ASSUME NEW th \in Threads, Worker(th) PROVE UNCHANGED start_ts
  <2>1. CASE getEvent(th)
    BY <2>1 DEF getEvent, getRead, getWrite, getP1C, getP2C, getUnknown, getStuck, Dispatch, progVars
  <2>2. CASE ~getEvent(th)
    BY <1>1, <2>2 DEF Worker, readLock, readValue, readExit, writeRun, p1cLock, p1cVote, p2cStart,
          p2cLocks, p2cWake, p2cFinalize, sendReply, clientVars, progVars
  <2> QED
    BY <2>1, <2>2
<1>2. ASSUME NEW x \in Tids, ClientStep(x) PROVE UNCHANGED start_ts
  BY <1>2, ClientEffect
<1>3. CASE UNCHANGED allVars
  BY <1>3 DEF allVars, clientVars, progVars
<1> QED
  BY <1>1, <1>2, <1>3 DEF ServerNext

-----------------------------------------------------------------------------
(* The locks of the writes                                                  *)

\* The first phase has taken the lock of write k of x, and the second phase has
\* not installed it, nor will it drop it.
Holds(x, k) ==
    \/ \E h \in Running :
          h.op = "p1c" /\ h.tid = x /\ \E j \in 1 .. h.n : pend_writes[x][j] = k
    \/ x \in rdy_to_commit /\ vote[x] /\ k \in Pending(x)

\* x is being prepared, or is.
Prepares(x) ==
    \/ x \in rdy_to_commit
    \/ \E h \in Running : h.op \in {"p1c", "refused"} /\ h.tid = x

\* The second phase of x is over but for finalize.
Finalizing(x) ==
    \E th \in Threads : \E h \in Tasks(th) :
        h.op = "locks" /\ h.tid = x /\ pc[th] = "idle"

\* Finalize of x writes the version of k at t.
Installs(x, k, t) ==
    /\ x \in rdy_to_commit /\ vote[x] /\ t = start_ts[x] /\ k \in Pending(x)
    /\ Finalizing(x) /\ store'[k][t] = x /\ ~Holds(x, k)' /\ call'[x] = NoCall

\* A transaction comes to hold a lock only by taking it.
LEMMA HoldsStep ==
    ASSUME ServerInv, CommitInv, [ServerNext]_allVars, NEW x \in Tids, NEW k \in Keys, Holds(x, k)'
    PROVE  Holds(x, k) \/ WriteTaken(x, k, start_ts[x])
<1>1. x \in rdy_to_commit /\ vote'[x] => vote[x]
  <2>1. x \in rdy_to_commit => stage[x] # "running"
    BY DEF CommitInv, CommitOK, PreparedOK
  <2> QED
    BY <2>1, VoteStep
<1>2. CASE DataQuiet
  <2>1. UNCHANGED <<pend_writes, rdy_to_commit>> /\ Pending(x)' = Pending(x)
    BY <1>2 DEF DataQuiet, dataVars, Pending
  <2>2. CASE x \in rdy_to_commit' /\ vote'[x] /\ k \in Pending(x)'
    BY <1>1, <2>1, <2>2 DEF Holds
  <2>3. ASSUME NEW g \in Running', g.op = "p1c", g.tid = x,
               NEW j \in 1 .. g.n, pend_writes'[x][j] = k
        PROVE  Holds(x, k) \/ WriteTaken(x, k, start_ts[x])
    <3>1. CASE g \in Running
      BY <2>1, <2>3, <3>1 DEF Holds
    <3>2. CASE g \notin Running
      <4>1. g.n # 0
        BY <2>3
      <4>2. PICK h \in Running :
                /\ h.op = "p1c" /\ h.tid = x /\ g.n = h.n + 1
                /\ WriteTaken(x, pend_writes[x][g.n], start_ts[x])
        BY <1>2, <2>3, <3>2, <4>1 DEF DataQuiet
      <4>3. j \in 1 .. h.n \/ j = g.n
        BY <2>3, <4>2, TaskFacts
      <4> QED
        BY <2>1, <2>3, <4>2, <4>3 DEF Holds
    <3> QED
      BY <3>1, <3>2
  <2> QED
    BY <2>2, <2>3 DEF Holds
<1>3. ASSUME NEW h \in Running, DataWrite(h) PROVE Holds(x, k)
  <2>1. CASE h.tid # x
    <3>1. pend_writes'[x] = pend_writes[x] /\ Pending(x)' = Pending(x)
      BY <1>3, <2>1 DEF DataWrite, Pending
    <3> QED
      BY <1>1, <1>3, <3>1 DEF Holds, DataWrite
  <2>2. CASE h.tid = x
    <3>1. stage[x] = "running"
      <4>1. h.op = "write"
        BY <1>3 DEF DataWrite
      <4>2. call[x] = [type |-> "TWRITE", key |-> h.key] /\ StageOK(x)
        BY <2>2, <4>1, TaskFacts DEF Serves
      <4>3. call[x].type = "TWRITE"
        BY <4>2
      <4> QED
        BY <4>2, <4>3 DEF StageOK
    <3>2. x \notin rdy_to_commit
      BY <3>1 DEF CommitInv, CommitOK, PreparedOK
    <3>3. \A g \in Running : g.tid = x => g.op # "p1c"
      BY <1>3, <2>2, TaskUnique DEF DataWrite
    <3> QED
      BY <1>3, <3>2, <3>3 DEF Holds, DataWrite
  <2> QED
    BY <2>1, <2>2
<1>4. ASSUME NEW h \in Running, DataVote(h) PROVE Holds(x, k)
  <2>1. UNCHANGED pend_writes /\ Pending(x)' = Pending(x)
    BY <1>4 DEF DataVote, Pending
  <2>2. ASSUME NEW g \in Running', g.op = "p1c", g.tid = x,
               NEW j \in 1 .. g.n, pend_writes'[x][j] = k
        PROVE  Holds(x, k)
    BY <1>4, <2>1, <2>2 DEF Holds, DataVote
  <2>3. CASE x \in rdy_to_commit' /\ vote'[x] /\ k \in Pending(x)'
    <3>1. CASE x \in rdy_to_commit
      BY <1>1, <2>1, <2>3, <3>1 DEF Holds
    <3>2. CASE x \notin rdy_to_commit
      <4>1. h.tid = x /\ h.op = "p1c" /\ h.n = Len(pend_writes[x])
        BY <1>4, <2>3, <3>2 DEF DataVote
      <4>2. k \in Pending(x)
        BY <2>1, <2>3
      <4>3. \E j \in 1 .. h.n : pend_writes[x][j] = k
        BY <4>1, <4>2 DEF Pending
      <4> QED
        BY <4>1, <4>3 DEF Holds
    <3> QED
      BY <3>1, <3>2
  <2> QED
    BY <2>2, <2>3 DEF Holds
<1>5. ASSUME NEW th \in Threads, NEW h \in Tasks(th), DataFinalize(th, h) PROVE Holds(x, k)
  <2>1. h \in Running
    BY DEF Running
  <2>2. CASE h.tid # x
    <3>1. /\ pend_writes'[x] = pend_writes[x] /\ Pending(x)' = Pending(x)
          /\ x \in rdy_to_commit' => x \in rdy_to_commit
          /\ Running' \subseteq Running
      BY <1>5, <2>2 DEF DataFinalize, Pending
    <3> QED
      BY <1>1, <3>1 DEF Holds
  <2>3. CASE h.tid = x
    <3>1. \A g \in Running : g.tid = x => g.op # "p1c"
      BY <1>5, <2>1, <2>3, TaskUnique DEF DataFinalize
    <3> QED
      BY <1>5, <2>3, <3>1 DEF Holds, DataFinalize
  <2> QED
    BY <2>2, <2>3
<1> QED
  BY <1>2, <1>3, <1>4, <1>5, DataCases DEF DataStep

\* What changes in the store is what finalize installs.
LEMMA StoreStep ==
    ASSUME ServerInv, [ServerNext]_allVars, NEW k \in Keys, NEW t \in TS
    PROVE  store'[k][t] = store[k][t] \/ \E x \in Tids : Installs(x, k, t)
<1>1. ASSUME NEW th \in Threads, NEW h \in Tasks(th), DataFinalize(th, h)
      PROVE  store'[k][t] = store[k][t] \/ \E x \in Tids : Installs(x, k, t)
  <2>1. h \in Running
    BY DEF Running
  <2>2. PICK x \in Tids : x = h.tid
    BY <2>1, TaskFacts
  <2>3. \A g \in Running : g.tid = x => g.op # "p1c"
    BY <1>1, <2>1, <2>2, TaskUnique DEF DataFinalize
  <2>4. ~Holds(x, k)'
    BY <1>1, <2>2, <2>3 DEF Holds, DataFinalize
  <2>5. Finalizing(x) /\ call'[x] = NoCall
    BY <1>1, <2>2 DEF Finalizing, DataFinalize
  <2> QED
    BY <1>1, <2>2, <2>4, <2>5 DEF DataFinalize, Installs
<1>2. CASE DataQuiet
  BY <1>2 DEF DataQuiet, dataVars
<1>3. ASSUME NEW h \in Running, DataWrite(h) \/ DataVote(h) PROVE UNCHANGED store
  BY <1>3 DEF DataWrite, DataVote
<1> QED
  BY <1>1, <1>2, <1>3, DataCases DEF DataStep

\* A transaction stays prepared, with its writes pending, up to finalize.
LEMMA PreparedKept ==
    ASSUME ServerInv, [ServerNext]_allVars, NEW x \in Tids, Prepares(x), ~Finalizing(x)
    PROVE  Prepares(x)' /\ Pending(x) \subseteq Pending(x)'
<1>1. CASE DataQuiet
  BY <1>1 DEF DataQuiet, dataVars, Prepares, Pending
<1>2. ASSUME NEW h \in Running, DataWrite(h)
      PROVE  Prepares(x)' /\ Pending(x) \subseteq Pending(x)'
  <2>1. Pending(x) \subseteq Pending(x)'
    <3>1. CASE h.tid = x
      BY <1>2, <3>1 DEF DataWrite
    <3>2. CASE h.tid # x
      BY <1>2, <3>2 DEF DataWrite, Pending
    <3> QED
      BY <3>1, <3>2
  <2> QED
    BY <1>2, <2>1 DEF DataWrite, Prepares
<1>3. ASSUME NEW h \in Running, DataVote(h)
      PROVE  Prepares(x)' /\ Pending(x) \subseteq Pending(x)'
  BY <1>3 DEF DataVote, Prepares, Pending
<1>4. ASSUME NEW th \in Threads, NEW h \in Tasks(th), DataFinalize(th, h)
      PROVE  Prepares(x)' /\ Pending(x) \subseteq Pending(x)'
  <2>1. h.tid # x
    BY <1>4 DEF DataFinalize, Finalizing
  <2> QED
    BY <1>4, <2>1 DEF DataFinalize, Prepares, Pending
<1> QED
  BY <1>1, <1>2, <1>3, <1>4, DataCases DEF DataStep

-----------------------------------------------------------------------------
(* The lock manager and the store agree                                     *)

\* The lock of a write: still a lock of x alone, or frozen by the second phase.
LockOf(x, k) ==
    LET t == start_ts[x]
    IN  \/ StatusAt(root[k], t) = "WRITE_LOCK" /\ TidsAt(root[k], t) = {x}
        \/ StatusAt(root[k], t) = "FREEZE_WRITE_LOCK" /\ x \in finished

HeldLocked ==
    \A x \in Tids, k \in Keys :
        Holds(x, k) => LockOf(x, k) /\ store[k][start_ts[x]] = NoVersion

\* Two transactions with one timestamp do not hold the same lock.
HeldAlone ==
    \A x, y \in Tids, k \in Keys :
        Holds(x, k) /\ Holds(y, k) /\ start_ts[x] = start_ts[y] => x = y

\* A write lock is that of a pending write, at its transaction's timestamp.
LockedPending ==
    \A k \in Keys, t \in TS :
        StatusAt(root[k], t) = "WRITE_LOCK" =>
            \A x \in TidsAt(root[k], t) \cap Tids :
                t = start_ts[x] /\ k \in Pending(x) /\ Prepares(x)

StoreFrozen ==
    \A k \in Keys, t \in TS :
        store[k][t] # NoVersion => StatusAt(root[k], t) = "FREEZE_WRITE_LOCK"

\* A second phase that has frozen the lock of k at t is going to install k there.
Installing(h, k, t) ==
    /\ h.op = "locks" /\ start_ts[h.tid] = t
    /\ h.tid \in rdy_to_commit /\ vote[h.tid] /\ k \in Pending(h.tid)

FrozenInstalled ==
    \A k \in Keys, t \in TS \ {0} :
        StatusAt(root[k], t) = "FREEZE_WRITE_LOCK" =>
            store[k][t] # NoVersion \/ \E h \in Running : Installing(h, k, t)

StoreInv ==
    WalksOK /\ HeldLocked /\ HeldAlone /\ LockedPending /\ StoreFrozen /\ FrozenInstalled

\* Who installs a version holds its lock.
LEMMA InstallHolds ==
    ASSUME NEW x \in Tids, NEW k \in Keys, NEW t \in TS, Installs(x, k, t)
    PROVE  Holds(x, k) /\ start_ts[x] = t
BY DEF Installs, Holds

\* A free lock has no owner, so who takes it is its only one.
LEMMA TakenAlone ==
    ASSUME ServerInv, LockInv, NEW x \in Tids, NEW k \in Keys, NEW t \in TS, WriteTaken(x, k, t)
    PROVE  TidsAt(root'[k], t) = {x}
<1>1. TidsAt(root[k], t) = {}
  BY OwnersAt, GoodTables DEF WriteTaken, LockInv, ExclusiveOwners
<1> QED
  BY <1>1 DEF WriteTaken

\* The second phase of x is not its first.
LEMMA LocksNotPreparing ==
    ASSUME ServerInv, NEW h \in Running, h.op = "locks", NEW g \in Running, g.tid = h.tid
    PROVE  g.op \notin {"p1c", "refused"}
BY TaskUnique

\* A lock that is held stays, until finalize.
LEMMA LockOfKept ==
    ASSUME ServerInv, LockInv, StoreInv, [ServerNext]_allVars,
           NEW x \in Tids, NEW k \in Keys, Holds(x, k)
    PROVE  LockOf(x, k)'
<1>1. PICK t \in TS : t = start_ts[x]
  BY StartType DEF ServerInv
<1>2. start_ts'[x] = t
  BY <1>1, StartKept
<1>3. /\ \/ StatusAt(root[k], t) = "WRITE_LOCK" /\ TidsAt(root[k], t) = {x}
         \/ StatusAt(root[k], t) = "FREEZE_WRITE_LOCK" /\ x \in finished
  BY <1>1 DEF StoreInv, HeldLocked, LockOf
<1>4. x \in finished => x \in finished'
  BY FinishedGrows
<1>5. CASE RootKept(k, t)
  BY <1>2, <1>3, <1>4, <1>5 DEF RootKept, SameAt, LockOf
<1>6. ASSUME NEW th \in Threads, FrozenBy(th, k, t) PROVE LockOf(x, k)'
  <2>1. arg[th] = x /\ StatusAt(root'[k], t) = "FREEZE_WRITE_LOCK" /\ pc[th] = "freeze"
    BY <1>3, <1>6 DEF FrozenBy
  <2>2. x \in finished
    BY <2>1 DEF LockInv, OneWalker, Walking
  <2> QED
    BY <1>2, <1>4, <2>1, <2>2 DEF LockOf
<1>7. ASSUME NEW th \in Threads, FreedBy(th, k, t) PROVE FALSE
  <2>1. arg[th] = x /\ pc[th] = "unlock"
    BY <1>3, <1>7 DEF FreedBy
  <2>2. ~vote[x]
    BY <2>1 DEF StoreInv, WalksOK, Aborted
  <2>3. PICK h \in Running : h.op = "locks" /\ h.tid = x
    BY <2>1, WalkTask
  <2> QED
    BY <2>2, <2>3, LocksNotPreparing DEF Holds
<1>8. CASE ReadTaken(k, t) \/ \E y \in Tids : WriteTaken(y, k, t)
  BY <1>3, <1>8 DEF ReadTaken, WriteTaken
<1> QED
  BY <1>5, <1>6, <1>7, <1>8, RootStepAt DEF RootChange

LEMMA HeldLockedStep ==
    ASSUME ServerInv, LockInv, CommitInv, StoreInv, [ServerNext]_allVars
    PROVE  HeldLocked'
<1> SUFFICES ASSUME NEW x \in Tids, NEW k \in Keys, Holds(x, k)'
             PROVE  LockOf(x, k)' /\ store'[k][start_ts'[x]] = NoVersion
  BY DEF HeldLocked
<1>1. PICK t \in TS : t = start_ts[x]
  BY StartType DEF ServerInv
<1>2. start_ts'[x] = t
  BY <1>1, StartKept
<1>3. CASE Holds(x, k)
  <2>1. LockOf(x, k)'
    BY <1>3, LockOfKept
  <2>2. store[k][t] = NoVersion
    BY <1>1, <1>3 DEF StoreInv, HeldLocked
  <2>3. ASSUME NEW y \in Tids, Installs(y, k, t) PROVE FALSE
    <3>1. y = x
      BY <1>1, <1>3, <2>3, InstallHolds DEF StoreInv, HeldAlone
    <3> QED
      BY <2>3, <3>1 DEF Installs
  <2> QED
    BY <1>2, <2>1, <2>2, <2>3, StoreStep
<1>4. CASE ~Holds(x, k)
  <2>1. WriteTaken(x, k, t)
    BY <1>1, <1>4, HoldsStep
  <2>2. LockOf(x, k)'
    BY <1>2, <2>1, TakenAlone DEF LockOf, WriteTaken
  <2>3. StatusAt(root[k], t) = "FREE"
    BY <2>1 DEF WriteTaken
  <2>4. store[k][t] = NoVersion
    BY <2>3 DEF StoreInv, StoreFrozen
  <2>5. ASSUME NEW y \in Tids, Installs(y, k, t) PROVE FALSE
    BY <2>3, <2>5, InstallHolds DEF StoreInv, HeldLocked, LockOf
  <2> QED
    BY <1>2, <2>2, <2>4, <2>5, StoreStep
<1> QED
  BY <1>3, <1>4

LEMMA HeldAloneStep ==
    ASSUME ServerInv, LockInv, CommitInv, StoreInv, [ServerNext]_allVars
    PROVE  HeldAlone'
<1> SUFFICES ASSUME NEW x \in Tids, NEW y \in Tids, NEW k \in Keys,
                    Holds(x, k)', Holds(y, k)', start_ts'[x] = start_ts'[y]
             PROVE  x = y
  BY DEF HeldAlone
<1>1. PICK t \in TS : t = start_ts[x] /\ t = start_ts[y]
  BY StartType, StartKept DEF ServerInv
<1>2. CASE Holds(x, k) /\ Holds(y, k)
  BY <1>1, <1>2 DEF StoreInv, HeldAlone
<1>3. ASSUME NEW a \in Tids, NEW b \in Tids, Holds(a, k), t = start_ts[a], WriteTaken(b, k, t)
      PROVE  FALSE
  BY <1>3 DEF StoreInv, HeldLocked, LockOf, WriteTaken
<1>4. CASE WriteTaken(x, k, t) /\ WriteTaken(y, k, t)
  <2>1. TidsAt(root'[k], t) = {x} /\ TidsAt(root'[k], t) = {y}
    BY <1>4, TakenAlone
  <2> QED
    BY <2>1
<1> QED
  BY <1>1, <1>2, <1>3, <1>4, HoldsStep

LEMMA LockedPendingStep ==
    ASSUME ServerInv, LockInv, CommitInv, StoreInv, [ServerNext]_allVars
    PROVE  LockedPending'
<1> SUFFICES ASSUME NEW k \in Keys, NEW t \in TS, StatusAt(root'[k], t) = "WRITE_LOCK",
                    NEW x \in Tids, x \in TidsAt(root'[k], t)
             PROVE  t = start_ts'[x] /\ k \in Pending(x)' /\ Prepares(x)'
  BY DEF LockedPending
<1>1. CASE RootKept(k, t)
  <2>1. StatusAt(root[k], t) = "WRITE_LOCK" /\ x \in TidsAt(root[k], t)
    BY <1>1 DEF RootKept, SameAt
  <2>2. t = start_ts[x] /\ k \in Pending(x) /\ Prepares(x)
    BY <2>1 DEF StoreInv, LockedPending
  <2>3. ~Finalizing(x)
    BY <2>1, NoLockLeft DEF Finalizing
  <2> QED
    BY <2>2, <2>3, PreparedKept, StartKept
<1>2. ASSUME NEW y \in Tids, WriteTaken(y, k, t)
      PROVE  t = start_ts'[x] /\ k \in Pending(x)' /\ Prepares(x)'
  <2>1. x = y
    BY <1>2, TakenAlone
  <2>2. PICK h \in Running : h.tid = x /\ h.op = "p1c"
    BY <1>2, <2>1 DEF WriteTaken
  <2>3. ~Finalizing(x)
    BY <2>2, TaskUnique DEF Finalizing, Running
  <2>4. t = start_ts[x] /\ k \in Pending(x) /\ Prepares(x)
    BY <1>2, <2>1, <2>2 DEF WriteTaken, Prepares
  <2> QED
    BY <2>3, <2>4, PreparedKept, StartKept
<1>3. CASE ReadTaken(k, t) \/ \E th \in Threads : FrozenBy(th, k, t) \/ FreedBy(th, k, t)
  BY <1>3 DEF ReadTaken, FrozenBy, FreedBy
<1> QED
  BY <1>1, <1>2, <1>3, RootStepAt DEF RootChange

\* A frozen write stays one.
LEMMA FrozenAtKept ==
    ASSUME ServerInv, [ServerNext]_allVars, NEW k \in Keys, NEW t \in TS,
           StatusAt(root[k], t) = "FREEZE_WRITE_LOCK"
    PROVE  StatusAt(root'[k], t) = "FREEZE_WRITE_LOCK"
BY RootStepAt DEF RootChange, RootKept, SameAt, ReadTaken, WriteTaken, FrozenBy, FreedBy

LEMMA StoreFrozenStep ==
    ASSUME ServerInv, LockInv, CommitInv, StoreInv, [ServerNext]_allVars
    PROVE  StoreFrozen'
<1> SUFFICES ASSUME NEW k \in Keys, NEW t \in TS, store'[k][t] # NoVersion
             PROVE  StatusAt(root'[k], t) = "FREEZE_WRITE_LOCK"
  BY DEF StoreFrozen
<1>1. CASE store[k][t] # NoVersion
  BY <1>1, FrozenAtKept DEF StoreInv, StoreFrozen
<1>2. CASE store[k][t] = NoVersion
  <2>1. PICK x \in Tids : Installs(x, k, t)
    BY <1>2, StoreStep
  <2>2. LockOf(x, k) /\ start_ts[x] = t
    BY <2>1, InstallHolds DEF StoreInv, HeldLocked
  <2>3. PICK th \in Threads :
            \E h \in Tasks(th) : h.op = "locks" /\ h.tid = x /\ pc[th] = "idle"
    BY <2>1 DEF Installs, Finalizing
  <2>4. StatusAt(root[k], t) = "FREEZE_WRITE_LOCK"
    BY <2>2, <2>3, NoLockLeft DEF LockOf
  <2> QED
    BY <2>4, FrozenAtKept
<1> QED
  BY <1>1, <1>2

\* A second phase that is going to install a version goes on to, or does.
LEMMA InstallingStep ==
    ASSUME ServerInv, [ServerNext]_allVars, NEW k \in Keys, NEW t \in TS,
           NEW h \in Running, Installing(h, k, t)
    PROVE  \/ h \in Running' /\ Installing(h, k, t)'
           \/ store'[k][t] = h.tid
<1>1. PICK x \in Tids : x = h.tid
  BY TaskFacts
<1>2. /\ h.op = "locks" /\ start_ts[x] = t
      /\ x \in rdy_to_commit /\ vote[x] /\ k \in Pending(x)
  BY <1>1 DEF Installing
<1>3. vote'[x] /\ start_ts'[x] = t
  BY <1>1, <1>2, FateKept, StartKept
<1>4. ASSUME h \in Running', x \in rdy_to_commit', Pending(x) \subseteq Pending(x)'
      PROVE  h \in Running' /\ Installing(h, k, t)'
  BY <1>1, <1>2, <1>3, <1>4 DEF Installing
<1>5. CASE DataQuiet
  BY <1>1, <1>2, <1>4, <1>5 DEF DataQuiet, dataVars, Pending
<1>6. ASSUME NEW g \in Running, DataWrite(g) \/ DataVote(g)
      PROVE  h \in Running' /\ Installing(h, k, t)'
  <2>1. g.op # "locks" /\ Running' = Running \ {g} /\ x \in rdy_to_commit'
    BY <1>2, <1>6 DEF DataWrite, DataVote
  <2>2. g.tid # x
    BY <1>1, <1>2, <2>1, TaskUnique
  <2>3. Pending(x)' = Pending(x)
    BY <1>6, <2>2 DEF DataWrite, DataVote, Pending
  <2> QED
    BY <1>2, <1>4, <2>1, <2>3
<1>7. ASSUME NEW th \in Threads, NEW g \in Tasks(th), DataFinalize(th, g)
      PROVE  \/ h \in Running' /\ Installing(h, k, t)'
             \/ store'[k][t] = h.tid
  <2>1. CASE g = h
    BY <1>1, <1>2, <1>7, <2>1 DEF DataFinalize
  <2>2. CASE g # h
    <3>1. g.tid # x
      BY <1>1, <2>2, TaskUnique DEF Running
    <3>2. h \in Running' /\ x \in rdy_to_commit' /\ Pending(x)' = Pending(x)
      BY <1>2, <1>7, <2>2, <3>1 DEF DataFinalize, Pending
    <3> QED
      BY <1>4, <3>2
  <2> QED
    BY <2>1, <2>2
<1> QED
  BY <1>5, <1>6, <1>7, DataCases DEF DataStep

LEMMA FrozenInstalledStep ==
    ASSUME ServerInv, LockInv, CommitInv, StoreInv, [ServerNext]_allVars
    PROVE  FrozenInstalled'
<1> SUFFICES ASSUME NEW k \in Keys, NEW t \in TS \ {0},
                    StatusAt(root'[k], t) = "FREEZE_WRITE_LOCK"
             PROVE  store'[k][t] # NoVersion \/ \E h \in Running' : Installing(h, k, t)'
  BY DEF FrozenInstalled
<1>1. ASSUME NEW x \in Tids PROVE x # NoVersion
  BY ServerAssumption DEF NoVersion
<1>2. ASSUME NEW h \in Running, Installing(h, k, t)
      PROVE  store'[k][t] # NoVersion \/ \E g \in Running' : Installing(g, k, t)'
  BY <1>1, <1>2, InstallingStep, TaskFacts
<1>3. CASE StatusAt(root[k], t) = "FREEZE_WRITE_LOCK"
  <2>1. CASE store[k][t] # NoVersion
    BY <1>1, <2>1, StoreStep DEF Installs
  <2>2. CASE store[k][t] = NoVersion
    BY <1>2, <1>3, <2>2 DEF StoreInv, FrozenInstalled
  <2> QED
    BY <2>1, <2>2
<1>4. CASE StatusAt(root[k], t) # "FREEZE_WRITE_LOCK"
  <2>1. PICK th \in Threads : FrozenBy(th, k, t) /\ StatusAt(root[k], t) = "WRITE_LOCK"
    BY <1>4, RootStepAt DEF RootChange, RootKept, SameAt, ReadTaken, WriteTaken, FrozenBy, FreedBy
  <2>2. PICK h \in Running : h.op = "locks" /\ h.tid = arg[th]
    BY <2>1, WalkTask DEF FrozenBy
  <2>3. PICK x \in Tids : x = h.tid
    BY <2>2, TaskFacts
  <2>4. x \in TidsAt(root[k], t) /\ vote[x]
    BY <2>1, <2>2, <2>3 DEF FrozenBy, StoreInv, WalksOK
  <2>5. t = start_ts[x] /\ k \in Pending(x) /\ Prepares(x)
    BY <2>1, <2>4 DEF StoreInv, LockedPending
  <2>6. x \in rdy_to_commit
    BY <2>2, <2>3, <2>5, LocksNotPreparing DEF Prepares
  <2>7. Installing(h, k, t)
    BY <2>2, <2>3, <2>4, <2>5, <2>6 DEF Installing
  <2> QED
    BY <1>2, <2>7
<1> QED
  BY <1>3, <1>4

LEMMA InitialStatus ==
    /\ StatusAt(InitialTable, 0) = "FREEZE_WRITE_LOCK"
    /\ \A t \in TS \ {0} : StatusAt(InitialTable, t) = "FREE"
<1>1. /\ DOMAIN InitialTable = {0, 1}
      /\ InitialTable[0] = [end |-> 0, status |-> "FREEZE_WRITE_LOCK", tids |-> {}]
      /\ InitialTable[1] = [end |-> MaxTs, status |-> "FREE", tids |-> {}]
  BY DEF InitialTable
<1>2. ASSUME NEW t \in TS
      PROVE  StartOf(InitialTable, t) = IF t = 0 THEN 0 ELSE 1
  <2>1. /\ StartOf(InitialTable, t) \in DOMAIN InitialTable
        /\ StartOf(InitialTable, t) <= t /\ t <= InitialTable[StartOf(InitialTable, t)].end
    BY InitialTableGood, FindNode
  <2> QED
    BY <1>1, <2>1, MaxTsAssumption DEF TS
<1> QED
  BY <1>1, <1>2, MaxTsAssumption DEF StatusAt, TS

LEMMA StoreInitial == ServerInit => StoreInv
<1> SUFFICES ASSUME ServerInit PROVE StoreInv
  OBVIOUS
<1>1. /\ \A th \in Threads : pc[th] = "idle" /\ stack[th] = <<>>
      /\ rdy_to_commit = {} /\ store = [k \in Keys |-> [t \in TS |-> NoVersion]]
      /\ root = [k \in Keys |-> InitialTable]
  BY DEF ServerInit, Init
<1>2. Running = {}
  BY <1>1, ServerInitial, IdleStack DEF Running, ServerInv
<1>3. \A x, k : ~Holds(x, k)
  BY <1>1, <1>2 DEF Holds
<1>4. WalksOK /\ HeldLocked /\ HeldAlone
  BY <1>1, <1>3 DEF WalksOK, HeldLocked, HeldAlone
<1>5. LockedPending /\ FrozenInstalled
  BY <1>1, InitialStatus DEF LockedPending, FrozenInstalled
<1>6. StoreFrozen
  BY <1>1 DEF StoreFrozen
<1> QED
  BY <1>4, <1>5, <1>6 DEF StoreInv

LEMMA StoreInvStep ==
    ASSUME ServerInv, LockInv, CommitInv, StoreInv, [ServerNext]_allVars
    PROVE  StoreInv'
<1>1. WalksOK'
  BY WalksStep DEF StoreInv
<1> QED
  BY <1>1, HeldLockedStep, HeldAloneStep, LockedPendingStep, StoreFrozenStep, FrozenInstalledStep
     DEF StoreInv

-----------------------------------------------------------------------------
(* What a transaction has read stays read-locked                            *)

\* Unless it aborted, x has locked key k from n up to its timestamp.
CoveredFrom(x, k, n) ==
    ~Aborted(x) => n .. start_ts[x] - 1 \subseteq covered[x][k]

\* So has it from where a read event goes on, and from behind what it read.
ReadInv ==
    /\ \A h \in Reading : CoveredFrom(h.tid, h.key, h.n)
    /\ \A x \in Tids, k \in Keys :
          read_ts[<<x, k>>] # 0 => CoveredFrom(x, k, read_ts[<<x, k>>])
    /\ \A r \in reads : CoveredFrom(r.tid, r.key, r.ts + 1)

LEMMA ReadingFacts ==
    ASSUME ServerInv, NEW h \in Reading
    PROVE  h.tid \in Tids /\ h.key \in Keys /\ h.n \in 1 .. MaxTs
<1>1. PICK th \in Threads : h \in ReadsOf(th)
  BY DEF Reading
<1>2. h \in Handler /\ ReadArgs(h)
  BY <1>1, HandlersType DEF ServerInv, Discipline, ReadsOK
<1> QED
  BY <1>2, HandlerFields DEF ReadArgs

\* Only unlock takes from what a transaction has locked.
LEMMA CoveredKept ==
    ASSUME ServerInv, WalksOK, [ServerNext]_allVars, NEW x \in Tids, NEW k \in Keys,
           ~Aborted(x)'
    PROVE  covered[x][k] \subseteq covered'[x][k]
<1>1. [Next]_vars
  BY UsesStep
<1>2. covered \in [Tids -> [Keys -> SUBSET TS]]
  BY DEF ServerInv, TableInv, TypeOK
<1>3. ASSUME NEW key \in Keys, NEW y \in Tids, Lock(key, y)
      PROVE  covered[x][k] \subseteq covered'[x][k]
  <2>1. \/ UNCHANGED covered
        \/ \E S : covered' = [covered EXCEPT ![y][key] = @ \cup S]
    BY <1>3 DEF Lock, tryBackwardLock, tryLock
  <2> QED
    BY <1>2, <2>1
<1>4. ASSUME NEW th \in Threads, NEW key \in Keys, unlockKey(th, key)
      PROVE  covered[x][k] \subseteq covered'[x][k]
  <2>1. Aborted(arg[th]) /\ arg[th] \in Tids
    BY <1>4 DEF unlockKey, WalksOK, ServerInv, TableInv, TypeOK
  <2>2. arg[th] # x
    BY <2>1, AbortedStays
  <2>3. covered' = [covered EXCEPT ![arg[th]][key] = {}]
    BY <1>4 DEF unlockKey
  <2> QED
    BY <1>2, <2>1, <2>2, <2>3
<1>5. ASSUME NEW th \in Threads, Finish(th), \A key \in Keys : ~unlockKey(th, key)
      PROVE  UNCHANGED covered
  BY <1>5 DEF Finish, beginFreeze, beginUnlock, Begin, freezeKey, clearIntervals,
              deleteTransactionInfo, runEvent, return, historyVars
<1>6. CASE UNCHANGED vars
  BY <1>6 DEF vars, historyVars
<1> QED
  BY <1>1, <1>3, <1>4, <1>5, <1>6 DEF Next

LEMMA CoveredFromKept ==
    ASSUME ServerInv, WalksOK, [ServerNext]_allVars, NEW x \in Tids, NEW k \in Keys,
           NEW n, CoveredFrom(x, k, n)
    PROVE  ~Aborted(x)' => n .. start_ts'[x] - 1 \subseteq covered'[x][k]
BY CoveredKept, AbortedStays, StartKept DEF CoveredFrom

LEMMA ReadInitial == ServerInit => ReadInv
<1> SUFFICES ASSUME ServerInit PROVE ReadInv
  OBVIOUS
<1>1. /\ \A th \in Threads : stack[th] = <<>>
      /\ read_ts = [e \in Request |-> 0] /\ reads = {}
  BY DEF ServerInit
<1>2. Reading = {}
  BY <1>1, ServerInitial, IdleStack DEF Reading, ServerInv
<1> QED
  BY <1>1, <1>2 DEF ReadInv, Request

\* A read event locks more of the past, and remembers where it stopped.
LEMMA ReadInvLock ==
    ASSUME ServerInv, WalksOK, ReadInv, [ServerNext]_allVars, NEW th \in Threads, readLock(th)
    PROVE  ReadInv'
<1>1. PICK h \in Reading :
          LET start == BackwardStart(root[h.key], h.n - 1, TRUE)
          IN  /\ tryBackwardLock(h.key, h.tid, h.n - 1, TRUE)
              /\ start \in 1 .. h.n
              /\ read_ts'[<<h.tid, h.key>>] = start
              /\ \A e \in Request \ {<<h.tid, h.key>>} : read_ts'[e] = read_ts[e]
              /\ \A g \in Reading' :
                    g \in Reading \/ (g.tid = h.tid /\ g.key = h.key /\ g.n = start)
              /\ UNCHANGED reads
  BY ReadLockEffect
<1>2. PICK x \in Tids, k \in Keys, n \in 1 .. MaxTs : x = h.tid /\ k = h.key /\ n = h.n
  BY ReadingFacts
<1>3. PICK start \in 1 .. n : start = BackwardStart(root[k], n - 1, TRUE)
  BY <1>1, <1>2
<1>4. /\ read_ts'[<<x, k>>] = start
      /\ \A e \in Request \ {<<x, k>>} : read_ts'[e] = read_ts[e]
      /\ \A g \in Reading' : g \in Reading \/ (g.tid = x /\ g.key = k /\ g.n = start)
      /\ UNCHANGED reads
  BY <1>1, <1>2, <1>3
<1>5. covered'[x][k] = covered[x][k] \cup (start .. n - 1)
  <2>1. covered' = [covered EXCEPT ![x][k] = @ \cup (start .. n - 1)]
    BY <1>1, <1>2, <1>3 DEF tryBackwardLock
  <2> QED
    BY <2>1 DEF ServerInv, TableInv, TypeOK
<1>6. ~Aborted(x)' => start .. start_ts'[x] - 1 \subseteq covered'[x][k]
  <2>1. ~Aborted(x)' => n .. start_ts'[x] - 1 \subseteq covered'[x][k]
    BY <1>2, CoveredFromKept DEF ReadInv
  <2>2. start_ts'[x] \in 1 .. MaxTs
    BY StartType, StartKept DEF ServerInv
  <2>3. start .. start_ts'[x] - 1 \subseteq (start .. n - 1) \cup (n .. start_ts'[x] - 1)
    BY <2>2, MaxTsAssumption
  <2> QED
    BY <1>5, <2>1, <2>3
<1>7. ASSUME NEW g \in Reading' PROVE CoveredFrom(g.tid, g.key, g.n)'
  <2>1. CASE g \in Reading
    BY <2>1, ReadingFacts, CoveredFromKept DEF ReadInv, CoveredFrom
  <2>2. CASE g.tid = x /\ g.key = k /\ g.n = start
    BY <1>6, <2>2 DEF CoveredFrom
  <2> QED
    BY <1>4, <2>1, <2>2
<1>8. ASSUME NEW y \in Tids, NEW j \in Keys, read_ts'[<<y, j>>] # 0
      PROVE  CoveredFrom(y, j, read_ts[<<y, j>>])'
  <2>1. CASE y = x /\ j = k
    BY <1>4, <1>6, <2>1 DEF CoveredFrom
  <2>2. CASE ~(y = x /\ j = k)
    <3>1. <<y, j>> \in Request \ {<<x, k>>}
      BY <2>2 DEF Request
    <3>2. read_ts'[<<y, j>>] = read_ts[<<y, j>>]
      BY <1>4, <3>1
    <3> QED
      BY <1>8, <3>2, CoveredFromKept DEF ReadInv, CoveredFrom
  <2> QED
    BY <2>1, <2>2
<1>9. ASSUME NEW r \in reads' PROVE CoveredFrom(r.tid, r.key, r.ts + 1)'
  <2>1. r \in reads /\ r.tid \in Tids /\ r.key \in Keys
    BY <1>4 DEF ServerInv, ServerTypeOK
  <2> QED
    BY <2>1, CoveredFromKept DEF ReadInv, CoveredFrom
<1> QED
  BY <1>7, <1>8, <1>9 DEF ReadInv

\* The other steps: a read event starts at the timestamp of its transaction, or
\* goes on from where it stopped; what it returns lies just behind.
ReadingQuiet ==
    /\ \A g \in Reading' :
          \/ g \in Reading
          \/ /\ g.tid \in Tids /\ g.key \in Keys
             /\ \/ g.n = start_ts[g.tid]
                \/ read_ts[<<g.tid, g.key>>] # 0 /\ g.n = read_ts[<<g.tid, g.key>>]
    /\ \A x \in Tids, k \in Keys :
          \/ read_ts'[<<x, k>>] = read_ts[<<x, k>>]
          \/ read_ts'[<<x, k>>] = start_ts[x]
    /\ \A r \in reads' :
          r \in reads \/ \E h \in Reading : r.tid = h.tid /\ r.key = h.key /\ r.ts = h.n - 1

LEMMA ReadInvQuiet ==
    ASSUME ServerInv, WalksOK, ReadInv, [ServerNext]_allVars, ReadingQuiet
    PROVE  ReadInv'
<1>1. \A x \in Tids : start_ts'[x] = start_ts[x] /\ start_ts[x] .. start_ts[x] - 1 = {}
  <2> SUFFICES ASSUME NEW x \in Tids
               PROVE  start_ts'[x] = start_ts[x] /\ start_ts[x] .. start_ts[x] - 1 = {}
    OBVIOUS
  <2>1. start_ts[x] \in 1 .. MaxTs /\ start_ts'[x] = start_ts[x]
    BY StartType, StartKept DEF ServerInv
  <2> QED
    BY <2>1, MaxTsAssumption
<1>2. ASSUME NEW g \in Reading' PROVE CoveredFrom(g.tid, g.key, g.n)'
  <2>1. CASE g \in Reading
    BY <2>1, ReadingFacts, CoveredFromKept DEF ReadInv, CoveredFrom
  <2>2. CASE /\ g.tid \in Tids /\ g.key \in Keys
             /\ read_ts[<<g.tid, g.key>>] # 0 /\ g.n = read_ts[<<g.tid, g.key>>]
    <3>1. CoveredFrom(g.tid, g.key, g.n)
      BY <2>2 DEF ReadInv
    <3> QED
      BY <2>2, <3>1, CoveredFromKept DEF CoveredFrom
  <2>3. CASE g.tid \in Tids /\ g.n = start_ts[g.tid]
    BY <1>1, <2>3 DEF CoveredFrom
  <2> QED
    BY <2>1, <2>2, <2>3 DEF ReadingQuiet
<1>3. ASSUME NEW x \in Tids, NEW k \in Keys, read_ts'[<<x, k>>] # 0
      PROVE  CoveredFrom(x, k, read_ts[<<x, k>>])'
  <2>1. CASE read_ts'[<<x, k>>] = read_ts[<<x, k>>]
    BY <1>3, <2>1, CoveredFromKept DEF ReadInv, CoveredFrom
  <2>2. CASE read_ts'[<<x, k>>] = start_ts[x]
    BY <1>1, <2>2 DEF CoveredFrom
  <2> QED
    BY <2>1, <2>2 DEF ReadingQuiet
<1>4. ASSUME NEW r \in reads' PROVE CoveredFrom(r.tid, r.key, r.ts + 1)'
  <2>1. CASE r \in reads
    <3>1. r.tid \in Tids /\ r.key \in Keys
      BY <2>1 DEF ServerInv, ServerTypeOK
    <3> QED
      BY <2>1, <3>1, CoveredFromKept DEF ReadInv, CoveredFrom
  <2>2. ASSUME NEW h \in Reading, r.tid = h.tid, r.key = h.key, r.ts = h.n - 1
        PROVE  CoveredFrom(r.tid, r.key, r.ts + 1)'
    <3>1. h.tid \in Tids /\ h.key \in Keys /\ h.n - 1 + 1 = h.n
      <4>1. h.n \in Int
        BY ReadingFacts, MaxTsAssumption
      <4> QED
        BY <4>1, ReadingFacts
    <3>2. ~Aborted(h.tid)' => h.n .. start_ts'[h.tid] - 1 \subseteq covered'[h.tid][h.key]
      BY <3>1, CoveredFromKept DEF ReadInv
    <3> QED
      BY <2>2, <3>1, <3>2 DEF CoveredFrom
  <2> QED
    BY <2>1, <2>2 DEF ReadingQuiet
<1> QED
  BY <1>2, <1>3, <1>4 DEF ReadInv

LEMMA ReadInvStep ==
    ASSUME ServerInv, WalksOK, ReadInv, [ServerNext]_allVars
    PROVE  ReadInv'
<1>1. ASSUME Reading' \subseteq Reading, UNCHANGED <<read_ts, reads>> PROVE ReadingQuiet
  BY <1>1 DEF ReadingQuiet
<1>2. ASSUME NEW th \in Threads, NEW x \in Tids, getRead(th, x) PROVE ReadingQuiet
  <2>1. PICK k \in Keys :
            /\ \A h \in Reading' :
                  h \in Reading \/ (h.tid = x /\ h.key = k /\ h.n = start_ts[x])
            /\ read_ts'[<<x, k>>] = start_ts[x]
            /\ \A e \in Request \ {<<x, k>>} : read_ts'[e] = read_ts[e]
            /\ reads' = reads
    <3>1. PICK k \in Keys :
              /\ x \in queued /\ queued' = queued \ {x}
              /\ call[x] = [type |-> "TREAD", key |-> k]
              /\ Running' = Running
              /\ \A h \in Reading' :
                    h \in Reading \/ (h.tid = x /\ h.key = k /\ h.n = start_ts[x])
              /\ read_ts'[<<x, k>>] = start_ts[x]
              /\ \A e \in Request \ {<<x, k>>} : read_ts'[e] = read_ts[e]
              /\ tid_to_nodes' = tid_to_nodes \cup {x}
              /\ UNCHANGED <<vars, progVars, vote, call, leaked, dataVars, crashed, reads>>
              /\ UNCHANGED tid_to_write_nodes
      BY <1>2, GetReadEffect, Zenon
    <3>2. reads' = reads
      BY <3>1
    <3> QED
      BY <3>1, <3>2, Zenon
  <2>2. ASSUME NEW y \in Tids, NEW j \in Keys
        PROVE  \/ read_ts'[<<y, j>>] = read_ts[<<y, j>>]
               \/ read_ts'[<<y, j>>] = start_ts[y]
    <3>1. <<y, j>> \in Request
      BY DEF Request
    <3>2. CASE <<y, j>> = <<x, k>>
      BY <2>1, <3>2
    <3>3. CASE <<y, j>> # <<x, k>>
      BY <2>1, <3>1, <3>3
    <3> QED
      BY <3>2, <3>3
  <2> QED
    BY <2>1, <2>2 DEF ReadingQuiet
<1>3. ASSUME NEW th \in Threads, NEW x \in Tids,
             \/ getWrite(th, x) \/ getP1C(th, x) \/ getP2C(th, x) \/ getStuck(th, x)
      PROVE  ReadingQuiet
  BY <1>1, <1>3, GetTaskEffect DEF eventVars
<1>4. ASSUME NEW th \in Threads, NEW x \in Tids, getUnknown(th, x) PROVE ReadingQuiet
  BY <1>1, <1>4, SameRunning DEF getUnknown, eventVars
<1>5. ASSUME NEW th \in Threads, readValue(th) PROVE ReadingQuiet
  <2>1. Reading' \subseteq Reading /\ UNCHANGED read_ts
    BY <1>5, ReadValueEffect
  <2>2. \A r \in reads' :
            r \in reads \/ \E h \in Reading : r.tid = h.tid /\ r.key = h.key /\ r.ts = h.n - 1
    <3>1. CASE UNCHANGED reads
      BY <3>1
    <3>2. CASE \E h \in Reading :
                  reads' = reads \cup {[tid |-> h.tid, key |-> h.key, ts |-> h.n - 1]}
      BY <3>2
    <3> QED
      BY <1>5, ReadValueEffect, <3>1, <3>2, Zenon
  <2> QED
    BY <2>1, <2>2 DEF ReadingQuiet
<1>6. ASSUME NEW th \in Threads, p2cWake(th) PROVE ReadingQuiet
  BY <1>6, WakeEffect DEF ReadingQuiet, eventVars
<1>7. ASSUME NEW th \in Threads,
             writeRun(th) \/ p1cLock(th) \/ p1cVote(th) \/ p2cStart(th) \/ p2cFinalize(th)
      PROVE  ReadingQuiet
  <2>1. CASE writeRun(th)
    BY <1>1, <2>1, WriteEffect DEF eventVars
  <2>2. CASE p1cLock(th)
    BY <1>1, <2>2, LockTaken DEF eventVars
  <2>3. CASE p1cVote(th)
    BY <1>1, <2>3, VoteEffect DEF eventVars
  <2>4. CASE p2cStart(th)
    BY <1>1, <2>4, StartEffect DEF eventVars
  <2>5. CASE p2cFinalize(th)
    BY <1>1, <2>5, FinalizeEffect DEF eventVars
  <2> QED
    BY <1>7, <2>1, <2>2, <2>3, <2>4, <2>5
<1>8. ASSUME NEW th \in Threads, readExit(th) \/ p2cLocks(th) PROVE ReadingQuiet
  BY <1>1, <1>8, SameRunning DEF readExit, p2cLocks, serverVars, eventVars
<1>9. ASSUME NEW x \in Tids, ClientStep(x) PROVE ReadingQuiet
  BY <1>1, <1>9, ClientEffect DEF serverVars, eventVars
<1>10. CASE UNCHANGED allVars
  <2>1. ReadingQuiet
    BY <1>1, <1>10, SameRunning DEF allVars, serverVars, eventVars
  <2> QED
    BY <2>1, ReadInvQuiet
<1>11. ASSUME NEW th \in Threads, Worker(th) PROVE ReadInv'
  <2>1. CASE getEvent(th)
    BY <1>2, <1>3, <1>4, <2>1, ReadInvQuiet DEF getEvent
  <2>2. CASE readLock(th)
    BY <2>2, ReadInvLock
  <2>3. CASE ~getEvent(th) /\ ~readLock(th)
    <3>1. ReadingQuiet
      BY <1>5, <1>6, <1>7, <1>8, <1>11, <2>3 DEF Worker
    <3> QED
      BY <3>1, ReadInvQuiet
  <2> QED
    BY <2>1, <2>2, <2>3
<1> QED
  BY <1>9, <1>10, <1>11, ReadInvQuiet DEF ServerNext

-----------------------------------------------------------------------------
(* What is installed is what was committed                                  *)

\* A coordinator never forgets a write.
LEMMA WrittenGrows ==
    ASSUME ServerInv, [ServerNext]_allVars, NEW x \in Tids
    PROVE  written[x] \subseteq written'[x]
<1>1. ASSUME NEW th \in Threads, Worker(th) PROVE written[x] \subseteq written'[x]
  BY <1>1, WorkerReplies DEF progVars
<1>2. ASSUME NEW y \in Tids, ClientStep(y) PROVE written[x] \subseteq written'[x]
  <2>1. CASE x = y
    BY <1>2, <2>1, ClientCases DEF ReadSent, WriteSent, FirstSent, SecondSent, Lost
  <2>2. CASE x # y
    BY <1>2, <2>2, ClientCases DEF Only
  <2> QED
    BY <2>1, <2>2
<1>3. CASE UNCHANGED allVars
  BY <1>3 DEF allVars, clientVars, progVars
<1> QED
  BY <1>1, <1>2, <1>3 DEF ServerNext

\* commit() and abort() return once.
LEMMA ReturnedStays ==
    ASSUME ServerInv, [ServerNext]_allVars, NEW x \in Tids, Client!Returned(x)
    PROVE  Client!Returned(x)' /\ vote'[x] = vote[x] /\ written'[x] = written[x]
<1>1. stage[x] = "end" /\ call[x] = NoCall /\ x \notin queued
  BY DEF Client!Returned, Client!Idle, NoCall, ServerInv, Discipline, StagesOK, StageOK
<1>2. vote'[x] = vote[x] /\ stage'[x] = "end"
  BY <1>1, OutcomeKept
<1>3. ASSUME NEW th \in Threads, Worker(th) PROVE call'[x] = NoCall /\ written'[x] = written[x]
  BY <1>1, <1>3, WorkerReplies DEF progVars
<1>4. ASSUME NEW y \in Tids, ClientStep(y) PROVE call'[x] = NoCall /\ written'[x] = written[x]
  <2>1. CASE x = y
    BY <1>1, <1>4, <2>1, ClientCases DEF ReadSent, WriteSent, FirstSent, SecondSent, Lost
  <2>2. CASE x # y
    BY <1>1, <1>4, <2>2, ClientCases DEF Only
  <2> QED
    BY <2>1, <2>2
<1>5. ASSUME UNCHANGED allVars PROVE call'[x] = NoCall /\ written'[x] = written[x]
  BY <1>1, <1>5 DEF allVars, clientVars, progVars
<1>6. call'[x] = NoCall /\ written'[x] = written[x]
  BY <1>3, <1>4, <1>5 DEF ServerNext
<1> QED
  BY <1>2, <1>6 DEF Client!Returned, Client!Idle, NoCall

\* They return when finalize answers the second phase, unless there was nobody to
\* send it to.
LEMMA ReturnCases ==
    ASSUME ServerInv, CommitInv, [ServerNext]_allVars, NEW x \in Tids,
           ~Client!Returned(x), Client!Returned(x)'
    PROVE  \/ written'[x] = {}
           \/ /\ written'[x] = written[x] /\ stage[x] = "end" /\ call[x].type = "TP2C"
              /\ vote'[x] = vote[x]
              /\ \E th \in Threads : p2cFinalize(th) /\ \E h \in Tasks(th) : h.op = "locks" /\ h.tid = x
<1>1. stage'[x] = "end" /\ call'[x] = NoCall
  BY DEF Client!Returned, Client!Idle, NoCall
<1>2. stage[x] # "end" \/ call[x] # NoCall
  BY DEF Client!Returned, Client!Idle, NoCall
<1>3. ASSUME NEW th \in Threads, Worker(th), written'[x] # {}
      PROVE  /\ written'[x] = written[x] /\ stage[x] = "end" /\ call[x].type = "TP2C"
             /\ vote'[x] = vote[x]
             /\ p2cFinalize(th) /\ \E h \in Tasks(th) : h.op = "locks" /\ h.tid = x
  <2>1. written'[x] = written[x] /\ stage'[x] = stage[x]
    BY <1>3, WorkerReplies DEF progVars
  <2>2. call[x] # NoCall /\ call[x] \in CallType
    BY <1>1, <1>2, <2>1 DEF ServerInv, ClientTypeOK
  <2>3. call[x].type = "TP2C"
    BY <1>1, <2>1, <2>2 DEF ServerInv, Discipline, StagesOK, StageOK, CallType
  <2>4. p2cFinalize(th) /\ \E h \in Tasks(th) : h.op = "locks" /\ h.tid = x
    BY <1>1, <1>3, <2>2, <2>3, WorkerReplies
  <2>5. PICK h \in Running : h.op = "locks" /\ h.tid = x
    BY <2>4 DEF Running
  <2>6. vote'[x] = vote[x]
    BY <2>5, FateKept
  <2> QED
    BY <1>1, <2>1, <2>3, <2>4, <2>6
<1>4. ASSUME NEW y \in Tids, ClientStep(y) PROVE written'[x] = {}
  <2>1. x = y
    BY <1>1, <1>2, <1>4, ClientCases DEF Only
  <2>2. ~ReadSent(x) /\ ~WriteSent(x) /\ ~FirstSent(x)
    BY <1>1 DEF ReadSent, WriteSent, FirstSent
  <2>3. ~Lost(x)
    BY <1>1 DEF Lost, ServerInv, Discipline, StagesOK, StageOK
  <2>4. SecondSent(x)
    BY <1>4, <2>1, <2>2, <2>3, ClientCases
  <2>5. write_nodes[x] = {} /\ written'[x] = written[x]
    BY <1>1, <2>4 DEF SecondSent, NoCall, Client!NoCall
  <2> QED
    BY <2>5 DEF CommitInv, CommitOK, SentOK
<1>5. CASE UNCHANGED allVars
  BY <1>1, <1>2, <1>5 DEF allVars, clientVars, progVars
<1> QED
  BY <1>3, <1>4, <1>5 DEF ServerNext

\* A version is a write of a transaction that committed, at its timestamp.
VersionsCommitted ==
    \A x \in Tids, k \in Keys, t \in TS :
        store[k][t] = x =>
            t = start_ts[x] /\ k \in written[x] /\ vote[x] /\ Client!Returned(x)

\* A transaction that committed, and lost no request, has installed its writes.
CommitsInstalled ==
    \A x \in Tids \ Lossy :
        Client!Returned(x) /\ vote[x] => \A k \in written[x] : store[k][start_ts[x]] = x

OutcomeInv == VersionsCommitted /\ CommitsInstalled

LEMMA OutcomeInitial == ServerInit => OutcomeInv
<1> SUFFICES ASSUME ServerInit PROVE OutcomeInv
  OBVIOUS
<1>1. /\ store = [k \in Keys |-> [t \in TS |-> NoVersion]]
      /\ stage = [x \in Tids |-> "running"]
  BY DEF ServerInit, Client!Init
<1>2. VersionsCommitted
  BY <1>1, ServerAssumption DEF VersionsCommitted, NoVersion
<1>3. CommitsInstalled
  BY <1>1 DEF CommitsInstalled, Client!Returned
<1> QED
  BY <1>2, <1>3 DEF OutcomeInv

LEMMA VersionsCommittedStep ==
    ASSUME ServerInv, CommitInv, OutcomeInv, [ServerNext]_allVars
    PROVE  VersionsCommitted'
<1> SUFFICES ASSUME NEW x \in Tids, NEW k \in Keys, NEW t \in TS, store'[k][t] = x
             PROVE  /\ t = start_ts'[x] /\ k \in written'[x] /\ vote'[x]
                    /\ Client!Returned(x)'
  BY DEF VersionsCommitted
<1>1. start_ts' = start_ts /\ written[x] \subseteq written'[x]
  BY StartKept, WrittenGrows
<1>2. CASE store[k][t] = x
  <2>1. t = start_ts[x] /\ k \in written[x] /\ vote[x] /\ Client!Returned(x)
    BY <1>2 DEF OutcomeInv, VersionsCommitted
  <2> QED
    BY <1>1, <2>1, ReturnedStays
<1>3. CASE Installs(x, k, t)
  <2>1. /\ vote[x] /\ t = start_ts[x] /\ k \in Pending(x) /\ call'[x] = NoCall
        /\ \E h \in Running : h.op = "locks" /\ h.tid = x
    BY <1>3 DEF Installs, Finalizing, Running
  <2>2. PICK h \in Running : h.op = "locks" /\ h.tid = x
    BY <2>1
  <2>3. stage[x] = "end"
    BY <2>2, TaskFacts DEF Serves, StageOK
  <2>4. vote'[x] = vote[x] /\ stage'[x] = stage[x]
    BY <2>2, FateKept
  <2>5. k \in written[x]
    BY <2>1 DEF CommitInv, CommitOK, SentOK
  <2> QED
    BY <1>1, <2>1, <2>3, <2>4, <2>5 DEF Client!Returned, Client!Idle, NoCall
<1>4. store[k][t] = x \/ Installs(x, k, t)
  BY StoreStep DEF Installs
<1> QED
  BY <1>2, <1>3, <1>4

\* Nobody installs another version where x has: its lock is frozen.
LEMMA CommitsInstalledStep ==
    ASSUME ServerInv, CommitInv, StoreInv, OutcomeInv, [ServerNext]_allVars
    PROVE  CommitsInstalled'
<1> SUFFICES ASSUME NEW x \in Tids \ Lossy, Client!Returned(x)', vote'[x], NEW k \in written'[x]
             PROVE  store'[k][start_ts'[x]] = x
  BY DEF CommitsInstalled
<1>1. PICK t \in TS : t = start_ts[x]
  BY StartType DEF ServerInv
<1>2. start_ts'[x] = t
  BY <1>1, StartKept
<1>3. CASE Client!Returned(x)
  <2>1. vote[x] /\ k \in written[x] /\ k \in Keys
    BY <1>3, ReturnedStays DEF ServerInv, ClientTypeOK
  <2>2. store[k][t] = x
    BY <1>1, <1>3, <2>1 DEF OutcomeInv, CommitsInstalled
  <2>3. ASSUME NEW y \in Tids, Installs(y, k, t) PROVE FALSE
    <3>1. store[k][t] = NoVersion
      BY <2>1, <2>3, InstallHolds DEF StoreInv, HeldLocked
    <3> QED
      BY <2>2, <3>1, ServerAssumption DEF NoVersion
  <2> QED
    BY <1>2, <2>1, <2>2, <2>3, StoreStep
<1>4. CASE ~Client!Returned(x)
  <2>1. /\ written'[x] = written[x] /\ stage[x] = "end" /\ call[x].type = "TP2C"
        /\ vote'[x] = vote[x]
    BY <1>4, ReturnCases
  <2>2. PICK th \in Threads : p2cFinalize(th) /\ \E h \in Tasks(th) : h.op = "locks" /\ h.tid = x
    BY <1>4, ReturnCases
  <2>3. k \in written[x] /\ k \in Keys
    BY <2>1 DEF ServerInv, ClientTypeOK
  <2>4. PICK h \in Running :
            /\ Tasks(th) = {h}
            /\ \A j \in Keys, u \in TS :
                  store'[j][u] =
                      IF /\ h.tid \in rdy_to_commit /\ vote[h.tid] /\ u = start_ts[h.tid]
                         /\ \E i \in 1 .. Len(pend_writes[h.tid]) : pend_writes[h.tid][i] = j
                      THEN h.tid
                      ELSE store[j][u]
    BY <2>2, FinalizeEffect
  <2>5. h.tid = x
    BY <2>2, <2>4
  <2>6. x \in rdy_to_commit
    BY <1>4, <2>1, <2>3 DEF CommitInv, CommitOK, PreparedOK
  <2>7. k \in Pending(x)
    <3>1. call[x] # [type |-> "TWRITE", key |-> k]
      BY <2>1
    <3> QED
      BY <1>4, <2>3, <3>1 DEF CommitInv, CommitOK, HeardOK
  <2>8. \E i \in 1 .. Len(pend_writes[x]) : pend_writes[x][i] = k
    BY <2>7 DEF Pending
  <2> QED
    BY <1>1, <1>2, <2>1, <2>3, <2>4, <2>5, <2>6, <2>8
<1> QED
  BY <1>3, <1>4

-----------------------------------------------------------------------------
(* The theorems                                                             *)

\* The invariant of the server and its store.
DataInv == ServerInv /\ LockInv /\ CommitInv /\ StoreInv /\ ReadInv /\ OutcomeInv

LEMMA DataInitial == ServerInit => DataInv
<1> SUFFICES ASSUME ServerInit PROVE DataInv
  OBVIOUS
<1>1. LockInv
  BY LockInit DEF ServerInit
<1> QED
  BY <1>1, ServerInitial, CommitInitial, StoreInitial, ReadInitial, OutcomeInitial DEF DataInv

LEMMA DataStepKeeps ==
    ASSUME SharedUnlock = FALSE, DataInv, [ServerNext]_allVars
    PROVE  DataInv'
<1> USE DEF DataInv
<1>1. ServerInv'
  BY ServerStep
<1>2. LockInv'
  BY UsesStep, LockStep
<1>3. CommitInv'
  BY CommitStep
<1>4. StoreInv'
  BY StoreInvStep
<1>5. ReadInv'
  BY ReadInvStep DEF StoreInv
<1>6. OutcomeInv'
  BY VersionsCommittedStep, CommitsInstalledStep DEF OutcomeInv
<1> QED
  BY <1>1, <1>2, <1>3, <1>4, <1>5, <1>6

LEMMA DataAlways ==
    ASSUME SharedUnlock = FALSE
    PROVE  ServerSpec => []DataInv
<1>1. DataInv /\ [ServerNext]_allVars => DataInv'
  BY DataStepKeeps
<1> QED
  BY DataInitial, <1>1, PTL DEF ServerSpec

\* As long as unlock meets no read lock that others own too, a transaction that
\* SimpleTServer::get served at a version has, for ever, no other version between
\* that one and its timestamp: P1CEvent refuses every write that would put one
\* there, however reads, votes and second phases interleave.
THEOREM ReadsStayLatest ==
    ASSUME SharedUnlock = FALSE
    PROVE  ServerSpec => []ReadsLatest
<1>1. ASSUME DataInv PROVE ReadsLatest
  <2> SUFFICES ASSUME NEW r \in reads, ~Aborted(r.tid), NEW t \in r.ts + 1 .. start_ts[r.tid] - 1
               PROVE  store[r.key][t] = NoVersion
    BY DEF ReadsLatest
  <2>1. r.tid \in Tids /\ r.key \in Keys /\ r.ts \in TS
    BY <1>1 DEF DataInv, ServerInv, ServerTypeOK
  <2>2. PICK x \in Tids, k \in Keys : x = r.tid /\ k = r.key
    BY <2>1
  <2>3. t \in covered[x][k]
    BY <1>1, <2>2 DEF DataInv, ReadInv, CoveredFrom
  <2>4. start_ts[x] \in TS /\ t \in TS
    <3>1. start_ts[x] \in TS
      BY <1>1, StartType DEF DataInv, ServerInv
    <3> QED
      BY <2>1, <2>2, <3>1, MaxTsAssumption DEF TS
  <2>5. StatusAt(root[k], t) # "FREEZE_WRITE_LOCK"
    BY <1>1, <2>3 DEF DataInv, LockInv, ReadProtected, ReadCovered
  <2> QED
    BY <1>1, <2>2, <2>4, <2>5 DEF DataInv, StoreInv, StoreFrozen
<1>2. ServerSpec => []DataInv
  BY DataAlways
<1> QED
  BY <1>1, <1>2, PTL

\* Under the same condition the store and the lock table agree at every moment:
\* SimpleTServer::set writes only where freeze has frozen a write lock, and every
\* write lock that freeze froze is written to by the finalize that follows it.
THEOREM StoreMatchesLocks ==
    ASSUME SharedUnlock = FALSE
    PROVE  ServerSpec => []VersionsFrozen
<1>1. ASSUME DataInv PROVE VersionsFrozen
  <2> SUFFICES ASSUME NEW k \in Keys, NEW t \in TS \ {0}
               PROVE  /\ store[k][t] # NoVersion => StatusAt(root[k], t) = "FREEZE_WRITE_LOCK"
                      /\ StatusAt(root[k], t) = "FREEZE_WRITE_LOCK" =>
                            \/ store[k][t] # NoVersion
                            \/ \E th \in Threads : \E i \in DOMAIN stack[th] :
                                  stack[th][i].op = "locks" /\ start_ts[stack[th][i].tid] = t
    BY DEF VersionsFrozen
  <2>1. store[k][t] # NoVersion => StatusAt(root[k], t) = "FREEZE_WRITE_LOCK"
    BY <1>1 DEF DataInv, StoreInv, StoreFrozen
  <2>2. ASSUME NEW h \in Running, Installing(h, k, t)
        PROVE  \E th \in Threads : \E i \in DOMAIN stack[th] :
                  stack[th][i].op = "locks" /\ start_ts[stack[th][i].tid] = t
    <3>1. PICK th \in Threads : h \in Tasks(th)
      BY DEF Running
    <3>2. PICK i \in 1 .. Len(stack[th]) : h = stack[th][i]
      BY <3>1 DEF Tasks, Handlers
    <3>3. i \in DOMAIN stack[th]
      BY <1>1, <3>2 DEF DataInv, ServerInv, StackOK
    <3> QED
      BY <2>2, <3>2, <3>3 DEF Installing
  <2> QED
    BY <1>1, <2>1, <2>2 DEF DataInv, StoreInv, FrozenInstalled
<1>2. ServerSpec => []DataInv
  BY DataAlways
<1> QED
  BY <1>1, <1>2, PTL

\* Under the same condition commit() is atomic for every transaction none of whose
\* requests was lost: when it has returned true all its writes are in the store
\* under its name and stay there, also when another transaction has its timestamp,
\* and when it or abort() has returned false none of them ever is.
THEOREM CommitsAreAtomic ==
    ASSUME SharedUnlock = FALSE
    PROVE  ServerSpec => []AllOrNothing
<1>1. ASSUME DataInv PROVE AllOrNothing
  <2> SUFFICES ASSUME NEW x \in Tids \ Lossy, Client!Returned(x), NEW k \in Keys
               PROVE  store[k][start_ts[x]] = x <=> vote[x] /\ k \in written[x]
    BY DEF AllOrNothing, Atomic
  <2>1. start_ts[x] \in TS
    BY <1>1, StartType DEF DataInv, ServerInv
  <2> QED
    BY <1>1, <2>1 DEF DataInv, OutcomeInv, VersionsCommitted, CommitsInstalled
<1>2. ServerSpec => []DataInv
  BY DataAlways
<1> QED
  BY <1>1, <1>2, PTL

\* Under the same condition the locks of the server's transactions are accounted
\* for, its reads protected and its blocked reads remembered.
THEOREM ServerLocksAccountedFor ==
    ASSUME SharedUnlock = FALSE
    PROVE  ServerSpec => [](ExclusiveOwners /\ LocksRecorded /\ ReadProtected /\ NoLostWakeup)
BY ServerUsesLockManager, OwnersAreExclusive, LocksAccountedFor, ReadsAreProtected,
   WakeupsAreKept, PTL
   DEF UsesLockManager
=============================================================================
