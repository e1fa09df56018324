------------------------- MODULE SimpleTServerProofs -------------------------
(***************************************************************************)
(* Proofs about the server: its types, the discipline of requests, events  *)
(* and replies between coordinators and workers, and that the server calls *)
(* the lock manager as the lock manager expects.                           *)
(***************************************************************************)
EXTENDS SimpleTServer, AVLTreeLockManagerProofs, SequenceTheorems

-----------------------------------------------------------------------------
(* What a worker runs: a task, the handler that will answer a request, and  *)
(* on top of it or alone a read event.                                      *)

IsRead(h) == h.op \in {"read0", "read1", "read2"}

Handlers(th) == {stack[th][i] : i \in 1 .. Len(stack[th])}
Tasks(th)    == {h \in Handlers(th) : ~IsRead(h)}
ReadsOf(th)  == {h \in Handlers(th) : IsRead(h)}

\* A stack has one handler, or a read event that a commit or an abort runs.
StackOK ==
    /\ stack \in [Threads -> Seq(Handler)]
    /\ \A th \in Threads :
          \/ stack[th] = <<>>
          \/ Len(stack[th]) = 1
          \/ Len(stack[th]) = 2 /\ IsRead(stack[th][1]) /\ ~IsRead(stack[th][2])

\* The stack of th changes and its handlers become the tasks T and the reads R.
StackStep(th, T, R) ==
    /\ StackOK'
    /\ Tasks(th)' = T /\ ReadsOf(th)' = R
    /\ \A o \in Threads \ {th} : Tasks(o)' = Tasks(o) /\ ReadsOf(o)' = ReadsOf(o)

\* Replacing one stack by a good one.
LEMMA StackChange ==
    ASSUME StackOK, NEW th \in Threads, NEW s \in Seq(Handler),
           stack' = [stack EXCEPT ![th] = s],
           \/ s = <<>>
           \/ Len(s) = 1
           \/ Len(s) = 2 /\ IsRead(s[1]) /\ ~IsRead(s[2])
    PROVE  StackStep(th, {h \in {s[i] : i \in 1 .. Len(s)} : ~IsRead(h)},
                         {h \in {s[i] : i \in 1 .. Len(s)} : IsRead(h)})
<1>1. /\ stack' \in [Threads -> Seq(Handler)]
      /\ stack'[th] = s
      /\ \A o \in Threads \ {th} : stack'[o] = stack[o]
  BY DEF StackOK
<1>2. StackOK'
  BY <1>1 DEF StackOK
<1> QED
  BY <1>1, <1>2 DEF StackStep, Tasks, ReadsOf, Handlers

\* A handler on top of others.
LEMMA OnTop ==
    ASSUME NEW h \in Handler, NEW s \in Seq(Handler), NEW n, n = <<h>> \o s
    PROVE  /\ n \in Seq(Handler) /\ Len(n) = Len(s) + 1
           /\ n[1] = h /\ \A i \in 1 .. Len(s) : n[i + 1] = s[i]
<1>1. <<h>> \in Seq(Handler) /\ Len(<<h>>) = 1 /\ <<h>>[1] = h /\ Len(s) \in Nat
  OBVIOUS
<1>2. /\ n \in Seq(Handler) /\ Len(n) = 1 + Len(s)
      /\ \A i \in 1 .. 1 + Len(s) : n[i] = IF i <= 1 THEN <<h>>[i] ELSE s[i - 1]
  BY <1>1, ConcatProperties
<1>3. n[1] = h
  BY <1>1, <1>2
<1>4. ASSUME NEW i \in 1 .. Len(s) PROVE n[i + 1] = s[i]
  <2>1. i + 1 \in 1 .. 1 + Len(s) /\ ~(i + 1 <= 1) /\ i + 1 - 1 = i
    BY <1>1
  <2> QED
    BY <1>2, <2>1
<1> QED
  BY <1>1, <1>2, <1>3, <1>4

\* An idle worker runs nothing.
LEMMA IdleStack ==
    ASSUME StackOK, NEW th \in Threads, stack[th] = <<>>
    PROVE  Tasks(th) = {} /\ ReadsOf(th) = {}
BY DEF Tasks, ReadsOf, Handlers

\* The first handler of a stack, and what is below it.
LEMMA TopOf ==
    ASSUME StackOK, NEW th \in Threads, stack[th] # <<>>
    PROVE  /\ Top(th) \in Handler /\ Top(th) = stack[th][1]
           /\ ~IsRead(Top(th)) =>
                 Len(stack[th]) = 1 /\ Tasks(th) = {Top(th)} /\ ReadsOf(th) = {}
           /\ IsRead(Top(th)) => ReadsOf(th) = {Top(th)}
<1>1. stack[th] \in Seq(Handler) /\ Len(stack[th]) \in {1, 2}
  BY DEF StackOK
<1>2. Top(th) \in Handler /\ Top(th) = stack[th][1]
  BY <1>1 DEF Top
<1>3. CASE Len(stack[th]) = 1
  <2>1. Handlers(th) = {Top(th)}
    BY <1>2, <1>3 DEF Handlers
  <2> QED
    BY <1>2, <1>3, <2>1 DEF Tasks, ReadsOf
<1>4. CASE Len(stack[th]) = 2
  <2>1. Handlers(th) = {Top(th), stack[th][2]}
    BY <1>2, <1>4 DEF Handlers
  <2>2. IsRead(stack[th][1]) /\ ~IsRead(stack[th][2])
    BY <1>4 DEF StackOK
  <2> QED
    BY <1>2, <1>4, <2>1, <2>2 DEF Tasks, ReadsOf
<1> QED
  BY <1>1, <1>3, <1>4

\* A worker takes a request or runs an event that a commit or abort has woken.
LEMMA PushStep ==
    ASSUME StackOK, NEW th \in Threads, NEW h \in Handler, Push(th, h)
    PROVE  /\ stack[th] = <<>> /\ IsRead(h) => StackStep(th, {}, {h})
           /\ stack[th] = <<>> /\ ~IsRead(h) => StackStep(th, {h}, {})
           /\ stack[th] # <<>> /\ IsRead(h) /\ ~IsRead(Top(th)) =>
                 StackStep(th, Tasks(th), {h})
<1> DEFINE s == <<h>> \o stack[th]
<1>1. stack[th] \in Seq(Handler)
  BY DEF StackOK
<1>2. s \in Seq(Handler) /\ stack' = [stack EXCEPT ![th] = s]
  BY <1>1 DEF Push
<1>3. CASE stack[th] = <<>>
  <2>1. Len(s) = 1 /\ s[1] = h
    BY <1>3
  <2> HIDE DEF s
  <2>2. {s[i] : i \in 1 .. Len(s)} = {h}
    BY <2>1
  <2>3. StackStep(th, {x \in {h} : ~IsRead(x)}, {x \in {h} : IsRead(x)})
    BY <1>2, <2>1, <2>2, StackChange
  <2>4. /\ IsRead(h) => {x \in {h} : ~IsRead(x)} = {} /\ {x \in {h} : IsRead(x)} = {h}
        /\ ~IsRead(h) => {x \in {h} : ~IsRead(x)} = {h} /\ {x \in {h} : IsRead(x)} = {}
    OBVIOUS
  <2> QED
    BY <1>3, <2>3, <2>4
<1>4. CASE stack[th] # <<>> /\ IsRead(h) /\ ~IsRead(Top(th))
  <2>1. /\ Len(stack[th]) = 1 /\ Top(th) = stack[th][1] /\ Tasks(th) = {Top(th)}
    BY <1>4, TopOf
  <2>2. Len(s) = 2 /\ s[1] = h /\ s[2] = Top(th)
    <3>1. /\ Len(s) = Len(stack[th]) + 1 /\ s[1] = h
          /\ \A i \in 1 .. Len(stack[th]) : s[i + 1] = stack[th][i]
      BY <1>1, OnTop
    <3> HIDE DEF s
    <3>2. s[1 + 1] = stack[th][1]
      BY <2>1, <3>1
    <3> QED
      BY <2>1, <3>1, <3>2
  <2> HIDE DEF s
  <2>3. {s[i] : i \in 1 .. Len(s)} = {h, Top(th)}
    BY <2>2
  <2>4. StackStep(th, {x \in {h, Top(th)} : ~IsRead(x)}, {x \in {h, Top(th)} : IsRead(x)})
    BY <1>2, <1>4, <2>2, <2>3, StackChange
  <2>5. /\ {x \in {h, Top(th)} : ~IsRead(x)} = Tasks(th)
        /\ {x \in {h, Top(th)} : IsRead(x)} = {h}
    BY <1>4, <2>1
  <2> QED
    BY <1>4, <2>4, <2>5
<1> QED
  BY <1>3, <1>4

\* A handler returns, or goes on as the handler h of the same kind.
LEMMA TopStep ==
    ASSUME StackOK, NEW th \in Threads, stack[th] # <<>>, NEW h \in Handler,
           IsRead(h) <=> IsRead(Top(th)),
           \/ Pop(th)
           \/ stack' = [stack EXCEPT ![th] = <<h>> \o Tail(@)]
    PROVE  /\ Pop(th) /\ IsRead(Top(th)) => StackStep(th, Tasks(th), {})
           /\ Pop(th) /\ ~IsRead(Top(th)) => StackStep(th, {}, {})
           /\ stack' = [stack EXCEPT ![th] = <<h>> \o Tail(@)] =>
                 /\ IsRead(h) => StackStep(th, Tasks(th), {h})
                 /\ ~IsRead(h) => StackStep(th, {h}, {})
<1>1. stack[th] \in Seq(Handler) /\ Len(stack[th]) \in {1, 2}
  BY DEF StackOK
<1>2. Top(th) = stack[th][1] /\ Top(th) \in Handler
  BY TopOf
<1>3. CASE Len(stack[th]) = 1
  <2>1. Tail(stack[th]) = <<>>
    <3>1. stack[th] # <<>> /\ Len(stack[th]) - 1 = 0
      BY <1>1, <1>3
    <3>2. Tail(stack[th]) \in Seq(Handler) /\ Len(Tail(stack[th])) = 0
      BY <1>1, <3>1, HeadTailProperties
    <3> QED
      BY <3>2, EmptySeq
  <2>2. Handlers(th) = {Top(th)}
    BY <1>2, <1>3 DEF Handlers
  <2>3. Pop(th) => StackStep(th, {}, {})
    <3>1. <<>> \in Seq(Handler) /\ Len(<<>>) = 0
      OBVIOUS
    <3>2. {<<>>[i] : i \in 1 .. Len(<<>>)} = {}
      BY <3>1
    <3>3. Pop(th) => stack' = [stack EXCEPT ![th] = <<>>]
      BY <2>1 DEF Pop
    <3>4. Pop(th) => StackStep(th, {x \in {} : ~IsRead(x)}, {x \in {} : IsRead(x)})
      BY <3>1, <3>2, <3>3, StackChange
    <3> QED
      BY <3>4
  <2>4. stack' = [stack EXCEPT ![th] = <<h>> \o Tail(@)] =>
            /\ IsRead(h) => StackStep(th, {}, {h})
            /\ ~IsRead(h) => StackStep(th, {h}, {})
    <3> DEFINE s == <<h>> \o Tail(stack[th])
    <3>1. Tail(stack[th]) \in Seq(Handler) /\ Len(Tail(stack[th])) = 0
      BY <1>1, <1>3, <2>1
    <3>2. s \in Seq(Handler) /\ Len(s) = 1 /\ s[1] = h
      BY <3>1, OnTop
    <3> HIDE DEF s
    <3>3. {s[i] : i \in 1 .. Len(s)} = {h}
      BY <3>2
    <3>4. stack' = [stack EXCEPT ![th] = <<h>> \o Tail(@)] =>
              StackStep(th, {x \in {h} : ~IsRead(x)}, {x \in {h} : IsRead(x)})
      BY <3>2, <3>3, StackChange DEF s
    <3> QED
      BY <3>4
  <2>5. IsRead(Top(th)) => Tasks(th) = {}
    BY <2>2 DEF Tasks
  <2> QED
    BY <2>3, <2>4, <2>5
<1>4. CASE Len(stack[th]) = 2
  <2> DEFINE b == stack[th][2]
  <2>1. IsRead(stack[th][1]) /\ ~IsRead(b) /\ b \in Handler
    BY <1>1, <1>4 DEF StackOK
  <2>2. Handlers(th) = {Top(th), b}
    BY <1>2, <1>4 DEF Handlers
  <2>3. Tasks(th) = {b}
    BY <1>2, <2>1, <2>2 DEF Tasks
  <2>4. /\ Tail(stack[th]) \in Seq(Handler)
        /\ Len(Tail(stack[th])) = 1 /\ Tail(stack[th])[1] = b
    BY <1>1, <1>4
  <2> HIDE DEF b
  <2>5. Pop(th) => StackStep(th, {b}, {})
    <3> DEFINE s == Tail(stack[th])
    <3>1. {s[i] : i \in 1 .. Len(s)} = {b}
      BY <2>4
    <3>2. Pop(th) => stack' = [stack EXCEPT ![th] = s]
      BY DEF Pop
    <3>3. Pop(th) => StackStep(th, {x \in {b} : ~IsRead(x)}, {x \in {b} : IsRead(x)})
      BY <2>4, <3>1, <3>2, StackChange
    <3> QED
      BY <2>1, <3>3
  <2>6. stack' = [stack EXCEPT ![th] = <<h>> \o Tail(@)] => StackStep(th, {b}, {h})
    <3> DEFINE s == <<h>> \o Tail(stack[th])
    <3>1. s \in Seq(Handler) /\ Len(s) = 2 /\ s[1] = h /\ s[2] = b
      BY <2>4, OnTop
    <3> HIDE DEF s
    <3>2. {s[i] : i \in 1 .. Len(s)} = {h, b}
      BY <3>1
    <3>3. IsRead(h)
      BY <1>2, <2>1
    <3>4. stack' = [stack EXCEPT ![th] = <<h>> \o Tail(@)] =>
              StackStep(th, {x \in {h, b} : ~IsRead(x)}, {x \in {h, b} : IsRead(x)})
      BY <2>1, <3>1, <3>2, <3>3, StackChange DEF s
    <3>5. {x \in {h, b} : ~IsRead(x)} = {b} /\ {x \in {h, b} : IsRead(x)} = {h}
      BY <2>1, <3>3
    <3> QED
      BY <3>4, <3>5
  <2> QED
    BY <1>2, <2>1, <2>3, <2>5, <2>6
<1> QED
  BY <1>1, <1>3, <1>4

\* A task goes on as the task h.
LEMMA ChangeTop ==
    ASSUME StackOK, NEW th \in Threads, stack[th] # <<>>, ~IsRead(Top(th)),
           NEW h \in Handler, ~IsRead(h),
           stack' = [stack EXCEPT ![th][1] = h]
    PROVE  StackStep(th, {h}, {})
<1> DEFINE s == [stack[th] EXCEPT ![1] = h]
<1>1. stack[th] \in Seq(Handler) /\ Len(stack[th]) = 1
  BY TopOf DEF StackOK
<1>2. s \in Seq(Handler) /\ Len(s) = 1 /\ s[1] = h
  BY <1>1
<1>3. stack' = [stack EXCEPT ![th] = s]
  OBVIOUS
<1> HIDE DEF s
<1>4. {s[i] : i \in 1 .. Len(s)} = {h}
  BY <1>2
<1>5. StackStep(th, {x \in {h} : ~IsRead(x)}, {x \in {h} : IsRead(x)})
  BY <1>2, <1>3, <1>4, StackChange
<1> QED
  BY <1>5

-----------------------------------------------------------------------------
(* Requests, events and replies                                             *)

CallType ==
    {NoCall} \cup [type : {"TREAD", "TWRITE"}, key : Keys] \cup [type : {"TP1C", "TP2C"}]

ClientTypeOK ==
    /\ start_ts \in [Tids -> StartTimes]
    /\ read_nodes \in [Tids -> SUBSET {0}]
    /\ write_nodes \in [Tids -> SUBSET {0}]
    /\ written \in [Tids -> SUBSET Keys]
    /\ stage \in [Tids -> {"running", "commit", "abort", "end"}]
    /\ vote \in [Tids -> BOOLEAN]
    /\ call \in [Tids -> CallType]
    /\ queued \subseteq Tids
    /\ asked \in [Tids -> SUBSET Keys]

\* A task answers the request its transaction waits for.  freeze or unlock has
\* been called for it when its locks are being given up, and not before.
Serves(h) ==
    /\ h.tid \notin queued
    /\ call[h.tid] # NoCall
    /\ h.op = "write" => h.key \in Keys /\ call[h.tid] = [type |-> "TWRITE", key |-> h.key]
    /\ h.op \in {"p1c", "refused"} => call[h.tid].type = "TP1C"
    /\ h.op \in {"p2c", "locks"} => call[h.tid].type = "TP2C"
    /\ h.op = "p2c" => h.tid \notin finished
    /\ h.op = "locks" => h.tid \in finished

\* A read event runs for a read the server has taken.
ReadArgs(h) == h.key \in Keys /\ h.n \in 1 .. MaxTs /\ read_ts[<<h.tid, h.key>>] # 0

TasksOK == \A th \in Threads : \A h \in Tasks(th) : Serves(h)
ReadsOK == \A th \in Threads : \A h \in ReadsOf(th) : ReadArgs(h)

\* A request is answered by one task.
OneTask ==
    \A th, other \in Threads : \A h \in Tasks(th), g \in Tasks(other) :
        h.tid = g.tid => th = other

\* What a coordinator waits for is what its program has asked.
StageOK(x) ==
    /\ call[x].type \in {"TREAD", "TWRITE"} => stage[x] = "running"
    /\ call[x].type = "TP1C" => stage[x] \in {"commit", "abort"}
    /\ call[x].type = "TP2C" => stage[x] = "end"
    /\ x \in queued => call[x] # NoCall
    /\ x \in finished => stage[x] = "end" /\ x \notin queued

StagesOK == \A x \in Tids : StageOK(x)

\* The event of a read that has not been answered: its coordinator waits for it,
\* and no task answers in its place.
LiveRead(x, k) ==
    read_ts[<<x, k>>] # 0 /\ phase[<<x, k>>] < 2 =>
        /\ call[x] = [type |-> "TREAD", key |-> k]
        /\ x \notin queued
        /\ \A th \in Threads : \A h \in Tasks(th) : h.tid # x

ReadsLive == \A x \in Tids, k \in Keys : LiveRead(x, k)

\* Only reads the server has taken are registered, or collected to be run.
Registered ==
    /\ \A k \in Keys, t \in TS : \A x \in events[k][t] : read_ts[<<x, k>>] # 0
    /\ \A th \in Threads : \A e \in fired[th] : read_ts[e] # 0

\* A thread in freeze or unlock runs the second phase that called it.
CallersOK ==
    \A th \in Threads : pc[th] # "idle" =>
        \E h \in Tasks(th) : h.op = "locks" /\ h.tid = arg[th]

Discipline ==
    TasksOK /\ ReadsOK /\ OneTask /\ StagesOK /\ ReadsLive /\ Registered /\ CallersOK

\* The inductive invariant.
ServerInv == TableInv /\ ClientTypeOK /\ ServerTypeOK /\ StackOK /\ Discipline

\* A handler's fields.
LEMMA HandlerFields ==
    ASSUME NEW h \in Handler
    PROVE  /\ h.tid \in Tids /\ h.key \in Keys \cup {0} /\ h.n \in Nat
           /\ h.op \in {"read0", "read1", "read2", "write", "p1c", "refused", "p2c", "locks",
                        "stuck"}
BY DEF Handler

\* The handlers of a stack are handlers.
LEMMA HandlersType ==
    ASSUME StackOK, NEW th \in Threads
    PROVE  Tasks(th) \subseteq Handler /\ ReadsOf(th) \subseteq Handler
<1>1. stack[th] \in Seq(Handler)
  BY DEF StackOK
<1> QED
  BY <1>1 DEF Tasks, ReadsOf, Handlers

\* The handlers the server makes.
LEMMA NewHandlerType ==
    ASSUME NEW tid \in Tids, NEW key \in Keys \cup {0},
           NEW op \in {"write", "p1c", "p2c", "stuck"}
    PROVE  /\ NewHandler(op, tid, key) \in Handler /\ ~IsRead(NewHandler(op, tid, key))
           /\ NewHandler(op, tid, key).tid = tid /\ NewHandler(op, tid, key).op = op
           /\ NewHandler(op, tid, key).key = key /\ NewHandler(op, tid, key).n = 0
BY DEF NewHandler, Handler, IsRead

LEMMA ReadHandlerType ==
    ASSUME NEW x \in Tids, NEW k \in Keys, NEW ph, NEW ts \in Nat
    PROVE  /\ ReadHandler(<<x, k>>, ph, ts) \in Handler /\ IsRead(ReadHandler(<<x, k>>, ph, ts))
           /\ ReadHandler(<<x, k>>, ph, ts).tid = x /\ ReadHandler(<<x, k>>, ph, ts).key = k
           /\ ReadHandler(<<x, k>>, ph, ts).n = ts
BY DEF ReadHandler, Handler, IsRead

\* What an action finds on top of the stack when it runs.
LEMMA RunsTask ==
    ASSUME ServerInv, NEW th \in Threads, NEW op, Runs(th, op),
           op \notin {"read0", "read1", "read2"}
    PROVE  /\ stack[th] # <<>> /\ Top(th) \in Handler /\ ~IsRead(Top(th)) /\ Top(th).op = op
           /\ Top(th) = stack[th][1] /\ Tasks(th) = {Top(th)} /\ ReadsOf(th) = {}
           /\ Top(th).tid \in Tids /\ Serves(Top(th))
<1>1. stack[th] # <<>> /\ Top(th).op = op /\ ~IsRead(Top(th))
  BY DEF Runs, Top, IsRead
<1> QED
  BY <1>1, TopOf, HandlerFields DEF ServerInv, Discipline, TasksOK

LEMMA RunsRead ==
    ASSUME ServerInv, NEW th \in Threads, NEW op, Runs(th, op),
           op \in {"read0", "read1", "read2"}
    PROVE  /\ stack[th] # <<>> /\ Top(th) \in Handler /\ IsRead(Top(th)) /\ Top(th).op = op
           /\ ReadsOf(th) = {Top(th)}
           /\ Top(th).tid \in Tids /\ ReadArgs(Top(th))
<1>1. stack[th] # <<>> /\ Top(th).op = op /\ IsRead(Top(th))
  BY DEF Runs, Top, IsRead
<1> QED
  BY <1>1, TopOf, HandlerFields DEF ServerInv, Discipline, ReadsOK

-----------------------------------------------------------------------------
(* The calls of the lock manager                                            *)

\* The timestamp of a transaction is one that requests are made at.
LEMMA StartType ==
    ASSUME ClientTypeOK, NEW x \in Tids
    PROVE  start_ts[x] \in Times /\ start_ts[x] \in 1 .. MaxTs /\ start_ts[x] \in TS
<1>1. start_ts[x] \in StartTimes
  BY DEF ClientTypeOK
<1>2. start_ts[x] \in 1 .. MaxTs - 1
  BY <1>1, ServerAssumption
<1> QED
  BY <1>2, ServerAssumption, MaxTsAssumption DEF TS

\* readLock asks for times the lock manager has.
LEMMA ReadLockCall ==
    ASSUME ServerInv, NEW th \in Threads, readLock(th)
    PROVE  LET h  == Top(th)
               ts == h.n - 1
           IN  /\ h.tid \in Tids /\ h.key \in Keys /\ h.n \in 1 .. MaxTs /\ ts \in Times
               /\ read_ts[<<h.tid, h.key>>] # 0
               /\ IsRead(h) /\ ReadsOf(th) = {h}
               /\ tryBackwardLock(h.key, h.tid, ts, TRUE)
               /\ Next
<1> DEFINE h  == Top(th)
           ts == h.n - 1
<1>1. Runs(th, "read0") /\ tryBackwardLock(h.key, h.tid, ts, TRUE)
  BY DEF readLock
<1>2. /\ h.tid \in Tids /\ ReadArgs(h) /\ IsRead(h) /\ ReadsOf(th) = {h}
  BY <1>1, RunsRead
<1> HIDE DEF h
<1>3. ts \in Times
  BY <1>2, ServerAssumption, MaxTsAssumption DEF ReadArgs
<1>4. Lock(h.key, h.tid)
  BY <1>1, <1>2, <1>3, ServerAssumption DEF Lock, ReadArgs
<1>5. Next
  BY <1>2, <1>4 DEF Next, ReadArgs
<1> QED
  BY <1>1, <1>2, <1>3, <1>5 DEF ReadArgs, h

\* A transaction that prepares, or starts its second phase, has not finished.
LEMMA P1CLockCall ==
    ASSUME ServerInv, NEW th \in Threads, p1cLock(th)
    PROVE  LET x == Top(th).tid
               n == Top(th).n + 1
           IN  /\ x \in Tids /\ n \in 1 .. Len(pend_writes[x]) /\ pend_writes[x][n] \in Keys
               /\ x \notin finished /\ start_ts[x] \in Times
               /\ tryLock(pend_writes[x][n], x, start_ts[x], FALSE)
               /\ Next
<1> DEFINE x == Top(th).tid
           n == Top(th).n + 1
           k == pend_writes[x][n]
<1>1. /\ Runs(th, "p1c") /\ n <= Len(pend_writes[x])
      /\ tryLock(k, x, start_ts[x], FALSE)
  BY DEF p1cLock
<1>2. Top(th) \in Handler /\ x \in Tids /\ Serves(Top(th)) /\ Top(th).op = "p1c"
  BY <1>1, RunsTask
<1>3. x \notin finished
  BY <1>2 DEF Serves, ServerInv, Discipline, StagesOK, StageOK
<1>4. n \in Nat /\ 1 <= n
  BY <1>2, HandlerFields
<1>5. pend_writes[x] \in Seq(Keys)
  BY <1>2 DEF ServerInv, ServerTypeOK
<1> HIDE DEF x, n
<1>6. n \in 1 .. Len(pend_writes[x])
  <2>1. Len(pend_writes[x]) \in Nat
    BY <1>5
  <2> QED
    BY <1>1, <1>4, <2>1
<1>7. k \in Keys
  <2>1. pend_writes[x] \in [1 .. Len(pend_writes[x]) -> Keys]
    BY <1>5, LenProperties
  <2> QED
    BY <1>6, <2>1
<1>8. start_ts[x] \in Times
  BY <1>2, StartType DEF ServerInv
<1> HIDE DEF k
<1>9. Lock(k, x)
  BY <1>1, <1>3, <1>8, ServerAssumption DEF Lock, Active
<1>10. Next
  BY <1>2, <1>7, <1>9 DEF Next
<1> QED
  BY <1>1, <1>2, <1>3, <1>6, <1>7, <1>8, <1>10 DEF x, n, k

LEMMA P2CStartCall ==
    ASSUME ServerInv, NEW th \in Threads, p2cStart(th)
    PROVE  Next
<1> DEFINE x == Top(th).tid
<1>1. Runs(th, "p2c") /\ (beginFreeze(th, x) \/ beginUnlock(th, x))
  BY DEF p2cStart
<1>2. x \in Tids /\ x \notin finished
  BY <1>1, RunsTask DEF Serves
<1>3. Active(x)
  BY <1>2, ServerAssumption DEF Active
<1>4. Finish(th)
  BY <1>1, <1>2, <1>3 DEF Finish
<1> QED
  BY <1>4 DEF Next

\* Every step of the server is one the lock manager expects, or none of its.
LEMMA UsesStep ==
    ASSUME ServerInv, [ServerNext]_allVars
    PROVE  [Next]_vars
<1>1. ASSUME NEW th \in Threads, Worker(th) PROVE [Next]_vars
  <2>1. CASE getEvent(th)
    BY <2>1 DEF getEvent, getRead, getWrite, getP1C, getP2C, getUnknown, getStuck, Dispatch
  <2>2. CASE readLock(th)
    BY <2>2, ReadLockCall
  <2>3. CASE p1cLock(th)
    BY <2>3, P1CLockCall
  <2>4. CASE p2cStart(th)
    BY <2>4, P2CStartCall
  <2>5. CASE p2cLocks(th)
    <3>1. Finish(th)
      BY <2>5 DEF p2cLocks, Finish
    <3> QED
      BY <3>1 DEF Next
  <2>6. CASE p2cWake(th)
    <3>1. Finish(th)
      BY <2>6 DEF p2cWake, Finish
    <3> QED
      BY <3>1 DEF Next
  <2>7. CASE readValue(th) \/ readExit(th) \/ writeRun(th) \/ p1cVote(th) \/ p2cFinalize(th)
    BY <2>7 DEF readValue, readExit, writeRun, p1cVote, p2cFinalize
  <2> QED
    BY <1>1, <2>1, <2>2, <2>3, <2>4, <2>5, <2>6, <2>7 DEF Worker
<1>2. ASSUME NEW tid \in Tids, ClientStep(tid) PROVE [Next]_vars
  BY <1>2 DEF ClientStep
<1>3. CASE UNCHANGED allVars
  BY <1>3 DEF allVars
<1> QED
  BY <1>1, <1>2, <1>3 DEF ServerNext

-----------------------------------------------------------------------------
(* How the discipline is kept                                               *)

\* The invariant but for the tables and the variables only the server has.
Kept == ClientTypeOK /\ StackOK /\ Discipline

\* A worker takes a request as the task h.
LEMMA TakeTask ==
    ASSUME ServerInv, NEW th \in Threads, NEW tid \in queued, NEW h \in Handler,
           ~IsRead(h), h.tid = tid, stack[th] = <<>>, Push(th, h),
           h.op = "write" => h.key \in Keys /\ call[tid] = [type |-> "TWRITE", key |-> h.key],
           h.op \in {"p1c", "refused"} => call[tid].type = "TP1C",
           h.op \in {"p2c", "locks"} => call[tid].type = "TP2C",
           h.op # "locks",
           queued' = queued \ {tid},
           UNCHANGED <<vars, progVars, vote, call, eventVars>>
    PROVE  Kept'
<1>1. StackStep(th, {h}, {}) /\ Tasks(th) = {} /\ ReadsOf(th) = {}
  BY PushStep, IdleStack DEF ServerInv
<1>2. /\ \A o \in Threads : \A g \in Tasks(o)' : g \in Tasks(o) \/ (o = th /\ g = h)
      /\ \A o \in Threads : Tasks(o) \subseteq Tasks(o)' /\ ReadsOf(o)' = ReadsOf(o)
  BY <1>1 DEF StackStep
<1>3. tid \in Tids /\ call[tid] # NoCall /\ tid \notin finished
  BY DEF ServerInv, ClientTypeOK, Discipline, StagesOK, StageOK
<1>4. \A o \in Threads : \A g \in Tasks(o) : g.tid # tid
  BY DEF ServerInv, Discipline, TasksOK, Serves
<1>5. ClientTypeOK'
  BY DEF ServerInv, ClientTypeOK, progVars
<1>6. TasksOK'
  <2> SUFFICES ASSUME NEW o \in Threads, NEW g \in Tasks(o)' PROVE Serves(g)'
    BY DEF TasksOK
  <2>1. UNCHANGED <<call, finished>>
    BY DEF vars, historyVars
  <2>2. CASE g \in Tasks(o)
    BY <2>1, <2>2 DEF ServerInv, Discipline, TasksOK, Serves
  <2>3. CASE g = h
    BY <1>3, <2>1, <2>3 DEF Serves
  <2> QED
    BY <1>2, <2>2, <2>3
<1>7. ReadsOK'
  BY <1>2 DEF ServerInv, Discipline, ReadsOK, ReadArgs, eventVars
<1>8. OneTask'
  BY <1>2, <1>4 DEF ServerInv, Discipline, OneTask
<1>9. StagesOK'
  BY DEF ServerInv, Discipline, StagesOK, StageOK, progVars, vars, historyVars
<1>10. ReadsLive'
  BY <1>2 DEF ServerInv, Discipline, ReadsLive, LiveRead, eventVars
<1>11. Registered'
  BY DEF ServerInv, Discipline, Registered, eventVars, vars, tableVars, threadVars
<1>12. CallersOK'
  BY <1>2 DEF ServerInv, Discipline, CallersOK, vars, threadVars
<1> QED
  BY <1>1, <1>5, <1>6, <1>7, <1>8, <1>9, <1>10, <1>11, <1>12 DEF StackStep, Kept, Discipline

\* A task answers its request and returns.
LEMMA ReplyTask ==
    ASSUME ServerInv, NEW th \in Threads, stack[th] # <<>>, ~IsRead(Top(th)),
           pc[th] = "idle", sendReply(Top(th).tid), Pop(th),
           vote' \in [Tids -> BOOLEAN],
           UNCHANGED <<vars, eventVars>>
    PROVE  Kept'
<1> DEFINE h == Top(th)
           x == h.tid
<1>1. h \in Handler /\ Tasks(th) = {h} /\ ReadsOf(th) = {}
  BY TopOf DEF ServerInv
<1>2. StackStep(th, {}, {})
  BY <1>1, TopStep DEF ServerInv
<1>3. /\ \A o \in Threads : Tasks(o)' \subseteq Tasks(o) /\ ReadsOf(o)' = ReadsOf(o)
      /\ \A o \in Threads \ {th} : Tasks(o)' = Tasks(o)
      /\ Tasks(th)' = {}
  BY <1>1, <1>2 DEF StackStep
<1>4. /\ call' = [call EXCEPT ![x] = NoCall]
      /\ UNCHANGED <<progVars, queued>>
  BY DEF sendReply
<1>5. x \in Tids /\ Serves(h) /\ h \in Tasks(th)
  BY <1>1, HandlerFields DEF ServerInv, Discipline, TasksOK
<1>6. \A o \in Threads \ {th} : \A g \in Tasks(o) : g.tid # x
  BY <1>5 DEF ServerInv, Discipline, OneTask
<1> HIDE DEF h, x
<1>7. /\ NoCall \in CallType
      /\ call \in [Tids -> CallType]
  BY DEF CallType, ServerInv, ClientTypeOK
<1>8. /\ call'[x] = NoCall
      /\ \A y \in Tids \ {x} : call'[y] = call[y]
      /\ call' \in [Tids -> CallType]
  BY <1>4, <1>5, <1>7
<1>9. ClientTypeOK'
  BY <1>4, <1>8 DEF ServerInv, ClientTypeOK, progVars
<1>10. TasksOK'
  <2> SUFFICES ASSUME NEW o \in Threads, NEW g \in Tasks(o)' PROVE Serves(g)'
    BY DEF TasksOK
  <2>1. o # th /\ g \in Tasks(o) /\ g.tid # x /\ Serves(g)
    BY <1>3, <1>6 DEF ServerInv, Discipline, TasksOK
  <2>2. g.tid \in Tids
    BY <2>1, HandlersType, HandlerFields DEF ServerInv
  <2>3. call'[g.tid] = call[g.tid]
    BY <1>8, <2>1, <2>2
  <2> QED
    BY <1>4, <2>1, <2>3 DEF Serves, vars, historyVars
<1>11. ReadsOK'
  BY <1>3 DEF ServerInv, Discipline, ReadsOK, ReadArgs, eventVars
<1>12. OneTask'
  BY <1>3 DEF ServerInv, Discipline, OneTask
<1>13. x \notin queued
  BY <1>5 DEF Serves, x
<1>14. StagesOK'
  <2> SUFFICES ASSUME NEW y \in Tids PROVE StageOK(y)'
    BY DEF StagesOK
  <2>1. StageOK(y) /\ stage' = stage /\ queued' = queued /\ finished' = finished
    BY <1>4 DEF ServerInv, Discipline, StagesOK, progVars, vars, historyVars
  <2>2. CASE y = x
    <3>1. call'[y].type = "none"
      BY <1>8, <2>2 DEF NoCall, Client!NoCall
    <3> QED
      BY <1>13, <2>1, <2>2, <3>1 DEF StageOK
  <2>3. CASE y # x
    BY <1>8, <2>1, <2>3 DEF StageOK
  <2> QED
    BY <2>2, <2>3
<1>15. ReadsLive'
  <2> SUFFICES ASSUME NEW y \in Tids, NEW k \in Keys,
                      read_ts[<<y, k>>] # 0, phase[<<y, k>>] < 2
               PROVE  /\ call'[y] = [type |-> "TREAD", key |-> k]
                      /\ y \notin queued'
                      /\ \A o \in Threads : \A g \in Tasks(o)' : g.tid # y
    BY DEF ReadsLive, LiveRead, eventVars
  <2>1. /\ call[y] = [type |-> "TREAD", key |-> k] /\ y \notin queued
        /\ \A o \in Threads : \A g \in Tasks(o) : g.tid # y
    BY DEF ServerInv, Discipline, ReadsLive, LiveRead
  <2>2. y # x
    BY <1>5, <2>1 DEF x
  <2> QED
    BY <1>3, <1>4, <1>8, <2>1, <2>2
<1>16. Registered'
  BY DEF ServerInv, Discipline, Registered, eventVars, vars, tableVars, threadVars
<1>17. CallersOK'
  BY <1>3 DEF ServerInv, Discipline, CallersOK, vars, threadVars
<1> QED
  BY <1>2, <1>9, <1>10, <1>11, <1>12, <1>14, <1>15, <1>16, <1>17
    DEF StackStep, Kept, Discipline

\* A step that answers nothing and starts no read.
LEMMA QuietStep ==
    ASSUME ServerInv, StackOK', CallersOK', Registered',
           vote' \in [Tids -> BOOLEAN],
           \A th \in Threads : Tasks(th)' = Tasks(th),
           \A th \in Threads : \A h \in ReadsOf(th)' : h \in ReadsOf(th) \/ ReadArgs(h)',
           \A e \in Request : read_ts[e] # 0 => read_ts'[e] # 0,
           \A e \in Request : read_ts'[e] # 0 /\ phase'[e] < 2 => read_ts[e] # 0 /\ phase[e] < 2,
           UNCHANGED <<progVars, call, queued, finished>>
    PROVE  Kept'
<1>1. ClientTypeOK'
  BY DEF ServerInv, ClientTypeOK, progVars
<1>2. TasksOK' /\ OneTask'
  BY DEF ServerInv, Discipline, TasksOK, OneTask, Serves
<1>3. ReadsOK'
  <2> SUFFICES ASSUME NEW th \in Threads, NEW h \in ReadsOf(th), ReadArgs(h)
               PROVE  ReadArgs(h)'
    BY DEF ReadsOK, ServerInv, Discipline
  <2>1. h.tid \in Tids
    BY HandlersType, HandlerFields DEF ServerInv
  <2>2. <<h.tid, h.key>> \in Request
    BY <2>1 DEF ReadArgs, Request
  <2> QED
    BY <2>2 DEF ReadArgs
<1>4. StagesOK'
  BY DEF ServerInv, Discipline, StagesOK, StageOK, progVars
<1>5. ReadsLive'
  <2>1. \A x \in Tids, k \in Keys : <<x, k>> \in Request
    BY DEF Request
  <2> QED
    BY <2>1 DEF ServerInv, Discipline, ReadsLive, LiveRead
<1> QED
  BY <1>1, <1>2, <1>3, <1>4, <1>5 DEF Kept, Discipline

\* The first phase goes on as the task h.
LEMMA GoOnTask ==
    ASSUME ServerInv, NEW th \in Threads, stack[th] # <<>>, ~IsRead(Top(th)),
           Top(th).op = "p1c", NEW h \in Handler, h.op \in {"p1c", "refused"},
           h.tid = Top(th).tid, stack' = [stack EXCEPT ![th][1] = h],
           Registered',
           UNCHANGED <<clientVars, eventVars, pc, arg, finished>>
    PROVE  Kept'
<1>1. Tasks(th) = {Top(th)} /\ ReadsOf(th) = {}
  BY TopOf DEF ServerInv
<1>2. StackStep(th, {h}, {})
  BY ChangeTop DEF ServerInv, IsRead
<1>3. /\ \A o \in Threads : ReadsOf(o)' = ReadsOf(o)
      /\ \A o \in Threads \ {th} : Tasks(o)' = Tasks(o)
      /\ Tasks(th)' = {h}
  BY <1>1, <1>2 DEF StackStep
<1>4. UNCHANGED <<call, queued, vote, start_ts, stage, read_ts, phase>>
  BY DEF clientVars, progVars, eventVars
<1>5. ClientTypeOK'
  BY DEF ServerInv, ClientTypeOK, clientVars, progVars
<1>6. TasksOK'
  <2>1. Serves(Top(th))
    BY <1>1 DEF ServerInv, Discipline, TasksOK
  <2>2. Serves(h)'
    BY <1>4, <2>1 DEF Serves
  <2>3. ASSUME NEW o \in Threads \ {th}, NEW g \in Tasks(o) PROVE Serves(g)'
    BY <1>4 DEF ServerInv, Discipline, TasksOK, Serves
  <2> QED
    BY <1>3, <2>2, <2>3 DEF TasksOK
<1>7. ReadsOK'
  BY <1>3, <1>4 DEF ServerInv, Discipline, ReadsOK, ReadArgs
<1>8. OneTask'
  BY <1>1, <1>3 DEF ServerInv, Discipline, OneTask
<1>9. StagesOK'
  BY <1>4 DEF ServerInv, Discipline, StagesOK, StageOK
<1>10. ReadsLive'
  BY <1>1, <1>3, <1>4 DEF ServerInv, Discipline, ReadsLive, LiveRead
<1>11. CallersOK'
  BY <1>1, <1>3 DEF ServerInv, Discipline, CallersOK
<1> QED
  BY <1>2, <1>5, <1>6, <1>7, <1>8, <1>9, <1>10, <1>11 DEF StackStep, Kept, Discipline

\* What the events registered on a key belong to, after a call of the lock manager.
LEMMA RegisteredStep ==
    ASSUME ServerInv, NEW x \in Tids, NEW k \in Keys, read_ts'[<<x, k>>] # 0,
           \A e \in Request : read_ts[e] # 0 => read_ts'[e] # 0,
           \A key \in Keys, t \in TS : \A y \in events'[key][t] :
               y \in events[key][t] \/ (y = x /\ key = k),
           \A th \in Threads : fired'[th] \subseteq fired[th]
    PROVE  Registered'
<1>1. ASSUME NEW key \in Keys, NEW t \in TS, NEW y \in events'[key][t]
      PROVE  read_ts'[<<y, key>>] # 0
  <2>1. CASE y \in events[key][t]
    <3>1. y \in Tids /\ read_ts[<<y, key>>] # 0
      BY <2>1 DEF ServerInv, TableInv, TypeOK, Discipline, Registered
    <3> QED
      BY <3>1 DEF Request
  <2> QED
    BY <1>1, <2>1
<1>2. ASSUME NEW th \in Threads, NEW e \in fired'[th] PROVE read_ts'[e] # 0
  BY <1>2 DEF ServerInv, TableInv, TypeOK, Discipline, Registered
<1> QED
  BY <1>1, <1>2 DEF Registered

-----------------------------------------------------------------------------
(* The steps of a worker                                                    *)

\* A request to read or write has a key.
LEMMA CallFields ==
    ASSUME ClientTypeOK, NEW x \in Tids, call[x].type \in {"TREAD", "TWRITE"}
    PROVE  call[x].key \in Keys /\ call[x] = [type |-> call[x].type, key |-> call[x].key]
<1>1. call[x] \in CallType
  BY DEF ClientTypeOK
<1>2. call[x] # NoCall
  BY DEF NoCall, Client!NoCall
<1> QED
  BY <1>1, <1>2 DEF CallType

LEMMA GetRead ==
    ASSUME ServerInv, NEW th \in Threads, NEW tid \in Tids, getRead(th, tid)
    PROVE  Kept' /\ ServerTypeOK'
<1> DEFINE k == call[tid].key
           e == <<tid, k>>
           h == ReadHandler(e, 0, start_ts[tid])
<1>1. /\ stack[th] = <<>> /\ tid \in queued /\ call[tid].type = "TREAD"
      /\ tid_to_nodes' = tid_to_nodes \cup {tid}
      /\ read_ts' = [read_ts EXCEPT ![e] = start_ts[tid]]
      /\ phase' = [phase EXCEPT ![e] = 0]
      /\ queued' = queued \ {tid} /\ Push(th, h)
      /\ UNCHANGED <<vars, progVars, vote, call, leaked, dataVars, crashed, reads>>
      /\ UNCHANGED tid_to_write_nodes
  BY DEF getRead, Dispatch, Takes
<1>2. /\ k \in Keys /\ call[tid] = [type |-> "TREAD", key |-> k]
      /\ start_ts[tid] \in 1 .. MaxTs /\ start_ts[tid] \in TS
  BY <1>1, CallFields, StartType DEF ServerInv
<1>3. /\ h \in Handler /\ IsRead(h) /\ h.tid = tid /\ h.key = k /\ h.n = start_ts[tid]
      /\ e \in Request
  BY <1>2, ReadHandlerType DEF Request
<1>4. StackStep(th, {}, {h}) /\ Tasks(th) = {} /\ ReadsOf(th) = {}
  BY <1>1, <1>3, PushStep, IdleStack DEF ServerInv
<1>5. /\ \A o \in Threads : Tasks(o)' = Tasks(o)
      /\ \A o \in Threads : \A g \in ReadsOf(o)' : g \in ReadsOf(o) \/ g = h
  BY <1>4 DEF StackStep
<1> HIDE DEF h
<1>6. /\ phase \in [Request -> 0 .. 2] /\ read_ts \in [Request -> TS]
  BY DEF ServerInv, ServerTypeOK
<1>7. /\ phase' \in [Request -> 0 .. 2] /\ read_ts' \in [Request -> TS]
      /\ read_ts'[e] = start_ts[tid]
      /\ \A r \in Request : r # e => read_ts'[r] = read_ts[r] /\ phase'[r] = phase[r]
      /\ \A r \in Request : read_ts[r] # 0 => read_ts'[r] # 0
  BY <1>1, <1>2, <1>3, <1>6
<1> HIDE DEF e
<1>8. \A o \in Threads : \A g \in Tasks(o) : g.tid # tid
  BY <1>1 DEF ServerInv, Discipline, TasksOK, Serves
<1>9. TasksOK' /\ OneTask'
  BY <1>1, <1>5 DEF ServerInv, Discipline, TasksOK, OneTask, Serves, vars, historyVars
<1>10. ReadsOK'
  <2> SUFFICES ASSUME NEW o \in Threads, NEW g \in ReadsOf(o)' PROVE ReadArgs(g)'
    BY DEF ReadsOK
  <2>1. CASE g = h
    BY <1>2, <1>3, <1>7, <2>1 DEF ReadArgs, e
  <2>2. CASE g \in ReadsOf(o)
    <3>1. ReadArgs(g) /\ g.tid \in Tids
      BY <2>2, HandlersType, HandlerFields DEF ServerInv, Discipline, ReadsOK
    <3>2. <<g.tid, g.key>> \in Request
      BY <3>1 DEF ReadArgs, Request
    <3> QED
      BY <1>7, <3>1, <3>2 DEF ReadArgs
  <2> QED
    BY <1>5, <2>1, <2>2
<1>11. StagesOK'
  BY <1>1 DEF ServerInv, Discipline, StagesOK, StageOK, progVars, vars, historyVars
<1>12. ReadsLive'
  <2> SUFFICES ASSUME NEW y \in Tids, NEW j \in Keys,
                      read_ts'[<<y, j>>] # 0, phase'[<<y, j>>] < 2
               PROVE  /\ call[y] = [type |-> "TREAD", key |-> j]
                      /\ y \notin queued'
                      /\ \A o \in Threads : \A g \in Tasks(o) : g.tid # y
    BY <1>1, <1>5 DEF ReadsLive, LiveRead
  <2>1. CASE <<y, j>> = e
    <3>1. y = tid /\ j = k
      BY <2>1 DEF e
    <3> QED
      BY <1>1, <1>2, <1>8, <3>1
  <2>2. CASE <<y, j>> # e
    <3>1. <<y, j>> \in Request
      BY DEF Request
    <3>2. LiveRead(y, j) /\ read_ts[<<y, j>>] # 0 /\ phase[<<y, j>>] < 2
      BY <1>7, <2>2, <3>1 DEF ServerInv, Discipline, ReadsLive
    <3> QED
      BY <1>1, <3>2 DEF LiveRead
  <2> QED
    BY <2>1, <2>2
<1>13. Registered'
  <2>1. UNCHANGED <<events, fired>>
    BY <1>1 DEF vars, tableVars, threadVars
  <2> QED
    BY <1>2, <1>3, <1>7, <2>1, RegisteredStep DEF e
<1>14. CallersOK'
  BY <1>1, <1>5 DEF ServerInv, Discipline, CallersOK, vars, threadVars
<1>15. ClientTypeOK'
  BY <1>1 DEF ServerInv, ClientTypeOK, progVars
<1>16. ServerTypeOK'
  BY <1>1, <1>4, <1>7 DEF ServerInv, ServerTypeOK, StackStep, StackOK, dataVars
<1> QED
  BY <1>4, <1>9, <1>10, <1>11, <1>12, <1>13, <1>14, <1>15, <1>16
    DEF StackStep, Kept, Discipline

LEMMA GetTask ==
    ASSUME ServerInv, NEW th \in Threads, NEW tid \in Tids,
           \/ getWrite(th, tid) \/ getP1C(th, tid) \/ getP2C(th, tid) \/ getStuck(th, tid)
    PROVE  Kept' /\ ServerTypeOK'
<1>1. PICK op \in {"write", "p1c", "p2c", "stuck"}, key \in Keys \cup {0} :
          /\ Dispatch(th, tid, NewHandler(op, tid, key))
          /\ stack[th] = <<>> /\ tid \in queued
          /\ op = "write" => key \in Keys /\ call[tid] = [type |-> "TWRITE", key |-> key]
          /\ op = "p1c" => call[tid].type = "TP1C"
          /\ op = "p2c" => call[tid].type = "TP2C"
          /\ tid_to_nodes' \subseteq Tids /\ tid_to_write_nodes' \subseteq Tids
          /\ UNCHANGED eventVars
  <2>0. tid_to_nodes \subseteq Tids /\ tid_to_write_nodes \subseteq Tids
    BY DEF ServerInv, ServerTypeOK
  <2>1. CASE getWrite(th, tid)
    <3>1. call[tid].key \in Keys /\ call[tid] = [type |-> "TWRITE", key |-> call[tid].key]
      BY <2>1, CallFields DEF getWrite, Takes, ServerInv
    <3> QED
      BY <2>0, <2>1, <3>1 DEF getWrite, Takes
  <2>2. CASE getP1C(th, tid)
    BY <2>0, <2>2 DEF getP1C, Takes
  <2>3. CASE getP2C(th, tid)
    BY <2>0, <2>3 DEF getP2C, Takes
  <2>4. CASE getStuck(th, tid)
    BY <2>0, <2>4 DEF getStuck, Takes
  <2> QED
    BY <2>1, <2>2, <2>3, <2>4
<1> DEFINE h == NewHandler(op, tid, key)
<1>2. h \in Handler /\ ~IsRead(h) /\ h.tid = tid /\ h.op = op /\ h.key = key
  BY NewHandlerType
<1>3. /\ queued' = queued \ {tid} /\ Push(th, h)
      /\ UNCHANGED <<vars, progVars, vote, call, leaked, dataVars, crashed, reads>>
  BY <1>1 DEF Dispatch
<1> HIDE DEF h
<1>4. Kept'
  BY <1>1, <1>2, <1>3, TakeTask
<1>5. ServerTypeOK'
  BY <1>1, <1>3, <1>4 DEF Kept, ServerInv, ServerTypeOK, StackOK, dataVars, eventVars
<1> QED
  BY <1>4, <1>5

LEMMA GetUnknown ==
    ASSUME ServerInv, NEW th \in Threads, NEW tid \in Tids, getUnknown(th, tid)
    PROVE  Kept' /\ ServerTypeOK'
<1>1. /\ UNCHANGED <<vars, progVars, call, queued, stack, eventVars, tid_to_nodes,
                     tid_to_write_nodes, dataVars, crashed, reads>>
      /\ leaked' \subseteq {"_tid_mutex", "_tid_write_mutex"}
  BY DEF getUnknown, ServerInv, ServerTypeOK
<1>2. vote' \in [Tids -> BOOLEAN]
  <2>1. vote \in [Tids -> BOOLEAN]
    BY DEF ServerInv, ClientTypeOK
  <2>2. \/ vote' = vote
        \/ \E b \in BOOLEAN : vote' = [vote EXCEPT ![tid] = @ /\ b]
    BY DEF getUnknown
  <2> QED
    BY <2>1, <2>2
<1>3. UNCHANGED <<stack, pc, arg, events, fired, finished, read_ts, phase>>
  BY <1>1 DEF vars, tableVars, threadVars, historyVars, eventVars
<1>4. \A o \in Threads : Tasks(o)' = Tasks(o) /\ ReadsOf(o)' = ReadsOf(o)
  BY <1>3 DEF Tasks, ReadsOf, Handlers
<1>5. StackOK' /\ CallersOK' /\ Registered'
  BY <1>3, <1>4 DEF ServerInv, Discipline, StackOK, CallersOK, Registered
<1>6. Kept'
  BY <1>1, <1>2, <1>3, <1>4, <1>5, QuietStep
<1>7. ServerTypeOK'
  BY <1>1 DEF ServerInv, ServerTypeOK, dataVars, eventVars
<1> QED
  BY <1>6, <1>7

\* What tryBackwardLock and tryLock register and give back.
LEMMA BackwardCall ==
    ASSUME TableInv, NEW key \in Keys, NEW tid \in Tids, NEW ts \in Times,
           tryBackwardLock(key, tid, ts, TRUE)
    PROVE  /\ BackwardStart(root[key], ts, TRUE) \in 1 .. ts + 1
           /\ \A k \in Keys, t \in TS : \A x \in events'[k][t] :
                 x \in events[k][t] \/ (x = tid /\ k = key)
           /\ UNCHANGED <<threadVars, finished>>
<1>1. ts \in TS
  BY TimesType
<1>2. BackwardEffect(root[key], BackwardLock(root[key], tid, ts, TRUE), tid, ts, TRUE)
  BY <1>1, GoodTables, BackwardLockEffect
<1>3. BackwardStart(root[key], ts, TRUE) \in 1 .. ts + 1
  BY <1>2 DEF BackwardEffect
<1> DEFINE end == BackwardStop(root[key], ts, TRUE).end
<1>4. /\ events' = events \/ events' = [events EXCEPT ![key][end] = @ \cup {tid}]
      /\ UNCHANGED <<threadVars, finished>>
  BY DEF tryBackwardLock, addEvent
<1> HIDE DEF end
<1>5. ASSUME NEW k \in Keys, NEW t \in TS, NEW x \in events'[k][t], x \notin events[k][t]
      PROVE  x = tid /\ k = key
  <2>1. events \in [Keys -> [TS -> SUBSET Tids]]
    BY DEF TableInv, TypeOK
  <2>2. events' = [events EXCEPT ![key][end] = events[key][end] \cup {tid}]
    BY <1>4, <1>5
  <2>3. k = key
    BY <1>5, <2>1, <2>2
  <2>4. events'[key] = [events[key] EXCEPT ![end] = events[key][end] \cup {tid}]
    BY <2>1, <2>2
  <2>5. t = end /\ x \in events[key][end] \cup {tid}
    BY <1>5, <2>1, <2>3, <2>4
  <2> QED
    BY <1>5, <2>3, <2>5
<1> QED
  BY <1>3, <1>4, <1>5

LEMMA ReadLock ==
    ASSUME ServerInv, NEW th \in Threads, readLock(th)
    PROVE  Kept' /\ ServerTypeOK'
<1> DEFINE x     == Top(th).tid
           k     == Top(th).key
           e     == <<x, k>>
           n     == Top(th).n
           start == BackwardStart(root[k], n - 1, TRUE)
<1>1. /\ x \in Tids /\ k \in Keys /\ n \in 1 .. MaxTs /\ n - 1 \in Times
      /\ read_ts[e] # 0
      /\ IsRead(Top(th)) /\ ReadsOf(th) = {Top(th)}
      /\ tryBackwardLock(k, x, n - 1, TRUE)
  BY ReadLockCall
<1>2. /\ stack[th] # <<>>
      /\ read_ts' = [read_ts EXCEPT ![e] = start]
      /\ \/ /\ phase' = [phase EXCEPT ![e] = NextPhase(@)]
            /\ stack' = [stack EXCEPT ![th] =
                   <<ReadHandler(e, phase'[e], read_ts'[e])>> \o Tail(@)]
         \/ phase' = phase /\ Pop(th)
      /\ UNCHANGED <<clientVars, nodeVars, dataVars, crashed, reads>>
  BY DEF readLock, Runs
<1>3. Top(th) \in Handler
  BY <1>2, TopOf DEF ServerInv
<1> HIDE DEF x, k, n
<1>4. /\ start \in 1 .. n
      /\ \A key \in Keys, t \in TS : \A y \in events'[key][t] :
            y \in events[key][t] \/ (y = x /\ key = k)
      /\ UNCHANGED <<threadVars, finished>>
  <2>1. n - 1 + 1 = n
    BY <1>1
  <2> QED
    BY <1>1, <2>1, BackwardCall DEF ServerInv
<1> HIDE DEF start
<1>5. phase \in [Request -> 0 .. 2] /\ read_ts \in [Request -> TS] /\ e \in Request
  BY <1>1 DEF ServerInv, ServerTypeOK, Request
<1>6. start \in TS /\ start # 0
  BY <1>1, <1>4, MaxTsAssumption DEF TS
<1> HIDE DEF e
<1>7. /\ read_ts' \in [Request -> TS]
      /\ read_ts'[e] = start
      /\ \A r \in Request : r # e => read_ts'[r] = read_ts[r]
  BY <1>2, <1>5, <1>6
<1>8. /\ phase' \in [Request -> 0 .. 2]
      /\ \A r \in Request : phase'[r] < 2 => phase[r] < 2
  BY <1>2, <1>5 DEF NextPhase
<1>9. /\ \A r \in Request : read_ts[r] # 0 => read_ts'[r] # 0
      /\ \A r \in Request : read_ts'[r] # 0 /\ phase'[r] < 2 => read_ts[r] # 0 /\ phase[r] < 2
  BY <1>1, <1>6, <1>7, <1>8
<1>10. PICK h \in Handler :
          /\ h = ReadHandler(e, phase'[e], read_ts'[e])
          /\ IsRead(h) /\ h.tid = x /\ h.key = k /\ h.n = start
  BY <1>1, <1>6, <1>7, ReadHandlerType DEF e, TS
<1>11. StackStep(th, Tasks(th), {h}) \/ StackStep(th, Tasks(th), {})
  <2>1. StackOK
    BY DEF ServerInv
  <2>2. \/ Pop(th)
        \/ stack' = [stack EXCEPT ![th] = <<h>> \o Tail(@)]
    BY <1>2, <1>10
  <2> QED
    BY <1>1, <1>2, <1>10, <2>1, <2>2, TopStep
<1>12. ReadArgs(h)'
  <2>1. start \in 1 .. MaxTs
    BY <1>1, <1>4, MaxTsAssumption
  <2>2. read_ts'[<<h.tid, h.key>>] # 0
    BY <1>6, <1>7, <1>10 DEF e
  <2> QED
    BY <1>1, <1>10, <2>1, <2>2 DEF ReadArgs
<1>13. /\ StackOK'
       /\ \A o \in Threads : Tasks(o)' = Tasks(o)
       /\ \A o \in Threads : \A g \in ReadsOf(o)' : g \in ReadsOf(o) \/ ReadArgs(g)'
  BY <1>11, <1>12 DEF StackStep
<1>14. UNCHANGED <<pc, arg, fired, progVars, vote, call, queued, finished>>
  BY <1>2, <1>4 DEF threadVars, clientVars
<1>15. Registered'
  BY <1>1, <1>4, <1>6, <1>7, <1>9, <1>14, RegisteredStep DEF e
<1>16. CallersOK'
  BY <1>13, <1>14 DEF ServerInv, Discipline, CallersOK
<1>17. vote' \in [Tids -> BOOLEAN]
  BY <1>14 DEF ServerInv, ClientTypeOK
<1>18. Kept'
  BY <1>9, <1>13, <1>14, <1>15, <1>16, <1>17, QuietStep
<1>19. ServerTypeOK'
  BY <1>2, <1>7, <1>8, <1>13 DEF ServerInv, ServerTypeOK, StackOK, nodeVars, dataVars
<1> QED
  BY <1>18, <1>19

\* The two ways a step leaves a stack as it is.
LEMMA SameStack ==
    ASSUME UNCHANGED stack, StackOK
    PROVE  StackOK' /\ \A o \in Threads : Tasks(o)' = Tasks(o) /\ ReadsOf(o)' = ReadsOf(o)
BY DEF StackOK, Tasks, ReadsOf, Handlers

LEMMA ReadExit ==
    ASSUME ServerInv, NEW th \in Threads, readExit(th)
    PROVE  Kept' /\ ServerTypeOK'
<1>1. UNCHANGED <<vars, clientVars, stack, eventVars, nodeVars, dataVars, reads>>
      /\ crashed' = "exit"
  BY DEF readExit
<1>2. UNCHANGED <<pc, arg, events, fired, finished, read_ts, phase, progVars, vote, call, queued>>
  BY <1>1 DEF vars, tableVars, threadVars, historyVars, eventVars, clientVars
<1>3. StackOK' /\ \A o \in Threads : Tasks(o)' = Tasks(o) /\ ReadsOf(o)' = ReadsOf(o)
  BY <1>1, SameStack DEF ServerInv
<1>4. CallersOK' /\ Registered' /\ vote' \in [Tids -> BOOLEAN]
  BY <1>2, <1>3 DEF ServerInv, ClientTypeOK, Discipline, CallersOK, Registered
<1>5. Kept'
  BY <1>2, <1>3, <1>4, QuietStep
<1>6. ServerTypeOK'
  BY <1>1 DEF ServerInv, ServerTypeOK, nodeVars, dataVars, eventVars
<1> QED
  BY <1>5, <1>6

\* A read is answered: its event is not run for an answer again.
LEMMA ReadValue ==
    ASSUME ServerInv, NEW th \in Threads, readValue(th)
    PROVE  Kept' /\ ServerTypeOK'
<1> DEFINE x == Top(th).tid
           k == Top(th).key
           e == <<x, k>>
           n == Top(th).n
<1>1. /\ x \in Tids /\ ReadArgs(Top(th)) /\ IsRead(Top(th)) /\ ReadsOf(th) = {Top(th)}
      /\ stack[th] # <<>> /\ Top(th) \in Handler
  BY RunsRead DEF readValue
<1>2. /\ phase' = [phase EXCEPT ![e] = NextPhase(@)]
      /\ \/ /\ phase[e] = 1 /\ sendReply(x) /\ UNCHANGED <<vote, crashed>> /\ Pop(th)
            /\ reads' = reads \cup {[tid |-> x, key |-> k, ts |-> n - 1]}
         \/ crashed' \in {"null", "exit"} /\ UNCHANGED <<clientVars, stack, reads>>
      /\ UNCHANGED <<vars, read_ts, nodeVars, dataVars>>
  BY DEF readValue
<1>3. k \in Keys /\ n \in 1 .. MaxTs /\ read_ts[e] # 0
  BY <1>1 DEF ReadArgs
<1> HIDE DEF x, k, n
<1>4. phase \in [Request -> 0 .. 2] /\ read_ts \in [Request -> TS] /\ e \in Request
  BY <1>1, <1>3 DEF ServerInv, ServerTypeOK, Request
<1> HIDE DEF e
<1>5. /\ phase' \in [Request -> 0 .. 2]
      /\ \A r \in Request : phase'[r] < 2 => phase[r] < 2
      /\ phase[e] = 1 => phase'[e] = 2
  BY <1>2, <1>4 DEF NextPhase
<1>6. UNCHANGED <<pc, arg, events, fired, finished, read_ts>>
  BY <1>2 DEF vars, tableVars, threadVars, historyVars
<1>7. Registered'
  BY <1>6 DEF ServerInv, Discipline, Registered
<1>8. CASE crashed' \in {"null", "exit"} /\ UNCHANGED <<clientVars, stack, reads>>
  <2>1. StackOK' /\ \A o \in Threads : Tasks(o)' = Tasks(o) /\ ReadsOf(o)' = ReadsOf(o)
    BY <1>8, SameStack DEF ServerInv
  <2>2. UNCHANGED <<progVars, vote, call, queued>>
    BY <1>8 DEF clientVars
  <2>3. CallersOK' /\ vote' \in [Tids -> BOOLEAN]
    BY <1>6, <2>1, <2>2 DEF ServerInv, ClientTypeOK, Discipline, CallersOK
  <2>4. \A r \in Request : read_ts'[r] # 0 /\ phase'[r] < 2 => read_ts[r] # 0 /\ phase[r] < 2
    BY <1>5, <1>6
  <2>5. Kept'
    BY <1>6, <1>7, <2>1, <2>2, <2>3, <2>4, QuietStep
  <2>6. ServerTypeOK'
    BY <1>2, <1>5, <1>6, <1>8 DEF ServerInv, ServerTypeOK, nodeVars, dataVars
  <2> QED
    BY <2>5, <2>6
<1>9. CASE /\ phase[e] = 1 /\ sendReply(x) /\ UNCHANGED <<vote, crashed>> /\ Pop(th)
           /\ reads' = reads \cup {[tid |-> x, key |-> k, ts |-> n - 1]}
  <2>1. StackStep(th, Tasks(th), {})
    BY <1>1, <1>9, TopStep DEF ServerInv
  <2>2. /\ \A o \in Threads : Tasks(o)' = Tasks(o)
        /\ \A o \in Threads : ReadsOf(o)' \subseteq ReadsOf(o)
    BY <2>1 DEF StackStep
  <2>3. /\ call' = [call EXCEPT ![x] = NoCall]
        /\ UNCHANGED <<progVars, queued>>
    BY <1>9 DEF sendReply
  <2>4. LiveRead(x, k)
    BY <1>1, <1>3 DEF ServerInv, Discipline, ReadsLive
  <2>5. /\ call[x] = [type |-> "TREAD", key |-> k] /\ x \notin queued
        /\ \A o \in Threads : \A h \in Tasks(o) : h.tid # x
    BY <1>3, <1>9, <2>4 DEF LiveRead, e
  <2>6. /\ NoCall \in CallType
        /\ call \in [Tids -> CallType]
    BY DEF CallType, ServerInv, ClientTypeOK
  <2>7. /\ call'[x] = NoCall
        /\ \A y \in Tids \ {x} : call'[y] = call[y]
        /\ call' \in [Tids -> CallType]
    BY <1>1, <2>3, <2>6
  <2>8. ClientTypeOK'
    BY <1>9, <2>3, <2>7 DEF ServerInv, ClientTypeOK, progVars
  <2>9. TasksOK'
    <3> SUFFICES ASSUME NEW o \in Threads, NEW g \in Tasks(o) PROVE Serves(g)'
      BY <2>2 DEF TasksOK
    <3>1. g.tid # x /\ g.tid \in Tids /\ Serves(g)
      BY <2>5, HandlersType, HandlerFields DEF ServerInv, Discipline, TasksOK
    <3>2. call'[g.tid] = call[g.tid]
      BY <2>7, <3>1
    <3> QED
      BY <1>6, <2>3, <3>1, <3>2 DEF Serves
  <2>10. ReadsOK' /\ OneTask'
    BY <1>6, <2>2 DEF ServerInv, Discipline, ReadsOK, ReadArgs, OneTask
  <2>11. StagesOK'
    <3> SUFFICES ASSUME NEW y \in Tids PROVE StageOK(y)'
      BY DEF StagesOK
    <3>1. StageOK(y) /\ stage' = stage
      BY <2>3 DEF ServerInv, Discipline, StagesOK, progVars
    <3>2. CASE y = x
      <4>1. call'[y].type = "none"
        BY <2>7, <3>2 DEF NoCall, Client!NoCall
      <4> QED
        BY <1>6, <2>3, <2>5, <3>1, <3>2, <4>1 DEF StageOK
    <3>3. CASE y # x
      BY <1>6, <2>3, <2>7, <3>1, <3>3 DEF StageOK
    <3> QED
      BY <3>2, <3>3
  <2>12. ReadsLive'
    <3> SUFFICES ASSUME NEW y \in Tids, NEW j \in Keys,
                        read_ts[<<y, j>>] # 0, phase'[<<y, j>>] < 2
                 PROVE  /\ call'[y] = [type |-> "TREAD", key |-> j]
                        /\ y \notin queued
                        /\ \A o \in Threads : \A g \in Tasks(o) : g.tid # y
      BY <1>6, <2>2, <2>3 DEF ReadsLive, LiveRead
    <3>1. <<y, j>> \in Request
      BY DEF Request
    <3>2. /\ call[y] = [type |-> "TREAD", key |-> j] /\ y \notin queued
          /\ \A o \in Threads : \A g \in Tasks(o) : g.tid # y
      BY <1>5, <3>1 DEF ServerInv, Discipline, ReadsLive, LiveRead
    <3>3. y # x
      <4>1. CASE y = x /\ j = k
        BY <1>5, <1>9, <4>1 DEF e
      <4>2. CASE y = x /\ j # k
        BY <2>5, <3>2, <4>2
      <4> QED
        BY <4>1, <4>2
    <3> QED
      BY <2>7, <3>2, <3>3
  <2>13. CallersOK'
    BY <1>6, <2>2 DEF ServerInv, Discipline, CallersOK
  <2>14. Kept'
    BY <1>7, <2>1, <2>8, <2>9, <2>10, <2>11, <2>12, <2>13 DEF StackStep, Kept, Discipline
  <2>15. reads' \subseteq [tid : Tids, key : Keys, ts : TS]
    <3>1. n - 1 \in TS
      BY <1>3, MaxTsAssumption DEF TS
    <3> QED
      BY <1>1, <1>3, <1>9, <3>1 DEF ServerInv, ServerTypeOK
  <2>16. ServerTypeOK'
    BY <1>2, <1>5, <1>6, <1>9, <2>1, <2>15
      DEF ServerInv, ServerTypeOK, StackStep, StackOK, nodeVars, dataVars
  <2> QED
    BY <2>14, <2>16
<1> QED
  BY <1>2, <1>8, <1>9

\* A task other than freeze or unlock has no call of the lock manager under way.
LEMMA TaskAlone ==
    ASSUME ServerInv, NEW th \in Threads, NEW h, Tasks(th) = {h}, h.op # "locks"
    PROVE  pc[th] = "idle"
BY DEF ServerInv, Discipline, CallersOK

LEMMA WriteRun ==
    ASSUME ServerInv, NEW th \in Threads, writeRun(th)
    PROVE  Kept' /\ ServerTypeOK'
<1> DEFINE h == Top(th)
           x == h.tid
<1>1. /\ stack[th] # <<>> /\ h \in Handler /\ ~IsRead(h) /\ h.op = "write"
      /\ Tasks(th) = {h} /\ x \in Tids /\ Serves(h)
  BY RunsTask DEF writeRun
<1>2. /\ pend_writes' = [pend_writes EXCEPT ![x] = Append(@, h.key)]
      /\ sendReply(x) /\ Pop(th)
      /\ UNCHANGED <<vars, vote, eventVars, nodeVars, rdy_to_commit, store, crashed, reads>>
  BY DEF writeRun
<1>3. pc[th] = "idle"
  BY <1>1, TaskAlone
<1>4. vote' \in [Tids -> BOOLEAN]
  BY <1>2 DEF ServerInv, ClientTypeOK
<1>5. Kept'
  BY <1>1, <1>2, <1>3, <1>4, ReplyTask
<1>6. pend_writes' \in [Tids -> Seq(Keys)]
  <2>1. pend_writes \in [Tids -> Seq(Keys)] /\ h.key \in Keys
    BY <1>1 DEF ServerInv, ServerTypeOK, Serves
  <2>2. Append(pend_writes[x], h.key) \in Seq(Keys)
    BY <1>1, <2>1, AppendProperties
  <2> QED
    BY <1>1, <1>2, <2>1, <2>2
<1>7. ServerTypeOK'
  BY <1>2, <1>5, <1>6 DEF Kept, ServerInv, ServerTypeOK, StackOK, nodeVars, eventVars
<1> QED
  BY <1>5, <1>7

LEMMA P1CLock ==
    ASSUME ServerInv, NEW th \in Threads, p1cLock(th)
    PROVE  Kept' /\ ServerTypeOK'
<1> DEFINE h == Top(th)
           n == h.n + 1
<1>1. /\ stack[th] # <<>> /\ h \in Handler /\ ~IsRead(h) /\ h.op = "p1c" /\ h = stack[th][1]
  BY RunsTask DEF p1cLock
<1>2. /\ \/ stack' = [stack EXCEPT ![th][1].n = n]
         \/ stack' = [stack EXCEPT ![th][1].op = "refused"]
      /\ UNCHANGED <<clientVars, eventVars, nodeVars, dataVars, crashed, reads>>
      /\ UNCHANGED <<events, threadVars, finished>>
  BY DEF p1cLock, Become, tryLock
<1>3. PICK g \in Handler :
          /\ g.op \in {"p1c", "refused"} /\ g.tid = h.tid
          /\ stack' = [stack EXCEPT ![th][1] = g]
  <2>1. /\ [h EXCEPT !.n = n] \in Handler
        /\ [h EXCEPT !.n = n].op = "p1c" /\ [h EXCEPT !.n = n].tid = h.tid
        /\ [h EXCEPT !.op = "refused"] \in Handler
        /\ [h EXCEPT !.op = "refused"].op = "refused" /\ [h EXCEPT !.op = "refused"].tid = h.tid
    <3>1. n \in Nat
      BY <1>1, HandlerFields
    <3> HIDE DEF n, h
    <3> QED
      BY <1>1, <3>1 DEF Handler
  <2>2. CASE stack' = [stack EXCEPT ![th][1].n = n]
    <3>1. stack' = [stack EXCEPT ![th][1] = [h EXCEPT !.n = n]]
      BY <1>1, <2>2
    <3> QED
      BY <2>1, <3>1
  <2>3. CASE stack' = [stack EXCEPT ![th][1].op = "refused"]
    <3>1. stack' = [stack EXCEPT ![th][1] = [h EXCEPT !.op = "refused"]]
      BY <1>1, <2>3
    <3> QED
      BY <2>1, <3>1
  <2> QED
    BY <1>2, <2>2, <2>3
<1>4. Registered' /\ UNCHANGED <<pc, arg>>
  BY <1>2 DEF ServerInv, Discipline, Registered, threadVars, eventVars
<1>5. Kept'
  BY <1>1, <1>2, <1>3, <1>4, GoOnTask
<1>6. ServerTypeOK'
  BY <1>2, <1>5 DEF Kept, ServerInv, ServerTypeOK, StackOK, nodeVars, dataVars, eventVars
<1> QED
  BY <1>5, <1>6

LEMMA P1CVote ==
    ASSUME ServerInv, NEW th \in Threads, p1cVote(th)
    PROVE  Kept' /\ ServerTypeOK'
<1> DEFINE h == Top(th)
           x == h.tid
<1>1. PICK op \in {"p1c", "refused"} : Runs(th, op)
  BY DEF p1cVote
<1>2. /\ stack[th] # <<>> /\ h \in Handler /\ ~IsRead(h) /\ h.op = op
      /\ Tasks(th) = {h} /\ x \in Tids
  BY <1>1, RunsTask
<1>3. /\ rdy_to_commit' = rdy_to_commit \cup {x}
      /\ vote' = [vote EXCEPT ![x] = @ /\ h.op = "p1c"]
      /\ sendReply(x) /\ Pop(th)
      /\ UNCHANGED <<vars, eventVars, nodeVars, pend_writes, store, crashed, reads>>
  BY DEF p1cVote
<1>4. pc[th] = "idle"
  BY <1>2, TaskAlone
<1>5. vote' \in [Tids -> BOOLEAN]
  BY <1>3 DEF ServerInv, ClientTypeOK
<1>6. Kept'
  BY <1>2, <1>3, <1>4, <1>5, ReplyTask
<1>7. ServerTypeOK'
  BY <1>2, <1>3, <1>6 DEF Kept, ServerInv, ServerTypeOK, StackOK, nodeVars, eventVars
<1> QED
  BY <1>6, <1>7

LEMMA P2CStart ==
    ASSUME ServerInv, NEW th \in Threads, p2cStart(th)
    PROVE  Kept' /\ ServerTypeOK'
<1>1. PICK h \in Handler, x \in Tids :
          /\ h = Top(th) /\ x = h.tid
          /\ stack[th] # <<>> /\ ~IsRead(h) /\ h.op = "p2c" /\ h = stack[th][1]
          /\ Tasks(th) = {h} /\ ReadsOf(th) = {} /\ Serves(h)
  BY RunsTask DEF p2cStart
<1>2. /\ \E step \in {"freeze", "unlock"} : Begin(th, x, step)
      /\ Become(th, "locks")
      /\ UNCHANGED <<clientVars, eventVars, nodeVars, dataVars, crashed, reads>>
  BY <1>1 DEF p2cStart, beginFreeze, beginUnlock
<1>3. PICK g \in Handler :
          /\ g = [h EXCEPT !.op = "locks"]
          /\ g.op = "locks" /\ g.tid = x /\ ~IsRead(g)
  <2>1. ASSUME NEW c \in Handler
        PROVE  LET g == [c EXCEPT !.op = "locks"]
               IN  g \in Handler /\ g.op = "locks" /\ g.tid = c.tid /\ ~IsRead(g)
    BY DEF Handler, IsRead
  <2> QED
    BY <1>1, <2>1
<1>4. stack' = [stack EXCEPT ![th][1] = g]
  BY <1>1, <1>2, <1>3 DEF Become
<1>5. /\ finished' = finished \cup {x}
      /\ \A o \in Threads \ {th} : pc'[o] = pc[o] /\ arg'[o] = arg[o]
      /\ pc'[th] # "idle" => arg'[th] = x
      /\ UNCHANGED <<events, fired>>
  <2>1. pc[th] = "idle" /\ pc \in [Threads -> {"idle", "freeze", "unlock", "delete", "run"}]
        /\ arg \in [Threads -> Tids]
    BY <1>2 DEF Begin, ServerInv, TableInv, TypeOK
  <2>2. /\ finished' = finished \cup {x}
        /\ \/ UNCHANGED <<pc, arg>>
           \/ \E step : pc' = [pc EXCEPT ![th] = step] /\ arg' = [arg EXCEPT ![th] = x]
        /\ UNCHANGED <<events, fired>>
    BY <1>2 DEF Begin, tableVars
  <2> QED
    BY <2>1, <2>2
<1>6. StackStep(th, {g}, {})
  BY <1>1, <1>3, <1>4, ChangeTop DEF ServerInv
<1>7. /\ \A o \in Threads : ReadsOf(o)' = ReadsOf(o)
      /\ \A o \in Threads \ {th} : Tasks(o)' = Tasks(o)
      /\ Tasks(th)' = {g}
  BY <1>1, <1>6 DEF StackStep
<1>8. UNCHANGED <<call, queued, vote, start_ts, stage, read_ts, phase>>
  BY <1>2 DEF clientVars, progVars, eventVars
<1>9. \A o \in Threads \ {th} : \A t \in Tasks(o) : t.tid # x
  BY <1>1 DEF ServerInv, Discipline, OneTask
<1>10. /\ call[x] # NoCall /\ call[x].type = "TP2C" /\ x \notin queued
       /\ stage[x] = "end"
  BY <1>1 DEF Serves, ServerInv, Discipline, StagesOK, StageOK
<1>11. TasksOK'
  <2>1. Serves(g)'
    BY <1>3, <1>5, <1>8, <1>10 DEF Serves
  <2>2. ASSUME NEW o \in Threads \ {th}, NEW t \in Tasks(o) PROVE Serves(t)'
    <3>1. Serves(t) /\ t.tid # x
      BY <1>9 DEF ServerInv, Discipline, TasksOK
    <3> QED
      BY <1>5, <1>8, <3>1 DEF Serves
  <2> QED
    BY <1>7, <2>1, <2>2 DEF TasksOK
<1>12. ReadsOK' /\ Registered'
  BY <1>5, <1>7, <1>8 DEF ServerInv, Discipline, ReadsOK, ReadArgs, Registered
<1>13. OneTask'
  <2> SUFFICES ASSUME NEW o \in Threads, NEW p \in Threads,
                      NEW t \in Tasks(o)', NEW u \in Tasks(p)', t.tid = u.tid
               PROVE  o = p
    BY DEF OneTask
  <2>1. CASE o = th
    <3>1. t \in Tasks(th)'
      BY <2>1
    <3>2. t = g
      BY <3>1, <1>7
    <3>3. u.tid = x
      BY <3>2, <1>3
    <3>4. p # th => u \in Tasks(p)
      BY <1>7
    <3> QED
      BY <2>1, <3>3, <3>4, <1>9
  <2>2. CASE p = th
    <3>1. u \in Tasks(th)'
      BY <2>2
    <3>2. u = g
      BY <3>1, <1>7
    <3>3. t.tid = x
      BY <3>2, <1>3
    <3>4. o # th => t \in Tasks(o)
      BY <1>7
    <3> QED
      BY <2>2, <3>3, <3>4, <1>9
  <2>3. CASE o # th /\ p # th
    BY <1>7, <2>3 DEF ServerInv, Discipline, OneTask
  <2> QED
    BY <2>1, <2>2, <2>3
<1>14. StagesOK'
  BY <1>5, <1>8, <1>10 DEF ServerInv, Discipline, StagesOK, StageOK
<1>15. ReadsLive'
  <2> SUFFICES ASSUME NEW y \in Tids, NEW k \in Keys, read_ts[<<y, k>>] # 0, phase[<<y, k>>] < 2
               PROVE  /\ call[y] = [type |-> "TREAD", key |-> k] /\ y \notin queued
                      /\ \A o \in Threads : \A t \in Tasks(o)' : t.tid # y
    BY <1>8 DEF ReadsLive, LiveRead
  <2>1. /\ call[y] = [type |-> "TREAD", key |-> k] /\ y \notin queued
        /\ \A o \in Threads : \A t \in Tasks(o) : t.tid # y
    BY DEF ServerInv, Discipline, ReadsLive, LiveRead
  <2>2. y # x
    BY <1>1, <2>1
  <2>3. ASSUME NEW t \in Tasks(th)' PROVE t.tid # y
    BY <1>3, <1>7, <2>2, <2>3
  <2> QED
    BY <1>7, <2>1, <2>3
<1>16. CallersOK'
  <2> SUFFICES ASSUME NEW o \in Threads, pc'[o] # "idle"
               PROVE  \E t \in Tasks(o)' : t.op = "locks" /\ t.tid = arg'[o]
    BY DEF CallersOK
  <2>1. CASE o = th
    BY <1>3, <1>5, <1>7, <2>1
  <2>2. CASE o # th
    BY <1>5, <1>7, <2>2 DEF ServerInv, Discipline, CallersOK
  <2> QED
    BY <2>1, <2>2
<1>17. ClientTypeOK'
  BY <1>2 DEF ServerInv, ClientTypeOK, clientVars, progVars
<1>18. ServerTypeOK'
  BY <1>2, <1>6 DEF StackStep, ServerInv, ServerTypeOK, StackOK, nodeVars, dataVars, eventVars
<1> QED
  BY <1>6, <1>11, <1>12, <1>13, <1>14, <1>15, <1>16, <1>17, <1>18
    DEF StackStep, Kept, Discipline

\* What freeze and unlock collect is registered.
LEMMA FireStep ==
    ASSUME ServerInv, NEW th \in Threads, NEW key \in Keys, NEW ends, ends \subseteq TS,
           Fire(th, key, ends), UNCHANGED <<events, read_ts>>
    PROVE  Registered'
<1> DEFINE F == {<<x, key>> : x \in UNION {events[key][t] : t \in ends}}
<1>1. ASSUME NEW e \in F PROVE read_ts[e] # 0
  BY DEF ServerInv, Discipline, Registered
<1>2. fired' = [fired EXCEPT ![th] = @ \cup F] /\ fired \in [Threads -> SUBSET Request]
  BY DEF Fire, ServerInv, TableInv, TypeOK
<1> HIDE DEF F
<1>3. ASSUME NEW o \in Threads, NEW e \in fired'[o] PROVE read_ts[e] # 0
  <2>1. e \in fired[o] \/ e \in F
    BY <1>2
  <2> QED
    BY <1>1, <2>1 DEF ServerInv, Discipline, Registered
<1> QED
  BY <1>3 DEF ServerInv, Discipline, Registered

LEMMA P2CLocks ==
    ASSUME ServerInv, NEW th \in Threads, p2cLocks(th)
    PROVE  Kept' /\ ServerTypeOK'
<1>1. /\ \/ \E key \in Keys : freezeKey(th, key) \/ unlockKey(th, key)
         \/ clearIntervals(th) \/ deleteTransactionInfo(th) \/ return(th)
      /\ UNCHANGED <<clientVars, serverVars>>
  BY DEF p2cLocks
<1>2. UNCHANGED <<stack, progVars, vote, call, queued, read_ts, phase>>
  BY <1>1 DEF clientVars, serverVars, eventVars
<1>3. UNCHANGED <<arg, finished, events>>
  BY <1>1 DEF freezeKey, unlockKey, clearIntervals, deleteTransactionInfo, return, tableVars,
              historyVars
<1>4. \A o \in Threads : pc'[o] # "idle" => pc[o] # "idle"
  <2>1. pc \in [Threads -> {"idle", "freeze", "unlock", "delete", "run"}]
    BY DEF ServerInv, TableInv, TypeOK
  <2>2. /\ \/ pc' = pc
           \/ pc' = [pc EXCEPT ![th] = "delete"]
           \/ pc' = [pc EXCEPT ![th] = "run"]
           \/ pc' = [pc EXCEPT ![th] = "idle"]
        /\ pc[th] # "idle"
    BY <1>1 DEF freezeKey, unlockKey, clearIntervals, deleteTransactionInfo, return, Walking
  <2> QED
    BY <2>1, <2>2
<1>5. StackOK' /\ \A o \in Threads : Tasks(o)' = Tasks(o) /\ ReadsOf(o)' = ReadsOf(o)
  BY <1>2, SameStack DEF ServerInv
<1>6. CallersOK'
  BY <1>3, <1>4, <1>5 DEF ServerInv, Discipline, CallersOK
<1>11. arg[th] \in Tids /\ \A key \in Keys : GoodTable(root[key])
  BY GoodTables DEF ServerInv, TableInv, TypeOK
<1>7. Registered'
  <2>1. ASSUME NEW key \in Keys, freezeKey(th, key) PROVE Registered'
    <3> DEFINE ends == FreezeEnds(root[key], arg[th], intervals[arg[th]][key])
    <3>1. ends \subseteq TS
      BY <1>11, EndsType
    <3>2. Fire(th, key, ends) \/ UNCHANGED fired
      BY <2>1 DEF freezeKey
    <3> HIDE DEF ends
    <3>3. CASE UNCHANGED fired
      BY <1>2, <1>3, <3>3 DEF ServerInv, Discipline, Registered
    <3> QED
      BY <1>2, <1>3, <3>1, <3>2, <3>3, FireStep
  <2>2. ASSUME NEW key \in Keys, unlockKey(th, key) PROVE Registered'
    <3> DEFINE ends == UnlockEnds(root[key], arg[th], intervals[arg[th]][key])
    <3>1. ends \subseteq TS
      BY <1>11, EndsType
    <3>2. Fire(th, key, ends) \/ UNCHANGED fired
      BY <2>2 DEF unlockKey
    <3> HIDE DEF ends
    <3>3. CASE UNCHANGED fired
      BY <1>2, <1>3, <3>3 DEF ServerInv, Discipline, Registered
    <3> QED
      BY <1>2, <1>3, <3>1, <3>2, <3>3, FireStep
  <2>3. CASE clearIntervals(th) \/ deleteTransactionInfo(th) \/ return(th)
    <3>1. UNCHANGED fired
      BY <2>3 DEF clearIntervals, deleteTransactionInfo, return
    <3> QED
      BY <1>2, <1>3, <3>1 DEF ServerInv, Discipline, Registered
  <2> QED
    BY <1>1, <2>1, <2>2, <2>3
<1>8. vote' \in [Tids -> BOOLEAN]
  BY <1>2 DEF ServerInv, ClientTypeOK
<1>9. Kept'
  BY <1>2, <1>3, <1>5, <1>6, <1>7, <1>8, QuietStep
<1>10. ServerTypeOK'
  BY <1>1 DEF ServerInv, ServerTypeOK, serverVars, nodeVars, dataVars, eventVars
<1> QED
  BY <1>9, <1>10

LEMMA P2CWake ==
    ASSUME ServerInv, NEW th \in Threads, p2cWake(th)
    PROVE  Kept' /\ ServerTypeOK'
<1>1. /\ stack[th] # <<>> /\ ~IsRead(Top(th)) /\ ReadsOf(th) = {}
  BY RunsTask DEF p2cWake
<1>2. PICK e \in Request :
          /\ runEvent(th, e)
          /\ Push(th, ReadHandler(e, phase[e], read_ts[e]))
  BY DEF p2cWake
<1>3. /\ e \in fired[th]
      /\ fired' = [fired EXCEPT ![th] = @ \ {e}]
      /\ UNCHANGED <<pc, arg, events, finished>>
      /\ UNCHANGED <<clientVars, eventVars, nodeVars, dataVars, crashed, reads>>
  BY <1>2 DEF p2cWake, runEvent, tableVars
<1>4. UNCHANGED <<progVars, vote, call, queued, read_ts, phase>>
  BY <1>3 DEF clientVars, eventVars
<1>5. PICK x \in Tids, k \in Keys : e = <<x, k>>
  BY DEF Request
<1>6. read_ts[e] # 0 /\ read_ts[e] \in TS /\ read_ts[e] \in 1 .. MaxTs /\ read_ts[e] \in Nat
  <2>1. read_ts[e] # 0 /\ read_ts[e] \in TS
    BY <1>3 DEF ServerInv, ServerTypeOK, Discipline, Registered
  <2> QED
    BY <2>1, MaxTsAssumption DEF TS
<1>7. PICK h \in Handler :
          /\ h = ReadHandler(e, phase[e], read_ts[e])
          /\ IsRead(h) /\ h.tid = x /\ h.key = k /\ h.n = read_ts[e]
  BY <1>5, <1>6, ReadHandlerType
<1>8. ReadArgs(h)'
  BY <1>4, <1>5, <1>6, <1>7 DEF ReadArgs
<1>9. StackStep(th, Tasks(th), {h})
  BY <1>1, <1>2, <1>7, PushStep DEF ServerInv
<1>10. /\ StackOK'
       /\ \A o \in Threads : Tasks(o)' = Tasks(o)
       /\ \A o \in Threads : \A g \in ReadsOf(o)' : g \in ReadsOf(o) \/ ReadArgs(g)'
  BY <1>8, <1>9 DEF StackStep
<1>11. CallersOK' /\ vote' \in [Tids -> BOOLEAN]
  BY <1>3, <1>4, <1>10 DEF ServerInv, ClientTypeOK, Discipline, CallersOK
<1>12. Registered'
  <2>1. fired \in [Threads -> SUBSET Request]
    BY DEF ServerInv, TableInv, TypeOK
  <2>2. \A o \in Threads : fired'[o] \subseteq fired[o]
    BY <1>3, <2>1
  <2> QED
    BY <1>3, <1>4, <2>2 DEF ServerInv, Discipline, Registered
<1>13. Kept'
  BY <1>3, <1>4, <1>10, <1>11, <1>12, QuietStep
<1>14. ServerTypeOK'
  BY <1>3, <1>10 DEF ServerInv, ServerTypeOK, StackOK, nodeVars, dataVars, eventVars
<1> QED
  BY <1>13, <1>14

\* What finalize keeps.
LEMMA P2CFinalize ==
    ASSUME ServerInv, NEW th \in Threads, p2cFinalize(th)
    PROVE  Kept' /\ ServerTypeOK'
<1> DEFINE h == Top(th)
           x == h.tid
<1>1. /\ stack[th] # <<>> /\ h \in Handler /\ ~IsRead(h) /\ x \in Tids
  BY RunsTask DEF p2cFinalize
<1>2. /\ pc[th] = "idle" /\ finalize(x, vote[x])
      /\ sendReply(x) /\ Pop(th)
      /\ UNCHANGED <<vars, vote, eventVars, nodeVars, crashed, reads>>
  BY DEF p2cFinalize
<1>3. vote' \in [Tids -> BOOLEAN]
  BY <1>2 DEF ServerInv, ClientTypeOK
<1>4. Kept'
  BY <1>1, <1>2, <1>3, ReplyTask
<1> HIDE DEF x
<1>5. /\ pend_writes \in [Tids -> Seq(Keys)]
      /\ store \in [Keys -> [TS -> Tids \cup {NoVersion}]]
      /\ start_ts[x] \in TS
  BY <1>1, StartType DEF ServerInv, ServerTypeOK
<1>6. /\ rdy_to_commit' \subseteq Tids
      /\ pend_writes' \in [Tids -> Seq(Keys)]
      /\ store' \in [Keys -> [TS -> Tids \cup {NoVersion}]]
  <2>1. rdy_to_commit' \subseteq Tids
    BY <1>2 DEF finalize, ServerInv, ServerTypeOK
  <2>2. pend_writes' \in [Tids -> Seq(Keys)]
    <3>1. pend_writes' = [pend_writes EXCEPT ![x] = <<>>] \/ pend_writes' = pend_writes
      BY <1>2 DEF finalize
    <3>2. <<>> \in Seq(Keys)
      BY EmptySeq
    <3> QED
      BY <1>5, <3>1, <3>2
  <2>3. store' \in [Keys -> [TS -> Tids \cup {NoVersion}]]
    <3>1. ASSUME NEW k \in Keys
          PROVE  [store[k] EXCEPT ![start_ts[x]] = x] \in [TS -> Tids \cup {NoVersion}]
      <4>1. store[k] \in [TS -> Tids \cup {NoVersion}] /\ x \in Tids \cup {NoVersion}
        BY <1>1, <1>5
      <4> QED
        BY <4>1
    <3>2. \/ store' = store
          \/ store' = [k \in Keys |->
                 IF vote[x] /\ \E i \in 1 .. Len(pend_writes[x]) : pend_writes[x][i] = k
                 THEN [store[k] EXCEPT ![start_ts[x]] = x]
                 ELSE store[k]]
      BY <1>2 DEF finalize
    <3>3. \A k \in Keys : store'[k] \in [TS -> Tids \cup {NoVersion}]
      <4> SUFFICES ASSUME NEW k \in Keys PROVE store'[k] \in [TS -> Tids \cup {NoVersion}]
        OBVIOUS
      <4>1. store'[k] = store[k] \/ store'[k] = [store[k] EXCEPT ![start_ts[x]] = x]
        BY <3>2
      <4> QED
        BY <1>5, <3>1, <4>1
    <3>4. store' = [k \in Keys |-> store'[k]]
      BY <1>5, <3>2
    <3> QED
      BY <3>3, <3>4
  <2> QED
    BY <2>1, <2>2, <2>3
<1>7. ServerTypeOK'
  BY <1>2, <1>4, <1>6 DEF Kept, ServerInv, ServerTypeOK, StackOK, nodeVars, eventVars
<1> QED
  BY <1>4, <1>7

-----------------------------------------------------------------------------
(* The coordinators                                                         *)

\* A step of a coordinator that leaves its server alone changes no task.
LEMMA ClientFrame ==
    ASSUME ServerInv, NEW x \in Tids, ClientTypeOK',
           UNCHANGED <<vars, serverVars>>,
           \A y \in Tids \ {x} : call'[y] = call[y] /\ stage'[y] = stage[y],
           queued' \ {x} = queued \ {x},
           StageOK(x)',
           \A th \in Threads : \A h \in Tasks(th) : h.tid # x,
           \A k \in Keys : ~(read_ts[<<x, k>>] # 0 /\ phase[<<x, k>>] < 2)
    PROVE  Kept'
<1>1. UNCHANGED <<stack, read_ts, phase, events, fired, pc, arg, finished>>
  BY DEF serverVars, eventVars, vars, tableVars, threadVars, historyVars
<1>2. StackOK' /\ \A th \in Threads : Tasks(th)' = Tasks(th) /\ ReadsOf(th)' = ReadsOf(th)
  BY <1>1, SameStack DEF ServerInv
<1>3. TasksOK'
  <2> SUFFICES ASSUME NEW th \in Threads, NEW h \in Tasks(th) PROVE Serves(h)'
    BY <1>2 DEF TasksOK
  <2>1. h.tid # x /\ h.tid \in Tids /\ Serves(h)
    BY HandlersType, HandlerFields DEF ServerInv, Discipline, TasksOK
  <2> QED
    BY <1>1, <2>1 DEF Serves
<1>4. ReadsOK' /\ OneTask' /\ Registered' /\ CallersOK'
  BY <1>1, <1>2
     DEF ServerInv, Discipline, ReadsOK, ReadArgs, OneTask, Registered, CallersOK
<1>5. StagesOK'
  <2> SUFFICES ASSUME NEW y \in Tids \ {x} PROVE StageOK(y)'
    BY DEF StagesOK
  <2>1. StageOK(y) /\ call'[y] = call[y] /\ stage'[y] = stage[y] /\ (y \in queued' <=> y \in queued)
    BY DEF ServerInv, Discipline, StagesOK
  <2> QED
    BY <1>1, <2>1 DEF StageOK
<1>6. ReadsLive'
  <2> SUFFICES ASSUME NEW y \in Tids, NEW k \in Keys, read_ts[<<y, k>>] # 0, phase[<<y, k>>] < 2
               PROVE  /\ call'[y] = [type |-> "TREAD", key |-> k] /\ y \notin queued'
                      /\ \A th \in Threads : \A h \in Tasks(th) : h.tid # y
    BY <1>1, <1>2 DEF ReadsLive, LiveRead
  <2>1. /\ y # x
        /\ call[y] = [type |-> "TREAD", key |-> k] /\ y \notin queued
        /\ \A th \in Threads : \A h \in Tasks(th) : h.tid # y
    BY DEF ServerInv, Discipline, ReadsLive, LiveRead
  <2> QED
    BY <2>1
<1> QED
  BY <1>2, <1>3, <1>4, <1>5, <1>6 DEF Kept, Discipline

\* A coordinator that waits for nothing, or whose request is not taken, has no
\* task and no read to be answered.
LEMMA NoTask ==
    ASSUME ServerInv, NEW x \in Tids, call[x] = NoCall \/ x \in queued
    PROVE  /\ \A th \in Threads : \A h \in Tasks(th) : h.tid # x
           /\ \A k \in Keys : ~(read_ts[<<x, k>>] # 0 /\ phase[<<x, k>>] < 2)
<1>1. \A th \in Threads : \A h \in Tasks(th) : h.tid # x
  BY DEF ServerInv, Discipline, TasksOK, Serves
<1>2. \A k \in Keys : NoCall # [type |-> "TREAD", key |-> k]
  BY DEF NoCall, Client!NoCall
<1>3. \A k \in Keys : ~(read_ts[<<x, k>>] # 0 /\ phase[<<x, k>>] < 2)
  BY <1>2 DEF ServerInv, Discipline, ReadsLive, LiveRead
<1> QED
  BY <1>1, <1>3

\* A request is sent, unless there is no node to send it to.
LEMMA RequestSent ==
    ASSUME ClientTypeOK, NEW x \in Tids, NEW nodes, NEW c \in CallType,
           Client!request(x, nodes, c)
    PROVE  /\ call' \in [Tids -> CallType] /\ queued' \subseteq Tids
           /\ \A y \in Tids \ {x} : call'[y] = call[y]
           /\ queued' \ {x} = queued \ {x}
           /\ \/ call'[x] = c /\ x \in queued'
              \/ call'[x] = call[x] /\ (x \in queued' <=> x \in queued)
<1>1. call \in [Tids -> CallType] /\ queued \subseteq Tids
  BY DEF ClientTypeOK
<1>2. CASE UNCHANGED <<call, queued>>
  BY <1>1, <1>2
<1>3. CASE call' = [call EXCEPT ![x] = c] /\ queued' = queued \cup {x}
  BY <1>1, <1>3
<1> QED
  BY <1>2, <1>3 DEF Client!request

LEMMA ClientRead ==
    ASSUME ServerInv, NEW x \in Tids, NEW key \in Keys,
           Client!read(x, key) \/ Client!write(x, key), UNCHANGED <<vars, serverVars>>
    PROVE  Kept'
<1>1. /\ stage[x] = "running" /\ call[x] = NoCall
      /\ \E type \in {"TREAD", "TWRITE"} :
            Client!request(x, {0}, [type |-> type, key |-> key])
      /\ \/ read_nodes' = [read_nodes EXCEPT ![x] = @ \cup {0}]
         \/ read_nodes' = read_nodes
      /\ \/ write_nodes' = [write_nodes EXCEPT ![x] = @ \cup {0}]
         \/ write_nodes' = write_nodes
      /\ \/ written' = [written EXCEPT ![x] = @ \cup {key}]
         \/ written' = written
      /\ \/ asked' = [asked EXCEPT ![x] = @ \cup {key}]
         \/ asked' = asked
      /\ UNCHANGED <<start_ts, stage, vote>>
  BY DEF Client!read, Client!write, Client!Idle, Client!getNode, NoCall, Client!NoCall
<1>2. PICK c \in CallType : /\ Client!request(x, {0}, c)
                            /\ c.type \in {"TREAD", "TWRITE"} /\ c # NoCall
  BY <1>1 DEF CallType, NoCall, Client!NoCall
<1>3. /\ call' \in [Tids -> CallType] /\ queued' \subseteq Tids
      /\ \A y \in Tids \ {x} : call'[y] = call[y]
      /\ queued' \ {x} = queued \ {x}
      /\ \/ call'[x] = c /\ x \in queued'
         \/ call'[x] = call[x] /\ (x \in queued' <=> x \in queued)
  BY <1>2, RequestSent DEF ServerInv
<1>4. ClientTypeOK'
  BY <1>1, <1>3 DEF ServerInv, ClientTypeOK
<1>5. StageOK(x)'
  <2>1. StageOK(x) /\ finished' = finished
    BY DEF ServerInv, Discipline, StagesOK, vars, historyVars
  <2>2. x \notin finished
    BY <1>1, <2>1 DEF StageOK
  <2> QED
    BY <1>1, <1>2, <1>3, <2>1, <2>2 DEF StageOK
<1> QED
  BY <1>1, <1>3, <1>4, <1>5, NoTask, ClientFrame

LEMMA ClientPhase ==
    ASSUME ServerInv, NEW x \in Tids,
           \/ Client!commit(x)
           \/ Client!abort(x)
           \/ Client!secondPhase(x),
           UNCHANGED <<vars, serverVars>>
    PROVE  Kept'
<1>1. PICK c \in CallType, s \in {"commit", "abort", "end"} :
          /\ call[x] = NoCall /\ stage[x] # "end"
          /\ \/ Client!request(x, write_nodes[x], c)
             \/ Client!request(x, write_nodes[x] \cup read_nodes[x], c)
          /\ c # NoCall
          /\ c.type \in {"TP1C", "TP2C"}
          /\ c.type = "TP1C" => s \in {"commit", "abort"}
          /\ c.type = "TP2C" => s = "end"
          /\ stage' = [stage EXCEPT ![x] = s]
          /\ vote' \in [Tids -> BOOLEAN]
          /\ UNCHANGED <<start_ts, read_nodes, write_nodes, written, asked>>
  <2>1. vote \in [Tids -> BOOLEAN]
    BY DEF ServerInv, ClientTypeOK
  <2>2. /\ [type |-> "TP1C"] \in CallType /\ [type |-> "TP1C"] # NoCall
        /\ [type |-> "TP2C"] \in CallType /\ [type |-> "TP2C"] # NoCall
    BY DEF CallType, NoCall, Client!NoCall
  <2>3. CASE Client!commit(x) \/ Client!abort(x)
    <3>1. PICK s \in {"commit", "abort"} : Client!firstPhase(x, s)
      BY <2>3 DEF Client!commit, Client!abort
    <3>2. /\ call[x] = NoCall /\ stage[x] # "end"
          /\ Client!request(x, write_nodes[x], [type |-> "TP1C"])
          /\ stage' = [stage EXCEPT ![x] = s]
          /\ vote' \in [Tids -> BOOLEAN]
          /\ UNCHANGED <<start_ts, read_nodes, write_nodes, written, asked>>
      BY <2>1, <3>1 DEF Client!firstPhase, Client!Idle, NoCall, Client!NoCall
    <3> QED
      BY <2>2, <3>2
  <2>4. CASE Client!secondPhase(x)
    <3>1. /\ call[x] = NoCall /\ stage[x] # "end"
          /\ Client!request(x, write_nodes[x] \cup read_nodes[x], [type |-> "TP2C"])
          /\ stage' = [stage EXCEPT ![x] = "end"]
          /\ vote' = [vote EXCEPT ![x] = @ /\ stage[x] = "commit"]
          /\ UNCHANGED <<start_ts, read_nodes, write_nodes, written, asked>>
      BY <2>4 DEF Client!secondPhase, Client!Idle, NoCall, Client!NoCall
    <3>2. vote' \in [Tids -> BOOLEAN]
      BY <2>1, <3>1
    <3> QED
      BY <2>2, <3>1, <3>2
  <2> QED
    BY <2>3, <2>4
<1>2. /\ call' \in [Tids -> CallType] /\ queued' \subseteq Tids
      /\ \A y \in Tids \ {x} : call'[y] = call[y]
      /\ queued' \ {x} = queued \ {x}
      /\ \/ call'[x] = c /\ x \in queued'
         \/ call'[x] = call[x] /\ (x \in queued' <=> x \in queued)
  BY <1>1, RequestSent DEF ServerInv
<1>3. ClientTypeOK'
  BY <1>1, <1>2 DEF ServerInv, ClientTypeOK
<1>4. stage'[x] = s /\ \A y \in Tids \ {x} : stage'[y] = stage[y]
  BY <1>1 DEF ServerInv, ClientTypeOK
<1>5. StageOK(x)'
  <2>1. StageOK(x) /\ finished' = finished
    BY DEF ServerInv, Discipline, StagesOK, vars, historyVars
  <2>2. x \notin finished /\ x \notin queued
    BY <1>1, <2>1 DEF StageOK
  <2>3. NoCall.type = "none"
    BY DEF NoCall, Client!NoCall
  <2> QED
    BY <1>1, <1>2, <1>4, <2>1, <2>2, <2>3 DEF StageOK
<1> QED
  BY <1>1, <1>2, <1>3, <1>4, <1>5, NoTask, ClientFrame

LEMMA ClientLoses ==
    ASSUME ServerInv, NEW x \in Tids, Client!loseRequest(x), UNCHANGED <<vars, serverVars>>
    PROVE  Kept'
<1>1. /\ x \in queued /\ call' = [call EXCEPT ![x] = NoCall] /\ queued' = queued \ {x}
      /\ UNCHANGED <<start_ts, read_nodes, write_nodes, written, stage, vote, asked>>
  BY DEF Client!loseRequest, Client!progVars, NoCall, Client!NoCall
<1>2. NoCall \in CallType /\ NoCall.type = "none"
  BY DEF CallType, NoCall, Client!NoCall
<1>3. call \in [Tids -> CallType]
  BY DEF ServerInv, ClientTypeOK
<1>4. call'[x] = NoCall /\ call' \in [Tids -> CallType] /\ \A y \in Tids \ {x} : call'[y] = call[y]
  BY <1>1, <1>2, <1>3
<1>5. ClientTypeOK'
  BY <1>1, <1>4 DEF ServerInv, ClientTypeOK
<1>6. StageOK(x)'
  <2>1. StageOK(x) /\ finished' = finished
    BY DEF ServerInv, Discipline, StagesOK, vars, historyVars
  <2> QED
    BY <1>1, <1>2, <1>4, <2>1 DEF StageOK
<1> QED
  BY <1>1, <1>4, <1>5, <1>6, NoTask, ClientFrame

LEMMA ClientKeeps ==
    ASSUME ServerInv, NEW x \in Tids, ClientStep(x)
    PROVE  Kept' /\ ServerTypeOK'
<1>1. Client!Step(x) /\ UNCHANGED <<vars, serverVars>>
  BY DEF ClientStep
<1>2. Kept'
  BY <1>1, ClientRead, ClientPhase, ClientLoses DEF Client!Step
<1>3. ServerTypeOK'
  BY <1>1 DEF ServerInv, ServerTypeOK, serverVars, nodeVars, dataVars, eventVars
<1> QED
  BY <1>2, <1>3

-----------------------------------------------------------------------------
(* The server                                                               *)

LEMMA ServerInitial == ServerInit => ServerInv
<1> SUFFICES ASSUME ServerInit PROVE ServerInv
  OBVIOUS
<1>1. Init /\ Client!Init
  BY DEF ServerInit
<1>2. TableInv
  BY <1>1, TableInit
<1>3. \A th \in Threads : stack[th] = <<>> /\ pc[th] = "idle" /\ fired[th] = {}
  BY DEF ServerInit, Init
<1>4. \A x \in Tids : call[x] = NoCall
  BY <1>1 DEF Client!Init, NoCall, Client!NoCall
<1>5. ClientTypeOK
  BY <1>1 DEF Client!Init, Client!genStartTimestamp, ClientTypeOK, CallType, NoCall, Client!NoCall
<1>6. ServerTypeOK
  <2>1. <<>> \in Seq(Handler) /\ <<>> \in Seq(Keys)
    BY EmptySeq
  <2>2. 0 \in TS
    BY MaxTsAssumption DEF TS
  <2> QED
    BY <2>1, <2>2 DEF ServerInit, ServerTypeOK
<1>7. StackOK
  BY <1>3, <1>6 DEF StackOK, ServerTypeOK
<1>8. \A th \in Threads : Tasks(th) = {} /\ ReadsOf(th) = {}
  BY <1>3, <1>7, IdleStack
<1>9. \A e \in Request : read_ts[e] = 0
  BY DEF ServerInit
<1>10. TasksOK /\ ReadsOK /\ OneTask /\ CallersOK
  BY <1>3, <1>8 DEF TasksOK, ReadsOK, OneTask, CallersOK
<1>11. StagesOK
  <2>1. queued = {} /\ finished = {}
    BY <1>1 DEF Client!Init, Init
  <2> QED
    BY <1>4, <2>1 DEF StagesOK, StageOK, NoCall, Client!NoCall
<1>12. ReadsLive
  <2>1. \A x \in Tids, k \in Keys : <<x, k>> \in Request
    BY DEF Request
  <2> QED
    BY <1>9, <2>1 DEF ReadsLive, LiveRead
<1>13. Registered
  BY <1>1, <1>3 DEF Init, Registered
<1> QED
  BY <1>2, <1>5, <1>6, <1>7, <1>10, <1>11, <1>12, <1>13 DEF ServerInv, Discipline

LEMMA ServerStep ==
    ASSUME ServerInv, [ServerNext]_allVars
    PROVE  ServerInv'
<1>1. [Next]_vars
  BY UsesStep
<1>2. TableInv'
  BY <1>1, TableStep DEF ServerInv
<1>3. ASSUME NEW th \in Threads, Worker(th) PROVE Kept' /\ ServerTypeOK'
  <2>1. CASE getEvent(th)
    BY <2>1, GetRead, GetTask, GetUnknown DEF getEvent
  <2>2. CASE readLock(th) \/ readValue(th) \/ readExit(th) \/ writeRun(th)
    BY <2>2, ReadLock, ReadValue, ReadExit, WriteRun
  <2>3. CASE p1cLock(th) \/ p1cVote(th)
    BY <2>3, P1CLock, P1CVote
  <2>4. CASE p2cStart(th) \/ p2cLocks(th) \/ p2cWake(th) \/ p2cFinalize(th)
    BY <2>4, P2CStart, P2CLocks, P2CWake, P2CFinalize
  <2> QED
    BY <1>3, <2>1, <2>2, <2>3, <2>4 DEF Worker
<1>4. ASSUME NEW x \in Tids, ClientStep(x) PROVE Kept' /\ ServerTypeOK'
  BY <1>4, ClientKeeps
<1>5. ASSUME UNCHANGED allVars PROVE Kept' /\ ServerTypeOK'
  <2>1. UNCHANGED <<vars, clientVars, serverVars>>
    BY <1>5 DEF allVars
  <2>2. UNCHANGED <<start_ts, read_nodes, write_nodes, written, stage, vote, call, queued, asked,
                    stack, read_ts, phase, events, fired, pc, arg, finished>>
    BY <2>1 DEF clientVars, progVars, serverVars, eventVars, vars, tableVars, threadVars, historyVars
  <2>3. ClientTypeOK' /\ ServerTypeOK'
    BY <2>1, <2>2
       DEF ServerInv, ClientTypeOK, ServerTypeOK, serverVars, nodeVars, dataVars
  <2>4. StackOK' /\ \A th \in Threads : Tasks(th)' = Tasks(th) /\ ReadsOf(th)' = ReadsOf(th)
    BY <2>2, SameStack DEF ServerInv
  <2>5. Discipline'
    BY <2>2, <2>4 DEF ServerInv, Discipline, TasksOK, ReadsOK, OneTask, StagesOK, ReadsLive,
          Registered, CallersOK, Serves, ReadArgs, StageOK, LiveRead
  <2> QED
    BY <2>3, <2>4, <2>5 DEF Kept
<1>6. Kept' /\ ServerTypeOK'
  BY <1>3, <1>4, <1>5 DEF ServerNext
<1> QED
  BY <1>2, <1>6 DEF ServerInv, Kept

\* The server keeps its types: every handler on a stack, every version of the
\* store and every pending write is one, whatever the workers do together.
THEOREM ServerTypeCorrect == ServerSpec => []ServerTypeOK
<1>1. ServerSpec => []ServerInv
  BY ServerInitial, ServerStep, PTL DEF ServerSpec
<1>2. ServerInv => ServerTypeOK
  BY DEF ServerInv
<1> QED
  BY <1>1, <1>2, PTL

\* What SimpleTServer, its events and the coordinators do to the lock manager is
\* a behaviour of the lock manager and its clients: P1CEvent and P2CEvent lock
\* nothing for a transaction after freeze or unlock, however requests interleave,
\* and only a read event that runs again does.
THEOREM ServerUsesLockManager == ServerSpec => UsesLockManager
<1>1. ServerSpec => []ServerInv
  BY ServerInitial, ServerStep, PTL DEF ServerSpec
<1>2. ServerInit => Init
  BY DEF ServerInit
<1>3. ServerInv /\ [ServerNext]_allVars => [Next]_vars
  BY UsesStep
<1> QED
  BY <1>1, <1>2, <1>3, PTL DEF ServerSpec, UsesLockManager, Spec

\* So what is proved of the lock manager holds of it in the server.
THEOREM ServerLocksSafe ==
    ServerSpec => [](TypeOK /\ TablesTile) /\ FrozenForever
BY ServerUsesLockManager, TypeCorrect, TimePartitioned, FrozenIsForever, PTL DEF UsesLockManager
=============================================================================
