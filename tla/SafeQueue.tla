------------------------------ MODULE SafeQueue ------------------------------
(***************************************************************************)
(* The bounded queue that hands coordinators to the client's threads and   *)
(* events to the server's workers: a mutex and two condition variables.    *)
(*                                                                         *)
(* An operation holds the mutex except while it waits, so what it does     *)
(* between two waits is one action.  A waiting thread is woken by          *)
(* notify_one or spuriously; it then competes for the mutex with everyone  *)
(* else and tests its condition again.                                     *)
(***************************************************************************)
EXTENDS Integers, Sequences, FiniteSets

CONSTANTS
    Threads,   \* the threads that use the queue
    Items,     \* what is queued
    MaxSize,   \* _max_size
    MaxPuts    \* bound on the number of elements ever queued

ASSUME QueueAssumption ==
    /\ IsFiniteSet(Threads)
    /\ MaxSize \in Nat \ {0}
    /\ MaxPuts \in Nat

VARIABLES
    queue,   \* _queue
    pc,      \* where each thread is
    item,    \* the argument of a thread that is in enqueue
    put,     \* history: the elements in the order they were pushed
    got      \* history: the elements in the order they were popped

vars == <<queue, pc, item, put, got>>

\* Outside, waiting on a condition variable, or woken up and after the mutex.
Where == {"out", "wait1", "woken1", "wait2", "woken2"}

At(where) == {th \in Threads : pc[th] = where}

Init ==
    /\ queue = <<>>
    /\ pc = [th \in Threads |-> "out"]
    /\ item \in [Threads -> Items]
    /\ put = <<>>
    /\ got = <<>>

\* What becomes of the program counters p when one of the threads that wait on a
\* condition variable, if there is any, is notified.
notify_one(p, waiting, woken) ==
    IF \E th \in Threads : p[th] = waiting
    THEN {[p EXCEPT ![th] = woken] : th \in {x \in Threads : p[x] = waiting}}
    ELSE {p}

\* The loop of enqueue, up to the wait or to the end.
push(th, x) ==
    IF Len(queue) = MaxSize
    THEN /\ pc' = [pc EXCEPT ![th] = "wait1"]
         /\ UNCHANGED <<queue, put>>
    ELSE /\ queue' = Append(queue, x)
         /\ put' = Append(put, x)
         /\ pc' \in notify_one([pc EXCEPT ![th] = "out"], "wait2", "woken2")

enqueue(th, x) ==
    /\ pc[th] = "out"
    /\ Len(put) < MaxPuts
    /\ item' = [item EXCEPT ![th] = x]
    /\ push(th, x)
    /\ UNCHANGED got

enqueueAgain(th) ==
    /\ pc[th] = "woken1"
    /\ Len(put) < MaxPuts
    /\ push(th, item[th])
    /\ UNCHANGED <<item, got>>

\* Mutants: the rest of the queue is returned; the back is; the wrong condition
\* variable is notified.
pop_Rest(th) ==
    /\ queue' = Tail(queue)
    /\ got' = Append(got, Tail(queue))
    /\ pc' \in notify_one([pc EXCEPT ![th] = "out"], "wait1", "woken1")
pop_Back(th) ==
    /\ queue' = SubSeq(queue, 1, Len(queue) - 1)
    /\ got' = Append(got, queue[Len(queue)])
    /\ pc' \in notify_one([pc EXCEPT ![th] = "out"], "wait1", "woken1")
pop_WrongCond(th) ==
    /\ queue' = Tail(queue)
    /\ got' = Append(got, Head(queue))
    /\ pc' \in notify_one([pc EXCEPT ![th] = "out"], "wait2", "woken2")

\* The front leaves the queue and a producer is notified.
pop(th) ==
    /\ queue' = Tail(queue)
    /\ got' = Append(got, Head(queue))
    /\ pc' \in notify_one([pc EXCEPT ![th] = "out"], "wait1", "woken1")

\* The loop of dequeue, from its start or after a wait.
dequeue(th) ==
    /\ pc[th] \in {"out", "woken2"}
    /\ IF Len(queue) = 0
       THEN pc' = [pc EXCEPT ![th] = "wait2"] /\ UNCHANGED <<queue, got>>
       ELSE pop(th)
    /\ UNCHANGED <<item, put>>

\* An unsuccessful tryDequeue changes nothing.
tryDequeue(th) ==
    /\ pc[th] = "out"
    /\ Len(queue) # 0
    /\ pop(th)
    /\ UNCHANGED <<item, put>>

\* A condition variable may return from wait without a notification.
spurious(th) ==
    /\ \/ pc[th] = "wait1" /\ pc' = [pc EXCEPT ![th] = "woken1"]
       \/ pc[th] = "wait2" /\ pc' = [pc EXCEPT ![th] = "woken2"]
    /\ UNCHANGED <<queue, item, put, got>>

Next ==
    \E th \in Threads :
        \/ \E x \in Items : enqueue(th, x)
        \/ enqueueAgain(th)
        \/ dequeue(th)
        \/ tryDequeue(th)
        \/ spurious(th)

Spec == Init /\ [][Next]_vars

-----------------------------------------------------------------------------
TypeOK ==
    /\ queue \in Seq(Items)
    /\ pc \in [Threads -> Where]
    /\ item \in [Threads -> Items]
    /\ put \in Seq(Items)
    /\ got \in Seq(Items)

\* "Synchronized FIFO queue": whatever threads push, pop, wait and wake up in
\* between, the elements come out in the order they went in, none twice and none
\* lost, and the queue never holds more than its maximum.
FIFO == put = got \o queue /\ Len(queue) <= MaxSize

\* notify_one suffices: while a consumer sleeps, as many consumers are awake as
\* there are elements, and while a producer sleeps, as many producers are awake as
\* there is room.  So nobody sleeps on although there is something to do.
NoLostSignal ==
    /\ At("wait2") # {} => Len(queue) <= Cardinality(At("woken2"))
    /\ At("wait1") # {} => MaxSize - Len(queue) <= Cardinality(At("woken1"))
=============================================================================
