--------------------------- MODULE SafeQueueProofs ---------------------------
(***************************************************************************)
(* Proofs that SafeQueue is a bounded FIFO queue and that a single         *)
(* notification per operation is enough, for any number of threads and any *)
(* size.  The two invariants are inductive together with the types.        *)
(***************************************************************************)
EXTENDS SafeQueue, FiniteSetTheorems, SequenceTheorems, TLAPS

\* The threads that p has at a place.
Of(p, where) == {th \in Threads : p[th] = where}

\* The number of threads at a place is a natural number.
LEMMA CountType ==
    ASSUME NEW p, NEW where
    PROVE  IsFiniteSet(Of(p, where)) /\ Cardinality(Of(p, where)) \in Nat
  BY QueueAssumption, FS_Subset, FS_CardinalityType DEF Of

\* From p to q a thread moved from one place to another: it is one more there, one
\* less where it was, and makes no difference elsewhere.
Shift(p, q, from, to) ==
    /\ q \in [Threads -> Where]
    /\ Cardinality(Of(q, to)) = Cardinality(Of(p, to)) + 1
    /\ Cardinality(Of(q, from)) = Cardinality(Of(p, from)) - 1
    /\ \A w \in Where : w # to /\ w # from => Of(q, w) = Of(p, w)

\* Assigning a thread another place is such a move.
LEMMA Move ==
    ASSUME NEW p \in [Threads -> Where], NEW th \in Threads, NEW from, NEW to \in Where,
           p[th] = from, from # to, NEW q, q = [p EXCEPT ![th] = to]
    PROVE  Shift(p, q, from, to)
<1>1. Of(q, to) = Of(p, to) \cup {th} /\ th \notin Of(p, to)
  BY DEF Of
<1>2. Of(q, from) = Of(p, from) \ {th} /\ th \in Of(p, from)
  BY DEF Of
<1>3. Cardinality(Of(q, to)) = Cardinality(Of(p, to)) + 1
  BY <1>1, CountType, FS_AddElement
<1>4. Cardinality(Of(q, from)) = Cardinality(Of(p, from)) - 1
  BY <1>2, CountType, FS_RemoveElement
<1>5. \A w \in Where : w # to /\ w # from => Of(q, w) = Of(p, w)
  BY DEF Of
<1>6. q \in [Threads -> Where]
  OBVIOUS
<1> QED
  BY <1>3, <1>4, <1>5, <1>6 DEF Shift

\* From p to q one thread that was waiting is woken up, if there was one.
Signal(p, q, waiting, woken) ==
    /\ q \in [Threads -> Where]
    /\ \A w \in Where : w # waiting /\ w # woken => Of(q, w) = Of(p, w)
    /\ Of(p, waiting) = {} => q = p
    /\ Of(p, waiting) # {} => Cardinality(Of(q, woken)) = Cardinality(Of(p, woken)) + 1

\* That is what notify_one does.
LEMMA Notified ==
    ASSUME NEW p \in [Threads -> Where], NEW waiting \in Where, NEW woken \in Where,
           waiting # woken, NEW q \in notify_one(p, waiting, woken)
    PROVE  Signal(p, q, waiting, woken)
<1>1. CASE Of(p, waiting) = {}
  <2>1. q = p
    BY <1>1 DEF notify_one, Of
  <2> QED
    BY <1>1, <2>1 DEF Signal
<1>2. CASE Of(p, waiting) # {}
  <2>1. PICK th \in Threads : p[th] = waiting /\ q = [p EXCEPT ![th] = woken]
    BY <1>2 DEF notify_one, Of
  <2>2. Shift(p, q, waiting, woken)
    BY <2>1, Move
  <2> QED
    BY <1>2, <2>2 DEF Signal, Shift
<1> QED
  BY <1>1, <1>2

\* From p to q a thread left: only the place it was woken up at may have lost it.
Leave(p, q, woken) ==
    /\ q \in [Threads -> Where]
    /\ \A w \in Where : w # "out" /\ w # woken => Of(q, w) = Of(p, w)
    /\ Cardinality(Of(q, woken)) >= Cardinality(Of(p, woken)) - 1

\* That is what the end of an operation does.
LEMMA Done ==
    ASSUME NEW p \in [Threads -> Where], NEW th \in Threads,
           NEW woken \in {"woken1", "woken2"}, p[th] \in {"out", woken},
           NEW q, q = [p EXCEPT ![th] = "out"]
    PROVE  Leave(p, q, woken)
<1>0. "out" \in Where /\ woken \in Where /\ woken # "out"
  BY DEF Where
<1>1. Cardinality(Of(p, woken)) \in Nat /\ Cardinality(Of(q, woken)) \in Nat
  BY CountType
<1>2. CASE p[th] = "out"
  <2>1. q = p
    BY <1>2
  <2> QED
    BY <1>1, <2>1 DEF Leave
<1>3. CASE p[th] = woken
  <2>1. Shift(p, q, woken, "out")
    BY <1>0, <1>3, Move
  <2>2. /\ q \in [Threads -> Where]
        /\ \A w \in Where : w # "out" /\ w # woken => Of(q, w) = Of(p, w)
    BY <2>1 DEF Shift
  <2>3. Cardinality(Of(q, woken)) = Cardinality(Of(p, woken)) - 1
    BY <2>1 DEF Shift
  <2>4. Cardinality(Of(q, woken)) >= Cardinality(Of(p, woken)) - 1
    BY <1>1, <2>3
  <2> QED
    BY <2>2, <2>4 DEF Leave
<1> QED
  BY <1>2, <1>3

-----------------------------------------------------------------------------
QueueInv == TypeOK /\ FIFO /\ NoLostSignal

\* An element joins the end of what was pushed and of what is in the queue.
LEMMA PushOrder ==
    ASSUME NEW s \in Seq(Items), NEW g \in Seq(Items), NEW x \in Items
    PROVE  Append(g \o s, x) = g \o Append(s, x)
<1>1. /\ g \o s \in Seq(Items) /\ Append(s, x) \in Seq(Items)
      /\ Len(g \o s) = Len(g) + Len(s)
      /\ Len(Append(s, x)) = Len(s) + 1
  BY ConcatProperties
<1>2. /\ Append(g \o s, x) \in Seq(Items) /\ g \o Append(s, x) \in Seq(Items)
      /\ Len(Append(g \o s, x)) = Len(g) + Len(s) + 1
      /\ Len(g \o Append(s, x)) = Len(g) + Len(s) + 1
  BY <1>1, ConcatProperties
<1>3. ASSUME NEW i \in 1 .. Len(g) + Len(s) + 1
      PROVE  Append(g \o s, x)[i] = (g \o Append(s, x))[i]
  BY <1>1, <1>3, ConcatProperties
<1> QED
  BY <1>2, <1>3, SeqEqual

\* The front element moves to the end of what was popped.
LEMMA PopOrder ==
    ASSUME NEW s \in Seq(Items), NEW g \in Seq(Items), s # <<>>
    PROVE  g \o s = Append(g, Head(s)) \o Tail(s)
<1>1. /\ Head(s) \in Items /\ Tail(s) \in Seq(Items) /\ Append(g, Head(s)) \in Seq(Items)
      /\ Len(Tail(s)) = Len(s) - 1 /\ Len(Append(g, Head(s))) = Len(g) + 1
      /\ Head(s) = s[1]
      /\ \A i \in 1 .. Len(s) - 1 : Tail(s)[i] = s[i + 1]
  BY HeadTailProperties
<1>2. /\ g \o s \in Seq(Items) /\ Append(g, Head(s)) \o Tail(s) \in Seq(Items)
      /\ Len(g \o s) = Len(g) + Len(s)
      /\ Len(Append(g, Head(s)) \o Tail(s)) = Len(g) + Len(s)
  BY <1>1, ConcatProperties
<1>3. ASSUME NEW i \in 1 .. Len(g) + Len(s)
      PROVE  (g \o s)[i] = (Append(g, Head(s)) \o Tail(s))[i]
  BY <1>1, <1>3, ConcatProperties
<1> QED
  BY <1>2, <1>3, SeqEqual

\* What enqueue does after it got the mutex keeps the invariant.
LEMMA PushKeeps ==
    ASSUME QueueInv, NEW th \in Threads, pc[th] \in {"out", "woken1"}, NEW x \in Items,
           push(th, x), item' \in [Threads -> Items], got' = got
    PROVE  QueueInv'
<1> USE DEF QueueInv
<1>0. Len(queue) \in Nat /\ MaxSize \in Nat /\ pc \in [Threads -> Where]
  BY QueueAssumption DEF TypeOK
<1>1. CASE Len(queue) = MaxSize
  <2>1. pc' = [pc EXCEPT ![th] = "wait1"] /\ queue' = queue /\ put' = put
    BY <1>1 DEF push
  <2>2. TypeOK' /\ FIFO'
    BY <2>1 DEF TypeOK, FIFO, Where
  <2>3. "wait1" \in Where /\ "wait2" \in Where /\ "woken2" \in Where
    BY DEF Where
  <2>4. Shift(pc, pc', pc[th], "wait1")
    BY <1>0, <2>1, <2>3, Move
  <2>5. Of(pc', "wait2") = Of(pc, "wait2") /\ Of(pc', "woken2") = Of(pc, "woken2")
    BY <2>3, <2>4 DEF Shift
  <2>6. Cardinality(Of(pc', "woken1")) \in Nat
    BY CountType
  <2>7. /\ Of(pc', "wait2") # {} => Len(queue') <= Cardinality(Of(pc', "woken2"))
        /\ Of(pc', "wait1") # {} =>
             MaxSize - Len(queue') <= Cardinality(Of(pc', "woken1"))
    <3>1. Of(pc, "wait2") # {} => Len(queue) <= Cardinality(Of(pc, "woken2"))
      BY DEF NoLostSignal, At, Of
    <3> QED
      BY <1>0, <1>1, <2>1, <2>5, <2>6, <3>1
  <2> QED
    BY <2>2, <2>7 DEF NoLostSignal, At, Of
<1>2. CASE Len(queue) # MaxSize
  <2> DEFINE p == [pc EXCEPT ![th] = "out"]
  <2>1. /\ queue' = Append(queue, x) /\ put' = Append(put, x)
        /\ pc' \in notify_one(p, "wait2", "woken2")
    BY <1>2 DEF push
  <2>2. {"out", "wait1", "woken1", "wait2", "woken2"} = Where
    BY DEF Where
  <2>3. /\ p \in [Threads -> Where]
        /\ \A w \in {"wait1", "wait2", "woken2"} : Of(p, w) = Of(pc, w)
        /\ Cardinality(Of(p, "woken1")) >= Cardinality(Of(pc, "woken1")) - 1
    <3>1. Leave(pc, p, "woken1")
      BY <1>0, Done
    <3> QED
      BY <2>2, <3>1 DEF Leave
  <2> HIDE DEF p
  <2>4. /\ pc' \in [Threads -> Where]
        /\ \A w \in {"wait1", "woken1"} : Of(pc', w) = Of(p, w)
        /\ Of(p, "wait2") = {} => pc' = p
        /\ Of(p, "wait2") # {} =>
             Cardinality(Of(pc', "woken2")) = Cardinality(Of(p, "woken2")) + 1
    <3>1. Signal(p, pc', "wait2", "woken2")
      BY <2>1, <2>2, <2>3, Notified
    <3> QED
      BY <2>2, <3>1 DEF Signal
  <2>5. queue' \in Seq(Items) /\ put' \in Seq(Items) /\ Len(queue') = Len(queue) + 1
    BY <2>1 DEF TypeOK
  <2>6. TypeOK'
    BY <2>4, <2>5 DEF TypeOK
  <2>7. FIFO'
    BY <1>0, <1>2, <2>1, <2>5, PushOrder DEF TypeOK, FIFO
  <2>8. /\ Of(pc', "wait2") # {} => Len(queue') <= Cardinality(Of(pc', "woken2"))
        /\ Of(pc', "wait1") # {} =>
             MaxSize - Len(queue') <= Cardinality(Of(pc', "woken1"))
    <3>1. /\ Of(pc, "wait2") # {} => Len(queue) <= Cardinality(Of(pc, "woken2"))
          /\ Of(pc, "wait1") # {} => MaxSize - Len(queue) <= Cardinality(Of(pc, "woken1"))
      BY DEF NoLostSignal, At, Of
    <3> QED
      BY <1>0, <2>3, <2>4, <2>5, <3>1, CountType
  <2> QED
    BY <2>6, <2>7, <2>8 DEF NoLostSignal, At, Of
<1> QED
  BY <1>1, <1>2

\* What dequeue and tryDequeue do with an element keeps the invariant.
LEMMA PopKeeps ==
    ASSUME QueueInv, NEW th \in Threads, pc[th] \in {"out", "woken2"}, Len(queue) # 0,
           pop(th), item' = item, put' = put
    PROVE  QueueInv'
<1> USE DEF QueueInv
<1> DEFINE p == [pc EXCEPT ![th] = "out"]
<1>0. Len(queue) \in Nat /\ MaxSize \in Nat /\ pc \in [Threads -> Where] /\ queue # <<>>
  BY QueueAssumption DEF TypeOK
<1>1. /\ queue' = Tail(queue) /\ got' = Append(got, Head(queue))
      /\ pc' \in notify_one(p, "wait1", "woken1")
  BY DEF pop
<1>2. {"out", "wait1", "woken1", "wait2", "woken2"} = Where
  BY DEF Where
<1>3. /\ p \in [Threads -> Where]
      /\ \A w \in {"wait1", "woken1", "wait2"} : Of(p, w) = Of(pc, w)
      /\ Cardinality(Of(p, "woken2")) >= Cardinality(Of(pc, "woken2")) - 1
  <2>1. Leave(pc, p, "woken2")
    BY <1>0, Done
  <2> QED
    BY <1>2, <2>1 DEF Leave
<1> HIDE DEF p
<1>4. /\ pc' \in [Threads -> Where]
      /\ \A w \in {"wait2", "woken2"} : Of(pc', w) = Of(p, w)
      /\ Of(p, "wait1") = {} => pc' = p
      /\ Of(p, "wait1") # {} =>
           Cardinality(Of(pc', "woken1")) = Cardinality(Of(p, "woken1")) + 1
  <2>1. Signal(p, pc', "wait1", "woken1")
    BY <1>1, <1>2, <1>3, Notified
  <2> QED
    BY <1>2, <2>1 DEF Signal
<1>5. queue' \in Seq(Items) /\ got' \in Seq(Items) /\ Len(queue') = Len(queue) - 1
  BY <1>0, <1>1, HeadTailProperties DEF TypeOK
<1>6. TypeOK'
  BY <1>4, <1>5 DEF TypeOK
<1>7. FIFO'
  BY <1>0, <1>1, <1>5, PopOrder DEF TypeOK, FIFO
<1>8. /\ Of(pc', "wait2") # {} => Len(queue') <= Cardinality(Of(pc', "woken2"))
      /\ Of(pc', "wait1") # {} => MaxSize - Len(queue') <= Cardinality(Of(pc', "woken1"))
  <2>1. /\ Of(pc, "wait2") # {} => Len(queue) <= Cardinality(Of(pc, "woken2"))
        /\ Of(pc, "wait1") # {} => MaxSize - Len(queue) <= Cardinality(Of(pc, "woken1"))
    BY DEF NoLostSignal, At, Of
  <2> QED
    BY <1>0, <1>3, <1>4, <1>5, <2>1, CountType
<1> QED
  BY <1>6, <1>7, <1>8 DEF NoLostSignal, At, Of

\* Every step of the queue keeps the invariant.
LEMMA QueueStep ==
    ASSUME QueueInv, [Next]_vars
    PROVE  QueueInv'
<1>1. ASSUME NEW th \in Threads, NEW x \in Items, enqueue(th, x) PROVE QueueInv'
  BY <1>1, PushKeeps DEF enqueue, QueueInv, TypeOK
<1>2. ASSUME NEW th \in Threads, enqueueAgain(th) PROVE QueueInv'
  BY <1>2, PushKeeps DEF enqueueAgain, QueueInv, TypeOK
<1>3. ASSUME NEW th \in Threads, dequeue(th) PROVE QueueInv'
  <2>1. CASE Len(queue) # 0
    BY <1>3, <2>1, PopKeeps DEF dequeue
  <2>2. CASE Len(queue) = 0
    <3>1. /\ pc' = [pc EXCEPT ![th] = "wait2"] /\ UNCHANGED <<queue, got, item, put>>
          /\ pc[th] \in {"out", "woken2"}
      BY <1>3, <2>2 DEF dequeue
    <3>2. TypeOK' /\ FIFO'
      BY <3>1 DEF QueueInv, TypeOK, FIFO, Where
    <3>3. {"wait1", "woken1", "wait2"} \subseteq Where /\ pc \in [Threads -> Where]
      BY DEF QueueInv, TypeOK, Where
    <3>4. Shift(pc, pc', pc[th], "wait2")
      BY <3>1, <3>3, Move
    <3>5. Of(pc', "wait1") = Of(pc, "wait1") /\ Of(pc', "woken1") = Of(pc, "woken1")
      BY <3>1, <3>3, <3>4 DEF Shift
    <3>6. Cardinality(Of(pc', "woken2")) \in Nat
      BY CountType
    <3>7. /\ Of(pc', "wait2") # {} => Len(queue') <= Cardinality(Of(pc', "woken2"))
          /\ Of(pc', "wait1") # {} =>
               MaxSize - Len(queue') <= Cardinality(Of(pc', "woken1"))
      <4>1. Of(pc, "wait1") # {} => MaxSize - Len(queue) <= Cardinality(Of(pc, "woken1"))
        BY DEF QueueInv, NoLostSignal, At, Of
      <4>2. queue' = queue /\ 0 <= Cardinality(Of(pc', "woken2"))
        BY <3>1, <3>6
      <4>3. Len(queue') <= Cardinality(Of(pc', "woken2"))
        BY <2>2, <4>2
      <4> QED
        BY <3>5, <4>1, <4>2, <4>3
    <3> QED
      BY <3>2, <3>7 DEF QueueInv, NoLostSignal, At, Of
  <2> QED
    BY <2>1, <2>2
<1>4. ASSUME NEW th \in Threads, tryDequeue(th) PROVE QueueInv'
  BY <1>4, PopKeeps DEF tryDequeue
<1>5. ASSUME NEW th \in Threads, spurious(th) PROVE QueueInv'
  <2>1. PICK i \in {<<"wait1", "woken1">>, <<"wait2", "woken2">>} :
            pc[th] = i[1] /\ pc' = [pc EXCEPT ![th] = i[2]]
    BY <1>5 DEF spurious
  <2>2. UNCHANGED <<queue, item, put, got>>
    BY <1>5 DEF spurious
  <2>3. pc \in [Threads -> Where] /\ i[1] \in Where /\ i[2] \in Where /\ i[1] # i[2]
    BY DEF QueueInv, TypeOK, Where
  <2>4. TypeOK' /\ FIFO'
    BY <2>1, <2>2, <2>3 DEF QueueInv, TypeOK, FIFO
  <2>5. \A w \in {"wait1", "wait2"} : Of(pc', w) \subseteq Of(pc, w)
    BY <2>1, <2>3 DEF Of
  <2>6. \A w \in {"woken1", "woken2"} :
            Cardinality(Of(pc', w)) >= Cardinality(Of(pc, w))
    <3>1. Shift(pc, pc', i[1], i[2])
      BY <2>1, <2>3, Move
    <3>2. \A w \in {"woken1", "woken2"} : w \in Where /\ w # i[1]
      BY DEF Where
    <3>3. \A w \in {"woken1", "woken2"} : Cardinality(Of(pc, w)) \in Nat
      BY CountType
    <3> QED
      BY <3>1, <3>2, <3>3 DEF Shift
  <2>7. /\ Of(pc, "wait2") # {} => Len(queue) <= Cardinality(Of(pc, "woken2"))
        /\ Of(pc, "wait1") # {} => MaxSize - Len(queue) <= Cardinality(Of(pc, "woken1"))
    BY DEF QueueInv, NoLostSignal, At, Of
  <2>8. Len(queue) \in Nat /\ MaxSize \in Nat
    BY QueueAssumption DEF QueueInv, TypeOK
  <2>9. /\ Of(pc', "wait2") # {} => Len(queue') <= Cardinality(Of(pc', "woken2"))
        /\ Of(pc', "wait1") # {} => MaxSize - Len(queue') <= Cardinality(Of(pc', "woken1"))
    BY <2>2, <2>5, <2>6, <2>7, <2>8, CountType
  <2> QED
    BY <2>4, <2>9 DEF QueueInv, NoLostSignal, At, Of
<1>6. CASE UNCHANGED vars
  BY <1>6 DEF vars, QueueInv, TypeOK, FIFO, NoLostSignal, At
<1> QED
  BY <1>1, <1>2, <1>3, <1>4, <1>5, <1>6 DEF Next

LEMMA QueueAlways == Spec => []QueueInv
<1>1. Init => QueueInv
  <2> SUFFICES ASSUME Init PROVE QueueInv
    OBVIOUS
  <2>1. TypeOK
    BY DEF Init, TypeOK, Where
  <2>2. FIFO
    BY QueueAssumption DEF Init, FIFO
  <2>3. At("wait1") = {} /\ At("wait2") = {}
    BY DEF Init, At
  <2> QED
    BY <2>1, <2>2, <2>3 DEF QueueInv, NoLostSignal
<1>2. QueueInv /\ [Next]_vars => QueueInv'
  BY QueueStep
<1> QED
  BY <1>1, <1>2, PTL DEF Spec

\* Type correctness: the queue and what threads have in hand are elements, and every
\* thread is at one of the steps of enqueue and dequeue.
THEOREM QueueTypeCorrect == Spec => []TypeOK
<1>1. QueueInv => TypeOK
  BY DEF QueueInv
<1> QED
  BY QueueAlways, <1>1, PTL

\* Elements leave the queue in the order they entered it, for any number of threads
\* and any size of queue.
THEOREM QueueIsFIFO == Spec => []FIFO
<1>1. QueueInv => FIFO
  BY DEF QueueInv
<1> QED
  BY QueueAlways, <1>1, PTL

\* No waiting thread is forgotten by notify_one, for any number of threads and any
\* size of queue.
THEOREM SignalsAreKept == Spec => []NoLostSignal
<1>1. QueueInv => NoLostSignal
  BY DEF QueueInv
<1> QED
  BY QueueAlways, <1>1, PTL
=============================================================================
