--------------------------- MODULE AVLTreeLockNode ---------------------------
(***************************************************************************)
(* The AVL tree of one key with its links and heights, and the loops of    *)
(* the lock manager over it.                                               *)
(*                                                                         *)
(* LockTable states what a lock operation does to the intervals of a key   *)
(* by its outcome.  Here a call goes through the tree the way the code     *)
(* does: a call of find, insert, balance or getRoot on one node, and a     *)
(* round of a loop of the lock manager, is a step.  The key's mutex is     *)
(* held all the time, so there is one call at a time; call.before is the   *)
(* table the call started from, and when it returns the invariants compare *)
(* what it did with what LockTable says.                                   *)
(***************************************************************************)
EXTENDS LockTable, SequencesExt

CONSTANTS
    Times,          \* the ts_end of calls of tryBackwardLock
    BackwardModes,  \* the values of is_read passed to tryBackwardLock
    Intervals,      \* the intervals passed to tryLock
    PointModes      \* the values of is_read passed to tryLock

ASSUME TreeAssumption ==
    /\ Times \subseteq 0 .. MaxTs - 1
    /\ Intervals \subseteq [lo : TS \ {0}, hi : TS]
    /\ BackwardModes \subseteq BOOLEAN
    /\ PointModes \subseteq BOOLEAN

VARIABLES
    nodes,      \* the nodes in the order they were made; an address is a position
    tree,       \* their links and heights
    root,       \* KeyInfo::_root
    intervals,  \* the interval recorded for each transaction
    call,       \* the call under way, its arguments and the table before it
    pc,         \* where the call is
    at,         \* the node find, insert, balance or getRoot is called on
    after,      \* where find returns to
    from,       \* the node under which insert hangs the new one
    locks,      \* the stack of nodes that find fills
    cur_ts,     \* cur_ts; ts_end in freeze and unlock
    ends,       \* the ends where an event is registered or collected
    res         \* the result of tryBackwardLock or tryLock

vars == <<nodes, tree, root, intervals, call, pc, at, after, from, locks, cur_ts, ends, res>>

null == 0

Sides == {"left", "right"}
Other(side) == IF side = "left" THEN "right" ELSE "left"

-----------------------------------------------------------------------------
(* Heights and rotations                                                    *)

Height(t, n) ==
    IF n = null THEN 0
    ELSE IF t.height[n]["left"] >= t.height[n]["right"] THEN t.height[n]["left"] + 1
    ELSE t.height[n]["right"] + 1

updateHeight(t, n) ==
    [t EXCEPT !.height = [t.height EXCEPT ![n] = [s \in Sides |-> Height(t, t.child[n][s])]]]

\* Mutant: the subtree that changes sides keeps its old parent.
swap_OldParent(t, n, side) ==
    LET c     == t.child[n][side]
        inner == t.child[c][Other(side)]
        p     == t.parent[n]
        moved == [child  |-> [x \in DOMAIN t.child |-> [s \in Sides |->
                                 IF x = n /\ s = side THEN inner
                                 ELSE IF x = c /\ s # side THEN n
                                 ELSE IF x = p /\ t.child[x][s] = n THEN c
                                 ELSE t.child[x][s]]],
                  parent |-> [x \in DOMAIN t.parent |->
                                 IF x = n THEN c ELSE IF x = c THEN p ELSE t.parent[x]],
                  height |-> t.height]
    IN  updateHeight(updateHeight(moved, n), c)

\* n changes places with its child on the side, to which it leans.
swap(t, n, side) ==
    LET c     == t.child[n][side]
        inner == t.child[c][Other(side)]
        p     == t.parent[n]
        moved == [child  |-> [x \in DOMAIN t.child |-> [s \in Sides |->
                                 IF x = n /\ s = side THEN inner
                                 ELSE IF x = c /\ s # side THEN n
                                 ELSE IF x = p /\ t.child[x][s] = n THEN c
                                 ELSE t.child[x][s]]],
                  parent |-> [x \in DOMAIN t.parent |->
                                 IF x = n THEN c ELSE IF x = c THEN p
                                 ELSE IF x = inner THEN n ELSE t.parent[x]],
                  height |-> t.height]
    IN  updateHeight(updateHeight(moved, n), c)

\* By how much n is higher on the side.
Lean(t, n, side) == t.height[n][side] - t.height[n][Other(side)]

\* A child that leans inward is swapped with its own child first.
rotate(t, n, side) ==
    LET c == t.child[n][side]
    IN  swap(IF Lean(t, c, Other(side)) = 1 THEN swap(t, c, Other(side)) ELSE t, n, side)

-----------------------------------------------------------------------------
(* The calls on nodes                                                       *)

Lock(start, end, status) == [start |-> start, end |-> end, status |-> status, tids |-> {}]

NoInterval == [lo |-> MaxTs, hi |-> 0]

NoCall == [op |-> "none", tid |-> null, lo |-> 0, hi |-> 0, is_read |-> FALSE, before |-> <<>>]

\* createKeyInfo: two nodes, of which the second is going to be inserted.
Init ==
    /\ nodes = <<Lock(0, 0, "FREEZE_WRITE_LOCK"), Lock(1, MaxTs, "FREE")>>
    /\ tree = [child  |-> [n \in 1 .. 2 |-> [s \in Sides |-> null]],
               parent |-> [n \in 1 .. 2 |-> null],
               height |-> [n \in 1 .. 2 |-> [s \in Sides |-> 0]]]
    /\ root = 1
    /\ intervals = [x \in Tids |-> NoInterval]
    /\ call = [NoCall EXCEPT !.op = "createKeyInfo"]
    /\ pc = "insert"
    /\ at = 1
    /\ after = "return" /\ from = null /\ locks = <<>>
    /\ cur_ts = 0 /\ ends = {} /\ res = TRUE

\* Mutant: the copy is made without the transactions that hold the lock.
Cut_NoTids(n, old, new) ==
    /\ nodes' = Append([nodes EXCEPT ![n] = old], [new EXCEPT !.tids = {}])
    /\ tree' = [child  |-> Append(tree.child, [s \in Sides |-> null]),
                parent |-> Append(tree.parent, null),
                height |-> Append(tree.height, [s \in Sides |-> 0])]
    /\ pc' = "insert"
    /\ at' = n

\* Node n keeps the part old of its interval and a copy of it, made without links,
\* is inserted below it for the part new.
Cut(n, old, new) ==
    /\ nodes' = Append([nodes EXCEPT ![n] = old], new)
    /\ tree' = [child  |-> Append(tree.child, [s \in Sides |-> null]),
                parent |-> Append(tree.parent, null),
                height |-> Append(tree.height, [s \in Sides |-> 0])]
    /\ pc' = "insert"
    /\ at' = n

\* Mutant: the nodes on the way are not kept.
descend_NoPath(side) ==
    LET c == tree.child[at][side]
    IN  /\ locks' = locks
        /\ IF c = null THEN pc' = after /\ UNCHANGED at ELSE at' = c /\ UNCHANGED pc

\* find goes on with the child on the side, if there is one; the nodes left of
\* cur_ts are kept.
descend(side) ==
    LET c == tree.child[at][side]
    IN  /\ locks' = IF side = "right" /\ c # null THEN Append(locks, at) ELSE locks
        /\ IF c = null THEN pc' = after /\ UNCHANGED at ELSE at' = c /\ UNCHANGED pc

find ==
    /\ pc = "find"
    /\ \/ cur_ts < nodes[at].start /\ descend("left")
       \/ cur_ts > nodes[at].end /\ descend("right")
       \/ /\ cur_ts \in nodes[at].start .. nodes[at].end
          /\ locks' = Append(locks, at)
          /\ pc' = after
          /\ UNCHANGED at
    /\ UNCHANGED <<nodes, tree, root, intervals, call, after, from, cur_ts, ends, res>>

\* The latest node goes down to a free place and is hung there.
insert ==
    LET new  == Len(nodes)
        side == IF nodes[new].start < nodes[at].start THEN "left" ELSE "right"
        c    == tree.child[at][side]
    IN  /\ pc = "insert"
        /\ \/ /\ c # null
              /\ at' = c
              /\ UNCHANGED <<tree, pc, from>>
           \/ /\ c = null
              /\ tree' = [tree EXCEPT !.child = [tree.child EXCEPT ![at] = [@ EXCEPT ![side] = new]],
                                      !.parent = [tree.parent EXCEPT ![new] = at]]
              /\ pc' = "balance"
              /\ from' = at
              /\ UNCHANGED at
        /\ UNCHANGED <<nodes, root, intervals, call, after, locks, cur_ts, ends, res>>

\* Rotate where the heights differ by more than one, then go on with the old
\* parent; give up at a child that is out of balance itself.  Without a parent
\* insert goes on to getRoot.
balance ==
    LET t     == updateHeight(tree, at)
        p     == tree.parent[at]
        steep == {side \in Sides : Lean(t, at, side) > 1}
        stuck == \E side \in steep : Lean(t, t.child[at][side], side) > 1
    IN  /\ pc = "balance"
        /\ IF steep = {} \/ stuck THEN tree' = t
           ELSE \E side \in steep : tree' = rotate(t, at, side)
        /\ IF p = null \/ stuck THEN pc' = "getRoot" /\ at' = from
           ELSE at' = p /\ UNCHANGED pc
        /\ UNCHANGED <<nodes, root, intervals, call, after, from, locks, cur_ts, ends, res>>

\* tryBackwardLock searches again from the new root, tryLock goes on with its
\* node, and createKeyInfo is done.
getRoot ==
    LET p == tree.parent[at]
    IN  /\ pc = "getRoot"
        /\ \/ p # null /\ at' = p /\ UNCHANGED <<root, pc, after, locks>>
           \/ /\ p = null
              /\ root' = at
              /\ IF call.op = "tryBackwardLock"
                 THEN pc' = "find" /\ after' = "walk" /\ locks' = <<>>
                 ELSE pc' = after /\ UNCHANGED <<after, locks>>
              /\ UNCHANGED at
        /\ UNCHANGED <<nodes, tree, intervals, call, from, cur_ts, ends, res>>

-----------------------------------------------------------------------------
(* The loops of the lock manager                                            *)

Table(ns) ==
    [s \in {ns[n].start : n \in DOMAIN ns} |->
        LET n == CHOOSE m \in DOMAIN ns : ns[m].start = s
        IN  [end |-> ns[n].end, status |-> ns[n].status, tids |-> ns[n].tids]]

\* A call starts with find from the root at time hi, and goes on at next.
begin(op, tid, lo, hi, is_read, next) ==
    /\ pc = "idle"
    /\ call' = [op |-> op, tid |-> tid, lo |-> lo, hi |-> hi, is_read |-> is_read,
                before |-> Table(nodes)]
    /\ pc' = "find"
    /\ at' = root
    /\ cur_ts' = hi
    /\ after' = next
    /\ UNCHANGED <<nodes, tree, root, intervals, from, locks, ends, res>>

tryBackwardLock(tid, ts, is_read) == begin("tryBackwardLock", tid, 0, ts, is_read, "cut")

\* The interval lies in one node; the server asks for a single timestamp.
tryLock(tid, i, is_read) ==
    /\ \E n \in DOMAIN nodes : nodes[n].start <= i.lo /\ i.lo <= i.hi /\ i.hi <= nodes[n].end
    /\ begin("tryLock", tid, i.lo, i.hi, is_read, "search")

finish(tid, op) ==
    /\ intervals[tid] # NoInterval
    /\ begin(op, tid, intervals[tid].lo, intervals[tid].hi, FALSE, "release")

Hull(i, lo, hi) == [lo |-> Min({lo, i.lo}), hi |-> Max({hi, i.hi})]

record(lo) == intervals' = [intervals EXCEPT ![call.tid] = Hull(@, lo, call.hi)]

Taken(n) == [n EXCEPT !.status = LockedStatus(call.is_read), !.tids = @ \cup {call.tid}]

\* Before the walk: the node is cut after ts_end if the walk is going to lock it.
cut ==
    LET n == Last(locks)
    IN  /\ pc = "cut"
        /\ IF Lockable(nodes[n].status, call.is_read) /\ cur_ts < nodes[n].end
           THEN /\ Cut(n, [nodes[n] EXCEPT !.end = cur_ts], [nodes[n] EXCEPT !.start = cur_ts + 1])
           ELSE pc' = "walk" /\ UNCHANGED <<nodes, tree, at>>
        /\ UNCHANGED <<root, intervals, call, after, from, locks, cur_ts, ends, res>>

\* The loop goes on with the node before n, which find looks for from n on.
previous(n) ==
    /\ cur_ts' = nodes[n].start - 1
    /\ locks' = Front(locks)
    /\ at' = n
    /\ pc' = "find"
    /\ after' = pc

\* A round of the loop of tryBackwardLock: lock a node, or stop at it and
\* register the event.
walk ==
    LET n == Last(locks)
    IN  /\ pc = "walk"
        /\ \/ /\ Passable(nodes[n].status, call.is_read)
              /\ nodes' = IF Lockable(nodes[n].status, call.is_read)
                          THEN [nodes EXCEPT ![n] = Taken(@)] ELSE nodes
              /\ previous(n)
              /\ UNCHANGED <<intervals, ends, res>>
           \/ /\ ~Passable(nodes[n].status, call.is_read)
              /\ res' = ~Locked(nodes[n])
              /\ ends' = IF Locked(nodes[n]) THEN {nodes[n].end} ELSE {}
              /\ record(cur_ts + 1)
              /\ pc' = "return"
              /\ UNCHANGED <<nodes, at, after, locks, cur_ts>>
        /\ UNCHANGED <<tree, root, call, from>>

\* The first loop of tryLock, which has one round.
search ==
    LET n == Last(locks)
    IN  /\ pc = "search"
        /\ res' = Passable(nodes[n].status, call.is_read)
        /\ \/ /\ Lockable(nodes[n].status, call.is_read)
              /\ pc' = "lock"
              /\ after' = "lock"
              /\ UNCHANGED intervals
           \/ /\ ~Lockable(nodes[n].status, call.is_read)
              /\ pc' = "return"
              /\ IF res' THEN record(call.lo) ELSE UNCHANGED intervals
              /\ UNCHANGED after
        /\ UNCHANGED <<nodes, tree, root, call, at, from, locks, cur_ts, ends>>

\* Mutant: the part of the node after the interval is locked with it.
lock_NoCutAfter ==
    LET n == Last(locks)
    IN  /\ pc = "lock"
        /\ \/ /\ nodes[n].start < call.lo
              /\ Cut(n, [nodes[n] EXCEPT !.start = call.lo], [nodes[n] EXCEPT !.end = call.lo - 1])
              /\ UNCHANGED intervals
           \/ /\ nodes[n].start >= call.lo
              /\ nodes' = [nodes EXCEPT ![n] = Taken(@)]
              /\ record(call.lo)
              /\ pc' = "return"
              /\ UNCHANGED <<tree, at>>
        /\ UNCHANGED <<root, call, after, from, locks, cur_ts, ends, res>>

\* The second loop of tryLock cuts the interval out of the node.
lock ==
    LET n == Last(locks)
    IN  /\ pc = "lock"
        /\ \/ /\ nodes[n].start < call.lo
              /\ Cut(n, [nodes[n] EXCEPT !.start = call.lo], [nodes[n] EXCEPT !.end = call.lo - 1])
              /\ UNCHANGED intervals
           \/ /\ nodes[n].start >= call.lo /\ nodes[n].end > call.hi
              /\ Cut(n, [nodes[n] EXCEPT !.end = call.hi], [nodes[n] EXCEPT !.start = call.hi + 1])
              /\ UNCHANGED intervals
           \/ /\ nodes[n].start >= call.lo /\ nodes[n].end <= call.hi
              /\ nodes' = [nodes EXCEPT ![n] = Taken(@)]
              /\ record(call.lo)
              /\ pc' = "return"
              /\ UNCHANGED <<tree, at>>
        /\ UNCHANGED <<root, call, after, from, locks, cur_ts, ends, res>>

\* Mutant: the loop ends one timestamp early.
release_Short ==
    LET n     == Last(locks)
        owned == Locked(nodes[n]) /\ call.tid \in nodes[n].tids
        freed == IF call.op = "freeze" THEN FreezeNode(nodes[n])
                 ELSE [nodes[n] EXCEPT !.status = "FREE", !.tids = @ \ {call.tid}]
        wakes == \/ call.op = "freeze" \/ nodes[n].status = "WRITE_LOCK" \/ freed.tids = {}
    IN  /\ pc = "release"
        /\ \/ /\ cur_ts > call.lo
              /\ nodes' = IF owned THEN [nodes EXCEPT ![n] = freed] ELSE nodes
              /\ ends' = IF owned /\ wakes THEN ends \cup {nodes[n].end} ELSE ends
              /\ previous(n)
              /\ UNCHANGED intervals
           \/ /\ cur_ts <= call.lo
              /\ intervals' = [intervals EXCEPT ![call.tid] = NoInterval]
              /\ pc' = "return"
              /\ UNCHANGED <<nodes, at, after, locks, cur_ts, ends>>
        /\ UNCHANGED <<tree, root, call, from, res>>

\* A round of the loop of freeze or unlock, which collects the ends whose events
\* are going to be fired.
release ==
    LET n     == Last(locks)
        owned == Locked(nodes[n]) /\ call.tid \in nodes[n].tids
        freed == IF call.op = "freeze" THEN FreezeNode(nodes[n])
                 ELSE [nodes[n] EXCEPT !.status = "FREE", !.tids = @ \ {call.tid}]
        wakes == \/ call.op = "freeze" \/ nodes[n].status = "WRITE_LOCK" \/ freed.tids = {}
    IN  /\ pc = "release"
        /\ \/ /\ cur_ts >= call.lo
              /\ nodes' = IF owned THEN [nodes EXCEPT ![n] = freed] ELSE nodes
              /\ ends' = IF owned /\ wakes THEN ends \cup {nodes[n].end} ELSE ends
              /\ previous(n)
              /\ UNCHANGED intervals
           \/ /\ cur_ts < call.lo
              /\ intervals' = [intervals EXCEPT ![call.tid] = NoInterval]
              /\ pc' = "return"
              /\ UNCHANGED <<nodes, at, after, locks, cur_ts, ends>>
        /\ UNCHANGED <<tree, root, call, from, res>>

return ==
    /\ pc = "return"
    /\ pc' = "idle"
    /\ call' = NoCall
    /\ at' = null /\ after' = "return" /\ from' = null /\ locks' = <<>>
    /\ cur_ts' = 0 /\ ends' = {} /\ res' = TRUE
    /\ UNCHANGED <<nodes, tree, root, intervals>>

Next ==
    \/ find \/ insert \/ balance \/ getRoot
    \/ cut \/ walk \/ search \/ lock \/ release \/ return
    \/ \E tid \in Tids :
          \/ \E ts \in Times, r \in BackwardModes : tryBackwardLock(tid, ts, r)
          \/ \E i \in Intervals, r \in PointModes : tryLock(tid, i, r)
          \/ \E op \in {"freeze", "unlock"} : finish(tid, op)

Spec == Init /\ [][Next]_vars

-----------------------------------------------------------------------------
(* Properties                                                               *)

\* The nodes that the links of t lead to from each node of D: those in every set
\* that contains it and, with a node, its children.
Below(t, D) ==
    LET Closed == {S \in SUBSET D : \A x \in S, s \in Sides : t.child[x][s] \in S \cup {null}}
    IN  [n \in D |-> {m \in D : \A S \in Closed : n \in S => m \in S}]

\* m belongs on the side of n.
OnSide(ns, side, m, n) ==
    IF side = "left" THEN ns[m].end < ns[n].start ELSE ns[n].end < ns[m].start

\* The links form one tree of the nodes D below rt, ordered by time, whose parents
\* and children agree, with exact heights that differ by one at most.
IsBalanced(t, rt, D) ==
    LET below == Below(t, D)
    IN  /\ rt \in D /\ t.parent[rt] = null /\ below[rt] = D
        /\ \A n \in D, s \in Sides :
              LET c == t.child[n][s]
              IN  /\ c # null => /\ c \in D /\ t.parent[c] = n
                                 /\ \A m \in below[c] : OnSide(nodes, s, m, n)
                  /\ t.height[n][s] = Height(t, c)
                  /\ Lean(t, n, s) <= 1

\* Every split and every rotation leaves a balanced search tree of all the nodes,
\* whose root the key knows: find is logarithmic and misses no node.
Balanced ==
    pc \notin {"insert", "balance", "getRoot"} => IsBalanced(tree, root, DOMAIN nodes)

\* find works as intended: the loops, which do not look whether the stack is
\* empty, find on its top the node that contains the time they have got to.
FindWorks ==
    pc \in {"cut", "walk", "search", "release"} =>
        /\ locks # <<>>
        /\ cur_ts \in nodes[Last(locks)].start .. nodes[Last(locks)].end

\* The loop of tryBackwardLock over the tree has the results that LockTable gives:
\* the stack of find leads from each node to the one before it, through whatever
\* rotations the split has caused.
BackwardAsTable ==
    pc = "return" /\ call.op = "tryBackwardLock" =>
        LET tbl == call.before
        IN  /\ Table(nodes) = BackwardLock(tbl, call.tid, call.hi, call.is_read)
            /\ cur_ts + 1 = BackwardStart(tbl, call.hi, call.is_read)
            /\ res = BackwardGranted(tbl, call.hi, call.is_read)
            /\ ends = IF res THEN {} ELSE {BackwardStop(tbl, call.hi, call.is_read).end}

\* The interval lo .. hi of one node, cut out and locked; for lo = hi, PointLock.
IntervalLock(tbl, tid, lo, hi, is_read) ==
    IF Lockable(StatusAt(tbl, hi), is_read)
    THEN LET below == IF lo = StartOf(tbl, lo) THEN tbl ELSE Split(tbl, StartOf(tbl, lo), lo - 1)
         IN  Grab(CutAfter(below, hi), {lo}, tid, LockedStatus(is_read))
    ELSE tbl

\* tryLock on the tree, which moves the start of a node and inserts the part
\* below it, locks the timestamp that LockTable says, or the interval inside one
\* node.
TryLockAsTable ==
    pc = "return" /\ call.op = "tryLock" =>
        LET tbl == call.before
        IN  /\ res = PointGranted(tbl, call.hi, call.is_read)
            /\ Table(nodes) = IntervalLock(tbl, call.tid, call.lo, call.hi, call.is_read)
            /\ call.lo = call.hi => Table(nodes) = PointLock(tbl, call.tid, call.hi, call.is_read)

\* freeze and unlock on the tree visit every node of the recorded interval, and
\* collect the events of the ends that LockTable says.
ReleaseAsTable ==
    pc = "return" =>
        LET tbl == call.before
            i   == [lo |-> call.lo, hi |-> call.hi]
        IN  /\ call.op = "freeze" => /\ Table(nodes) = FreezeNodes(tbl, call.tid, i)
                                     /\ ends = FreezeEnds(tbl, call.tid, i)
            /\ call.op = "unlock" => /\ Table(nodes) = UnlockNodes(tbl, call.tid, i)
                                     /\ ends = UnlockEnds(tbl, call.tid, i)
=============================================================================
