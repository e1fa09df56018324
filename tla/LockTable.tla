------------------------------ MODULE LockTable ------------------------------
(***************************************************************************)
(* The interval table that AVLTreeLockManager keeps for one key, and what  *)
(* each lock operation does to it.                                         *)
(*                                                                         *)
(* The code keeps a key's intervals in an AVL tree of AVLTreeLockNode      *)
(* ordered by _start.  The lock manager only ever asks the tree for the    *)
(* node that contains a timestamp and for the node just before one, so the *)
(* tree is abstracted to the function from the _start of each node to its  *)
(* other fields; rotations and heights do not show here.  Timestamps are   *)
(* the uint64_t values 0 .. UINTMAX_MAX, scaled down to 0 .. MaxTs.        *)
(***************************************************************************)
EXTENDS Integers, FiniteSetsExt

CONSTANTS
    MaxTs,   \* the last timestamp, UINTMAX_MAX in the code
    Tids     \* transaction ids

ASSUME MaxTsAssumption == MaxTs \in Nat \ {0}

TS == 0 .. MaxTs

LockStatus ==
    {"FREE", "READ_LOCK", "WRITE_LOCK", "FREEZE_READ_LOCK", "FREEZE_WRITE_LOCK"}

Frozen(status) == status \in {"FREEZE_READ_LOCK", "FREEZE_WRITE_LOCK"}

\* The fields of an AVLTreeLockNode other than _start and the tree's links.
Node == [end : TS, status : LockStatus, tids : SUBSET Tids]

\* The table createKeyInfo builds: time 0 is frozen for writing (it holds the
\* initial version), every later time is free.
InitialTable ==
    [s \in {0, 1} |->
        IF s = 0
        THEN [end |-> 0, status |-> "FREEZE_WRITE_LOCK", tids |-> {}]
        ELSE [end |-> MaxTs, status |-> "FREE", tids |-> {}]]

-----------------------------------------------------------------------------
(* Looking up and splitting nodes                                           *)

\* AVLTreeLockNode::find: the _start of the node that contains ts.
StartOf(tbl, ts) == CHOOSE s \in DOMAIN tbl : s <= ts /\ ts <= tbl[s].end

StatusAt(tbl, ts) == tbl[StartOf(tbl, ts)].status
TidsAt(tbl, ts)   == tbl[StartOf(tbl, ts)].tids

\* Mutant: the node that is cut keeps its old end.
Split_KeepEnd(tbl, s, ts) ==
    [x \in DOMAIN tbl \cup {ts + 1} |-> IF x = ts + 1 THEN tbl[s] ELSE tbl[x]]

\* The copy constructor followed by insert: the node at s is cut after ts, and
\* its copy takes over the times from ts + 1.
Split(tbl, s, ts) ==
    [x \in DOMAIN tbl \cup {ts + 1} |->
        IF x = ts + 1 THEN tbl[s]
        ELSE IF x = s THEN [tbl[s] EXCEPT !.end = ts]
        ELSE tbl[x]]

\* Make ts the last time of its node, unless it already is.
CutAfter(tbl, ts) ==
    IF tbl[StartOf(tbl, ts)].end = ts THEN tbl ELSE Split(tbl, StartOf(tbl, ts), ts)

\* Set the status of the nodes with a start in S and add tid to their owners.
Grab(tbl, S, tid, status) ==
    [x \in DOMAIN tbl |->
        IF x \in S
        THEN [tbl[x] EXCEPT !.status = status, !.tids = @ \cup {tid}]
        ELSE tbl[x]]

LockedStatus(is_read) == IF is_read THEN "READ_LOCK" ELSE "WRITE_LOCK"

\* Mutants: a write lock does not mind a read lock; a frozen read is locked again.
Lockable_AnyMode(status, is_read) == status \in {"FREE", "READ_LOCK"}
Lockable_Frozen(status, is_read) ==
    \/ status = "FREE"
    \/ status \in {"READ_LOCK", "FREEZE_READ_LOCK"} /\ is_read

\* The statuses a request can turn into a lock of its own.
Lockable(status, is_read) ==
    \/ status = "FREE"
    \/ status = "READ_LOCK" /\ is_read

-----------------------------------------------------------------------------
(* tryBackwardLock                                                          *)

\* The statuses over which the backward walk continues.
Passable(status, is_read) ==
    \/ Lockable(status, is_read)
    \/ status = "FREEZE_READ_LOCK" /\ is_read

\* The walk starts at a node that ends at ts_end when that node is going to be
\* locked.
BackwardTable(tbl, ts_end, is_read) ==
    IF Lockable(StatusAt(tbl, ts_end), is_read) THEN CutAfter(tbl, ts_end) ELSE tbl

\* The nodes the walk passes: those from which on everything up to ts_end can be
\* passed.
Walked(tbl, ts_end, is_read) ==
    {s \in DOMAIN tbl :
        /\ s <= ts_end
        /\ \A x \in DOMAIN tbl :
              s <= x /\ x <= ts_end => Passable(tbl[x].status, is_read)}

\* The result *ts_start: one more than the cur_ts at which the walk stops.
BackwardStart(tbl, ts_end, is_read) ==
    Min({ts_end + 1} \cup Walked(BackwardTable(tbl, ts_end, is_read), ts_end, is_read))

\* The node that stops the walk.
BackwardStop(tbl, ts_end, is_read) ==
    LET t == BackwardTable(tbl, ts_end, is_read)
    IN  t[StartOf(t, BackwardStart(tbl, ts_end, is_read) - 1)]

\* The result res: false when the walk stopped at a lock that is not frozen.
BackwardGranted(tbl, ts_end, is_read) ==
    BackwardStop(tbl, ts_end, is_read).status \notin {"READ_LOCK", "WRITE_LOCK"}

BackwardLock(tbl, tid, ts_end, is_read) ==
    LET t == BackwardTable(tbl, ts_end, is_read)
        S == {s \in Walked(t, ts_end, is_read) : Lockable(t[s].status, is_read)}
    IN  Grab(t, S, tid, LockedStatus(is_read))

-----------------------------------------------------------------------------
(* tryLock, for an interval of a single timestamp                           *)

\* The result res.
PointGranted(tbl, ts, is_read) == Passable(StatusAt(tbl, ts), is_read)

\* A FREEZE_READ_LOCK read again is left as it is; any other node is cut down to
\* [ts, ts] and locked.
PointLock(tbl, tid, ts, is_read) ==
    IF Lockable(StatusAt(tbl, ts), is_read)
    THEN LET below == IF ts = StartOf(tbl, ts) THEN tbl
                      ELSE Split(tbl, StartOf(tbl, ts), ts - 1)
         IN  Grab(CutAfter(below, ts), {ts}, tid, LockedStatus(is_read))
    ELSE tbl

-----------------------------------------------------------------------------
(* freeze and unlock, over the recorded interval i of a transaction         *)

\* The nodes of tid that the walk from i.hi down to i.lo meets.
OwnedIn(tbl, tid, i) ==
    {s \in DOMAIN tbl :
        /\ i.lo <= i.hi /\ s <= i.hi /\ i.lo <= tbl[s].end
        /\ tbl[s].status \in {"READ_LOCK", "WRITE_LOCK"}
        /\ tid \in tbl[s].tids}

\* Mutant: a frozen node keeps its owners.
FreezeNode_KeepTids(n) ==
    [n EXCEPT !.status = IF @ = "READ_LOCK" THEN "FREEZE_READ_LOCK" ELSE "FREEZE_WRITE_LOCK"]

FreezeNode(n) ==
    [n EXCEPT
        !.status = IF @ = "READ_LOCK" THEN "FREEZE_READ_LOCK" ELSE "FREEZE_WRITE_LOCK",
        !.tids = {}]

FreezeNodes(tbl, tid, i) ==
    [s \in DOMAIN tbl |->
        IF s \in OwnedIn(tbl, tid, i) THEN FreezeNode(tbl[s]) ELSE tbl[s]]

\* The timestamps whose events a freeze fires.
FreezeEnds(tbl, tid, i) == {tbl[s].end : s \in OwnedIn(tbl, tid, i)}

\* unlock frees the whole node, whether or not other transactions own it too.
UnlockNodes(tbl, tid, i) ==
    [s \in DOMAIN tbl |->
        IF s \in OwnedIn(tbl, tid, i)
        THEN [tbl[s] EXCEPT !.status = "FREE", !.tids = @ \ {tid}]
        ELSE tbl[s]]

\* Mutant: an unlocked write lock wakes nobody.
UnlockEnds_ReadsOnly(tbl, tid, i) ==
    {tbl[s].end : s \in
        {x \in OwnedIn(tbl, tid, i) : tbl[x].status = "READ_LOCK" /\ tbl[x].tids = {tid}}}

\* The timestamps whose events an unlock fires: a read lock's only when tid was
\* its last owner.
UnlockEnds(tbl, tid, i) ==
    {tbl[s].end : s \in
        {x \in OwnedIn(tbl, tid, i) :
            tbl[x].status = "READ_LOCK" => tbl[x].tids = {tid}}}

-----------------------------------------------------------------------------
(* What the tree guarantees                                                 *)

\* Time 0 holds the initial version, frozen for writing.
InitialVersion(tbl) ==
    /\ 0 \in DOMAIN tbl
    /\ tbl[0] = [end |-> 0, status |-> "FREEZE_WRITE_LOCK", tids |-> {}]

\* The nodes partition 0 .. MaxTs: each time is in one node and in one only.
Tiles(tbl) ==
    /\ \A t \in TS : \E s \in DOMAIN tbl : s <= t /\ t <= tbl[s].end
    /\ \A s \in DOMAIN tbl : s <= tbl[s].end
    /\ \A s, r \in DOMAIN tbl : s < r => tbl[s].end < r

IsTable(tbl) ==
    /\ DOMAIN tbl \subseteq TS
    /\ tbl = [s \in DOMAIN tbl |-> tbl[s]]
    /\ \A s \in DOMAIN tbl : tbl[s] \in Node

Locked(n) == n.status \in {"READ_LOCK", "WRITE_LOCK"}

\* One owner for a write lock, some for a read lock, none otherwise.
ExclusiveNode(n) ==
    /\ n.status \notin {"READ_LOCK", "WRITE_LOCK"} => n.tids = {}
    /\ n.status = "READ_LOCK" => n.tids # {}
    /\ n.status = "WRITE_LOCK" => \E x \in Tids : n.tids = {x}

\* Time t is closed to writers on behalf of the reader tid.
ReadCovered(tbl, tid, t) ==
    \/ StatusAt(tbl, t) = "FREEZE_READ_LOCK"
    \/ StatusAt(tbl, t) = "READ_LOCK" /\ tid \in TidsAt(tbl, t)
=============================================================================
