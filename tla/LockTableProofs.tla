--------------------------- MODULE LockTableProofs ---------------------------
(***************************************************************************)
(* Facts about the interval table of a key: what find returns, that        *)
(* splitting a node keeps the partition of time and the locks on it, and   *)
(* what a backward walk passes.                                            *)
(***************************************************************************)
EXTENDS LockTable, TLAPS, WellFoundedInduction

\* A table as the lock manager keeps it.
GoodTable(tbl) == IsTable(tbl) /\ Tiles(tbl) /\ InitialVersion(tbl)

\* Two tables with the same nodes, up to status and owners.
SameShape(tbl, new) ==
    /\ DOMAIN new = DOMAIN tbl
    /\ \A s \in DOMAIN tbl : new[s].end = tbl[s].end

\* Every set of timestamps that is not empty has a least member: the result
\* *ts_start of a backward walk is well defined.
LEMMA MinNat ==
    ASSUME NEW S, S \subseteq Nat, S # {}
    PROVE  Min(S) \in S /\ \A y \in S : Min(S) <= y
<1>1. PICK x \in S : \A y \in S : ~(<<y, x>> \in OpToRel(<, Nat))
  BY NatLessThanWellFounded, WFMin
<1>2. ASSUME NEW y \in S PROVE x <= y
  <2>1. x \in Nat /\ y \in Nat
    OBVIOUS
  <2>2. y < x => <<y, x>> \in OpToRel(<, Nat)
    BY <2>1 DEF OpToRel
  <2>3. ~(y < x)
    BY <1>1, <2>2, Zenon
  <2> QED
    BY <2>1, <2>3
<1> QED
  BY <1>2 DEF Min

\* find returns the node that contains the timestamp, and there is only one.
LEMMA FindNode ==
    ASSUME NEW tbl, GoodTable(tbl), NEW ts \in TS
    PROVE  /\ StartOf(tbl, ts) \in DOMAIN tbl
           /\ StartOf(tbl, ts) <= ts /\ ts <= tbl[StartOf(tbl, ts)].end
           /\ \A s \in DOMAIN tbl : s <= ts /\ ts <= tbl[s].end => s = StartOf(tbl, ts)
<1>1. \E s \in DOMAIN tbl : s <= ts /\ ts <= tbl[s].end
  BY DEF GoodTable, Tiles
<1>2. /\ StartOf(tbl, ts) \in DOMAIN tbl
      /\ StartOf(tbl, ts) <= ts /\ ts <= tbl[StartOf(tbl, ts)].end
  BY <1>1 DEF StartOf
<1>3. ASSUME NEW s \in DOMAIN tbl, s <= ts, ts <= tbl[s].end
      PROVE  s = StartOf(tbl, ts)
  <2> DEFINE r == StartOf(tbl, ts)
  <2> HIDE DEF r
  <2>1. r \in DOMAIN tbl /\ r <= ts /\ ts <= tbl[r].end
    BY <1>2 DEF r
  <2>2. s \in Int /\ r \in Int /\ ts \in Int /\ tbl[s].end \in Int /\ tbl[r].end \in Int
    BY <2>1, MaxTsAssumption DEF GoodTable, IsTable, Node, TS
  <2>3. ~(s < r) /\ ~(r < s)
    <3>1. (s < r => tbl[s].end < r) /\ (r < s => tbl[r].end < s)
      BY <2>1 DEF GoodTable, Tiles
    <3> QED
      BY <1>3, <2>1, <2>2, <3>1
  <2>4. s = r
    BY <2>2, <2>3
  <2> QED
    BY <2>4 DEF r
<1> QED
  BY <1>2, <1>3

\* A node that contains the timestamp decides its status and its owners.
LEMMA NodeAt ==
    ASSUME NEW tbl, GoodTable(tbl), NEW ts \in TS,
           NEW s \in DOMAIN tbl, s <= ts, ts <= tbl[s].end
    PROVE  /\ StartOf(tbl, ts) = s
           /\ StatusAt(tbl, ts) = tbl[s].status
           /\ TidsAt(tbl, ts) = tbl[s].tids
BY FindNode DEF StatusAt, TidsAt

\* Changing statuses and owners keeps the partition, and find with it.
LEMMA ShapeKept ==
    ASSUME NEW tbl, GoodTable(tbl), NEW new, IsTable(new), SameShape(tbl, new),
           new[0] = tbl[0]
    PROVE  /\ GoodTable(new)
           /\ \A ts \in TS : StartOf(new, ts) = StartOf(tbl, ts)
<1>1. GoodTable(new)
  <2>1. Tiles(new)
    BY DEF GoodTable, Tiles, SameShape
  <2> QED
    BY <2>1 DEF GoodTable, InitialVersion, SameShape
<1>2. ASSUME NEW ts \in TS PROVE StartOf(new, ts) = StartOf(tbl, ts)
  BY <1>1, FindNode DEF SameShape
<1> QED
  BY <1>1, <1>2

\* new is tbl with some nodes cut: each node of new is a piece of a node of tbl,
\* and the last piece of each node of tbl still ends where the node ended.
SplitOf(tbl, new) ==
    /\ \A s \in DOMAIN new : \E r \in DOMAIN tbl :
          /\ r <= s /\ new[s].end <= tbl[r].end
          /\ new[s].status = tbl[r].status /\ new[s].tids = tbl[r].tids
    /\ \A r \in DOMAIN tbl : \E s \in DOMAIN new :
          /\ new[s].end = tbl[r].end
          /\ new[s].status = tbl[r].status /\ new[s].tids = tbl[r].tids

\* Cutting nodes keeps the status and the owners of every timestamp.
LEMMA SplitOfAt ==
    ASSUME NEW tbl, NEW new, GoodTable(tbl), GoodTable(new), SplitOf(tbl, new),
           NEW t \in TS
    PROVE  StatusAt(new, t) = StatusAt(tbl, t) /\ TidsAt(new, t) = TidsAt(tbl, t)
<1>1. PICK s \in DOMAIN new : s <= t /\ t <= new[s].end
  BY DEF GoodTable, Tiles
<1>2. PICK r \in DOMAIN tbl :
          /\ r <= s /\ new[s].end <= tbl[r].end
          /\ new[s].status = tbl[r].status /\ new[s].tids = tbl[r].tids
  BY DEF SplitOf
<1>3. r <= t /\ t <= tbl[r].end
  <2>1. s \in Int /\ r \in Int /\ t \in Int /\ new[s].end \in Int /\ tbl[r].end \in Int
    BY MaxTsAssumption DEF GoodTable, IsTable, Node, TS
  <2> QED
    BY <1>1, <1>2, <2>1
<1> QED
  BY <1>1, <1>2, <1>3, NodeAt

\* Cutting one node in two keeps the partition of time.
LEMMA SplitKept ==
    ASSUME NEW tbl, GoodTable(tbl), NEW s \in DOMAIN tbl, NEW ts \in TS,
           s <= ts, ts < tbl[s].end
    PROVE  /\ GoodTable(Split(tbl, s, ts))
           /\ SplitOf(tbl, Split(tbl, s, ts))
           /\ ts + 1 \in TS /\ ts + 1 \in DOMAIN Split(tbl, s, ts)
           /\ Split(tbl, s, ts)[ts + 1] = tbl[s]
           /\ s \in DOMAIN Split(tbl, s, ts) /\ Split(tbl, s, ts)[s].end = ts
<1> DEFINE new == Split(tbl, s, ts)
<1>0. /\ DOMAIN tbl \subseteq TS
      /\ \A x \in DOMAIN tbl : tbl[x] \in Node /\ tbl[x].end \in TS
  BY DEF GoodTable, IsTable, Node
<1>1. DOMAIN new = DOMAIN tbl \cup {ts + 1}
  BY DEF Split
<1>2. ts + 1 \notin DOMAIN tbl
  BY <1>0, MaxTsAssumption DEF GoodTable, Tiles, TS
<1>3. /\ new[ts + 1] = tbl[s]
      /\ new[s] = [tbl[s] EXCEPT !.end = ts]
      /\ \A x \in DOMAIN tbl \ {s} : new[x] = tbl[x]
  BY <1>2 DEF Split
<1>4. /\ new[s].end = ts
      /\ new[s].status = tbl[s].status /\ new[s].tids = tbl[s].tids
      /\ new[s] \in Node
  BY <1>0, <1>3 DEF Node
<1>5. IsTable(new)
  <2>1. ts + 1 \in TS
    BY <1>0, MaxTsAssumption DEF TS
  <2>2. new = [x \in DOMAIN new |-> new[x]]
    BY DEF Split
  <2> QED
    BY <1>0, <1>1, <1>3, <1>4, <2>1, <2>2 DEF IsTable
<1>6. Tiles(new)
  <2>1. ASSUME NEW t \in TS
        PROVE  \E x \in DOMAIN new : x <= t /\ t <= new[x].end
    <3>1. PICK x \in DOMAIN tbl : x <= t /\ t <= tbl[x].end
      BY DEF GoodTable, Tiles
    <3>2. CASE x # s
      BY <1>1, <1>3, <3>1, <3>2
    <3>3. CASE x = s /\ t <= ts
      BY <1>1, <1>4, <3>1, <3>3
    <3>4. CASE x = s /\ ~(t <= ts)
      BY <1>1, <1>3, <3>1, <3>4 DEF TS
    <3> QED
      BY <3>2, <3>3, <3>4
  <2>2. \A x \in DOMAIN new : x <= new[x].end
    <3>1. ts + 1 <= new[ts + 1].end /\ s <= new[s].end
      BY <1>0, <1>3, <1>4 DEF TS
    <3>2. \A x \in DOMAIN tbl \ {s} : x <= new[x].end
      BY <1>3 DEF GoodTable, Tiles
    <3> QED
      BY <1>1, <3>1, <3>2
  <2>3. ASSUME NEW x \in DOMAIN new, NEW y \in DOMAIN new, x < y
        PROVE  new[x].end < y
    <3>1. CASE x = ts + 1
      BY <1>0, <1>1, <1>3, <2>3, <3>1 DEF GoodTable, Tiles, TS
    <3>2. CASE x = s
      BY <1>0, <1>1, <1>2, <1>4, <2>3, <3>2 DEF GoodTable, Tiles, TS
    <3>3. CASE x # ts + 1 /\ x # s
      BY <1>0, <1>1, <1>3, <2>3, <3>3 DEF GoodTable, Tiles, TS
    <3> QED
      BY <3>1, <3>2, <3>3
  <2> QED
    BY <2>1, <2>2, <2>3 DEF Tiles
<1>7. InitialVersion(new)
  <2>1. s # 0
    BY <1>0, MaxTsAssumption DEF GoodTable, InitialVersion, TS
  <2> QED
    BY <1>1, <1>3, <2>1 DEF GoodTable, InitialVersion
<1>8. SplitOf(tbl, new)
  <2>1. ASSUME NEW x \in DOMAIN new
        PROVE  \E r \in DOMAIN tbl :
                  /\ r <= x /\ new[x].end <= tbl[r].end
                  /\ new[x].status = tbl[r].status /\ new[x].tids = tbl[r].tids
    <3>1. CASE x = ts + 1
      BY <1>0, <1>3, <3>1 DEF TS
    <3>2. CASE x = s
      BY <1>0, <1>4, <3>2 DEF TS
    <3>3. CASE x # ts + 1 /\ x # s
      BY <1>0, <1>1, <1>3, <3>3 DEF TS
    <3> QED
      BY <3>1, <3>2, <3>3
  <2>2. ASSUME NEW r \in DOMAIN tbl
        PROVE  \E x \in DOMAIN new :
                  /\ new[x].end = tbl[r].end
                  /\ new[x].status = tbl[r].status /\ new[x].tids = tbl[r].tids
    BY <1>1, <1>3
  <2> QED
    BY <2>1, <2>2 DEF SplitOf
<1>9. ts + 1 \in TS
  BY <1>0, MaxTsAssumption DEF TS
<1> QED
  BY <1>1, <1>3, <1>4, <1>5, <1>6, <1>7, <1>8, <1>9 DEF GoodTable

\* A cut of a cut is a cut.
LEMMA SplitOfTrans ==
    ASSUME NEW a, NEW b, NEW c, GoodTable(a), GoodTable(b), GoodTable(c),
           SplitOf(a, b), SplitOf(b, c)
    PROVE  SplitOf(a, c)
<1>1. ASSUME NEW s \in DOMAIN c
      PROVE  \E r \in DOMAIN a :
                /\ r <= s /\ c[s].end <= a[r].end
                /\ c[s].status = a[r].status /\ c[s].tids = a[r].tids
  <2>1. PICK m \in DOMAIN b : /\ m <= s /\ c[s].end <= b[m].end
                              /\ c[s].status = b[m].status /\ c[s].tids = b[m].tids
    BY DEF SplitOf
  <2>2. PICK r \in DOMAIN a : /\ r <= m /\ b[m].end <= a[r].end
                              /\ b[m].status = a[r].status /\ b[m].tids = a[r].tids
    BY DEF SplitOf
  <2>3. /\ s \in Int /\ m \in Int /\ r \in Int
        /\ c[s].end \in Int /\ b[m].end \in Int /\ a[r].end \in Int
    BY MaxTsAssumption DEF GoodTable, IsTable, Node, TS
  <2>4. r <= s /\ c[s].end <= a[r].end
    BY <2>1, <2>2, <2>3
  <2> QED
    BY <2>1, <2>2, <2>4
<1>2. ASSUME NEW r \in DOMAIN a
      PROVE  \E s \in DOMAIN c :
                /\ c[s].end = a[r].end
                /\ c[s].status = a[r].status /\ c[s].tids = a[r].tids
  <2>1. PICK m \in DOMAIN b : /\ b[m].end = a[r].end
                              /\ b[m].status = a[r].status /\ b[m].tids = a[r].tids
    BY DEF SplitOf
  <2> QED
    BY <2>1 DEF SplitOf
<1> QED
  BY <1>1, <1>2 DEF SplitOf

\* A table is a splitting of itself.
LEMMA SplitOfSelf ==
    ASSUME NEW tbl, GoodTable(tbl)
    PROVE  SplitOf(tbl, tbl)
<1>1. \A s \in DOMAIN tbl : s <= s /\ tbl[s].end <= tbl[s].end
  BY MaxTsAssumption DEF GoodTable, IsTable, Node, TS
<1> QED
  BY <1>1 DEF SplitOf

\* Cutting after ts keeps the partition and leaves a node that ends at ts.
LEMMA CutKept ==
    ASSUME NEW tbl, GoodTable(tbl), NEW ts \in TS
    PROVE  /\ GoodTable(CutAfter(tbl, ts))
           /\ SplitOf(tbl, CutAfter(tbl, ts))
           /\ StartOf(CutAfter(tbl, ts), ts) = StartOf(tbl, ts)
           /\ CutAfter(tbl, ts)[StartOf(tbl, ts)].end = ts
<1> DEFINE s == StartOf(tbl, ts)
           new == Split(tbl, s, ts)
<1>1. s \in DOMAIN tbl /\ s <= ts /\ ts <= tbl[s].end
  BY FindNode
<1>2. CASE tbl[s].end = ts
  BY <1>2, SplitOfSelf DEF CutAfter
<1>3. CASE tbl[s].end # ts
  <2>1. ts < tbl[s].end
    BY <1>1, <1>3, MaxTsAssumption DEF GoodTable, IsTable, Node, TS
  <2>2. /\ GoodTable(new) /\ SplitOf(tbl, new)
        /\ s \in DOMAIN new /\ new[s].end = ts
    BY <1>1, <2>1, SplitKept
  <2>3. StartOf(new, ts) = s
    BY <1>1, <2>2, NodeAt DEF TS
  <2> QED
    BY <1>3, <2>2, <2>3 DEF CutAfter
<1> QED
  BY <1>2, <1>3

\* new is tbl with the nodes of S, and only they, granted to tid.
GrabbedFrom(tbl, new, S, tid, status) ==
    /\ GoodTable(new)
    /\ SameShape(tbl, new)
    /\ \A s \in S : new[s].status = status /\ new[s].tids = tbl[s].tids \cup {tid}
    /\ \A s \in DOMAIN tbl \ S : new[s] = tbl[s]
    /\ \A t \in TS : StartOf(new, t) = StartOf(tbl, t)

\* Granting nodes keeps the partition; the granted nodes, and only they, change.
LEMMA GrabKept ==
    ASSUME NEW tbl, GoodTable(tbl), NEW S, S \subseteq DOMAIN tbl \ {0},
           NEW tid \in Tids, NEW status \in LockStatus
    PROVE  GrabbedFrom(tbl, Grab(tbl, S, tid, status), S, tid, status)
<1> DEFINE new == Grab(tbl, S, tid, status)
<1>1. DOMAIN new = DOMAIN tbl
  BY DEF Grab
<1>2. ASSUME NEW s \in S
      PROVE  /\ new[s].status = status /\ new[s].tids = tbl[s].tids \cup {tid}
             /\ new[s].end = tbl[s].end /\ new[s] \in Node
  <2>1. tbl[s] \in Node
    BY DEF GoodTable, IsTable
  <2>2. new[s] = [tbl[s] EXCEPT !.status = status, !.tids = @ \cup {tid}]
    BY DEF Grab
  <2> QED
    BY <2>1, <2>2 DEF Node
<1>3. \A s \in DOMAIN tbl \ S : new[s] = tbl[s]
  BY DEF Grab
<1>4. SameShape(tbl, new)
  BY <1>1, <1>2, <1>3 DEF SameShape
<1>5. IsTable(new)
  <2>1. new = [s \in DOMAIN new |-> new[s]]
    BY DEF Grab
  <2> QED
    BY <1>1, <1>2, <1>3, <2>1 DEF GoodTable, IsTable
<1>6. new[0] = tbl[0]
  BY <1>3 DEF GoodTable, InitialVersion
<1> HIDE DEF new
<1>7. GoodTable(new) /\ \A t \in TS : StartOf(new, t) = StartOf(tbl, t)
  BY <1>4, <1>5, <1>6, ShapeKept
<1> QED
  BY <1>2, <1>3, <1>4, <1>7 DEF new, GrabbedFrom

-----------------------------------------------------------------------------
(* What tryBackwardLock and tryLock have in common                          *)

\* new is tbl after some of its nodes were cut and tid was granted pieces that
\* were lockable and lie inside lo .. hi.
GrantOf(tbl, new, tid, lo, hi, is_read) ==
    \E mid, S :
        /\ GoodTable(mid) /\ SplitOf(tbl, mid)
        /\ S \subseteq DOMAIN mid \ {0}
        /\ \A s \in S : /\ Lockable(mid[s].status, is_read)
                        /\ lo <= s /\ mid[s].end <= hi
        /\ new = Grab(mid, S, tid, LockedStatus(is_read))

\* What is frozen at a timestamp stays so.
FrozenKept(tbl, new) ==
    \A t \in TS : Frozen(StatusAt(tbl, t)) => StatusAt(new, t) = StatusAt(tbl, t)

\* What a reader owns stays its own.
ReadersKept(tbl, new) ==
    \A t \in TS, x \in Tids :
        StatusAt(tbl, t) = "READ_LOCK" /\ x \in TidsAt(tbl, t)
            => StatusAt(new, t) = "READ_LOCK" /\ x \in TidsAt(new, t)

\* Only tid, only inside lo .. hi and only as a lock of the given status, owns what
\* it did not own before; the other locks keep their status.
OwnersKept(tbl, new, tid, lo, hi, status) ==
    \A s \in DOMAIN new : \A x \in new[s].tids :
        \/ x = tid /\ lo <= s /\ new[s].end <= hi /\ new[s].status = status
        \/ \E r \in DOMAIN tbl :
              /\ x \in tbl[r].tids /\ r <= s /\ new[s].end <= tbl[r].end
              /\ new[s].status = tbl[r].status

\* Where a locked node ended, a locked node still ends.
LockedEndsKept(tbl, new) ==
    \A r \in DOMAIN tbl : Locked(tbl[r]) =>
        \E s \in DOMAIN new : new[s].end = tbl[r].end /\ Locked(new[s])

\* What a request locks a node as is a status.
LEMMA LockedStatusType ==
    ASSUME NEW is_read \in BOOLEAN
    PROVE  /\ LockedStatus(is_read) \in LockStatus
           /\ LockedStatus(is_read) \in {"READ_LOCK", "WRITE_LOCK"}
BY DEF LockedStatus, LockStatus

\* A grant keeps the partition, what is frozen, and what readers own.
LEMMA GrantKeeps ==
    ASSUME NEW tbl, GoodTable(tbl), NEW new, NEW tid \in Tids, NEW lo, NEW hi,
           NEW is_read \in BOOLEAN, GrantOf(tbl, new, tid, lo, hi, is_read)
    PROVE  GoodTable(new) /\ FrozenKept(tbl, new) /\ ReadersKept(tbl, new)
<1>1. PICK mid, S :
        /\ GoodTable(mid) /\ SplitOf(tbl, mid)
        /\ S \subseteq DOMAIN mid \ {0}
        /\ \A s \in S : Lockable(mid[s].status, is_read)
        /\ new = Grab(mid, S, tid, LockedStatus(is_read))
  BY DEF GrantOf
<1>2. GrabbedFrom(mid, new, S, tid, LockedStatus(is_read))
  BY <1>1, GrabKept, LockedStatusType
<1>3. ASSUME NEW t \in TS
      PROVE  /\ Frozen(StatusAt(tbl, t)) => StatusAt(new, t) = StatusAt(tbl, t)
             /\ \A x \in Tids :
                   StatusAt(tbl, t) = "READ_LOCK" /\ x \in TidsAt(tbl, t)
                       => StatusAt(new, t) = "READ_LOCK" /\ x \in TidsAt(new, t)
  <2> DEFINE s == StartOf(mid, t)
  <2>1. StatusAt(tbl, t) = mid[s].status /\ TidsAt(tbl, t) = mid[s].tids
    BY <1>1, SplitOfAt DEF StatusAt, TidsAt
  <2>2. s \in DOMAIN mid
    BY <1>1, FindNode
  <2>3. StatusAt(new, t) = new[s].status /\ TidsAt(new, t) = new[s].tids
    BY <1>2 DEF StatusAt, TidsAt, GrabbedFrom
  <2> HIDE DEF s
  <2>4. CASE s \in S
    BY <1>1, <1>2, <2>1, <2>3, <2>4 DEF Lockable, Frozen, LockedStatus, GrabbedFrom
  <2>5. CASE s \notin S
    BY <1>2, <2>1, <2>2, <2>3, <2>5 DEF GrabbedFrom
  <2> QED
    BY <2>4, <2>5
<1> QED
  BY <1>2, <1>3 DEF GrabbedFrom, FrozenKept, ReadersKept

\* A grant keeps owners exclusive, and makes tid an owner inside lo .. hi only.
LEMMA GrantOwners ==
    ASSUME NEW tbl, GoodTable(tbl), NEW new, NEW tid \in Tids, NEW lo, NEW hi,
           NEW is_read \in BOOLEAN, GrantOf(tbl, new, tid, lo, hi, is_read),
           \A s \in DOMAIN tbl : ExclusiveNode(tbl[s])
    PROVE  /\ \A s \in DOMAIN new : ExclusiveNode(new[s])
           /\ OwnersKept(tbl, new, tid, lo, hi, LockedStatus(is_read))
           /\ LockedEndsKept(tbl, new)
<1>1. PICK mid, S :
        /\ GoodTable(mid) /\ SplitOf(tbl, mid)
        /\ S \subseteq DOMAIN mid \ {0}
        /\ \A s \in S : /\ Lockable(mid[s].status, is_read)
                        /\ lo <= s /\ mid[s].end <= hi
        /\ new = Grab(mid, S, tid, LockedStatus(is_read))
  BY DEF GrantOf
<1>2. /\ DOMAIN new = DOMAIN mid
      /\ \A s \in DOMAIN mid : new[s].end = mid[s].end
      /\ \A s \in S : /\ new[s].status = LockedStatus(is_read)
                      /\ new[s].tids = mid[s].tids \cup {tid}
      /\ \A s \in DOMAIN mid \ S : new[s] = mid[s]
  <2>1. GrabbedFrom(mid, new, S, tid, LockedStatus(is_read))
    BY <1>1, GrabKept, LockedStatusType
  <2> QED
    BY <2>1 DEF GrabbedFrom, SameShape
<1>3. ASSUME NEW s \in DOMAIN new
      PROVE  /\ ExclusiveNode(new[s])
             /\ \A x \in new[s].tids :
                 \/ /\ x = tid /\ lo <= s /\ new[s].end <= hi
                    /\ new[s].status = LockedStatus(is_read)
                 \/ \E r \in DOMAIN tbl :
                       /\ x \in tbl[r].tids /\ r <= s /\ new[s].end <= tbl[r].end
                       /\ new[s].status = tbl[r].status
  <2>1. PICK r \in DOMAIN tbl :
          /\ r <= s /\ mid[s].end <= tbl[r].end
          /\ mid[s].status = tbl[r].status /\ mid[s].tids = tbl[r].tids
    BY <1>1, <1>2 DEF SplitOf
  <2>2. CASE s \notin S
    BY <1>2, <2>1, <2>2 DEF ExclusiveNode
  <2>3. CASE s \in S
    <3>1. ExclusiveNode(new[s])
      BY <1>1, <1>2, <2>1, <2>3 DEF ExclusiveNode, Lockable, LockedStatus
    <3>2. /\ new[s].tids = tbl[r].tids \cup {tid} /\ new[s].end = mid[s].end
          /\ new[s].status = LockedStatus(is_read)
      BY <1>2, <2>1, <2>3
    <3>3. tbl[r].tids # {} => tbl[r].status = LockedStatus(is_read)
      BY <1>1, <2>1, <2>3 DEF ExclusiveNode, Lockable, LockedStatus
    <3> QED
      BY <1>1, <2>1, <2>3, <3>1, <3>2, <3>3
  <2> QED
    BY <2>2, <2>3
<1>4. ASSUME NEW r \in DOMAIN tbl, tbl[r].status \in {"READ_LOCK", "WRITE_LOCK"}
      PROVE  \E s \in DOMAIN new :
                /\ new[s].end = tbl[r].end
                /\ new[s].status \in {"READ_LOCK", "WRITE_LOCK"}
  <2>1. PICK s \in DOMAIN mid : mid[s].end = tbl[r].end /\ mid[s].status = tbl[r].status
    BY <1>1 DEF SplitOf
  <2> QED
    BY <1>2, <1>4, <2>1, LockedStatusType
<1> QED
  BY <1>3, <1>4 DEF OwnersKept, LockedEndsKept, Locked

-----------------------------------------------------------------------------
(* tryBackwardLock                                                          *)

\* The table the walk runs on: ts_end is the last time of its node whenever that
\* node can be locked.
LEMMA BackwardTableKept ==
    ASSUME NEW tbl, GoodTable(tbl), NEW ts_end \in TS, NEW is_read \in BOOLEAN
    PROVE  /\ GoodTable(BackwardTable(tbl, ts_end, is_read))
           /\ SplitOf(tbl, BackwardTable(tbl, ts_end, is_read))
           /\ Lockable(StatusAt(BackwardTable(tbl, ts_end, is_read), ts_end), is_read)
                 => BackwardTable(tbl, ts_end, is_read)
                       [StartOf(BackwardTable(tbl, ts_end, is_read), ts_end)].end = ts_end
<1>1. CASE Lockable(StatusAt(tbl, ts_end), is_read)
  BY <1>1, CutKept DEF BackwardTable
<1>2. CASE ~Lockable(StatusAt(tbl, ts_end), is_read)
  BY <1>2, SplitOfSelf DEF BackwardTable
<1> QED
  BY <1>1, <1>2

\* The walk stops after time 0 and passes exactly the nodes from *ts_start on.
LEMMA WalkBounds ==
    ASSUME NEW t, GoodTable(t), NEW ts_end \in TS, NEW is_read \in BOOLEAN,
           NEW start, start = Min({ts_end + 1} \cup Walked(t, ts_end, is_read))
    PROVE  /\ start \in 1 .. ts_end + 1
           /\ \A s \in Walked(t, ts_end, is_read) : start <= s /\ s # 0
           /\ \A u \in start .. ts_end : StartOf(t, u) \in Walked(t, ts_end, is_read)
<1> DEFINE W == Walked(t, ts_end, is_read)
<1>0. DOMAIN t \subseteq TS /\ \A s \in DOMAIN t : t[s].end \in TS
  BY DEF GoodTable, IsTable, Node
<1>1. \A s \in W : s \in DOMAIN t /\ s \in Nat /\ s <= ts_end
  BY <1>0, MaxTsAssumption DEF Walked, TS
<1>2. 0 \notin W
  <2>1. ~Passable(t[0].status, is_read)
    BY DEF GoodTable, InitialVersion, Passable, Lockable
  <2> QED
    BY <2>1, MaxTsAssumption DEF Walked, GoodTable, InitialVersion, TS
<1>3. start \in {ts_end + 1} \cup W /\ \A y \in {ts_end + 1} \cup W : start <= y
  <2>1. {ts_end + 1} \cup W \subseteq Nat /\ {ts_end + 1} \cup W # {}
    BY <1>1, MaxTsAssumption DEF TS
  <2> HIDE DEF W
  <2> QED
    BY <2>1, MinNat DEF W
<1>4. start \in 1 .. ts_end + 1
  BY <1>1, <1>2, <1>3, MaxTsAssumption DEF TS
<1>5. ASSUME NEW u \in start .. ts_end PROVE StartOf(t, u) \in W
  <2> DEFINE r == StartOf(t, u)
  <2>1. u \in TS /\ start \in W
    BY <1>3, <1>4, MaxTsAssumption DEF TS
  <2>2. r \in DOMAIN t /\ r <= u /\ u <= t[r].end
    BY <2>1, FindNode
  <2> HIDE DEF r
  <2>3. start <= r
    <3>1. r < start => t[r].end < start
      BY <1>1, <2>1, <2>2 DEF GoodTable, Tiles
    <3>2. r \in Int /\ start \in Int /\ t[r].end \in Int /\ u \in Int
      BY <1>0, <1>4, <2>1, <2>2, MaxTsAssumption DEF TS
    <3> QED
      BY <2>2, <3>1, <3>2
  <2>4. r <= ts_end
    BY <1>0, <1>4, <2>1, <2>2, MaxTsAssumption DEF TS
  <2>5. ASSUME NEW x \in DOMAIN t, r <= x, x <= ts_end
        PROVE  Passable(t[x].status, is_read)
    <3>1. start <= x
      BY <1>0, <1>4, <2>2, <2>3, <2>5, MaxTsAssumption DEF TS
    <3> QED
      BY <2>1, <2>5, <3>1 DEF Walked
  <2> QED
    BY <2>2, <2>4, <2>5 DEF Walked, r
<1> QED
  BY <1>2, <1>3, <1>4, <1>5

\* tryBackwardLock grants pieces inside *ts_start .. ts_end; a read covers that
\* interval; and when it is blocked, a lock ends where the event is registered.
BackwardEffect(tbl, new, tid, ts_end, is_read) ==
    LET start == BackwardStart(tbl, ts_end, is_read)
        stop  == BackwardStop(tbl, ts_end, is_read)
    IN  /\ GrantOf(tbl, new, tid, start, ts_end, is_read)
        /\ start \in 1 .. ts_end + 1
        /\ is_read => \A u \in start .. ts_end : ReadCovered(new, tid, u)
        /\ stop.end \in TS
        /\ ~BackwardGranted(tbl, ts_end, is_read) =>
              \E s \in DOMAIN new : new[s].end = stop.end /\ Locked(new[s])

\* tryBackwardLock does to a table what BackwardEffect says.
LEMMA BackwardLockEffect ==
    ASSUME NEW tbl, GoodTable(tbl), NEW tid \in Tids, NEW ts_end \in TS,
           NEW is_read \in BOOLEAN
    PROVE  BackwardEffect(tbl, BackwardLock(tbl, tid, ts_end, is_read), tid, ts_end, is_read)
<1> DEFINE t     == BackwardTable(tbl, ts_end, is_read)
           W     == Walked(t, ts_end, is_read)
           S     == {s \in W : Lockable(t[s].status, is_read)}
           start == BackwardStart(tbl, ts_end, is_read)
           new   == BackwardLock(tbl, tid, ts_end, is_read)
           stop  == BackwardStop(tbl, ts_end, is_read)
<1>1. GoodTable(t) /\ SplitOf(tbl, t)
  BY BackwardTableKept
<1>2. Lockable(StatusAt(t, ts_end), is_read) => t[StartOf(t, ts_end)].end = ts_end
  BY BackwardTableKept
<1>3. stop = t[StartOf(t, start - 1)]
  BY DEF BackwardStop
<1>4. start = Min({ts_end + 1} \cup W)
  BY DEF BackwardStart
<1>5. new = Grab(t, S, tid, LockedStatus(is_read))
  BY DEF BackwardLock
<1>6. W \subseteq DOMAIN t /\ \A s \in W : s <= ts_end /\ Passable(t[s].status, is_read)
  <2>1. \A s \in DOMAIN t : s <= s
    BY <1>1, MaxTsAssumption DEF GoodTable, IsTable, TS
  <2> QED
    BY <2>1 DEF Walked
<1>7. BackwardGranted(tbl, ts_end, is_read) = (stop.status \notin {"READ_LOCK", "WRITE_LOCK"})
  BY DEF BackwardGranted
<1> HIDE DEF t, start, new, stop
<1>8. /\ start \in 1 .. ts_end + 1
      /\ \A s \in W : start <= s /\ s # 0
      /\ \A u \in start .. ts_end : StartOf(t, u) \in W
  BY <1>1, <1>4, WalkBounds
<1> HIDE DEF W
<1>9. ASSUME NEW s \in S PROVE t[s].end <= ts_end
  <2> DEFINE r == StartOf(t, ts_end)
  <2>1. r \in DOMAIN t /\ r <= ts_end /\ ts_end <= t[r].end
    BY <1>1, FindNode
  <2>2. r = s => t[r].end = ts_end
    BY <1>2 DEF StatusAt
  <2> HIDE DEF r
  <2>3. /\ s \in DOMAIN t /\ s <= ts_end
        /\ s \in Int /\ r \in Int /\ ts_end \in Int /\ t[s].end \in Int /\ t[r].end \in Int
    BY <1>1, <1>6, <2>1, MaxTsAssumption DEF GoodTable, IsTable, Node, TS
  <2>4. (s < r => t[s].end < r) /\ (r < s => t[r].end < s)
    BY <1>1, <2>1, <2>3 DEF GoodTable, Tiles
  <2> QED
    BY <2>1, <2>2, <2>3, <2>4
<1>10. S \subseteq DOMAIN t \ {0}
  BY <1>6, <1>8
<1>11. GrantOf(tbl, new, tid, start, ts_end, is_read)
  <2>1. \A s \in S : Lockable(t[s].status, is_read) /\ start <= s /\ t[s].end <= ts_end
    BY <1>8, <1>9
  <2> HIDE DEF S
  <2> QED
    BY <1>1, <1>5, <1>10, <2>1 DEF GrantOf
<1>12. GrabbedFrom(t, new, S, tid, LockedStatus(is_read))
  BY <1>1, <1>5, <1>10, GrabKept, LockedStatusType
<1>13. ASSUME is_read, NEW u \in start .. ts_end PROVE ReadCovered(new, tid, u)
  <2> DEFINE r == StartOf(t, u)
  <2>1. u \in TS
    BY <1>8, MaxTsAssumption DEF TS
  <2>2. r \in W
    BY <1>8
  <2>3. StatusAt(new, u) = new[r].status /\ TidsAt(new, u) = new[r].tids
    BY <1>12, <2>1 DEF GrabbedFrom, StatusAt, TidsAt
  <2> HIDE DEF r
  <2>4. CASE r \in S
    BY <1>12, <1>13, <2>3, <2>4 DEF GrabbedFrom, ReadCovered, LockedStatus
  <2>5. CASE r \notin S
    <3>1. t[r].status = "FREEZE_READ_LOCK"
      BY <1>6, <2>2, <2>5 DEF Passable
    <3>2. new[r] = t[r]
      BY <1>6, <1>12, <2>2, <2>5 DEF GrabbedFrom
    <3> QED
      BY <2>3, <3>1, <3>2 DEF ReadCovered
  <2> QED
    BY <2>4, <2>5
<1>14. /\ stop.end \in TS
       /\ ~BackwardGranted(tbl, ts_end, is_read) =>
             \E s \in DOMAIN new : new[s].end = stop.end /\ Locked(new[s])
  <2> DEFINE q == StartOf(t, start - 1)
  <2>1. start - 1 \in TS
    BY <1>8, MaxTsAssumption DEF TS
  <2>2. q \in DOMAIN t
    BY <1>1, <2>1, FindNode
  <2>3. stop = t[q]
    BY <1>3
  <2> HIDE DEF q
  <2>4. stop.end \in TS
    BY <1>1, <2>2, <2>3 DEF GoodTable, IsTable, Node
  <2>5. q \in DOMAIN new /\ new[q].end = stop.end
    BY <1>12, <2>2, <2>3 DEF GrabbedFrom, SameShape
  <2>6. Locked(t[q]) => Locked(new[q])
    <3>1. CASE q \in S
      BY <1>12, <3>1, LockedStatusType DEF GrabbedFrom, Locked
    <3>2. CASE q \notin S
      BY <1>12, <2>2, <3>2 DEF GrabbedFrom
    <3> QED
      BY <3>1, <3>2
  <2> QED
    BY <1>7, <2>3, <2>4, <2>5, <2>6 DEF Locked
<1> QED
  BY <1>8, <1>11, <1>13, <1>14 DEF BackwardEffect, start, new, stop

-----------------------------------------------------------------------------
(* tryLock                                                                  *)

\* A granted tryLock grants the single time ts; a read covers it, and a write makes
\* a write lock of a free time.
PointEffect(tbl, new, tid, ts, is_read) ==
    /\ GrantOf(tbl, new, tid, ts, ts, is_read)
    /\ is_read => ReadCovered(new, tid, ts)
    /\ ~is_read => StatusAt(tbl, ts) = "FREE" /\ StatusAt(new, ts) = "WRITE_LOCK"

\* tryLock of one timestamp does to a table what PointEffect says.
LEMMA PointLockEffect ==
    ASSUME NEW tbl, GoodTable(tbl), NEW tid \in Tids, NEW ts \in TS,
           NEW is_read \in BOOLEAN, PointGranted(tbl, ts, is_read)
    PROVE  PointEffect(tbl, PointLock(tbl, tid, ts, is_read), tid, ts, is_read)
<1> DEFINE s     == StartOf(tbl, ts)
           below == IF ts = s THEN tbl ELSE Split(tbl, s, ts - 1)
           mid   == CutAfter(below, ts)
           new   == PointLock(tbl, tid, ts, is_read)
<1>1. s \in DOMAIN tbl /\ s <= ts /\ ts <= tbl[s].end
  BY FindNode
<1>2. CASE Lockable(StatusAt(tbl, ts), is_read)
  <2>1. new = Grab(mid, {ts}, tid, LockedStatus(is_read))
    BY <1>2 DEF PointLock
  <2>2. tbl[s].status = StatusAt(tbl, ts)
    BY DEF StatusAt
  <2>3. s # 0
    BY <1>2, <2>2 DEF GoodTable, InitialVersion, Lockable
  <2>4. s \in Int /\ ts \in Int /\ tbl[s].end \in Int /\ s >= 0
    BY <1>1, MaxTsAssumption DEF GoodTable, IsTable, Node, TS
  <2> HIDE DEF s, mid, new
  <2>5. /\ GoodTable(below) /\ SplitOf(tbl, below)
        /\ ts \in DOMAIN below /\ ts <= below[ts].end /\ below[ts].status = tbl[s].status
    <3>1. CASE ts = s
      BY <1>1, <3>1, SplitOfSelf
    <3>2. CASE ts # s
      <4> DEFINE p == ts - 1
      <4>1. p \in TS /\ s <= p /\ p < tbl[s].end /\ p + 1 = ts
        BY <1>1, <2>3, <2>4, <3>2, MaxTsAssumption DEF TS
      <4>2. /\ GoodTable(Split(tbl, s, p)) /\ SplitOf(tbl, Split(tbl, s, p))
            /\ p + 1 \in DOMAIN Split(tbl, s, p)
            /\ Split(tbl, s, p)[p + 1] = tbl[s]
        BY <1>1, <4>1, SplitKept
      <4> QED
        BY <1>1, <3>2, <4>1, <4>2
    <3> QED
      BY <3>1, <3>2
  <2> HIDE DEF below
  <2>6. StartOf(below, ts) = ts
    <3>1. ts <= ts
      BY <2>4
    <3> QED
      BY <2>5, <3>1, NodeAt
  <2>7. /\ GoodTable(mid) /\ SplitOf(below, mid)
        /\ StartOf(mid, ts) = ts /\ mid[ts].end = ts
    BY <2>5, <2>6, CutKept DEF mid
  <2>8. SplitOf(tbl, mid)
    BY <2>5, <2>7, SplitOfTrans
  <2>9. StatusAt(mid, ts) = mid[ts].status /\ StatusAt(mid, ts) = StatusAt(tbl, ts)
    <3>1. StatusAt(mid, ts) = StatusAt(tbl, ts)
      BY <2>7, <2>8, SplitOfAt
    <3> QED
      BY <2>7, <3>1 DEF StatusAt
  <2>10. ts \in DOMAIN mid /\ ts # 0
    BY <1>1, <2>3, <2>4, <2>7, FindNode
  <2>11. GrantOf(tbl, new, tid, ts, ts, is_read)
    <3>1. {ts} \subseteq DOMAIN mid \ {0}
      BY <2>10
    <3>2. \A x \in {ts} : Lockable(mid[x].status, is_read) /\ ts <= x /\ mid[x].end <= ts
      <4>1. Lockable(mid[ts].status, is_read)
        BY <1>2, <2>9
      <4>2. ts <= ts /\ mid[ts].end <= ts
        BY <2>4, <2>7
      <4> QED
        BY <4>1, <4>2
    <3> QED
      BY <2>1, <2>7, <2>8, <3>1, <3>2 DEF GrantOf
  <2>12. GrabbedFrom(mid, new, {ts}, tid, LockedStatus(is_read))
    <3>1. {ts} \subseteq DOMAIN mid \ {0}
      BY <2>10
    <3> QED
      BY <2>1, <2>7, <3>1, GrabKept, LockedStatusType
  <2>13. is_read => ReadCovered(new, tid, ts)
    BY <2>7, <2>12 DEF GrabbedFrom, ReadCovered, StatusAt, TidsAt, LockedStatus
  <2>14. ~is_read => StatusAt(tbl, ts) = "FREE" /\ StatusAt(new, ts) = "WRITE_LOCK"
    BY <1>2, <2>7, <2>12 DEF GrabbedFrom, StatusAt, LockedStatus, Lockable
  <2> QED
    BY <2>11, <2>13, <2>14 DEF PointEffect, new
<1>3. CASE ~Lockable(StatusAt(tbl, ts), is_read)
  <2>1. new = tbl /\ StatusAt(tbl, ts) = "FREEZE_READ_LOCK" /\ is_read
    BY <1>3 DEF PointLock, PointGranted, Passable
  <2>2. tbl = Grab(tbl, {}, tid, LockedStatus(is_read))
    BY DEF Grab, GoodTable, IsTable
  <2>3. GrantOf(tbl, tbl, tid, ts, ts, is_read)
    BY <2>2, SplitOfSelf DEF GrantOf
  <2> QED
    BY <2>1, <2>3 DEF PointEffect, ReadCovered
<1> QED
  BY <1>2, <1>3

-----------------------------------------------------------------------------
(* freeze and unlock                                                        *)

\* new is tbl with the nodes of tid in i, and only they, frozen.
FreezeEffect(tbl, new, tid, i) ==
    /\ GoodTable(new) /\ SameShape(tbl, new)
    /\ FrozenKept(tbl, new)
    /\ \A x \in Tids, t \in TS : ReadCovered(tbl, x, t) => ReadCovered(new, x, t)
    /\ \A s \in OwnedIn(tbl, tid, i) : Frozen(new[s].status) /\ new[s].tids = {}
    /\ \A s \in DOMAIN tbl \ OwnedIn(tbl, tid, i) : new[s] = tbl[s]

\* Freezing the nodes of a transaction does what FreezeEffect says.
LEMMA FreezeNodesEffect ==
    ASSUME NEW tbl, GoodTable(tbl), NEW tid \in Tids, NEW i
    PROVE  FreezeEffect(tbl, FreezeNodes(tbl, tid, i), tid, i)
<1> DEFINE O   == OwnedIn(tbl, tid, i)
           new == FreezeNodes(tbl, tid, i)
<1>1. /\ DOMAIN new = DOMAIN tbl
      /\ new = [s \in DOMAIN new |-> new[s]]
      /\ \A s \in O : s \in DOMAIN tbl /\ new[s] = FreezeNode(tbl[s])
      /\ \A s \in DOMAIN tbl \ O : new[s] = tbl[s]
  BY DEF FreezeNodes, OwnedIn
<1>2. ASSUME NEW s \in O
      PROVE  /\ new[s].end = tbl[s].end /\ new[s].tids = {} /\ new[s] \in Node
             /\ Frozen(new[s].status)
             /\ tbl[s].status = "READ_LOCK" => new[s].status = "FREEZE_READ_LOCK"
             /\ Locked(tbl[s])
  <2>1. tbl[s] \in Node
    BY <1>1 DEF GoodTable, IsTable
  <2>2. Locked(tbl[s])
    BY DEF OwnedIn, Locked
  <2> QED
    BY <1>1, <2>1, <2>2 DEF FreezeNode, Node, Frozen, LockStatus
<1>3. O \subseteq DOMAIN tbl \ {0}
  <2>1. ~Locked(tbl[0])
    BY DEF GoodTable, InitialVersion, Locked
  <2> QED
    BY <1>1, <1>2, <2>1
<1> HIDE DEF new, O
<1>4. SameShape(tbl, new) /\ IsTable(new) /\ new[0] = tbl[0]
  BY <1>1, <1>2, <1>3 DEF SameShape, GoodTable, IsTable, InitialVersion
<1>5. GoodTable(new) /\ \A t \in TS : StartOf(new, t) = StartOf(tbl, t)
  BY <1>4, ShapeKept
<1>6. ASSUME NEW t \in TS
      PROVE  /\ Frozen(StatusAt(tbl, t)) => StatusAt(new, t) = StatusAt(tbl, t)
             /\ \A x \in Tids : ReadCovered(tbl, x, t) => ReadCovered(new, x, t)
  <2> DEFINE s == StartOf(tbl, t)
  <2>1. s \in DOMAIN tbl
    BY FindNode
  <2>2. /\ StatusAt(tbl, t) = tbl[s].status /\ TidsAt(tbl, t) = tbl[s].tids
        /\ StatusAt(new, t) = new[s].status /\ TidsAt(new, t) = new[s].tids
    BY <1>5 DEF StatusAt, TidsAt
  <2> HIDE DEF s
  <2>3. CASE s \in O
    BY <1>2, <2>2, <2>3 DEF ReadCovered, Frozen, Locked
  <2>4. CASE s \notin O
    BY <1>1, <2>1, <2>2, <2>4 DEF ReadCovered
  <2> QED
    BY <2>3, <2>4
<1> QED
  BY <1>1, <1>2, <1>4, <1>5, <1>6 DEF FreezeEffect, FrozenKept, new, O

\* new is tbl with the nodes of tid in i, and only they, freed.
UnlockEffect(tbl, new, tid, i) ==
    /\ GoodTable(new) /\ SameShape(tbl, new)
    /\ FrozenKept(tbl, new)
    /\ \A t \in TS : StartOf(new, t) = StartOf(tbl, t)
    /\ \A s \in OwnedIn(tbl, tid, i) :
          new[s].status = "FREE" /\ new[s].tids = tbl[s].tids \ {tid}
    /\ \A s \in DOMAIN tbl \ OwnedIn(tbl, tid, i) : new[s] = tbl[s]

\* Unlocking the nodes of a transaction does what UnlockEffect says.
LEMMA UnlockNodesEffect ==
    ASSUME NEW tbl, GoodTable(tbl), NEW tid \in Tids, NEW i
    PROVE  UnlockEffect(tbl, UnlockNodes(tbl, tid, i), tid, i)
<1> DEFINE O   == OwnedIn(tbl, tid, i)
           new == UnlockNodes(tbl, tid, i)
<1>1. /\ DOMAIN new = DOMAIN tbl
      /\ new = [s \in DOMAIN new |-> new[s]]
      /\ \A s \in O : /\ s \in DOMAIN tbl
                      /\ new[s] = [tbl[s] EXCEPT !.status = "FREE", !.tids = @ \ {tid}]
      /\ \A s \in DOMAIN tbl \ O : new[s] = tbl[s]
  BY DEF UnlockNodes, OwnedIn
<1>2. ASSUME NEW s \in O
      PROVE  /\ new[s].end = tbl[s].end /\ new[s] \in Node
             /\ new[s].status = "FREE" /\ new[s].tids = tbl[s].tids \ {tid}
             /\ Locked(tbl[s])
  <2>1. tbl[s] \in Node
    BY <1>1 DEF GoodTable, IsTable
  <2>2. Locked(tbl[s])
    BY DEF OwnedIn, Locked
  <2> HIDE DEF new, O
  <2>3. new[s] = [tbl[s] EXCEPT !.status = "FREE", !.tids = @ \ {tid}]
    BY <1>1
  <2> QED
    BY <2>1, <2>2, <2>3 DEF Node, LockStatus
<1>3. O \subseteq DOMAIN tbl \ {0}
  <2>1. ~Locked(tbl[0])
    BY DEF GoodTable, InitialVersion, Locked
  <2> QED
    BY <1>1, <1>2, <2>1
<1> HIDE DEF new, O
<1>4. SameShape(tbl, new) /\ IsTable(new) /\ new[0] = tbl[0]
  BY <1>1, <1>2, <1>3 DEF SameShape, GoodTable, IsTable, InitialVersion
<1>5. GoodTable(new) /\ \A t \in TS : StartOf(new, t) = StartOf(tbl, t)
  BY <1>4, ShapeKept
<1>6. ASSUME NEW t \in TS, Frozen(StatusAt(tbl, t))
      PROVE  StatusAt(new, t) = StatusAt(tbl, t)
  <2> DEFINE s == StartOf(tbl, t)
  <2>1. s \in DOMAIN tbl
    BY FindNode
  <2>2. StatusAt(tbl, t) = tbl[s].status /\ StatusAt(new, t) = new[s].status
    BY <1>5 DEF StatusAt
  <2> HIDE DEF s
  <2>3. s \notin O
    BY <1>2, <1>6, <2>2 DEF Frozen, Locked
  <2> QED
    BY <1>1, <2>1, <2>2, <2>3
<1> QED
  BY <1>1, <1>2, <1>4, <1>5, <1>6 DEF UnlockEffect, FrozenKept, new, O

\* The table of a new key is a good one.
LEMMA InitialTableGood == GoodTable(InitialTable)
<1>1. /\ DOMAIN InitialTable = {0, 1}
      /\ InitialTable[0] = [end |-> 0, status |-> "FREEZE_WRITE_LOCK", tids |-> {}]
      /\ InitialTable[1] = [end |-> MaxTs, status |-> "FREE", tids |-> {}]
      /\ InitialTable = [s \in DOMAIN InitialTable |-> InitialTable[s]]
  BY DEF InitialTable
<1>2. IsTable(InitialTable)
  BY <1>1, MaxTsAssumption DEF IsTable, Node, LockStatus, TS
<1>3. Tiles(InitialTable)
  BY <1>1, MaxTsAssumption DEF Tiles, TS
<1> QED
  BY <1>1, <1>2, <1>3 DEF GoodTable, InitialVersion

-----------------------------------------------------------------------------
(* Timestamp by timestamp                                                   *)

\* A time keeps its status and its owners.
SameAt(tbl, new, t) ==
    StatusAt(new, t) = StatusAt(tbl, t) /\ TidsAt(new, t) = TidsAt(tbl, t)

\* A grant changes a time only inside lo .. hi, only if it was lockable, and then
\* into a lock of the status asked for that tid owns with the owners before.
LEMMA GrantAt ==
    ASSUME NEW tbl, GoodTable(tbl), NEW new, NEW tid \in Tids, NEW lo \in Int, NEW hi \in Int,
           NEW is_read \in BOOLEAN, GrantOf(tbl, new, tid, lo, hi, is_read), NEW t \in TS
    PROVE  \/ SameAt(tbl, new, t)
           \/ /\ lo <= t /\ t <= hi /\ Lockable(StatusAt(tbl, t), is_read)
              /\ StatusAt(new, t) = LockedStatus(is_read)
              /\ TidsAt(new, t) = TidsAt(tbl, t) \cup {tid}
<1>1. PICK mid, S :
        /\ GoodTable(mid) /\ SplitOf(tbl, mid)
        /\ S \subseteq DOMAIN mid \ {0}
        /\ \A s \in S : /\ Lockable(mid[s].status, is_read)
                        /\ lo <= s /\ mid[s].end <= hi
        /\ new = Grab(mid, S, tid, LockedStatus(is_read))
  BY DEF GrantOf
<1>2. GrabbedFrom(mid, new, S, tid, LockedStatus(is_read))
  BY <1>1, GrabKept, LockedStatusType
<1> DEFINE s == StartOf(mid, t)
<1>3. StatusAt(tbl, t) = mid[s].status /\ TidsAt(tbl, t) = mid[s].tids
  BY <1>1, SplitOfAt DEF StatusAt, TidsAt
<1>4. s \in DOMAIN mid /\ s <= t /\ t <= mid[s].end
  BY <1>1, FindNode
<1>5. StatusAt(new, t) = new[s].status /\ TidsAt(new, t) = new[s].tids
  BY <1>2 DEF StatusAt, TidsAt, GrabbedFrom
<1>6. s \in Int /\ t \in Int /\ mid[s].end \in Int
  BY <1>1, <1>4, MaxTsAssumption DEF GoodTable, IsTable, Node, TS
<1> HIDE DEF s
<1>7. CASE s \in S
  BY <1>1, <1>2, <1>3, <1>4, <1>5, <1>6, <1>7 DEF GrabbedFrom
<1>8. CASE s \notin S
  BY <1>2, <1>3, <1>4, <1>5, <1>8 DEF GrabbedFrom, SameAt
<1> QED
  BY <1>7, <1>8

\* freeze changes a time only if tid has locked it, and turns a read lock into a
\* frozen read and a write lock into a frozen write.
LEMMA FreezeAt ==
    ASSUME NEW tbl, GoodTable(tbl), NEW tid \in Tids, NEW i, NEW t \in TS
    PROVE  LET new == FreezeNodes(tbl, tid, i)
           IN  \/ SameAt(tbl, new, t)
               \/ /\ tid \in TidsAt(tbl, t)
                  /\ \/ StatusAt(tbl, t) = "READ_LOCK" /\ StatusAt(new, t) = "FREEZE_READ_LOCK"
                     \/ StatusAt(tbl, t) = "WRITE_LOCK" /\ StatusAt(new, t) = "FREEZE_WRITE_LOCK"
<1> DEFINE new == FreezeNodes(tbl, tid, i)
           s   == StartOf(tbl, t)
<1>1. FreezeEffect(tbl, new, tid, i)
  BY FreezeNodesEffect
<1>2. StartOf(new, t) = s
  BY <1>1, ShapeKept DEF FreezeEffect, GoodTable, InitialVersion
<1>3. s \in DOMAIN tbl
  BY FindNode
<1>4. /\ StatusAt(tbl, t) = tbl[s].status /\ TidsAt(tbl, t) = tbl[s].tids
      /\ StatusAt(new, t) = new[s].status /\ TidsAt(new, t) = new[s].tids
  BY <1>2 DEF StatusAt, TidsAt
<1>5. CASE s \in OwnedIn(tbl, tid, i)
  <2>1. new[s] = FreezeNode(tbl[s]) /\ tbl[s] \in Node
    BY <1>3, <1>5 DEF FreezeNodes, GoodTable, IsTable
  <2>2. tid \in tbl[s].tids /\ tbl[s].status \in {"READ_LOCK", "WRITE_LOCK"}
    BY <1>5 DEF OwnedIn
  <2> HIDE DEF new, s
  <2>3. new[s].status = IF tbl[s].status = "READ_LOCK" THEN "FREEZE_READ_LOCK"
                        ELSE "FREEZE_WRITE_LOCK"
    BY <2>1 DEF FreezeNode, Node
  <2> QED
    BY <1>4, <2>2, <2>3 DEF new
<1>6. CASE s \notin OwnedIn(tbl, tid, i)
  BY <1>1, <1>3, <1>4, <1>6 DEF FreezeEffect, SameAt
<1> QED
  BY <1>5, <1>6

\* unlock changes a time only if tid has locked it, and frees it.
LEMMA UnlockAt ==
    ASSUME NEW tbl, GoodTable(tbl), NEW tid \in Tids, NEW i, NEW t \in TS
    PROVE  LET new == UnlockNodes(tbl, tid, i)
           IN  \/ SameAt(tbl, new, t)
               \/ /\ tid \in TidsAt(tbl, t) /\ StatusAt(new, t) = "FREE"
                  /\ StatusAt(tbl, t) \in {"READ_LOCK", "WRITE_LOCK"}
<1> DEFINE new == UnlockNodes(tbl, tid, i)
           s   == StartOf(tbl, t)
<1>1. UnlockEffect(tbl, new, tid, i)
  BY UnlockNodesEffect
<1>2. StartOf(new, t) = s /\ s \in DOMAIN tbl
  BY <1>1, FindNode DEF UnlockEffect
<1>3. /\ StatusAt(tbl, t) = tbl[s].status /\ TidsAt(tbl, t) = tbl[s].tids
      /\ StatusAt(new, t) = new[s].status /\ TidsAt(new, t) = new[s].tids
  BY <1>2 DEF StatusAt, TidsAt
<1> HIDE DEF new, s
<1>4. CASE s \in OwnedIn(tbl, tid, i)
  <2>1. tid \in tbl[s].tids /\ tbl[s].status \in {"READ_LOCK", "WRITE_LOCK"}
    BY <1>4 DEF OwnedIn
  <2>2. new[s].status = "FREE"
    BY <1>1, <1>4 DEF UnlockEffect
  <2> QED
    BY <1>3, <2>1, <2>2 DEF new
<1>5. CASE s \notin OwnedIn(tbl, tid, i)
  BY <1>1, <1>2, <1>3, <1>5 DEF UnlockEffect, SameAt, new
<1> QED
  BY <1>4, <1>5

\* A time that is not locked has no owner, and a write lock has one.
LEMMA OwnersAt ==
    ASSUME NEW tbl, GoodTable(tbl), \A s \in DOMAIN tbl : ExclusiveNode(tbl[s]),
           NEW t \in TS
    PROVE  /\ StatusAt(tbl, t) = "FREE" => TidsAt(tbl, t) = {}
           /\ StatusAt(tbl, t) = "WRITE_LOCK" => \E x \in Tids : TidsAt(tbl, t) = {x}
BY FindNode DEF StatusAt, TidsAt, ExclusiveNode
=============================================================================
