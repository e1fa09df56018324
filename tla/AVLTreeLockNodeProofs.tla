------------------------ MODULE AVLTreeLockNodeProofs ------------------------
(***************************************************************************)
(* Proofs about AVLTreeLockNode: the tree of a key stays a balanced search *)
(* tree, find finds the node, and the loops of the lock manager over the   *)
(* tree do to the table what LockTable says.                               *)
(*                                                                         *)
(* What the links mean is carried by a function sub from each node to the  *)
(* nodes of its subtree, which the invariant TreeInv says to exist, and    *)
(* which each rotation and insertion changes.  Below, the set the links    *)
(* lead to, is shown to be such a function only at the end.  TableInv adds *)
(* to it, for each place a call may be, the table so far in terms of the   *)
(* table before the call.                                                  *)
(***************************************************************************)
EXTENDS AVLTreeLockNode, LockTableProofs, FiniteSetTheorems, SequenceTheorems

-----------------------------------------------------------------------------
(* The shape of a tree                                                      *)

\* The links and heights of the nodes with addresses in A.
TreeOver(A) ==
    [child  : [A -> [Sides -> A \cup {null}]],
     parent : [A -> A \cup {null}],
     height : [A -> [Sides -> Nat]]]

\* The nodes of D have intervals, which find can compare.
Ordered(ns, D) ==
    \A n \in D : ns[n].start \in Int /\ ns[n].end \in Int /\ ns[n].start <= ns[n].end

\* sub[n] is the set of the nodes of the subtree at n: the links from the nodes of
\* D form one search tree of them.
Shape(t, ns, D, sub) ==
    /\ sub \in [D \cup {null} -> SUBSET D] /\ sub[null] = {}
    /\ \A n \in D :
          sub[n] = {n} \cup sub[t.child[n]["left"]] \cup sub[t.child[n]["right"]]
    /\ \A n \in D, s \in Sides :
          LET c == t.child[n][s]
          IN  /\ c \in D \cup {null}
              /\ c # null => t.parent[c] = n
              /\ \A m \in sub[c] : OnSide(ns, s, m, n)
    /\ \A n \in D :
          /\ t.parent[n] \in D \cup {null}
          /\ t.parent[n] # null => \E s \in Sides : t.child[t.parent[n]][s] = n
    /\ \E top \in D : t.parent[top] = null /\ sub[top] = D

\* A tree as the lemmas below take it.
IsTree(t, ns, A, D, sub) ==
    /\ null \notin A /\ IsFiniteSet(A) /\ D \subseteq A
    /\ t \in TreeOver(A)
    /\ Ordered(ns, D)
    /\ Shape(t, ns, D, sub)

\* There are two sides.
LEMMA SidesFact ==
    /\ "left" \in Sides /\ "right" \in Sides
    /\ \A s \in Sides : Other(s) \in Sides /\ Other(s) # s /\ Other(Other(s)) = s
    /\ \A s, r \in Sides : r # s => r = Other(s)
BY DEF Sides, Other

\* The order on the nodes, seen from either side.
LEMMA OrderFacts ==
    ASSUME NEW ns, NEW D, Ordered(ns, D), NEW side \in Sides
    PROVE  /\ \A m \in D : ~OnSide(ns, side, m, m)
           /\ \A m, n \in D : OnSide(ns, side, m, n) <=> OnSide(ns, Other(side), n, m)
           /\ \A m, n \in D : OnSide(ns, side, m, n) => ~OnSide(ns, Other(side), m, n)
           /\ \A k, m, n \in D :
                 OnSide(ns, side, k, m) /\ OnSide(ns, side, m, n) => OnSide(ns, side, k, n)
BY DEF Ordered, OnSide, Other, Sides

\* The subtree at a node is the node and what is on its two sides.
LEMMA SubParts ==
    ASSUME NEW t, NEW ns, NEW A, NEW D, NEW sub, IsTree(t, ns, A, D, sub), NEW n \in D,
           NEW side \in Sides
    PROVE  /\ sub[n] = {n} \cup sub[t.child[n][side]] \cup sub[t.child[n][Other(side)]]
           /\ t.child[n][side] \in D \cup {null}
           /\ sub[t.child[n][side]] \subseteq sub[n]
           /\ n \notin sub[t.child[n][side]]
           /\ sub[t.child[n][side]] \cap sub[t.child[n][Other(side)]] = {}
           /\ sub[n] \subseteq D /\ n \in sub[n]
           /\ null \notin D
           /\ \A m \in sub[t.child[n][side]] : OnSide(ns, side, m, n)
<1>1. sub[n] = {n} \cup sub[t.child[n][side]] \cup sub[t.child[n][Other(side)]]
  BY DEF IsTree, Shape, Sides, Other
<1>2. \A s \in Sides : t.child[n][s] \in D \cup {null} /\ sub[t.child[n][s]] \subseteq D
                       /\ \A m \in sub[t.child[n][s]] : OnSide(ns, s, m, n)
  BY DEF IsTree, Shape
<1>3. n \notin sub[t.child[n][side]]
  BY <1>2, OrderFacts DEF IsTree
<1>4. sub[t.child[n][side]] \cap sub[t.child[n][Other(side)]] = {}
  BY <1>2, OrderFacts, SidesFact DEF IsTree
<1>5. sub[n] \subseteq D /\ null \notin D
  BY DEF IsTree, Shape
<1> QED
  BY <1>1, <1>2, <1>3, <1>4, <1>5

\* A property of subtrees that fails somewhere fails first at a node below which it
\* holds: the induction over the tree.
LEMMA LowestFailure ==
    ASSUME NEW t, NEW ns, NEW A, NEW D, NEW sub, IsTree(t, ns, A, D, sub),
           NEW Bad, Bad \subseteq D, Bad # {}
    PROVE  \E n \in Bad : \A s \in Sides : t.child[n][s] \notin Bad
<1> DEFINE size(n) == Cardinality(sub[n])
           S == {size(n) : n \in Bad}
<1>1. \A n \in D : sub[n] \subseteq D /\ IsFiniteSet(sub[n]) /\ size(n) \in Nat
  BY FS_Subset, FS_CardinalityType DEF IsTree, Shape
<1>2. Min(S) \in S /\ \A y \in S : Min(S) <= y
  <2>1. S \subseteq Nat /\ S # {}
    BY <1>1
  <2> QED
    BY <2>1, MinNat
<1>3. PICK n \in Bad : size(n) = Min(S)
  BY <1>2
<1>4. ASSUME NEW s \in Sides, t.child[n][s] \in Bad
      PROVE  FALSE
  <2> DEFINE c == t.child[n][s]
  <2>1. sub[c] \subseteq sub[n] /\ n \notin sub[c] /\ n \in sub[n]
    BY SubParts
  <2>2. size(c) < size(n)
    <3>1. IsFiniteSet(sub[n]) /\ sub[c] # sub[n] /\ sub[c] \in SUBSET sub[n]
      BY <1>1, <2>1
    <3>2. Cardinality(sub[c]) <= Cardinality(sub[n]) /\ Cardinality(sub[c]) # Cardinality(sub[n])
      BY <3>1, FS_Subset
    <3> QED
      BY <1>1, <1>4, <3>2
  <2>3. size(n) <= size(c)
    BY <1>2, <1>3, <1>4
  <2> QED
    BY <1>1, <1>4, <2>2, <2>3
<1> QED
  BY <1>3, <1>4

\* The subtree at a node of a subtree lies within it, and so does the parent of
\* each of its nodes but the top.
LEMMA SubTrans ==
    ASSUME NEW t, NEW ns, NEW A, NEW D, NEW sub, IsTree(t, ns, A, D, sub)
    PROVE  \A y \in D : \A x \in sub[y] :
              /\ x \in D /\ sub[x] \subseteq sub[y]
              /\ x # y => t.parent[x] \in D /\ t.parent[x] \in sub[y]
<1> DEFINE OK(y) == \A x \in sub[y] :
              /\ x \in D /\ sub[x] \subseteq sub[y]
              /\ x # y => t.parent[x] \in D /\ t.parent[x] \in sub[y]
           Bad == {y \in D : ~OK(y)}
<1>1. SUFFICES ASSUME Bad # {} PROVE FALSE
  OBVIOUS
<1>2. PICK y \in Bad : \A s \in Sides : t.child[y][s] \notin Bad
  BY <1>1, LowestFailure
<1>3. OK(y)
  <2> SUFFICES ASSUME NEW x \in sub[y], x # y
               PROVE  /\ x \in D /\ sub[x] \subseteq sub[y]
                      /\ t.parent[x] \in D /\ t.parent[x] \in sub[y]
    BY SubParts DEF IsTree, Shape
  <2>1. PICK s \in Sides : x \in sub[t.child[y][s]]
    BY SubParts, SidesFact
  <2> DEFINE c == t.child[y][s]
  <2>2. c \in D
    BY <2>1, SubParts DEF IsTree, Shape
  <2>3. OK(c) /\ sub[c] \subseteq sub[y] /\ y \in sub[y]
    BY <1>2, <2>2, SubParts
  <2>4. c = x => t.parent[x] = y
    BY <2>2 DEF IsTree, Shape
  <2> QED
    BY <2>1, <2>2, <2>3, <2>4
<1> QED
  BY <1>2, <1>3

\* Only the top has no parent, and all nodes are below it.
LEMMA TopUnique ==
    ASSUME NEW t, NEW ns, NEW A, NEW D, NEW sub, IsTree(t, ns, A, D, sub), NEW n \in D,
           t.parent[n] = null
    PROVE  sub[n] = D
<1>1. PICK top \in D : t.parent[top] = null /\ sub[top] = D
  BY DEF IsTree, Shape
<1>2. n = top
  <2>1. null \notin D
    BY SubParts, SidesFact
  <2> QED
    BY <1>1, <2>1, SubTrans
<1> QED
  BY <1>1, <1>2

\* The nodes between two nodes of a subtree are in it.
LEMMA Convex ==
    ASSUME NEW t, NEW ns, NEW A, NEW D, NEW sub, IsTree(t, ns, A, D, sub), NEW a \in D,
           NEW x \in sub[a], NEW z \in sub[a], NEW y \in D,
           OnSide(ns, "left", x, y), OnSide(ns, "left", y, z)
    PROVE  y \in sub[a]
<1> DEFINE Over == {n \in D : y \in sub[n] /\ sub[a] \subseteq sub[n]}
<1>1. Over # {}
  <2>1. PICK top \in D : sub[top] = D
    BY DEF IsTree, Shape
  <2>2. sub[a] \subseteq D
    BY SubParts, SidesFact
  <2> QED
    BY <2>1, <2>2
<1>2. PICK n \in Over : \A s \in Sides : t.child[n][s] \notin Over
  BY <1>1, LowestFailure
<1>3. CASE n = a
  BY <1>2, <1>3
<1>4. CASE n # a
  <2>1. a \in sub[n] /\ x \in D /\ z \in D
    BY <1>2, SubParts, SidesFact
  <2>2. PICK s \in Sides : a \in sub[t.child[n][s]]
    BY <1>4, <2>1, SubParts, SidesFact
  <2> DEFINE c == t.child[n][s]
  <2>3. c \in D
    BY <2>2, SubParts DEF IsTree, Shape
  <2>4. sub[a] \subseteq sub[c]
    BY <2>2, <2>3, SubTrans
  <2>5. y \notin sub[c]
    BY <1>2, <2>3, <2>4
  <2>6. y = n \/ OnSide(ns, Other(s), y, n)
    BY <1>2, <2>5, SubParts, SidesFact
  <2>7. OnSide(ns, s, x, n) /\ OnSide(ns, s, z, n)
    BY <2>4, SubParts
  <2>8. s = "left" \/ s = "right"
    BY DEF Sides
  <2> QED
    BY <2>1, <2>6, <2>7, <2>8 DEF IsTree, Ordered, OnSide, Other
<1> QED
  BY <1>3, <1>4

\* What the links lead to is what the witness says.
LEMMA SubIsBelow ==
    ASSUME NEW t, NEW ns, NEW A, NEW D, NEW sub, IsTree(t, ns, A, D, sub), NEW n \in D
    PROVE  Below(t, D)[n] = sub[n]
<1> DEFINE Closed == {S \in SUBSET D : \A x \in S, s \in Sides : t.child[x][s] \in S \cup {null}}
<1>1. Below(t, D)[n] = {m \in D : \A S \in Closed : n \in S => m \in S}
  BY DEF Below
<1>2. sub[n] \in Closed /\ n \in sub[n] /\ sub[n] \subseteq D
  <2>1. sub[n] \subseteq D /\ n \in sub[n]
    BY SubParts, SidesFact
  <2>2. ASSUME NEW x \in sub[n], NEW s \in Sides
        PROVE  t.child[x][s] \in sub[n] \cup {null}
    <3>1. x \in D /\ sub[x] \subseteq sub[n]
      BY SubTrans
    <3>2. t.child[x][s] \in D \cup {null} /\ sub[t.child[x][s]] \subseteq sub[x]
      BY <3>1, SubParts
    <3>3. t.child[x][s] \in D => t.child[x][s] \in sub[t.child[x][s]]
      BY SubParts
    <3> QED
      BY <3>1, <3>2, <3>3
  <2> QED
    BY <2>1, <2>2
<1>3. ASSUME NEW S \in Closed, n \in S, NEW m \in sub[n], m \notin S
      PROVE  FALSE
  <2> DEFINE Path == {x \in S : m \in sub[x]}
  <2>1. Path \subseteq D /\ Path # {}
    BY <1>3
  <2>2. PICK x \in Path : \A s \in Sides : t.child[x][s] \notin Path
    BY <2>1, LowestFailure
  <2>3. x \in D /\ m # x
    BY <1>3, <2>2
  <2>4. PICK s \in Sides : m \in sub[t.child[x][s]]
    BY <2>2, <2>3, SubParts, SidesFact
  <2>5. t.child[x][s] # null
    BY <2>4 DEF IsTree, Shape
  <2>6. t.child[x][s] \in S
    BY <2>2, <2>5
  <2> QED
    BY <2>2, <2>4, <2>6
<1> QED
  BY <1>1, <1>2, <1>3

-----------------------------------------------------------------------------
(* Rotations                                                                *)

\* Heights are numbers.
LEMMA HeightType ==
    ASSUME NEW A, NEW t \in TreeOver(A), NEW n \in A \cup {null}
    PROVE  Height(t, n) \in Nat
BY SidesFact DEF TreeOver, Height

\* updateHeight sets the heights of one node.
LEMMA UpdateFacts ==
    ASSUME NEW A, NEW t \in TreeOver(A), NEW n \in A
    PROVE  LET u == updateHeight(t, n)
           IN  /\ u \in TreeOver(A)
               /\ u.child = t.child /\ u.parent = t.parent
               /\ \A s \in Sides : u.height[n][s] = Height(t, t.child[n][s])
               /\ \A x \in A \ {n} : u.height[x] = t.height[x]
               /\ \A x \in A \cup {null} : x # n => Height(u, x) = Height(t, x)
<1> DEFINE u == updateHeight(t, n)
           h == [s \in Sides |-> Height(t, t.child[n][s])]
<1>1. h \in [Sides -> Nat]
  <2>1. \A s \in Sides : t.child[n][s] \in A \cup {null}
    BY DEF TreeOver
  <2> QED
    BY <2>1, HeightType
<1>2. u = [t EXCEPT !.height = [t.height EXCEPT ![n] = h]]
  BY DEF updateHeight
<1> HIDE DEF h
<1>3. /\ u.child = t.child /\ u.parent = t.parent
      /\ u.height = [t.height EXCEPT ![n] = h]
      /\ u \in TreeOver(A)
  BY <1>1, <1>2 DEF TreeOver
<1>4. u.height[n] = h /\ \A x \in A \ {n} : u.height[x] = t.height[x]
  BY <1>3 DEF TreeOver
<1>5. \A x \in A \cup {null} : x # n => Height(u, x) = Height(t, x)
  BY <1>4 DEF Height
<1>6. \A s \in Sides : u.height[n][s] = Height(t, t.child[n][s])
  BY <1>4 DEF h
<1> QED
  BY <1>3, <1>4, <1>5, <1>6

\* What swap does to links and heights, link by link.
SwapOf(t, u, A, n, side) ==
    LET c     == t.child[n][side]
        inner == t.child[c][Other(side)]
        p     == t.parent[n]
    IN  /\ u \in TreeOver(A)
        /\ \A x \in A, s \in Sides :
              u.child[x][s] = IF x = n /\ s = side THEN inner
                              ELSE IF x = c /\ s # side THEN n
                              ELSE IF x = p /\ t.child[x][s] = n THEN c
                              ELSE t.child[x][s]
        /\ \A x \in A :
              u.parent[x] = IF x = n THEN c ELSE IF x = c THEN p
                            ELSE IF x = inner THEN n ELSE t.parent[x]
        /\ \A x \in A \ {n, c} : u.height[x] = t.height[x]
        /\ \A x \in (A \cup {null}) \ {n, c} : Height(u, x) = Height(t, x)
        /\ \A s \in Sides : u.height[n][s] = Height(t, u.child[n][s])
        /\ u.height[c][Other(side)] = Height(u, n)
        /\ u.height[c][side] = Height(t, t.child[c][side])

\* swap changes the links and heights that SwapOf says, and no others.
LEMMA SwapFacts ==
    ASSUME NEW A, null \notin A, NEW t \in TreeOver(A), NEW n \in A, NEW side \in Sides,
           LET c == t.child[n][side]
           IN  /\ c \in A /\ c # n /\ t.child[n][Other(side)] \notin {n, c}
               /\ \A s \in Sides : t.child[c][s] \notin {n, c}
               /\ t.parent[n] \notin {n, c}
    PROVE  SwapOf(t, swap(t, n, side), A, n, side)
<1> DEFINE c     == t.child[n][side]
           inner == t.child[c][Other(side)]
           p     == t.parent[n]
           child == [x \in DOMAIN t.child |-> [s \in Sides |->
                        IF x = n /\ s = side THEN inner
                        ELSE IF x = c /\ s # side THEN n
                        ELSE IF x = p /\ t.child[x][s] = n THEN c
                        ELSE t.child[x][s]]]
           parent == [x \in DOMAIN t.parent |->
                        IF x = n THEN c ELSE IF x = c THEN p
                        ELSE IF x = inner THEN n ELSE t.parent[x]]
           moved == [child |-> child, parent |-> parent, height |-> t.height]
           first == updateHeight(moved, n)
           u     == updateHeight(first, c)
<1>1. u = swap(t, n, side)
  BY DEF swap
<1>2. /\ c \in A /\ inner \in A \cup {null} /\ p \in A \cup {null}
      /\ DOMAIN t.child = A /\ DOMAIN t.parent = A
      /\ \A x \in A, s \in Sides : t.child[x][s] \in A \cup {null}
      /\ \A x \in A : t.parent[x] \in A \cup {null}
  BY SidesFact DEF TreeOver
<1>3. child \in [A -> [Sides -> A \cup {null}]] /\ parent \in [A -> A \cup {null}]
  BY <1>2
<1>4. moved \in TreeOver(A) /\ moved.child = child /\ moved.parent = parent
      /\ moved.height = t.height
  BY <1>3 DEF TreeOver
<1>5. \A x \in A, s \in Sides :
         child[x][s] = IF x = n /\ s = side THEN inner
                       ELSE IF x = c /\ s # side THEN n
                       ELSE IF x = p /\ t.child[x][s] = n THEN c
                       ELSE t.child[x][s]
  BY <1>2
<1>6. \A x \in A :
         parent[x] = IF x = n THEN c ELSE IF x = c THEN p
                     ELSE IF x = inner THEN n ELSE t.parent[x]
  BY <1>2
<1> HIDE DEF child, parent
<1>7. /\ first \in TreeOver(A) /\ first.child = child /\ first.parent = parent
      /\ \A s \in Sides : first.height[n][s] = Height(moved, child[n][s])
      /\ \A x \in A \ {n} : first.height[x] = t.height[x]
      /\ \A x \in A \cup {null} : x # n => Height(first, x) = Height(moved, x)
  BY <1>4, UpdateFacts
<1> HIDE DEF first, moved
<1>8. /\ u \in TreeOver(A) /\ u.child = child /\ u.parent = parent
      /\ \A s \in Sides : u.height[c][s] = Height(first, child[c][s])
      /\ \A x \in A \ {c} : u.height[x] = first.height[x]
      /\ \A x \in A \cup {null} : x # c => Height(u, x) = Height(first, x)
  <2>1. c \in A /\ first \in TreeOver(A) /\ first.child = child /\ first.parent = parent
    BY <1>2, <1>7
  <2> HIDE DEF c
  <2>2. /\ u \in TreeOver(A) /\ u.child = first.child /\ u.parent = first.parent
        /\ \A s \in Sides : u.height[c][s] = Height(first, first.child[c][s])
        /\ \A x \in A \ {c} : u.height[x] = first.height[x]
        /\ \A x \in A \cup {null} : x # c => Height(u, x) = Height(first, x)
    BY <2>1, UpdateFacts
  <2> QED
    BY <2>1, <2>2, Zenon
<1> HIDE DEF u
<1>9. \A x \in A \cup {null} : Height(moved, x) = Height(t, x)
  BY <1>4 DEF Height
<1>10. \A x \in A \ {n, c} : u.height[x] = t.height[x]
  BY <1>7, <1>8
<1>11. \A x \in (A \cup {null}) \ {n, c} : Height(u, x) = Height(t, x)
  BY <1>7, <1>8, <1>9
<1>12. \A s \in Sides : u.height[n][s] = Height(t, child[n][s])
  <2>1. \A s \in Sides : child[n][s] \in A \cup {null}
    BY <1>3
  <2> QED
    BY <1>7, <1>8, <1>9, <2>1
<1>13. u.height[c][Other(side)] = Height(u, n)
  <2>1. child[c][Other(side)] = n
    BY <1>2, <1>5, SidesFact
  <2> QED
    BY <1>8, <2>1, SidesFact
<1>14. u.height[c][side] = Height(t, t.child[c][side])
  <2>1. child[c][side] = t.child[c][side]
    BY <1>2, <1>5
  <2>2. t.child[c][side] \in (A \cup {null}) \ {n, c}
    BY <1>2
  <2>3. Height(first, t.child[c][side]) = Height(t, t.child[c][side])
    BY <1>7, <1>9, <2>2
  <2> QED
    BY <1>8, <2>1, <2>3
<1>15. SwapOf(t, u, A, n, side)
  <2>1. \A x \in A, s \in Sides :
           u.child[x][s] = IF x = n /\ s = side THEN inner
                           ELSE IF x = c /\ s # side THEN n
                           ELSE IF x = p /\ t.child[x][s] = n THEN c
                           ELSE t.child[x][s]
    BY <1>5, <1>8
  <2>2. \A x \in A :
           u.parent[x] = IF x = n THEN c ELSE IF x = c THEN p
                         ELSE IF x = inner THEN n ELSE t.parent[x]
    BY <1>6, <1>8
  <2>3. \A s \in Sides : u.height[n][s] = Height(t, u.child[n][s])
    BY <1>8, <1>12
  <2>4. u \in TreeOver(A)
    BY <1>8
  <2> QED
    BY <2>1, <2>2, <2>3, <2>4, <1>10, <1>11, <1>13, <1>14, Zenon DEF SwapOf
<1> QED
  BY <1>1, <1>15 DEF u

\* A node, its parent and its children are different nodes.
LEMMA Neighbours ==
    ASSUME NEW t, NEW ns, NEW A, NEW D, NEW sub, IsTree(t, ns, A, D, sub), NEW n \in D,
           NEW side \in Sides, t.child[n][side] # null
    PROVE  LET c == t.child[n][side]
           IN  /\ c \in D /\ c # n /\ t.child[n][Other(side)] \notin {n, c}
               /\ \A s \in Sides : t.child[c][s] \notin {n, c}
               /\ t.parent[n] \notin {n, c}
               /\ t.parent[c] = n
<1> DEFINE c == t.child[n][side]
           o == t.child[n][Other(side)]
<1>1. c \in D /\ o \in D \cup {null} /\ null \notin D /\ Other(side) \in Sides /\ t.parent[c] = n
  BY SubParts, SidesFact DEF IsTree, Shape
<1>2. c \in sub[c] /\ n \notin sub[c] /\ sub[c] \subseteq sub[n] /\ n \in sub[n]
      /\ sub[c] \cap sub[o] = {} /\ n \notin sub[o]
  BY <1>1, SubParts
<1>3. o \in D => o \in sub[o]
  BY <1>1, SubParts
<1>4. o \notin {n, c} /\ c # n
  BY <1>1, <1>2, <1>3
<1>5. ASSUME NEW s \in Sides
      PROVE  t.child[c][s] \notin {n, c}
  <2> DEFINE x == t.child[c][s]
  <2>1. x \in D \cup {null} /\ c \notin sub[x] /\ sub[x] \subseteq sub[c]
    BY <1>1, SubParts
  <2>2. x \in D => x \in sub[x]
    BY <2>1, SubParts
  <2> QED
    BY <1>1, <1>2, <2>1, <2>2
<1>6. t.parent[n] \notin {n, c}
  <2>1. t.parent[n] \in D => \E s \in Sides : t.child[t.parent[n]][s] = n
    BY <1>1 DEF IsTree, Shape
  <2>2. t.parent[n] # c
    BY <1>1, <1>5, <2>1
  <2>3. \A s \in Sides : t.child[n][s] # n
    <3>1. ASSUME NEW s \in Sides, t.child[n][s] = n
          PROVE  FALSE
      <4>1. n \notin sub[n]
        BY <3>1, SubParts
      <4> QED
        BY <1>2, <4>1
    <3> QED
      BY <3>1
  <2> QED
    BY <2>1, <2>2, <2>3
<1> QED
  BY <1>1, <1>4, <1>5, <1>6

\* The subtrees after n and its child on the side changed places.
SubSwapped(t, sub, n, side) ==
    LET c == t.child[n][side]
    IN  [sub EXCEPT ![c] = sub[n],
                    ![n] = {n} \cup sub[t.child[c][Other(side)]] \cup sub[t.child[n][Other(side)]]]

\* A rotation keeps the shape of a search tree.
LEMMA SwapShape ==
    ASSUME NEW t, NEW ns, NEW A, NEW D, NEW sub, IsTree(t, ns, A, D, sub), NEW n \in D,
           NEW side \in Sides, t.child[n][side] # null,
           NEW u, SwapOf(t, u, A, n, side)
    PROVE  IsTree(u, ns, A, D, SubSwapped(t, sub, n, side))
<1> DEFINE c     == t.child[n][side]
           o     == t.child[n][Other(side)]
           inner == t.child[c][Other(side)]
           outer == t.child[c][side]
           p     == t.parent[n]
           new   == SubSwapped(t, sub, n, side)
<1>0. \A x \in D : x \in sub[x]
  BY DEF IsTree, Shape
<1>1. /\ c \in D /\ c # n /\ o \notin {n, c} /\ inner \notin {n, c} /\ outer \notin {n, c}
      /\ p \notin {n, c} /\ t.parent[c] = n /\ Other(side) \in Sides /\ Other(side) # side
      /\ \A s \in Sides : s # side => s = Other(side)
  BY Neighbours, SidesFact
<1>2. /\ null \notin D /\ D \subseteq A /\ null \notin A /\ sub[null] = {}
      /\ sub \in [D \cup {null} -> SUBSET D]
  BY SubParts, SidesFact DEF IsTree, Shape
<1>3. /\ o \in D \cup {null} /\ inner \in D \cup {null} /\ outer \in D \cup {null}
      /\ p \in D \cup {null}
  <2>1. o \in D \cup {null}
    BY <1>1, SubParts
  <2>2. inner \in D \cup {null} /\ outer \in D \cup {null}
    BY <1>1, SubParts
  <2>3. p \in D \cup {null}
    BY DEF IsTree, Shape
  <2> QED
    BY <2>1, <2>2, <2>3
<1>4. /\ sub[n] = {n} \cup sub[c] \cup sub[o]
      /\ sub[c] = {c} \cup sub[outer] \cup sub[inner]
      /\ \A m \in sub[c] : OnSide(ns, side, m, n)
      /\ \A m \in sub[o] : OnSide(ns, Other(side), m, n)
      /\ \A m \in sub[outer] : OnSide(ns, side, m, c)
      /\ \A m \in sub[inner] : OnSide(ns, Other(side), m, c)
      /\ sub[n] \subseteq D /\ sub[o] \subseteq D /\ sub[inner] \subseteq D
  <2>1. /\ sub[n] = {n} \cup sub[c] \cup sub[o]
        /\ \A m \in sub[c] : OnSide(ns, side, m, n)
        /\ \A m \in sub[o] : OnSide(ns, Other(side), m, n)
        /\ sub[n] \subseteq D
    BY <1>1, SubParts
  <2>2. /\ sub[c] = {c} \cup sub[outer] \cup sub[inner]
        /\ \A m \in sub[outer] : OnSide(ns, side, m, c)
        /\ \A m \in sub[inner] : OnSide(ns, Other(side), m, c)
    BY <1>1, SubParts
  <2> QED
    BY <2>1, <2>2
<1>5. /\ new \in [D \cup {null} -> SUBSET D]
      /\ new[c] = sub[n]
      /\ new[n] = {n} \cup sub[inner] \cup sub[o]
      /\ \A x \in (D \cup {null}) \ {n, c} : new[x] = sub[x]
  BY <1>1, <1>2, <1>3, <1>4 DEF SubSwapped
<1> HIDE DEF new
<1>6. /\ u \in TreeOver(A)
      /\ \A x \in D, s \in Sides :
            u.child[x][s] = IF x = n /\ s = side THEN inner
                            ELSE IF x = c /\ s # side THEN n
                            ELSE IF x = p /\ t.child[x][s] = n THEN c
                            ELSE t.child[x][s]
      /\ \A x \in D :
            u.parent[x] = IF x = n THEN c ELSE IF x = c THEN p
                          ELSE IF x = inner THEN n ELSE t.parent[x]
  BY <1>2 DEF SwapOf
<1>7. /\ u.child[n][side] = inner /\ u.child[n][Other(side)] = o
      /\ u.child[c][side] = outer /\ u.child[c][Other(side)] = n
  BY <1>1, <1>6
<1>8. ASSUME NEW x \in D \ {n, c}, NEW s \in Sides
      PROVE  \/ t.child[x][s] = n /\ x = p /\ u.child[x][s] = c
             \/ t.child[x][s] \notin {n, c} /\ u.child[x][s] = t.child[x][s]
  <2>1. t.child[x][s] # null => t.parent[t.child[x][s]] = x
    BY DEF IsTree, Shape
  <2>2. n # null /\ c # null
    BY <1>1, <1>2
  <2> QED
    BY <1>1, <1>6, <2>1, <2>2
<1>9. \A x \in D, s \in Sides : new[u.child[x][s]] =
         IF x = n /\ s = side THEN sub[inner]
         ELSE IF x = c /\ s # side THEN new[n] ELSE sub[t.child[x][s]]
  <2> SUFFICES ASSUME NEW x \in D, NEW s \in Sides
               PROVE  new[u.child[x][s]] =
                         IF x = n /\ s = side THEN sub[inner]
                         ELSE IF x = c /\ s # side THEN new[n] ELSE sub[t.child[x][s]]
    OBVIOUS
  <2>1. CASE x = n
    BY <1>1, <1>3, <1>5, <1>7, <2>1
  <2>2. CASE x = c
    BY <1>1, <1>3, <1>5, <1>7, <2>2
  <2>3. CASE x \notin {n, c}
    <3>1. t.child[x][s] \in D \cup {null}
      BY SubParts
    <3> QED
      BY <1>5, <1>8, <2>3, <3>1
  <2> QED
    BY <2>1, <2>2, <2>3
<1>10. ASSUME NEW x \in D
       PROVE  new[x] = {x} \cup new[u.child[x]["left"]] \cup new[u.child[x]["right"]]
  <2>1. new[x] = {x} \cup new[u.child[x][side]] \cup new[u.child[x][Other(side)]]
    <3>1. CASE x = n
      BY <1>1, <1>3, <1>5, <1>7, <3>1
    <3>2. CASE x = c
      <4>1. new[outer] = sub[outer] /\ new[c] = sub[n]
        BY <1>1, <1>3, <1>5
      <4>2. sub[n] = {c} \cup sub[outer] \cup new[n]
        BY <1>4, <1>5
      <4> QED
        BY <1>7, <3>2, <4>1, <4>2
    <3>3. CASE x \notin {n, c}
      <4>1. sub[x] = {x} \cup sub[t.child[x][side]] \cup sub[t.child[x][Other(side)]]
        BY SubParts
      <4> QED
        BY <1>1, <1>5, <1>9, <3>3, <4>1
    <3> QED
      BY <3>1, <3>2, <3>3
  <2> QED
    BY <2>1 DEF Sides, Other
<1>11. ASSUME NEW x \in D, NEW s \in Sides
       PROVE  /\ u.child[x][s] \in D \cup {null}
              /\ u.child[x][s] # null => u.parent[u.child[x][s]] = x
              /\ \A m \in new[u.child[x][s]] : OnSide(ns, s, m, x)
  <2>1. CASE x = n /\ s = side
    <3>1. inner # null => u.parent[inner] = n
      BY <1>1, <1>3, <1>6
    <3>2. \A m \in sub[inner] : OnSide(ns, side, m, n)
      BY <1>4
    <3> QED
      BY <1>3, <1>7, <1>9, <2>1, <3>1, <3>2
  <2>2. CASE x = n /\ s = Other(side)
    <3>1. o # null => u.parent[o] = n
      <4>1. o # null => o # inner
        <5>1. sub[c] \cap sub[o] = {}
          BY SubParts
        <5> QED
          BY <1>0, <1>3, <1>4, <5>1
      <4>2. o # null => t.parent[o] = n
        BY <1>1 DEF IsTree, Shape
      <4> QED
        BY <1>1, <1>3, <1>6, <4>1, <4>2
    <3> QED
      BY <1>1, <1>3, <1>4, <1>7, <1>9, <2>2, <3>1
  <2>3. CASE x = c /\ s = side
    <3>1. outer # null => u.parent[outer] = c
      <4>1. outer # null => outer # inner
        <5>1. sub[outer] \cap sub[inner] = {}
          <6>1. c \in D
            BY <1>1
          <6> HIDE DEF c
          <6> QED
            BY <6>1, SubParts
        <5> QED
          BY <1>0, <1>3, <5>1
      <4>2. outer # null => t.parent[outer] = c
        BY <1>1 DEF IsTree, Shape
      <4> QED
        BY <1>1, <1>3, <1>6, <4>1, <4>2
    <3> QED
      BY <1>1, <1>3, <1>4, <1>7, <1>9, <2>3, <3>1
  <2>4. CASE x = c /\ s = Other(side)
    <3>1. u.parent[n] = c
      BY <1>6
    <3>2. ASSUME NEW m \in new[n]
          PROVE  OnSide(ns, Other(side), m, c)
      <4>1. c \in sub[c]
        BY <1>0, <1>1
      <4>0. Ordered(ns, D)
        BY DEF IsTree
      <4>2. OnSide(ns, Other(side), n, c)
        <5>1. OnSide(ns, side, c, n)
          BY <1>4, <4>1
        <5> QED
          BY <1>1, <4>0, <5>1, OrderFacts
      <4>3. m = n \/ m \in sub[inner] \/ (m \in sub[o] /\ m \in D)
        BY <1>4, <1>5, <3>2
      <4>4. m \in sub[o] /\ m \in D => OnSide(ns, Other(side), m, c)
        <5>1. m \in sub[o] => OnSide(ns, Other(side), m, n)
          BY <1>4
        <5> QED
          BY <1>1, <4>0, <4>2, <5>1, OrderFacts
      <4> QED
        BY <1>4, <4>2, <4>3, <4>4
    <3> QED
      BY <1>1, <1>7, <1>9, <2>4, <3>1, <3>2
  <2>5. CASE x \notin {n, c}
    <3>1. /\ t.child[x][s] \in D \cup {null}
          /\ t.child[x][s] # null => t.parent[t.child[x][s]] = x
          /\ \A m \in sub[t.child[x][s]] : OnSide(ns, s, m, x)
      BY DEF IsTree, Shape
    <3>2. new[u.child[x][s]] = sub[t.child[x][s]]
      BY <1>9, <2>5
    <3>3. u.child[x][s] \in D \cup {null}
      BY <1>1, <1>8, <2>5, <3>1
    <3>4. u.child[x][s] # null => u.parent[u.child[x][s]] = x
      <4>1. CASE t.child[x][s] = n /\ x = p /\ u.child[x][s] = c
        BY <1>1, <1>6, <4>1
      <4>2. CASE t.child[x][s] \notin {n, c} /\ u.child[x][s] = t.child[x][s]
        <5>1. inner # null => t.parent[inner] = c
          BY <1>1 DEF IsTree, Shape
        <5> QED
          BY <1>6, <2>5, <3>1, <4>2, <5>1
      <4> QED
        BY <1>8, <2>5, <4>1, <4>2
    <3> QED
      BY <3>1, <3>2, <3>3, <3>4
  <2> QED
    BY <1>1, <2>1, <2>2, <2>3, <2>4, <2>5
<1>12. ASSUME NEW x \in D
       PROVE  /\ u.parent[x] \in D \cup {null}
              /\ u.parent[x] # null => \E s \in Sides : u.child[u.parent[x]][s] = x
  <2>1. /\ t.parent[x] \in D \cup {null}
        /\ t.parent[x] # null => \E s \in Sides : t.child[t.parent[x]][s] = x
    BY DEF IsTree, Shape
  <2>2. CASE x = n
    BY <1>1, <1>6, <1>7, <2>2
  <2>3. CASE x = c
    <3>1. p # null => \E s \in Sides : t.child[p][s] = n
      BY DEF IsTree, Shape
    <3>2. p # null => \E s \in Sides : u.child[p][s] = c
      BY <1>1, <1>3, <1>8, <3>1
    <3> QED
      BY <1>1, <1>3, <1>6, <2>3, <3>2
  <2>4. CASE x = inner
    BY <1>1, <1>6, <1>7, <2>4
  <2>5. CASE x \notin {n, c, inner}
    <3>1. u.parent[x] = t.parent[x]
      BY <1>6, <2>5
    <3>2. CASE t.parent[x] \in D \ {n, c}
      BY <1>8, <2>1, <2>5, <3>1, <3>2, <1>2
    <3>3. CASE t.parent[x] = n
      BY <1>1, <1>7, <2>1, <2>5, <3>1, <3>3
    <3>4. CASE t.parent[x] = c
      BY <1>1, <1>7, <2>1, <2>5, <3>1, <3>4
    <3>5. CASE t.parent[x] = null
      BY <3>1, <3>5
    <3> QED
      BY <2>1, <3>2, <3>3, <3>4, <3>5
  <2> QED
    BY <2>2, <2>3, <2>4, <2>5
<1>13. \E top \in D : u.parent[top] = null /\ new[top] = D
  <2>1. PICK top \in D : t.parent[top] = null /\ sub[top] = D
    BY DEF IsTree, Shape
  <2>2. top # c
    BY <1>1, <1>2, <2>1
  <2>3. CASE top = n
    BY <1>1, <1>5, <1>6, <2>1, <2>3
  <2>4. CASE top # n
    <3>1. top # inner
      BY <1>1, <1>2, <2>1 DEF IsTree, Shape
    <3> QED
      BY <1>5, <1>6, <2>1, <2>2, <2>4, <3>1
  <2> QED
    BY <2>3, <2>4
<1>14. new[null] = {}
  BY <1>1, <1>2, <1>5
<1>15. Shape(u, ns, D, new)
  BY <1>5, <1>10, <1>11, <1>12, <1>13, <1>14 DEF Shape
<1> QED
  BY <1>6, <1>15 DEF IsTree, new

\* The links and heights that a swap leaves alone.
LEMMA SwapOthers ==
    ASSUME NEW t, NEW ns, NEW A, NEW D, NEW sub, IsTree(t, ns, A, D, sub), NEW n \in D,
           NEW side \in Sides, t.child[n][side] # null,
           NEW u, SwapOf(t, u, A, n, side)
    PROVE  LET c == t.child[n][side]
               p == t.parent[n]
           IN  /\ u.child[n][side] = t.child[c][Other(side)]
               /\ u.child[n][Other(side)] = t.child[n][Other(side)]
               /\ u.child[c][side] = t.child[c][side]
               /\ u.child[c][Other(side)] = n
               /\ u.parent[c] = p
               /\ \A x \in D \ {n, c} : u.height[x] = t.height[x]
               /\ \A x \in D \ {n, c}, s \in Sides :
                     \/ t.child[x][s] = n /\ x = p /\ u.child[x][s] = c
                     \/ /\ t.child[x][s] \notin {n, c}
                        /\ u.child[x][s] = t.child[x][s]
                        /\ Height(u, u.child[x][s]) = Height(t, t.child[x][s])
<1> DEFINE c == t.child[n][side]
           p == t.parent[n]
<1>1. /\ c \in D /\ c # n /\ t.child[n][Other(side)] \notin {n, c}
      /\ \A s \in Sides : t.child[c][s] \notin {n, c}
      /\ p \notin {n, c} /\ t.parent[c] = n /\ Other(side) \in Sides /\ Other(side) # side
  BY Neighbours, SidesFact
<1>2. D \subseteq A /\ null \notin A /\ n \in A /\ c \in A
  BY <1>1 DEF IsTree
<1>3. /\ \A x \in A, s \in Sides :
            u.child[x][s] = IF x = n /\ s = side THEN t.child[c][Other(side)]
                            ELSE IF x = c /\ s # side THEN n
                            ELSE IF x = p /\ t.child[x][s] = n THEN c
                            ELSE t.child[x][s]
      /\ u.parent[c] = p
      /\ \A x \in A \ {n, c} : u.height[x] = t.height[x]
      /\ \A x \in (A \cup {null}) \ {n, c} : Height(u, x) = Height(t, x)
  BY <1>1, <1>2 DEF SwapOf
<1> HIDE DEF c, p
<1>4. ASSUME NEW x \in D \ {n, c}, NEW s \in Sides
      PROVE  \/ t.child[x][s] = n /\ x = p /\ u.child[x][s] = c
             \/ /\ t.child[x][s] \notin {n, c}
                /\ u.child[x][s] = t.child[x][s]
                /\ Height(u, u.child[x][s]) = Height(t, t.child[x][s])
  <2>1. /\ t.child[x][s] \in D \cup {null}
        /\ t.child[x][s] # null => t.parent[t.child[x][s]] = x
    BY DEF IsTree, Shape
  <2>2. CASE t.child[x][s] = n
    BY <1>2, <1>3, <2>1, <2>2 DEF p
  <2>3. CASE t.child[x][s] # n
    <3>1. t.child[x][s] # c
      BY <1>1, <1>2, <2>1
    <3> QED
      BY <1>2, <1>3, <2>1, <2>3, <3>1
  <2> QED
    BY <2>2, <2>3
<1>5. /\ u.child[n][side] = t.child[c][Other(side)]
      /\ u.child[n][Other(side)] = t.child[n][Other(side)]
      /\ u.child[c][side] = t.child[c][side]
      /\ u.child[c][Other(side)] = n
  BY <1>1, <1>2, <1>3
<1> QED
  BY <1>2, <1>3, <1>4, <1>5 DEF c, p

-----------------------------------------------------------------------------
(* Balance                                                                  *)

\* n stores the height of its child on the side.
Exact(t, n, side) == t.height[n][side] = Height(t, t.child[n][side])

\* The heights of all nodes of D but those in Except are exact and differ by one at
\* most.
Even(t, D, Except) ==
    \A n \in D \ Except, s \in Sides : Exact(t, n, s) /\ Lean(t, n, s) <= 1

\* k may have been the height of a node whose children are now l and r high.
Near(k, l, r) ==
    /\ l <= k /\ r <= k /\ (k <= l + 2 \/ k <= r + 2)
    /\ l = r + 2 => k <= l + 1
    /\ r = l + 2 => k <= r + 1

\* Before a is balanced: all is in order but the heights of a, and the height its
\* parent has for it.
EvenBut(t, D, a) ==
    LET l == Height(t, t.child[a]["left"])
        r == Height(t, t.child[a]["right"])
    IN  /\ \A n \in D \ {a}, s \in Sides :
              /\ Lean(t, n, s) <= 1
              /\ t.child[n][s] # a => Exact(t, n, s)
              /\ t.child[n][s] = a => Near(t.height[n][s], l, r)
        /\ l <= r + 2 /\ r <= l + 2

\* The heights a node stores, and its own height, are numbers.
LEMMA HeightsOf ==
    ASSUME NEW t, NEW ns, NEW A, NEW D, NEW sub, IsTree(t, ns, A, D, sub)
    PROVE  /\ \A n \in D, s \in Sides :
                 /\ t.height[n][s] \in Nat /\ t.height[n][Other(s)] \in Nat
                 /\ Lean(t, n, s) = t.height[n][s] - t.height[n][Other(s)]
                 /\ Height(t, n) = IF t.height[n][s] >= t.height[n][Other(s)]
                                   THEN t.height[n][s] + 1 ELSE t.height[n][Other(s)] + 1
           /\ \A n \in D \cup {null} : Height(t, n) \in Nat
           /\ Height(t, null) = 0
<1>1. /\ t \in TreeOver(A) /\ D \subseteq A /\ null \notin A
      /\ \A n \in D, s \in Sides : t.height[n][s] \in Nat
  BY DEF IsTree, TreeOver
<1>2. ASSUME NEW n \in D, NEW s \in Sides
      PROVE  Height(t, n) = IF t.height[n][s] >= t.height[n][Other(s)]
                            THEN t.height[n][s] + 1 ELSE t.height[n][Other(s)] + 1
  <2>1. s = "left" \/ s = "right"
    BY DEF Sides
  <2>2. t.height[n]["left"] \in Nat /\ t.height[n]["right"] \in Nat /\ n # null
    BY <1>1, SidesFact
  <2> QED
    BY <2>1, <2>2 DEF Height, Other
<1>3. \A n \in D \cup {null} : Height(t, n) \in Nat
  BY <1>1, HeightType
<1> QED
  BY <1>1, <1>2, <1>3, SidesFact DEF Lean, Height

\* When the subtree with top q is in order and its height differs by one at most
\* from what the parent p has for it, only p is left to balance.
LEMMA MoveUp ==
    ASSUME NEW t, NEW ns, NEW A, NEW D, NEW sub, IsTree(t, ns, A, D, sub), NEW p \in D,
           NEW q \in D, NEW side \in Sides, t.child[p][side] = q,
           Even(t, D, {p}), Exact(t, p, Other(side)), Lean(t, p, side) <= 1,
           Lean(t, p, Other(side)) <= 1,
           t.height[p][side] <= Height(t, q) + 1, Height(t, q) <= t.height[p][side] + 1
    PROVE  EvenBut(t, D, p)
<1> DEFINE o == t.child[p][Other(side)]
           k == t.height[p][side]
           h == Height(t, q)
           g == Height(t, o)
           l == Height(t, t.child[p]["left"])
           r == Height(t, t.child[p]["right"])
<1>1. /\ o \in D \cup {null} /\ k \in Nat /\ t.height[p][Other(side)] = g /\ h \in Nat /\ g \in Nat
      /\ Height(t, p) = IF k >= g THEN k + 1 ELSE g + 1
      /\ k - g <= 1 /\ g - k <= 1
  <2>1. o \in D \cup {null}
    BY SubParts, SidesFact
  <2>2. t.height[p][Other(side)] = g
    BY DEF Exact
  <2>3. Lean(t, p, side) = k - g /\ Lean(t, p, Other(side)) = g - k
    <3>1. Other(side) \in Sides /\ Other(Other(side)) = side
      BY SidesFact
    <3> QED
      BY <2>2, <3>1 DEF Lean
  <2> QED
    BY <2>1, <2>2, <2>3, HeightsOf
<1>2. (l = h /\ r = g) \/ (l = g /\ r = h)
  <2>1. side = "left" \/ side = "right"
    BY DEF Sides
  <2> QED
    BY <2>1 DEF Other
<1> HIDE DEF l, r, h, g, k, o
<1>3. l <= r + 2 /\ r <= l + 2 /\ Near(Height(t, p), l, r)
  <2>1. k <= h + 1 /\ h <= k + 1
    BY DEF k, h
  <2> QED
    BY <1>1, <1>2, <2>1 DEF Near
<1>4. ASSUME NEW n \in D \ {p}, NEW s \in Sides
      PROVE  /\ Lean(t, n, s) <= 1
             /\ t.child[n][s] # p => Exact(t, n, s)
             /\ t.child[n][s] = p => Near(t.height[n][s], l, r)
  <2>1. Exact(t, n, s) /\ Lean(t, n, s) <= 1
    BY DEF Even
  <2> QED
    BY <1>3, <2>1 DEF Exact
<1> QED
  BY <1>3, <1>4 DEF EvenBut, l, r

\* After a's heights are updated: all is in order but how a leans, and the height
\* its parent has for it.
Updated(t, D, a, side) ==
    /\ \A s \in Sides : Exact(t, a, s)
    /\ \A n \in D \ {a}, s \in Sides :
          /\ Lean(t, n, s) <= 1
          /\ t.child[n][s] # a => Exact(t, n, s)
          /\ t.child[n][s] = a => Near(t.height[n][s], t.height[a][side], t.height[a][Other(side)])
    /\ Lean(t, a, side) <= 2 /\ Lean(t, a, Other(side)) <= 2

\* What a step of balance at a node with parent p leads to.
Climbed(u, ns, A, D, p) ==
    /\ \E sub : IsTree(u, ns, A, D, sub)
    /\ p = null => Even(u, D, {})
    /\ p # null => p \in D /\ EvenBut(u, D, p)

\* The parent of a node has it on one side only.
LEMMA ParentSide ==
    ASSUME NEW t, NEW ns, NEW A, NEW D, NEW sub, IsTree(t, ns, A, D, sub), NEW a \in D,
           t.parent[a] # null
    PROVE  LET p == t.parent[a]
           IN  /\ p \in D /\ p # a
               /\ \E s \in Sides : t.child[p][s] = a /\ t.child[p][Other(s)] # a
<1> DEFINE p == t.parent[a]
<1>1. p \in D
  BY DEF IsTree, Shape
<1>2. PICK s \in Sides : t.child[p][s] = a
  BY DEF IsTree, Shape
<1>3. p \notin sub[a] /\ sub[a] \cap sub[t.child[p][Other(s)]] = {}
  BY <1>1, <1>2, SubParts
<1>4. a \in sub[a] /\ p \in sub[p]
  BY <1>1, SubParts, SidesFact
<1>5. p # a /\ t.child[p][Other(s)] # a
  BY <1>3, <1>4
<1> QED
  BY <1>1, <1>2, <1>5

\* Without a rotation balance goes on at the parent.
LEMMA ClimbEven ==
    ASSUME NEW t, NEW ns, NEW A, NEW D, NEW sub, IsTree(t, ns, A, D, sub), NEW a \in D,
           NEW side \in Sides, Updated(t, D, a, side),
           Lean(t, a, side) <= 1, Lean(t, a, Other(side)) <= 1
    PROVE  Climbed(t, ns, A, D, t.parent[a])
<1> DEFINE p == t.parent[a]
<1>1. \A s \in Sides : Exact(t, a, s) /\ Lean(t, a, s) <= 1
  BY SidesFact DEF Updated
<1>2. \A n \in D, s \in Sides : t.child[n][s] = a => n = p
  <2>1. null \notin D
    BY SubParts, SidesFact
  <2> QED
    BY <2>1 DEF IsTree, Shape
<1>3. Even(t, D, {p})
  BY <1>1, <1>2 DEF Even, Updated
<1>4. CASE p = null
  <2>1. null \notin D
    BY SubParts, SidesFact
  <2>2. Even(t, D, {})
    BY <1>3, <1>4, <2>1 DEF Even
  <2> QED
    BY <1>4, <2>2 DEF Climbed
<1>5. CASE p # null
  <2>1. p \in D /\ p # a
    BY <1>5, ParentSide
  <2>2. PICK s \in Sides : t.child[p][s] = a /\ t.child[p][Other(s)] # a
    BY <1>5, ParentSide
  <2>3. Exact(t, p, Other(s)) /\ Lean(t, p, s) <= 1 /\ Lean(t, p, Other(s)) <= 1
    BY <2>1, <2>2, SidesFact DEF Updated
  <2>4. Near(t.height[p][s], t.height[a][side], t.height[a][Other(side)])
    BY <2>1, <2>2 DEF Updated
  <2>5. t.height[p][s] <= Height(t, a) + 1 /\ Height(t, a) <= t.height[p][s] + 1
    <3>1. /\ t.height[a][side] \in Nat /\ t.height[a][Other(side)] \in Nat
          /\ Height(t, a) = IF t.height[a][side] >= t.height[a][Other(side)]
                            THEN t.height[a][side] + 1 ELSE t.height[a][Other(side)] + 1
          /\ Lean(t, a, side) = t.height[a][side] - t.height[a][Other(side)]
          /\ t.height[p][s] \in Nat
      BY <2>1, HeightsOf
    <3>2. Lean(t, a, Other(side)) = t.height[a][Other(side)] - t.height[a][side]
      BY SidesFact DEF Lean
    <3> QED
      BY <2>4, <3>1, <3>2 DEF Near
  <2>6. EvenBut(t, D, p)
    BY <1>3, <2>1, <2>2, <2>3, <2>5, MoveUp
  <2> QED
    BY <1>5, <2>1, <2>6 DEF Climbed
<1> QED
  BY <1>4, <1>5

\* The child on a side where a is too high is there, and it is balanced.
LEMMA SteepChild ==
    ASSUME NEW t, NEW ns, NEW A, NEW D, NEW sub, IsTree(t, ns, A, D, sub), NEW a \in D,
           NEW side \in Sides, Updated(t, D, a, side), Lean(t, a, side) > 1
    PROVE  LET c == t.child[a][side]
           IN  /\ c \in D /\ c # a /\ c # null
               /\ \A s \in Sides : Exact(t, c, s) /\ Lean(t, c, s) <= 1
               /\ t.height[a][side] = Height(t, c)
               /\ t.height[a][side] = t.height[a][Other(side)] + 2
<1> DEFINE c == t.child[a][side]
<1>1. /\ t.height[a][side] \in Nat /\ t.height[a][Other(side)] \in Nat
      /\ Lean(t, a, side) = t.height[a][side] - t.height[a][Other(side)]
  BY HeightsOf
<1>2. t.height[a][side] = t.height[a][Other(side)] + 2
  BY <1>1 DEF Updated
<1>3. t.height[a][side] = Height(t, c)
  BY DEF Updated, Exact
<1>4. c # null
  BY <1>1, <1>2, <1>3, HeightsOf
<1>5. c \in D /\ c # a /\ \A s \in Sides : t.child[c][s] # a
  BY <1>4, Neighbours
<1>6. \A s \in Sides : Exact(t, c, s) /\ Lean(t, c, s) <= 1
  BY <1>5 DEF Updated
<1> QED
  BY <1>2, <1>3, <1>4, <1>5, <1>6

\* When the subtree of a is in order again, with a new top that is as high as the
\* subtree may be, balance goes on at the parent.
LEMMA ClimbTop ==
    ASSUME NEW t, NEW ns, NEW A, NEW D, NEW sub, IsTree(t, ns, A, D, sub), NEW a \in D,
           NEW side \in Sides, Updated(t, D, a, side),
           NEW u, NEW sub2, IsTree(u, ns, A, D, sub2), NEW q \in D,
           Even(u, D, {t.parent[a]}),
           t.height[a][side] = t.height[a][Other(side)] + 2,
           Height(u, q) = t.height[a][side] \/ Height(u, q) = t.height[a][side] + 1,
           LET p == t.parent[a]
           IN  p # null => /\ u.height[p] = t.height[p]
                           /\ \A s \in Sides :
                                 IF t.child[p][s] = a THEN u.child[p][s] = q
                                 ELSE Height(u, u.child[p][s]) = Height(t, t.child[p][s])
    PROVE  Climbed(u, ns, A, D, t.parent[a])
<1> DEFINE p == t.parent[a]
<1>1. CASE p = null
  <2>1. null \notin D
    BY SubParts
  <2>2. Even(u, D, {})
    BY <1>1, <2>1 DEF Even
  <2> QED
    BY <1>1, <2>2 DEF Climbed
<1>2. CASE p # null
  <2>1. p \in D /\ p # a
    BY <1>2, ParentSide
  <2>2. PICK s \in Sides : t.child[p][s] = a /\ t.child[p][Other(s)] # a
    BY <1>2, ParentSide
  <2>3. /\ u.child[p][s] = q /\ u.height[p] = t.height[p]
        /\ Height(u, u.child[p][Other(s)]) = Height(t, t.child[p][Other(s)])
    BY <1>2, <2>2, SidesFact
  <2>4. Exact(t, p, Other(s)) /\ Lean(t, p, s) <= 1 /\ Lean(t, p, Other(s)) <= 1
    BY <2>1, <2>2, SidesFact DEF Updated
  <2>5. Exact(u, p, Other(s)) /\ Lean(u, p, s) <= 1 /\ Lean(u, p, Other(s)) <= 1
    BY <2>3, <2>4 DEF Exact, Lean
  <2>6. u.height[p][s] <= Height(u, q) + 1 /\ Height(u, q) <= u.height[p][s] + 1
    <3>1. Near(t.height[p][s], t.height[a][side], t.height[a][Other(side)])
      BY <2>1, <2>2 DEF Updated
    <3>2. /\ t.height[p][s] \in Nat /\ t.height[a][side] \in Nat
          /\ t.height[a][Other(side)] \in Nat
      BY <2>1, HeightsOf
    <3> QED
      BY <2>3, <3>1, <3>2 DEF Near
  <2> HIDE DEF p
  <2>7. EvenBut(u, D, p)
    <3>1. Even(u, D, {p})
      BY DEF p
    <3> QED
      BY <2>1, <2>2, <2>3, <2>5, <2>6, <3>1, MoveUp
  <2>8. Climbed(u, ns, A, D, p)
    BY <1>2, <2>1, <2>7 DEF Climbed
  <2> QED
    BY <2>8 DEF p
<1> QED
  BY <1>1, <1>2

\* A single rotation, of a child that does not lean inward.
LEMMA ClimbSingle ==
    ASSUME NEW t, NEW ns, NEW A, NEW D, NEW sub, IsTree(t, ns, A, D, sub), NEW a \in D,
           NEW side \in Sides, Updated(t, D, a, side), Lean(t, a, side) > 1,
           Lean(t, t.child[a][side], Other(side)) # 1
    PROVE  Climbed(swap(t, a, side), ns, A, D, t.parent[a])
<1> DEFINE c     == t.child[a][side]
           o     == t.child[a][Other(side)]
           inner == t.child[c][Other(side)]
           outer == t.child[c][side]
           p     == t.parent[a]
           u     == swap(t, a, side)
<1>1. /\ c \in D /\ c # a /\ c # null
      /\ \A s \in Sides : Exact(t, c, s) /\ Lean(t, c, s) <= 1
      /\ t.height[a][side] = Height(t, c)
      /\ t.height[a][side] = t.height[a][Other(side)] + 2
  BY SteepChild
<1>2. /\ o \notin {a, c} /\ inner \notin {a, c} /\ outer \notin {a, c} /\ p \notin {a, c}
      /\ Other(side) \in Sides /\ Other(side) # side /\ Other(Other(side)) = side
      /\ \A s \in Sides : s = side \/ s = Other(side)
  BY <1>1, Neighbours, SidesFact
<1>3. SwapOf(t, u, A, a, side)
  <2>1. null \notin A /\ t \in TreeOver(A) /\ a \in A /\ c \in A
    BY <1>1 DEF IsTree
  <2>2. /\ c # a /\ o \notin {a, c} /\ p \notin {a, c}
        /\ \A s \in Sides : t.child[c][s] \notin {a, c}
    BY <1>1, Neighbours
  <2> QED
    BY <2>1, <2>2, SwapFacts
<1> HIDE DEF u
<1>4. IsTree(u, ns, A, D, SubSwapped(t, sub, a, side))
  BY <1>1, <1>3, SwapShape
<1>5. /\ u.child[a][side] = inner /\ u.child[a][Other(side)] = o
      /\ u.child[c][side] = outer /\ u.child[c][Other(side)] = a
      /\ \A x \in D \ {a, c} : u.height[x] = t.height[x]
      /\ \A x \in D \ {a, c}, s \in Sides :
            \/ t.child[x][s] = a /\ x = p /\ u.child[x][s] = c
            \/ /\ t.child[x][s] \notin {a, c}
               /\ u.child[x][s] = t.child[x][s]
               /\ Height(u, u.child[x][s]) = Height(t, t.child[x][s])
  BY <1>1, <1>3, SwapOthers
<1>6. /\ inner \in D \cup {null} /\ outer \in D \cup {null} /\ o \in D \cup {null}
      /\ D \subseteq A
  BY <1>1, <1>2 DEF IsTree, Shape
<1>7. /\ Height(u, inner) = Height(t, inner) /\ Height(u, outer) = Height(t, outer)
      /\ Height(u, o) = Height(t, o)
      /\ u.height[a][side] = Height(t, inner) /\ u.height[a][Other(side)] = Height(t, o)
      /\ u.height[c][Other(side)] = Height(u, a) /\ u.height[c][side] = Height(t, outer)
  BY <1>2, <1>3, <1>5, <1>6 DEF SwapOf
<1>8. /\ t.height[c][side] = Height(t, outer) /\ t.height[c][Other(side)] = Height(t, inner)
      /\ t.height[a][Other(side)] = Height(t, o)
  BY <1>1, <1>2 DEF Updated, Exact
<1> HIDE DEF c, o, inner, outer, p
<1>9. /\ Height(t, outer) \in Nat /\ Height(t, inner) \in Nat /\ Height(t, o) \in Nat
      /\ Height(t, c) = Height(t, outer) + 1
      /\ Height(t, inner) <= Height(t, outer) /\ Height(t, outer) <= Height(t, inner) + 1
      /\ Height(t, c) = Height(t, o) + 2
  <2>1. /\ Height(t, outer) \in Nat /\ Height(t, inner) \in Nat /\ Height(t, o) \in Nat
        /\ Height(t, c) = IF t.height[c][side] >= t.height[c][Other(side)]
                          THEN t.height[c][side] + 1 ELSE t.height[c][Other(side)] + 1
        /\ Lean(t, c, side) = t.height[c][side] - t.height[c][Other(side)]
    <3>1. c \in D
      BY <1>1
    <3> QED
      BY <1>6, <3>1, HeightsOf
  <2>2. Lean(t, c, Other(side)) = t.height[c][Other(side)] - t.height[c][side]
    BY <1>2 DEF Lean
  <2>3. Lean(t, c, side) <= 1 /\ Lean(t, c, Other(side)) <= 1 /\ Lean(t, c, Other(side)) # 1
    BY <1>1, <1>2 DEF c
  <2>4. /\ t.height[c][side] = Height(t, outer) /\ t.height[c][Other(side)] = Height(t, inner)
        /\ Height(t, c) = Height(t, o) + 2
    BY <1>1, <1>8
  <2>5. Height(t, outer) - Height(t, inner) <= 1 /\ Height(t, inner) - Height(t, outer) <= 1
        /\ Height(t, inner) - Height(t, outer) # 1
    BY <2>1, <2>2, <2>3, <2>4
  <2> QED
    BY <2>1, <2>4, <2>5
<1>10. /\ Height(u, a) = Height(t, inner) + 1
       /\ Height(u, c) = Height(t, inner) + 2
       /\ \A s \in Sides : Lean(u, a, s) <= 1 /\ Lean(u, c, s) <= 1
  <2>1. Height(u, a) = IF u.height[a][side] >= u.height[a][Other(side)]
                       THEN u.height[a][side] + 1 ELSE u.height[a][Other(side)] + 1
    BY <1>4, HeightsOf
  <2>2. Height(u, a) = Height(t, inner) + 1
    BY <1>7, <1>9, <2>1
  <2>3. Height(u, c) = IF u.height[c][side] >= u.height[c][Other(side)]
                       THEN u.height[c][side] + 1 ELSE u.height[c][Other(side)] + 1
    BY <1>1, <1>4, HeightsOf
  <2>4. Height(u, c) = Height(t, inner) + 2
    BY <1>7, <1>9, <2>2, <2>3
  <2>5. /\ Lean(u, a, side) = Height(t, inner) - Height(t, o)
        /\ Lean(u, a, Other(side)) = Height(t, o) - Height(t, inner)
        /\ Lean(u, c, side) = Height(t, outer) - Height(u, a)
        /\ Lean(u, c, Other(side)) = Height(u, a) - Height(t, outer)
    BY <1>2, <1>7 DEF Lean
  <2>6. /\ Lean(u, a, side) <= 1 /\ Lean(u, a, Other(side)) <= 1
        /\ Lean(u, c, side) <= 1 /\ Lean(u, c, Other(side)) <= 1
    BY <1>9, <2>2, <2>5
  <2> QED
    BY <1>2, <2>2, <2>4, <2>6
<1>11. \A s \in Sides : Exact(u, a, s) /\ Exact(u, c, s)
  <2>1. Exact(u, a, side) /\ Exact(u, a, Other(side)) /\ Exact(u, c, side) /\ Exact(u, c, Other(side))
    BY <1>5, <1>7 DEF Exact
  <2> QED
    BY <1>2, <2>1
<1>12. ASSUME NEW x \in D \ {a, c, p}, NEW s \in Sides
       PROVE  Exact(u, x, s) /\ Lean(u, x, s) <= 1
  <2>1. t.child[x][s] # a /\ Height(u, u.child[x][s]) = Height(t, t.child[x][s])
        /\ u.height[x] = t.height[x]
    BY <1>5, <1>12
  <2>2. Exact(t, x, s) /\ Lean(t, x, s) <= 1
    BY <2>1 DEF Updated
  <2> QED
    BY <2>1, <2>2 DEF Exact, Lean
<1>13. Even(u, D, {p})
  BY <1>2, <1>10, <1>11, <1>12 DEF Even
<1>14. p # null => /\ u.height[p] = t.height[p]
                   /\ \A s \in Sides :
                         IF t.child[p][s] = a THEN u.child[p][s] = c
                         ELSE Height(u, u.child[p][s]) = Height(t, t.child[p][s])
  <2>1. p # null => p \in D \ {a, c}
    BY <1>2, ParentSide DEF p
  <2> QED
    BY <1>2, <1>5, <2>1
<1>15. Climbed(u, ns, A, D, p)
  <2>1. Even(u, D, {t.parent[a]})
    BY <1>13 DEF p
  <2>2. Height(u, c) = t.height[a][side] \/ Height(u, c) = t.height[a][side] + 1
    <3>1. t.height[a][side] = Height(t, c) /\ Height(u, c) = Height(t, inner) + 2
      BY <1>1, <1>10
    <3> QED
      BY <1>9, <3>1
  <2>3. LET pp == t.parent[a]
        IN  pp # null => /\ u.height[pp] = t.height[pp]
                        /\ \A s \in Sides :
                              IF t.child[pp][s] = a THEN u.child[pp][s] = c
                              ELSE Height(u, u.child[pp][s]) = Height(t, t.child[pp][s])
    BY <1>14 DEF p
  <2>4. Climbed(u, ns, A, D, t.parent[a])
    BY <1>1, <1>4, <2>1, <2>2, <2>3, ClimbTop
  <2> QED
    BY <2>4 DEF p
<1> QED
  BY <1>15 DEF u, p

\* A double rotation, of a child that leans inward.
LEMMA ClimbDouble ==
    ASSUME NEW t, NEW ns, NEW A, NEW D, NEW sub, IsTree(t, ns, A, D, sub), NEW a \in D,
           NEW side \in Sides, Updated(t, D, a, side), Lean(t, a, side) > 1,
           Lean(t, t.child[a][side], Other(side)) = 1
    PROVE  Climbed(swap(swap(t, t.child[a][side], Other(side)), a, side), ns, A, D, t.parent[a])
<1> DEFINE c     == t.child[a][side]
           o     == t.child[a][Other(side)]
           d     == t.child[c][Other(side)]
           outer == t.child[c][side]
           near  == t.child[d][side]
           far   == t.child[d][Other(side)]
           p     == t.parent[a]
           v     == swap(t, c, Other(side))
           u     == swap(v, a, side)
           subv  == SubSwapped(t, sub, c, Other(side))
<1>1. /\ c \in D /\ c # a /\ c # null
      /\ \A s \in Sides : Exact(t, c, s) /\ Lean(t, c, s) <= 1
      /\ t.height[a][side] = Height(t, c)
      /\ t.height[a][side] = t.height[a][Other(side)] + 2
  BY SteepChild
<1>2. /\ o \notin {a, c} /\ d # a /\ outer # a /\ p \notin {a, c} /\ t.parent[c] = a
      /\ Other(side) \in Sides /\ Other(side) # side /\ Other(Other(side)) = side
      /\ \A s \in Sides : s = side \/ s = Other(side)
  BY <1>1, Neighbours, SidesFact
<1>3. d # null
  <2>1. Lean(t, c, Other(side)) = t.height[c][Other(side)] - t.height[c][side]
    BY <1>2 DEF Lean
  <2>2. t.height[c][Other(side)] \in Nat /\ t.height[c][side] \in Nat
    BY <1>1, HeightsOf
  <2>3. t.height[c][Other(side)] = Height(t, d)
    BY <1>1, <1>2 DEF Exact
  <2> QED
    BY <2>1, <2>2, <2>3, HeightsOf
<1>4. /\ d \in D /\ d # c /\ outer \notin {c, d} /\ near \notin {c, d} /\ far \notin {c, d}
      /\ t.parent[d] = c
  <2>1. c \in D /\ Other(side) \in Sides /\ Other(Other(side)) = side
    BY <1>1, <1>2
  <2> HIDE DEF c
  <2>2. LET e == t.child[c][Other(side)]
        IN  /\ e \in D /\ e # c /\ t.child[c][Other(Other(side))] \notin {c, e}
            /\ \A s \in Sides : t.child[e][s] \notin {c, e}
            /\ t.parent[e] = c
    BY <1>3, <2>1, Neighbours
  <2> QED
    BY <2>1, <2>2
<1>5. SwapOf(t, v, A, c, Other(side))
  <2>1. null \notin A /\ t \in TreeOver(A) /\ c \in A /\ d \in A
    BY <1>1, <1>4 DEF IsTree
  <2>2. c \in D /\ Other(side) \in Sides
    BY <1>1, <1>2
  <2>3. LET e == t.child[c][Other(side)]
        IN  /\ e \in A /\ e # c /\ t.child[c][Other(Other(side))] \notin {c, e}
            /\ \A s \in Sides : t.child[e][s] \notin {c, e}
            /\ t.parent[c] \notin {c, e}
    BY <1>3, <2>1, <2>2, Neighbours
  <2> QED
    BY <2>1, <2>2, <2>3, SwapFacts
<1>6. IsTree(v, ns, A, D, subv)
  BY <1>1, <1>2, <1>3, <1>5, SwapShape
<1> HIDE DEF v, subv
<1>7. /\ v.child[c][Other(side)] = near /\ v.child[c][side] = outer
      /\ v.child[d][Other(side)] = far /\ v.child[d][side] = c
      /\ \A x \in D \ {c, d} : v.height[x] = t.height[x]
      /\ \A x \in D \ {c, d}, s \in Sides :
            \/ t.child[x][s] = c /\ x = a /\ v.child[x][s] = d
            \/ /\ t.child[x][s] \notin {c, d}
               /\ v.child[x][s] = t.child[x][s]
               /\ Height(v, v.child[x][s]) = Height(t, t.child[x][s])
  <2>1. c \in D /\ Other(side) \in Sides /\ Other(Other(side)) = side /\ t.parent[c] = a
    BY <1>1, <1>2
  <2> HIDE DEF c
  <2>2. LET e == t.child[c][Other(side)]
            q == t.parent[c]
        IN  /\ v.child[c][Other(side)] = t.child[e][Other(Other(side))]
            /\ v.child[c][Other(Other(side))] = t.child[c][Other(Other(side))]
            /\ v.child[e][Other(side)] = t.child[e][Other(side)]
            /\ v.child[e][Other(Other(side))] = c
            /\ \A x \in D \ {c, e} : v.height[x] = t.height[x]
            /\ \A x \in D \ {c, e}, s \in Sides :
                  \/ t.child[x][s] = c /\ x = q /\ v.child[x][s] = e
                  \/ /\ t.child[x][s] \notin {c, e}
                     /\ v.child[x][s] = t.child[x][s]
                     /\ Height(v, v.child[x][s]) = Height(t, t.child[x][s])
    BY <1>3, <1>5, <2>1, SwapOthers
  <2> QED
    BY <2>1, <2>2
<1>8. /\ v.child[a][side] = d /\ v.child[a][Other(side)] = o
      /\ Height(v, o) = Height(t, o) /\ v.height[a] = t.height[a]
  BY <1>1, <1>2, <1>7
<1>9. v.parent[a] = p
  <2>1. a \notin sub[c]
    BY SubParts
  <2>2. /\ \A x \in D : x \in sub[x]
        /\ null \notin D /\ a \in A
    BY DEF IsTree, Shape
  <2>3. /\ c \in D /\ d \in D /\ Other(side) \in Sides
        /\ d = t.child[c][Other(side)] /\ near = t.child[d][side]
        /\ near = t.child[t.child[c][Other(side)]][Other(Other(side))]
    BY <1>1, <1>2, <1>4
  <2>4. p = t.parent[a] /\ a \notin {c, d}
    BY <1>1, <1>2
  <2> HIDE DEF c, d, near, p
  <2>5. sub[d] \subseteq sub[c] /\ near \in D \cup {null} /\ sub[near] \subseteq sub[d]
    <3>1. sub[t.child[c][Other(side)]] \subseteq sub[c]
      BY <2>3, SubParts
    <3>2. sub[t.child[d][side]] \subseteq sub[d]
      BY <2>3, SubParts
    <3>3. t.child[d][side] \in D \cup {null}
      BY <2>3 DEF IsTree, Shape
    <3> QED
      BY <2>3, <3>1, <3>2, <3>3
  <2>6. a # near
    BY <2>1, <2>2, <2>5
  <2>7. v.parent[a] = IF a = c THEN t.child[c][Other(side)]
                      ELSE IF a = t.child[c][Other(side)] THEN t.parent[c]
                      ELSE IF a = t.child[t.child[c][Other(side)]][Other(Other(side))] THEN c
                      ELSE t.parent[a]
    BY <1>5, <2>2 DEF SwapOf
  <2> QED
    BY <2>3, <2>4, <2>6, <2>7
<1>10. SwapOf(v, u, A, a, side) /\ IsTree(u, ns, A, D, SubSwapped(v, subv, a, side))
  <2>1. null \notin A /\ v \in TreeOver(A) /\ a \in A /\ D \subseteq A /\ v.child[a][side] # null
    BY <1>4, <1>6, <1>8 DEF IsTree
  <2>2. LET e == v.child[a][side]
        IN  /\ e \in A /\ e # a /\ v.child[a][Other(side)] \notin {a, e}
            /\ \A s \in Sides : v.child[e][s] \notin {a, e}
            /\ v.parent[a] \notin {a, e}
    BY <1>6, <2>1, Neighbours
  <2>3. SwapOf(v, u, A, a, side)
    BY <2>1, <2>2, SwapFacts
  <2> QED
    BY <1>6, <2>1, <2>3, SwapShape
<1> HIDE DEF u
<1>11. /\ u.child[a][side] = far /\ u.child[a][Other(side)] = o
       /\ u.child[d][side] = c /\ u.child[d][Other(side)] = a
       /\ \A x \in D \ {a, d} : u.height[x] = v.height[x]
       /\ \A x \in D \ {a, d}, s \in Sides :
             \/ v.child[x][s] = a /\ x = p /\ u.child[x][s] = d
             \/ /\ v.child[x][s] \notin {a, d}
                /\ u.child[x][s] = v.child[x][s]
                /\ Height(u, u.child[x][s]) = Height(v, v.child[x][s])
  <2>1. LET e == v.child[a][side]
            q == v.parent[a]
        IN  /\ u.child[a][side] = v.child[e][Other(side)]
            /\ u.child[a][Other(side)] = v.child[a][Other(side)]
            /\ u.child[e][side] = v.child[e][side]
            /\ u.child[e][Other(side)] = a
            /\ \A x \in D \ {a, e} : u.height[x] = v.height[x]
            /\ \A x \in D \ {a, e}, s \in Sides :
                  \/ v.child[x][s] = a /\ x = q /\ u.child[x][s] = e
                  \/ /\ v.child[x][s] \notin {a, e}
                     /\ u.child[x][s] = v.child[x][s]
                     /\ Height(u, u.child[x][s]) = Height(v, v.child[x][s])
    <3>1. v.child[a][side] # null
      BY <1>3, <1>8
    <3> QED
      BY <1>6, <1>10, <3>1, SwapOthers
  <2>2. v.child[a][side] = d /\ v.child[a][Other(side)] = o /\ v.parent[a] = p
        /\ v.child[d][Other(side)] = far /\ v.child[d][side] = c
    BY <1>7, <1>8, <1>9
  <2> HIDE DEF c, d, o, far, p
  <2> QED
    BY <2>1, <2>2
<1>12. /\ near \in D \cup {null} /\ far \in D \cup {null} /\ outer \in D \cup {null}
       /\ o \in D \cup {null} /\ D \subseteq A /\ near # a /\ far # a
  <2>1. /\ near \in D \cup {null} /\ far \in D \cup {null} /\ outer \in D \cup {null}
        /\ o \in D \cup {null} /\ D \subseteq A
    BY <1>1, <1>2, <1>4 DEF IsTree, Shape
  <2>2. \A s \in Sides : v.child[d][s] \notin {a, d} /\ v.child[c][s] \notin {a, d}
    <3>1. v.child[a][side] # null
      BY <1>3, <1>8
    <3>2. \A s \in Sides : v.child[d][s] \notin {a, d}
      BY <1>6, <1>8, <3>1, Neighbours
    <3>3. /\ v.child[d][side] # null /\ d \in D
      BY <1>1, <1>4, <1>7
    <3>5. \A s \in Sides : v.child[c][s] \notin {d, c}
      <4>1. v.child[d][side] = c
        BY <1>7
      <4> HIDE DEF c, d
      <4> QED
        BY <1>6, <3>3, <4>1, Neighbours
    <3>6. ASSUME NEW s \in Sides
          PROVE  v.child[c][s] # a
      <4>1. v.child[c][s] = a => v.parent[a] = c
        BY <1>1, <1>6, SubParts DEF IsTree, Shape
      <4> QED
        BY <1>2, <1>9, <4>1
    <3> QED
      BY <1>7, <3>2, <3>5, <3>6
  <2> QED
    BY <1>2, <1>7, <2>1, <2>2
<1> HIDE DEF c, o, d, outer, near, far, p
<1>13. /\ v.height[c][Other(side)] = Height(t, near) /\ v.height[c][side] = Height(t, outer)
       /\ v.height[d][side] = Height(v, c) /\ v.height[d][Other(side)] = Height(t, far)
       /\ Height(v, near) = Height(t, near) /\ Height(v, outer) = Height(t, outer)
       /\ Height(v, far) = Height(t, far)
  <2>1. /\ \A x \in (A \cup {null}) \ {c, d} : Height(v, x) = Height(t, x)
        /\ \A s \in Sides : v.height[c][s] = Height(t, v.child[c][s])
        /\ v.height[d][Other(Other(side))] = Height(v, c)
        /\ v.height[d][Other(side)] = Height(t, t.child[d][Other(side)])
    BY <1>5 DEF SwapOf, d
  <2> QED
    BY <1>2, <1>4, <1>7, <1>12, <2>1 DEF far
<1>14. /\ u.height[a][side] = Height(t, far) /\ u.height[a][Other(side)] = Height(t, o)
       /\ u.height[d][side] = Height(v, c) /\ u.height[d][Other(side)] = Height(u, a)
       /\ Height(u, c) = Height(v, c) /\ Height(u, far) = Height(t, far)
       /\ Height(u, o) = Height(t, o)
  <2>1. /\ \A x \in (A \cup {null}) \ {a, d} : Height(u, x) = Height(v, x)
        /\ \A s \in Sides : u.height[a][s] = Height(v, u.child[a][s])
        /\ u.height[d][Other(side)] = Height(u, a)
        /\ u.height[d][side] = Height(v, v.child[d][side])
    BY <1>8, <1>10 DEF SwapOf
  <2>2. o # d
    <3>1. v.child[a][side] # null
      BY <1>3, <1>8
    <3>2. v.child[a][Other(side)] \notin {a, v.child[a][side]}
      BY <1>6, <3>1, Neighbours
    <3> QED
      BY <1>8, <3>2
  <2> QED
    BY <1>1, <1>2, <1>4, <1>7, <1>8, <1>11, <1>12, <1>13, <2>1, <2>2
<1>15. /\ Height(t, near) \in Nat /\ Height(t, far) \in Nat /\ Height(t, outer) \in Nat
       /\ Height(t, o) \in Nat
       /\ Height(t, c) = Height(t, outer) + 2 /\ Height(t, outer) = Height(t, o)
       /\ Height(t, near) <= Height(t, o) /\ Height(t, o) <= Height(t, near) + 1
       /\ Height(t, far) <= Height(t, o) /\ Height(t, o) <= Height(t, far) + 1
  <2>1. c \in D /\ d \in D /\ d # a
    BY <1>1, <1>2, <1>4
  <2>2. /\ Height(t, near) \in Nat /\ Height(t, far) \in Nat /\ Height(t, outer) \in Nat
        /\ Height(t, o) \in Nat
        /\ Height(t, c) = IF t.height[c][side] >= t.height[c][Other(side)]
                          THEN t.height[c][side] + 1 ELSE t.height[c][Other(side)] + 1
        /\ Height(t, d) = IF t.height[d][side] >= t.height[d][Other(side)]
                          THEN t.height[d][side] + 1 ELSE t.height[d][Other(side)] + 1
        /\ Lean(t, d, side) = t.height[d][side] - t.height[d][Other(side)]
    BY <1>12, <2>1, HeightsOf
  <2>3. /\ Lean(t, c, Other(side)) = t.height[c][Other(side)] - t.height[c][side]
        /\ Lean(t, d, Other(side)) = t.height[d][Other(side)] - t.height[d][side]
    BY <1>2 DEF Lean
  <2>4. t.height[c][side] = Height(t, outer) /\ t.height[c][Other(side)] = Height(t, d)
    <3>1. Exact(t, c, side) /\ Exact(t, c, Other(side))
      BY <1>1, <1>2
    <3> QED
      BY <3>1 DEF Exact, outer, d
  <2>5. /\ t.height[d][side] = Height(t, near) /\ t.height[d][Other(side)] = Height(t, far)
        /\ Lean(t, d, side) <= 1 /\ Lean(t, d, Other(side)) <= 1
    <3>1. \A s \in Sides : Lean(t, d, s) <= 1 /\ (t.child[d][s] # a => Exact(t, d, s))
      BY <2>1 DEF Updated
    <3>2. Exact(t, d, side) /\ Exact(t, d, Other(side))
      BY <1>2, <1>12, <3>1 DEF near, far
    <3> QED
      BY <1>2, <3>1, <3>2 DEF Exact, near, far
  <2>6. Lean(t, c, Other(side)) = 1
    BY DEF c
  <2>7. Height(t, c) = Height(t, o) + 2
    <3>1. Exact(t, a, Other(side))
      BY <1>2 DEF Updated
    <3> QED
      BY <1>1, <3>1 DEF Exact, o
  <2>8. Height(t, d) = Height(t, outer) + 1
    <3>1. t.height[c][Other(side)] - t.height[c][side] = 1
      BY <2>3, <2>6
    <3>2. Height(t, d) - Height(t, outer) = 1
      BY <2>4, <3>1
    <3>3. Height(t, d) \in Nat
      BY <2>1, HeightsOf
    <3> QED
      BY <2>2, <3>2, <3>3
  <2>9. Height(t, c) = Height(t, outer) + 2
    BY <2>2, <2>4, <2>8
  <2> QED
    BY <2>2, <2>3, <2>5, <2>7, <2>8, <2>9
<1>16. /\ Height(v, c) = Height(t, o) + 1 /\ Height(u, a) = Height(t, o) + 1
       /\ Height(u, d) = Height(t, o) + 2
  <2>1. c \in D /\ d \in D
    BY <1>1, <1>4
  <2>2. Height(v, c) = IF v.height[c][side] >= v.height[c][Other(side)]
                       THEN v.height[c][side] + 1 ELSE v.height[c][Other(side)] + 1
    BY <1>6, <2>1, HeightsOf
  <2>3. /\ Height(u, a) = IF u.height[a][side] >= u.height[a][Other(side)]
                          THEN u.height[a][side] + 1 ELSE u.height[a][Other(side)] + 1
        /\ Height(u, d) = IF u.height[d][side] >= u.height[d][Other(side)]
                          THEN u.height[d][side] + 1 ELSE u.height[d][Other(side)] + 1
    BY <1>10, <2>1, HeightsOf
  <2>4. Height(v, c) = Height(t, o) + 1
    BY <1>13, <1>15, <2>2
  <2>5. Height(u, a) = Height(t, o) + 1
    BY <1>14, <1>15, <2>3
  <2> QED
    BY <1>14, <1>15, <2>3, <2>4, <2>5
<1>17. \A x \in {a, c, d}, s \in Sides : Exact(u, x, s) /\ Lean(u, x, s) <= 1
  <2>1. /\ u.height[c] = v.height[c]
        /\ \A s \in Sides : Height(u, u.child[c][s]) = Height(v, v.child[c][s])
    BY <1>1, <1>2, <1>4, <1>11
  <2>2. /\ Exact(u, a, side) /\ Exact(u, a, Other(side))
        /\ Exact(u, d, side) /\ Exact(u, d, Other(side))
    BY <1>11, <1>14 DEF Exact
  <2>3. Exact(u, c, side) /\ Exact(u, c, Other(side))
    BY <1>2, <1>7, <1>13, <2>1 DEF Exact
  <2>4. /\ Lean(u, a, side) = Height(t, far) - Height(t, o)
        /\ Lean(u, a, Other(side)) = Height(t, o) - Height(t, far)
        /\ Lean(u, d, side) = Height(v, c) - Height(u, a)
        /\ Lean(u, d, Other(side)) = Height(u, a) - Height(v, c)
        /\ Lean(u, c, side) = Height(t, outer) - Height(t, near)
        /\ Lean(u, c, Other(side)) = Height(t, near) - Height(t, outer)
    BY <1>2, <1>13, <1>14, <2>1 DEF Lean
  <2>5. /\ Lean(u, a, side) <= 1 /\ Lean(u, a, Other(side)) <= 1
        /\ Lean(u, d, side) <= 1 /\ Lean(u, d, Other(side)) <= 1
        /\ Lean(u, c, side) <= 1 /\ Lean(u, c, Other(side)) <= 1
    BY <1>15, <1>16, <2>4
  <2> QED
    BY <1>2, <2>2, <2>3, <2>5
<1>18. ASSUME NEW x \in D \ {a, c, d, p}, NEW s \in Sides
       PROVE  Exact(u, x, s) /\ Lean(u, x, s) <= 1
  <2>1. v.child[x][s] = t.child[x][s] /\ v.height[x] = t.height[x]
        /\ Height(v, v.child[x][s]) = Height(t, t.child[x][s])
    BY <1>7, <1>18
  <2>2. v.child[x][s] # a /\ Height(u, u.child[x][s]) = Height(v, v.child[x][s])
        /\ u.height[x] = v.height[x]
    BY <1>11, <1>18
  <2>3. Exact(t, x, s) /\ Lean(t, x, s) <= 1
    BY <2>1, <2>2 DEF Updated
  <2> QED
    BY <2>1, <2>2, <2>3 DEF Exact, Lean
<1>19. Even(u, D, {p})
  BY <1>17, <1>18 DEF Even
<1>20. p # null => /\ u.height[p] = t.height[p]
                   /\ \A s \in Sides :
                         IF t.child[p][s] = a THEN u.child[p][s] = d
                         ELSE Height(u, u.child[p][s]) = Height(t, t.child[p][s])
  <2>1. p # null => p \in D
    BY ParentSide DEF p
  <2>2. p # d
    <3>1. v.child[a][side] # null
      BY <1>3, <1>8
    <3>2. v.parent[a] # v.child[a][side]
      BY <1>6, <3>1, Neighbours
    <3> QED
      BY <1>8, <1>9, <3>2
  <2>3. ASSUME p # null, NEW s \in Sides
        PROVE  v.child[p][s] = t.child[p][s] /\ Height(v, v.child[p][s]) = Height(t, t.child[p][s])
    BY <1>2, <1>7, <2>1, <2>2, <2>3
  <2>4. ASSUME p # null, NEW s \in Sides
        PROVE  IF v.child[p][s] = a THEN u.child[p][s] = d
               ELSE Height(u, u.child[p][s]) = Height(v, v.child[p][s])
    BY <1>2, <1>11, <2>1, <2>2, <2>4
  <2>5. p # null => u.height[p] = t.height[p]
    BY <1>2, <1>7, <1>11, <2>1, <2>2
  <2> QED
    BY <2>3, <2>4, <2>5
<1>21. Climbed(u, ns, A, D, t.parent[a])
  <2>1. Even(u, D, {t.parent[a]})
    BY <1>19 DEF p
  <2>2. Height(u, d) = t.height[a][side] \/ Height(u, d) = t.height[a][side] + 1
    <3>1. t.height[a][side] = Height(t, c)
      BY <1>1
    <3> QED
      BY <1>15, <1>16, <3>1
  <2>3. LET pp == t.parent[a]
        IN  pp # null => /\ u.height[pp] = t.height[pp]
                        /\ \A s \in Sides :
                              IF t.child[pp][s] = a THEN u.child[pp][s] = d
                              ELSE Height(u, u.child[pp][s]) = Height(t, t.child[pp][s])
    BY <1>20 DEF p
  <2>4. t.height[a][side] = t.height[a][Other(side)] + 2 /\ d \in D
    BY <1>1, <1>4
  <2> QED
    BY <1>10, <2>1, <2>2, <2>3, <2>4, ClimbTop
<1> QED
  BY <1>21 DEF u, v, c

\* Updating the heights of a node changes no link.
LEMMA UpdateShape ==
    ASSUME NEW t, NEW ns, NEW A, NEW D, NEW sub, IsTree(t, ns, A, D, sub), NEW a \in D
    PROVE  IsTree(updateHeight(t, a), ns, A, D, sub)
<1> DEFINE w == updateHeight(t, a)
<1>1. w \in TreeOver(A) /\ w.child = t.child /\ w.parent = t.parent
  <2>1. t \in TreeOver(A) /\ a \in A
    BY DEF IsTree
  <2> QED
    BY <2>1, UpdateFacts
<1> HIDE DEF w
<1>2. Shape(w, ns, D, sub)
  BY <1>1 DEF IsTree, Shape
<1>3. IsTree(w, ns, A, D, sub)
  BY <1>1, <1>2 DEF IsTree
<1> QED
  BY <1>3 DEF w

\* After the update only the lean of the node may be wrong, and by one.
LEMMA UpdateEven ==
    ASSUME NEW t, NEW ns, NEW A, NEW D, NEW sub, IsTree(t, ns, A, D, sub), NEW a \in D,
           EvenBut(t, D, a), NEW side \in Sides
    PROVE  Updated(updateHeight(t, a), D, a, side)
<1> DEFINE w == updateHeight(t, a)
           l == Height(t, t.child[a]["left"])
           r == Height(t, t.child[a]["right"])
<1>1. /\ w.child = t.child
      /\ \A s \in Sides : w.height[a][s] = Height(t, t.child[a][s])
      /\ \A x \in A \ {a} : w.height[x] = t.height[x]
      /\ \A x \in A \cup {null} : x # a => Height(w, x) = Height(t, x)
  <2>1. t \in TreeOver(A) /\ a \in A
    BY DEF IsTree
  <2> QED
    BY <2>1, UpdateFacts
<1>2. D \subseteq A /\ \A n \in D, s \in Sides : t.child[n][s] \in D \cup {null}
  BY DEF IsTree, Shape
<1>3. \A s \in Sides : t.child[a][s] # a
  <2> SUFFICES ASSUME NEW s \in Sides, t.child[a][s] = a PROVE FALSE
    OBVIOUS
  <2>1. a \notin sub[t.child[a][s]] /\ a \in sub[a]
    BY SubParts
  <2> QED
    BY <2>1
<1>4. /\ l \in Nat /\ r \in Nat /\ l <= r + 2 /\ r <= l + 2
      /\ {w.height[a][side], w.height[a][Other(side)]} = {l, r}
      /\ \/ w.height[a][side] = l /\ w.height[a][Other(side)] = r
         \/ w.height[a][side] = r /\ w.height[a][Other(side)] = l
  <2>1. t.child[a]["left"] \in D \cup {null} /\ t.child[a]["right"] \in D \cup {null}
    BY <1>2, SidesFact
  <2>2. l \in Nat /\ r \in Nat
    BY <2>1, HeightsOf
  <2>3. w.height[a]["left"] = l /\ w.height[a]["right"] = r
    BY <1>1, SidesFact
  <2>4. l <= r + 2 /\ r <= l + 2
    BY DEF EvenBut
  <2>5. (side = "left" /\ Other(side) = "right") \/ (side = "right" /\ Other(side) = "left")
    BY DEF Sides, Other
  <2> HIDE DEF w, l, r
  <2> QED
    BY <2>2, <2>3, <2>4, <2>5
<1>5. /\ \A n \in D \ {a}, s \in Sides :
            /\ Lean(t, n, s) <= 1
            /\ t.child[n][s] # a => Exact(t, n, s)
            /\ t.child[n][s] = a => Near(t.height[n][s], l, r)
  BY DEF EvenBut
<1> HIDE DEF w, l, r
<1>6. \A s \in Sides : Exact(w, a, s)
  BY <1>1, <1>2, <1>3 DEF Exact
<1>7. ASSUME NEW n \in D \ {a}, NEW s \in Sides
      PROVE  /\ Lean(w, n, s) <= 1
             /\ w.child[n][s] # a => Exact(w, n, s)
             /\ w.child[n][s] = a => Near(w.height[n][s], w.height[a][side], w.height[a][Other(side)])
  <2>1. w.height[n] = t.height[n] /\ w.child[n] = t.child[n]
    BY <1>1, <1>2
  <2>2. Lean(w, n, s) <= 1
    BY <1>5, <2>1 DEF Lean
  <2>3. w.child[n][s] # a => Exact(w, n, s)
    <3>1. t.child[n][s] \in A \cup {null}
      BY <1>2
    <3> QED
      BY <1>1, <1>5, <2>1, <3>1 DEF Exact
  <2>4. w.child[n][s] = a => Near(w.height[n][s], w.height[a][side], w.height[a][Other(side)])
    <3>1. w.child[n][s] = a => Near(w.height[n][s], l, r)
      BY <1>5, <2>1
    <3> QED
      BY <1>4, <3>1 DEF Near
  <2> QED
    BY <2>2, <2>3, <2>4
<1>8. Lean(w, a, side) <= 2 /\ Lean(w, a, Other(side)) <= 2
  <2>1. /\ Lean(w, a, side) = w.height[a][side] - w.height[a][Other(side)]
        /\ Lean(w, a, Other(side)) = w.height[a][Other(side)] - w.height[a][side]
    BY SidesFact DEF Lean
  <2> QED
    BY <1>4, <2>1
<1> QED
  BY <1>6, <1>7, <1>8 DEF Updated, w

\* A step of balance meets no child that is out of balance, and leaves the tree in
\* order up to the parent.
LEMMA BalanceStep ==
    ASSUME NEW t, NEW ns, NEW A, NEW D, NEW sub, IsTree(t, ns, A, D, sub), NEW a \in D,
           EvenBut(t, D, a)
    PROVE  LET w     == updateHeight(t, a)
               steep == {side \in Sides : Lean(w, a, side) > 1}
           IN  /\ \A side \in steep : ~(Lean(w, w.child[a][side], side) > 1)
               /\ steep = {} => Climbed(w, ns, A, D, t.parent[a])
               /\ \A side \in steep : Climbed(rotate(w, a, side), ns, A, D, t.parent[a])
<1> DEFINE w     == updateHeight(t, a)
           steep == {side \in Sides : Lean(w, a, side) > 1}
<1>1. IsTree(w, ns, A, D, sub)
  BY UpdateShape
<1>2. \A side \in Sides : Updated(w, D, a, side)
  BY UpdateEven
<1>3. w.parent[a] = t.parent[a]
  <2>1. t \in TreeOver(A) /\ a \in A
    BY DEF IsTree
  <2> QED
    BY <2>1, UpdateFacts
<1>4. \A side \in Sides : Lean(w, a, side) \in Int /\ Lean(w, a, Other(side)) \in Int
  <2> SUFFICES ASSUME NEW side \in Sides
               PROVE  Lean(w, a, side) \in Int /\ Lean(w, a, Other(side)) \in Int
    OBVIOUS
  <2> HIDE DEF w
  <2>1. w.height[a][side] \in Nat /\ w.height[a][Other(side)] \in Nat
    BY <1>1, HeightsOf
  <2> QED
    BY <2>1, SidesFact DEF Lean
<1> HIDE DEF w
<1>5. ASSUME NEW side \in steep
      PROVE  /\ Lean(w, w.child[a][side], side) <= 1
             /\ Lean(w, w.child[a][side], side) \in Int
  <2>1. side \in Sides /\ Lean(w, a, side) > 1
    OBVIOUS
  <2>2. /\ w.child[a][side] \in D
        /\ \A s \in Sides : Lean(w, w.child[a][side], s) <= 1
    BY <1>1, <1>2, <2>1, SteepChild
  <2>3. /\ w.height[w.child[a][side]][side] \in Nat
        /\ w.height[w.child[a][side]][Other(side)] \in Nat
    BY <1>1, <2>1, <2>2, HeightsOf
  <2> QED
    BY <2>1, <2>2, <2>3 DEF Lean
<1>6. ASSUME steep = {}
      PROVE  Climbed(w, ns, A, D, w.parent[a])
  <2>1. \A side \in Sides : Lean(w, a, side) <= 1
    BY <1>4, <1>6
  <2>2. "left" \in Sides /\ Other("left") \in Sides
    BY SidesFact
  <2> QED
    BY <1>1, <1>2, <2>1, <2>2, ClimbEven
<1>7. ASSUME NEW side \in steep
      PROVE  Climbed(rotate(w, a, side), ns, A, D, w.parent[a])
  <2>1. side \in Sides /\ Lean(w, a, side) > 1 /\ Updated(w, D, a, side)
    BY <1>2
  <2>2. CASE Lean(w, w.child[a][side], Other(side)) = 1
    BY <1>1, <2>1, <2>2, ClimbDouble DEF rotate
  <2>3. CASE Lean(w, w.child[a][side], Other(side)) # 1
    BY <1>1, <2>1, <2>3, ClimbSingle DEF rotate
  <2> QED
    BY <2>2, <2>3
<1> QED
  BY <1>3, <1>5, <1>6, <1>7 DEF w

\* A tree stays one when addresses are added and intervals shrink.
LEMMA Moved ==
    ASSUME NEW t, NEW ns, NEW A, NEW D, NEW sub, IsTree(t, ns, A, D, sub),
           NEW B, A \subseteq B, null \notin B, IsFiniteSet(B), NEW u \in TreeOver(B),
           \A x \in A : /\ u.child[x] = t.child[x] /\ u.parent[x] = t.parent[x]
                        /\ u.height[x] = t.height[x],
           NEW ms, Ordered(ms, D),
           \A x \in D : ns[x].start <= ms[x].start /\ ms[x].end <= ns[x].end
    PROVE  /\ IsTree(u, ms, B, D, sub)
           /\ Even(t, D, {}) => Even(u, D, {})
<1>1. /\ D \subseteq A /\ null \notin A /\ Ordered(ns, D)
      /\ sub \in [D \cup {null} -> SUBSET D]
      /\ \A n \in D, s \in Sides : t.child[n][s] \in D \cup {null}
      /\ \A n \in D : t.parent[n] \in D \cup {null}
  BY DEF IsTree, Shape
<1>2. \A n \in D : /\ u.child[n] = t.child[n] /\ u.parent[n] = t.parent[n]
                   /\ u.height[n] = t.height[n]
  BY <1>1
<1>3. ASSUME NEW m \in D, NEW n \in D, NEW s \in Sides, OnSide(ns, s, m, n)
      PROVE  OnSide(ms, s, m, n)
  <2>1. /\ ns[m].start \in Int /\ ns[m].end \in Int /\ ns[n].start \in Int /\ ns[n].end \in Int
        /\ ms[m].start \in Int /\ ms[m].end \in Int /\ ms[n].start \in Int /\ ms[n].end \in Int
        /\ ns[m].start <= ms[m].start /\ ms[m].end <= ns[m].end
        /\ ns[n].start <= ms[n].start /\ ms[n].end <= ns[n].end
    BY <1>1 DEF Ordered
  <2>2. CASE s = "left"
    BY <1>3, <2>1, <2>2 DEF OnSide
  <2>3. CASE s # "left"
    BY <1>3, <2>1, <2>3 DEF OnSide
  <2> QED
    BY <2>2, <2>3
<1>4. Shape(u, ms, D, sub)
  <2>1. sub[null] = {}
    BY DEF IsTree, Shape
  <2>2. \A n \in D : sub[n] = {n} \cup sub[u.child[n]["left"]] \cup sub[u.child[n]["right"]]
    BY <1>2 DEF IsTree, Shape
  <2>3. ASSUME NEW n \in D, NEW s \in Sides
        PROVE  /\ u.child[n][s] \in D \cup {null}
               /\ u.child[n][s] # null => u.parent[u.child[n][s]] = n
               /\ \A m \in sub[u.child[n][s]] : OnSide(ms, s, m, n)
    <3>1. /\ t.child[n][s] \in D \cup {null}
          /\ t.child[n][s] # null => t.parent[t.child[n][s]] = n
          /\ \A m \in sub[t.child[n][s]] : OnSide(ns, s, m, n)
      BY DEF IsTree, Shape
    <3>2. u.child[n][s] = t.child[n][s]
      BY <1>2
    <3>3. \A m \in sub[t.child[n][s]] : m \in D
      BY <1>1, <3>1
    <3> QED
      BY <1>2, <1>3, <3>1, <3>2, <3>3
  <2>4. ASSUME NEW n \in D
        PROVE  /\ u.parent[n] \in D \cup {null}
               /\ u.parent[n] # null => \E s \in Sides : u.child[u.parent[n]][s] = n
    BY <1>2 DEF IsTree, Shape
  <2>5. \E top \in D : u.parent[top] = null /\ sub[top] = D
    BY <1>2 DEF IsTree, Shape
  <2> QED
    BY <1>1, <2>1, <2>2, <2>3, <2>4, <2>5 DEF Shape
<1>5. IsTree(u, ms, B, D, sub)
  BY <1>1, <1>4 DEF IsTree
<1>6. ASSUME Even(t, D, {}), NEW n \in D, NEW s \in Sides
      PROVE  Exact(u, n, s) /\ Lean(u, n, s) <= 1
  <2>1. Exact(t, n, s) /\ Lean(t, n, s) <= 1
    BY <1>6 DEF Even
  <2>2. t.child[n][s] = null \/ t.child[n][s] \in D
    BY <1>1
  <2>3. Height(u, t.child[n][s]) = Height(t, t.child[n][s])
    BY <1>2, <2>2 DEF Height
  <2> QED
    BY <1>2, <2>1, <2>3 DEF Exact, Lean
<1> QED
  BY <1>5, <1>6 DEF Even

\* The tree with a new leaf under a.
Hung(t, a, side, new) ==
    [t EXCEPT !.child = [t.child EXCEPT ![a] = [@ EXCEPT ![side] = new]],
              !.parent = [t.parent EXCEPT ![new] = a]]

\* The new leaf is in its place.
LEMMA HangShape ==
    ASSUME NEW t, NEW ns, NEW A, NEW D, NEW sub, IsTree(t, ns, A, D, sub), NEW a \in D,
           NEW side \in Sides, t.child[a][side] = null,
           NEW new \in A \ D, \A s \in Sides : t.child[new][s] = null,
           Ordered(ns, D \cup {new}), OnSide(ns, side, new, a),
           \A x \in D, s \in Sides : a \in sub[t.child[x][s]] => OnSide(ns, s, new, x)
    PROVE  \E sub2 : IsTree(Hung(t, a, side, new), ns, A, D \cup {new}, sub2)
<1> DEFINE u == Hung(t, a, side, new)
           E == D \cup {new}
           sub2 == [x \in E \cup {null} |->
                       IF x = new THEN {new}
                       ELSE IF a \in sub[x] THEN sub[x] \cup {new} ELSE sub[x]]
<1>1. /\ D \subseteq A /\ null \notin A /\ t \in TreeOver(A) /\ IsFiniteSet(A)
      /\ sub \in [D \cup {null} -> SUBSET D] /\ sub[null] = {}
      /\ \A n \in D, s \in Sides : t.child[n][s] \in D \cup {null}
      /\ \A n \in D : t.parent[n] \in D \cup {null}
      /\ \A x \in D : x \in sub[x]
  BY DEF IsTree, Shape
<1>2. /\ u \in TreeOver(A)
      /\ u.child = [t.child EXCEPT ![a] = [@ EXCEPT ![side] = new]]
      /\ u.parent = [t.parent EXCEPT ![new] = a]
  <2>1. a \in A /\ new \in A
    BY <1>1
  <2> QED
    BY <1>1, <2>1 DEF TreeOver, Hung
<1>3. /\ \A x \in A, s \in Sides :
            u.child[x][s] = IF x = a /\ s = side THEN new ELSE t.child[x][s]
      /\ \A x \in A : u.parent[x] = IF x = new THEN a ELSE t.parent[x]
  BY <1>1, <1>2 DEF TreeOver
<1> HIDE DEF u
<1>4. /\ sub2 \in [E \cup {null} -> SUBSET E] /\ sub2[null] = {} /\ sub2[new] = {new}
      /\ \A x \in D \cup {null} : sub2[x] = IF a \in sub[x] THEN sub[x] \cup {new} ELSE sub[x]
  BY <1>1
<1>5. /\ side \in Sides /\ Other(side) \in Sides /\ Other(side) # side
      /\ \A s \in Sides : s = side \/ s = Other(side)
  BY SidesFact
<1> HIDE DEF sub2
<1>6. ASSUME NEW x \in D
      PROVE  sub2[x] = {x} \cup sub2[u.child[x]["left"]] \cup sub2[u.child[x]["right"]]
  <2>1. sub[x] = {x} \cup sub[t.child[x][side]] \cup sub[t.child[x][Other(side)]]
        /\ t.child[x][side] \in D \cup {null} /\ t.child[x][Other(side)] \in D \cup {null}
    BY <1>1, <1>5, SubParts
  <2>2. sub2[x] = {x} \cup sub2[u.child[x][side]] \cup sub2[u.child[x][Other(side)]]
    <3>1. CASE x = a
      <4>1. a \in sub[a] /\ a \notin sub[t.child[a][Other(side)]]
        BY <1>1, <1>5, SubParts
      <4>2. u.child[a][side] = new /\ u.child[a][Other(side)] = t.child[a][Other(side)]
        BY <1>1, <1>3, <1>5
      <4>3. sub2[a] = sub[a] \cup {new} /\ sub2[t.child[a][Other(side)]] = sub[t.child[a][Other(side)]]
        BY <1>4, <2>1, <3>1, <4>1
      <4> QED
        BY <1>1, <1>4, <2>1, <3>1, <4>2, <4>3
    <3>2. CASE x # a
      <4>1. u.child[x][side] = t.child[x][side] /\ u.child[x][Other(side)] = t.child[x][Other(side)]
        BY <1>1, <1>3, <1>5, <3>2
      <4> DEFINE l == t.child[x][side]
                 r == t.child[x][Other(side)]
      <4>2. /\ sub2[l] = IF a \in sub[l] THEN sub[l] \cup {new} ELSE sub[l]
            /\ sub2[r] = IF a \in sub[r] THEN sub[r] \cup {new} ELSE sub[r]
            /\ sub2[x] = IF a \in sub[x] THEN sub[x] \cup {new} ELSE sub[x]
        BY <1>4, <2>1
      <4>3. sub[x] = {x} \cup sub[l] \cup sub[r]
        BY <2>1
      <4> HIDE DEF l, r
      <4>4. sub2[x] = {x} \cup sub2[l] \cup sub2[r]
        BY <3>2, <4>2, <4>3
      <4> QED
        BY <4>1, <4>4 DEF l, r
    <3> QED
      BY <3>1, <3>2
  <2>3. (side = "left" /\ Other(side) = "right") \/ (side = "right" /\ Other(side) = "left")
    BY DEF Sides, Other
  <2> QED
    BY <2>2, <2>3
<1>7. sub2[new] = {new} \cup sub2[u.child[new]["left"]] \cup sub2[u.child[new]["right"]]
  <2>1. u.child[new]["left"] = null /\ u.child[new]["right"] = null
    BY <1>3, SidesFact
  <2> QED
    BY <1>4, <2>1
<1>8. ASSUME NEW x \in E, NEW s \in Sides
      PROVE  /\ u.child[x][s] \in E \cup {null}
             /\ u.child[x][s] # null => u.parent[u.child[x][s]] = x
             /\ \A m \in sub2[u.child[x][s]] : OnSide(ns, s, m, x)
  <2>1. CASE x = new
    <3>1. u.child[x][s] = null
      BY <1>3, <2>1
    <3> QED
      BY <1>4, <3>1
  <2>2. CASE x = a /\ s = side
    <3>1. u.child[x][s] = new /\ u.parent[new] = a
      BY <1>1, <1>3, <2>2
    <3> QED
      BY <1>4, <2>2, <3>1
  <2>3. CASE x \in D /\ ~(x = a /\ s = side)
    <3>1. u.child[x][s] = t.child[x][s]
      BY <1>1, <1>3, <2>3
    <3>2. /\ t.child[x][s] \in D \cup {null}
          /\ t.child[x][s] # null => t.parent[t.child[x][s]] = x
          /\ \A m \in sub[t.child[x][s]] : OnSide(ns, s, m, x)
      BY <2>3 DEF IsTree, Shape
    <3>3. t.child[x][s] # null => u.parent[t.child[x][s]] = x
      BY <1>1, <1>3, <3>2
    <3>4. a \in sub[t.child[x][s]] => OnSide(ns, s, new, x)
      BY <2>3
    <3>5. sub2[t.child[x][s]] = IF a \in sub[t.child[x][s]] THEN sub[t.child[x][s]] \cup {new}
                                ELSE sub[t.child[x][s]]
      BY <1>4, <3>2
    <3> QED
      BY <3>1, <3>2, <3>3, <3>4, <3>5
  <2> QED
    BY <2>1, <2>2, <2>3
<1>9. ASSUME NEW x \in E
      PROVE  /\ u.parent[x] \in E \cup {null}
             /\ u.parent[x] # null => \E s \in Sides : u.child[u.parent[x]][s] = x
  <2>1. CASE x = new
    <3>1. u.parent[x] = a /\ u.child[a][side] = new
      BY <1>1, <1>3, <2>1
    <3> QED
      BY <2>1, <3>1
  <2>2. CASE x \in D
    <3>1. u.parent[x] = t.parent[x]
      BY <1>1, <1>3, <2>2
    <3>2. t.parent[x] # null => \E s \in Sides : t.child[t.parent[x]][s] = x
      BY <2>2 DEF IsTree, Shape
    <3>3. ASSUME t.parent[x] # null, NEW s \in Sides, t.child[t.parent[x]][s] = x
          PROVE  u.child[t.parent[x]][s] = x
      <4>1. ~(t.parent[x] = a /\ s = side) /\ t.parent[x] \in A
        BY <1>1, <2>2, <3>3
      <4> QED
        BY <1>3, <3>3, <4>1
    <3> QED
      BY <1>1, <2>2, <3>1, <3>2, <3>3
  <2> QED
    BY <2>1, <2>2
<1>10. \E top \in E : u.parent[top] = null /\ sub2[top] = E
  <2>1. PICK top \in D : t.parent[top] = null /\ sub[top] = D
    BY DEF IsTree, Shape
  <2>2. u.parent[top] = null /\ sub2[top] = E
    BY <1>1, <1>3, <1>4, <2>1
  <2> QED
    BY <2>2
<1>11. Shape(u, ns, E, sub2)
  BY <1>4, <1>6, <1>7, <1>8, <1>9, <1>10 DEF Shape
<1>12. IsTree(u, ns, A, E, sub2)
  BY <1>1, <1>2, <1>11 DEF IsTree
<1> QED
  BY <1>12 DEF u

\* Only the node it hangs under may be out of balance.
LEMMA HangEven ==
    ASSUME NEW t, NEW ns, NEW A, NEW D, NEW sub, IsTree(t, ns, A, D, sub), NEW a \in D,
           NEW side \in Sides, t.child[a][side] = null, Even(t, D, {}),
           NEW new \in A \ D, \A s \in Sides : t.child[new][s] = null /\ t.height[new][s] = 0
    PROVE  EvenBut(Hung(t, a, side, new), D \cup {new}, a)
<1> DEFINE u == Hung(t, a, side, new)
           g == Height(t, t.child[a][Other(side)])
           l == Height(u, u.child[a]["left"])
           r == Height(u, u.child[a]["right"])
<1>1. /\ D \subseteq A /\ null \notin A /\ t \in TreeOver(A)
      /\ \A n \in D, s \in Sides : t.child[n][s] \in D \cup {null}
  BY DEF IsTree, Shape
<1>2. /\ u.height = t.height
      /\ \A x \in A, s \in Sides :
            u.child[x][s] = IF x = a /\ s = side THEN new ELSE t.child[x][s]
  BY <1>1 DEF TreeOver, Hung
<1> HIDE DEF u
<1>3. \A x : Height(u, x) = Height(t, x)
  BY <1>2 DEF Height
<1>4. /\ Other(side) \in Sides /\ Other(side) # side
      /\ (side = "left" /\ Other(side) = "right") \/ (side = "right" /\ Other(side) = "left")
  BY DEF Sides, Other
<1>5. Height(t, new) = 1 /\ Height(t, null) = 0
  BY <1>1, SidesFact DEF Height
<1>6. /\ t.height[a][side] = 0 /\ t.height[a][Other(side)] = g /\ g \in {0, 1}
      /\ Height(t, a) = g + 1
  <2>1. /\ Exact(t, a, side) /\ Exact(t, a, Other(side))
        /\ Lean(t, a, Other(side)) <= 1
    BY <1>4 DEF Even
  <2>2. t.height[a][side] = 0 /\ t.height[a][Other(side)] = g
    BY <1>5, <2>1 DEF Exact
  <2>3. t.height[a][Other(side)] \in Nat
    BY <1>4, HeightsOf
  <2>4. Lean(t, a, Other(side)) = t.height[a][Other(side)] - t.height[a][side]
    BY <1>4 DEF Lean, Other
  <2>5. Height(t, a) = IF t.height[a][side] >= t.height[a][Other(side)]
                       THEN t.height[a][side] + 1 ELSE t.height[a][Other(side)] + 1
    BY HeightsOf
  <2> HIDE DEF g
  <2>6. g \in Nat /\ g <= 1
    BY <2>1, <2>2, <2>3, <2>4
  <2> QED
    BY <2>2, <2>5, <2>6
<1>7. (l = 1 /\ r = g) \/ (l = g /\ r = 1)
  <2>1. u.child[a][side] = new /\ u.child[a][Other(side)] = t.child[a][Other(side)]
    BY <1>1, <1>2, <1>4
  <2> QED
    BY <1>3, <1>4, <1>5, <2>1
<1> HIDE DEF l, r, g
<1>8. l <= r + 2 /\ r <= l + 2 /\ Near(g + 1, l, r)
  BY <1>6, <1>7 DEF Near
<1>9. ASSUME NEW n \in (D \cup {new}) \ {a}, NEW s \in Sides
      PROVE  /\ Lean(u, n, s) <= 1
             /\ u.child[n][s] # a => Exact(u, n, s)
             /\ u.child[n][s] = a => Near(u.height[n][s], l, r)
  <2>0. u.child[n][s] = t.child[n][s]
    BY <1>1, <1>2
  <2>1. CASE n = new
    <3>1. Lean(u, n, s) = 0
      BY <1>2, <2>1, SidesFact DEF Lean
    <3> QED
      BY <1>1, <1>2, <1>3, <1>5, <2>0, <2>1, <3>1 DEF Exact
  <2>2. CASE n \in D
    <3>1. Exact(t, n, s) /\ Lean(t, n, s) <= 1
      BY <2>2 DEF Even
    <3>2. Exact(u, n, s) /\ Lean(u, n, s) <= 1
      BY <1>2, <1>3, <2>0, <3>1 DEF Exact, Lean
    <3>3. u.child[n][s] = a => u.height[n][s] = g + 1
      BY <1>3, <1>6, <3>2 DEF Exact
    <3> QED
      BY <1>8, <3>2, <3>3
  <2> QED
    BY <2>1, <2>2
<1> QED
  BY <1>8, <1>9 DEF EvenBut, u, l, r

-----------------------------------------------------------------------------
(* The nodes                                                                *)

\* A node without its links.
LockNode == [start : TS, end : TS, status : LockStatus, tids : SUBSET Tids]

\* Each time is in one node and in one only, and time 0 is in the first.
NodesOK(ns) ==
    /\ ns \in Seq(LockNode) /\ ns # <<>>
    /\ Ordered(ns, DOMAIN ns)
    /\ \A m, n \in DOMAIN ns : m # n => OnSide(ns, "left", m, n) \/ OnSide(ns, "left", n, m)
    /\ \A ts \in TS : \E n \in DOMAIN ns : ts \in ns[n].start .. ns[n].end
    /\ ns[1] = Lock(0, 0, "FREEZE_WRITE_LOCK")

\* What the type says of a node.
LEMMA NodeFields ==
    ASSUME NEW ns, NodesOK(ns)
    PROVE  /\ Len(ns) \in Nat \ {0} /\ DOMAIN ns = 1 .. Len(ns)
           /\ 1 \in DOMAIN ns /\ null \notin DOMAIN ns /\ IsFiniteSet(DOMAIN ns)
           /\ \A n \in DOMAIN ns :
                 /\ ns[n] \in LockNode
                 /\ ns[n].start \in 0 .. MaxTs /\ ns[n].end \in 0 .. MaxTs
                 /\ ns[n].start <= ns[n].end
                 /\ n # 1 => ns[n].start >= 1
<1>1. Len(ns) \in Nat \ {0} /\ DOMAIN ns = 1 .. Len(ns)
  BY EmptySeq, LenProperties DEF NodesOK
<1>2. IsFiniteSet(DOMAIN ns)
  BY <1>1, FS_Interval
<1>3. \A n \in DOMAIN ns :
         /\ ns[n] \in LockNode
         /\ ns[n].start \in 0 .. MaxTs /\ ns[n].end \in 0 .. MaxTs
         /\ ns[n].start <= ns[n].end
  <2>1. \A n \in DOMAIN ns : ns[n] \in LockNode
    BY <1>1, ElementOfSeq DEF NodesOK
  <2> QED
    BY <2>1 DEF NodesOK, Ordered, LockNode, TS
<1>4. 1 \in DOMAIN ns /\ null \notin DOMAIN ns
  BY <1>1 DEF null
<1>5. ASSUME NEW n \in DOMAIN ns, n # 1
      PROVE  ns[n].start >= 1
  <2>1. ns[1].start = 0 /\ ns[1].end = 0
    BY DEF NodesOK, Lock
  <2>2. OnSide(ns, "left", n, 1) \/ OnSide(ns, "left", 1, n)
    BY <1>4, <1>5 DEF NodesOK
  <2> QED
    BY <1>3, <2>1, <2>2, MaxTsAssumption DEF OnSide
<1> QED
  BY <1>1, <1>2, <1>3, <1>4, <1>5

\* Nodes that are not apart are the same.
LEMMA SameNode ==
    ASSUME NEW ns, NodesOK(ns), NEW m \in DOMAIN ns, NEW n \in DOMAIN ns, NEW ts \in Int,
           ts \in ns[m].start .. ns[m].end, ts \in ns[n].start .. ns[n].end
    PROVE  m = n
<1>1. m # n => OnSide(ns, "left", m, n) \/ OnSide(ns, "left", n, m)
  BY DEF NodesOK
<1> QED
  BY <1>1, NodeFields, MaxTsAssumption DEF OnSide

\* Nodes are on the sides of each other where their starts are.
LEMMA SideOf ==
    ASSUME NEW ns, NodesOK(ns), NEW m \in DOMAIN ns, NEW n \in DOMAIN ns, m # n
    PROVE  OnSide(ns, IF ns[m].start < ns[n].start THEN "left" ELSE "right", m, n)
<1>1. OnSide(ns, "left", m, n) \/ OnSide(ns, "left", n, m)
  BY DEF NodesOK
<1> QED
  BY <1>1, NodeFields, MaxTsAssumption DEF OnSide

\* A new status or owner.
LEMMA NodesChanged ==
    ASSUME NEW ns, NodesOK(ns), NEW n \in DOMAIN ns, n # 1, NEW new \in LockNode,
           new.start = ns[n].start, new.end = ns[n].end
    PROVE  LET ms == [ns EXCEPT ![n] = new]
           IN  /\ NodesOK(ms)
               /\ DOMAIN ms = DOMAIN ns
               /\ \A m \in DOMAIN ns : ms[m].start = ns[m].start /\ ms[m].end = ns[m].end
<1> DEFINE ms == [ns EXCEPT ![n] = new]
<1>1. /\ ms \in Seq(LockNode) /\ Len(ms) = Len(ns) /\ DOMAIN ms = DOMAIN ns
      /\ \A m \in DOMAIN ns : ms[m] = IF m = n THEN new ELSE ns[m]
  <2>1. DOMAIN ns = 1 .. Len(ns) /\ ns \in Seq(LockNode)
    BY NodeFields DEF NodesOK
  <2>2. /\ ms \in Seq(LockNode) /\ Len(ms) = Len(ns)
        /\ \A m \in 1 .. Len(ns) : ms[m] = IF m = n THEN new ELSE ns[m]
    BY <2>1, ExceptSeq
  <2>3. DOMAIN ms = 1 .. Len(ms)
    BY <2>2, LenProperties
  <2> QED
    BY <2>1, <2>2, <2>3
<1> HIDE DEF ms
<1>2. \A m \in DOMAIN ns : ms[m].start = ns[m].start /\ ms[m].end = ns[m].end
  BY <1>1
<1>3. \A l, m \in DOMAIN ns : OnSide(ms, "left", l, m) <=> OnSide(ns, "left", l, m)
  BY <1>2 DEF OnSide
<1>4. ms # <<>> /\ ms[1] = ns[1]
  <2>1. Len(ms) # 0 /\ Len(<<>>) = 0 /\ 1 \in DOMAIN ns
    BY <1>1, NodeFields, EmptySeq
  <2> QED
    BY <1>1, <2>1
<1>5. NodesOK(ms)
  BY <1>1, <1>2, <1>3, <1>4 DEF NodesOK, Ordered
<1> QED
  BY <1>1, <1>2, <1>5 DEF ms

\* A node cut in two.
LEMMA NodesCut ==
    ASSUME NEW ns, NodesOK(ns), NEW n \in DOMAIN ns, n # 1,
           NEW old \in LockNode, NEW new \in LockNode, NEW ts \in Int,
           ns[n].start <= ts, ts < ns[n].end,
           \/ /\ old.start = ns[n].start /\ old.end = ts
              /\ new.start = ts + 1 /\ new.end = ns[n].end
           \/ /\ new.start = ns[n].start /\ new.end = ts
              /\ old.start = ts + 1 /\ old.end = ns[n].end
    PROVE  LET ms  == Append([ns EXCEPT ![n] = old], new)
               end == Len(ns) + 1
           IN  /\ NodesOK(ms)
               /\ Len(ms) = end /\ DOMAIN ms = DOMAIN ns \cup {end} /\ end \notin DOMAIN ns
               /\ ms[end] = new /\ ms[n] = old
               /\ \A m \in DOMAIN ns \ {n} : ms[m] = ns[m]
               /\ \A m \in DOMAIN ns : ns[m].start <= ms[m].start /\ ms[m].end <= ns[m].end
<1> DEFINE cs  == [ns EXCEPT ![n] = old]
           ms  == Append(cs, new)
           end == Len(ns) + 1
<1>1. DOMAIN ns = 1 .. Len(ns) /\ ns \in Seq(LockNode) /\ Len(ns) \in Nat
  BY NodeFields DEF NodesOK
<1>2. /\ cs \in Seq(LockNode) /\ Len(cs) = Len(ns)
      /\ \A m \in 1 .. Len(ns) : cs[m] = IF m = n THEN old ELSE ns[m]
  BY <1>1, ExceptSeq
<1> HIDE DEF cs
<1>3. /\ ms \in Seq(LockNode) /\ ms # <<>> /\ Len(ms) = Len(cs) + 1
      /\ \A m \in 1 .. Len(cs) : ms[m] = cs[m]
      /\ ms[Len(cs) + 1] = new
  BY <1>2, AppendProperties
<1>4. DOMAIN ms = 1 .. Len(ms)
  BY <1>3, LenProperties
<1> HIDE DEF ms
<1>5. /\ Len(ms) = end /\ DOMAIN ms = DOMAIN ns \cup {end} /\ end \notin DOMAIN ns
      /\ ms[end] = new /\ ms[n] = old
      /\ \A m \in DOMAIN ns \ {n} : ms[m] = ns[m]
  BY <1>1, <1>2, <1>3, <1>4
<1> HIDE DEF end
<1>6. /\ \A m \in DOMAIN ns : /\ ns[m].start \in Int /\ ns[m].end \in Int
                              /\ ns[m].start <= ns[m].end
      /\ ns[n].end \in 0 .. MaxTs /\ ns[n].start \in 0 .. MaxTs
  BY NodeFields, MaxTsAssumption
<1>7. \A m \in DOMAIN ns : ns[m].start <= ms[m].start /\ ms[m].end <= ns[m].end
  BY <1>5, <1>6
<1>8. Ordered(ms, DOMAIN ms)
  BY <1>5, <1>6 DEF Ordered
<1>9. ASSUME NEW l \in DOMAIN ms, NEW m \in DOMAIN ms, l # m
      PROVE  OnSide(ms, "left", l, m) \/ OnSide(ms, "left", m, l)
  <2>1. \A j, k \in DOMAIN ns : j # k => OnSide(ns, "left", j, k) \/ OnSide(ns, "left", k, j)
    BY DEF NodesOK
  <2>2. ASSUME NEW k \in DOMAIN ns \ {n}
        PROVE  /\ OnSide(ms, "left", end, k) \/ OnSide(ms, "left", k, end)
               /\ OnSide(ms, "left", n, k) \/ OnSide(ms, "left", k, n)
    <3>1. OnSide(ns, "left", n, k) \/ OnSide(ns, "left", k, n)
      BY <2>1
    <3> QED
      BY <1>5, <1>6, <3>1 DEF OnSide
  <2>3. OnSide(ms, "left", end, n) \/ OnSide(ms, "left", n, end)
    BY <1>5, <1>6 DEF OnSide
  <2>4. CASE l \in DOMAIN ns \ {n} /\ m \in DOMAIN ns \ {n}
    <3>1. OnSide(ns, "left", l, m) \/ OnSide(ns, "left", m, l)
      BY <1>9, <2>1, <2>4
    <3> QED
      BY <1>5, <2>4, <3>1 DEF OnSide
  <2> QED
    BY <1>5, <1>9, <2>2, <2>3, <2>4
<1>10. ASSUME NEW t \in TS
       PROVE  \E m \in DOMAIN ms : t \in ms[m].start .. ms[m].end
  <2>1. PICK m \in DOMAIN ns : t \in ns[m].start .. ns[m].end
    BY DEF NodesOK
  <2>2. CASE m # n
    BY <1>5, <2>1, <2>2
  <2>3. CASE m = n
    <3>1. t \in ms[n].start .. ms[n].end \/ t \in ms[end].start .. ms[end].end
      BY <1>5, <1>6, <2>1, <2>3 DEF TS
    <3> QED
      BY <1>5, <3>1
  <2> QED
    BY <2>2, <2>3
<1>11. ms[1] = Lock(0, 0, "FREEZE_WRITE_LOCK")
  BY <1>5, NodeFields DEF NodesOK
<1>12. NodesOK(ms)
  BY <1>3, <1>8, <1>9, <1>10, <1>11 DEF NodesOK
<1> QED
  BY <1>5, <1>7, <1>12 DEF ms, cs, end

-----------------------------------------------------------------------------
(* The stack                                                                *)

\* A stack that is not empty is its front and its top.
LEMMA FrontLast ==
    ASSUME NEW S, NEW st \in Seq(S), st # <<>>
    PROVE  Front(st) \in Seq(S) /\ Last(st) \in S /\ st = Append(Front(st), Last(st))
<1>1. /\ Len(st) \in Nat \ {0} /\ \A i \in 1 .. Len(st) : st[i] \in S
  BY EmptySeq, ElementOfSeq
<1>2. Front(st) = SubSeq(st, 1, Len(st) - 1) /\ Last(st) = st[Len(st)]
  BY DEF Front, Last
<1>3. /\ Front(st) \in Seq(S) /\ Len(Front(st)) = Len(st) - 1
      /\ \A i \in 1 .. Len(st) - 1 : Front(st)[i] = st[i]
  <2>1. 1 \in Int /\ Len(st) - 1 \in Int /\ \A i \in 1 .. Len(st) - 1 : st[i] \in S
    BY <1>1
  <2> DEFINE n == Len(st) - 1
             f == SubSeq(st, 1, n)
  <2> HIDE DEF n
  <2>2. /\ f \in Seq(S) /\ Len(f) = IF 1 <= n THEN n - 1 + 1 ELSE 0
        /\ \A i \in 1 .. n - 1 + 1 : f[i] = st[1 + i - 1]
    BY <2>1, SubSeqProperties DEF n
  <2> HIDE DEF f
  <2>3. n \in Nat /\ n = Len(st) - 1
    BY <1>1 DEF n
  <2>4. Len(f) = n /\ \A i \in 1 .. n : f[i] = st[i]
    BY <2>2, <2>3
  <2>5. Front(st) = f
    BY <1>2 DEF f, n
  <2> QED
    BY <2>2, <2>3, <2>4, <2>5
<1>4. Last(st) \in S
  BY <1>1, <1>2
<1> DEFINE ap == Append(Front(st), Last(st))
<1>5. /\ ap \in Seq(S) /\ Len(ap) = Len(Front(st)) + 1
      /\ \A i \in 1 .. Len(Front(st)) : ap[i] = Front(st)[i]
      /\ ap[Len(Front(st)) + 1] = Last(st)
  BY <1>3, <1>4, AppendProperties
<1> HIDE DEF ap
<1>6. \A i \in 1 .. Len(st) : st[i] = ap[i]
  BY <1>1, <1>2, <1>3, <1>5
<1>7. st = ap
  BY <1>1, <1>3, <1>5, <1>6, SeqEqual
<1> QED
  BY <1>3, <1>4, <1>7 DEF ap

\* Pushing puts a node on the top.
LEMMA LastAppend ==
    ASSUME NEW S, NEW st \in Seq(S), NEW n \in S
    PROVE  /\ Append(st, n) \in Seq(S) /\ Append(st, n) # <<>> /\ Last(Append(st, n)) = n
           /\ Front(Append(st, n)) = st
<1> DEFINE ap == Append(st, n)
<1>1. /\ ap \in Seq(S) /\ ap # <<>> /\ Len(ap) = Len(st) + 1 /\ ap[Len(st) + 1] = n
      /\ \A i \in 1 .. Len(st) : ap[i] = st[i]
      /\ Len(st) \in Nat
  BY AppendProperties, LenProperties
<1> HIDE DEF ap
<1>2. Last(ap) = n
  BY <1>1 DEF Last
<1>3. Front(ap) = st
  <2>1. Front(ap) = SubSeq(ap, 1, Len(st))
    BY <1>1 DEF Front
  <2>2. /\ Front(ap) \in Seq(S) /\ Len(Front(ap)) = Len(st)
        /\ \A i \in 1 .. Len(st) : Front(ap)[i] = ap[i]
    <3>1. \A i \in 1 .. Len(st) : ap[i] \in S
      BY <1>1, ElementOfSeq
    <3> QED
      BY <1>1, <2>1, <3>1, SubSeqProperties
  <2> QED
    BY <1>1, <2>2, SeqEqual
<1> QED
  BY <1>1, <1>2, <1>3 DEF ap

\* The nodes of the subtree at n start at time ts.
Lowest(ns, sub, n, ts) ==
    /\ \A m \in sub[n] : ns[m].start >= ts
    /\ \E m \in sub[n] : ns[m].start = ts

\* The time after the node on the top of the stack.
Since(ns, st) == IF st = <<>> THEN 0 ELSE ns[Last(st)].end + 1

\* The subtree of each node of the stack starts where the node below it on the
\* stack ends.
Chain(ns, sub, st) ==
    \A i \in 1 .. Len(st) : Lowest(ns, sub, st[i], IF i = 1 THEN 0 ELSE ns[st[i - 1]].end + 1)

\* The chain grows by a node whose subtree starts after the top.
LEMMA ChainPush ==
    ASSUME NEW ns, NEW sub, NEW S, NEW st \in Seq(S), NEW n \in S
    PROVE  Chain(ns, sub, Append(st, n)) <=> Chain(ns, sub, st) /\ Lowest(ns, sub, n, Since(ns, st))
<1> DEFINE ap == Append(st, n)
           from_(s, i) == IF i = 1 THEN 0 ELSE ns[s[i - 1]].end + 1
<1>1. /\ Len(ap) = Len(st) + 1 /\ ap[Len(st) + 1] = n /\ Len(st) \in Nat
      /\ \A i \in 1 .. Len(st) : ap[i] = st[i]
  BY AppendProperties, LenProperties
<1> HIDE DEF ap
<1>2. \A i \in 1 .. Len(st) : ap[i] = st[i] /\ from_(ap, i) = from_(st, i)
  <2> SUFFICES ASSUME NEW i \in 1 .. Len(st), i # 1 PROVE ap[i - 1] = st[i - 1]
    BY <1>1
  <2> QED
    BY <1>1
<1>3. Since(ns, st) = from_(ap, Len(ap))
  <2>1. CASE st = <<>>
    <3>1. Len(ap) = 1
      BY <1>1, <2>1, EmptySeq
    <3> QED
      BY <2>1, <3>1 DEF Since
  <2>2. CASE st # <<>>
    <3>1. Len(st) \in Nat \ {0} /\ Last(st) = st[Len(st)]
      BY <2>2, EmptySeq DEF Last
    <3>2. ap[Len(ap) - 1] = st[Len(st)] /\ Len(ap) # 1
      BY <1>1, <3>1
    <3> QED
      BY <2>2, <3>1, <3>2 DEF Since
  <2> QED
    BY <2>1, <2>2
<1> HIDE DEF from_
<1>4. Chain(ns, sub, ap) <=> \A i \in 1 .. Len(ap) : Lowest(ns, sub, ap[i], from_(ap, i))
  BY DEF Chain, from_
<1>5. Chain(ns, sub, st) <=> \A i \in 1 .. Len(st) : Lowest(ns, sub, st[i], from_(st, i))
  BY DEF Chain, from_
<1>6. 1 .. Len(ap) = (1 .. Len(st)) \cup {Len(ap)} /\ ap[Len(ap)] = n
  BY <1>1
<1>7. Chain(ns, sub, ap) <=> Chain(ns, sub, st) /\ Lowest(ns, sub, n, Since(ns, st))
  BY <1>2, <1>3, <1>4, <1>5, <1>6
<1> QED
  BY <1>7 DEF ap

\* The chain depends on where the nodes start and end only.
LEMMA ChainKept ==
    ASSUME NEW ns, NEW ms, NEW A, NEW sub, NEW st \in Seq(A), Chain(ns, sub, st),
           \A n \in A : sub[n] \subseteq A,
           \A m \in A : ms[m].start = ns[m].start /\ ms[m].end = ns[m].end
    PROVE  Chain(ms, sub, st)
<1> SUFFICES ASSUME NEW i \in 1 .. Len(st)
             PROVE  Lowest(ms, sub, st[i], IF i = 1 THEN 0 ELSE ms[st[i - 1]].end + 1)
  BY DEF Chain
<1>1. st[i] \in A /\ (i # 1 => st[i - 1] \in A)
  <2>1. Len(st) \in Nat /\ \A j \in 1 .. Len(st) : st[j] \in A
    BY LenProperties, ElementOfSeq
  <2>2. i # 1 => i - 1 \in 1 .. Len(st)
    BY <2>1
  <2> QED
    BY <2>1, <2>2
<1>2. Lowest(ns, sub, st[i], IF i = 1 THEN 0 ELSE ns[st[i - 1]].end + 1)
  BY DEF Chain
<1>3. \A m \in sub[st[i]] : ms[m].start = ns[m].start
  BY <1>1
<1> QED
  BY <1>1, <1>2, <1>3 DEF Lowest

\* What find looks for: the node that contains ts, or the one before n.
Aim(ns, sub, n, ts) ==
    \/ \E y \in sub[n] : ts \in ns[y].start .. ns[y].end
    \/ ts = ns[n].start - 1

\* The child on the left takes over.
LEMMA FindLeft ==
    ASSUME NEW ns, NodesOK(ns), NEW t, NEW sub, IsTree(t, ns, DOMAIN ns, DOMAIN ns, sub),
           NEW a \in DOMAIN ns, NEW ts \in TS, Aim(ns, sub, a, ts), ts < ns[a].start,
           NEW lo \in Int, Lowest(ns, sub, a, lo)
    PROVE  LET c == t.child[a]["left"]
           IN  /\ c # null => /\ c \in DOMAIN ns /\ Aim(ns, sub, c, ts)
                              /\ Lowest(ns, sub, c, lo)
               /\ c = null => ts = ns[a].start - 1 /\ lo = ts + 1
<1> DEFINE A == DOMAIN ns
           c == t.child[a]["left"]
           o == t.child[a]["right"]
<1>0. /\ ts \in Int /\ MaxTs \in Int
      /\ \A n \in A : ns[n].start \in Int /\ ns[n].end \in Int /\ ns[n].start <= ns[n].end
  BY NodeFields, MaxTsAssumption DEF TS
<1>1. /\ sub[a] = {a} \cup sub[c] \cup sub[o] /\ c \in A \cup {null} /\ sub[c] \subseteq sub[a]
      /\ sub[a] \subseteq A /\ null \notin A /\ sub[null] = {}
      /\ \A m \in sub[c] : ns[m].end < ns[a].start
      /\ \A m \in sub[o] : ns[a].end < ns[m].start
      /\ \A x \in A : x \in sub[x]
  <2>1. /\ sub[a] = {a} \cup sub[c] \cup sub[o] /\ c \in A \cup {null}
        /\ sub[a] \subseteq A /\ null \notin A /\ sub[null] = {}
        /\ \A x \in A : x \in sub[x]
    BY SidesFact DEF IsTree, Shape
  <2>2. /\ \A m \in sub[c] : OnSide(ns, "left", m, a)
        /\ \A m \in sub[o] : OnSide(ns, "right", m, a)
    BY SidesFact DEF IsTree, Shape
  <2> QED
    BY <2>1, <2>2 DEF OnSide
<1>2. PICK m \in sub[a] : ns[m].start = lo
  BY DEF Lowest
<1>3. \A n \in sub[a] : ns[n].start >= lo
  BY DEF Lowest
<1>4. CASE c = null
  <2>1. lo = ns[a].start
    BY <1>0, <1>1, <1>2, <1>3, <1>4
  <2>2. ts = ns[a].start - 1
    <3>1. \A y \in sub[a] : ~(ts \in ns[y].start .. ns[y].end)
      BY <1>0, <1>1, <1>4
    <3> QED
      BY <3>1 DEF Aim
  <2> QED
    BY <1>0, <1>4, <2>1, <2>2
<1>5. CASE c # null
  <2>1. c \in A /\ c \in sub[c]
    BY <1>1, <1>5
  <2>2. Lowest(ns, sub, c, lo)
    <3>1. m \in sub[c]
      BY <1>0, <1>1, <1>2, <1>3, <2>1
    <3> QED
      BY <1>1, <1>2, <1>3, <3>1 DEF Lowest
  <2>3. \E y \in sub[c] : ts \in ns[y].start .. ns[y].end
    <3>1. CASE \E y \in sub[a] : ts \in ns[y].start .. ns[y].end
      BY <1>0, <1>1, <3>1
    <3>2. CASE ts = ns[a].start - 1
      <4>1. PICK y \in A : ts \in ns[y].start .. ns[y].end
        BY DEF NodesOK
      <4>2. OnSide(ns, "left", y, a)
        <5>1. y # a
          BY <1>0, <3>2, <4>1
        <5>2. OnSide(ns, "left", y, a) \/ OnSide(ns, "left", a, y)
          BY <5>1 DEF NodesOK
        <5> QED
          BY <1>0, <3>2, <4>1, <5>2 DEF OnSide
      <4>3. y \in sub[a]
        <5>1. y = c \/ OnSide(ns, "left", c, y) \/ OnSide(ns, "left", y, c)
          BY <2>1 DEF NodesOK
        <5>2. CASE y = c
          BY <1>1, <2>1, <5>2
        <5>3. CASE OnSide(ns, "left", c, y)
          <6>1. c \in sub[a] /\ a \in sub[a]
            BY <1>1, <2>1
          <6> HIDE DEF c, A
          <6> QED
            BY <4>2, <5>3, <6>1, Convex DEF A
        <5>4. CASE OnSide(ns, "left", y, c)
          <6>1. ns[c].end < ns[a].start /\ ns[y].end < ns[c].start
            BY <1>1, <2>1, <5>4 DEF OnSide
          <6>2. /\ ns[c].start \in Int /\ ns[c].end \in Int /\ ns[c].start <= ns[c].end
                /\ ns[y].end \in Int /\ ns[y].start \in Int /\ ns[a].start \in Int
            BY <1>0, <2>1
          <6> QED
            BY <1>0, <3>2, <4>1, <6>1, <6>2
        <5> QED
          BY <5>1, <5>2, <5>3, <5>4
      <4>4. y \in sub[c]
        BY <1>0, <1>1, <4>2, <4>3 DEF OnSide
      <4> QED
        BY <4>1, <4>4
    <3> QED
      BY <3>1, <3>2 DEF Aim
  <2> QED
    BY <1>5, <2>1, <2>2, <2>3 DEF Aim
<1> QED
  BY <1>4, <1>5

\* The child on the right takes over.
LEMMA FindRight ==
    ASSUME NEW ns, NodesOK(ns), NEW t, NEW sub, IsTree(t, ns, DOMAIN ns, DOMAIN ns, sub),
           NEW a \in DOMAIN ns, NEW ts \in TS, Aim(ns, sub, a, ts), ts > ns[a].end
    PROVE  LET c == t.child[a]["right"]
           IN  /\ c # null /\ c \in DOMAIN ns /\ Aim(ns, sub, c, ts)
               /\ Lowest(ns, sub, c, ns[a].end + 1)
<1> DEFINE A == DOMAIN ns
           c == t.child[a]["right"]
           o == t.child[a]["left"]
<1>0. /\ ts \in Int /\ MaxTs \in Int /\ ts <= MaxTs
      /\ \A n \in A : ns[n].start \in 0 .. MaxTs /\ ns[n].end \in 0 .. MaxTs /\ ns[n].start <= ns[n].end
  BY NodeFields, MaxTsAssumption DEF TS
<1>1. /\ sub[a] = {a} \cup sub[c] \cup sub[o] /\ c \in A \cup {null}
      /\ sub[a] \subseteq A /\ null \notin A /\ sub[null] = {}
      /\ \A m \in sub[o] : ns[m].end < ns[a].start
      /\ \A m \in sub[c] : ns[a].end < ns[m].start
      /\ \A x \in A : x \in sub[x]
  <2>1. /\ sub[a] = {a} \cup sub[c] \cup sub[o] /\ c \in A \cup {null}
        /\ sub[a] \subseteq A /\ null \notin A /\ sub[null] = {}
        /\ \A x \in A : x \in sub[x]
    BY SidesFact DEF IsTree, Shape
  <2>2. /\ \A m \in sub[o] : OnSide(ns, "left", m, a)
        /\ \A m \in sub[c] : OnSide(ns, "right", m, a)
    BY SidesFact DEF IsTree, Shape
  <2> QED
    BY <2>1, <2>2 DEF OnSide
<1>2. PICK y \in sub[a] : ts \in ns[y].start .. ns[y].end
  BY <1>0 DEF Aim
<1>3. y \in sub[c] /\ y \in A
  BY <1>0, <1>1, <1>2
<1>4. c # null /\ c \in A
  BY <1>1, <1>3
<1>5. PICK z \in A : ns[a].end + 1 \in ns[z].start .. ns[z].end
  <2>1. ns[a].end + 1 \in TS
    BY <1>0 DEF TS
  <2> QED
    BY <2>1 DEF NodesOK
<1>6. OnSide(ns, "left", a, z) /\ ns[z].start = ns[a].end + 1
  <2>1. z # a
    BY <1>0, <1>5
  <2>2. OnSide(ns, "left", a, z) \/ OnSide(ns, "left", z, a)
    BY <2>1 DEF NodesOK
  <2> QED
    BY <1>0, <1>5, <2>2 DEF OnSide
<1>7. z \in sub[c]
  <2>1. z = y \/ OnSide(ns, "left", z, y) \/ OnSide(ns, "left", y, z)
    BY <1>3 DEF NodesOK
  <2>2. CASE z = y
    BY <1>3, <2>2
  <2>3. CASE OnSide(ns, "left", z, y)
    <3>1. a \in sub[a]
      BY <1>1
    <3>2. z \in sub[a]
      BY <1>2, <1>6, <2>3, <3>1, Convex
    <3> QED
      BY <1>0, <1>1, <1>6, <3>2
  <2>4. CASE OnSide(ns, "left", y, z)
    <3>1. /\ ns[y].end < ns[z].start /\ ns[y].start \in Int /\ ns[y].end \in Int
          /\ ns[a].end \in Int
      BY <1>0, <1>3, <2>4 DEF OnSide
    <3> QED
      BY <1>0, <1>2, <1>6, <3>1
  <2> QED
    BY <2>1, <2>2, <2>3, <2>4
<1>8. Lowest(ns, sub, c, ns[a].end + 1)
  <2>1. \A m \in sub[c] : ns[m].start >= ns[a].end + 1
    <3>1. sub[c] \subseteq A
      BY <1>1
    <3> QED
      BY <1>0, <1>1, <3>1
  <2> QED
    BY <1>6, <1>7, <2>1 DEF Lowest
<1> QED
  BY <1>2, <1>3, <1>4, <1>8 DEF Aim

-----------------------------------------------------------------------------
(* The invariant                                                            *)

\* The nodes that the tree has: all but one that insert is going to hang.
Linked == IF pc = "insert" THEN DOMAIN nodes \ {Len(nodes)} ELSE DOMAIN nodes

\* Where find has found the node, and where the tree grows.
Loops == {"cut", "walk", "search", "release"}
Grows == {"insert", "balance", "getRoot"}

\* The operations whose calls come to a loop.
OpsAt(loop) ==
    IF loop \in {"cut", "walk"} THEN {"tryBackwardLock"}
    ELSE IF loop = "search" THEN {"tryLock"} ELSE {"freeze", "unlock"}

\* The operations that are asked for.
Asked == {"tryBackwardLock", "tryLock", "freeze", "unlock"}

\* The call under way, its arguments and where it may be.
CallOK ==
    /\ intervals \in [Tids -> [lo : 1 .. MaxTs, hi : TS]]
    /\ call.op \in Asked =>
          /\ call.tid \in Tids /\ call.lo \in TS /\ call.hi \in TS /\ call.is_read \in BOOLEAN
          /\ cur_ts \in TS
          /\ call.op # "tryBackwardLock" => call.lo # 0
    /\ pc = "find" => after \in Loops /\ call.op \in OpsAt(after)
    /\ pc \in Loops => call.op \in OpsAt(pc)
    /\ pc = "lock" => call.op = "tryLock" /\ after = "lock"
    /\ pc \in Grows => \/ call.op = "createKeyInfo" /\ after = "return"
                       \/ call.op = "tryBackwardLock"
                       \/ call.op = "tryLock" /\ after = "lock"

\* Where the root is, where the call is, and what is in balance.
PlacesOK ==
    /\ pc \notin Grows => root \in DOMAIN nodes /\ tree.parent[root] = null
    /\ pc \in {"find"} \cup Grows => at \in Linked
    /\ pc \in {"balance", "getRoot"} => from \in DOMAIN nodes
    /\ IF pc = "balance" THEN EvenBut(tree, Linked, at) ELSE Even(tree, Linked, {})

\* The node on the top of the stack is the one that the call goes on with.
StackOK ==
    /\ locks \in Seq(DOMAIN nodes)
    /\ pc = "idle" => locks = <<>>
    /\ pc \in Loops => locks # <<>> /\ cur_ts \in nodes[Last(locks)].start .. nodes[Last(locks)].end
    /\ call.op = "tryLock" =>
          /\ call.lo <= call.hi
          /\ pc \in {"find", "search"} =>
                /\ cur_ts = call.hi
                /\ \E n \in DOMAIN nodes : nodes[n].start <= call.lo /\ call.hi <= nodes[n].end
          /\ pc \in {"lock"} \cup Grows =>
                /\ locks # <<>>
                /\ nodes[Last(locks)].start <= call.lo /\ call.hi <= nodes[Last(locks)].end

\* The node to be hung is on the side of every node on which the search for its
\* place has gone on.
Placed(sub) ==
    /\ \A s \in Sides : tree.child[Len(nodes)][s] = null /\ tree.height[Len(nodes)][s] = 0
    /\ \A x \in Linked, s \in Sides :
          at \in sub[tree.child[x][s]] => OnSide(nodes, s, Len(nodes), x)

\* The subtrees are a search tree, along which find and insert go down.
Subtrees(sub) ==
    /\ IsTree(tree, nodes, DOMAIN nodes, Linked, sub)
    /\ pc = "insert" => Placed(sub)
    /\ pc = "find" => Chain(nodes, sub, Append(locks, at)) /\ Aim(nodes, sub, at, cur_ts)
    /\ pc \in Loops => Chain(nodes, sub, locks)

\* There are subtrees that the links lead to.
TreeOK == \E sub : Subtrees(sub)

\* The inductive invariant of the tree and its calls.
TreeInv == NodesOK(nodes) /\ CallOK /\ PlacesOK /\ StackOK /\ TreeOK

\* Without a call to insert the tree has all nodes.
LEMMA InvFacts ==
    ASSUME TreeInv
    PROVE  /\ Linked \subseteq DOMAIN nodes
           /\ pc # "insert" => Linked = DOMAIN nodes
           /\ DOMAIN nodes = 1 .. Len(nodes) /\ Len(nodes) \in Nat \ {0}
           /\ null \notin DOMAIN nodes /\ IsFiniteSet(DOMAIN nodes) /\ 1 \in DOMAIN nodes
           /\ \A n \in DOMAIN nodes :
                 /\ nodes[n] \in LockNode
                 /\ nodes[n].start \in 0 .. MaxTs /\ nodes[n].end \in 0 .. MaxTs
                 /\ nodes[n].start <= nodes[n].end
                 /\ n # 1 => nodes[n].start >= 1
           /\ MaxTs \in Nat /\ TS = 0 .. MaxTs
BY NodeFields, MaxTsAssumption DEF TreeInv, Linked, TS

\* find goes down to the node it looks for.
LEMMA FindKeeps == ASSUME TreeInv, find PROVE TreeInv'
<1> DEFINE A == DOMAIN nodes
<1>1. PICK sub : Subtrees(sub)
  BY DEF TreeInv, TreeOK
<1>2. /\ pc = "find" /\ Linked = A /\ at \in A /\ locks \in Seq(A)
      /\ NodesOK(nodes) /\ after \in Loops /\ call.op \in OpsAt(after)
      /\ cur_ts \in TS
      /\ nodes' = nodes /\ tree' = tree /\ root' = root /\ intervals' = intervals /\ call' = call
      /\ after' = after /\ from' = from /\ cur_ts' = cur_ts
  <2>1. /\ pc = "find" /\ Linked = A /\ at \in A /\ locks \in Seq(A)
        /\ NodesOK(nodes) /\ after \in Loops /\ call.op \in OpsAt(after)
        /\ nodes' = nodes /\ tree' = tree /\ root' = root /\ intervals' = intervals /\ call' = call
        /\ after' = after /\ from' = from /\ cur_ts' = cur_ts
    BY InvFacts DEF TreeInv, find, CallOK, PlacesOK, StackOK
  <2>2. call.op \in Asked
    BY <2>1 DEF OpsAt, Asked
  <2> QED
    BY <2>1, <2>2 DEF TreeInv, CallOK
<1>3. /\ IsTree(tree, nodes, A, A, sub) /\ Chain(nodes, sub, Append(locks, at))
      /\ Aim(nodes, sub, at, cur_ts)
  BY <1>1, <1>2 DEF Subtrees
<1>4. /\ \A n \in A : nodes[n].start \in Int /\ nodes[n].end \in Int
      /\ cur_ts \in Int /\ cur_ts >= 0
  BY <1>2, InvFacts DEF TS
<1>5. /\ Chain(nodes, sub, locks) /\ Lowest(nodes, sub, at, Since(nodes, locks))
      /\ Since(nodes, locks) \in Int
  <2>1. Chain(nodes, sub, locks) /\ Lowest(nodes, sub, at, Since(nodes, locks))
    BY <1>2, <1>3, ChainPush
  <2>2. locks # <<>> => Last(locks) \in A
    BY <1>2, FrontLast
  <2> QED
    BY <1>4, <2>1, <2>2 DEF Since
<1>6. SUFFICES /\ locks' \in Seq(A)
               /\ \/ /\ pc' = "find" /\ at' \in A
                     /\ Chain(nodes, sub, Append(locks', at')) /\ Aim(nodes, sub, at', cur_ts)
                  \/ /\ pc' = after /\ locks' # <<>> /\ Chain(nodes, sub, locks')
                     /\ cur_ts \in nodes[Last(locks')].start .. nodes[Last(locks')].end
  <2>1. /\ pc' \in {"find"} \cup Loops /\ pc' # "insert" /\ pc' \notin Grows /\ pc' # "lock"
        /\ pc' \notin {"balance", "idle"} /\ pc \notin Grows /\ pc # "balance" /\ pc # "lock"
    BY <1>2, <1>6 DEF Loops, Grows
  <2>2. Linked' = A
    BY <1>2, <1>6, <2>1 DEF Linked
  <2>3. CallOK'
    BY <1>2, <1>6, <2>1 DEF TreeInv, CallOK, Loops
  <2>4. PlacesOK'
    BY <1>2, <1>6, <2>1, <2>2 DEF TreeInv, PlacesOK, Loops
  <2>5. StackOK'
    BY <1>2, <1>6, <2>1 DEF TreeInv, StackOK, Loops, Grows
  <2>6. TreeOK'
    BY <1>2, <1>6, <1>3, <2>1, <2>2 DEF TreeOK, Subtrees, Loops
  <2> QED
    BY <1>2, <1>6, <2>3, <2>4, <2>5, <2>6 DEF TreeInv
<1>7. CASE cur_ts < nodes[at].start /\ descend("left")
  <2> DEFINE c == tree.child[at]["left"]
  <2>1. /\ c # null => /\ c \in A /\ Aim(nodes, sub, c, cur_ts)
                       /\ Lowest(nodes, sub, c, Since(nodes, locks))
        /\ c = null => cur_ts = nodes[at].start - 1 /\ Since(nodes, locks) = cur_ts + 1
    BY <1>2, <1>3, <1>5, <1>7, FindLeft
  <2>2. /\ locks' = locks
        /\ IF c = null THEN pc' = after ELSE pc' = pc /\ at' = c
    BY <1>7 DEF descend
  <2> HIDE DEF c
  <2>3. CASE c # null
    <3>1. Chain(nodes, sub, Append(locks, c))
      BY <1>2, <1>5, <2>1, <2>3, ChainPush
    <3> QED
      BY <1>2, <2>1, <2>2, <2>3, <3>1
  <2>4. CASE c = null
    <3>1. locks # <<>> /\ nodes[Last(locks)].end + 1 = cur_ts + 1
      BY <1>4, <2>1, <2>4 DEF Since
    <3>2. Last(locks) \in A
      BY <1>2, <3>1, FrontLast
    <3>3. cur_ts \in nodes[Last(locks)].start .. nodes[Last(locks)].end
      BY <1>2, <1>4, <3>1, <3>2, InvFacts
    <3> QED
      BY <1>2, <1>5, <2>2, <2>4, <3>1, <3>3
  <2> QED
    BY <2>3, <2>4
<1>8. CASE cur_ts > nodes[at].end /\ descend("right")
  <2> DEFINE c == tree.child[at]["right"]
  <2>1. /\ c # null /\ c \in A /\ Aim(nodes, sub, c, cur_ts)
        /\ Lowest(nodes, sub, c, nodes[at].end + 1)
    BY <1>2, <1>3, <1>8, FindRight
  <2>2. locks' = Append(locks, at) /\ pc' = pc /\ at' = c
    BY <1>8, <2>1 DEF descend
  <2> HIDE DEF c
  <2>3. Append(locks, at) \in Seq(A) /\ Since(nodes, Append(locks, at)) = nodes[at].end + 1
    BY <1>2, LastAppend DEF Since
  <2>4. Chain(nodes, sub, Append(Append(locks, at), c))
    BY <1>3, <2>1, <2>3, ChainPush
  <2> QED
    BY <1>2, <2>1, <2>2, <2>3, <2>4
<1>9. CASE cur_ts \in nodes[at].start .. nodes[at].end /\ locks' = Append(locks, at) /\ pc' = after
  <2>1. Append(locks, at) \in Seq(A) /\ Append(locks, at) # <<>> /\ Last(Append(locks, at)) = at
    BY <1>2, LastAppend
  <2> QED
    BY <1>3, <1>9, <2>1
<1> QED
  BY <1>7, <1>8, <1>9 DEF find

\* insert goes down on the side of the new node.
LEMMA PlaceDown ==
    ASSUME NEW t, NEW ns, NEW A, NEW D, NEW sub, IsTree(t, ns, A, D, sub), NEW a \in D,
           NEW side \in Sides, t.child[a][side] # null, NEW new, OnSide(ns, side, new, a),
           \A x \in D, s \in Sides : a \in sub[t.child[x][s]] => OnSide(ns, s, new, x)
    PROVE  LET c == t.child[a][side]
           IN  /\ c \in D
               /\ \A x \in D, s \in Sides : c \in sub[t.child[x][s]] => OnSide(ns, s, new, x)
<1> DEFINE c == t.child[a][side]
<1>1. /\ c \in D /\ t.parent[c] = a /\ c \in sub[c] /\ sub[null] = {}
      /\ \A x \in D, s \in Sides : /\ t.child[x][s] \in D \cup {null}
                                   /\ t.child[x][s] # null => t.parent[t.child[x][s]] = x
  BY DEF IsTree, Shape
<1>2. ASSUME NEW x \in D, NEW s \in Sides, c \in sub[t.child[x][s]]
      PROVE  OnSide(ns, s, new, x)
  <2> DEFINE y == t.child[x][s]
  <2>1. y \in D
    BY <1>1, <1>2
  <2>2. CASE c = y
    <3>1. x = a
      BY <1>1, <2>1, <2>2
    <3>2. s = side
      <4>1. s # side => s = Other(side)
        BY SidesFact
      <4>2. sub[t.child[a][side]] \cap sub[t.child[a][Other(side)]] = {}
        BY SubParts
      <4> QED
        BY <1>1, <2>2, <3>1, <4>1, <4>2
    <3> QED
      BY <3>1, <3>2
  <2>3. CASE c # y
    <3>1. a \in sub[y]
      <4> HIDE DEF c, y
      <4>1. c \in sub[y] /\ y \in D
        BY <1>2, <2>1 DEF y
      <4>2. t.parent[c] \in sub[y]
        BY <2>3, <4>1, SubTrans
      <4> QED
        BY <1>1, <4>2
    <3> QED
      BY <3>1
  <2> QED
    BY <2>2, <2>3
<1> QED
  BY <1>1, <1>2

\* insert finds a free place for the new node, and hangs it there.
LEMMA InsertKeeps == ASSUME TreeInv, insert PROVE TreeInv'
<1> DEFINE A    == DOMAIN nodes
           new  == Len(nodes)
           side == IF nodes[new].start < nodes[at].start THEN "left" ELSE "right"
           c    == tree.child[at][side]
<1>1. PICK sub : Subtrees(sub)
  BY DEF TreeInv, TreeOK
<1>2. /\ pc = "insert" /\ Linked = A \ {new} /\ at \in Linked /\ new \in A /\ locks \in Seq(A)
      /\ NodesOK(nodes) /\ Even(tree, Linked, {})
      /\ nodes' = nodes /\ root' = root /\ intervals' = intervals /\ call' = call
      /\ after' = after /\ locks' = locks /\ cur_ts' = cur_ts
  BY InvFacts DEF TreeInv, insert, PlacesOK, StackOK, Linked, Grows
<1>3. IsTree(tree, nodes, A, Linked, sub) /\ Placed(sub)
  BY <1>1, <1>2 DEF Subtrees
<1>4. side \in Sides /\ OnSide(nodes, side, new, at)
  BY <1>2, SideOf DEF Sides
<1>5. CASE c # null /\ at' = c /\ UNCHANGED <<tree, pc, from>>
  <2>1. pc' = "insert" /\ Linked' = Linked
    BY <1>2, <1>5 DEF Linked
  <2>2. /\ c \in Linked
        /\ \A x \in Linked, s \in Sides : c \in sub[tree.child[x][s]] => OnSide(nodes, s, new, x)
    <3> HIDE DEF side, new
    <3>1. \A x \in Linked, s \in Sides : at \in sub[tree.child[x][s]] => OnSide(nodes, s, new, x)
      BY <1>3 DEF Placed, new
    <3> QED
      BY <1>2, <1>3, <1>4, <1>5, <3>1, PlaceDown
  <2>3. CallOK'
    BY <1>2, <2>1 DEF TreeInv, CallOK, Grows, Loops
  <2>4. PlacesOK'
    BY <1>2, <1>5, <2>1, <2>2 DEF TreeInv, PlacesOK, Grows
  <2>5. StackOK'
    BY <1>2, <2>1 DEF TreeInv, StackOK, Loops, Grows
  <2>6. Placed(sub)'
    BY <1>2, <1>3, <1>5, <2>1, <2>2 DEF Placed
  <2>7. TreeOK'
    BY <1>2, <1>3, <1>5, <2>1, <2>6 DEF TreeOK, Subtrees, Loops
  <2> QED
    BY <1>2, <2>3, <2>4, <2>5, <2>7 DEF TreeInv
<1>6. CASE /\ c = null /\ tree' = Hung(tree, at, side, new)
           /\ pc' = "balance" /\ from' = at /\ UNCHANGED at
  <2>1. /\ Linked' = A /\ Linked \cup {new} = A /\ new \in A \ Linked
        /\ pc' \notin Loops /\ pc' \in Grows /\ pc \in Grows
    BY <1>2, <1>6 DEF Linked, Loops, Grows
  <2>2. /\ \A s \in Sides : tree.child[new][s] = null /\ tree.height[new][s] = 0
        /\ \A x \in Linked, s \in Sides : at \in sub[tree.child[x][s]] => OnSide(nodes, s, new, x)
        /\ Ordered(nodes, A)
    BY <1>2, <1>3 DEF Placed, NodesOK
  <2> HIDE DEF side, new
  <2>3. PICK sub2 : IsTree(Hung(tree, at, side, new), nodes, A, A, sub2)
    <3>1. tree.child[at][side] = null
      BY <1>6
    <3>2. Ordered(nodes, Linked \cup {new})
      BY <2>1, <2>2
    <3>3. \A s \in Sides : tree.child[new][s] = null
      BY <2>2
    <3>4. \E sub2 : IsTree(Hung(tree, at, side, new), nodes, A, Linked \cup {new}, sub2)
      BY <1>2, <1>3, <1>4, <2>1, <2>2, <3>1, <3>2, <3>3, HangShape
    <3> QED
      BY <2>1, <3>4
  <2>4. EvenBut(Hung(tree, at, side, new), A, at)
    <3>1. tree.child[at][side] = null
      BY <1>6
    <3>2. EvenBut(Hung(tree, at, side, new), Linked \cup {new}, at)
      BY <1>2, <1>3, <1>4, <2>1, <2>2, <3>1, HangEven
    <3> QED
      BY <2>1, <3>2
  <2>5. CallOK'
    BY <1>2, <1>6, <2>1 DEF TreeInv, CallOK, Grows, Loops
  <2>6. PlacesOK'
    BY <1>2, <1>6, <2>1, <2>4 DEF TreeInv, PlacesOK, Grows
  <2>7. StackOK'
    BY <1>2, <1>6, <2>1 DEF TreeInv, StackOK, Loops, Grows
  <2>8. TreeOK'
    BY <1>2, <1>6, <2>1, <2>3 DEF TreeOK, Subtrees, Loops
  <2> QED
    BY <1>2, <2>5, <2>6, <2>7, <2>8 DEF TreeInv
<1> QED
  BY <1>5, <1>6 DEF insert, Hung

\* balance leaves every node in order up to the parent.
LEMMA BalanceKeeps == ASSUME TreeInv, balance PROVE TreeInv'
<1> DEFINE A == DOMAIN nodes
           t     == updateHeight(tree, at)
           p     == tree.parent[at]
           steep == {side \in Sides : Lean(t, at, side) > 1}
           stuck == \E side \in steep : Lean(t, t.child[at][side], side) > 1
<1>1. PICK sub : Subtrees(sub)
  BY DEF TreeInv, TreeOK
<1>2. /\ pc = "balance" /\ Linked = A /\ at \in A /\ from \in A /\ locks \in Seq(A)
      /\ NodesOK(nodes) /\ EvenBut(tree, A, at)
      /\ nodes' = nodes /\ root' = root /\ intervals' = intervals /\ call' = call
      /\ after' = after /\ from' = from /\ locks' = locks /\ cur_ts' = cur_ts
  BY InvFacts DEF TreeInv, balance, PlacesOK, StackOK, Linked, Grows
<1>3. IsTree(tree, nodes, A, A, sub)
  BY <1>1, <1>2 DEF Subtrees
<1>4. /\ \A side \in steep : ~(Lean(t, t.child[at][side], side) > 1)
      /\ steep = {} => Climbed(t, nodes, A, A, p)
      /\ \A side \in steep : Climbed(rotate(t, at, side), nodes, A, A, p)
  BY <1>2, <1>3, BalanceStep
<1>5. /\ IF steep = {} THEN tree' = t ELSE \E side \in steep : tree' = rotate(t, at, side)
      /\ IF p = null THEN pc' = "getRoot" /\ at' = from ELSE pc' = pc /\ at' = p
  <2>1. ~stuck
    BY <1>4
  <2> QED
    BY <2>1 DEF balance
<1>6. Climbed(tree', nodes, A, A, p)
  BY <1>4, <1>5
<1> HIDE DEF p
<1>7. PICK sub2 : IsTree(tree', nodes, A, A, sub2)
  BY <1>6 DEF Climbed
<1>8. /\ pc' \in Grows /\ pc' # "insert" /\ pc \in Grows /\ pc' \notin Loops /\ pc' # "find"
      /\ pc' \notin {"lock", "idle"} /\ Linked' = A
  BY <1>2, <1>5 DEF Grows, Loops, Linked
<1>9. /\ at' \in A
      /\ IF pc' = "balance" THEN EvenBut(tree', A, at') ELSE Even(tree', A, {})
  BY <1>2, <1>5, <1>6 DEF Climbed
<1>10. CallOK'
  BY <1>2, <1>8 DEF TreeInv, CallOK
<1>11. PlacesOK'
  BY <1>2, <1>8, <1>9 DEF PlacesOK
<1>12. StackOK'
  BY <1>2, <1>8 DEF TreeInv, StackOK, Loops
<1>13. TreeOK'
  BY <1>2, <1>7, <1>8 DEF TreeOK, Subtrees
<1> QED
  BY <1>2, <1>10, <1>11, <1>12, <1>13 DEF TreeInv

\* At the top of the tree the root is set, and a search starts there.
LEMMA GetRootKeeps == ASSUME TreeInv, getRoot PROVE TreeInv'
<1> DEFINE A == DOMAIN nodes
           p == tree.parent[at]
<1>1. PICK sub : Subtrees(sub)
  BY DEF TreeInv, TreeOK
<1>2. /\ pc = "getRoot" /\ Linked = A /\ at \in A /\ locks \in Seq(A)
      /\ NodesOK(nodes) /\ Even(tree, A, {})
      /\ nodes' = nodes /\ tree' = tree /\ intervals' = intervals /\ call' = call
      /\ from' = from /\ cur_ts' = cur_ts /\ from \in A
  BY InvFacts DEF TreeInv, getRoot, PlacesOK, StackOK, Linked, Grows
<1>3. IsTree(tree, nodes, A, A, sub)
  BY <1>1, <1>2 DEF Subtrees
<1>4. CASE p # null /\ at' = p /\ UNCHANGED <<root, pc, after, locks>>
  <2>1. p \in A
    BY <1>2, <1>3, <1>4 DEF IsTree, Shape
  <2>2. pc' \in Grows /\ pc \in Grows /\ pc' \notin Loops /\ Linked' = A
    BY <1>2, <1>4 DEF Grows, Loops, Linked
  <2>3. CallOK' /\ PlacesOK' /\ StackOK'
    BY <1>2, <1>4, <2>1, <2>2 DEF TreeInv, CallOK, PlacesOK, StackOK
  <2>4. TreeOK'
    BY <1>2, <1>3, <1>4, <2>2 DEF TreeOK, Subtrees
  <2> QED
    BY <1>2, <2>3, <2>4 DEF TreeInv
<1>5. CASE p = null /\ root' = at /\ call.op = "tryBackwardLock"
           /\ pc' = "find" /\ after' = "walk" /\ locks' = <<>> /\ UNCHANGED at
  <2>1. pc' \notin Grows /\ pc \in Grows /\ pc' \notin Loops /\ Linked' = A
    BY <1>2, <1>5 DEF Grows, Loops, Linked
  <2>2. sub[at] = A
    BY <1>2, <1>3, <1>5, TopUnique
  <2>3. cur_ts \in TS
    BY <1>5 DEF TreeInv, CallOK, Asked
  <2>4. locks' \in Seq(A)
    BY <1>5, EmptySeq
  <2>5. CallOK'
    BY <1>2, <1>5, <2>1 DEF TreeInv, CallOK, Loops, OpsAt
  <2>6. PlacesOK'
    BY <1>2, <1>5, <2>1 DEF TreeInv, PlacesOK
  <2>7. StackOK'
    BY <1>2, <1>5, <2>1, <2>4 DEF TreeInv, StackOK
  <2>8. Chain(nodes, sub, Append(<<>>, at))
    <3>1. Chain(nodes, sub, <<>>)
      BY EmptySeq DEF Chain
    <3>2. Lowest(nodes, sub, at, 0)
      <4>1. nodes[1].start = 0 /\ 1 \in A
        BY <1>2, InvFacts DEF NodesOK, Lock
      <4> QED
        BY <2>2, <4>1, InvFacts DEF Lowest
    <3>3. Since(nodes, <<>>) = 0 /\ <<>> \in Seq(A)
      BY EmptySeq DEF Since
    <3> QED
      BY <1>2, <3>1, <3>2, <3>3, ChainPush
  <2>9. Aim(nodes, sub, at, cur_ts)
    BY <1>2, <2>2, <2>3 DEF Aim, NodesOK
  <2>10. TreeOK'
    BY <1>2, <1>3, <1>5, <2>1, <2>8, <2>9 DEF TreeOK, Subtrees
  <2> QED
    BY <1>2, <2>5, <2>6, <2>7, <2>10 DEF TreeInv
<1>6. CASE p = null /\ root' = at /\ call.op # "tryBackwardLock"
           /\ pc' = after /\ UNCHANGED <<at, after, locks>>
  <2>1. /\ \/ call.op = "createKeyInfo" /\ pc' = "return"
           \/ call.op = "tryLock" /\ pc' = "lock" /\ after = "lock"
        /\ pc \in Grows
    <3>1. pc \in Grows
      BY <1>2 DEF Grows
    <3>2. \/ call.op = "createKeyInfo" /\ after = "return"
          \/ call.op = "tryLock" /\ after = "lock"
      BY <1>6, <3>1 DEF TreeInv, CallOK
    <3> QED
      BY <1>6, <3>1, <3>2
  <2>2. pc' \notin Grows /\ pc' \notin Loops /\ pc' # "find" /\ pc' # "insert" /\ pc' # "balance"
        /\ Linked' = A
    BY <1>2, <2>1 DEF Grows, Loops, Linked
  <2>3. CallOK'
    BY <1>2, <1>6, <2>1, <2>2 DEF TreeInv, CallOK
  <2>4. PlacesOK'
    BY <1>2, <1>6, <2>2 DEF TreeInv, PlacesOK, Grows
  <2>5. StackOK'
    BY <1>2, <1>6, <2>1, <2>2 DEF TreeInv, StackOK
  <2>6. TreeOK'
    BY <1>2, <1>3, <2>2 DEF TreeOK, Subtrees
  <2> QED
    BY <1>2, <2>3, <2>4, <2>5, <2>6 DEF TreeInv
<1> QED
  BY <1>4, <1>5, <1>6 DEF getRoot

\* The tree with an address for a node that has no links yet.
Grown(t) ==
    [child  |-> Append(t.child, [s \in Sides |-> null]),
     parent |-> Append(t.parent, null),
     height |-> Append(t.height, [s \in Sides |-> 0])]

\* A function on 1 .. n takes a value for n + 1.
LEMMA AppendFun ==
    ASSUME NEW n \in Nat, NEW S, NEW f \in [1 .. n -> S], NEW v \in S
    PROVE  /\ Append(f, v) \in [1 .. n + 1 -> S]
           /\ \A i \in 1 .. n : Append(f, v)[i] = f[i]
           /\ Append(f, v)[n + 1] = v
<1>1. f \in Seq(S)
  BY SeqDef
<1>2. Len(f) = n
  <2>1. DOMAIN f = 1 .. Len(f) /\ Len(f) \in Nat /\ DOMAIN f = 1 .. n
    BY <1>1, LenProperties
  <2> QED
    BY <2>1
<1> DEFINE g == Append(f, v)
<1>3. /\ g \in Seq(S) /\ Len(g) = Len(f) + 1 /\ g[Len(f) + 1] = v
      /\ \A i \in 1 .. Len(f) : g[i] = f[i]
  BY <1>1, AppendProperties
<1> HIDE DEF g
<1>4. g \in [1 .. Len(g) -> S]
  BY <1>3, LenProperties
<1>5. g \in [1 .. n + 1 -> S] /\ g[n + 1] = v /\ \A i \in 1 .. n : g[i] = f[i]
  BY <1>2, <1>3, <1>4
<1> QED
  BY <1>5 DEF g

\* The address is new, and nothing else changes.
LEMMA GrownFacts ==
    ASSUME NEW n \in Nat, NEW t \in TreeOver(1 .. n)
    PROVE  LET u == Grown(t)
           IN  /\ u \in TreeOver(1 .. n + 1)
               /\ \A x \in 1 .. n : /\ u.child[x] = t.child[x] /\ u.parent[x] = t.parent[x]
                                    /\ u.height[x] = t.height[x]
               /\ \A s \in Sides : u.child[n + 1][s] = null /\ u.height[n + 1][s] = 0
<1> DEFINE A == 1 .. n
           B == 1 .. n + 1
           u == Grown(t)
           noLinks == [s \in Sides |-> null]
           noHeights == [s \in Sides |-> 0]
<1>1. /\ t.child \in [A -> [Sides -> B \cup {null}]]
      /\ t.parent \in [A -> B \cup {null}]
      /\ t.height \in [A -> [Sides -> Nat]]
  <2>1. A \subseteq B
    OBVIOUS
  <2>2. /\ t.child \in [A -> [Sides -> A \cup {null}]]
        /\ t.parent \in [A -> A \cup {null}]
        /\ t.height \in [A -> [Sides -> Nat]]
    BY DEF TreeOver
  <2> HIDE DEF A, B
  <2>3. [Sides -> A \cup {null}] \subseteq [Sides -> B \cup {null}]
    BY <2>1
  <2> QED
    BY <2>1, <2>2, <2>3
<1>2. noLinks \in [Sides -> B \cup {null}] /\ noHeights \in [Sides -> Nat] /\ null \in B \cup {null}
  OBVIOUS
<1>3. u.child = Append(t.child, noLinks) /\ u.parent = Append(t.parent, null)
      /\ u.height = Append(t.height, noHeights)
      /\ u = [child |-> u.child, parent |-> u.parent, height |-> u.height]
  BY DEF Grown
<1> HIDE DEF u, B, noLinks, noHeights
<1>4. /\ u.child \in [1 .. n + 1 -> [Sides -> B \cup {null}]]
      /\ u.child[n + 1] = noLinks /\ \A x \in 1 .. n : u.child[x] = t.child[x]
  <2> DEFINE S == [Sides -> B \cup {null}]
             f == t.child
             g == Append(f, noLinks)
  <2>1. f \in [1 .. n -> S] /\ noLinks \in S
    BY <1>1, <1>2
  <2> HIDE DEF S, f
  <2>2. /\ g \in [1 .. n + 1 -> S] /\ g[n + 1] = noLinks
        /\ \A x \in 1 .. n : g[x] = f[x]
    BY <2>1, AppendFun
  <2>3. u.child = g
    BY <1>3 DEF f
  <2> HIDE DEF g
  <2> QED
    BY <2>2, <2>3 DEF S, f
<1>5. /\ u.parent \in [1 .. n + 1 -> B \cup {null}]
      /\ \A x \in 1 .. n : u.parent[x] = t.parent[x]
  <2> DEFINE S == B \cup {null}
             f == t.parent
             g == Append(f, null)
  <2>1. f \in [1 .. n -> S] /\ null \in S
    BY <1>1, <1>2
  <2> HIDE DEF S, f
  <2>2. /\ g \in [1 .. n + 1 -> S] /\ g[n + 1] = null
        /\ \A x \in 1 .. n : g[x] = f[x]
    BY <2>1, AppendFun
  <2>3. u.parent = g
    BY <1>3 DEF f
  <2> HIDE DEF g
  <2> QED
    BY <2>2, <2>3 DEF S, f
<1>6. /\ u.height \in [1 .. n + 1 -> [Sides -> Nat]]
      /\ u.height[n + 1] = noHeights /\ \A x \in 1 .. n : u.height[x] = t.height[x]
  <2> DEFINE S == [Sides -> Nat]
             f == t.height
             g == Append(f, noHeights)
  <2>1. f \in [1 .. n -> S] /\ noHeights \in S
    BY <1>1, <1>2
  <2> HIDE DEF S, f
  <2>2. /\ g \in [1 .. n + 1 -> S] /\ g[n + 1] = noHeights
        /\ \A x \in 1 .. n : g[x] = f[x]
    BY <2>1, AppendFun
  <2>3. u.height = g
    BY <1>3 DEF f
  <2> HIDE DEF g
  <2> QED
    BY <2>2, <2>3 DEF S, f
<1>7. u \in TreeOver(1 .. n + 1)
  BY <1>3, <1>4, <1>5, <1>6 DEF TreeOver, B
<1>8. \A s \in Sides : u.child[n + 1][s] = null /\ u.height[n + 1][s] = 0
  BY <1>4, <1>6 DEF noLinks, noHeights
<1> QED
  BY <1>4, <1>5, <1>6, <1>7, <1>8 DEF u

\* A cut leaves a tree and a node that has its place on one side of every node
\* above the one that was cut.
LEMMA CutTree ==
    ASSUME NodesOK(nodes), NEW sub, IsTree(tree, nodes, DOMAIN nodes, DOMAIN nodes, sub),
           Even(tree, DOMAIN nodes, {}), NEW n \in DOMAIN nodes, n # 1,
           NEW old \in LockNode, NEW new \in LockNode, NEW ts \in Int,
           nodes[n].start <= ts, ts < nodes[n].end,
           \/ /\ old.start = nodes[n].start /\ old.end = ts
              /\ new.start = ts + 1 /\ new.end = nodes[n].end
           \/ /\ new.start = nodes[n].start /\ new.end = ts
              /\ old.start = ts + 1 /\ old.end = nodes[n].end,
           Cut(n, old, new)
    PROVE  /\ NodesOK(nodes')
           /\ Linked' = DOMAIN nodes /\ pc' = "insert" /\ at' = n
           /\ DOMAIN nodes \subseteq DOMAIN nodes'
           /\ nodes'[n] = old
           /\ IsTree(tree', nodes', DOMAIN nodes', Linked', sub)
           /\ Even(tree', Linked', {})
           /\ Placed(sub)'
<1> DEFINE A   == DOMAIN nodes
           ms  == Append([nodes EXCEPT ![n] = old], new)
           end == Len(nodes) + 1
<1>1. nodes' = ms /\ tree' = Grown(tree) /\ pc' = "insert" /\ at' = n
  BY DEF Cut, Grown
<1>2. /\ NodesOK(ms)
      /\ Len(ms) = end /\ DOMAIN ms = A \cup {end} /\ end \notin A
      /\ ms[end] = new /\ ms[n] = old
      /\ \A m \in A \ {n} : ms[m] = nodes[m]
      /\ \A m \in A : nodes[m].start <= ms[m].start /\ ms[m].end <= nodes[m].end
  BY NodesCut
<1> HIDE DEF ms
<1>3. Linked' = A
  BY <1>1, <1>2 DEF Linked
<1>4. /\ A = 1 .. Len(nodes) /\ Len(nodes) \in Nat /\ tree \in TreeOver(1 .. Len(nodes))
      /\ DOMAIN ms = 1 .. end /\ null \notin DOMAIN ms /\ IsFiniteSet(DOMAIN ms)
  <2>1. A = 1 .. Len(nodes) /\ Len(nodes) \in Nat
    BY NodeFields
  <2>2. DOMAIN ms = 1 .. end /\ null \notin DOMAIN ms /\ IsFiniteSet(DOMAIN ms)
    BY <1>2, NodeFields
  <2> QED
    BY <2>1, <2>2 DEF IsTree
<1>5. /\ tree' \in TreeOver(1 .. end)
      /\ \A x \in A : /\ tree'.child[x] = tree.child[x] /\ tree'.parent[x] = tree.parent[x]
                      /\ tree'.height[x] = tree.height[x]
      /\ \A s \in Sides : tree'.child[end][s] = null /\ tree'.height[end][s] = 0
  BY <1>1, <1>4, GrownFacts
<1> HIDE DEF end
<1>6. IsTree(tree', ms, DOMAIN ms, A, sub) /\ Even(tree', A, {})
  <2>1. Ordered(ms, A)
    BY <1>2 DEF NodesOK, Ordered
  <2> HIDE DEF A
  <2>2. IsTree(tree, nodes, A, A, sub) /\ Even(tree, A, {})
    BY DEF A
  <2>3. A \subseteq DOMAIN ms
    BY <1>2
  <2>4. tree' \in TreeOver(DOMAIN ms) /\ null \notin DOMAIN ms /\ IsFiniteSet(DOMAIN ms)
    BY <1>4, <1>5
  <2>5. \A x \in A : nodes[x].start <= ms[x].start /\ ms[x].end <= nodes[x].end
    BY <1>2
  <2>6. \A x \in A : /\ tree'.child[x] = tree.child[x] /\ tree'.parent[x] = tree.parent[x]
                     /\ tree'.height[x] = tree.height[x]
    BY <1>5
  <2> QED
    BY <2>1, <2>2, <2>3, <2>4, <2>5, <2>6, Moved
<1>7. ASSUME NEW x \in A, NEW s \in Sides, n \in sub[tree'.child[x][s]]
      PROVE  OnSide(ms, s, end, x)
  <2>1. n \in sub[tree.child[x][s]]
    BY <1>5, <1>7
  <2>2. OnSide(nodes, s, n, x)
    BY <2>1, SubParts
  <2>3. x # n
    <3>1. n \notin sub[tree.child[n][s]]
      BY SubParts
    <3> QED
      BY <2>1, <3>1
  <2>4. /\ ms[x] = nodes[x] /\ ms[end] = new
        /\ nodes[n].start <= new.start /\ new.end <= nodes[n].end
    <3>1. nodes[n].start \in Int /\ nodes[n].end \in Int
      BY NodeFields
    <3> QED
      BY <1>2, <2>3, <3>1
  <2>5. /\ nodes[n].start \in Int /\ nodes[n].end \in Int /\ nodes[x].start \in Int
        /\ nodes[x].end \in Int /\ new.start \in Int /\ new.end \in Int
    <3>1. /\ nodes[n].start \in Int /\ nodes[n].end \in Int
          /\ nodes[x].start \in Int /\ nodes[x].end \in Int
      BY NodeFields
    <3> QED
      BY <3>1
  <2>6. CASE s = "left"
    BY <2>2, <2>4, <2>5, <2>6 DEF OnSide
  <2>7. CASE s # "left"
    BY <2>2, <2>4, <2>5, <2>7 DEF OnSide
  <2> QED
    BY <2>6, <2>7
<1>8. Placed(sub)'
  BY <1>1, <1>2, <1>3, <1>5, <1>7 DEF Placed
<1> QED
  BY <1>1, <1>2, <1>3, <1>6, <1>8

\* The hull of two intervals.
LEMMA HullType ==
    ASSUME NEW i \in [lo : 1 .. MaxTs, hi : TS], NEW lo \in Nat, lo >= 1, NEW hi \in TS
    PROVE  Hull(i, lo, hi) \in [lo : 1 .. MaxTs, hi : TS]
<1>1. Min({lo, i.lo}) \in {lo, i.lo} /\ Min({lo, i.lo}) <= i.lo
  <2>1. {lo, i.lo} \subseteq Nat /\ {lo, i.lo} # {}
    BY MaxTsAssumption
  <2> QED
    BY <2>1, MinNat
<1>2. Max({hi, i.hi}) \in {hi, i.hi}
  <2>1. \E x \in {hi, i.hi} : \A y \in {hi, i.hi} : x >= y
    BY MaxTsAssumption DEF TS
  <2> QED
    BY <2>1 DEF Max
<1>3. Min({lo, i.lo}) \in 1 .. MaxTs
  BY <1>1, MaxTsAssumption
<1> QED
  BY <1>2, <1>3 DEF Hull

\* A round of a loop leaves the first node alone, because of its status or because
\* it is below every interval.
LEMMA NotFirst ==
    ASSUME TreeInv, NEW n \in DOMAIN nodes
    PROVE  /\ \A is_read \in BOOLEAN : Passable(nodes[n].status, is_read) => n # 1
           /\ \A is_read \in BOOLEAN : Lockable(nodes[n].status, is_read) => n # 1
           /\ Locked(nodes[n]) => n # 1
           /\ \A ts \in nodes[n].start .. nodes[n].end : ts >= 1 => n # 1
<1>1. nodes[1] = [start |-> 0, end |-> 0, status |-> "FREEZE_WRITE_LOCK", tids |-> {}]
  BY DEF TreeInv, NodesOK, Lock
<1> QED
  BY <1>1 DEF Passable, Lockable, Locked

\* New statuses and owners leave the tree as it is.
LEMMA SameTree ==
    ASSUME NodesOK(nodes), NEW sub, IsTree(tree, nodes, DOMAIN nodes, DOMAIN nodes, sub),
           NEW ms, NodesOK(ms), DOMAIN ms = DOMAIN nodes,
           \A m \in DOMAIN nodes : ms[m].start = nodes[m].start /\ ms[m].end = nodes[m].end
    PROVE  /\ IsTree(tree, ms, DOMAIN ms, DOMAIN ms, sub)
           /\ \A st \in Seq(DOMAIN nodes) : Chain(nodes, sub, st) => Chain(ms, sub, st)
<1> DEFINE A == DOMAIN nodes
<1>1. IsTree(tree, ms, A, A, sub)
  <2>1. Ordered(ms, A)
    BY DEF NodesOK
  <2>2. \A m \in A : nodes[m].start <= ms[m].start /\ ms[m].end <= nodes[m].end
    BY NodeFields
  <2>3. tree \in TreeOver(A) /\ null \notin A /\ IsFiniteSet(A) /\ IsTree(tree, nodes, A, A, sub)
    BY DEF IsTree
  <2> HIDE DEF A
  <2> QED
    BY <2>1, <2>2, <2>3, Moved
<1>2. \A n \in A : sub[n] \subseteq A
  BY DEF IsTree, Shape
<1> QED
  BY <1>1, <1>2, ChainKept

\* A round of a loop ends with a search for the node before.
LEMMA PreviousKeeps ==
    ASSUME TreeInv, pc \in {"walk", "release"}, NodesOK(nodes'), DOMAIN nodes' = DOMAIN nodes,
           \A m \in DOMAIN nodes :
              nodes'[m].start = nodes[m].start /\ nodes'[m].end = nodes[m].end,
           Last(locks) # 1, previous(Last(locks)),
           UNCHANGED <<tree, root, intervals, call, from>>
    PROVE  TreeInv'
<1> DEFINE A == DOMAIN nodes
           n == Last(locks)
<1>1. PICK sub : Subtrees(sub)
  BY DEF TreeInv, TreeOK
<1>2. /\ pc \in Loops /\ pc \notin Grows /\ pc' = "find" /\ after' = pc /\ pc' \notin Loops
      /\ pc' \notin Grows /\ Linked = A /\ Linked' = A
      /\ cur_ts' = nodes[n].start - 1 /\ locks' = Front(locks) /\ at' = n
  BY InvFacts DEF Loops, Grows, Linked, previous
<1>3. /\ NodesOK(nodes) /\ locks \in Seq(A) /\ locks # <<>> /\ Even(tree, A, {})
      /\ root \in A /\ tree.parent[root] = null /\ call.op \in OpsAt(pc)
  BY <1>2 DEF TreeInv, StackOK, PlacesOK, CallOK, Grows
<1>4. IsTree(tree, nodes, A, A, sub) /\ Chain(nodes, sub, locks)
  BY <1>1, <1>2 DEF Subtrees, Loops
<1>5. n \in A /\ Front(locks) \in Seq(A) /\ Append(Front(locks), n) = locks
  BY <1>3, FrontLast
<1>6. cur_ts' \in TS
  BY <1>2, <1>5, InvFacts
<1>7. IsTree(tree, nodes', A, A, sub) /\ Chain(nodes', sub, locks)
  BY <1>3, <1>4, SameTree
<1>8. CallOK'
  BY <1>2, <1>3, <1>6 DEF TreeInv, CallOK, Loops
<1>9. PlacesOK'
  BY <1>2, <1>3, <1>5 DEF PlacesOK, Grows
<1>10. StackOK'
  <2>1. call.op # "tryLock"
    BY <1>3 DEF OpsAt
  <2> QED
    BY <1>2, <1>5, <2>1 DEF StackOK
<1>11. TreeOK'
  <2>1. Aim(nodes', sub, n, cur_ts')
    BY <1>2, <1>5 DEF Aim
  <2>2. Chain(nodes', sub, Append(Front(locks), n))
    BY <1>5, <1>7
  <2> HIDE DEF n
  <2>3. Subtrees(sub)'
    BY <1>2, <1>7, <2>1, <2>2 DEF Subtrees
  <2> QED
    BY <2>3 DEF TreeOK
<1> QED
  BY <1>8, <1>9, <1>10, <1>11 DEF TreeInv

\* A loop ends, with the tree as it is.
LEMMA EndKeeps ==
    ASSUME TreeInv, pc \in {"walk", "search", "lock", "release"}, pc' = "return",
           NodesOK(nodes'), DOMAIN nodes' = DOMAIN nodes,
           \A m \in DOMAIN nodes :
              nodes'[m].start = nodes[m].start /\ nodes'[m].end = nodes[m].end,
           intervals' \in [Tids -> [lo : 1 .. MaxTs, hi : TS]],
           UNCHANGED <<tree, root, call, locks, cur_ts>>
    PROVE  TreeInv'
<1> DEFINE A == DOMAIN nodes
<1>1. PICK sub : Subtrees(sub)
  BY DEF TreeInv, TreeOK
<1>2. /\ pc \notin Grows /\ pc' \notin Loops /\ pc' \notin Grows /\ Linked = A /\ Linked' = A
      /\ pc' \notin {"find", "idle", "lock", "search"}
  BY InvFacts DEF Loops, Grows, Linked
<1>3. /\ NodesOK(nodes) /\ locks \in Seq(A) /\ Even(tree, A, {})
      /\ root \in A /\ tree.parent[root] = null
  BY <1>2 DEF TreeInv, StackOK, PlacesOK, Grows
<1>4. IsTree(tree, nodes, A, A, sub)
  BY <1>1, <1>2 DEF Subtrees
<1>5. IsTree(tree, nodes', A, A, sub)
  BY <1>3, <1>4, SameTree
<1>6. CallOK'
  BY <1>2 DEF TreeInv, CallOK
<1>7. PlacesOK'
  BY <1>2, <1>3 DEF PlacesOK, Grows
<1>8. StackOK'
  BY <1>2, <1>3 DEF TreeInv, StackOK
<1>9. TreeOK'
  <2>1. Subtrees(sub)'
    BY <1>2, <1>5 DEF Subtrees, Grows
  <2> QED
    BY <2>1 DEF TreeOK
<1> QED
  BY <1>6, <1>7, <1>8, <1>9 DEF TreeInv

\* A cut goes on to insert.
LEMMA CutKeeps ==
    ASSUME TreeInv, pc \in {"cut", "lock"}, NEW n, n = Last(locks), locks # <<>>, n # 1,
           NEW old \in LockNode, NEW new \in LockNode, NEW ts \in Int,
           nodes[n].start <= ts, ts < nodes[n].end,
           \/ /\ old.start = nodes[n].start /\ old.end = ts
              /\ new.start = ts + 1 /\ new.end = nodes[n].end
           \/ /\ new.start = nodes[n].start /\ new.end = ts
              /\ old.start = ts + 1 /\ old.end = nodes[n].end,
           pc = "lock" => old.start <= call.lo /\ call.hi <= old.end,
           Cut(n, old, new),
           UNCHANGED <<root, intervals, call, after, from, locks, cur_ts>>
    PROVE  TreeInv'
<1> DEFINE A == DOMAIN nodes
<1>1. PICK sub : Subtrees(sub)
  BY DEF TreeInv, TreeOK
<1>2. pc \notin Grows /\ Linked = A /\ pc # "insert"
  BY InvFacts DEF Grows, Linked
<1>3. NodesOK(nodes) /\ locks \in Seq(A) /\ Even(tree, A, {})
  BY <1>2 DEF TreeInv, StackOK, PlacesOK, Grows
<1>4. IsTree(tree, nodes, A, A, sub)
  BY <1>1, <1>2 DEF Subtrees
<1>5. n \in A
  BY <1>3, FrontLast
<1>6. /\ NodesOK(nodes')
      /\ Linked' = A /\ pc' = "insert" /\ at' = n
      /\ A \subseteq DOMAIN nodes'
      /\ nodes'[n] = old
      /\ IsTree(tree', nodes', DOMAIN nodes', Linked', sub)
      /\ Even(tree', Linked', {})
      /\ Placed(sub)'
  BY <1>3, <1>4, <1>5, CutTree
<1>7. pc' \in Grows /\ pc' \notin Loops
  BY <1>6 DEF Grows, Loops
<1>8. CallOK'
  BY <1>6, <1>7 DEF TreeInv, CallOK, OpsAt, Loops
<1>9. PlacesOK'
  BY <1>5, <1>6, <1>7 DEF PlacesOK
<1>10. StackOK'
  <2>1. locks \in Seq(DOMAIN nodes')
    BY <1>3, <1>6, SeqMonotonic
  <2>2. call.op = "tryLock" => pc = "lock" /\ call.lo <= call.hi
    BY DEF TreeInv, CallOK, StackOK, OpsAt, Loops
  <2> QED
    BY <1>6, <1>7, <2>1, <2>2 DEF StackOK
<1>11. TreeOK'
  BY <1>6, <1>7 DEF TreeOK, Subtrees
<1> QED
  BY <1>6, <1>8, <1>9, <1>10, <1>11 DEF TreeInv

\* The node on the top of the stack in a loop.
LEMMA TopFacts ==
    ASSUME TreeInv, pc \in Loops \cup {"lock"}
    PROVE  /\ locks # <<>> /\ Last(locks) \in DOMAIN nodes
           /\ nodes[Last(locks)] \in LockNode
           /\ pc \in Loops => cur_ts \in nodes[Last(locks)].start .. nodes[Last(locks)].end
           /\ call.op \in Asked /\ call.tid \in Tids /\ call.is_read \in BOOLEAN
           /\ call.lo \in TS /\ call.hi \in TS /\ cur_ts \in TS
<1>1. locks # <<>> /\ locks \in Seq(DOMAIN nodes)
      /\ (pc \in Loops => cur_ts \in nodes[Last(locks)].start .. nodes[Last(locks)].end)
  BY DEF TreeInv, StackOK, CallOK
<1>2. call.op \in Asked
  BY DEF TreeInv, CallOK, OpsAt, Asked
<1>3. Last(locks) \in DOMAIN nodes
  BY <1>1, FrontLast
<1> QED
  BY <1>1, <1>2, <1>3, InvFacts DEF TreeInv, CallOK

\* Only the status and the owners of a node change.
LEMMA ChangeOne ==
    ASSUME TreeInv, NEW n \in DOMAIN nodes, n # 1, NEW new \in LockNode,
           new.start = nodes[n].start, new.end = nodes[n].end,
           nodes' = [nodes EXCEPT ![n] = new]
    PROVE  /\ NodesOK(nodes') /\ DOMAIN nodes' = DOMAIN nodes
           /\ \A m \in DOMAIN nodes :
                 nodes'[m].start = nodes[m].start /\ nodes'[m].end = nodes[m].end
BY NodesChanged DEF TreeInv

\* A locked node is a node.
LEMMA TakenType ==
    ASSUME TreeInv, pc \in Loops \cup {"lock"}, NEW n \in DOMAIN nodes
    PROVE  /\ Taken(nodes[n]) \in LockNode
           /\ Taken(nodes[n]).start = nodes[n].start /\ Taken(nodes[n]).end = nodes[n].end
<1>1. nodes[n] \in LockNode /\ call.tid \in Tids /\ call.is_read \in BOOLEAN
  BY TopFacts, InvFacts
<1>2. LockedStatus(call.is_read) \in LockStatus
  BY <1>1, LockedStatusType
<1> QED
  BY <1>1, <1>2 DEF Taken, LockNode

\* The walk starts at a node that ends at ts_end if the walk is going to lock it.
LEMMA CutStepKeeps == ASSUME TreeInv, cut PROVE TreeInv'
<1> DEFINE n   == Last(locks)
           old == [nodes[n] EXCEPT !.end = cur_ts]
           new == [nodes[n] EXCEPT !.start = cur_ts + 1]
<1>1. /\ pc = "cut" /\ pc \in Loops
      /\ UNCHANGED <<root, intervals, call, after, from, locks, cur_ts, ends, res>>
  BY DEF cut, Loops
<1>2. /\ locks # <<>> /\ n \in DOMAIN nodes /\ nodes[n] \in LockNode
      /\ cur_ts \in nodes[n].start .. nodes[n].end /\ call.is_read \in BOOLEAN
  BY <1>1, TopFacts
<1>3. /\ nodes[n].start \in 0 .. MaxTs /\ nodes[n].end \in 0 .. MaxTs /\ MaxTs \in Nat /\ TS = 0 .. MaxTs
  BY <1>2, InvFacts
<1>4. CASE Lockable(nodes[n].status, call.is_read) /\ cur_ts < nodes[n].end /\ Cut(n, old, new)
  <2>1. n # 1
    BY <1>2, <1>4, NotFirst
  <2>2. cur_ts \in Int /\ nodes[n].start <= cur_ts /\ cur_ts < nodes[n].end
    BY <1>2, <1>3, <1>4
  <2>3. old \in LockNode /\ new \in LockNode
    BY <1>2, <1>3, <2>2 DEF LockNode
  <2>4. /\ old.start = nodes[n].start /\ old.end = cur_ts
        /\ new.start = cur_ts + 1 /\ new.end = nodes[n].end
    BY <1>2 DEF LockNode
  <2> HIDE DEF n, old, new
  <2> QED
    BY <1>1, <1>2, <1>4, <2>1, <2>2, <2>3, <2>4, CutKeeps DEF n
<1>5. CASE pc' = "walk" /\ UNCHANGED <<nodes, tree, at>>
  <2>1. pc' \in Loops /\ pc' \notin Grows /\ pc \notin Grows /\ Linked' = Linked
        /\ pc' \notin {"find", "idle", "lock", "search"}
    BY <1>1, <1>5 DEF Loops, Grows, Linked
  <2>2. NodesOK(nodes')
    BY <1>5 DEF TreeInv
  <2>3. CallOK'
    BY <1>1, <1>5, <2>1 DEF TreeInv, CallOK, OpsAt
  <2>4. PlacesOK'
    BY <1>1, <1>5, <2>1 DEF TreeInv, PlacesOK, Grows
  <2>5. StackOK'
    BY <1>1, <1>5, <2>1 DEF TreeInv, StackOK
  <2>6. TreeOK'
    <3>1. PICK sub : Subtrees(sub)
      BY DEF TreeInv, TreeOK
    <3>2. Subtrees(sub)'
      BY <1>1, <1>5, <2>1, <3>1 DEF Subtrees, Grows
    <3> QED
      BY <3>2 DEF TreeOK
  <2> QED
    BY <2>2, <2>3, <2>4, <2>5, <2>6 DEF TreeInv
<1> QED
  BY <1>4, <1>5 DEF cut

\* A round of the walk.
LEMMA WalkKeeps == ASSUME TreeInv, walk PROVE TreeInv'
<1> DEFINE n == Last(locks)
<1>1. pc = "walk" /\ pc \in Loops /\ UNCHANGED <<tree, root, call, from>>
  BY DEF walk, Loops
<1>2. /\ locks # <<>> /\ n \in DOMAIN nodes /\ nodes[n] \in LockNode
      /\ cur_ts \in TS /\ call.is_read \in BOOLEAN /\ call.tid \in Tids /\ call.hi \in TS
  BY <1>1, TopFacts
<1>3. CASE /\ Passable(nodes[n].status, call.is_read)
           /\ nodes' = IF Lockable(nodes[n].status, call.is_read)
                       THEN [nodes EXCEPT ![n] = Taken(@)] ELSE nodes
           /\ previous(n) /\ UNCHANGED <<intervals, ends, res>>
  <2>1. n # 1
    BY <1>2, <1>3, NotFirst
  <2>2. /\ NodesOK(nodes') /\ DOMAIN nodes' = DOMAIN nodes
        /\ \A m \in DOMAIN nodes :
              nodes'[m].start = nodes[m].start /\ nodes'[m].end = nodes[m].end
    <3>1. CASE nodes' = nodes
      BY <3>1 DEF TreeInv
    <3>2. CASE nodes' = [nodes EXCEPT ![n] = Taken(@)]
      <4>1. nodes' = [nodes EXCEPT ![n] = Taken(nodes[n])]
        BY <3>2
      <4>2. /\ Taken(nodes[n]) \in LockNode
            /\ Taken(nodes[n]).start = nodes[n].start /\ Taken(nodes[n]).end = nodes[n].end
        BY <1>1, <1>2, TakenType
      <4> HIDE DEF n
      <4> QED
        BY <1>2, <2>1, <4>1, <4>2, ChangeOne
    <3> QED
      BY <1>3, <3>1, <3>2
  <2> QED
    BY <1>1, <1>3, <2>1, <2>2, PreviousKeeps
<1>4. CASE record(cur_ts + 1) /\ pc' = "return" /\ UNCHANGED <<nodes, at, after, locks, cur_ts>>
  <2>1. intervals' \in [Tids -> [lo : 1 .. MaxTs, hi : TS]]
    <3>1. /\ intervals \in [Tids -> [lo : 1 .. MaxTs, hi : TS]]
          /\ intervals' = [intervals EXCEPT ![call.tid] = Hull(intervals[call.tid], cur_ts + 1, call.hi)]
      BY <1>4 DEF TreeInv, CallOK, record
    <3>2. intervals[call.tid] \in [lo : 1 .. MaxTs, hi : TS]
      BY <1>2, <3>1
    <3>3. cur_ts + 1 \in Nat /\ cur_ts + 1 >= 1
      BY <1>2, MaxTsAssumption DEF TS
    <3>4. Hull(intervals[call.tid], cur_ts + 1, call.hi) \in [lo : 1 .. MaxTs, hi : TS]
      BY <1>2, <3>2, <3>3, HullType
    <3> QED
      BY <3>1, <3>4
  <2>2. NodesOK(nodes')
    BY <1>4 DEF TreeInv
  <2> QED
    BY <1>1, <1>4, <2>1, <2>2, EndKeeps
<1> QED
  BY <1>3, <1>4 DEF walk

\* What is recorded for a lock of tryLock.
LEMMA RecordType ==
    ASSUME TreeInv, pc \in Loops \cup {"lock"}, call.op = "tryLock", record(call.lo)
    PROVE  intervals' \in [Tids -> [lo : 1 .. MaxTs, hi : TS]]
<1>1. /\ intervals \in [Tids -> [lo : 1 .. MaxTs, hi : TS]]
      /\ intervals' = [intervals EXCEPT ![call.tid] = Hull(intervals[call.tid], call.lo, call.hi)]
      /\ call.tid \in Tids /\ call.lo \in TS /\ call.hi \in TS /\ call.lo # 0
  BY TopFacts DEF TreeInv, CallOK, record
<1>2. intervals[call.tid] \in [lo : 1 .. MaxTs, hi : TS]
  BY <1>1
<1>3. call.lo \in Nat /\ call.lo >= 1
  BY <1>1, MaxTsAssumption DEF TS
<1>4. Hull(intervals[call.tid], call.lo, call.hi) \in [lo : 1 .. MaxTs, hi : TS]
  BY <1>1, <1>2, <1>3, HullType
<1> QED
  BY <1>1, <1>4

\* The round of the first loop of tryLock.
LEMMA SearchKeeps == ASSUME TreeInv, search PROVE TreeInv'
<1> DEFINE n == Last(locks)
           A == DOMAIN nodes
<1>1. /\ pc = "search" /\ pc \in Loops
      /\ UNCHANGED <<nodes, tree, root, call, at, from, locks, cur_ts, ends>>
  BY DEF search, Loops
<1>2. locks # <<>> /\ n \in A /\ cur_ts \in nodes[n].start .. nodes[n].end /\ cur_ts \in TS
  BY <1>1, TopFacts
<1>3. /\ NodesOK(nodes) /\ call.op = "tryLock" /\ call.lo <= call.hi /\ cur_ts = call.hi
      /\ \E m \in A : nodes[m].start <= call.lo /\ call.hi <= nodes[m].end
  BY <1>1 DEF TreeInv, StackOK, CallOK, OpsAt
<1>4. CASE pc' = "lock" /\ after' = "lock" /\ UNCHANGED intervals
  <2>1. pc' \notin Loops /\ pc' \notin Grows /\ pc \notin Grows /\ Linked = A /\ Linked' = A
        /\ pc' \notin {"find", "idle", "search"}
    BY <1>1, <1>4 DEF Loops, Grows, Linked
  <2>2. nodes[n].start <= call.lo /\ call.hi <= nodes[n].end
    <3>1. PICK m \in A : nodes[m].start <= call.lo /\ call.hi <= nodes[m].end
      BY <1>3
    <3>2. m = n
      <4>1. /\ nodes[m].start \in Int /\ nodes[m].end \in Int /\ call.hi \in Int /\ call.lo \in Int
        BY <1>1, <3>1, InvFacts, TopFacts
      <4>2. call.hi \in nodes[m].start .. nodes[m].end /\ call.hi \in nodes[n].start .. nodes[n].end
        BY <1>2, <1>3, <3>1, <4>1
      <4> QED
        BY <1>2, <1>3, <4>1, <4>2, SameNode
    <3> QED
      BY <3>1, <3>2
  <2>3. CallOK'
    BY <1>1, <1>3, <1>4, <2>1 DEF TreeInv, CallOK
  <2>4. PlacesOK'
    BY <1>1, <1>4, <2>1 DEF TreeInv, PlacesOK, Grows
  <2>5. StackOK'
    BY <1>1, <1>2, <1>3, <1>4, <2>1, <2>2 DEF TreeInv, StackOK
  <2>6. TreeOK'
    <3>1. PICK sub : Subtrees(sub)
      BY DEF TreeInv, TreeOK
    <3>2. Subtrees(sub)'
      BY <1>1, <1>4, <2>1, <3>1 DEF Subtrees, Grows
    <3> QED
      BY <3>2 DEF TreeOK
  <2> QED
    BY <1>1, <1>3, <2>3, <2>4, <2>5, <2>6 DEF TreeInv
<1>5. CASE pc' = "return" /\ (record(call.lo) \/ UNCHANGED intervals)
  <2>1. intervals' \in [Tids -> [lo : 1 .. MaxTs, hi : TS]]
    BY <1>1, <1>3, <1>5, RecordType DEF TreeInv, CallOK
  <2> QED
    BY <1>1, <1>3, <1>5, <2>1, EndKeeps
<1> QED
  BY <1>4, <1>5 DEF search

\* The second loop of tryLock cuts the interval out and locks it.
LEMMA LockKeeps == ASSUME TreeInv, lock PROVE TreeInv'
<1> DEFINE n     == Last(locks)
           above == [nodes[n] EXCEPT !.start = call.lo]
           below == [nodes[n] EXCEPT !.end = call.lo - 1]
           left  == [nodes[n] EXCEPT !.end = call.hi]
           right == [nodes[n] EXCEPT !.start = call.hi + 1]
<1>1. pc = "lock" /\ UNCHANGED <<root, call, after, from, locks, cur_ts, ends, res>>
  BY DEF lock
<1>2. /\ locks # <<>> /\ n \in DOMAIN nodes /\ nodes[n] \in LockNode
      /\ call.lo \in TS /\ call.hi \in TS /\ call.tid \in Tids
  BY <1>1, TopFacts
<1>3. /\ nodes[n].start <= call.lo /\ call.hi <= nodes[n].end /\ call.lo <= call.hi
      /\ call.op = "tryLock" /\ call.lo # 0
  <2>1. call.op = "tryLock"
    BY <1>1 DEF TreeInv, CallOK
  <2> QED
    BY <1>1, <2>1 DEF TreeInv, StackOK, CallOK, Asked
<1>4. /\ nodes[n].start \in 0 .. MaxTs /\ nodes[n].end \in 0 .. MaxTs /\ MaxTs \in Nat /\ TS = 0 .. MaxTs
  BY <1>2, InvFacts
<1>5. n # 1
  <2>1. call.lo >= 1 /\ call.lo \in nodes[n].start .. nodes[n].end
    BY <1>2, <1>3, <1>4
  <2> QED
    BY <1>2, <2>1, NotFirst
<1>6. CASE nodes[n].start < call.lo /\ Cut(n, above, below) /\ UNCHANGED intervals
  <2>1. above \in LockNode /\ below \in LockNode
    BY <1>2, <1>3, <1>4 DEF LockNode
  <2>2. /\ below.start = nodes[n].start /\ below.end = call.lo - 1
        /\ above.start = (call.lo - 1) + 1 /\ above.end = nodes[n].end
        /\ above.start = call.lo
    BY <1>2, <1>4 DEF LockNode
  <2>3. call.lo - 1 \in Int /\ nodes[n].start <= call.lo - 1 /\ call.lo - 1 < nodes[n].end
    BY <1>2, <1>3, <1>4, <1>6
  <2>4. above.start <= call.lo /\ call.hi <= above.end
    BY <1>2, <1>3, <1>4, <2>2
  <2> HIDE DEF n, above, below
  <2> QED
    BY <1>1, <1>2, <1>5, <1>6, <2>1, <2>2, <2>3, <2>4, CutKeeps DEF n
<1>7. CASE /\ nodes[n].start >= call.lo /\ nodes[n].end > call.hi /\ Cut(n, left, right)
           /\ UNCHANGED intervals
  <2>1. left \in LockNode /\ right \in LockNode
    BY <1>2, <1>3, <1>4, <1>7 DEF LockNode
  <2>2. /\ left.start = nodes[n].start /\ left.end = call.hi
        /\ right.start = call.hi + 1 /\ right.end = nodes[n].end
    BY <1>2, <1>4 DEF LockNode
  <2>3. call.hi \in Int /\ nodes[n].start <= call.hi /\ call.hi < nodes[n].end
    BY <1>2, <1>3, <1>4, <1>7
  <2>4. left.start <= call.lo /\ call.hi <= left.end
    BY <1>2, <1>3, <1>4, <2>2
  <2> HIDE DEF n, left, right
  <2> QED
    BY <1>1, <1>2, <1>5, <1>7, <2>1, <2>2, <2>3, <2>4, CutKeeps DEF n
<1>8. CASE /\ nodes' = [nodes EXCEPT ![n] = Taken(@)] /\ record(call.lo) /\ pc' = "return"
           /\ UNCHANGED <<tree, at>>
  <2>1. nodes' = [nodes EXCEPT ![n] = Taken(nodes[n])]
    BY <1>8
  <2>2. /\ Taken(nodes[n]) \in LockNode
        /\ Taken(nodes[n]).start = nodes[n].start /\ Taken(nodes[n]).end = nodes[n].end
    BY <1>1, <1>2, TakenType
  <2>3. /\ NodesOK(nodes') /\ DOMAIN nodes' = DOMAIN nodes
        /\ \A m \in DOMAIN nodes :
              nodes'[m].start = nodes[m].start /\ nodes'[m].end = nodes[m].end
    <3> HIDE DEF n
    <3> QED
      BY <1>2, <1>5, <2>1, <2>2, ChangeOne
  <2>4. intervals' \in [Tids -> [lo : 1 .. MaxTs, hi : TS]]
    BY <1>1, <1>3, <1>8, RecordType
  <2> QED
    BY <1>1, <1>8, <2>3, <2>4, EndKeeps
<1> QED
  BY <1>6, <1>7, <1>8 DEF lock

\* A round of freeze or unlock.
LEMMA ReleaseKeeps == ASSUME TreeInv, release PROVE TreeInv'
<1> DEFINE n     == Last(locks)
           owned == Locked(nodes[n]) /\ call.tid \in nodes[n].tids
           freed == IF call.op = "freeze" THEN FreezeNode(nodes[n])
                    ELSE [nodes[n] EXCEPT !.status = "FREE", !.tids = @ \ {call.tid}]
<1>1. pc = "release" /\ pc \in Loops /\ UNCHANGED <<tree, root, call, from, res>>
  BY DEF release, Loops
<1>2. /\ locks # <<>> /\ n \in DOMAIN nodes /\ nodes[n] \in LockNode
      /\ cur_ts \in nodes[n].start .. nodes[n].end /\ cur_ts \in TS /\ call.tid \in Tids
      /\ call.lo \in TS
  BY <1>1, TopFacts
<1>3. /\ call.lo # 0 /\ intervals \in [Tids -> [lo : 1 .. MaxTs, hi : TS]]
  <2>1. call.op \in {"freeze", "unlock"}
    BY <1>1 DEF TreeInv, CallOK, OpsAt
  <2> QED
    BY <2>1 DEF TreeInv, CallOK, Asked
<1>4. CASE /\ cur_ts >= call.lo /\ nodes' = (IF owned THEN [nodes EXCEPT ![n] = freed] ELSE nodes)
           /\ previous(n) /\ UNCHANGED intervals
  <2>1. n # 1
    <3>1. cur_ts >= 1
      BY <1>2, <1>3, <1>4, MaxTsAssumption DEF TS
    <3> QED
      BY <1>2, <3>1, NotFirst
  <2>2. freed \in LockNode /\ freed.start = nodes[n].start /\ freed.end = nodes[n].end
    BY <1>2 DEF FreezeNode, LockNode, LockStatus
  <2>3. /\ NodesOK(nodes') /\ DOMAIN nodes' = DOMAIN nodes
        /\ \A m \in DOMAIN nodes :
              nodes'[m].start = nodes[m].start /\ nodes'[m].end = nodes[m].end
    <3>1. CASE nodes' = nodes
      BY <3>1 DEF TreeInv
    <3>2. CASE nodes' = [nodes EXCEPT ![n] = freed]
      <4> HIDE DEF n, freed
      <4> QED
        BY <1>2, <2>1, <2>2, <3>2, ChangeOne
    <3> QED
      BY <1>4, <3>1, <3>2
  <2> QED
    BY <1>1, <1>4, <2>1, <2>3, PreviousKeeps
<1>5. CASE /\ intervals' = [intervals EXCEPT ![call.tid] = NoInterval] /\ pc' = "return"
           /\ UNCHANGED <<nodes, at, after, locks, cur_ts, ends>>
  <2>1. intervals' \in [Tids -> [lo : 1 .. MaxTs, hi : TS]]
    <3>1. NoInterval \in [lo : 1 .. MaxTs, hi : TS]
      BY MaxTsAssumption DEF NoInterval, TS
    <3> QED
      BY <1>3, <1>5, <3>1
  <2>2. NodesOK(nodes')
    BY <1>5 DEF TreeInv
  <2> QED
    BY <1>1, <1>5, <2>1, <2>2, EndKeeps
<1> QED
  BY <1>4, <1>5 DEF release

\* The call is over.
LEMMA ReturnKeeps == ASSUME TreeInv, return PROVE TreeInv'
<1> DEFINE A == DOMAIN nodes
<1>1. /\ pc = "return" /\ pc' = "idle" /\ call' = NoCall /\ locks' = <<>>
      /\ UNCHANGED <<nodes, tree, root, intervals>>
  BY DEF return
<1>2. /\ pc' \notin Loops /\ pc' \notin Grows /\ pc \notin Grows /\ Linked = A /\ Linked' = A
      /\ call'.op = "none" /\ call'.op \notin Asked
  BY <1>1, InvFacts DEF Loops, Grows, Linked, NoCall, Asked
<1>3. CallOK'
  BY <1>1, <1>2 DEF TreeInv, CallOK
<1>4. PlacesOK'
  BY <1>1, <1>2 DEF TreeInv, PlacesOK, Grows
<1>5. StackOK'
  <2>1. <<>> \in Seq(A)
    BY EmptySeq
  <2> QED
    BY <1>1, <1>2, <2>1 DEF StackOK
<1>6. TreeOK'
  <2>1. PICK sub : Subtrees(sub)
    BY DEF TreeInv, TreeOK
  <2>2. Subtrees(sub)'
    BY <1>1, <1>2, <2>1 DEF Subtrees, Grows
  <2> QED
    BY <2>2 DEF TreeOK
<1> QED
  BY <1>1, <1>3, <1>4, <1>5, <1>6 DEF TreeInv

\* A call starts with a search from the root.
LEMMA BeginKeeps ==
    ASSUME TreeInv, NEW op, NEW tid \in Tids, NEW lo \in TS, NEW hi \in TS,
           NEW is_read \in BOOLEAN, NEW next \in Loops, op \in OpsAt(next),
           op # "tryBackwardLock" => lo # 0,
           op = "tryLock" =>
              lo <= hi /\ \E n \in DOMAIN nodes : nodes[n].start <= lo /\ hi <= nodes[n].end,
           begin(op, tid, lo, hi, is_read, next)
    PROVE  TreeInv'
<1> DEFINE A == DOMAIN nodes
<1>1. /\ pc = "idle" /\ pc' = "find" /\ at' = root /\ cur_ts' = hi /\ after' = next
      /\ call'.op = op /\ call'.tid = tid /\ call'.lo = lo /\ call'.hi = hi
      /\ call'.is_read = is_read
      /\ UNCHANGED <<nodes, tree, root, intervals, from, locks, ends, res>>
  BY DEF begin
<1>2. /\ pc' \notin Loops /\ pc' \notin Grows /\ pc \notin Grows /\ Linked = A /\ Linked' = A
  BY <1>1, InvFacts DEF Loops, Grows, Linked
<1>3. /\ NodesOK(nodes) /\ Even(tree, A, {}) /\ locks = <<>>
      /\ root \in A /\ tree.parent[root] = null
  BY <1>1, <1>2 DEF TreeInv, StackOK, PlacesOK, Grows
<1>4. PICK sub : Subtrees(sub)
  BY DEF TreeInv, TreeOK
<1>5. IsTree(tree, nodes, A, A, sub)
  BY <1>2, <1>4 DEF Subtrees
<1>6. sub[root] = A
  BY <1>3, <1>5, TopUnique
<1>7. CallOK'
  BY <1>1, <1>2 DEF TreeInv, CallOK
<1>8. PlacesOK'
  BY <1>1, <1>2, <1>3 DEF PlacesOK
<1>9. StackOK'
  <2>1. <<>> \in Seq(A)
    BY EmptySeq
  <2> QED
    BY <1>1, <1>2, <1>3, <2>1 DEF StackOK
<1>10. Chain(nodes, sub, Append(<<>>, root))
  <2>1. Chain(nodes, sub, <<>>)
    BY EmptySeq DEF Chain
  <2>2. Lowest(nodes, sub, root, 0)
    <3>1. nodes[1].start = 0 /\ 1 \in A
      BY <1>3, InvFacts DEF NodesOK, Lock
    <3> QED
      BY <1>6, <3>1, InvFacts DEF Lowest
  <2>3. Since(nodes, <<>>) = 0 /\ <<>> \in Seq(A)
    BY EmptySeq DEF Since
  <2> QED
    BY <1>3, <2>1, <2>2, <2>3, ChainPush
<1>11. Aim(nodes, sub, root, hi)
  BY <1>3, <1>6 DEF Aim, NodesOK
<1>12. TreeOK'
  <2>1. Subtrees(sub)'
    BY <1>1, <1>2, <1>3, <1>5, <1>10, <1>11 DEF Subtrees, Grows
  <2> QED
    BY <2>1 DEF TreeOK
<1> QED
  BY <1>1, <1>3, <1>7, <1>8, <1>9, <1>12 DEF TreeInv

\* createKeyInfo starts with the first node as the whole tree and the second to be
\* hung.
LEMMA InitHolds == ASSUME Init PROVE TreeInv
<1> DEFINE sub == [x \in {null, 1} |-> IF x = null THEN {} ELSE {1}]
           first  == Lock(0, 0, "FREEZE_WRITE_LOCK")
           second == Lock(1, MaxTs, "FREE")
<1>1. /\ nodes = <<first, second>> /\ pc = "insert" /\ at = 1 /\ locks = <<>>
      /\ call.op = "createKeyInfo" /\ after = "return"
      /\ intervals = [x \in Tids |-> NoInterval]
      /\ tree = [child  |-> [n \in 1 .. 2 |-> [s \in Sides |-> null]],
                 parent |-> [n \in 1 .. 2 |-> null],
                 height |-> [n \in 1 .. 2 |-> [s \in Sides |-> 0]]]
  BY DEF Init, NoCall
<1>2. /\ first \in LockNode /\ second \in LockNode
      /\ first.start = 0 /\ first.end = 0 /\ second.start = 1 /\ second.end = MaxTs
  BY MaxTsAssumption DEF Lock, LockNode, LockStatus, TS
<1>3. /\ Len(nodes) = 2 /\ DOMAIN nodes = {1, 2} /\ nodes # <<>>
      /\ nodes[1] = first /\ nodes[2] = second
  BY <1>1
<1>4. nodes \in Seq(LockNode)
  BY <1>1, <1>2
<1>5. NodesOK(nodes)
  <2>1. \A ts \in TS : \E n \in DOMAIN nodes : ts \in nodes[n].start .. nodes[n].end
    <3> SUFFICES ASSUME NEW ts \in TS
                 PROVE  ts \in nodes[1].start .. nodes[1].end \/ ts \in nodes[2].start .. nodes[2].end
      BY <1>3
    <3> QED
      BY <1>2, <1>3, MaxTsAssumption DEF TS
  <2>2. \A m, n \in DOMAIN nodes :
           m # n => OnSide(nodes, "left", m, n) \/ OnSide(nodes, "left", n, m)
    BY <1>2, <1>3 DEF OnSide
  <2>3. Ordered(nodes, DOMAIN nodes)
    BY <1>2, <1>3, MaxTsAssumption DEF Ordered
  <2> QED
    BY <1>3, <1>4, <2>1, <2>2, <2>3 DEF NodesOK
<1>6. Linked = {1}
  BY <1>1, <1>3 DEF Linked
<1>7. \A n \in {1, 2}, s \in Sides : tree.child[n][s] = null /\ tree.height[n][s] = 0
  BY <1>1
<1>8. tree.parent[1] = null /\ null = 0
  BY <1>1 DEF null
<1>9. tree \in TreeOver({1, 2})
  <2>1. {1, 2} = 1 .. 2
    OBVIOUS
  <2> QED
    BY <1>1, <2>1 DEF TreeOver
<1>10. sub[1] = {1} /\ sub[null] = {} /\ sub \in [{1} \cup {null} -> SUBSET {1}]
  BY DEF null
<1> HIDE DEF sub, first, second
<1>11. Shape(tree, nodes, {1}, sub)
  <2>1. sub[1] = {1} \cup sub[tree.child[1]["left"]] \cup sub[tree.child[1]["right"]]
    BY <1>7, <1>10, SidesFact
  <2>2. ASSUME NEW s \in Sides
        PROVE  LET c == tree.child[1][s]
               IN  /\ c \in {1} \cup {null}
                   /\ c # null => tree.parent[c] = 1
                   /\ \A m \in sub[c] : OnSide(nodes, s, m, 1)
    BY <1>7, <1>10
  <2> QED
    BY <1>8, <1>10, <2>1, <2>2 DEF Shape
<1>12. IsTree(tree, nodes, DOMAIN nodes, Linked, sub)
  <2>1. IsFiniteSet(DOMAIN nodes) /\ null \notin DOMAIN nodes /\ Ordered(nodes, Linked)
    BY <1>3, <1>5, <1>6, NodeFields DEF NodesOK, Ordered
  <2> QED
    BY <1>3, <1>6, <1>9, <1>11, <2>1 DEF IsTree
<1>13. Placed(sub)
  <2>1. \A x \in Linked, s \in Sides : at \notin sub[tree.child[x][s]]
    BY <1>6, <1>7, <1>10
  <2> QED
    BY <1>3, <1>7, <2>1 DEF Placed
<1>14. TreeOK
  <2>1. Subtrees(sub)
    BY <1>1, <1>12, <1>13 DEF Subtrees, Loops
  <2> QED
    BY <2>1 DEF TreeOK
<1>15. CallOK
  <2>1. NoInterval \in [lo : 1 .. MaxTs, hi : TS]
    BY MaxTsAssumption DEF NoInterval, TS
  <2>2. intervals \in [Tids -> [lo : 1 .. MaxTs, hi : TS]]
    BY <1>1, <2>1
  <2> QED
    BY <1>1, <2>2 DEF CallOK, Asked, Loops
<1>16. PlacesOK
  <2>1. Even(tree, Linked, {})
    BY <1>6, <1>7, SidesFact DEF Even, Exact, Lean, Height
  <2> QED
    BY <1>1, <1>6, <2>1 DEF PlacesOK, Grows
<1>17. StackOK
  <2>1. <<>> \in Seq(DOMAIN nodes)
    BY EmptySeq
  <2> QED
    BY <1>1, <2>1 DEF StackOK, Loops
<1> QED
  BY <1>5, <1>14, <1>15, <1>16, <1>17 DEF TreeInv

\* The arguments that the calls have.
LEMMA BackwardKeeps ==
    ASSUME TreeInv, NEW tid \in Tids, NEW ts \in Times, NEW r \in BackwardModes,
           tryBackwardLock(tid, ts, r)
    PROVE  TreeInv'
<1>1. ts \in TS /\ 0 \in TS /\ r \in BOOLEAN
  BY TreeAssumption, MaxTsAssumption DEF TS
<1>2. "cut" \in Loops /\ "tryBackwardLock" \in OpsAt("cut")
  BY DEF Loops, OpsAt
<1>3. begin("tryBackwardLock", tid, 0, ts, r, "cut")
  BY DEF tryBackwardLock
<1> QED
  BY <1>1, <1>2, <1>3, BeginKeeps

\* A call of tryLock keeps the invariant.
LEMMA TryKeeps ==
    ASSUME TreeInv, NEW tid \in Tids, NEW i \in Intervals, NEW r \in PointModes,
           tryLock(tid, i, r)
    PROVE  TreeInv'
<1>1. i.lo \in TS /\ i.hi \in TS /\ i.lo # 0 /\ r \in BOOLEAN
  BY TreeAssumption
<1>2. "search" \in Loops /\ "tryLock" \in OpsAt("search")
  BY DEF Loops, OpsAt
<1>3. /\ begin("tryLock", tid, i.lo, i.hi, r, "search")
      /\ \E n \in DOMAIN nodes : nodes[n].start <= i.lo /\ i.lo <= i.hi /\ i.hi <= nodes[n].end
  BY DEF tryLock
<1> QED
  BY <1>1, <1>2, <1>3, BeginKeeps

\* A call of freeze or unlock for a recorded interval keeps the invariant.
LEMMA FinishKeeps ==
    ASSUME TreeInv, NEW tid \in Tids, NEW op \in {"freeze", "unlock"}, finish(tid, op)
    PROVE  TreeInv'
<1>1. intervals \in [Tids -> [lo : 1 .. MaxTs, hi : TS]]
  BY DEF TreeInv, CallOK
<1>2. /\ intervals[tid].lo \in TS /\ intervals[tid].hi \in TS /\ intervals[tid].lo # 0
  BY <1>1, MaxTsAssumption DEF TS
<1>3. "release" \in Loops /\ op \in OpsAt("release")
  BY DEF Loops, OpsAt
<1>4. begin(op, tid, intervals[tid].lo, intervals[tid].hi, FALSE, "release")
  BY DEF finish
<1> QED
  BY <1>2, <1>3, <1>4, BeginKeeps

\* Every step keeps the invariant.
LEMMA TreeInvKept == TreeInv /\ [Next]_vars => TreeInv'
<1> SUFFICES ASSUME TreeInv, [Next]_vars PROVE TreeInv'
  OBVIOUS
<1>1. CASE find
  BY <1>1, FindKeeps
<1>2. CASE insert
  BY <1>2, InsertKeeps
<1>3. CASE balance
  BY <1>3, BalanceKeeps
<1>4. CASE getRoot
  BY <1>4, GetRootKeeps
<1>5. CASE cut
  BY <1>5, CutStepKeeps
<1>6. CASE walk
  BY <1>6, WalkKeeps
<1>7. CASE search
  BY <1>7, SearchKeeps
<1>8. CASE lock
  BY <1>8, LockKeeps
<1>9. CASE release
  BY <1>9, ReleaseKeeps
<1>10. CASE return
  BY <1>10, ReturnKeeps
<1>11. ASSUME NEW tid \in Tids, NEW ts \in Times, NEW r \in BackwardModes,
              tryBackwardLock(tid, ts, r)
       PROVE  TreeInv'
  BY <1>11, BackwardKeeps
<1>12. ASSUME NEW tid \in Tids, NEW i \in Intervals, NEW r \in PointModes, tryLock(tid, i, r)
       PROVE  TreeInv'
  BY <1>12, TryKeeps
<1>13. ASSUME NEW tid \in Tids, NEW op \in {"freeze", "unlock"}, finish(tid, op)
       PROVE  TreeInv'
  BY <1>13, FinishKeeps
<1>14. CASE UNCHANGED vars
  <2>1. /\ nodes' = nodes /\ tree' = tree /\ root' = root /\ intervals' = intervals
        /\ call' = call /\ pc' = pc /\ at' = at /\ after' = after /\ from' = from
        /\ locks' = locks /\ cur_ts' = cur_ts
    BY <1>14 DEF vars
  <2>2. CallOK' /\ StackOK'
    BY <2>1 DEF TreeInv, CallOK, StackOK
  <2>3. Linked' = Linked
    BY <2>1 DEF Linked
  <2>4. PlacesOK'
    BY <2>1, <2>3 DEF TreeInv, PlacesOK
  <2>5. TreeOK'
    <3>1. PICK sub : Subtrees(sub)
      BY DEF TreeInv, TreeOK
    <3>2. Subtrees(sub)'
      BY <2>1, <2>3, <3>1 DEF Subtrees, Placed
    <3> QED
      BY <3>2 DEF TreeOK
  <2> QED
    BY <2>1, <2>2, <2>4, <2>5 DEF TreeInv
<1> QED
  BY <1>1, <1>2, <1>3, <1>4, <1>5, <1>6, <1>7, <1>8, <1>9, <1>10, <1>11, <1>12, <1>13, <1>14
     DEF Next

\* The invariant of the tree and of the walks over it.
THEOREM TreeInvariant == Spec => []TreeInv
<1>1. Init => TreeInv
  BY InitHolds
<1> QED
  BY <1>1, TreeInvKept, PTL DEF Spec

\* The links of the invariant are those the property looks at.
LEMMA InvBalanced == TreeInv => Balanced
<1> SUFFICES ASSUME TreeInv, pc \notin {"insert", "balance", "getRoot"}
             PROVE  IsBalanced(tree, root, DOMAIN nodes)
  BY DEF Balanced
<1> DEFINE D == DOMAIN nodes
           below == Below(tree, D)
<1>1. Linked = D /\ pc \notin Grows /\ pc # "balance"
  BY InvFacts DEF Grows
<1>2. PICK sub : IsTree(tree, nodes, D, D, sub)
  BY <1>1 DEF TreeInv, TreeOK, Subtrees
<1>3. root \in D /\ tree.parent[root] = null /\ Even(tree, D, {})
  BY <1>1 DEF TreeInv, PlacesOK
<1>4. \A n \in D : below[n] = sub[n]
  BY <1>2, SubIsBelow
<1>5. below[root] = D
  BY <1>2, <1>3, <1>4, TopUnique
<1> HIDE DEF below
<1>6. ASSUME NEW n \in D, NEW s \in Sides
      PROVE  LET c == tree.child[n][s]
             IN  /\ c # null => /\ c \in D /\ tree.parent[c] = n
                                /\ \A m \in below[c] : OnSide(nodes, s, m, n)
                 /\ tree.height[n][s] = Height(tree, c)
                 /\ Lean(tree, n, s) <= 1
  <2> DEFINE c == tree.child[n][s]
  <2>1. /\ c \in D \cup {null} /\ (c # null => tree.parent[c] = n)
        /\ \A m \in sub[c] : OnSide(nodes, s, m, n)
    BY <1>2 DEF IsTree, Shape
  <2>2. tree.height[n][s] = Height(tree, c) /\ Lean(tree, n, s) <= 1
    BY <1>3 DEF Even, Exact
  <2> QED
    BY <1>4, <2>1, <2>2
<1> QED
  BY <1>3, <1>5, <1>6 DEF IsBalanced, below

\* Between the calls to insert the tree is a balanced search tree of all nodes.
THEOREM TreeBalanced == Spec => []Balanced
BY TreeInvariant, InvBalanced, PTL

\* find leaves the node the loop has got to on the top of the stack.
THEOREM FindFindsNode == Spec => []FindWorks
<1>1. TreeInv => FindWorks
  BY DEF TreeInv, StackOK, FindWorks, Loops
<1> QED
  BY <1>1, TreeInvariant, PTL

-----------------------------------------------------------------------------
(* The table of the nodes                                                   *)

\* What a table says of a node.
Entry(n) == [end |-> n.end, status |-> n.status, tids |-> n.tids]

\* The nodes have different starts, so that the table has an entry for each.
LEMMA TableEntries ==
    ASSUME NEW ns, NodesOK(ns)
    PROVE  /\ DOMAIN Table(ns) = {ns[n].start : n \in DOMAIN ns}
           /\ Table(ns) = [s \in DOMAIN Table(ns) |-> Table(ns)[s]]
           /\ \A n \in DOMAIN ns : Table(ns)[ns[n].start] = Entry(ns[n])
<1>1. \A n \in DOMAIN ns : ns[n].start \in Int /\ ns[n].start \in ns[n].start .. ns[n].end
  BY NodeFields, MaxTsAssumption
<1>2. \A m, n \in DOMAIN ns : ns[m].start = ns[n].start => m = n
  <2> SUFFICES ASSUME NEW m \in DOMAIN ns, NEW n \in DOMAIN ns, ns[m].start = ns[n].start
               PROVE  m = n
    OBVIOUS
  <2>1. m # n => OnSide(ns, "left", m, n) \/ OnSide(ns, "left", n, m)
    BY DEF NodesOK
  <2> QED
    BY <2>1, NodeFields, MaxTsAssumption DEF OnSide
<1>3. ASSUME NEW n \in DOMAIN ns
      PROVE  Table(ns)[ns[n].start] = Entry(ns[n])
  <2> DEFINE s == ns[n].start
             m == CHOOSE m \in DOMAIN ns : ns[m].start = s
  <2>1. m \in DOMAIN ns /\ ns[m].start = s
    OBVIOUS
  <2>2. m = n
    BY <1>2, <2>1
  <2>3. Table(ns)[s] = [end |-> ns[m].end, status |-> ns[m].status, tids |-> ns[m].tids]
    BY DEF Table
  <2> QED
    BY <2>2, <2>3 DEF Entry
<1> QED
  BY <1>3 DEF Table

\* The table is a good one.
LEMMA TableGood ==
    ASSUME NEW ns, NodesOK(ns)
    PROVE  GoodTable(Table(ns))
<1> DEFINE t == Table(ns)
<1>1. /\ DOMAIN t = {ns[n].start : n \in DOMAIN ns}
      /\ t = [s \in DOMAIN t |-> t[s]]
      /\ \A n \in DOMAIN ns : t[ns[n].start] = Entry(ns[n])
  BY TableEntries
<1> HIDE DEF t
<1>2. /\ \A n \in DOMAIN ns :
            /\ ns[n] \in LockNode /\ ns[n].start \in Int /\ ns[n].end \in Int
            /\ ns[n].start <= ns[n].end
            /\ ns[n].start \in TS
      /\ 1 \in DOMAIN ns
  BY NodeFields, MaxTsAssumption DEF TS
<1>3. \A n \in DOMAIN ns : Entry(ns[n]) \in Node /\ Entry(ns[n]).end = ns[n].end
  BY <1>2 DEF Entry, Node, LockNode
<1>4. IsTable(t)
  BY <1>1, <1>2, <1>3 DEF IsTable
<1>5. Tiles(t)
  <2>1. \A ts \in TS : \E s \in DOMAIN t : s <= ts /\ ts <= t[s].end
    <3> SUFFICES ASSUME NEW ts \in TS PROVE \E s \in DOMAIN t : s <= ts /\ ts <= t[s].end
      OBVIOUS
    <3>1. PICK n \in DOMAIN ns : ts \in ns[n].start .. ns[n].end
      BY DEF NodesOK
    <3> QED
      BY <1>1, <1>2, <1>3, <3>1
  <2>2. \A s \in DOMAIN t : s <= t[s].end
    BY <1>1, <1>2, <1>3
  <2>3. \A s, r \in DOMAIN t : s < r => t[s].end < r
    <3> SUFFICES ASSUME NEW m \in DOMAIN ns, NEW n \in DOMAIN ns, ns[m].start < ns[n].start
                 PROVE  ns[m].end < ns[n].start
      BY <1>1, <1>3
    <3>1. OnSide(ns, "left", m, n) \/ OnSide(ns, "left", n, m)
      BY <1>2 DEF NodesOK
    <3> QED
      BY <1>2, <3>1 DEF OnSide
  <2> QED
    BY <2>1, <2>2, <2>3 DEF Tiles
<1>6. InitialVersion(t)
  <2>1. ns[1] = [start |-> 0, end |-> 0, status |-> "FREEZE_WRITE_LOCK", tids |-> {}]
    BY DEF NodesOK, Lock
  <2>2. 0 \in DOMAIN t /\ t[0] = Entry(ns[1])
    <3>1. ns[1].start = 0
      BY <2>1
    <3> QED
      BY <1>1, <1>2, <3>1
  <2> QED
    BY <2>1, <2>2 DEF InitialVersion, Entry
<1> QED
  BY <1>4, <1>5, <1>6 DEF GoodTable, t

\* The node that contains a time is the one the table has for it.
LEMMA TableAt ==
    ASSUME NEW ns, NodesOK(ns), NEW n \in DOMAIN ns, NEW ts \in TS,
           ts \in ns[n].start .. ns[n].end
    PROVE  /\ StartOf(Table(ns), ts) = ns[n].start
           /\ StatusAt(Table(ns), ts) = ns[n].status
<1>1. Table(ns)[ns[n].start] = Entry(ns[n]) /\ ns[n].start \in DOMAIN Table(ns)
  BY TableEntries
<1>2. ns[n].start <= ts /\ ts <= Table(ns)[ns[n].start].end
  BY <1>1, NodeFields, MaxTsAssumption DEF Entry
<1>3. StartOf(Table(ns), ts) = ns[n].start
      /\ StatusAt(Table(ns), ts) = Table(ns)[ns[n].start].status
  BY <1>1, <1>2, TableGood, NodeAt
<1> QED
  BY <1>1, <1>3 DEF Entry

\* The entries make the table.
LEMMA TableIs ==
    ASSUME NEW ns, NodesOK(ns), NEW t, t = [s \in DOMAIN t |-> t[s]],
           DOMAIN t = {ns[n].start : n \in DOMAIN ns},
           \A n \in DOMAIN ns : t[ns[n].start] = Entry(ns[n])
    PROVE  Table(ns) = t
<1>1. /\ DOMAIN Table(ns) = DOMAIN t
      /\ Table(ns) = [s \in DOMAIN Table(ns) |-> Table(ns)[s]]
  BY TableEntries
<1>2. ASSUME NEW s \in DOMAIN t
      PROVE  Table(ns)[s] = t[s]
  <2>1. PICK n \in DOMAIN ns : s = ns[n].start
    OBVIOUS
  <2>2. Table(ns)[ns[n].start] = Entry(ns[n])
    BY TableEntries
  <2> QED
    BY <2>1, <2>2
<1> QED
  BY <1>1, <1>2

\* A new status or owner of a node is one of its entry.
LEMMA TableChanged ==
    ASSUME NEW ns, NodesOK(ns), NEW n \in DOMAIN ns, n # 1, NEW new \in LockNode,
           new.start = ns[n].start, new.end = ns[n].end
    PROVE  Table([ns EXCEPT ![n] = new]) = [Table(ns) EXCEPT ![ns[n].start] = Entry(new)]
<1> DEFINE ms == [ns EXCEPT ![n] = new]
           t  == Table(ns)
           u  == [t EXCEPT ![ns[n].start] = Entry(new)]
<1>1. /\ NodesOK(ms) /\ DOMAIN ms = DOMAIN ns
      /\ \A m \in DOMAIN ns : ms[m].start = ns[m].start /\ ms[m].end = ns[m].end
      /\ \A m \in DOMAIN ns : ms[m] = IF m = n THEN new ELSE ns[m]
  BY NodesChanged
<1> HIDE DEF ms
<1>2. /\ DOMAIN t = {ns[m].start : m \in DOMAIN ns}
      /\ \A m \in DOMAIN ns : t[ns[m].start] = Entry(ns[m])
  BY TableEntries
<1>3. \A m \in DOMAIN ns : ns[m].start = ns[n].start => m = n
  <2> SUFFICES ASSUME NEW m \in DOMAIN ns, ns[m].start = ns[n].start PROVE m = n
    OBVIOUS
  <2>1. m # n => OnSide(ns, "left", m, n) \/ OnSide(ns, "left", n, m)
    BY DEF NodesOK
  <2> QED
    BY <2>1, NodeFields, MaxTsAssumption DEF OnSide
<1> HIDE DEF t
<1>4. /\ DOMAIN u = DOMAIN t /\ u = [s \in DOMAIN u |-> u[s]]
      /\ \A s \in DOMAIN t : u[s] = IF s = ns[n].start THEN Entry(new) ELSE t[s]
  OBVIOUS
<1> HIDE DEF u
<1>5. {ms[m].start : m \in DOMAIN ms} = {ns[m].start : m \in DOMAIN ns}
  BY <1>1
<1>6. \A m \in DOMAIN ms : u[ms[m].start] = Entry(ms[m])
  BY <1>1, <1>2, <1>3, <1>4
<1> QED
  BY <1>1, <1>2, <1>4, <1>5, <1>6, TableIs DEF u, t, ms

\* A node cut in two is a split entry, whichever part the new node takes.
LEMMA TableCut ==
    ASSUME NEW ns, NodesOK(ns), NEW n \in DOMAIN ns, n # 1,
           NEW old \in LockNode, NEW new \in LockNode, NEW ts \in Int,
           ns[n].start <= ts, ts < ns[n].end,
           \/ /\ old.start = ns[n].start /\ old.end = ts
              /\ new.start = ts + 1 /\ new.end = ns[n].end
           \/ /\ new.start = ns[n].start /\ new.end = ts
              /\ old.start = ts + 1 /\ old.end = ns[n].end,
           old.status = ns[n].status, old.tids = ns[n].tids,
           new.status = ns[n].status, new.tids = ns[n].tids
    PROVE  Table(Append([ns EXCEPT ![n] = old], new)) = Split(Table(ns), ns[n].start, ts)
<1> DEFINE ms  == Append([ns EXCEPT ![n] = old], new)
           end == Len(ns) + 1
           t   == Table(ns)
           s   == ns[n].start
           u   == Split(t, s, ts)
<1>1. /\ NodesOK(ms)
      /\ DOMAIN ms = DOMAIN ns \cup {end} /\ end \notin DOMAIN ns
      /\ ms[end] = new /\ ms[n] = old
      /\ \A m \in DOMAIN ns \ {n} : ms[m] = ns[m]
  BY NodesCut
<1> HIDE DEF ms, end
<1>2. /\ DOMAIN t = {ns[m].start : m \in DOMAIN ns}
      /\ \A m \in DOMAIN ns : t[ns[m].start] = Entry(ns[m])
  BY TableEntries
<1> HIDE DEF t
<1>3. \A m \in DOMAIN ns \ {n} : ns[m].start # s /\ ns[m].start # ts + 1
  <2> SUFFICES ASSUME NEW m \in DOMAIN ns, m # n PROVE ns[m].start # s /\ ns[m].start # ts + 1
    OBVIOUS
  <2>1. OnSide(ns, "left", m, n) \/ OnSide(ns, "left", n, m)
    BY DEF NodesOK
  <2>2. /\ ns[m].start \in Int /\ ns[m].end \in Int /\ ns[m].start <= ns[m].end
        /\ ns[n].start \in Int /\ ns[n].end \in Int
    BY NodeFields, MaxTsAssumption
  <2> QED
    BY <2>1, <2>2 DEF OnSide
<1>4. s \in Int /\ ns[n].end \in Int /\ s # ts + 1
  BY NodeFields, MaxTsAssumption
<1>5. /\ DOMAIN u = DOMAIN t \cup {ts + 1} /\ u = [x \in DOMAIN u |-> u[x]]
      /\ \A x \in DOMAIN u : u[x] = IF x = ts + 1 THEN t[s]
                                    ELSE IF x = s THEN [t[s] EXCEPT !.end = ts] ELSE t[x]
  BY DEF Split
<1> HIDE DEF u
<1>6. /\ t[s] = [end |-> ns[n].end, status |-> ns[n].status, tids |-> ns[n].tids]
      /\ s \in DOMAIN t
  BY <1>2 DEF Entry
<1>7. /\ u[ts + 1] = [end |-> ns[n].end, status |-> ns[n].status, tids |-> ns[n].tids]
      /\ u[s] = [end |-> ts, status |-> ns[n].status, tids |-> ns[n].tids]
  BY <1>4, <1>5, <1>6
<1>8. /\ u[ms[n].start] = Entry(ms[n]) /\ u[ms[end].start] = Entry(ms[end])
      /\ {ms[n].start, ms[end].start} = {s, ts + 1}
  BY <1>1, <1>7 DEF Entry
<1>9. ASSUME NEW m \in DOMAIN ns, m # n
      PROVE  u[ms[m].start] = Entry(ms[m])
  <2>1. ms[m] = ns[m] /\ ns[m].start # s /\ ns[m].start # ts + 1 /\ ns[m].start \in DOMAIN u
    BY <1>1, <1>2, <1>3, <1>5, <1>9
  <2>2. u[ns[m].start] = t[ns[m].start]
    BY <1>5, <2>1
  <2> QED
    BY <1>2, <2>1, <2>2
<1>10. DOMAIN u = {ms[m].start : m \in DOMAIN ms}
  <2> DEFINE R == {ns[m].start : m \in DOMAIN ns \ {n}}
  <2>1. DOMAIN t = R \cup {s}
    BY <1>2
  <2>2. R = {ms[m].start : m \in DOMAIN ns \ {n}}
    BY <1>1
  <2>3. {ms[m].start : m \in DOMAIN ms} =
           {ms[m].start : m \in DOMAIN ns \ {n}} \cup {ms[n].start, ms[end].start}
    BY <1>1
  <2> HIDE DEF R
  <2> QED
    BY <1>5, <1>8, <2>1, <2>2, <2>3
<1> HIDE DEF s
<1>11. \A m \in DOMAIN ms : u[ms[m].start] = Entry(ms[m])
  BY <1>1, <1>8, <1>9
<1>12. Table(ms) = u
  BY <1>1, <1>5, <1>10, <1>11, TableIs
<1> QED
  BY <1>12 DEF u, t, s, ms

-----------------------------------------------------------------------------
(* The walks over a table                                                   *)

\* What tryBackwardLock has done to the table b when it has got from hi down to ts.
WalkOf(t, b, ts, hi, tid, is_read) ==
    /\ t = Grab(b, {s \in DOMAIN b : ts < s /\ s <= hi /\ Lockable(b[s].status, is_read)},
                tid, LockedStatus(is_read))
    /\ \A s \in DOMAIN b : ts < s /\ s <= hi => Passable(b[s].status, is_read)
    /\ ts <= hi /\ (ts = hi \/ ts + 1 \in DOMAIN b)

\* The numbers of a table.
LEMMA TableNumbers ==
    ASSUME NEW b, GoodTable(b)
    PROVE  /\ b = [s \in DOMAIN b |-> b[s]]
           /\ \A s \in DOMAIN b :
                 /\ s \in Int /\ s >= 0 /\ b[s].end \in Int /\ s <= b[s].end /\ s \in TS
                 /\ b[s] \in Node
           /\ \A s, r \in DOMAIN b : s < r => b[s].end < r
BY MaxTsAssumption DEF GoodTable, IsTable, Tiles, Node, TS

\* At the start nothing is done.
LEMMA WalkStarts ==
    ASSUME NEW b, GoodTable(b), NEW hi \in TS, NEW tid, NEW is_read
    PROVE  WalkOf(b, b, hi, hi, tid, is_read)
<1> DEFINE S == {s \in DOMAIN b : hi < s /\ s <= hi /\ Lockable(b[s].status, is_read)}
<1>1. hi \in Int
  BY MaxTsAssumption DEF TS
<1>2. S = {} /\ \A s \in DOMAIN b : ~(hi < s /\ s <= hi)
  BY <1>1, TableNumbers
<1> HIDE DEF S
<1>3. Grab(b, S, tid, LockedStatus(is_read)) = b
  BY <1>2, TableNumbers DEF Grab
<1> QED
  BY <1>1, <1>2, <1>3 DEF WalkOf, S

\* What is at ts or below is as it was.
LEMMA WalkAhead ==
    ASSUME NEW b, GoodTable(b), NEW t, NEW ts \in TS, NEW hi, NEW tid, NEW is_read,
           WalkOf(t, b, ts, hi, tid, is_read)
    PROVE  DOMAIN t = DOMAIN b /\ \A s \in DOMAIN b : s <= ts => t[s] = b[s]
<1>1. ts \in Int
  BY MaxTsAssumption DEF TS
<1> DEFINE S == {s \in DOMAIN b : ts < s /\ s <= hi /\ Lockable(b[s].status, is_read)}
<1>2. \A s \in DOMAIN b : s <= ts => s \notin S
  BY <1>1, TableNumbers
<1>3. t = Grab(b, S, tid, LockedStatus(is_read))
  BY DEF WalkOf
<1> HIDE DEF S
<1> QED
  BY <1>2, <1>3 DEF Grab

\* A round adds the node at ts.
LEMMA WalkGoesOn ==
    ASSUME NEW b, GoodTable(b), NEW t, NEW ts \in TS, NEW hi \in TS, NEW tid, NEW is_read,
           WalkOf(t, b, ts, hi, tid, is_read),
           NEW s \in DOMAIN b, s <= ts, ts <= b[s].end, Passable(b[s].status, is_read),
           NEW u,
           u = IF Lockable(b[s].status, is_read)
               THEN [t EXCEPT ![s] = [b[s] EXCEPT !.status = LockedStatus(is_read),
                                                  !.tids = @ \cup {tid}]]
               ELSE t
    PROVE  WalkOf(u, b, s - 1, hi, tid, is_read)
<1> DEFINE In(y)  == {x \in DOMAIN b : y < x /\ x <= hi /\ Lockable(b[x].status, is_read)}
           taken(x) == [b[x] EXCEPT !.status = LockedStatus(is_read), !.tids = @ \cup {tid}]
<1>1. ts \in Int /\ hi \in Int /\ s \in Int /\ ts <= hi
  BY MaxTsAssumption, TableNumbers DEF TS, WalkOf
<1>2. \A x \in DOMAIN b : s - 1 < x /\ x <= hi <=> x = s \/ (ts < x /\ x <= hi)
  <2> SUFFICES ASSUME NEW x \in DOMAIN b
               PROVE  s - 1 < x /\ x <= hi <=> x = s \/ (ts < x /\ x <= hi)
    OBVIOUS
  <2>1. x \in Int /\ (s < x => b[s].end < x) /\ b[s].end \in Int
    BY TableNumbers
  <2> QED
    BY <1>1, <2>1
<1>3. In(s - 1) = In(ts) \cup {x \in {s} : Lockable(b[x].status, is_read)} /\ s \notin In(ts)
  BY <1>1, <1>2
<1>4. /\ DOMAIN t = DOMAIN b /\ t = [x \in DOMAIN b |-> t[x]]
      /\ \A x \in DOMAIN b : t[x] = IF x \in In(ts) THEN taken(x) ELSE b[x]
  <2>1. t = [x \in DOMAIN b |-> IF x \in In(ts) THEN taken(x) ELSE b[x]]
    BY DEF WalkOf, Grab
  <2> HIDE DEF In, taken
  <2> QED
    BY <2>1
<1> DEFINE v == Grab(b, In(s - 1), tid, LockedStatus(is_read))
<1>5. /\ DOMAIN v = DOMAIN b /\ v = [x \in DOMAIN b |-> v[x]]
      /\ \A x \in DOMAIN b : v[x] = IF x \in In(s - 1) THEN taken(x) ELSE b[x]
  BY DEF Grab
<1> HIDE DEF v
<1>6. /\ DOMAIN u = DOMAIN b /\ u = [x \in DOMAIN b |-> u[x]]
      /\ \A x \in DOMAIN b : u[x] = IF x = s /\ Lockable(b[s].status, is_read) THEN taken(s)
                                    ELSE t[x]
  <2> DEFINE w == taken(s)
  <2>1. u = IF Lockable(b[s].status, is_read) THEN [t EXCEPT ![s] = w] ELSE t
    OBVIOUS
  <2> HIDE DEF w
  <2>2. /\ DOMAIN u = DOMAIN b /\ u = [x \in DOMAIN b |-> u[x]]
        /\ \A x \in DOMAIN b : u[x] = IF x = s /\ Lockable(b[s].status, is_read) THEN w ELSE t[x]
    BY <1>4, <2>1
  <2> QED
    BY <2>2 DEF w
<1> HIDE DEF In, taken
<1>7. \A x \in DOMAIN b : u[x] = v[x]
  BY <1>3, <1>4, <1>5, <1>6
<1>8. u = v
  BY <1>5, <1>6, <1>7
<1>9. \A x \in DOMAIN b : s - 1 < x /\ x <= hi => Passable(b[x].status, is_read)
  BY <1>2 DEF WalkOf
<1>10. s - 1 <= hi /\ (s - 1) + 1 \in DOMAIN b
  BY <1>1
<1> QED
  BY <1>8, <1>9, <1>10 DEF WalkOf, v, In

\* Where it stops the walk has done what LockTable says.
LEMMA WalkStops ==
    ASSUME NEW tbl, GoodTable(tbl), NEW ts \in TS, NEW hi \in TS, NEW tid,
           NEW is_read \in BOOLEAN, NEW t, NEW b, b = BackwardTable(tbl, hi, is_read),
           WalkOf(t, b, ts, hi, tid, is_read),
           NEW s \in DOMAIN b, s <= ts, ts <= b[s].end, ~Passable(b[s].status, is_read)
    PROVE  /\ t = BackwardLock(tbl, tid, hi, is_read)
           /\ ts + 1 = BackwardStart(tbl, hi, is_read)
           /\ BackwardStop(tbl, hi, is_read) = b[s]
<1> DEFINE W == Walked(b, hi, is_read)
<1>1. GoodTable(b)
  BY BackwardTableKept
<1>2. ts \in Int /\ hi \in Int /\ s \in Int /\ ts <= hi /\ ts \in TS
  BY <1>1, MaxTsAssumption, TableNumbers DEF TS, WalkOf
<1>3. W = {x \in DOMAIN b : ts < x /\ x <= hi}
  <2>1. ASSUME NEW x \in W
        PROVE  ts < x /\ x <= hi /\ x \in DOMAIN b
    <3>1. x \in DOMAIN b /\ x <= hi /\ x \in Int
      BY <1>1, TableNumbers DEF Walked
    <3>2. \A y \in DOMAIN b : x <= y /\ y <= hi => Passable(b[y].status, is_read)
      BY DEF Walked
    <3>3. ~(x <= s)
      BY <1>2, <3>2
    <3>4. b[s].end < x /\ b[s].end \in Int
      BY <1>1, <1>2, <3>1, <3>3, TableNumbers
    <3> QED
      BY <1>2, <3>1, <3>4
  <2>2. ASSUME NEW x \in DOMAIN b, ts < x, x <= hi
        PROVE  x \in W
    <3>1. \A y \in DOMAIN b : y \in Int /\ x \in Int
      BY <1>1, TableNumbers
    <3>2. \A y \in DOMAIN b : x <= y /\ y <= hi => Passable(b[y].status, is_read)
      BY <1>2, <2>2, <3>1 DEF WalkOf
    <3> QED
      BY <2>2, <3>2 DEF Walked
  <2> QED
    BY <2>1, <2>2
<1>4. t = BackwardLock(tbl, tid, hi, is_read)
  <2> DEFINE S == {x \in DOMAIN b : ts < x /\ x <= hi /\ Lockable(b[x].status, is_read)}
  <2>1. S = {x \in W : Lockable(b[x].status, is_read)}
    BY <1>3
  <2> HIDE DEF S
  <2>2. t = Grab(b, S, tid, LockedStatus(is_read))
    BY DEF WalkOf, S
  <2> QED
    BY <2>1, <2>2 DEF BackwardLock
<1>5. ts + 1 = BackwardStart(tbl, hi, is_read)
  <2> DEFINE M == {hi + 1} \cup W
  <2>1. ts + 1 \in M /\ M \subseteq Nat
    <3>1. ts = hi \/ ts + 1 \in W
      BY <1>2, <1>3 DEF WalkOf
    <3>2. \A x \in W : x \in Nat
      BY <1>1, <1>3, TableNumbers
    <3>3. hi + 1 \in Nat
      BY MaxTsAssumption DEF TS
    <3> QED
      BY <3>1, <3>2, <3>3
  <2>2. \A y \in M : ts + 1 <= y
    <3>1. \A x \in W : ts < x /\ x \in Int
      BY <1>1, <1>3, TableNumbers
    <3> QED
      BY <1>2, <3>1
  <2> HIDE DEF M, W
  <2>3. Min(M) \in M /\ Min(M) <= ts + 1
    <3>1. M # {}
      BY <2>1
    <3>2. Min(M) \in M /\ \A y \in M : Min(M) <= y
      BY <2>1, <3>1, MinNat
    <3> QED
      BY <2>1, <3>2
  <2>4. Min(M) = ts + 1
    <3>1. Min(M) \in Nat /\ ts + 1 <= Min(M)
      BY <2>1, <2>2, <2>3
    <3> QED
      BY <1>2, <2>3, <3>1
  <2> QED
    BY <2>4 DEF BackwardStart, M, W
<1>6. BackwardStop(tbl, hi, is_read) = b[s]
  <2>1. StartOf(b, ts) = s
    BY <1>1, NodeAt
  <2>2. BackwardStart(tbl, hi, is_read) - 1 = ts
    BY <1>2, <1>5
  <2> QED
    BY <2>1, <2>2 DEF BackwardStop
<1> QED
  BY <1>4, <1>5, <1>6

\* What freeze and unlock make of a node.
Released(op, tid, n) ==
    IF op = "freeze" THEN FreezeNode(n) ELSE [n EXCEPT !.status = "FREE", !.tids = @ \ {tid}]

\* Whether they collect the event at the end of the node.
Wakes(op, tid, n) == op = "freeze" \/ (n.status = "READ_LOCK" => n.tids = {tid})

\* What they have done to the table b when they have got from i.hi down to ts.
ReleaseOf(t, b, ts, op, tid, i, es) ==
    LET S == {s \in OwnedIn(b, tid, i) : ts < s}
    IN  /\ t = [s \in DOMAIN b |-> IF s \in S THEN Released(op, tid, b[s]) ELSE b[s]]
        /\ es = {b[s].end : s \in {x \in S : Wakes(op, tid, b[x])}}
        /\ ts <= i.hi /\ (ts = i.hi \/ ts + 1 \in DOMAIN b)

\* At the start nothing is done.
LEMMA ReleaseStarts ==
    ASSUME NEW b, GoodTable(b), NEW op, NEW tid, NEW i, i.hi \in TS
    PROVE  ReleaseOf(b, b, i.hi, op, tid, i, {})
<1> DEFINE S == {s \in OwnedIn(b, tid, i) : i.hi < s}
<1>1. i.hi \in Int
  BY MaxTsAssumption DEF TS
<1>2. S = {}
  BY <1>1, TableNumbers DEF OwnedIn
<1> HIDE DEF S
<1>3. /\ b = [s \in DOMAIN b |-> IF s \in S THEN Released(op, tid, b[s]) ELSE b[s]]
      /\ {} = {b[s].end : s \in {x \in S : Wakes(op, tid, b[x])}}
  BY <1>2, TableNumbers
<1> QED
  BY <1>1, <1>3 DEF ReleaseOf, S

\* What is at ts or below is as it was.
LEMMA ReleaseAhead ==
    ASSUME NEW b, GoodTable(b), NEW t, NEW ts \in TS, NEW op, NEW tid, NEW i, NEW es,
           ReleaseOf(t, b, ts, op, tid, i, es)
    PROVE  DOMAIN t = DOMAIN b /\ \A s \in DOMAIN b : s <= ts => t[s] = b[s]
<1>1. ts \in Int
  BY MaxTsAssumption DEF TS
<1> QED
  BY <1>1, TableNumbers DEF ReleaseOf

\* A round adds the node at ts, if the transaction owns it.
LEMMA ReleaseGoesOn ==
    ASSUME NEW b, GoodTable(b), NEW t, NEW ts \in TS, NEW op, NEW tid, NEW i, NEW es,
           i.hi \in TS, i.lo \in TS, i.lo <= ts,
           ReleaseOf(t, b, ts, op, tid, i, es),
           NEW s \in DOMAIN b, s <= ts, ts <= b[s].end,
           NEW owned, owned = (b[s].status \in {"READ_LOCK", "WRITE_LOCK"} /\ tid \in b[s].tids),
           NEW u, u = IF owned THEN [t EXCEPT ![s] = Released(op, tid, b[s])] ELSE t,
           NEW fs, fs = IF owned /\ Wakes(op, tid, b[s]) THEN es \cup {b[s].end} ELSE es
    PROVE  ReleaseOf(u, b, s - 1, op, tid, i, fs)
<1> DEFINE O == OwnedIn(b, tid, i)
           In(y) == {x \in O : y < x}
<1>1. /\ ts \in Int /\ i.hi \in Int /\ i.lo \in Int /\ s \in Int /\ ts <= i.hi
      /\ b[s].end \in Int
  BY MaxTsAssumption, TableNumbers DEF TS, ReleaseOf
<1>2. \A x \in DOMAIN b : s - 1 < x <=> x = s \/ ts < x
  <2> SUFFICES ASSUME NEW x \in DOMAIN b PROVE s - 1 < x <=> x = s \/ ts < x
    OBVIOUS
  <2>1. x \in Int /\ (s < x => b[s].end < x)
    BY TableNumbers
  <2> QED
    BY <1>1, <2>1
<1>3. s \in O <=> owned
  <2>1. i.lo <= i.hi /\ s <= i.hi /\ i.lo <= b[s].end
    BY <1>1
  <2>2. s \in O <=> b[s].status \in {"READ_LOCK", "WRITE_LOCK"} /\ tid \in b[s].tids
    BY <2>1 DEF OwnedIn
  <2> QED
    BY <2>2
<1>4. O \subseteq DOMAIN b
  BY DEF OwnedIn
<1> HIDE DEF O
<1>5. \A x : x \in In(s - 1) <=> x \in In(ts) \/ (x = s /\ owned)
  BY <1>1, <1>2, <1>3, <1>4
<1>6. s \notin In(ts)
  BY <1>1
<1>7. /\ DOMAIN t = DOMAIN b /\ t = [x \in DOMAIN b |-> t[x]]
      /\ \A x \in DOMAIN b : t[x] = IF x \in In(ts) THEN Released(op, tid, b[x]) ELSE b[x]
      /\ es = {b[x].end : x \in {y \in In(ts) : Wakes(op, tid, b[y])}}
  <2>1. t = [x \in DOMAIN b |-> IF x \in In(ts) THEN Released(op, tid, b[x]) ELSE b[x]]
    BY DEF ReleaseOf, O
  <2>2. es = {b[x].end : x \in {y \in In(ts) : Wakes(op, tid, b[y])}}
    BY DEF ReleaseOf, O
  <2> HIDE DEF In
  <2> QED
    BY <2>1, <2>2
<1> HIDE DEF In
<1>8. u = [x \in DOMAIN b |-> IF x \in In(s - 1) THEN Released(op, tid, b[x]) ELSE b[x]]
  <2> DEFINE w == Released(op, tid, b[s])
  <2>1. u = IF owned THEN [t EXCEPT ![s] = w] ELSE t
    OBVIOUS
  <2>2. \A x \in DOMAIN b : x \in In(s - 1) <=> x \in In(ts) \/ (x = s /\ owned)
    BY <1>5
  <2> HIDE DEF w
  <2>3. /\ DOMAIN u = DOMAIN b /\ u = [x \in DOMAIN b |-> u[x]]
        /\ \A x \in DOMAIN b : u[x] = IF x = s /\ owned THEN w ELSE t[x]
    BY <1>7, <2>1
  <2>4. \A x \in DOMAIN b : u[x] = IF x \in In(s - 1) THEN Released(op, tid, b[x]) ELSE b[x]
    BY <1>6, <1>7, <2>2, <2>3 DEF w
  <2> QED
    BY <2>3, <2>4
<1>9. fs = {b[x].end : x \in {y \in In(s - 1) : Wakes(op, tid, b[y])}}
  <2> DEFINE X == {y \in In(ts) : Wakes(op, tid, b[y])}
             Y == {y \in In(s - 1) : Wakes(op, tid, b[y])}
  <2>1. CASE owned /\ Wakes(op, tid, b[s])
    <3>1. Y = X \cup {s}
      BY <1>5, <2>1
    <3>2. fs = es \cup {b[s].end}
      BY <2>1
    <3> HIDE DEF X, Y
    <3>3. es = {b[x].end : x \in X}
      BY <1>7 DEF X
    <3>4. fs = {b[x].end : x \in Y}
      BY <3>1, <3>2, <3>3
    <3> QED
      BY <3>4 DEF Y
  <2>2. CASE ~(owned /\ Wakes(op, tid, b[s]))
    <3>1. Y = X
      BY <1>5, <2>2
    <3>2. fs = es
      BY <2>2
    <3> HIDE DEF X, Y
    <3>3. es = {b[x].end : x \in X}
      BY <1>7 DEF X
    <3>4. fs = {b[x].end : x \in Y}
      BY <3>1, <3>2, <3>3
    <3> QED
      BY <3>4 DEF Y
  <2> QED
    BY <2>1, <2>2
<1>10. s - 1 <= i.hi /\ (s - 1) + 1 \in DOMAIN b
  BY <1>1
<1> QED
  BY <1>8, <1>9, <1>10 DEF ReleaseOf, In, O

\* Below the interval they have done what LockTable says.
LEMMA ReleaseStops ==
    ASSUME NEW b, GoodTable(b), NEW t, NEW ts \in TS, NEW op \in {"freeze", "unlock"}, NEW tid,
           NEW i, NEW es, i.lo \in TS, i.hi \in TS, ts < i.lo,
           ReleaseOf(t, b, ts, op, tid, i, es)
    PROVE  /\ op = "freeze" => t = FreezeNodes(b, tid, i) /\ es = FreezeEnds(b, tid, i)
           /\ op = "unlock" => t = UnlockNodes(b, tid, i) /\ es = UnlockEnds(b, tid, i)
<1> DEFINE O == OwnedIn(b, tid, i)
<1>1. ts \in Int /\ i.hi \in Int /\ i.lo \in Int
  BY MaxTsAssumption DEF TS
<1>2. ASSUME NEW s \in O
      PROVE  ts < s
  <2>1. s \in DOMAIN b /\ i.lo <= i.hi /\ i.lo <= b[s].end
    BY DEF OwnedIn
  <2>2. ts + 1 \in DOMAIN b
    BY <1>1, <2>1 DEF ReleaseOf
  <2>3. s \in Int /\ b[s].end \in Int /\ (s < ts + 1 => b[s].end < ts + 1)
    BY <2>1, <2>2, TableNumbers
  <2> QED
    BY <1>1, <2>1, <2>3
<1>3. {s \in O : ts < s} = O
  BY <1>2
<1> HIDE DEF O
<1>4. /\ t = [s \in DOMAIN b |-> IF s \in O THEN Released(op, tid, b[s]) ELSE b[s]]
      /\ es = {b[s].end : s \in {x \in O : Wakes(op, tid, b[x])}}
  BY <1>3 DEF ReleaseOf, O
<1>5. CASE op = "freeze"
  <2>1. {x \in O : Wakes(op, tid, b[x])} = O
    BY <1>5 DEF Wakes
  <2>2. t = [s \in DOMAIN b |-> IF s \in O THEN FreezeNode(b[s]) ELSE b[s]]
    BY <1>4, <1>5 DEF Released
  <2> QED
    BY <1>4, <1>5, <2>1, <2>2 DEF FreezeNodes, FreezeEnds, O
<1>6. CASE op = "unlock"
  <2>1. {x \in O : Wakes(op, tid, b[x])} = {x \in O : b[x].status = "READ_LOCK" => b[x].tids = {tid}}
    BY <1>6 DEF Wakes
  <2>2. t = [s \in DOMAIN b |-> IF s \in O
                                THEN [b[s] EXCEPT !.status = "FREE", !.tids = @ \ {tid}] ELSE b[s]]
    BY <1>4, <1>6 DEF Released
  <2> QED
    BY <1>4, <1>6, <2>1, <2>2 DEF UnlockNodes, UnlockEnds, O
<1> QED
  BY <1>5, <1>6

-----------------------------------------------------------------------------
(* What the loops have done                                                 *)

\* A node or an entry with a new status and new owners.
Marked(n, status, tids) == [n EXCEPT !.status = status, !.tids = tids]

\* The new status and owners of a node are those of its entry.
LEMMA EntryMarked ==
    ASSUME NEW m \in LockNode, NEW x, NEW y
    PROVE  Entry(Marked(m, x, y)) = Marked(Entry(m), x, y)
<1> DEFINE a == [end |-> m.end, status |-> m.status, tids |-> m.tids]
           b == [end |-> m.end, status |-> x, tids |-> m.tids]
           c == [end |-> m.end, status |-> x, tids |-> y]
           w == [m EXCEPT !.status = x, !.tids = y]
<1>1. [a EXCEPT !.status = x] = b /\ [b EXCEPT !.tids = y] = c
  <2>1. [a EXCEPT !.status = x] = b
    OBVIOUS
  <2>2. [b EXCEPT !.tids = y] = c
    OBVIOUS
  <2> QED
    BY <2>1, <2>2
<1>2. w.end = m.end /\ w.status = x /\ w.tids = y
  BY DEF LockNode
<1> HIDE DEF w
<1>3. Entry(m) = a /\ Entry(w) = c
  BY <1>2 DEF Entry
<1> HIDE DEF a, b, c
<1>4. [a EXCEPT !.status = x, !.tids = y] = [[a EXCEPT !.status = x] EXCEPT !.tids = y]
  OBVIOUS
<1>5. Entry(w) = [Entry(m) EXCEPT !.status = x, !.tids = y]
  BY <1>1, <1>3, <1>4
<1> QED
  BY <1>5 DEF w, Marked

\* The table below lo .. hi cut off, as IntervalLock has it.
CutBelow(b, lo) ==
    IF lo = StartOf(b, lo) THEN b ELSE Split(b, StartOf(b, lo), lo - 1)

\* The cuts that the second loop of tryLock has made around its node n.
CutsOf(t, b, n, lo, hi) ==
    /\ n.start < lo => t = b
    /\ n.start = lo /\ n.end > hi => t = CutBelow(b, lo)
    /\ n.start = lo /\ n.end = hi => t = CutAfter(CutBelow(b, lo), hi)

\* The table a call started from, which nothing changes before the first loop.
BeforeOK ==
    /\ call.op \in Asked => GoodTable(call.before)
    /\ pc = "idle" => ends = {}
    /\ (pc \in {"cut", "search"} \/ (pc = "find" /\ after \in {"cut", "search"})) =>
          Table(nodes) = call.before /\ cur_ts = call.hi

\* The walk of tryBackwardLock has locked the nodes after cur_ts.
BackwardOK ==
    (/\ call.op = "tryBackwardLock"
     /\ (pc \in {"walk"} \cup Grows \/ (pc = "find" /\ after = "walk"))) =>
        WalkOf(Table(nodes), BackwardTable(call.before, call.hi, call.is_read), cur_ts,
               call.hi, call.tid, call.is_read)

\* The node tryLock is going to lock is the one it cut out of the table before.
LockOK ==
    call.op = "tryLock" /\ pc \in {"lock"} \cup Grows =>
        /\ res = TRUE /\ Lockable(StatusAt(call.before, call.hi), call.is_read)
        /\ CutsOf(Table(nodes), call.before, nodes[Last(locks)], call.lo, call.hi)

\* freeze and unlock have released the nodes after cur_ts.
ReleaseOK ==
    (pc = "release" \/ (pc = "find" /\ after = "release")) =>
        ReleaseOf(Table(nodes), call.before, cur_ts, call.op, call.tid,
                  [lo |-> call.lo, hi |-> call.hi], ends)

\* The three properties of what a call has done.
AsTable == BackwardAsTable /\ TryLockAsTable /\ ReleaseAsTable

\* The inductive invariant of the calls and their tables.
TableInv == TreeInv /\ BeforeOK /\ BackwardOK /\ LockOK /\ ReleaseOK /\ AsTable

\* A call has its effect when it returns.
LEMMA NoReturn == ASSUME pc' # "return" PROVE AsTable'
BY DEF AsTable, BackwardAsTable, TryLockAsTable, ReleaseAsTable

\* find does not touch the table.
LEMMA FindTable == ASSUME TableInv, find PROVE (BeforeOK /\ BackwardOK /\ LockOK /\ ReleaseOK /\ AsTable)'
<1>1. /\ pc = "find" /\ (pc' = "find" \/ pc' = after) /\ after \in Loops
      /\ nodes' = nodes /\ call' = call /\ after' = after /\ cur_ts' = cur_ts
      /\ ends' = ends /\ res' = res
  BY DEF find, descend, TableInv, TreeInv, CallOK
<1>2. /\ pc' \notin Grows /\ pc' \notin {"lock", "return", "idle"}
      /\ (pc' \in {"cut", "search", "walk", "release"} => after = pc')
  BY <1>1 DEF Grows, Loops
<1>3. BeforeOK'
  BY <1>1, <1>2 DEF TableInv, BeforeOK
<1>4. BackwardOK'
  BY <1>1, <1>2 DEF TableInv, BackwardOK
<1>5. LockOK'
  BY <1>2 DEF LockOK
<1>6. ReleaseOK'
  BY <1>1, <1>2 DEF TableInv, ReleaseOK
<1> QED
  BY <1>2, <1>3, <1>4, <1>5, <1>6, NoReturn

\* Neither does a step of insert.
LEMMA GrowTable ==
    ASSUME TableInv, pc \in Grows, pc' \in Grows,
           UNCHANGED <<nodes, call, locks, cur_ts, ends, res>>
    PROVE  (BeforeOK /\ BackwardOK /\ LockOK /\ ReleaseOK /\ AsTable)'
<1>1. pc' \notin {"cut", "search", "walk", "release", "find", "return", "idle"}
  BY DEF Grows
<1>2. BeforeOK'
  BY <1>1 DEF TableInv, BeforeOK
<1>3. BackwardOK'
  BY <1>1 DEF TableInv, BackwardOK
<1>4. LockOK'
  BY <1>1 DEF TableInv, LockOK
<1>5. ReleaseOK'
  BY <1>1 DEF ReleaseOK
<1> QED
  BY <1>1, <1>2, <1>3, <1>4, <1>5, NoReturn

\* getRoot does not touch the table.
LEMMA GetRootTable ==
    ASSUME TableInv, getRoot
    PROVE  (BeforeOK /\ BackwardOK /\ LockOK /\ ReleaseOK /\ AsTable)'
<1>1. /\ pc = "getRoot" /\ pc \in Grows
      /\ nodes' = nodes /\ call' = call /\ cur_ts' = cur_ts /\ ends' = ends /\ res' = res
  BY DEF getRoot, Grows
<1>2. CASE pc' = pc /\ locks' = locks
  BY <1>1, <1>2, GrowTable
<1>3. CASE call.op = "tryBackwardLock" /\ pc' = "find" /\ after' = "walk"
  <2>1. pc' \notin Grows /\ pc' \notin {"cut", "search", "release", "lock", "return", "idle"}
        /\ after' \notin {"cut", "search", "release"}
    BY <1>3 DEF Grows
  <2>2. BeforeOK'
    BY <1>1, <2>1 DEF TableInv, BeforeOK
  <2>3. BackwardOK'
    BY <1>1, <1>3 DEF TableInv, BackwardOK
  <2>4. LockOK' /\ ReleaseOK'
    BY <2>1 DEF LockOK, ReleaseOK
  <2> QED
    BY <2>1, <2>2, <2>3, <2>4, NoReturn
<1>4. CASE call.op # "tryBackwardLock" /\ pc' = after /\ locks' = locks
  <2>1. \/ call.op = "createKeyInfo" /\ pc' = "return"
        \/ call.op = "tryLock" /\ pc' = "lock"
    BY <1>1, <1>4 DEF TableInv, TreeInv, CallOK
  <2>2. pc' \notin Grows /\ pc' \notin {"cut", "search", "release", "find", "idle"}
    BY <2>1 DEF Grows
  <2>3. BeforeOK'
    BY <1>1, <2>2 DEF TableInv, BeforeOK
  <2>4. BackwardOK' /\ ReleaseOK'
    BY <1>1, <1>4, <2>2 DEF BackwardOK, ReleaseOK
  <2>5. LockOK'
    BY <1>1, <1>4, <2>1 DEF TableInv, LockOK
  <2>6. AsTable'
    <3>1. CASE pc' # "return"
      BY <3>1, NoReturn
    <3>2. CASE call'.op = "createKeyInfo"
      BY <3>2 DEF AsTable, BackwardAsTable, TryLockAsTable, ReleaseAsTable
    <3> QED
      BY <1>1, <2>1, <3>1, <3>2
  <2> QED
    BY <2>3, <2>4, <2>5, <2>6
<1> QED
  BY <1>1, <1>2, <1>3, <1>4 DEF getRoot

\* What the table has for the node that a loop has got to.
LEMMA TopEntry ==
    ASSUME TreeInv, pc \in Loops
    PROVE  LET n == Last(locks)
               s == nodes[n].start
           IN  /\ n \in DOMAIN nodes /\ nodes[n] \in LockNode
               /\ s \in TS /\ cur_ts \in TS /\ s <= cur_ts /\ cur_ts <= nodes[n].end
               /\ s \in DOMAIN Table(nodes) /\ Table(nodes)[s] = Entry(nodes[n])
               /\ StartOf(Table(nodes), cur_ts) = s
               /\ StatusAt(Table(nodes), cur_ts) = nodes[n].status
               /\ GoodTable(Table(nodes))
<1> DEFINE n == Last(locks)
<1>1. /\ n \in DOMAIN nodes /\ nodes[n] \in LockNode
      /\ cur_ts \in nodes[n].start .. nodes[n].end /\ cur_ts \in TS
  BY TopFacts
<1>2. NodesOK(nodes)
  BY DEF TreeInv
<1>3. nodes[n].start \in TS
  BY <1>1 DEF LockNode
<1>4. /\ nodes[n].start <= cur_ts /\ cur_ts <= nodes[n].end
  BY <1>1
<1> HIDE DEF n
<1>5. Table(nodes)[nodes[n].start] = Entry(nodes[n]) /\ nodes[n].start \in DOMAIN Table(nodes)
  BY <1>1, <1>2, TableEntries
<1>6. /\ StartOf(Table(nodes), cur_ts) = nodes[n].start
      /\ StatusAt(Table(nodes), cur_ts) = nodes[n].status
  BY <1>1, <1>2, TableAt
<1>7. GoodTable(Table(nodes))
  BY <1>2, TableGood
<1> QED
  BY <1>1, <1>3, <1>4, <1>5, <1>6, <1>7 DEF n

\* The walk starts on the table that LockTable starts it on.
LEMMA CutStepTable ==
    ASSUME TableInv, cut
    PROVE  (BeforeOK /\ BackwardOK /\ LockOK /\ ReleaseOK /\ AsTable)'
<1> DEFINE n    == Last(locks)
           s    == nodes[n].start
           t    == Table(nodes)
           b    == BackwardTable(call.before, call.hi, call.is_read)
           old  == [nodes[n] EXCEPT !.end = cur_ts]
           new  == [nodes[n] EXCEPT !.start = cur_ts + 1]
<1>1. /\ pc = "cut" /\ pc \in Loops /\ call' = call /\ cur_ts' = cur_ts
      /\ pc' \in {"insert", "walk"}
  BY DEF cut, Loops, Cut
<1>2. /\ TreeInv /\ t = call.before /\ cur_ts = call.hi /\ call.op = "tryBackwardLock"
  BY <1>1 DEF TableInv, BeforeOK, TreeInv, CallOK, OpsAt
<1>3. /\ n \in DOMAIN nodes /\ nodes[n] \in LockNode
      /\ s \in TS /\ cur_ts \in TS /\ s <= cur_ts /\ cur_ts <= nodes[n].end
      /\ t[s] = Entry(nodes[n])
      /\ StartOf(t, cur_ts) = s
      /\ StatusAt(t, cur_ts) = nodes[n].status
      /\ GoodTable(t)
  BY <1>1, <1>2, TopEntry
<1>4. /\ NodesOK(nodes) /\ call.is_read \in BOOLEAN
      /\ nodes[n].start \in Int /\ nodes[n].end \in Int /\ cur_ts \in Int
  BY <1>1, <1>2, <1>3, TopFacts, MaxTsAssumption DEF TreeInv, LockNode, TS
<1>5. Table(nodes') = b
  <2>1. t[s].end = nodes[n].end
    BY <1>3 DEF Entry
  <2> HIDE DEF t
  <2>2. CASE Lockable(nodes[n].status, call.is_read) /\ cur_ts < nodes[n].end /\ Cut(n, old, new)
    <3>1. b = Split(t, s, cur_ts)
      BY <1>2, <1>3, <1>4, <2>1, <2>2 DEF BackwardTable, CutAfter
    <3>2. n # 1
      BY <1>2, <1>3, <1>4, <2>2, NotFirst
    <3>3. /\ old \in LockNode /\ new \in LockNode
          /\ old.start = nodes[n].start /\ old.end = cur_ts
          /\ new.start = cur_ts + 1 /\ new.end = nodes[n].end
          /\ old.status = nodes[n].status /\ old.tids = nodes[n].tids
          /\ new.status = nodes[n].status /\ new.tids = nodes[n].tids
      BY <1>3, <1>4, <2>2, MaxTsAssumption DEF LockNode, TS
    <3>4. nodes' = Append([nodes EXCEPT ![n] = old], new)
      BY <2>2 DEF Cut
    <3>5. nodes[n].start <= cur_ts /\ cur_ts < nodes[n].end /\ n \in DOMAIN nodes
      BY <1>3, <2>2
    <3> HIDE DEF n, old, new, s, b
    <3>6. Table(nodes') = Split(Table(nodes), nodes[n].start, cur_ts)
      BY <1>4, <3>2, <3>3, <3>4, <3>5, TableCut
    <3> QED
      BY <3>1, <3>6 DEF t, s
  <2>3. CASE ~(Lockable(nodes[n].status, call.is_read) /\ cur_ts < nodes[n].end) /\ nodes' = nodes
    <3>1. b = t
      BY <1>2, <1>3, <1>4, <2>1, <2>3 DEF BackwardTable, CutAfter
    <3> QED
      BY <2>3, <3>1 DEF t
  <2> QED
    BY <2>2, <2>3 DEF cut
<1>6. GoodTable(b) /\ call.hi \in TS
  BY <1>2, <1>3, <1>4, BackwardTableKept
<1>7. WalkOf(b, b, call.hi, call.hi, call.tid, call.is_read)
  BY <1>6, WalkStarts
<1>8. BackwardOK'
  BY <1>1, <1>2, <1>5, <1>7 DEF BackwardOK
<1>9. BeforeOK'
  BY <1>1 DEF TableInv, BeforeOK
<1>10. LockOK' /\ ReleaseOK'
  BY <1>1, <1>2 DEF LockOK, ReleaseOK
<1> QED
  BY <1>1, <1>8, <1>9, <1>10, NoReturn

\* A round of the walk over the tree is one over the table.
LEMMA WalkTable ==
    ASSUME TableInv, walk
    PROVE  (BeforeOK /\ BackwardOK /\ LockOK /\ ReleaseOK /\ AsTable)'
<1> DEFINE n == Last(locks)
           s == nodes[n].start
           t == Table(nodes)
           b == BackwardTable(call.before, call.hi, call.is_read)
<1>1. /\ pc = "walk" /\ pc \in Loops /\ call' = call /\ TreeInv
  BY DEF walk, Loops, TableInv
<1>2. /\ call.op = "tryBackwardLock" /\ NodesOK(nodes)
      /\ WalkOf(t, b, cur_ts, call.hi, call.tid, call.is_read)
  BY <1>1 DEF TableInv, BackwardOK, TreeInv, CallOK, OpsAt
<1>3. /\ n \in DOMAIN nodes /\ nodes[n] \in LockNode
      /\ s \in TS /\ cur_ts \in TS /\ s <= cur_ts /\ cur_ts <= nodes[n].end
      /\ s \in DOMAIN t /\ t[s] = Entry(nodes[n])
  BY <1>1, TopEntry
<1>4. call.is_read \in BOOLEAN /\ call.hi \in TS /\ call.op \in Asked
  BY <1>1, TopFacts
<1>5. GoodTable(call.before) /\ GoodTable(b)
  BY <1>4, BackwardTableKept DEF TableInv, BeforeOK
<1>6. /\ s \in DOMAIN b /\ b[s] = Entry(nodes[n])
      /\ b[s].end = nodes[n].end /\ b[s].status = nodes[n].status /\ b[s].tids = nodes[n].tids
  <2> HIDE DEF b, s, t
  <2>1. DOMAIN t = DOMAIN b /\ \A x \in DOMAIN b : x <= cur_ts => t[x] = b[x]
    BY <1>2, <1>3, <1>5, WalkAhead
  <2>2. s \in DOMAIN b /\ b[s] = Entry(nodes[n])
    BY <1>3, <2>1
  <2> QED
    BY <2>2 DEF Entry
<1>7. CASE /\ Passable(nodes[n].status, call.is_read)
           /\ nodes' = IF Lockable(nodes[n].status, call.is_read)
                       THEN [nodes EXCEPT ![n] = Taken(@)] ELSE nodes
           /\ previous(n)
  <2>1. pc' = "find" /\ after' = "walk" /\ cur_ts' = s - 1
    BY <1>1, <1>7 DEF previous
  <2>2. pc' \notin Grows /\ pc' \notin {"cut", "search", "release", "lock", "return", "idle"}
    BY <2>1 DEF Grows
  <2> DEFINE u == IF Lockable(b[s].status, call.is_read)
                  THEN [t EXCEPT ![s] = [b[s] EXCEPT !.status = LockedStatus(call.is_read),
                                                     !.tids = @ \cup {call.tid}]]
                  ELSE t
  <2>3. Table(nodes') = u
    <3>1. CASE Lockable(nodes[n].status, call.is_read)
      <4>1. nodes' = [nodes EXCEPT ![n] = Taken(nodes[n])] /\ n # 1
        BY <1>1, <1>3, <1>4, <1>7, <3>1, NotFirst
      <4>2. /\ Taken(nodes[n]) \in LockNode
            /\ Taken(nodes[n]).start = nodes[n].start /\ Taken(nodes[n]).end = nodes[n].end
        BY <1>1, <1>3, TakenType
      <4>3. Entry(Taken(nodes[n])) = [b[s] EXCEPT !.status = LockedStatus(call.is_read),
                                                  !.tids = @ \cup {call.tid}]
        <5> DEFINE m == nodes[n]
                   x == LockedStatus(call.is_read)
                   e == b[s]
        <5>1. m \in LockNode /\ Entry(m) = e /\ m.tids = e.tids
          BY <1>3, <1>6
        <5>2. Taken(m) = Marked(m, x, m.tids \cup {call.tid})
          BY DEF Taken, Marked
        <5> HIDE DEF m, e
        <5>3. [e EXCEPT !.status = x, !.tids = @ \cup {call.tid}] = Marked(e, x, m.tids \cup {call.tid})
          BY <5>1 DEF Marked
        <5> HIDE DEF x
        <5>4. Entry(Taken(m)) = Marked(Entry(m), x, m.tids \cup {call.tid})
          BY <5>1, <5>2, EntryMarked
        <5>5. Entry(Taken(m)) = [e EXCEPT !.status = x, !.tids = @ \cup {call.tid}]
          BY <5>1, <5>3, <5>4
        <5> QED
          BY <5>5 DEF m, e, x
      <4>4. Table(nodes') = [Table(nodes) EXCEPT ![nodes[n].start] = Entry(Taken(nodes[n]))]
        <5> HIDE DEF n
        <5> QED
          BY <1>2, <1>3, <4>1, <4>2, TableChanged
      <4> QED
        BY <1>6, <3>1, <4>3, <4>4
    <3>2. CASE ~Lockable(nodes[n].status, call.is_read)
      BY <1>6, <1>7, <3>2
    <3> QED
      BY <3>1, <3>2
  <2>4. WalkOf(u, b, s - 1, call.hi, call.tid, call.is_read)
    <3> HIDE DEF s, t, b, n
    <3>1. s <= cur_ts /\ cur_ts <= b[s].end /\ Passable(b[s].status, call.is_read)
      BY <1>3, <1>6, <1>7
    <3> QED
      BY <1>2, <1>3, <1>4, <1>5, <1>6, <3>1, WalkGoesOn
  <2> HIDE DEF u
  <2>5. BackwardOK'
    BY <1>1, <2>1, <2>3, <2>4 DEF BackwardOK
  <2>6. BeforeOK'
    BY <1>1, <2>1, <2>2 DEF TableInv, BeforeOK
  <2>7. LockOK' /\ ReleaseOK'
    BY <2>1, <2>2 DEF LockOK, ReleaseOK
  <2> QED
    BY <2>2, <2>5, <2>6, <2>7, NoReturn
<1>8. CASE /\ ~Passable(nodes[n].status, call.is_read)
           /\ res' = ~Locked(nodes[n])
           /\ ends' = (IF Locked(nodes[n]) THEN {nodes[n].end} ELSE {})
           /\ pc' = "return" /\ UNCHANGED <<nodes, cur_ts>>
  <2>1. /\ t = BackwardLock(call.before, call.tid, call.hi, call.is_read)
        /\ cur_ts + 1 = BackwardStart(call.before, call.hi, call.is_read)
        /\ BackwardStop(call.before, call.hi, call.is_read) = b[s]
    <3> DEFINE w == b
    <3>1. w = BackwardTable(call.before, call.hi, call.is_read)
      OBVIOUS
    <3> HIDE DEF w, s, t, n
    <3>2. /\ WalkOf(t, w, cur_ts, call.hi, call.tid, call.is_read)
          /\ s \in DOMAIN w /\ s <= cur_ts /\ cur_ts <= w[s].end
          /\ ~Passable(w[s].status, call.is_read)
          /\ GoodTable(call.before) /\ cur_ts \in TS
      BY <1>2, <1>3, <1>5, <1>6, <1>8 DEF w
    <3> HIDE DEF b
    <3>3. /\ t = BackwardLock(call.before, call.tid, call.hi, call.is_read)
          /\ cur_ts + 1 = BackwardStart(call.before, call.hi, call.is_read)
          /\ BackwardStop(call.before, call.hi, call.is_read) = w[s]
      BY <1>4, <3>1, <3>2, WalkStops
    <3> QED
      BY <3>3 DEF w
  <2> HIDE DEF b, s, t
  <2>2. /\ BackwardGranted(call.before, call.hi, call.is_read) <=> ~Locked(nodes[n])
        /\ BackwardStop(call.before, call.hi, call.is_read).end = nodes[n].end
    BY <1>6, <2>1 DEF BackwardGranted, Locked
  <2>3. BackwardAsTable'
    <3>1. Table(nodes') = t
      BY <1>8 DEF t
    <3>2. res' = BackwardGranted(call.before, call.hi, call.is_read)
      BY <1>8, <2>2 DEF BackwardGranted
    <3>3. ends' = IF res' THEN {} ELSE {BackwardStop(call.before, call.hi, call.is_read).end}
      BY <1>8, <2>2
    <3> QED
      BY <1>1, <1>8, <2>1, <3>1, <3>2, <3>3 DEF BackwardAsTable
  <2>4. TryLockAsTable' /\ ReleaseAsTable'
    BY <1>1, <1>2 DEF TryLockAsTable, ReleaseAsTable
  <2>5. pc' \notin Grows /\ pc' \notin {"cut", "walk", "search", "release", "find", "lock", "idle"}
    BY <1>8 DEF Grows
  <2>6. BeforeOK' /\ BackwardOK' /\ LockOK' /\ ReleaseOK'
    BY <1>1, <2>5 DEF TableInv, BeforeOK, BackwardOK, LockOK, ReleaseOK
  <2> QED
    BY <2>3, <2>4, <2>6 DEF AsTable
<1> QED
  BY <1>7, <1>8 DEF walk

\* The entry of a locked node, and of a released one.
LEMMA TakenEntry ==
    ASSUME NEW m \in LockNode
    PROVE  Entry(Taken(m)) = [Entry(m) EXCEPT !.status = LockedStatus(call.is_read),
                                              !.tids = @ \cup {call.tid}]
<1> DEFINE x == LockedStatus(call.is_read)
           e == Entry(m)
<1>1. Taken(m) = Marked(m, x, m.tids \cup {call.tid})
  BY DEF Taken, Marked
<1>2. e.tids = m.tids
  BY DEF Entry
<1> HIDE DEF e
<1>3. [e EXCEPT !.status = x, !.tids = @ \cup {call.tid}] = Marked(e, x, m.tids \cup {call.tid})
  BY <1>2 DEF Marked
<1> HIDE DEF x
<1>4. Entry(Taken(m)) = Marked(e, x, m.tids \cup {call.tid})
  BY <1>1, EntryMarked DEF e
<1>5. Entry(Taken(m)) = [e EXCEPT !.status = x, !.tids = @ \cup {call.tid}]
  BY <1>3, <1>4
<1> QED
  BY <1>5 DEF e, x

\* Releasing a node releases its entry in the table.
LEMMA ReleasedEntry ==
    ASSUME NEW m \in LockNode, NEW op, NEW tid
    PROVE  /\ Entry(Released(op, tid, m)) = Released(op, tid, Entry(m))
           /\ Released(op, tid, m) \in LockNode
           /\ Released(op, tid, m).start = m.start /\ Released(op, tid, m).end = m.end
<1> DEFINE e == Entry(m)
           x == IF op = "freeze"
                THEN IF m.status = "READ_LOCK" THEN "FREEZE_READ_LOCK" ELSE "FREEZE_WRITE_LOCK"
                ELSE "FREE"
           y == IF op = "freeze" THEN {} ELSE m.tids \ {tid}
<1>1. Released(op, tid, m) = Marked(m, x, y)
  BY DEF Released, FreezeNode, Marked
<1>2. e.status = m.status /\ e.tids = m.tids
  BY DEF Entry
<1> HIDE DEF e
<1>3. Released(op, tid, e) = Marked(e, x, y)
  BY <1>2 DEF Released, FreezeNode, Marked
<1>4. x \in LockStatus /\ y \in SUBSET Tids
  BY DEF LockStatus, LockNode
<1> HIDE DEF x, y
<1>5. Entry(Marked(m, x, y)) = Marked(e, x, y)
  BY EntryMarked DEF e
<1>6. /\ Marked(m, x, y) \in LockNode
      /\ Marked(m, x, y).start = m.start /\ Marked(m, x, y).end = m.end
  BY <1>4 DEF Marked, LockNode
<1> QED
  BY <1>1, <1>3, <1>5, <1>6 DEF e

\* tryLock looks at the node that LockTable looks at.
LEMMA SearchTable ==
    ASSUME TableInv, search
    PROVE  (BeforeOK /\ BackwardOK /\ LockOK /\ ReleaseOK /\ AsTable)'
<1> DEFINE n == Last(locks)
           s == nodes[n].start
           t == Table(nodes)
<1>1. /\ pc = "search" /\ pc \in Loops /\ TreeInv
      /\ nodes' = nodes /\ call' = call /\ locks' = locks /\ cur_ts' = cur_ts
      /\ res' = Passable(nodes[n].status, call.is_read)
  BY DEF search, Loops, TableInv
<1>2. /\ t = call.before /\ cur_ts = call.hi /\ call.op = "tryLock"
  BY <1>1 DEF TableInv, BeforeOK, TreeInv, CallOK, OpsAt
<1>3. /\ n \in DOMAIN nodes /\ nodes[n] \in LockNode
      /\ s \in TS /\ cur_ts \in TS /\ s <= cur_ts /\ cur_ts <= nodes[n].end
      /\ t[s] = Entry(nodes[n])
      /\ StartOf(t, cur_ts) = s
      /\ StatusAt(t, cur_ts) = nodes[n].status
  BY <1>1, TopEntry
<1> HIDE DEF t
<1>4. CASE Lockable(nodes[n].status, call.is_read) /\ pc' = "lock" /\ after' = "lock"
  <2>1. pc' \notin Grows /\ pc' \notin Loops /\ pc' \notin {"find", "return", "idle"}
    BY <1>4 DEF Grows, Loops
  <2>2. nodes[n].start <= call.lo /\ call.hi <= nodes[n].end /\ call.lo <= call.hi
    <3>1. TreeInv'
      BY <1>1, SearchKeeps
    <3> QED
      BY <1>1, <1>2, <1>4, <3>1 DEF TreeInv, StackOK
  <2>3. CutsOf(t, t, nodes[n], call.lo, call.hi)
    <3>1. call.lo \in TS /\ call.hi \in TS /\ NodesOK(nodes)
      BY <1>1, TopFacts DEF TreeInv
    <3>2. call.lo \in nodes[n].start .. nodes[n].end
      BY <1>3, <2>2, <3>1, MaxTsAssumption DEF LockNode, TS
    <3>3. StartOf(t, call.lo) = s
      <4> HIDE DEF n
      <4> QED
        BY <1>3, <3>1, <3>2, TableAt DEF t
    <3>4. nodes[n].start = call.lo => CutBelow(t, call.lo) = t
      BY <3>3 DEF CutBelow
    <3>5. nodes[n].end = call.hi => CutAfter(t, call.hi) = t
      <4>1. t[s].end = nodes[n].end
        BY <1>3 DEF Entry
      <4> QED
        BY <1>2, <1>3, <4>1 DEF CutAfter
    <3> QED
      BY <3>4, <3>5 DEF CutsOf
  <2>4. LockOK'
    <3>1. res' = TRUE
      BY <1>1, <1>4 DEF Passable
    <3>2. Table(nodes') = t /\ nodes'[Last(locks')] = nodes[n]
      BY <1>1 DEF t
    <3> QED
      BY <1>1, <1>2, <1>3, <1>4, <2>3, <3>1, <3>2 DEF LockOK
  <2>5. BeforeOK' /\ BackwardOK' /\ ReleaseOK'
    BY <1>1, <1>2, <2>1 DEF TableInv, BeforeOK, BackwardOK, ReleaseOK, Loops
  <2> QED
    BY <2>1, <2>4, <2>5, NoReturn
<1>5. CASE ~Lockable(nodes[n].status, call.is_read) /\ pc' = "return"
  <2>1. pc' \notin Grows /\ pc' \notin Loops /\ pc' \notin {"find", "lock", "idle"}
    BY <1>5 DEF Grows, Loops
  <2>2. TryLockAsTable'
    <3>1. Table(nodes') = call.before /\ StatusAt(call.before, call.hi) = nodes[n].status
      BY <1>1, <1>2, <1>3 DEF t
    <3>2. /\ IntervalLock(call.before, call.tid, call.lo, call.hi, call.is_read) = call.before
          /\ PointLock(call.before, call.tid, call.hi, call.is_read) = call.before
      BY <1>5, <3>1 DEF IntervalLock, PointLock
    <3>3. res' = PointGranted(call.before, call.hi, call.is_read)
      BY <1>1, <3>1 DEF PointGranted
    <3> QED
      BY <1>1, <3>1, <3>2, <3>3 DEF TryLockAsTable
  <2>3. BackwardAsTable' /\ ReleaseAsTable'
    BY <1>1, <1>2 DEF BackwardAsTable, ReleaseAsTable
  <2>4. BeforeOK' /\ BackwardOK' /\ LockOK' /\ ReleaseOK'
    BY <1>1, <1>2, <2>1 DEF TableInv, BeforeOK, BackwardOK, LockOK, ReleaseOK, Loops
  <2> QED
    BY <2>2, <2>3, <2>4 DEF AsTable
<1> QED
  BY <1>4, <1>5 DEF search

\* The cuts and the lock of tryLock are those of LockTable.
LEMMA LockStepTable ==
    ASSUME TableInv, lock
    PROVE  (BeforeOK /\ BackwardOK /\ LockOK /\ ReleaseOK /\ AsTable)'
<1> DEFINE n     == Last(locks)
           s     == nodes[n].start
           t     == Table(nodes)
           b     == call.before
           above == [nodes[n] EXCEPT !.start = call.lo]
           below == [nodes[n] EXCEPT !.end = call.lo - 1]
           left  == [nodes[n] EXCEPT !.end = call.hi]
           right == [nodes[n] EXCEPT !.start = call.hi + 1]
<1>1. /\ pc = "lock" /\ TreeInv /\ call.op = "tryLock" /\ NodesOK(nodes)
      /\ call' = call /\ locks' = locks /\ res' = res
  BY DEF lock, TableInv, TreeInv, CallOK
<1>2. /\ res = TRUE /\ Lockable(StatusAt(b, call.hi), call.is_read)
      /\ CutsOf(t, b, nodes[n], call.lo, call.hi)
  BY <1>1 DEF TableInv, LockOK
<1>3. /\ locks # <<>> /\ n \in DOMAIN nodes /\ nodes[n] \in LockNode
      /\ call.lo \in TS /\ call.hi \in TS /\ call.tid \in Tids
  BY <1>1, TopFacts
<1>4. /\ nodes[n].start <= call.lo /\ call.hi <= nodes[n].end /\ call.lo <= call.hi
      /\ call.lo # 0
  BY <1>1 DEF TreeInv, StackOK, CallOK, Asked
<1>5. /\ nodes[n].start \in 0 .. MaxTs /\ nodes[n].end \in 0 .. MaxTs /\ MaxTs \in Nat
      /\ TS = 0 .. MaxTs
  BY <1>1, <1>3, InvFacts
<1>6. /\ call.lo \in nodes[n].start .. nodes[n].end /\ call.hi \in nodes[n].start .. nodes[n].end
      /\ call.lo >= 1 /\ n # 1
  <2>1. /\ call.lo \in nodes[n].start .. nodes[n].end /\ call.hi \in nodes[n].start .. nodes[n].end
        /\ call.lo >= 1
    BY <1>3, <1>4, <1>5
  <2> QED
    BY <1>1, <1>3, <2>1, NotFirst
<1>7. /\ StartOf(t, call.lo) = s /\ StartOf(t, call.hi) = s
      /\ t[s] = Entry(nodes[n]) /\ t[s].end = nodes[n].end /\ s \in DOMAIN t
      /\ t = [x \in DOMAIN t |-> t[x]]
  <2> HIDE DEF n
  <2>1. StartOf(t, call.lo) = nodes[n].start /\ StartOf(t, call.hi) = nodes[n].start
    BY <1>1, <1>3, <1>6, TableAt
  <2>2. /\ Table(nodes)[nodes[n].start] = Entry(nodes[n]) /\ nodes[n].start \in DOMAIN Table(nodes)
        /\ Table(nodes) = [x \in DOMAIN Table(nodes) |-> Table(nodes)[x]]
    BY <1>1, <1>3, TableEntries
  <2> QED
    BY <2>1, <2>2 DEF Entry
<1> HIDE DEF t
<1>8. CASE nodes[n].start < call.lo /\ Cut(n, above, below)
  <2>1. /\ above \in LockNode /\ below \in LockNode
        /\ below.start = nodes[n].start /\ below.end = call.lo - 1
        /\ above.start = (call.lo - 1) + 1 /\ above.end = nodes[n].end /\ above.start = call.lo
        /\ above.status = nodes[n].status /\ above.tids = nodes[n].tids
        /\ below.status = nodes[n].status /\ below.tids = nodes[n].tids
    BY <1>3, <1>4, <1>5 DEF LockNode
  <2>2. call.lo - 1 \in Int /\ nodes[n].start <= call.lo - 1 /\ call.lo - 1 < nodes[n].end
    BY <1>3, <1>4, <1>5, <1>8
  <2>3. pc' = "insert" /\ nodes' = Append([nodes EXCEPT ![n] = above], below)
    BY <1>8 DEF Cut
  <2>4. Table(nodes') = Split(t, s, call.lo - 1) /\ nodes'[n] = above /\ n \in DOMAIN nodes'
    <3> HIDE DEF n, above, below
    <3>1. Table(nodes') = Split(Table(nodes), nodes[n].start, call.lo - 1)
      BY <1>1, <1>3, <1>6, <2>1, <2>2, <2>3, TableCut
    <3>2. nodes'[n] = above /\ n \in DOMAIN nodes'
      BY <1>1, <1>3, <1>6, <2>1, <2>2, <2>3, NodesCut
    <3> QED
      BY <3>1, <3>2 DEF t
  <2>5. t = b /\ Table(nodes') = CutBelow(b, call.lo)
    BY <1>2, <1>3, <1>5, <1>7, <1>8, <2>4 DEF CutsOf, CutBelow
  <2>6. above.end = call.hi => CutAfter(Table(nodes'), call.hi) = Table(nodes')
    <3> DEFINE u == Table(nodes')
    <3>1. TreeInv'
      BY <1>1, LockKeeps
    <3>2. NodesOK(nodes')
      BY <3>1 DEF TreeInv
    <3>3. u[above.start] = Entry(above)
      <4> HIDE DEF n, above, below
      <4> QED
        BY <2>4, <3>2, TableEntries
    <3>4. StartOf(u, call.hi) = above.start
      <4>1. call.hi \in above.start .. above.end
        BY <1>3, <1>4, <1>5, <2>1
      <4> HIDE DEF n, above, below
      <4> QED
        BY <1>3, <2>4, <3>2, <4>1, TableAt
    <3>5. u[above.start].end = above.end
      BY <3>3 DEF Entry
    <3> HIDE DEF u, above
    <3>6. above.end = call.hi => CutAfter(u, call.hi) = u
      BY <3>4, <3>5 DEF CutAfter
    <3> QED
      BY <3>6 DEF u
  <2>7. CutsOf(Table(nodes'), b, above, call.lo, call.hi)
    <3>1. ~(above.start < call.lo)
      BY <1>3, <1>5, <2>1
    <3> HIDE DEF above
    <3> QED
      BY <2>5, <2>6, <3>1 DEF CutsOf
  <2>8. LockOK'
    <3>1. nodes'[Last(locks')] = above
      BY <1>1, <2>4
    <3> HIDE DEF above, n
    <3> QED
      BY <1>1, <1>2, <2>7, <3>1 DEF LockOK
  <2>9. BeforeOK' /\ BackwardOK' /\ ReleaseOK'
    BY <1>1, <2>3 DEF TableInv, BeforeOK, BackwardOK, ReleaseOK
  <2> QED
    BY <2>3, <2>8, <2>9, NoReturn
<1>9. CASE nodes[n].start >= call.lo /\ nodes[n].end > call.hi /\ Cut(n, left, right)
  <2>1. /\ left \in LockNode /\ right \in LockNode
        /\ left.start = nodes[n].start /\ left.end = call.hi
        /\ right.start = call.hi + 1 /\ right.end = nodes[n].end
        /\ left.status = nodes[n].status /\ left.tids = nodes[n].tids
        /\ right.status = nodes[n].status /\ right.tids = nodes[n].tids
    BY <1>3, <1>4, <1>5, <1>9 DEF LockNode
  <2>2. /\ call.hi \in Int /\ nodes[n].start <= call.hi /\ call.hi < nodes[n].end
        /\ nodes[n].start = call.lo
    BY <1>3, <1>4, <1>5, <1>9
  <2>3. pc' = "insert" /\ nodes' = Append([nodes EXCEPT ![n] = left], right)
    BY <1>9 DEF Cut
  <2>4. Table(nodes') = Split(t, s, call.hi) /\ nodes'[n] = left
    <3> HIDE DEF n, left, right
    <3>1. Table(nodes') = Split(Table(nodes), nodes[n].start, call.hi)
      BY <1>1, <1>3, <1>6, <2>1, <2>2, <2>3, TableCut
    <3>2. nodes'[n] = left
      BY <1>1, <1>3, <1>6, <2>1, <2>2, <2>3, NodesCut
    <3> QED
      BY <3>1, <3>2 DEF t
  <2>5. t = CutBelow(b, call.lo)
    BY <1>2, <1>9, <2>2 DEF CutsOf
  <2>6. Table(nodes') = CutAfter(CutBelow(b, call.lo), call.hi)
    <3>1. CutAfter(t, call.hi) = Split(t, s, call.hi)
      BY <1>3, <1>5, <1>7, <2>2 DEF CutAfter
    <3> QED
      BY <2>4, <2>5, <3>1
  <2>7. CutsOf(Table(nodes'), b, left, call.lo, call.hi)
    <3>1. ~(left.start < call.lo) /\ ~(left.end > call.hi)
      BY <1>3, <1>5, <2>1, <2>2
    <3> HIDE DEF left
    <3> QED
      BY <2>6, <3>1 DEF CutsOf
  <2>8. LockOK'
    <3>1. nodes'[Last(locks')] = left
      BY <1>1, <2>4
    <3> HIDE DEF left, n
    <3> QED
      BY <1>1, <1>2, <2>7, <3>1 DEF LockOK
  <2>9. BeforeOK' /\ BackwardOK' /\ ReleaseOK'
    BY <1>1, <2>3 DEF TableInv, BeforeOK, BackwardOK, ReleaseOK
  <2> QED
    BY <2>3, <2>8, <2>9, NoReturn
<1>10. CASE /\ nodes[n].start >= call.lo /\ nodes[n].end <= call.hi
            /\ nodes' = [nodes EXCEPT ![n] = Taken(@)] /\ pc' = "return"
  <2>1. nodes[n].start = call.lo /\ nodes[n].end = call.hi
    BY <1>3, <1>4, <1>5, <1>10
  <2>2. t = CutAfter(CutBelow(b, call.lo), call.hi)
    BY <1>2, <2>1 DEF CutsOf
  <2>3. Table(nodes') = [t EXCEPT ![s] = Entry(Taken(nodes[n]))]
    <3>1. nodes' = [nodes EXCEPT ![n] = Taken(nodes[n])]
      BY <1>10
    <3>2. /\ Taken(nodes[n]) \in LockNode
          /\ Taken(nodes[n]).start = nodes[n].start /\ Taken(nodes[n]).end = nodes[n].end
      BY <1>1, <1>3, TakenType
    <3>3. Table(nodes') = [Table(nodes) EXCEPT ![nodes[n].start] = Entry(Taken(nodes[n]))]
      <4> HIDE DEF n
      <4> QED
        BY <1>1, <1>3, <1>6, <3>1, <3>2, TableChanged
    <3> QED
      BY <3>3 DEF t
  <2>4. Table(nodes') = Grab(t, {call.lo}, call.tid, LockedStatus(call.is_read))
    <3> DEFINE w == [t[s] EXCEPT !.status = LockedStatus(call.is_read), !.tids = @ \cup {call.tid}]
               v == [x \in DOMAIN t |-> IF x \in {s} THEN w ELSE t[x]]
    <3>1. Entry(Taken(nodes[n])) = w
      <4> DEFINE m == nodes[n]
      <4>1. m \in LockNode /\ t[s] = Entry(m)
        BY <1>3, <1>7
      <4> HIDE DEF m, s
      <4>2. Entry(Taken(m)) = w
        BY <4>1, TakenEntry
      <4> QED
        BY <4>2 DEF m
    <3>2. Grab(t, {s}, call.tid, LockedStatus(call.is_read)) = v
      BY DEF Grab
    <3> HIDE DEF w, s
    <3>3. [t EXCEPT ![s] = w] = v
      BY <1>7
    <3>4. s = call.lo
      BY <2>1 DEF s
    <3> QED
      BY <2>3, <3>1, <3>2, <3>3, <3>4
  <2>5. TryLockAsTable'
    <3>1. /\ Table(nodes') = IntervalLock(b, call.tid, call.lo, call.hi, call.is_read)
          /\ call.lo = call.hi => Table(nodes') = PointLock(b, call.tid, call.hi, call.is_read)
      BY <1>2, <2>2, <2>4 DEF IntervalLock, PointLock, CutBelow
    <3>2. res = PointGranted(b, call.hi, call.is_read)
      BY <1>2 DEF PointGranted, Passable
    <3> QED
      BY <1>1, <3>1, <3>2 DEF TryLockAsTable
  <2>6. BackwardAsTable' /\ ReleaseAsTable'
    BY <1>1 DEF BackwardAsTable, ReleaseAsTable
  <2>7. BeforeOK' /\ BackwardOK' /\ LockOK' /\ ReleaseOK'
    BY <1>1, <1>10 DEF TableInv, BeforeOK, BackwardOK, LockOK, ReleaseOK, Grows
  <2> QED
    BY <2>5, <2>6, <2>7 DEF AsTable
<1> QED
  BY <1>8, <1>9, <1>10 DEF lock

\* A round of freeze or unlock over the tree is one over the table.
LEMMA ReleaseTable ==
    ASSUME TableInv, release
    PROVE  (BeforeOK /\ BackwardOK /\ LockOK /\ ReleaseOK /\ AsTable)'
<1> DEFINE n     == Last(locks)
           s     == nodes[n].start
           t     == Table(nodes)
           b     == call.before
           i     == [lo |-> call.lo, hi |-> call.hi]
           owned == Locked(nodes[n]) /\ call.tid \in nodes[n].tids
           freed == IF call.op = "freeze" THEN FreezeNode(nodes[n])
                    ELSE [nodes[n] EXCEPT !.status = "FREE", !.tids = @ \ {call.tid}]
           wakes == \/ call.op = "freeze" \/ nodes[n].status = "WRITE_LOCK" \/ freed.tids = {}
<1>1. /\ pc = "release" /\ pc \in Loops /\ call' = call /\ res' = res /\ TreeInv
  BY DEF release, Loops, TableInv
<1>2. /\ call.op \in {"freeze", "unlock"} /\ NodesOK(nodes)
      /\ ReleaseOf(t, b, cur_ts, call.op, call.tid, i, ends)
  BY <1>1 DEF TableInv, ReleaseOK, TreeInv, CallOK, OpsAt
<1>3. /\ n \in DOMAIN nodes /\ nodes[n] \in LockNode
      /\ s \in TS /\ cur_ts \in TS /\ s <= cur_ts /\ cur_ts <= nodes[n].end
      /\ s \in DOMAIN t /\ t[s] = Entry(nodes[n])
  BY <1>1, TopEntry
<1>4. call.lo \in TS /\ call.hi \in TS /\ call.op \in Asked /\ i.lo = call.lo /\ i.hi = call.hi
  BY <1>1, TopFacts
<1>5. GoodTable(b)
  BY <1>4 DEF TableInv, BeforeOK
<1>6. /\ s \in DOMAIN b /\ b[s] = Entry(nodes[n])
      /\ b[s].end = nodes[n].end /\ b[s].status = nodes[n].status /\ b[s].tids = nodes[n].tids
  <2> HIDE DEF b, s, t, i
  <2>1. DOMAIN t = DOMAIN b /\ \A x \in DOMAIN b : x <= cur_ts => t[x] = b[x]
    BY <1>2, <1>3, <1>5, ReleaseAhead
  <2>2. s \in DOMAIN b /\ b[s] = Entry(nodes[n])
    BY <1>3, <2>1
  <2> QED
    BY <2>2 DEF Entry
<1>7. CASE /\ cur_ts >= call.lo
           /\ nodes' = (IF owned THEN [nodes EXCEPT ![n] = freed] ELSE nodes)
           /\ ends' = (IF owned /\ wakes THEN ends \cup {nodes[n].end} ELSE ends)
           /\ previous(n)
  <2>1. pc' = "find" /\ after' = "release" /\ cur_ts' = s - 1
    BY <1>1, <1>7 DEF previous
  <2>2. pc' \notin Grows /\ pc' \notin {"cut", "walk", "search", "lock", "return", "idle"}
    BY <2>1 DEF Grows
  <2>3. freed = Released(call.op, call.tid, nodes[n])
    BY DEF Released
  <2> DEFINE w == Released(call.op, call.tid, b[s])
             own == b[s].status \in {"READ_LOCK", "WRITE_LOCK"} /\ call.tid \in b[s].tids
             u == IF own THEN [t EXCEPT ![s] = w] ELSE t
             fs == IF own /\ Wakes(call.op, call.tid, b[s]) THEN ends \cup {b[s].end} ELSE ends
  <2>4. owned <=> own
    BY <1>6 DEF Locked
  <2>5. owned => (wakes <=> Wakes(call.op, call.tid, b[s]))
    <3>1. CASE call.op = "freeze"
      BY <3>1 DEF Wakes
    <3>2. CASE call.op = "unlock"
      <4>1. freed.tids = nodes[n].tids \ {call.tid}
        BY <1>3, <3>2 DEF LockNode
      <4>2. owned => (wakes <=> (nodes[n].status = "READ_LOCK" => nodes[n].tids = {call.tid}))
        <5> HIDE DEF freed, n
        <5>1. owned => (freed.tids = {} <=> nodes[n].tids = {call.tid})
          BY <4>1
        <5> QED
          BY <3>2, <5>1 DEF Locked
      <4> HIDE DEF b, s, n, owned, wakes
      <4>3. Wakes(call.op, call.tid, b[s]) <=>
               (nodes[n].status = "READ_LOCK" => nodes[n].tids = {call.tid})
        BY <1>6, <3>2 DEF Wakes
      <4> QED
        BY <4>2, <4>3
    <3> QED
      BY <1>2, <3>1, <3>2
  <2>6. Table(nodes') = u
    <3>1. CASE owned
      <4>1. nodes' = [nodes EXCEPT ![n] = freed] /\ n # 1
        BY <1>1, <1>3, <1>7, <3>1, NotFirst
      <4>2. /\ freed \in LockNode /\ freed.start = nodes[n].start /\ freed.end = nodes[n].end
            /\ Entry(freed) = Released(call.op, call.tid, Entry(nodes[n]))
        <5> HIDE DEF n, freed
        <5> QED
          BY <1>3, <2>3, ReleasedEntry
      <4>3. Table(nodes') = [Table(nodes) EXCEPT ![nodes[n].start] = Entry(freed)]
        <5>1. NodesOK(nodes) /\ n \in DOMAIN nodes
          BY <1>2, <1>3
        <5> HIDE DEF n, freed
        <5>2. Table([nodes EXCEPT ![n] = freed]) = [Table(nodes) EXCEPT ![nodes[n].start] = Entry(freed)]
          BY <4>1, <4>2, <5>1, TableChanged
        <5> QED
          BY <4>1, <5>2
      <4>4. Entry(freed) = w
        BY <1>6, <4>2
      <4> HIDE DEF w, freed, owned, own
      <4> QED
        BY <2>4, <3>1, <4>3, <4>4
    <3>2. CASE ~owned
      <4> HIDE DEF owned, own
      <4> QED
        BY <1>7, <2>4, <3>2
    <3> QED
      BY <3>1, <3>2
  <2>7. ends' = fs
    <3> HIDE DEF owned, own, wakes
    <3> QED
      BY <1>6, <1>7, <2>4, <2>5
  <2>8. ReleaseOf(u, b, s - 1, call.op, call.tid, i, fs)
    <3>1. s <= cur_ts /\ cur_ts <= b[s].end /\ i.lo <= cur_ts
      BY <1>3, <1>4, <1>6, <1>7, MaxTsAssumption DEF TS
    <3>2. i.lo \in TS /\ i.hi \in TS /\ s \in DOMAIN b
      BY <1>4, <1>6
    <3> HIDE DEF s, t, b, n, i
    <3>3. /\ u = IF own THEN [t EXCEPT ![s] = Released(call.op, call.tid, b[s])] ELSE t
          /\ fs = IF own /\ Wakes(call.op, call.tid, b[s]) THEN ends \cup {b[s].end} ELSE ends
          /\ own = (b[s].status \in {"READ_LOCK", "WRITE_LOCK"} /\ call.tid \in b[s].tids)
      OBVIOUS
    <3> HIDE DEF u, fs, own
    <3> QED
      BY <1>2, <1>3, <1>5, <3>1, <3>2, <3>3, ReleaseGoesOn
  <2> HIDE DEF u, fs
  <2>9. ReleaseOK'
    BY <1>1, <2>1, <2>6, <2>7, <2>8 DEF ReleaseOK
  <2>10. BeforeOK'
    BY <1>1, <2>1, <2>2 DEF TableInv, BeforeOK
  <2>11. LockOK' /\ BackwardOK'
    BY <2>1, <2>2 DEF LockOK, BackwardOK
  <2> QED
    BY <2>2, <2>9, <2>10, <2>11, NoReturn
<1>8. CASE cur_ts < call.lo /\ pc' = "return" /\ UNCHANGED <<nodes, ends>>
  <2>1. /\ call.op = "freeze" => t = FreezeNodes(b, call.tid, i) /\ ends = FreezeEnds(b, call.tid, i)
        /\ call.op = "unlock" => t = UnlockNodes(b, call.tid, i) /\ ends = UnlockEnds(b, call.tid, i)
    <3>1. cur_ts < i.lo /\ i.lo \in TS /\ i.hi \in TS
      BY <1>4, <1>8
    <3> HIDE DEF t, b, i
    <3> QED
      BY <1>2, <1>3, <1>5, <3>1, ReleaseStops
  <2>2. ReleaseAsTable'
    BY <1>1, <1>8, <2>1 DEF ReleaseAsTable
  <2>3. BackwardAsTable' /\ TryLockAsTable'
    BY <1>1, <1>2 DEF BackwardAsTable, TryLockAsTable
  <2>4. BeforeOK' /\ BackwardOK' /\ LockOK' /\ ReleaseOK'
    BY <1>1, <1>2, <1>8 DEF TableInv, BeforeOK, BackwardOK, LockOK, ReleaseOK
  <2> QED
    BY <2>2, <2>3, <2>4 DEF AsTable
<1> QED
  BY <1>7, <1>8 DEF release

\* A call starts from the table of the nodes.
LEMMA BeginTable ==
    ASSUME TableInv, NEW op \in Asked, NEW tid, NEW lo, NEW hi \in TS, NEW is_read,
           NEW next \in {"cut", "search", "release"},
           begin(op, tid, lo, hi, is_read, next)
    PROVE  (BeforeOK /\ BackwardOK /\ LockOK /\ ReleaseOK /\ AsTable)'
<1> DEFINE t == Table(nodes)
<1>1. /\ pc = "idle" /\ pc' = "find" /\ cur_ts' = hi /\ after' = next
      /\ call'.op = op /\ call'.tid = tid /\ call'.lo = lo /\ call'.hi = hi
      /\ call'.is_read = is_read /\ call'.before = t
      /\ nodes' = nodes /\ ends' = ends
  BY DEF begin
<1>2. GoodTable(t)
  BY TableGood DEF TableInv, TreeInv
<1>3. ends = {}
  BY <1>1 DEF TableInv, BeforeOK
<1> HIDE DEF t
<1>4. Table(nodes') = t
  BY <1>1 DEF t
<1>5. BeforeOK'
  BY <1>1, <1>2, <1>4 DEF BeforeOK
<1>6. pc' \notin Grows /\ after' # "walk"
  BY <1>1 DEF Grows
<1>7. BackwardOK' /\ LockOK'
  BY <1>1, <1>6 DEF BackwardOK, LockOK
<1>8. ReleaseOK'
  <2> DEFINE i == [lo |-> lo, hi |-> hi]
  <2>1. i.hi = hi
    OBVIOUS
  <2> HIDE DEF i
  <2>2. ReleaseOf(t, t, hi, op, tid, i, {})
    BY <1>2, <2>1, ReleaseStarts
  <2> QED
    BY <1>1, <1>3, <1>4, <2>2 DEF ReleaseOK, i
<1> QED
  BY <1>1, <1>5, <1>7, <1>8, NoReturn

\* Every step keeps the invariant.
LEMMA TableInvKept == TableInv /\ [Next]_vars => TableInv'
<1> SUFFICES ASSUME TableInv, [Next]_vars
             PROVE  (BeforeOK /\ BackwardOK /\ LockOK /\ ReleaseOK /\ AsTable)'
  BY TreeInvKept DEF TableInv
<1>1. CASE find
  BY <1>1, FindTable
<1>2. CASE insert
  <2>1. pc \in Grows /\ pc' \in Grows /\ UNCHANGED <<nodes, call, locks, cur_ts, ends, res>>
    BY <1>2 DEF insert, Grows
  <2> QED
    BY <2>1, GrowTable
<1>3. CASE balance
  <2>1. pc \in Grows /\ pc' \in Grows /\ UNCHANGED <<nodes, call, locks, cur_ts, ends, res>>
    BY <1>3 DEF balance, Grows
  <2> QED
    BY <2>1, GrowTable
<1>4. CASE getRoot
  BY <1>4, GetRootTable
<1>5. CASE cut
  BY <1>5, CutStepTable
<1>6. CASE walk
  BY <1>6, WalkTable
<1>7. CASE search
  BY <1>7, SearchTable
<1>8. CASE lock
  BY <1>8, LockStepTable
<1>9. CASE release
  BY <1>9, ReleaseTable
<1>10. CASE return
  <2>1. pc' = "idle" /\ call'.op = "none" /\ ends' = {}
    BY <1>10 DEF return, NoCall
  <2>2. pc' \notin Grows /\ call'.op \notin Asked
    BY <2>1 DEF Grows, Asked
  <2>3. BeforeOK' /\ BackwardOK' /\ LockOK' /\ ReleaseOK'
    BY <2>1, <2>2 DEF BeforeOK, BackwardOK, LockOK, ReleaseOK
  <2> QED
    BY <2>1, <2>3, NoReturn
<1>11. ASSUME NEW tid \in Tids, NEW ts \in Times, NEW r \in BackwardModes,
              tryBackwardLock(tid, ts, r)
       PROVE  (BeforeOK /\ BackwardOK /\ LockOK /\ ReleaseOK /\ AsTable)'
  <2>1. ts \in TS /\ "tryBackwardLock" \in Asked
    BY TreeAssumption, MaxTsAssumption DEF TS, Asked
  <2>2. begin("tryBackwardLock", tid, 0, ts, r, "cut")
    BY <1>11 DEF tryBackwardLock
  <2> QED
    BY <2>1, <2>2, BeginTable
<1>12. ASSUME NEW tid \in Tids, NEW i \in Intervals, NEW r \in PointModes, tryLock(tid, i, r)
       PROVE  (BeforeOK /\ BackwardOK /\ LockOK /\ ReleaseOK /\ AsTable)'
  <2>1. i.hi \in TS /\ "tryLock" \in Asked
    BY TreeAssumption DEF Asked
  <2>2. begin("tryLock", tid, i.lo, i.hi, r, "search")
    BY <1>12 DEF tryLock
  <2> QED
    BY <2>1, <2>2, BeginTable
<1>13. ASSUME NEW tid \in Tids, NEW op \in {"freeze", "unlock"}, finish(tid, op)
       PROVE  (BeforeOK /\ BackwardOK /\ LockOK /\ ReleaseOK /\ AsTable)'
  <2>1. intervals[tid].hi \in TS /\ op \in Asked
    BY DEF TableInv, TreeInv, CallOK, Asked
  <2>2. begin(op, tid, intervals[tid].lo, intervals[tid].hi, FALSE, "release")
    BY <1>13 DEF finish
  <2> QED
    BY <2>1, <2>2, BeginTable
<1>14. CASE UNCHANGED vars
  <2>1. /\ nodes' = nodes /\ call' = call /\ pc' = pc /\ after' = after /\ locks' = locks
        /\ cur_ts' = cur_ts /\ ends' = ends /\ res' = res
    BY <1>14 DEF vars
  <2>2. BeforeOK' /\ BackwardOK' /\ LockOK' /\ ReleaseOK'
    BY <2>1 DEF TableInv, BeforeOK, BackwardOK, LockOK, ReleaseOK
  <2>3. AsTable'
    BY <2>1 DEF TableInv, AsTable, BackwardAsTable, TryLockAsTable, ReleaseAsTable
  <2> QED
    BY <2>2, <2>3
<1> QED
  BY <1>1, <1>2, <1>3, <1>4, <1>5, <1>6, <1>7, <1>8, <1>9, <1>10, <1>11, <1>12, <1>13, <1>14
     DEF Next

\* The invariant of the calls: what each has done so far to the table it started from.
THEOREM CallInvariant == Spec => []TableInv
<1>1. Init => TableInv
  <2> SUFFICES ASSUME Init PROVE TableInv
    OBVIOUS
  <2>1. pc = "insert" /\ call.op = "createKeyInfo"
    BY DEF Init, NoCall
  <2>2. BeforeOK /\ BackwardOK /\ LockOK /\ ReleaseOK /\ AsTable
    BY <2>1 DEF BeforeOK, BackwardOK, LockOK, ReleaseOK, AsTable, BackwardAsTable,
                TryLockAsTable, ReleaseAsTable, Asked
  <2> QED
    BY <2>2, InitHolds DEF TableInv
<1> QED
  BY <1>1, TableInvKept, PTL DEF Spec

\* tryBackwardLock on the tree is tryBackwardLock on the table.
THEOREM BackwardIsTable == Spec => []BackwardAsTable
<1>1. TableInv => BackwardAsTable
  BY DEF TableInv, AsTable
<1> QED
  BY <1>1, CallInvariant, PTL

\* tryLock on the tree is tryLock on the table.
THEOREM TryLockIsTable == Spec => []TryLockAsTable
<1>1. TableInv => TryLockAsTable
  BY DEF TableInv, AsTable
<1> QED
  BY <1>1, CallInvariant, PTL

\* freeze and unlock on the tree are freeze and unlock on the table.
THEOREM ReleaseIsTable == Spec => []ReleaseAsTable
<1>1. TableInv => ReleaseAsTable
  BY DEF TableInv, AsTable
<1> QED
  BY <1>1, CallInvariant, PTL
=============================================================================
