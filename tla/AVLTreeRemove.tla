--------------------------- MODULE AVLTreeRemove ---------------------------
(***************************************************************************)
(* AVLTreeLockNode::remove, which the lock manager never calls.            *)
(*                                                                         *)
(* One node of any tree that the calls have made is removed, and then the  *)
(* model stops.  remove() ends with the steps balance and getRoot of       *)
(* AVLTreeLockNode, called from the removed node; the node that getRoot    *)
(* comes to is what remove() returns.                                      *)
(***************************************************************************)
EXTENDS AVLTreeLockNode

VARIABLES
    gone,   \* the removed node, if there is one
    taker   \* new_lock while it has yet to take the place of the removed node

removeVars == <<vars, gone, taker>>

RemoveInit == Init /\ gone = null /\ taker = null

\* c becomes the child of p on the side.
Hang(t, p, side, c) ==
    [t EXCEPT !.child[p][side] = c,
              !.parent = [x \in DOMAIN t.parent |-> IF x = c THEN p ELSE t.parent[x]]]

\* c takes the place of n below the parent of n, to which n stays linked.
Replace(t, n, c) ==
    [t EXCEPT !.child = [x \in DOMAIN t.child |-> [s \in Sides |->
                            IF x = t.parent[n] /\ t.child[x][s] = n THEN c ELSE t.child[x][s]]],
              !.parent = [x \in DOMAIN t.parent |-> IF x = c THEN t.parent[n] ELSE t.parent[x]]]

\* Without a left child the right one takes the place of n, if there is one.  The
\* root can be removed only if its left child has a right one: else the code follows
\* the null parent of the root.
remove(n) ==
    LET left == tree.child[n]["left"]
        p    == tree.parent[n]
    IN  /\ pc = "idle"
        /\ p # null \/ (left # null /\ tree.child[left]["right"] # null)
        /\ gone' = n
        /\ from' = n
        /\ \/ /\ left # null
              /\ at' = left
              /\ pc' = "rightmost"
              /\ UNCHANGED tree
           \/ /\ left = null
              /\ tree' = Replace(tree, n, tree.child[n]["right"])
              /\ at' = p
              /\ pc' = "balance"
        /\ UNCHANGED <<nodes, root, intervals, call, after, locks, cur_ts, ends, res, taker>>

\* Mutant: the heights above the place that new_lock leaves are not updated.
rightmost_NoBalance ==
    LET p == tree.parent[at]
    IN  /\ pc = "rightmost"
        /\ \/ /\ tree.child[at]["right"] # null
              /\ at' = tree.child[at]["right"]
              /\ UNCHANGED <<tree, pc, taker>>
           \/ /\ tree.child[at]["right"] = null
              /\ tree' = IF p = gone
                         THEN Hang(Replace(tree, gone, at), at, "right", tree.child[gone]["right"])
                         ELSE Hang(tree, p, "right", tree.child[at]["left"])
              /\ taker' = IF p = gone THEN null ELSE at
              /\ at' = IF p = gone THEN at ELSE gone
              /\ pc' = IF p = gone THEN "balance" ELSE "getRoot"
        /\ UNCHANGED <<nodes, root, intervals, call, after, from, locks, cur_ts, ends, res, gone>>

\* new_lock is the last node before the removed one.  If it is its left child it
\* takes its place at once, else it first gives its own place to its left child.
rightmost ==
    LET p == tree.parent[at]
    IN  /\ pc = "rightmost"
        /\ \/ /\ tree.child[at]["right"] # null
              /\ at' = tree.child[at]["right"]
              /\ UNCHANGED <<tree, pc, taker>>
           \/ /\ tree.child[at]["right"] = null /\ p = gone
              /\ tree' = Hang(Replace(tree, gone, at), at, "right", tree.child[gone]["right"])
              /\ pc' = "balance"
              /\ UNCHANGED <<at, taker>>
           \/ /\ tree.child[at]["right"] = null /\ p # gone
              /\ tree' = Hang(tree, p, "right", tree.child[at]["left"])
              /\ taker' = at
              /\ at' = p
              /\ pc' = "balance"
        /\ UNCHANGED <<nodes, root, intervals, call, after, from, locks, cur_ts, ends, res, gone>>

\* new_lock takes over the links and heights that the removed node has after the
\* balancing.
takeOver ==
    LET t     == Replace(tree, gone, taker)
        below == Hang(Hang(t, taker, "left", t.child[gone]["left"]), taker, "right",
                      t.child[gone]["right"])
    IN  /\ pc = "getRoot" /\ taker # null
        /\ tree' = [below EXCEPT !.height[taker] = t.height[gone]]
        /\ taker' = null
        /\ UNCHANGED <<nodes, root, intervals, call, pc, at, after, from, locks, cur_ts, ends, res,
                       gone>>

\* getRoot is at a node without a parent, which remove() returns.
Removed == gone # null /\ taker = null /\ pc = "getRoot" /\ tree.parent[at] = null

RemoveNext ==
    \/ gone = null /\ Next /\ UNCHANGED <<gone, taker>>
    \/ \E n \in DOMAIN nodes : gone = null /\ remove(n)
    \/ rightmost
    \/ gone # null /\ balance /\ UNCHANGED <<gone, taker>>
    \/ takeOver
    \/ gone # null /\ taker = null /\ ~Removed /\ getRoot /\ UNCHANGED <<gone, taker>>
    \/ Removed /\ UNCHANGED removeVars

RemoveSpec == RemoveInit /\ [][RemoveNext]_removeVars

\* Whichever node is removed, the others stay a balanced search tree, and remove()
\* returns its root unless the removed node still has no parent: then it returns that
\* node.
RemoveKeepsTree ==
    Removed => \E rt \in DOMAIN nodes \ {gone} :
                  /\ IsBalanced(tree, rt, DOMAIN nodes \ {gone})
                  /\ at \in {rt, gone}
=============================================================================
