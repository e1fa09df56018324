---------------------------- MODULE MCLockNode ----------------------------
(* An instance of AVLTreeRemove, and so of AVLTreeLockNode, for TLC.        *)
EXTENDS AVLTreeRemove

CONSTANTS t1, t2

TwoTids == {t1, t2}
Symmetry == Permutations(TwoTids)

\* A single timestamp, as the server asks for, and an interval of two.
SomeIntervals == {[lo |-> 3, hi |-> 3], [lo |-> 3, hi |-> 4]}
=============================================================================
