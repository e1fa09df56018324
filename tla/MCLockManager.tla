--------------------------- MODULE MCLockManager ---------------------------
(* Instances of LockManagerSync for TLC.  Transactions and threads are       *)
(* interchangeable; keys are ordered.                                        *)
EXTENDS LockManagerSync, TLC

CONSTANTS t1, t2, t3, th1, th2

TwoTids == {t1, t2}
TwoThreads == {th1, th2}
Symmetry2 == Permutations(TwoTids) \cup Permutations(TwoThreads)
=============================================================================
