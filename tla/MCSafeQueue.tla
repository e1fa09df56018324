----------------------------- MODULE MCSafeQueue -----------------------------
(* An instance of SafeQueue for TLC.                                          *)
EXTENDS SafeQueue, TLC

CONSTANTS th1, th2, th3, th4, a, b

FourThreads == {th1, th2, th3, th4}
TwoItems == {a, b}
Symmetry == Permutations(FourThreads) \cup Permutations(TwoItems)
=============================================================================
