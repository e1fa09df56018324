--------------------------- MODULE MCSimpleTServer ---------------------------
(* Instances of SimpleTServer for TLC.                                        *)
EXTENDS SimpleTServer, TLC

CONSTANTS t1, t2, t3, th1, th2

NoTids == {}
OneTid == {t1}
MidTid == {t2}
TwoTids == {t1, t2}
LastTid == {t3}
LaterTids == {t2, t3}
OuterTids == {t1, t3}
ThreeTids == {t1, t2, t3}
OneThread == {th1}
TwoThreads == {th1, th2}
ThreadSymmetry == Permutations(TwoThreads)
=============================================================================
