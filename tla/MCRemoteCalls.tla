---------------------------- MODULE MCRemoteCalls ----------------------------
(* Instances of RemoteCalls for TLC.                                         *)
EXTENDS RemoteCalls, TLC

CONSTANTS w1, w2, c1, c2, p1, p2

OneWorker == {w1}
TwoWorkers == {w1, w2}
TwoThreads == {c1, c2}
OneProcess == {p1}
Together == [t \in TwoThreads |-> p1]
FirstWrites == [k \in Coordinators |-> IF k[2] = 0 THEN <<"TREAD", "TWRITE">> ELSE <<"TREAD">>]
=============================================================================
