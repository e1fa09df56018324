CONSTANTS
    t1 = t1
    t2 = t2
    t3 = t3
    th1 = th1
    th2 = th2
    MaxTs = 2
    Tids <- OneTid
    Keys = {1, 2}
    Threads <- OneThread
    Times = {0, 1}
    BackwardModes = {TRUE}
    PointModes = {FALSE}
    Aborters <- OneTid
    Reruns = TRUE
    SharedUnlock = TRUE
    StartTimes = {1}
    SameTimes = FALSE
    Readers <- NoTids
    Writers <- OneTid
    Quitters <- NoTids
    MaxWrites = 2
    Lossy <- OneTid
SPECIFICATION ServerSpec
INVARIANTS AlwaysAtomic
CHECK_DEADLOCK FALSE
