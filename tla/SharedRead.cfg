CONSTANTS
    t1 = t1
    t2 = t2
    t3 = t3
    th1 = th1
    th2 = th2
    MaxTs = 4
    Tids <- ThreeTids
    Keys = {1}
    Threads <- OneThread
    Times = {0, 1, 2, 3}
    BackwardModes = {TRUE}
    PointModes = {FALSE}
    Aborters <- ThreeTids
    Reruns = TRUE
    SharedUnlock = TRUE
    StartTimes = {1, 2, 3}
    SameTimes = FALSE
    Readers <- TwoTids
    Writers <- LastTid
    Quitters <- TwoTids
    MaxWrites = 1
    Lossy <- NoTids
SPECIFICATION ServerSpec
INVARIANTS ReadsLatest
CHECK_DEADLOCK FALSE
