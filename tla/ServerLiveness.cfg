CONSTANTS
    t1 = t1
    t2 = t2
    t3 = t3
    th1 = th1
    th2 = th2
    MaxTs = 3
    Tids <- TwoTids
    Keys = {1}
    Threads <- OneThread
    Times = {0, 1, 2}
    BackwardModes = {TRUE}
    PointModes = {FALSE}
    Aborters <- TwoTids
    Reruns = TRUE
    SharedUnlock = TRUE
    StartTimes = {1, 2}
    SameTimes = TRUE
    Readers <- TwoTids
    Writers <- TwoTids
    Quitters <- TwoTids
    MaxWrites = 1
    Lossy <- NoTids
SPECIFICATION FairServerSpec
PROPERTIES EveryCallReturns
CHECK_DEADLOCK FALSE
