CONSTANTS
    t1 = t1
    t2 = t2
    t3 = t3
    th1 = th1
    th2 = th2
    MaxTs = 3
    Tids <- TwoTids
    Keys = {1, 2}
    Threads <- TwoThreads
    Times = {0, 1, 2}
    BackwardModes = {TRUE}
    PointModes = {FALSE}
    Aborters <- TwoTids
    Reruns = TRUE
    SharedUnlock = FALSE
    StartTimes = {1, 2}
    SameTimes = TRUE
    Readers <- OneTid
    Writers <- TwoTids
    Quitters <- NoTids
    MaxWrites = 2
    Lossy <- NoTids
SYMMETRY ThreadSymmetry
SPECIFICATION ServerSpec
INVARIANTS ReadsLatest AllOrNothing
PROPERTIES UsesLockManager
CHECK_DEADLOCK FALSE
