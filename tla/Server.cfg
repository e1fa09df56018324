CONSTANTS
    t1 = t1
    t2 = t2
    t3 = t3
    th1 = th1
    th2 = th2
    MaxTs = 4
    Tids <- ThreeTids
    Keys = {1}
    Threads <- TwoThreads
    Times = {0, 1, 2, 3}
    BackwardModes = {TRUE}
    PointModes = {FALSE}
    Aborters <- ThreeTids
    Reruns = TRUE
    SharedUnlock = FALSE
    StartTimes = {1, 2, 3}
    SameTimes = FALSE
    Readers <- OuterTids
    Writers <- TwoTids
    Quitters <- MidTid
    MaxWrites = 1
    Lossy <- LaterTids
SYMMETRY ThreadSymmetry
SPECIFICATION ServerSpec
INVARIANTS ServerTypeOK ReadsLatest VersionsFrozen AllOrNothing LeaksOnlyAfterLoss
PROPERTIES UsesLockManager
CHECK_DEADLOCK FALSE
