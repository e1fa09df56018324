CONSTANTS
    t1 = t1
    t2 = t2
    t3 = t3
    th1 = th1
    th2 = th2
    MaxTs = 3
    Tids <- TwoTids
    Keys = {1, 2}
    Threads <- TwoThreads
    Times = {2}
    BackwardModes = {TRUE}
    PointModes = {FALSE}
    Aborters <- TwoTids
    Reruns = TRUE
    SharedUnlock = FALSE
    NoRequest = NoRequest
SYMMETRY Symmetry2
SPECIFICATION SyncSpec
INVARIANTS TypeOK TablesTile ExclusiveOwners ReadProtected NoLostWakeup LocksRecorded OnlyKnownDeadlocks RecordStays
PROPERTIES FrozenForever CallsAreAtomic
CHECK_DEADLOCK FALSE
