CONSTANTS
    th1 = th1
    th2 = th2
    th3 = th3
    th4 = th4
    a = a
    b = b
    Threads <- FourThreads
    Items <- TwoItems
    MaxSize = 2
    MaxPuts = 4
SYMMETRY Symmetry
SPECIFICATION Spec
INVARIANTS TypeOK FIFO NoLostSignal
CHECK_DEADLOCK FALSE
