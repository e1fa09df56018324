CONSTANTS
    t1 = t1
    t2 = t2
    MaxTs = 5
    Tids <- TwoTids
    Times = {1, 2}
    BackwardModes = {TRUE}
    Intervals <- SomeIntervals
    PointModes = {FALSE}
SYMMETRY Symmetry
SPECIFICATION RemoveSpec
INVARIANTS Balanced FindWorks BackwardAsTable TryLockAsTable ReleaseAsTable RemoveKeepsTree
