SPECIFICATION Spec
CONSTANTS
    Threads = {t1, t2, t3}
    Ops = {"create", "reload"}
    NicCount = 1
    Gpu = FALSE
    MaxQueue = 1
    MaxCrashes = 0
    Free = Free
SYMMETRY Symmetry
INVARIANTS NetdMarked
CHECK_DEADLOCK FALSE
