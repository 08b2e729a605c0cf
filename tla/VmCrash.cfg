SPECIFICATION Spec
CONSTANTS
    Threads = {t1, t2}
    Ops = {"create", "start", "stop", "remove", "reload", "event", "update", "reconcile", "cancel"}
    NicCount = 1
    Gpu = FALSE
    MaxQueue = 1
    MaxCrashes = 1
    Free = Free
SYMMETRY Symmetry
INVARIANTS NetdMarked LiveKeepsNics
