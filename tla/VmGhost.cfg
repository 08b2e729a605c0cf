SPECIFICATION Spec
CONSTANTS
    Threads = {t1}
    Ops = {"create", "remove", "reload"}
    NicCount = 0
    Gpu = FALSE
    MaxQueue = 0
    MaxCrashes = 0
    Free = Free
INVARIANTS NoGhost
