SPECIFICATION TimerSpec
CONSTANTS
    Threads = {t1, t2}
    Ops = {"create", "start", "stop", "remove", "reconcile"}
    NicCount = 1
    Gpu = FALSE
    MaxQueue = 0
    MaxCrashes = 1
    Free = Free
PROPERTIES RemovalFinishes CleanupConverges
