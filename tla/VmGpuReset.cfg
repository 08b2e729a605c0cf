SPECIFICATION Spec
CONSTANTS
    Threads = {t1, t2}
    Ops = {"create", "start", "cancel"}
    NicCount = 0
    Gpu = TRUE
    MaxQueue = 0
    MaxCrashes = 0
    Free = Free
INVARIANTS ResetBeforeQemu
