SPECIFICATION Spec
CONSTANTS
    Threads = {t1, t2}
    Ops = {"create", "reload"}
    NicCount = 0
    Gpu = FALSE
    MaxQueue = 0
    MaxCrashes = 0
    Free = Free
PROPERTIES OnlyGoneDropped
