SPECIFICATION Spec
CONSTANTS
    Threads = {t1}
    Ops = {"create", "remove"}
    NicCount = 0
    Gpu = FALSE
    MaxQueue = 0
    MaxCrashes = 1
    Free = Free
INVARIANTS DeletionLeavesMarker
