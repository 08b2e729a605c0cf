SPECIFICATION Spec
CONSTANTS
    Threads = {t1, t2}
    Ops = {"create", "start", "auto", "stop", "remove", "update", "reconcile", "sv_stop", "sv_remove", "cancel", "sv_error", "event"}
    NicCount = 2
    Gpu = FALSE
    MaxQueue = 2
    MaxCrashes = 0
    Free = Free
SYMMETRY Symmetry
INVARIANTS NoDeleteUnderQemu OneConfigWriter MemoryMatchesDisk NetdMarked LiveKeepsNics
PROPERTIES StopSticks
