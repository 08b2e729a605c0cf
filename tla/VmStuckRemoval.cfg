SPECIFICATION RemovalSpec
CONSTANTS
    Threads = {t1}
    Ops = {"create", "start", "remove", "sv_error"}
    NicCount = 0
    Gpu = FALSE
    MaxQueue = 0
    MaxCrashes = 0
    Free = Free
PROPERTIES RemovalFinishes
