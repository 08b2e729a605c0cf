SPECIFICATION CidsSpec
CONSTANTS
    VMs = {v1, v2, v3}
    PoolSize = 2
    Ops = {"sv_error"}
    MaxCrashes = 1
    NoId = NoId
INVARIANTS CidsUnique CidsReserved
