SPECIFICATION CidsSpec
CONSTANTS
    VMs = {v1, v2, v3}
    PoolSize = 2
    Ops = {"overlap"}
    MaxCrashes = 0
    NoId = NoId
INVARIANTS CidsUnique
