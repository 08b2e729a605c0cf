SPECIFICATION Spec
CONSTANTS
    Nodes = {0, 1}
    Domains = {d1}
    Acme = Acme
    Tasks = {1, 2, 3}
    NodeOf <- MCNodeOf
    Scenarios <- MCScenarios
    Reloaders = {"watcher"}
    RenewAfter = 1
    Life = 1
    Timeout = 1
    MaxClock = 1
    MaxOps = 2
    MaxFaults = 1
    None = None
INVARIANTS HolderKeepsLock FirstUseIsFirst ServedIsStored
