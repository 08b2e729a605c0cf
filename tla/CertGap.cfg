SPECIFICATION Spec
CONSTANTS
    Nodes = {0, 1}
    Domains = {d1}
    Acme = Acme
    Tasks = {1, 2, 3}
    NodeOf <- MCNodeOf
    Scenarios <- MCRenewals
    Reloaders = {"watcher"}
    RenewAfter = 1
    Life = 1
    Timeout = 1
    MaxClock = 1
    MaxOps = 3
    MaxFaults = 0
    None = None
INVARIANT NodeExclusive
