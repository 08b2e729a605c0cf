SPECIFICATION Spec
CONSTANTS
    Nodes = {0, 1, 2}
    Victim = 2
    Admins = {0}
    Bootnodes = {0, 2}
    Statuses = {0}
    MaxWrites = 3
    MaxCrashes = 1
INVARIANTS NoResurrection RemovedStaysOut
PROPERTIES RemovalSpreads
