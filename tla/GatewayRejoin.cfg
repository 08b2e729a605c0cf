SPECIFICATION Spec
CONSTANTS
    Nodes = {0, 1, 2}
    Victim = 2
    Admins = {0}
    Bootnodes = {0}
    Statuses = {0, 1}
    MaxWrites = 3
    MaxCrashes = 1
INVARIANT RestartRejoins
