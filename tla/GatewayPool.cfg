SPECIFICATION Spec
CONSTANTS
    Nodes = {0}
    Ids = {1, 2}
    Share <- MCShare
    Grace = 0
    Timeout = 0
    MaxClock = 1
    MaxWrites = 4
    None = None
INVARIANT QuietPoolCovers
