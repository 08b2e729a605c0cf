SPECIFICATION Spec
CONSTANTS
    Peers = {p1, p2}
    Callers = {c1, c2}
    MaxFaults = 0
INVARIANT NoPeerLeftBehind
