SPECIFICATION FairSpec
CONSTANTS
    Peers = {p1, p2}
    Callers = {c1, c2}
    MaxFaults = 2
INVARIANTS InterfaceFollows ExitKeepsFile
PROPERTIES InterfaceConverges RegistrationRepairs
