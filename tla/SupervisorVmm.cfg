SPECIFICATION Spec
CONSTANTS
    Ids = {i1}
    Callers = {k1, k2}
    Handles = {h1, h2}
    Children = {c1, c2}
    Calls = {"deploy", "stop", "remove", "clear", "shutdown", "signal"}
    MaxRounds = 2
    None = None
SYMMETRY Symmetry
CHECK_DEADLOCK FALSE
INVARIANTS TypeOK StoppedMeansDead ShutdownQuiet
PROPERTIES ImplementsTable
