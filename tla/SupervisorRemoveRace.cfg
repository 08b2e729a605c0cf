SPECIFICATION Spec
CONSTANTS
    Ids = {i1}
    Callers = {k1, k2}
    Handles = {h1, h2}
    Children = {c1, c2}
    Calls = {"deploy", "stop", "remove"}
    MaxRounds = 1
    None = None
PROPERTY RemovedNotRunning
