SPECIFICATION SceneSpec
CONSTANTS
    m1 = m1
    m2 = m2
    m3 = m3
    m4 = m4
    c1 = c1
    c2 = c2
    None = None
    Messages = {m1, m2, m3}
    Callers = {c1, c2}
    Seed <- NoSeed
    Operations = {"send", "obligation", "status"}
    Statuses = {"acknowledged"}
    MaxThreadMessages = 3
    MaxParentDepth = 2
    MaxRows = 4
    MaxCrashes = 1
SYMMETRY Symmetry
INVARIANTS
    NoWorkSkipped
    
\* The bounds stop every caller in the end.
CHECK_DEADLOCK FALSE
