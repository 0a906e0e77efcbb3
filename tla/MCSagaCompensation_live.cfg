SPECIFICATION LiveCopySpec
CONSTANTS
    m1 = m1
    m2 = m2
    m3 = m3
    m4 = m4
    m5 = m5
    c1 = c1
    c2 = c2
    None = None
    Messages = {m1, m2, m3, m4, m5}
    Callers = {c1, c2}
    Seed <- FailedChain
    Operations = {"status"}
    Statuses = {"acknowledged"}
    MaxThreadMessages = 25
    MaxParentDepth = 4
    MaxRows = 1
    MaxCrashes = 0
    MaxWalk = 20
    MaxCommands = 1
VIEW WithoutHistory
PROPERTIES
    EveryAncestorIsAsked
\* The bounds stop every caller in the end.
CHECK_DEADLOCK FALSE
