SPECIFICATION CopySpec
CONSTANTS
    m1 = m1
    m2 = m2
    m3 = m3
    m4 = m4
    m5 = m5
    c1 = c1
    c2 = c2
    None = None
    Messages = {m1, m2, m3}
    Callers = {c1, c2}
    Seed <- ShortChain
    Operations = {"obligation"}
    Statuses = {"acknowledged"}
    MaxThreadMessages = 25
    MaxParentDepth = 3
    MaxRows = 1
    MaxCrashes = 1
    MaxWalk = 20
    MaxCommands = 2
VIEW WithoutHistory
SYMMETRY CallerSymmetry
INVARIANTS
    OnlyDoneWorkIsUndone
    ListedUnlessInterrupted
\* The bounds stop every caller in the end.
CHECK_DEADLOCK FALSE
