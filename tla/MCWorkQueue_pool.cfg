\* Two rows under one idempotency key, of different priority, and a caller that may die.
CONSTANTS
    w1 = w1 w2 = w2 k1 = k1 a1 = a1 a2 = a2 worker = worker stranger = stranger build = build review = review shipped = shipped escalated = escalated
    Works = {w1, w2}
    Actors = {a1}
    NoActor = NoActor
    Roles = {worker}
    Keys = {k1}
    NoKey = NoKey
    Exits = {shipped}
    NoExit = NoExit
    Kinds = {build, review}
    Kind <- MCKind2
    Priority <- MCPriority
    NoUnit = NoUnit
    Contracts <- PoolContract
    Switches = {}
    MaxAttempts = 1
    LeaseTicks = 1
    MaxToken = 0
    MaxCallers = 2
    MaxAppends = 1
    MaxEditors = 0
    MaxCrashes = 1
SPECIFICATION LiveSpec
INVARIANTS
    OneRowPerKey
PROPERTIES
    ClosedWorkIsAnnounced
CHECK_DEADLOCK FALSE
