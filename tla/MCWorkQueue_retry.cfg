\* One row through every retry, expiry, dead letter, requeue and crash.
CONSTANTS
    w1 = w1 w2 = w2 k1 = k1 a1 = a1 a2 = a2 worker = worker stranger = stranger build = build review = review shipped = shipped escalated = escalated
    Works = {w1}
    Actors = {a1, a2}
    NoActor = NoActor
    Roles = {worker, stranger}
    Keys = {}
    NoKey = NoKey
    Exits = {shipped, escalated}
    NoExit = NoExit
    Kinds = {build}
    Kind <- MCKind1
    Priority <- MCPriority
    NoUnit = NoUnit
    Contracts <- TwoContracts
    Switches = {"active", "paused"}
    MaxAttempts = 2
    LeaseTicks = 1
    MaxToken = 3
    MaxCallers = 1
    MaxAppends = 1
    MaxEditors = 1
    MaxCrashes = 1
SYMMETRY Symmetry
SPECIFICATION Spec
INVARIANTS
    TokenIssuedOnce
    OnlyNewestTicketAccepted
    AttemptsWithinBudget
PROPERTIES
    FreshAnnouncement
    ImplementsFencedTask
    ClosedRowsStayClosed
CHECK_DEADLOCK FALSE
