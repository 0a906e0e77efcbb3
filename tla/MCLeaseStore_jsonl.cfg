\* Two resources and three leases in the JSONL store.
CONSTANTS
    i1 = i1 i2 = i2 i3 = i3 r1 = r1 r2 = r2 a1 = a1 a2 = a2
    Resources = {r1, r2}
    Actors = {a1, a2}
    NoActor = NoActor
    Ids = {i1, i2, i3}
    NoId = NoId
    NoToken = NoToken
    Backend = "jsonl"
    Routes = {"preflight"}
    RequireLeases = FALSE
    LeaseTicks = 1
    MaxCallers = 2
    MaxWrites = 1
    MaxCrashes = 1
SYMMETRY Symmetry
SPECIFICATION Spec
INVARIANTS
    OneLiveLease
    TokensRepeatOnlyAfterLoss
    WritesUnderOwnLease
CHECK_DEADLOCK FALSE
