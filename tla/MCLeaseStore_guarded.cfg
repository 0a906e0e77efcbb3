\* The transactional store with guarded appends only.
CONSTANTS
    i1 = i1 i2 = i2 i3 = i3 r1 = r1 r2 = r2 a1 = a1 a2 = a2
    Resources = {r1, r2}
    Actors = {a1, a2}
    NoActor = NoActor
    Ids = {i1, i2, i3}
    NoId = NoId
    NoToken = NoToken
    Backend = "transactional"
    Routes = {"guarded"}
    RequireLeases = TRUE
    LeaseTicks = 1
    MaxCallers = 2
    MaxWrites = 2
    MaxCrashes = 0
SPECIFICATION LiveSpec
INVARIANTS
    WritesInTokenOrder
PROPERTIES
    ImplementsFencedWrites
    AlwaysFreedAgain
CHECK_DEADLOCK FALSE
