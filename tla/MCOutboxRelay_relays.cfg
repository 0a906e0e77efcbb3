SPECIFICATION RelayLiveSpec
CONSTANTS
    p1 = p1
    p2 = p2
    q1 = q1
    q2 = q2
    q3 = q3
    k1 = k1
    k2 = k2
    analyst = analyst
    None = None
    Absent = Absent
    Torn = Torn
    Relays = {p1, p2}
    Requests = {q1, q2}
    Roles = {analyst}
    RoleOf <- Asking
    KeyOf <- Keys
    MandateRoles = {}
    MaxDispatches = 1
    MaxRelayDeaths = 1
INVARIANTS
    DoubleWritesAreBounded
PROPERTIES
    EveryRequestIsAnswered
\* With every request answered relays have nothing to do.
CHECK_DEADLOCK FALSE
