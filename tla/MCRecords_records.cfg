SPECIFICATION RecordsSpec
CONSTANTS
    w1 = w1
    w2 = w2
    None = None
    Absent = Absent
    Torn = Torn
    Callers = {c1, c2}
    HumanIds = {w1, w2, w3}
    Offered <- SomeChanges
    Filed <- OpenWork
    MaxHumanCalls = 3
    MaxHumanDeaths = 1
    MaxPerSource = 1
    Handlers = {c1, c2}
    EventIds = {e1}
    Spellings = {"acme", "Acme"}
    Payloads = {d1, d2}
    Unprojectable = {d2}
    Deliverable <- SomeDeliveries
    MaxDeliveries = 3
    MaxInboundDeaths = 1
    Recorders = {c1, c2}
    LinkIds = {x1, x2}
    LinkedChanges = {i1}
    Predictions = {None, "improved"}
    MaxLinkCalls = 5
    Deciders = {c1, c2}
    Actors = {x1, x2}
    ProposalIds = {i1}
    Invariants = {"floor", "tier"}
    Required = {"floor"}
    Offers <- SomeOffers
    MaxProposals = 2
    MaxRequests = 3
    MaxLeaseMoves = 2
    Clerks = {c1, c2}
    CaseIds = {i1}
    PanelActors = {x1, x2}
    PanelRoles = {r1, r2}
    Openings <- SomeOpenings
    MaxCaseCalls = 4
    MaxReopens = 1
    Offices = {c1, c2}
    AllocationIds = {x1, x2}
    Units = {u1, u2}
    MaxAmount = 1
    MaxAllocationCalls = 5
    MaxOfficeDeaths = 1
    Verifiers = {c1, c2}
    PlanIds = {i1}
    Budgets = {1, 3}
    AttemptLimits = {1, 2}
    MaxPhaseCalls = 5
    MaxRestarts = 1
    Tasks = {t1, t2, t3}
    Keys = {t1, t2, t3}
    Promises <- Promised
INVARIANTS
    ReceiptBeforeIntegration
    SpoofsPoisonNothing
    RetriesMakeOneEvent
    VerdictRestsOnMeasurements
    PlansAreBounded
    DeadlocksAreReported
    DecidedOnce
    ResultIsOfThePositions
    EventsTellTheLedger
PROPERTIES
    ExposureIsNeverFaster
SYMMETRY RecordsSymmetry
\* The bounds stop it.
CHECK_DEADLOCK FALSE
