SPECIFICATION GoalLiveSpec
CONSTANTS
    o1 = o1
    o2 = o2
    None = None
    Absent = Absent
    Torn = Torn
    Operators = {o1, o2}
    Stages <- StageNames
    Types <- TypeNames
    Config <- TypeConfig
    GoalType = "release"
    TypeArgs = {}
    MaxRows = 6
    MaxVersion = 1
    MaxGoalDeaths = 1
INVARIANTS
    NoGateSkipped
    StateIsLogged
    CommandsSerialize
    DriftIsRecorded
PROPERTIES
    GateIsEscalated
\* The bounds stop the goal in the end.
CHECK_DEADLOCK FALSE
