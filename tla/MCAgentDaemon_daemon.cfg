SPECIFICATION DaemonLiveSpec
CONSTANTS
    s1 = s1
    s2 = s2
    g1 = g1
    g2 = g2
    None = None
    Absent = Absent
    Torn = Torn
    Sessions = {s1, s2}
    Goals = {g1}
    Rank <- OneGoal
    Scope <- AutoOne
    Modes = {TRUE, FALSE}
    Telegram = TRUE
    Legible = 1
    Typed = FALSE
    MaxRunning = 2
    MaxGates = 2
    MaxRuns = 2
    MaxMessages = 2
    MaxTogether = 2
    MaxAlone = 4
INVARIANTS
    NothingUnapproved
    InboxIsKept
PROPERTIES
    ImplementsOwnedGoals
    AutonomousGoalIsTaken
\* Sessions are over in the end, and the bounds stop the rest.
CHECK_DEADLOCK FALSE
