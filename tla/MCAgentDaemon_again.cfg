SPECIFICATION DaemonSpec
CONSTANTS
    s1 = s1
    s2 = s2
    g1 = g1
    g2 = g2
    None = None
    Absent = Absent
    Torn = Torn
    Sessions = {s1, s2}
    Goals = {g1}
    Rank <- OneGoal
    Scope <- AskFirst
    Modes = {TRUE}
    Telegram = FALSE
    Legible = 1
    Typed = FALSE
    MaxRunning = 1
    MaxGates = 2
    MaxRuns = 3
    MaxMessages = 2
    MaxTogether = 3
    MaxAlone = 3
INVARIANTS
    ApprovalRunsOnce
\* Sessions are over in the end, and the bounds stop the rest.
CHECK_DEADLOCK FALSE
