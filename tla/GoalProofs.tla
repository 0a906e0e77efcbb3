----------------------------- MODULE GoalProofs -----------------------------
(***************************************************************************)
(* Theorems about goals: the commands that move one through its stages     *)
(* (GoalOrchestrator), for any number of operators, stages, gates, rows    *)
(* and deaths.                                                             *)
(***************************************************************************)
EXTENDS GoalOrchestrator, FiniteSetTheorems, TLAPS

-----------------------------------------------------------------------------
(* Type correctness.  What a command is about to write is a state.         *)

Writing == {"open", "write", "escalate"}
AfterRow == Writing \cup {"list", "relist"}

PlansAreStates == \A o \in Operators : cmd[o].at \in AfterRow => cmd[o].plan \in GoalState

GoalTypes == GoalTypeOK /\ PlansAreStates

LEMMA StagesOfAType ==
    /\ Len(Stages) \in Nat \ {0} /\ Stage = 1 .. Len(Stages) /\ 1 \in Stage
    /\ \A s \in Stage : NextStageDefault(s) \in Stage
    /\ \A t, s : StatusAt(t, s) \in {"active", "gate_pending"}
    /\ Conf(GoalType).entry \in Stage
<1>1. Len(Stages) \in Nat \ {0} /\ Stage = 1 .. Len(Stages)
    BY GoalAssumption DEF Stage
<1>2. Conf(GoalType).entry \in Stage
    BY GoalAssumption DEF Conf, Stage
<1> QED
    BY <1>1, <1>2 DEF NextStageDefault, StatusAt

LEMMA NoCommandIsIdle == NoCommand.at \notin AfterRow \cup {"log", "lock"}
BY GoalValuesAssumption DEF NoCommand, AfterRow, Writing

\* A row and the state that goes with it are what the log and a command hold.
LEMMA AppendTypes ==
    ASSUME GoalTypes, NEW o \in Operators, NEW row \in Row, NEW next \in GoalState,
           cmd[o] \in Command, AppendTransition(o, row, next)
    PROVE  GoalTypes'
<1>1. wal' \in Seq(Row)
    BY DEF AppendTransition, GoalTypes, GoalTypeOK
<1>2. cmd' = [cmd EXCEPT ![o] = [cmd[o] EXCEPT !.at = "open", !.plan = next]]
    BY DEF AppendTransition, GoalTypes, GoalTypeOK
<1>3. [cmd[o] EXCEPT !.at = "open", !.plan = next] \in Command
    BY DEF Command
<1>4. cmd' \in [Operators -> Command \cup {NoCommand}]
    BY <1>2, <1>3 DEF GoalTypes, GoalTypeOK
<1>5. PlansAreStates'
    BY <1>2 DEF PlansAreStates, GoalTypes, GoalTypeOK, Command
<1> QED
    BY <1>1, <1>4, <1>5 DEF AppendTransition, GoalTypes, GoalTypeOK, Version, Stage, GoalState

\* The three kinds of rows, and the state that goes with each.
CreatedRow(row, next) ==
    /\ state = Absent
    /\ row.from = 0 /\ row.to = Conf(GoalType).entry /\ row.action = "goal_created" /\ row.hashes = None
    /\ next.status = "active"

AdvanceRow(row, next) ==
    /\ state \in GoalState /\ state.status = "active"
    /\ row.from = state.stage /\ row.action = "advance"
    /\ \E t \in {GoalType} \cup TypeArgs :
          /\ ValidTransition(t, row.from, row.to)
          /\ next.status = StatusAt(t, row.to)
          /\ row.to \in Conf(t).gates => next.hashes = row.hashes

ResumeRow(row, next) ==
    /\ state \in GoalState /\ state.status = "gate_pending"
    /\ row.from = state.stage /\ row.to = NextStageDefault(state.stage) /\ row.action = "gate_resume"
    /\ row.drift = ArtifactDrift /\ row.now = artifact
    /\ next.status = StatusAt(GoalType, row.to)

\* A step under the lock appends a row of one of the three kinds.
LEMMA LockedStepAppends ==
    ASSUME GoalTypes, NEW o \in Operators, LockedStep(o)
    PROVE  /\ goalLock = None /\ cmd[o].at = "lock" /\ cmd[o] \in Command
           /\ \E row \in Row, next \in GoalState :
                 /\ AppendTransition(o, row, next)
                 /\ next.stage = row.to
                 /\ CreatedRow(row, next) \/ AdvanceRow(row, next) \/ ResumeRow(row, next)
<1>1. ASSUME NEW op, Ready(o, op)
      PROVE  goalLock = None /\ cmd[o].at = "lock" /\ cmd[o] \in Command
    <2>1. cmd[o] \in Command \cup {NoCommand}
        BY DEF GoalTypes, GoalTypeOK
    <2> QED
        BY <1>1, <2>1, NoCommandIsIdle DEF Ready
<1>2. CASE Create(o)
    <2> DEFINE entry == Conf(GoalType).entry
               row == [from |-> 0, to |-> entry, action |-> "goal_created", hashes |-> None,
                       drift |-> FALSE, now |-> artifact]
               next == [stage |-> entry, status |-> "active", hashes |-> None]
    <2>1. row \in Row /\ next \in GoalState
        BY StagesOfAType DEF Row, GoalState, GoalTypes, GoalTypeOK
    <2>2. AppendTransition(o, row, next) /\ state = Absent
        BY <1>2 DEF Create
    <2> QED
        BY <1>1, <1>2, <2>1, <2>2 DEF Create, CreatedRow
<1>3. ASSUME NEW t \in {GoalType} \cup TypeArgs, NEW to \in Stage, NEW given \in {artifact, None},
             Advance(o, t, to, given)
      PROVE  \E row \in Row, next \in GoalState :
                 AppendTransition(o, row, next) /\ next.stage = row.to /\ AdvanceRow(row, next)
    <2> DEFINE row == [from |-> state.stage, to |-> to, action |-> "advance",
                       hashes |-> given, drift |-> FALSE, now |-> artifact]
               next == [stage |-> to, status |-> StatusAt(t, to),
                        hashes |-> IF to \in Conf(t).gates THEN given ELSE state.hashes]
    <2>1. state \in GoalState /\ state.status = "active" /\ ValidTransition(t, state.stage, to)
        BY <1>3 DEF Advance, GoalState
    <2>2. row \in Row /\ next \in GoalState
        BY <2>1, StagesOfAType DEF Row, GoalState, GoalTypes, GoalTypeOK
    <2>3. AppendTransition(o, row, next)
        BY <1>3 DEF Advance
    <2> QED
        BY <2>1, <2>2, <2>3 DEF AdvanceRow
<1>4. ASSUME NEW acknowledged \in BOOLEAN, Resume(o, acknowledged)
      PROVE  \E row \in Row, next \in GoalState :
                 AppendTransition(o, row, next) /\ next.stage = row.to /\ ResumeRow(row, next)
    <2> DEFINE row == [from |-> state.stage, to |-> NextStageDefault(state.stage), action |-> "gate_resume",
                       hashes |-> IF state.hashes = None THEN None ELSE artifact,
                       drift |-> ArtifactDrift, now |-> artifact]
               next == [stage |-> NextStageDefault(state.stage),
                        status |-> StatusAt(GoalType, NextStageDefault(state.stage)), hashes |-> None]
    <2>1. state \in GoalState /\ state.status = "gate_pending"
        BY <1>4 DEF Resume
    <2>2. row \in Row /\ next \in GoalState
        BY <2>1, StagesOfAType DEF Row, GoalState, GoalTypes, GoalTypeOK, ArtifactDrift
    <2>3. AppendTransition(o, row, next)
        BY <1>4 DEF Resume
    <2> QED
        BY <2>1, <2>2, <2>3 DEF ResumeRow
<1>5. \A t, to, given : Advance(o, t, to, given) => Ready(o, "advance")
    BY DEF Advance
<1>6. \A acknowledged : Resume(o, acknowledged) => Ready(o, "resume")
    BY DEF Resume
<1> QED
    BY <1>1, <1>2, <1>3, <1>4, <1>5, <1>6 DEF LockedStep

LEMMA GoalTypesStart == GoalInit => GoalTypes
<1> SUFFICES ASSUME GoalInit PROVE GoalTypes
    OBVIOUS
<1>1. GoalTypeOK
    BY GoalAssumption DEF GoalInit, GoalTypeOK, Version
<1>2. PlansAreStates
    BY NoCommandIsIdle DEF GoalInit, PlansAreStates
<1> QED
    BY <1>1, <1>2 DEF GoalTypes

LEMMA GoalTypesStep == GoalTypes /\ [GoalNext]_goalVars => GoalTypes'
<1> SUFFICES ASSUME GoalTypes, [GoalNext]_goalVars PROVE GoalTypes'
    OBVIOUS
<1> USE DEF GoalTypes
<1>1. CASE UNCHANGED goalVars
    BY <1>1 DEF goalVars, GoalTypeOK, PlansAreStates
<1>2. CASE EditArtifact
    BY <1>2, GoalAssumption DEF EditArtifact, GoalTypeOK, PlansAreStates, Version
<1>3. ASSUME NEW o \in Operators, NEW op \in {"create", "advance", "resume"}, BeginCommand(o, op)
      PROVE  GoalTypes'
    <2> DEFINE compares == op # "create" /\ state \in GoalState
               begun == [op |-> op, at |-> IF compares THEN "log" ELSE "lock",
                         seen |-> IF compares THEN state.stage ELSE None, plan |-> None]
    <2>1. begun \in Command
        BY <1>3 DEF BeginCommand, Command, GoalState
    <2>2. cmd' = [cmd EXCEPT ![o] = begun]
        BY <1>3 DEF BeginCommand
    <2>3. begun.at \notin AfterRow
        BY DEF AfterRow, Writing
    <2> HIDE DEF begun
    <2> QED
        BY <1>3, <2>1, <2>2, <2>3 DEF BeginCommand, GoalTypeOK, PlansAreStates
<1>4. ASSUME NEW o \in Operators, LockedStep(o)
      PROVE  GoalTypes'
    BY <1>4, LockedStepAppends, AppendTypes
<1>5. ASSUME NEW o \in Operators, NEW c \in Command \cup {NoCommand},
             cmd' = [cmd EXCEPT ![o] = c], c.at \in AfterRow => c.plan \in GoalState
      PROVE  cmd' \in [Operators -> Command \cup {NoCommand}] /\ PlansAreStates'
    BY <1>5 DEF GoalTypeOK, PlansAreStates
<1>6. ASSUME NEW o \in Operators, NEW at \in {"lock"} \cup AfterRow, cmd[o].at \in {"log"} \cup AfterRow,
             at \in AfterRow => cmd[o].at \in AfterRow, cmd' = [cmd EXCEPT ![o].at = at]
      PROVE  cmd' \in [Operators -> Command \cup {NoCommand}] /\ PlansAreStates'
    <2> DEFINE c == [cmd[o] EXCEPT !.at = at]
    <2>1. cmd[o] \in Command
        BY <1>6, NoCommandIsIdle DEF GoalTypeOK
    <2>2. c \in Command /\ c.at = at /\ c.plan = cmd[o].plan
        BY <2>1 DEF Command, AfterRow, Writing
    <2>3. cmd' = [cmd EXCEPT ![o] = c]
        BY <1>6
    <2> HIDE DEF c
    <2> QED
        BY <1>5, <1>6, <2>2, <2>3 DEF PlansAreStates
<1>7. ASSUME NEW o \in Operators, cmd' = [cmd EXCEPT ![o] = NoCommand]
      PROVE  cmd' \in [Operators -> Command \cup {NoCommand}] /\ PlansAreStates'
    BY <1>5, <1>7, NoCommandIsIdle
<1>8. ASSUME NEW o \in Operators, CompareLog(o)
      PROVE  GoalTypes'
    <2>1. cmd' = [cmd EXCEPT ![o] = NoCommand] \/ cmd' = [cmd EXCEPT ![o].at = "lock"]
        BY <1>8 DEF CompareLog, GoalTypeOK
    <2>2. cmd' \in [Operators -> Command \cup {NoCommand}] /\ PlansAreStates'
        BY <1>6, <1>7, <1>8, <2>1 DEF CompareLog, AfterRow, Writing
    <2> QED
        BY <1>8, <2>2 DEF CompareLog, GoalTypeOK
<1>9. ASSUME NEW o \in Operators, Refuse(o)
      PROVE  GoalTypes'
    BY <1>7, <1>9 DEF Refuse, GoalTypeOK
<1>10. ASSUME NEW o \in Operators, DieInCommand(o)
       PROVE  GoalTypes'
    <2>1. goalDeaths' \in 0 .. MaxGoalDeaths
        BY <1>10, GoalAssumption DEF DieInCommand, GoalTypeOK
    <2>2. goalLock' \in Operators \cup {None}
        BY <1>10 DEF DieInCommand, GoalTypeOK
    <2>3. cmd' \in [Operators -> Command \cup {NoCommand}] /\ PlansAreStates'
        BY <1>7, <1>10 DEF DieInCommand
    <2>4. untold' \subseteq Stage
        <3>1. cmd[o].at = "escalate" => cmd[o].plan \in GoalState
            BY <1>10 DEF PlansAreStates, AfterRow, Writing
        <3> QED
            BY <1>10, <3>1 DEF DieInCommand, GoalTypeOK, GoalState
    <2> QED
        BY <1>10, <2>1, <2>2, <2>3, <2>4 DEF DieInCommand, GoalTypeOK
<1>11. ASSUME NEW o \in Operators, OpenState(o)
       PROVE  GoalTypes'
    BY <1>6, <1>11 DEF OpenState, GoalTypeOK, AfterRow, Writing
<1>12. ASSUME NEW o \in Operators, WriteState(o)
       PROVE  GoalTypes'
    <2>1. cmd[o].plan \in GoalState
        BY <1>12 DEF WriteState, PlansAreStates, AfterRow, Writing
    <2>2. cmd' \in [Operators -> Command \cup {NoCommand}] /\ PlansAreStates'
        BY <1>6, <1>12 DEF WriteState, AfterRow, Writing
    <2> QED
        BY <1>12, <2>1, <2>2 DEF WriteState, GoalTypeOK
<1>13. ASSUME NEW o \in Operators, WriteGateEscalation(o)
       PROVE  GoalTypes'
    <2>1. cmd[o].plan \in GoalState
        BY <1>13 DEF WriteGateEscalation, PlansAreStates, AfterRow, Writing
    <2>2. cmd' \in [Operators -> Command \cup {NoCommand}] /\ PlansAreStates'
        BY <1>6, <1>13 DEF WriteGateEscalation, AfterRow, Writing
    <2> QED
        BY <1>13, <2>1, <2>2 DEF WriteGateEscalation, GoalTypeOK, GoalState
<1>14. ASSUME NEW o \in Operators, CollectGoals(o)
       PROVE  GoalTypes'
    <2> DEFINE c == [cmd[o] EXCEPT !.at = "relist", !.plan = state]
    <2>1. cmd[o] \in Command
        BY <1>14, NoCommandIsIdle DEF CollectGoals, GoalTypeOK, AfterRow, Writing
    <2>2. CASE state \in GoalState
        <3>1. c \in Command /\ c.plan \in GoalState
            BY <2>1, <2>2 DEF Command
        <3>2. cmd' = [cmd EXCEPT ![o] = c]
            BY <1>14, <2>2 DEF CollectGoals, GoalTypeOK
        <3> HIDE DEF c
        <3>3. cmd' \in [Operators -> Command \cup {NoCommand}] /\ PlansAreStates'
            BY <1>5, <3>1, <3>2
        <3> QED
            BY <1>14, <3>3 DEF CollectGoals, GoalTypeOK
    <2>3. CASE state \notin GoalState
        BY <1>7, <1>14, <2>3 DEF CollectGoals, GoalTypeOK
    <2> QED
        BY <2>2, <2>3
<1>15. ASSUME NEW o \in Operators, UpdateListing(o)
       PROVE  GoalTypes'
    <2>1. cmd[o].plan \in GoalState
        BY <1>15 DEF UpdateListing, PlansAreStates, AfterRow
    <2>2. listing' \in [stage : Stage, status : {"active", "gate_pending"}]
        BY <1>15, <2>1 DEF UpdateListing, GoalState
    <2> QED
        BY <1>7, <1>15, <2>2 DEF UpdateListing, GoalTypeOK
<1> QED
    BY <1>1, <1>2, <1>3, <1>4, <1>8, <1>9, <1>10, <1>11, <1>12, <1>13, <1>14, <1>15
    DEF GoalNext, CommandStep

\* The state file, the log, the commands and the inbox of gates keep their types.
THEOREM GoalTypeCorrect == GoalSpec => []GoalTypeOK
<1>1. GoalTypes => GoalTypeOK
    BY DEF GoalTypes
<1> QED
    BY <1>1, GoalTypesStart, GoalTypesStep, PTL DEF GoalSpec

-----------------------------------------------------------------------------
(* The log and the state file.                                             *)

\* A command that writes has the lock.
WritersHoldTheLock == \A o \in Operators : cmd[o].at \in Writing <=> goalLock = o

\* What a state file shows, or is about to show, has a row.
StatesAreLogged ==
    /\ state \in GoalState => Reached(state.stage)
    /\ \A o \in Operators : cmd[o].at \in Writing => Reached(cmd[o].plan.stage)

\* p is where the log ends, with the hashes a gate was shown.
AtEnd(p) ==
    /\ wal # <<>>
    /\ p.stage = ReplayTransitions
    /\ p.status = "gate_pending" /\ wal[Len(wal)].action = "advance" => p.hashes = wal[Len(wal)].hashes

\* Without deaths, the file is where the log ends, or will be when the command
\* that has the lock has written.
FilesMeet ==
    goalDeaths = 0 =>
        /\ goalLock = None => (state = Absent /\ wal = <<>>) \/ (state \in GoalState /\ AtEnd(state))
        /\ \A o \in Operators : cmd[o].at \in {"open", "write"} => AtEnd(cmd[o].plan)
        /\ \A o \in Operators : cmd[o].at = "escalate" => state \in GoalState /\ AtEnd(state)

FilesInv == GoalTypes /\ WritersHoldTheLock /\ StatesAreLogged /\ FilesMeet

\* A step that leaves the two files and their writers alone.
QuietStep ==
    /\ UNCHANGED <<state, wal, goalLock, goalDeaths>>
    /\ \A p \in Operators : cmd'[p] = cmd[p] \/ (cmd[p].at \notin Writing /\ cmd'[p].at \notin Writing)

LEMMA GoalStepKinds ==
    ASSUME GoalTypes, [GoalNext]_goalVars
    PROVE  \/ QuietStep
           \/ \E o \in Operators :
                 LockedStep(o) \/ OpenState(o) \/ WriteState(o) \/ WriteGateEscalation(o) \/ DieInCommand(o)
<1> USE DEF GoalTypes, GoalTypeOK
<1>1. CASE UNCHANGED goalVars
    BY <1>1 DEF goalVars, QuietStep
<1>2. CASE EditArtifact
    BY <1>2 DEF EditArtifact, QuietStep
<1>3. ASSUME NEW o \in Operators, NEW op \in {"create", "advance", "resume"}, BeginCommand(o, op)
      PROVE  QuietStep
    <2>1. cmd[o].at \notin Writing
        BY <1>3, NoCommandIsIdle DEF BeginCommand, AfterRow
    <2>2. cmd'[o].at \in {"log", "lock"} /\ \A p \in Operators \ {o} : cmd'[p] = cmd[p]
        BY <1>3 DEF BeginCommand
    <2> QED
        BY <1>3, <2>1, <2>2 DEF BeginCommand, QuietStep, Writing
<1>4. ASSUME NEW o \in Operators, CompareLog(o)
      PROVE  QuietStep
    <2>1. cmd[o].at \notin Writing
        BY <1>4 DEF CompareLog, Writing
    <2>2. cmd' = [cmd EXCEPT ![o] = NoCommand] \/ cmd' = [cmd EXCEPT ![o].at = "lock"]
        BY <1>4 DEF CompareLog
    <2>3. cmd[o] \in Command
        BY <1>4, NoCommandIsIdle DEF CompareLog
    <2>4. cmd'[o].at \notin Writing /\ \A p \in Operators \ {o} : cmd'[p] = cmd[p]
        BY <2>2, <2>3, NoCommandIsIdle DEF Writing, AfterRow, Command
    <2> QED
        BY <1>4, <2>1, <2>4 DEF CompareLog, QuietStep
<1>5. ASSUME NEW o \in Operators, Refuse(o)
      PROVE  QuietStep
    BY <1>5, NoCommandIsIdle DEF Refuse, QuietStep, Writing, AfterRow
<1>6. ASSUME NEW o \in Operators, CollectGoals(o)
      PROVE  QuietStep
    <2>1. cmd[o].at \notin Writing
        BY <1>6 DEF CollectGoals, Writing
    <2>2. cmd[o] \in Command
        BY <1>6, NoCommandIsIdle DEF CollectGoals, AfterRow
    <2>3. cmd'[o].at \notin Writing /\ \A p \in Operators \ {o} : cmd'[p] = cmd[p]
        <3>1. CASE state \in GoalState
            BY <1>6, <2>2, <3>1 DEF CollectGoals, Writing, Command
        <3>2. CASE state \notin GoalState
            BY <1>6, <3>2, NoCommandIsIdle DEF CollectGoals, AfterRow
        <3> QED
            BY <3>1, <3>2
    <2> QED
        BY <1>6, <2>1, <2>3 DEF CollectGoals, QuietStep
<1>7. ASSUME NEW o \in Operators, UpdateListing(o)
      PROVE  QuietStep
    BY <1>7, NoCommandIsIdle DEF UpdateListing, QuietStep, Writing, AfterRow
<1> QED
    BY <1>1, <1>2, <1>3, <1>4, <1>5, <1>6, <1>7 DEF GoalNext, CommandStep

\* What a row that is appended leaves of the log.
LEMMA AppendedRow ==
    ASSUME GoalTypes, NEW o \in Operators, NEW row \in Row, NEW next, AppendTransition(o, row, next)
    PROVE  /\ wal' \in Seq(Row) /\ Len(wal) \in Nat /\ Len(wal') = Len(wal) + 1
           /\ DOMAIN wal = 1 .. Len(wal) /\ DOMAIN wal' = 1 .. Len(wal) + 1
           /\ wal'[Len(wal) + 1] = row /\ \A i \in DOMAIN wal : wal'[i] = wal[i]
           /\ Reached(row.to)' /\ \A s : Reached(s) => Reached(s)'
<1>1. wal \in Seq(Row) /\ wal' = Append(wal, row)
    BY DEF AppendTransition, GoalTypes, GoalTypeOK
<1>2. /\ wal' \in Seq(Row) /\ Len(wal) \in Nat /\ Len(wal') = Len(wal) + 1
      /\ DOMAIN wal = 1 .. Len(wal) /\ DOMAIN wal' = 1 .. Len(wal) + 1
      /\ wal'[Len(wal) + 1] = row /\ \A i \in DOMAIN wal : wal'[i] = wal[i]
    BY <1>1
<1> QED
    BY <1>2 DEF Reached

LEMMA AppendedCommand ==
    ASSUME GoalTypes, NEW o \in Operators, cmd[o] \in Command, NEW row, NEW next, AppendTransition(o, row, next)
    PROVE  /\ cmd'[o].at = "open" /\ cmd'[o].plan = next
           /\ \A p \in Operators \ {o} : cmd'[p] = cmd[p]
           /\ goalLock' = o /\ state' = state /\ goalDeaths' = goalDeaths
BY DEF AppendTransition, GoalTypes, GoalTypeOK, Command

\* The steps that write go on to the next one, and keep what they write.
LEMMA WritersGoOn ==
    ASSUME GoalTypes, NEW o \in Operators, OpenState(o) \/ WriteState(o) \/ WriteGateEscalation(o)
    PROVE  /\ cmd[o] \in Command
           /\ cmd'[o].at = IF cmd[o].at = "open" THEN "write"
                           ELSE IF cmd[o].at = "write" /\ cmd[o].plan.status = "gate_pending" THEN "escalate"
                           ELSE "list"
           /\ cmd'[o].plan = cmd[o].plan /\ cmd[o].plan \in GoalState
           /\ \A p \in Operators \ {o} : cmd'[p] = cmd[p]
           /\ wal' = wal /\ goalDeaths' = goalDeaths
<1>1. cmd[o].at \in Writing
    BY DEF OpenState, WriteState, WriteGateEscalation, Writing
<1>2. cmd[o] \in Command /\ cmd[o].plan \in GoalState
    BY <1>1, NoCommandIsIdle DEF GoalTypes, GoalTypeOK, PlansAreStates, AfterRow
<1> QED
    BY <1>1, <1>2 DEF OpenState, WriteState, WriteGateEscalation, GoalTypes, GoalTypeOK, Command

LEMMA FilesStart == GoalInit => FilesInv
<1> SUFFICES ASSUME GoalInit PROVE FilesInv
    OBVIOUS
<1>1. GoalTypes
    BY GoalTypesStart
<1>2. \A o \in Operators : cmd[o].at \notin Writing /\ goalLock # o
    BY NoCommandIsIdle, GoalValuesAssumption DEF GoalInit, AfterRow
<1> QED
    BY <1>1, <1>2, GoalValuesAssumption
    DEF GoalInit, FilesInv, WritersHoldTheLock, StatesAreLogged, FilesMeet, Writing

\* Steps that leave the log and the deaths alone keep what it says of a state.
LEMMA SameLog == ASSUME wal' = wal PROVE /\ \A p : AtEnd(p)' <=> AtEnd(p)
                                         /\ \A s : Reached(s)' <=> Reached(s)
BY DEF AtEnd, Reached, ReplayTransitions

LEMMA FilesQuiet == ASSUME FilesInv, QuietStep, GoalTypes' PROVE FilesInv'
<1> USE DEF FilesInv, QuietStep
<1>1. \A p \in Operators : /\ cmd[p].at \in Writing <=> cmd'[p].at \in Writing
                           /\ cmd'[p].at \in Writing => cmd'[p] = cmd[p]
    OBVIOUS
<1>2. WritersHoldTheLock'
    BY <1>1 DEF WritersHoldTheLock
<1>3. StatesAreLogged'
    BY <1>1, SameLog DEF StatesAreLogged
<1>4. FilesMeet'
    BY <1>1, SameLog DEF FilesMeet, Writing
<1> QED
    BY <1>2, <1>3, <1>4

LEMMA FilesLocked ==
    ASSUME FilesInv, NEW o \in Operators, LockedStep(o), GoalTypes' PROVE FilesInv'
<1>1. goalLock = None /\ cmd[o].at = "lock" /\ cmd[o] \in Command
    BY LockedStepAppends DEF FilesInv
<1>2. PICK row \in Row, next \in GoalState :
         /\ AppendTransition(o, row, next)
         /\ next.stage = row.to
         /\ CreatedRow(row, next) \/ AdvanceRow(row, next) \/ ResumeRow(row, next)
    BY LockedStepAppends DEF FilesInv
<1>3. /\ wal' \in Seq(Row) /\ Len(wal) \in Nat /\ Len(wal') = Len(wal) + 1
      /\ wal'[Len(wal) + 1] = row
      /\ Reached(row.to)' /\ \A s : Reached(s) => Reached(s)'
    BY <1>2, AppendedRow DEF FilesInv
<1>4. /\ cmd'[o].at = "open" /\ cmd'[o].plan = next
      /\ \A p \in Operators \ {o} : cmd'[p] = cmd[p]
      /\ goalLock' = o /\ state' = state /\ goalDeaths' = goalDeaths
    BY <1>1, <1>2, AppendedCommand DEF FilesInv
<1>5. \A p \in Operators : cmd[p].at \notin Writing
    BY <1>1, GoalValuesAssumption DEF FilesInv, WritersHoldTheLock
<1>6. o # None
    BY GoalValuesAssumption
<1>7. WritersHoldTheLock'
    BY <1>4, <1>5 DEF WritersHoldTheLock, Writing
<1>8. StatesAreLogged'
    BY <1>2, <1>3, <1>4, <1>5 DEF FilesInv, StatesAreLogged
<1>9. AtEnd(next)'
    <2>1. wal' # <<>> /\ ReplayTransitions' = row.to /\ wal'[Len(wal')] = row
        BY <1>3 DEF ReplayTransitions
    <2>2. next.status = "gate_pending" /\ row.action = "advance" => next.hashes = row.hashes
        BY <1>2 DEF CreatedRow, AdvanceRow, ResumeRow, StatusAt
    <2> QED
        BY <1>2, <2>1, <2>2 DEF AtEnd
<1>10. FilesMeet'
    BY <1>4, <1>5, <1>6, <1>9 DEF FilesMeet, Writing
<1> QED
    BY <1>7, <1>8, <1>10 DEF FilesInv

LEMMA FilesWritten ==
    ASSUME FilesInv, GoalTypes', NEW o \in Operators, OpenState(o) \/ WriteState(o) \/ WriteGateEscalation(o)
    PROVE  FilesInv'
<1> USE DEF FilesInv
<1>1. cmd[o].at \in Writing /\ goalLock = o
    BY DEF OpenState, WriteState, WriteGateEscalation, Writing, WritersHoldTheLock
<1>2. \A p \in Operators \ {o} : cmd[p].at \notin Writing /\ cmd'[p] = cmd[p]
    BY <1>1, WritersGoOn DEF WritersHoldTheLock
<1>3. /\ cmd'[o].at \in {"write", "escalate", "list"} /\ cmd'[o].plan = cmd[o].plan
      /\ cmd[o].plan \in GoalState /\ wal' = wal /\ goalDeaths' = goalDeaths
    BY WritersGoOn
<1>4. goalLock' = IF cmd'[o].at = "list" THEN None ELSE o
    BY <1>1, WritersGoOn DEF OpenState, WriteState, WriteGateEscalation
<1>5. state' = IF cmd[o].at = "open" THEN Torn
               ELSE IF cmd[o].at = "write" THEN cmd[o].plan ELSE state
    BY DEF OpenState, WriteState, WriteGateEscalation
<1>6. cmd'[o].at = IF cmd[o].at = "open" THEN "write"
                   ELSE IF cmd[o].at = "write" /\ cmd[o].plan.status = "gate_pending" THEN "escalate"
                   ELSE "list"
    BY WritersGoOn
<1>7. WritersHoldTheLock'
    BY <1>2, <1>3, <1>4, GoalValuesAssumption DEF WritersHoldTheLock, Writing
<1>8. StatesAreLogged'
    BY <1>1, <1>2, <1>3, <1>5, SameLog, GoalValuesAssumption DEF StatesAreLogged
<1>9. FilesMeet'
    <2>1. \A p \in Operators \ {o} : cmd'[p].at \notin Writing
        BY <1>2
    <2>2. o # None
        BY GoalValuesAssumption
    <2> QED
        BY <1>1, <1>3, <1>4, <1>5, <1>6, <2>1, <2>2, SameLog DEF FilesMeet, Writing
<1> QED
    BY <1>7, <1>8, <1>9

LEMMA FilesDie == ASSUME FilesInv, NEW o \in Operators, DieInCommand(o), GoalTypes' PROVE FilesInv'
<1> USE DEF FilesInv
<1>1. cmd'[o] = NoCommand /\ \A p \in Operators \ {o} : cmd'[p] = cmd[p]
    BY DEF DieInCommand, GoalTypes, GoalTypeOK
<1>2. wal' = wal /\ state' = state /\ goalDeaths' # 0
    BY DEF DieInCommand, GoalTypes, GoalTypeOK
<1>3. goalLock' = IF goalLock = o THEN None ELSE goalLock
    BY DEF DieInCommand
<1>4. NoCommand.at \notin Writing
    BY NoCommandIsIdle DEF AfterRow
<1>5. WritersHoldTheLock'
    BY <1>1, <1>3, <1>4, GoalValuesAssumption DEF WritersHoldTheLock
<1>6. StatesAreLogged'
    BY <1>1, <1>2, <1>4, SameLog DEF StatesAreLogged
<1> QED
    BY <1>2, <1>5, <1>6 DEF FilesMeet

LEMMA FilesStep == FilesInv /\ [GoalNext]_goalVars => FilesInv'
<1> SUFFICES ASSUME FilesInv, [GoalNext]_goalVars PROVE FilesInv'
    OBVIOUS
<1>1. GoalTypes' /\ GoalTypes
    BY GoalTypesStep DEF FilesInv
<1> QED
    BY <1>1, GoalStepKinds, FilesQuiet, FilesLocked, FilesWritten, FilesDie

LEMMA FilesAlways == GoalSpec => []FilesInv
BY FilesStart, FilesStep, PTL DEF GoalSpec

\* C-6: the file never shows a stage the log has not, and without deaths it
\* is where the log ends.
THEOREM GoalStateIsLogged == GoalSpec => []StateIsLogged
<1>1. FilesInv => StateIsLogged
    BY GoalValuesAssumption DEF FilesInv, StatesAreLogged, FilesMeet, AtEnd, StateIsLogged
<1> QED
    BY <1>1, FilesAlways, PTL

\* The states in the file and in the commands are old ones, but for the one
\* that a row under the lock comes with.
LEMMA StatesOfAStep ==
    ASSUME FilesInv, [GoalNext]_goalVars
    PROVE  \/ /\ state' \in GoalState =>
                    \/ state' = state
                    \/ \E o \in Operators : cmd[o].at \in Writing /\ state' = cmd[o].plan
              /\ \A o \in Operators : cmd'[o].at \in Writing => cmd[o].at \in Writing /\ cmd'[o].plan = cmd[o].plan
              /\ wal' = wal /\ (goalDeaths' = 0 => goalDeaths = 0)
           \/ \E o \in Operators, row \in Row, next \in GoalState :
                 /\ CreatedRow(row, next) \/ AdvanceRow(row, next) \/ ResumeRow(row, next)
                 /\ next.stage = row.to
                 /\ cmd'[o].plan = next /\ state' = state /\ goalDeaths' = goalDeaths
                 /\ \A p \in Operators \ {o} : cmd'[p] = cmd[p]
                 /\ Len(wal) \in Nat /\ Len(wal') = Len(wal) + 1
                 /\ DOMAIN wal = 1 .. Len(wal) /\ DOMAIN wal' = 1 .. Len(wal) + 1
                 /\ wal'[Len(wal) + 1] = row /\ \A i \in DOMAIN wal : wal'[i] = wal[i]
                 /\ goalDeaths = 0 => (state = Absent /\ wal = <<>>) \/ (state \in GoalState /\ AtEnd(state))
<1>1. CASE QuietStep
    BY <1>1 DEF QuietStep
<1>2. ASSUME NEW o \in Operators, OpenState(o) \/ WriteState(o) \/ WriteGateEscalation(o)
      PROVE  /\ state' \in GoalState => state' = state \/ (cmd[o].at \in Writing /\ state' = cmd[o].plan)
             /\ \A p \in Operators : cmd'[p].at \in Writing => cmd[p].at \in Writing /\ cmd'[p].plan = cmd[p].plan
             /\ wal' = wal /\ goalDeaths' = goalDeaths
    <2>1. cmd[o].at \in Writing
        BY <1>2 DEF OpenState, WriteState, WriteGateEscalation, Writing
    <2>2. cmd'[o].plan = cmd[o].plan /\ wal' = wal /\ goalDeaths' = goalDeaths
          /\ \A p \in Operators \ {o} : cmd'[p] = cmd[p]
        BY <1>2, WritersGoOn DEF FilesInv
    <2>3. state' \in {Torn, cmd[o].plan, state}
        BY <1>2 DEF OpenState, WriteState, WriteGateEscalation
    <2> QED
        BY <2>1, <2>2, <2>3, GoalValuesAssumption
<1>3. ASSUME NEW o \in Operators, DieInCommand(o)
      PROVE  /\ state' = state /\ wal' = wal /\ goalDeaths' # 0
             /\ \A p \in Operators : cmd'[p].at \in Writing => cmd[p].at \in Writing /\ cmd'[p].plan = cmd[p].plan
    BY <1>3, NoCommandIsIdle DEF DieInCommand, FilesInv, GoalTypes, GoalTypeOK, AfterRow
<1>4. ASSUME NEW o \in Operators, LockedStep(o)
      PROVE  \E row \in Row, next \in GoalState :
                 /\ CreatedRow(row, next) \/ AdvanceRow(row, next) \/ ResumeRow(row, next)
                 /\ next.stage = row.to
                 /\ cmd'[o].plan = next /\ state' = state /\ goalDeaths' = goalDeaths
                 /\ \A p \in Operators \ {o} : cmd'[p] = cmd[p]
                 /\ Len(wal) \in Nat /\ Len(wal') = Len(wal) + 1
                 /\ DOMAIN wal = 1 .. Len(wal) /\ DOMAIN wal' = 1 .. Len(wal) + 1
                 /\ wal'[Len(wal) + 1] = row /\ \A i \in DOMAIN wal : wal'[i] = wal[i]
                 /\ goalDeaths = 0 => (state = Absent /\ wal = <<>>) \/ (state \in GoalState /\ AtEnd(state))
    <2>1. goalLock = None /\ cmd[o] \in Command
        BY <1>4, LockedStepAppends DEF FilesInv
    <2>2. PICK row \in Row, next \in GoalState :
             /\ AppendTransition(o, row, next)
             /\ next.stage = row.to
             /\ CreatedRow(row, next) \/ AdvanceRow(row, next) \/ ResumeRow(row, next)
        BY <1>4, LockedStepAppends DEF FilesInv
    <2>3. /\ Len(wal) \in Nat /\ Len(wal') = Len(wal) + 1
          /\ DOMAIN wal = 1 .. Len(wal) /\ DOMAIN wal' = 1 .. Len(wal) + 1
          /\ wal'[Len(wal) + 1] = row /\ \A i \in DOMAIN wal : wal'[i] = wal[i]
        BY <2>2, AppendedRow DEF FilesInv
    <2>4. /\ cmd'[o].plan = next /\ state' = state /\ goalDeaths' = goalDeaths
          /\ \A p \in Operators \ {o} : cmd'[p] = cmd[p]
        BY <2>1, <2>2, AppendedCommand DEF FilesInv
    <2> QED
        BY <2>1, <2>2, <2>3, <2>4 DEF FilesInv, FilesMeet
<1> QED
    BY <1>1, <1>2, <1>3, <1>4, GoalStepKinds DEF FilesInv

-----------------------------------------------------------------------------
(* Drift.                                                                  *)

\* The clause of DriftIsRecorded for two rows.
DriftOf(log, i, j) ==
    (/\ log[i].action = "gate_resume" /\ log[j].action = "advance"
     /\ log[j].to = log[i].from /\ log[j].hashes # None
     /\ \A k \in j + 1 .. i - 1 : log[k].to # log[i].from)
    => log[i].drift = (log[i].now # log[j].hashes)

LEMMA DriftStep == FilesInv /\ DriftIsRecorded /\ [GoalNext]_goalVars => DriftIsRecorded'
<1> SUFFICES ASSUME FilesInv, DriftIsRecorded, [GoalNext]_goalVars, goalDeaths' = 0
             PROVE  \A i \in DOMAIN wal' : \A j \in 1 .. i - 1 : DriftOf(wal', i, j)
    BY DEF DriftIsRecorded, DriftOf
<1>1. CASE wal' = wal /\ (goalDeaths' = 0 => goalDeaths = 0)
    BY <1>1 DEF DriftIsRecorded, DriftOf
<1>2. ASSUME NEW row \in Row, NEW next \in GoalState,
             CreatedRow(row, next) \/ AdvanceRow(row, next) \/ ResumeRow(row, next),
             Len(wal) \in Nat, Len(wal') = Len(wal) + 1,
             DOMAIN wal = 1 .. Len(wal), DOMAIN wal' = 1 .. Len(wal) + 1,
             wal'[Len(wal) + 1] = row, \A i \in DOMAIN wal : wal'[i] = wal[i],
             goalDeaths' = goalDeaths,
             (state = Absent /\ wal = <<>>) \/ (state \in GoalState /\ AtEnd(state))
      PROVE  \A i \in DOMAIN wal' : \A j \in 1 .. i - 1 : DriftOf(wal', i, j)
    <2> TAKE i \in DOMAIN wal'
    <2> TAKE j \in 1 .. i - 1
    <2>1. CASE i \in DOMAIN wal
        <3>1. j \in DOMAIN wal /\ \A k \in j + 1 .. i - 1 : k \in DOMAIN wal
            BY <1>2, <2>1
        <3>2. DriftOf(wal, i, j)
            BY <1>2, <2>1 DEF DriftIsRecorded, DriftOf
        <3> QED
            BY <1>2, <2>1, <3>1, <3>2 DEF DriftOf
    <2>2. CASE i = Len(wal) + 1
        <3> SUFFICES ASSUME row.action = "gate_resume", wal'[j].action = "advance",
                            wal'[j].to = row.from, wal'[j].hashes # None,
                            \A k \in j + 1 .. i - 1 : wal'[k].to # row.from
                     PROVE  row.drift = (row.now # wal'[j].hashes)
            BY <1>2, <2>2 DEF DriftOf
        <3>1. ResumeRow(row, next)
            BY <1>2 DEF CreatedRow, AdvanceRow
        <3>2. AtEnd(state)
            BY <1>2, <3>1, GoalValuesAssumption DEF ResumeRow
        <3>3. Len(wal) \in DOMAIN wal /\ wal[Len(wal)].to = row.from
            BY <1>2, <3>1, <3>2 DEF ResumeRow, AtEnd, ReplayTransitions
        <3>4. j = Len(wal)
            <4>1. wal'[Len(wal)].to = row.from /\ Len(wal) \in Nat /\ i - 1 = Len(wal)
                BY <1>2, <2>2, <3>3
            <4>2. Len(wal) \notin j + 1 .. i - 1
                BY <4>1
            <4> QED
                BY <4>1, <4>2
        <3>5. state.hashes = wal'[j].hashes
            BY <1>2, <3>1, <3>2, <3>3, <3>4 DEF ResumeRow, AtEnd
        <3> QED
            BY <3>1, <3>5 DEF ResumeRow, ArtifactDrift
    <2> QED
        BY <1>2, <2>1, <2>2
<1> QED
    BY <1>1, <1>2, StatesOfAStep

\* C-25: without deaths, an artifact that has changed since an advance hashed
\* it for a gate is recorded as drift when that gate is cleared.
THEOREM GoalDriftIsRecorded == GoalSpec => []DriftIsRecorded
<1>1. GoalInit => DriftIsRecorded
    BY DEF GoalInit, DriftIsRecorded
<1> QED
    BY <1>1, DriftStep, FilesAlways, PTL DEF GoalSpec

-----------------------------------------------------------------------------
(* Overlapping commands.                                                   *)

\* The last stage is no gate of a type that a command may name.  The parser
\* accepts such a type (validate_stage_graph); a goal at its last gate stays
\* there when it is resumed, and is resumed again.
LastStageIsNoGate == \A t \in {GoalType} \cup TypeArgs : Len(Stages) \notin Conf(t).gates

PendingAtAGate(p) == p.status = "gate_pending" => p.stage # Len(Stages)

PendingAtGates ==
    /\ state \in GoalState => PendingAtAGate(state)
    /\ \A o \in Operators : cmd[o].at \in Writing => PendingAtAGate(cmd[o].plan)

\* No row ends behind the one before it: stages only climb.
Climbs ==
    \A i \in DOMAIN wal :
        /\ wal[i].from < wal[i].to
        /\ \A j \in DOMAIN wal : i < j => wal[i].to <= wal[j].from

SerialInv == FilesInv /\ PendingAtGates /\ (goalDeaths = 0 => Climbs /\ LogIsAChain)

LEMMA RowsAreNumbers ==
    /\ \A row \in Row : row.from \in Nat /\ row.to \in Nat
    /\ GoalTypes => DOMAIN wal = 1 .. Len(wal) /\ Len(wal) \in Nat /\ \A i \in DOMAIN wal :
           i \in Nat /\ wal[i].from \in Nat /\ wal[i].to \in Nat
<1>1. \A row \in Row : row.from \in Nat /\ row.to \in Nat
    <2>1. \A s \in Stage \cup {0} : s \in Nat
        BY StagesOfAType
    <2> QED
        BY <2>1 DEF Row
<1>2. ASSUME GoalTypes
      PROVE  /\ DOMAIN wal = 1 .. Len(wal) /\ Len(wal) \in Nat
             /\ \A i \in DOMAIN wal : i \in Nat /\ wal[i] \in Row
    BY <1>2 DEF GoalTypes, GoalTypeOK
<1> QED
    BY <1>1, <1>2

LEMMA RowsClimb ==
    ASSUME FilesInv, LastStageIsNoGate, PendingAtGates, NEW row \in Row, NEW next \in GoalState,
           CreatedRow(row, next) \/ AdvanceRow(row, next) \/ ResumeRow(row, next), next.stage = row.to
    PROVE  row.from < row.to /\ PendingAtAGate(next)
<1>1. Len(Stages) \in Nat \ {0} /\ Stage = 1 .. Len(Stages)
    BY StagesOfAType
<1>2. CASE CreatedRow(row, next)
    BY <1>1, <1>2, StagesOfAType DEF CreatedRow, PendingAtAGate
<1>3. CASE AdvanceRow(row, next)
    BY <1>3 DEF AdvanceRow, PendingAtAGate, ValidTransition, StatusAt, LastStageIsNoGate
<1>4. CASE ResumeRow(row, next)
    <2>1. state.stage \in 1 .. Len(Stages) /\ state.stage # Len(Stages)
        BY <1>1, <1>4 DEF ResumeRow, PendingAtGates, PendingAtAGate, GoalState
    <2>2. row.from = state.stage /\ row.to = state.stage + 1
        BY <1>1, <1>4, <2>1 DEF ResumeRow, NextStageDefault
    <2> QED
        BY <1>4, <2>1, <2>2 DEF ResumeRow, PendingAtAGate, StatusAt, LastStageIsNoGate
<1> QED
    BY <1>2, <1>3, <1>4

LEMMA SerialStep ==
    ASSUME LastStageIsNoGate, SerialInv, [GoalNext]_goalVars PROVE SerialInv'
<1>1. FilesInv'
    BY FilesStep DEF SerialInv
<1>2. CASE /\ state' \in GoalState =>
                 \/ state' = state
                 \/ \E o \in Operators : cmd[o].at \in Writing /\ state' = cmd[o].plan
           /\ \A o \in Operators : cmd'[o].at \in Writing => cmd[o].at \in Writing /\ cmd'[o].plan = cmd[o].plan
           /\ wal' = wal /\ (goalDeaths' = 0 => goalDeaths = 0)
    <2>1. PendingAtGates'
        BY <1>2 DEF SerialInv, PendingAtGates, PendingAtAGate
    <2> QED
        BY <1>1, <1>2, <2>1 DEF SerialInv, Climbs, LogIsAChain
<1>3. ASSUME NEW o \in Operators, NEW row \in Row, NEW next \in GoalState,
             CreatedRow(row, next) \/ AdvanceRow(row, next) \/ ResumeRow(row, next),
             next.stage = row.to,
             cmd'[o].plan = next, state' = state, goalDeaths' = goalDeaths,
             \A p \in Operators \ {o} : cmd'[p] = cmd[p],
             Len(wal) \in Nat, Len(wal') = Len(wal) + 1,
             DOMAIN wal = 1 .. Len(wal), DOMAIN wal' = 1 .. Len(wal) + 1,
             wal'[Len(wal) + 1] = row, \A i \in DOMAIN wal : wal'[i] = wal[i],
             goalDeaths = 0 => (state = Absent /\ wal = <<>>) \/ (state \in GoalState /\ AtEnd(state))
      PROVE  SerialInv'
    <2>1. row.from < row.to /\ PendingAtAGate(next)
        BY <1>3, RowsClimb DEF SerialInv
    <2>2. PendingAtGates'
        BY <1>3, <2>1 DEF SerialInv, PendingAtGates, PendingAtAGate
    <2>3. ASSUME goalDeaths = 0, wal # <<>>
          PROVE  row.from = wal[Len(wal)].to
        <3>1. state \in GoalState /\ AtEnd(state)
            BY <1>3, <2>3
        <3>2. row.from = state.stage
            BY <1>3, <3>1, GoalValuesAssumption DEF CreatedRow, AdvanceRow, ResumeRow
        <3> QED
            BY <3>1, <3>2 DEF AtEnd, ReplayTransitions
    <2>4. ASSUME goalDeaths = 0
          PROVE  LogIsAChain'
        <3> SUFFICES ASSUME NEW i \in 1 .. Len(wal') - 1 PROVE wal'[i + 1].from = wal'[i].to
            BY DEF LogIsAChain
        <3>1. CASE i = Len(wal)
            BY <1>3, <2>3, <2>4, <3>1
        <3>2. CASE i # Len(wal)
            <4>0. Len(wal) \in Nat /\ Len(wal') = Len(wal) + 1
                BY <1>3
            <4>1. i \in 1 .. Len(wal) - 1
                BY <3>2, <4>0
            <4>2. wal[i + 1].from = wal[i].to
                BY <2>4, <4>1 DEF SerialInv, LogIsAChain
            <4>3. i \in DOMAIN wal /\ i + 1 \in DOMAIN wal
                BY <1>3, <4>1
            <4> QED
                BY <1>3, <4>2, <4>3
        <3> QED
            BY <3>1, <3>2
    <2>5. ASSUME goalDeaths = 0
          PROVE  Climbs'
        <3>0. Climbs /\ (\A i \in DOMAIN wal : wal[i].from \in Nat /\ wal[i].to \in Nat)
              /\ row.from \in Nat /\ row.to \in Nat
            BY <1>3, <2>5, RowsAreNumbers DEF SerialInv, FilesInv
        <3>1. ASSUME NEW i \in DOMAIN wal
              PROVE  wal[i].to <= row.from
            <4>1. row.from = wal[Len(wal)].to /\ Len(wal) \in DOMAIN wal
                BY <1>3, <2>3, <2>5, <3>1
            <4>2. CASE i = Len(wal)
                BY <3>0, <4>1, <4>2
            <4>3. CASE i < Len(wal)
                BY <3>0, <3>1, <4>1, <4>3 DEF Climbs
            <4> QED
                BY <1>3, <3>1, <4>2, <4>3
        <3>2. ASSUME NEW i \in DOMAIN wal'
              PROVE  /\ wal'[i].from < wal'[i].to
                     /\ \A j \in DOMAIN wal' : i < j => wal'[i].to <= wal'[j].from
            <4>1. CASE i \in DOMAIN wal
                BY <1>3, <3>0, <3>1, <3>2, <4>1 DEF Climbs
            <4>2. CASE i = Len(wal) + 1
                BY <1>3, <2>1, <4>2
            <4> QED
                BY <1>3, <3>2, <4>1, <4>2
        <3> QED
            BY <3>2 DEF Climbs
    <2> QED
        BY <1>1, <1>3, <2>2, <2>4, <2>5 DEF SerialInv
<1> QED
    BY <1>2, <1>3, StatesOfAStep DEF SerialInv

LEMMA ClimbsClearOnce ==
    ASSUME SerialInv, goalDeaths = 0, NEW g
    PROVE  Cardinality(Clearances(g)) <= 1
<1>1. \A i \in DOMAIN wal : i \in Nat /\ wal[i].from \in Nat /\ wal[i].to \in Nat
    BY RowsAreNumbers DEF SerialInv, FilesInv
<1>2. \A i, j \in Clearances(g) : i = j
    BY <1>1 DEF Clearances, SerialInv, Climbs
<1>3. CASE Clearances(g) = {}
    BY <1>3, FS_EmptySet
<1>4. CASE Clearances(g) # {}
    <2>1. PICK i \in Clearances(g) : TRUE
        BY <1>4
    <2>2. Clearances(g) = {i}
        BY <1>2, <2>1
    <2>3. Cardinality({i}) = 1
        BY FS_Singleton
    <2> QED
        BY <2>2, <2>3
<1> QED
    BY <1>3, <1>4

\* While no command dies, commands that overlap leave a log in which each row
\* starts where the last one ended and each gate is cleared at most once.
THEOREM GoalCommandsSerialize ==
    ASSUME LastStageIsNoGate PROVE GoalSpec => []CommandsSerialize
<1>1. GoalInit => SerialInv
    BY FilesStart, GoalValuesAssumption, NoCommandIsIdle
    DEF GoalInit, SerialInv, PendingAtGates, Climbs, LogIsAChain, AfterRow
<1>2. SerialInv /\ [GoalNext]_goalVars => SerialInv'
    BY SerialStep
<1>3. SerialInv => CommandsSerialize
    BY ClimbsClearOnce DEF SerialInv, CommandsSerialize
<1> QED
    BY <1>1, <1>2, <1>3, PTL DEF GoalSpec

-----------------------------------------------------------------------------
(* Gates.                                                                  *)

\* Every command goes by the goal's own type, and that type's first stage is
\* no gate: a goal is created active, so that one would never be waited at.
OneTypeOfGoal == TypeArgs \subseteq {GoalType} /\ Conf(GoalType).entry \notin Conf(GoalType).gates

\* The status says whether the stage is a gate, and the gates below, from the
\* stage where the type enters, are cleared.
Guarded(p) ==
    /\ p.status = StatusAt(GoalType, p.stage)
    /\ \A g \in Conf(GoalType).gates :
          Conf(GoalType).entry <= g /\ g < p.stage => Clearances(g) # {}

StatesAreGuarded ==
    /\ state \in GoalState => Guarded(state)
    /\ \A o \in Operators : cmd[o].at \in Writing => Guarded(cmd[o].plan)

GuardInv == FilesInv /\ StatesAreGuarded

LEMMA GatesAreStages == \A g \in Conf(GoalType).gates : g \in 1 .. Len(Stages)
BY GoalAssumption, StagesOfAType DEF Conf, Stage

LEMMA GuardStep ==
    ASSUME OneTypeOfGoal, GuardInv, [GoalNext]_goalVars PROVE GuardInv'
<1>1. FilesInv' /\ FilesInv
    BY FilesStep DEF GuardInv
<1>2. CASE /\ state' \in GoalState =>
                 \/ state' = state
                 \/ \E o \in Operators : cmd[o].at \in Writing /\ state' = cmd[o].plan
           /\ \A o \in Operators : cmd'[o].at \in Writing => cmd[o].at \in Writing /\ cmd'[o].plan = cmd[o].plan
           /\ wal' = wal /\ (goalDeaths' = 0 => goalDeaths = 0)
    BY <1>1, <1>2 DEF GuardInv, StatesAreGuarded, Guarded, Clearances
<1>3. ASSUME NEW o \in Operators, NEW row \in Row, NEW next \in GoalState,
             CreatedRow(row, next) \/ AdvanceRow(row, next) \/ ResumeRow(row, next),
             next.stage = row.to,
             cmd'[o].plan = next, state' = state, goalDeaths' = goalDeaths,
             \A p \in Operators \ {o} : cmd'[p] = cmd[p],
             Len(wal) \in Nat, Len(wal') = Len(wal) + 1,
             DOMAIN wal = 1 .. Len(wal), DOMAIN wal' = 1 .. Len(wal) + 1,
             wal'[Len(wal) + 1] = row, \A i \in DOMAIN wal : wal'[i] = wal[i],
             goalDeaths = 0 => (state = Absent /\ wal = <<>>) \/ (state \in GoalState /\ AtEnd(state))
      PROVE  GuardInv'
    <2>1. ASSUME NEW g, Clearances(g) # {}
          PROVE  Clearances(g)' # {}
        BY <1>3, <2>1 DEF Clearances
    <2>2. row.action = "gate_resume" => Clearances(row.from)' # {}
        BY <1>3 DEF Clearances
    <2>3. row.from \in Nat /\ row.to \in Nat /\ Len(Stages) \in Nat
        BY RowsAreNumbers, StagesOfAType
    <2>4. Guarded(next)'
        <3>1. CASE CreatedRow(row, next)
            BY <1>3, <2>3, <3>1, GatesAreStages DEF CreatedRow, Guarded, StatusAt, OneTypeOfGoal
        <3>2. CASE AdvanceRow(row, next)
            <4>1. Guarded(state) /\ state.status = "active"
                BY <3>2 DEF AdvanceRow, GuardInv, StatesAreGuarded
            <4>2. row.from = state.stage /\ row.from \notin Conf(GoalType).gates
                BY <3>2, <4>1 DEF AdvanceRow, Guarded, StatusAt
            <4>3. ValidTransition(GoalType, row.from, row.to) /\ next.status = StatusAt(GoalType, row.to)
                BY <3>2 DEF AdvanceRow, OneTypeOfGoal
            <4>4. ASSUME NEW g \in Conf(GoalType).gates, Conf(GoalType).entry <= g, g < row.to
                  PROVE  Clearances(g) # {}
                <5>1. g \in Nat /\ g # row.from /\ ~(row.from < g)
                    BY <2>3, <4>2, <4>3, <4>4, GatesAreStages DEF ValidTransition
                <5> QED
                    BY <2>3, <4>1, <4>2, <4>4, <5>1 DEF Guarded
            <4> QED
                BY <1>3, <2>1, <4>3, <4>4 DEF Guarded, StatusAt
        <3>3. CASE ResumeRow(row, next)
            <4>1. Guarded(state) /\ row.from = state.stage
                BY <3>3 DEF ResumeRow, GuardInv, StatesAreGuarded
            <4>2. row.to <= row.from + 1
                BY <2>3, <3>3 DEF ResumeRow, NextStageDefault
            <4>3. ASSUME NEW g \in Conf(GoalType).gates, g < row.to
                  PROVE  g = row.from \/ g < row.from
                BY <2>3, <4>2, <4>3, GatesAreStages
            <4>4. \A g \in Conf(GoalType).gates :
                     Conf(GoalType).entry <= g /\ g < row.to => Clearances(g)' # {}
                BY <2>1, <2>2, <3>3, <4>1, <4>3 DEF Guarded, ResumeRow
            <4> QED
                BY <1>3, <3>3, <4>4 DEF Guarded, StatusAt, ResumeRow
        <3> QED
            BY <1>3, <3>1, <3>2, <3>3
    <2>5. ASSUME NEW p, Guarded(p)
          PROVE  Guarded(p)'
        BY <2>1, <2>5 DEF Guarded, StatusAt
    <2> QED
        BY <1>1, <1>3, <2>4, <2>5 DEF GuardInv, StatesAreGuarded
<1> QED
    BY <1>2, <1>3, StatesOfAStep DEF GuardInv

\* No goal stands beyond a gate that no operator has cleared, whatever commands
\* overlap or die, if every command goes by the type of the goal.
THEOREM GoalNoGateSkipped ==
    ASSUME OneTypeOfGoal PROVE GoalSpec => []NoGateSkipped
<1>1. GoalInit => GuardInv
    BY FilesStart, GoalValuesAssumption, NoCommandIsIdle
    DEF GoalInit, GuardInv, StatesAreGuarded, AfterRow
<1>2. GuardInv /\ [GoalNext]_goalVars => GuardInv'
    BY GuardStep
<1>3. GuardInv => NoGateSkipped
    BY DEF GuardInv, StatesAreGuarded, Guarded, NoGateSkipped
<1> QED
    BY <1>1, <1>2, <1>3, PTL DEF GoalSpec
=============================================================================
