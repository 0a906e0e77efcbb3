-------------------------- MODULE GoalOrchestrator --------------------------
(***************************************************************************)
(* The goal orchestrator: one goal moves through the stages of its type,   *)
(* by the commands create, advance and resume (orchestration/cli.py) over  *)
(* a state file and a log of transitions (persistence.py).                 *)
(*                                                                         *)
(* A command first compares the two files without the goal's lock, then    *)
(* takes the lock, appends to the log, and rewrites the state file, which  *)
(* is empty in between.  It may die at any point; the lock goes with it.   *)
(***************************************************************************)
EXTENDS KernelBase

CONSTANTS
    Operators,    \* processes that run a command, one at a time each
    Stages,       \* Stages[n]: name of the n-th stage; the order of every type
    Types,        \* goal types
    Config,       \* Config[t]: the gates, strict gates, terminal stages and entry of t
    GoalType,     \* the type the goal is created with
    TypeArgs,     \* types callers give as --type
    MaxRows,      \* bound: rows in the log
    MaxVersion,   \* bound: edits of the goal's artifact
    MaxGoalDeaths \* bound: commands that die

ASSUME GoalAssumption ==
    /\ Stages \in Seq(STRING) /\ Stages # <<>>
    /\ GoalType \in Types /\ TypeArgs \subseteq Types
    /\ Config \in [Types -> [gates : SUBSET (DOMAIN Stages), strict : SUBSET (DOMAIN Stages),
                             terminal : SUBSET (DOMAIN Stages), entry : DOMAIN Stages]]
    /\ MaxRows \in Nat /\ MaxVersion \in Nat /\ MaxGoalDeaths \in Nat

VARIABLES
    state,    \* state.json: a GoalState, Absent or Torn
    wal,      \* transitions.jsonl
    goalLock, \* .goal.lock: its holder or None
    cmd,      \* cmd[o]: the command operator o runs
    artifact, \* the version of the artifact that gates are about
    gateInbox,\* stages for which gates/pending holds an escalation
    listing,  \* the Active Goals section of AGENTS.md: stage and status, or None
    untold,   \* history: gates a command died on before it had escalated them
    goalDeaths

goalVars == <<state, wal, goalLock, cmd, artifact, gateInbox, listing, untold, goalDeaths>>

Stage == DOMAIN Stages
Version == 0 .. MaxVersion
GoalState == [stage : Stage, status : {"active", "gate_pending"}, hashes : Version \cup {None}]

\* now is the artifact's version when the row was written: history, the code
\* records only hashes.
Row == [from : Stage \cup {0}, to : Stage, action : {"goal_created", "advance", "gate_resume"},
        hashes : Version \cup {None}, drift : BOOLEAN, now : Version]

\* op: the command; at: what it does next; seen: what it has read; plan: the
\* state it is writing.
Command == [op : {"create", "advance", "resume"},
            at : {"log", "lock", "open", "write", "escalate", "list", "relist"},
            seen : Stage \cup {None}, plan : GoalState \cup {None}]
NoCommand == [op |-> None, at |-> None, seen |-> None, plan |-> None]

\* The values for "nothing there" are none of the things that may be there.
ASSUME GoalValuesAssumption ==
    /\ None \notin Operators
    /\ None \notin {"log", "lock", "open", "write", "escalate", "list", "relist"}
    /\ Absent \notin GoalState /\ Torn \notin GoalState

GoalTypeOK ==
    /\ state \in GoalState \cup {Absent, Torn}
    /\ wal \in Seq(Row)
    /\ goalLock \in Operators \cup {None}
    /\ cmd \in [Operators -> Command \cup {NoCommand}]
    /\ artifact \in Version
    /\ gateInbox \subseteq Stage
    /\ listing \in [stage : Stage, status : {"active", "gate_pending"}] \cup {None}
    /\ untold \subseteq Stage
    /\ goalDeaths \in 0 .. MaxGoalDeaths

GoalInit ==
    /\ state = Absent
    /\ wal = <<>>
    /\ goalLock = None
    /\ cmd = [o \in Operators |-> NoCommand]
    /\ artifact = 0
    /\ gateInbox = {}
    /\ listing = None
    /\ untold = {}
    /\ goalDeaths = 0

-----------------------------------------------------------------------------
Conf(t) == Config[t]
ReplayTransitions == wal[Len(wal)].to
NextStageDefault(s) == IF s < Len(Stages) THEN s + 1 ELSE s
StatusAt(t, s) == IF s \in Conf(t).gates THEN "gate_pending" ELSE "active"

\* validate_transition: forward, and over no gate.
ValidTransition(t, from, to) ==
    /\ to > from
    /\ \A s \in Conf(t).gates : ~(from < s /\ s < to)

(* Before the lock                                                         *)

\* check_consistency reads the state file: a torn one raises, and where there is
\* none, only an advance that was given its --type goes on to the lock.
BeginCommand(o, op) ==
    LET compares == op # "create" /\ state \in GoalState
    IN  /\ cmd[o] = NoCommand
        /\ Len(wal) < MaxRows
        /\ \/ op = "create" \/ compares
           \/ op = "advance" /\ state = Absent
        /\ cmd' = [cmd EXCEPT ![o] =
             [op |-> op, at |-> IF compares THEN "log" ELSE "lock",
              seen |-> IF compares THEN state.stage ELSE None, plan |-> None]]
        /\ UNCHANGED <<state, wal, goalLock, artifact, gateInbox, listing, untold, goalDeaths>>

\* ... then the log, and halts if they differ.
CompareLog(o) ==
    /\ cmd[o].at = "log"
    /\ cmd' = [cmd EXCEPT ![o] =
         IF cmd[o].seen # ReplayTransitions THEN NoCommand ELSE [@ EXCEPT !.at = "lock"]]
    /\ UNCHANGED <<state, wal, goalLock, artifact, gateInbox, listing, untold, goalDeaths>>

(* Under the lock                                                          *)

\* Mutant: the row is left for later.
AppendTransition_Later(o, row, next) ==
    /\ goalLock' = o
    /\ cmd' = [cmd EXCEPT ![o].at = "open", ![o].plan = next]
    /\ UNCHANGED <<state, wal, artifact, gateInbox, listing, untold, goalDeaths>>

AppendTransition(o, row, next) ==
    /\ wal' = Append(wal, row)
    /\ goalLock' = o
    /\ cmd' = [cmd EXCEPT ![o].at = "open", ![o].plan = next]
    /\ UNCHANGED <<state, artifact, gateInbox, listing, untold, goalDeaths>>

Ready(o, op) == cmd[o].op = op /\ cmd[o].at = "lock" /\ goalLock = None /\ Len(wal) < MaxRows

Create(o) ==
    /\ Ready(o, "create")
    /\ state = Absent
    /\ AppendTransition(o,
         [from |-> 0, to |-> Conf(GoalType).entry, action |-> "goal_created", hashes |-> None,
          drift |-> FALSE, now |-> artifact],
         [stage |-> Conf(GoalType).entry, status |-> "active", hashes |-> None])

\* Mutant: the status of the goal is not looked at.
Advance_ThroughGate(o, t, to, given) ==
    /\ Ready(o, "advance")
    /\ state \in GoalState
    /\ state.stage \notin Conf(t).terminal
    /\ ValidTransition(t, state.stage, to)
    /\ AppendTransition(o,
         [from |-> state.stage, to |-> to, action |-> "advance",
          hashes |-> given, drift |-> FALSE, now |-> artifact],
         [stage |-> to, status |-> StatusAt(t, to),
          hashes |-> IF to \in Conf(t).gates THEN given ELSE state.hashes])

\* given is the hash of the artifact, if the caller named it.
Advance(o, t, to, given) ==
    /\ Ready(o, "advance")
    /\ state \in GoalState
    /\ state.status # "gate_pending"
    /\ state.stage \notin Conf(t).terminal
    /\ ValidTransition(t, state.stage, to)
    /\ AppendTransition(o,
         [from |-> state.stage, to |-> to, action |-> "advance",
          hashes |-> given, drift |-> FALSE, now |-> artifact],
         [stage |-> to, status |-> StatusAt(t, to),
          hashes |-> IF to \in Conf(t).gates THEN given ELSE state.hashes])

\* Mutant: the hashes kept at the gate are compared with nothing.
ArtifactDrift_Never == FALSE

\* check_artifact_drift
ArtifactDrift == state.hashes # None /\ state.hashes # artifact

\* Mutant: the state is not read again under the lock.
Resume_Unread(o, acknowledged) ==
    /\ Ready(o, "resume")
    /\ state \in GoalState
    /\ (ArtifactDrift /\ state.stage \in Conf(GoalType).strict) => acknowledged
    /\ AppendTransition(o,
         [from |-> cmd[o].seen, to |-> NextStageDefault(cmd[o].seen), action |-> "gate_resume",
          hashes |-> IF state.hashes = None THEN None ELSE artifact,
          drift |-> ArtifactDrift, now |-> artifact],
         [stage |-> NextStageDefault(cmd[o].seen),
          status |-> StatusAt(GoalType, NextStageDefault(cmd[o].seen)), hashes |-> None])

Resume(o, acknowledged) ==
    /\ Ready(o, "resume")
    /\ state \in GoalState
    /\ state.status = "gate_pending"
    /\ (ArtifactDrift /\ state.stage \in Conf(GoalType).strict) => acknowledged
    /\ AppendTransition(o,
         [from |-> state.stage, to |-> NextStageDefault(state.stage), action |-> "gate_resume",
          hashes |-> IF state.hashes = None THEN None ELSE artifact,
          drift |-> ArtifactDrift, now |-> artifact],
         [stage |-> NextStageDefault(state.stage),
          status |-> StatusAt(GoalType, NextStageDefault(state.stage)), hashes |-> None])

\* What a command asks for may be refused under the lock; an advance may
\* always propose a stage that it cannot go to.
Refusable(o) ==
    \/ cmd[o].op = "create" /\ state # Absent
    \/ cmd[o].op = "advance"
    \/ /\ cmd[o].op = "resume"
       /\ state \in GoalState =>
             \/ state.status # "gate_pending"
             \/ ArtifactDrift /\ state.stage \in Conf(GoalType).strict

Refuse(o) ==
    /\ cmd[o].at = "lock"
    /\ goalLock = None
    /\ Refusable(o)
    /\ cmd' = [cmd EXCEPT ![o] = NoCommand]
    /\ UNCHANGED <<state, wal, goalLock, artifact, gateInbox, listing, untold, goalDeaths>>

\* write_state, in two steps: the file is emptied, then filled.
OpenState(o) ==
    /\ cmd[o].at = "open"
    /\ state' = Torn
    /\ cmd' = [cmd EXCEPT ![o].at = "write"]
    /\ UNCHANGED <<wal, goalLock, artifact, gateInbox, listing, untold, goalDeaths>>

WriteState(o) ==
    /\ cmd[o].at = "write"
    /\ state' = cmd[o].plan
    /\ IF cmd[o].plan.status = "gate_pending"
       THEN cmd' = [cmd EXCEPT ![o].at = "escalate"] /\ UNCHANGED goalLock
       ELSE cmd' = [cmd EXCEPT ![o].at = "list"] /\ goalLock' = None
    /\ UNCHANGED <<wal, artifact, gateInbox, listing, untold, goalDeaths>>

\* Mutant: a gate that follows a gate is not escalated.
WriteGateEscalation_AfterAdvance(o) ==
    /\ cmd[o].at = "escalate"
    /\ gateInbox' = IF cmd[o].op = "advance" THEN gateInbox \cup {cmd[o].plan.stage} ELSE gateInbox
    /\ goalLock' = None
    /\ cmd' = [cmd EXCEPT ![o].at = "list"]
    /\ UNCHANGED <<state, wal, artifact, listing, untold, goalDeaths>>

WriteGateEscalation(o) ==
    /\ cmd[o].at = "escalate"
    /\ gateInbox' = gateInbox \cup {cmd[o].plan.stage}
    /\ goalLock' = None
    /\ cmd' = [cmd EXCEPT ![o].at = "list"]
    /\ UNCHANGED <<state, wal, artifact, listing, untold, goalDeaths>>

(* After the lock: the listing of active goals is built and written.       *)

CollectGoals(o) ==
    /\ cmd[o].at = "list"
    /\ cmd' = [cmd EXCEPT ![o] =
         IF state \in GoalState THEN [@ EXCEPT !.at = "relist", !.plan = state] ELSE NoCommand]
    /\ UNCHANGED <<state, wal, goalLock, artifact, gateInbox, listing, untold, goalDeaths>>

UpdateListing(o) ==
    /\ cmd[o].at = "relist"
    /\ listing' = [stage |-> cmd[o].plan.stage, status |-> cmd[o].plan.status]
    /\ cmd' = [cmd EXCEPT ![o] = NoCommand]
    /\ UNCHANGED <<state, wal, goalLock, artifact, gateInbox, untold, goalDeaths>>

(* Around the commands                                                     *)

EditArtifact ==
    /\ artifact < MaxVersion
    /\ artifact' = artifact + 1
    /\ UNCHANGED <<state, wal, goalLock, cmd, gateInbox, listing, untold, goalDeaths>>

\* The lock is an flock: it is gone with its process.
DieInCommand(o) ==
    /\ cmd[o] # NoCommand
    /\ goalDeaths < MaxGoalDeaths
    /\ goalDeaths' = goalDeaths + 1
    /\ cmd' = [cmd EXCEPT ![o] = NoCommand]
    /\ goalLock' = IF goalLock = o THEN None ELSE goalLock
    /\ untold' = IF cmd[o].at = "escalate" THEN untold \cup {cmd[o].plan.stage} ELSE untold
    /\ UNCHANGED <<state, wal, artifact, gateInbox, listing>>

LockedStep(o) ==
    \/ Create(o)
    \/ \E t \in {GoalType} \cup TypeArgs, to \in Stage, given \in {artifact, None} :
         Advance(o, t, to, given)
    \/ \E acknowledged \in BOOLEAN : Resume(o, acknowledged)

CommandStep(o) ==
    \/ OpenState(o)
    \/ WriteState(o)
    \/ WriteGateEscalation(o)
    \/ CollectGoals(o)
    \/ UpdateListing(o)

GoalNext ==
    \/ EditArtifact
    \/ \E o \in Operators :
        \/ \E op \in {"create", "advance", "resume"} : BeginCommand(o, op)
        \/ CompareLog(o)
        \/ Refuse(o)
        \/ LockedStep(o)
        \/ CommandStep(o)
        \/ DieInCommand(o)

GoalSpec == GoalInit /\ [][GoalNext]_goalVars

\* A command that has logged a transition goes on.
GoalFairness == \A o \in Operators : WF_goalVars(CommandStep(o))

-----------------------------------------------------------------------------
(* Safety                                                                  *)

Reached(s) == \E i \in DOMAIN wal : wal[i].to = s
Clearances(g) == {i \in DOMAIN wal : wal[i].action = "gate_resume" /\ wal[i].from = g}

\* core.py:157-159: from the stage its type enters at, no goal stands beyond a
\* gate that no operator has cleared, whatever commands overlap or die.
NoGateSkipped ==
    state \in GoalState =>
        \A g \in Conf(GoalType).gates :
            Conf(GoalType).entry <= g /\ g < state.stage => Clearances(g) # {}

\* persistence.py:4 (C-6): every stage the state file has shown was logged
\* first, and when no command is between the two files and none has died,
\* the file is where the log ends.
StateIsLogged ==
    /\ state \in GoalState => Reached(state.stage)
    /\ (state \in GoalState /\ goalLock = None /\ goalDeaths = 0) =>
           state.stage = ReplayTransitions

\* The rows follow one another: each starts where the last one ended.
LogIsAChain == \A i \in 1 .. Len(wal) - 1 : wal[i + 1].from = wal[i].to

\* While no command has died in between, overlapping commands leave a chain
\* in which each gate is cleared at most once.
CommandsSerialize ==
    goalDeaths = 0 => LogIsAChain /\ \A g \in Stage : Cardinality(Clearances(g)) <= 1

\* persistence.py:7 (C-25): an artifact that has changed since it was hashed
\* for a gate is recorded as drift when the gate is cleared.
DriftIsRecorded ==
    \A i \in DOMAIN wal : \A j \in 1 .. i - 1 :
        (/\ wal[i].action = "gate_resume" /\ wal[j].action = "advance"
         /\ wal[j].to = wal[i].from /\ wal[j].hashes # None
         /\ \A k \in j + 1 .. i - 1 : wal[k].to # wal[i].from
         /\ goalDeaths = 0)
        => wal[i].drift = (wal[i].now # wal[j].hashes)

\* persistence.py:124-140 (C-7): from the moment the log and the state file
\* differ with no command at work, no command is accepted.
HaltsOnDivergence ==
    [][(state \in GoalState /\ goalLock = None /\ state.stage # ReplayTransitions)
        => wal' = wal]_goalVars

\* The same for every gate, however it was reached.
DriftIsAlwaysRecorded ==
    \A i \in DOMAIN wal : \A j \in 1 .. i - 1 :
        (/\ wal[i].action = "gate_resume" /\ wal[j].to = wal[i].from
         /\ wal[j].hashes # None /\ \A k \in j + 1 .. i - 1 : wal[k].to # wal[i].from)
        => wal[i].drift = (wal[i].now # wal[j].hashes)

\* cli.py:60: when no command is at work, AGENTS.md lists the goal as it is.
ListingIsCurrent ==
    (state \in GoalState /\ (\A o \in Operators : cmd[o] = NoCommand) /\ goalDeaths = 0)
        => listing = [stage |-> state.stage, status |-> state.status]

(* Liveness                                                                *)

\* A goal that waits at a gate gets its escalation into the inbox, whatever
\* other commands do or die of: only the death of the very command that brought
\* the goal there, between the state file and the escalation, keeps it away.
GateIsEscalated ==
    \A g \in Stage :
        (state \in GoalState /\ state.stage = g /\ state.status = "gate_pending")
            ~> (g \in gateInbox \/ g \in untold)
=============================================================================
