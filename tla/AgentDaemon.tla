---------------------------- MODULE AgentDaemon ----------------------------
(***************************************************************************)
(* The agent daemon of one role (scripts/agent_daemon.py): tick after      *)
(* tick it takes the first candidate for work, asks the principal by a     *)
(* gate where it must, and runs an agent.  Candidates are the goals of the *)
(* inbox and, ranked above them, gates that were approved and, it seems,   *)
(* never acted on (work_discovery.py).  A gate is resolved by the daemon   *)
(* itself, from what it polls from Telegram, or by the kernel service.     *)
(***************************************************************************)
EXTENDS GoalsInbox

CONSTANTS
    Rank,        \* Rank[n]: the n-th goal by priority
    Scope,       \* Scope[g]: what authorize_dispatch says of g
    Modes,       \* values of --unattended that daemons are started with
    Telegram,    \* Telegram is configured
    Legible,     \* depth of gates about gates at which 80 characters name no goal
    Typed,       \* the principal types commands as well as tapping buttons
    MaxRunning,  \* daemons of the role that run at once
    MaxGates,    \* bound: gates
    MaxRuns,     \* bound: agents run
    MaxMessages, \* bound: messages, verdicts and controls of the principal
    MaxTogether, \* bound: gates and messages together
    MaxAlone     \* the same, as long as one daemon at most has been started

ASSUME DaemonAssumption ==
    /\ Rank \in Seq(Goals) /\ \A g \in Goals : \E n \in DOMAIN Rank : Rank[n] = g
    /\ Scope \in [Goals -> {"auto", "ask", "forbidden"}]
    /\ Modes \subseteq BOOLEAN /\ Telegram \in BOOLEAN /\ Typed \in BOOLEAN
    /\ Legible \in Nat \ {0}
    /\ MaxRunning \in Nat /\ MaxGates \in Nat /\ MaxRuns \in Nat /\ MaxMessages \in Nat /\ MaxTogether \in Nat
    /\ MaxAlone \in Nat
    /\ None \notin 1 .. MaxGates

VARIABLES
    daemon,    \* daemon[s]: the process with session s
    gates,     \* gates/pending: every gate, in the order they were opened
    resolved,  \* gates/resolved, oldest first
    marks,     \* the .dispatched files, by gate and by how they are named
    chat,      \* what the principal has sent and nobody has polled
    service,   \* the kernel service's call that resolves a gate, and whether it
               \* has written the verdict, or None
    control,   \* org/controls/<role>.json, its action or None
    told,      \* history: messages, verdicts and controls so far
    approvals, \* history: gates the principal approved
    runs,      \* history: what agents were run for, in order, and whether by
               \* a daemon that runs unattended
    disturbed  \* history: goals a session died on, or two claimed at once

daemonVars == <<daemon, gates, resolved, marks, chat, service, control, told, approvals, runs, disturbed>>
vars == <<inboxVars, daemonVars>>

GateId == 1 .. MaxGates
Option == {"approve", "skip", "stop"}

\* A gate's subject is a goal, at depth 0, or a gate about it, one deeper.
Gate == [goal : Goals, depth : 0 .. MaxGates, file : {"torn", "open", "handled"}]
Resolution == [gate : GateId, option : Option]
Resolving == [verdict : Resolution, written : BOOLEAN]
Message == [say : {"APPROVE", "SKIP", "STOP", "PAUSE"}, gate : GateId \cup {None}]

\* A candidate: a goal, or an approved gate about a goal.
Candidate == [goal : Goals, gate : GateId \cup {None}]
NoCandidate == [goal |-> None, gate |-> None]

\* at: where the tick is; gate: the gate it waits for; option: what it is
\* writing; known: _RECENTLY_RESOLVED_GATE_IDS.
Process == [at : {"new", "rest", "look", "gate", "fill", "wait", "resolve", "handle",
                  "claim", "run", "close", "mark", "over"},
            cand : Candidate \cup {NoCandidate}, gate : GateId \cup {None},
            option : Option \cup {None}, known : SUBSET GateId, unattended : BOOLEAN]

DaemonTypeOK ==
    /\ InboxTypeOK
    /\ daemon \in [Sessions -> Process]
    /\ gates \in Seq(Gate) /\ Len(gates) <= MaxGates
    /\ resolved \in Seq(Resolution)
    /\ marks \subseteq GateId \X {"dispatched", "json.dispatched"}
    /\ chat \in Seq(Message)
    /\ service \in Resolving \cup {None}
    /\ control \in {"STOP", "PAUSE", None}
    /\ told \in 0 .. MaxMessages
    /\ approvals \subseteq GateId
    /\ runs \in Seq([cand : Candidate, unattended : BOOLEAN])
    /\ disturbed \subseteq Goals

DaemonInit ==
    /\ InboxInit
    /\ daemon = [s \in Sessions |->
         [at |-> "new", cand |-> NoCandidate, gate |-> None, option |-> None, known |-> {},
          unattended |-> FALSE]]
    /\ gates = <<>>
    /\ resolved = <<>>
    /\ marks = {}
    /\ chat = <<>>
    /\ service = None
    /\ control = None
    /\ told = 0
    /\ approvals = {}
    /\ runs = <<>>
    /\ disturbed = {}

-----------------------------------------------------------------------------
Started == {s \in Sessions : daemon[s].at # "new"}
Room == Len(gates) + told < IF Cardinality(Started) <= 1 THEN MaxAlone ELSE MaxTogether

Running == {s \in Sessions : daemon[s].at \notin {"new", "over"}}
Is(s, at) == daemon[s].at = at
Then(s, at) == daemon' = [daemon EXCEPT ![s].at = at]

\* The tick is over, or raised: the main loop sleeps and goes on.
EndTick(s) ==
    daemon' = [daemon EXCEPT ![s].at = "rest", ![s].cand = NoCandidate, ![s].gate = None,
                             ![s].option = None]

HasVerdict(n) == \E i \in DOMAIN resolved : resolved[i].gate = n
Verdict(n) == (CHOOSE r \in {resolved[i] : i \in DOMAIN resolved} : r.gate = n).option

\* The resolved file is replaced: its verdict is the new one, and the newest.
WriteVerdict(n, option) ==
    LET i == CHOOSE j \in DOMAIN resolved : resolved[j].gate = n
        others == IF HasVerdict(n) THEN SubSeq(resolved, 1, i - 1) \o SubSeq(resolved, i + 1, Len(resolved))
                  ELSE resolved
    IN  resolved' = Append(others, [gate |-> n, option |-> option])

StartDaemon(s, unattended) ==
    /\ Is(s, "new")
    /\ Cardinality(Running) < MaxRunning
    /\ daemon' = [daemon EXCEPT ![s].at = "rest", ![s].unattended = unattended]
    /\ UNCHANGED <<inboxVars, gates, resolved, marks, chat, service, control, told, approvals, runs, disturbed>>

\* pre_tick_checks: the control file, then every message there is; the first
\* that says to stop or to pause is obeyed, and all of them are gone.
Directives == SelectSeq(chat, LAMBDA m : m.say \in {"STOP", "PAUSE"})
Heeded ==
    IF control # None THEN control ELSE IF Directives # <<>> THEN Head(Directives).say ELSE None

PreTickChecks(s) ==
    /\ Is(s, "rest")
    /\ chat' = IF Telegram THEN <<>> ELSE chat
    /\ Then(s, CASE Heeded = "STOP" -> "over" [] Heeded = "PAUSE" -> "rest" [] OTHER -> "look")
    /\ UNCHANGED <<inboxVars, gates, resolved, marks, service, control, told, approvals, runs, disturbed>>

(* Discovery and authorization                                             *)

\* Approved gates without the mark that discovery looks for.
Unexecuted == {i \in DOMAIN resolved :
    resolved[i].option = "approve" /\ <<resolved[i].gate, "dispatched">> \notin marks}
Newest == CHOOSE i \in Unexecuted : \A j \in Unexecuted : j <= i
Waiting == {n \in DOMAIN Rank : pending[Rank[n]] # Absent}
First == CHOOSE n \in Waiting : \A m \in Waiting : n <= m

Top ==
    IF Unexecuted # {}
    THEN [goal |-> gates[resolved[Newest].gate].goal, gate |-> resolved[Newest].gate]
    ELSE IF Waiting # {} THEN [goal |-> Rank[First], gate |-> None] ELSE NoCandidate

\* authorize_dispatch: an approved gate is authority enough.
Allowed(c) == c.gate # None \/ Scope[c.goal] = "auto"
Refused(c) == c.gate = None /\ Scope[c.goal] = "forbidden"

\* The gates that were not approved are marked while they are looked at.
Discover(s) ==
    /\ Is(s, "look")
    /\ marks' = marks \cup {<<resolved[i].gate, "dispatched">> :
                              i \in {j \in DOMAIN resolved : resolved[j].option # "approve"}}
    /\ IF Top = NoCandidate \/ Refused(Top) THEN EndTick(s)
       ELSE daemon' = [daemon EXCEPT
              ![s].cand = Top,
              ![s].at = IF ~(daemon[s].unattended /\ Allowed(Top)) THEN "gate"
                        ELSE IF Top.gate = None THEN "claim" ELSE "run"]
    /\ UNCHANGED <<inboxVars, gates, resolved, chat, service, control, told, approvals, runs, disturbed>>

(* The proposal gate                                                       *)

Depth(c) == IF c.gate = None THEN 0 ELSE gates[c.gate].depth + 1

\* What 80 characters of a gate's intent tell of it.
Subject(goal, depth) == IF depth < Legible THEN [goal |-> goal, depth |-> depth]
                        ELSE [goal |-> None, depth |-> Legible]

SubjectOf(gate) == Subject(gate.goal, gate.depth)

\* _find_existing_pending_gate
OpenGates(c) == {n \in DOMAIN gates :
    gates[n].file = "open" /\ SubjectOf(gates[n]) = Subject(c.goal, Depth(c))}

\* An unattended daemon does not wait for the principal.
AfterGate(s, n) ==
    IF daemon[s].unattended THEN EndTick(s)
    ELSE daemon' = [daemon EXCEPT ![s].at = "wait", ![s].gate = n]

ReuseGate(s) ==
    /\ Is(s, "gate")
    /\ \E n \in OpenGates(daemon[s].cand) : AfterGate(s, n)
    /\ UNCHANGED <<inboxVars, gates, resolved, marks, chat, service, control, told, approvals, runs, disturbed>>

OpenGate(s) ==
    /\ Is(s, "gate")
    /\ OpenGates(daemon[s].cand) = {}
    /\ Len(gates) < MaxGates /\ Room
    /\ gates' = Append(gates, [goal |-> daemon[s].cand.goal, depth |-> Depth(daemon[s].cand),
                               file |-> "torn"])
    /\ daemon' = [daemon EXCEPT ![s].at = "fill", ![s].gate = Len(gates) + 1]
    /\ UNCHANGED <<inboxVars, resolved, marks, chat, service, control, told, approvals, runs, disturbed>>

FillGate(s) ==
    /\ Is(s, "fill")
    /\ gates' = [gates EXCEPT ![daemon[s].gate].file = "open"]
    /\ AfterGate(s, daemon[s].gate)
    /\ UNCHANGED <<inboxVars, resolved, marks, chat, service, control, told, approvals, runs, disturbed>>

(* Waiting                                                                 *)

\* Mutant: whatever the verdict, what is not stopped is done.
ReadResolvedGate_AnyVerdict(s) ==
    /\ Is(s, "wait")
    /\ HasVerdict(daemon[s].gate)
    /\ IF Verdict(daemon[s].gate) = "stop" THEN Then(s, "over")
       ELSE Then(s, IF daemon[s].cand.gate = None THEN "claim" ELSE "run")
    /\ UNCHANGED <<inboxVars, gates, resolved, marks, chat, service, control, told, approvals, runs, disturbed>>

ReadResolvedGate(s) ==
    /\ Is(s, "wait")
    /\ HasVerdict(daemon[s].gate)
    /\ CASE Verdict(daemon[s].gate) = "approve" ->
              Then(s, IF daemon[s].cand.gate = None THEN "claim" ELSE "run")
         [] Verdict(daemon[s].gate) = "skip" -> EndTick(s)
         [] Verdict(daemon[s].gate) = "stop" -> Then(s, "over")
    /\ UNCHANGED <<inboxVars, gates, resolved, marks, chat, service, control, told, approvals, runs, disturbed>>

GateTimesOut(s) ==
    /\ Is(s, "wait")
    /\ ~HasVerdict(daemon[s].gate)
    /\ EndTick(s)
    /\ UNCHANGED <<inboxVars, gates, resolved, marks, chat, service, control, told, approvals, runs, disturbed>>

Meant(m) == CASE m.say = "APPROVE" -> "approve" [] m.say = "SKIP" -> "skip" [] OTHER -> "stop"

\* Messages for this gate, or for none; the first decides, all are gone.
Applying(n) == {i \in DOMAIN chat : chat[i].gate \in {n, None} /\ chat[i].say # "PAUSE"}
Chosen(n) == Meant(chat[CHOOSE i \in Applying(n) : \A j \in Applying(n) : i <= j])

\* What the daemon has resolved before, or what is resolved, is left alone; a
\* gate that cannot be read ends the tick, and cannot be resolved again here.
PollGate(s) ==
    /\ Telegram /\ Is(s, "wait")
    /\ ~HasVerdict(daemon[s].gate)
    /\ chat # <<>>
    /\ chat' = <<>>
    /\ IF Applying(daemon[s].gate) = {} \/ daemon[s].gate \in daemon[s].known
       THEN UNCHANGED daemon
       ELSE daemon' = [daemon EXCEPT ![s].known = @ \cup {daemon[s].gate},
                                     ![s].at = IF gates[daemon[s].gate].file = "open"
                                               THEN "resolve" ELSE "rest",
                                     ![s].option = Chosen(daemon[s].gate)]
    /\ UNCHANGED <<inboxVars, gates, resolved, marks, service, control, told, approvals, runs, disturbed>>

\* _write_resolved_gate_from_surface, once it has checked.
ResolveGate(s) ==
    /\ Is(s, "resolve")
    /\ WriteVerdict(daemon[s].gate, daemon[s].option)
    /\ Then(s, "handle")
    /\ UNCHANGED <<inboxVars, gates, marks, chat, service, control, told, approvals, runs, disturbed>>

\* The rename raises if the service was there first.
HandleGate(s) ==
    /\ Is(s, "handle")
    /\ gates' = [gates EXCEPT ![daemon[s].gate].file = "handled"]
    /\ IF gates[daemon[s].gate].file = "handled" THEN EndTick(s)
       ELSE daemon' = [daemon EXCEPT ![s].at = "wait", ![s].option = None]
    /\ UNCHANGED <<inboxVars, resolved, marks, chat, service, control, told, approvals, runs, disturbed>>

(* The work                                                                *)

\* claim_goal; if it raises or returns nothing, the tick is over.
ClaimGoal(s) ==
    /\ Is(s, "claim")
    /\ \/ BeginClaim(s, daemon[s].cand.goal) /\ UNCHANGED daemon
       \/ /\ job[s] = NoJob /\ pending[daemon[s].cand.goal] = Absent
          /\ EndTick(s) /\ UNCHANGED inboxVars
       \/ /\ ClaimStep(s)
          /\ IF job'[s] = NoJob THEN EndTick(s)
             ELSE IF job'[s].at = "working" THEN Then(s, "run") ELSE UNCHANGED daemon
    /\ disturbed' = IF At(s, "fill_claim") /\ \E r \in Sessions \ {s} : job[r].goal = job[s].goal
                    THEN disturbed \cup {job[s].goal} ELSE disturbed
    /\ UNCHANGED <<gates, resolved, marks, chat, service, control, told, approvals, runs>>

\* execute_task: an agent has been run, for up to an hour.
ExecuteTask(s) ==
    /\ Is(s, "run")
    /\ Len(runs) < MaxRuns
    /\ runs' = Append(runs, [cand |-> daemon[s].cand, unattended |-> daemon[s].unattended])
    /\ Then(s, IF daemon[s].cand.gate = None THEN "close" ELSE "mark")
    /\ UNCHANGED <<inboxVars, gates, resolved, marks, chat, service, control, told, approvals, disturbed>>

\* _close_candidate_task: the goal is done, or blocked if the agent failed.
CloseTask(s) ==
    /\ Is(s, "close")
    /\ BeginDone(s) \/ BeginBlocked(s) \/ CloseStep(s)
    /\ IF job'[s] = NoJob THEN EndTick(s) ELSE UNCHANGED daemon
    /\ UNCHANGED <<gates, resolved, marks, chat, service, control, told, approvals, runs, disturbed>>

\* The mark is put next to the resolved gate, as <id>.json.dispatched;
\* discovery looks for <id>.dispatched.
MarkDispatched(s) ==
    /\ Is(s, "mark")
    /\ marks' = marks \cup {<<daemon[s].cand.gate, "json.dispatched">>}
    /\ EndTick(s)
    /\ UNCHANGED <<inboxVars, gates, resolved, chat, service, control, told, approvals, runs, disturbed>>

DaemonDies(s) ==
    /\ s \in Running
    /\ Then(s, "over")
    /\ Leaves(s)
    /\ disturbed' = IF job[s] = NoJob THEN disturbed ELSE disturbed \cup {job[s].goal}
    /\ UNCHANGED <<pending, active, done, claims, wins, gates, resolved, marks, chat, service,
                   control, told, approvals, runs>>

(* The principal                                                           *)

\* A message, typed or tapped below the gate it is about; what it approves is
\* counted when it is said.
Say(say, n) ==
    /\ Telegram /\ told < MaxMessages /\ Room
    /\ IF n = None THEN Typed ELSE n \in DOMAIN gates /\ say # "PAUSE"
    /\ chat' = Append(chat, [say |-> say, gate |-> n])
    /\ told' = told + 1
    /\ approvals' = IF say # "APPROVE" THEN approvals
                    ELSE approvals \cup (IF n = None THEN DOMAIN gates ELSE {n})
    /\ UNCHANGED <<inboxVars, daemon, gates, resolved, marks, service, control, runs, disturbed>>

\* app_intents.resolve_gate: not resolved, and pending.
BeginResolve(n, option) ==
    /\ service = None /\ told < MaxMessages /\ Room
    /\ n \in DOMAIN gates /\ gates[n].file = "open"
    /\ ~HasVerdict(n)
    /\ service' = [verdict |-> [gate |-> n, option |-> option], written |-> FALSE]
    /\ told' = told + 1
    /\ approvals' = IF option = "approve" THEN approvals \cup {n} ELSE approvals
    /\ UNCHANGED <<inboxVars, daemon, gates, resolved, marks, chat, control, runs, disturbed>>

ServiceResolves ==
    /\ service # None /\ ~service.written
    /\ WriteVerdict(service.verdict.gate, service.verdict.option)
    /\ service' = [service EXCEPT !.written = TRUE]
    /\ UNCHANGED <<inboxVars, daemon, gates, marks, chat, control, told, approvals, runs, disturbed>>

\* The rename does nothing if a daemon was there first.
ServiceHandles ==
    /\ service # None /\ service.written
    /\ gates' = [gates EXCEPT ![service.verdict.gate].file = "handled"]
    /\ service' = None
    /\ UNCHANGED <<inboxVars, daemon, resolved, marks, chat, control, told, approvals, runs, disturbed>>

\* issue_control
IssueControl(action) ==
    /\ told < MaxMessages /\ Room
    /\ control' = action
    /\ told' = told + 1
    /\ UNCHANGED <<inboxVars, daemon, gates, resolved, marks, chat, service, approvals, runs, disturbed>>

TickStep(s) ==
    \/ PreTickChecks(s) \/ Discover(s)
    \/ ReuseGate(s) \/ OpenGate(s) \/ FillGate(s)
    \/ ReadResolvedGate(s) \/ PollGate(s) \/ GateTimesOut(s) \/ ResolveGate(s) \/ HandleGate(s)
    \/ ClaimGoal(s) \/ ExecuteTask(s) \/ CloseTask(s) \/ MarkDispatched(s)

DaemonNext ==
    \/ \E s \in Sessions : (\E mode \in Modes : StartDaemon(s, mode)) \/ TickStep(s) \/ DaemonDies(s)
    \/ \E g \in Goals : ExpireClaim(g) /\ UNCHANGED daemonVars
    \/ \E say \in {"APPROVE", "SKIP", "STOP", "PAUSE"}, n \in DOMAIN gates \cup {None} : Say(say, n)
    \/ \E n \in GateId, option \in Option : BeginResolve(n, option)
    \/ ServiceResolves \/ ServiceHandles
    \/ \E action \in {"STOP", "PAUSE"} : IssueControl(action)

DaemonSpec == DaemonInit /\ [][DaemonNext]_vars

\* The main loop ticks, a host that has a free daemon starts it, time passes.
DaemonFairness ==
    /\ \A s \in Sessions : WF_vars(TickStep(s)) /\ WF_vars(\E mode \in Modes : StartDaemon(s, mode))
    /\ \A g \in Goals : WF_vars(ExpireClaim(g) /\ UNCHANGED daemonVars)

-----------------------------------------------------------------------------
(* Safety                                                                  *)

\* task_authorization.py: an agent is run for a goal that the role may not
\* take by itself only if the principal has approved a gate about that goal.
NothingUnapproved ==
    \A i \in DOMAIN runs :
        \/ Scope[runs[i].cand.goal] = "auto" /\ runs[i].unattended
        \/ \E n \in approvals : gates[n].goal = runs[i].cand.goal

\* A goal is taken from the inbox by one daemon, however many run.
HandedOutOnce == OneClaimer

\* Its file survives whatever sessions and deaths do to it, and its words do
\* unless two sessions claimed it at once, each seeing no claim, or one died.
InboxIsKept == GoalIsKept(disturbed)

\* The search for an open gate keeps daemons that tick or start again from
\* asking twice: no more gates are open on one subject than daemons started.
OpenGatesAreBounded ==
    \A n \in DOMAIN gates :
        Cardinality({m \in DOMAIN gates : gates[m].file = "open"
                        /\ SubjectOf(gates[m]) = SubjectOf(gates[n])})
        <= Cardinality(Started)

\* work_discovery.py:452-453: a gate that was approved and acted on is not
\* acted on again.
ApprovalRunsOnce ==
    \A n \in GateId : Cardinality({i \in DOMAIN runs : runs[i].cand.gate = n}) <= 1

(* Refinement                                                              *)

\* Stages of a call that has removed the pending file: the goal is its own.
Past == {"parse", "working", "open_done", "fill_done", "unlink_active", "release",
         "unlink_claim", "open_blocked", "fill_blocked"}
Has(s, g) == job[s].goal = g /\ job[s].at \in Past

\* An agent was run for g as a goal, and not for a gate about it.
Ran(g) == \E i \in DOMAIN runs : runs[i].cand = [goal |-> g, gate |-> None]

StageOf(g) ==
    IF pending[g] # Absent THEN "waiting"
    ELSE IF done[g] \in Text THEN "done"
    ELSE IF Ran(g) THEN "worked" ELSE "taken"
HolderOf(g) ==
    IF \E s \in Sessions : Has(s, g) THEN CHOOSE s \in Sessions : Has(s, g) ELSE None

Owned == INSTANCE OwnedGoals WITH
    stage  <- [g \in Goals |-> StageOf(g)],
    holder <- [g \in Goals |-> HolderOf(g)],
    Nobody <- None

\* goals_inbox.py, "claimed work moves to active": whoever removes the pending
\* file owns the goal, works on it once and is the only one to finish it,
\* whatever claims are overwritten, expire or are torn, and whoever dies.
ImplementsOwnedGoals == Owned!Spec

(* Liveness                                                                *)

\* The session that wrote the claim died between emptying the file and filling
\* it, and no other is past its own look at the claim: nobody will write it.
TornForGood(g) ==
    claims[g] = Torn /\ \A s \in Sessions : job[s].goal = g => job[s].at = "claim"

\* A goal that the role may take by itself, ahead of all others, leaves the
\* pending folder if a daemon runs unattended, however often it is claimed, lost
\* and claimed again, unless the principal stops or pauses the role or has approved
\* a gate, which goes first, or a session has died in the middle of its claim.
AutonomousGoalIsTaken ==
    \A g \in Goals :
        (Scope[g] = "auto" /\ Rank[1] = g /\ \E s \in Running : daemon[s].unattended)
            ~> (\/ pending[g] = Absent \/ TornForGood(g)
                \/ control # None \/ approvals # {}
                \/ \A s \in Running : ~daemon[s].unattended)

\* agent_daemon.py:2083: a STOP sent to a daemon that runs alone halts it.
StopIsObeyed ==
    ((\E i \in DOMAIN chat : chat[i] = [say |-> "STOP", gate |-> None]) /\ Running # {})
        ~> (Running = {})
=============================================================================
