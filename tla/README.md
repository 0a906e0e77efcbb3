# cognitive-firm in TLA+

Models of the parts of cognitive-firm that several processes share: the
production queue, leases, the agent-to-agent channel with its saga
compensation, the goal orchestrator, the agent daemon over the goals inbox and
its gates, the MCP outbox relay, and nine of the records the organisation keeps
about itself. TLC checks them on small instances; TLAPS proves nearly every
safety property that is checked, for every value of the constants.

Paths are relative to the repository root; `K` stands for
`src/cognitive_firm`, `O` for `K/orchestration`.

## The system

cognitive-firm is a governance kernel for organisations of human and model
agents. It has no central process: a threaded HTTP service
(`K/kernel_service.py`), daemons (`scripts/agent_daemon.py`), command lines and
libraries all work on the same files, mostly JSONL logs and JSON documents.
Correctness therefore rests on what each library does between reading a file
and writing it, and on what happens when somebody else does the same or dies in
between. Some libraries lock, some append only, and many read, change and
rewrite with nothing in between.

| Component | State | Operations | Shared with |
|---|---|---|---|
| Production queue `O/work_items.py` | one JSONL row per work item, rewritten under a file lock | enqueue, claim, claim next, start, heartbeat, complete, fail, retire, requeue | operating units (read without lock), kernel events (append after unlock) |
| Operating units `O/operating_units.py` | one JSONL row per unit, rewritten without lock | define, set status | queue, allocations |
| Leases `O/leases.py` | JSONL rows, lock for writers only | acquire, release, verify, list | every mutating route |
| State backends `O/state_backends.py` | SQLite or Postgres tables | acquire, release, guarded append in one transaction | kernel service |
| Kernel service `K/kernel_service.py` | none of its own | about 150 routes on threads: authenticate, verify lease, call a library | everything |
| Agent channels `O/agent_channels.py` | a JSON file per message, and a copy | send, set status, move obligation | saga, daemons, service; no lock |
| Saga compensation `O/saga_compensation.py` | rows in the transition log | compensate, list active | agent channels |
| Transition log, kernel events | append-only JSONL | append, read | everything |
| Goal orchestrator `O/cli.py`, `O/core.py`, `O/persistence.py`, `O/gate_escalation.py` | a state file, a log written ahead of it, a lock, the gate inbox, the list of goals | create, advance, resume | artifacts that gates are about |
| Goals inbox `O/goals_inbox.py`, task claims `K/sessions/claims.py` | goal files in folders; claim files with an expiry | claim, done, blocked; claim, release | daemons |
| Agent daemon `scripts/agent_daemon.py`, work discovery | gates, marks, controls | tick, gate, resolve, run | goals inbox, Telegram, kernel service |
| MCP outbox relay `K/role_extensions/mcp_bridge` | rows in the transition log; a cache and capabilities in memory | dispatch pending | servers outside |
| Human work `O/human_work.py` | one file of sessions, rewritten without lock | create, transition, receipt, note, ask, interact; list | roles, work discovery |
| Inbound events `O/inbound_events.py` | four logs that are appended to | ingest | providers, kernel events |
| Outcome links `O/outcome_links.py` | one file, rewritten without lock | create, measure before and after, verdict, void | kernel events |
| Governance changes `O/governance_changes.py` | a log of proposals; decisions are kernel events | propose, approve, decline | kernel service, leases |
| Decision cases `O/decision_aggregation.py` | one file, rewritten without lock | open, position, aggregate, escalate | kernel service |
| Allocations `O/resource_allocation.py` | one file, lock for writers only | record, apply, revert; ledger | operating units, kernel events |
| Phase plans `O/phase_execution.py` | events in an append-only log | start, direct, feedback | kernel service |
| Artifact dependencies `O/artifact_dependencies.py` | none: computed from the log | find cycles | tasks |

`PROJECT.json` lists every component, those not modelled too, with the reason.

What makes each correct, and what is hard about it:

- **Queue.** A work item has one holder; a holder whose lease ran out, or whose
  call is late or repeated, changes nothing; attempts stay within the budget;
  what is done stays done and is announced. Hard: expiry, retries, dead letters
  and requeues interleave with late callers; a contract is read from a file
  that others rewrite; a caller can die between the row and its event.
- **Leases.** One live lease per resource, growing tokens, writes only under
  the lease. Hard: readers take no lock, a release rewrites the file in two
  steps, and most routes check first and write later.
- **Channel.** An obligation moves along its table only, and chains are bounded.
  Hard: every call is a read, a decision and four writes, and nothing is locked.
- **Saga.** Each fulfilled ancestor of a failure is asked to undo its work, and
  nobody else. Hard: the walk's result is used after others have moved on; a
  command can stop halfway or run twice.
- **Goal orchestrator.** A goal passes no gate that no operator cleared; what
  the state file says was logged. Hard: a command reads before it locks, writes
  two files, and may die in between; the artifact moves while a gate waits.
- **Goals inbox and daemon.** A goal is handed out once, is never lost, and
  nothing that needs the principal's approval runs without it. Hard: each move
  of a goal is several files; claims are checked and written without a lock; a
  gate has two channels that resolve it; a daemon starts again as somebody new.
- **Relay.** Every request is answered, and a call is carried out again only
  where that cannot be known. Hard: relays that overlap, lost responses, deaths
  between the call and its row.
- **Records.** Each has a lifecycle, and often a rule that ties the record to
  something else: a receipt, a measurement, an event, the positions taken.
  Hard: the rewrite of one row rewrites all of them, from rows read before.
- **Phase plans, dependency cycles.** A plan stops when its attempts or its
  budget are used up, with feedback on an older plan under way; the search finds
  a deadlock in whatever order it looks.

## Modules

| Module | Models | Built on |
|---|---|---|
| `FencedTask` | what the queue promises: tasks with one holder and an epoch | |
| `WorkQueue` | `work_items.py`, `operating_units.py` | `INSTANCE FencedTask` |
| `FencedWrites` | what leases are for: a log whose writes never go back to an earlier lease | |
| `LeaseStore` | `leases.py`, the lease half of `state_backends.py`, the service's lease check | `INSTANCE FencedWrites` |
| `AgentChannels` | `agent_channels.py` | |
| `SagaCompensation` | `saga_compensation.py` running over the channel | `EXTENDS AgentChannels` |
| `KernelBase` | the values for "nothing there": a null field, a missing file, a torn one | |
| `GoalOrchestrator` | `cli.py`, `core.py`, `persistence.py`, `gate_escalation.py` | `KernelBase` |
| `GoalsInbox` | `goals_inbox.py`, `sessions/claims.py` | `KernelBase` |
| `OwnedGoals` | what the principal is promised about a goal: it is taken once, and worked on and finished by who took it | |
| `AgentDaemon` | `agent_daemon.py`, its part of `work_discovery.py`, `task_authorization.py` and the gate and control routes | `EXTENDS GoalsInbox`, `INSTANCE OwnedGoals` |
| `OutboxRelay` | `mcp_bridge/outbox_relay.py` and the capability registry | `KernelBase` |
| `RecordLog` | a JSONL file that is appended to, or emptied and filled | `KernelBase` |
| `HumanWork`, `OutcomeLinks`, `DecisionCases`, `Allocations` | the module of that name | `RecordLog` |
| `InboundEvents`, `GovernanceChanges` | `inbound_events.py`; `governance_changes.py` with the decision routes | `RecordLog` |
| `SpeedEnvelope` | `build_human_speed_envelope` | |
| `PhaseExecution` | `phase_execution.py` | `KernelBase` |
| `DependencyCycles` | `check_dependency_cycles` | |
| `WorkQueueProofs`, `LeaseStoreProofs`, `AgentDaemonProofs`, `OutboxRelayProofs`, `DependencyCyclesProofs` | theorems about the module before `Proofs` | TLAPS |
| `AgentProofs`, `GoalProofs` | theorems about `SagaCompensation` and the channel under it; about `GoalOrchestrator` | TLAPS |
| `RecordsProofs` | theorems about the other record modules | TLAPS |
| `MC*` | instances for TLC | |

A definition called `Name_Something` under the comment "Mutant:" is a
plausible bug of `Name`; substituting it must break a property, which shows the
property looks at the code. No specification uses one.

Three conventions run through the modules. A file that is opened with "w" is
`Torn` (or `<<>>`) until it is filled, in a step of its own. A call that reads
and writes is as many steps as it touches files; what it has read is in its
caller's record, and stays there while others write. Variables marked "history"
are read by properties and by no action; those marked "bound" only stop it.

### WorkQueue

`items[w]` is the row of work item `w`: status, holder, attempts, token, lease
time `left` (in ticks), priority through a constant, key, exit. Each public
function is one action, since `_mutate` and `enqueue_work_item` hold the lock
from read to rewrite. Two things are outside the lock and are separate steps:

- `_emit` appends the event afterwards. `unsent` holds the events of callers
  that have changed a row and not yet appended, `emitted` the log.
  `CrashBeforeEmit` is the death of such a caller; `lost` (history) names the
  event that died with it.
- `enqueue_work_item` validates before it locks: `Admit` puts a request into
  `admitted`, `Enqueue` and `EnqueueAgain` are the locked part.

The unit's file is read without a lock and rewritten by truncation:
`BeginEdit` reads, `OpenUnitFile` empties the file, `WriteUnitFile` writes.
While it is empty the queue sees no unit. `complete_work_item` reads the unit a
second time for the event (`ratify`).

`issued` is history: every (work, actor, token) a claim returned. Callers hold
any ticket they were ever given, so late and repeated calls need no action of
their own.

### LeaseStore

`leases[i]` is the row of lease `i`. `Backend` selects the store. For
`"jsonl"`, `BeginRelease`/`EndRelease` are the two halves of the rewrite;
`releasing` holds the exclusive lock meanwhile, and unlocked readers see
nothing (the file fits in one write buffer, so it is empty until closed).
`CrashRelease` is a death in between. For `"transactional"`, each operation is
one step. `Preflight` and `ApplyMutation` are a route's check and the handler's
write; `GuardedAppend` is `/kernel/mutation-events`. An expired lease keeps its
"active" row, as in the code; expiry is computed by whoever reads.

### AgentChannels and SagaCompensation

`inbox[m]` and `mirror[m]` are the two files of a message, reduced to what
changes (envelope status, obligation state); `Torn` is a file that was emptied
and not yet filled. All three calls share their writes: `OpenInbox`,
`WriteInbox`, `OpenMirror`, `WriteMirror`, `AppendTransition`. They differ in what they
decide from, which is one step each: `SendMessage`, `UpdateObligation`,
`UpdateStatus`. A `Crash` is possible at each step. `story[m]` is history: the
obligation states the inbox file has held; so is `hidden`: the messages that
could be read and then, while both files were being rewritten, could not. The
loop guard's walk is one step of `SendMessage`: it looks at each ancestor as it
is at that moment, and ends at one that no file shows.

A compensation command is a caller of the channel. `BeginCompensation` reads
the failure; `ReadAncestor` is one turn of the loop in `_walk_parent_chain`: it
reads one inbox file, keeps the message if it is to be undone (`ToUndo`), and
goes on to its parent, while others go on writing. The source filters after the
walk, on what the walk has read, so nothing is lost by filtering as it reads.
Then `RequestCompensation` sends through `SendMessage` and the shared writes,
and `RecordCompensation` appends the row; `cut` (history) names a request whose
command died in between.

### GoalOrchestrator

`state` is `state.json`, `wal` the log of transitions, `cmd[o]` the command an
operator runs and what it does next. A command compares the two files without
the lock, takes it, appends to the log, empties and fills the state file, and
for a gate writes the escalation; then the listing in `AGENTS.md` is made anew.
`artifact` is the version of what gates are about: the state keeps the version
a gate was shown (`hashes`), and a resume compares. A type's gates, strict
gates, terminal stages and entry stage are constants (`Config`); a goal is
created at the entry of its type. An `advance` may be given a `--type` of its
own, and may then begin while there is no state file yet: it compares nothing
and finds out under the lock. `untold` is history: a gate whose command died
between the state file and the escalation.

### GoalsInbox and AgentDaemon

`pending[g]`, `active[g]` and `done[g]` are the files of a goal, `claims[g]`
its claim file, `job[s]` the call a session is in. `claim_goal` is a chain of
steps: claim, read, copy to active, unlink from pending, parse. The daemon adds
its own state to it: `daemon[s]` is the tick of the process with session `s`,
`gates` and `resolved` the two gate folders, `marks` the `.dispatched` files by
name, `chat` what the principal has sent and nobody has polled, `service` a
call of `resolve_gate` under way (`ServiceResolves` writes the verdict,
`ServiceHandles` renames the pending file), `control` the role's control file
(STOP or PAUSE, which the principal may also send by Telegram). Each process is
started attended or not. What a gate is about is compared by the first 80
characters of its text, which for a gate about a gate about a goal no longer
name the goal: `Legible` is the depth at which that happens (`SubjectOf`).
Releasing a claim reads the file and unlinks it in two steps. A tick
looks at the control, takes the first candidate (approved gates rank above
goals), authorises it or opens a gate, polls, and runs an agent. A daemon dies
at any step and is started again with a new session id.

### OutboxRelay

`asked` and `answers` are the rows of the log. A relay's `tick` reads the log
once, then takes the requests it found unanswered one by one: send, and in a
step of its own record. `cache` and `caps` are its memory. `executed` counts
what the servers outside carried out, and `lost` the calls whose response did
not come back.

### The record modules

`HumanWork`, `OutcomeLinks` and `DecisionCases` share one shape: a call reads
the file, empties it, and fills it with the rows it has read, changed in one
place; `FilledOver` of `RecordLog` says what the file may be when two such
writes overlap. An id may be on several rows: each is changed by itself, and
the caller is told of the last. A receipt of human work may be replaced or
erased, a verdict may be inconclusive, and a link may be made without a
prediction. `Allocations` does the same under a lock that its readers do
not take. `InboundEvents` and `GovernanceChanges` only append: there the gap is
between the check and the append. The key of an event has the provider's name
as it was spelled, while conflicts are looked for without regard to spelling. `PhaseExecution` appends events and keeps the
plan that they add up to, which a call reads before its event lands.

`SpeedEnvelope` is a function: its state is a set of facts, and a step restates
one of them, so that an action property can compare two classifications.
`DependencyCycles` is the search itself, one look at a neighbour per step, from
every graph of tasks that await artifacts.

## Runs

| Run | Question | Bounds |
|---|---|---|
| `work_retry` | Do tokens, attempts, outcomes and event keys hold through every retry and late call, while the contract changes? Does the queue implement `FencedTask`? | 1 item, 2 actors, 2 roles, 2 attempts, 3 tokens, 2 contracts, 2 statuses of the unit, 1 editor, 1 death |
| `work_pool` | Is a key enqueued once? Is every outcome announced but the one whose own caller died? | 2 items of different priority under 1 key, 1 attempt, 2 requests at once before the lock, 1 event at once to append, 1 death; no revived dead letters |
| `lease_jsonl` | One live lease, no token twice, no write under another's lease, in the JSONL store | 2 resources, 2 actors, 3 leases, 2 callers, 1 death |
| `lease_guarded` | Do guarded appends keep token order and implement `FencedWrites`? Is a resource always freed again? | 2 resources, 2 actors, 3 leases, 2 writes each |
| `a2a_race` | Can racing calls skip a state, or build too deep a chain? | 3 messages, 2 callers, 3 messages per thread, depth 2, 4 rows, 1 death; two scenes |
| `saga_race` | Is only done work undone, and what is in flight listed, but for a request whose own command died? | chain of 2, 1 request, 2 commands, 2 callers, depth 3, 1 death |
| `saga_live` | Is every ancestor that a walk found asked? | chain of 3, 2 requests, 1 command, another caller tearing files |
| `goal_commands` | Do gates hold, is the log ahead of the state, is drift recorded, is a gate escalated? | 5 stages, entry at the second, 2 operators, 6 rows, 1 edit of the artifact, 1 death |
| `mcp_relays` | When is a call carried out twice, and is every request answered? | 2 relays, 2 requests under one key, 1 per tick, 1 death |
| `daemon` | Does anything run unapproved, is a goal lost, is one that needs no approval taken? Do inbox and daemons implement `OwnedGoals`? | 2 sessions, 1 goal, each attended or not, Telegram and service, 2 gates, 2 runs, 2 messages; gates and messages together 2 (4 for one daemon alone); a gate about a gate is no longer legible |
| `daemon_again` | Is an approved gate executed once? (no) | 1 daemon, 1 goal, 2 gates |
| `records` | Ten rules of nine records (below) | 2 threads each; 2 spellings of a provider; links with and without a prediction |

Why these bounds are enough for what they show:

- *Queue.* Two attempts are the least with both a retry and a last attempt;
  three tokens allow one take-over and one claim after a requeue; a lease of
  one tick is either running or run out. With two actors there is an old
  holder and a new one, and the old one may be the new one's name too. Rows do
  not depend on one another except through the key and the choice of the
  next, so one row carries the life cycle and two rows carry the key.
- *Leases.* Three leases on a resource are the least in which a token could
  repeat after a release and an expiry; two resources show that tokens and
  locks of one do not leak into the other.
- *Channel.* Each call has six steps; two callers give every overlap of two.
  The rows bound stops the loop between `in_progress` and `blocked_input`.
  `MCAgentScenes` checks two scenes, as all calls on all messages are too many:
  every call on one message (states and acknowledgements), where a copy that was
  emptied is filled at once (`CopiesAtOnce`), as nothing there depends on it;
  and sends and acknowledgements of three messages, file step by file step (a
  third is the first that could be too deep, and an acknowledgement tears the
  files that the walk of a send reads).
- *Saga.* Commands read inbox files only, so copies are filled at once here
  too, and `hidden`, which nothing here depends on, is left out of the `VIEW`.
  One request is enough for a command that dies while another's request is out,
  or between its own request and the row. `saga_race` starts from an obligation in progress with a pending
  child; `saga_live` from two fulfilled ancestors of a refused one. Such
  chains are what `send_agent_message` and `update_obligation_state` build
  (`tests/test_saga_compensation.py` builds the second).
- *Goal.* A gate before the entry, which is never met, then two gates in a row,
  one strict, then the end: six rows are the way through both with steps to
  spare.
- *Relay.* Two requests of one key are the least that the cache can join; two
  relays and a death are the ways in which it is not shared. One request per
  tick makes two of them a backlog larger than the cap.
- *Daemon.* `MaxTogether` bounds gates and messages together once two daemons
  have been started, `MaxAlone` before that, so that one daemon alone is
  followed further. Two gates are a gate and a gate about it.
- *Records.* The nine parts share no variable, so `MCRecords` lets the initial
  state choose one of them: its states are the sum of the parts'. Three calls
  of human work are two that overlap and one after; three deliveries are one,
  its retry, and a spoof; five link calls are create, before, after, verdict
  and one that races; three governance requests with two moves of the lease; four
  calls on a case are open, two positions and a result that race; five
  allocation calls are record and apply of two, and a revert; five phase calls
  exhaust a plan of two attempts with one restart; three tasks are the least
  with a cycle through a task that is done, and each promises its own artifact,
  so that what they await gives every graph on three tasks.

The ten rules: work that needs a receipt is integrated with one
(`ReceiptBeforeIntegration`); a fact restated for the worse never means more
speed, but for a medium risk that is restated as high
(`ExposureIsNeverFaster`); a spoof does not spoil the genuine event
(`SpoofsPoisonNothing`), and retries make one event unless deliveries overlapped
or a handler died (`RetriesMakeOneEvent`); a verdict rests on both measurements
(`VerdictRestsOnMeasurements`); a proposal is decided once unless decisions
overlapped (`DecidedOnce`); the result of a case is of its positions
(`ResultIsOfThePositions`); the ledger is what the events told
(`EventsTellTheLedger`); a plan that goes on has attempts and budget left, and
overlapping feedback overcharges it by no more than the threads there are
(`PlansAreBounded`); and a deadlock is reported if and only if there is one
(`DeadlocksAreReported`). Where a rule makes an exception for calls that
overlapped, the module also states it without, and the code violates that: see
Known divergences.

Deaths are excepted one by one. `ClosedWorkIsAnnounced`, `ListedUnlessInterrupted`
and `GateIsEscalated` hold of every row, request and gate but the one whose own
command died in the middle of it (`lost`, `cut`, `untold`), whatever else dies.
`AutonomousGoalIsTaken` demands that the first goal leaves the pending folder,
however often its claims are lost, expire or are overwritten; it excepts a claim
that its writer died on and nobody will write any more (`TornForGood`: every
later claim of the goal raises), a role that is stopped or paused or of which no
daemon runs unattended, and an approved gate, which goes first.

The bounds (`Max...`, `HasRoom`) stop the models, so deadlock is not checked;
each cfg says so. Callers are interchangeable, and so are actors, lease ids and
message ids where no configuration names them: `SYMMETRY` is used for safety
only.

The type invariants and some plainer properties of the modules are in no run:
they are theorems (below), or hold on the instances of the runs.

### Fairness

- `WorkQueue!LiveSpec` is fair only to the `Emit` of events that close a row
  (`ClosingKey`): a caller that has closed its row goes on to append, as
  straight-line code does, unless it dies. Nobody has to claim or finish work.
- `LeaseStore!LiveSpec` is fair to `Tick` only: time passes. Nobody has to
  release a lease, and the property holds all the same.
- `SagaCompensation!LiveSagaSpec` is fair to the steps of calls that are under
  way. Nobody has to start one.
- `GoalFairness`: a command that has logged its transition takes its next step,
  unless it dies. Nobody has to give a command.
- `RelayFairness`: a relay's tick goes on, and is started again. The daemon
  calls `dispatch_pending` at every tick of its loop.
- `DaemonFairness`: a daemon's loop goes on, the host starts a daemon that is
  not running (in either mode: the property asks for one that runs unattended), and a claim expires in the end (`claims.py` gives it six hours).
  Nothing is asked of the principal, of the service or of Telegram.

### Divergence found

`daemon_again` is a disagreement with the repository's own text, quoted in
`PROJECT.json`: an approved gate is executed and marked under a name that
discovery does not look for, so that the next tick executes it again.

### Known divergences

Further properties are stated in the modules and violated by what the code
does. To see one, run the configuration named here with the property in place
of those it lists.

| Property | Configuration | What happens |
|---|---|---|
| `ExpiredClaimIsReclaimable` | `MCWorkQueue_retry` | a holder that dies on its last attempt leaves a row that no claim takes and no failure closes, until an operator retires it |
| `GovernedExitIsFlagged` | `MCWorkQueue_retry` | the unit is read again, after the lock, for the event; a contract replaced (or its file emptied) meanwhile loses the governance flag |
| `QueuedIsClaimable` | `MCWorkQueue_retry` | a dead letter requeued without a reset of its attempts is queued and never claimable |
| `DoneIsAnnounced` | `MCWorkQueue_retry` | a caller dies after the row and before the event |
| `LastDefinitionStands` | `MCWorkQueue_status` | a status change writes an older definition back |
| `WritesInTokenOrder` | `MCLeaseStore_preflight` | check, expiry, next holder's write, late write; `docs/protocols/leases.md:52` admits it for local stores |
| `TokensNeverRepeat` | `MCLeaseStore_jsonl` | a release dies after it emptied the file, and tokens start over |
| `NamedLeaseIsChecked` | `MCLeaseStore_preflight`, `RequireLeases = FALSE` | a transactional backend that does not require leases is not asked about the lease a request names |
| `ThreadBounded` | `MCAgentChannels_thread` | two sends count before either writes |
| `DepthWithinLimit` | `MCAgentChannels_depth` | a sender is between the inbox file and the copy, an update has emptied the inbox file, so the message cannot be read; the walk of the next send ends there and counts less than there is above it, by what `DepthBounded` allows |
| `TerminalStaysTerminal` | `MCAgentScenes_race` | an update that read an open obligation overwrites a closed one |
| `AuditTellsTheStory` | `MCAgentScenes_race` | two updates read the same state: the rows of the message no longer follow one another |
| `EnvelopeIsIndependent` | `MCAgentScenes_race` (action property) | an acknowledgement writes an older obligation state back; the two routes ask for different leases, so requiring leases does not help |
| `FailureCanBeCompensated` | `MCSagaCompensation_deepest` | a request is a child of the failure, so the loop guard refuses it when the failure is as deep as the limit; with the default limit of 8, the eighth message cannot be compensated for |
| `AllUndone` | `MCSagaCompensation_late` | an ancestor fulfilled after the walk is not asked |
| `OneRequestPerAncestor` | `MCSagaCompensation_late` | a command that runs twice asks twice |
| `InFlightIsListed` | `MCSagaCompensation_race` | a command dies between a request and its row |
| `NoGateSkipped` | `MCGoalOrchestrator_override` | a command given another type than the goal's uses that type's gates |
| `NoGateSkipped` | `MCGoalOrchestrator_commands`, `GoalType = "audit"` | a goal is created active, so a gate at the stage it enters at is never waited at; `validate_stage_graph` accepts one |
| `CommandsSerialize` | `MCGoalOrchestrator_commands`, `GoalType = "closing"` | a gate at the last stage leads to itself when it is resumed, and is cleared again and again; `validate_stage_graph` accepts one |
| `ListingIsCurrent` | `MCGoalOrchestrator_commands` | the listing is made after the lock is free: an older one replaces a newer |
| `DriftIsAlwaysRecorded` | `MCGoalOrchestrator_commands` | a gate that a resume leads to directly keeps no hashes, and its drift is not seen |
| `HaltsOnDivergence` | `MCGoalOrchestrator_commands` (action property) | a command dies between the log and the state, and one that compared before goes on |
| `NoDoubleWrite` | `MCOutboxRelay_relays` | two relays send the same call, or one sends again after a death or a lost response |
| `NothingUnapproved` | `MCAgentDaemon_daemon`, `Typed = TRUE` | a typed APPROVE names no gate: sent before there is one, it answers the gate that the daemon opens next |
| `DoneIsNotActive` | `MCAgentDaemon_daemon` | a session dies between the done file and the removal of the active one |
| `ClosedStaysClosed` | `MCRecords_records` | a rewrite that read an older file opens a closed session of human work |
| `FollowupIsDiscovered` | `MCRecords_records` | a session to be integrated lies beyond the number that discovery looks at |
| `AgentSpeedIsForMildWork` | `MCRecords_records` | work of high risk that is reversible and stays inside, and irreversible work of low risk, get agent speed, where work of medium risk is sampled |
| `OneEventPerKey` | `MCRecords_records` | two deliveries judge before either writes, or a handler dies before its record |
| `RetryAfterRegistration` | `MCRecords_records` | what was refused for want of a projection is a duplicate when it comes again |
| `OneBaseline` | `MCRecords_records` | two measurements before the change are both told as the one |
| `NeverDecidedTwice` | `MCRecords_records` | two requests find a proposal undecided, and both decide |
| `ApprovalIsOfTheRow` | `MCRecords_records` | a second proposal under the same id stands where the decided one was |
| `ProposerDoesNotDecide` | `MCRecords_records` | nothing compares the two |
| `StatusIsReviewReady` | `MCRecords_records` | the status and the property are computed by different rules |
| `UnanimityIsUnanimous` | `MCRecords_records` | one actor in two roles counts twice |
| `ReplayKeepsTheCase` | `MCRecords_records` | a case that is opened again under its id loses its positions |
| `EveryTransitionIsTold` | `MCRecords_records` | an office dies between the row and its event |
| `SummaryAddsUp` | `MCRecords_records` | the summary reads the file twice, and a rewrite lies between |
| `ClosedPlansStayClosed` | `MCRecords_records` (action property) | feedback under way when the plan closed makes it active again |
| `BudgetNeverGrows` | `MCRecords_records` (action property) | feedback on an older plan puts budget back |
| `EveryMemberIsNamed` | `MCRecords_records` | a task of a second cycle through a task already done is in no report |

## Proofs

The theorems are for every value of the constants, under the assumptions that
the modules state for them. Eight assume more, and say so in their statements:
`WritersAreHolders`, `GuardedWritesAreInOrder` and `GuardedStoreIsFenced` (which
backend and routes), `GoalCommandsSerialize` (the last stage is no gate),
`GoalNoGateSkipped` (commands go by the goal's own type, whose entry stage is no
gate), `NothingRunsUnapproved` (the principal taps buttons), `NoWorkIsSkipped`
(the model starts from obligations nobody has worked on), `ChainsAreBounded` (the obligations of the start answer no other). Each is
needed: what is there at the start could otherwise be skipped or too deep
already, and for the others TLC finds the counterexamples listed above.

The method is the same everywhere. An invariant that says what files and
callers' memories have to do with one another was first checked by TLC on the
run's instance; then it is proved to hold at the start and to survive each
action, in one lemma per action.

### WorkQueueProofs

| Theorem | Statement |
|---|---|
| `TypeCorrect` | `Spec => []TypeOK` |
| `TokensAreNeverReused` | `Spec => []TokenIssuedOnce` |
| `LateHoldersAreFenced` | `Spec => []OnlyNewestTicketAccepted` |
| `BudgetsHold` | `Spec => []AttemptsWithinBudget` |
| `KeysAreUnique` | `Spec => []OneRowPerKey` |
| `FinishedWorkIsFinal` | `Spec => ClosedRowsStayClosed` |
| `TransitionsAreToldApart` | `Spec => FreshAnnouncement` |
| `QueueIsFenced` | `Spec => ImplementsFencedTask` |

Hardly any of these is inductive. `TokenIssuedOnce` says that no two claims of
an item returned the same token; a step preserves it only if no ticket carries
a token above the one in its row. So the invariant is

    QueueInv == TypeOK /\ BlankUntilEnqueued /\ NoTicketAhead /\ TokenIssuedOnce

`NoTicketAhead`: every issued token is at most its row's token.
`BlankUntilEnqueued`: a row that does not exist yet has token 0 and no ticket,
which is what `Enqueue`, the only action that sets a token other than by adding
one, needs. A claim adds one and issues that, which is above every earlier
ticket; requeue resets the attempts and leaves the token.
`OnlyNewestTicketAccepted` follows: `_require_live_claim` compares with the
row's token, and no ticket is above it. `RowsInv` is the budget, the key, and
`FreeRowsAreFree`: a row that nobody holds has no holder and no lease time left,
which finality and the refinement need.

`StepMoves` says that every step leaves the rows alone, lets time pass, or moves
one row along one of six listed moves (`RowMove`); `RowsInv`, the finality of
finished rows and the refinement of `FencedTask` all rest on it. Every step of
the queue maps to a step of the abstract task or to a stutter, expiry included.

`FreshAnnouncement` is about what has been announced, in the log or still to be
appended. Its invariant, `NothingToldAhead`, says that no event is ahead of its
row's token, and that one under that token bears a verb the row has had behind
it in its present status (`Told`): a running row has told `claimed` and
`started`, not yet how it ends. `StepAnnounces` says that every step either
rewrites one row and leaves an event that fits the table (`Announces`), or
changes no status and no token and announces nothing (`Quiet`). The one verb
that could come round under the same token is `requeued`, for a dead letter
revived without a fresh budget; such a row can only be retired, since dying
again takes another claim, and a claim takes another token. TLC agreed with
`NothingToldAhead` on the instance of `work_retry` before it was proved
(2,067,716 states).

### LeaseStoreProofs

| Theorem | Statement |
|---|---|
| `LeaseTypes` | `Spec => []TypeOK` |
| `LeasesAreExclusive` | `Spec => []OneLiveLease` |
| `TokensSurvive` | `Spec => []TokensRepeatOnlyAfterLoss` |
| `WritersAreHolders` | writes carry a token granted to their writer, where a named lease is looked at |
| `GuardedWritesAreInOrder` | with guarded appends to a transactional backend, `[]WritesInTokenOrder` |
| `GuardedStoreIsFenced` | and under the same assumption `ImplementsFencedWrites` |

`LeaseInv` ties the rows to what was granted: rows of a resource carry different
tokens (`TokensDiffer`), every row was granted (`RowsAreGranted`), every grant
has its row as long as no release has lost the file (`GrantsHaveRows`), and a
release is of a row there is. `GuardedInv` says that nothing is verified ahead
of its write (`OnlyGuarded`), that the live lease is the last one granted
(`LiveIsLast`), and that writes are in the order of their tokens, below the
next one (`WritesAreSorted`). What the last three theorems assume of backend,
routes and configuration is written in them.

### AgentProofs

| Theorem | Statement |
|---|---|
| `ChannelTypeCorrect` | `Spec => []TypeOK` |
| `NoWorkIsSkipped` | `FreshSeed /\ Spec => []NoWorkSkipped` |
| `ChainsAreBounded` | `SeedsAreRoots /\ Spec => []DepthBounded` |
| `SagaTypeCorrect` | `SagaSpec => []SagaTypeOK` |
| `OnlyDoneIsUndone` | `SagaSpec => []OnlyDoneWorkIsUndone` |
| `ActiveSagasAreListed` | `SagaSpec => []ListedUnlessInterrupted` |

An update decides on what it has read and writes it later, so nothing can be
said about the file alone. `WorkIsDue` speaks of what a caller has in memory:
what it is about to write may follow the states that the file has held
(`Due`) - not the last of them, since others write in between. What may follow
once may follow for ever, as stories only grow (`Grows`); that is why the
decision survives the race, and why the order of the states does not (the
known divergences about reopened obligations). `StatesAreTold` adds that the
file holds a state of its story, and `ChannelShape` that a file is of a message
that was sent.

`ChainsAreBounded` is about the guard as it really walks: updates tear the files
of ancestors, a walk ends at a message that neither file shows, and the chain
below may then be longer than the limit. `DepthBounded` says by how much: each
message above its end that was hidden at some time gives a chain less than the
limit once more (`Slack`), and nothing else does; a chain whose files could
always be read is within the limit. The lengths and the slack are recursive
functions of the messages, and the proof makes no induction over chains: that
there is one such sum along the chains, and only one, whatever is added up, is
itself part of the invariant (`AddsUp`), and so is that every length is within
limit and slack (`ChainsFit`, over every set of messages that may be hidden
later). A send keeps both, because what is sent is nobody's parent yet
(`AlongGrows`, `SendDepth`): what the guard has counted is the length of the
chain up to the first message it could not see (`DepthIsSeen`), which is hidden
now, so that what is above that one is paid for by its slack. Rewriting a file
only adds to what was hidden (`WriteStepDepth`). That chains end at all rests on
`ParentsAreSeen`: a caller names as a parent what it has seen.

`CompensationInv` carries the same over the commands: what a walk has found was
fulfilled at some time, and its failure had failed (`CommandFits`,
`TargetFits`); and a request has its row, or the command that sent it still has
to append it, or died before it could (`RequestsAreTold`).

### GoalProofs

| Theorem | Statement |
|---|---|
| `GoalTypeCorrect` | `GoalSpec => []GoalTypeOK` |
| `GoalStateIsLogged` | `GoalSpec => []StateIsLogged` |
| `GoalDriftIsRecorded` | `GoalSpec => []DriftIsRecorded` |
| `GoalCommandsSerialize` | `GoalSpec => []CommandsSerialize`, if the last stage is no gate |
| `GoalNoGateSkipped` | `GoalSpec => []NoGateSkipped`, if commands go by the goal's own type and its entry stage is no gate |

`FilesInv` says that the writer has the lock, that what the state file shows or
is about to show has a row, and that without deaths the file is where the log
ends, or will be when the writer is through (`FilesMeet`): the file between two
writes belongs to the command that holds the lock. `SerialInv` adds that rows
climb; `GuardInv` that a status says whether its stage is a gate and that every
gate below it was cleared, in the file and in the memory of writers - that one
survives deaths, as a command that compared before another died writes a plan
that is guarded all the same. Drift follows from the hashes in `FilesMeet`: a
resume compares with the hashes of the last row.

### OutboxRelayProofs

| Theorem | Statement |
|---|---|
| `RelayTypeCorrect` | `RelaySpec => []RelayTypeOK` |
| `RelayDoubleWritesAreBounded` | `RelaySpec => []DoubleWritesAreBounded` |
| `RelayDispatchedIsDone` | `RelaySpec => []DispatchedIsDone` |
| `RelayAnswersAreBounded` | `RelaySpec => []AnswersAreBounded` |

`CallsAreAccounted` gives every execution of a key an owner: a relay that holds
the response (in its cache, or about to record it), a relay that died, or a
response that was lost. The bound on double writes is that there are no more
holders than relays. The bound on answers counts, for each request, the relays
that have answered it or still have it in the list of their tick.

### AgentDaemonProofs

| Theorem | Statement |
|---|---|
| `DaemonTypeCorrect` | `DaemonSpec => []DaemonTypeOK` |
| `GoalsAreHandedOutOnce` | `DaemonSpec => []HandedOutOnce` |
| `GoalsAreKept` | `DaemonSpec => []InboxIsKept` |
| `NothingRunsUnapproved` | `DaemonSpec => []NothingUnapproved`, if the principal taps buttons |
| `InboxHasOwners` | `DaemonSpec => ImplementsOwnedGoals` |
| `DaemonsDoNotPester` | `DaemonSpec => []OpenGatesAreBounded` |

Five invariants. `InboxInv` is about the files of goals: a file that is removed
has its successor (`FilesFollow`); who unlinked the pending file is alone in
that, whatever the claims say, and that alone makes `HandedOutOnce` true
(`OneRemoves`); and for a goal that was not disturbed, who has the claim is
alone with it (`HoldersAreAlone`) and the principal's words are in the file
before the move, in the session's memory, or in the file after it
(`WordsAreCarried`). `TickInv` is about shapes: a gate about a gate comes after
it, which bounds the depth, and what a tick asks about is there. `AuthorityInv`
follows the principal's word: a verdict to approve - in a folder, in the chat,
in a service call, in a tick - is for a gate that the principal approved
(`VerdictsAreVouched`), so that a tick that claims or runs has authority for its
goal (`TicksAreBacked`).

`OwnerInv` carries the refinement. Of the abstract goal, *waiting* is that the
pending file is there, *done* that the done file can be read, *worked* that an
agent was run for the goal itself and not for a gate about it; its holder is the
session whose call is past the removal of the pending file. The inbox knows
nothing of runs and the daemon nothing of files, so the invariant has to join
them: the call that a session is in is the one its tick has made (`CallFits`),
two sessions past the removal are not at one goal (`OneOwner`), what waits was
neither run nor finished (`WaitingIsNew`), and what is owned was run exactly if
its owner's tick has gone on to close it, and is done exactly if its owner has
filled the done file (`Reached`). `OneOwner` rests on the removal alone, so no
claim needs to be true: a claim that is torn, expires or is overwritten maps to
a stutter, as does every step about gates and the death of a session that has
no goal. Each action of a daemon is shown to take, work, finish, leave or
stutter (`Owns`).

`GatesAreCounted` is behind the last theorem: for each subject, the open gates
and the daemons about to fill one are no more than the daemons ever started. A
daemon comes to be about to fill a gate only when `_find_existing_pending_gate`
finds none open; all the others that are about to fill are then counted by
themselves, and every later step leaves the sum alone or takes from it. The
bound itself says nothing of the daemons between the search and the file.

### RecordsProofs

| Theorem | Statement |
|---|---|
| `ReceiptsComeFirst` | `HumanSpec => []ReceiptBeforeIntegration` |
| `VerdictsRest` | `LinkSpec => []VerdictRestsOnMeasurements` |
| `ResultsFitPositions`, `DissentPrevails` | `CaseSpec => []ResultIsOfThePositions`, `[]DissentDecides` |
| `DecisionsAreFinal`, `DecisionsRestOnEvidence` | `GovernanceSpec => []DecidedOnce`, `[]DecidedOnEvidence` |
| `SpoofsAreInert`, `RetriesAreAbsorbed` | `InboundSpec => []SpoofsPoisonNothing`, `[]RetriesMakeOneEvent` |
| `EventsRebuildTheLedger` | `AllocationSpec => []EventsTellTheLedger` |
| `PlansBounded` | `PhaseSpec => []PlansAreBounded` |
| `RestatingIsMonotone`, `ExposureIsGated` | `EnvelopeSpec => ExposureIsNeverFaster`, `EnvelopeSpec => []ExposedWorkIsGated` |

*Human work, outcome links, decision cases.* A file that is rewritten without a
lock may go back to what some caller read before, but never to rows that nobody
made. `HumanInv`, `LinkInv` and `CaseInv` are therefore about rows and not about
time: every row in the file, and every row in a caller's memory, is a good one
(`GoodSession`, `GoodLink`, `GoodCase`), and `FilledOver` makes no row of its
own. A rule that relates two fields of one row survives any overlap; one that
relates a row to an earlier one does not.

*Governance changes.* `GovernanceInv`: as long as no two requests overlapped in
a way that the configuration allows, those under way are of different actors
with leases (`Alone`), who looked and still has the lease looked at what is
still so (`LooksStill`), and who is about to record has it.

*Inbound events.* `InboundInv` keeps, for every key whose deliveries never
overlapped, the promise `OneEvent`: one handler at most works on it, one that
has looked found the truth, and there are more kernel events than deaths only
if one is accepted or about to be. A rejection is justified by a row that is in
the files when it is decided (`VerdictsAreJustified`), and files only grow.

*Allocations.* Readers take no lock and the event follows after it is free.
`LedgerIsTold` says, while nobody has died, that what was told of a decision
and what callers are about to tell is what its row says (`Stands`) - of the
rows in the file, or, while the file is being rewritten, of the rows in the
hands of who has the lock.

*Phase plans.* The number of attempts is not bounded by the limit, as threads
that read the plan before it was charged all charge it; that it is at most the
limit and the other threads is not inductive by itself. `PhaseInv` counts the
calls under way (`ChargesAreBounded`): the attempts of a plan and the feedback
that will still charge it are together less than its limit and the number of
threads.

*Speed envelope.* The branches of the classification, taken in the order of the
code, never give a faster class to work of which one fact or several have been
restated for the worse: more exposed, less reversible, with side effects, of
more risk. One restatement is excepted in the definition (`NoLowerRisk`): from
medium to high risk, see `AgentSpeedIsForMildWork` above. No invariant is needed
beyond the type.

### DependencyCyclesProofs

`ReportsAreCycles` (every report is a cycle of the graph) and `SearchIsComplete`
(`DeadlocksAreReported`: when the search is over, there is a report if and only
if some non-empty set of tasks has each of its members wait for another).
`CycleInv` says what colours mean: the tasks on the stack are the gray ones and
a path (`StackIsGray`, `StackIsPath`), what is left of a task are neighbours
(`LeftAreNeighbours`, `UnseenIsLeft`), and as long as nothing was reported, a
neighbour that a gray task has looked at is above it or done (`SeenIsAbove`), a
done task's neighbours are done (`DoneIsClosed`) and no set of tasks that wait
for one another has a done one (`DoneHasNoKnot`). The last is a statement about
sets, so no induction over paths is needed.

### Only model-checked

- Liveness (`ClosedWorkIsAnnounced`, `AlwaysFreedAgain`, `EveryAncestorIsAsked`,
  `GateIsEscalated`, `EveryRequestIsAnswered`, `AutonomousGoalIsTaken`) rests on
  fairness and `ENABLED`, which the prover does not know.

No module has a RECURSIVE operator; what the code does by recursion is a step,
a fold, or a recursive function.

## What is abstracted

- *Queue.* One operating unit per instance. Payloads, schemas, artifacts,
  owner roles and the rule that verifier and producer differ are left out: they
  refuse calls and change nothing. Work ids are fresh, as callers never pass
  one. The queue's own file is rewritten in one step, where the code empties it
  and fills it: writers hold the lock meanwhile and readers without one are not
  modelled, but a death in between, which loses every row, is not either. The
  two-step rewrite and the death in it are modelled for leases, whose file is
  written in the same way.
- *Leases.* Lease times are one constant; metadata is left out.
- *Channel.* Role policy refuses sends and changes nothing. The parent of a
  message is one that can be read; an unknown parent would count as depth 1.
  The route accepts any text as a status; nothing reads it. Nothing in the repository moves an obligation to `expired` when
  its time has passed, so no action does.
- *Saga.* The age test of `check_compensation_freshness` is left out.
- *Goal.* Whether a stage's predicate holds is a choice; its text, the arbiter
  and the deploy gate are not modelled. One goal and one artifact.
- *Daemon.* Running an agent is one step with two outcomes, done or blocked.
  Budgets, checkpoints, chat, directives other than STOP and PAUSE, and the sources of discovery other
  than goals, approved gates and human work are left out. Time is a choice:
  a claim may expire at any moment, and does in the end.
- *Relay.* The server carries a call out or refuses it, and its response
  arrives or is lost. What projections say is external.
- *Records.* Ids that the library makes are fresh (sessions of human work,
  allocation decisions, whose callers in the service pass none); ids that
  callers give may repeat. Texts are there or not; times are left out. A key, a payload or an
  amount is a member of a small set. A budget of a plan is a number of steps
  above its floor, which is what the decay leaves of it.

## Not modelled

- *Learning events, accountability cases, run checkpoints, membership.* The
  same read, change and rewrite over one file as `HumanWork` and
  `OutcomeLinks`, and the same hazards; what they would add is their own
  lifecycles.
- *Audit integrity.* A hash chain over one log, which is about the hash.
- *Record logs, damage signals.* One immutable row per call; nothing modelled
  reads them.
- *Read models, projections, userland.* They compute views of what others wrote.
- *Recipes, demos, scripts, the browser interface, deployment.* They call the
  components above in sequence; half of the repository's lines are here.
- *Debates, the bandit, role extensions, notifications, the model runtime.*
  Computations around model output and calls outside.
- *Authentication, tenancy and the routes of components that are not modelled.*
  They refuse requests, or are the other component's.
- *Distribution, state migrations.* Git and file handling, run by hand.

The map covers the code whose order of steps matters. Most of the remaining
lines validate, format or describe, which the models abstract.

## Plan

1. `AccountabilityCases` and `RunCheckpoints` over `RecordLog`, with the links
   from a case to the human work that closes it.
2. Learning events from governance decisions: one transition per decision that
   stands, over a log in which a decision may be made twice.
3. The rollback of an overlay (`K/distribution`) with a failure between steps.
4. Proofs: what the sequential halves of the known divergences still guarantee
   (`SerialPlansClose`, `WhatWasToldStands`).
