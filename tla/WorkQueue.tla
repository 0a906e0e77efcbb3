------------------------------ MODULE WorkQueue ------------------------------
(***************************************************************************)
(* The production queue of one operating unit: orchestration/work_items.py *)
(* over the unit contract of orchestration/operating_units.py.             *)
(*                                                                         *)
(* Every operation reads and rewrites the whole JSONL file under one       *)
(* exclusive lock, so the change of a row is one step.  What an operation  *)
(* does outside the lock is a step of its own: enqueue_work_item checks    *)
(* the contract before taking it, and the kernel event of a change is      *)
(* appended after releasing it.  In between other callers run, the         *)
(* contract is replaced, or the calling process dies.  The contract's own  *)
(* file has no lock: it is read, emptied and written in three steps.       *)
(*                                                                         *)
(* Time is relative: left[w] is lease_until_utc - now in ticks, 0 once the *)
(* lease has run out, so no clock grows without bound.                     *)
(***************************************************************************)
EXTENDS Integers, FiniteSets

CONSTANTS
    Works,        \* rows the queue may come to hold (their work_id)
    Actors,       \* callers
    NoActor,      \* claimed_by_actor = None
    Roles,        \* roles a caller may act as, "no role" included
    Keys,         \* idempotency keys
    NoKey,        \* enqueued without a key
    Exits,        \* exit kinds
    NoExit,       \* exit_kind = None
    Kinds,        \* work kinds
    Kind,         \* Kind[w]: the kind w is enqueued with
    Priority,     \* Priority[w]: the priority w is enqueued with
    NoUnit,       \* the unit file holds no row
    Contracts,    \* the unit contracts an operator may define
    Switches,     \* the unit statuses an operator may set
    MaxAttempts,  \* largest max_attempts asked for
    LeaseTicks,   \* ticks a claim or a heartbeat lasts
    MaxToken,     \* bound: no dead letter is revived past this claim token
    MaxCallers,   \* bound: callers at once before the lock
    MaxAppends,   \* bound: callers at once after it, with an event to append
    MaxEditors,   \* bound: operators rewriting the contract at once
    MaxCrashes    \* bound: how many callers die halfway

UnitStatus == {"active", "paused", "retired"}

Contract ==
    [kinds: SUBSET Kinds, exits: SUBSET Exits, governed: SUBSET Exits,
     workers: SUBSET Roles, status: UnitStatus]

ASSUME NamesAssumption ==
    /\ NoActor \notin Actors
    /\ NoKey \notin Keys
    /\ NoExit \notin Exits
    /\ NoUnit \notin Contract
ASSUME ContractsAssumption ==
    /\ Contracts # {} /\ Contracts \subseteq Contract
    /\ Switches \subseteq UnitStatus
ASSUME RowsAssumption == Kind \in [Works -> Kinds] /\ Priority \in [Works -> Int]
ASSUME BoundsAssumption ==
    /\ MaxAttempts \in Nat \ {0}
    /\ LeaseTicks \in Nat \ {0}
    /\ MaxToken \in Nat
    /\ MaxCallers \in Nat
    /\ MaxAppends \in Nat
    /\ MaxEditors \in Nat
    /\ MaxCrashes \in Nat

VARIABLES
    items,    \* items[w]: the row of w
    rows,     \* number of rows in the file
    unit,     \* the contract in force, or NoUnit while its file is empty
    agreed,   \* history: the contract the last completed definition wrote
    edits,    \* contract rewrites under way
    admitted, \* enqueues that have passed the contract check
    issued,   \* history: every (work, actor, token) a claim has handed out
    ratify,   \* history: works completed on an exit then governed
    unsent,   \* events of committed changes whose append is still to come
    emitted,  \* kernel events appended so far
    lost      \* events that were never appended, for their callers died halfway

unitVars == <<unit, agreed, edits>>
logVars  == <<unsent, emitted, lost>>

vars == <<items, rows, admitted, issued, ratify, unitVars, logVars>>

Terminal == {"done", "failed", "retired", "dead_letter"}
Claimed  == {"claimed", "running"}
Status   == {"absent", "queued"} \cup Claimed \cup Terminal

Row ==
    [status: Status, key: Keys \cup {NoKey}, pos: Nat,
     attempts: Nat, max: 1..MaxAttempts, actor: Actors \cup {NoActor},
     token: Nat, left: 0..LeaseTicks, exit: Exits \cup {NoExit}]

Verbs ==
    {"enqueued", "claimed", "started", "heartbeat", "completed",
     "failed_retry", "failed", "dead_lettered", "retired", "requeued"}

\* What identifies an event: idempotency_key = "<verb>:<work_id>:<claim_token>".
EventKey == [verb: Verbs, work: Works, token: Nat]
Event    == [key: EventKey, governed: BOOLEAN]
Ticket   == [work: Works, actor: Actors, token: Nat]
Request  == [work: Works, key: Keys \cup {NoKey}, max: 1..MaxAttempts]
Edit     == [row: Contract, statusOnly: BOOLEAN, opened: BOOLEAN]

TypeOK ==
    /\ items \in [Works -> Row]
    /\ rows \in Nat
    /\ unit \in Contract \cup {NoUnit}
    /\ agreed \in Contract
    /\ edits \subseteq Edit
    /\ admitted \subseteq Request
    /\ issued \subseteq Ticket
    /\ ratify \subseteq Works
    /\ unsent \subseteq EventKey
    /\ emitted \subseteq Event
    /\ lost \subseteq EventKey

NoRow ==
    [status |-> "absent", key |-> NoKey, pos |-> 0, attempts |-> 0, max |-> 1,
     actor |-> NoActor, token |-> 0, left |-> 0, exit |-> NoExit]

Init ==
    /\ items = [w \in Works |-> NoRow]
    /\ rows = 0
    /\ unit \in Contracts
    /\ agreed = unit
    /\ edits = {}
    /\ admitted = {}
    /\ issued = {}
    /\ ratify = {}
    /\ unsent = {}
    /\ emitted = {}
    /\ lost = {}

-----------------------------------------------------------------------------
(* Reading a row                                                           *)

\* Mutant: a claim may be taken over while its lease still runs.
IsClaimStale_LeaseIgnored(w) == items[w].status \in Claimed

IsClaimStale(w) == items[w].status \in Claimed /\ items[w].left = 0

IsClaimable(w) == items[w].status = "queued" \/ IsClaimStale(w)

UnitIsActive == unit # NoUnit /\ unit.status = "active"

AllowsWorkerRole(r) == unit.workers = {} \/ r \in unit.workers

\* Mutant: the attempts budget is left to fail_work_item.
CanClaim_NoBudget(w, r) == IsClaimable(w) /\ UnitIsActive /\ AllowsWorkerRole(r)

CanClaim(w, r) ==
    /\ IsClaimable(w)
    /\ UnitIsActive
    /\ AllowsWorkerRole(r)
    /\ items[w].attempts < items[w].max

\* Mutant: the holder's name is taken for proof, its token is not compared.
RequireLiveClaim_NoToken(w, a, t) ==
    items[w].status \in Claimed /\ items[w].actor = a /\ items[w].left > 0

\* _require_live_claim: caller a, presenting token t, still holds w.
RequireLiveClaim(w, a, t) ==
    /\ items[w].status \in Claimed
    /\ items[w].actor = a
    /\ items[w].token = t
    /\ items[w].left > 0

\* Queue order: priority first, then age; pos is the order of creation.
Before(v, w) ==
    \/ Priority[v] > Priority[w]
    \/ Priority[v] = Priority[w] /\ items[v].pos < items[w].pos

\* _mutate: one row is rewritten under the lock, its event left to _emit.
Mutate(w, row, verb) ==
    /\ Cardinality(unsent) < MaxAppends
    /\ items' = [items EXCEPT ![w] = row]
    /\ unsent' = unsent \cup {[verb |-> verb, work |-> w, token |-> row.token]}
    /\ UNCHANGED <<emitted, lost, unitVars>>

-----------------------------------------------------------------------------
(* Queue operations                                                        *)

\* enqueue_work_item, before the lock: the contract accepts the work now.
Admit(w, k, m) ==
    /\ Cardinality(admitted) < MaxCallers
    /\ items[w].status = "absent"
    /\ \A q \in admitted : q.work # w
    /\ UnitIsActive
    /\ Kind[w] \in unit.kinds
    /\ admitted' = admitted \cup {[work |-> w, key |-> k, max |-> m]}
    /\ UNCHANGED <<items, rows, issued, ratify, unitVars, logVars>>

KeyTaken(k) == k # NoKey /\ \E v \in Works : items[v].key = k

\* Mutant: the key was looked up before the lock, and is not looked up again.
Enqueue_KeyNotRechecked(q) ==
    /\ q \in admitted
    /\ rows' = rows + 1
    /\ Mutate(q.work, [NoRow EXCEPT !.status = "queued", !.key = q.key,
                                    !.max = q.max, !.pos = rows + 1], "enqueued")
    /\ admitted' = admitted \ {q}
    /\ UNCHANGED <<issued, ratify>>

\* enqueue_work_item, under the lock: a new row ...
Enqueue(q) ==
    /\ q \in admitted
    /\ ~KeyTaken(q.key)
    /\ rows' = rows + 1
    /\ Mutate(q.work, [NoRow EXCEPT !.status = "queued", !.key = q.key,
                                    !.max = q.max, !.pos = rows + 1], "enqueued")
    /\ admitted' = admitted \ {q}
    /\ UNCHANGED <<issued, ratify>>

\* ... or the row that already has the key, returned as it is.
EnqueueAgain(q) ==
    /\ q \in admitted
    /\ KeyTaken(q.key)
    /\ admitted' = admitted \ {q}
    /\ UNCHANGED <<items, rows, issued, ratify, unitVars, logVars>>

\* Mutant: the attempt number doubles as the fencing token.
ApplyClaim_AttemptAsToken(w, a) ==
    LET token == items[w].attempts + 1 IN
    /\ Mutate(w, [items[w] EXCEPT !.status = "claimed", !.actor = a,
                                  !.attempts = @ + 1, !.token = token,
                                  !.left = LeaseTicks], "claimed")
    /\ issued' = issued \cup {[work |-> w, actor |-> a, token |-> token]}
    /\ UNCHANGED <<rows, admitted, ratify>>

ApplyClaim(w, a) ==
    LET token == items[w].token + 1 IN
    /\ Mutate(w, [items[w] EXCEPT !.status = "claimed", !.actor = a,
                                  !.attempts = @ + 1, !.token = token,
                                  !.left = LeaseTicks], "claimed")
    /\ issued' = issued \cup {[work |-> w, actor |-> a, token |-> token]}
    /\ UNCHANGED <<rows, admitted, ratify>>

ClaimWorkItem(w, a, r) == CanClaim(w, r) /\ ApplyClaim(w, a)

\* ks: the kinds asked for, all of them when the caller names none.
ClaimNextWorkItem(a, r, ks) ==
    \E w \in Works :
        /\ CanClaim(w, r) /\ Kind[w] \in ks
        /\ \A v \in Works : CanClaim(v, r) /\ Kind[v] \in ks => ~Before(v, w)
        /\ ApplyClaim(w, a)

StartWorkItem(w, a, t) ==
    /\ RequireLiveClaim(w, a, t)
    /\ Mutate(w, [items[w] EXCEPT !.status = "running"], "started")
    /\ UNCHANGED <<rows, admitted, issued, ratify>>

HeartbeatWorkItem(w, a, t) ==
    /\ RequireLiveClaim(w, a, t)
    /\ Mutate(w, [items[w] EXCEPT !.left = LeaseTicks], "heartbeat")
    /\ UNCHANGED <<rows, admitted, issued, ratify>>

\* The holder is kept on a completed row; the exit must be in the contract
\* that is in force now, whichever it was when the work was claimed.
CompleteWorkItem(w, a, t, e) ==
    /\ RequireLiveClaim(w, a, t)
    /\ unit # NoUnit /\ e \in unit.exits
    /\ Mutate(w, [items[w] EXCEPT !.status = "done", !.exit = e, !.left = 0],
              "completed")
    /\ ratify' = IF e \in unit.governed THEN ratify \cup {w} ELSE ratify
    /\ UNCHANGED <<rows, admitted, issued>>

\* The status a failure leads to, and the verb that announces it.
FailStatus(w, retryable) ==
    IF ~retryable THEN "failed"
    ELSE IF items[w].attempts >= items[w].max THEN "dead_letter" ELSE "queued"

\* Mutant: the last failure is announced as one more retry.
FailVerb_AlwaysRetry ==
    [queued |-> "failed_retry", failed |-> "failed_retry", dead_letter |-> "dead_lettered"]

FailVerb ==
    [queued |-> "failed_retry", failed |-> "failed", dead_letter |-> "dead_lettered"]

FailWorkItem(w, a, t, retryable) ==
    LET next == FailStatus(w, retryable) IN
    /\ RequireLiveClaim(w, a, t)
    /\ Mutate(w, [items[w] EXCEPT !.status = next, !.actor = NoActor, !.left = 0],
              FailVerb[next])
    /\ UNCHANGED <<rows, admitted, issued, ratify>>

\* Mutant: retiring is allowed whatever the row has become.
RetireWorkItem_AnyStatus(w) ==
    /\ items[w].status # "absent"
    /\ Mutate(w, [items[w] EXCEPT !.status = "retired", !.actor = NoActor, !.left = 0],
              "retired")
    /\ UNCHANGED <<rows, admitted, issued, ratify>>

\* No claim is asked for: an operator may retire a row somebody holds.
RetireWorkItem(w) ==
    /\ items[w].status \notin Terminal \cup {"absent"}
    /\ Mutate(w, [items[w] EXCEPT !.status = "retired", !.actor = NoActor, !.left = 0],
              "retired")
    /\ UNCHANGED <<rows, admitted, issued, ratify>>

\* Mutant: a requeued row starts over, claim token included.
RequeueDeadLetter_ResetsToken(w, reset) ==
    /\ items[w].status = "dead_letter"
    /\ reset => items[w].token + items[w].max <= MaxToken
    /\ Mutate(w, [items[w] EXCEPT !.status = "queued", !.token = IF reset THEN 0 ELSE @,
                                  !.attempts = IF reset THEN 0 ELSE @], "requeued")
    /\ UNCHANGED <<rows, admitted, issued, ratify>>

\* Bound: a reset is taken only while its attempts stay within MaxToken.
RequeueDeadLetter(w, reset) ==
    /\ items[w].status = "dead_letter"
    /\ reset => items[w].token + items[w].max <= MaxToken
    /\ Mutate(w, [items[w] EXCEPT !.status = "queued",
                                  !.attempts = IF reset THEN 0 ELSE @], "requeued")
    /\ UNCHANGED <<rows, admitted, issued, ratify>>

-----------------------------------------------------------------------------
(* After the lock, and around the queue                                    *)

\* _emit.  complete_work_item reads the unit again, after the lock, to say
\* whether the exit still needs governance; an empty file says no.
Emit(n) ==
    /\ n \in unsent
    /\ unsent' = unsent \ {n}
    /\ emitted' = emitted \cup
         {[key |-> n, governed |-> /\ n.verb = "completed"
                                   /\ unit # NoUnit
                                   /\ items[n.work].exit \in unit.governed]}
    /\ UNCHANGED <<items, rows, admitted, issued, ratify, lost, unitVars>>

\* The caller dies between the rewrite of the file and the append.
CrashBeforeEmit(n) ==
    /\ n \in unsent
    /\ Cardinality(lost) < MaxCrashes
    /\ unsent' = unsent \ {n}
    /\ lost' = lost \cup {n}
    /\ UNCHANGED <<items, rows, admitted, issued, ratify, emitted, unitVars>>

BeginEdit(c, statusOnly) ==
    /\ Cardinality(edits) < MaxEditors
    /\ edits' = edits \cup {[row |-> c, statusOnly |-> statusOnly, opened |-> FALSE]}
    /\ UNCHANGED <<items, rows, admitted, issued, ratify, unit, agreed, logVars>>

\* Both operations read the file, change the unit's row in memory and write
\* the file back; the status setter keeps the contract it has read.
DefineOperatingUnit(c) == BeginEdit(c, FALSE)

SetOperatingUnitStatus(s) ==
    unit # NoUnit /\ BeginEdit([unit EXCEPT !.status = s], TRUE)

\* _write_jsonl opens the file with "w", which empties it, ...
OpenUnitFile(e) ==
    /\ e \in edits /\ ~e.opened
    /\ edits' = (edits \ {e}) \cup {[e EXCEPT !.opened = TRUE]}
    /\ unit' = NoUnit
    /\ UNCHANGED <<items, rows, admitted, issued, ratify, agreed, logVars>>

\* ... and the row reaches it when the file is closed.
WriteUnitFile(e) ==
    /\ e \in edits /\ e.opened
    /\ edits' = edits \ {e}
    /\ unit' = e.row
    /\ agreed' = IF e.statusOnly THEN agreed ELSE e.row
    /\ UNCHANGED <<items, rows, admitted, issued, ratify, logVars>>

Tick ==
    /\ \E w \in Works : items[w].left > 0
    /\ items' = [w \in Works |->
         [items[w] EXCEPT !.left = IF @ > 0 THEN @ - 1 ELSE 0]]
    /\ UNCHANGED <<rows, admitted, issued, ratify, unitVars, logVars>>

\* A call made with any token ever handed out for w, by any caller: requests
\* that are late, repeated, or sent by the wrong worker included.
HolderCall(w, a, t) ==
    \/ StartWorkItem(w, a, t)
    \/ HeartbeatWorkItem(w, a, t)
    \/ \E e \in Exits : CompleteWorkItem(w, a, t, e)
    \/ \E retryable \in BOOLEAN : FailWorkItem(w, a, t, retryable)

OperatorCall(w) ==
    \/ RetireWorkItem(w)
    \/ \E reset \in BOOLEAN : RequeueDeadLetter(w, reset)

Next ==
    \/ \E w \in Works, k \in Keys \cup {NoKey}, m \in 1..MaxAttempts : Admit(w, k, m)
    \/ \E q \in admitted : Enqueue(q) \/ EnqueueAgain(q)
    \/ \E w \in Works, a \in Actors, r \in Roles : ClaimWorkItem(w, a, r)
    \/ \E a \in Actors, r \in Roles :
        ClaimNextWorkItem(a, r, Kinds) \/ \E k \in Kinds : ClaimNextWorkItem(a, r, {k})
    \/ \E tk \in issued, a \in Actors : HolderCall(tk.work, a, tk.token)
    \/ \E w \in Works : OperatorCall(w)
    \/ \E n \in unsent : Emit(n) \/ CrashBeforeEmit(n)
    \/ \E c \in Contracts : DefineOperatingUnit(c)
    \/ \E s \in Switches : SetOperatingUnitStatus(s)
    \/ \E e \in edits : OpenUnitFile(e) \/ WriteUnitFile(e)
    \/ Tick

Spec == Init /\ [][Next]_vars

\* Claims stop at the larger of the two bounds, so these are all the keys of
\* the events that close a row.
ClosingKey == [verb: {"completed", "failed", "retired"}, work: Works, token: 0..(MaxToken + MaxAttempts)]

\* Every call that has closed a row goes on to append its event.
LiveSpec == Spec /\ \A n \in ClosingKey : WF_vars(Emit(n))

-----------------------------------------------------------------------------
(* Safety                                                                  *)

\* A claim token is handed out once in the life of a row, across expiries,
\* retries, dead letters and requeues (claim_token is never reset).
TokenIssuedOnce ==
    \A t1, t2 \in issued : t1.work = t2.work /\ t1.token = t2.token => t1 = t2

\* Once a row has been claimed again, no call with an earlier ticket passes
\* _require_live_claim: a worker whose lease lapsed cannot finish the work.
OnlyNewestTicketAccepted ==
    \A tk \in issued :
        RequireLiveClaim(tk.work, tk.actor, tk.token) =>
            \A other \in issued : other.work = tk.work => other.token <= tk.token

\* Claims never exceed the budget of attempts, a row in a worker's hands has
\* used one, and a row is dead-lettered only when the whole budget is spent.
AttemptsWithinBudget ==
    \A w \in Works :
        /\ items[w].attempts <= items[w].max
        /\ items[w].status \in Claimed => items[w].attempts > 0
        /\ items[w].status = "dead_letter" => items[w].attempts = items[w].max

\* A retried enqueue never adds a second row under its idempotency key.
OneRowPerKey ==
    \A v, w \in Works : items[v].key = items[w].key /\ items[v].key # NoKey => v = w

\* Finished work is final: whatever late or repeated call arrives, a done,
\* failed or retired row keeps every field, and a dead letter only returns to
\* the queue with nobody holding it.  Work becomes done only on a live claim
\* and on an exit of the contract in force at that moment.
ClosedRowsStayClosed ==
    [][\A w \in Works :
        /\ items[w].status \in {"done", "failed", "retired"} => items'[w] = items[w]
        /\ items[w].status = "dead_letter" =>
             \/ items'[w] = items[w]
             \/ items'[w].status = "queued" /\ items'[w].actor = NoActor
        /\ items[w].status # "done" /\ items'[w].status = "done" =>
             items[w].left > 0 /\ items'[w].exit \in unit.exits]_vars

Announced(n) == n \in unsent \/ \E ev \in emitted : ev.key = n

\* Each change of a row's status or token leaves an event to append whose
\* idempotency key no earlier event of the queue has used, so a consumer that
\* drops repeated keys drops no transition.
FreshAnnouncement ==
    [][\A w \in Works :
        items'[w].status # items[w].status \/ items'[w].token # items[w].token =>
            \E n \in unsent' : n.work = w /\ ~Announced(n)]_vars

(* Liveness                                                                *)

\* Work that is done, failed or retired is announced as such: the event of that
\* very outcome reaches the log, whatever other callers do or die of.  Only the
\* death of the caller that has just closed the row loses its event.
ClosedWorkIsAnnounced ==
    \A w \in Works :
        \A outcome \in {<<"done", "completed">>, <<"failed", "failed">>, <<"retired", "retired">>} :
            items[w].status = outcome[1] ~>
                \E n \in {ev.key : ev \in emitted} \cup lost : n.work = w /\ n.verb = outcome[2]

(* Refinement                                                              *)

StageOf(status) ==
    CASE status = "absent" -> "none"
      [] status = "queued" -> "open"
      [] status \in Claimed -> "held"
      [] OTHER -> "closed"

Task == INSTANCE FencedTask WITH
    stage  <- [w \in Works |-> StageOf(items[w].status)],
    epoch  <- [w \in Works |-> items[w].token],
    holder <- [w \in Works |->
                 IF items[w].status \in Claimed THEN items[w].actor ELSE NoActor],
    live   <- [w \in Works |-> items[w].left > 0]

\* Seen from outside, the queue is a set of fenced tasks.
ImplementsFencedTask == Task!Spec

-----------------------------------------------------------------------------
(* What the documents say and the code does not do                         *)

\* work_items.py:82, "A claimed or running item whose lease has expired is
\* reclaimable": by some role, whenever the unit is active.
ExpiredClaimIsReclaimable ==
    \A w \in Works :
        IsClaimStale(w) /\ UnitIsActive /\ (\E r \in Roles : AllowsWorkerRole(r))
            => \E r \in Roles : CanClaim(w, r)

\* docs/protocols/work-items.md:141, "A queued item [...] is claimable".
QueuedIsClaimable ==
    \A w \in Works :
        /\ items[w].status = "queued"
        /\ UnitIsActive
        /\ \E r \in Roles : AllowsWorkerRole(r)
        => \E r \in Roles : CanClaim(w, r)

\* docs/protocols/work-items.md, "emit a KernelEvent for every transition":
\* finished work has its completion event, or a caller still about to write it.
DoneIsAnnounced ==
    \A w \in Works :
        items[w].status = "done" =>
            Announced([verb |-> "completed", work |-> w, token |-> items[w].token])

\* work_items.py:614, "the tenant's governance worker still has to ratify it
\* before it counts as value.  Surface that explicitly": work completed on an
\* exit its contract governs is announced with the flag.
GovernedExitIsFlagged ==
    \A ev \in emitted : ev.key.verb = "completed" /\ ev.key.work \in ratify => ev.governed

\* operating_units.py:354, "Pause, reactivate, or retire a unit without
\* rewriting its contract": whatever statuses are set meanwhile, the terms of
\* the last definition stand.
LastDefinitionStands ==
    unit # NoUnit => unit = [agreed EXCEPT !.status = unit.status]
=============================================================================
