----------------------------- MODULE LeaseStore -----------------------------
(***************************************************************************)
(* Leases over mutable resources and the writes they protect: the JSONL    *)
(* store of orchestration/leases.py, the transactional one of              *)
(* orchestration/state_backends.py, and the two ways kernel_service.py     *)
(* writes under a lease.                                                   *)
(*                                                                         *)
(* The JSONL store locks acquire and release against each other; its       *)
(* readers take no lock, and a release empties the file before it writes   *)
(* it again.  A transactional backend makes each operation one step.  Most *)
(* routes verify the lease first and write afterwards (two steps);         *)
(* /kernel/mutation-events verifies and writes in one transaction.         *)
(***************************************************************************)
EXTENDS Integers, Sequences, FiniteSets, FiniteSetsExt

CONSTANTS
    Resources,      \* resource_ref values
    Actors,         \* callers
    NoActor,        \* nobody (for the abstract view)
    Ids,            \* lease ids that may come to exist
    NoId,           \* no lease id in the request, or no release under way
    NoToken,        \* no fencing token in the request
    Backend,        \* "jsonl" or "transactional"
    Routes,         \* which ways of writing callers use: "preflight", "guarded"
    RequireLeases,  \* --require-leases
    LeaseTicks,     \* ticks a lease lasts
    MaxCallers,     \* bound: verified requests that have yet to write
    MaxWrites,      \* bound: writes per resource
    MaxCrashes      \* bound: releases that die halfway

ASSUME StoreAssumption ==
    /\ Resources # {}
    /\ NoActor \notin Actors /\ NoId \notin Ids /\ NoToken \notin Nat
    /\ Backend \in {"jsonl", "transactional"}
    /\ Routes \subseteq {"preflight", "guarded"}
    /\ RequireLeases \in BOOLEAN
    /\ LeaseTicks \in Nat \ {0} /\ MaxCallers \in Nat
    /\ MaxWrites \in Nat /\ MaxCrashes \in Nat

VARIABLES
    leases,     \* leases[i]: the row of lease i
    releasing,  \* the lease whose release has emptied the file, or NoId
    granted,    \* history: (resource, id, actor, token) of every acquire
    cleared,    \* requests whose lease was verified and that have yet to write
    writes,     \* writes[r]: (actor, token) of each write to r, in order
    crashes     \* releases that died halfway

vars == <<leases, releasing, granted, cleared, writes, crashes>>

Row ==
    [state: {"none", "active", "released"}, resource: Resources,
     actor: Actors \cup {NoActor}, token: Nat, left: 0..LeaseTicks]

Grant   == [resource: Resources, id: Ids, actor: Actors, token: Nat]
Request == [resource: Resources, id: Ids \cup {NoId}, actor: Actors, token: Nat]

TypeOK ==
    /\ leases \in [Ids -> Row]
    /\ releasing \in Ids \cup {NoId}
    /\ granted \subseteq Grant
    /\ cleared \subseteq Request
    /\ writes \in [Resources -> Seq([actor: Actors, token: Nat])]
    /\ crashes \in Nat

NoLease ==
    [state |-> "none", resource |-> CHOOSE r \in Resources : TRUE,
     actor |-> NoActor, token |-> 0, left |-> 0]

Init ==
    /\ leases = [i \in Ids |-> NoLease]
    /\ releasing = NoId
    /\ granted = {}
    /\ cleared = {}
    /\ writes = [r \in Resources |-> <<>>]
    /\ crashes = 0

-----------------------------------------------------------------------------
Exists(i) == leases[i].state # "none"

\* Mutant: only a release frees the resource.
Blocks_UntilReleased(i, r) == leases[i].state = "active" /\ leases[i].resource = r

\* An active lease that has not run out keeps others away from r.
Blocks(i, r) ==
    /\ leases[i].state = "active"
    /\ leases[i].resource = r
    /\ leases[i].left > 0

Available(r) == \A i \in Ids : ~Blocks(i, r)

\* Mutant: released rows no longer count towards the next token.
NextToken_ActiveOnly(r) ==
    1 + Max({0} \cup {leases[i].token : i \in {j \in Ids : leases[j].state = "active"
                                                         /\ leases[j].resource = r}})

\* One more than the largest token any row of r carries, whatever its state.
NextToken(r) ==
    1 + Max({0} \cup {leases[i].token : i \in {j \in Ids : Exists(j) /\ leases[j].resource = r}})

\* The exclusive file lock, or the write transaction, is free.
Unlocked == releasing = NoId

\* Mutant: acquire takes no lock and reads what it finds, maybe an empty file.
Acquire_NoLock(i, r, a) ==
    /\ ~Exists(i) /\ \A g \in granted : g.id # i
    /\ Unlocked => Available(r)
    /\ leases' = [leases EXCEPT ![i] =
         [state |-> "active", resource |-> r, actor |-> a,
          token |-> IF Unlocked THEN NextToken(r) ELSE 1, left |-> LeaseTicks]]
    /\ granted' = granted \cup {[resource |-> r, id |-> i, actor |-> a, token |-> leases'[i].token]}
    /\ UNCHANGED <<releasing, cleared, writes, crashes>>

Acquire(i, r, a) ==
    /\ Unlocked
    /\ ~Exists(i) /\ \A g \in granted : g.id # i
    /\ Available(r)
    /\ leases' = [leases EXCEPT ![i] =
         [state |-> "active", resource |-> r, actor |-> a,
          token |-> NextToken(r), left |-> LeaseTicks]]
    /\ granted' = granted \cup {[resource |-> r, id |-> i, actor |-> a, token |-> NextToken(r)]}
    /\ UNCHANGED <<releasing, cleared, writes, crashes>>

\* A lease that is released already stays as it is.
Released(i) == [leases EXCEPT ![i].state = "released"]

MayRelease(i, a) == Unlocked /\ Exists(i) /\ leases[i].actor = a

\* release_lease of a transactional backend.
ReleaseInTransaction(i, a) ==
    /\ Backend = "transactional"
    /\ MayRelease(i, a)
    /\ leases' = Released(i)
    /\ UNCHANGED <<releasing, granted, cleared, writes, crashes>>

\* release_lease of the JSONL store: the file is emptied, ...
BeginRelease(i, a) ==
    /\ Backend = "jsonl"
    /\ MayRelease(i, a)
    /\ releasing' = i
    /\ UNCHANGED <<leases, granted, cleared, writes, crashes>>

\* ... and holds its rows again when it is closed;
EndRelease ==
    /\ releasing # NoId
    /\ leases' = Released(releasing)
    /\ releasing' = NoId
    /\ UNCHANGED <<granted, cleared, writes, crashes>>

\* or the process dies in between, and every row is gone.
CrashRelease ==
    /\ releasing # NoId
    /\ crashes < MaxCrashes
    /\ leases' = [i \in Ids |-> NoLease]
    /\ releasing' = NoId
    /\ crashes' = crashes + 1
    /\ UNCHANGED <<granted, cleared, writes>>

-----------------------------------------------------------------------------
(* Verifying, and writing                                                  *)

\* What a reader that takes no lock finds.
Visible(i, r) == Unlocked /\ Blocks(i, r)

\* Mutant: a lease id is as good as its holder.
Verified_AnyActor(r, i, a, t) ==
    i \in Ids /\ Visible(i, r) /\ t \in {NoToken, leases[i].token}

\* verify_lease (JSONL): the token is compared only when the request has one.
Verified(r, i, a, t) ==
    /\ i \in Ids
    /\ Visible(i, r)
    /\ leases[i].actor = a
    /\ t \in {NoToken, leases[i].token}

\* _verify_mutation_lease.  Without --require-leases the JSONL store accepts a
\* request that names no lease, and a transactional backend is not asked at all.
MayMutate(r, i, a, t) ==
    IF Backend = "jsonl"
    THEN Verified(r, i, a, t) \/ (i = NoId /\ ~RequireLeases)
    ELSE ~RequireLeases \/ (t # NoToken /\ Verified(r, i, a, t))

\* The token a request is fenced by, 0 when it names no lease.
TokenOf(i) == IF i = NoId THEN 0 ELSE leases[i].token

\* A route's preflight ...
Preflight(r, i, a, t) ==
    /\ "preflight" \in Routes
    /\ Cardinality(cleared) < MaxCallers
    /\ MayMutate(r, i, a, t)
    /\ cleared' = cleared \cup {[resource |-> r, id |-> i, actor |-> a, token |-> TokenOf(i)]}
    /\ UNCHANGED <<leases, releasing, granted, writes, crashes>>

Write(r, a, t) ==
    /\ Len(writes[r]) < MaxWrites
    /\ writes' = [writes EXCEPT ![r] = Append(@, [actor |-> a, token |-> t])]

\* ... and the handler's write, which looks at no lease.
ApplyMutation(q) ==
    /\ q \in cleared
    /\ Write(q.resource, q.actor, q.token)
    /\ cleared' = cleared \ {q}
    /\ UNCHANGED <<leases, releasing, granted, crashes>>

\* Mutant: the transaction looks for the lease, whatever its expiry.
GuardedAppend_ExpiredToo(r, i, a, t) ==
    /\ "guarded" \in Routes /\ Backend = "transactional"
    /\ leases[i].state = "active" /\ leases[i].resource = r
    /\ leases[i].actor = a /\ leases[i].token = t
    /\ Write(r, a, t)
    /\ UNCHANGED <<leases, releasing, granted, cleared, crashes>>

\* guarded_append_event: lease, holder, token and write in one transaction.
GuardedAppend(r, i, a, t) ==
    /\ "guarded" \in Routes /\ Backend = "transactional"
    /\ Blocks(i, r)
    /\ leases[i].actor = a /\ leases[i].token = t
    /\ Write(r, a, t)
    /\ UNCHANGED <<leases, releasing, granted, cleared, crashes>>

Tick ==
    /\ \E i \in Ids : leases[i].left > 0
    /\ leases' = [i \in Ids |->
         [leases[i] EXCEPT !.left = IF @ > 0 THEN @ - 1 ELSE 0]]
    /\ UNCHANGED <<releasing, granted, cleared, writes, crashes>>

\* Requests name any lease ever granted, with its token or none.
Next ==
    \/ \E i \in Ids, r \in Resources, a \in Actors : Acquire(i, r, a)
    \/ \E i \in Ids, a \in Actors : ReleaseInTransaction(i, a) \/ BeginRelease(i, a)
    \/ EndRelease
    \/ CrashRelease
    \/ \E g \in granted, a \in Actors, withToken \in BOOLEAN :
        Preflight(g.resource, g.id, a, IF withToken THEN g.token ELSE NoToken)
    \/ \E r \in Resources, a \in Actors : Preflight(r, NoId, a, NoToken)
    \/ \E q \in cleared : ApplyMutation(q)
    \/ \E g \in granted, a \in Actors : GuardedAppend(g.resource, g.id, a, g.token)
    \/ Tick

Spec == Init /\ [][Next]_vars

\* Time does not stop.
LiveSpec == Spec /\ WF_vars(Tick)

-----------------------------------------------------------------------------
(* Safety                                                                  *)

\* A resource has one live lease at most, however requests interleave with
\* the rewrites of the file.
OneLiveLease ==
    \A i, j \in Ids, r \in Resources : Blocks(i, r) /\ Blocks(j, r) => i = j

\* docs/protocols/leases.md:46, "fencing_token increases for each lease on
\* the same resource": no two leases of a resource share a token.
TokensNeverRepeat ==
    \A g, h \in granted : g.resource = h.resource /\ g.token = h.token => g = h

\* The same, of the JSONL store: unless a release has lost the rows.
TokensRepeatOnlyAfterLoss == TokensNeverRepeat \/ crashes > 0

\* Nobody writes under a lease that was not granted to him, however late the
\* write follows its check.
WritesUnderOwnLease ==
    \A r \in Resources : \A n \in DOMAIN writes[r] :
        writes[r][n].token # 0 =>
        \E g \in granted : /\ g.resource = r
                           /\ g.actor = writes[r][n].actor
                           /\ g.token = writes[r][n].token

\* Writes to a resource never go back to an earlier lease.
WritesInTokenOrder ==
    \A r \in Resources : \A m, n \in DOMAIN writes[r] :
        m < n => writes[r][m].token <= writes[r][n].token

\* docs/protocols/leases.md:47, routes "reject a mutation when the token does
\* not match the active lease": no request that names a lease and a token is
\* cleared while that lease is not the live one.
NamedLeaseIsChecked ==
    [][\A q \in cleared' \ cleared : q.id # NoId => Blocks(q.id, q.resource)]_vars

(* Liveness                                                                *)

\* Whoever holds it and whether or not it is released, a resource becomes
\* available again and again.
AlwaysFreedAgain == \A r \in Resources : []<>Available(r)

(* Refinement                                                              *)

Fenced == INSTANCE FencedWrites WITH
    epoch  <- [r \in Resources |-> NextToken(r) - 1],
    holder <- [r \in Resources |->
                 IF Available(r) THEN NoActor
                 ELSE leases[CHOOSE i \in Ids : Blocks(i, r)].actor],
    log    <- [r \in Resources |-> [n \in DOMAIN writes[r] |-> writes[r][n].token]]

\* With a transactional backend and guarded appends only, the store is a log
\* of fenced writes.
ImplementsFencedWrites == Fenced!Spec
=============================================================================
