---------------------------- MODULE OutboxRelay ----------------------------
(***************************************************************************)
(* The relay of MCP calls (role_extensions/mcp_bridge).  Roles append      *)
(* requests to the transition log; a relay's tick reads the log once, then *)
(* sends each request it found unanswered to a server outside and appends  *)
(* the answer.  Relays share the log and nothing else: what a relay has    *)
(* read, its cache of keys and its capabilities are in its memory.         *)
(***************************************************************************)
EXTENDS KernelBase

CONSTANTS
    Relays,        \* processes that run dispatch_pending
    Requests,      \* mcp_call_requested rows that may be appended
    Roles,         \* roles that capabilities are granted to
    RoleOf,        \* RoleOf[r]: the requesting role, or None
    KeyOf,         \* KeyOf[r]: the request's idempotency key
    MandateRoles,  \* roles whose yaml grants the capability
    MaxDispatches, \* dispatch_pending's cap on rows per tick
    MaxRelayDeaths \* bound: relays that die

ASSUME RelayAssumption ==
    /\ IsFiniteSet(Relays)
    /\ \A r \in Requests : RoleOf[r] \in Roles \cup {None}
    /\ Requests \subseteq DOMAIN KeyOf
    /\ MandateRoles \subseteq Roles
    /\ MaxDispatches \in Nat \ {0} /\ MaxRelayDeaths \in Nat

\* The value for "nothing there" is none of the things that may be there.
ASSUME RelayValuesAssumption == None \notin {"scan", "record"} /\ None \notin Requests

Key == {KeyOf[r] : r \in Requests}

VARIABLES
    asked,    \* the log's mcp_call_requested rows, in order
    answers,  \* the log's mcp_call_dispatched and mcp_call_failed rows, in order
    tick,     \* tick[p]: relay p's run of dispatch_pending
    cache,    \* cache[p]: _DEDUP_CACHE
    caps,     \* caps[p]: roles with a capability in _REGISTRY
    executed, \* at the servers: how often the call with a key was carried out
    lost,     \* history: how often a key was sent without a response
    relayDeaths

relayVars == <<asked, answers, tick, cache, caps, executed, lost, relayDeaths>>

\* view, answered: the rows this tick knows; req: the request in hand.
Tick == [at : {"scan", "record"}, view : Seq(Requests), answered : SUBSET Requests,
         left : 0 .. MaxDispatches, req : Requests \cup {None}, ok : BOOLEAN]
NoTick == [at |-> None, view |-> <<>>, answered |-> {}, left |-> 0, req |-> None, ok |-> FALSE]
Answer == [req : Requests, ok : BOOLEAN]

RelayTypeOK ==
    /\ asked \in Seq(Requests)
    /\ answers \in Seq(Answer)
    /\ tick \in [Relays -> Tick \cup {NoTick}]
    /\ cache \in [Relays -> SUBSET Key]
    /\ caps \in [Relays -> SUBSET Roles]
    /\ executed \in [Key -> Nat]
    /\ lost \in [Key -> Nat]
    /\ relayDeaths \in 0 .. MaxRelayDeaths

RelayInit ==
    /\ asked = <<>>
    /\ answers = <<>>
    /\ tick = [p \in Relays |-> NoTick]
    /\ cache = [p \in Relays |-> {}]
    /\ caps = [p \in Relays |-> MandateRoles]
    /\ executed = [k \in Key |-> 0]
    /\ lost = [k \in Key |-> 0]
    /\ relayDeaths = 0

-----------------------------------------------------------------------------
Answered == {answers[i].req : i \in DOMAIN answers}

\* pending_count counts these.
Pending == {asked[i] : i \in DOMAIN asked} \ Answered

\* A role appends a request.
RequestCall(r) ==
    /\ \A i \in DOMAIN asked : asked[i] # r
    /\ asked' = Append(asked, r)
    /\ UNCHANGED <<answers, tick, cache, caps, executed, lost, relayDeaths>>

\* dispatch_pending reads the log, once.
StartTick(p) ==
    /\ tick[p] = NoTick
    /\ Pending # {}
    /\ tick' = [tick EXCEPT ![p] =
         [at |-> "scan", view |-> asked, answered |-> Answered, left |-> MaxDispatches,
          req |-> None, ok |-> FALSE]]
    /\ UNCHANGED <<asked, answers, cache, caps, executed, lost, relayDeaths>>

\* The first row in what the tick has read that has no answer there.
InHand(p, r) ==
    /\ tick[p].at = "scan"
    /\ tick[p].left > 0
    /\ \E i \in DOMAIN tick[p].view :
        /\ tick[p].view[i] = r
        /\ r \notin tick[p].answered
        /\ \A j \in 1 .. i - 1 : tick[p].view[j] \in tick[p].answered

\* _emit_followup, and log.append of what it returns.
EmitFollowup(p, r, ok) ==
    /\ answers' = Append(answers, [req |-> r, ok |-> ok])
    /\ tick' = [tick EXCEPT ![p].at = "scan", ![p].answered = @ \cup {r}, ![p].left = @ - 1,
                            ![p].req = None, ![p].ok = FALSE]

\* The key is in the cache: answered as failed, without a call.
RefuseCached(p, r) ==
    /\ InHand(p, r)
    /\ KeyOf[r] \in cache[p]
    /\ EmitFollowup(p, r, FALSE)
    /\ UNCHANGED <<asked, cache, caps, executed, lost, relayDeaths>>

\* is_dispatch_authorized
Authorized(p, r) == RoleOf[r] = None \/ RoleOf[r] \in caps[p]

\* Mutant: a request that may not be sent is passed over.
RefuseUnauthorized_Silent(p, r) ==
    /\ InHand(p, r)
    /\ KeyOf[r] \notin cache[p]
    /\ ~Authorized(p, r)
    /\ tick' = [tick EXCEPT ![p].answered = @ \cup {r}, ![p].left = @ - 1]
    /\ UNCHANGED <<asked, answers, cache, caps, executed, lost, relayDeaths>>

RefuseUnauthorized(p, r) ==
    /\ InHand(p, r)
    /\ KeyOf[r] \notin cache[p]
    /\ ~Authorized(p, r)
    /\ EmitFollowup(p, r, FALSE)
    /\ UNCHANGED <<asked, cache, caps, executed, lost, relayDeaths>>

\* Mutant: the key is not put into the cache.
Send_Uncached(p, r, answered, accepted, done) ==
    /\ InHand(p, r)
    /\ KeyOf[r] \notin cache[p]
    /\ Authorized(p, r)
    /\ (answered /\ accepted) => done
    /\ executed' = IF done THEN [executed EXCEPT ![KeyOf[r]] = @ + 1] ELSE executed
    /\ lost' = IF answered THEN lost ELSE [lost EXCEPT ![KeyOf[r]] = @ + 1]
    /\ tick' = [tick EXCEPT ![p].at = "record", ![p].req = r, ![p].ok = answered /\ accepted]
    /\ UNCHANGED <<asked, answers, caps, cache, relayDeaths>>

\* The call.  A response is accepted only if its projection finds the call
\* carried out; without a response (a timeout, an exit code) the call may have
\* been carried out all the same, and the key is not cached.
Send(p, r, answered, accepted, done) ==
    /\ InHand(p, r)
    /\ KeyOf[r] \notin cache[p]
    /\ Authorized(p, r)
    /\ (answered /\ accepted) => done
    /\ executed' = IF done THEN [executed EXCEPT ![KeyOf[r]] = @ + 1] ELSE executed
    /\ lost' = IF answered THEN lost ELSE [lost EXCEPT ![KeyOf[r]] = @ + 1]
    /\ cache' = IF answered THEN [cache EXCEPT ![p] = @ \cup {KeyOf[r]}] ELSE cache
    /\ tick' = [tick EXCEPT ![p].at = "record", ![p].req = r, ![p].ok = answered /\ accepted]
    /\ UNCHANGED <<asked, answers, caps, relayDeaths>>

Record(p) ==
    /\ tick[p].at = "record"
    /\ EmitFollowup(p, tick[p].req, tick[p].ok)
    /\ UNCHANGED <<asked, cache, caps, executed, lost, relayDeaths>>

EndTick(p) ==
    /\ tick[p].at = "scan"
    /\ \A r \in Requests : ~InHand(p, r)
    /\ tick' = [tick EXCEPT ![p] = NoTick]
    /\ UNCHANGED <<asked, answers, cache, caps, executed, lost, relayDeaths>>

\* grant_capability at the start of a task, revoke_task_capabilities at its end.
GrantCapability(p, role) ==
    /\ role \notin caps[p]
    /\ caps' = [caps EXCEPT ![p] = @ \cup {role}]
    /\ UNCHANGED <<asked, answers, tick, cache, executed, lost, relayDeaths>>

RevokeTaskCapabilities(p, role) ==
    /\ role \in caps[p] \ MandateRoles
    /\ caps' = [caps EXCEPT ![p] = @ \ {role}]
    /\ UNCHANGED <<asked, answers, tick, cache, executed, lost, relayDeaths>>

\* Its memory is gone; the next process loads the mandates' capabilities.
RelayDies(p) ==
    /\ relayDeaths < MaxRelayDeaths
    /\ relayDeaths' = relayDeaths + 1
    /\ tick' = [tick EXCEPT ![p] = NoTick]
    /\ cache' = [cache EXCEPT ![p] = {}]
    /\ caps' = [caps EXCEPT ![p] = MandateRoles]
    /\ UNCHANGED <<asked, answers, executed, lost>>

TickStep(p) ==
    \/ StartTick(p)
    \/ \E r \in Requests :
        \/ RefuseCached(p, r)
        \/ RefuseUnauthorized(p, r)
        \/ \E answered, accepted, done \in BOOLEAN : Send(p, r, answered, accepted, done)
    \/ Record(p)
    \/ EndTick(p)

RelayNext ==
    \/ \E r \in Requests : RequestCall(r)
    \/ \E p \in Relays :
        \/ TickStep(p)
        \/ \E role \in Roles : GrantCapability(p, role) \/ RevokeTaskCapabilities(p, role)
        \/ RelayDies(p)

RelaySpec == RelayInit /\ [][RelayNext]_relayVars

\* The daemon runs the relay's tick again and again.
RelayFairness == \A p \in Relays : WF_relayVars(TickStep(p))

-----------------------------------------------------------------------------
(* Safety                                                                  *)

\* A request is recorded as dispatched only if its call, or that of a request
\* with the same key, was carried out at the server.
DispatchedIsDone ==
    \A i \in DOMAIN answers : answers[i].ok => executed[KeyOf[answers[i].req]] > 0

\* However relays overlap or die, a request has at most one answer per relay.
AnswersAreBounded ==
    \A r \in Requests :
        Cardinality({i \in DOMAIN answers : answers[i].req = r}) <= Cardinality(Relays)

\* What is carried out more than once was sent without a response, or by
\* several relays, or by one that died: never by a relay that had a response.
DoubleWritesAreBounded ==
    \A k \in Key : executed[k] <= Cardinality(Relays) + relayDeaths + lost[k]

\* outbox_relay.py:52-54: a call is not carried out twice for the retry of a
\* dispatch that died, even if the server ignores the key.
NoDoubleWrite == \A k \in Key : executed[k] <= 1

\* A request has one answer.
OneAnswer == \A i, j \in DOMAIN answers : answers[i].req = answers[j].req => i = j

(* Liveness                                                                *)

\* Every request is answered, however long the backlog, if relays stop dying.
EveryRequestIsAnswered == \A r \in Requests : (r \in Pending) ~> (r \in Answered)
=============================================================================
