------------------------- MODULE OutboxRelayProofs -------------------------
(***************************************************************************)
(* Theorems about the relay of MCP calls (OutboxRelay), for any finite     *)
(* number of relays and any number of requests, keys, rows per tick and    *)
(* deaths.                                                                 *)
(***************************************************************************)
EXTENDS OutboxRelay, FiniteSetTheorems, TLAPS

\* A tick that waits for a response has its row in hand, unanswered, and room
\* for the answer.
Working(p) ==
    tick[p].at = "record" =>
          tick[p].req \in Requests /\ tick[p].left > 0 /\ tick[p].req \notin tick[p].answered

RelayTypes == RelayTypeOK /\ \A p \in Relays : Working(p)

LEMMA NoTickIsIdle == NoTick.at \notin {"scan", "record"} /\ NoTick \notin Tick
BY RelayValuesAssumption DEF NoTick, Tick

LEMMA TicksAtWork ==
    ASSUME RelayTypes, NEW p \in Relays, tick[p].at \in {"scan", "record"}
    PROVE  tick[p] \in Tick /\ tick[p] # NoTick
BY NoTickIsIdle DEF RelayTypes, RelayTypeOK

LEMMA KeysOfRequests == \A r \in Requests : KeyOf[r] \in Key
BY DEF Key

-----------------------------------------------------------------------------
(* The steps, by what they do.                                             *)

\* Only the tick of relay p changes.
TickOf(p) ==
    /\ tick' \in [Relays -> Tick \cup {NoTick}]
    /\ \A q \in Relays \ {p} : tick'[q] = tick[q]

LEMMA TickChanges ==
    ASSUME RelayTypes, NEW p \in Relays, NEW t \in Tick \cup {NoTick}, tick' = [tick EXCEPT ![p] = t]
    PROVE  TickOf(p) /\ tick'[p] = t
BY DEF TickOf, RelayTypes, RelayTypeOK

\* An answer is appended by a relay that had not answered the row.
Answering(p, r, ok) ==
    /\ tick[p] # NoTick /\ r \in Requests /\ ok \in BOOLEAN
    /\ r \notin tick[p].answered /\ r \in tick'[p].answered
    /\ \A q \in Requests \ {r} : q \in tick'[p].answered <=> q \in tick[p].answered
    /\ tick'[p] \in Tick /\ tick'[p].at = "scan"
    /\ TickOf(p)
    /\ answers' = Append(answers, [req |-> r, ok |-> ok])
    /\ ok => tick[p].at = "record" /\ tick[p].req = r /\ tick[p].ok
    /\ UNCHANGED <<asked, cache, caps, executed, lost, relayDeaths>>

LEMMA FollowupAnswers ==
    ASSUME RelayTypes, NEW p \in Relays, NEW r \in Requests, NEW ok \in BOOLEAN,
           tick[p].at \in {"scan", "record"}, tick[p].left > 0, r \notin tick[p].answered,
           ok => tick[p].at = "record" /\ tick[p].req = r /\ tick[p].ok,
           EmitFollowup(p, r, ok), UNCHANGED <<asked, cache, caps, executed, lost, relayDeaths>>
    PROVE  Answering(p, r, ok)
<1>1. tick[p] \in Tick /\ tick[p] # NoTick
    BY TicksAtWork
<1> DEFINE t == [tick[p] EXCEPT !.at = "scan", !.answered = @ \cup {r}, !.left = @ - 1,
                                !.req = None, !.ok = FALSE]
<1>2. t \in Tick /\ t.at = "scan" /\ t.answered = tick[p].answered \cup {r}
    <2>1. tick[p].left - 1 \in 0 .. MaxDispatches
        BY <1>1, RelayAssumption DEF Tick
    <2>2. tick[p].answered \cup {r} \in SUBSET Requests
        BY <1>1 DEF Tick
    <2> QED
        BY <1>1, <2>1, <2>2 DEF Tick
<1>3. tick' = [tick EXCEPT ![p] = t]
    BY DEF EmitFollowup
<1> HIDE DEF t
<1>4. tick'[p] = t /\ TickOf(p)
    BY <1>2, <1>3, TickChanges
<1> QED
    BY <1>1, <1>2, <1>4 DEF EmitFollowup, Answering

\* A call is sent by a relay that has no response for its key.
Sending(p, r, answered, done) ==
    /\ tick[p].at = "scan" /\ r \in Requests /\ answered \in BOOLEAN /\ done \in BOOLEAN
    /\ KeyOf[r] \notin cache[p]
    /\ executed' = IF done THEN [executed EXCEPT ![KeyOf[r]] = @ + 1] ELSE executed
    /\ lost' = IF answered THEN lost ELSE [lost EXCEPT ![KeyOf[r]] = @ + 1]
    /\ cache' = IF answered THEN [cache EXCEPT ![p] = @ \cup {KeyOf[r]}] ELSE cache
    /\ tick'[p] \in Tick /\ tick'[p].at = "record" /\ tick'[p].req = r /\ tick'[p].left > 0
    /\ tick'[p].answered = tick[p].answered /\ r \notin tick[p].answered
    /\ tick'[p].ok => done
    /\ TickOf(p)
    /\ UNCHANGED <<asked, answers, caps, relayDeaths>>

LEMMA SendSends ==
    ASSUME RelayTypes, NEW p \in Relays, NEW r \in Requests, NEW answered \in BOOLEAN,
           NEW accepted \in BOOLEAN, NEW done \in BOOLEAN, Send(p, r, answered, accepted, done)
    PROVE  Sending(p, r, answered, done)
<1>1. tick[p].at = "scan" /\ tick[p].left > 0 /\ r \notin tick[p].answered
    BY DEF Send, InHand
<1>2. tick[p] \in Tick
    BY <1>1, TicksAtWork
<1> DEFINE t == [tick[p] EXCEPT !.at = "record", !.req = r, !.ok = answered /\ accepted]
<1>3. /\ t \in Tick /\ t.at = "record" /\ t.req = r /\ t.left = tick[p].left
      /\ t.answered = tick[p].answered /\ t.ok = (answered /\ accepted)
    BY <1>2 DEF Tick
<1>4. tick' = [tick EXCEPT ![p] = t]
    BY DEF Send
<1> HIDE DEF t
<1>5. tick'[p] = t /\ TickOf(p)
    BY <1>3, <1>4, TickChanges
<1>6. tick'[p].ok => done
    BY <1>3, <1>5 DEF Send
<1> QED
    BY <1>1, <1>3, <1>5, <1>6 DEF Send, Sending

\* What is left changes no answer, key or count.
Pausing(p) ==
    /\ tick'[p] = NoTick \/ (tick[p] = NoTick /\ tick'[p] \in Tick /\ tick'[p].at = "scan"
                              /\ tick'[p].answered = Answered)
    /\ TickOf(p)
    /\ UNCHANGED <<asked, answers, executed, lost>>
    /\ \/ UNCHANGED <<cache, caps, relayDeaths>>
       \/ RelayDies(p)

Calm ==
    /\ UNCHANGED <<answers, tick, cache, executed, lost, relayDeaths>>
    /\ asked' \in Seq(Requests) /\ caps' \in [Relays -> SUBSET Roles]

LEMMA RelayStepKinds ==
    ASSUME RelayTypes, [RelayNext]_relayVars
    PROVE  \/ Calm
           \/ \E p \in Relays :
                 \/ Pausing(p)
                 \/ \E r \in Requests, ok \in BOOLEAN : Answering(p, r, ok)
                 \/ \E r \in Requests, answered, done \in BOOLEAN : Sending(p, r, answered, done)
<1>1. CASE UNCHANGED relayVars
    BY <1>1 DEF relayVars, Calm, RelayTypes, RelayTypeOK
<1>2. ASSUME NEW r \in Requests, RequestCall(r)
      PROVE  Calm
    BY <1>2 DEF RequestCall, Calm, RelayTypes, RelayTypeOK
<1>3. ASSUME NEW p \in Relays, NEW role \in Roles, GrantCapability(p, role) \/ RevokeTaskCapabilities(p, role)
      PROVE  Calm
    <2>1. asked \in Seq(Requests) /\ caps \in [Relays -> SUBSET Roles]
        BY DEF RelayTypes, RelayTypeOK
    <2>2. caps' \in [Relays -> SUBSET Roles]
        BY <1>3, <2>1 DEF GrantCapability, RevokeTaskCapabilities
    <2> QED
        BY <1>3, <2>1, <2>2 DEF GrantCapability, RevokeTaskCapabilities, Calm
<1>4. ASSUME NEW p \in Relays, RelayDies(p)
      PROVE  Pausing(p)
    <2>1. tick'[p] = NoTick /\ TickOf(p)
        BY <1>4, TickChanges DEF RelayDies
    <2> QED
        BY <1>4, <2>1 DEF RelayDies, Pausing
<1>5. ASSUME NEW p \in Relays, EndTick(p)
      PROVE  Pausing(p)
    <2>1. tick'[p] = NoTick /\ TickOf(p)
        BY <1>5, TickChanges DEF EndTick
    <2> QED
        BY <1>5, <2>1 DEF EndTick, Pausing
<1>6. ASSUME NEW p \in Relays, StartTick(p)
      PROVE  Pausing(p)
    <2> DEFINE t == [at |-> "scan", view |-> asked, answered |-> Answered, left |-> MaxDispatches,
                     req |-> None, ok |-> FALSE]
    <2>1. Answered \in SUBSET Requests /\ asked \in Seq(Requests)
        <3>1. answers \in Seq(Answer) /\ asked \in Seq(Requests)
            BY DEF RelayTypes, RelayTypeOK
        <3>2. \A i \in DOMAIN answers : answers[i] \in Answer
            BY <3>1
        <3>3. \A i \in DOMAIN answers : answers[i].req \in Requests
            BY <3>2 DEF Answer
        <3> QED
            BY <3>1, <3>3 DEF Answered
    <2>2. t \in Tick /\ t.at = "scan" /\ t.answered = Answered
        BY <2>1, RelayAssumption DEF Tick
    <2>3. tick' = [tick EXCEPT ![p] = t]
        BY <1>6 DEF StartTick
    <2> HIDE DEF t
    <2>4. tick'[p] = t /\ TickOf(p)
        BY <2>2, <2>3, TickChanges
    <2> QED
        BY <1>6, <2>2, <2>4 DEF StartTick, Pausing
<1>7. ASSUME NEW p \in Relays, NEW r \in Requests, RefuseCached(p, r) \/ RefuseUnauthorized(p, r)
      PROVE  Answering(p, r, FALSE)
    <2>1. tick[p].at = "scan" /\ tick[p].left > 0 /\ r \notin tick[p].answered
        BY <1>7 DEF RefuseCached, RefuseUnauthorized, InHand
    <2> QED
        BY <1>7, <2>1, FollowupAnswers DEF RefuseCached, RefuseUnauthorized
<1>8. ASSUME NEW p \in Relays, NEW r \in Requests, NEW answered \in BOOLEAN, NEW accepted \in BOOLEAN,
             NEW done \in BOOLEAN, Send(p, r, answered, accepted, done)
      PROVE  Sending(p, r, answered, done)
    BY <1>8, SendSends
<1>9. ASSUME NEW p \in Relays, Record(p)
      PROVE  \E r \in Requests, ok \in BOOLEAN : Answering(p, r, ok)
    <2>1. tick[p].at = "record"
        BY <1>9 DEF Record
    <2>2. tick[p] \in Tick /\ Working(p)
        BY <2>1, TicksAtWork DEF RelayTypes
    <2>3. /\ tick[p].req \in Requests /\ tick[p].ok \in BOOLEAN
          /\ tick[p].left > 0 /\ tick[p].req \notin tick[p].answered
        BY <2>1, <2>2 DEF Working, Tick
    <2>4. Answering(p, tick[p].req, tick[p].ok)
        BY <1>9, <2>1, <2>3, FollowupAnswers DEF Record
    <2> QED
        BY <2>3, <2>4
<1> QED
    BY <1>1, <1>2, <1>3, <1>4, <1>5, <1>6, <1>7, <1>8, <1>9 DEF RelayNext, TickStep

-----------------------------------------------------------------------------
(* Type correctness.                                                       *)

LEMMA RelayTypesStart == RelayInit => RelayTypes
<1> SUFFICES ASSUME RelayInit PROVE RelayTypes
    OBVIOUS
<1>1. RelayTypeOK
    BY RelayAssumption DEF RelayInit, RelayTypeOK
<1>2. \A p \in Relays : Working(p)
    BY NoTickIsIdle DEF RelayInit, Working
<1> QED
    BY <1>1, <1>2 DEF RelayTypes

LEMMA RelayTypesStep == RelayTypes /\ [RelayNext]_relayVars => RelayTypes'
<1> SUFFICES ASSUME RelayTypes, [RelayNext]_relayVars PROVE RelayTypes'
    OBVIOUS
<1> USE DEF RelayTypes
<1>1. CASE Calm
    BY <1>1 DEF Calm, RelayTypeOK, Working
<1>2. ASSUME NEW p \in Relays, TickOf(p), Working(p)'
      PROVE  \A q \in Relays : Working(q)'
    BY <1>2 DEF TickOf, Working
<1>3. ASSUME NEW p \in Relays, Pausing(p)
      PROVE  RelayTypes'
    <2>1. TickOf(p) /\ Working(p)'
        BY <1>3, NoTickIsIdle DEF Pausing, Working
    <2>2. \A q \in Relays : Working(q)'
        BY <1>2, <2>1
    <2>3. CASE UNCHANGED <<cache, caps, relayDeaths>>
        BY <1>3, <2>1, <2>2, <2>3 DEF Pausing, RelayTypeOK, TickOf
    <2>4. CASE RelayDies(p)
        <3>1. relayDeaths' \in 0 .. MaxRelayDeaths
            BY <2>4, RelayAssumption DEF RelayDies, RelayTypeOK
        <3>2. cache' \in [Relays -> SUBSET Key] /\ caps' \in [Relays -> SUBSET Roles]
            BY <2>4, RelayAssumption DEF RelayDies, RelayTypeOK
        <3> QED
            BY <1>3, <2>1, <2>2, <3>1, <3>2 DEF Pausing, RelayTypeOK, TickOf
    <2> QED
        BY <1>3, <2>3, <2>4 DEF Pausing
<1>4. ASSUME NEW p \in Relays, NEW r \in Requests, NEW ok \in BOOLEAN, Answering(p, r, ok)
      PROVE  RelayTypes'
    <2>1. TickOf(p) /\ Working(p)'
        BY <1>4 DEF Answering, Working
    <2>2. \A q \in Relays : Working(q)'
        BY <1>2, <2>1
    <2>3. answers' \in Seq(Answer)
        BY <1>4 DEF Answering, RelayTypeOK, Answer
    <2> QED
        BY <1>4, <2>1, <2>2, <2>3 DEF Answering, RelayTypeOK, TickOf
<1>5. ASSUME NEW p \in Relays, NEW r \in Requests, NEW answered \in BOOLEAN, NEW done \in BOOLEAN,
             Sending(p, r, answered, done)
      PROVE  RelayTypes'
    <2>1. TickOf(p) /\ Working(p)'
        BY <1>5 DEF Sending, Working
    <2>2. \A q \in Relays : Working(q)'
        BY <1>2, <2>1
    <2>3. executed' \in [Key -> Nat] /\ lost' \in [Key -> Nat] /\ cache' \in [Relays -> SUBSET Key]
        BY <1>5, KeysOfRequests DEF Sending, RelayTypeOK
    <2> QED
        BY <1>5, <2>1, <2>2, <2>3 DEF Sending, RelayTypeOK, TickOf
<1> QED
    BY <1>1, <1>3, <1>4, <1>5, RelayStepKinds

\* The log's rows, the ticks, the caches and the counts keep their types.
THEOREM RelayTypeCorrect == RelaySpec => []RelayTypeOK
<1>1. RelayTypes => RelayTypeOK
    BY DEF RelayTypes
<1> QED
    BY <1>1, RelayTypesStart, RelayTypesStep, PTL DEF RelaySpec

-----------------------------------------------------------------------------
(* What is dispatched.                                                     *)

DoneInv ==
    /\ RelayTypes
    /\ DispatchedIsDone
    /\ \A p \in Relays : tick[p].at = "record" /\ tick[p].ok => executed[KeyOf[tick[p].req]] > 0

LEMMA DoneStep == DoneInv /\ [RelayNext]_relayVars => DoneInv'
<1> SUFFICES ASSUME DoneInv, [RelayNext]_relayVars PROVE DoneInv'
    OBVIOUS
<1> USE DEF DoneInv
<1>1. RelayTypes' /\ RelayTypes
    BY RelayTypesStep
<1>2. CASE Calm
    BY <1>1, <1>2 DEF Calm, DispatchedIsDone
<1>3. ASSUME NEW p \in Relays, Pausing(p)
      PROVE  DoneInv'
    BY <1>1, <1>3, NoTickIsIdle DEF Pausing, TickOf, DispatchedIsDone
<1>4. ASSUME NEW p \in Relays, NEW r \in Requests, NEW ok \in BOOLEAN, Answering(p, r, ok)
      PROVE  DoneInv'
    <2>1. ok => executed[KeyOf[r]] > 0
        BY <1>4 DEF Answering
    <2>2. answers \in Seq(Answer) /\ answers' = Append(answers, [req |-> r, ok |-> ok]) /\ executed' = executed
        BY <1>1, <1>4 DEF Answering, RelayTypes, RelayTypeOK
    <2>3. DispatchedIsDone'
        BY <2>1, <2>2 DEF DispatchedIsDone
    <2> QED
        BY <1>1, <1>4, <2>3 DEF Answering, TickOf
<1>5. ASSUME NEW p \in Relays, NEW r \in Requests, NEW answered \in BOOLEAN, NEW done \in BOOLEAN,
             Sending(p, r, answered, done)
      PROVE  DoneInv'
    <2>1. executed \in [Key -> Nat] /\ KeyOf[r] \in Key
        BY <1>1, KeysOfRequests DEF RelayTypes, RelayTypeOK
    <2>2. \A k : executed[k] > 0 /\ k \in Key => executed'[k] > 0
        BY <1>5, <2>1 DEF Sending
    <2>3. done => executed'[KeyOf[r]] > 0
        BY <1>5, <2>1 DEF Sending
    <2>4. \A i \in DOMAIN answers : KeyOf[answers[i].req] \in Key
        <3>1. \A i \in DOMAIN answers : answers[i] \in Answer
            BY <1>1 DEF RelayTypes, RelayTypeOK
        <3> QED
            BY <3>1, KeysOfRequests DEF Answer
    <2>5. \A q \in Relays : tick[q].at = "record" => KeyOf[tick[q].req] \in Key
        BY <1>1, KeysOfRequests DEF RelayTypes, Working
    <2>6. DispatchedIsDone'
        BY <1>5, <2>2, <2>4 DEF DispatchedIsDone, Sending
    <2> QED
        BY <1>1, <1>5, <2>2, <2>3, <2>5, <2>6 DEF Sending, TickOf
<1> QED
    BY <1>1, <1>2, <1>3, <1>4, <1>5, RelayStepKinds

\* A request is recorded as dispatched only if a call with its key was carried
\* out at the server, whatever responses are lost and whichever relay died.
THEOREM RelayDispatchedIsDone == RelaySpec => []DispatchedIsDone
<1>1. RelayInit => DoneInv
    BY RelayTypesStart, NoTickIsIdle DEF RelayInit, DoneInv, DispatchedIsDone
<1>2. DoneInv => DispatchedIsDone
    BY DEF DoneInv
<1> QED
    BY <1>1, <1>2, DoneStep, PTL DEF RelaySpec

-----------------------------------------------------------------------------
(* Calls that are carried out more than once.                              *)

Holders(k) == {p \in Relays : k \in cache[p]}

\* Each call with a key leaves it with a relay that holds the response, with
\* one that died since, or among those without a response.
CallsAreAccounted ==
    \A k \in Key : executed[k] <= Cardinality(Holders(k)) + relayDeaths + lost[k]

\* A finite set and one element more or less of it.
LEMMA OneMoreOrLess ==
    ASSUME NEW S, IsFiniteSet(S), NEW x
    PROVE  /\ Cardinality(S) \in Nat
           /\ IsFiniteSet(S \cup {x}) /\ (x \notin S => Cardinality(S \cup {x}) = Cardinality(S) + 1)
           /\ IsFiniteSet(S \ {x}) /\ Cardinality(S \ {x}) \in Nat
           /\ Cardinality(S) <= Cardinality(S \ {x}) + 1
           /\ (x \in S => Cardinality(S \ {x}) = Cardinality(S) - 1)
<1>1. Cardinality(S) \in Nat
    BY FS_CardinalityType
<1>2. IsFiniteSet(S \cup {x}) /\ (x \notin S => Cardinality(S \cup {x}) = Cardinality(S) + 1)
    BY <1>1, FS_AddElement
<1>3. /\ IsFiniteSet(S \ {x})
      /\ Cardinality(S \ {x}) = IF x \in S THEN Cardinality(S) - 1 ELSE Cardinality(S)
    BY FS_RemoveElement
<1>4. Cardinality(S \ {x}) \in Nat
    BY <1>3, FS_CardinalityType
<1> QED
    BY <1>1, <1>2, <1>3, <1>4

LEMMA HoldersAreFinite == \A k : IsFiniteSet(Holders(k)) /\ Cardinality(Holders(k)) \in Nat
                                 /\ Cardinality(Holders(k)) <= Cardinality(Relays)
<1> TAKE k
<1>1. Holders(k) \subseteq Relays /\ IsFiniteSet(Relays)
    BY RelayAssumption DEF Holders
<1>2. IsFiniteSet(Holders(k)) /\ Cardinality(Holders(k)) <= Cardinality(Relays)
    BY <1>1, FS_Subset
<1> QED
    BY <1>2, FS_CardinalityType

LEMMA AccountStep ==
    RelayTypes /\ CallsAreAccounted /\ [RelayNext]_relayVars => CallsAreAccounted'
<1> SUFFICES ASSUME RelayTypes, CallsAreAccounted, [RelayNext]_relayVars, NEW k \in Key
             PROVE  (executed[k] <= Cardinality(Holders(k)) + relayDeaths + lost[k])'
    BY DEF CallsAreAccounted
<1>1. /\ executed \in [Key -> Nat] /\ lost \in [Key -> Nat] /\ relayDeaths \in Nat
      /\ cache \in [Relays -> SUBSET Key]
      /\ executed[k] \in Nat /\ lost[k] \in Nat
    BY RelayAssumption DEF RelayTypes, RelayTypeOK
<1>2. executed[k] <= Cardinality(Holders(k)) + relayDeaths + lost[k]
    BY DEF CallsAreAccounted
<1>3. IsFiniteSet(Holders(k)) /\ Cardinality(Holders(k)) \in Nat
    BY HoldersAreFinite
<1>4. CASE UNCHANGED <<cache, executed, lost, relayDeaths>>
    BY <1>2, <1>4 DEF Holders
<1>5. ASSUME NEW p \in Relays, RelayDies(p)
      PROVE  (executed[k] <= Cardinality(Holders(k)) + relayDeaths + lost[k])'
    <2>1. Holders(k)' = Holders(k) \ {p}
        BY <1>1, <1>5 DEF RelayDies, Holders
    <2>2. Cardinality(Holders(k)) <= Cardinality(Holders(k)') + 1 /\ Cardinality(Holders(k)') \in Nat
        BY <1>3, <2>1, OneMoreOrLess
    <2>3. executed' = executed /\ lost' = lost /\ relayDeaths' = relayDeaths + 1
        BY <1>5 DEF RelayDies
    <2> QED
        BY <1>1, <1>2, <1>3, <2>2, <2>3
<1>6. ASSUME NEW p \in Relays, NEW r \in Requests, NEW answered \in BOOLEAN, NEW done \in BOOLEAN,
             Sending(p, r, answered, done)
      PROVE  (executed[k] <= Cardinality(Holders(k)) + relayDeaths + lost[k])'
    <2>1. executed'[k] <= executed[k] + 1 /\ executed'[k] \in Nat /\ (KeyOf[r] # k => executed'[k] = executed[k])
        BY <1>1, <1>6 DEF Sending
    <2>2. relayDeaths' = relayDeaths
        BY <1>6 DEF Sending
    <2>3. CASE KeyOf[r] # k
        <3>1. lost'[k] = lost[k] /\ Holders(k)' = Holders(k)
            BY <1>1, <1>6, <2>3 DEF Sending, Holders
        <3> QED
            BY <1>2, <2>1, <2>2, <2>3, <3>1
    <2>4. CASE KeyOf[r] = k /\ answered
        <3>1. lost' = lost /\ Holders(k)' = Holders(k) \cup {p} /\ p \notin Holders(k)
            BY <1>1, <1>6, <2>4 DEF Sending, Holders
        <3>2. Cardinality(Holders(k)') = Cardinality(Holders(k)) + 1
            BY <1>3, <3>1, OneMoreOrLess
        <3> QED
            BY <1>1, <1>2, <1>3, <2>1, <2>2, <3>1, <3>2
    <2>5. CASE KeyOf[r] = k /\ ~answered
        <3>1. lost'[k] = lost[k] + 1 /\ Holders(k)' = Holders(k)
            BY <1>1, <1>6, <2>5 DEF Sending, Holders
        <3> QED
            BY <1>1, <1>2, <1>3, <2>1, <2>2, <3>1
    <2> QED
        BY <2>3, <2>4, <2>5
<1>7. \A p \in Relays, r \in Requests, ok \in BOOLEAN :
          Answering(p, r, ok) => UNCHANGED <<cache, executed, lost, relayDeaths>>
    BY DEF Answering
<1>8. \A p \in Relays : Pausing(p) => RelayDies(p) \/ UNCHANGED <<cache, executed, lost, relayDeaths>>
    BY DEF Pausing
<1>9. Calm => UNCHANGED <<cache, executed, lost, relayDeaths>>
    BY DEF Calm
<1> QED
    BY <1>4, <1>5, <1>6, <1>7, <1>8, <1>9, RelayStepKinds

\* A call is carried out more often than there are relays only as often as a
\* relay died or a response was lost.
THEOREM RelayDoubleWritesAreBounded == RelaySpec => []DoubleWritesAreBounded
<1>1. RelayInit => CallsAreAccounted
    <2> SUFFICES ASSUME RelayInit, NEW k \in Key
                 PROVE  executed[k] <= Cardinality(Holders(k)) + relayDeaths + lost[k]
        BY DEF CallsAreAccounted
    <2>1. executed[k] = 0 /\ lost[k] = 0 /\ relayDeaths = 0
        BY DEF RelayInit
    <2> QED
        BY <2>1, HoldersAreFinite
<1>2. RelayTypes /\ CallsAreAccounted => DoubleWritesAreBounded
    <2> SUFFICES ASSUME RelayTypes, CallsAreAccounted, NEW k \in Key
                 PROVE  executed[k] <= Cardinality(Relays) + relayDeaths + lost[k]
        BY DEF DoubleWritesAreBounded
    <2>1. executed[k] \in Nat /\ lost[k] \in Nat /\ relayDeaths \in Nat
        BY RelayAssumption DEF RelayTypes, RelayTypeOK
    <2>2. executed[k] <= Cardinality(Holders(k)) + relayDeaths + lost[k]
        BY DEF CallsAreAccounted
    <2>3. /\ Cardinality(Holders(k)) \in Nat /\ Cardinality(Relays) \in Nat
          /\ Cardinality(Holders(k)) <= Cardinality(Relays)
        BY HoldersAreFinite, RelayAssumption, FS_CardinalityType
    <2> QED
        BY <2>1, <2>2, <2>3
<1> QED
    BY <1>1, <1>2, RelayTypesStart, RelayTypesStep, AccountStep, PTL DEF RelaySpec

-----------------------------------------------------------------------------
(* Answers.                                                                *)

AnswersTo(r) == {i \in DOMAIN answers : answers[i].req = r}

\* The ticks that may still answer r.
OpenTicks(r) == {p \in Relays : tick[p] # NoTick /\ r \notin tick[p].answered}

\* An answer closes the tick that gave it, and no tick that starts after an
\* answer is open.
AnswersAreCounted ==
    \A r \in Requests : Cardinality(AnswersTo(r)) + Cardinality(OpenTicks(r)) <= Cardinality(Relays)

LEMMA AnswersAreFinite ==
    ASSUME RelayTypes, NEW r
    PROVE  /\ IsFiniteSet(AnswersTo(r)) /\ Cardinality(AnswersTo(r)) \in Nat
           /\ IsFiniteSet(OpenTicks(r)) /\ Cardinality(OpenTicks(r)) \in Nat
           /\ Cardinality(OpenTicks(r)) <= Cardinality(Relays)
           /\ Cardinality(Relays) \in Nat
<1>1. DOMAIN answers = 1 .. Len(answers) /\ Len(answers) \in Nat
    BY DEF RelayTypes, RelayTypeOK
<1>2. IsFiniteSet(1 .. Len(answers))
    BY <1>1, FS_Interval
<1>3. AnswersTo(r) \subseteq 1 .. Len(answers)
    BY <1>1 DEF AnswersTo
<1>4. IsFiniteSet(AnswersTo(r))
    BY <1>2, <1>3, FS_Subset
<1>5. OpenTicks(r) \subseteq Relays /\ IsFiniteSet(Relays)
    BY RelayAssumption DEF OpenTicks
<1>6. IsFiniteSet(OpenTicks(r)) /\ Cardinality(OpenTicks(r)) <= Cardinality(Relays)
    BY <1>5, FS_Subset
<1> QED
    BY <1>4, <1>5, <1>6, FS_CardinalityType

LEMMA AnswersCountedStep ==
    RelayTypes /\ AnswersAreCounted /\ [RelayNext]_relayVars => AnswersAreCounted'
<1> SUFFICES ASSUME RelayTypes, AnswersAreCounted, [RelayNext]_relayVars, NEW r \in Requests
             PROVE  (Cardinality(AnswersTo(r)) + Cardinality(OpenTicks(r)) <= Cardinality(Relays))'
    BY DEF AnswersAreCounted
<1>1. Cardinality(AnswersTo(r)) + Cardinality(OpenTicks(r)) <= Cardinality(Relays)
    BY DEF AnswersAreCounted
<1>2. /\ IsFiniteSet(AnswersTo(r)) /\ Cardinality(AnswersTo(r)) \in Nat
      /\ IsFiniteSet(OpenTicks(r)) /\ Cardinality(OpenTicks(r)) \in Nat
      /\ Cardinality(Relays) \in Nat
    BY AnswersAreFinite
<1>3. /\ Cardinality(OpenTicks(r)') \in Nat /\ Cardinality(OpenTicks(r)') <= Cardinality(Relays)
      /\ IsFiniteSet(OpenTicks(r)')
    <2>1. OpenTicks(r)' \subseteq Relays /\ IsFiniteSet(Relays)
        BY RelayAssumption DEF OpenTicks
    <2> QED
        BY <2>1, FS_Subset, FS_CardinalityType
<1>4. ASSUME answers' = answers, OpenTicks(r)' \subseteq OpenTicks(r)
      PROVE  (Cardinality(AnswersTo(r)) + Cardinality(OpenTicks(r)) <= Cardinality(Relays))'
    <2>1. AnswersTo(r)' = AnswersTo(r)
        BY <1>4 DEF AnswersTo
    <2>2. Cardinality(OpenTicks(r)') <= Cardinality(OpenTicks(r))
        BY <1>2, <1>4, FS_Subset
    <2> QED
        BY <1>1, <1>2, <1>3, <2>1, <2>2
<1>5. CASE Calm
    BY <1>4, <1>5 DEF Calm, OpenTicks
<1>6. ASSUME NEW p \in Relays, Pausing(p)
      PROVE  (Cardinality(AnswersTo(r)) + Cardinality(OpenTicks(r)) <= Cardinality(Relays))'
    <2>1. answers' = answers /\ \A q \in Relays \ {p} : tick'[q] = tick[q]
        BY <1>6 DEF Pausing, TickOf
    <2>2. CASE r \in Answered \/ tick'[p] = NoTick
        <3>1. tick'[p] = NoTick \/ r \in tick'[p].answered
            BY <1>6, <2>2 DEF Pausing
        <3>2. OpenTicks(r)' \subseteq OpenTicks(r)
            BY <2>1, <3>1 DEF OpenTicks
        <3> QED
            BY <1>4, <2>1, <3>2
    <2>3. CASE r \notin Answered
        <3>1. AnswersTo(r)' = {}
            BY <2>1, <2>3 DEF AnswersTo, Answered
        <3>2. Cardinality(AnswersTo(r)') = 0
            BY <3>1, FS_EmptySet
        <3> QED
            BY <1>2, <1>3, <3>2
    <2> QED
        BY <2>2, <2>3
<1>7. ASSUME NEW p \in Relays, NEW s \in Requests, NEW ok \in BOOLEAN, Answering(p, s, ok)
      PROVE  (Cardinality(AnswersTo(r)) + Cardinality(OpenTicks(r)) <= Cardinality(Relays))'
    <2>1. /\ answers \in Seq(Answer) /\ answers' = Append(answers, [req |-> s, ok |-> ok])
          /\ \A q \in Relays \ {p} : tick'[q] = tick[q]
        BY <1>7 DEF Answering, TickOf, RelayTypes, RelayTypeOK
    <2>2. tick[p] # NoTick /\ tick'[p] # NoTick
        BY <1>7, NoTickIsIdle DEF Answering
    <2>3. CASE r = s
        <3>1. AnswersTo(r)' = AnswersTo(r) \cup {Len(answers) + 1} /\ Len(answers) + 1 \notin AnswersTo(r)
            BY <2>1, <2>3 DEF AnswersTo
        <3>2. OpenTicks(r)' = OpenTicks(r) \ {p} /\ p \in OpenTicks(r)
            BY <1>7, <2>1, <2>2, <2>3 DEF Answering, OpenTicks
        <3>3. Cardinality(AnswersTo(r)') = Cardinality(AnswersTo(r)) + 1
            BY <1>2, <3>1, OneMoreOrLess
        <3>4. Cardinality(OpenTicks(r)') = Cardinality(OpenTicks(r)) - 1
            BY <1>2, <3>2, OneMoreOrLess
        <3> QED
            BY <1>1, <1>2, <1>3, <3>3, <3>4
    <2>4. CASE r # s
        <3>1. AnswersTo(r)' = AnswersTo(r)
            BY <2>1, <2>4 DEF AnswersTo
        <3>2. OpenTicks(r)' = OpenTicks(r)
            BY <1>7, <2>1, <2>2, <2>4 DEF Answering, OpenTicks
        <3> QED
            BY <1>1, <3>1, <3>2
    <2> QED
        BY <2>3, <2>4
<1>8. ASSUME NEW p \in Relays, NEW s \in Requests, NEW answered \in BOOLEAN, NEW done \in BOOLEAN,
             Sending(p, s, answered, done)
      PROVE  (Cardinality(AnswersTo(r)) + Cardinality(OpenTicks(r)) <= Cardinality(Relays))'
    <2>1. tick[p] # NoTick
        BY <1>8, TicksAtWork DEF Sending
    <2>2. OpenTicks(r)' \subseteq OpenTicks(r)
        BY <1>8, <2>1 DEF Sending, TickOf, OpenTicks
    <2> QED
        BY <1>4, <1>8, <2>2 DEF Sending
<1> QED
    BY <1>5, <1>6, <1>7, <1>8, RelayStepKinds

\* However relays overlap or die, a request has at most one answer per relay.
THEOREM RelayAnswersAreBounded == RelaySpec => []AnswersAreBounded
<1>1. RelayInit => AnswersAreCounted
    <2> SUFFICES ASSUME RelayInit, NEW r \in Requests
                 PROVE  Cardinality(AnswersTo(r)) + Cardinality(OpenTicks(r)) <= Cardinality(Relays)
        BY DEF AnswersAreCounted
    <2>1. AnswersTo(r) = {} /\ OpenTicks(r) = {}
        BY DEF RelayInit, AnswersTo, OpenTicks
    <2>2. Cardinality(Relays) \in Nat
        BY RelayAssumption, FS_CardinalityType
    <2> QED
        BY <2>1, <2>2, FS_EmptySet
<1>2. RelayTypes /\ AnswersAreCounted => AnswersAreBounded
    <2> SUFFICES ASSUME RelayTypes, AnswersAreCounted, NEW r \in Requests
                 PROVE  Cardinality(AnswersTo(r)) <= Cardinality(Relays)
        BY DEF AnswersAreBounded, AnswersTo
    <2>1. Cardinality(AnswersTo(r)) + Cardinality(OpenTicks(r)) <= Cardinality(Relays)
        BY DEF AnswersAreCounted
    <2> QED
        BY <2>1, AnswersAreFinite
<1> QED
    BY <1>1, <1>2, RelayTypesStart, RelayTypesStep, AnswersCountedStep, PTL DEF RelaySpec
=============================================================================
