--------------------------- MODULE InboundEvents ---------------------------
(***************************************************************************)
(* Webhooks and external events on their way in                            *)
(* (orchestration/inbound_events.py): each delivery is judged by what the  *)
(* files say of earlier deliveries, and becomes a kernel event and an      *)
(* accepted record, or a row in quarantine and a dead letter.  The files   *)
(* are appended to and never locked; providers deliver again when they     *)
(* have not heard, at the same time as the first delivery or later.        *)
(***************************************************************************)
EXTENDS RecordLog

CONSTANTS
    Handlers,        \* threads that take deliveries
    EventIds,        \* external event ids of one provider and event type
    Spellings,       \* ways to write that provider and event type, in capitals or not
    Payloads,        \* payload digests
    Unprojectable,   \* payloads on which the projection raises
    Deliverable,     \* bound: the deliveries that are made
    MaxDeliveries,
    MaxInboundDeaths

ASSUME InboundAssumption == Unprojectable \subseteq Payloads /\ EventIds \cap Payloads = {}

VARIABLES
    accepted,      \* inbound_events.jsonl
    quarantine,    \* quarantine.jsonl
    deadLetters,   \* dead_letters.jsonl
    replayWindow,  \* replay_window.jsonl
    kernelEvents,  \* the kernel events that deliveries recorded
    projections,   \* projections[h]: whether h's process has registered the projection
    delivery,      \* delivery[h]: the delivery h is working on
    deliveries,    \* bound: deliveries made
    inboundDeaths, \* bound: handlers that died in a delivery
    together       \* history: ids of deliveries of the same id that overlapped

inboundVars == <<accepted, quarantine, deadLetters, replayWindow, kernelEvents, projections,
                 delivery, deliveries, inboundDeaths, together>>

\* id is None for an event without one; signed: the signature is the provider's.
Delivery == [id : EventIds \cup {None}, spelled : Spellings, payload : Payloads, signed : BOOLEAN]

ASSUME DeliverableAssumption == Deliverable \subseteq Delivery

\* _idempotency_key, of the names as they were written
Key(d) == <<d.spelled, IF d.id = None THEN d.payload ELSE d.id>>
EventKeys == Spellings \X (EventIds \cup Payloads)

\* A row of the record files; verdict is the reason, or "accepted".
Row(d, verdict) ==
    [id |-> d.id, spelled |-> d.spelled, payload |-> d.payload, signed |-> d.signed, verdict |-> verdict]
Verdicts == {"accepted", "signature", "conflict", "duplicate", "no projection", "projection failed"}

\* What a handler knows of the delivery it works on.
InboundStages ==
    {"window", "note", "conflict in accepted", "conflict in quarantine", "seen in accepted",
     "seen in quarantine", "project", "event", "accept", "quarantine", "dead letter"}
Work == [at : InboundStages, sent : Delivery, verdict : Verdicts \cup {None}]

ASSUME WorkAssumption == None \notin Work

InboundInit ==
    /\ accepted = <<>> /\ quarantine = <<>> /\ deadLetters = <<>> /\ replayWindow = <<>>
    /\ kernelEvents = <<>>
    /\ projections = [h \in Handlers |-> FALSE]
    /\ delivery = [h \in Handlers |-> None]
    /\ deliveries = 0 /\ inboundDeaths = 0
    /\ together = {}

-----------------------------------------------------------------------------
InboundAt(h, at) == delivery[h] # None /\ delivery[h].at = at
Sent(h) == delivery[h].sent
InboundGoes(h, at) == delivery' = [delivery EXCEPT ![h].at = at]
InboundEnds(h) == delivery' = [delivery EXCEPT ![h] = None]
Rejects(h, verdict) == delivery' = [delivery EXCEPT ![h].at = "quarantine", ![h].verdict = verdict]

\* Mutant: rows of rejected spoofs count.
Speaks_Anyone(row) == TRUE

\* A row that says something of its event: its signature was good.
Speaks(row) == row.signed

\* _seen_verified_idempotency_key in one file
SeenKey(rows, d) == \E n \in DOMAIN rows : Speaks(rows[n]) /\ Key(rows[n]) = Key(d)

\* _external_event_digest_conflict in one file, however names are spelled
Conflicts(rows, d) ==
    /\ d.id # None
    /\ \E n \in DOMAIN rows : Speaks(rows[n]) /\ rows[n].id = d.id /\ rows[n].payload # d.payload

\* A provider, or somebody else, delivers an event.
Deliver(h, d) ==
    /\ deliveries < MaxDeliveries
    /\ delivery[h] = None
    /\ delivery' = [delivery EXCEPT ![h] = [at |-> "window", sent |-> d, verdict |-> None]]
    /\ deliveries' = deliveries + 1
    /\ together' = together \cup
           {Key(d) : g \in {g \in Handlers : delivery[g] # None /\ Key(Sent(g)) = Key(d)}}
    /\ UNCHANGED <<accepted, quarantine, deadLetters, replayWindow, kernelEvents, projections, inboundDeaths>>

\* The signature is looked at before what earlier deliveries say.
VerifySignature(h) ==
    IF Sent(h).signed THEN InboundGoes(h, "conflict in accepted") ELSE Rejects(h, "signature")

\* _record_replay_window: a key is noted once, when no overlapping call notes it too.
ReadWindow(h) ==
    /\ InboundAt(h, "window")
    /\ IF Key(Sent(h)) \in ToSet(replayWindow) THEN VerifySignature(h) ELSE InboundGoes(h, "note")
    /\ UNCHANGED <<accepted, quarantine, deadLetters, replayWindow, kernelEvents, projections,
                   deliveries, inboundDeaths, together>>

NoteWindow(h) ==
    /\ InboundAt(h, "note")
    /\ replayWindow' = Append(replayWindow, Key(Sent(h)))
    /\ VerifySignature(h)
    /\ UNCHANGED <<accepted, quarantine, deadLetters, kernelEvents, projections,
                   deliveries, inboundDeaths, together>>

\* One read of one file: the delivery is rejected, or goes on to the next read.
Judge(h, at, rows, rejects, verdict, next) ==
    /\ InboundAt(h, at)
    /\ IF rejects THEN Rejects(h, verdict) ELSE InboundGoes(h, next)
    /\ UNCHANGED <<accepted, quarantine, deadLetters, replayWindow, kernelEvents, projections,
                   deliveries, inboundDeaths, together>>

JudgeConflict(h) ==
    \/ Judge(h, "conflict in accepted", accepted, Conflicts(accepted, Sent(h)), "conflict",
             "conflict in quarantine")
    \/ Judge(h, "conflict in quarantine", quarantine, Conflicts(quarantine, Sent(h)), "conflict",
             "seen in accepted")

\* Mutant: it is not asked whether a delivery was seen before.
JudgeSeen_Never(h) == Judge(h, "seen in accepted", accepted, FALSE, "duplicate", "project")

JudgeSeen(h) ==
    \/ Judge(h, "seen in accepted", accepted, SeenKey(accepted, Sent(h)), "duplicate", "seen in quarantine")
    \/ Judge(h, "seen in quarantine", quarantine, SeenKey(quarantine, Sent(h)), "duplicate", "project")

Project(h) ==
    /\ InboundAt(h, "project")
    /\ \/ ~projections[h] /\ Rejects(h, "no projection")
       \/ projections[h] /\ Sent(h).payload \in Unprojectable /\ Rejects(h, "projection failed")
       \/ projections[h] /\ Sent(h).payload \notin Unprojectable /\ InboundGoes(h, "event")
    /\ UNCHANGED <<accepted, quarantine, deadLetters, replayWindow, kernelEvents, projections,
                   deliveries, inboundDeaths, together>>

RecordEvent(h) ==
    /\ InboundAt(h, "event")
    /\ kernelEvents' = Append(kernelEvents, [key |-> Key(Sent(h)), payload |-> Sent(h).payload])
    /\ InboundGoes(h, "accept")
    /\ UNCHANGED <<accepted, quarantine, deadLetters, replayWindow, projections,
                   deliveries, inboundDeaths, together>>

Accept(h) ==
    /\ InboundAt(h, "accept")
    /\ accepted' = Append(accepted, Row(Sent(h), "accepted"))
    /\ InboundEnds(h)
    /\ UNCHANGED <<quarantine, deadLetters, replayWindow, kernelEvents, projections,
                   deliveries, inboundDeaths, together>>

AfterQuarantine(h) == InboundGoes(h, "dead letter")

\* _write_rejected_record
Quarantine(h) ==
    /\ InboundAt(h, "quarantine")
    /\ quarantine' = Append(quarantine, Row(Sent(h), delivery[h].verdict))
    /\ AfterQuarantine(h)
    /\ UNCHANGED <<accepted, deadLetters, replayWindow, kernelEvents, projections,
                   deliveries, inboundDeaths, together>>

DeadLetter(h) ==
    /\ InboundAt(h, "dead letter")
    /\ deadLetters' = Append(deadLetters, Row(Sent(h), delivery[h].verdict))
    /\ InboundEnds(h)
    /\ UNCHANGED <<accepted, quarantine, replayWindow, kernelEvents, projections,
                   deliveries, inboundDeaths, together>>

\* register_inbound_projection, in the process of h.
RegisterProjection(h) ==
    /\ ~projections[h]
    /\ projections' = [projections EXCEPT ![h] = TRUE]
    /\ UNCHANGED <<accepted, quarantine, deadLetters, replayWindow, kernelEvents,
                   delivery, deliveries, inboundDeaths, together>>

InboundDies(h) ==
    /\ inboundDeaths < MaxInboundDeaths
    /\ delivery[h] # None
    /\ InboundEnds(h)
    /\ inboundDeaths' = inboundDeaths + 1
    /\ UNCHANGED <<accepted, quarantine, deadLetters, replayWindow, kernelEvents, projections,
                   deliveries, together>>

DeliverStep(h) == \E d \in Deliverable : Deliver(h, d)

InboundNext ==
    \E h \in Handlers :
        \/ DeliverStep(h) \/ ReadWindow(h) \/ NoteWindow(h)
        \/ JudgeConflict(h) \/ JudgeSeen(h) \/ Project(h)
        \/ RecordEvent(h) \/ Accept(h) \/ Quarantine(h) \/ DeadLetter(h)
        \/ RegisterProjection(h) \/ InboundDies(h)

InboundSpec == InboundInit /\ [][InboundNext]_inboundVars

-----------------------------------------------------------------------------
(* Properties.                                                             *)

InboundRow ==
    [id : EventIds \cup {None}, spelled : Spellings, payload : Payloads, signed : BOOLEAN, verdict : Verdicts]

\* Type invariant of the files and of the deliveries.
InboundTypeOK ==
    /\ \A file \in {accepted, quarantine, deadLetters} : \A n \in DOMAIN file : file[n] \in InboundRow
    /\ ToSet(replayWindow) \subseteq EventKeys
    /\ \A n \in DOMAIN kernelEvents :
          kernelEvents[n].key \in EventKeys /\ kernelEvents[n].payload \in Payloads
    /\ projections \in [Handlers -> BOOLEAN]
    /\ delivery \in [Handlers -> Work \cup {None}]
    /\ deliveries \in 0 .. MaxDeliveries /\ inboundDeaths \in 0 .. MaxInboundDeaths
    /\ together \subseteq EventKeys

Justified(judged, verdict, earlier) ==
    /\ verdict = "duplicate" => \E r \in earlier : r.signed /\ Key(r) = Key(judged)
    /\ verdict = "conflict" =>
          \E r \in earlier : r.signed /\ r.id = judged.id /\ r.payload # judged.payload

\* A delivery that is rejected as a duplicate, or for a payload that conflicts,
\* was preceded by a delivery with a good signature: what a spoof sends stops
\* no later delivery of the provider.  inbound-events.md: "an invalid spoof
\* cannot poison a later valid retry for the same external event id".
SpoofsPoisonNothing ==
    \A n \in DOMAIN quarantine :
        Justified(quarantine[n], quarantine[n].verdict,
                  ToSet(accepted) \cup {quarantine[m] : m \in 1 .. n - 1})

EventsUnder(key) == {n \in DOMAIN kernelEvents : kernelEvents[n].key = key}

\* An event that was delivered several times, one delivery after the other,
\* becomes one kernel event, and one more at most for each handler that died
\* between the event and the record of it.
RetriesMakeOneEvent ==
    \A key \in EventKeys :
        key \notin together => Cardinality(EventsUnder(key)) <= 1 + inboundDeaths

\* An accepted record is never ahead of the kernel event it names.
AcceptedHasItsEvent ==
    \A key \in EventKeys :
        Len(SelectSeq(accepted, LAMBDA row : Key(row) = key)) <= Cardinality(EventsUnder(key))

\* A rejected delivery has a dead letter, or its handler is about to write it
\* or has died.
RejectedIsDeadLettered ==
    Len(quarantine) <= Len(deadLetters) + inboundDeaths
                       + Cardinality({h \in Handlers : InboundAt(h, "dead letter")})

\* Stated, and violated: an event becomes one kernel event, however it is delivered.
OneEventPerKey ==
    \A m, n \in DOMAIN kernelEvents : kernelEvents[m].key = kernelEvents[n].key => m = n

\* Stated, and violated: a genuine event that is delivered again after its
\* projection was registered is accepted.
RetryAfterRegistration ==
    \A n \in DOMAIN quarantine :
        quarantine[n].verdict = "duplicate" =>
            \E r \in ToSet(accepted) \cup {quarantine[m] : m \in 1 .. n - 1} :
                Key(r) = Key(quarantine[n]) /\ r.verdict \in {"accepted", "projection failed", "conflict"}
=============================================================================
