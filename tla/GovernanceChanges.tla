------------------------- MODULE GovernanceChanges -------------------------
(***************************************************************************)
(* Proposals to change the governance itself                               *)
(* (orchestration/governance_changes.py) and what becomes of them in the   *)
(* kernel service: a proposal is a row with its checks, and a decision is  *)
(* a kernel event that names the proposal's id.  Requests are threads;     *)
(* each reads the files, checks, and writes, without a lock of its own; a  *)
(* service that requires leases verifies the lease of a decision before it *)
(* records it.                                                             *)
(***************************************************************************)
EXTENDS RecordLog

CONSTANTS
    Deciders,     \* threads that serve decision requests
    Actors,       \* who sends requests
    ProposalIds,
    Invariants,   \* names of invariant checks
    Required,     \* the invariants every proposal has to pass
    Offers,       \* what callers propose
    MaxProposals,
    MaxRequests,
    MaxLeaseMoves

ASSUME GovernanceAssumption == Required \subseteq Invariants /\ None \notin Actors

VARIABLES
    leasesRequired, \* configuration of the service
    proposals,      \* governance_changes.jsonl
    decisions,      \* the events that approve or decline
    requests,       \* bound: decision requests
    request,        \* request[c]: the decision request that thread c serves
    holder,         \* who holds the decision lease of the one proposal; a lease has a number
    leaseMoves,     \* bound: leases taken
    overlapped      \* history: a decision was begun while another was being made, or its lease
                    \* moved between its verification and its record

governanceVars == <<leasesRequired, proposals, decisions, requests, request, holder, leaseMoves, overlapped>>

\* cited: the check names evidence.  The text fields are there or not.
Check == [invariant : Invariants, status : {"pass", "fail", "unknown"}, cited : BOOLEAN]
Fields == {"sources", "expected", "predicted", "risk", "rollback"}

Offer == [checks : Seq(Check), has : SUBSET Fields]

GovernanceInit ==
    /\ leasesRequired \in BOOLEAN
    /\ proposals = <<>> /\ decisions = <<>>
    /\ requests = 0
    /\ request = [c \in Deciders |-> None]
    /\ holder = [actor |-> None, number |-> 0]
    /\ leaseMoves = 0
    /\ overlapped = FALSE

-----------------------------------------------------------------------------
(* The checks of a proposal.                                               *)

Passed(checks) == {checks[n].invariant : n \in {m \in DOMAIN checks : checks[m].status = "pass"}}
Failed(checks) == {checks[n].invariant : n \in {m \in DOMAIN checks : checks[m].status = "fail"}}

\* _checks_review_ready
ChecksReady(checks) == Required \subseteq Passed(checks) /\ Failed(checks) = {}

\* assess_evidence_sufficiency
Sufficient(offer) ==
    /\ {"sources", "risk", "rollback"} \subseteq offer.has
    /\ offer.has \cap {"expected", "predicted"} # {}
    /\ \A n \in DOMAIN offer.checks : offer.checks[n].status = "pass" => offer.checks[n].cited

StatusOf(offer) == IF ChecksReady(offer.checks) /\ Sufficient(offer) THEN "review_ready" ELSE "blocked"

\* The review_ready property of a proposal: the last check of an invariant counts.
LastStatus(checks, invariant) ==
    LET ofIt == SelectSeq(checks, LAMBDA check : check.invariant = invariant)
    IN IF ofIt = <<>> THEN "unknown" ELSE ofIt[Len(ofIt)].status

ReviewReady(proposal) ==
    /\ \A invariant \in Required : LastStatus(proposal.offer.checks, invariant) = "pass"
    /\ Sufficient(proposal.offer)

-----------------------------------------------------------------------------
(* Proposals.                                                              *)

\* propose_governance_change: an id may be given, and may have been used.
Propose(i, actor, offer) ==
    /\ Len(proposals) < MaxProposals
    /\ proposals' = Append(proposals, [id |-> i, by |-> actor, offer |-> offer, status |-> StatusOf(offer)])
    /\ UNCHANGED <<leasesRequired, decisions, requests, request, holder, leaseMoves, overlapped>>

Decided == {decisions[n].id : n \in DOMAIN decisions}
Approved == {decisions[n].id : n \in {m \in DOMAIN decisions : decisions[m].verdict = "approved"}}

-----------------------------------------------------------------------------
(* Decisions: POST /kernel/governance-changes/<id>/decision.               *)

RequestAt(c, at) == request[c] # None /\ request[c].at = at
RequestGoes(c, at) == request' = [request EXCEPT ![c].at = at]
RequestEnds(c) == request' = [request EXCEPT ![c] = None]

\* The request carries the lease its sender holds, if any.
BeginDecision(c, i, actor, verdict) ==
    /\ requests < MaxRequests
    /\ request[c] = None
    /\ requests' = requests + 1
    /\ request' = [request EXCEPT ![c] =
           [at |-> "find", id |-> i, actor |-> actor, verdict |-> verdict, row |-> 0,
            lease |-> IF holder.actor = actor THEN holder.number ELSE 0]]
    /\ overlapped' = (overlapped \/ \E d \in Deciders : request[d] # None
                                    /\ (leasesRequired => request[d].actor = actor))
    /\ UNCHANGED <<leasesRequired, proposals, decisions, holder, leaseMoves>>

MayBeDecided(proposal) == proposal.status = "review_ready"

FindProposal(c) ==
    /\ RequestAt(c, "find")
    /\ LET i == request[c].id IN
       IF Mentions(proposals, i) /\ MayBeDecided(proposals[LastRow(proposals, i)])
       THEN request' = [request EXCEPT ![c].at = "decided", ![c].row = LastRow(proposals, i)]
       ELSE RequestEnds(c)
    /\ UNCHANGED <<leasesRequired, proposals, decisions, requests, holder, leaseMoves, overlapped>>

\* Mutant: only approved proposals are looked for.
IsDecided_Approved(i) == i \in Approved

\* _decided_governance_ids: two reads of the event log, folded into one.
IsDecided(i) == i \in Decided

CheckDecided(c) ==
    /\ RequestAt(c, "decided")
    /\ IF IsDecided(request[c].id) THEN RequestEnds(c) ELSE RequestGoes(c, "lease")
    /\ UNCHANGED <<leasesRequired, proposals, decisions, requests, holder, leaseMoves, overlapped>>

\* _verify_mutation_lease
LeaseHolds(c) ==
    leasesRequired => holder.actor = request[c].actor /\ holder.number = request[c].lease

VerifyLease(c) ==
    /\ RequestAt(c, "lease")
    /\ IF LeaseHolds(c) THEN RequestGoes(c, "record") ELSE RequestEnds(c)
    /\ UNCHANGED <<leasesRequired, proposals, decisions, requests, holder, leaseMoves, overlapped>>

RecordDecision(c) ==
    /\ RequestAt(c, "record")
    /\ decisions' = Append(decisions, [id |-> request[c].id, actor |-> request[c].actor,
                                       verdict |-> request[c].verdict, row |-> request[c].row])
    /\ RequestEnds(c)
    /\ UNCHANGED <<leasesRequired, proposals, requests, holder, leaseMoves, overlapped>>

\* A lease is taken when the one before was released or has expired.
TakeLease(actor) ==
    /\ leaseMoves < MaxLeaseMoves
    /\ leaseMoves' = leaseMoves + 1
    /\ holder' = [actor |-> actor, number |-> leaseMoves + 1]
    /\ overlapped' = (overlapped \/ \E c \in Deciders : RequestAt(c, "record"))
    /\ UNCHANGED <<leasesRequired, proposals, decisions, requests, request>>

ProposeStep == \E i \in ProposalIds, actor \in Actors, offer \in Offers : Propose(i, actor, offer)
DecideStep(c) == \E i \in ProposalIds, actor \in Actors, verdict \in {"approved", "declined"} :
                     BeginDecision(c, i, actor, verdict)
LeaseStep == \E actor \in Actors : TakeLease(actor)

GovernanceNext ==
    \/ ProposeStep
    \/ LeaseStep
    \/ \E c \in Deciders : DecideStep(c) \/ FindProposal(c) \/ CheckDecided(c) \/ VerifyLease(c)
                           \/ RecordDecision(c)

GovernanceSpec == GovernanceInit /\ [][GovernanceNext]_governanceVars

-----------------------------------------------------------------------------
(* Properties.                                                             *)

\* Type invariant of the proposals, the decisions and the requests.
GovernanceTypeOK ==
    /\ leasesRequired \in BOOLEAN /\ overlapped \in BOOLEAN
    /\ \A n \in DOMAIN proposals :
          /\ proposals[n].id \in ProposalIds /\ proposals[n].by \in Actors
          /\ proposals[n].offer \in Offers /\ proposals[n].status \in {"review_ready", "blocked"}
    /\ \A n \in DOMAIN decisions :
          /\ decisions[n].id \in ProposalIds /\ decisions[n].actor \in Actors
          /\ decisions[n].verdict \in {"approved", "declined"} /\ decisions[n].row \in DOMAIN proposals
    /\ holder.actor \in Actors \cup {None} /\ holder.number \in 0 .. leaseMoves
    /\ leaseMoves \in 0 .. MaxLeaseMoves /\ requests \in 0 .. MaxRequests

\* The row that was read for a decision passes every required check on cited
\* evidence, fails none, and says what is expected, what is risked and how to
\* go back.  governance-changes.md: "A proposal is review_ready only when all
\* required invariants pass, no recorded invariant fails, and evidence
\* sufficiency passes."
DecidedOnEvidence ==
    \A n \in DOMAIN decisions :
        LET offer == proposals[decisions[n].row].offer IN
        /\ {"sources", "risk", "rollback"} \subseteq offer.has
        /\ \A invariant \in Required :
              \E k \in DOMAIN offer.checks : offer.checks[k].invariant = invariant
                                             /\ offer.checks[k].status = "pass" /\ offer.checks[k].cited
        /\ \A k \in DOMAIN offer.checks : offer.checks[k].status # "fail"

\* A proposal is decided once, unless two decisions of it were under way at the
\* same time.  With leases required, that takes one actor twice, or a lease that
\* moved after it had been verified.  kernel_service.py:521-525: a decided
\* proposal "cannot be decided twice".
DecidedOnce ==
    ~overlapped => \A m, n \in DOMAIN decisions : decisions[m].id = decisions[n].id => m = n

\* Stated, and violated: a proposal is decided once.
NeverDecidedTwice == \A m, n \in DOMAIN decisions : decisions[m].id = decisions[n].id => m = n

\* Stated, and violated: what is approved is the proposal that was decided on,
\* and not what was proposed under its id later.
ApprovalIsOfTheRow ==
    \A n \in DOMAIN decisions : decisions[n].row = LastRow(proposals, decisions[n].id)

\* Stated, and violated: who proposes does not decide.
ProposerDoesNotDecide ==
    \A n \in DOMAIN decisions : decisions[n].actor # proposals[decisions[n].row].by

\* Stated, and violated: the status of a proposal and its review_ready property agree.
StatusIsReviewReady ==
    \A n \in DOMAIN proposals : (proposals[n].status = "review_ready") <=> ReviewReady(proposals[n])
=============================================================================
