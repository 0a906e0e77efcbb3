------------------------------ MODULE MCRecords ------------------------------
(***************************************************************************)
(* The record logs for TLC, one at a time: they share no state, and the    *)
(* initial state says which one a behaviour is about.                      *)
(***************************************************************************)
EXTENDS HumanWork, SpeedEnvelope, InboundEvents, OutcomeLinks, GovernanceChanges,
        DecisionCases, Allocations, PhaseExecution, DependencyCycles, TLC

CONSTANTS w1, w2

VARIABLE part

-----------------------------------------------------------------------------
(* The instances.                                                          *)

\* Human work: a completed request of an agent that has no receipt yet, and
\* work a human has claimed.
OpenWork ==
    <<[id |-> w1, state |-> "completed", required |-> TRUE, receipt |-> FALSE,
       followup |-> TRUE, a2h |-> TRUE, asked |-> TRUE],
      [id |-> w2, state |-> "claimed", required |-> FALSE, receipt |-> FALSE,
       followup |-> FALSE, a2h |-> FALSE, asked |-> FALSE]>>

\* Every transition; receipts and follow-ups where they matter most.
SomeChanges ==
    {change \in Change :
        \/ change.kind = "receipt"
        \/ change.kind = "interaction" /\ change.followup = FALSE
        \/ change.kind = "state" /\ change.to # "requested" /\ change.receipt = None
                                /\ change.followup = None
        \/ change.kind = "state" /\ change.to = "integrated" /\ change.receipt = TRUE
                                /\ change.followup \in {None, FALSE}
        \/ change.kind = "state" /\ change.to \in {"in_progress", "integrated"} /\ change.receipt = FALSE
                                /\ change.followup = None}

Verified(invariant) == [invariant |-> invariant, status |-> "pass", cited |-> TRUE]
Complete == {"sources", "expected", "risk", "rollback"}

\* Governance: a proposal that is ready and predicts its effect, one that also
\* fails an invariant that is not required, and one whose check cites nothing.
SomeOffers ==
    {[checks |-> <<Verified("floor")>>, has |-> {"sources", "predicted", "risk", "rollback"}],
     [checks |-> <<Verified("floor"), [Verified("tier") EXCEPT !.status = "fail"]>>, has |-> Complete],
     [checks |-> <<[Verified("floor") EXCEPT !.cited = FALSE]>>, has |-> Complete]}

\* Decision cases: one of each procedure.
SomeOpenings ==
    {[procedure |-> "unanimity", actors |-> PanelActors, roles |-> {}, quorum |-> 2],
     [procedure |-> "veto", actors |-> PanelActors, roles |-> PanelRoles, quorum |-> 2],
     [procedure |-> "quorum_majority", actors |-> {}, roles |-> PanelRoles, quorum |-> 2],
     [procedure |-> "single_authority", actors |-> PanelActors, roles |-> {}, quorum |-> 1]}

\* Inbound events: good and bad signatures, two payloads under one id, events without an id, and
\* a provider whose name is written in a second way.
SomeDeliveries ==
    {d \in Delivery :
        \/ d.spelled = "acme" /\ d.signed /\ (d.id # None \/ d.payload \notin Unprojectable)
        \/ d.payload \notin Unprojectable /\ d.id # None /\ (d.signed \/ d.spelled = "acme")}

\* Tasks: each promises the artifact of its name.
Promised == [t \in Tasks |-> {t}]

-----------------------------------------------------------------------------
(* The sum.                                                                *)

Parts == {"human", "speed", "inbound", "links", "governance", "decisions", "allocations",
          "phases", "cycles"}

\* Where facts are not what it is about, they are these.
MildFacts == [risk |-> "low", bottleneck |-> "labor", deployment |-> "local", reversible |-> TRUE,
              sideEffect |-> FALSE, repeated |-> FALSE, private |-> FALSE, harm |-> FALSE, residual |-> FALSE]

RecordsInit ==
    /\ part \in Parts
    /\ \/ part = "speed" /\ EnvelopeInit
       \/ part # "speed" /\ facts = MildFacts
    /\ \/ part = "cycles"
       \/ part # "cycles" /\ awaits = [t \in Tasks |-> {}]
    /\ part = "governance" \/ leasesRequired = FALSE
    /\ HumanInit /\ InboundInit /\ LinkInit /\ GovernanceInit
    /\ CaseInit /\ AllocationInit /\ PhaseInit /\ CycleInit

RecordsNext ==
    /\ UNCHANGED part
    /\ \/ part = "human" /\ HumanNext
          /\ UNCHANGED <<facts, inboundVars, linkVars, governanceVars, caseVars,
                         allocationVars, phaseVars, cycleVars>>
       \/ part = "speed" /\ Restate
          /\ UNCHANGED <<humanVars, inboundVars, linkVars, governanceVars, caseVars,
                         allocationVars, phaseVars, cycleVars>>
       \/ part = "inbound" /\ InboundNext
          /\ UNCHANGED <<humanVars, facts, linkVars, governanceVars, caseVars,
                         allocationVars, phaseVars, cycleVars>>
       \/ part = "links" /\ LinkNext
          /\ UNCHANGED <<humanVars, facts, inboundVars, governanceVars, caseVars,
                         allocationVars, phaseVars, cycleVars>>
       \/ part = "governance" /\ GovernanceNext
          /\ UNCHANGED <<humanVars, facts, inboundVars, linkVars, caseVars,
                         allocationVars, phaseVars, cycleVars>>
       \/ part = "decisions" /\ CaseNext
          /\ UNCHANGED <<humanVars, facts, inboundVars, linkVars, governanceVars,
                         allocationVars, phaseVars, cycleVars>>
       \/ part = "allocations" /\ AllocationNext
          /\ UNCHANGED <<humanVars, facts, inboundVars, linkVars, governanceVars,
                         caseVars, phaseVars, cycleVars>>
       \/ part = "phases" /\ PhaseNext
          /\ UNCHANGED <<humanVars, facts, inboundVars, linkVars, governanceVars,
                         caseVars, allocationVars, cycleVars>>
       \/ part = "cycles" /\ CycleNext
          /\ UNCHANGED <<humanVars, facts, inboundVars, linkVars, governanceVars,
                         caseVars, allocationVars, phaseVars>>

recordsVars ==
    <<part, humanVars, facts, inboundVars, linkVars, governanceVars,
      caseVars, allocationVars, phaseVars, cycleVars>>

RecordsSpec == RecordsInit /\ [][RecordsNext]_recordsVars

RecordsSymmetry == Permutations(Callers) \cup Permutations(LinkIds) \cup Permutations(PanelRoles)
=============================================================================
