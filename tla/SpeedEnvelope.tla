--------------------------- MODULE SpeedEnvelope ---------------------------
(***************************************************************************)
(* The accountable speed of a piece of work                                *)
(* (orchestration/human_work.py, build_human_speed_envelope): a pure       *)
(* classification of the facts a caller states about the work.  The state  *)
(* is one set of facts and its envelope; a step restates one fact, as a    *)
(* caller does who learns more about the same work.                        *)
(***************************************************************************)
EXTENDS Naturals

VARIABLE facts

Risks == {"low", "medium", "high", "irreversible"}
Bottlenecks == {"authority", "access", "taste", "relationship", "cognition", "labor", "safety", "other"}
Deployments == {"local", "internal", "customer_facing", "regulated", "physical_world", "external_write"}

Values ==
    [risk |-> Risks, bottleneck |-> Bottlenecks, deployment |-> Deployments,
     reversible |-> BOOLEAN, sideEffect |-> BOOLEAN, repeated |-> BOOLEAN,
     private |-> BOOLEAN, harm |-> BOOLEAN, residual |-> BOOLEAN]

Facts == [risk : Risks, bottleneck : Bottlenecks, deployment : Deployments,
          reversible : BOOLEAN, sideEffect : BOOLEAN, repeated : BOOLEAN,
          private : BOOLEAN, harm : BOOLEAN, residual : BOOLEAN]

ExternalDeployments == {"regulated", "physical_world", "external_write"}
CustomerSideEffect(f) == f.deployment = "customer_facing" /\ f.sideEffect

HighExposure(f) ==
    \/ f.risk \in {"high", "irreversible"}
    \/ f.deployment \in ExternalDeployments
    \/ CustomerSideEffect(f)

GateNeeded(f) ==
    \/ f.risk = "irreversible"
    \/ HighExposure(f) /\ ~f.reversible
    \/ f.deployment \in ExternalDeployments
    \/ CustomerSideEffect(f)
    \/ f.risk = "high" /\ f.sideEffect

JudgmentBottlenecks == {"authority", "taste", "relationship", "safety"}
HumanJudgment(f) == f.private \/ f.bottleneck \in JudgmentBottlenecks

Sampled(f) == f.repeated \/ f.risk = "medium" \/ f.deployment = "customer_facing"

\* Mutant: a gate comes before the closure.
SpeedClass_GateFirst(f) ==
    IF GateNeeded(f) THEN "gate_before_action"
    ELSE IF f.harm \/ f.residual THEN "accountable_closure"
    ELSE IF HumanJudgment(f) THEN "batched_human_review"
    ELSE IF Sampled(f) THEN "sampled_review"
    ELSE "agent_speed"

\* The first class that applies.
SpeedClass(f) ==
    IF f.harm \/ f.residual THEN "accountable_closure"
    ELSE IF GateNeeded(f) THEN "gate_before_action"
    ELSE IF HumanJudgment(f) THEN "batched_human_review"
    ELSE IF Sampled(f) THEN "sampled_review"
    ELSE "agent_speed"

EnvelopeInit == facts \in Facts
Restate == \E field \in DOMAIN Values : \E value \in Values[field] :
               facts' = [facts EXCEPT ![field] = value]
EnvelopeSpec == EnvelopeInit /\ [][Restate]_facts

-----------------------------------------------------------------------------
EnvelopeTypeOK == facts \in Facts

Speed == [agent_speed |-> 4, sampled_review |-> 3, batched_human_review |-> 2,
          gate_before_action |-> 1, accountable_closure |-> 0]

RiskRank == [low |-> 0, medium |-> 1, high |-> 2, irreversible |-> 3]

\* g states a risk that is no lower.  That of medium to high is left out: work
\* of high risk that no other branch takes falls through to agent speed, where
\* medium risk is sampled (AgentSpeedIsForMildWork, below).
NoLowerRisk(f, g) ==
    /\ RiskRank[f.risk] <= RiskRank[g.risk]
    /\ ~(f.risk = "medium" /\ g.risk = "high")

\* g states no milder facts than f.
AtLeastAsExposed(f, g) ==
    /\ NoLowerRisk(f, g)
    /\ g.bottleneck = f.bottleneck \/ f.bottleneck \notin JudgmentBottlenecks
    /\ g.deployment = f.deployment \/ g.deployment \in ExternalDeployments
       \/ f.deployment \in {"local", "internal"}
    /\ g.reversible => f.reversible
    /\ f.sideEffect => g.sideEffect
    /\ f.repeated => g.repeated
    /\ f.private => g.private
    /\ f.harm => g.harm
    /\ f.residual => g.residual

\* Restating one fact for the worse never makes the work faster, but for a
\* medium risk that is restated as high: no branch of the classification hides
\* a slower one that also applies.
ExposureIsNeverFaster ==
    [][AtLeastAsExposed(facts, facts') => Speed[SpeedClass(facts')] <= Speed[SpeedClass(facts)]]_facts

\* Work that goes out, or cannot be taken back at high exposure, waits for a
\* gate, or is past it and in closure.
ExposedWorkIsGated ==
    HighExposure(facts) /\ (~facts.reversible \/ facts.sideEffect \/ facts.risk = "irreversible")
        => SpeedClass(facts) \in {"gate_before_action", "accountable_closure"}

\* Stated, and violated: agent speed is for reversible work of low risk.
AgentSpeedIsForMildWork ==
    SpeedClass(facts) = "agent_speed" => facts.reversible /\ facts.risk = "low"
=============================================================================
