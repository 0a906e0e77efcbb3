---------------------------- MODULE PhaseExecution ----------------------------
(***************************************************************************)
(* Phase execution plans (orchestration/phase_execution.py): strategy,     *)
(* execution and verification of a piece of work within a number of        *)
(* attempts and a budget that decays.  A plan is what its events add up to *)
(* (_project), in a log that is only appended to: the plan is kept here,   *)
(* and an event changes it as it lands.  A call looks at the plan first,   *)
(* and its event lands at any time after.                                  *)
(***************************************************************************)
EXTENDS KernelBase, Integers

CONSTANTS
    Verifiers,     \* threads that serve requests
    PlanIds,
    Budgets,       \* budgets, in units above the floor
    AttemptLimits, \* values of max_attempts
    MaxPhaseCalls, \* bound: calls made
    MaxRestarts    \* bound: starts under the id of a plan that exists

ASSUME PhaseAssumption ==
    /\ Budgets \subseteq Nat \ {0} /\ AttemptLimits \subseteq Nat \ {0}
    /\ IsFiniteSet(Verifiers)
    /\ MaxPhaseCalls \in Nat

VARIABLES
    plans,       \* plans[i]: what the events of plan i add up to
    phaseCall,   \* phaseCall[c]: the call c is in
    phaseCalls,  \* bound: calls made
    restarts,    \* history: starts under the id of a plan that existed
    phaseRaced   \* history: a call was under way with another

phaseVars == <<plans, phaseCall, phaseCalls, restarts, phaseRaced>>

Phases == {"strategy", "execution", "verification"}
FeedbackVerdicts == {"passed", "failed", "blocked", "inconclusive"}

PhasePlan ==
    [status : {"active", "passed", "blocked"}, phase : Phases, remaining : Nat,
     limit : AttemptLimits, attempts : Nat]

ASSUME NoneIsNoPlan == None \notin PhasePlan

PhaseInit ==
    /\ plans = [i \in PlanIds |-> None]
    /\ phaseCall = [c \in Verifiers |-> None]
    /\ phaseCalls = 0
    /\ restarts = 0
    /\ phaseRaced = FALSE

-----------------------------------------------------------------------------
(* The plan that the events add up to.                                     *)

NewPlan(budget, limit) ==
    [status |-> "active", phase |-> "strategy", remaining |-> budget, limit |-> limit, attempts |-> 0]

\* Mutant: the last attempt is one too many.
AfterFailure_OneMore(plan, verdict, after) ==
    LET stops == verdict = "blocked" \/ plan.attempts >= plan.limit \/ after = 0 IN
    [plan EXCEPT !.attempts = @ + 1, !.remaining = after,
                 !.status = IF stops THEN "blocked" ELSE "active",
                 !.phase = IF stops THEN "verification" ELSE "execution"]

\* Feedback that did not pass takes an attempt, and ends the last one.
AfterFailure(plan, verdict, after) ==
    LET stops == verdict = "blocked" \/ plan.attempts + 1 >= plan.limit \/ after = 0 IN
    [plan EXCEPT !.attempts = @ + 1, !.remaining = after,
                 !.status = IF stops THEN "blocked" ELSE "active",
                 !.phase = IF stops THEN "verification" ELSE "execution"]

\* _project, at one more event
AfterEvent(plan, event) ==
    CASE event.what = "started" -> NewPlan(event.after, event.limit)
      [] event.what = "directive" -> [plan EXCEPT !.phase = event.phase]
      [] event.what = "passed" -> [plan EXCEPT !.status = "passed", !.phase = "verification"]
      [] OTHER -> AfterFailure(plan, event.what, event.after)

-----------------------------------------------------------------------------
(* Calls.                                                                  *)

BeginPhase(c, call) ==
    /\ phaseCalls < MaxPhaseCalls
    /\ phaseCall[c] = None
    /\ phaseCalls' = phaseCalls + 1
    /\ phaseCall' = [phaseCall EXCEPT ![c] = call]
    /\ phaseRaced' = (phaseRaced \/ \E d \in Verifiers \ {c} : phaseCall[d] # None)

\* start_phase_execution_plan appends without a look at the plan.
StartPlan(c, i, budget, limit) ==
    /\ plans[i] # None => restarts < MaxRestarts
    /\ BeginPhase(c, [plan |-> i, what |-> "started", phase |-> None, after |-> budget, limit |-> limit])
    /\ UNCHANGED <<plans, restarts>>

\* record_phase_directive, on an active plan
Direct(c, i, phase) ==
    /\ plans[i] # None /\ plans[i].status = "active"
    /\ BeginPhase(c, [plan |-> i, what |-> "directive", phase |-> phase, after |-> 0, limit |-> 0])
    /\ UNCHANGED <<plans, restarts>>

\* record_verification_feedback: what is left of the budget, all of it, some
\* or nothing, is worked out from the plan as it was read.
Verify(c, i, verdict, after) ==
    /\ plans[i] # None /\ plans[i].status = "active"
    /\ verdict = "passed" => after = plans[i].remaining
    /\ BeginPhase(c, [plan |-> i, what |-> verdict, phase |-> None, after |-> after, limit |-> 0])
    /\ UNCHANGED <<plans, restarts>>

\* _append_event
AppendPhase(c) ==
    /\ phaseCall[c] # None
    /\ LET event == phaseCall[c] IN
       /\ plans' = [plans EXCEPT ![event.plan] = AfterEvent(@, event)]
       /\ restarts' = IF event.what = "started" /\ plans[event.plan] # None
                      THEN restarts + 1 ELSE restarts
    /\ phaseCall' = [phaseCall EXCEPT ![c] = None]
    /\ UNCHANGED <<phaseCalls, phaseRaced>>

StartStep(c) == \E i \in PlanIds, budget \in Budgets, limit \in AttemptLimits : StartPlan(c, i, budget, limit)
DirectStep(c) == \E i \in PlanIds, phase \in Phases : Direct(c, i, phase)
VerifyStep(c) ==
    \E i \in PlanIds, verdict \in FeedbackVerdicts :
        plans[i] # None /\ \E after \in 0 .. plans[i].remaining : Verify(c, i, verdict, after)

PhaseNext == \E c \in Verifiers :
    StartStep(c) \/ DirectStep(c) \/ VerifyStep(c) \/ AppendPhase(c)
PhaseSpec == PhaseInit /\ [][PhaseNext]_phaseVars

-----------------------------------------------------------------------------
(* Properties.                                                             *)

KnownPlans == {i \in PlanIds : plans[i] # None}

PhaseEvent ==
    [plan : PlanIds, what : {"started"}, phase : {None}, after : Budgets, limit : AttemptLimits]
        \cup [plan : PlanIds, what : {"directive"}, phase : Phases, after : {0}, limit : {0}]
        \cup [plan : PlanIds, what : FeedbackVerdicts, phase : {None}, after : Nat, limit : {0}]

\* Type invariant of the plans and the calls.
PhaseTypeOK ==
    /\ plans \in [PlanIds -> PhasePlan \cup {None}]
    /\ phaseCall \in [Verifiers -> PhaseEvent \cup {None}]
    /\ phaseCalls \in 0 .. MaxPhaseCalls /\ restarts \in Nat /\ phaseRaced \in BOOLEAN

\* phase-execution.md: a plan is blocked "when attempts or budget are
\* exhausted".  A plan that goes on has both, whatever calls overlap, and no
\* more attempts are ever counted than the limit and the calls that were
\* already under way when it was reached.
PlansAreBounded ==
    \A i \in KnownPlans :
        /\ plans[i].status = "active" => plans[i].attempts < plans[i].limit /\ plans[i].remaining > 0
        /\ plans[i].attempts < plans[i].limit + Cardinality(Verifiers)

\* Between calls that do not overlap, a plan that is passed or blocked is over,
\* and its budget never grows.
SerialPlansClose ==
    [][~phaseRaced' => \A i \in KnownPlans :
        restarts' = restarts =>
            /\ plans[i].status # "active" => plans'[i] = plans[i]
            /\ plans'[i].remaining <= plans[i].remaining]_phaseVars

\* Stated, and violated: nothing is recorded on a plan that is not active
\* ("cannot record feedback for [...] plan").  Feedback that was under way
\* when the plan passed or was blocked makes it active again.
ClosedPlansStayClosed ==
    [][\A i \in KnownPlans :
        restarts' = restarts /\ plans[i].status # "active" => plans'[i].status # "active"]_phaseVars

\* Stated, and violated: phase-execution.md, feedback decays the budget.
\* Feedback that rests on an older plan puts back what others have taken.
BudgetNeverGrows ==
    [][\A i \in KnownPlans : restarts' = restarts => plans'[i].remaining <= plans[i].remaining]_phaseVars
=============================================================================
