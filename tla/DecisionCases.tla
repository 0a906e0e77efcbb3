---------------------------- MODULE DecisionCases ----------------------------
(***************************************************************************)
(* Decision aggregation cases (orchestration/decision_aggregation.py): the *)
(* positions that eligible actors take on a decision, and the              *)
(* recommendation that a procedure computes from them.  A case is a row of *)
(* one file without a lock.  A call that changes it reads the file twice,  *)
(* to look at the case and to write its row among the others as they then  *)
(* are, and rewrites it in two steps.                                      *)
(***************************************************************************)
EXTENDS RecordLog, Integers

CONSTANTS
    Clerks,       \* threads that serve requests
    CaseIds,
    Openings,     \* the cases that are opened: procedure, eligible actors and roles, quorum
    PanelActors,
    PanelRoles,
    MaxCaseCalls, \* bound: calls made
    MaxReopens    \* bound: openings under the id of a case that exists

Positions == {"approve", "reject", "abstain", "recuse", "veto"}
Procedures == {"single_authority", "quorum_majority", "veto", "unanimity"}

\* _eligible_slot_count
Slots(opening) ==
    Cardinality(IF opening.actors # {} THEN opening.actors ELSE opening.roles)

ASSUME OpeningsAssumption ==
    /\ Openings \subseteq [procedure : Procedures, actors : SUBSET PanelActors,
                           roles : SUBSET PanelRoles, quorum : Nat]
    /\ \A opening \in Openings : IsFiniteSet(opening.actors) /\ IsFiniteSet(opening.roles)

\* What is not there is no recommendation.
ASSUME ResultsAssumption == None \notin {"approve", "reject", "escalate"}

VARIABLES
    caseLog,   \* decision_aggregation_cases.jsonl
    caseCall,  \* caseCall[c]: the call c is in
    caseCalls, \* bound: calls made
    told,      \* history: what callers were told of a case
    reopens,   \* history: openings under the id of a case that existed
    caseRaced, \* history: a call was under way with another
    routed     \* escalations that were routed as signals

caseVars == <<caseLog, caseCall, caseCalls, told, reopens, caseRaced, routed>>

CaseInit ==
    /\ caseLog = Absent
    /\ caseCall = [c \in Clerks |-> None]
    /\ caseCalls = 0
    /\ told = {}
    /\ reopens = 0
    /\ caseRaced = FALSE
    /\ routed = {}

-----------------------------------------------------------------------------
(* Cases and procedures.                                                   *)

NewCase(i, opening) ==
    [id |-> i, terms |-> opening, status |-> "collecting", ballots |-> {}, result |-> None]

\* What open_decision_aggregation_case asks of the terms.
MayOpen(opening) ==
    /\ opening.actors # {} \/ opening.roles # {}
    /\ opening.quorum >= 1
    /\ opening.procedure = "single_authority" => opening.quorum = 1
    /\ opening.procedure = "unanimity" => opening.quorum = Slots(opening)

Eligible(case, ballot) ==
    /\ case.terms.actors # {} => ballot.actor \in case.terms.actors
    /\ case.terms.roles # {} => ballot.role \in case.terms.roles

\* Mutant: positions are taken as long as the case is not decided.
TakesBallot_Escalated(case, ballot) ==
    /\ case.status \in {"collecting", "escalated"}
    /\ Eligible(case, ballot)
    /\ \A b \in case.ballots : b.actor # ballot.actor \/ b.role # ballot.role

\* record_decision_position: one position of an actor in a role.
TakesBallot(case, ballot) ==
    /\ case.status = "collecting"
    /\ Eligible(case, ballot)
    /\ \A b \in case.ballots : b.actor # ballot.actor \/ b.role # ballot.role

Count(case, position) == Cardinality({b \in case.ballots : b.position = position})
Participants(case) == Count(case, "approve") + Count(case, "reject") + Count(case, "veto")

SingleAuthority(case) ==
    IF Participants(case) # 1 THEN "escalate"
    ELSE IF Count(case, "approve") = 1 THEN "approve" ELSE "reject"

Unanimity(case) ==
    IF Count(case, "veto") + Count(case, "reject") > 0 THEN "reject"
    ELSE IF /\ Count(case, "approve") >= case.terms.quorum
            /\ Count(case, "abstain") + Count(case, "recuse") = 0
         THEN "approve" ELSE "escalate"

Majority(case) ==
    IF Participants(case) < case.terms.quorum \/ Count(case, "approve") = Count(case, "reject")
    THEN "escalate"
    ELSE IF Count(case, "approve") > Count(case, "reject") THEN "approve" ELSE "reject"

\* _compute_result
Recommendation(case) ==
    CASE case.terms.procedure = "single_authority" -> SingleAuthority(case)
      [] case.terms.procedure = "unanimity" -> Unanimity(case)
      [] OTHER -> IF case.terms.procedure = "veto" /\ Count(case, "veto") > 0
                  THEN "reject" ELSE Majority(case)

\* compute_decision_aggregation_case
Computed(case) ==
    [case EXCEPT !.result = Recommendation(case),
                 !.status = IF Recommendation(case) = "escalate" THEN "escalated" ELSE "computed"]

-----------------------------------------------------------------------------
(* Calls.                                                                  *)

CaseAt(c, at) == caseCall[c] # None /\ caseCall[c].at = at
CaseGoes(c, at) == caseCall' = [caseCall EXCEPT ![c].at = at]
CaseEnds(c) == caseCall' = [caseCall EXCEPT ![c] = None]

BeginCase(c, call) ==
    /\ caseCalls < MaxCaseCalls
    /\ caseCall[c] = None
    /\ caseCalls' = caseCalls + 1
    /\ caseCall' = [caseCall EXCEPT ![c] = call]
    /\ caseRaced' = (caseRaced \/ \E d \in Clerks \ {c} : caseCall[d] # None)

\* open_decision_aggregation_case, under an id the caller gives.
OpenCase(c, i, opening) ==
    /\ MayOpen(opening)
    /\ BeginCase(c, [at |-> "read", id |-> i, what |-> "open", ballot |-> None,
                     row |-> NewCase(i, opening), rows |-> <<>>])
    /\ UNCHANGED <<caseLog, told, reopens, routed>>

\* record_decision_position, compute_decision_aggregation_case, route-escalation
UseCase(c, i, what, ballot) ==
    /\ BeginCase(c, [at |-> "get", id |-> i, what |-> what, ballot |-> ballot,
                     row |-> None, rows |-> <<>>])
    /\ UNCHANGED <<caseLog, told, reopens, routed>>

\* get_decision_aggregation_case, and what the call makes of the case it finds.
GetCase(c) ==
    /\ CaseAt(c, "get")
    /\ LET call == caseCall[c]
           case == FirstFor(RowsOf(caseLog), call.id)
       IN IF /\ Readable(caseLog) /\ Mentions(RowsOf(caseLog), call.id)
             /\ call.what = "position" => TakesBallot(case, call.ballot)
             /\ call.what = "route" => case.status = "escalated"
          THEN IF call.what = "route"
               THEN /\ routed' = routed \cup {[id |-> call.id, ballots |-> case.ballots]}
                    /\ CaseEnds(c)
               ELSE /\ caseCall' = [caseCall EXCEPT ![c].at = "read",
                           ![c].row = IF call.what = "compute" THEN Computed(case)
                                      ELSE [case EXCEPT !.ballots = @ \cup {call.ballot}]]
                    /\ UNCHANGED routed
          ELSE CaseEnds(c) /\ UNCHANGED routed
    /\ UNCHANGED <<caseLog, caseCalls, told, reopens, caseRaced>>

\* _upsert_case reads again: the row replaces the one of its id, or is added.
ReadCases(c) ==
    /\ CaseAt(c, "read")
    /\ LET call == caseCall[c]
           rows == RowsOf(caseLog)
           there == Readable(caseLog) /\ Mentions(rows, call.id)
       IN /\ call.what = "open" /\ there => reopens < MaxReopens
          /\ reopens' = IF call.what = "open" /\ there THEN reopens + 1 ELSE reopens
          /\ IF Readable(caseLog)
             THEN caseCall' = [caseCall EXCEPT ![c].at = "open",
                      ![c].rows = IF there THEN WithRow(rows, call.id, call.row)
                                  ELSE Append(rows, call.row)]
             ELSE CaseEnds(c)
    /\ UNCHANGED <<caseLog, caseCalls, told, caseRaced, routed>>

OpenCases(c) ==
    /\ CaseAt(c, "open")
    /\ caseLog' = <<>>
    /\ CaseGoes(c, "fill")
    /\ UNCHANGED <<caseCalls, told, reopens, caseRaced, routed>>

\* The caller is told of the position taken, or of the recommendation.
FillCases(c) ==
    /\ CaseAt(c, "fill")
    /\ LET call == caseCall[c] IN
       /\ caseLog' \in FilledOver(caseLog, call.rows)
       /\ told' = told \cup
            (CASE call.what = "position" -> {[id |-> call.id, ballot |-> call.ballot, result |-> None]}
               [] call.what = "compute" -> {[id |-> call.id, ballot |-> None, result |-> call.row.result]}
               [] OTHER -> {})
    /\ CaseEnds(c)
    /\ UNCHANGED <<caseCalls, reopens, caseRaced, routed>>

CaseOpenStep(c) == \E i \in CaseIds, opening \in Openings : OpenCase(c, i, opening)
PositionStep(c) ==
    \E i \in CaseIds, a \in PanelActors, r \in PanelRoles, p \in Positions :
        UseCase(c, i, "position", [actor |-> a, role |-> r, position |-> p])
CaseUseStep(c) == \E i \in CaseIds, what \in {"compute", "route"} : UseCase(c, i, what, None)

CaseNext == \E c \in Clerks :
    \/ CaseOpenStep(c) \/ PositionStep(c) \/ CaseUseStep(c)
    \/ GetCase(c) \/ ReadCases(c) \/ OpenCases(c) \/ FillCases(c)
CaseSpec == CaseInit /\ [][CaseNext]_caseVars

-----------------------------------------------------------------------------
(* Properties.                                                             *)

CasesIn(file) == IF file = Torn THEN {} ELSE ToSet(RowsOf(file))

\* Type invariant of the cases and the calls.
CaseTypeOK ==
    /\ \A case \in CasesIn(caseLog) :
          /\ case.id \in CaseIds /\ case.terms \in Openings
          /\ case.status \in {"collecting", "computed", "escalated"}
          /\ case.ballots \subseteq [actor : PanelActors, role : PanelRoles, position : Positions]
          /\ case.result \in {None, "approve", "reject", "escalate"}
    /\ \A c \in Clerks : caseCall[c] # None =>
          caseCall[c].at \in {"get", "read", "open", "fill"} /\ caseCall[c].id \in CaseIds
    /\ caseCalls \in 0 .. MaxCaseCalls /\ reopens \in 0 .. MaxReopens
    /\ caseRaced \in BOOLEAN

FitsThePositions(case) ==
    /\ (case.result = None) = (case.status = "collecting")
    /\ case.result # None => case.result = Recommendation(case)

\* The recommendation on a case is the one that its procedure gives for the
\* very positions that stand beside it, whatever calls overlapped: positions
\* are not taken any more once there is one.
ResultIsOfThePositions == \A case \in CasesIn(caseLog) : FitsThePositions(case)

\* decision-aggregation.md: "Any eligible veto position recommends reject",
\* and under unanimity so does any rejection, before a quorum is met or
\* after; and nothing is approved that as many oppose as support.
DissentDecides ==
    \A case \in CasesIn(caseLog) : case.result # None =>
        /\ case.terms.procedure \in {"veto", "unanimity"} /\ Count(case, "veto") > 0
             => case.result = "reject"
        /\ case.terms.procedure = "unanimity" /\ Count(case, "reject") > 0 => case.result = "reject"
        /\ case.result = "approve" =>
             Count(case, "approve") > Count(case, "reject") /\ Participants(case) >= case.terms.quorum

\* A position that was acknowledged counts, and no two recommendations are
\* ever given on a case, unless calls overlap or the case is opened again.
WhatWasToldStands ==
    ~caseRaced /\ reopens = 0 =>
        /\ \A t \in told : t.ballot # None /\ (\A c \in Clerks : caseCall[c] = None) =>
              \E case \in CasesIn(caseLog) : case.id = t.id /\ t.ballot \in case.ballots
        /\ \A t, u \in told : t.id = u.id /\ t.result # None /\ u.result # None => t.result = u.result

\* Stated, and violated: decision-aggregation.md, under unanimity "Every
\* eligible slot must approve".  An actor who speaks in two roles counts twice.
UnanimityIsUnanimous ==
    \A case \in CasesIn(caseLog) :
        case.terms.procedure = "unanimity" /\ case.result = "approve" =>
            \A a \in case.terms.actors : \E b \in case.ballots : b.actor = a

\* Stated, and violated: a case that is opened again under its id ("when
\* replay [...] or adapter idempotence requires stable references") is kept.
ReplayKeepsTheCase ==
    ~caseRaced =>
        \A t \in told : t.ballot # None /\ (\A c \in Clerks : caseCall[c] = None) =>
            \E case \in CasesIn(caseLog) : case.id = t.id /\ t.ballot \in case.ballots
=============================================================================
