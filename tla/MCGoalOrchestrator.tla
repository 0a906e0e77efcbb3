------------------------- MODULE MCGoalOrchestrator -------------------------
(* Instances of GoalOrchestrator for TLC. *)
EXTENDS GoalOrchestrator, TLC

CONSTANTS o1, o2

StageNames == <<"intake", "plan", "review", "signoff", "done">>
TypeConfig == [
    release |-> [gates |-> {1, 3, 4}, strict |-> {3}, terminal |-> {5}, entry |-> 2],
    sketch  |-> [gates |-> {}, strict |-> {}, terminal |-> {5}, entry |-> 2],
    audit   |-> [gates |-> {2, 4}, strict |-> {}, terminal |-> {5}, entry |-> 2],
    closing |-> [gates |-> {5}, strict |-> {}, terminal |-> {5}, entry |-> 2]]
TypeNames == DOMAIN TypeConfig
GoalLiveSpec == GoalSpec /\ GoalFairness
OperatorSymmetry == Permutations(Operators)
=============================================================================
