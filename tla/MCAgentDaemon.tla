--------------------------- MODULE MCAgentDaemon ---------------------------
(* Instances of AgentDaemon for TLC. *)
EXTENDS AgentDaemon, TLC

CONSTANTS s1, s2, g1, g2

ByPriority == <<g1, g2>>
Scopes == g1 :> "auto" @@ g2 :> "ask"
OneGoal == <<g1>>
AskFirst == g1 :> "ask"
AutoOne == g1 :> "auto"
DaemonLiveSpec == DaemonSpec /\ DaemonFairness
SessionSymmetry == Permutations(Sessions)
=============================================================================
