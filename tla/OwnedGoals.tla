----------------------------- MODULE OwnedGoals -----------------------------
(***************************************************************************)
(* What the principal is promised about a goal, whatever files, claims,    *)
(* gates and daemons there are: it is taken once, by one session, which    *)
(* has no other; only that session works on it, once; and it is done only  *)
(* after that.  A session may leave its goal at any time, done or not, and *)
(* nobody takes it over.  Module AgentDaemon is shown to implement this.   *)
(***************************************************************************)
CONSTANTS
    Goals,    \* what the principal has asked for
    Sessions, \* who may take it
    Nobody    \* no session

VARIABLES
    stage, \* stage[g]: waiting, taken, worked on, or done
    holder \* holder[g]: the session that has g

vars == <<stage, holder>>

Init ==
    /\ stage = [g \in Goals |-> "waiting"]
    /\ holder = [g \in Goals |-> Nobody]

Take(g, s) ==
    /\ stage[g] = "waiting"
    /\ \A h \in Goals : holder[h] # s
    /\ stage' = [stage EXCEPT ![g] = "taken"]
    /\ holder' = [holder EXCEPT ![g] = s]

Moves(g, from, to) ==
    /\ holder[g] # Nobody /\ stage[g] = from
    /\ stage' = [stage EXCEPT ![g] = to]
    /\ UNCHANGED holder

Work(g) == Moves(g, "taken", "worked")
Finish(g) == Moves(g, "worked", "done")

Leave(g) ==
    /\ holder[g] # Nobody
    /\ holder' = [holder EXCEPT ![g] = Nobody]
    /\ UNCHANGED stage

Next ==
    \E g \in Goals :
        \/ \E s \in Sessions : Take(g, s)
        \/ Work(g) \/ Finish(g) \/ Leave(g)

Spec == Init /\ [][Next]_vars
=============================================================================
