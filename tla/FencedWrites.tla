---------------------------- MODULE FencedWrites ----------------------------
(***************************************************************************)
(* What a transactional mutation backend promises: a resource is granted   *)
(* to one actor at a time under a growing epoch, a grant ends at any time, *)
(* and a write lands only under the grant in force when it lands.          *)
(***************************************************************************)
EXTENDS Naturals, Sequences

CONSTANTS
    Resources,  \* what is written
    Actors,     \* who writes
    NoActor     \* nobody

VARIABLES
    epoch,   \* epoch[r]: grants of r so far
    holder,  \* holder[r]: the actor whose grant is in force
    log      \* log[r]: the epochs of the writes to r, in order

vars == <<epoch, holder, log>>

Init ==
    /\ epoch = [r \in Resources |-> 0]
    /\ holder = [r \in Resources |-> NoActor]
    /\ log = [r \in Resources |-> <<>>]

Grant(r, a) ==
    /\ holder[r] = NoActor
    /\ epoch' = [epoch EXCEPT ![r] = @ + 1]
    /\ holder' = [holder EXCEPT ![r] = a]
    /\ UNCHANGED log

\* Grants run out or are given back, several at once when time passes.
End(S) ==
    /\ \A r \in S : holder[r] # NoActor
    /\ holder' = [r \in Resources |-> IF r \in S THEN NoActor ELSE holder[r]]
    /\ UNCHANGED <<epoch, log>>

Write(r) ==
    /\ holder[r] # NoActor
    /\ log' = [log EXCEPT ![r] = Append(@, epoch[r])]
    /\ UNCHANGED <<epoch, holder>>

Next ==
    \/ \E r \in Resources : Write(r) \/ \E a \in Actors : Grant(r, a)
    \/ \E S \in SUBSET Resources : End(S)

Spec == Init /\ [][Next]_vars
=============================================================================
