--------------------------- MODULE MCOutboxRelay ---------------------------
(* Instances of OutboxRelay for TLC. *)
EXTENDS OutboxRelay, TLC

CONSTANTS p1, p2, q1, q2, q3, analyst, k1, k2

\* q1 and q2 ask for the same call; q2 is made by a role.
Asking == q1 :> None @@ q2 :> analyst @@ q3 :> analyst
Keys == q1 :> k1 @@ q2 :> k1 @@ q3 :> k2
RelayLiveSpec == RelaySpec /\ RelayFairness
=============================================================================
