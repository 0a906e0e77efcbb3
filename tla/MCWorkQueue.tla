----------------------------- MODULE MCWorkQueue -----------------------------
(* Instances of WorkQueue for TLC. *)
EXTENDS WorkQueue, TLC

CONSTANTS w1, w2, k1, a1, a2, worker, stranger, build, review, shipped, escalated

MCKind1 == [w \in Works |-> build]
MCKind2 == (w1 :> build) @@ (w2 :> review)
MCPriority == [w \in Works |-> IF w = w2 THEN 1 ELSE 0]

\* A contract that names its workers and governs an exit, one that leaves both
\* open and does not accept the work kind "review".
Strict ==
    [kinds |-> Kinds, exits |-> Exits, governed |-> {escalated},
     workers |-> {worker}, status |-> "active"]
Loose ==
    [kinds |-> {build}, exits |-> {shipped}, governed |-> {},
     workers |-> {}, status |-> "active"]

PoolContract == {[Strict EXCEPT !.governed = {}]}
OneContract  == {Strict}
TwoContracts == {Strict, Loose}

Symmetry == Permutations(Actors)
=============================================================================
