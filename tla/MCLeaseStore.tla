---------------------------- MODULE MCLeaseStore ----------------------------
(* Instances of LeaseStore for TLC. *)
EXTENDS LeaseStore, TLC

CONSTANTS i1, i2, i3, r1, r2, a1, a2

Symmetry == Permutations(Actors) \cup Permutations(Ids)
=============================================================================
