--------------------------- MODULE HostLifecycleMC ---------------------------
(* HostLifecycle on small instances; identities are interchangeable. *)
EXTENDS HostLifecycle, TLC

Symmetry == Permutations(Siblings)
=============================================================================
