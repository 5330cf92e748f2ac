------------------------------ MODULE PtyHostMC ------------------------------
(* PtyHost on small instances; identities are interchangeable. *)
EXTENDS PtyHost, TLC

Symmetry ==
  Permutations(Tabs) \cup Permutations(Children) \cup Permutations(Holders)
=============================================================================
