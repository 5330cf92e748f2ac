---- MODULE WorkspaceMC ----
(* Workspace for TLC: the ids of tabs have no order.                       *)
EXTENDS Workspace
Symmetry == Permutations(Tab)
====
