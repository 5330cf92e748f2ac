---- MODULE HydrationMC ----
(* Hydration for TLC: the hydrates under way have no order.                *)
EXTENDS Hydration, TLC
Symmetry == Permutations(Run)
====
