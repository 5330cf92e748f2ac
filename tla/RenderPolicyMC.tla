---- MODULE RenderPolicyMC ----
EXTENDS RenderPolicy

(* Which terminal and which addon is which makes no difference.            *)
Symmetry == Permutations(Term) \cup Permutations(Addon)
====
