----------------------------- MODULE HostTableMC -----------------------------
(* HostTable on small instances; identities are interchangeable. *)
EXTENDS HostTable, TLC

Symmetry == Permutations(Channels) \cup Permutations(Ops) \cup Permutations(Closers)
              \cup Permutations(Drainers) \cup Permutations(Conns) \cup Permutations(Tickers)
=============================================================================
