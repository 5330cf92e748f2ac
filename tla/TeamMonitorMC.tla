---- MODULE TeamMonitorMC ----
(* TeamMonitor for TLC: the handlers in flight have no order.  Two of them  *)
(* overlap only while the team runs and is not paused, and one of the two   *)
(* asks about an agent or hands out a verdict: the others change nothing    *)
(* but a status.  Pauses go on only while the team runs.                   *)
EXTENDS TeamMonitor, TLC
Symmetry == Permutations(Slot)
Runs == phase = "run" /\ closing = "no"
Paused == paused \/ notice
OverlapBound ==
  /\ Paused => Runs
  /\ \/ \E s \in Slot : flight[s] = Free
     \/ Runs /\ ~Paused /\ \E s \in Slot : flight[s].kind \in {"check", "reply"}
====
