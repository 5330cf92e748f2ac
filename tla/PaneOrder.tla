----------------------------- MODULE PaneOrder -----------------------------
(***************************************************************************)
(* What a renderer page may rely on when it sends ownership operations to  *)
(* the backend (paneIncarnations.ts: "A page owns one FIFO"): each one is  *)
(* applied once and in the order of issue, each is answered with its own   *)
(* result, and nothing of a page is applied after a successor has replaced *)
(* it.                                                                     *)
(*                                                                         *)
(* An operation of a page is its number, and so is its result.             *)
(***************************************************************************)
EXTENDS Naturals, Sequences

CONSTANT Pages    \* numbered in the order in which they are loaded

VARIABLES issued,   \* how many operations a page has sent
          log,      \* what the backend has applied of them
          answers,  \* the results a page was given
          ended     \* pages that were replaced

orderVars == <<issued, log, answers, ended>>

Init ==
  /\ issued = [p \in Pages |-> 0]
  /\ log = [p \in Pages |-> <<>>]
  /\ answers = [p \in Pages |-> <<>>]
  /\ ended = {}

Issue(p) ==
  /\ issued' = [issued EXCEPT ![p] = @ + 1]
  /\ UNCHANGED <<log, answers, ended>>

\* The first operation of a page is replace_page, which ends its predecessors.
Apply(p) ==
  /\ p \notin ended
  /\ Len(log[p]) < issued[p]
  /\ log' = [log EXCEPT ![p] = Append(@, Len(@) + 1)]
  /\ ended' = IF log[p] = <<>> THEN ended \cup {q \in Pages : q < p} ELSE ended
  /\ UNCHANGED <<issued, answers>>

Answer(p) ==
  /\ Len(answers[p]) < Len(log[p])
  /\ answers' = [answers EXCEPT ![p] = Append(@, log[p][Len(@) + 1])]
  /\ UNCHANGED <<issued, log, ended>>

Next == \E p \in Pages : Issue(p) \/ Apply(p) \/ Answer(p)

Spec == Init /\ [][Next]_orderVars
=============================================================================
