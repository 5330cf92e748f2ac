----------------------------- MODULE PaneStream -----------------------------
(***************************************************************************)
(* How the ownership operations of a renderer page reach the backend: the  *)
(* FIFO of paneIncarnations.ts, its pump with one attempt at a time, the   *)
(* timer that gives an attempt up and the one that retries, and at the     *)
(* other end the page's stream of pane_op (host_keys/panes.rs), which      *)
(* remembers the last result.                                              *)
(*                                                                         *)
(* Between them are invokes that may be slow, overtake one another, be     *)
(* rejected before or after they took effect, or never return.  Windows    *)
(* reload: page p + 1 is loaded once page p was unloaded, which does not    *)
(* call back what page p has sent.                                         *)
(*                                                                         *)
(* An operation and its result are the number of the operation in its      *)
(* page; the first one is replace_page.                                    *)
(***************************************************************************)
EXTENDS Naturals, Sequences, FiniteSets

CONSTANTS Pages,      \* of one window, numbered in the order of their loading
          MaxOps,     \* bounds the operations of a page
          MaxFaults   \* bounds lost, rejected and slow invokes and resync events

ASSUME PaneStreamAssumption ==
  /\ Pages \subseteq Nat /\ IsFiniteSet(Pages)
  /\ MaxOps \in Nat /\ MaxFaults \in Nat

VARIABLES
  status,   \* of the client: not yet loaded, open, or stopped
  issued,   \* its sequence
  answers,  \* the results its promises were resolved with (history)
  attempt,  \* the count that tells the current invoke from given up ones
  phase,    \* sending and timer: idle, retry (50 ms), awaits (registration and
            \* operation), called (1 s)
  page,     \* of the backend: not registered, live, or ended
  next, last,  \* Stream: the next sequence number, the last one with its result
  log,      \* what the backend has applied (history)
  calls,    \* invokes of pane_op under way
  faults    \* how many faults have struck (bound)

clientVars == <<status, issued, answers, attempt, phase>>
serverVars == <<page, next, last, log>>
vars == <<status, issued, answers, attempt, phase, page, next, last, log, calls, faults>>

Call == [page : Pages, attempt : Nat, seq : Nat,
         state : {"request", "ack", "resync", "error"}, result : Nat]

TypeOK ==
  /\ status \in [Pages -> {"unloaded", "open", "stopped"}]
  /\ issued \in [Pages -> Nat]
  /\ answers \in [Pages -> Seq(Nat)]
  /\ attempt \in [Pages -> Nat]
  /\ phase \in [Pages -> {"idle", "retry", "awaits", "called"}]
  /\ page \in [Pages -> {"absent", "live", "ended"}]
  /\ next \in [Pages -> Nat]
  /\ last \in [Pages -> [seq : Nat, result : Nat]]
  /\ log \in [Pages -> Seq(Nat)]
  /\ calls \subseteq Call
  /\ faults \in Nat

Init ==
  /\ status = [p \in Pages |-> "unloaded"]
  /\ issued = [p \in Pages |-> 0]
  /\ answers = [p \in Pages |-> <<>>]
  /\ attempt = [p \in Pages |-> 0]
  /\ phase = [p \in Pages |-> "idle"]
  /\ page = [p \in Pages |-> "absent"]
  /\ next = [p \in Pages |-> 1]
  /\ last = [p \in Pages |-> [seq |-> 0, result |-> 0]]
  /\ log = [p \in Pages |-> <<>>]
  /\ calls = {}
  /\ faults = 0

-----------------------------------------------------------------------------
(* The client                                                                *)

\* queue: what was issued and not answered. Its head is the operation that is sent.
HeadSeq(p) == Len(answers[p]) + 1
Queued(p, n) == Len(answers[p]) < n

\* pump(), as every handler that may call it finds the page: with something queued
\* the head starts a new attempt.
Pump(p, from, queued) ==
  /\ phase' = [phase EXCEPT ![p] = IF queued THEN "awaits" ELSE "idle"]
  /\ attempt' = [attempt EXCEPT ![p] = IF queued THEN from + 1 ELSE from]

Strike == faults < MaxFaults /\ faults' = faults + 1

Load(p) ==
  /\ status[p] = "unloaded"
  /\ \A q \in Pages : q < p => status[q] = "stopped"
  /\ status' = [status EXCEPT ![p] = "open"]
  /\ UNCHANGED <<issued, answers, attempt, phase, serverVars, calls, faults>>

\* start() and register_page. A page that is unloaded before its registration is
\* answered sends nothing, and is left out.
Register(p) ==
  /\ status[p] = "open" /\ page[p] = "absent"
  /\ page' = [page EXCEPT ![p] = "live"]
  /\ UNCHANGED <<clientVars, next, last, log, calls, faults>>

\* send(): an operation joins the queue; the pump starts unless it is busy or waits.
Issue(p) ==
  /\ status[p] = "open" /\ issued[p] < MaxOps
  /\ issued' = [issued EXCEPT ![p] = @ + 1]
  /\ IF phase[p] = "idle" THEN Pump(p, attempt[p], TRUE) ELSE UNCHANGED <<attempt, phase>>
  /\ UNCHANGED <<status, answers, serverVars, calls, faults>>

\* pump() after its awaits: the head goes out, and a second is given to it.
Invoke(p) ==
  /\ phase[p] = "awaits" /\ page[p] # "absent"
  /\ phase' = [phase EXCEPT ![p] = "called"]
  /\ calls' = calls \cup {[page |-> p, attempt |-> attempt[p], seq |-> HeadSeq(p),
                            state |-> "request", result |-> 0]}
  /\ UNCHANGED <<status, issued, answers, attempt, serverVars, faults>>

MutIsCurrent(c) == status[c.page] = "open" /\ phase[c.page] = "called"

\* A reply counts if no later attempt was begun and the page is not stopped.
IsCurrent(c) == status[c.page] = "open" /\ c.attempt = attempt[c.page]

\* pump() after the invoke: an Ack resolves the head and the next one follows at
\* once; a Resync or a rejected invoke is tried again in 50 ms.
Receive(c) ==
  LET p == c.page IN
  /\ c.state # "request"
  /\ calls' = calls \ {c}
  /\ IF ~IsCurrent(c) THEN UNCHANGED <<answers, attempt, phase>>
     ELSE IF c.state = "ack"
     THEN /\ answers' = [answers EXCEPT ![p] = Append(@, c.result)]
          /\ Pump(p, attempt[p], Len(answers[p]) + 1 < issued[p])
     ELSE /\ phase' = [phase EXCEPT ![p] = "retry"]
          /\ UNCHANGED <<answers, attempt>>
  /\ UNCHANGED <<status, issued, serverVars, faults>>

MutRetry(p) ==     \* the timer is cleared and nothing pumps
  /\ phase[p] = "retry"
  /\ phase' = [phase EXCEPT ![p] = "idle"]
  /\ UNCHANGED <<status, issued, answers, attempt, serverVars, calls, faults>>

\* The 50 ms have passed.
Retry(p) ==
  /\ phase[p] = "retry"
  /\ Pump(p, attempt[p], Queued(p, issued[p]))
  /\ UNCHANGED <<status, issued, answers, serverVars, calls, faults>>

\* resync(): give the current attempt up and pump again.
Resync(p) ==
  /\ Pump(p, attempt[p] + 1, Queued(p, issued[p]))
  /\ UNCHANGED <<status, issued, answers, serverVars, calls>>

\* The second has passed, since the invoke does not return, or is slow.
Lost(p) == \A c \in calls : c.page = p => c.attempt # attempt[p]

MutTimesOut(p) ==     \* gives up and does not pump
  /\ phase[p] = "called"
  /\ IF Lost(p) THEN UNCHANGED faults ELSE Strike
  /\ phase' = [phase EXCEPT ![p] = "idle"]
  /\ attempt' = [attempt EXCEPT ![p] = @ + 1]
  /\ UNCHANGED <<status, issued, answers, serverVars, calls>>

TimesOut(p) ==
  /\ phase[p] = "called"
  /\ IF Lost(p) THEN UNCHANGED faults ELSE Strike
  /\ Resync(p)

\* An await of the pump fails before the head was sent.
OpFails(p) ==
  /\ phase[p] = "awaits" /\ Strike
  /\ phase' = [phase EXCEPT ![p] = "retry"]
  /\ UNCHANGED <<status, issued, answers, attempt, serverVars, calls>>

\* The event pane:resync.
ResyncEvent(p) == status[p] = "open" /\ Strike /\ Resync(p)

\* stop(): the page is unloaded, and its promises are rejected. What it has sent
\* stays on its way.
Stop(p) ==
  /\ status[p] = "open"
  /\ status' = [status EXCEPT ![p] = "stopped"]
  /\ attempt' = [attempt EXCEPT ![p] = @ + 1]
  /\ phase' = [phase EXCEPT ![p] = "idle"]
  /\ UNCHANGED <<issued, answers, serverVars, calls, faults>>

-----------------------------------------------------------------------------
(* The backend, under the lock of HostKeys, and the way there and back       *)

Reply(c, state, result) ==
  calls' = (calls \ {c}) \cup {[c EXCEPT !.state = state, !.result = result]}

\* sender(): the page is no longer live.
Refused(c) ==
  /\ page[c.page] # "live"
  /\ Reply(c, "error", 0)
  /\ UNCHANGED serverVars

\* The request of the last operation once more: its result again.
AnsweredBefore(c) ==
  /\ page[c.page] = "live" /\ last[c.page].seq = c.seq
  /\ Reply(c, "ack", last[c.page].result)
  /\ UNCHANGED serverVars

OutOfTurn(c) ==
  /\ page[c.page] = "live" /\ last[c.page].seq # c.seq /\ next[c.page] # c.seq
  /\ Reply(c, "resync", 0)
  /\ UNCHANGED serverVars

\* apply_pane_op: replace_page ends the pages loaded before. One that never
\* registered has nothing to end.
Applied(c) ==
  LET p == c.page IN
  /\ page[p] = "live" /\ last[p].seq # c.seq /\ next[p] = c.seq
  /\ log' = [log EXCEPT ![p] = Append(@, c.seq)]
  /\ next' = [next EXCEPT ![p] = @ + 1]
  /\ last' = [last EXCEPT ![p] = [seq |-> c.seq, result |-> c.seq]]
  /\ page' = IF c.seq = 1 THEN [q \in Pages |-> IF q < p THEN "ended" ELSE page[q]] ELSE page
  /\ Reply(c, "ack", c.seq)

Serve(c) ==
  /\ c.state = "request"
  /\ Refused(c) \/ AnsweredBefore(c) \/ OutOfTurn(c) \/ Applied(c)
  /\ UNCHANGED <<clientVars, faults>>

\* An invoke that never returns, before it was served or after.
Lose(c) ==
  /\ Strike
  /\ calls' = calls \ {c}
  /\ UNCHANGED <<clientVars, serverVars>>

\* An invoke that is rejected on its way, before it was served or after.
Reject(c) ==
  /\ Strike /\ c.state # "error"
  /\ Reply(c, "error", 0)
  /\ UNCHANGED <<clientVars, serverVars>>

-----------------------------------------------------------------------------
PageStep == \E p \in Pages :
  Load(p) \/ Register(p) \/ Issue(p) \/ Invoke(p) \/ Retry(p)
  \/ TimesOut(p) \/ OpFails(p) \/ ResyncEvent(p) \/ Stop(p)

CallStep == \E c \in calls : Receive(c) \/ Serve(c) \/ Lose(c) \/ Reject(c)

\* Every page was unloaded and nothing is on its way.
Over == calls = {} /\ (\A p \in Pages : status[p] = "stopped") /\ UNCHANGED vars

Next == PageStep \/ CallStep \/ Over

Spec == Init /\ [][Next]_vars

(* Timers fire, registrations are answered, and an invoke that is neither  *)
(* lost nor rejected is served and returns.                                *)
FairSpec ==
  /\ Spec
  /\ \A p \in Pages : /\ WF_vars(Register(p)) /\ WF_vars(Invoke(p)) /\ WF_vars(Retry(p))
                      /\ WF_vars(Lost(p) /\ TimesOut(p))
  /\ WF_vars(\E c \in calls : Receive(c) \/ Serve(c))

-----------------------------------------------------------------------------
(* Properties                                                                *)

(* The pump never rests with something queued, and never has two invokes   *)
(* of one attempt under way, which is what makes the count tell a reply to *)
(* the head from the late reply to a given up one.                         *)
PumpSound ==
  /\ TypeOK
  /\ \A p \in Pages : status[p] = "open" /\ Queued(p, issued[p]) => phase[p] # "idle"
  /\ \A c, d \in calls : c.page = d.page /\ c.attempt = d.attempt => c = d

(* The stream keeps the promise of PaneOrder: whatever is lost, repeated,  *)
(* slow or overtaken, an operation is applied once and in order, answered  *)
(* with its own result, and not applied after its page was replaced        *)
(* (pane_op_at, pump).                                                     *)
Order == INSTANCE PaneOrder WITH ended <- {p \in Pages : page[p] = "ended"}
ImplementsOrder == Order!Spec

(* Once faults cease, the queue of a page that stays loaded is answered to *)
(* its end; no lost, late or rejected reply leaves it stuck.               *)
EveryOpAnswered == \A p \in Pages :
  Queued(p, issued[p]) ~> ~Queued(p, issued[p]) \/ status[p] = "stopped"
=============================================================================
