-------------------------- MODULE PaneStream_proofs --------------------------
(***************************************************************************)
(* PaneStream implements PaneOrder, for any number of pages, operations and *)
(* faults.  The argument: the backend is never more than one operation     *)
(* ahead of the answers a page was given, so a request is either the next  *)
(* operation, the last one again, or late; and of the invokes under way at *)
(* most one is of the current attempt, and it is for the head.             *)
(***************************************************************************)
EXTENDS PaneStream, TLAPS

(* What is applied and answered of a page, and what its pump is about.     *)
Exact(p) ==
  /\ Len(log[p]) = next[p] - 1
  /\ \A i \in 1 .. Len(log[p]) : log[p][i] = i
  /\ last[p] = [seq |-> next[p] - 1, result |-> next[p] - 1]

Ahead(p) ==
  /\ Len(answers[p]) <= Len(log[p])
  /\ Len(log[p]) <= Len(answers[p]) + 1
  /\ Len(log[p]) <= issued[p]

Pumping(p) ==
  /\ phase[p] \in {"awaits", "called"} => Len(answers[p]) < issued[p]
  /\ phase[p] = "idle" /\ status[p] # "stopped" => issued[p] = Len(answers[p])

(* An invoke under way: never ahead of the queue; of the current attempt,  *)
(* the head; acknowledged, with its own result.                            *)
CallSound(c) ==
  /\ c.attempt <= attempt[c.page]
  /\ 1 <= c.seq /\ c.seq <= issued[c.page] /\ c.seq <= Len(answers[c.page]) + 1
  /\ c.attempt = attempt[c.page] =>
       c.seq = Len(answers[c.page]) + 1 /\ phase[c.page] = "called"
  /\ c.state = "ack" => c.result = c.seq /\ c.seq <= Len(log[c.page])

OneOfAnAttempt == \A c, d \in calls : c.page = d.page /\ c.attempt = d.attempt => c = d

IInv ==
  /\ TypeOK
  /\ \A p \in Pages : Exact(p)
  /\ \A p \in Pages : Ahead(p)
  /\ \A p \in Pages : Pumping(p)
  /\ \A c \in calls : CallSound(c)
  /\ OneOfAnAttempt

LEMMA InitIInv == Init => IInv
BY DEF Init, IInv, TypeOK, Call, Exact, Ahead, Pumping, CallSound, OneOfAnAttempt

(* What the steps of a client have in common, sending aside: they change    *)
(* neither what was applied and answered nor the invokes, and the pump      *)
(* keeps to its head (f is its phase) or begins another attempt, m.         *)
Turn(p, n, m, f) ==
  /\ UNCHANGED <<answers, next, last, log, calls>>
  /\ \A q \in Pages : q # p => status'[q] = status[q]
  /\ issued' = [issued EXCEPT ![p] = n] /\ n >= issued[p]
  /\ attempt' = [attempt EXCEPT ![p] = m]
  /\ phase' = [phase EXCEPT ![p] = f]
  /\ m > attempt[p] \/ (m = attempt[p] /\ (phase[p] # "called" \/ f = "called"))
  /\ f \in {"awaits", "called"} => Len(answers[p]) < n
  /\ f = "idle" /\ status'[p] # "stopped" => n = Len(answers[p])

Phases == {"idle", "retry", "awaits", "called"}

LEMMA TurnIInv ==
  ASSUME IInv, TypeOK',
         NEW p \in Pages, NEW n \in Nat, NEW m \in Nat, NEW f \in Phases, Turn(p, n, m, f)
  PROVE  IInv'
<1> USE DEF IInv
<1>1. Turn(p, n, m, f) OBVIOUS
<1> USE DEF Turn, Phases
<1>2. \A q \in Pages : Exact(q)'
  BY DEF Exact
<1>3. \A q \in Pages : Ahead(q)'
  BY <1>1 DEF Ahead, TypeOK
<1>4. \A q \in Pages : Pumping(q)'
  BY <1>1 DEF Pumping, TypeOK
<1>5. ASSUME NEW c \in calls PROVE CallSound(c)'
  <2>1. /\ c.page \in Pages /\ c.attempt \in Nat /\ c.seq \in Nat
        /\ attempt \in [Pages -> Nat] /\ issued \in [Pages -> Nat]
        /\ phase \in [Pages -> {"idle", "retry", "awaits", "called"}]
        /\ answers[c.page] \in Seq(Nat)
    BY DEF TypeOK, Call
  <2>2. CallSound(c)
    OBVIOUS
  <2>3. /\ attempt[c.page] <= attempt'[c.page] /\ issued[c.page] <= issued'[c.page]
        /\ c.attempt = attempt'[c.page] => phase'[c.page] = "called" /\ attempt'[c.page] = attempt[c.page]
    BY <1>1, <2>1, <2>2 DEF CallSound
  <2> QED BY <2>1, <2>2, <2>3 DEF CallSound
<1>6. OneOfAnAttempt'
  BY DEF OneOfAnAttempt
<1> QED BY <1>2, <1>3, <1>4, <1>5, <1>6

-----------------------------------------------------------------------------
(* Every step keeps the types.                                             *)
LEMMA PumpType ==
  ASSUME TypeOK, NEW p \in Pages, NEW from \in Nat, NEW queued \in BOOLEAN, Pump(p, from, queued)
  PROVE  /\ phase' \in [Pages -> {"idle", "retry", "awaits", "called"}]
         /\ attempt' \in [Pages -> Nat]
BY DEF Pump, TypeOK

LEMMA ReplyType ==
  ASSUME TypeOK, NEW c \in calls, NEW state \in {"ack", "resync", "error"}, NEW result \in Nat,
         Reply(c, state, result)
  PROVE  calls' \subseteq Call
BY DEF Reply, TypeOK, Call

LEMMA PageStepType ==
  ASSUME TypeOK, PageStep
  PROVE  TypeOK'
<1>1. PICK p \in Pages : Load(p) \/ Register(p) \/ Issue(p) \/ Invoke(p) \/ Retry(p)
                           \/ TimesOut(p) \/ OpFails(p) \/ ResyncEvent(p) \/ Stop(p)
  BY DEF PageStep
<1>2. /\ issued[p] \in Nat /\ attempt[p] \in Nat /\ answers[p] \in Seq(Nat)
      /\ Queued(p, issued[p]) \in BOOLEAN
  BY DEF TypeOK, Queued
<1>3. CASE Load(p)
  BY <1>3 DEF Load, TypeOK, serverVars
<1>4. CASE Register(p)
  BY <1>4 DEF Register, TypeOK, clientVars
<1>5. CASE Issue(p)
  <2>1. phase' \in [Pages -> {"idle", "retry", "awaits", "called"}] /\ attempt' \in [Pages -> Nat]
    BY <1>2, <1>5, PumpType DEF Issue, TypeOK
  <2>2. issued' \in [Pages -> Nat]
    BY <1>5 DEF Issue, TypeOK
  <2> QED BY <1>5, <2>1, <2>2 DEF Issue, TypeOK, serverVars
<1>6. CASE Invoke(p)
  <2>1. [page |-> p, attempt |-> attempt[p], seq |-> HeadSeq(p),
         state |-> "request", result |-> 0] \in Call
    BY <1>2 DEF Call, HeadSeq
  <2> QED BY <1>6, <2>1 DEF Invoke, TypeOK, serverVars
<1>7. CASE Retry(p)
  <2>1. phase' \in [Pages -> {"idle", "retry", "awaits", "called"}] /\ attempt' \in [Pages -> Nat]
    BY <1>2, <1>7, PumpType DEF Retry
  <2> QED BY <1>7, <2>1 DEF Retry, TypeOK, serverVars
<1>8. CASE Resync(p) /\ faults' \in Nat
  <2>1. phase' \in [Pages -> {"idle", "retry", "awaits", "called"}] /\ attempt' \in [Pages -> Nat]
    BY <1>2, <1>8, PumpType DEF Resync
  <2> QED BY <1>8, <2>1 DEF Resync, TypeOK, serverVars
<1>9. CASE TimesOut(p)
  <2>1. faults' = faults \/ faults' = faults + 1
    BY <1>9 DEF TimesOut, Strike
  <2>2. faults' \in Nat
    BY <2>1 DEF TypeOK
  <2> QED BY <1>8, <1>9, <2>2 DEF TimesOut
<1>10. CASE OpFails(p)
  BY <1>10 DEF OpFails, Strike, TypeOK, serverVars
<1>11. CASE ResyncEvent(p)
  <2>1. faults' \in Nat
    BY <1>11 DEF ResyncEvent, Strike, TypeOK
  <2> QED BY <1>8, <1>11, <2>1 DEF ResyncEvent
<1>12. CASE Stop(p)
  BY <1>12 DEF Stop, TypeOK, serverVars
<1> QED BY <1>1, <1>3, <1>4, <1>5, <1>6, <1>7, <1>9, <1>10, <1>11, <1>12

LEMMA CallStepType ==
  ASSUME TypeOK, CallStep
  PROVE  TypeOK'
<1>1. PICK c \in calls : Receive(c) \/ Serve(c) \/ Lose(c) \/ Reject(c)
  BY DEF CallStep
<1>2. /\ c.page \in Pages /\ c.attempt \in Nat /\ c.seq \in Nat /\ c.result \in Nat
      /\ attempt[c.page] \in Nat /\ answers[c.page] \in Seq(Nat) /\ last[c.page].result \in Nat
  BY DEF TypeOK, Call
<1>3. CASE Receive(c)
  <2>1. calls' \subseteq Call
    BY <1>3 DEF Receive, TypeOK
  <2>2. CASE ~IsCurrent(c)
    BY <1>3, <2>1, <2>2 DEF Receive, TypeOK, serverVars
  <2>3. CASE IsCurrent(c) /\ c.state = "ack"
    <3>1. Pump(c.page, attempt[c.page], Len(answers[c.page]) + 1 < issued[c.page])
          /\ answers' = [answers EXCEPT ![c.page] = Append(@, c.result)]
      BY <1>3, <2>3 DEF Receive
    <3>2. phase' \in [Pages -> {"idle", "retry", "awaits", "called"}] /\ attempt' \in [Pages -> Nat]
      BY <1>2, <3>1, PumpType, (Len(answers[c.page]) + 1 < issued[c.page]) \in BOOLEAN
    <3>3. answers' \in [Pages -> Seq(Nat)]
      BY <1>2, <3>1 DEF TypeOK
    <3> QED BY <1>3, <2>1, <3>2, <3>3 DEF Receive, TypeOK, serverVars
  <2>4. CASE IsCurrent(c) /\ c.state # "ack"
    BY <1>3, <2>1, <2>4 DEF Receive, TypeOK, serverVars
  <2> QED BY <2>2, <2>3, <2>4
<1>4. CASE Serve(c)
  <2>1. CASE Refused(c)
    BY <1>4, <2>1, ReplyType DEF Serve, Refused, TypeOK, serverVars, clientVars
  <2>2. CASE AnsweredBefore(c)
    BY <1>2, <1>4, <2>2, ReplyType DEF Serve, AnsweredBefore, TypeOK, serverVars, clientVars
  <2>3. CASE OutOfTurn(c)
    BY <1>4, <2>3, ReplyType DEF Serve, OutOfTurn, TypeOK, serverVars, clientVars
  <2>4. CASE Applied(c)
    <3>1. calls' \subseteq Call
      BY <1>2, <2>4, ReplyType DEF Applied
    <3>2. log' \in [Pages -> Seq(Nat)] /\ next' \in [Pages -> Nat]
      <4>1. log[c.page] \in Seq(Nat) /\ next[c.page] \in Nat
        BY <1>2 DEF TypeOK
      <4>2. Append(log[c.page], c.seq) \in Seq(Nat) /\ next[c.page] + 1 \in Nat
        BY <1>2, <4>1
      <4> QED BY <2>4, <4>2 DEF Applied, TypeOK
    <3>3. last' \in [Pages -> [seq : Nat, result : Nat]]
      BY <1>2, <2>4 DEF Applied, TypeOK
    <3>4. page' \in [Pages -> {"absent", "live", "ended"}]
      BY <2>4 DEF Applied, TypeOK
    <3> QED BY <1>4, <3>1, <3>2, <3>3, <3>4 DEF Serve, TypeOK, clientVars
  <2> QED BY <1>4, <2>1, <2>2, <2>3, <2>4 DEF Serve
<1>5. CASE Lose(c)
  BY <1>5 DEF Lose, Strike, TypeOK, clientVars, serverVars
<1>6. CASE Reject(c)
  BY <1>6, ReplyType DEF Reject, Strike, TypeOK, clientVars, serverVars
<1> QED BY <1>1, <1>3, <1>4, <1>5, <1>6

LEMMA NextType == TypeOK /\ [Next]_vars => TypeOK'
<1> SUFFICES ASSUME TypeOK, [Next]_vars PROVE TypeOK'
  OBVIOUS
<1>1. CASE UNCHANGED vars
  BY <1>1 DEF vars, TypeOK
<1> QED BY <1>1, PageStepType, CallStepType DEF Next, Over

-----------------------------------------------------------------------------
(* Every step keeps the invariant.                                         *)

LEMMA PageStepIInv ==
  ASSUME IInv, PageStep
  PROVE  IInv'
<1>1. PICK p \in Pages : Load(p) \/ Register(p) \/ Issue(p) \/ Invoke(p) \/ Retry(p)
                           \/ TimesOut(p) \/ OpFails(p) \/ ResyncEvent(p) \/ Stop(p)
  BY DEF PageStep
<1>2. TypeOK'
  BY PageStepType DEF IInv
<1>3. /\ issued \in [Pages -> Nat] /\ attempt \in [Pages -> Nat]
      /\ phase \in [Pages -> {"idle", "retry", "awaits", "called"}]
      /\ status \in [Pages -> {"unloaded", "open", "stopped"}]
      /\ answers[p] \in Seq(Nat) /\ log[p] \in Seq(Nat)
      /\ Len(answers[p]) <= issued[p]
      /\ Pumping(p)
  <2>1. /\ issued \in [Pages -> Nat] /\ attempt \in [Pages -> Nat]
        /\ phase \in [Pages -> {"idle", "retry", "awaits", "called"}]
        /\ status \in [Pages -> {"unloaded", "open", "stopped"}]
        /\ answers[p] \in Seq(Nat) /\ log[p] \in Seq(Nat)
    BY DEF IInv, TypeOK
  <2> QED BY <2>1 DEF IInv, Ahead
<1>4. CASE Load(p)
  <2>1. Turn(p, issued[p], attempt[p], phase[p])
    BY <1>3, <1>4 DEF Load, serverVars, Turn, Pumping
  <2> QED BY <1>2, <1>3, <2>1, TurnIInv DEF Phases
<1>5. CASE Register(p)
  <2>1. Turn(p, issued[p], attempt[p], phase[p])
    BY <1>3, <1>5 DEF Register, clientVars, Turn, Pumping
  <2> QED BY <1>2, <1>3, <2>1, TurnIInv DEF Phases
<1>6. CASE Issue(p)
  <2>1. CASE phase[p] = "idle"
    <3>1. Turn(p, issued[p] + 1, attempt[p] + 1, "awaits")
      BY <1>3, <1>6, <2>1 DEF Issue, Pump, serverVars, Turn
    <3> QED BY <1>2, <1>3, <3>1, TurnIInv DEF Phases
  <2>2. CASE phase[p] # "idle"
    <3>1. Turn(p, issued[p] + 1, attempt[p], phase[p])
      BY <1>3, <1>6, <2>2 DEF Issue, serverVars, Turn, Pumping
    <3>2. issued[p] + 1 \in Nat /\ attempt[p] \in Nat /\ phase[p] \in Phases
      BY <1>3 DEF Phases
    <3> QED BY <1>2, <3>1, <3>2, TurnIInv
  <2> QED BY <2>1, <2>2
<1>7. CASE Invoke(p)
  <2>0. PICK new : new = [page |-> p, attempt |-> attempt[p], seq |-> HeadSeq(p),
                          state |-> "request", result |-> 0]
    OBVIOUS
  <2>1. calls' = calls \cup {new} /\ phase[p] = "awaits" /\ phase' = [phase EXCEPT ![p] = "called"]
        /\ UNCHANGED <<status, issued, answers, attempt, page, next, last, log>>
    BY <1>7, <2>0 DEF Invoke, serverVars
  <2>2. Len(answers[p]) < issued[p]
    BY <1>3, <2>1 DEF Pumping
  <2>3. \A c \in calls : c.page = p => c.attempt # attempt[p]
    BY <2>1 DEF IInv, CallSound
  <2>4. \A q \in Pages : Exact(q)' /\ Ahead(q)'
    BY <2>1 DEF IInv, Exact, Ahead
  <2>5. \A q \in Pages : Pumping(q)'
    BY <1>3, <2>1, <2>2 DEF IInv, Pumping
  <2>6. CallSound(new)'
    BY <1>3, <2>0, <2>1, <2>2 DEF CallSound, HeadSeq
  <2>7. ASSUME NEW c \in calls PROVE CallSound(c)'
    <3>1. CallSound(c) /\ c.page \in Pages
      BY DEF IInv, TypeOK, Call
    <3> QED BY <1>3, <2>1, <3>1 DEF CallSound
  <2>8. OneOfAnAttempt'
    BY <2>0, <2>1, <2>3 DEF IInv, OneOfAnAttempt
  <2>9. (\A c \in calls : CallSound(c))'
    BY <2>1, <2>6, <2>7
  <2> QED BY <1>2, <2>4, <2>5, <2>8, <2>9 DEF IInv
<1>8. CASE Retry(p)
  <2>1. CASE Queued(p, issued[p])
    <3>1. Turn(p, issued[p], attempt[p] + 1, "awaits")
      BY <1>3, <1>8, <2>1 DEF Retry, Pump, Queued, serverVars, Turn
    <3> QED BY <1>2, <1>3, <3>1, TurnIInv DEF Phases
  <2>2. CASE ~Queued(p, issued[p])
    <3>1. Turn(p, issued[p], attempt[p], "idle")
      BY <1>3, <1>8, <2>2 DEF Retry, Pump, Queued, serverVars, Turn
    <3> QED BY <1>2, <1>3, <3>1, TurnIInv DEF Phases
  <2> QED BY <2>1, <2>2
<1>9. CASE Resync(p)
  <2>1. CASE Queued(p, issued[p])
    <3>1. Turn(p, issued[p], (attempt[p] + 1) + 1, "awaits")
      BY <1>3, <1>9, <2>1 DEF Resync, Pump, Queued, serverVars, Turn
    <3> QED BY <1>2, <1>3, <3>1, TurnIInv DEF Phases
  <2>2. CASE ~Queued(p, issued[p])
    <3>1. Turn(p, issued[p], attempt[p] + 1, "idle")
      BY <1>3, <1>9, <2>2 DEF Resync, Pump, Queued, serverVars, Turn
    <3> QED BY <1>2, <1>3, <3>1, TurnIInv DEF Phases
  <2> QED BY <2>1, <2>2
<1>10. CASE OpFails(p)
  <2>1. Turn(p, issued[p], attempt[p], "retry")
    BY <1>3, <1>10 DEF OpFails, serverVars, Turn
  <2> QED BY <1>2, <1>3, <2>1, TurnIInv DEF Phases
<1>11. CASE Stop(p)
  <2>1. Turn(p, issued[p], attempt[p] + 1, "idle")
    BY <1>3, <1>11 DEF Stop, serverVars, Turn
  <2> QED BY <1>2, <1>3, <2>1, TurnIInv DEF Phases
<1> QED BY <1>1, <1>4, <1>5, <1>6, <1>7, <1>8, <1>9, <1>10, <1>11 DEF TimesOut, ResyncEvent

(* A reply takes the place of the call, which stays the only one of its    *)
(* attempt; it is sound if an acknowledgement brings the call's own result. *)
LEMMA ReplyIInv ==
  ASSUME IInv, TypeOK', UNCHANGED clientVars,
         NEW c \in calls, NEW state \in {"ack", "resync", "error"}, NEW result \in Nat,
         Reply(c, state, result),
         \A p \in Pages : Exact(p)' /\ Ahead(p)' /\ Len(log[p]) <= Len(log'[p]),
         state = "ack" => result = c.seq /\ c.seq <= Len(log'[c.page])
  PROVE  IInv'
<1> DEFINE d == [c EXCEPT !.state = state, !.result = result]
<1>1. c \in Call /\ \A e \in calls : e \in Call
  BY DEF IInv, TypeOK
<1>2. /\ d.page = c.page /\ d.attempt = c.attempt /\ d.seq = c.seq
      /\ d.state = state /\ d.result = result
  BY <1>1 DEF Call
<1>3. calls' = (calls \ {c}) \cup {d}
  BY DEF Reply
<1> HIDE DEF d
<1>4. \A p \in Pages : log[p] \in Seq(Nat) /\ log'[p] \in Seq(Nat)
  BY DEF IInv, TypeOK
<1>5. ASSUME NEW e \in calls PROVE CallSound(e)'
  <2>1. CallSound(e) /\ e.page \in Pages /\ e.seq \in Nat
    BY <1>1 DEF IInv, Call
  <2>2. Len(log[e.page]) <= Len(log'[e.page]) /\ Len(log[e.page]) \in Nat /\ Len(log'[e.page]) \in Nat
    BY <1>4, <2>1
  <2> QED BY <2>1, <2>2 DEF CallSound, clientVars
<1>6. CallSound(d)'
  <2>1. CallSound(c)
    BY DEF IInv
  <2> QED BY <1>2, <2>1 DEF CallSound, clientVars
<1>7. (\A e \in calls : CallSound(e))'
  BY <1>3, <1>5, <1>6
<1>8. OneOfAnAttempt'
  BY <1>2, <1>3 DEF IInv, OneOfAnAttempt
<1>9. (\A p \in Pages : Pumping(p))'
  BY DEF IInv, Pumping, clientVars
<1>10. (\A p \in Pages : Exact(p) /\ Ahead(p))'
  OBVIOUS
<1> QED BY <1>7, <1>8, <1>9, <1>10 DEF IInv

(* The page's stream applies a request: what it appends is the next number. *)
LEMMA AppliedIInv ==
  ASSUME IInv, TypeOK', UNCHANGED clientVars, NEW c \in calls, Applied(c)
  PROVE  IInv'
<1> DEFINE p == c.page
<1>1. p \in Pages /\ c.seq \in Nat /\ log[p] \in Seq(Nat) /\ answers[p] \in Seq(Nat)
      /\ issued[p] \in Nat /\ next[p] \in Nat
  BY DEF IInv, TypeOK, Call
<1>2. Exact(p) /\ Ahead(p) /\ CallSound(c)
  BY <1>1 DEF IInv
<1>3. next[p] = c.seq /\ Len(log[p]) = c.seq - 1 /\ Reply(c, "ack", c.seq)
  BY <1>2 DEF Applied, Exact
<1>4. /\ log' = [log EXCEPT ![p] = Append(@, c.seq)]
      /\ next' = [next EXCEPT ![p] = @ + 1]
      /\ last' = [last EXCEPT ![p] = [seq |-> c.seq, result |-> c.seq]]
  BY DEF Applied
<1>5. /\ log'[p] = Append(log[p], c.seq) /\ next'[p] = c.seq + 1
      /\ last'[p] = [seq |-> c.seq, result |-> c.seq]
      /\ \A q \in Pages : q # p => /\ log'[q] = log[q] /\ next'[q] = next[q] /\ last'[q] = last[q]
  BY <1>1, <1>3, <1>4 DEF IInv, TypeOK
<1>6. Len(log'[p]) = c.seq /\ \A i \in 1 .. c.seq : log'[p][i] = i
  <2>1. Len(log'[p]) = c.seq
    BY <1>1, <1>3, <1>5
  <2>2. ASSUME NEW i \in 1 .. c.seq PROVE log'[p][i] = i
    BY <1>1, <1>2, <1>3, <1>5 DEF Exact
  <2> QED BY <2>1, <2>2
<1>7. \A q \in Pages : Exact(q)'
  <2>1. Exact(p)'
    BY <1>1, <1>5, <1>6 DEF Exact
  <2>2. ASSUME NEW q \in Pages, q # p PROVE Exact(q)'
    BY <1>5, <2>2 DEF IInv, Exact
  <2> QED BY <2>1, <2>2
<1>8. \A q \in Pages : Ahead(q)' /\ Len(log[q]) <= Len(log'[q])
  <2>1. Ahead(p)' /\ Len(log[p]) <= Len(log'[p])
    BY <1>1, <1>2, <1>3, <1>6 DEF Ahead, CallSound, clientVars
  <2>2. ASSUME NEW q \in Pages, q # p PROVE Ahead(q)' /\ Len(log[q]) <= Len(log'[q])
    <3>1. log[q] \in Seq(Nat)
      BY DEF IInv, TypeOK
    <3> QED BY <1>5, <2>2, <3>1 DEF IInv, Ahead, clientVars
  <2> QED BY <2>1, <2>2
<1>9. c.seq <= Len(log'[c.page])
  BY <1>1, <1>6
<1> QED BY <1>1, <1>3, <1>7, <1>8, <1>9, ReplyIInv

(* Calls that only disappear, and a client whose pump does not move.       *)
LEMMA FewerIInv ==
  ASSUME IInv, TypeOK', calls' \subseteq calls, UNCHANGED <<clientVars, serverVars>>
  PROVE  IInv'
<1>1. ASSUME NEW p \in Pages PROVE Exact(p)' /\ Ahead(p)' /\ Pumping(p)'
  <2>1. Exact(p) /\ Ahead(p) /\ Pumping(p)
    BY DEF IInv
  <2> QED BY <2>1 DEF Exact, Ahead, Pumping, clientVars, serverVars
<1>2. (\A c \in calls : CallSound(c))'
  BY DEF IInv, CallSound, clientVars, serverVars
<1>3. OneOfAnAttempt'
  BY DEF IInv, OneOfAnAttempt
<1> QED BY <1>1, <1>2, <1>3 DEF IInv

(* A reply that counts is the only invoke of its attempt and the head's.   *)
LEMMA CurrentIInv ==
  ASSUME IInv, TypeOK', NEW c \in calls, Receive(c), IsCurrent(c)
  PROVE  IInv'
<1> DEFINE p == c.page
<1>1. /\ p \in Pages /\ c.seq \in Nat /\ c.attempt \in Nat /\ log[p] \in Seq(Nat) /\ answers[p] \in Seq(Nat)
      /\ issued[p] \in Nat /\ attempt \in [Pages -> Nat] /\ answers \in [Pages -> Seq(Nat)]
      /\ phase \in [Pages -> Phases]
  BY DEF IInv, TypeOK, Call, Phases
<1>2. /\ Ahead(p) /\ CallSound(c) /\ c.attempt = attempt[p] /\ status[p] = "open"
      /\ c.seq = Len(answers[p]) + 1 /\ phase[p] = "called" /\ Len(answers[p]) < issued[p]
  BY <1>1 DEF IInv, IsCurrent, CallSound, Pumping
<1>3. \A e \in calls' : e \in calls /\ CallSound(e) /\ e.page \in Pages /\ e.attempt \in Nat /\ e.seq \in Nat
                        /\ (e.page = p => e.attempt < attempt[p])
  <2> SUFFICES ASSUME NEW e \in calls'
               PROVE  e \in calls /\ CallSound(e) /\ e.page \in Pages /\ e.attempt \in Nat /\ e.seq \in Nat
                      /\ (e.page = p => e.attempt < attempt[p])
    OBVIOUS
  <2>1. e \in calls /\ e # c
    BY DEF Receive
  <2>2. CallSound(e) /\ e.page \in Pages /\ e.attempt \in Nat /\ e.seq \in Nat
    BY <2>1 DEF IInv, TypeOK, Call
  <2>3. e.page = p => e.attempt # attempt[p]
    BY <1>2, <2>1 DEF IInv, OneOfAnAttempt
  <2> QED BY <1>1, <2>1, <2>2, <2>3 DEF CallSound
<1>4. OneOfAnAttempt'
  BY <1>3 DEF IInv, OneOfAnAttempt
<1>5. \A q \in Pages : Exact(q)'
  BY DEF IInv, Exact, Receive, serverVars
<1>6. CASE c.state = "ack"
  <2>1. /\ answers' = [answers EXCEPT ![p] = Append(@, c.result)]
        /\ Pump(p, attempt[p], Len(answers[p]) + 1 < issued[p])
        /\ UNCHANGED <<status, issued, log>>
    BY <1>6 DEF Receive, serverVars
  <2>2. /\ Len(answers'[p]) = Len(answers[p]) + 1
        /\ \A q \in Pages : q # p => answers'[q] = answers[q] /\ phase'[q] = phase[q] /\ attempt'[q] = attempt[q]
        /\ phase'[p] = (IF Len(answers[p]) + 1 < issued[p] THEN "awaits" ELSE "idle")
        /\ attempt'[p] >= attempt[p] /\ attempt'[p] \in Nat
    BY <1>1, <2>1 DEF Pump
  <2>3. \A q \in Pages : Ahead(q)'
    <3>1. Ahead(p)'
      BY <1>1, <1>2, <1>6, <2>1, <2>2 DEF Ahead, CallSound
    <3> QED BY <2>1, <2>2, <3>1 DEF IInv, Ahead
  <2>4. \A q \in Pages : Pumping(q)'
    <3>1. Pumping(p)'
      BY <1>1, <1>2, <2>1, <2>2 DEF Pumping
    <3> QED BY <2>1, <2>2, <3>1 DEF IInv, Pumping
  <2>5. ASSUME NEW e \in calls' PROVE CallSound(e)'
    <3>1. CASE e.page = p
      BY <1>1, <1>3, <2>1, <2>2, <3>1 DEF CallSound
    <3>2. CASE e.page # p
      BY <1>3, <2>1, <2>2, <3>2 DEF CallSound
    <3> QED BY <3>1, <3>2
  <2>6. (\A e \in calls : CallSound(e))'
    BY <2>5
  <2> QED BY <1>4, <1>5, <2>3, <2>4, <2>6 DEF IInv
<1>7. CASE c.state # "ack"
  <2>1. phase' = [phase EXCEPT ![p] = "retry"] /\ UNCHANGED <<answers, attempt, status, issued, log>>
    BY <1>7 DEF Receive, serverVars
  <2>2. (\A q \in Pages : Ahead(q) /\ Pumping(q))'
    BY <1>1, <2>1 DEF IInv, Ahead, Pumping
  <2>3. ASSUME NEW e \in calls' PROVE CallSound(e)'
    BY <1>1, <1>3, <2>1 DEF CallSound
  <2>4. (\A e \in calls : CallSound(e))'
    BY <2>3
  <2> QED BY <1>4, <1>5, <2>2, <2>4 DEF IInv
<1> QED BY <1>6, <1>7

LEMMA CallStepIInv ==
  ASSUME IInv, CallStep
  PROVE  IInv'
<1>1. PICK c \in calls : Receive(c) \/ Serve(c) \/ Lose(c) \/ Reject(c)
  BY DEF CallStep
<1>2. TypeOK'
  BY CallStepType DEF IInv
<1>3. CASE Receive(c)
  BY <1>2, <1>3, CurrentIInv, FewerIInv DEF Receive, clientVars, serverVars
<1>4. UNCHANGED serverVars => \A p \in Pages : Exact(p)' /\ (UNCHANGED clientVars => Ahead(p)') /\ Len(log[p]) <= Len(log'[p])
  <2> SUFFICES ASSUME UNCHANGED serverVars, NEW p \in Pages
               PROVE  Exact(p)' /\ (UNCHANGED clientVars => Ahead(p)') /\ Len(log[p]) <= Len(log'[p])
    OBVIOUS
  <2>1. log[p] \in Seq(Nat)
    BY DEF IInv, TypeOK
  <2> QED BY <2>1 DEF IInv, Exact, Ahead, clientVars, serverVars
<1>5. CASE Serve(c)
  <2>1. UNCHANGED clientVars
    BY <1>5 DEF Serve
  <2>2. CASE Refused(c)
    BY <1>2, <1>4, <2>1, <2>2, ReplyIInv DEF Refused
  <2>3. CASE AnsweredBefore(c)
    <3>1. last[c.page].result = c.seq /\ c.seq \in Nat /\ c.seq <= Len(log[c.page])
      BY <2>3 DEF AnsweredBefore, IInv, Exact, TypeOK, Call
    <3>2. UNCHANGED log
      BY <2>3 DEF AnsweredBefore, serverVars
    <3> QED BY <1>2, <1>4, <2>1, <2>3, <3>1, <3>2, ReplyIInv DEF AnsweredBefore
  <2>4. CASE OutOfTurn(c)
    BY <1>2, <1>4, <2>1, <2>4, ReplyIInv DEF OutOfTurn
  <2>5. CASE Applied(c)
    BY <1>2, <2>1, <2>5, AppliedIInv
  <2> QED BY <1>5, <2>2, <2>3, <2>4, <2>5 DEF Serve
<1>6. CASE Lose(c)
  BY <1>2, <1>6, FewerIInv DEF Lose
<1>7. CASE Reject(c)
  BY <1>2, <1>4, <1>7, ReplyIInv DEF Reject
<1> QED BY <1>1, <1>3, <1>5, <1>6, <1>7

LEMMA NextIInv == IInv /\ [Next]_vars => IInv'
<1> SUFFICES ASSUME IInv, [Next]_vars PROVE IInv'
  OBVIOUS
<1>1. CASE UNCHANGED vars
  <2>1. TypeOK'
    BY NextType DEF IInv
  <2> QED BY <1>1, <2>1, FewerIInv DEF vars, clientVars, serverVars
<1> QED BY <1>1, PageStepIInv, CallStepIInv DEF Next, Over

(* The pump never rests with something queued, and never has two invokes   *)
(* of one attempt under way (pump, resync, stop), whatever is lost, late,  *)
(* rejected or repeated.                                                   *)
THEOREM PumpAlwaysSound == Spec => []PumpSound
<1>1. IInv => PumpSound
  <2> SUFFICES ASSUME IInv PROVE PumpSound
    OBVIOUS
  <2>1. \A p \in Pages : status[p] = "open" /\ Queued(p, issued[p]) => phase[p] # "idle"
    BY DEF IInv, Pumping, Queued, TypeOK
  <2> QED BY <2>1 DEF IInv, PumpSound, OneOfAnAttempt
<1> QED BY <1>1, InitIInv, NextIInv, PTL DEF Spec

-----------------------------------------------------------------------------
(* PaneStream implements PaneOrder.                                        *)

Ended == {p \in Pages : page[p] = "ended"}

LEMMA InitOrder == Init => Order!Init
BY DEF Init, Order!Init

(* A step that changes nothing PaneOrder speaks of.                        *)
LEMMA Stutter ==
  ASSUME UNCHANGED <<issued, log, answers, page>>
  PROVE  UNCHANGED Order!orderVars
BY DEF Order!orderVars

LEMMA PageStepOrder ==
  ASSUME IInv, PageStep
  PROVE  [Order!Next]_(Order!orderVars)
<1>1. PICK p \in Pages : Load(p) \/ Register(p) \/ Issue(p) \/ Invoke(p) \/ Retry(p)
                           \/ TimesOut(p) \/ OpFails(p) \/ ResyncEvent(p) \/ Stop(p)
  BY DEF PageStep
<1>2. CASE Issue(p)
  <2>1. Order!Issue(p)
    BY <1>2 DEF Issue, Order!Issue, serverVars
  <2> QED BY <2>1 DEF Order!Next
<1>3. CASE Register(p)
  <2>1. \A q \in Pages : page'[q] = "ended" <=> page[q] = "ended"
    BY <1>3 DEF Register, IInv, TypeOK
  <2> QED BY <1>3, <2>1 DEF Register, clientVars, Order!orderVars
<1>4. CASE Load(p) \/ Invoke(p) \/ Retry(p) \/ TimesOut(p) \/ OpFails(p) \/ ResyncEvent(p) \/ Stop(p)
  BY <1>4, Stutter DEF Load, Invoke, Retry, TimesOut, OpFails, ResyncEvent, Resync, Stop, serverVars
<1> QED BY <1>1, <1>2, <1>3, <1>4

LEMMA AppliedOrder ==
  ASSUME IInv, UNCHANGED clientVars, NEW c \in calls, Applied(c)
  PROVE  Order!Apply(c.page)
<1> DEFINE p == c.page
<1>1. p \in Pages /\ c.seq \in Nat /\ log[p] \in Seq(Nat) /\ issued[p] \in Nat /\ next[p] \in Nat
  BY DEF IInv, TypeOK, Call
<1>2. /\ Exact(p) /\ CallSound(c) /\ next[p] = c.seq /\ page[p] = "live"
      /\ log' = [log EXCEPT ![p] = Append(@, c.seq)]
      /\ page' = IF c.seq = 1 THEN [q \in Pages |-> IF q < p THEN "ended" ELSE page[q]] ELSE page
  BY <1>1 DEF IInv, Applied
<1>3. Len(log[p]) + 1 = c.seq /\ Len(log[p]) < issued[p]
  BY <1>1, <1>2 DEF Exact, CallSound
<1>4. log[p] = <<>> <=> c.seq = 1
  BY <1>1, <1>3
<1>5. log' = [log EXCEPT ![p] = Append(@, Len(@) + 1)]
  BY <1>2, <1>3
<1>6. {q \in Pages : page'[q] = "ended"} =
        IF log[p] = <<>> THEN Ended \cup {q \in Pages : q < p} ELSE Ended
  BY <1>2, <1>4 DEF Ended
<1>7. p \notin Ended
  BY <1>2 DEF Ended
<1> QED BY <1>3, <1>5, <1>6, <1>7 DEF Order!Apply, clientVars, Ended

LEMMA CallStepOrder ==
  ASSUME IInv, CallStep
  PROVE  [Order!Next]_(Order!orderVars)
<1>1. PICK c \in calls : Receive(c) \/ Serve(c) \/ Lose(c) \/ Reject(c)
  BY DEF CallStep
<1> DEFINE p == c.page
<1>2. p \in Pages /\ log[p] \in Seq(Nat) /\ answers[p] \in Seq(Nat) /\ c.seq \in Nat
  BY DEF IInv, TypeOK, Call
<1>3. CASE Receive(c) /\ IsCurrent(c) /\ c.state = "ack"
  <2>1. Exact(p) /\ CallSound(c) /\ c.seq = Len(answers[p]) + 1
    BY <1>2, <1>3 DEF IInv, IsCurrent, CallSound
  <2>2. Len(answers[p]) < Len(log[p]) /\ c.result = log[p][Len(answers[p]) + 1]
    BY <1>2, <1>3, <2>1 DEF CallSound, Exact
  <2>3. answers' = [answers EXCEPT ![p] = Append(@, log[p][Len(@) + 1])] /\ UNCHANGED <<issued, log, page>>
    BY <1>3, <2>2 DEF Receive, serverVars
  <2>4. Order!Answer(p)
    BY <2>2, <2>3 DEF Order!Answer
  <2> QED BY <1>2, <2>4 DEF Order!Next
<1>4. CASE Receive(c) /\ ~(IsCurrent(c) /\ c.state = "ack")
  BY <1>4, Stutter DEF Receive, serverVars
<1>5. CASE Serve(c) /\ Applied(c)
  BY <1>2, <1>5, AppliedOrder DEF Serve, Order!Next
<1>6. CASE Serve(c) /\ (Refused(c) \/ AnsweredBefore(c) \/ OutOfTurn(c))
  BY <1>6, Stutter DEF Serve, Refused, AnsweredBefore, OutOfTurn, clientVars, serverVars
<1>7. CASE Lose(c) \/ Reject(c)
  BY <1>7, Stutter DEF Lose, Reject, clientVars, serverVars
<1> QED BY <1>1, <1>3, <1>4, <1>5, <1>6, <1>7 DEF Serve

(* The stream implements PaneOrder (pump, pane_op_at): whatever is lost,   *)
(* repeated, slow or overtaken, an operation is applied once and in order, *)
(* answered with its own result, and not applied after its page was        *)
(* replaced.                                                               *)
THEOREM StreamImplementsOrder == Spec => ImplementsOrder
<1>1. IInv /\ [Next]_vars => [Order!Next]_(Order!orderVars)
  <2> SUFFICES ASSUME IInv, [Next]_vars PROVE [Order!Next]_(Order!orderVars)
    OBVIOUS
  <2>1. CASE UNCHANGED vars
    BY <2>1, Stutter DEF vars
  <2>2. CASE Over
    BY <2>2, Stutter DEF Over, vars
  <2> QED BY <2>1, <2>2, PageStepOrder, CallStepOrder DEF Next
<1> QED BY <1>1, InitOrder, InitIInv, NextIInv, PTL DEF Spec, Order!Spec, ImplementsOrder
=============================================================================
