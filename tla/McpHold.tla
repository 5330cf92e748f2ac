------------------------------ MODULE McpHold ------------------------------
(***************************************************************************)
(* The MCP-hold bookkeeping of the PTY host (pty-host/src/mcp_hold/mod.rs) *)
(* as operators on one record.  `McpHold` is pure bookkeeping: a holder    *)
(* task owns its own lifetime, the record only commands it through a mode  *)
(* word and notices, at its next call, that the task has finished.         *)
(*                                                                         *)
(* A holder is identified by a member of Holders.  An identity is reused   *)
(* once its task has ended, so the state space is finite however many      *)
(* holds a host serves in its life.                                        *)
(*                                                                         *)
(* A definition named Mut... is a variant with a plausible bug, which the  *)
(* runs must tell from the definition that follows it.                     *)
(***************************************************************************)
EXTENDS Naturals, FiniteSets

CONSTANTS Holders,      \* identities of holder tasks
          NoHolder      \* Option::None of a HolderHandle

ASSUME HoldersAssumption == Holders # {} /\ NoHolder \notin Holders

(* What a holder task was last told, or that it has finished. *)
TaskStates == {"absent", "handback", "stop", "ended"}

McpType == [state    : {"idle", "pending", "running"},
            cur      : Holders \cup {NoHolder},
            retiring : Holders \cup {NoHolder},
            task     : [Holders -> TaskStates]]

McpInit == [state |-> "idle", cur |-> NoHolder, retiring |-> NoHolder,
            task  |-> [h \in Holders |-> "ended"]]

Unfinished(m) == {h \in Holders : m.task[h] # "ended"}

Finished(m, h) == h \in Holders /\ m.task[h] = "ended"

(* A holder that ended on its own reads as Idle; a retired one that has    *)
(* finished no longer blocks a new hold.                                   *)
Reconcile(m) ==
  LET over == m.state = "running" /\ Finished(m, m.cur)
  IN  [m EXCEPT !.state    = IF over THEN "idle" ELSE @,
                !.cur      = IF over THEN NoHolder ELSE @,
                !.retiring = IF Finished(m, @) THEN NoHolder ELSE @]

(* hold_blocker: "already holding", or "previous holder still stopping". *)
HoldBlocked(m) ==
  LET r == Reconcile(m) IN r.state = "running" \/ r.retiring # NoHolder

SetPending(m) ==
  LET r == Reconcile(m)
  IN  IF r.state = "running" THEN r ELSE [r EXCEPT !.state = "pending"]

ClearPending(m) ==
  LET r == Reconcile(m)
  IN  IF r.state = "pending" THEN [r EXCEPT !.state = "idle"] ELSE r

(* Order the running holder to stop and forget a pending spec. *)
StopHolder(m) ==
  LET r == Reconcile(m)
  IN  IF r.state = "running"
      THEN [r EXCEPT !.state = "idle", !.cur = NoHolder,
                     !.retiring = r.cur, !.task[r.cur] = "stop"]
      ELSE [r EXCEPT !.state = "idle"]

IsRunning(m) == m.state = "running" /\ m.task[m.cur] # "ended"

(* The running holder's mode word is `mode`. *)
RunningIn(m, mode) == m.state = "running" /\ m.task[m.cur] = mode

Claim(m) ==
  LET r == Reconcile(m)
  IN  IF RunningIn(r, "absent") THEN [r EXCEPT !.task[r.cur] = "handback"]
                                ELSE ClearPending(r)

(* The end of an absence, by adoption or by a Disarm: a pending spec is    *)
(* spent, a holder in Absent stops unless the claim keeps it serving.      *)
MutHolderKeptOnAdoption(m, byClaim) == ClearPending(m)
OnAdopted(m, byClaim) ==
  LET r == Reconcile(m)
  IN  IF RunningIn(r, "absent") /\ ~byClaim THEN StopHolder(r)
                                            ELSE ClearPending(r)

OnDisarm(m) ==
  LET r == Reconcile(m)
  IN  IF RunningIn(r, "absent") THEN StopHolder(r) ELSE ClearPending(r)

OnDisconnect(m) ==
  LET r == Reconcile(m)
  IN  IF RunningIn(r, "handback") THEN StopHolder(r) ELSE r

(* A Local absence began: a pending spec becomes a running holder.  The    *)
(* running one is left alone, so a silent reconnect keeps its listener.    *)
OnAbsenceBegun(m) ==
  LET r == Reconcile(m)
      h == CHOOSE x \in Holders : r.task[x] = "ended"
  IN  IF r.state = "pending"
      THEN [r EXCEPT !.state = "running", !.cur = h, !.task[h] = "absent"]
      ELSE r

(* Handles `serve` awaits on its way out, and the record they leave. *)
MutTakeUnstopped(m) == [m EXCEPT !.retiring = NoHolder]
TakeForShutdown(m) == [StopHolder(m) EXCEPT !.retiring = NoHolder]
ShutdownHandles(m) == {StopHolder(m).retiring} \ {NoHolder}

(* The task finishes: it was told to stop, its hand-back grace or its hard *)
(* cap ran out, or it panicked.                                            *)
Ended(m, h) == [m EXCEPT !.task[h] = "ended"]
=============================================================================
