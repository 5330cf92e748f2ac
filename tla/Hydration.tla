---- MODULE Hydration ----
(***************************************************************************)
(* How the output of a process reaches xterm (TerminalEngine.ts of          *)
(* terminal-core): attach subscribes to the stream and raises a gate,       *)
(* hydrate asks the host for the screen, what arrives meanwhile waits, and  *)
(* a commit paints the answer and lowers the gate.  The cache entry of a   *)
(* pane outlives the engine that mounted it; a hydrate outlives both.      *)
(*                                                                         *)
(* The output of a process is a sequence of numbered chunks; the screen is *)
(* the sequence of what was painted since the last reset.  Events and      *)
(* answers come from the host on ways of their own and may overtake each   *)
(* other.                                                                  *)
(***************************************************************************)
EXTENDS Naturals, Sequences, FiniteSets, SequencesExt

CONSTANTS Process,      \* processes a pane shows one after the other: 1 .. n
          NoProcess,
          Run,          \* bounds the hydrates under way
          Chunks,       \* bounds the output of a process
          Cap,          \* HYDRATION_BUFFER_CAP_BYTES, in chunks
          Restored,     \* processes that start with the replay of an earlier life
          MaxGeneration, MaxEra   \* bound attaches and evictions

ASSUME HydrationAssumption ==
  /\ Process \subseteq Nat \ {0} /\ NoProcess = 0
  /\ IsFiniteSet(Process) /\ IsFiniteSet(Run)
  /\ Chunks \in Nat \ {0} /\ Cap \in Nat \ {0}
  /\ Restored \subseteq Process
  /\ MaxGeneration \in Nat \ {0} /\ MaxEra \in Nat

VARIABLES out, del,     \* chunks a process has written, and the renderer has received
          missed,       \* processes of which a chunk was received by nobody
          mounted, attached,   \* the engine: container, attachedProcessId
          era,          \* counts the entries the pane has had (history)
          exists,       \* the cache entry: there is one
          process, subscribed, \*   its processId and dataDisposable
          hydrating, generation, hydrated, \* the gate, its generation, lastHydratedProcessId
          pend, cut,    \*   pendingOutput; the cap has dropped some of it
          live,         \*   liveWriteBuf
          screen,       \*   what xterm shows
          painted,      \*   lastSnapshot
          runs,         \* the hydrates under way
          repair,       \* a resync or repair under way
          spoilt,       \* the answer on the screen raced the stream (history)
          outlived      \* a hydrate has committed to an entry it did not start with (history)

streamVars == <<out, del, missed>>
engineVars == <<mounted, attached>>
gateVars   == <<hydrating, generation, hydrated>>
linkVars   == <<era, exists, process, subscribed>>
bufVars    == <<pend, cut, live>>
paintVars  == <<screen, painted, spoilt>>
vars == <<streamVars, engineVars, linkVars, gateVars, bufVars, paintVars, runs, repair, outlived>>

Processes == Process \cup {NoProcess}
Chunk == [of : Process, i : 0 .. Chunks]
Idle == [state |-> "idle", of |-> NoProcess, generation |-> 0, era |-> 0, kind |-> "none", upto |-> 0]
NoRepair == [state |-> "idle", of |-> NoProcess, upto |-> 0, fresh |-> TRUE]
Nothing == [of |-> NoProcess, upto |-> 0]

TypeOK ==
  /\ out \in [Process -> 0 .. Chunks] /\ del \in [Process -> 0 .. Chunks]
  /\ missed \subseteq Process
  /\ {mounted, exists, hydrating, cut, spoilt, outlived} \subseteq BOOLEAN
  /\ {attached, process, subscribed, hydrated} \subseteq Processes
  /\ era \in 0 .. MaxEra /\ generation \in 0 .. MaxGeneration
  /\ {pend, live, screen} \subseteq Seq(Chunk)
  /\ Len(pend) <= Cap
  /\ painted \in [of : Processes, upto : 0 .. Chunks]
  /\ runs \in [Run -> [state : {"idle", "asked", "history", "answered"}, of : Processes,
                       generation : 0 .. MaxGeneration, era : 0 .. MaxEra,
                       kind : {"none", "screen", "prefix", "history"}, upto : 0 .. Chunks]]
  /\ repair \in [state : {"idle", "resync", "ed3", "resyncRead", "ed3Read"},
                 of : Processes, upto : 0 .. Chunks, fresh : BOOLEAN]

Upto(p, k) == [i \in 1 .. k |-> [of |-> p, i |-> i]]
Replay(p)  == <<[of |-> p, i |-> 0]>>

(***************************************************************************)
(* The stream                                                              *)
(***************************************************************************)
Produce(p) ==
  /\ out[p] < Chunks /\ out' = [out EXCEPT ![p] = @ + 1]
  /\ UNCHANGED <<del, missed, engineVars, linkVars, gateVars, bufVars, paintVars, runs, repair, outlived>>

(* The buffer of a hydrate keeps the newest chunks.                        *)
Buffered(c) ==
  LET all == Append(pend, c) IN
  /\ pend' = IF Len(all) > Cap THEN Tail(all) ELSE all
  /\ cut' = (cut \/ Len(all) > Cap)

(* The handler of onData.                                                  *)
Deliver(p) ==
  LET c == [of |-> p, i |-> del[p] + 1] IN
  /\ del[p] < out[p] /\ del' = [del EXCEPT ![p] = @ + 1]
  /\ IF ~exists \/ subscribed # p
     THEN missed' = missed \cup {p} /\ UNCHANGED <<bufVars, repair>>
     ELSE /\ UNCHANGED missed
          /\ repair' = IF repair = NoRepair THEN repair ELSE [repair EXCEPT !.fresh = FALSE]
          /\ IF hydrating THEN Buffered(c) /\ UNCHANGED live
                          ELSE live' = Append(live, c) /\ UNCHANGED <<pend, cut>>
  /\ UNCHANGED <<out, engineVars, linkVars, gateVars, paintVars, runs, outlived>>

(* By its timer, and when the process exits.                               *)
FlushLiveWrites ==
  /\ live # <<>> /\ live' = <<>> /\ screen' = screen \o live
  /\ UNCHANGED <<streamVars, engineVars, linkVars, gateVars, pend, cut, painted, spoilt,
                 runs, repair, outlived>>

(***************************************************************************)
(* Mounting, attaching, evicting                                           *)
(***************************************************************************)
Mount ==
  /\ ~mounted /\ mounted' = TRUE /\ attached' = NoProcess /\ exists' = TRUE
  /\ UNCHANGED <<streamVars, era, process, subscribed, gateVars, bufVars, paintVars,
                 runs, repair, outlived>>

Unmount ==
  /\ mounted /\ mounted' = FALSE /\ attached' = NoProcess
  /\ UNCHANGED <<streamVars, linkVars, gateVars, bufVars, paintVars, runs, repair, outlived>>

(* cleanupTerminalCache of a pane that is not mounted.  The next entry      *)
(* counts its generations from 0 again.                                    *)
Evict ==
  /\ exists /\ ~mounted /\ era < MaxEra
  /\ era' = era + 1 /\ exists' = FALSE
  /\ process' = NoProcess /\ subscribed' = NoProcess
  /\ hydrating' = FALSE /\ generation' = 0 /\ hydrated' = NoProcess
  /\ pend' = <<>> /\ cut' = FALSE /\ live' = <<>>
  /\ screen' = <<>> /\ painted' = Nothing /\ spoilt' = FALSE
  /\ missed' = missed \cup {p \in Process : del[p] > 0}
  /\ UNCHANGED <<out, del, engineVars, runs, repair, outlived>>

(* attach, and hydrate up to its first await.  A pane goes from a process   *)
(* to a newer one; the buffers are kept.                                   *)
Asks(p) ==
  \E r \in Run :
    /\ runs[r] = Idle /\ generation < MaxGeneration
    /\ generation' = generation + 1 /\ hydrating' = TRUE
    /\ runs' = [runs EXCEPT ![r] = [Idle EXCEPT !.state = "asked", !.of = p,
                                    !.generation = generation + 1, !.era = era]]
MutSubscribes(p) ==   \* keeps the subscription of the process before
  /\ mounted /\ p >= process
  /\ ~(attached = p /\ (hydrated = p \/ hydrating))
  /\ attached' = p /\ process' = p
  /\ subscribed' = IF subscribed = NoProcess THEN p ELSE subscribed
  /\ LET known == IF process # p THEN NoProcess ELSE hydrated IN
     /\ hydrated' = known
     /\ IF known = p THEN hydrating' = FALSE /\ UNCHANGED <<generation, runs>> ELSE Asks(p)
  /\ UNCHANGED <<streamVars, mounted, era, exists, bufVars, paintVars, repair, outlived>>
Attach(p) ==
  /\ mounted /\ p >= process
  /\ ~(attached = p /\ (hydrated = p \/ hydrating))
  /\ attached' = p /\ process' = p /\ subscribed' = p
  /\ LET known == IF process # p THEN NoProcess ELSE hydrated IN
     /\ hydrated' = known
     /\ IF known = p THEN hydrating' = FALSE /\ UNCHANGED <<generation, runs>> ELSE Asks(p)
  /\ UNCHANGED <<streamVars, mounted, era, exists, bufVars, paintVars, repair, outlived>>

(***************************************************************************)
(* hydrate                                                                 *)
(***************************************************************************)
Answers(r, kind, k) ==
  runs' = [runs EXCEPT ![r] = [@ EXCEPT !.state = "answered", !.kind = kind, !.upto = k]]

(* The host reads the screen; of a restored session nobody has seen yet it  *)
(* gives the replay, without what the process has written.                 *)
SnapshotRead(r) ==
  /\ runs[r].state = "asked"
  /\ \/ Answers(r, "screen", out[runs[r].of])
     \/ runs[r].of \in Restored \ missed /\ Answers(r, "prefix", 0)
  /\ UNCHANGED <<streamVars, engineVars, linkVars, gateVars, bufVars, paintVars, repair, outlived>>

SnapshotFails(r) ==
  /\ runs[r].state = "asked" /\ runs' = [runs EXCEPT ![r].state = "history"]
  /\ UNCHANGED <<streamVars, engineVars, linkVars, gateVars, bufVars, paintVars, repair, outlived>>

HistoryRead(r, ok) ==
  /\ runs[r].state = "history"
  /\ Answers(r, "history", IF ok THEN out[runs[r].of] ELSE 0)
  /\ UNCHANGED <<streamVars, engineVars, linkVars, gateVars, bufVars, paintVars, repair, outlived>>

Cancelled(r) == ~exists \/ generation # runs[r].generation
HydrateCancelled(r) ==
  /\ runs[r].state = "answered" /\ Cancelled(r) /\ runs' = [runs EXCEPT ![r] = Idle]
  /\ UNCHANGED <<streamVars, engineVars, linkVars, gateVars, bufVars, paintVars, repair, outlived>>

MutCommitted(a) ==    \* drops what waited behind a replay
  IF a.kind = "prefix" THEN Replay(a.of)
  ELSE IF a.upto = 0 THEN screen \o pend
  ELSE IF a.kind = "screen" THEN Upto(a.of, a.upto)
  ELSE Upto(a.of, a.upto) \o (IF IsSuffix(pend, Upto(a.of, a.upto)) THEN <<>> ELSE pend)
(* What xterm shows after the commit, and whether the answer raced.        *)
Committed(a) ==
  IF a.kind = "prefix" THEN Replay(a.of) \o pend
  ELSE IF a.upto = 0 THEN screen \o pend
  ELSE IF a.kind = "screen" THEN Upto(a.of, a.upto)
  ELSE Upto(a.of, a.upto) \o (IF IsSuffix(pend, Upto(a.of, a.upto)) THEN <<>> ELSE pend)
Raced(a) ==
  IF a.upto = 0 THEN spoilt \/ cut \/ a.of \in missed
  ELSE \/ del[a.of] # a.upto
       \/ a.kind = "history" /\ \E n \in 1 .. Len(pend) : pend[n].of # a.of

Commit(r) ==
  LET a == runs[r] IN
  /\ a.state = "answered" /\ ~Cancelled(r) /\ runs' = [runs EXCEPT ![r] = Idle]
  /\ screen' = Committed(a) /\ spoilt' = Raced(a)
  /\ painted' = IF a.kind \in {"screen", "prefix"} /\ (a.upto > 0 \/ a.kind = "prefix")
                THEN [of |-> a.of, upto |-> a.upto] ELSE painted
  /\ pend' = <<>> /\ cut' = FALSE
  /\ hydrated' = a.of /\ hydrating' = FALSE
  /\ outlived' = (outlived \/ a.era # era)
  /\ UNCHANGED <<streamVars, engineVars, linkVars, generation, live, repair>>

(***************************************************************************)
(* resync and the repair of a wiped scrollback: both repaint when nothing  *)
(* has arrived for a while, before the fetch and after it.                 *)
(***************************************************************************)
RepairAsks(kind) ==
  /\ repair = NoRepair /\ mounted /\ attached # NoProcess /\ live = <<>>
  /\ kind = "resync" => ~hydrating
  /\ repair' = [NoRepair EXCEPT !.state = kind, !.of = attached]
  /\ UNCHANGED <<streamVars, engineVars, linkVars, gateVars, bufVars, paintVars, runs, outlived>>

RepairRead ==
  /\ repair.state \in {"resync", "ed3"}
  /\ repair' = [repair EXCEPT !.state = IF repair.state = "ed3" THEN "ed3Read" ELSE "resyncRead",
                              !.upto = out[repair.of]]
  /\ UNCHANGED <<streamVars, engineVars, linkVars, gateVars, bufVars, paintVars, runs, outlived>>

(* A resync whose answer is what was painted last changes nothing.         *)
Repaints(kind) ==
  /\ mounted /\ attached = repair.of /\ repair.fresh /\ repair.upto > 0
  /\ kind = "resync" => ~hydrating /\ painted # [of |-> repair.of, upto |-> repair.upto]
RepairDone(kind) ==
  /\ repair.state = (IF kind = "ed3" THEN "ed3Read" ELSE "resyncRead")
  /\ repair' = NoRepair
  /\ IF Repaints(kind)
     THEN /\ screen' = Upto(repair.of, repair.upto) /\ spoilt' = (hydrating \/ del[repair.of] # repair.upto)
          /\ painted' = IF kind = "resync" THEN [of |-> repair.of, upto |-> repair.upto] ELSE painted
     ELSE UNCHANGED paintVars
  /\ UNCHANGED <<streamVars, engineVars, linkVars, gateVars, bufVars, runs, outlived>>

----
Stream == FlushLiveWrites \/ \E p \in Process : Produce(p) \/ Deliver(p)
Pane   == Mount \/ Unmount \/ Evict \/ \E p \in Process : Attach(p)
Hydrate == \E r \in Run : \/ SnapshotRead(r) \/ SnapshotFails(r) \/ HydrateCancelled(r) \/ Commit(r)
                          \/ \E ok \in BOOLEAN : HistoryRead(r, ok)
Repair == RepairRead \/ \E kind \in {"resync", "ed3"} : RepairAsks(kind) \/ RepairDone(kind)
Next == Stream \/ Pane \/ Hydrate \/ Repair

Init ==
  /\ out = [p \in Process |-> 0] /\ del = [p \in Process |-> 0] /\ missed = {}
  /\ mounted = FALSE /\ attached = NoProcess
  /\ era = 0 /\ exists = FALSE /\ process = NoProcess /\ subscribed = NoProcess
  /\ hydrating = FALSE /\ generation = 0 /\ hydrated = NoProcess
  /\ pend = <<>> /\ cut = FALSE /\ live = <<>>
  /\ screen = <<>> /\ painted = Nothing /\ spoilt = FALSE
  /\ runs = [r \in Run |-> Idle] /\ repair = NoRepair /\ outlived = FALSE

Spec == Init /\ [][Next]_vars

(***************************************************************************)
(* Properties                                                              *)
(***************************************************************************)
(* While output is held back a hydrate is under way that will let it go:   *)
(* the run whose generation the entry has.                                 *)
GateServed ==
  hydrating => \E r \in Run : runs[r].state # "idle" /\ runs[r].generation = generation /\ exists

(* What is painted live is the process the engine is attached to: a pane    *)
(* that is given another process listens to that one and to no other.      *)
ListensToItsOwn == attached # NoProcess => exists /\ {process, subscribed} = {attached}

(* The entry of the pane is sound in both respects.                        *)
EntrySound == TypeOK /\ GateServed /\ ListensToItsOwn

(* Once all has arrived and is painted, xterm shows every chunk of the      *)
(* process once and in order, across remounts, evictions, re-targeting,    *)
(* failed snapshots and repairs; unless the answer on the screen and the    *)
(* stream overtook each other, a repair fell into a hydrate, output of the  *)
(* process before waited in the buffer, or an old hydrate struck.          *)
Own(s, p) == {n \in DOMAIN s : s[n].of = p /\ s[n].i > 0}
OnceInOrder(s, p, k) ==
  /\ \A m, n \in Own(s, p) : m < n => s[m].i < s[n].i
  /\ {s[n].i : n \in Own(s, p)} = 1 .. k
Settled(p) == attached = p /\ hydrated = p /\ ~hydrating /\ live = <<>> /\ del[p] = out[p]
Exact == \A p \in Process :
  Settled(p) /\ ~spoilt /\ ~outlived => OnceInOrder(screen, p, out[p])

(* Buffered chunks are "already reflected in the snapshot" when it is       *)
(* painted and they are dropped (comment in hydrate).  Refuted: one written *)
(* after the host read the screen and received before its answer is lost   *)
(* (with two chunks).                                                      *)
DropsOnlyReflected ==
  [][\A r \in Run : Commit(r) /\ runs[r].kind = "screen" /\ runs[r].upto > 0
                    => \A n \in 1 .. Len(pend) : pend[n].of = runs[r].of => pend[n].i <= runs[r].upto]_vars

(* A hydrate of an entry that is gone is cancelled, "either way" (comment   *)
(* in hydrate).  Refuted: the new entry counts from 0 and reaches the      *)
(* generation of the old run.                                              *)
NoStaleCommit == ~outlived
====
