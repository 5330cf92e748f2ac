---- MODULE PaneGeometry ----
(***************************************************************************)
(* How the size of one pane reaches its PTY (TerminalEngine.ts of           *)
(* terminal-core).  A fit sets the size of xterm; the size is debounced and *)
(* then sent; a pane that nobody sees parks it instead.  hydrate sends a    *)
(* size of its own before it asks for the screen, and a watchdog compares   *)
(* xterm with the backend when all is quiet.                               *)
(*                                                                         *)
(* Sizes are model values.  Several calls of bridge.resize may be under way *)
(* and are answered in any order.  A mount makes a new engine: only xterm  *)
(* and the cache entry are older than it.                                  *)
(***************************************************************************)
EXTENDS Naturals, FiniteSets

CONSTANTS Size,         \* columns and rows
          NoSize,       \* null
          Call,         \* bounds the calls of bridge.resize under way
          Moves,        \* bounds what the surroundings do, failing calls included
          MaxMismatch   \* HEAL_MAX_CONSECUTIVE_MISMATCH

ASSUME GeometryAssumption ==
  /\ NoSize \notin Size
  /\ IsFiniteSet(Size) /\ IsFiniteSet(Call) /\ Call # {}
  /\ Moves \in Nat /\ MaxMismatch \in Nat \ {0}

VARIABLES box,          \* what the container measures now
          term,         \* the size of xterm; NoSize before it is made
          backend,      \* the size of the PTY
          lastSent,     \* lastSentSize of the cache entry
          mounted, attached,   \* container, attachedProcessId
          active, displayed,   \* paneActive, surfaceDisplayed
          fitTimer,     \* the settle fit is armed
          timer,        \* the debounce is armed
          pending,      \* pendingResize
          refused,      \* pendingResizeMeasuredWhileIneligible
          busy,         \* resizeInFlight
          calls,        \* the calls under way
          hydration,    \* what hydrate awaits
          heal,         \* what healOnce awaits
          mismatches,   \* healMismatchCount
          orphan,       \* size that an engine no longer mounted has scheduled
          moves         \* what the surroundings may still do (bound)

paneVars  == <<box, mounted, attached, active, displayed>>
sendVars  == <<timer, pending, refused>>
callVars  == <<busy, calls, backend, lastSent>>
healVars  == <<heal, mismatches, orphan>>
vars == <<paneVars, term, fitTimer, sendVars, callVars, hydration, healVars, moves>>

Sizes == Size \cup {NoSize}
NoCall == [size |-> NoSize, state |-> "free", of |-> "none"]
NoHeal == [state |-> "idle", ui |-> NoSize, got |-> NoSize, stale |-> FALSE, own |-> TRUE]

TypeOK ==
  /\ box \in Size /\ backend \in Size /\ {term, lastSent, pending, orphan} \subseteq Sizes
  /\ {mounted, attached, active, displayed, fitTimer, timer, refused, busy} \subseteq BOOLEAN
  /\ calls \in [Call -> [size : Sizes, state : {"free", "out", "done"},
                         of : {"none", "flush", "hydrate", "gone"}]]
  /\ hydration \in {"none", "resize", "snapshot", "left", "done"}
  /\ heal \in [state : {"idle", "ask", "answered"}, ui : Sizes, got : Sizes,
               stale : BOOLEAN, own : BOOLEAN]
  /\ mismatches \in 0 .. MaxMismatch /\ moves \in 0 .. Moves

Eligible == active \/ displayed

(***************************************************************************)
(* Sending                                                                 *)
(***************************************************************************)
Sends(s, of) ==
  \E c \in Call : /\ calls[c] = NoCall
                  /\ calls' = [calls EXCEPT ![c] = [size |-> s, state |-> "out", of |-> of]]

Move == moves > 0 /\ moves' = moves - 1

(* What healOnce has read is stale from now on (resizeEpoch).              *)
Outdated == IF heal.own /\ heal.state # "idle" THEN [heal EXCEPT !.stale = TRUE] ELSE heal

(* scheduleBackendResize: the debounce starts again.                       *)
Schedules(s, eligible) ==
  /\ pending' = s /\ timer' = TRUE /\ refused' = ~eligible
  /\ heal' = Outdated

(* flushBackendResize.  A hidden pane keeps the size, with no timer.       *)
FlushBackendResize ==
  /\ timer' = FALSE /\ UNCHANGED refused
  /\ IF ~Eligible THEN UNCHANGED <<pending, calls, busy>>
     ELSE /\ pending' = NoSize
          /\ IF pending = NoSize \/ ~attached THEN UNCHANGED <<calls, busy>>
             ELSE Sends(pending, "flush") /\ busy' = TRUE

TimerFires ==
  /\ timer /\ FlushBackendResize
  /\ UNCHANGED <<paneVars, term, fitTimer, backend, lastSent, hydration, healVars, moves>>

(* An engine that is no longer mounted sends what it has scheduled.        *)
OrphanFires ==
  /\ orphan # NoSize /\ Sends(orphan, "gone") /\ orphan' = NoSize
  /\ UNCHANGED <<paneVars, term, fitTimer, sendVars, busy, backend, lastSent, hydration, heal, mismatches, moves>>

Applied(c) ==
  /\ calls[c].state = "out"
  /\ calls' = [calls EXCEPT ![c].state = "done"] /\ backend' = calls[c].size
  /\ UNCHANGED <<paneVars, term, fitTimer, sendVars, busy, lastSent, hydration, healVars, moves>>

(* The answer of a call that failed leaves resizeInFlight as it is.        *)
MutReturns(c) ==
  /\ calls' = [calls EXCEPT ![c] = NoCall]
  /\ busy' = IF calls[c].of = "gone" \/ calls[c].state = "out" THEN busy ELSE FALSE
(* The answer of any call of the engine lowers resizeInFlight.             *)
Returns(c) ==
  /\ calls' = [calls EXCEPT ![c] = NoCall]
  /\ busy' = IF calls[c].of = "gone" THEN busy ELSE FALSE

(* reconcilePendingBackendResize, after the resize of hydrate has returned: *)
(* a pending size that it sent is dropped, another one is flushed.         *)
Reconciles(c) ==
  /\ hydration' = "snapshot" /\ UNCHANGED refused
  /\ IF pending = NoSize THEN UNCHANGED <<timer, pending>> /\ Returns(c)
     ELSE /\ timer' = FALSE
          /\ IF pending = calls[c].size THEN pending' = NoSize /\ Returns(c)
             ELSE IF ~Eligible THEN UNCHANGED pending /\ Returns(c)
             ELSE /\ pending' = NoSize /\ busy' = TRUE
                  /\ calls' = [calls EXCEPT ![c] = [size |-> pending, state |-> "out", of |-> "flush"]]

Answered(c, ok) ==
  /\ IF ok THEN /\ calls[c].state = "done" /\ lastSent' = calls[c].size /\ UNCHANGED moves
           ELSE /\ calls[c].state = "out" /\ UNCHANGED lastSent /\ Move
  /\ IF calls[c].of = "hydrate" THEN Reconciles(c)
                                ELSE Returns(c) /\ UNCHANGED <<sendVars, hydration>>
  /\ UNCHANGED <<paneVars, term, fitTimer, backend, healVars>>

(***************************************************************************)
(* attach and hydrate                                                      *)
(***************************************************************************)
Attach ==
  /\ mounted /\ ~attached /\ attached' = TRUE
  /\ IF hydration = "done" THEN UNCHANGED <<hydration, calls, busy>>
     ELSE hydration' = "resize" /\ Sends(term, "hydrate") /\ busy' = TRUE
  /\ UNCHANGED <<box, mounted, active, displayed, term, fitTimer, sendVars, backend, lastSent,
                 healVars, moves>>

(* The snapshot is painted, or the history in its place (~ok).             *)
Hydrated(ok) ==
  /\ hydration = "snapshot" /\ hydration' = "done"
  /\ IF ok /\ ~busy /\ pending = NoSize /\ lastSent # term
     THEN Schedules(term, Eligible) ELSE UNCHANGED <<sendVars, heal>>
  /\ UNCHANGED <<paneVars, term, fitTimer, callVars, mismatches, orphan, moves>>

(* The engine was unmounted meanwhile.                                     *)
HydratedLate(sends) ==
  /\ hydration = "left" /\ hydration' = "done"
  /\ orphan' = IF sends /\ lastSent # term /\ orphan = NoSize THEN term ELSE orphan
  /\ UNCHANGED <<paneVars, term, fitTimer, sendVars, callVars, heal, mismatches, moves>>

(***************************************************************************)
(* Measuring                                                               *)
(***************************************************************************)
(* A fit to size s, and xterm's onResize if that is another one.           *)
Fits(s, eligible) ==
  /\ term' = s
  /\ IF s = term THEN UNCHANGED <<sendVars, heal>> ELSE Schedules(s, eligible)

(* The settle fit, then flushDeferredResizeOnActivation.                   *)
FitFires ==
  /\ fitTimer /\ fitTimer' = FALSE /\ term' = box
  /\ IF box # term THEN Schedules(box, Eligible)
     ELSE IF Eligible /\ ~busy /\ pending # NoSize
     THEN timer' = TRUE /\ UNCHANGED <<pending, refused, heal>>
     ELSE IF Eligible /\ ~busy /\ lastSent # term THEN Schedules(term, TRUE)
     ELSE UNCHANGED <<sendVars, heal>>
  /\ UNCHANGED <<paneVars, callVars, hydration, mismatches, orphan, moves>>

(* The layout changes; within a frame the observer fits a pane that is seen. *)
BoxChanges(s) ==
  /\ Move /\ s # box /\ box' = s
  /\ IF mounted /\ Eligible THEN Fits(s, TRUE) ELSE UNCHANGED <<term, sendVars, heal>>
  /\ UNCHANGED <<mounted, attached, active, displayed, fitTimer, callVars, hydration,
                 mismatches, orphan>>

(* setFontSize; the cells, and so the box in cells, are others.            *)
SetFontSize(s) ==
  /\ Move /\ mounted /\ box' = s
  /\ fitTimer' = (fitTimer \/ Eligible)
  /\ UNCHANGED <<mounted, attached, active, displayed, term, sendVars, callVars, hydration, healVars>>

SetActive(a) ==
  /\ Move /\ mounted /\ active' = a
  /\ fitTimer' = (a \/ (fitTimer /\ displayed))
  /\ UNCHANGED <<box, mounted, attached, displayed, term, sendVars, callVars, hydration, healVars>>

(* relocateTo a canvas node (d) or back to the pane, with setSurfaceDisplayed; *)
(* ~ok: it is aborted, and the flag is put back.  The observer of the new  *)
(* container runs at once.                                                 *)
ArmsFit(d) == IF d THEN ~Eligible ELSE ~active
RelocateTo(d, s, ok) ==
  /\ Move /\ mounted /\ d # displayed
  /\ displayed' = (d = ok) /\ box' = IF ok THEN s ELSE box
  /\ fitTimer' = (fitTimer \/ ArmsFit(d))
  /\ IF ok /\ (active \/ d) /\ s # term THEN term' = s /\ Schedules(s, TRUE)
     ELSE heal' = Outdated /\ UNCHANGED <<term, sendVars>>
  /\ UNCHANGED <<mounted, attached, active, callVars, hydration, mismatches, orphan>>

(***************************************************************************)
(* Mounting.  The fit of a mount that finds a terminal is not seen by any  *)
(* listener: its size is scheduled at the end unless it was sent before.   *)
(***************************************************************************)
Mount(a) ==
  /\ Move /\ ~mounted /\ mounted' = TRUE
  /\ attached' = FALSE /\ active' = a /\ displayed' = FALSE
  /\ fitTimer' = FALSE /\ mismatches' = 0 /\ busy' = FALSE
  /\ term' = box
  /\ LET sends == term # NoSize /\ lastSent # box IN
     /\ pending' = IF sends THEN box ELSE NoSize
     /\ timer' = sends /\ refused' = (sends /\ ~a)
  /\ UNCHANGED <<box, calls, backend, lastSent, hydration, heal, orphan>>

(* A size that was measured while the pane was seen is sent even now.      *)
TeardownSends == pending # NoSize /\ attached /\ (Eligible \/ ~refused)
Gone(f) == [c \in Call |-> IF f[c] = NoCall THEN NoCall ELSE [f[c] EXCEPT !.of = "gone"]]
Unmount ==
  /\ Move /\ mounted /\ mounted' = FALSE
  /\ IF TeardownSends
     THEN \E c \in Call : /\ calls[c] = NoCall
                          /\ calls' = Gone([calls EXCEPT ![c] = [size |-> pending, state |-> "out",
                                                                 of |-> "flush"]])
     ELSE calls' = Gone(calls)
  /\ attached' = FALSE /\ fitTimer' = FALSE /\ busy' = FALSE
  /\ timer' = FALSE /\ pending' = NoSize /\ refused' = FALSE
  /\ heal' = IF Eligible /\ heal.state # "idle" THEN [heal EXCEPT !.own = FALSE]
             ELSE IF heal.own THEN NoHeal ELSE heal
  /\ hydration' = IF hydration \in {"resize", "snapshot"} THEN "left" ELSE hydration
  /\ UNCHANGED <<box, active, displayed, term, backend, lastSent, mismatches, orphan>>

(***************************************************************************)
(* healOnce                                                                *)
(***************************************************************************)
Hydrating == hydration \in {"resize", "snapshot", "left"}
HealAsks ==
  /\ mounted /\ attached /\ heal = NoHeal
  /\ ~Hydrating /\ pending = NoSize /\ ~busy /\ Eligible
  /\ heal' = [NoHeal EXCEPT !.state = "ask", !.ui = term]
  /\ UNCHANGED <<paneVars, term, fitTimer, sendVars, callVars, hydration, mismatches, orphan, moves>>

HealReads ==
  /\ heal.state = "ask" /\ heal' = [heal EXCEPT !.state = "answered", !.got = backend]
  /\ UNCHANGED <<paneVars, term, fitTimer, sendVars, callVars, hydration, mismatches, orphan, moves>>

MutHeals ==
  IF heal.got = heal.ui
  THEN mismatches' = 0 /\ heal' = NoHeal /\ UNCHANGED sendVars
  ELSE IF mismatches <= MaxMismatch
  THEN /\ mismatches' = mismatches + 1
       /\ pending' = heal.ui /\ timer' = TRUE /\ refused' = FALSE /\ heal' = NoHeal
  ELSE heal' = NoHeal /\ UNCHANGED <<sendVars, mismatches>>
(* What was read counts if nothing that matters has changed since.         *)
Heals ==
  IF heal.got = heal.ui
  THEN mismatches' = 0 /\ heal' = NoHeal /\ UNCHANGED sendVars
  ELSE IF mismatches < MaxMismatch
  THEN /\ mismatches' = mismatches + 1
       /\ pending' = heal.ui /\ timer' = TRUE /\ refused' = FALSE /\ heal' = NoHeal
  ELSE heal' = NoHeal /\ UNCHANGED <<sendVars, mismatches>>

Revalidated == Eligible /\ ~Hydrating /\ pending = NoSize /\ ~busy /\ ~heal.stale /\ term = heal.ui
HealConcludes ==
  /\ heal.state = "answered" /\ heal.own
  /\ IF Revalidated THEN Heals ELSE heal' = NoHeal /\ UNCHANGED <<sendVars, mismatches>>
  /\ UNCHANGED <<paneVars, term, fitTimer, callVars, hydration, orphan, moves>>

(* The engine that asked is gone, and does not know.                       *)
HealConcludesLate ==
  /\ heal.state = "answered" /\ ~heal.own /\ heal' = NoHeal
  /\ orphan' = IF /\ heal.got # heal.ui /\ term = heal.ui /\ ~Hydrating /\ ~heal.stale
                  /\ orphan = NoSize
               THEN heal.ui ELSE orphan
  /\ UNCHANGED <<paneVars, term, fitTimer, sendVars, callVars, hydration, mismatches, moves>>

----
Surroundings ==
  \/ \E s \in Size : BoxChanges(s) \/ SetFontSize(s)
  \/ \E d, ok \in BOOLEAN, s \in Size : RelocateTo(d, s, ok)
  \/ \E a \in BOOLEAN : SetActive(a) \/ Mount(a)
  \/ Unmount
Engine ==
  \/ TimerFires \/ OrphanFires \/ FitFires \/ Attach
  \/ HealAsks \/ HealReads \/ HealConcludes \/ HealConcludesLate
  \/ \E ok \in BOOLEAN : Hydrated(ok) \/ HydratedLate(ok)
Calls == \E c \in Call : Applied(c) \/ \E ok \in BOOLEAN : Answered(c, ok)
Next == Surroundings \/ Engine \/ Calls

Init ==
  /\ box \in Size /\ backend \in Size /\ term = NoSize /\ lastSent = NoSize
  /\ mounted = FALSE /\ attached = FALSE /\ active = FALSE /\ displayed = FALSE
  /\ fitTimer = FALSE /\ timer = FALSE /\ pending = NoSize /\ refused = FALSE
  /\ busy = FALSE /\ calls = [c \in Call |-> NoCall] /\ hydration = "none"
  /\ heal = NoHeal /\ mismatches = 0 /\ orphan = NoSize /\ moves = Moves

Spec == Init /\ [][Next]_vars

(* Timers fire, the host answers what it is asked, the host of the engine   *)
(* attaches what it mounts, and the watchdog, an interval, gets its turn in *)
(* a window that is visible and a session that is silent.                  *)
FairSpec ==
  /\ Spec
  /\ WF_vars(TimerFires) /\ WF_vars(OrphanFires) /\ WF_vars(FitFires) /\ WF_vars(Attach)
  /\ WF_vars(HealAsks) /\ WF_vars(HealReads) /\ WF_vars(HealConcludes) /\ WF_vars(HealConcludesLate)
  /\ WF_vars(\E ok \in BOOLEAN : Hydrated(ok) \/ HydratedLate(ok))
  /\ \A c \in Call : WF_vars(Applied(c)) /\ WF_vars(Answered(c, TRUE))

(***************************************************************************)
(* Properties                                                              *)
(***************************************************************************)
Watched == mounted /\ attached /\ Eligible
Stranded == pending # NoSize /\ ~timer
GaveUp   == mismatches = MaxMismatch

(* Once all is at rest, a pane that is seen has the size of its container,  *)
(* and so has its PTY, whatever calls failed or overtook one another       *)
(* before; unless a parked size is stranded (see ParkedIsSent) or the      *)
(* watchdog has met so many mismatches without a match that it gave up.    *)
Converges == <>[]Watched => <>[](term = box /\ (backend = term \/ Stranded \/ GaveUp))

(* The PTY learns a parked size on the next activation (comment of         *)
(* setSurfaceDisplayed).  Refuted: an activation fit that finds another     *)
(* call under way returns and arms nothing, and the watchdog stays away    *)
(* from a pane with a pending size.                                        *)
ParkedIsSent == <>[]Watched => <>[](pending = NoSize)
====
