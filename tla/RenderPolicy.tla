---- MODULE RenderPolicy ----
(***************************************************************************)
(* Which terminals of a window paint with WebGL: the terminal cache, the   *)
(* quarantine of addons that would not let go of their GPU context, and    *)
(* Canvas Mode's budget (packages/terminal-core/src: cache.ts, webgl.ts,   *)
(* renderPolicy.ts, renderPolicyReconciler.ts; components/Canvas).         *)
(*                                                                         *)
(* The code is synchronous.  A pass of the reconciler or of the restore    *)
(* allocates one context after the other and is modelled one allocation a  *)
(* step, so that the most it holds on the way is seen; nothing else runs   *)
(* during a pass.                                                          *)
(*                                                                         *)
(* A snapshot remembers a terminal and its nonCanvasPolicyGeneration, and  *)
(* is passed over if either has changed by the time it is restored.  The   *)
(* model takes it out of snap when one of them changes.                    *)
(*                                                                         *)
(* Which terminals of the canvas are to paint with WebGL (their tier, less *)
(* those hidden or refused before), and when a pass runs, is left open; so *)
(* is which of the entries out of sight is evicted.                        *)
(*                                                                         *)
(* A definition named Mut... is a variant with a plausible bug, used only  *)
(* to show that a property can fail.                                       *)
(***************************************************************************)
EXTENDS Naturals, FiniteSets, SequencesExt

CONSTANTS Term,           \* terminal ids
          Addon,          \* bounds the addons that exist at a time
          Ceiling,        \* MAX_WEBGL_PER_RENDERER
          MaxGpu,         \* MAX_GPU, the budget of Canvas Mode
          CacheCap,       \* MAX_TERMINAL_CACHE_ENTRIES
          NoAddon

ASSUME PolicyAssumption ==
  /\ IsFiniteSet(Term) /\ IsFiniteSet(Addon) /\ NoAddon \notin Addon
  /\ Ceiling \in Nat /\ MaxGpu \in Nat /\ MaxGpu <= Ceiling /\ CacheCap \in Nat

VARIABLES cached,         \* keys of terminalCache
          connected,      \* entries whose element is in the document
          gpu,            \* the entries' addons, the quarantine, the contexts held
          disabled,       \* globalWebGLDisabled
          budget,         \* canvasWebGLBudget is armed
          snap,           \* what is left of the snapshot taken on entry to Canvas Mode
          offLimits,      \* ids decided upon since that it would promote all the same (history)
          pass            \* the pass under way

snapVars == <<snap, offLimits>>
vars == <<cached, connected, gpu, disabled, budget, snapVars, pass>>

NoSnap == [t \in Term |-> "none"]

(* gpu.live are the addons that hold a GPU context, whoever knows them.    *)
Gpu == [addon : [Term -> Addon \cup {NoAddon}], quarantine : SUBSET Addon, live : SUBSET Addon]

Holding(g, D) == {t \in D : g.addon[t] # NoAddon}
Holds(t)      == gpu.addon[t] # NoAddon

(* countActiveWebGLAddons                                                  *)
CountOf(g) == Cardinality(Holding(g, Term)) + Cardinality(g.quarantine)
Count      == CountOf(gpu)

Minus(a, b) == IF a > b THEN a - b ELSE 0

Idle(kind) ==
  [kind |-> kind, todo |-> <<>>, order |-> <<>>, ids |-> {}, room |-> {}, failed |-> {},
   withheld |-> FALSE, threw |-> FALSE, before |-> [t \in Term |-> NoAddon]]
Quiet == pass.kind \in {"out", "in"}

TypeOK ==
  /\ cached \subseteq Term /\ connected \subseteq cached
  /\ gpu \in Gpu /\ Holding(gpu, Term) \subseteq cached
  /\ disabled \in BOOLEAN /\ budget \in BOOLEAN
  /\ snap \in [Term -> {"none", "webgl", "dom"}]
  /\ offLimits \subseteq Term
  /\ pass.kind \in {"out", "in", "reconcile", "restore"}

Init ==
  /\ cached = {} /\ connected = {}
  /\ gpu = [addon |-> [t \in Term |-> NoAddon], quarantine |-> {}, live |-> {}]
  /\ disabled = FALSE /\ budget = FALSE /\ snap = NoSnap
  /\ offLimits = {}
  /\ pass = Idle("out")

(***************************************************************************)
(* What can become of the addons                                           *)
(***************************************************************************)
(* The entries D give up their addons.  The dispose() of those of F        *)
(* throws: the quarantine takes them over, and their contexts may have     *)
(* been released by then (freed) or not.                                   *)
Addons(g, D) == {g.addon[t] : t \in D}
Disposed(g, D, F, freed) ==
  [addon      |-> [t \in Term |-> IF t \in D THEN NoAddon ELSE g.addon[t]],
   quarantine |-> g.quarantine \cup Addons(g, F),
   live       |-> g.live \ ((Addons(g, Holding(g, D)) \ Addons(g, F)) \cup freed)]
Disposals(g, D) ==
  UNION {{Disposed(g, D, F, freed) : freed \in SUBSET Addons(g, F)} : F \in SUBSET Holding(g, D)}
Threw(g, h) == {t \in Term : g.addon[t] \in h.quarantine \ g.quarantine}

(* loadWebGLAddon for t.  Refused: the toggle is off, or the constructor   *)
(* threw.  Charged: the activation threw; a context may have leaked, and   *)
(* because a dispose() that succeeds then proves nothing, the addon counts *)
(* for good.                                                               *)
Refused(g, t) == {[g EXCEPT !.addon[t] = NoAddon]}
Unused(g)     == Addon \ (g.quarantine \cup g.live \cup Addons(g, Term))
Loaded(g, t)  == {[g EXCEPT !.addon[t] = a, !.live = @ \cup {a}] : a \in Unused(g)}
MutChargedUncounted(g, t) ==
  UNION {{[g EXCEPT !.addon[t] = NoAddon, !.live = @ \cup leak] : leak \in SUBSET {a}}
         : a \in Unused(g)}
Charged(g, t) ==
  UNION {{[g EXCEPT !.addon[t] = NoAddon, !.quarantine = @ \cup {a}, !.live = @ \cup leak]
            : leak \in SUBSET {a}} : a \in Unused(g)}
Loads(g, t)   == Refused(g, t) \cup IF disabled THEN {} ELSE Loaded(g, t) \cup Charged(g, t)

(* setTerminalRenderPolicy(t, 'webgl') of an entry that has no addon.      *)
Promotions(g, t) ==
  IF t \notin cached \/ CountOf(g) >= Ceiling THEN Refused(g, t) ELSE Loads(g, t)

(***************************************************************************)
(* The cache: mount, unmount, cleanupTerminalCache, enforceCacheCap        *)
(***************************************************************************)
(* As many entries out of sight as there are too many, as far as there are. *)
Evictions(c, shown) ==
  LET hidden == c \ shown
      excess == Minus(Cardinality(c), CacheCap)
      number == IF excess < Cardinality(hidden) THEN excess ELSE Cardinality(hidden)
  IN  {D \in SUBSET hidden : Cardinality(D) = number}

(* D change hands, or their generation moves on: their snapshots are void.  *)
Voids(D) == snap' = [t \in Term |-> IF t \in D THEN "none" ELSE snap[t]]
(* Somebody other than Canvas Mode decided how D paint.                    *)
Decided(D) == offLimits' = {t \in offLimits \cup D : snap'[t] = "webgl"}

(* What ends every mount: the entry goes to the back, the cap is enforced. *)
EndsMount(t, g, D) ==
  LET shown == connected \cup {t} IN
  \E gone \in Evictions(cached \cup {t}, shown) :
    /\ cached' = (cached \cup {t}) \ gone /\ connected' = shown \ gone
    /\ gpu' \in Disposals(g, gone)
    /\ Voids(D \cup gone)
    /\ UNCHANGED <<budget, disabled, offLimits, pass>>

(* webglAllowedAtCreation                                                  *)
AllowedAtCreation(g) == CountOf(g) < Ceiling /\ (budget => CountOf(g) < MaxGpu)

(* mount() makes a Terminal.  The addon of an entry it replaces goes first *)
(* (disposeOrphanedWebGLAddon); if it will not, none is allocated.         *)
MountNew(t) ==
  /\ Quiet /\ t \notin connected
  /\ \E g \in Disposals(gpu, {t}) :
       \E h \in IF Threw(gpu, g) = {} /\ AllowedAtCreation(g) THEN Loads(g, t) ELSE Refused(g, t) :
         EndsMount(t, h, {t})

(* mount() of an entry that has its element: the addon goes with it.       *)
Remount(t) == Quiet /\ t \in cached \ connected /\ EndsMount(t, gpu, {})

Unmount(t) ==
  /\ Quiet /\ t \in connected /\ connected' = connected \ {t}
  /\ UNCHANGED <<cached, gpu, disabled, budget, snapVars, pass>>

(* cleanupTerminalCache                                                    *)
Close(t) ==
  /\ Quiet /\ t \in cached
  /\ cached' = cached \ {t} /\ connected' = connected \ {t}
  /\ gpu' \in Disposals(gpu, {t}) /\ Voids({t})
  /\ UNCHANGED <<disabled, budget, offLimits, pass>>

(***************************************************************************)
(* Decisions that are not Canvas Mode's                                    *)
(***************************************************************************)
(* resetTerminalRendering, from the context menu.                          *)
ResetRendering(t) ==
  /\ Quiet /\ t \in cached
  /\ gpu' \in Disposals(gpu, {t}) /\ Voids({t}) /\ Decided({t})
  /\ UNCHANGED <<cached, connected, disabled, budget, pass>>

DisableWebGL ==
  /\ Quiet /\ ~disabled /\ disabled' = TRUE
  /\ gpu' \in Disposals(gpu, cached) /\ Voids(cached) /\ Decided(cached)
  /\ UNCHANGED <<cached, connected, budget, pass>>

EnableWebGL ==
  /\ Quiet /\ disabled /\ disabled' = FALSE
  /\ UNCHANGED <<cached, connected, gpu, budget, snapVars, pass>>

(* onContextLoss: whatever dispose() does, the context is gone.  An addon  *)
(* in quarantine has lost its emitter and hears of no loss.                *)
ContextLoss(t) ==
  /\ Quiet /\ Holds(t)
  /\ gpu' = [gpu EXCEPT !.addon[t] = NoAddon, !.live = @ \ {gpu.addon[t]}]
  /\ Voids({t}) /\ Decided({t})
  /\ UNCHANGED <<cached, connected, disabled, budget, pass>>

(***************************************************************************)
(* Canvas Mode                                                             *)
(***************************************************************************)
(* snapshotRenderPolicies, setCanvasWebGLBudget                            *)
CanvasEnter(ids) ==
  /\ pass.kind = "out" /\ pass' = Idle("in") /\ budget' = TRUE
  /\ snap' = [t \in Term |-> IF t \notin ids \cap cached THEN "none"
                             ELSE IF Holds(t) THEN "webgl" ELSE "dom"]
  /\ offLimits' = {}
  /\ UNCHANGED <<cached, connected, gpu, disabled>>

(* pagehide                                                                *)
PageHide ==
  /\ Quiet /\ budget /\ budget' = FALSE
  /\ UNCHANGED <<cached, connected, gpu, disabled, snapVars, pass>>

(* A demotion of Canvas Mode's own voids the snapshot only if it failed.   *)
Demotes(D) ==
  \E g \in Disposals(gpu, D) :
    gpu' = g /\ Voids(Threw(gpu, g)) /\ Decided(Threw(gpu, g))

(* reconcileRenderPolicies up to its first promotion.  ids are the nodes   *)
(* on the canvas, order those that are to paint with WebGL, most important *)
(* first.  Terminals elsewhere keep what they hold and cost slots.         *)
Slots(ids) == Minus(MaxGpu, Minus(Count, Cardinality(Holding(gpu, ids))))
(* A candidate without an entry has no rank: it can never use a slot.      *)
Rank(order, j)      == Cardinality({k \in 1 .. j : order[k] \in cached})
Winners(ids, order) ==
  {order[j] : j \in {i \in DOMAIN order : order[i] \in cached /\ Rank(order, i) <= Slots(ids)}}
Reconcile(ids, order) ==
  LET losers == Holding(gpu, ToSet(order) \ Winners(ids, order)) IN
  /\ pass.kind = "in" /\ ToSet(order) \subseteq ids
  /\ Demotes(losers \cup Holding(gpu, ids \ ToSet(order)))
  /\ pass' = [Idle("reconcile") EXCEPT !.todo = order, !.order = order, !.ids = ids, !.room = losers,
                                       !.before = gpu.addon, !.threw = Threw(gpu, gpu') # {}]
  /\ UNCHANGED <<cached, connected, disabled, budget>>

(* One candidate.  A slot freed for one that then fails stays free for the *)
(* rest of the pass.                                                       *)
MutPromoteReclaims ==
  LET t == Head(pass.todo)
      asks == ~Holds(t) /\ Count < MaxGpu IN
  /\ pass.kind = "reconcile" /\ pass.todo # <<>>
  /\ gpu' \in IF asks THEN Promotions(gpu, t) ELSE {gpu}
  /\ pass' = [pass EXCEPT !.todo = Tail(@),
                          !.failed = IF asks /\ gpu'.addon[t] = NoAddon THEN @ \cup {t} ELSE @]
  /\ UNCHANGED <<cached, connected, disabled, budget, snapVars>>
Promote ==
  LET t == Head(pass.todo)
      asks == ~Holds(t) /\ t \notin pass.room /\ ~pass.withheld /\ Count < MaxGpu IN
  /\ pass.kind = "reconcile" /\ pass.todo # <<>>
  /\ gpu' \in IF asks THEN Promotions(gpu, t) ELSE {gpu}
  /\ pass' = [pass EXCEPT !.todo = Tail(@),
                          !.withheld = @ \/ (~Holds(t) /\ t \in pass.room),
                          !.failed = IF asks /\ gpu'.addon[t] = NoAddon THEN @ \cup {t} ELSE @]
  /\ UNCHANGED <<cached, connected, disabled, budget, snapVars>>

Reconciled ==
  /\ pass.kind = "reconcile" /\ pass.todo = <<>> /\ pass' = Idle("in")
  /\ UNCHANGED <<cached, connected, gpu, disabled, budget, snapVars>>

(* Leaving: restoreRenderPolicies, demotions first, and only then the end  *)
(* of the budget.                                                          *)
CanvasExit ==
  /\ pass.kind = "in"
  /\ Demotes({t \in cached : snap[t] = "dom" /\ Holds(t)})
  /\ \E order \in SetToSeqs({t \in cached : snap[t] = "webgl"}) :
       pass' = [Idle("restore") EXCEPT !.todo = order]
  /\ UNCHANGED <<cached, connected, disabled, budget>>

MutRestoreUnbudgeted ==
  LET t == Head(pass.todo) IN
  /\ pass.kind = "restore" /\ pass.todo # <<>>
  /\ gpu' \in IF Holds(t) THEN {gpu} ELSE Promotions(gpu, t)
  /\ pass' = [pass EXCEPT !.todo = Tail(@)]
  /\ UNCHANGED <<cached, connected, disabled, budget, snapVars>>
Restore ==
  LET t == Head(pass.todo) IN
  /\ pass.kind = "restore" /\ pass.todo # <<>>
  /\ gpu' \in IF Holds(t) \/ (budget /\ Count >= MaxGpu) THEN {gpu} ELSE Promotions(gpu, t)
  /\ pass' = [pass EXCEPT !.todo = Tail(@)]
  /\ UNCHANGED <<cached, connected, disabled, budget, snapVars>>

Restored ==
  /\ pass.kind = "restore" /\ pass.todo = <<>>
  /\ pass' = Idle("out") /\ budget' = FALSE /\ snap' = NoSnap /\ offLimits' = {}
  /\ UNCHANGED <<cached, connected, gpu, disabled>>

Next ==
  \/ \E t \in Term : \/ MountNew(t) \/ Remount(t) \/ Unmount(t) \/ Close(t)
                     \/ ResetRendering(t) \/ ContextLoss(t)
  \/ DisableWebGL \/ EnableWebGL \/ PageHide
  \/ \E ids \in SUBSET Term :
       \/ CanvasEnter(ids)
       \/ \E W \in SUBSET ids : \E order \in SetToSeqs(W) : Reconcile(ids, order)
  \/ Promote \/ Reconciled \/ CanvasExit \/ Restore \/ Restored

Spec == Init /\ [][Next]_vars
----
(* ORPHAN: no GPU context is held that the count does not see, and none is *)
(* counted twice.  An uncounted one is spent again by every later          *)
(* allocation; the browser then takes the oldest terminal's away.          *)
Orphan ==
  /\ gpu.live \subseteq Addons(gpu, Term) \cup gpu.quarantine
  /\ \A t \in Holding(gpu, Term) :
       /\ gpu.addon[t] \in gpu.live \ gpu.quarantine
       /\ \A u \in Term \ {t} : gpu.addon[u] # gpu.addon[t]

(* The renderer never holds more contexts than the browser grants, however *)
(* mounts, evictions, promotions, leaks and restores follow each other.    *)
WithinCeiling == Count <= Ceiling

(* Every context is accounted for, and the browser is asked for no more.    *)
ContextsSound == TypeOK /\ Orphan /\ WithinCeiling

(* While the budget is armed nothing allocates past it, not even on the    *)
(* way to a state that is within it: a swap demotes before it promotes,    *)
(* and leaving restores before it releases the budget.                     *)
BudgetHolds == [][budget /\ CountOf(gpu') > Count => CountOf(gpu') <= MaxGpu]_vars

(* Leaving Canvas Mode never gives WebGL back to a terminal that was reset,*)
(* switched off or lost its context meanwhile, or whose addon would not go,*)
(* even if it had no addon left when that happened.                        *)
RestoreRespects ==
  [][pass.kind = "restore" => \A t \in offLimits : Holds(t) \/ gpu'.addon[t] = NoAddon]_vars

(* Both: what Canvas Mode may never do to the GPU contexts of a window.     *)
BudgetKept == BudgetHolds /\ RestoreRespects

(* A pass tears no context down to build it again: who has one before and  *)
(* after has had the same one all along.                                   *)
NoChurn ==
  pass.kind = "reconcile" =>
    \A t \in Holding(gpu, Term) : pass.before[t] \in {NoAddon, gpu.addon[t]}

(* At the end of a pass in which every demotion worked the budget is kept  *)
(* or nothing on the canvas holds a context, and no candidate paints with  *)
(* WebGL while a more important one, that the GPU did not refuse, does not.*)
PassSettles ==
  pass.kind = "reconcile" /\ pass.todo = <<>> /\ ~pass.threw =>
    /\ Count > MaxGpu => Holding(gpu, pass.ids) = {}
    /\ \A i, j \in DOMAIN pass.order :
         i < j /\ pass.order[i] \in cached \ pass.failed /\ Holds(pass.order[j])
           => Holds(pass.order[i])

(* A pass reaches what it is for, and no context is lost on the way.        *)
PassSound == NoChurn /\ PassSettles
====
