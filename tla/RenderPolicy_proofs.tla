------------------------- MODULE RenderPolicy_proofs -------------------------
(***************************************************************************)
(* The GPU contexts of a window, for any number of terminals and addons    *)
(* and any ceiling, budget and size of the cache.                          *)
(*                                                                         *)
(* First what a disposal and a load do to a Gpu record: neither loses a    *)
(* context, a disposal never raises the count and a load raises it by one  *)
(* at most.  Every action allocates through those two, so the account and  *)
(* the ceiling follow.  Then a pass of the reconciler: the winners it      *)
(* chose before its demotions keep a slot each until their turn, and       *)
(* whoever is passed over leaves the rest of the pass without one.         *)
(***************************************************************************)
EXTENDS RenderPolicy, FiniteSetTheorems, TLAPS

(* The account of one Gpu record; Orphan is that of the state.             *)
Accounted(g) ==
  /\ g.live \subseteq Addons(g, Term) \cup g.quarantine
  /\ \A t \in Holding(g, Term) :
       /\ g.addon[t] \in g.live \ g.quarantine
       /\ \A u \in Term \ {t} : g.addon[u] # g.addon[t]

LEMMA OrphanAccounted == Orphan <=> Accounted(gpu)
BY DEF Orphan, Accounted

LEMMA CountFinite ==
  ASSUME NEW g \in Gpu
  PROVE  /\ IsFiniteSet(Holding(g, Term)) /\ IsFiniteSet(g.quarantine)
         /\ Cardinality(Holding(g, Term)) \in Nat /\ Cardinality(g.quarantine) \in Nat
         /\ CountOf(g) \in Nat
<1>1. IsFiniteSet(Holding(g, Term))
  BY PolicyAssumption, FS_Subset DEF Holding
<1>2. IsFiniteSet(g.quarantine)
  BY PolicyAssumption, FS_Subset DEF Gpu
<1>3. Cardinality(Holding(g, Term)) \in Nat /\ Cardinality(g.quarantine) \in Nat
  BY <1>1, <1>2, FS_CardinalityType
<1> QED BY <1>1, <1>2, <1>3 DEF CountOf

(***************************************************************************)
(* Disposals                                                               *)
(***************************************************************************)
(* A disposal takes the addons of D, and puts into quarantine those that   *)
(* would not go.                                                           *)
LEMMA DisposalsTake ==
  ASSUME NEW g \in Gpu, NEW D \in SUBSET Term, NEW h \in Disposals(g, D)
  PROVE  /\ h \in Gpu
         /\ \A t \in Term : h.addon[t] = IF t \in D THEN NoAddon ELSE g.addon[t]
         /\ Holding(h, Term) = Holding(g, Term) \ D
         /\ Threw(g, h) = {} => h.quarantine = g.quarantine
<1>p. PICK F \in SUBSET Holding(g, D) : \E freed \in SUBSET Addons(g, F) : h = Disposed(g, D, F, freed)
  BY DEF Disposals
<1>1. PICK freed \in SUBSET Addons(g, F) : h = Disposed(g, D, F, freed)
  BY <1>p
<1>2. /\ h.addon = [t \in Term |-> IF t \in D THEN NoAddon ELSE g.addon[t]]
      /\ h.quarantine = g.quarantine \cup Addons(g, F)
      /\ h.live \subseteq g.live
      /\ h = [addon |-> h.addon, quarantine |-> h.quarantine, live |-> h.live]
  BY <1>1 DEF Disposed
<1>3. h \in Gpu
  <2>1. Addons(g, F) \subseteq Addon
    BY DEF Gpu, Holding, Addons
  <2>2. h.addon \in [Term -> Addon \cup {NoAddon}]
    BY <1>2 DEF Gpu
  <2>3. h.quarantine \in SUBSET Addon /\ h.live \in SUBSET Addon
    BY <1>2, <2>1 DEF Gpu
  <2> QED BY <1>2, <2>2, <2>3 DEF Gpu
<1>4. Holding(h, Term) = Holding(g, Term) \ D
  BY <1>2 DEF Holding
<1>5. ASSUME Threw(g, h) = {} PROVE h.quarantine = g.quarantine
  <2>1. \A t \in F : t \in Term
    BY DEF Holding
  <2>2. \A t \in F : g.addon[t] \notin h.quarantine \ g.quarantine
    BY <1>5, <2>1 DEF Threw
  <2> QED BY <1>2, <2>2 DEF Addons
<1> QED BY <1>2, <1>3, <1>4, <1>5

(* No disposal raises the count: an addon that would not go counts on.     *)
LEMMA DisposalsCount ==
  ASSUME NEW g \in Gpu, NEW D \in SUBSET Term, NEW h \in Disposals(g, D)
  PROVE  CountOf(h) <= CountOf(g)
<1>1. PICK F \in SUBSET Holding(g, D) : h.quarantine = g.quarantine \cup Addons(g, F)
  <2>1. PICK F \in SUBSET Holding(g, D) : \E freed \in SUBSET Addons(g, F) : h = Disposed(g, D, F, freed)
    BY DEF Disposals
  <2> QED BY <2>1 DEF Disposed
<1> DEFINE all == Holding(g, Term)
           thrown == Addons(g, F)
           f == [t \in F |-> g.addon[t]]
<1>2. IsFiniteSet(all) /\ Cardinality(all) \in Nat /\ IsFiniteSet(g.quarantine)
        /\ Cardinality(g.quarantine) \in Nat
  BY CountFinite
<1>3. F \subseteq all /\ F \subseteq D
  BY DEF Holding
<1>4. IsFiniteSet(F) /\ Cardinality(F) \in Nat
  BY <1>2, <1>3, FS_Subset, FS_CardinalityType
<1>5. IsFiniteSet(thrown) /\ Cardinality(thrown) <= Cardinality(F) /\ Cardinality(thrown) \in Nat
  <2>1. f \in Surjection(F, thrown)
    BY DEF Surjection, Addons
  <2>2. IsFiniteSet(thrown) /\ Cardinality(thrown) <= Cardinality(F)
    BY <1>4, <2>1, FS_Surjection
  <2> QED BY <2>2, FS_CardinalityType
<1>6. Cardinality(all \ F) = Cardinality(all) - Cardinality(F) /\ IsFiniteSet(all \ F)
  <2>1. all \cap F = F
    BY <1>3
  <2>2. /\ IsFiniteSet(all \ F)
        /\ Cardinality(all \ F) = Cardinality(all) - Cardinality(all \cap F)
    BY <1>2, FS_Difference, Zenon
  <2> QED BY <2>1, <2>2
<1>7. Cardinality(Holding(h, Term)) <= Cardinality(all \ F)
  <2>1. Holding(h, Term) \subseteq all \ F
    BY <1>3, DisposalsTake
  <2> QED BY <1>6, <2>1, FS_Subset
<1>8. Cardinality(h.quarantine) <= Cardinality(g.quarantine) + Cardinality(thrown)
  <2>1. IsFiniteSet(g.quarantine \cap thrown)
    BY <1>2, FS_Intersection
  <2>2. Cardinality(g.quarantine \cap thrown) \in Nat
    BY <2>1, FS_CardinalityType
  <2>3. Cardinality(h.quarantine)
          = Cardinality(g.quarantine) + Cardinality(thrown) - Cardinality(g.quarantine \cap thrown)
    BY <1>1, <1>2, <1>5, FS_Union
  <2> QED BY <1>2, <1>5, <2>2, <2>3
<1>9. Cardinality(Holding(h, Term)) \in Nat /\ Cardinality(h.quarantine) \in Nat
  BY DisposalsTake, CountFinite
<1> HIDE DEF all, thrown
<1> QED BY <1>2, <1>4, <1>5, <1>6, <1>7, <1>8, <1>9 DEF CountOf, all

(* The contexts that are left after a disposal are all accounted for.      *)
LEMMA DisposalsAccount ==
  ASSUME NEW g \in Gpu, Accounted(g), NEW D \in SUBSET Term, NEW h \in Disposals(g, D)
  PROVE  Accounted(h)
<1>1. PICK F \in SUBSET Holding(g, D), freed \in SUBSET Addon :
        /\ freed \subseteq Addons(g, F)
        /\ h.quarantine = g.quarantine \cup Addons(g, F)
        /\ h.live = g.live \ ((Addons(g, Holding(g, D)) \ Addons(g, F)) \cup freed)
  <2>1. PICK F \in SUBSET Holding(g, D) : \E freed \in SUBSET Addons(g, F) : h = Disposed(g, D, F, freed)
    BY DEF Disposals
  <2>2. Addons(g, F) \subseteq Addon
    BY DEF Gpu, Holding, Addons
  <2> QED BY <2>1, <2>2 DEF Disposed
<1>2. \A t \in Term : h.addon[t] = IF t \in D THEN NoAddon ELSE g.addon[t]
  BY DisposalsTake
<1>3. Holding(g, D) \subseteq Holding(g, Term) /\ F \subseteq D /\ F \subseteq Term
  BY DEF Holding
<1>4. ASSUME NEW a \in h.live PROVE a \in Addons(h, Term) \cup h.quarantine
  <2>1. a \in g.live
    BY <1>1
  <2>2. CASE a \in g.quarantine
    BY <1>1, <2>2
  <2>3. ASSUME NEW t \in Term, a = g.addon[t], t \notin D
        PROVE a \in Addons(h, Term)
    BY <1>2, <2>3 DEF Addons
  <2>4. ASSUME NEW t \in Term, a = g.addon[t], t \in D, a # NoAddon
        PROVE a \in h.quarantine
    <3>1. t \in Holding(g, D)
      BY <2>4 DEF Holding
    <3> QED BY <1>1, <2>1, <2>4, <3>1 DEF Addons
  <2>5. a # NoAddon
    BY <2>1, PolicyAssumption DEF Gpu
  <2> QED BY <2>1, <2>2, <2>3, <2>4, <2>5 DEF Accounted, Addons
<1>5. ASSUME NEW t \in Holding(h, Term)
      PROVE  /\ h.addon[t] \in h.live \ h.quarantine
             /\ \A u \in Term \ {t} : h.addon[u] # h.addon[t]
  <2>1. t \in Holding(g, Term) /\ t \notin D /\ h.addon[t] = g.addon[t] /\ t \in Term
    BY <1>2, DisposalsTake DEF Holding
  <2>2. g.addon[t] \in g.live \ g.quarantine /\ \A u \in Term \ {t} : g.addon[u] # g.addon[t]
    BY <2>1 DEF Accounted
  <2>3. \A u \in D : u \in Term \ {t}
    BY <2>1
  <2>4. \A u \in Holding(g, D) : g.addon[u] # g.addon[t]
    BY <2>2, <2>3 DEF Holding
  <2>5. h.addon[t] \in h.live \ h.quarantine
    BY <1>1, <1>3, <2>1, <2>2, <2>4 DEF Addons
  <2>6. g.addon[t] # NoAddon
    BY <2>1 DEF Holding
  <2> QED BY <1>2, <2>1, <2>2, <2>5, <2>6
<1> QED BY <1>4, <1>5 DEF Accounted

(***************************************************************************)
(* Loads                                                                   *)
(***************************************************************************)
(* What a load of t may come to: nothing, an addon for t, or one more in   *)
(* quarantine.                                                             *)
LEMMA RefusedSame ==
  ASSUME NEW g \in Gpu, NEW t \in Term, g.addon[t] = NoAddon, NEW h \in Refused(g, t)
  PROVE  h = g
<1>1. h = [g EXCEPT !.addon[t] = NoAddon]
  BY DEF Refused
<1>2. [g.addon EXCEPT ![t] = NoAddon] = g.addon
  BY DEF Gpu
<1>3. h = [g EXCEPT !.addon = [g.addon EXCEPT ![t] = NoAddon]]
  BY <1>1 DEF Gpu
<1>4. [g EXCEPT !.addon = g.addon] = g
  BY DEF Gpu
<1> QED BY <1>2, <1>3, <1>4

LEMMA LoadedOne ==
  ASSUME NEW g \in Gpu, Accounted(g), NEW t \in Term, g.addon[t] = NoAddon, NEW h \in Loaded(g, t)
  PROVE  /\ h \in Gpu /\ Accounted(h) /\ CountOf(h) = CountOf(g) + 1
         /\ \A u \in Term \ {t} : h.addon[u] = g.addon[u]
         /\ h.addon[t] # NoAddon
<1>1. PICK a \in Unused(g) : h = [g EXCEPT !.addon[t] = a, !.live = @ \cup {a}]
  BY Zenon DEF Loaded
<1>2. a \in Addon /\ a \notin g.quarantine /\ a \notin g.live /\ \A u \in Term : g.addon[u] # a
  BY DEF Unused, Addons
<1>3. /\ h.addon = [g.addon EXCEPT ![t] = a] /\ h.quarantine = g.quarantine
      /\ h.live = g.live \cup {a}
  BY <1>1 DEF Gpu
<1>4. h \in Gpu
  <2>1. h.addon \in [Term -> Addon \cup {NoAddon}] /\ h.quarantine \in SUBSET Addon
          /\ h.live \in SUBSET Addon
    BY <1>2, <1>3 DEF Gpu
  <2>2. h = [addon |-> h.addon, quarantine |-> h.quarantine, live |-> h.live]
    BY <1>1 DEF Gpu
  <2> QED BY <2>1, <2>2 DEF Gpu
<1>5. \A u \in Term : h.addon[u] = IF u = t THEN a ELSE g.addon[u]
  BY <1>3 DEF Gpu
<1>6. a # NoAddon
  BY <1>2, PolicyAssumption
<1>7. Accounted(h)
  <2>1. ASSUME NEW b \in h.live PROVE b \in Addons(h, Term) \cup h.quarantine
    <3>1. CASE b = a
      BY <1>5, <3>1 DEF Addons
    <3>2. CASE b \in g.quarantine
      BY <1>3, <3>2
    <3>3. CASE b \in Addons(g, Term) /\ b # NoAddon
      <4>1. PICK u \in Term : b = g.addon[u]
        BY <3>3 DEF Addons
      <4> QED BY <1>5, <3>3, <4>1 DEF Addons
    <3>4. b # NoAddon
      BY <1>2, <1>3, PolicyAssumption DEF Gpu
    <3> QED BY <1>3, <3>1, <3>2, <3>3, <3>4 DEF Accounted
  <2>2. ASSUME NEW u \in Holding(h, Term)
        PROVE  /\ h.addon[u] \in h.live \ h.quarantine
               /\ \A v \in Term \ {u} : h.addon[v] # h.addon[u]
    <3>1. CASE u = t
      BY <1>2, <1>3, <1>5, <3>1
    <3>2. CASE u # t
      <4>1. u \in Holding(g, Term) /\ u \in Term
        BY <1>5, <3>2 DEF Holding
      <4> QED BY <1>2, <1>3, <1>5, <3>2, <4>1 DEF Accounted
    <3> QED BY <3>1, <3>2
  <2> QED BY <2>1, <2>2 DEF Accounted
<1>8. CountOf(h) = CountOf(g) + 1
  <2>1. Holding(h, Term) = Holding(g, Term) \cup {t} /\ t \notin Holding(g, Term)
    BY <1>5, <1>6 DEF Holding
  <2>2. Cardinality(Holding(h, Term)) = Cardinality(Holding(g, Term)) + 1
    BY <2>1, CountFinite, FS_AddElement
  <2> QED BY <1>3, <2>2, CountFinite DEF CountOf
<1> QED BY <1>4, <1>5, <1>6, <1>7, <1>8

LEMMA ChargedOne ==
  ASSUME NEW g \in Gpu, Accounted(g), NEW t \in Term, g.addon[t] = NoAddon, NEW h \in Charged(g, t)
  PROVE  /\ h \in Gpu /\ Accounted(h) /\ CountOf(h) = CountOf(g) + 1
         /\ \A u \in Term : h.addon[u] = g.addon[u]
<1>a. PICK a \in Unused(g) :
        h \in {[g EXCEPT !.addon[t] = NoAddon, !.quarantine = @ \cup {a}, !.live = @ \cup leak]
                : leak \in SUBSET {a}}
  BY Zenon DEF Charged
<1>1. PICK leak \in SUBSET {a} :
        h = [g EXCEPT !.addon[t] = NoAddon, !.quarantine = @ \cup {a}, !.live = @ \cup leak]
  BY <1>a, Zenon
<1>2. a \in Addon /\ a \notin g.quarantine /\ a \notin g.live /\ \A u \in Term : g.addon[u] # a
  BY DEF Unused, Addons
<1>3. /\ h.addon = [g.addon EXCEPT ![t] = NoAddon] /\ h.quarantine = g.quarantine \cup {a}
      /\ h.live \subseteq g.live \cup {a} /\ g.live \subseteq h.live
  BY <1>1 DEF Gpu
<1>4. h \in Gpu
  <2>1. h.addon \in [Term -> Addon \cup {NoAddon}] /\ h.quarantine \in SUBSET Addon
          /\ h.live \in SUBSET Addon
    BY <1>2, <1>3 DEF Gpu
  <2>2. h = [addon |-> h.addon, quarantine |-> h.quarantine, live |-> h.live]
    BY <1>1 DEF Gpu
  <2> QED BY <2>1, <2>2 DEF Gpu
<1>5. \A u \in Term : h.addon[u] = g.addon[u]
  BY <1>3 DEF Gpu
<1>6. Holding(h, Term) = Holding(g, Term)
  BY <1>5 DEF Holding
<1>7. Accounted(h)
  <2>1. \A b \in h.live : b \in Addons(h, Term) \cup h.quarantine
    BY <1>3, <1>5 DEF Accounted, Addons
  <2>2. ASSUME NEW u \in Holding(h, Term)
        PROVE  /\ h.addon[u] \in h.live \ h.quarantine
               /\ \A v \in Term \ {u} : h.addon[v] # h.addon[u]
    <3>1. u \in Holding(g, Term) /\ u \in Term
      BY <1>6 DEF Holding
    <3> QED BY <1>2, <1>3, <1>5, <3>1 DEF Accounted
  <2> QED BY <2>1, <2>2 DEF Accounted
<1>8. CountOf(h) = CountOf(g) + 1
  <2>1. Cardinality(h.quarantine) = Cardinality(g.quarantine) + 1
    BY <1>2, <1>3, CountFinite, FS_AddElement
  <2> QED BY <1>6, <2>1, CountFinite DEF CountOf
<1> QED BY <1>4, <1>5, <1>7, <1>8

(* A load of a terminal without an addon.                                  *)
Fresh(g, t, h) ==
  /\ h \in Gpu /\ Accounted(h) /\ CountOf(h) \in {CountOf(g), CountOf(g) + 1}
  /\ \A u \in Term \ {t} : h.addon[u] = g.addon[u]

LEMMA LoadsFresh ==
  ASSUME NEW g \in Gpu, Accounted(g), NEW t \in Term, g.addon[t] = NoAddon, NEW h \in Loads(g, t)
  PROVE  Fresh(g, t, h)
<1>1. CASE h \in Refused(g, t)
  BY <1>1, RefusedSame DEF Fresh
<1>2. CASE h \in Loaded(g, t)
  BY <1>2, LoadedOne DEF Fresh
<1>3. CASE h \in Charged(g, t)
  BY <1>3, ChargedOne DEF Fresh
<1> QED BY <1>1, <1>2, <1>3 DEF Loads

LEMMA PromotionsFresh ==
  ASSUME NEW g \in Gpu, Accounted(g), NEW t \in Term, g.addon[t] = NoAddon, NEW h \in Promotions(g, t)
  PROVE  /\ Fresh(g, t, h)
         /\ h # g => t \in cached /\ CountOf(g) < Ceiling
<1>1. CASE h \in Refused(g, t)
  BY <1>1, RefusedSame DEF Fresh
<1>2. CASE h \in Loads(g, t) /\ t \in cached /\ ~ CountOf(g) >= Ceiling
  BY <1>2, LoadsFresh, CountFinite, PolicyAssumption
<1> QED BY <1>1, <1>2 DEF Promotions

(***************************************************************************)
(* Every action                                                            *)
(***************************************************************************)
PassType == pass \in
  [kind : {"out", "in", "reconcile", "restore"}, todo : Seq(Term), order : Seq(Term),
   ids : SUBSET Term, room : SUBSET Term, failed : SUBSET Term,
   withheld : BOOLEAN, threw : BOOLEAN, before : [Term -> Addon \cup {NoAddon}]]

(* The snapshot never holds a terminal somebody else decided upon.         *)
Inv == TypeOK /\ PassType /\ Accounted(gpu) /\ WithinCeiling /\ offLimits = {}

(* What one action may make of the addons.                                 *)
Kept ==
  /\ gpu' \in Gpu /\ Accounted(gpu') /\ Holding(gpu', Term) \subseteq cached'
  /\ CountOf(gpu') <= Ceiling
  /\ budget /\ CountOf(gpu') > Count => CountOf(gpu') <= MaxGpu

LEMMA SameKept ==
  ASSUME Inv, gpu' = gpu, cached \subseteq cached'
  PROVE  Kept
BY CountFinite DEF Inv, TypeOK, WithinCeiling, Kept, Count

LEMMA DisposalKept ==
  ASSUME Inv, NEW D \in SUBSET Term, gpu' \in Disposals(gpu, D), cached \ D \subseteq cached'
  PROVE  Kept
<1>1. gpu \in Gpu /\ Accounted(gpu) /\ Count <= Ceiling /\ Holding(gpu, Term) \subseteq cached
  BY DEF Inv, TypeOK, WithinCeiling
<1>2. gpu' \in Gpu /\ Holding(gpu', Term) = Holding(gpu, Term) \ D
  BY <1>1, DisposalsTake
<1>3. CountOf(gpu') <= Count
  BY <1>1, DisposalsCount DEF Count
<1>4. Accounted(gpu')
  BY <1>1, DisposalsAccount
<1>5. CountOf(gpu') \in Nat /\ Count \in Nat
  BY <1>1, <1>2, CountFinite DEF Count
<1> QED BY <1>1, <1>2, <1>3, <1>4, <1>5, PolicyAssumption DEF Kept

LEMMA PromotionKept ==
  ASSUME Inv, NEW t \in Term, ~ Holds(t), gpu' \in Promotions(gpu, t), cached' = cached,
         budget => Count < MaxGpu
  PROVE  Kept
<1>1. gpu \in Gpu /\ Accounted(gpu) /\ Count <= Ceiling /\ Holding(gpu, Term) \subseteq cached
  BY DEF Inv, TypeOK, WithinCeiling
<1>2. gpu.addon[t] = NoAddon
  BY DEF Holds
<1>3. Fresh(gpu, t, gpu') /\ (gpu' # gpu => t \in cached /\ Count < Ceiling)
  BY <1>1, <1>2, PromotionsFresh DEF Count
<1>4. Holding(gpu', Term) \subseteq cached
  BY <1>1, <1>3 DEF Holding, Fresh
<1>5. CountOf(gpu') \in Nat /\ Count \in Nat
  BY <1>1, <1>3, CountFinite DEF Count, Fresh
<1> QED BY <1>1, <1>3, <1>4, <1>5, PolicyAssumption DEF Kept, Fresh, Count

LEMMA EvictionKept ==
  ASSUME Inv, NEW t \in Term, NEW g \in Gpu, Accounted(g), NEW D,
         Holding(g, Term) \subseteq cached \cup {t}, CountOf(g) <= Ceiling,
         budget /\ CountOf(g) > Count => CountOf(g) <= MaxGpu,
         EndsMount(t, g, D)
  PROVE  Kept
<1>1. PICK gone \in SUBSET Term :
        cached' = (cached \cup {t}) \ gone /\ gpu' \in Disposals(g, gone)
  BY DEF EndsMount, Evictions, Inv, TypeOK
<1>2. gpu' \in Gpu /\ Holding(gpu', Term) = Holding(g, Term) \ gone
  BY <1>1, DisposalsTake
<1>3. CountOf(gpu') <= CountOf(g) /\ Accounted(gpu')
  BY <1>1, DisposalsCount, DisposalsAccount
<1>4. CountOf(gpu') \in Nat /\ CountOf(g) \in Nat /\ Count \in Nat
  BY <1>2, CountFinite DEF Count, Inv, TypeOK
<1> QED BY <1>1, <1>2, <1>3, <1>4, PolicyAssumption DEF Kept

LEMMA MountKept ==
  ASSUME Inv, NEW t \in Term, MountNew(t)
  PROVE  Kept
<1>1. PICK g \in Disposals(gpu, {t}) :
        \E h \in IF Threw(gpu, g) = {} /\ AllowedAtCreation(g) THEN Loads(g, t) ELSE Refused(g, t) :
          EndsMount(t, h, {t})
  BY DEF MountNew
<1>2. PICK h \in IF Threw(gpu, g) = {} /\ AllowedAtCreation(g) THEN Loads(g, t) ELSE Refused(g, t) :
        EndsMount(t, h, {t})
  BY <1>1
<1>3. gpu \in Gpu /\ Accounted(gpu) /\ Count <= Ceiling /\ Holding(gpu, Term) \subseteq cached
  BY DEF Inv, TypeOK, WithinCeiling
<1>4. /\ g \in Gpu /\ g.addon[t] = NoAddon /\ Holding(g, Term) = Holding(gpu, Term) \ {t}
      /\ CountOf(g) <= Count /\ Accounted(g)
  BY <1>3, DisposalsTake, DisposalsCount, DisposalsAccount DEF Count
<1>5. Count \in Nat /\ CountOf(g) \in Nat
  BY <1>3, <1>4, CountFinite DEF Count
<1>6. Fresh(g, t, h) /\ (h # g => AllowedAtCreation(g))
  <2>1. CASE h \in Refused(g, t)
    BY <1>4, <2>1, RefusedSame DEF Fresh
  <2>2. CASE h \in Loads(g, t) /\ AllowedAtCreation(g)
    BY <1>4, <2>2, LoadsFresh
  <2> QED BY <1>2, <2>1, <2>2
<1>7. Holding(h, Term) \subseteq cached \cup {t}
  BY <1>3, <1>4, <1>6 DEF Fresh, Holding
<1>8. CountOf(h) <= Ceiling /\ (budget /\ CountOf(h) > Count => CountOf(h) <= MaxGpu)
  BY <1>3, <1>4, <1>5, <1>6, PolicyAssumption DEF Fresh, AllowedAtCreation
<1>9. h \in Gpu /\ Accounted(h)
  BY <1>6 DEF Fresh
<1> QED BY <1>2, <1>7, <1>8, <1>9, EvictionKept

LEMMA NextKept ==
  ASSUME Inv, [Next]_vars
  PROVE  Kept
<1>t. cached \subseteq Term /\ gpu \in Gpu /\ PassType
  BY DEF Inv, TypeOK
<1>1. ASSUME NEW t \in Term, Remount(t) PROVE Kept
  <2>1. t \in cached /\ EndsMount(t, gpu, {})
    BY <1>1 DEF Remount
  <2>2. /\ Accounted(gpu) /\ Holding(gpu, Term) \subseteq cached \cup {t} /\ CountOf(gpu) <= Ceiling
        /\ CountOf(gpu) = Count /\ CountOf(gpu) \in Nat
    BY <1>t, CountFinite DEF Inv, TypeOK, WithinCeiling, Count
  <2> QED BY <1>t, <2>1, <2>2, EvictionKept
<1>2. ASSUME NEW t \in Term, Close(t) \/ ResetRendering(t) PROVE Kept
  <2>1. gpu' \in Disposals(gpu, {t}) /\ cached \ {t} \subseteq cached'
    BY <1>2 DEF Close, ResetRendering
  <2> QED BY <2>1, DisposalKept
<1>3. CASE DisableWebGL
  <2>1. gpu' \in Disposals(gpu, cached) /\ cached' = cached
    BY <1>3 DEF DisableWebGL
  <2> QED BY <1>t, <2>1, DisposalKept
<1>4. ASSUME NEW t \in Term, ContextLoss(t) PROVE Kept
  <2> DEFINE a == gpu.addon[t]
  <2>1. a # NoAddon /\ gpu' = [gpu EXCEPT !.addon[t] = NoAddon, !.live = @ \ {a}] /\ cached' = cached
    BY <1>4 DEF ContextLoss, Holds
  <2>2. /\ gpu'.addon = [gpu.addon EXCEPT ![t] = NoAddon] /\ gpu'.quarantine = gpu.quarantine
        /\ gpu'.live = gpu.live \ {a}
        /\ gpu' = [addon |-> gpu'.addon, quarantine |-> gpu'.quarantine, live |-> gpu'.live]
    BY <1>t, <2>1 DEF Gpu
  <2>3. \A u \in Term : gpu'.addon[u] = IF u = t THEN NoAddon ELSE gpu.addon[u]
    BY <1>t, <2>2 DEF Gpu
  <2>4. gpu' \in Gpu
    <3>1. gpu'.addon \in [Term -> Addon \cup {NoAddon}] /\ gpu'.live \in SUBSET Addon
            /\ gpu'.quarantine \in SUBSET Addon
      BY <1>t, <2>2 DEF Gpu
    <3> QED BY <2>2, <3>1 DEF Gpu
  <2>5. Holding(gpu', Term) = Holding(gpu, Term) \ {t}
    BY <2>3 DEF Holding
  <2>6. Accounted(gpu')
    <3>1. t \in Holding(gpu, Term) /\ Accounted(gpu)
      BY <2>1 DEF Holding, Inv
    <3>2. ASSUME NEW b \in gpu'.live PROVE b \in Addons(gpu', Term) \cup gpu'.quarantine
      <4>1. b \in gpu.live /\ b # a
        BY <2>2
      <4>2. CASE b \in gpu.quarantine
        BY <2>2, <4>2
      <4>3. ASSUME NEW u \in Term, b = gpu.addon[u] PROVE b \in Addons(gpu', Term)
        BY <2>3, <4>1, <4>3 DEF Addons
      <4> QED BY <3>1, <4>1, <4>2, <4>3 DEF Accounted, Addons
    <3>3. ASSUME NEW u \in Holding(gpu', Term)
          PROVE  /\ gpu'.addon[u] \in gpu'.live \ gpu'.quarantine
                 /\ \A v \in Term \ {u} : gpu'.addon[v] # gpu'.addon[u]
      <4>1. u \in Holding(gpu, Term) /\ u # t /\ u \in Term /\ gpu.addon[u] # NoAddon
        BY <2>5 DEF Holding
      <4>2. gpu.addon[u] \in gpu.live \ gpu.quarantine /\ \A v \in Term \ {u} : gpu.addon[v] # gpu.addon[u]
        BY <3>1, <4>1 DEF Accounted
      <4> QED BY <2>2, <2>3, <4>1, <4>2
    <3> QED BY <3>2, <3>3 DEF Accounted
  <2>7. CountOf(gpu') <= Count /\ CountOf(gpu') \in Nat /\ Count \in Nat /\ Count <= Ceiling
    <3>1. Cardinality(Holding(gpu', Term)) <= Cardinality(Holding(gpu, Term))
      BY <1>t, <2>5, CountFinite, FS_Subset
    <3>2. /\ Cardinality(Holding(gpu', Term)) \in Nat /\ Cardinality(Holding(gpu, Term)) \in Nat
          /\ Cardinality(gpu.quarantine) \in Nat
      BY <1>t, <2>4, CountFinite
    <3> QED BY <2>2, <3>1, <3>2 DEF CountOf, Count, Inv, WithinCeiling
  <2>8. Holding(gpu', Term) \subseteq cached'
    BY <2>1, <2>5 DEF Inv, TypeOK
  <2> QED BY <2>4, <2>6, <2>7, <2>8, PolicyAssumption DEF Kept
<1>5. ASSUME NEW ids \in SUBSET Term, NEW order, Reconcile(ids, order) PROVE Kept
  <2>1. PICK D : gpu' \in Disposals(gpu, D) /\ D \in SUBSET Term /\ cached' = cached
    <3> DEFINE D == Holding(gpu, ToSet(order) \ Winners(ids, order)) \cup Holding(gpu, ids \ ToSet(order))
    <3>1. D \subseteq Term
      BY <1>5 DEF Reconcile, Holding
    <3>2. gpu' \in Disposals(gpu, D) /\ cached' = cached
      BY <1>5 DEF Reconcile, Demotes
    <3> QED BY <3>1, <3>2
  <2> QED BY <2>1, DisposalKept
<1>6. CASE CanvasExit
  <2>1. PICK D \in SUBSET Term : gpu' \in Disposals(gpu, D) /\ cached' = cached
    BY <1>t, <1>6 DEF CanvasExit, Demotes
  <2> QED BY <2>1, DisposalKept
<1>7. CASE Promote \/ Restore
  <2> DEFINE t == Head(pass.todo)
  <2>1. t \in Term /\ cached' = cached
    BY <1>t, <1>7 DEF PassType, Promote, Restore
  <2>2. CASE gpu' = gpu
    BY <2>1, <2>2, SameKept
  <2>3. CASE gpu' # gpu
    <3>1. gpu' \in Promotions(gpu, t) /\ ~ Holds(t) /\ (budget => Count < MaxGpu)
      BY <1>t, <1>7, <2>3, CountFinite, PolicyAssumption DEF Promote, Restore, Count
    <3> QED BY <2>1, <3>1, PromotionKept
  <2> QED BY <2>2, <2>3
<1>8. ASSUME NEW t \in Term, Unmount(t) PROVE Kept
  BY <1>8, SameKept DEF Unmount
<1>9. ASSUME NEW ids \in SUBSET Term, CanvasEnter(ids) PROVE Kept
  BY <1>9, SameKept DEF CanvasEnter
<1>10. CASE EnableWebGL \/ PageHide \/ Reconciled \/ Restored \/ UNCHANGED vars
  BY <1>10, SameKept DEF EnableWebGL, PageHide, Reconciled, Restored, vars
<1> QED BY <1>1, <1>2, <1>3, <1>4, <1>5, <1>6, <1>7, <1>8, <1>9, <1>10, MountKept DEF Next

(* An order of some terminals.                                             *)
LEMMA OrdersAre ==
  ASSUME NEW W \in SUBSET Term, NEW order \in SetToSeqs(W)
  PROVE  /\ order \in Seq(Term) /\ order \in Seq(W) /\ ToSet(order) \subseteq W
         /\ \A i, j \in 1 .. Len(order) : order[i] = order[j] => i = j
<1>1. IsFiniteSet(W) /\ Cardinality(W) \in Nat
  BY PolicyAssumption, FS_Subset, FS_CardinalityType
<1>2. /\ order \in [1 .. Cardinality(W) -> W]
      /\ \A i, j \in 1 .. Cardinality(W) : i # j => order[i] # order[j]
  BY DEF SetToSeqs
<1>3. order \in Seq(W)
  BY <1>1, <1>2
<1>4. Len(order) = Cardinality(W)
  BY <1>1, <1>2, <1>3
<1>5. order \in Seq(Term)
  BY <1>1, <1>2
<1>6. ToSet(order) \subseteq W
  BY <1>2 DEF ToSet
<1> QED BY <1>2, <1>3, <1>4, <1>5, <1>6

LEMMA PassTyped ==
  ASSUME Inv, [Next]_vars
  PROVE  PassType'
<1>1. pass \in [kind : {"out", "in", "reconcile", "restore"}, todo : Seq(Term), order : Seq(Term),
                ids : SUBSET Term, room : SUBSET Term, failed : SUBSET Term,
                withheld : BOOLEAN, threw : BOOLEAN, before : [Term -> Addon \cup {NoAddon}]]
  BY DEF Inv, PassType
<1>2. CASE UNCHANGED pass
  BY <1>1, <1>2 DEF PassType
<1>3. ASSUME NEW kind \in {"out", "in"}, pass' = Idle(kind) PROVE PassType'
  BY <1>3 DEF PassType, Idle
<1>4. ASSUME NEW ids \in SUBSET Term, NEW W \in SUBSET ids, NEW order \in SetToSeqs(W), Reconcile(ids, order)
      PROVE PassType'
  <2>1. order \in Seq(Term)
    BY OrdersAre
  <2> DEFINE losers == Holding(gpu, ToSet(order) \ Winners(ids, order))
             threw  == Threw(gpu, gpu') # {}
  <2>2. pass' = [Idle("reconcile") EXCEPT !.todo = order, !.order = order, !.ids = ids, !.room = losers,
                                          !.before = gpu.addon, !.threw = threw]
    BY <1>4 DEF Reconcile
  <2>4. losers \in SUBSET Term /\ threw \in BOOLEAN
    BY <2>1 DEF Holding, ToSet
  <2> HIDE DEF losers, threw
  <2>3. gpu.addon \in [Term -> Addon \cup {NoAddon}]
    BY DEF Inv, TypeOK, Gpu
  <2>5. <<>> \in Seq(Term)
    OBVIOUS
  <2> QED BY <2>1, <2>2, <2>3, <2>4, <2>5 DEF PassType, Idle
<1>5. CASE CanvasExit
  <2>1. PICK order \in SetToSeqs({t \in cached : snap[t] = "webgl"}) :
          pass' = [Idle("restore") EXCEPT !.todo = order]
    BY <1>5 DEF CanvasExit
  <2>2. order \in Seq(Term)
    BY <2>1, OrdersAre DEF Inv, TypeOK
  <2>3. <<>> \in Seq(Term) /\ pass' = [Idle("restore") EXCEPT !.todo = order]
    BY <2>1
  <2> QED BY ONLY <2>2, <2>3 DEF PassType, Idle
<1>6. CASE Promote \/ Restore
  <2>1. pass.todo # <<>> /\ pass.todo \in Seq(Term)
    BY <1>1, <1>6 DEF Promote, Restore
  <2>2. Tail(pass.todo) \in Seq(Term) /\ Head(pass.todo) \in Term
    BY <2>1
  <2>3. CASE Promote
    BY <1>1, <2>2, <2>3 DEF Promote, PassType
  <2>4. CASE Restore
    BY <1>1, <2>2, <2>4 DEF Restore, PassType
  <2> QED BY <1>6, <2>3, <2>4
<1>7. ASSUME NEW t \in Term, MountNew(t) \/ Remount(t) PROVE UNCHANGED pass
  BY <1>7 DEF MountNew, Remount, EndsMount
<1>8. ASSUME NEW t \in Term, Unmount(t) \/ Close(t) \/ ResetRendering(t) \/ ContextLoss(t)
      PROVE UNCHANGED pass
  BY <1>8 DEF Unmount, Close, ResetRendering, ContextLoss
<1>9. CASE DisableWebGL \/ EnableWebGL \/ PageHide \/ UNCHANGED vars
  BY <1>2, <1>9 DEF DisableWebGL, EnableWebGL, PageHide, vars
<1>10. ASSUME NEW ids \in SUBSET Term, CanvasEnter(ids) PROVE PassType'
  BY <1>3, <1>10 DEF CanvasEnter
<1>11. CASE Reconciled \/ Restored
  BY <1>3, <1>11 DEF Reconciled, Restored
<1> QED BY <1>2, <1>4, <1>5, <1>6, <1>7, <1>8, <1>9, <1>10, <1>11 DEF Next

(* Whoever decides how a terminal paints takes it out of the snapshot.     *)
LEMMA NothingOffLimits ==
  ASSUME Inv, [Next]_vars
  PROVE  /\ offLimits' = {}
         /\ snap' \in [Term -> {"none", "webgl", "dom"}]
<1>1. offLimits = {} /\ snap \in [Term -> {"none", "webgl", "dom"}]
  BY DEF Inv, TypeOK
<1>2. ASSUME NEW D, Voids(D) PROVE snap' \in [Term -> {"none", "webgl", "dom"}]
  BY <1>1, <1>2 DEF Voids
<1>d. ASSUME NEW D \in SUBSET Term, Voids(D), Decided(D) PROVE offLimits' = {}
  <2>1. snap' = [t \in Term |-> IF t \in D THEN "none" ELSE snap[t]]
    BY <1>d DEF Voids
  <2>2. \A t \in D : snap'[t] = "none"
    BY <2>1
  <2> QED BY <1>1, <1>d, <2>2 DEF Decided
<1>c. cached \in SUBSET Term /\ \A g : Threw(gpu, g) \in SUBSET Term
  BY DEF Inv, TypeOK, Threw
<1>3. ASSUME NEW t \in Term, MountNew(t) \/ Remount(t)
      PROVE  offLimits' = {} /\ snap' \in [Term -> {"none", "webgl", "dom"}]
  BY <1>1, <1>2, <1>3 DEF MountNew, Remount, EndsMount
<1>4. ASSUME NEW t \in Term, Close(t) \/ ResetRendering(t) \/ ContextLoss(t) \/ Unmount(t)
      PROVE  offLimits' = {} /\ snap' \in [Term -> {"none", "webgl", "dom"}]
  BY <1>1, <1>2, <1>d, <1>4 DEF Close, ResetRendering, ContextLoss, Unmount, snapVars
<1>5. CASE DisableWebGL
  BY <1>1, <1>2, <1>d, <1>c, <1>5 DEF DisableWebGL
<1>6. ASSUME NEW D, Demotes(D)
      PROVE  offLimits' = {} /\ snap' \in [Term -> {"none", "webgl", "dom"}]
  BY <1>2, <1>d, <1>c, <1>6 DEF Demotes
<1>7. ASSUME NEW ids, NEW order, Reconcile(ids, order)
      PROVE  offLimits' = {} /\ snap' \in [Term -> {"none", "webgl", "dom"}]
  BY <1>6, <1>7 DEF Reconcile
<1>8. CASE CanvasExit
  BY <1>6, <1>8 DEF CanvasExit
<1>9. ASSUME NEW ids \in SUBSET Term, CanvasEnter(ids)
      PROVE  offLimits' = {} /\ snap' \in [Term -> {"none", "webgl", "dom"}]
  BY <1>9 DEF CanvasEnter
<1>10. CASE Restored
  BY <1>10 DEF Restored, NoSnap
<1>11. CASE EnableWebGL \/ PageHide \/ Promote \/ Reconciled \/ Restore \/ UNCHANGED vars
  BY <1>1, <1>11 DEF EnableWebGL, PageHide, Promote, Reconciled, Restore, snapVars, vars
<1> QED BY <1>3, <1>4, <1>5, <1>7, <1>8, <1>9, <1>10, <1>11 DEF Next

LEMMA InvPreserved ==
  ASSUME Inv, [Next]_vars
  PROVE  Inv'
<1>1. Kept
  BY NextKept
<1>2. PassType' /\ offLimits' = {} /\ snap' \in [Term -> {"none", "webgl", "dom"}]
  BY PassTyped, NothingOffLimits
<1>3. WithinCeiling'
  BY <1>1 DEF Kept, WithinCeiling, Count
<1>4. /\ cached' \subseteq Term /\ connected' \subseteq cached'
      /\ disabled' \in BOOLEAN /\ budget' \in BOOLEAN
  <2> USE DEF Inv, TypeOK
  <2>1. ASSUME NEW t \in Term, MountNew(t) \/ Remount(t)
        PROVE  /\ cached' \subseteq Term /\ connected' \subseteq cached'
               /\ disabled' \in BOOLEAN /\ budget' \in BOOLEAN
    BY <2>1 DEF MountNew, Remount, EndsMount
  <2>2. ASSUME NEW t \in Term, Unmount(t) \/ Close(t) \/ ResetRendering(t) \/ ContextLoss(t)
        PROVE  /\ cached' \subseteq Term /\ connected' \subseteq cached'
               /\ disabled' \in BOOLEAN /\ budget' \in BOOLEAN
    BY <2>2 DEF Unmount, Close, ResetRendering, ContextLoss
  <2>3. ASSUME NEW ids, NEW order, CanvasEnter(ids) \/ Reconcile(ids, order)
        PROVE  /\ cached' \subseteq Term /\ connected' \subseteq cached'
               /\ disabled' \in BOOLEAN /\ budget' \in BOOLEAN
    BY <2>3 DEF CanvasEnter, Reconcile
  <2>4. CASE DisableWebGL \/ EnableWebGL \/ PageHide \/ Promote \/ Reconciled \/ CanvasExit
               \/ Restore \/ Restored \/ UNCHANGED vars
    BY <2>4 DEF DisableWebGL, EnableWebGL, PageHide, Promote, Reconciled, CanvasExit, Restore,
                Restored, vars
  <2> QED BY <2>1, <2>2, <2>3, <2>4 DEF Next
<1>5. pass'.kind \in {"out", "in", "reconcile", "restore"}
  BY <1>2 DEF PassType
<1> QED BY <1>1, <1>2, <1>3, <1>4, <1>5 DEF Inv, TypeOK, Kept

LEMMA InvInit == Init => Inv
<1> SUFFICES ASSUME Init PROVE Inv
  OBVIOUS
<1>1. gpu \in Gpu /\ Holding(gpu, Term) = {} /\ gpu.live = {} /\ gpu.quarantine = {}
  BY DEF Init, Gpu, Holding
<1>2. Accounted(gpu)
  BY <1>1 DEF Accounted
<1>3. Count = 0
  BY <1>1, FS_EmptySet DEF Count, CountOf
<1>4. PassType
  BY DEF Init, PassType, Idle
<1>5. TypeOK
  <2>1. snap \in [Term -> {"none", "webgl", "dom"}]
    BY DEF Init, NoSnap
  <2>2. pass.kind \in {"out", "in", "reconcile", "restore"}
    BY <1>4 DEF PassType
  <2> QED BY <1>1, <2>1, <2>2 DEF Init, TypeOK
<1>6. WithinCeiling /\ offLimits = {}
  BY <1>3, PolicyAssumption DEF Init, WithinCeiling
<1> QED BY <1>2, <1>4, <1>5, <1>6 DEF Inv

LEMMA InvAlways == Spec => []Inv
<1>1. Inv /\ [Next]_vars => Inv'
  BY InvPreserved
<1> QED BY InvInit, <1>1, PTL DEF Spec

(* However mounts, evictions, promotions, failing loads and failing        *)
(* disposals follow each other, every GPU context of a window is accounted *)
(* for once, and no more are asked for than the browser grants             *)
(* (cache.ts:205-239, renderPolicy.ts:186-314, webgl.ts:58-147).           *)
THEOREM ContextsAlwaysSound == Spec => []ContextsSound
<1>1. Inv => ContextsSound
  BY OrphanAccounted DEF Inv, ContextsSound
<1> QED BY <1>1, InvAlways, PTL

(* While the budget is armed nothing allocates past it, and leaving Canvas *)
(* Mode restores nothing that was decided upon meanwhile                   *)
(* (renderPolicy.ts:384-394, renderPolicyReconciler.ts:331-384).           *)
THEOREM BudgetAlwaysKept == Spec => BudgetKept
<1>1. Inv /\ [Next]_vars => [budget /\ CountOf(gpu') > Count => CountOf(gpu') <= MaxGpu]_vars
  BY NextKept DEF Kept
<1>2. Inv /\ [Next]_vars =>
        [pass.kind = "restore" => \A t \in offLimits : Holds(t) \/ gpu'.addon[t] = NoAddon]_vars
  BY DEF Inv
<1> QED BY <1>1, <1>2, InvAlways, PTL DEF Spec, BudgetKept, BudgetHolds, RestoreRespects

(***************************************************************************)
(* A pass of the reconciler                                                *)
(***************************************************************************)
Done == Len(pass.order) - Len(pass.todo)
InOrder ==
  /\ \A i, j \in DOMAIN pass.order : pass.order[i] = pass.order[j] => i = j
  /\ ToSet(pass.order) \subseteq pass.ids
  /\ Done \in 0 .. Len(pass.order)
  /\ \A i \in DOMAIN pass.todo : pass.todo[i] = pass.order[Done + i]

(* What a candidate lost in this pass it will not be given back: it is in  *)
(* room.                                                                   *)
Unchurned ==
  /\ NoChurn
  /\ \A i \in DOMAIN pass.order :
       ~ Holds(pass.order[i]) /\ pass.before[pass.order[i]] # NoAddon => pass.order[i] \in pass.room

(* The winners W chosen before the demotions: whoever has an entry and     *)
(* comes before one of them is one too, nobody else of those to come holds *)
(* a context, and there is room for those that have none yet.              *)
Pending(W) == {t \in W : ~ Holds(t) /\ \E i \in DOMAIN pass.order : i > Done /\ t = pass.order[i]}
Winning(W) ==
  /\ W \subseteq ToSet(pass.order) \cap cached
  /\ \A i, j \in DOMAIN pass.order :
       i < j /\ pass.order[i] \in cached /\ pass.order[j] \in W => pass.order[i] \in W
  /\ pass.room \subseteq cached \ W
  /\ \A i \in DOMAIN pass.order : i > Done /\ Holds(pass.order[i]) => pass.order[i] \in W
  /\ ~ pass.threw /\ Pending(W) # {} => Count + Cardinality(Pending(W)) <= MaxGpu

(* Once a candidate was passed over, nobody behind it holds a context, and *)
(* nobody will be given one.                                               *)
Ranked ==
  /\ pass.withheld => \E k \in 1 .. Done : pass.order[k] \in pass.room
  /\ \A i \in 1 .. Done :
       pass.order[i] \in cached \ pass.failed /\ ~ Holds(pass.order[i]) /\ ~ pass.threw =>
         /\ \A j \in DOMAIN pass.order : i < j => ~ Holds(pass.order[j])
         /\ pass.withheld \/ Count >= MaxGpu

Budgeted == ~ pass.threw /\ Count > MaxGpu => Holding(gpu, pass.ids) = {}

PassInv ==
  pass.kind = "reconcile" =>
    InOrder /\ Unchurned /\ Ranked /\ Budgeted /\ \E W \in SUBSET Term : Winning(W)

(* There are no more winners than slots, and they are a prefix of the      *)
(* candidates that have an entry.                                          *)
LEMMA WinnersFit ==
  ASSUME Inv, NEW ids \in SUBSET Term, NEW order \in Seq(Term),
         \A i, j \in DOMAIN order : order[i] = order[j] => i = j
  PROVE  /\ Winners(ids, order) \subseteq ToSet(order) \cap cached
         /\ \A i, j \in DOMAIN order :
              i < j /\ order[i] \in cached /\ order[j] \in Winners(ids, order)
                => order[i] \in Winners(ids, order)
         /\ IsFiniteSet(Winners(ids, order))
         /\ Slots(ids) \in Nat /\ Cardinality(Winners(ids, order)) <= Slots(ids)
         /\ Cardinality(Winners(ids, order)) \in Nat
<1> DEFINE ranked(j) == {k \in 1 .. j : order[k] \in cached}
           I == {i \in DOMAIN order : order[i] \in cached /\ Rank(order, i) <= Slots(ids)}
<1>1. \A i \in DOMAIN order : i \in Nat \ {0}
  OBVIOUS
<1>2. ASSUME NEW i \in DOMAIN order
      PROVE  IsFiniteSet(ranked(i)) /\ Rank(order, i) = Cardinality(ranked(i)) /\ Rank(order, i) \in Nat
  <2>1. IsFiniteSet(1 .. i)
    BY <1>1, FS_Interval
  <2>2. IsFiniteSet(ranked(i))
    BY <2>1, FS_Subset
  <2> QED BY <2>2, FS_CardinalityType DEF Rank
<1>3. ASSUME NEW i \in DOMAIN order, NEW j \in DOMAIN order, i < j, order[j] \in cached
      PROVE  Rank(order, i) < Rank(order, j)
  <2>1. ranked(i) \subseteq ranked(j) /\ j \in ranked(j) /\ j \notin ranked(i)
    BY <1>1, <1>3
  <2>2. Cardinality(ranked(i)) <= Cardinality(ranked(j)) /\ Cardinality(ranked(i)) # Cardinality(ranked(j))
    BY <1>2, <2>1, FS_Subset
  <2>3. /\ Rank(order, i) = Cardinality(ranked(i)) /\ Rank(order, i) \in Nat
        /\ Rank(order, j) = Cardinality(ranked(j)) /\ Rank(order, j) \in Nat
    BY <1>2
  <2> HIDE DEF ranked
  <2> QED BY <2>2, <2>3
<1>4. Slots(ids) \in Nat
  <2>1. gpu \in Gpu /\ Count \in Nat
    BY CountFinite DEF Inv, TypeOK, Count
  <2>2. Holding(gpu, ids) \subseteq Holding(gpu, Term)
    BY DEF Holding
  <2>3. Cardinality(Holding(gpu, ids)) \in Nat
    BY <2>1, <2>2, CountFinite, FS_Subset, FS_CardinalityType
  <2> QED BY <2>1, <2>3, PolicyAssumption DEF Slots, Minus
<1>5. Winners(ids, order) = {order[j] : j \in I}
  BY DEF Winners
<1>6. IsFiniteSet(I) /\ Cardinality(I) <= Slots(ids)
  <2> DEFINE f == [i \in I |-> Rank(order, i)]
  <2>1. ASSUME NEW i \in I PROVE Rank(order, i) \in 1 .. Slots(ids)
    <3>1. i \in ranked(i)
      BY <1>1
    <3>2. Cardinality(ranked(i)) # 0
      BY <1>2, <3>1, FS_EmptySet
    <3>3. Rank(order, i) = Cardinality(ranked(i)) /\ Rank(order, i) \in Nat /\ Rank(order, i) <= Slots(ids)
      BY <1>2
    <3> HIDE DEF ranked
    <3> QED BY <1>4, <3>2, <3>3
  <2>2. ASSUME NEW i \in I, NEW j \in I, Rank(order, i) = Rank(order, j) PROVE i = j
    <3>1. i \in Nat /\ j \in Nat /\ Rank(order, i) \in Nat /\ Rank(order, j) \in Nat
      BY <1>1, <1>2
    <3>2. ~ i < j /\ ~ j < i
      BY <1>3, <2>2, <3>1
    <3> QED BY <3>1, <3>2
  <2>3. f \in Injection(I, 1 .. Slots(ids))
    BY <2>1, <2>2 DEF Injection, IsInjective
  <2>4. IsFiniteSet(1 .. Slots(ids)) /\ Cardinality(1 .. Slots(ids)) = Slots(ids)
    BY <1>4, FS_Interval
  <2> QED BY <2>3, <2>4, FS_Injection
<1>7. IsFiniteSet(Winners(ids, order)) /\ Cardinality(Winners(ids, order)) <= Cardinality(I)
  <2> DEFINE f == [i \in I |-> order[i]]
  <2>1. f \in Surjection(I, Winners(ids, order))
    BY <1>5 DEF Surjection
  <2> QED BY <1>6, <2>1, FS_Surjection
<1>8. Cardinality(Winners(ids, order)) \in Nat /\ Cardinality(I) \in Nat
  BY <1>6, <1>7, FS_CardinalityType
<1>9. Winners(ids, order) \subseteq ToSet(order) \cap cached
  BY <1>5 DEF ToSet
<1>10. ASSUME NEW i \in DOMAIN order, NEW j \in DOMAIN order, i < j, order[i] \in cached,
              order[j] \in Winners(ids, order)
       PROVE  order[i] \in Winners(ids, order)
  <2>1. j \in I
    BY <1>5, <1>10
  <2>2. Rank(order, i) < Rank(order, j)
    BY <1>3, <1>10, <2>1
  <2>3. Rank(order, j) <= Slots(ids) /\ Rank(order, i) \in Nat /\ Rank(order, j) \in Nat
    BY <1>2, <2>1
  <2>4. Rank(order, i) <= Slots(ids)
    BY <1>4, <2>2, <2>3
  <2>5. i \in I
    BY <1>10, <2>4
  <2> QED BY <1>5, <2>5
<1> QED BY <1>4, <1>6, <1>7, <1>8, <1>9, <1>10

LEMMA PassBegins ==
  ASSUME Inv, NEW ids \in SUBSET Term, NEW C \in SUBSET ids, NEW order \in SetToSeqs(C),
         Reconcile(ids, order)
  PROVE  PassInv'
<1>w. PICK W : W = Winners(ids, order)
  OBVIOUS
<1> DEFINE losers == Holding(gpu, ToSet(order) \ W)
           D == losers \cup Holding(gpu, ids \ ToSet(order))
<1>1. /\ order \in Seq(Term) /\ ToSet(order) \subseteq ids
      /\ \A i, j \in DOMAIN order : order[i] = order[j] => i = j
  <2>1. order \in Seq(Term) /\ ToSet(order) \subseteq C /\ \A i, j \in 1 .. Len(order) : order[i] = order[j] => i = j
    BY OrdersAre
  <2> QED BY <2>1
<1>2. /\ W \subseteq ToSet(order) \cap cached
      /\ \A i, j \in DOMAIN order : i < j /\ order[i] \in cached /\ order[j] \in W => order[i] \in W
      /\ IsFiniteSet(W) /\ Slots(ids) \in Nat /\ Cardinality(W) <= Slots(ids) /\ Cardinality(W) \in Nat
  BY <1>w, <1>1, WinnersFit
<1>3. /\ gpu \in Gpu /\ Holding(gpu, Term) \subseteq cached /\ cached \subseteq Term /\ Count \in Nat
  BY CountFinite DEF Inv, TypeOK, Count
<1>4. gpu' \in Disposals(gpu, D) /\ cached' = cached /\ D \subseteq Term
  BY <1>w DEF Reconcile, Demotes, Holding
<1>5. /\ gpu' \in Gpu
      /\ \A t \in Term : gpu'.addon[t] = IF t \in D THEN NoAddon ELSE gpu.addon[t]
      /\ Threw(gpu, gpu') = {} => gpu'.quarantine = gpu.quarantine
  <2> HIDE DEF D
  <2> QED BY <1>3, <1>4, DisposalsTake
<1>6. /\ pass'.kind = "reconcile" /\ pass'.todo = order /\ pass'.order = order /\ pass'.ids = ids
      /\ pass'.room = losers /\ pass'.before = gpu.addon /\ pass'.withheld = FALSE
      /\ pass'.threw <=> Threw(gpu, gpu') # {}
  BY <1>w DEF Reconcile, Idle
<1>7. Len(order) \in Nat /\ Done' = 0
  BY <1>1, <1>6 DEF Done
<1>8. ASSUME NEW t \in Term, gpu'.addon[t] # NoAddon
      PROVE  /\ gpu.addon[t] # NoAddon /\ gpu'.addon[t] = gpu.addon[t]
             /\ t \in ids => t \in W
  BY <1>1, <1>5, <1>8 DEF Holding
<1>9. InOrder'
  BY <1>1, <1>6, <1>7 DEF InOrder
<1>10. Unchurned'
  <2>1. NoChurn'
    BY <1>5, <1>6 DEF NoChurn, Holding
  <2>2. ASSUME NEW i \in DOMAIN order, gpu'.addon[order[i]] = NoAddon, gpu.addon[order[i]] # NoAddon
        PROVE  order[i] \in losers
    BY <1>1, <1>5, <2>2 DEF Holding, ToSet
  <2> QED BY <1>6, <2>1, <2>2 DEF Unchurned, Holds
<1>11. Ranked'
  BY <1>6, <1>7 DEF Ranked
(* What the canvas holds after the demotions are winners, and what others  *)
(* hold has not changed.                                                   *)
<1> DEFINE held == Holding(gpu', ids)
           outside == Count - Cardinality(Holding(gpu, ids))
<1>12. held \subseteq W
  BY <1>8 DEF Holding
<1>13. IsFiniteSet(held) /\ Cardinality(held) \in Nat
  BY <1>2, <1>12, FS_Subset, FS_CardinalityType
<1>14. ASSUME Threw(gpu, gpu') = {}
       PROVE  /\ outside \in Nat /\ CountOf(gpu') = outside + Cardinality(held)
              /\ Slots(ids) = IF MaxGpu > outside THEN MaxGpu - outside ELSE 0
  <2>1. /\ IsFiniteSet(Holding(gpu, Term)) /\ Cardinality(Holding(gpu, Term)) \in Nat
        /\ Cardinality(gpu.quarantine) \in Nat
        /\ IsFiniteSet(Holding(gpu', Term)) /\ Cardinality(Holding(gpu', Term)) \in Nat
    BY <1>3, <1>5, CountFinite
  <2> DEFINE others == Holding(gpu, Term) \ ids
  <2>2. Holding(gpu, Term) \cap ids = Holding(gpu, ids) /\ Holding(gpu', Term) \cap ids = held
    BY DEF Holding
  <2>3. Holding(gpu', Term) \ ids = others
    BY <1>1, <1>5 DEF Holding
  <2>4. Cardinality(others) = Cardinality(Holding(gpu, Term)) - Cardinality(Holding(gpu, ids))
    <3>1. Cardinality(Holding(gpu, Term) \ ids)
            = Cardinality(Holding(gpu, Term)) - Cardinality(Holding(gpu, Term) \cap ids)
      BY <2>1, FS_Difference, Zenon
    <3> QED BY <2>2, <3>1
  <2>5. Cardinality(others) = Cardinality(Holding(gpu', Term)) - Cardinality(held)
    BY <2>1, <2>2, <2>3, FS_Difference, Zenon
  <2>6. Cardinality(others) \in Nat /\ Cardinality(Holding(gpu, ids)) \in Nat
    BY <2>1, <2>2, FS_Difference, FS_Intersection, FS_CardinalityType
  <2>7. gpu'.quarantine = gpu.quarantine
    BY <1>5, <1>14
  <2> DEFINE q == Cardinality(gpu.quarantine)
             n == Cardinality(Holding(gpu, Term))
             m == Cardinality(Holding(gpu', Term))
             k == Cardinality(Holding(gpu, ids))
             h == Cardinality(held)
             o == Cardinality(others)
  <2>8. Count = n + q /\ CountOf(gpu') = m + q
    BY <2>7 DEF Count, CountOf
  <2>9. /\ o = n - k /\ o = m - h /\ o \in Nat /\ k \in Nat /\ n \in Nat /\ q \in Nat /\ m \in Nat
        /\ h \in Nat
    BY <1>13, <2>1, <2>4, <2>5, <2>6
  <2>10. Slots(ids) = Minus(MaxGpu, Minus(Count, k))
    BY DEF Slots
  <2> HIDE DEF q, n, m, k, h, o
  <2>11. Count - k \in Nat /\ CountOf(gpu') = (Count - k) + h
    BY <2>8, <2>9
  <2>12. Slots(ids) = IF MaxGpu > Count - k THEN MaxGpu - (Count - k) ELSE 0
    BY <1>3, <2>9, <2>10, <2>11 DEF Minus
  <2> QED BY <2>11, <2>12 DEF k, h
<1> HIDE DEF outside
<1>15. Budgeted'
  <2>1. SUFFICES ASSUME Threw(gpu, gpu') = {}, CountOf(gpu') > MaxGpu PROVE held = {}
    BY <1>6 DEF Budgeted, Count
  <2> DEFINE h == Cardinality(held)
             w == Cardinality(W)
  <2>2. h <= w /\ w <= Slots(ids) /\ w \in Nat /\ h \in Nat
    BY <1>2, <1>12, <1>13, FS_Subset
  <2>3. /\ outside \in Nat /\ CountOf(gpu') = outside + h
        /\ Slots(ids) = IF MaxGpu > outside THEN MaxGpu - outside ELSE 0
    BY <1>14, <2>1
  <2> HIDE DEF h, w
  <2>4. h = 0
    BY <2>1, <2>2, <2>3, PolicyAssumption
  <2> QED BY <1>13, <2>4, FS_EmptySet DEF h
<1>16. Winning(W)'
  <2> DEFINE P == {t \in W : gpu'.addon[t] = NoAddon /\ \E i \in DOMAIN order : i > 0 /\ t = order[i]}
  <2>1. losers \subseteq cached \ W
    BY <1>2, <1>3, <1>1 DEF Holding
  <2>2. \A i \in DOMAIN order : gpu'.addon[order[i]] # NoAddon => order[i] \in W
    BY <1>1, <1>8 DEF ToSet
  <2>3. P = W \ held
    <3>1. W \subseteq ids
      BY <1>1, <1>2
    <3>2. \A t \in W : \E i \in DOMAIN order : i > 0 /\ t = order[i]
      BY <1>1, <1>2 DEF ToSet
    <3> QED BY <3>1, <3>2 DEF Holding
  <2>4. ASSUME Threw(gpu, gpu') = {}, P # {} PROVE CountOf(gpu') + Cardinality(P) <= MaxGpu
    <3>1. Cardinality(P) = Cardinality(W) - Cardinality(held)
      <4>1. W \cap held = held
        BY <1>12
      <4> QED BY <1>2, <2>3, <4>1, FS_Difference
    <3>2. Cardinality(W) # 0
      BY <1>2, <2>4, FS_EmptySet
    <3> DEFINE h == Cardinality(held)
               w == Cardinality(W)
               p == Cardinality(P)
    <3>3. p = w - h /\ w # 0 /\ w <= Slots(ids) /\ w \in Nat /\ h \in Nat
      BY <1>2, <1>13, <3>1, <3>2
    <3>4. /\ outside \in Nat /\ CountOf(gpu') = outside + h
          /\ Slots(ids) = IF MaxGpu > outside THEN MaxGpu - outside ELSE 0
      BY <1>14, <2>4
    <3> HIDE DEF h, w, p
    <3>5. CountOf(gpu') + p <= MaxGpu
      BY <3>3, <3>4, PolicyAssumption
    <3> QED BY <3>5 DEF p
  <2>5. Pending(W)' = P
    BY <1>6, <1>7 DEF Pending, Holds
  <2> HIDE DEF P, losers
  <2>6. W \subseteq ToSet(pass'.order) \cap cached' /\ pass'.room \subseteq cached' \ W
    BY <1>2, <1>4, <1>6, <2>1
  <2>7. \A i, j \in DOMAIN pass'.order :
          i < j /\ pass'.order[i] \in cached' /\ pass'.order[j] \in W => pass'.order[i] \in W
    BY <1>2, <1>4, <1>6
  <2>8. \A i \in DOMAIN pass'.order : i > Done' /\ Holds(pass.order[i])' => pass'.order[i] \in W
    BY <1>6, <2>2 DEF Holds
  <2>9. ~ pass'.threw /\ Pending(W)' # {} => Count' + Cardinality(Pending(W)') <= MaxGpu
    BY <1>6, <2>4, <2>5 DEF Count
  <2> QED BY <2>6, <2>7, <2>8, <2>9 DEF Winning
<1> QED
  <2>1. W \in SUBSET Term
    BY <1>2, <1>3
  <2> QED BY <1>9, <1>10, <1>11, <1>15, <1>16, <2>1 DEF PassInv

LEMMA PassGoesOn ==
  ASSUME Inv, PassInv, Promote
  PROVE  PassInv'
<1> DEFINE t == Head(pass.todo)
           asks == ~ Holds(t) /\ t \notin pass.room /\ ~ pass.withheld /\ Count < MaxGpu
<1>1. /\ pass.order \in Seq(Term) /\ pass.todo \in Seq(Term) /\ pass.todo # <<>>
      /\ pass.kind = "reconcile" /\ pass.failed \subseteq Term /\ pass.ids \subseteq Term
      /\ gpu \in Gpu /\ Count \in Nat /\ Accounted(gpu) /\ Holding(gpu, Term) \subseteq cached
  BY CountFinite DEF Inv, TypeOK, PassType, Promote, Count
<1>2. /\ InOrder /\ Unchurned /\ Ranked /\ Budgeted
      /\ \E W \in SUBSET Term : Winning(W)
  BY <1>1 DEF PassInv
<1>3. PICK W \in SUBSET Term : Winning(W)
  BY <1>2
<1>4. PICK n : n = Done + 1
  OBVIOUS
<1>5. /\ n \in DOMAIN pass.order /\ pass.order[n] = t /\ t \in Term /\ n \in Nat /\ Done = n - 1
      /\ \A i \in DOMAIN pass.order : i \in Nat /\ pass.order[i] \in Term
  <2> DEFINE N == Len(pass.order)
             m == Len(pass.todo)
  <2>1. N \in Nat /\ DOMAIN pass.order = 1 .. N /\ m \in Nat /\ m > 0 /\ DOMAIN pass.todo = 1 .. m
          /\ t = pass.todo[1] /\ t \in Term
    BY <1>1
  <2>2. Done = N - m /\ N - m >= 0
    BY <1>2, <2>1 DEF InOrder, Done
  <2>3. pass.todo[1] = pass.order[Done + 1]
    BY <1>2, <2>1 DEF InOrder
  <2>4. \A i \in DOMAIN pass.order : i \in Nat /\ pass.order[i] \in Term
    BY <1>1
  <2> HIDE DEF N, m, t
  <2> QED BY <1>4, <2>1, <2>2, <2>3, <2>4
<1>6. pass' = [pass EXCEPT !.todo = Tail(@),
                           !.withheld = @ \/ (~ Holds(t) /\ t \in pass.room),
                           !.failed = IF asks /\ gpu'.addon[t] = NoAddon THEN @ \cup {t} ELSE @]
  BY Zenon DEF Promote
<1>7. /\ pass'.kind = "reconcile" /\ pass'.todo = Tail(pass.todo) /\ pass'.order = pass.order
      /\ pass'.ids = pass.ids /\ pass'.room = pass.room /\ pass'.before = pass.before
      /\ pass'.threw = pass.threw
      /\ pass'.withheld <=> pass.withheld \/ (~ Holds(t) /\ t \in pass.room)
      /\ pass'.failed = IF asks /\ gpu'.addon[t] = NoAddon THEN pass.failed \cup {t} ELSE pass.failed
  <2> HIDE DEF t, asks
  <2> QED BY <1>1, <1>6 DEF Inv, PassType
<1>8. cached' = cached
  BY DEF Promote
<1>9. Done' = n /\ Done < n
  <2>1. Len(Tail(pass.todo)) = Len(pass.todo) - 1 /\ Len(pass.todo) \in Nat /\ Len(pass.order) \in Nat
    BY <1>1
  <2>2. Done' = Len(pass.order) - Len(Tail(pass.todo))
    BY <1>7 DEF Done
  <2>3. Done = Len(pass.order) - Len(pass.todo)
    BY DEF Done
  <2>4. Done = n - 1 /\ n \in Nat
    BY <1>5
  <2>5. PICK N \in Nat, m \in Nat : N = Len(pass.order) /\ m = Len(pass.todo)
    BY <2>1
  <2>6. Done' = N - (m - 1) /\ N - m = n - 1
    BY <2>1, <2>2, <2>3, <2>4, <2>5
  <2> QED BY <2>4, <2>5, <2>6
(* Either nothing is allocated, or it is for a t that has an entry and may *)
(* ask.                                                                    *)
<1>10. /\ gpu' \in Gpu /\ CountOf(gpu') \in {Count, Count + 1} /\ CountOf(gpu') \in Nat
       /\ \A u \in Term \ {t} : gpu'.addon[u] = gpu.addon[u]
       /\ gpu' # gpu => asks /\ t \in cached
  <2>1. CASE asks
    <3>1. gpu.addon[t] = NoAddon /\ gpu' \in Promotions(gpu, t)
      BY <2>1 DEF Promote, Holds
    <3>2. Fresh(gpu, t, gpu') /\ (gpu' # gpu => t \in cached)
      BY <1>1, <1>5, <3>1, PromotionsFresh
    <3> QED BY <1>1, <2>1, <3>2 DEF Fresh, Count
  <2>2. CASE ~ asks
    <3>1. gpu' = gpu
      BY <2>2 DEF Promote
    <3> QED BY <1>1, <2>2, <3>1 DEF Count
  <2> QED BY <2>1, <2>2
<1>h. \A i \in DOMAIN pass.order : i # n => Holds(pass.order[i])' = Holds(pass.order[i])
  BY <1>2, <1>5, <1>7, <1>10 DEF InOrder, Holds
<1>t. Holds(t) => gpu' = gpu
  BY <1>10
<1> HIDE DEF t
<1>11. InOrder'
  <2>1. \A i \in DOMAIN Tail(pass.todo) : i \in Nat /\ i + 1 \in DOMAIN pass.todo /\ Tail(pass.todo)[i] = pass.todo[i + 1]
    BY <1>1
  <2>2. \A i \in DOMAIN Tail(pass.todo) : Tail(pass.todo)[i] = pass.order[n + i]
    <3>1. ASSUME NEW i \in DOMAIN Tail(pass.todo) PROVE Tail(pass.todo)[i] = pass.order[n + i]
      <4>1. Tail(pass.todo)[i] = pass.order[Done + (i + 1)]
        BY <1>2, <2>1 DEF InOrder
      <4>2. Done + (i + 1) = n + i
        <5>1. i \in Nat
          BY <2>1
        <5>2. n \in Nat /\ Done = n - 1
          BY <1>5
        <5> QED BY <5>1, <5>2
      <4> QED BY <4>1, <4>2
    <3> QED BY <3>1
  <2>3. n \in 0 .. Len(pass.order)
    BY <1>1, <1>5
  <2> QED BY <1>2, <1>7, <1>9, <2>2, <2>3 DEF InOrder
<1>12. Unchurned'
  <2>1. asks => pass.before[t] = NoAddon
    BY <1>2, <1>5 DEF Unchurned
  <2>2. NoChurn'
    <3>1. ASSUME NEW u \in Term, gpu'.addon[u] # NoAddon
          PROVE  pass.before[u] \in {NoAddon, gpu'.addon[u]}
      <4>1. CASE gpu'.addon[u] = gpu.addon[u]
        BY <1>1, <1>2, <3>1, <4>1 DEF Unchurned, NoChurn, Holding
      <4>2. CASE u = t /\ asks
        BY <2>1, <4>2
      <4> QED BY <1>10, <4>1, <4>2
    <3> QED BY <1>7, <3>1 DEF NoChurn, Holding
  <2>3. ASSUME NEW i \in DOMAIN pass.order, gpu'.addon[pass.order[i]] = NoAddon,
               pass.before[pass.order[i]] # NoAddon
        PROVE  pass.order[i] \in pass.room
    <3>1. ~ Holds(pass.order[i])
      BY <1>5, <1>10, <2>3 DEF Holds
    <3> QED BY <1>2, <2>3, <3>1 DEF Unchurned
  <2> QED BY <1>7, <2>2, <2>3 DEF Unchurned, Holds
<1>13. Budgeted'
  <2>1. CASE gpu' = gpu
    BY <1>2, <1>7, <2>1 DEF Budgeted, Count
  <2>2. CASE gpu' # gpu
    BY <1>1, <1>10, <2>2, PolicyAssumption DEF Budgeted, Count
  <2> QED BY <2>1, <2>2
(* Whom the winners protect: a t that is passed over with an entry is not  *)
(* followed by anyone who holds a context.                                 *)
<1>14. ASSUME NEW j \in DOMAIN pass.order, n < j, Holds(pass.order[j]), t \in cached
       PROVE  t \in W /\ ~ pass.withheld
  <2>1. pass.order[j] \in W
    BY <1>3, <1>5, <1>9, <1>14 DEF Winning
  <2>2. t \in W
    BY <1>3, <1>5, <1>14, <2>1 DEF Winning
  <2>3. ASSUME NEW k \in 1 .. Done, pass.order[k] \in pass.room PROVE FALSE
    <3>1. k \in DOMAIN pass.order /\ k < j
      <4>1. j \in Nat /\ n \in Nat /\ k \in Nat /\ 1 <= k /\ k < n
        BY <1>5
      <4>2. Len(pass.order) \in Nat /\ DOMAIN pass.order = 1 .. Len(pass.order)
        BY <1>1
      <4> QED BY <1>5, <1>14, <4>1, <4>2
    <3>2. pass.order[k] \in cached
      BY <1>3, <2>3 DEF Winning
    <3>3. pass.order[k] \in W
      BY <1>3, <1>14, <2>1, <3>1, <3>2 DEF Winning
    <3> QED BY <1>3, <2>3, <3>3 DEF Winning
  <2> QED BY <1>2, <2>2, <2>3 DEF Ranked
<1>15. ASSUME t \in W, ~ Holds(t), ~ pass.threw PROVE Count < MaxGpu
  <2>1. t \in Pending(W)
    BY <1>5, <1>9, <1>15 DEF Pending
  <2>2. IsFiniteSet(Pending(W))
    <3>1. Pending(W) \subseteq Term
      BY DEF Pending
    <3> QED BY <3>1, PolicyAssumption, FS_Subset
  <2>3. Cardinality(Pending(W)) # 0 /\ Cardinality(Pending(W)) \in Nat
    BY <2>1, <2>2, FS_EmptySet, FS_CardinalityType
  <2>4. Count + Cardinality(Pending(W)) <= MaxGpu
    BY <1>3, <1>15, <2>1 DEF Winning
  <2> QED BY <1>1, <2>3, <2>4, PolicyAssumption
<1>16. Ranked'
  <2>1. ASSUME pass'.withheld PROVE \E k \in 1 .. n : pass.order[k] \in pass.room
    <3>1. CASE pass.withheld
      <4>1. PICK k \in 1 .. Done : pass.order[k] \in pass.room
        BY <1>2, <3>1 DEF Ranked
      <4> QED BY <1>5, <4>1
    <3>2. CASE t \in pass.room
      BY <1>1, <1>5, <3>2
    <3> QED BY <1>7, <2>1, <3>1, <3>2
  <2>2. ASSUME NEW i \in 1 .. n, pass.order[i] \in cached \ pass'.failed,
               ~ Holds(pass.order[i])', ~ pass.threw
        PROVE  /\ \A j \in DOMAIN pass.order : i < j => ~ Holds(pass.order[j])'
               /\ pass'.withheld \/ Count' >= MaxGpu
    <3>i. i \in DOMAIN pass.order /\ i \in Nat
      BY <1>1, <1>5
    <3>1. CASE i = n
      <4>1. ~ Holds(t)
        <5>1. gpu'.addon[t] = NoAddon
          BY <1>5, <1>7, <2>2, <3>1 DEF Holds
        <5> QED BY <1>t, <5>1 DEF Holds
      <4>2. ~ asks
        BY <1>5, <1>7, <2>2, <3>1 DEF Holds
      <4>3. gpu' = gpu /\ CountOf(gpu') = Count
        BY <1>10, <4>2 DEF Count
      <4>4. t \in cached
        BY <1>5, <2>2, <3>1
      <4>5. ASSUME NEW j \in DOMAIN pass.order, i < j PROVE ~ Holds(pass.order[j])'
        <5>1. SUFFICES ASSUME Holds(pass.order[j]) PROVE FALSE
          BY <1>h, <1>5, <3>1, <4>5
        <5>2. t \in W /\ ~ pass.withheld
          BY <1>14, <3>1, <4>4, <4>5, <5>1
        <5>3. Count < MaxGpu
          BY <1>15, <2>2, <4>1, <5>2
        <5>4. t \notin pass.room
          BY <1>3, <5>2 DEF Winning
        <5> QED BY <4>1, <4>2, <5>2, <5>3, <5>4
      <4>6. pass'.withheld \/ CountOf(gpu') >= MaxGpu
        BY <1>1, <1>7, <4>1, <4>2, <4>3, PolicyAssumption
      <4> QED BY <4>5, <4>6 DEF Count
    <3>2. CASE i # n
      <4>1. i \in 1 .. Done
        BY <1>5, <3>i, <3>2
      <4>2. ~ Holds(pass.order[i]) /\ pass.order[i] \notin pass.failed
        BY <1>h, <1>7, <2>2, <3>i, <3>2
      <4>3. /\ \A j \in DOMAIN pass.order : i < j => ~ Holds(pass.order[j])
            /\ pass.withheld \/ Count >= MaxGpu
        BY <1>2, <2>2, <4>1, <4>2 DEF Ranked
      <4>4. ~ asks
        BY <1>1, <4>3, PolicyAssumption
      <4>5. gpu' = gpu
        BY <1>10, <4>4
      <4>6. \A j \in DOMAIN pass.order : i < j => ~ Holds(pass.order[j])'
        BY <1>7, <4>3, <4>5 DEF Holds
      <4>7. pass'.withheld \/ CountOf(gpu') >= MaxGpu
        BY <1>7, <4>3, <4>5 DEF Count
      <4> QED BY <4>6, <4>7 DEF Count
    <3> QED BY <3>1, <3>2
  <2>3. pass'.withheld => \E k \in 1 .. Done' : pass'.order[k] \in pass'.room
    BY <1>7, <1>9, <2>1
  <2>4. \A i \in 1 .. Done' :
          pass'.order[i] \in cached' \ pass'.failed /\ ~ Holds(pass.order[i])' /\ ~ pass'.threw =>
            /\ \A j \in DOMAIN pass'.order : i < j => ~ Holds(pass.order[j])'
            /\ pass'.withheld \/ Count' >= MaxGpu
    BY <1>7, <1>8, <1>9, <2>2
  <2> QED BY <2>3, <2>4 DEF Ranked
<1>17. Winning(W)'
  <2>1. ASSUME NEW i \in DOMAIN pass.order, i > n, Holds(pass.order[i])' PROVE pass.order[i] \in W
    <3>1. Holds(pass.order[i]) /\ i > Done
      BY <1>h, <1>5, <2>1
    <3> QED BY <1>3, <3>1 DEF Winning
  <2> DEFINE P == {u \in W : gpu'.addon[u] = NoAddon /\ \E i \in DOMAIN pass.order : i > n /\ u = pass.order[i]}
  <2>2. Pending(W)' = P
    BY <1>7, <1>9 DEF Pending, Holds
  <2>3. P \subseteq Pending(W) \ {t}
    <3>1. ASSUME NEW u \in P PROVE u \in Pending(W) \ {t}
      <4>1. PICK i \in DOMAIN pass.order : i > n /\ u = pass.order[i]
        OBVIOUS
      <4>2. u # t /\ i > Done
        BY <1>2, <1>5, <4>1 DEF InOrder
      <4>3. ~ Holds(u)
        BY <1>10, <4>2 DEF Holds
      <4> QED BY <4>1, <4>2, <4>3 DEF Pending
    <3> QED BY <3>1
  <2>4. IsFiniteSet(Pending(W)) /\ Cardinality(Pending(W)) \in Nat
    <3>1. Pending(W) \subseteq Term
      BY DEF Pending
    <3> QED BY <3>1, PolicyAssumption, FS_Subset, FS_CardinalityType
  <2>5. IsFiniteSet(P) /\ Cardinality(P) \in Nat /\ Cardinality(P) <= Cardinality(Pending(W))
    BY <2>3, <2>4, FS_Subset, FS_CardinalityType
  <2>6. ASSUME ~ pass.threw, P # {} PROVE CountOf(gpu') + Cardinality(P) <= MaxGpu
    <3>1. Count + Cardinality(Pending(W)) <= MaxGpu
      BY <1>3, <2>3, <2>6 DEF Winning
    <3>2. CASE gpu' = gpu
      BY <1>1, <2>4, <2>5, <3>1, <3>2, PolicyAssumption DEF Count
    <3>3. CASE gpu' # gpu
      <4>1. t \in Pending(W)
        <5>1. PICK i \in DOMAIN pass.order : i > n /\ pass.order[i] \in W
          BY <2>6
        <5>2. t \in W
          BY <1>3, <1>5, <1>10, <3>3, <5>1 DEF Winning
        <5> QED BY <1>t, <1>5, <1>9, <3>3, <5>2 DEF Pending
      <4>2. Cardinality(Pending(W) \ {t}) = Cardinality(Pending(W)) - 1 /\ IsFiniteSet(Pending(W) \ {t})
        BY <2>4, <4>1, FS_RemoveElement
      <4>3. Cardinality(P) <= Cardinality(Pending(W) \ {t})
        BY <2>3, <4>2, FS_Subset
      <4>4. CountOf(gpu') <= Count + 1
        BY <1>1, <1>10
      <4> HIDE DEF P
      <4> QED BY <1>1, <1>10, <2>4, <2>5, <3>1, <4>2, <4>3, <4>4, PolicyAssumption
    <3> QED BY <3>2, <3>3
  <2> HIDE DEF P
  <2>7. W \subseteq ToSet(pass'.order) \cap cached' /\ pass'.room \subseteq cached' \ W
    BY <1>3, <1>7, <1>8 DEF Winning
  <2>8. \A i, j \in DOMAIN pass'.order :
          i < j /\ pass'.order[i] \in cached' /\ pass'.order[j] \in W => pass'.order[i] \in W
    BY <1>3, <1>7, <1>8 DEF Winning
  <2>9. \A i \in DOMAIN pass'.order : i > Done' /\ Holds(pass.order[i])' => pass'.order[i] \in W
    BY <1>7, <1>9, <2>1
  <2>10. ~ pass'.threw /\ Pending(W)' # {} => Count' + Cardinality(Pending(W)') <= MaxGpu
    BY <1>7, <2>2, <2>6 DEF Count
  <2> QED BY <2>7, <2>8, <2>9, <2>10 DEF Winning
<1> QED BY <1>11, <1>12, <1>13, <1>16, <1>17 DEF PassInv

LEMMA PassInvPreserved ==
  ASSUME Inv, PassInv, [Next]_vars
  PROVE  PassInv'
<1>1. CASE pass.kind # "reconcile" /\ UNCHANGED pass
  BY <1>1 DEF PassInv
<1>2. CASE pass'.kind # "reconcile"
  BY <1>2 DEF PassInv
<1>3. CASE UNCHANGED <<pass, gpu, cached>>
  <2>1. Done' = Done /\ \A t : Holds(t)' = Holds(t)
    BY <1>3 DEF Done, Holds
  <2>2. Count' = Count
    BY <1>3 DEF Count
  <2>3. InOrder' = InOrder /\ Unchurned' = Unchurned /\ Budgeted' = Budgeted
    BY <1>3 DEF InOrder, Done, Unchurned, NoChurn, Holds, Budgeted, Count
  <2>4. Ranked' = Ranked
    BY <1>3 DEF Ranked, Done, Holds, Count
  <2>5. ASSUME NEW W PROVE Winning(W)' = Winning(W)
    <3>1. Pending(W)' = Pending(W)
      BY <1>3 DEF Pending, Done, Holds
    <3> QED BY <1>3, <3>1 DEF Winning, Done, Holds, Count
  <2> QED BY <1>3, <2>3, <2>4, <2>5 DEF PassInv
<1>4. ASSUME NEW t \in Term, MountNew(t) \/ Remount(t)
      PROVE  pass.kind # "reconcile" /\ UNCHANGED pass
  BY <1>4 DEF MountNew, Remount, EndsMount, Quiet
<1>5. ASSUME NEW t \in Term, Unmount(t) \/ Close(t) \/ ResetRendering(t) \/ ContextLoss(t)
      PROVE  pass.kind # "reconcile" /\ UNCHANGED pass
  BY <1>5 DEF Unmount, Close, ResetRendering, ContextLoss, Quiet
<1>6. CASE DisableWebGL \/ EnableWebGL \/ PageHide
  <2>1. pass.kind # "reconcile" /\ UNCHANGED pass
    BY <1>6 DEF DisableWebGL, EnableWebGL, PageHide, Quiet
  <2> QED BY <1>1, <2>1
<1>7. ASSUME NEW ids, CanvasEnter(ids) PROVE pass'.kind # "reconcile"
  BY <1>7 DEF CanvasEnter, Idle
<1>8. CASE CanvasExit
  <2>1. pass'.kind # "reconcile"
    BY <1>8 DEF CanvasExit, Idle
  <2> QED BY <1>2, <2>1
<1>9. CASE Reconciled \/ Restored
  <2>1. pass'.kind # "reconcile"
    BY <1>9 DEF Reconciled, Restored, Idle
  <2> QED BY <1>2, <2>1
<1>10. CASE Restore
  <2>1. pass'.kind # "reconcile"
    BY <1>10 DEF Restore, Inv, PassType
  <2> QED BY <1>2, <2>1
<1>11. CASE UNCHANGED vars
  BY <1>3, <1>11 DEF vars
<1>12. CASE Promote
  BY <1>12, PassGoesOn
<1>13. ASSUME NEW ids \in SUBSET Term, NEW C \in SUBSET ids, NEW order \in SetToSeqs(C), Reconcile(ids, order)
       PROVE  PassInv'
  BY <1>13, PassBegins
<1> QED BY <1>1, <1>2, <1>4, <1>5, <1>6, <1>7, <1>8, <1>9, <1>10, <1>11, <1>12, <1>13 DEF Next

(* A pass of the reconciler gives no terminal its context back in exchange *)
(* for another, and when every demotion worked it ends within the budget   *)
(* with no candidate painting by WebGL before a more important one that    *)
(* the GPU did not refuse, whichever promotions fail on the way            *)
(* (renderPolicyReconciler.ts:109-246).                                    *)
THEOREM PassAlwaysSound == Spec => []PassSound
<1>1. Init => PassInv
  BY DEF Init, Idle, PassInv
<1>2. Inv /\ PassInv /\ [Next]_vars => PassInv'
  BY PassInvPreserved
<1>3. Inv /\ PassInv => PassSound
  <2> SUFFICES ASSUME Inv, PassInv, pass.kind = "reconcile" PROVE PassSound
    BY DEF PassSound, NoChurn, PassSettles
  <2>1. NoChurn /\ Ranked /\ Budgeted
    BY DEF PassInv, Unchurned
  <2>2. ASSUME pass.todo = <<>>, ~ pass.threw, NEW i \in DOMAIN pass.order, NEW j \in DOMAIN pass.order,
               i < j, pass.order[i] \in cached \ pass.failed, Holds(pass.order[j])
        PROVE  Holds(pass.order[i])
    <3>1. i \in 1 .. Done
      BY <2>2 DEF Inv, PassType, Done
    <3> QED BY <2>1, <2>2, <3>1 DEF Ranked
  <2> QED BY <2>1, <2>2 DEF PassSound, PassSettles, Budgeted
<1> QED BY <1>1, <1>2, <1>3, InvAlways, PTL DEF Spec

==============================================================================
