---- MODULE Workspace ----
(***************************************************************************)
(* The tabs of a window and the panes in them: the tab strip (tabsSlice),   *)
(* the pane trees (panesSlice, paneTreeOps), the mirror of the trees on the *)
(* window (store/index.ts), the effects that keep the three together        *)
(* (TerminalContainer, tabTreeSeed), and what creates, splits, moves,       *)
(* detaches, closes, saves and restores.                                   *)
(*                                                                         *)
(* A tree is binary.  It maps a split to the two nodes below it, and a leaf *)
(* to the terminal it shows and the tab that terminal was made for.  A     *)
(* reducer is an operator on the slice; a handler dispatches in one task,   *)
(* and React then renders and runs the effects before the next task.       *)
(***************************************************************************)
EXTENDS Naturals, Sequences, FiniteSets, Functions, SequencesExt, TLC

CONSTANTS Tab, NoTab,
          Saves,            \* what an earlier version may have left in localStorage
          MaxIds            \* bounds the pane and terminal ids ever given, together

ASSUME WorkspaceAssumption ==
  /\ NoTab \notin Tab /\ IsFiniteSet(Tab) /\ MaxIds \in Nat
  /\ Saves \subseteq {"none", "keyless", "twice"}

VARIABLES strip,    \* state.tabs: tabs, active
          panes,    \* state.panes
          mirror,   \* window.tabPanes
          due,      \* effects wait to run
          ids,      \* the ids given: tabs, nodes, terms
          running,  \* terminals this window has opened and not let go
          away,     \* the tree another window holds: at most one
          saved,    \* localStorage
          stray     \* terminals made for a pane that could not be split

vars == <<strip, panes, mirror, due, ids, running, away, saved, stray>>

----
(* Functions: f with v at x; f, and g where f is not defined; f but for x.  *)
Put(f, x, v) == [y \in DOMAIN f \cup {x} |-> IF y = x THEN v ELSE f[y]]
Over(f, g) == [y \in DOMAIN f \cup DOMAIN g |-> IF y \in DOMAIN f THEN f[y] ELSE g[y]]
Without(f, x) == Restrict(f, DOMAIN f \ {x})

----
(* Trees (paneTreeOps.ts)                                                  *)
NoTree == [root |-> 0, kids |-> <<>>, leaf |-> <<>>]
Solo(p, t, s) == [root |-> p, kids |-> <<>>, leaf |-> [q \in {p} |-> [term |-> t, seed |-> s]]]
Nodes(t) == DOMAIN t.kids \cup DOMAIN t.leaf
Terms(t) == {t.leaf[p].term : p \in DOMAIN t.leaf}
Seeds(t) == {t.leaf[p].seed : p \in DOMAIN t.leaf} \ {NoTab}

(* What is reached from p by the first way, the second or both.            *)
Reached(t, p, ways) ==
  {n \in Nodes(t) : \A S \in SUBSET Nodes(t) :
     p \in S /\ (\A m \in S \cap DOMAIN t.kids, k \in ways : t.kids[m][k] \in S) => n \in S}
Below(t, p) == Reached(t, p, {1, 2})
GetAllLeafIds(t) ==
  LET ids_[n \in Nodes(t)] ==
        IF n \in DOMAIN t.leaf THEN <<n>> ELSE ids_[t.kids[n][1]] \o ids_[t.kids[n][2]]
  IN IF t = NoTree THEN <<>> ELSE ids_[t.root]
FirstLeafId(t) == IF t = NoTree THEN 0 ELSE CHOOSE p \in DOMAIN t.leaf : p \in Reached(t, t.root, {1})

Replaced(kids, S, old, new) ==
  [n \in S |-> [k \in 1 .. 2 |-> IF kids[n][k] = old THEN new ELSE kids[n][k]]]

MutRemoveLeaf(t, p) ==     \* the whole split goes when it is the root
  IF p \notin Nodes(t) THEN t
  ELSE IF p = t.root THEN NoTree
  ELSE LET s == CHOOSE n \in DOMAIN t.kids : p \in Range(t.kids[n]) IN
       IF s = t.root THEN NoTree
       ELSE LET other == IF t.kids[s][1] = p THEN t.kids[s][2] ELSE t.kids[s][1]
                gone == Below(t, p) \cup {s}
            IN [root |-> t.root, kids |-> Replaced(t.kids, DOMAIN t.kids \ gone, s, other),
                leaf |-> Restrict(t.leaf, DOMAIN t.leaf \ gone)]
(* The sibling takes the place of the split.                               *)
RemoveLeaf(t, p) ==
  IF p \notin Nodes(t) THEN t
  ELSE IF p = t.root THEN NoTree
  ELSE LET s == CHOOSE n \in DOMAIN t.kids : p \in Range(t.kids[n])
           other == IF t.kids[s][1] = p THEN t.kids[s][2] ELSE t.kids[s][1]
           gone == Below(t, p) \cup {s}
       IN [root |-> IF t.root = s THEN other ELSE t.root,
           kids |-> Replaced(t.kids, DOMAIN t.kids \ gone, s, other),
           leaf |-> Restrict(t.leaf, DOMAIN t.leaf \ gone)]

(* A target that is not there leaves the tree as it is.                    *)
InsertByZone(t, target, u, first, n) ==
  IF target \notin Nodes(t) THEN t
  ELSE [root |-> IF t.root = target THEN n ELSE t.root,
        kids |-> Put(Over(u.kids, Replaced(t.kids, DOMAIN t.kids, target, n)), n,
                     IF first THEN <<u.root, target>> ELSE <<target, u.root>>),
        leaf |-> Over(u.leaf, t.leaf)]

SwapLeaves(t, a, b) ==
  IF {a, b} \subseteq DOMAIN t.leaf
  THEN [t EXCEPT !.leaf[a] = t.leaf[b], !.leaf[b] = t.leaf[a]] ELSE t

(* The leaf p becomes a split; the terminal moves to a, the new one is b.  *)
SplitLeafInTree(t, p, a, b, new, first) ==
  [root |-> t.root,
   kids |-> Put(t.kids, p, IF first THEN <<b, a>> ELSE <<a, b>>),
   leaf |-> Put(Put(Without(t.leaf, p), b, new), a, t.leaf[p])]

PruneDuplicateLeaves(t, taken) ==
  FoldLeft(LAMBDA acc, p : IF t.leaf[p].term \in acc.seen
                           THEN [acc EXCEPT !.tree = RemoveLeaf(acc.tree, p)]
                           ELSE [acc EXCEPT !.seen = @ \cup {t.leaf[p].term}],
           [tree |-> t, seen |-> taken], GetAllLeafIds(t)).tree

----
(* The tab strip (tabsSlice.ts)                                            *)
AddTab(S, t, active) == [tabs |-> Append(S.tabs, t), active |-> IF active THEN t ELSE S.active]
RemoveTab(S, t) ==
  IF t \notin Range(S.tabs) THEN S
  ELSE LET i == CHOOSE i \in DOMAIN S.tabs : S.tabs[i] = t
           rest == RemoveAt(S.tabs, i)
       IN [tabs |-> rest,
           active |-> IF S.active # t THEN S.active
                      ELSE IF rest = <<>> THEN NoTab
                      ELSE rest[IF i > Len(rest) THEN Len(rest) ELSE i]]
SetActiveTab(S, t) == [S EXCEPT !.active = t]

----
(* The pane slice (panesSlice.ts)                                          *)
Tree(P, t) == IF t \in DOMAIN P.trees THEN P.trees[t] ELSE NoTree

SyncActive(P) ==
  IF P.current = NoTab THEN P
  ELSE IF P.tree # NoTree \/ P.current \in DOMAIN P.trees
       THEN [P EXCEPT !.trees = Put(@, P.current, P.tree)] ELSE P

(* splitPane, and splitPaneWithTab when it is fulfilled.                   *)
SplitPane(P, p, a, b, new, first) ==
  IF p \notin DOMAIN P.tree.leaf THEN SyncActive(P)
  ELSE SyncActive([P EXCEPT !.tree = SplitLeafInTree(@, p, a, b, new, first), !.active = b,
                            !.max = Without(@, P.current)])

Shown(P, t) ==
  IF P.current # t THEN P
  ELSE [P EXCEPT !.tree = P.trees[t], !.active = IF t \in DOMAIN P.of THEN P.of[t] ELSE @]
SplitPaneInTab(P, t, p, a, b, new) ==
  IF Tree(P, t) = NoTree
  THEN Shown([P EXCEPT !.trees = Put(@, t, Solo(b, new.term, NoTab)), !.of = Put(@, t, b)], t)
  ELSE LET target == IF p \in Nodes(Tree(P, t)) THEN p ELSE FirstLeafId(Tree(P, t)) IN
       IF target \notin DOMAIN Tree(P, t).leaf THEN Shown(P, t)
       ELSE Shown([P EXCEPT !.trees[t] = SplitLeafInTree(@, target, a, b, new, FALSE),
                            !.of = Put(@, t, b), !.max = Without(@, t)], t)

ToggleMaximizePane(P, t, p) ==
  [P EXCEPT !.max = IF t \in DOMAIN @ /\ @[t] = p THEN Without(@, t) ELSE Put(@, t, p)]
FocusPane(P, p) == [P EXCEPT !.active = p]
AddTabTree(P, t, tree) ==
  [P EXCEPT !.trees = Put(@, t, tree), !.tree = IF P.current = t THEN tree ELSE @]

SetActiveTabId(P, t) ==
  LET of == IF P.current # NoTab /\ P.active # 0 THEN Put(P.of, P.current, P.active) ELSE P.of
      tree == IF t = NoTab THEN NoTree ELSE Tree(P, t)
  IN [P EXCEPT !.of = of, !.current = t, !.tree = tree,
               !.active = IF t \in DOMAIN of /\ of[t] \in Nodes(tree) THEN of[t] ELSE FirstLeafId(tree)]

InsertPaneIntoTab(P, t, target, u, first, n) ==
  IF t \notin DOMAIN P.trees THEN P
  ELSE LET next == IF P.trees[t] = NoTree \/ target = 0 THEN u
                   ELSE InsertByZone(P.trees[t], target, u, first, n)
       IN [P EXCEPT !.trees[t] = next, !.of = Put(@, t, u.root), !.max = Without(@, t),
                    !.tree = IF P.current = t THEN next ELSE @,
                    !.active = IF P.current = t THEN u.root ELSE @]

RemovePaneFromTab(P, t, p) ==
  IF Tree(P, t) = NoTree THEN P
  ELSE LET pruned == RemoveLeaf(P.trees[t], p) IN
       [P EXCEPT !.trees[t] = pruned,
                 !.max = IF t \in DOMAIN @ /\ @[t] = p THEN Without(@, t) ELSE @,
                 !.tree = IF P.current = t THEN pruned ELSE @,
                 !.active = IF P.current = t /\ @ # 0 /\ @ \notin Nodes(pruned)
                            THEN FirstLeafId(pruned) ELSE @]

RemoveTabTrees(P, S) ==
  [P EXCEPT !.trees = Restrict(@, DOMAIN @ \ S), !.of = Restrict(@, DOMAIN @ \ S),
            !.max = Restrict(@, DOMAIN @ \ S),
            !.tree = IF P.current \in S THEN NoTree ELSE @,
            !.active = IF P.current \in S THEN 0 ELSE @]
RemoveTabTree(P, t) == RemoveTabTrees(P, {t})

(* "center" swaps; an edge takes the pane out and splits the target.       *)
MovePaneWithinTab(P, t, source, target, zone, n) ==
  LET pruned == RemoveLeaf(Tree(P, t), source)
      u == Solo(source, Tree(P, t).leaf[source].term, Tree(P, t).leaf[source].seed)
      Moved(next, active) == [P EXCEPT !.trees[t] = next, !.active = active,
                                       !.tree = IF P.current = t THEN next ELSE @]
  IN IF source = target \/ Tree(P, t) = NoTree THEN P
     ELSE IF zone = "center" THEN Moved(SwapLeaves(Tree(P, t), source, target), target)
     ELSE IF source \notin Nodes(Tree(P, t)) \/ pruned = NoTree THEN P
     ELSE Moved(InsertByZone(pruned, target, u, zone = "first", n), source)

MutMovePaneToTab(P, from, source, to, target, zone, n) ==   \* the pane stays where it was, too
  LET u == Solo(source, P.trees[from].leaf[source].term, P.trees[from].leaf[source].seed)
      next == IF P.trees[to] = NoTree THEN u ELSE InsertByZone(P.trees[to], target, u, zone = "first", n)
  IN [P EXCEPT !.trees[to] = next, !.max = Without(@, to),
               !.current = to, !.tree = next, !.active = source, !.of = Put(@, to, source)]
MovePaneToTab(P, from, source, to, target, zone, n) ==
  IF from = to \/ Tree(P, from) = NoTree \/ to \notin DOMAIN P.trees \/ source \notin Nodes(Tree(P, from)) THEN P
  ELSE LET u == Solo(source, P.trees[from].leaf[source].term, P.trees[from].leaf[source].seed)
           next == IF P.trees[to] = NoTree THEN u
                   ELSE InsertByZone(P.trees[to], target, u, zone = "first", n)
       IN [P EXCEPT !.trees[from] = RemoveLeaf(@, source), !.trees[to] = next,
                    !.max = Without(IF from \in DOMAIN @ /\ @[from] = source THEN Without(@, from) ELSE @, to),
                    !.current = to, !.tree = next, !.active = source, !.of = Put(@, to, source)]

----
(* Seeding (tabTreeSeed.ts): the trees of the tabs that have none, decided  *)
(* over all of them at once, natural owners first.                         *)
NaturalOwner(t, M) == t \in DOMAIN M => t \in Seeds(M[t])
MutEmptied(t, M, seeded) == FALSE    \* every tab without a tree is taken for new
Emptied(t, M, seeded) == t \notin DOMAIN M /\ t \in seeded

PlanOne(M, acc, t) ==
  LET made == t \notin DOMAIN M /\ ~Emptied(t, M, acc.seeded)
      candidate == IF made THEN Solo(acc.ids.nodes + 1, acc.ids.terms + 1, t)
                   ELSE IF t \in DOMAIN M THEN M[t] ELSE NoTree
      tree == PruneDuplicateLeaves(candidate, acc.taken)
  IN [plan |-> Put(acc.plan, t, tree), taken |-> acc.taken \cup Terms(tree),
      seeded |-> acc.seeded \cup Seeds(tree),
      ids |-> IF made THEN [acc.ids EXCEPT !.nodes = @ + 1, !.terms = @ + 1] ELSE acc.ids]

PlanSeeds(tabs, trees, M, given) ==
  LET n == Len(tabs)
      turn(i) == tabs[IF i > n THEN i - n ELSE i]     \* first the natural owners, then the others
      plan[i \in 0 .. 2 * n] ==
        IF i = 0
        THEN [plan |-> <<>>, ids |-> given,
              taken |-> UNION {Terms(trees[t]) : t \in DOMAIN trees},
              seeded |-> UNION {Seeds(trees[t]) : t \in DOMAIN trees}
                         \cup UNION {Seeds(M[t]) : t \in DOMAIN M}]
        ELSE IF turn(i) \in DOMAIN trees \/ NaturalOwner(turn(i), M) # (i <= n) THEN plan[i - 1]
        ELSE PlanOne(M, plan[i - 1], turn(i))
  IN plan[2 * n]

(* One addTabTree for each.                                                *)
Installed(P, plan) ==
  [P EXCEPT !.trees = Over(plan, @), !.tree = IF P.current \in DOMAIN plan THEN plan[P.current] ELSE @]

(* The effects of TerminalContainer.  The trees they read are those of the  *)
(* render; the mirror they read is the one they have just written.  They    *)
(* run again when tabs or trees have changed, and not for the focus.       *)
MutCleaned(P, S, M) == P     \* the trees of closed tabs stay
Cleaned(P, S, M) == RemoveTabTrees(P, DOMAIN M \ Range(S.tabs))

Effects ==
  /\ due
  /\ LET S == strip
         one == IF S.active = NoTab THEN <<>> ELSE <<S.active>>
         p1 == PlanSeeds(one, panes.trees, mirror, ids)
         P1 == Installed(IF one = <<>> THEN panes ELSE SetActiveTabId(panes, S.active), p1.plan)
         M1 == Over(p1.plan, mirror)
         P2 == Cleaned(P1, S, M1)
         M2 == Restrict(M1, DOMAIN M1 \cap Range(S.tabs))
         p3 == PlanSeeds(S.tabs, panes.trees, M2, p1.ids)
         P3 == Installed(P2, p3.plan)
     IN /\ panes' = P3 /\ mirror' = Over(P3.trees, M2) /\ ids' = p3.ids
        /\ running' = running \cup (ids.terms + 1 .. p3.ids.terms)
        /\ due' = (P3.trees # panes.trees)
  /\ UNCHANGED <<strip, away, saved, stray>>

----
(* Handlers: what one task dispatches.  Do changes the tabs or the trees,   *)
(* and so lets the effects run again.                                      *)
Dispatched(S, P, M) == strip' = S /\ panes' = P /\ mirror' = Over(P.trees, M)
Do(S, P, M) == due' = TRUE /\ Dispatched(S, P, M)
Room(n, m) == ids.nodes + n + ids.terms + m <= MaxIds
Gives(n, m) == ids' = [ids EXCEPT !.nodes = @ + n, !.terms = @ + m]
Fresh(t) == t \in Tab \ ids.tabs
Open == Range(strip.tabs)
AtNode(k) == ids.nodes + k

(* openNewTabWithDefaultProfile: the effects seed its tree.                *)
NewTab(t) ==
  /\ Fresh(t) /\ Room(1, 1) /\ Do(AddTab(strip, t, TRUE), panes, mirror)
  /\ ids' = [ids EXCEPT !.tabs = @ \cup {t}]
  /\ UNCHANGED <<running, away, saved, stray>>

(* addTabRootedAt brings the tree of the tab along.                        *)
NewFolderTab(t) ==
  /\ Fresh(t) /\ Room(1, 1)
  /\ LET tree == Solo(AtNode(1), ids.terms + 1, t)
     IN Do(AddTab(strip, t, TRUE), AddTabTree(panes, t, tree), Put(mirror, t, tree))
  /\ ids' = [ids EXCEPT !.tabs = @ \cup {t}, !.nodes = @ + 1, !.terms = @ + 1]
  /\ running' = running \cup {ids.terms + 1} /\ UNCHANGED <<away, saved, stray>>

(* A terminal the API has created, shown or left in the background.        *)
Activated(P, t, activate) == IF activate THEN SetActiveTabId(P, t) ELSE P
ApiTab(t, activate) ==
  /\ Fresh(t) /\ Room(1, 1) /\ (strip.tabs = <<>> => activate)
  /\ LET tree == Solo(AtNode(1), ids.terms + 1, NoTab)
     IN Do(AddTab(strip, t, activate), Activated(AddTabTree(panes, t, tree), t, activate), Put(mirror, t, tree))
  /\ ids' = [ids EXCEPT !.tabs = @ \cup {t}, !.nodes = @ + 1, !.terms = @ + 1]
  /\ running' = running \cup {ids.terms + 1} /\ UNCHANGED <<away, saved, stray>>

(* A pane id that has become a split is found, and not split: the terminal  *)
(* runs and no pane shows it.                                              *)
ApiSplit(t, p) ==
  /\ t \in Open /\ p \in {0} \cup Nodes(Tree(panes, t))
  /\ LET made == IF Tree(panes, t) = NoTree THEN 1 ELSE IF p \in DOMAIN Tree(panes, t).kids THEN 0 ELSE 2
     IN /\ Room(made, 1) /\ Gives(made, 1)
        /\ stray' = IF made = 0 THEN stray \cup {ids.terms + 1} ELSE stray
        /\ due' = IF made = 0 THEN due ELSE TRUE
  /\ Dispatched(strip, SplitPaneInTab(panes, t, p, AtNode(2), AtNode(1), [term |-> ids.terms + 1, seed |-> NoTab]), mirror)
  /\ running' = running \cup {ids.terms + 1} /\ UNCHANGED <<away, saved>>

Select(t) ==
  /\ t \in Open /\ t # strip.active /\ Do(SetActiveTab(strip, t), panes, mirror)
  /\ UNCHANGED <<ids, running, away, saved, stray>>

Split(p, first) ==
  /\ Room(2, 1) /\ p \in DOMAIN panes.tree.leaf
  /\ Do(strip, SplitPane(panes, p, AtNode(1), AtNode(2), [term |-> ids.terms + 1, seed |-> NoTab], first), mirror)
  /\ Gives(2, 1) /\ running' = running \cup {ids.terms + 1} /\ UNCHANGED <<away, saved, stray>>

Focus(p) ==
  /\ p \in DOMAIN panes.tree.leaf /\ p # panes.active /\ Dispatched(strip, FocusPane(panes, p), mirror)
  /\ UNCHANGED <<due, ids, running, away, saved, stray>>

Maximize(p) ==
  /\ panes.current # NoTab /\ p \in DOMAIN panes.tree.leaf
  /\ Dispatched(strip, ToggleMaximizePane(panes, panes.current, p), mirror)
  /\ UNCHANGED <<due, ids, running, away, saved, stray>>

(* performClose of a pane: the tab may be left without one.                *)
ClosePane(t, p) ==
  /\ t \in Open /\ p \in DOMAIN Tree(panes, t).leaf
  /\ Do(strip, RemovePaneFromTab(panes, t, p), mirror)
  /\ running' = running \ {Tree(panes, t).leaf[p].term}
  /\ UNCHANGED <<ids, away, saved, stray>>

(* closeOneTab goes by the mirror.                                         *)
CloseTab(t) ==
  /\ t \in Open /\ Do(RemoveTab(strip, t), panes, mirror)
  /\ running' = running \ (IF t \in DOMAIN mirror THEN Terms(mirror[t]) ELSE {})
  /\ UNCHANGED <<ids, away, saved, stray>>

(* A pane dropped on a pane that is seen: commitDrop closes a tab it has    *)
(* emptied.                                                                *)
Drop(from, source, to, target, zone) ==
  /\ Room(1, 0) /\ {from, to} \subseteq Open /\ to = strip.active
  /\ source \in DOMAIN Tree(panes, from).leaf /\ target \in DOMAIN Tree(panes, to).leaf
  /\ source # target
  /\ IF from = to
     THEN Do(strip, MovePaneWithinTab(panes, to, source, target, zone, AtNode(1)), mirror)
     ELSE LET P == MovePaneToTab(panes, from, source, to, target, zone, AtNode(1))
          IN Do(IF Tree(P, from) = NoTree THEN RemoveTab(strip, from) ELSE strip, P, mirror)
  /\ Gives(1, 0) /\ UNCHANGED <<running, away, saved, stray>>

(* A terminal dropped on another group of the canvas: its tab stays.       *)
Regroup(from, p, to) ==
  /\ Room(1, 0) /\ {from, to} \subseteq Open /\ from # to /\ p \in DOMAIN Tree(panes, from).leaf
  /\ to \in DOMAIN panes.trees
  /\ LET u == Solo(p, Tree(panes, from).leaf[p].term, Tree(panes, from).leaf[p].seed)
     IN Do(strip, InsertPaneIntoTab(RemovePaneFromTab(panes, from, p), to, FirstLeafId(Tree(panes, to)),
                                    u, FALSE, AtNode(1)), mirror)
  /\ Gives(1, 0) /\ UNCHANGED <<running, away, saved, stray>>

(* Another window has taken panes of a tab (removeQualifiedSource): a tab   *)
(* they leave empty closes.                                                *)
Taken(t, P) ==
  IF Tree(P, t) = NoTree THEN Do(RemoveTab(strip, t), RemoveTabTree(P, t), mirror) ELSE Do(strip, P, mirror)
DetachPane(t, p) ==
  /\ t \in Open /\ away.tree = NoTree /\ p \in DOMAIN Tree(panes, t).leaf
  /\ \E fresh \in Tab \ ids.tabs :
       /\ away' = [tab |-> fresh, tree |-> Solo(p, Tree(panes, t).leaf[p].term, Tree(panes, t).leaf[p].seed)]
       /\ ids' = [ids EXCEPT !.tabs = @ \cup {fresh}]
  /\ Taken(t, RemovePaneFromTab(panes, t, p)) /\ running' = running \ {Tree(panes, t).leaf[p].term}
  /\ UNCHANGED <<saved, stray>>
DetachTab(t) ==
  /\ t \in Open /\ away.tree = NoTree /\ Tree(panes, t) # NoTree
  /\ away' = [tab |-> t, tree |-> Tree(panes, t)]
  /\ Taken(t, [panes EXCEPT !.trees[t] = NoTree])   \* pane by pane
  /\ running' = running \ Terms(Tree(panes, t))
  /\ UNCHANGED <<ids, saved, stray>>

(* It comes back as a tab (applyDetachPayload) or onto a pane              *)
(* (applyCrossWindowPayload).                                              *)
NoneAway == [tab |-> NoTab, tree |-> NoTree]
AttachTab ==
  /\ away # NoneAway /\ away.tab \notin Open /\ away' = NoneAway
  /\ Do(SetActiveTab(AddTab(strip, away.tab, TRUE), away.tab),
        SetActiveTabId(AddTabTree(panes, away.tab, away.tree), away.tab), mirror)
  /\ running' = running \cup Terms(away.tree) /\ UNCHANGED <<ids, saved, stray>>
AttachPane(t, target) ==
  /\ away # NoneAway /\ DOMAIN away.tree.kids = {} /\ away' = NoneAway /\ Room(1, 0)
  /\ t = strip.active /\ target \in DOMAIN Tree(panes, t).leaf
  /\ Do(SetActiveTab(strip, t),
        SetActiveTabId(InsertPaneIntoTab(panes, t, target, away.tree, FALSE, AtNode(1)), t), mirror)
  /\ Gives(1, 0) /\ running' = running \cup Terms(away.tree) /\ UNCHANGED <<saved, stray>>

(* saveState by its timer; after a restart, restoreState.  All windows go.  *)
SaveState ==
  /\ saved' = [strip |-> strip, mirror |-> mirror]
  /\ UNCHANGED <<strip, panes, mirror, due, ids, running, away, stray>>

NoPanes == [trees |-> <<>>, tree |-> NoTree, current |-> NoTab, active |-> 0, of |-> <<>>, max |-> <<>>]
NoStrip == [tabs |-> <<>>, active |-> NoTab]
Restart ==
  /\ strip' = saved.strip
  /\ panes' = [NoPanes EXCEPT !.trees = [t \in Range(saved.strip.tabs) \cap DOMAIN saved.mirror |-> saved.mirror[t]]]
  /\ running' = UNION {Terms(saved.mirror[t]) : t \in DOMAIN saved.mirror \cap Range(saved.strip.tabs)}
  /\ mirror' = saved.mirror /\ due' = TRUE /\ away' = NoneAway /\ stray' = {}
  /\ UNCHANGED <<ids, saved>>

----
NewTabs == \E t \in Tab : NewTab(t) \/ NewFolderTab(t) \/ \E activate \in BOOLEAN : ApiTab(t, activate)
Pick    == (\E t \in Tab : Select(t)) \/ \E p \in 1 .. ids.nodes : Focus(p) \/ Maximize(p)
Splits  == \E p \in 0 .. ids.nodes : (\E first \in BOOLEAN : Split(p, first)) \/ \E t \in Tab : ApiSplit(t, p)
Closes  == \E t \in Tab : CloseTab(t) \/ \E p \in 1 .. ids.nodes : ClosePane(t, p)
Moves   == \E from, to \in Open : \E p \in DOMAIN Tree(panes, from).leaf :
             \/ Regroup(from, p, to)
             \/ \E q \in DOMAIN Tree(panes, to).leaf, zone \in {"center", "first", "second"} : Drop(from, p, to, q, zone)
Windows == AttachTab \/ \E t \in Tab : DetachTab(t) \/ \E p \in 1 .. ids.nodes : DetachPane(t, p) \/ AttachPane(t, p)
(* A task runs when the effects of the last have.                          *)
Task    == ~due /\ (NewTabs \/ Pick \/ Splits \/ Closes \/ Moves \/ Windows \/ SaveState)
Next == Effects \/ Task \/ Restart

(* What is on disk at the start: nothing, or two tabs of which t was emptied *)
(* into u by a version that forgot the key of an emptied tab ("keyless"), or *)
(* that then gave t the same terminal again ("twice").                      *)
Into(t, u) == [root |-> 1, kids |-> [n \in {1} |-> <<2, 3>>],
               leaf |-> [p \in {2, 3} |-> IF p = 2 THEN [term |-> 1, seed |-> u] ELSE [term |-> 2, seed |-> t]]]
Earlier(k, t, u) ==
  CASE k = "none" -> [strip |-> NoStrip, mirror |-> <<>>]
    [] k = "keyless" -> [strip |-> [tabs |-> <<t, u>>, active |-> t], mirror |-> [x \in {u} |-> Into(t, u)]]
    [] k = "twice" -> [strip |-> [tabs |-> <<t, u>>, active |-> t],
                       mirror |-> [x \in {t, u} |-> IF x = u THEN Into(t, u) ELSE Solo(4, 2, t)]]
Given(k, t, u) ==
  IF k = "none" THEN [tabs |-> {}, nodes |-> 0, terms |-> 0]
  ELSE [tabs |-> {t, u}, nodes |-> IF k = "twice" THEN 4 ELSE 3, terms |-> 2]

Init ==
  /\ strip = NoStrip /\ panes = NoPanes /\ mirror = <<>> /\ due = FALSE /\ running = {} /\ away = NoneAway /\ stray = {}
  /\ \E k \in Saves, t, u \in Tab : t # u /\ saved = Earlier(k, t, u) /\ ids = Given(k, t, u)

Spec == Init /\ [][Next]_vars

----
(* A terminal is shown by one pane of one tab of one window, and a pane id  *)
(* names one node.                                                         *)
Trees == {panes.trees[t] : t \in DOMAIN panes.trees}
EachTerminalOnce ==
  /\ \A t, u \in DOMAIN panes.trees : t # u =>
       Terms(panes.trees[t]) \cap Terms(panes.trees[u]) = {} /\ Nodes(panes.trees[t]) \cap Nodes(panes.trees[u]) = {}
  /\ \A tree \in Trees : /\ Cardinality(Terms(tree)) = Cardinality(DOMAIN tree.leaf)
                         /\ Terms(tree) \cap Terms(away.tree) = {}

(* Once the effects have run, the two slices and the mirror agree: every    *)
(* open tab has a tree and no other has, the pane slice shows the tab the   *)
(* strip shows, keyboard focus is in a pane of it (but for the focus that   *)
(* a split which could not be made has moved), and what is maximized is     *)
(* there to be seen.                                                       *)
SettledView ==
  ~due => /\ DOMAIN panes.trees = Open /\ mirror = panes.trees
          /\ (strip.active = NoTab <=> Open = {})
          /\ (Open # {} => panes.current = strip.active /\ panes.tree = panes.trees[strip.active])
          /\ (panes.tree = NoTree <=> panes.active = 0)
          /\ (panes.tree # NoTree /\ stray = {} => panes.active \in DOMAIN panes.tree.leaf)
          /\ \A t \in DOMAIN panes.max : t \in Open /\ panes.max[t] \in DOMAIN panes.trees[t].leaf

(* No terminal is lost from sight while this window runs it: whatever is    *)
(* split, moved, regrouped, detached and closed, the terminals that run    *)
(* are those of the panes.                                                 *)
NoOrphan == ~due => running = stray \cup UNION {Terms(tree) : tree \in Trees}

(* A tab is given a terminal of its own once: one that was emptied into      *)
(* another is not taken for new, whatever an earlier version saved of it.   *)
SeededOnce ==
  \A t, u \in DOMAIN panes.trees : \A p \in DOMAIN panes.trees[t].leaf, q \in DOMAIN panes.trees[u].leaf :
    panes.trees[t].leaf[p].seed = panes.trees[u].leaf[q].seed /\ panes.trees[t].leaf[p].seed # NoTab => <<t, p>> = <<u, q>>

(* What tabTreeSeed says of itself (64-67, 175-186): a save that names a     *)
(* terminal twice is repaired on the next launch.                           *)
Repaired == ~due => EachTerminalOnce
====
