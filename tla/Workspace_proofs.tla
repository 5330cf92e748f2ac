---- MODULE Workspace_proofs ----
EXTENDS Workspace, FiniteSetTheorems, SequenceTheorems, WellFoundedInduction, TLAPS

----
(***************************************************************************)
(* A tree: every node but the root is below one place of one split, all    *)
(* are reached from the root, and no terminal or tab is at two leaves.      *)
(***************************************************************************)
TreeForm(t) ==
  /\ t = [root |-> t.root, kids |-> t.kids, leaf |-> t.leaf]
  /\ t.kids \in [DOMAIN t.kids -> [1 .. 2 -> Nodes(t)]]
  /\ t.leaf \in [DOMAIN t.leaf -> [term : Nat, seed : Tab \cup {NoTab}]]
  /\ DOMAIN t.kids \cap DOMAIN t.leaf = {}
  /\ Nodes(t) \subseteq Nat \ {0}
  /\ IF t.root = 0 THEN t = NoTree ELSE t.root \in Nodes(t)
OneParent(t) ==
  /\ \A n, m \in DOMAIN t.kids, i, j \in 1 .. 2 : t.kids[n][i] = t.kids[m][j] => n = m /\ i = j
  /\ \A n \in DOMAIN t.kids, i \in 1 .. 2 : t.kids[n][i] # t.root
Closed(t, S) == \A m \in S \cap DOMAIN t.kids, k \in 1 .. 2 : t.kids[m][k] \in S
Connected(t) == \A S \in SUBSET Nodes(t) : t.root \in S /\ Closed(t, S) => S = Nodes(t)
Distinct(t) ==
  /\ \A p, q \in DOMAIN t.leaf : t.leaf[p].term = t.leaf[q].term => p = q
  /\ \A p, q \in DOMAIN t.leaf : t.leaf[p].seed = t.leaf[q].seed /\ t.leaf[p].seed # NoTab => p = q
TreeOK(t) == TreeForm(t) /\ OneParent(t) /\ Connected(t) /\ Distinct(t)

LEMMA NoTreeOK == TreeOK(NoTree) /\ Nodes(NoTree) = {} /\ Terms(NoTree) = {} /\ Seeds(NoTree) = {}
<1> DEFINE t == NoTree
<1>1. t = [root |-> 0, kids |-> <<>>, leaf |-> <<>>]
  BY DEF NoTree
<1>2. DOMAIN t.kids = {} /\ DOMAIN t.leaf = {} /\ t.root = 0
  BY <1>1
<1>3. Nodes(t) = {} /\ Terms(t) = {} /\ Seeds(t) = {}
  BY <1>2 DEF Nodes, Terms, Seeds
<1>4. t.kids \in [DOMAIN t.kids -> [1 .. 2 -> Nodes(t)]]
  BY <1>1, <1>2, <1>3
<1>5. t.leaf \in [DOMAIN t.leaf -> [term : Nat, seed : Tab \cup {NoTab}]]
  BY <1>1, <1>2
<1>6. TreeForm(t)
  BY <1>1, <1>2, <1>3, <1>4, <1>5 DEF TreeForm
<1>7. OneParent(t) /\ Connected(t) /\ Distinct(t)
  BY <1>2, <1>3 DEF OneParent, Connected, Closed, Distinct
<1> QED BY <1>3, <1>6, <1>7 DEF TreeOK

LEMMA SoloOK ==
  ASSUME NEW p \in Nat \ {0}, NEW k \in Nat, NEW s \in Tab \cup {NoTab}
  PROVE  /\ TreeOK(Solo(p, k, s)) /\ Solo(p, k, s) # NoTree /\ Solo(p, k, s).root = p
         /\ DOMAIN Solo(p, k, s).kids = {} /\ DOMAIN Solo(p, k, s).leaf = {p}
         /\ Solo(p, k, s).leaf[p].term = k /\ Solo(p, k, s).leaf[p].seed = s
<1> DEFINE t == Solo(p, k, s)
<1>1. t = [root |-> p, kids |-> <<>>, leaf |-> [q \in {p} |-> [term |-> k, seed |-> s]]]
  BY DEF Solo
<1>2. DOMAIN t.kids = {} /\ DOMAIN t.leaf = {p} /\ t.root = p /\ t.leaf[p] = [term |-> k, seed |-> s]
  BY <1>1
<1>3. Nodes(t) = {p} /\ Terms(t) = {k} /\ Seeds(t) = {s} \ {NoTab}
  BY <1>2 DEF Nodes, Terms, Seeds
<1>4. t.kids \in [DOMAIN t.kids -> [1 .. 2 -> Nodes(t)]]
  BY <1>1, <1>2, <1>3
<1>5. t.leaf \in [DOMAIN t.leaf -> [term : Nat, seed : Tab \cup {NoTab}]]
  BY <1>1, <1>2
<1>6. TreeForm(t) /\ t # NoTree
  BY <1>1, <1>2, <1>3, <1>4, <1>5 DEF TreeForm, NoTree
<1>7. OneParent(t) /\ Connected(t) /\ Distinct(t)
  BY <1>2, <1>3 DEF OneParent, Connected, Closed, Distinct
<1> HIDE DEF t
<1> QED BY <1>2, <1>3, <1>6, <1>7 DEF TreeOK, t

LEMMA SoloHolds ==
  ASSUME NEW p, NEW k, NEW s
  PROVE  Nodes(Solo(p, k, s)) = {p} /\ Terms(Solo(p, k, s)) = {k} /\ Seeds(Solo(p, k, s)) = {s} \ {NoTab}
<1>1. DOMAIN Solo(p, k, s).kids = {} /\ DOMAIN Solo(p, k, s).leaf = {p}
      /\ Solo(p, k, s).leaf[p] = [term |-> k, seed |-> s]
  BY DEF Solo
<1> HIDE DEF Solo
<1> QED BY <1>1 DEF Nodes, Terms, Seeds

(* A tree that shows something has its root among its nodes.               *)
LEMMA RootIn ==
  ASSUME NEW t, TreeOK(t)
  PROVE  /\ t # NoTree <=> t.root \in Nodes(t)
         /\ t # NoTree <=> Nodes(t) # {}
         /\ 0 \notin Nodes(t)
<1>1. t.root # 0 => t.root \in Nodes(t) /\ t # NoTree
  BY DEF TreeOK, TreeForm, NoTree
<1>2. t.root = 0 => t = NoTree
  BY DEF TreeOK, TreeForm
<1>3. 0 \notin Nodes(t)
  BY DEF TreeOK, TreeForm
<1> QED BY <1>1, <1>2, <1>3, NoTreeOK

LEMMA HasParent ==
  ASSUME NEW t, TreeOK(t), NEW q \in Nodes(t), q # t.root
  PROVE  \E m \in DOMAIN t.kids, k \in 1 .. 2 : t.kids[m][k] = q
<1> SUFFICES ASSUME \A m \in DOMAIN t.kids, k \in 1 .. 2 : t.kids[m][k] # q PROVE FALSE
  OBVIOUS
<1> DEFINE S == Nodes(t) \ {q}
<1>1. t.root \in S
  BY RootIn, NoTreeOK
<1>2. \A m \in DOMAIN t.kids, k \in 1 .. 2 : t.kids[m][k] \in Nodes(t)
  BY DEF TreeOK, TreeForm
<1>3. Closed(t, S)
  BY <1>2 DEF Closed
<1> QED BY <1>1, <1>3 DEF TreeOK, Connected

LEMMA NotItsOwn ==
  ASSUME NEW t, TreeOK(t), NEW n \in DOMAIN t.kids, NEW i \in 1 .. 2
  PROVE  t.kids[n][i] # n
<1> SUFFICES ASSUME t.kids[n][i] = n PROVE FALSE
  OBVIOUS
<1> DEFINE S == Nodes(t) \ {n}
<1>1. n \in Nodes(t) /\ t.root # n
  BY DEF Nodes, TreeOK, OneParent
<1>2. t.root \in S
  BY <1>1, RootIn, NoTreeOK
<1>3. \A m \in DOMAIN t.kids, k \in 1 .. 2 : t.kids[m][k] \in Nodes(t) /\ (t.kids[m][k] = n => m = n)
  BY DEF TreeOK, TreeForm, OneParent
<1>4. Closed(t, S)
  BY <1>3 DEF Closed
<1> QED BY <1>1, <1>2, <1>4 DEF TreeOK, Connected

(* A root that is a leaf is the whole tree.                                *)
LEMMA RootLeaf ==
  ASSUME NEW t, TreeOK(t), t.root \in DOMAIN t.leaf
  PROVE  Nodes(t) = {t.root} /\ DOMAIN t.leaf = {t.root} /\ DOMAIN t.kids = {}
<1>1. t.root \in Nodes(t) /\ t.root \notin DOMAIN t.kids
  BY DEF Nodes, TreeOK, TreeForm
<1>2. Closed(t, {t.root})
  BY <1>1 DEF Closed
<1>3. Nodes(t) = {t.root}
  BY <1>1, <1>2 DEF TreeOK, Connected
<1> QED BY <1>1, <1>3 DEF Nodes

LEMMA BelowLeaf ==
  ASSUME NEW t, TreeOK(t), NEW p \in DOMAIN t.leaf
  PROVE  Below(t, p) = {p}
<1>1. p \in Nodes(t) /\ p \notin DOMAIN t.kids
  BY DEF Nodes, TreeOK, TreeForm
<1>2. Below(t, p) \subseteq {p}
  <2>1. {p} \in SUBSET Nodes(t) /\ (\A m \in {p} \cap DOMAIN t.kids, k \in {1, 2} : t.kids[m][k] \in {p})
    BY <1>1
  <2> QED BY <2>1 DEF Below, Reached
<1>3. p \in Below(t, p)
  BY <1>1 DEF Below, Reached
<1> QED BY <1>2, <1>3

(* Two nodes below a split.                                                *)
Other(t, s, p) == IF t.kids[s][1] = p THEN t.kids[s][2] ELSE t.kids[s][1]

LEMMA SplitAbove ==
  ASSUME NEW t, TreeOK(t), NEW p \in Nodes(t), p # t.root
  PROVE  \E s \in DOMAIN t.kids :
           /\ (CHOOSE n \in DOMAIN t.kids : p \in Range(t.kids[n])) = s
           /\ Other(t, s, p) \in Nodes(t) \ {p, s}
           /\ Other(t, s, p) # t.root
           /\ \A m \in DOMAIN t.kids, k \in 1 .. 2 : t.kids[m][k] \in {p, Other(t, s, p)} <=> m = s
           /\ \A k \in 1 .. 2 : t.kids[s][k] # s
<1>1. \A n \in DOMAIN t.kids : DOMAIN t.kids[n] = 1 .. 2 /\ t.kids[n][1] \in Nodes(t) /\ t.kids[n][2] \in Nodes(t)
  BY DEF TreeOK, TreeForm
<1>2. PICK s \in DOMAIN t.kids, k \in 1 .. 2 : t.kids[s][k] = p
  BY HasParent
<1>3. \A n \in DOMAIN t.kids : p \in Range(t.kids[n]) <=> n = s
  BY <1>1, <1>2 DEF Range, TreeOK, OneParent
<1>4. (CHOOSE n \in DOMAIN t.kids : p \in Range(t.kids[n])) = s
  BY <1>3
<1>5. \A j \in 1 .. 2 : t.kids[s][j] # s /\ t.kids[s][j] # t.root
  BY NotItsOwn DEF TreeOK, OneParent
<1>6. \A n, m \in DOMAIN t.kids, i, j \in 1 .. 2 : t.kids[n][i] = t.kids[m][j] => n = m /\ i = j
  BY DEF TreeOK, OneParent
<1>7. CASE t.kids[s][1] = p
  <2>1. Other(t, s, p) = t.kids[s][2]
    BY <1>7 DEF Other
  <2>2. t.kids[s][2] # p
    BY <1>6, <1>7
  <2> QED BY <1>1, <1>4, <1>5, <1>6, <1>7, <2>1, <2>2
<1>8. CASE t.kids[s][2] = p
  <2>2. t.kids[s][1] # p
    BY <1>6, <1>8
  <2>1. Other(t, s, p) = t.kids[s][1]
    BY <2>2 DEF Other
  <2> QED BY <1>1, <1>4, <1>5, <1>6, <1>8, <2>1, <2>2
<1> QED BY <1>2, <1>7, <1>8

(* A leaf goes and its sibling takes the place of the split: the rest      *)
(* stays.                                                                  *)
LEMMA RemoveLeafOK ==
  ASSUME NEW t, TreeOK(t), NEW p \in DOMAIN t.leaf
  PROVE  LET r == RemoveLeaf(t, p) IN
         /\ TreeOK(r) /\ Nodes(r) \subseteq Nodes(t) \ {p} /\ DOMAIN r.kids \subseteq DOMAIN t.kids
         /\ DOMAIN r.leaf = DOMAIN t.leaf \ {p} /\ \A q \in DOMAIN r.leaf : r.leaf[q] = t.leaf[q]
<1> DEFINE r == RemoveLeaf(t, p)
<1>1. p \in Nodes(t) /\ p \notin DOMAIN t.kids /\ DOMAIN t.kids \cap DOMAIN t.leaf = {}
  BY DEF Nodes, TreeOK, TreeForm
<1>2. CASE p = t.root
  <2>1. r = NoTree
    BY <1>1, <1>2 DEF RemoveLeaf
  <2>2. DOMAIN t.leaf = {p}
    BY <1>2, RootLeaf
  <2>3. DOMAIN r.leaf = {} /\ DOMAIN r.kids = {}
    BY <2>1 DEF NoTree
  <2> QED BY <2>1, <2>2, <2>3, NoTreeOK
<1>3. CASE p # t.root
  <2>1. PICK s \in DOMAIN t.kids :
           /\ (CHOOSE n \in DOMAIN t.kids : p \in Range(t.kids[n])) = s
           /\ Other(t, s, p) \in Nodes(t) \ {p, s}
           /\ Other(t, s, p) # t.root
           /\ \A m \in DOMAIN t.kids, k \in 1 .. 2 : t.kids[m][k] \in {p, Other(t, s, p)} <=> m = s
           /\ \A k \in 1 .. 2 : t.kids[s][k] # s
    BY <1>1, <1>3, SplitAbove
  <2> DEFINE o == Other(t, s, p)
  <2>2. Below(t, p) \cup {s} = {p, s}
    BY BelowLeaf
  <2>3. r = [root |-> IF t.root = s THEN o ELSE t.root,
             kids |-> Replaced(t.kids, DOMAIN t.kids \ {p, s}, s, o),
             leaf |-> Restrict(t.leaf, DOMAIN t.leaf \ {p, s})]
    <3> DEFINE c == CHOOSE n \in DOMAIN t.kids : p \in Range(t.kids[n])
    <3>1. r = [root |-> IF t.root = c THEN Other(t, c, p) ELSE t.root,
               kids |-> Replaced(t.kids, DOMAIN t.kids \ (Below(t, p) \cup {c}), c, Other(t, c, p)),
               leaf |-> Restrict(t.leaf, DOMAIN t.leaf \ (Below(t, p) \cup {c}))]
      BY <1>1, <1>3 DEF RemoveLeaf, Other
    <3>2. c = s
      BY <2>1
    <3> HIDE DEF c, r
    <3> QED BY <2>2, <3>1, <3>2
  <2> HIDE DEF r, o
  <2>4. /\ DOMAIN r.kids = DOMAIN t.kids \ {s}
        /\ \A n \in DOMAIN r.kids, k \in 1 .. 2 :
             r.kids[n][k] = IF t.kids[n][k] = s THEN o ELSE t.kids[n][k]
        /\ DOMAIN r.leaf = DOMAIN t.leaf \ {p} /\ \A q \in DOMAIN r.leaf : r.leaf[q] = t.leaf[q]
    BY <1>1, <2>1, <2>3 DEF Replaced, Restrict
  <2>5. Nodes(r) = Nodes(t) \ {p, s}
    BY <1>1, <2>4 DEF Nodes
  <2>6. \A n \in DOMAIN t.kids, k \in 1 .. 2 : t.kids[n][k] \in Nodes(t)
    BY DEF TreeOK, TreeForm
  <2>7. r.root = IF t.root = s THEN o ELSE t.root
    BY <2>3
  <2>8. o \in Nodes(t) \ {p, s} /\ o # t.root
    BY <2>1 DEF o
  <2>9. \A m \in DOMAIN t.kids, k \in 1 .. 2 : (t.kids[m][k] = p \/ t.kids[m][k] = o) <=> m = s
    BY <2>1 DEF o
  <2>10. TreeForm(r)
    <3>1. r = [root |-> r.root, kids |-> r.kids, leaf |-> r.leaf]
      BY <2>3
    <3>2. r.kids \in [DOMAIN r.kids -> [1 .. 2 -> Nodes(r)]]
      <4>1. \A n \in DOMAIN r.kids, k \in 1 .. 2 : (IF t.kids[n][k] = s THEN o ELSE t.kids[n][k]) \in Nodes(r)
        BY <2>4, <2>5, <2>6, <2>8, <2>9
      <4>2. r.kids = [n \in DOMAIN r.kids |-> [k \in 1 .. 2 |-> IF t.kids[n][k] = s THEN o ELSE t.kids[n][k]]]
        BY <2>3 DEF Replaced
      <4> QED BY <4>1, <4>2
    <3>3. r.leaf \in [DOMAIN r.leaf -> [term : Nat, seed : Tab \cup {NoTab}]]
      <4>1. t.leaf \in [DOMAIN t.leaf -> [term : Nat, seed : Tab \cup {NoTab}]]
        BY DEF TreeOK, TreeForm
      <4>2. r.leaf = [q \in DOMAIN t.leaf \ {p, s} |-> t.leaf[q]]
        BY <2>3 DEF Restrict
      <4> QED BY <4>1, <4>2
    <3>4. DOMAIN r.kids \cap DOMAIN r.leaf = {}
      BY <1>1, <2>4
    <3>5. Nodes(r) \subseteq Nat \ {0} /\ r.root \in Nodes(r) /\ r.root # 0
      <4>1. t.root \in Nodes(t) /\ Nodes(t) \subseteq Nat \ {0}
        BY <1>1, RootIn, NoTreeOK DEF TreeOK, TreeForm
      <4> QED BY <1>3, <2>5, <2>7, <2>8, <4>1
    <3> QED BY <3>1, <3>2, <3>3, <3>4, <3>5 DEF TreeForm
  <2>11. OneParent(r)
    <3>1. \A n, m \in DOMAIN t.kids, i, j \in 1 .. 2 : t.kids[n][i] = t.kids[m][j] => n = m /\ i = j
      BY DEF TreeOK, OneParent
    <3>2. \A n \in DOMAIN t.kids, i \in 1 .. 2 : t.kids[n][i] # t.root
      BY DEF TreeOK, OneParent
    <3>3. ASSUME NEW n \in DOMAIN r.kids, NEW m \in DOMAIN r.kids, NEW i \in 1 .. 2, NEW j \in 1 .. 2,
                 r.kids[n][i] = r.kids[m][j]
          PROVE  n = m /\ i = j
      <4>1. t.kids[n][i] # o /\ t.kids[m][j] # o /\ n \in DOMAIN t.kids /\ m \in DOMAIN t.kids
        BY <2>4, <2>9
      <4>2. t.kids[n][i] = t.kids[m][j]
        BY <2>4, <3>3, <4>1
      <4> QED BY <3>1, <4>1, <4>2
    <3>4. ASSUME NEW n \in DOMAIN r.kids, NEW i \in 1 .. 2 PROVE r.kids[n][i] # r.root
      BY <2>4, <2>7, <2>8, <2>9, <3>2
    <3> QED BY <3>3, <3>4 DEF OneParent
  <2>12. Connected(r)
    <3> SUFFICES ASSUME NEW S \in SUBSET Nodes(r), r.root \in S, Closed(r, S) PROVE S = Nodes(r)
      BY DEF Connected
    <3> DEFINE U == IF o \in S THEN S \cup {p, s} ELSE S
    <3>1. U \in SUBSET Nodes(t) /\ t.root \in U
      BY <1>1, <2>1, <2>5, <2>7 DEF Nodes
    <3>2. \A m \in S \cap DOMAIN t.kids, k \in 1 .. 2 :
            m # s => IF t.kids[m][k] = s THEN o \in S ELSE t.kids[m][k] \in S
      BY <2>4 DEF Closed
    <3>3. Closed(t, U)
      <4> SUFFICES ASSUME NEW m \in U \cap DOMAIN t.kids, NEW k \in 1 .. 2 PROVE t.kids[m][k] \in U
        BY DEF Closed
      <4>1. CASE m = s
        <5>1. t.kids[m][k] \in {p, o}
          BY <2>1, <4>1 DEF o
        <5>2. s \notin S
          BY <2>5
        <5> QED BY <4>1, <5>1, <5>2
      <4>2. CASE m # s
        <5>1. m \in S
          BY <1>1, <4>2
        <5> QED BY <3>2, <4>2, <5>1
      <4> QED BY <4>1, <4>2
    <3>4. U = Nodes(t)
      BY <3>1, <3>3 DEF TreeOK, Connected
    <3>5. s \in U
      BY <3>4 DEF Nodes
    <3> QED BY <2>5, <3>4, <3>5
  <2>13. Distinct(r)
    BY <2>4 DEF TreeOK, Distinct
  <2> QED BY <2>4, <2>5, <2>10, <2>11, <2>12, <2>13 DEF TreeOK, r
<1> QED BY <1>2, <1>3

(* No node, terminal or tab of one tree is in another.                     *)
Apart(a, b) ==
  Nodes(a) \cap Nodes(b) = {} /\ Terms(a) \cap Terms(b) = {} /\ Seeds(a) \cap Seeds(b) = {}

(* What the leaves show, said of the leaves.                               *)
LEMMA Contents ==
  ASSUME NEW t
  PROVE  /\ \A k : k \in Terms(t) <=> \E p \in DOMAIN t.leaf : t.leaf[p].term = k
         /\ \A x : x \in Seeds(t) <=> x # NoTab /\ \E p \in DOMAIN t.leaf : t.leaf[p].seed = x
BY DEF Terms, Seeds

LEMMA OneLeaf ==
  ASSUME NEW u, TreeOK(u), u # NoTree, DOMAIN u.kids = {}
  PROVE  Nodes(u) = {u.root} /\ DOMAIN u.leaf = {u.root} /\ u.root \in Nat \ {0}
<1>1. u.root \in Nodes(u)
  BY RootIn
<1>2. u.root \in DOMAIN u.leaf /\ u.root \in Nat \ {0}
  BY <1>1 DEF Nodes, TreeOK, TreeForm
<1> QED BY <1>2, RootLeaf

(* A leaf is put beside a pane, under a split of its own.                  *)
LEMMA InsertOK ==
  ASSUME NEW t, TreeOK(t), NEW target \in DOMAIN t.leaf, NEW first \in BOOLEAN,
         NEW u, TreeOK(u), u # NoTree, DOMAIN u.kids = {}, Apart(t, u),
         NEW n \in Nat \ {0}, n \notin Nodes(t) \cup Nodes(u)
  PROVE  LET r == InsertByZone(t, target, u, first, n) IN
         /\ TreeOK(r) /\ r # NoTree /\ Nodes(r) = Nodes(t) \cup Nodes(u) \cup {n}
         /\ Terms(r) = Terms(t) \cup Terms(u) /\ Seeds(r) = Seeds(t) \cup Seeds(u)
         /\ DOMAIN r.kids = DOMAIN t.kids \cup {n} /\ DOMAIN r.leaf = DOMAIN t.leaf \cup DOMAIN u.leaf
<1> DEFINE r == InsertByZone(t, target, u, first, n)
           q == u.root
<1>1. /\ target \in Nodes(t) /\ target \notin DOMAIN t.kids /\ DOMAIN t.kids \cap DOMAIN t.leaf = {}
      /\ Nodes(t) \subseteq Nat \ {0} /\ t.root \in Nodes(t)
  BY RootIn, NoTreeOK DEF Nodes, TreeOK, TreeForm
<1>2. DOMAIN u.leaf = {q} /\ Nodes(u) = {q} /\ q \in Nat \ {0} /\ q \notin Nodes(t) /\ q # n
  BY OneLeaf DEF Apart
<1>3. r = [root |-> IF t.root = target THEN n ELSE t.root,
           kids |-> Put(Over(u.kids, Replaced(t.kids, DOMAIN t.kids, target, n)), n,
                        IF first THEN <<q, target>> ELSE <<target, q>>),
           leaf |-> Over(u.leaf, t.leaf)]
  BY <1>1 DEF InsertByZone
<1> HIDE DEF r, q
<1>4. DOMAIN r.kids = DOMAIN t.kids \cup {n} /\ DOMAIN r.leaf = DOMAIN t.leaf \cup {q}
  BY <1>2, <1>3 DEF Put, Over, Replaced
<1>5. Nodes(r) = Nodes(t) \cup {q, n} /\ n \notin DOMAIN t.kids /\ q \notin DOMAIN t.kids /\ q \notin DOMAIN t.leaf
  BY <1>2, <1>4 DEF Nodes
<1>6. \A m \in DOMAIN t.kids : r.kids[m] = [k \in 1 .. 2 |-> IF t.kids[m][k] = target THEN n ELSE t.kids[m][k]]
  BY <1>3, <1>5 DEF Put, Over, Replaced
<1>7. r.kids[n] = IF first THEN <<q, target>> ELSE <<target, q>>
  BY <1>3 DEF Put
<1>8. r.leaf[q] = u.leaf[q] /\ \A p \in DOMAIN t.leaf : r.leaf[p] = t.leaf[p]
  BY <1>2, <1>3, <1>5 DEF Over
<1>9. \A m \in DOMAIN t.kids, k \in 1 .. 2 : t.kids[m][k] \in Nodes(t) /\ t.kids[m][k] # t.root
  BY DEF TreeOK, TreeForm, OneParent
<1>10. r.root = IF t.root = target THEN n ELSE t.root
  BY <1>3
<1>11. TreeForm(r)
  <2>1. r = [root |-> r.root, kids |-> r.kids, leaf |-> r.leaf]
    BY <1>3
  <2>2. \A m \in DOMAIN r.kids : r.kids[m] \in [1 .. 2 -> Nodes(r)]
    <3>1. r.kids[n] \in [1 .. 2 -> Nodes(r)]
      BY <1>1, <1>5, <1>7
    <3>2. ASSUME NEW m \in DOMAIN t.kids PROVE r.kids[m] \in [1 .. 2 -> Nodes(r)]
      <4>1. \A k \in 1 .. 2 : (IF t.kids[m][k] = target THEN n ELSE t.kids[m][k]) \in Nodes(r)
        BY <1>5, <1>9
      <4> QED BY <1>6, <4>1
    <3> QED BY <1>4, <3>1, <3>2
  <2>3. r.kids = [m \in DOMAIN r.kids |-> r.kids[m]]
    BY <1>3 DEF Put
  <2>4. r.leaf \in [DOMAIN r.leaf -> [term : Nat, seed : Tab \cup {NoTab}]]
    <3>1. \A p \in DOMAIN t.leaf : t.leaf[p] \in [term : Nat, seed : Tab \cup {NoTab}]
      BY DEF TreeOK, TreeForm
    <3>2. u.leaf[q] \in [term : Nat, seed : Tab \cup {NoTab}]
      BY <1>2 DEF TreeOK, TreeForm
    <3>3. r.leaf = [p \in DOMAIN r.leaf |-> r.leaf[p]]
      BY <1>3 DEF Over
    <3> QED BY <1>4, <1>8, <3>1, <3>2, <3>3
  <2>5. DOMAIN r.kids \cap DOMAIN r.leaf = {}
    BY <1>1, <1>2, <1>4, <1>5 DEF Nodes
  <2>6. Nodes(r) \subseteq Nat \ {0} /\ r.root \in Nodes(r) /\ r.root # 0
    BY <1>1, <1>2, <1>5, <1>10
  <2> QED BY <2>1, <2>2, <2>3, <2>4, <2>5, <2>6 DEF TreeForm
<1>12. OneParent(r)
  <2>1. \A x, y \in DOMAIN t.kids, i, j \in 1 .. 2 : t.kids[x][i] = t.kids[y][j] => x = y /\ i = j
    BY DEF TreeOK, OneParent
  <2>2. \A k \in 1 .. 2 : r.kids[n][k] \in {q, target}
    BY <1>7
  <2>3. r.kids[n][1] # r.kids[n][2]
    BY <1>1, <1>2, <1>7
  <2>4. \A x \in DOMAIN t.kids, k \in 1 .. 2 :
          /\ r.kids[x][k] = IF t.kids[x][k] = target THEN n ELSE t.kids[x][k]
          /\ r.kids[x][k] \notin {q, target}
    <3>1. \A x \in DOMAIN t.kids, k \in 1 .. 2 : r.kids[x][k] = IF t.kids[x][k] = target THEN n ELSE t.kids[x][k]
      BY <1>6
    <3> QED BY <3>1, <1>1, <1>2, <1>9
  <2>5. ASSUME NEW x \in DOMAIN r.kids, NEW y \in DOMAIN r.kids, NEW i \in 1 .. 2, NEW j \in 1 .. 2,
               r.kids[x][i] = r.kids[y][j]
        PROVE  x = y /\ i = j
    <3>1. CASE x = n /\ y = n
      BY <2>3, <2>5, <3>1
    <3>2. CASE x = n /\ y # n
      BY <1>4, <2>2, <2>4, <2>5, <3>2
    <3>3. CASE x # n /\ y = n
      BY <1>4, <2>2, <2>4, <2>5, <3>3
    <3>4. CASE x # n /\ y # n
      <4>1. x \in DOMAIN t.kids /\ y \in DOMAIN t.kids
        BY <1>4, <3>4
      <4>2. t.kids[x][i] # n /\ t.kids[y][j] # n
        BY <1>9, <4>1
      <4>3. t.kids[x][i] = t.kids[y][j]
        BY <2>4, <2>5, <4>1, <4>2
      <4> QED BY <2>1, <4>1, <4>3
    <3> QED BY <3>1, <3>2, <3>3, <3>4
  <2>6. ASSUME NEW x \in DOMAIN r.kids, NEW i \in 1 .. 2 PROVE r.kids[x][i] # r.root
    <3>1. CASE x = n
      BY <1>1, <1>2, <1>10, <2>2, <3>1
    <3>2. CASE x # n
      <4>1. x \in DOMAIN t.kids
        BY <1>4, <3>2
      <4> QED BY <1>1, <1>9, <1>10, <2>4, <4>1
    <3> QED BY <3>1, <3>2
  <2> QED BY <2>5, <2>6 DEF OneParent
<1>13. Connected(r)
  <2> SUFFICES ASSUME NEW S \in SUBSET Nodes(r), r.root \in S, Closed(r, S) PROVE S = Nodes(r)
    BY DEF Connected
  <2> DEFINE U == S \ {n, q}
  <2>1. n \in S => target \in S /\ q \in S
    <3>1. \A k \in 1 .. 2 : n \in S => r.kids[n][k] \in S
      BY <1>4 DEF Closed
    <3> QED BY <3>1, <1>7
  <2>2. \A m \in S \cap DOMAIN t.kids, k \in 1 .. 2 : (IF t.kids[m][k] = target THEN n ELSE t.kids[m][k]) \in S
    <3>1. \A m \in DOMAIN t.kids, k \in 1 .. 2 : r.kids[m][k] = IF t.kids[m][k] = target THEN n ELSE t.kids[m][k]
      BY <1>6
    <3> QED BY <3>1, <1>4 DEF Closed
  <2>3. t.root \in U
    BY <1>1, <1>2, <1>10, <2>1
  <2>4. Closed(t, U)
    <3> SUFFICES ASSUME NEW m \in U \cap DOMAIN t.kids, NEW k \in 1 .. 2 PROVE t.kids[m][k] \in U
      BY DEF Closed
    <3>1. t.kids[m][k] # n /\ t.kids[m][k] # q
      BY <1>2, <1>9
    <3>2. t.kids[m][k] \in S
      BY <2>1, <2>2
    <3> QED BY <3>1, <3>2
  <2>5. U = Nodes(t)
    BY <1>5, <2>3, <2>4 DEF TreeOK, Connected
  <2>6. n \in S
    <3>1. CASE target = t.root
      BY <1>10, <3>1
    <3>2. CASE target # t.root
      <4>1. PICK m \in DOMAIN t.kids, k \in 1 .. 2 : t.kids[m][k] = target
        BY <1>1, <3>2, HasParent
      <4>2. m \in S
        BY <2>5 DEF Nodes
      <4> QED BY <2>2, <4>1, <4>2
    <3> QED BY <3>1, <3>2
  <2> QED BY <1>5, <2>1, <2>5, <2>6
<1>14. Distinct(r)
  <2>1. \A p, x \in DOMAIN t.leaf : /\ t.leaf[p].term = t.leaf[x].term => p = x
                                    /\ t.leaf[p].seed = t.leaf[x].seed /\ t.leaf[p].seed # NoTab => p = x
    BY DEF TreeOK, Distinct
  <2>2. \A p \in DOMAIN t.leaf : /\ t.leaf[p].term # u.leaf[q].term
                                 /\ t.leaf[p].seed = u.leaf[q].seed => u.leaf[q].seed = NoTab
    BY <1>2, Contents DEF Apart
  <2> QED BY <1>4, <1>8, <2>1, <2>2 DEF Distinct
<1>15. Terms(r) = Terms(t) \cup Terms(u) /\ Seeds(r) = Seeds(t) \cup Seeds(u)
  BY <1>2, <1>4, <1>8 DEF Terms, Seeds
<1>16. r # NoTree
  BY <1>4, NoTreeOK DEF Nodes
<1> QED BY <1>2, <1>4, <1>5, <1>11, <1>12, <1>13, <1>14, <1>15, <1>16 DEF TreeOK, r

(* A leaf becomes a split over its terminal and a new one.                  *)
LEMMA SplitLeafOK ==
  ASSUME NEW t, TreeOK(t), NEW p \in DOMAIN t.leaf, NEW first \in BOOLEAN,
         NEW a \in Nat \ {0}, NEW b \in Nat \ {0}, a # b, a \notin Nodes(t), b \notin Nodes(t),
         NEW k \in Nat, k \notin Terms(t)
  PROVE  LET r == SplitLeafInTree(t, p, a, b, [term |-> k, seed |-> NoTab], first) IN
         /\ TreeOK(r) /\ r # NoTree /\ Nodes(r) = Nodes(t) \cup {a, b}
         /\ Terms(r) = Terms(t) \cup {k} /\ Seeds(r) = Seeds(t)
         /\ DOMAIN r.kids = DOMAIN t.kids \cup {p} /\ DOMAIN r.leaf = (DOMAIN t.leaf \ {p}) \cup {a, b}
<1> DEFINE r == SplitLeafInTree(t, p, a, b, [term |-> k, seed |-> NoTab], first)
<1>1. /\ p \in Nodes(t) /\ p \notin DOMAIN t.kids /\ DOMAIN t.kids \cap DOMAIN t.leaf = {}
      /\ Nodes(t) \subseteq Nat \ {0} /\ t.root \in Nodes(t) /\ p # a /\ p # b
  BY RootIn, NoTreeOK DEF Nodes, TreeOK, TreeForm
<1>2. r = [root |-> t.root,
           kids |-> Put(t.kids, p, IF first THEN <<b, a>> ELSE <<a, b>>),
           leaf |-> Put(Put(Without(t.leaf, p), b, [term |-> k, seed |-> NoTab]), a, t.leaf[p])]
  BY DEF SplitLeafInTree
<1> HIDE DEF r
<1>3. DOMAIN r.kids = DOMAIN t.kids \cup {p} /\ DOMAIN r.leaf = (DOMAIN t.leaf \ {p}) \cup {a, b} /\ r.root = t.root
  BY <1>2 DEF Put, Without, Restrict
<1>4. Nodes(r) = Nodes(t) \cup {a, b} /\ a \notin DOMAIN t.kids /\ b \notin DOMAIN t.kids
                                      /\ a \notin DOMAIN t.leaf /\ b \notin DOMAIN t.leaf
  BY <1>1, <1>3 DEF Nodes
<1>5. (\A m \in DOMAIN t.kids : r.kids[m] = t.kids[m]) /\ r.kids[p] = IF first THEN <<b, a>> ELSE <<a, b>>
  BY <1>1, <1>2 DEF Put
<1>6. /\ r.leaf[a] = t.leaf[p] /\ r.leaf[b] = [term |-> k, seed |-> NoTab]
      /\ \A x \in DOMAIN t.leaf \ {p} : r.leaf[x] = t.leaf[x]
  BY <1>2, <1>4 DEF Put, Without, Restrict
<1>7. \A m \in DOMAIN t.kids, i \in 1 .. 2 : t.kids[m][i] \in Nodes(t) /\ t.kids[m][i] # t.root
  BY DEF TreeOK, TreeForm, OneParent
<1>8. TreeForm(r)
  <2>1. r = [root |-> r.root, kids |-> r.kids, leaf |-> r.leaf]
    BY <1>2
  <2>2. \A m \in DOMAIN r.kids : r.kids[m] \in [1 .. 2 -> Nodes(r)]
    <3>1. r.kids[p] \in [1 .. 2 -> Nodes(r)]
      BY <1>4, <1>5
    <3>2. ASSUME NEW m \in DOMAIN t.kids PROVE r.kids[m] \in [1 .. 2 -> Nodes(r)]
      <4>1. t.kids[m] \in [1 .. 2 -> Nodes(t)]
        BY DEF TreeOK, TreeForm
      <4> QED BY <1>4, <1>5, <4>1
    <3> QED BY <1>3, <3>1, <3>2
  <2>3. r.kids = [m \in DOMAIN r.kids |-> r.kids[m]]
    BY <1>2 DEF Put
  <2>4. r.leaf \in [DOMAIN r.leaf -> [term : Nat, seed : Tab \cup {NoTab}]]
    <3>1. \A x \in DOMAIN t.leaf : t.leaf[x] \in [term : Nat, seed : Tab \cup {NoTab}]
      BY DEF TreeOK, TreeForm
    <3>2. r.leaf = [x \in DOMAIN r.leaf |-> r.leaf[x]]
      BY <1>2 DEF Put
    <3>3. r.leaf[a] \in [term : Nat, seed : Tab \cup {NoTab}] /\ r.leaf[b] \in [term : Nat, seed : Tab \cup {NoTab}]
      BY <1>6, <3>1
    <3>4. \A x \in DOMAIN r.leaf : r.leaf[x] \in [term : Nat, seed : Tab \cup {NoTab}]
      BY <1>3, <1>6, <3>1, <3>3
    <3> QED BY <3>2, <3>4
  <2>5. DOMAIN r.kids \cap DOMAIN r.leaf = {}
    BY <1>1, <1>3, <1>4
  <2> QED BY <1>1, <1>3, <1>4, <2>1, <2>2, <2>3, <2>4, <2>5 DEF TreeForm
<1>9. OneParent(r)
  <2>1. \A x, y \in DOMAIN t.kids, i, j \in 1 .. 2 : t.kids[x][i] = t.kids[y][j] => x = y /\ i = j
    BY DEF TreeOK, OneParent
  <2>2. (\A i \in 1 .. 2 : r.kids[p][i] \in {a, b}) /\ r.kids[p][1] # r.kids[p][2]
    BY <1>5
  <2>3. \A x \in DOMAIN t.kids, i \in 1 .. 2 : r.kids[x][i] = t.kids[x][i] /\ r.kids[x][i] \notin {a, b}
    BY <1>5, <1>7
  <2>4. ASSUME NEW x \in DOMAIN r.kids, NEW y \in DOMAIN r.kids, NEW i \in 1 .. 2, NEW j \in 1 .. 2,
               r.kids[x][i] = r.kids[y][j]
        PROVE  x = y /\ i = j
    <3>1. CASE x = p /\ y = p
      BY <2>2, <2>4, <3>1
    <3>2. CASE x = p /\ y # p
      BY <1>3, <2>2, <2>3, <2>4, <3>2
    <3>3. CASE x # p /\ y = p
      BY <1>3, <2>2, <2>3, <2>4, <3>3
    <3>4. CASE x # p /\ y # p
      BY <1>3, <2>1, <2>3, <2>4, <3>4
    <3> QED BY <3>1, <3>2, <3>3, <3>4
  <2>5. ASSUME NEW x \in DOMAIN r.kids, NEW i \in 1 .. 2 PROVE r.kids[x][i] # r.root
    BY <1>1, <1>3, <1>7, <2>2, <2>3
  <2> QED BY <2>4, <2>5 DEF OneParent
<1>10. Connected(r)
  <2> SUFFICES ASSUME NEW S \in SUBSET Nodes(r), r.root \in S, Closed(r, S) PROVE S = Nodes(r)
    BY DEF Connected
  <2> DEFINE U == S \ {a, b}
  <2>1. \A m \in S \cap DOMAIN t.kids, i \in 1 .. 2 : t.kids[m][i] \in U
    BY <1>3, <1>5, <1>7 DEF Closed
  <2>2. U \in SUBSET Nodes(t) /\ t.root \in U
    BY <1>1, <1>3, <1>4
  <2>3. Closed(t, U)
    BY <2>1 DEF Closed
  <2>4. U = Nodes(t)
    BY <2>2, <2>3 DEF TreeOK, Connected
  <2>5. \A i \in 1 .. 2 : r.kids[p][i] \in S
    BY <1>1, <1>3, <2>4 DEF Closed
  <2>6. a \in S /\ b \in S
    BY <1>5, <2>5
  <2> QED BY <1>4, <2>4, <2>6
<1>11. Distinct(r)
  <2>1. \A x, y \in DOMAIN t.leaf : /\ t.leaf[x].term = t.leaf[y].term => x = y
                                    /\ t.leaf[x].seed = t.leaf[y].seed /\ t.leaf[x].seed # NoTab => x = y
    BY DEF TreeOK, Distinct
  <2>2. \A x \in DOMAIN t.leaf : t.leaf[x].term # k
    BY Contents
  <2> QED BY <1>3, <1>6, <2>1, <2>2 DEF Distinct
<1>12. Terms(r) = Terms(t) \cup {k}
  <2>1. \A x : x \in Terms(r) <=> x = k \/ \E y \in DOMAIN t.leaf : t.leaf[y].term = x
    BY <1>1, <1>3, <1>4, <1>6, Contents
  <2> QED BY <2>1, Contents
<1>13. Seeds(r) = Seeds(t)
  <2>1. \A x : x \in Seeds(r) <=> x # NoTab /\ \E y \in DOMAIN t.leaf : t.leaf[y].seed = x
    BY <1>1, <1>3, <1>4, <1>6, Contents
  <2> QED BY <2>1, Contents
<1>14. r # NoTree
  BY <1>3, NoTreeOK DEF Nodes
<1> QED BY <1>3, <1>4, <1>8, <1>9, <1>10, <1>11, <1>12, <1>13, <1>14 DEF TreeOK, r

(* Two leaves change places: the shape and what is shown stay.             *)
LEMMA SwapOK ==
  ASSUME NEW t, TreeOK(t), NEW a \in DOMAIN t.leaf, NEW b \in DOMAIN t.leaf
  PROVE  LET r == SwapLeaves(t, a, b) IN
         /\ TreeOK(r) /\ Nodes(r) = Nodes(t) /\ Terms(r) = Terms(t) /\ Seeds(r) = Seeds(t)
         /\ DOMAIN r.kids = DOMAIN t.kids /\ DOMAIN r.leaf = DOMAIN t.leaf
<1> DEFINE r == SwapLeaves(t, a, b)
           at(x) == IF x = a THEN b ELSE IF x = b THEN a ELSE x
<1>1. t = [root |-> t.root, kids |-> t.kids, leaf |-> t.leaf]
      /\ t.leaf \in [DOMAIN t.leaf -> [term : Nat, seed : Tab \cup {NoTab}]]
  BY DEF TreeOK, TreeForm
<1>2. r = [root |-> t.root, kids |-> t.kids, leaf |-> [x \in DOMAIN t.leaf |-> t.leaf[at(x)]]]
  BY <1>1 DEF SwapLeaves
<1>3. \A x \in DOMAIN t.leaf : at(x) \in DOMAIN t.leaf /\ at(at(x)) = x
  OBVIOUS
<1> HIDE DEF r
<1>4. /\ r.root = t.root /\ r.kids = t.kids /\ DOMAIN r.leaf = DOMAIN t.leaf
      /\ \A x \in DOMAIN t.leaf : r.leaf[x] = t.leaf[at(x)]
  BY <1>2
<1>5. Nodes(r) = Nodes(t)
  BY <1>4 DEF Nodes
<1>6. r.leaf \in [DOMAIN r.leaf -> [term : Nat, seed : Tab \cup {NoTab}]]
  BY <1>1, <1>2, <1>3
<1>7. TreeForm(r)
  <2>1. r # NoTree /\ t.root # 0
    BY <1>4, RootIn, NoTreeOK DEF Nodes
  <2>2. r = [root |-> r.root, kids |-> r.kids, leaf |-> r.leaf]
    BY <1>2
  <2> QED BY <1>4, <1>5, <1>6, <2>1, <2>2 DEF TreeForm, TreeOK
<1>8. OneParent(r) /\ Connected(r)
  BY <1>4, <1>5 DEF OneParent, Connected, Closed, TreeOK
<1>9. Distinct(r)
  <2>1. \A x, y \in DOMAIN t.leaf : /\ t.leaf[x].term = t.leaf[y].term => x = y
                                    /\ t.leaf[x].seed = t.leaf[y].seed /\ t.leaf[x].seed # NoTab => x = y
    BY DEF TreeOK, Distinct
  <2> HIDE DEF at
  <2>2. \A x, y \in DOMAIN t.leaf : at(x) = at(y) => x = y
    BY <1>3
  <2> QED BY <1>3, <1>4, <2>1, <2>2 DEF Distinct
<1>10. Terms(r) = Terms(t) /\ Seeds(r) = Seeds(t)
  <2> HIDE DEF at
  <2> QED BY <1>3, <1>4 DEF Terms, Seeds
<1> QED BY <1>4, <1>5, <1>7, <1>8, <1>9, <1>10 DEF TreeOK, r

(* Going left from the root of a tree there is a leaf: the nodes on the    *)
(* way are finitely many, each is left of one, and the root of none.       *)
LEMMA FirstLeafOK ==
  ASSUME NEW t, TreeOK(t), IsFiniteSet(Nodes(t)), t # NoTree
  PROVE  FirstLeafId(t) \in DOMAIN t.leaf
<1> DEFINE R == Reached(t, t.root, {1})
<1>1. t.root \in Nodes(t)
  BY RootIn
<1>2. t.root \in R /\ R \subseteq Nodes(t)
  BY <1>1 DEF Reached
<1>3. \A m \in R \cap DOMAIN t.kids : t.kids[m][1] \in R
  <2> SUFFICES ASSUME NEW m \in R \cap DOMAIN t.kids PROVE t.kids[m][1] \in R
    OBVIOUS
  <2>1. t.kids[m][1] \in Nodes(t)
    BY DEF TreeOK, TreeForm
  <2>2. ASSUME NEW S \in SUBSET Nodes(t), t.root \in S, \A x \in S \cap DOMAIN t.kids, k \in {1} : t.kids[x][k] \in S
        PROVE  t.kids[m][1] \in S
    <3>1. m \in S
      BY <2>2 DEF Reached
    <3> QED BY <2>2, <3>1
  <2> QED BY <2>1, <2>2 DEF Reached
<1>4. \E p \in DOMAIN t.leaf : p \in R
  <2> SUFFICES ASSUME \A p \in DOMAIN t.leaf : p \notin R PROVE FALSE
    OBVIOUS
  <2>1. R \subseteq DOMAIN t.kids
    BY <1>2 DEF Nodes
  <2> DEFINE f == [m \in R |-> t.kids[m][1]]
  <2>2. f \in [R -> R]
    BY <1>3, <2>1
  <2>3. f \in Injection(R, R)
    BY <2>1, <2>2 DEF Injection, IsInjective, TreeOK, OneParent
  <2>4. IsFiniteSet(R)
    BY <1>2, FS_Subset
  <2>5. f \in Surjection(R, R)
    BY <2>3, <2>4, FS_Injection
  <2>6. PICK m \in R : f[m] = t.root
    BY <1>2, <2>5 DEF Surjection
  <2> QED BY <2>1, <2>6 DEF TreeOK, OneParent
<1> QED BY <1>4 DEF FirstLeafId

(***************************************************************************)
(* What the seeding prunes is a tree of one leaf or none.                  *)
(***************************************************************************)
LEMMA LeavesOfSolo ==
  ASSUME NEW p \in Nat \ {0}, NEW k \in Nat, NEW s \in Tab \cup {NoTab}
  PROVE  GetAllLeafIds(Solo(p, k, s)) = <<p>>
<1> DEFINE t == Solo(p, k, s)
           g == [n \in Nodes(t) |-> <<p>>]
           F(h) == [n \in Nodes(t) |-> IF n \in DOMAIN t.leaf THEN <<n>> ELSE h[t.kids[n][1]] \o h[t.kids[n][2]]]
<1>1. Nodes(t) = {p} /\ DOMAIN t.leaf = {p} /\ t.root = p /\ t # NoTree
  BY SoloOK, SoloHolds
<1> HIDE DEF t
<1>2. g = F(g)
  BY <1>1
<1>3. \A h : h = F(h) => h[p] = <<p>>
  BY <1>1
<1>4. (CHOOSE h : h = F(h))[p] = <<p>>
  BY <1>2, <1>3
<1>5. GetAllLeafIds(t) = (CHOOSE h : h = F(h))[p]
  BY <1>1 DEF GetAllLeafIds
<1> QED BY <1>4, <1>5 DEF t

LEMMA PruneNone == ASSUME NEW taken PROVE PruneDuplicateLeaves(NoTree, taken) = NoTree
<1> DEFINE base == [tree |-> NoTree, seen |-> taken]
           l == GetAllLeafIds(NoTree)
           F(h) == [s \in SUBSET DOMAIN l |->
                      IF s = {} THEN base
                      ELSE IF NoTree.leaf[l[Max(s)]].term \in h[s \ {Max(s)}].seen
                           THEN [h[s \ {Max(s)}] EXCEPT !.tree = RemoveLeaf(@, l[Max(s)])]
                           ELSE [h[s \ {Max(s)}] EXCEPT !.seen = @ \cup {NoTree.leaf[l[Max(s)]].term}]]
<1>1. l = <<>> /\ DOMAIN l = {}
  BY DEF GetAllLeafIds
<1>2. PruneDuplicateLeaves(NoTree, taken) = (CHOOSE h : h = F(h))[DOMAIN l].tree
  BY DEF PruneDuplicateLeaves, FoldLeft, MapThenFoldSet
<1> HIDE DEF l
<1>3. F([s \in {{}} |-> base]) = [s \in {{}} |-> base]
  BY <1>1
<1>4. \A h : h = F(h) => h[{}] = base
  BY <1>1
<1>5. (CHOOSE h : h = F(h))[{}] = base
  BY <1>3, <1>4
<1> HIDE DEF F
<1> QED BY <1>1, <1>2, <1>5

LEMMA PruneSolo ==
  ASSUME NEW taken, NEW p \in Nat \ {0}, NEW k \in Nat, NEW s \in Tab \cup {NoTab}
  PROVE  PruneDuplicateLeaves(Solo(p, k, s), taken) = IF k \in taken THEN NoTree ELSE Solo(p, k, s)
<1> DEFINE t == Solo(p, k, s)
           base == [tree |-> t, seen |-> taken]
           l == GetAllLeafIds(t)
           F(h) == [x \in SUBSET DOMAIN l |->
                      IF x = {} THEN base
                      ELSE IF t.leaf[l[Max(x)]].term \in h[x \ {Max(x)}].seen
                           THEN [h[x \ {Max(x)}] EXCEPT !.tree = RemoveLeaf(@, l[Max(x)])]
                           ELSE [h[x \ {Max(x)}] EXCEPT !.seen = @ \cup {t.leaf[l[Max(x)]].term}]]
           one == IF k \in taken THEN [tree |-> RemoveLeaf(t, p), seen |-> taken]
                  ELSE [tree |-> t, seen |-> taken \cup {k}]
           g == [x \in {{}, {1}} |-> IF x = {} THEN base ELSE one]
<1>1. l = <<p>> /\ DOMAIN l = {1} /\ l[1] = p
  BY LeavesOfSolo
<1>2. t.leaf[p].term = k /\ RemoveLeaf(t, p) = NoTree
  <2>1. t.leaf[p].term = k /\ t.root = p /\ Nodes(t) = {p}
    BY SoloOK, SoloHolds
  <2> HIDE DEF t
  <2> QED BY <2>1 DEF RemoveLeaf
<1>3. PruneDuplicateLeaves(t, taken) = (CHOOSE h : h = F(h))[DOMAIN l].tree
  BY DEF PruneDuplicateLeaves, FoldLeft, MapThenFoldSet
<1>4. Max({1}) = 1
  BY DEF Max
<1>5. SUBSET {1} = {{}, {1}} /\ {1} \ {1} = {} /\ {1} # {}
  OBVIOUS
<1> HIDE DEF l, t
<1>6. \A h : F(h)[{}] = base /\ (h[{}] = base => F(h)[{1}] = one)
  <2> SUFFICES ASSUME NEW h PROVE F(h)[{}] = base /\ (h[{}] = base => F(h)[{1}] = one)
    OBVIOUS
  <2>1. F(h)[{}] = base
    BY <1>1, <1>5
  <2>2. F(h)[{1}] = IF k \in h[{}].seen THEN [h[{}] EXCEPT !.tree = RemoveLeaf(@, p)]
                    ELSE [h[{}] EXCEPT !.seen = @ \cup {k}]
    BY <1>1, <1>2, <1>4, <1>5
  <2> HIDE DEF F
  <2>3. ASSUME h[{}] = base PROVE F(h)[{1}] = one
    BY <2>2, <2>3
  <2> QED BY <2>1, <2>3
<1>7. \A h : DOMAIN F(h) = {{}, {1}} /\ F(h) = [x \in {{}, {1}} |-> F(h)[x]]
  BY <1>1, <1>5
<1> HIDE DEF F
<1>8. F(g) = g
  <2>1. g[{}] = base /\ g[{1}] = one
    BY <1>5
  <2>2. F(g)[{}] = base /\ F(g)[{1}] = one
    BY <1>6, <2>1
  <2>3. g = [x \in {{}, {1}} |-> g[x]]
    OBVIOUS
  <2> HIDE DEF g
  <2>4. \A x \in {{}, {1}} : F(g)[x] = g[x]
    BY <2>1, <2>2
  <2>5. F(g) = [x \in {{}, {1}} |-> F(g)[x]]
    BY <1>7
  <2>6. [x \in {{}, {1}} |-> F(g)[x]] = [x \in {{}, {1}} |-> g[x]]
    BY <2>4
  <2> QED BY <2>3, <2>5, <2>6
<1>9. \A h : h = F(h) => h[{1}] = one
  BY <1>6
<1>10. (CHOOSE h : h = F(h))[{1}] = one
  BY <1>8, <1>9
<1>11. PruneDuplicateLeaves(t, taken) = one.tree
  BY <1>1, <1>3, <1>10
<1> QED BY <1>2, <1>11 DEF t

----
(***************************************************************************)
(* A forest: the trees of the tabs, by tab, within what has been given.     *)
(***************************************************************************)
Given_(g) == g \in [tabs : SUBSET Tab, nodes : Nat, terms : Nat]
Later(g, h) == g.tabs \subseteq h.tabs /\ g.nodes <= h.nodes /\ g.terms <= h.terms
Within(t, g) == Nodes(t) \subseteq 1 .. g.nodes /\ Terms(t) \subseteq 1 .. g.terms /\ Seeds(t) \subseteq g.tabs
Forest(f, g) ==
  /\ \A t \in DOMAIN f : TreeOK(f[t]) /\ Within(f[t], g)
  /\ \A t, u \in DOMAIN f : t # u => Apart(f[t], f[u])
At(f, t) == IF t \in DOMAIN f THEN f[t] ELSE NoTree
(* What a has that was given before is of b or of c.                       *)
From(a, b, c, g) ==
  /\ Nodes(a) \cap (1 .. g.nodes) \subseteq Nodes(b) \cup Nodes(c)
  /\ Terms(a) \cap (1 .. g.terms) \subseteq Terms(b) \cup Terms(c)
  /\ Seeds(a) \cap g.tabs \subseteq Seeds(b) \cup Seeds(c)

LEMMA WithinLater ==
  ASSUME NEW t, NEW g, NEW h, Given_(g), Given_(h), Later(g, h), Within(t, g)
  PROVE  Within(t, h)
<1>1. \A n \in 1 .. g.nodes : n \in 1 .. h.nodes
  BY DEF Given_, Later
<1>2. \A n \in 1 .. g.terms : n \in 1 .. h.terms
  BY DEF Given_, Later
<1>3. g.tabs \subseteq h.tabs
  BY DEF Later
<1> QED BY <1>1, <1>2, <1>3 DEF Within

LEMMA ForestLater ==
  ASSUME NEW f, NEW g, NEW h, Given_(g), Given_(h), Later(g, h), Forest(f, g)
  PROVE  Forest(f, h)
BY WithinLater DEF Forest

LEMMA FiniteTree ==
  ASSUME NEW t, NEW g, Given_(g), Within(t, g)
  PROVE  IsFiniteSet(Nodes(t))
<1>1. IsFiniteSet(1 .. g.nodes)
  BY FS_Interval DEF Given_
<1> QED BY <1>1, FS_Subset DEF Within

(* At most two tabs change, and take from each other or what is new.       *)
LEMMA ForestStep ==
  ASSUME NEW f, NEW g, NEW h, NEW g2, Given_(g), Given_(g2), Later(g, g2), Forest(f, g), NEW x, NEW y,
         DOMAIN h \subseteq DOMAIN f \cup {x, y}, \A t \in DOMAIN h \ {x, y} : h[t] = f[t],
         \A z \in {x, y} \cap DOMAIN h :
           TreeOK(h[z]) /\ Within(h[z], g2) /\ From(h[z], At(f, x), At(f, y), g),
         x # y /\ {x, y} \subseteq DOMAIN h => Apart(h[x], h[y])
  PROVE  Forest(h, g2)
<1>1. ASSUME NEW t \in DOMAIN h PROVE TreeOK(h[t]) /\ Within(h[t], g2)
  <2>1. CASE t \in {x, y}
    BY <2>1
  <2>2. CASE t \notin {x, y}
    BY <2>2, WithinLater DEF Forest
  <2> QED BY <2>1, <2>2
<1>2. ASSUME NEW z \in {x, y} \cap DOMAIN h, NEW t \in DOMAIN h \ {x, y} PROVE Apart(h[z], h[t])
  <2>1. t \in DOMAIN f /\ h[t] = f[t] /\ Within(f[t], g)
    BY DEF Forest
  <2>2. From(h[z], At(f, x), At(f, y), g)
    OBVIOUS
  <2>3. Apart(At(f, x), f[t]) /\ Apart(At(f, y), f[t])
    BY <2>1, NoTreeOK DEF Forest, At, Apart
  <2> HIDE DEF At
  <2> QED BY <2>1, <2>2, <2>3 DEF From, Apart, Within
<1>3. \A a, b : Apart(a, b) <=> Apart(b, a)
  BY DEF Apart
<1>4. ASSUME NEW t \in DOMAIN h, NEW u \in DOMAIN h, t # u PROVE Apart(h[t], h[u])
  <2>1. CASE t \in {x, y} /\ u \in {x, y}
    BY <1>3, <1>4, <2>1
  <2>2. CASE t \in {x, y} /\ u \notin {x, y}
    BY <1>2, <2>2
  <2>3. CASE t \notin {x, y} /\ u \in {x, y}
    BY <1>2, <1>3, <2>3
  <2>4. CASE t \notin {x, y} /\ u \notin {x, y}
    BY <1>4, <2>4 DEF Forest
  <2> QED BY <2>1, <2>2, <2>3, <2>4
<1> QED BY <1>1, <1>4 DEF Forest

----
(***************************************************************************)
(* Sequences without repetition.                                           *)
(***************************************************************************)
LEMMA RangeOf ==
  ASSUME NEW T, NEW s \in Seq(T)
  PROVE  Range(s) \subseteq T /\ (s = <<>> <=> Range(s) = {})
<1>1. s # <<>> => 1 \in DOMAIN s
  OBVIOUS
<1>2. \A i \in DOMAIN s : s[i] \in T
  OBVIOUS
<1>3. s = <<>> => DOMAIN s = {}
  OBVIOUS
<1>4. Range(s) \subseteq T
  BY <1>2 DEF Range
<1>5. s = <<>> => Range(s) = {}
  BY <1>3 DEF Range
<1>6. s # <<>> => Range(s) # {}
  BY <1>1 DEF Range
<1> QED BY <1>4, <1>5, <1>6

NoTwice(s) == \A i, j \in DOMAIN s : s[i] = s[j] => i = j

LEMMA AppendOK ==
  ASSUME NEW T, NEW s \in Seq(T), NoTwice(s), NEW t \in T, t \notin Range(s)
  PROVE  LET r == Append(s, t) IN
         r \in Seq(T) /\ NoTwice(r) /\ Range(r) = Range(s) \cup {t} /\ r # <<>>
<1> DEFINE r == Append(s, t)
<1>1. PICK n \in Nat : n = Len(s) /\ DOMAIN s = 1 .. n
  OBVIOUS
<1>2. r \in Seq(T) /\ DOMAIN r = 1 .. n + 1 /\ r[n + 1] = t /\ \A i \in 1 .. n : r[i] = s[i]
  BY <1>1
<1> HIDE DEF r
<1>3. \A i \in 1 .. n : s[i] # t
  BY <1>1 DEF Range
<1>4. \A i \in 1 .. n + 1 : i \in 1 .. n \/ i = n + 1
  OBVIOUS
<1>5. NoTwice(r)
  BY <1>1, <1>2, <1>3, <1>4 DEF NoTwice
<1>6. Range(r) \subseteq Range(s) \cup {t}
  BY <1>1, <1>2, <1>4 DEF Range
<1>7. Range(s) \cup {t} \subseteq Range(r)
  <2>1. \A i \in 1 .. n : i \in 1 .. n + 1
    OBVIOUS
  <2>2. n + 1 \in 1 .. n + 1
    OBVIOUS
  <2> QED BY <1>1, <1>2, <2>1, <2>2 DEF Range
<1>8. r # <<>>
  BY <1>2
<1> QED BY <1>2, <1>5, <1>6, <1>7, <1>8 DEF r

LEMMA RemoveAtOK ==
  ASSUME NEW T, NEW s \in Seq(T), NoTwice(s), NEW i \in DOMAIN s
  PROVE  LET r == RemoveAt(s, i) IN
         /\ r \in Seq(T) /\ NoTwice(r) /\ Range(r) = Range(s) \ {s[i]}
         /\ r # <<>> => r[IF i > Len(r) THEN Len(r) ELSE i] \in Range(r)
<1> DEFINE r == RemoveAt(s, i)
<1>1. PICK n \in Nat : n = Len(s) /\ DOMAIN s = 1 .. n /\ i \in 1 .. n /\ n - 1 \in Nat
  OBVIOUS
<1> DEFINE a == SubSeq(s, 1, i - 1)
           b == SubSeq(s, i + 1, n)
<1>2. a \in Seq(T) /\ Len(a) = i - 1 /\ \A j \in 1 .. i - 1 : a[j] = s[j]
  BY <1>1
<1>3. b \in Seq(T) /\ Len(b) = n - i /\ \A j \in 1 .. n - i : b[j] = s[j + i]
  BY <1>1
<1>4. /\ r \in Seq(T) /\ Len(r) = n - 1 /\ DOMAIN r = 1 .. n - 1
      /\ \A j \in 1 .. n - 1 : r[j] = IF j < i THEN s[j] ELSE s[j + 1]
  <2>1. r = a \o b
    BY <1>1 DEF RemoveAt
  <2> HIDE DEF a, b, r
  <2>2. r \in Seq(T) /\ Len(r) = Len(a) + Len(b)
    <3>1. a \in Seq(T) /\ b \in Seq(T)
      BY <1>2, <1>3
    <3> QED BY <2>1, <3>1, ConcatProperties
  <2>3. \A j \in 1 .. Len(a) + Len(b) : r[j] = IF j <= Len(a) THEN a[j] ELSE b[j - Len(a)]
    BY <1>2, <1>3, <2>1, ConcatProperties
  <2>4. Len(r) = n - 1 /\ Len(a) + Len(b) = n - 1
    BY <1>1, <1>2, <1>3, <2>2
  <2>5. ASSUME NEW j \in 1 .. n - 1 PROVE r[j] = IF j < i THEN s[j] ELSE s[j + 1]
    <3>1. CASE j < i
      <4>1. j \in 1 .. i - 1 /\ j <= Len(a)
        BY <1>1, <1>2, <3>1
      <4> QED BY <1>2, <2>3, <2>4, <3>1, <4>1
    <3>2. CASE ~ (j < i)
      <4>1. j - (i - 1) \in 1 .. n - i /\ ~ (j <= Len(a)) /\ (j - (i - 1)) + i = j + 1
        BY <1>1, <1>2, <3>2
      <4>2. r[j] = b[j - (i - 1)]
        BY <1>2, <2>3, <2>4, <4>1
      <4> QED BY <1>3, <3>2, <4>1, <4>2
    <3> QED BY <3>1, <3>2
  <2> QED BY <1>1, <2>2, <2>4, <2>5
<1> HIDE DEF r
<1> DEFINE at(j) == IF j < i THEN j ELSE j + 1
<1>10. \A j \in 1 .. n - 1 : at(j) \in 1 .. n /\ at(j) # i /\ r[j] = s[at(j)]
  BY <1>1, <1>4
<1>11. \A j, k \in 1 .. n - 1 : at(j) = at(k) => j = k
  BY <1>1
<1> HIDE DEF at
<1>5. NoTwice(r)
  BY <1>1, <1>4, <1>10, <1>11 DEF NoTwice
<1>6. \A j \in 1 .. n - 1 : r[j] \in Range(s) \ {s[i]}
  BY <1>1, <1>10 DEF NoTwice, Range
<1>7. \A j \in 1 .. n : j # i => s[j] \in Range(r)
  <2> SUFFICES ASSUME NEW j \in 1 .. n, j # i PROVE s[j] \in Range(r)
    OBVIOUS
  <2>1. CASE j < i
    <3>1. j \in 1 .. n - 1 /\ r[j] = s[j]
      BY <1>1, <1>4, <2>1
    <3> QED BY <1>4, <3>1 DEF Range
  <2>2. CASE ~ (j < i)
    <3>1. j - 1 \in 1 .. n - 1 /\ r[j - 1] = s[j]
      BY <1>1, <1>4, <2>2
    <3> QED BY <1>4, <3>1 DEF Range
  <2> QED BY <2>1, <2>2
<1>8. Range(r) = Range(s) \ {s[i]}
  <2>1. \A x \in Range(r) : x \in Range(s) \ {s[i]}
    BY <1>4, <1>6 DEF Range
  <2>2. \A x \in Range(s) : x # s[i] => x \in Range(r)
    BY <1>1, <1>7 DEF Range
  <2> QED BY <2>1, <2>2
<1>9. r # <<>> => r[IF i > Len(r) THEN Len(r) ELSE i] \in Range(r)
  <2>1. r # <<>> => n - 1 > 0
    BY <1>1, <1>4
  <2>2. r # <<>> => (IF i > Len(r) THEN Len(r) ELSE i) \in DOMAIN r
    BY <1>1, <1>4, <2>1
  <2> QED BY <2>2 DEF Range
<1> QED BY <1>4, <1>5, <1>8, <1>9 DEF r

----
(***************************************************************************)
(* The tab strip: no tab twice, and the active one is among them.          *)
(***************************************************************************)
StripOK(S, g) ==
  /\ S = [tabs |-> S.tabs, active |-> S.active]
  /\ S.tabs \in Seq(g.tabs) /\ NoTwice(S.tabs)
  /\ IF S.tabs = <<>> THEN S.active = NoTab ELSE S.active \in Range(S.tabs)

LEMMA StripRange ==
  ASSUME NEW S, NEW g, StripOK(S, g)
  PROVE  Range(S.tabs) \subseteq g.tabs /\ (S.tabs = <<>> <=> Range(S.tabs) = {})
BY RangeOf DEF StripOK

LEMMA StripLater ==
  ASSUME NEW S, NEW g, NEW h, StripOK(S, g), Later(g, h)
  PROVE  StripOK(S, h)
<1>1. S.tabs \in Seq(h.tabs)
  BY DEF StripOK, Later
<1> QED BY <1>1 DEF StripOK

LEMMA AddedOK ==
  ASSUME NEW S, NEW g, StripOK(S, g), NEW t \in g.tabs, t \notin Range(S.tabs),
         NEW r, r = [tabs |-> r.tabs, active |-> r.active], r.tabs = Append(S.tabs, t),
         r.active = t \/ (S.tabs # <<>> /\ r.active = S.active)
  PROVE  StripOK(r, g) /\ Range(r.tabs) = Range(S.tabs) \cup {t}
<1>1. r.tabs \in Seq(g.tabs) /\ NoTwice(r.tabs) /\ Range(r.tabs) = Range(S.tabs) \cup {t} /\ r.tabs # <<>>
  BY AppendOK DEF StripOK
<1>2. r.active \in Range(r.tabs)
  BY <1>1 DEF StripOK
<1> QED BY <1>1, <1>2 DEF StripOK

LEMMA RemoveTabOK ==
  ASSUME NEW S, NEW g, StripOK(S, g), NEW t \in Range(S.tabs)
  PROVE  LET r == RemoveTab(S, t) IN
         /\ StripOK(r, g) /\ Range(r.tabs) = Range(S.tabs) \ {t}
         /\ S.active # t => r.active = S.active
<1> DEFINE r == RemoveTab(S, t)
           i == CHOOSE j \in DOMAIN S.tabs : S.tabs[j] = t
           rest == RemoveAt(S.tabs, i)
<1>1. i \in DOMAIN S.tabs /\ S.tabs[i] = t
  BY DEF Range
<1>2. r = [tabs |-> rest, active |-> IF S.active # t THEN S.active
                                     ELSE IF rest = <<>> THEN NoTab
                                     ELSE rest[IF i > Len(rest) THEN Len(rest) ELSE i]]
  BY DEF RemoveTab
<1> HIDE DEF i
<1>3. /\ rest \in Seq(g.tabs) /\ NoTwice(rest) /\ Range(rest) = Range(S.tabs) \ {t}
      /\ rest # <<>> => rest[IF i > Len(rest) THEN Len(rest) ELSE i] \in Range(rest)
  BY <1>1, RemoveAtOK DEF StripOK
<1> HIDE DEF rest, r
<1>4. S.active \in Range(S.tabs)
  BY RangeOf DEF StripOK
<1>5. rest = <<>> <=> Range(rest) = {}
  BY <1>3, RangeOf
<1>6. r = [tabs |-> r.tabs, active |-> r.active] /\ r.tabs = rest /\ (S.active # t => r.active = S.active)
  BY <1>2
<1>7. IF rest = <<>> THEN r.active = NoTab ELSE r.active \in Range(rest)
  BY <1>2, <1>3, <1>4, <1>5
<1> QED BY <1>3, <1>6, <1>7 DEF StripOK, r

LEMMA SetActiveTabOK ==
  ASSUME NEW S, NEW g, StripOK(S, g), NEW t \in Range(S.tabs)
  PROVE  /\ StripOK(SetActiveTab(S, t), g) /\ SetActiveTab(S, t).tabs = S.tabs
         /\ SetActiveTab(S, t).active = t
<1> DEFINE r == SetActiveTab(S, t)
<1>1. r = [tabs |-> S.tabs, active |-> t]
  BY DEF SetActiveTab, StripOK
<1>2. r = [tabs |-> r.tabs, active |-> r.active] /\ r.tabs = S.tabs /\ r.active = t
  BY <1>1
<1>3. S.tabs # <<>>
  BY RangeOf DEF StripOK
<1> HIDE DEF r
<1> QED BY <1>2, <1>3 DEF StripOK, r

----
(***************************************************************************)
(* The reducers of the pane slice, field by field.                         *)
(***************************************************************************)
PanesForm(P) == DOMAIN P = {"trees", "tree", "current", "active", "of", "max"}
PanesAre(P, trees, tree, current, active, of, max) ==
  /\ PanesForm(P) /\ P.trees = trees /\ P.tree = tree /\ P.current = current
  /\ P.active = active /\ P.of = of /\ P.max = max

LEMMA PutAt ==
  ASSUME NEW f, NEW x, NEW v
  PROVE  /\ DOMAIN Put(f, x, v) = DOMAIN f \cup {x} /\ Put(f, x, v)[x] = v
         /\ \A y \in DOMAIN f \ {x} : Put(f, x, v)[y] = f[y]
BY DEF Put

LEMMA SplitPaneFields ==
  ASSUME NEW P, PanesForm(P), P.current # NoTab, P.current \in DOMAIN P.trees,
         NEW p \in DOMAIN P.tree.leaf, NEW a, NEW b, NEW new, NEW first
  PROVE  LET T == SplitLeafInTree(P.tree, p, a, b, new, first)
         IN PanesAre(SplitPane(P, p, a, b, new, first),
                     Put(P.trees, P.current, T), T, P.current, b, P.of, Without(P.max, P.current))
<1> DEFINE T == SplitLeafInTree(P.tree, p, a, b, new, first)
           Q == [P EXCEPT !.tree = SplitLeafInTree(@, p, a, b, new, first), !.active = b,
                          !.max = Without(@, P.current)]
<1>1. PanesAre(Q, P.trees, T, P.current, b, P.of, Without(P.max, P.current))
  BY DEF PanesForm, PanesAre
<1>2. SplitPane(P, p, a, b, new, first) = SyncActive(Q)
  BY DEF SplitPane
<1> HIDE DEF T, Q
<1>3. SyncActive(Q) = [Q EXCEPT !.trees = Put(@, P.current, T)]
  BY <1>1 DEF SyncActive, PanesAre
<1> QED BY <1>1, <1>2, <1>3 DEF T, PanesAre, PanesForm

LEMMA ShownFields ==
  ASSUME NEW P, PanesForm(P), NEW t
  PROVE  PanesAre(Shown(P, t), P.trees, IF P.current = t THEN P.trees[t] ELSE P.tree, P.current,
                  IF P.current = t /\ t \in DOMAIN P.of THEN P.of[t] ELSE P.active, P.of, P.max)
BY DEF Shown, PanesForm, PanesAre

(* A tree shown: the tab gets tree T, and pane b the focus.                 *)
Gets(r, P, t, T, b, max) ==
  PanesAre(r, Put(P.trees, t, T), IF P.current = t THEN T ELSE P.tree, P.current,
           IF P.current = t THEN b ELSE P.active, Put(P.of, t, b), max)
LEMMA ShownPut ==
  ASSUME NEW P, PanesForm(P), NEW t, NEW T, NEW b, NEW max, NEW Q,
         PanesAre(Q, Put(P.trees, t, T), P.tree, P.current, P.active, Put(P.of, t, b), max)
  PROVE  Gets(Shown(Q, t), P, t, T, b, max)
<1>1. Put(P.trees, t, T)[t] = T /\ Put(P.of, t, b)[t] = b /\ t \in DOMAIN Put(P.of, t, b)
  BY DEF Put
<1>2. PanesAre(Shown(Q, t), Q.trees, IF Q.current = t THEN Q.trees[t] ELSE Q.tree, Q.current,
               IF Q.current = t /\ t \in DOMAIN Q.of THEN Q.of[t] ELSE Q.active, Q.of, Q.max)
  BY ShownFields DEF PanesAre
<1> QED BY <1>1, <1>2 DEF PanesAre, Gets

LEMMA SplitInTabFields ==
  ASSUME NEW P, PanesForm(P), NEW t, NEW p, NEW a, NEW b, NEW new
  PROVE  LET r == SplitPaneInTab(P, t, p, a, b, new)
             target == IF p \in Nodes(Tree(P, t)) THEN p ELSE FirstLeafId(Tree(P, t))
         IN /\ Tree(P, t) = NoTree => Gets(r, P, t, Solo(b, new.term, NoTab), b, P.max)
            /\ Tree(P, t) # NoTree /\ target \in DOMAIN Tree(P, t).leaf =>
                 Gets(r, P, t, SplitLeafInTree(P.trees[t], target, a, b, new, FALSE), b, Without(P.max, t))
            /\ Tree(P, t) # NoTree /\ target \notin DOMAIN Tree(P, t).leaf =>
                 PanesAre(r, P.trees, IF P.current = t THEN P.trees[t] ELSE P.tree, P.current,
                          IF P.current = t /\ t \in DOMAIN P.of THEN P.of[t] ELSE P.active, P.of, P.max)
<1> DEFINE r == SplitPaneInTab(P, t, p, a, b, new)
           target == IF p \in Nodes(Tree(P, t)) THEN p ELSE FirstLeafId(Tree(P, t))
<1>1. ASSUME Tree(P, t) = NoTree PROVE Gets(r, P, t, Solo(b, new.term, NoTab), b, P.max)
  <2> DEFINE Q == [P EXCEPT !.trees = Put(@, t, Solo(b, new.term, NoTab)), !.of = Put(@, t, b)]
  <2>1. r = Shown(Q, t)
    BY <1>1 DEF SplitPaneInTab
  <2>2. PanesAre(Q, Put(P.trees, t, Solo(b, new.term, NoTab)), P.tree, P.current, P.active, Put(P.of, t, b), P.max)
    BY DEF PanesForm, PanesAre
  <2> HIDE DEF r, Q
  <2> QED BY <2>1, <2>2, ShownPut
<1>2. ASSUME Tree(P, t) # NoTree, target \in DOMAIN Tree(P, t).leaf
      PROVE  Gets(r, P, t, SplitLeafInTree(P.trees[t], target, a, b, new, FALSE), b, Without(P.max, t))
  <2> DEFINE T == SplitLeafInTree(P.trees[t], target, a, b, new, FALSE)
             Q == [P EXCEPT !.trees[t] = SplitLeafInTree(@, target, a, b, new, FALSE),
                            !.of = Put(@, t, b), !.max = Without(@, t)]
  <2>1. r = Shown(Q, t)
    BY <1>2 DEF SplitPaneInTab
  <2>2. [P.trees EXCEPT ![t] = SplitLeafInTree(P.trees[t], target, a, b, new, FALSE)] = Put(P.trees, t, T)
    <3>1. t \in DOMAIN P.trees
      BY <1>2 DEF Tree
    <3> HIDE DEF target
    <3> QED BY <3>1 DEF Put
  <2>3. PanesAre(Q, [P.trees EXCEPT ![t] = SplitLeafInTree(P.trees[t], target, a, b, new, FALSE)],
                 P.tree, P.current, P.active, Put(P.of, t, b), Without(P.max, t))
    BY DEF PanesForm, PanesAre
  <2> HIDE DEF r, Q, T, target
  <2>4. PanesAre(Q, Put(P.trees, t, T), P.tree, P.current, P.active, Put(P.of, t, b), Without(P.max, t))
    BY <2>2, <2>3
  <2> QED BY <2>1, <2>4, ShownPut DEF T
<1>3. ASSUME Tree(P, t) # NoTree, target \notin DOMAIN Tree(P, t).leaf
      PROVE  r = Shown(P, t)
  BY <1>3 DEF SplitPaneInTab
<1> HIDE DEF r, target
<1> QED BY <1>1, <1>2, <1>3, ShownFields DEF r, target

LEMMA AddTabTreeFields ==
  ASSUME NEW P, PanesForm(P), NEW t, NEW T
  PROVE  PanesAre(AddTabTree(P, t, T), Put(P.trees, t, T), IF P.current = t THEN T ELSE P.tree,
                  P.current, P.active, P.of, P.max)
BY DEF AddTabTree, PanesForm, PanesAre

LEMMA SetActiveTabIdFields ==
  ASSUME NEW P, PanesForm(P), NEW t
  PROVE  LET of == IF P.current # NoTab /\ P.active # 0 THEN Put(P.of, P.current, P.active) ELSE P.of
             T == IF t = NoTab THEN NoTree ELSE Tree(P, t)
         IN PanesAre(SetActiveTabId(P, t), P.trees, T, t,
                     IF t \in DOMAIN of /\ of[t] \in Nodes(T) THEN of[t] ELSE FirstLeafId(T), of, P.max)
<1> DEFINE of == IF P.current # NoTab /\ P.active # 0 THEN Put(P.of, P.current, P.active) ELSE P.of
           T == IF t = NoTab THEN NoTree ELSE Tree(P, t)
           active == IF t \in DOMAIN of /\ of[t] \in Nodes(T) THEN of[t] ELSE FirstLeafId(T)
<1>1. SetActiveTabId(P, t) = [P EXCEPT !.of = of, !.current = t, !.tree = T, !.active = active]
  BY DEF SetActiveTabId
<1> HIDE DEF of, T, active
<1>2. PanesAre(SetActiveTabId(P, t), P.trees, T, t, active, of, P.max)
  BY <1>1 DEF PanesForm, PanesAre
<1> QED BY <1>2 DEF of, T, active

LEMMA InsertPaneFields ==
  ASSUME NEW P, PanesForm(P), NEW t \in DOMAIN P.trees, NEW target, NEW u, NEW first, NEW n
  PROVE  LET T == IF P.trees[t] = NoTree \/ target = 0 THEN u ELSE InsertByZone(P.trees[t], target, u, first, n)
         IN Gets(InsertPaneIntoTab(P, t, target, u, first, n), P, t, T, u.root, Without(P.max, t))
<1> DEFINE T == IF P.trees[t] = NoTree \/ target = 0 THEN u ELSE InsertByZone(P.trees[t], target, u, first, n)
<1>1. InsertPaneIntoTab(P, t, target, u, first, n)
        = [P EXCEPT !.trees[t] = T, !.of = Put(@, t, u.root), !.max = Without(@, t),
                    !.tree = IF P.current = t THEN T ELSE @, !.active = IF P.current = t THEN u.root ELSE @]
  BY DEF InsertPaneIntoTab
<1> HIDE DEF T
<1>2. [P.trees EXCEPT ![t] = T] = Put(P.trees, t, T)
  BY DEF Put
<1> QED BY <1>1, <1>2 DEF PanesForm, PanesAre, Gets, T

LEMMA RemovePaneFields ==
  ASSUME NEW P, PanesForm(P), NEW t, NEW p, Tree(P, t) # NoTree
  PROVE  LET T == RemoveLeaf(P.trees[t], p)
         IN PanesAre(RemovePaneFromTab(P, t, p), Put(P.trees, t, T), IF P.current = t THEN T ELSE P.tree, P.current,
                     IF P.current = t /\ P.active # 0 /\ P.active \notin Nodes(T) THEN FirstLeafId(T) ELSE P.active,
                     P.of, IF t \in DOMAIN P.max /\ P.max[t] = p THEN Without(P.max, t) ELSE P.max)
<1> DEFINE T == RemoveLeaf(P.trees[t], p)
<1>1. RemovePaneFromTab(P, t, p)
        = [P EXCEPT !.trees[t] = T, !.max = IF t \in DOMAIN @ /\ @[t] = p THEN Without(@, t) ELSE @,
                    !.tree = IF P.current = t THEN T ELSE @,
                    !.active = IF P.current = t /\ @ # 0 /\ @ \notin Nodes(T) THEN FirstLeafId(T) ELSE @]
  BY DEF RemovePaneFromTab
<1> HIDE DEF T
<1>2. [P.trees EXCEPT ![t] = T] = Put(P.trees, t, T)
  BY DEF Tree, Put
<1> QED BY <1>1, <1>2 DEF PanesForm, PanesAre, T

LEMMA RemoveTabTreesFields ==
  ASSUME NEW P, PanesForm(P), NEW S
  PROVE  PanesAre(RemoveTabTrees(P, S),
                  Restrict(P.trees, DOMAIN P.trees \ S), IF P.current \in S THEN NoTree ELSE P.tree, P.current,
                  IF P.current \in S THEN 0 ELSE P.active,
                  Restrict(P.of, DOMAIN P.of \ S), Restrict(P.max, DOMAIN P.max \ S))
BY DEF RemoveTabTrees, PanesForm, PanesAre

LEMMA InstalledFields ==
  ASSUME NEW P, PanesForm(P), NEW plan
  PROVE  PanesAre(Installed(P, plan),
                  Over(plan, P.trees), IF P.current \in DOMAIN plan THEN plan[P.current] ELSE P.tree, P.current,
                  P.active, P.of, P.max)
BY DEF Installed, PanesForm, PanesAre

(* A pane moves within its tab: the tree, and what else changes.           *)
LEMMA MoveWithinFields ==
  ASSUME NEW P, PanesForm(P), NEW t, NEW source, NEW target, NEW zone, NEW n, NEW o, NEW R, NEW u, NEW T,
         o = Tree(P, t), R = RemoveLeaf(o, source), u = Solo(source, o.leaf[source].term, o.leaf[source].seed),
         T = IF zone = "center" THEN SwapLeaves(o, source, target)
             ELSE InsertByZone(R, target, u, zone = "first", n),
         source # target, o # NoTree, source \in Nodes(o), R # NoTree
  PROVE  PanesAre(MovePaneWithinTab(P, t, source, target, zone, n), Put(P.trees, t, T),
                  IF P.current = t THEN T ELSE P.tree, P.current, IF zone = "center" THEN target ELSE source,
                  P.of, P.max)
<1> DEFINE active == IF zone = "center" THEN target ELSE source
<1>1. MovePaneWithinTab(P, t, source, target, zone, n)
        = [P EXCEPT !.trees[t] = T, !.active = active, !.tree = IF P.current = t THEN T ELSE @]
  BY DEF MovePaneWithinTab
<1> HIDE DEF active
<1>2. [P.trees EXCEPT ![t] = T] = Put(P.trees, t, T)
  BY DEF Tree, Put
<1>3. PanesAre(MovePaneWithinTab(P, t, source, target, zone, n), Put(P.trees, t, T),
               IF P.current = t THEN T ELSE P.tree, P.current, active, P.of, P.max)
  BY <1>1, <1>2 DEF PanesForm, PanesAre
<1> QED BY <1>3 DEF active

LEMMA MoveToFields ==
  ASSUME NEW P, PanesForm(P), NEW from, NEW source, NEW to \in DOMAIN P.trees, NEW target, NEW zone, NEW n,
         NEW R, NEW u, NEW T, R = RemoveLeaf(P.trees[from], source),
         u = Solo(source, P.trees[from].leaf[source].term, P.trees[from].leaf[source].seed),
         T = IF P.trees[to] = NoTree THEN u ELSE InsertByZone(P.trees[to], target, u, zone = "first", n),
         from # to, Tree(P, from) # NoTree, source \in Nodes(Tree(P, from))
  PROVE  PanesAre(MovePaneToTab(P, from, source, to, target, zone, n), Put(Put(P.trees, from, R), to, T), T, to, source,
                  Put(P.of, to, source),
                  Without(IF from \in DOMAIN P.max /\ P.max[from] = source THEN Without(P.max, from) ELSE P.max, to))
<1>1. from \in DOMAIN P.trees
  BY DEF Tree
<1>2. MovePaneToTab(P, from, source, to, target, zone, n)
        = [P EXCEPT !.trees[from] = R, !.trees[to] = T,
                    !.max = Without(IF from \in DOMAIN @ /\ @[from] = source THEN Without(@, from) ELSE @, to),
                    !.current = to, !.tree = T, !.active = source, !.of = Put(@, to, source)]
  BY DEF MovePaneToTab
<1>3. [[P.trees EXCEPT ![from] = R] EXCEPT ![to] = T] = Put(Put(P.trees, from, R), to, T)
  BY <1>1 DEF Put
<1>4. PanesAre(MovePaneToTab(P, from, source, to, target, zone, n),
               [[P.trees EXCEPT ![from] = R] EXCEPT ![to] = T], T, to, source, Put(P.of, to, source),
               Without(IF from \in DOMAIN P.max /\ P.max[from] = source THEN Without(P.max, from) ELSE P.max, to))
  BY <1>2 DEF PanesForm, PanesAre
<1> QED BY <1>3, <1>4

----
(***************************************************************************)
(* The invariant.  A place is a tab of this window or, as NoTab, the tree   *)
(* another window holds.                                                   *)
(***************************************************************************)
Places == Tab \cup {NoTab}
Piece(z) == IF z = NoTab THEN away.tree ELSE Tree(panes, z)
All == [z \in Places |-> Piece(z)]
Live(z) == IF z \in Open THEN Terms(Tree(panes, z)) ELSE {}
IsFcn(f) == f = [x \in DOMAIN f |-> f[x]]

IdsOK == Given_(ids)
ForestOK == Forest(All, ids)
TreesOK == IsFcn(panes.trees) /\ DOMAIN panes.trees \subseteq ids.tabs
StripInv == StripOK(strip, ids)
CurrentOK ==
  /\ PanesForm(panes) /\ panes.current \in ids.tabs \cup {NoTab} /\ panes.tree = Tree(panes, panes.current)
AwayOK ==
  \/ away = NoneAway
  \/ away.tree # NoTree /\ away.tab \in ids.tabs \ (Open \cup DOMAIN panes.trees)
SavedOK ==
  StripOK(saved.strip, ids) /\ IsFcn(saved.mirror) /\ DOMAIN saved.mirror \subseteq ids.tabs /\ Forest(saved.mirror, ids)
MirrorOK ==
  /\ DOMAIN panes.trees \subseteq DOMAIN mirror /\ DOMAIN mirror \subseteq ids.tabs
  /\ \A t \in DOMAIN panes.trees : mirror[t] = panes.trees[t]
  /\ DOMAIN mirror \cap Open \subseteq DOMAIN panes.trees
PendingOK == \A t \in Open \ DOMAIN panes.trees : due /\ t \notin Seeds(away.tree)
StrayOK == stray \subseteq 1 .. ids.terms /\ \A z \in Places : stray \cap Terms(Piece(z)) = {}
RunOK == running = stray \cup UNION {Live(z) : z \in Tab}
AgreeOK ==
  ~ due => /\ DOMAIN panes.trees = Open /\ mirror = panes.trees
           /\ Open # {} => panes.current = strip.active
CoreInv ==
  /\ IdsOK /\ ForestOK /\ TreesOK /\ StripInv /\ CurrentOK /\ AwayOK /\ SavedOK /\ MirrorOK
  /\ PendingOK /\ StrayOK /\ RunOK /\ AgreeOK

(* What a place holds, and that no two hold the same.                      *)
LEMMA Pieces ==
  ASSUME CoreInv
  PROVE  /\ \A z \in Places : TreeOK(Piece(z)) /\ Within(Piece(z), ids) /\ IsFiniteSet(Nodes(Piece(z)))
         /\ \A z, w \in Places : z # w => Apart(Piece(z), Piece(w))
<1>1. \A z \in Places : TreeOK(Piece(z)) /\ Within(Piece(z), ids)
  BY DEF CoreInv, ForestOK, Forest, All
<1>2. \A z, w \in Places : z # w => Apart(Piece(z), Piece(w))
  BY DEF CoreInv, ForestOK, Forest, All
<1>3. \A z \in Places : IsFiniteSet(Nodes(Piece(z)))
  BY <1>1, FiniteTree DEF CoreInv, IdsOK
<1> QED BY <1>1, <1>2, <1>3

LEMMA OpenTabs ==
  ASSUME CoreInv
  PROVE  /\ Open \subseteq ids.tabs /\ ids.tabs \subseteq Tab /\ NoTab \notin Open
         /\ strip.active # NoTab <=> Open # {}
         /\ strip.active # NoTab => strip.active \in Open
         /\ strip.tabs = <<>> <=> Open = {}
<1>1. StripOK(strip, ids) /\ Given_(ids)
  BY DEF CoreInv, StripInv, IdsOK
<1>2. Open \subseteq ids.tabs /\ (strip.tabs = <<>> <=> Open = {})
  BY <1>1, StripRange DEF Open
<1>3. ids.tabs \subseteq Tab
  BY <1>1 DEF Given_
<1>4. NoTab \notin Open
  BY <1>2, <1>3, WorkspaceAssumption
<1>5. IF strip.tabs = <<>> THEN strip.active = NoTab ELSE strip.active \in Open
  BY <1>1 DEF StripOK, Open
<1> QED BY <1>2, <1>3, <1>4, <1>5

(* Between tasks the trees are those of the open tabs, and the mirror.     *)
LEMMA Idle ==
  ASSUME CoreInv, ~ due
  PROVE  /\ DOMAIN panes.trees = Open /\ mirror = panes.trees /\ IsFcn(panes.trees) /\ PanesForm(panes)
         /\ Open # {} => panes.current = strip.active
         /\ \A t \in Tab : t \in Open <=> t \in DOMAIN panes.trees
         /\ \A t \in Open : Tree(panes, t) = panes.trees[t] /\ Piece(t) = Tree(panes, t) /\ t \in Tab
         /\ \A t \in Tab : Live(t) = Terms(Tree(panes, t)) /\ Live(t) \subseteq running
         /\ \A t \in Tab : Tree(panes, t) # NoTree => t \in Open
         /\ panes.tree = Tree(panes, panes.current) /\ panes.current \in Tab \cup {NoTab}
<1>1. DOMAIN panes.trees = Open /\ mirror = panes.trees /\ IsFcn(panes.trees) /\ PanesForm(panes)
      /\ (Open # {} => panes.current = strip.active) /\ panes.tree = Tree(panes, panes.current)
      /\ panes.current \in ids.tabs \cup {NoTab}
  BY DEF CoreInv, AgreeOK, TreesOK, CurrentOK
<1>2. Open \subseteq Tab /\ NoTab \notin Open /\ ids.tabs \subseteq Tab
  BY OpenTabs
<1>3. \A t \in Open : Tree(panes, t) = panes.trees[t] /\ Piece(t) = Tree(panes, t)
  BY <1>1, <1>2 DEF Tree, Piece
<1>4. \A t \in Tab : Tree(panes, t) # NoTree => t \in Open
  BY <1>1 DEF Tree
<1>5. \A t \in Tab : Live(t) = Terms(Tree(panes, t))
  BY <1>4, NoTreeOK DEF Live
<1>6. \A t \in Tab : Live(t) \subseteq running
  BY DEF CoreInv, RunOK
<1> QED BY <1>1, <1>2, <1>3, <1>4, <1>5, <1>6

(* A task changes at most two places, x and y, gives what is new, and      *)
(* leaves what it made without a pane among the strays.                    *)
Frame ==
  /\ due' = TRUE \/ (AgreeOK' /\ Open' \subseteq DOMAIN panes'.trees)
  /\ saved' = saved /\ Given_(ids') /\ Later(ids, ids') /\ StripOK(strip', ids')
  /\ IsFcn(panes'.trees) /\ DOMAIN panes'.trees \subseteq ids'.tabs /\ CurrentOK' /\ AwayOK'
Mirrored ==
  /\ \E M : mirror' = Over(panes'.trees, M) /\ DOMAIN M \subseteq DOMAIN panes.trees \cup DOMAIN panes'.trees
  /\ DOMAIN panes.trees \cap Open' \subseteq DOMAIN panes'.trees
  /\ \A t \in Open' \ DOMAIN panes'.trees : t \notin Seeds(away'.tree)
Kept(x, y) == \A z \in Places \ {x, y} : Piece(z)' = Piece(z) /\ (z \in Open' <=> z \in Open)
Fits(z, x, y) == TreeOK(Piece(z)') /\ Within(Piece(z)', ids') /\ From(Piece(z)', Piece(x), Piece(y), ids)
Runs(x, y, N) ==
  /\ stray' = stray \cup N /\ N \subseteq 1 .. ids'.terms /\ N \cap (1 .. ids.terms) = {}
  /\ \A z \in {x, y} : N \cap Terms(Piece(z)') = {}
  /\ running' = N \cup (running \ (Live(x) \cup Live(y))) \cup Live(x)' \cup Live(y)'

LEMMA TaskStep ==
  ASSUME CoreInv, ~ due, NEW x \in Places, NEW y \in Places, NEW N,
         Frame, Mirrored, Kept(x, y), Fits(x, x, y), Fits(y, x, y), x # y => Apart(Piece(x)', Piece(y)'),
         Runs(x, y, N)
  PROVE  CoreInv'
<1> USE DEF Frame, Kept, Fits, Runs
<1>0. PICK M : mirror' = Over(panes'.trees, M) /\ DOMAIN M \subseteq DOMAIN panes.trees \cup DOMAIN panes'.trees
  BY DEF Mirrored
<1>1. IdsOK' /\ TreesOK' /\ StripInv' /\ AgreeOK'
  BY DEF IdsOK, TreesOK, StripInv, AgreeOK
<1>2. ForestOK'
  <2>1. DOMAIN All = Places /\ DOMAIN All' = Places
        /\ \A z \in Places : All[z] = Piece(z) /\ All'[z] = Piece(z)' /\ At(All, z) = Piece(z)
    BY DEF All, At
  <2>2. Forest(All, ids) /\ Given_(ids)
    BY DEF CoreInv, ForestOK, IdsOK
  <2>3. \A t \in DOMAIN All' \ {x, y} : All'[t] = All[t]
    BY <2>1
  <2>4. \A z \in {x, y} \cap DOMAIN All' :
           TreeOK(All'[z]) /\ Within(All'[z], ids') /\ From(All'[z], At(All, x), At(All, y), ids)
    BY <2>1
  <2>5. x # y /\ {x, y} \subseteq DOMAIN All' => Apart(All'[x], All'[y])
    BY <2>1
  <2>6. DOMAIN All' \subseteq DOMAIN All \cup {x, y}
    BY <2>1
  <2> HIDE DEF All
  <2>7. Forest(All', ids')
    BY <2>2, <2>3, <2>4, <2>5, <2>6, ForestStep
  <2> QED BY <2>7 DEF ForestOK
<1>3. SavedOK'
  <2>1. SavedOK /\ Given_(ids)
    BY DEF CoreInv, IdsOK
  <2>2. StripOK(saved.strip, ids') /\ Forest(saved.mirror, ids')
    BY <2>1, StripLater, ForestLater DEF SavedOK
  <2>3. DOMAIN saved.mirror \subseteq ids'.tabs
    BY <2>1 DEF SavedOK, Later
  <2> QED BY <2>1, <2>2, <2>3 DEF SavedOK
<1>4. MirrorOK'
  <2>1. DOMAIN mirror' = DOMAIN panes'.trees \cup DOMAIN M
        /\ \A t \in DOMAIN panes'.trees : mirror'[t] = panes'.trees[t]
    BY <1>0 DEF Over
  <2>2. DOMAIN panes.trees \subseteq ids'.tabs
    BY DEF CoreInv, TreesOK, Later
  <2> QED BY <1>0, <2>1, <2>2 DEF MirrorOK, Mirrored
<1>5. PendingOK'
  BY DEF PendingOK, Mirrored
<1>6. StrayOK'
  <2>1. stray \subseteq 1 .. ids.terms /\ \A z \in Places : stray \cap Terms(Piece(z)) = {}
    BY DEF CoreInv, StrayOK
  <2>2. stray' \subseteq 1 .. ids'.terms
    <3>1. \A k \in 1 .. ids.terms : k \in 1 .. ids'.terms
      BY DEF CoreInv, IdsOK, Given_, Later
    <3> QED BY <2>1, <3>1
  <2>3. ASSUME NEW z \in Places PROVE stray' \cap Terms(Piece(z)') = {}
    <3>1. CASE z \in {x, y}
      <4>1. Terms(Piece(z)') \cap (1 .. ids.terms) \subseteq Terms(Piece(x)) \cup Terms(Piece(y))
        BY <3>1 DEF From
      <4>2. N \cap Terms(Piece(z)') = {}
        BY <3>1
      <4> QED BY <2>1, <4>1, <4>2
    <3>2. CASE z \notin {x, y}
      <4>1. Terms(Piece(z)') \subseteq 1 .. ids.terms /\ Piece(z)' = Piece(z)
        BY <3>2, Pieces DEF Within
      <4> QED BY <2>1, <4>1
    <3> QED BY <3>1, <3>2
  <2> QED BY <2>2, <2>3 DEF StrayOK
<1>7. RunOK'
  <2> DEFINE U == UNION {Live(z) : z \in Tab}
             V == UNION {Live(z)' : z \in Tab}
  <2>1. \A z \in Tab \ {x, y} : Live(z)' = Live(z)
    BY WorkspaceAssumption DEF Live, Piece, Places
  <2>2. Live(NoTab) = {} /\ Live(NoTab)' = {}
    <3>1. NoTab \notin Open
      BY OpenTabs
    <3>2. NoTab \notin Open'
      BY StripRange, WorkspaceAssumption DEF Open, Given_
    <3> QED BY <3>1, <3>2 DEF Live
  <2>3. \A z \in Tab : Live(z) \cap stray = {}
    BY WorkspaceAssumption DEF CoreInv, StrayOK, Live, Piece, Places
  <2>4. \A z, w \in Tab : z # w => Live(z) \cap Live(w) = {}
    BY Pieces, WorkspaceAssumption DEF Live, Piece, Places, Apart
  <2>5. running = stray \cup U
    BY DEF CoreInv, RunOK
  <2>6. (x \in Tab \/ x = NoTab) /\ (y \in Tab \/ y = NoTab)
    BY DEF Places
  <2> HIDE DEF Live
  <2>7. ASSUME NEW k \in V PROVE k \in (U \ (Live(x) \cup Live(y))) \cup Live(x)' \cup Live(y)'
    <3>1. PICK z \in Tab : k \in Live(z)'
      OBVIOUS
    <3>2. CASE z \in {x, y}
      BY <3>1, <3>2
    <3>3. CASE z \notin {x, y}
      <4>1. k \in Live(z)
        BY <2>1, <3>1, <3>3
      <4>2. k \notin Live(x) /\ k \notin Live(y)
        BY <2>2, <2>4, <2>6, <3>3, <4>1
      <4> QED BY <4>1, <4>2
    <3> QED BY <3>2, <3>3
  <2>8. ASSUME NEW k \in U, k \notin Live(x), k \notin Live(y) PROVE k \in V
    <3>1. PICK z \in Tab : k \in Live(z)
      OBVIOUS
    <3>2. z \notin {x, y}
      BY <2>8, <3>1
    <3> QED BY <2>1, <3>1, <3>2
  <2>9. Live(x)' \subseteq V /\ Live(y)' \subseteq V
    BY <2>2, <2>6
  <2>10. stray \cap Live(x) = {} /\ stray \cap Live(y) = {}
    BY <2>2, <2>3, <2>6
  <2> HIDE DEF U, V
  <2>11. V = (U \ (Live(x) \cup Live(y))) \cup Live(x)' \cup Live(y)'
    BY <2>7, <2>8, <2>9
  <2>12. running' = stray' \cup V
    BY <2>5, <2>10, <2>11
  <2> QED BY <2>12 DEF V, RunOK
<1> QED BY <1>1, <1>2, <1>3, <1>4, <1>5, <1>6, <1>7 DEF CoreInv

----
(***************************************************************************)
(* The tasks, one by one.                                                  *)
(***************************************************************************)
(* Ids that have not been given.                                           *)
LEMMA GivenIds ==
  ASSUME CoreInv, NEW n \in Nat, NEW m \in Nat, NEW T \in SUBSET Tab
  PROVE  LET g == [tabs |-> ids.tabs \cup T, nodes |-> ids.nodes + n, terms |-> ids.terms + m]
         IN Given_(g) /\ Later(ids, g) /\ g.tabs = ids.tabs \cup T /\ g.nodes = ids.nodes + n /\ g.terms = ids.terms + m
BY DEF CoreInv, IdsOK, Given_, Later

LEMMA GivesOK ==
  ASSUME CoreInv, NEW n \in Nat, NEW m \in Nat, Gives(n, m)
  PROVE  /\ Given_(ids') /\ Later(ids, ids') /\ ids'.tabs = ids.tabs
         /\ ids'.nodes = ids.nodes + n /\ ids'.terms = ids.terms + m
<1>1. ids \in [tabs : SUBSET Tab, nodes : Nat, terms : Nat]
  BY DEF CoreInv, IdsOK, Given_
<1>2. ids' = [tabs |-> ids.tabs, nodes |-> ids.nodes + n, terms |-> ids.terms + m]
  BY <1>1 DEF Gives
<1> QED BY <1>1, <1>2 DEF Given_, Later

LEMMA GivesTab ==
  ASSUME CoreInv, NEW t \in Tab, ids' = [ids EXCEPT !.tabs = @ \cup {t}]
  PROVE  /\ Given_(ids') /\ Later(ids, ids') /\ ids'.tabs = ids.tabs \cup {t}
         /\ ids'.nodes = ids.nodes /\ ids'.terms = ids.terms
<1>1. ids \in [tabs : SUBSET Tab, nodes : Nat, terms : Nat]
  BY DEF CoreInv, IdsOK, Given_
<1>2. ids' = [tabs |-> ids.tabs \cup {t}, nodes |-> ids.nodes, terms |-> ids.terms]
  BY <1>1
<1> QED BY <1>1, <1>2 DEF Given_, Later

LEMMA GivesSolo ==
  ASSUME CoreInv, NEW t \in Tab, ids' = [ids EXCEPT !.tabs = @ \cup {t}, !.nodes = @ + 1, !.terms = @ + 1]
  PROVE  /\ Given_(ids') /\ Later(ids, ids') /\ ids'.tabs = ids.tabs \cup {t}
         /\ ids'.nodes = ids.nodes + 1 /\ ids'.terms = ids.terms + 1
<1>1. ids \in [tabs : SUBSET Tab, nodes : Nat, terms : Nat]
  BY DEF CoreInv, IdsOK, Given_
<1>2. ids' = [tabs |-> ids.tabs \cup {t}, nodes |-> ids.nodes + 1, terms |-> ids.terms + 1]
  BY <1>1
<1> QED BY <1>1, <1>2 DEF Given_, Later

LEMMA GivesNone == ASSUME CoreInv, ids' = ids PROVE Given_(ids') /\ Later(ids, ids')
BY DEF CoreInv, IdsOK, Given_, Later

(* A pane with what is new: it is apart from all there is.                 *)
LEMMA FreshSolo ==
  ASSUME CoreInv, NEW p \in Nat, p > ids.nodes, NEW k \in Nat, k > ids.terms,
         NEW s \in (Tab \ ids.tabs) \cup {NoTab}
  PROVE  LET u == Solo(p, k, s) IN
         /\ TreeOK(u) /\ u # NoTree /\ u.root = p /\ Nodes(u) = {p} /\ Terms(u) = {k} /\ Seeds(u) = {s} \ {NoTab}
         /\ \A b, c : From(u, b, c, ids)
<1>1. ids.nodes \in Nat /\ ids.terms \in Nat /\ ids.tabs \subseteq Tab
  BY DEF CoreInv, IdsOK, Given_
<1>2. p \in Nat \ {0} /\ s \in Tab \cup {NoTab} /\ p \notin 1 .. ids.nodes /\ k \notin 1 .. ids.terms
  BY <1>1
<1>3. s \notin ids.tabs \/ s = NoTab
  BY <1>1
<1> QED BY <1>2, <1>3, SoloOK, SoloHolds DEF From

(* A place that holds what it held.                                        *)
LEMMA StillFits ==
  ASSUME CoreInv, NEW x \in Places, NEW y \in Places, Piece(x)' = Piece(x), Given_(ids'), Later(ids, ids')
  PROVE  Fits(x, x, y) /\ Fits(x, y, x)
<1>1. TreeOK(Piece(x)) /\ Within(Piece(x), ids) /\ Given_(ids)
  BY Pieces DEF CoreInv, IdsOK
<1>2. Within(Piece(x), ids')
  BY <1>1, WithinLater
<1> QED BY <1>1, <1>2 DEF Fits, From

LEMMA RunsNone ==
  ASSUME NEW x, NEW y, stray' = stray,
         running' = (running \ (Live(x) \cup Live(y))) \cup Live(x)' \cup Live(y)'
  PROVE  Runs(x, y, {})
BY DEF Runs

(* What a task leaves of the mirror.                                       *)
LEMMA MirrorsOK ==
  ASSUME CoreInv, ~ due, NEW M, mirror' = Over(panes'.trees, M), DOMAIN M \subseteq Open \cup DOMAIN panes'.trees,
         Open \cap Open' \subseteq DOMAIN panes'.trees,
         \A t \in Open' \ DOMAIN panes'.trees : t \notin Seeds(away'.tree)
  PROVE  Mirrored
<1>1. DOMAIN panes.trees = Open
  BY Idle
<1> QED BY <1>1 DEF Mirrored

(* A task that leaves the trees as they are: one tab may open or close.     *)
LEMMA StillStep ==
  ASSUME CoreInv, ~ due, NEW t \in Tab,
         due' = TRUE \/ (strip' = strip /\ panes'.current = panes.current),
         saved' = saved, Given_(ids'), Later(ids, ids'), StripOK(strip', ids'), CurrentOK',
         AwayOK', panes'.trees = panes.trees, away'.tree = away.tree, stray' = stray,
         mirror' = Over(panes.trees, mirror),
         \A z \in Tab \ {t} : z \in Open' <=> z \in Open, t \in Open' \ Open => t \notin Seeds(away.tree),
         running' = (running \ Live(t)) \cup Live(t)'
  PROVE  CoreInv'
<1>1. DOMAIN panes.trees = Open /\ mirror = panes.trees /\ IsFcn(panes.trees) /\ DOMAIN panes.trees \subseteq ids.tabs
  BY Idle DEF CoreInv, TreesOK
<1>0. Over(panes.trees, mirror) = panes.trees
  BY <1>1 DEF Over, IsFcn
<1>2. Frame
  <2>1. due' = TRUE \/ (AgreeOK' /\ Open' \subseteq DOMAIN panes'.trees)
    BY <1>0, <1>1, Idle DEF AgreeOK, Open
  <2> QED BY <1>1, <2>1 DEF Frame, Later
<1>3. t \in Places /\ NoTab \in Places /\ NoTab \notin Open /\ NoTab \notin Open' /\ Open' \subseteq Tab
  BY OpenTabs, StripRange, WorkspaceAssumption DEF Places, Open, Given_
<1>4. \A z \in Places : Piece(z)' = Piece(z)
  BY DEF Piece, Tree
<1>5. Kept(t, t)
  BY <1>3, <1>4 DEF Kept, Places
<1>6. Fits(t, t, t)
  BY <1>3, <1>4, StillFits
<1>7. Mirrored
  <2>1. \A z \in Open' \ DOMAIN panes'.trees : z \notin Seeds(away'.tree)
    BY <1>1, <1>3
  <2>2. mirror' = Over(panes'.trees, mirror) /\ DOMAIN mirror = Open /\ DOMAIN panes'.trees = Open
    BY <1>1
  <2> QED BY <2>1, <2>2, MirrorsOK
<1>8. Runs(t, t, {})
  BY RunsNone
<1> QED BY <1>2, <1>3, <1>5, <1>6, <1>7, <1>8, TaskStep

LEMMA NewTabStep ==
  ASSUME CoreInv, ~ due, NEW t \in Tab, NewTab(t)
  PROVE  CoreInv'
<1>1. /\ t \in Tab \ ids.tabs /\ due' = TRUE /\ strip' = AddTab(strip, t, TRUE) /\ panes' = panes
      /\ mirror' = Over(panes.trees, mirror) /\ ids' = [ids EXCEPT !.tabs = @ \cup {t}]
      /\ running' = running /\ away' = away /\ saved' = saved /\ stray' = stray
  BY DEF NewTab, Fresh, Do, Dispatched
<1>2. Given_(ids') /\ Later(ids, ids') /\ ids'.tabs = ids.tabs \cup {t}
  BY <1>1, GivesTab
<1>3. StripOK(strip, ids') /\ t \notin Open /\ t \in ids'.tabs
  BY <1>1, <1>2, OpenTabs, StripLater DEF CoreInv, StripInv
<1>4. StripOK(strip', ids') /\ Open' = Open \cup {t}
  <2>1. strip' = [tabs |-> strip'.tabs, active |-> strip'.active] /\ strip'.tabs = Append(strip.tabs, t) /\ strip'.active = t
    BY <1>1 DEF AddTab
  <2>2. t \notin Range(strip.tabs)
    BY <1>3 DEF Open
  <2> QED BY <1>3, <2>1, <2>2, AddedOK DEF Open
<1>5. CurrentOK' /\ AwayOK'
  BY <1>1, <1>2, <1>4 DEF CoreInv, CurrentOK, AwayOK
<1>6. t \notin Seeds(away.tree)
  <2>1. Within(Piece(NoTab), ids)
    BY Pieces DEF Places
  <2> QED BY <1>1, <2>1 DEF Piece, Within
<1>7. Live(t) = {} /\ Live(t)' = {}
  <2>1. Tree(panes, t) = NoTree
    BY <1>3, Idle DEF Tree
  <2> QED BY <1>1, <1>3, <2>1, NoTreeOK DEF Live
<1> QED BY <1>1, <1>2, <1>4, <1>5, <1>6, <1>7, StillStep

LEMMA SelectStep ==
  ASSUME CoreInv, ~ due, NEW t \in Tab, Select(t)
  PROVE  CoreInv'
<1>1. /\ t \in Open /\ due' = TRUE /\ strip' = SetActiveTab(strip, t) /\ panes' = panes
      /\ mirror' = Over(panes.trees, mirror) /\ ids' = ids
      /\ running' = running /\ away' = away /\ saved' = saved /\ stray' = stray
  BY DEF Select, Do, Dispatched
<1>2. Given_(ids') /\ Later(ids, ids') /\ StripOK(strip, ids')
  BY <1>1, GivesNone DEF CoreInv, StripInv
<1>3. StripOK(strip', ids') /\ Open' = Open
  BY <1>1, <1>2, SetActiveTabOK DEF Open
<1>4. CurrentOK' /\ AwayOK'
  BY <1>1, <1>3 DEF CoreInv, CurrentOK, AwayOK
<1>5. Live(t)' = Live(t) /\ Live(t) \subseteq running
  BY <1>1, <1>3, Idle DEF Live
<1> QED BY <1>1, <1>2, <1>3, <1>4, <1>5, StillStep

LEMMA FocusStep ==
  ASSUME CoreInv, ~ due, NEW p, Focus(p)
  PROVE  CoreInv'
<1>1. /\ due' = due /\ strip' = strip /\ panes' = [panes EXCEPT !.active = p]
      /\ mirror' = Over(panes'.trees, mirror) /\ ids' = ids
      /\ running' = running /\ away' = away /\ saved' = saved /\ stray' = stray
  BY DEF Focus, Do, Dispatched, FocusPane
<1>2. /\ panes'.trees = panes.trees /\ panes'.tree = panes.tree /\ panes'.current = panes.current /\ PanesForm(panes')
  BY <1>1, Idle DEF PanesForm
<1>3. Given_(ids') /\ Later(ids, ids') /\ StripOK(strip', ids')
  BY <1>1, GivesNone DEF CoreInv, StripInv
<1>4. CurrentOK' /\ AwayOK'
  BY <1>1, <1>2 DEF CoreInv, CurrentOK, AwayOK, Tree, Open
<1>5. PICK t \in Tab : t \in Open
  <2>1. Tree(panes, panes.current) # NoTree
    BY Idle, NoTreeOK DEF Focus, Nodes
  <2> QED BY <2>1, Idle DEF Tree
<1>6. Live(t)' = Live(t) /\ Live(t) \subseteq running /\ Open' = Open
  BY <1>1, <1>2, Idle DEF Live, Tree, Open
<1> QED BY <1>1, <1>2, <1>3, <1>4, <1>6, StillStep

LEMMA MaximizeStep ==
  ASSUME CoreInv, ~ due, NEW p, Maximize(p)
  PROVE  CoreInv'
<1>1. /\ due' = due /\ strip' = strip /\ panes' = ToggleMaximizePane(panes, panes.current, p)
      /\ mirror' = Over(panes'.trees, mirror) /\ ids' = ids
      /\ running' = running /\ away' = away /\ saved' = saved /\ stray' = stray
  BY DEF Maximize, Do, Dispatched
<1>2. /\ panes'.trees = panes.trees /\ panes'.tree = panes.tree /\ panes'.current = panes.current /\ PanesForm(panes')
  BY <1>1, Idle DEF PanesForm, ToggleMaximizePane
<1>3. Given_(ids') /\ Later(ids, ids') /\ StripOK(strip', ids')
  BY <1>1, GivesNone DEF CoreInv, StripInv
<1>4. CurrentOK' /\ AwayOK'
  BY <1>1, <1>2 DEF CoreInv, CurrentOK, AwayOK, Tree, Open
<1>5. PICK t \in Tab : t \in Open
  <2>1. Tree(panes, panes.current) # NoTree
    BY Idle, NoTreeOK DEF Maximize, Nodes
  <2> QED BY <2>1, Idle DEF Tree
<1>6. Live(t)' = Live(t) /\ Live(t) \subseteq running /\ Open' = Open
  BY <1>1, <1>2, Idle DEF Live, Tree, Open
<1> QED BY <1>1, <1>2, <1>3, <1>4, <1>6, StillStep

(* A tree that changes: what the places hold then.                         *)
LEMMA PutPieces ==
  ASSUME CoreInv, ~ due, NEW x \in Tab, NEW T, panes'.trees = Put(panes.trees, x, T)
  PROVE  /\ IsFcn(panes'.trees) /\ DOMAIN panes'.trees = Open \cup {x}
         /\ Piece(x)' = T /\ Tree(panes, x)' = T /\ Piece(NoTab)' = away'.tree
         /\ \A z \in Tab \ {x} : Piece(z)' = Piece(z) /\ Tree(panes, z)' = Tree(panes, z)
<1>1. DOMAIN panes.trees = Open
  BY Idle
<1>2. IsFcn(panes'.trees) /\ DOMAIN panes'.trees = Open \cup {x} /\ panes'.trees[x] = T
      /\ \A z \in Open \ {x} : panes'.trees[z] = panes.trees[z]
  BY <1>1 DEF Put, IsFcn
<1>3. Tree(panes, x)' = T /\ \A z \in Tab \ {x} : Tree(panes, z)' = Tree(panes, z)
  BY <1>1, <1>2 DEF Tree
<1> QED BY <1>2, <1>3, WorkspaceAssumption DEF Piece

LEMMA CurrentPut ==
  ASSUME CoreInv, ~ due, NEW x \in Tab, NEW T, panes'.trees = Put(panes.trees, x, T), PanesForm(panes'),
         panes'.tree = IF panes.current = x THEN T ELSE panes.tree, panes'.current = panes.current, Later(ids, ids')
  PROVE  CurrentOK'
<1>1. panes.current \in ids'.tabs \cup {NoTab} /\ panes.tree = Tree(panes, panes.current)
      /\ panes.current \in Tab \cup {NoTab}
  BY Idle DEF CoreInv, CurrentOK, Later
<1>2. NoTab \notin DOMAIN panes'.trees /\ NoTab \notin DOMAIN panes.trees
  BY PutPieces, Idle, OpenTabs, WorkspaceAssumption
<1>3. panes'.tree = Tree(panes', panes'.current)
  <2>1. CASE panes.current = x
    BY <2>1 DEF Tree, Put
  <2>2. CASE panes.current # x
    <3>1. DOMAIN panes'.trees = DOMAIN panes.trees \cup {x} /\ \A y \in DOMAIN panes.trees \ {x} : panes'.trees[y] = panes.trees[y]
      BY DEF Put
    <3> QED BY <1>1, <2>2, <3>1 DEF Tree
  <2> QED BY <2>1, <2>2
<1> QED BY <1>1, <1>3 DEF CurrentOK

(* A new tab with a terminal of its own.                                   *)
LEMMA OpenStep ==
  ASSUME CoreInv, ~ due, NEW t \in Tab, t \notin ids.tabs, NEW s \in {t, NoTab}, NEW T,
         T = Solo(ids.nodes + 1, ids.terms + 1, s),
         due' = TRUE, saved' = saved, away' = away, stray' = stray,
         ids' = [ids EXCEPT !.tabs = @ \cup {t}, !.nodes = @ + 1, !.terms = @ + 1],
         StripOK(strip', ids'), Open' = Open \cup {t}, CurrentOK', panes'.trees = Put(panes.trees, t, T),
         mirror' = Over(panes'.trees, Put(mirror, t, T)), running' = running \cup {ids.terms + 1}
  PROVE  CoreInv'
<1>1. /\ Given_(ids') /\ Later(ids, ids') /\ ids'.tabs = ids.tabs \cup {t}
      /\ ids'.nodes = ids.nodes + 1 /\ ids'.terms = ids.terms + 1 /\ Given_(ids)
  BY GivesSolo DEF CoreInv, IdsOK
<1>2. /\ TreeOK(T) /\ T # NoTree /\ Nodes(T) = {ids.nodes + 1} /\ Terms(T) = {ids.terms + 1} /\ Seeds(T) = {s} \ {NoTab}
      /\ \A b, c : From(T, b, c, ids)
  <2>1. /\ ids.nodes + 1 \in Nat /\ ids.nodes + 1 > ids.nodes /\ ids.terms + 1 \in Nat /\ ids.terms + 1 > ids.terms
        /\ s \in (Tab \ ids.tabs) \cup {NoTab}
    BY <1>1 DEF Given_
  <2>2. LET u == Solo(ids.nodes + 1, ids.terms + 1, s) IN
        /\ TreeOK(u) /\ u # NoTree /\ Nodes(u) = {ids.nodes + 1} /\ Terms(u) = {ids.terms + 1}
        /\ Seeds(u) = {s} \ {NoTab} /\ \A b, c : From(u, b, c, ids)
    BY <2>1, FreshSolo
  <2> QED BY <2>2
<1>3. /\ IsFcn(panes'.trees) /\ DOMAIN panes'.trees = Open \cup {t} /\ Piece(t)' = T /\ Tree(panes, t)' = T
      /\ Piece(NoTab)' = away'.tree /\ \A z \in Tab \ {t} : Piece(z)' = Piece(z)
  BY PutPieces
<1>4. t \notin Open /\ Open \subseteq ids.tabs /\ NoTab \notin Open /\ NoTab \notin Open' /\ t \in Places
  BY OpenTabs, WorkspaceAssumption DEF Places
<1>5. AwayOK'
  BY <1>1, <1>3 DEF CoreInv, AwayOK
<1>6. Frame
  BY <1>1, <1>3, <1>4, <1>5 DEF Frame
<1>7. Mirrored
  <2>1. DOMAIN Put(mirror, t, T) = Open \cup {t}
    BY Idle DEF Put
  <2> QED BY <1>3, <2>1, MirrorsOK
<1>8. Kept(t, t)
  BY <1>3 DEF Kept, Places, Piece
<1>9. Fits(t, t, t)
  <2>1. Within(T, ids')
    BY <1>1, <1>2 DEF Within, Given_
  <2> QED BY <1>2, <1>3, <2>1 DEF Fits
<1>10. Runs(t, t, {})
  <2>1. Live(t) = {} /\ Live(t)' = {ids.terms + 1}
    BY <1>2, <1>3, <1>4 DEF Live
  <2> QED BY <2>1, RunsNone
<1> QED BY <1>4, <1>6, <1>7, <1>8, <1>9, <1>10, TaskStep

LEMMA StripAdded ==
  ASSUME CoreInv, NEW t \in Tab, t \notin Open, t \in ids'.tabs, Later(ids, ids'), NEW activate \in BOOLEAN,
         strip' = AddTab(strip, t, activate), strip.tabs = <<>> => activate
  PROVE  StripOK(strip', ids') /\ Open' = Open \cup {t}
<1>1. StripOK(strip, ids') /\ t \notin Range(strip.tabs)
  BY StripLater DEF CoreInv, StripInv, Open
<1>2. strip' = [tabs |-> strip'.tabs, active |-> strip'.active] /\ strip'.tabs = Append(strip.tabs, t)
      /\ (strip'.active = t \/ (strip.tabs # <<>> /\ strip'.active = strip.active))
  BY DEF AddTab
<1> QED BY <1>1, <1>2, AddedOK DEF Open

LEMMA NewFolderTabStep ==
  ASSUME CoreInv, ~ due, NEW t \in Tab, NewFolderTab(t)
  PROVE  CoreInv'
<1> DEFINE T == Solo(ids.nodes + 1, ids.terms + 1, t)
<1>1. /\ t \in Tab \ ids.tabs /\ due' = TRUE /\ strip' = AddTab(strip, t, TRUE) /\ panes' = AddTabTree(panes, t, T)
      /\ mirror' = Over(panes'.trees, Put(mirror, t, T))
      /\ ids' = [ids EXCEPT !.tabs = @ \cup {t}, !.nodes = @ + 1, !.terms = @ + 1]
      /\ running' = running \cup {ids.terms + 1} /\ away' = away /\ saved' = saved /\ stray' = stray
  BY DEF NewFolderTab, Fresh, Do, Dispatched, AtNode
<1> HIDE DEF T
<1>2. Later(ids, ids') /\ t \in ids'.tabs /\ t \notin Open
  BY <1>1, GivesSolo, OpenTabs
<1>3. StripOK(strip', ids') /\ Open' = Open \cup {t}
  BY <1>1, <1>2, StripAdded
<1>4. PanesAre(panes', Put(panes.trees, t, T), IF panes.current = t THEN T ELSE panes.tree, panes.current,
               panes.active, panes.of, panes.max)
  BY <1>1, Idle, AddTabTreeFields
<1>5. CurrentOK'
  BY <1>2, <1>4, CurrentPut DEF PanesAre
<1>6. panes'.trees = Put(panes.trees, t, T) /\ t \in {t, NoTab}
  BY <1>4 DEF PanesAre
<1> QED BY <1>1, <1>3, <1>5, <1>6, OpenStep DEF T

LEMMA ApiTabStep ==
  ASSUME CoreInv, ~ due, NEW t \in Tab, NEW activate \in BOOLEAN, ApiTab(t, activate)
  PROVE  CoreInv'
<1> DEFINE T == Solo(ids.nodes + 1, ids.terms + 1, NoTab)
           P == AddTabTree(panes, t, T)
<1>1. /\ t \in Tab \ ids.tabs /\ due' = TRUE /\ strip' = AddTab(strip, t, activate)
      /\ (strip.tabs = <<>> => activate) /\ panes' = Activated(P, t, activate)
      /\ mirror' = Over(panes'.trees, Put(mirror, t, T))
      /\ ids' = [ids EXCEPT !.tabs = @ \cup {t}, !.nodes = @ + 1, !.terms = @ + 1]
      /\ running' = running \cup {ids.terms + 1} /\ away' = away /\ saved' = saved /\ stray' = stray
  BY DEF ApiTab, Fresh, Do, Dispatched, AtNode
<1> HIDE DEF T
<1>2. Later(ids, ids') /\ t \in ids'.tabs /\ t \notin Open
  BY <1>1, GivesSolo, OpenTabs
<1>3. StripOK(strip', ids') /\ Open' = Open \cup {t}
  BY <1>1, <1>2, StripAdded
<1>4. PanesAre(P, Put(panes.trees, t, T), IF panes.current = t THEN T ELSE panes.tree, panes.current,
               panes.active, panes.of, panes.max)
  BY Idle, AddTabTreeFields
<1> HIDE DEF P
<1>5. panes'.trees = Put(panes.trees, t, T) /\ CurrentOK'
  <2>1. CASE ~ activate
    <3>1. panes' = P
      BY <1>1, <2>1 DEF Activated
    <3> QED BY <1>2, <1>4, <3>1, CurrentPut DEF PanesAre
  <2>2. CASE activate
    <3>1. panes' = SetActiveTabId(P, t)
      BY <1>1, <2>2 DEF Activated
    <3>2. /\ PanesForm(panes') /\ panes'.trees = P.trees /\ panes'.current = t
          /\ panes'.tree = IF t = NoTab THEN NoTree ELSE Tree(P, t)
      BY <1>4, <3>1, SetActiveTabIdFields DEF PanesAre
    <3>3. t # NoTab /\ Tree(P, t) = Tree(panes', t)
      BY <3>2, WorkspaceAssumption DEF Tree
    <3> QED BY <1>2, <1>4, <3>2, <3>3 DEF CurrentOK, PanesAre
  <2> QED BY <2>1, <2>2
<1>6. NoTab \in {t, NoTab} /\ t \notin ids.tabs
  BY <1>1
<1> QED BY <1>1, <1>3, <1>5, <1>6, OpenStep DEF T

(* A tab that comes to the strip with the tree another window held.        *)
LEMMA AttachTabStep ==
  ASSUME CoreInv, ~ due, AttachTab
  PROVE  CoreInv'
<1>1. PICK t : t = away.tab
  OBVIOUS
<1>2. PICK T : T = away.tree
  OBVIOUS
<1> DEFINE P == AddTabTree(panes, t, T)
<1>3. /\ away # NoneAway /\ t \notin Open /\ away' = NoneAway /\ due' = TRUE
      /\ strip' = SetActiveTab(AddTab(strip, t, TRUE), t) /\ panes' = SetActiveTabId(P, t)
      /\ mirror' = Over(panes'.trees, mirror) /\ running' = running \cup Terms(T)
      /\ ids' = ids /\ saved' = saved /\ stray' = stray
  BY <1>1, <1>2 DEF AttachTab, Do, Dispatched
<1>4. T # NoTree /\ t \in ids.tabs /\ t \in Tab /\ t # NoTab /\ Given_(ids') /\ Later(ids, ids')
  BY <1>1, <1>2, <1>3, OpenTabs, GivesNone, WorkspaceAssumption DEF CoreInv, AwayOK
<1>5. StripOK(strip', ids') /\ Open' = Open \cup {t}
  <2> DEFINE S == AddTab(strip, t, TRUE)
  <2>1. S = [tabs |-> S.tabs, active |-> S.active] /\ S.tabs = Append(strip.tabs, t) /\ S.active = t
    BY DEF AddTab
  <2> HIDE DEF S
  <2>2. StripOK(strip, ids') /\ t \notin Range(strip.tabs) /\ t \in ids'.tabs
    BY <1>3, <1>4 DEF CoreInv, StripInv, Open
  <2>3. StripOK(S, ids') /\ Range(S.tabs) = Range(strip.tabs) \cup {t}
    BY <2>1, <2>2, AddedOK
  <2>4. StripOK(SetActiveTab(S, t), ids') /\ SetActiveTab(S, t).tabs = S.tabs
    BY <2>3, SetActiveTabOK
  <2>5. strip' = SetActiveTab(S, t)
    BY <1>3 DEF S
  <2> QED BY <2>3, <2>4, <2>5 DEF Open
<1>6. PanesAre(P, Put(panes.trees, t, T), IF panes.current = t THEN T ELSE panes.tree, panes.current,
               panes.active, panes.of, panes.max)
  BY Idle, AddTabTreeFields
<1> HIDE DEF P
<1>7. panes'.trees = Put(panes.trees, t, T) /\ CurrentOK'
  <2>1. /\ PanesForm(panes') /\ panes'.trees = P.trees /\ panes'.current = t
        /\ panes'.tree = IF t = NoTab THEN NoTree ELSE Tree(P, t)
    BY <1>3, <1>6, SetActiveTabIdFields DEF PanesAre
  <2>2. Tree(P, t) = Tree(panes', t)
    BY <2>1 DEF Tree
  <2> QED BY <1>3, <1>4, <1>6, <2>1, <2>2 DEF CurrentOK, PanesAre
<1>8. /\ IsFcn(panes'.trees) /\ DOMAIN panes'.trees = Open \cup {t} /\ Piece(t)' = T /\ Tree(panes, t)' = T
      /\ Piece(NoTab)' = away'.tree /\ \A z \in Tab \ {t} : Piece(z)' = Piece(z)
  BY <1>4, <1>7, PutPieces
<1>9. away'.tree = NoTree /\ Piece(NoTab)' = NoTree /\ Piece(NoTab) = T
  BY <1>2, <1>3, <1>8 DEF NoneAway, Piece
<1>10. t \in Places /\ NoTab \in Places /\ NoTab \notin Open /\ Open \subseteq ids.tabs /\ NoTab \notin Open'
  BY <1>4, <1>5, OpenTabs DEF Places
<1>11. Frame
  BY <1>3, <1>4, <1>5, <1>7, <1>8, <1>10 DEF Frame, AwayOK
<1>12. Mirrored
  <2>1. DOMAIN mirror \subseteq Open \cup DOMAIN panes'.trees
    BY Idle
  <2> QED BY <1>3, <1>5, <1>8, <2>1, MirrorsOK
<1>13. Kept(t, NoTab)
  BY <1>5, <1>8 DEF Kept, Places
<1>14. Fits(t, t, NoTab) /\ Fits(NoTab, t, NoTab) /\ Apart(Piece(t)', Piece(NoTab)')
  <2>1. TreeOK(T) /\ Within(T, ids')
    BY <1>3, <1>9, <1>10, Pieces
  <2> QED BY <1>8, <1>9, <2>1, NoTreeOK DEF Fits, From, Within, Apart
<1>15. Runs(t, NoTab, {})
  <2>1. Live(t) = {} /\ Live(t)' = Terms(T) /\ Live(NoTab) = {} /\ Live(NoTab)' = {}
    BY <1>3, <1>5, <1>8, <1>10 DEF Live
  <2> QED BY <1>3, <2>1, RunsNone
<1> QED BY <1>10, <1>11, <1>12, <1>13, <1>14, <1>15, TaskStep

LEMMA CloseTabStep ==
  ASSUME CoreInv, ~ due, NEW t \in Tab, CloseTab(t)
  PROVE  CoreInv'
<1>1. /\ t \in Open /\ due' = TRUE /\ strip' = RemoveTab(strip, t) /\ panes' = panes
      /\ mirror' = Over(panes.trees, mirror) /\ ids' = ids
      /\ running' = running \ (IF t \in DOMAIN mirror THEN Terms(mirror[t]) ELSE {})
      /\ away' = away /\ saved' = saved /\ stray' = stray
  BY DEF CloseTab, Do, Dispatched
<1>2. Given_(ids') /\ Later(ids, ids') /\ StripOK(strip, ids') /\ t \in Range(strip.tabs)
  BY <1>1, GivesNone DEF CoreInv, StripInv, Open
<1>3. StripOK(strip', ids') /\ Open' = Open \ {t}
  BY <1>1, <1>2, RemoveTabOK DEF Open
<1>4. CurrentOK' /\ AwayOK'
  BY <1>1, <1>3 DEF CoreInv, CurrentOK, AwayOK
<1>5. running' = running \ Live(t) /\ Live(t)' = {}
  <2>1. t \in DOMAIN mirror /\ mirror[t] = Tree(panes, t)
    BY <1>1, Idle
  <2> QED BY <1>1, <1>3, <2>1 DEF Live
<1> QED BY <1>1, <1>2, <1>3, <1>4, <1>5, StillStep

(* A task that changes the tree of one open tab.                           *)
LEMMA PutStep ==
  ASSUME CoreInv, ~ due, NEW t \in Open, NEW T, TreeOK(T), Within(T, ids'),
         From(T, Tree(panes, t), Tree(panes, t), ids),
         due' = TRUE \/ (panes'.trees = panes.trees /\ panes'.current = panes.current),
         strip' = strip, away' = away, saved' = saved, Given_(ids'), Later(ids, ids'),
         CurrentOK', panes'.trees = Put(panes.trees, t, T), mirror' = Over(panes'.trees, mirror),
         NEW N, stray' = stray \cup N, N \subseteq (1 .. ids'.terms) \ Terms(T), N \cap (1 .. ids.terms) = {},
         running' = N \cup (running \ Terms(Tree(panes, t))) \cup Terms(T)
  PROVE  CoreInv'
<1>1. t \in Tab /\ t \in Places /\ Piece(t) = Tree(panes, t) /\ Live(t) = Terms(Tree(panes, t)) /\ DOMAIN mirror = Open
      /\ NoTab \in Places /\ NoTab # t
  BY Idle, OpenTabs, WorkspaceAssumption DEF Places
<1>2. /\ IsFcn(panes'.trees) /\ DOMAIN panes'.trees = Open /\ Piece(t)' = T /\ Tree(panes, t)' = T
      /\ Piece(NoTab)' = away'.tree /\ \A z \in Tab \ {t} : Piece(z)' = Piece(z)
  BY <1>1, PutPieces
<1>3. Open' = Open
  BY DEF Open
<1>4. StripOK(strip', ids') /\ DOMAIN panes'.trees \subseteq ids'.tabs
  BY <1>2, OpenTabs, StripLater DEF CoreInv, StripInv, Later
<1>5. AwayOK'
  <2>1. AwayOK /\ DOMAIN panes.trees = Open
    BY Idle DEF CoreInv
  <2> QED BY <1>2, <1>3, <2>1 DEF AwayOK, Later
<1>6. Frame
  <2>1. Over(panes.trees, panes.trees) = panes.trees
    BY Idle DEF Over, IsFcn
  <2>2. due' = TRUE \/ (AgreeOK' /\ Open' \subseteq DOMAIN panes'.trees)
    BY <1>2, <1>3, <2>1, Idle DEF AgreeOK
  <2> QED BY <1>2, <1>4, <1>5, <2>2 DEF Frame
<1>7. Mirrored
  BY <1>1, <1>2, <1>3, MirrorsOK
<1>8. Kept(t, t)
  BY <1>2, <1>3 DEF Kept, Places, Piece
<1>9. Fits(t, t, t)
  BY <1>1, <1>2 DEF Fits
<1>10. Runs(t, t, N)
  <2>1. Live(t)' = Terms(T)
    BY <1>2, <1>3 DEF Live
  <2> QED BY <1>1, <1>2, <2>1 DEF Runs
<1> QED BY <1>1, <1>6, <1>7, <1>8, <1>9, <1>10, TaskStep

(* A pane that closes leaves the rest of its tree.                         *)
RestOK(r, o, p) ==
  /\ TreeOK(r) /\ Within(r, ids) /\ Nodes(r) \subseteq Nodes(o) \ {p} /\ Terms(r) = Terms(o) \ {o.leaf[p].term}
  /\ Seeds(r) = Seeds(o) \ {o.leaf[p].seed} /\ DOMAIN r.leaf = DOMAIN o.leaf \ {p}
  /\ o # NoTree /\ p \in Nodes(o) /\ TreeOK(o) /\ Within(o, ids)
LiftOK(u, o, p) ==
  /\ TreeOK(u) /\ u # NoTree /\ DOMAIN u.kids = {} /\ u.root = p /\ Nodes(u) = {p} /\ p # 0
  /\ Terms(u) = {o.leaf[p].term} /\ Seeds(u) = {o.leaf[p].seed} \ {NoTab}
  /\ Terms(u) \subseteq Terms(o) /\ Seeds(u) \subseteq Seeds(o) /\ Within(u, ids)
LEMMA PaneGone ==
  ASSUME CoreInv, ~ due, NEW t \in Open, NEW p \in DOMAIN Tree(panes, t).leaf
  PROVE  LET o == Tree(panes, t)
         IN RestOK(RemoveLeaf(o, p), o, p) /\ LiftOK(Solo(p, o.leaf[p].term, o.leaf[p].seed), o, p)
<1> DEFINE o == Tree(panes, t)
           r == RemoveLeaf(o, p)
           u == Solo(p, o.leaf[p].term, o.leaf[p].seed)
<1>1. TreeOK(o) /\ Within(o, ids)
  BY Pieces, Idle DEF Places
<1> HIDE DEF o
<1>2. /\ TreeOK(r) /\ Nodes(r) \subseteq Nodes(o) \ {p} /\ DOMAIN r.leaf = DOMAIN o.leaf \ {p}
      /\ \A q \in DOMAIN r.leaf : r.leaf[q] = o.leaf[q]
  BY <1>1, RemoveLeafOK DEF o
<1>3. p \in DOMAIN o.leaf /\ p \in Nodes(o) /\ p \in Nat \ {0} /\ o.leaf[p].term \in Nat /\ o.leaf[p].seed \in Tab \cup {NoTab}
      /\ o # NoTree
  <2>1. p \in DOMAIN o.leaf /\ p \in Nodes(o)
    BY DEF o, Nodes
  <2> QED BY <1>1, <2>1, NoTreeOK DEF TreeOK, TreeForm
<1>4. Distinct(o)
  BY <1>1 DEF TreeOK
<1> HIDE DEF r
<1>5. Terms(r) = Terms(o) \ {o.leaf[p].term}
  BY <1>2, <1>3, <1>4, Contents DEF Distinct
<1>6. Seeds(r) = Seeds(o) \ {o.leaf[p].seed}
  BY <1>2, <1>3, <1>4, Contents DEF Distinct
<1>7. Within(r, ids)
  BY <1>1, <1>2, <1>5, <1>6 DEF Within
<1>8. /\ TreeOK(u) /\ u # NoTree /\ DOMAIN u.kids = {} /\ u.root = p /\ Nodes(u) = {p}
      /\ Terms(u) = {o.leaf[p].term} /\ Seeds(u) = {o.leaf[p].seed} \ {NoTab}
  BY <1>3, SoloOK, SoloHolds
<1>9. o.leaf[p].term \in Terms(o) /\ (o.leaf[p].seed # NoTab => o.leaf[p].seed \in Seeds(o))
  BY <1>3, Contents
<1> HIDE DEF u
<1>10. Terms(u) \subseteq Terms(o) /\ Seeds(u) \subseteq Seeds(o)
  BY <1>8, <1>9
<1>11. Within(u, ids)
  BY <1>1, <1>3, <1>8, <1>10 DEF Within
<1>12. LiftOK(u, o, p)
  BY <1>3, <1>8, <1>10, <1>11 DEF LiftOK
<1>13. RestOK(r, o, p)
  BY <1>1, <1>2, <1>3, <1>5, <1>6, <1>7 DEF RestOK
<1> QED BY <1>12, <1>13 DEF o, r, u

LEMMA ClosePaneStep ==
  ASSUME CoreInv, ~ due, NEW t \in Tab, NEW p, ClosePane(t, p)
  PROVE  CoreInv'
<1> DEFINE o == Tree(panes, t)
           T == RemoveLeaf(o, p)
<1>1. /\ t \in Open /\ p \in DOMAIN o.leaf /\ due' = TRUE /\ strip' = strip /\ panes' = RemovePaneFromTab(panes, t, p)
      /\ mirror' = Over(panes'.trees, mirror) /\ ids' = ids /\ running' = running \ {o.leaf[p].term}
      /\ away' = away /\ saved' = saved /\ stray' = stray
  BY DEF ClosePane, Do, Dispatched
<1>2. /\ TreeOK(T) /\ Within(T, ids) /\ Nodes(T) \subseteq Nodes(o) /\ Terms(T) = Terms(o) \ {o.leaf[p].term}
      /\ Seeds(T) \subseteq Seeds(o) /\ o # NoTree
  BY <1>1, PaneGone DEF RestOK
<1>3. Terms(o) \subseteq running /\ o = panes.trees[t]
  BY <1>1, Idle
<1>4. PanesForm(panes') /\ panes'.trees = Put(panes.trees, t, T)
      /\ panes'.tree = (IF panes.current = t THEN T ELSE panes.tree) /\ panes'.current = panes.current
  BY <1>1, <1>2, <1>3, RemovePaneFields, Idle DEF PanesAre
<1>5. Given_(ids') /\ Later(ids, ids')
  BY <1>1, GivesNone
<1>6. o.leaf[p].term \in Terms(o)
  BY <1>1, Contents
<1> HIDE DEF T, o
<1>7. CurrentOK'
  BY <1>4, <1>5, CurrentPut
<1>8. From(T, o, o, ids) /\ running' = {} \cup (running \ Terms(o)) \cup Terms(T) /\ Within(T, ids')
  BY <1>1, <1>2, <1>3, <1>6 DEF From
<1>9. stray' = stray \cup {} /\ {} \subseteq (1 .. ids'.terms) \ Terms(T) /\ {} \cap (1 .. ids.terms) = {}
  BY <1>1
<1> QED BY <1>1, <1>2, <1>4, <1>5, <1>7, <1>8, <1>9, PutStep DEF o

(* A pane that is split takes two ids, and a terminal.                     *)
LEMMA SplitGives ==
  ASSUME CoreInv, ~ due, NEW t \in Open, NEW p \in DOMAIN Tree(panes, t).leaf, NEW first \in BOOLEAN,
         NEW a \in {ids.nodes + 1, ids.nodes + 2}, NEW b \in {ids.nodes + 1, ids.nodes + 2}, a # b, Gives(2, 1)
  PROVE  LET o == Tree(panes, t)
             T == SplitLeafInTree(o, p, a, b, [term |-> ids.terms + 1, seed |-> NoTab], first)
         IN /\ TreeOK(T) /\ Within(T, ids') /\ From(T, o, o, ids) /\ Terms(T) = Terms(o) \cup {ids.terms + 1}
            /\ T # NoTree
<1> DEFINE o == Tree(panes, t)
           k == ids.terms + 1
           T == SplitLeafInTree(o, p, a, b, [term |-> k, seed |-> NoTab], first)
<1>1. TreeOK(o) /\ Within(o, ids) /\ p \in DOMAIN o.leaf
  BY Pieces, Idle DEF Places
<1>2. ids.nodes \in Nat /\ ids.terms \in Nat /\ ids'.nodes = ids.nodes + 2 /\ ids'.terms = ids.terms + 1 /\ ids'.tabs = ids.tabs
  BY GivesOK DEF CoreInv, IdsOK, Given_
<1> HIDE DEF o
<1>3. /\ a \in Nat \ {0} /\ b \in Nat \ {0} /\ k \in Nat /\ a \notin 1 .. ids.nodes /\ b \notin 1 .. ids.nodes
      /\ k \notin 1 .. ids.terms /\ a \in 1 .. ids'.nodes /\ b \in 1 .. ids'.nodes /\ k \in 1 .. ids'.terms
      /\ 1 .. ids.nodes \subseteq 1 .. ids'.nodes /\ 1 .. ids.terms \subseteq 1 .. ids'.terms
  BY <1>2
<1>4. a \notin Nodes(o) /\ b \notin Nodes(o) /\ k \notin Terms(o)
  BY <1>1, <1>3 DEF Within
<1> HIDE DEF k
<1>5. /\ TreeOK(T) /\ T # NoTree /\ Nodes(T) = Nodes(o) \cup {a, b} /\ Terms(T) = Terms(o) \cup {k} /\ Seeds(T) = Seeds(o)
  BY <1>1, <1>3, <1>4, SplitLeafOK
<1> HIDE DEF T
<1>6. Within(T, ids') /\ From(T, o, o, ids)
  BY <1>1, <1>2, <1>3, <1>5 DEF Within, From
<1> QED BY <1>5, <1>6 DEF o, k, T

LEMMA SplitStep ==
  ASSUME CoreInv, ~ due, NEW p, NEW first \in BOOLEAN, Split(p, first)
  PROVE  CoreInv'
<1>1. PICK t : t = panes.current
  OBVIOUS
<1> DEFINE o == Tree(panes, t)
           a == ids.nodes + 1
           b == ids.nodes + 2
           new == [term |-> ids.terms + 1, seed |-> NoTab]
           T == SplitLeafInTree(o, p, a, b, new, first)
<1>2. /\ p \in DOMAIN panes.tree.leaf /\ due' = TRUE /\ strip' = strip /\ panes' = SplitPane(panes, p, a, b, new, first)
      /\ mirror' = Over(panes'.trees, mirror) /\ Gives(2, 1) /\ running' = running \cup {ids.terms + 1}
      /\ away' = away /\ saved' = saved /\ stray' = stray
  BY DEF Split, Do, Dispatched, AtNode
<1>3. panes.tree = o /\ t \in Open /\ t \in Tab /\ t # NoTab /\ t \in DOMAIN panes.trees
  <2>1. Tree(panes, panes.current) # NoTree /\ panes.tree = o
    BY <1>1, <1>2, Idle, NoTreeOK DEF Nodes
  <2>2. t \in DOMAIN panes.trees
    BY <1>1, <2>1 DEF Tree
  <2> QED BY <1>1, <2>1, <2>2, Idle, OpenTabs
<1>4. Given_(ids') /\ Later(ids, ids') /\ ids'.terms = ids.terms + 1 /\ ids.terms \in Nat
  BY <1>2, GivesOK DEF CoreInv, IdsOK, Given_
<1>5. a \in {ids.nodes + 1, ids.nodes + 2} /\ b \in {ids.nodes + 1, ids.nodes + 2} /\ a # b
  BY DEF CoreInv, IdsOK, Given_
<1>6. /\ TreeOK(T) /\ Within(T, ids') /\ From(T, o, o, ids) /\ Terms(T) = Terms(o) \cup {ids.terms + 1}
  BY <1>2, <1>3, <1>5, SplitGives
<1> HIDE DEF a, b, new
<1>7. PanesForm(panes') /\ panes'.trees = Put(panes.trees, t, T)
      /\ panes'.tree = (IF panes.current = t THEN T ELSE panes.tree) /\ panes'.current = panes.current
  <2>1. LET R == SplitLeafInTree(panes.tree, p, a, b, new, first)
        IN PanesAre(SplitPane(panes, p, a, b, new, first),
                    Put(panes.trees, panes.current, R), R, panes.current, b, panes.of, Without(panes.max, panes.current))
    BY <1>1, <1>2, <1>3, SplitPaneFields, Idle
  <2> QED BY <1>1, <1>2, <1>3, <2>1 DEF PanesAre
<1> HIDE DEF T, o
<1>8. CurrentOK'
  BY <1>3, <1>4, <1>7, CurrentPut
<1>9. stray' = stray \cup {} /\ {} \subseteq (1 .. ids'.terms) \ Terms(T) /\ {} \cap (1 .. ids.terms) = {}
  BY <1>2
<1>10. running' = {} \cup (running \ Terms(o)) \cup Terms(T)
  <2>1. Terms(o) \subseteq running
    BY <1>3, Idle DEF o
  <2> QED BY <1>2, <1>6, <2>1
<1> QED BY <1>2, <1>3, <1>4, <1>6, <1>7, <1>8, <1>9, <1>10, PutStep DEF o

(* The same tree put in its place.                                         *)
LEMMA PutSame ==
  ASSUME CoreInv, ~ due, NEW t \in Open
  PROVE  Put(panes.trees, t, Tree(panes, t)) = panes.trees
<1>1. t \in DOMAIN panes.trees /\ IsFcn(panes.trees) /\ Tree(panes, t) = panes.trees[t]
  BY Idle
<1> QED BY <1>1 DEF Put, IsFcn

LEMMA ApiSplitStep ==
  ASSUME CoreInv, ~ due, NEW t \in Tab, NEW p, ApiSplit(t, p)
  PROVE  CoreInv'
<1> DEFINE o == Tree(panes, t)
           a == ids.nodes + 2
           b == ids.nodes + 1
           k == ids.terms + 1
           new == [term |-> k, seed |-> NoTab]
           target == IF p \in Nodes(o) THEN p ELSE FirstLeafId(o)
           r == SplitPaneInTab(panes, t, p, a, b, new)
<1>1. /\ t \in Open /\ p \in {0} \cup Nodes(o) /\ strip' = strip /\ panes' = r
      /\ mirror' = Over(panes'.trees, mirror) /\ running' = running \cup {k} /\ away' = away /\ saved' = saved
  BY DEF ApiSplit, Do, Dispatched, AtNode
<1>2. /\ o = NoTree => Gives(1, 1) /\ stray' = stray /\ due' = TRUE
      /\ o # NoTree /\ p \in DOMAIN o.kids => Gives(0, 1) /\ stray' = stray \cup {k}
      /\ o # NoTree /\ p \notin DOMAIN o.kids => Gives(2, 1) /\ stray' = stray /\ due' = TRUE
  <2>1. o = NoTree => Gives(1, 1) /\ stray' = stray /\ due' = TRUE
    BY DEF ApiSplit
  <2>2. o # NoTree /\ p \in DOMAIN o.kids => Gives(0, 1) /\ stray' = stray \cup {k}
    BY DEF ApiSplit
  <2>3. o # NoTree /\ p \notin DOMAIN o.kids => Gives(2, 1) /\ stray' = stray /\ due' = TRUE
    BY DEF ApiSplit
  <2> QED BY <2>1, <2>2, <2>3
<1>3. /\ TreeOK(o) /\ Within(o, ids) /\ Terms(o) \subseteq running /\ IsFiniteSet(Nodes(o)) /\ o = panes.trees[t]
      /\ PanesForm(panes) /\ panes.tree = Tree(panes, panes.current)
  BY <1>1, Pieces, Idle DEF Places
<1>4. ids.nodes \in Nat /\ ids.terms \in Nat
  BY DEF CoreInv, IdsOK, Given_
<1>5. /\ o = NoTree => Gets(r, panes, t, Solo(b, k, NoTab), b, panes.max)
      /\ o # NoTree /\ target \in DOMAIN o.leaf =>
           Gets(r, panes, t, SplitLeafInTree(panes.trees[t], target, a, b, new, FALSE), b, Without(panes.max, t))
      /\ o # NoTree /\ target \notin DOMAIN o.leaf =>
           PanesAre(r, panes.trees, IF panes.current = t THEN panes.trees[t] ELSE panes.tree, panes.current,
                    IF panes.current = t /\ t \in DOMAIN panes.of THEN panes.of[t] ELSE panes.active, panes.of, panes.max)
  <2>1. new.term = k
    OBVIOUS
  <2> HIDE DEF new, a, b, k
  <2> QED BY <1>3, <2>1, SplitInTabFields
<1> HIDE DEF r
<1>6. CASE o = NoTree
  <2> DEFINE T == Solo(b, k, NoTab)
  <2>1. Given_(ids') /\ Later(ids, ids') /\ ids'.nodes = ids.nodes + 1 /\ ids'.terms = ids.terms + 1 /\ ids'.tabs = ids.tabs
    BY <1>2, <1>6, GivesOK
  <2>2. b \in Nat /\ b > ids.nodes /\ k \in Nat /\ k > ids.terms
    BY <1>4
  <2>3. /\ TreeOK(T) /\ Nodes(T) = {b} /\ Terms(T) = {k} /\ Seeds(T) = {} /\ From(T, o, o, ids)
    <3>1. NoTab \in (Tab \ ids.tabs) \cup {NoTab}
      OBVIOUS
    <3> HIDE DEF b, k
    <3> QED BY <2>2, <3>1, FreshSolo
  <2>4. Within(T, ids')
    BY <1>4, <2>1, <2>3 DEF Within
  <2> HIDE DEF T
  <2>5. PanesForm(panes') /\ panes'.trees = Put(panes.trees, t, T)
        /\ panes'.tree = (IF panes.current = t THEN T ELSE panes.tree) /\ panes'.current = panes.current
    BY <1>1, <1>5, <1>6 DEF Gets, PanesAre, T
  <2>6. CurrentOK'
    BY <2>1, <2>5, CurrentPut
  <2>7. stray' = stray \cup {} /\ {} \subseteq (1 .. ids'.terms) \ Terms(T) /\ {} \cap (1 .. ids.terms) = {}
    BY <1>2, <1>6
  <2>8. running' = {} \cup (running \ Terms(o)) \cup Terms(T)
    BY <1>1, <1>6, <2>3, NoTreeOK
  <2> QED BY <1>1, <1>2, <1>6, <2>1, <2>3, <2>4, <2>5, <2>6, <2>7, <2>8, PutStep
<1>7. CASE o # NoTree /\ p \in DOMAIN o.kids
  <2>1. Given_(ids') /\ Later(ids, ids') /\ ids'.nodes = ids.nodes + 0 /\ ids'.terms = ids.terms + 1 /\ ids'.tabs = ids.tabs
    BY <1>2, <1>7, GivesOK
  <2>2. target = p /\ p \notin DOMAIN o.leaf
    BY <1>3, <1>7 DEF Nodes, TreeOK, TreeForm
  <2>3. PanesForm(panes') /\ panes'.trees = Put(panes.trees, t, o)
        /\ panes'.tree = (IF panes.current = t THEN o ELSE panes.tree) /\ panes'.current = panes.current
        /\ panes'.trees = panes.trees
    <3>1. Put(panes.trees, t, o) = panes.trees
      BY <1>1, PutSame
    <3> QED BY <1>1, <1>3, <1>5, <1>7, <2>2, <3>1 DEF PanesAre
  <2>4. Within(o, ids') /\ From(o, o, o, ids)
    BY <1>3, <2>1, WithinLater DEF From, CoreInv, IdsOK
  <2>5. CurrentOK'
    BY <2>1, <2>3, CurrentPut
  <2>6. stray' = stray \cup {k} /\ {k} \subseteq (1 .. ids'.terms) \ Terms(o) /\ {k} \cap (1 .. ids.terms) = {}
    BY <1>2, <1>3, <1>4, <1>7, <2>1 DEF Within
  <2>7. running' = {k} \cup (running \ Terms(o)) \cup Terms(o)
    BY <1>1, <1>3
  <2> QED BY <1>1, <1>3, <2>1, <2>3, <2>4, <2>5, <2>6, <2>7, PutStep
<1>8. CASE o # NoTree /\ p \notin DOMAIN o.kids
  <2>1. Given_(ids') /\ Later(ids, ids') /\ ids'.nodes = ids.nodes + 2 /\ ids'.terms = ids.terms + 1 /\ ids'.tabs = ids.tabs
    BY <1>2, <1>8, GivesOK
  <2>2. target \in DOMAIN o.leaf
    <3>1. CASE p \in Nodes(o)
      BY <1>8, <3>1 DEF Nodes
    <3>2. CASE p \notin Nodes(o)
      BY <1>3, <1>8, <3>2, FirstLeafOK
    <3> QED BY <3>1, <3>2
  <2>3. PICK q : q = target
    OBVIOUS
  <2>4. PICK first \in BOOLEAN : first = FALSE
    OBVIOUS
  <2> DEFINE T == SplitLeafInTree(o, q, a, b, new, first)
  <2>5. /\ TreeOK(T) /\ Within(T, ids') /\ From(T, o, o, ids) /\ Terms(T) = Terms(o) \cup {k}
    <3>1. a \in {ids.nodes + 1, ids.nodes + 2} /\ b \in {ids.nodes + 1, ids.nodes + 2} /\ a # b
      BY <1>4
    <3>2. t \in Open /\ q \in DOMAIN Tree(panes, t).leaf /\ Gives(2, 1)
      BY <1>1, <1>2, <1>8, <2>2, <2>3
    <3> QED BY <3>1, <3>2, SplitGives
  <2>6. PanesForm(panes') /\ panes'.trees = Put(panes.trees, t, T)
        /\ panes'.tree = (IF panes.current = t THEN T ELSE panes.tree) /\ panes'.current = panes.current
    <3> HIDE DEF target
    <3> QED BY <1>1, <1>3, <1>5, <1>8, <2>2, <2>3, <2>4 DEF Gets, PanesAre
  <2> HIDE DEF T
  <2>7. CurrentOK'
    BY <2>1, <2>6, CurrentPut
  <2>8. stray' = stray \cup {} /\ {} \subseteq (1 .. ids'.terms) \ Terms(T) /\ {} \cap (1 .. ids.terms) = {}
    BY <1>2, <1>8
  <2>9. running' = {} \cup (running \ Terms(o)) \cup Terms(T)
    BY <1>1, <1>3, <2>5
  <2> QED BY <1>1, <1>2, <1>8, <2>1, <2>5, <2>6, <2>7, <2>8, <2>9, PutStep
<1> QED BY <1>6, <1>7, <1>8

(* A pane put beside another: the split between them takes an id.          *)
LEMMA InsertGives ==
  ASSUME CoreInv, NEW o, TreeOK(o), Within(o, ids), NEW q \in DOMAIN o.leaf, NEW first \in BOOLEAN,
         NEW u, TreeOK(u), Within(u, ids), u # NoTree, DOMAIN u.kids = {}, Apart(o, u), Gives(1, 0)
  PROVE  LET T == InsertByZone(o, q, u, first, ids.nodes + 1)
         IN /\ TreeOK(T) /\ T # NoTree /\ Within(T, ids') /\ Terms(T) = Terms(o) \cup Terms(u)
            /\ Seeds(T) = Seeds(o) \cup Seeds(u) /\ Nodes(T) \cap (1 .. ids.nodes) = Nodes(o) \cup Nodes(u)
            /\ Nodes(T) = Nodes(o) \cup Nodes(u) \cup {ids.nodes + 1}
<1> DEFINE n == ids.nodes + 1
           T == InsertByZone(o, q, u, first, n)
<1>1. ids.nodes \in Nat /\ ids'.nodes = ids.nodes + 1 /\ ids'.terms = ids.terms + 0 /\ ids'.tabs = ids.tabs /\ ids.terms \in Nat
  BY GivesOK DEF CoreInv, IdsOK, Given_
<1>2. n \in Nat \ {0} /\ n \notin 1 .. ids.nodes /\ 1 .. ids'.nodes = (1 .. ids.nodes) \cup {n} /\ ids'.terms = ids.terms
  BY <1>1
<1>3. n \notin Nodes(o) \cup Nodes(u)
  BY <1>2 DEF Within
<1> HIDE DEF n
<1>4. /\ TreeOK(T) /\ T # NoTree /\ Nodes(T) = Nodes(o) \cup Nodes(u) \cup {n}
      /\ Terms(T) = Terms(o) \cup Terms(u) /\ Seeds(T) = Seeds(o) \cup Seeds(u)
  BY <1>2, <1>3, InsertOK
<1> HIDE DEF T
<1>5. Within(T, ids') /\ Nodes(T) \cap (1 .. ids.nodes) = Nodes(o) \cup Nodes(u)
  BY <1>1, <1>2, <1>4 DEF Within
<1> QED BY <1>4, <1>5 DEF T, n

(* A pane that is moved onto another of its tab.                           *)
LEMMA DropHereStep ==
  ASSUME CoreInv, ~ due, NEW t \in Open, NEW source, NEW target, NEW zone, Drop(t, source, t, target, zone)
  PROVE  CoreInv'
<1> DEFINE o == Tree(panes, t)
           n == ids.nodes + 1
           u == Solo(source, o.leaf[source].term, o.leaf[source].seed)
           R == RemoveLeaf(o, source)
           T == IF zone = "center" THEN SwapLeaves(o, source, target)
                ELSE InsertByZone(R, target, u, zone = "first", n)
<1>1. /\ source \in DOMAIN o.leaf /\ target \in DOMAIN o.leaf /\ source # target
      /\ due' = TRUE /\ strip' = strip /\ panes' = MovePaneWithinTab(panes, t, source, target, zone, n)
      /\ mirror' = Over(panes'.trees, mirror) /\ Gives(1, 0)
      /\ running' = running /\ away' = away /\ saved' = saved /\ stray' = stray
  BY DEF Drop, Do, Dispatched, AtNode
<1>2. TreeOK(o) /\ Within(o, ids) /\ Terms(o) \subseteq running /\ o = panes.trees[t] /\ PanesForm(panes) /\ t \in Tab
  BY Pieces, Idle DEF Places
<1>3. RestOK(R, o, source) /\ LiftOK(u, o, source)
  BY <1>1, PaneGone
<1>4. Given_(ids') /\ Later(ids, ids')
  BY <1>1, GivesOK
<1> HIDE DEF u, R, o
<1>5. R # NoTree
  BY <1>1, <1>3, NoTreeOK DEF Nodes, RestOK
<1>6. PanesForm(panes') /\ panes'.trees = Put(panes.trees, t, T)
      /\ panes'.tree = (IF panes.current = t THEN T ELSE panes.tree) /\ panes'.current = panes.current
  <2>1. o = Tree(panes, t) /\ R = RemoveLeaf(o, source) /\ u = Solo(source, o.leaf[source].term, o.leaf[source].seed)
    BY DEF o, R, u
  <2>2. o # NoTree /\ source \in Nodes(o)
    BY <1>3 DEF RestOK
  <2>3. PICK V : V = T
    OBVIOUS
  <2>4. V = IF zone = "center" THEN SwapLeaves(o, source, target) ELSE InsertByZone(R, target, u, zone = "first", n)
    BY <2>3
  <2> HIDE DEF T, n
  <2>5. PanesAre(MovePaneWithinTab(panes, t, source, target, zone, n), Put(panes.trees, t, V),
                 IF panes.current = t THEN V ELSE panes.tree, panes.current,
                 IF zone = "center" THEN target ELSE source, panes.of, panes.max)
    BY <1>1, <1>2, <1>5, <2>1, <2>2, <2>4, MoveWithinFields
  <2> QED BY <1>1, <2>3, <2>5 DEF PanesAre
<1>7. TreeOK(T) /\ Within(T, ids') /\ From(T, o, o, ids) /\ Terms(T) = Terms(o)
  <2>1. CASE zone = "center"
    <3>1. TreeOK(T) /\ Nodes(T) = Nodes(o) /\ Terms(T) = Terms(o) /\ Seeds(T) = Seeds(o)
      BY <1>1, <1>2, <2>1, SwapOK
    <3> HIDE DEF T
    <3>2. Within(T, ids)
      BY <1>2, <3>1 DEF Within
    <3> QED BY <1>4, <3>1, <3>2, WithinLater DEF From, CoreInv, IdsOK
  <2>2. CASE zone # "center"
    <3>1. PICK first \in BOOLEAN : first = (zone = "first")
      OBVIOUS
    <3>2. T = InsertByZone(R, target, u, first, n)
      BY <2>2, <3>1
    <3>3. Within(u, ids) /\ Apart(R, u)
      BY <1>3 DEF LiftOK, RestOK, Apart
    <3>4. target \in DOMAIN R.leaf
      BY <1>1, <1>3 DEF RestOK
    <3> HIDE DEF T
    <3>5. /\ TreeOK(T) /\ Within(T, ids') /\ Terms(T) = Terms(R) \cup Terms(u)
          /\ Seeds(T) = Seeds(R) \cup Seeds(u) /\ Nodes(T) \cap (1 .. ids.nodes) = Nodes(R) \cup Nodes(u)
      BY <1>1, <1>3, <3>2, <3>3, <3>4, InsertGives DEF RestOK, LiftOK
    <3> QED BY <1>3, <3>5 DEF From, RestOK, LiftOK
  <2> QED BY <2>1, <2>2
<1> HIDE DEF T
<1>8. CurrentOK'
  BY <1>2, <1>4, <1>6, CurrentPut
<1>9. stray' = stray \cup {} /\ {} \subseteq (1 .. ids'.terms) \ Terms(T) /\ {} \cap (1 .. ids.terms) = {}
  BY <1>1
<1>10. running' = {} \cup (running \ Terms(o)) \cup Terms(T)
  BY <1>1, <1>2, <1>7
<1> QED BY <1>1, <1>4, <1>6, <1>7, <1>8, <1>9, <1>10, PutStep DEF o

(* Where a pane lands: in a tab without one it is the tree.                *)
LandOK(T, b, u) ==
  /\ TreeOK(T) /\ T # NoTree /\ Within(T, ids') /\ Terms(T) = Terms(b) \cup Terms(u) /\ Seeds(T) = Seeds(b) \cup Seeds(u)
  /\ Nodes(T) \cap (1 .. ids.nodes) = Nodes(b) \cup Nodes(u) /\ Nodes(T) \subseteq Nodes(b) \cup Nodes(u) \cup {ids.nodes + 1}

LEMMA Lands ==
  ASSUME CoreInv, NEW b, TreeOK(b), Within(b, ids), NEW q, b # NoTree => q \in DOMAIN b.leaf, NEW first \in BOOLEAN,
         NEW u, TreeOK(u), Within(u, ids), u # NoTree, DOMAIN u.kids = {}, Apart(b, u), Gives(1, 0),
         NEW T, T = IF b = NoTree THEN u ELSE InsertByZone(b, q, u, first, ids.nodes + 1)
  PROVE  LandOK(T, b, u)
<1>1. CASE b = NoTree
  <2>1. Given_(ids) /\ Given_(ids') /\ Later(ids, ids')
    BY GivesOK DEF CoreInv, IdsOK
  <2>2. Within(u, ids') /\ Nodes(u) \cap (1 .. ids.nodes) = Nodes(u)
    BY <2>1, WithinLater DEF Within
  <2>3. T = u /\ Nodes(b) = {} /\ Terms(b) = {} /\ Seeds(b) = {}
    BY <1>1, NoTreeOK
  <2> QED BY <2>2, <2>3 DEF LandOK
<1>2. CASE b # NoTree
  <2>1. T = InsertByZone(b, q, u, first, ids.nodes + 1) /\ q \in DOMAIN b.leaf
    BY <1>2
  <2>2. /\ TreeOK(T) /\ T # NoTree /\ Within(T, ids') /\ Terms(T) = Terms(b) \cup Terms(u)
        /\ Seeds(T) = Seeds(b) \cup Seeds(u) /\ Nodes(T) \cap (1 .. ids.nodes) = Nodes(b) \cup Nodes(u)
        /\ Nodes(T) = Nodes(b) \cup Nodes(u) \cup {ids.nodes + 1}
    BY <2>1, InsertGives
  <2> QED BY <2>2 DEF LandOK
<1> QED BY <1>1, <1>2

(* A task that takes a pane from one open tab to another.                  *)
LEMMA MoveStep ==
  ASSUME CoreInv, ~ due, NEW from \in Open, NEW to \in Open, from # to, NEW p, NEW R, NEW T, NEW u,
         RestOK(R, Tree(panes, from), p), LiftOK(u, Tree(panes, from), p), LandOK(T, Tree(panes, to), u),
         Gives(1, 0), due' = TRUE, away' = away, saved' = saved, stray' = stray, running' = running,
         StripOK(strip', ids'), Open' = Open \/ (Open' = Open \ {from} /\ R = NoTree),
         CurrentOK', panes'.trees = Put(Put(panes.trees, from, R), to, T), mirror' = Over(panes'.trees, mirror)
  PROVE  CoreInv'
<1> DEFINE o == Tree(panes, from)
           b == Tree(panes, to)
<1>1. /\ from \in Places /\ to \in Places /\ NoTab \in Places /\ NoTab # from /\ NoTab # to /\ NoTab \notin Open
      /\ Piece(from) = o /\ Piece(to) = b /\ Live(from) = Terms(o) /\ Live(to) = Terms(b) /\ DOMAIN panes.trees = Open
      /\ Live(from) \subseteq running /\ Live(to) \subseteq running /\ DOMAIN mirror = Open /\ Open \subseteq ids.tabs
      /\ Open \subseteq Tab
  BY Idle, OpenTabs, WorkspaceAssumption DEF Places
<1>2. Apart(o, b) /\ TreeOK(b) /\ Within(b, ids)
  BY <1>1, Pieces
<1>3. Given_(ids') /\ Later(ids, ids') /\ ids.nodes + 1 \notin 1 .. ids.nodes
  BY GivesOK DEF CoreInv, IdsOK, Given_
<1>4. /\ IsFcn(panes'.trees) /\ DOMAIN panes'.trees = Open /\ panes'.trees[to] = T /\ panes'.trees[from] = R
      /\ \A z \in Open \ {from, to} : panes'.trees[z] = panes.trees[z]
  BY <1>1 DEF Put, IsFcn
<1>5. /\ Tree(panes, from)' = R /\ Tree(panes, to)' = T /\ \A z \in Tab \ {from, to} : Tree(panes, z)' = Tree(panes, z)
  BY <1>1, <1>4 DEF Tree
<1>6. /\ Piece(from)' = R /\ Piece(to)' = T /\ \A z \in Places \ {from, to} : Piece(z)' = Piece(z)
  BY <1>1, <1>5 DEF Piece, Places
<1>7. AwayOK'
  BY <1>1, <1>3, <1>4 DEF CoreInv, AwayOK, Later
<1>8. Frame
  BY <1>1, <1>3, <1>4, <1>7 DEF Frame, Later
<1>9. Mirrored
  BY <1>1, <1>4, MirrorsOK
<1>10. Kept(from, to)
  BY <1>6 DEF Kept
<1> HIDE DEF o, b
<1>11. Within(R, ids')
  BY <1>3, WithinLater DEF CoreInv, IdsOK, RestOK
<1>12. Fits(from, from, to)
  BY <1>1, <1>6, <1>11 DEF Fits, From, RestOK, o
<1>13. Fits(to, from, to)
  BY <1>1, <1>6 DEF Fits, From, LandOK, LiftOK, RestOK, o, b
<1>14. Apart(R, T)
  BY <1>2, <1>3 DEF Apart, LandOK, LiftOK, RestOK, Within, o, b
<1>15. Runs(from, to, {})
  <2>1. Live(from)' = Terms(R) /\ Live(to)' = Terms(T)
    BY <1>5, NoTreeOK DEF Live
  <2>2. Terms(o) \cup Terms(b) = Terms(R) \cup Terms(T)
    BY DEF LandOK, LiftOK, RestOK, o, b
  <2> QED BY <1>1, <2>1, <2>2, RunsNone
<1> QED BY <1>1, <1>6, <1>8, <1>9, <1>10, <1>12, <1>13, <1>14, <1>15, TaskStep

LEMMA CurrentTwo ==
  ASSUME CoreInv, ~ due, NEW x \in Tab, NEW y \in Tab, x # y, NEW R, NEW T,
         panes'.trees = Put(Put(panes.trees, x, R), y, T), PanesForm(panes'),
         panes'.tree = IF panes.current = y THEN T ELSE IF panes.current = x THEN R ELSE panes.tree,
         panes'.current = panes.current, Later(ids, ids')
  PROVE  CurrentOK'
<1>1. panes.current \in ids'.tabs \cup {NoTab} /\ panes.tree = Tree(panes, panes.current)
  BY Idle DEF CoreInv, CurrentOK, Later
<1>2. /\ DOMAIN panes'.trees = DOMAIN panes.trees \cup {x, y} /\ panes'.trees[x] = R /\ panes'.trees[y] = T
      /\ \A z \in DOMAIN panes.trees \ {x, y} : panes'.trees[z] = panes.trees[z]
  BY DEF Put
<1>3. panes'.tree = Tree(panes', panes'.current)
  <2>1. CASE panes.current = y
    BY <1>2, <2>1 DEF Tree
  <2>2. CASE panes.current = x
    BY <1>2, <2>2 DEF Tree
  <2>3. CASE panes.current \notin {x, y}
    BY <1>1, <1>2, <2>3 DEF Tree
  <2> QED BY <2>1, <2>2, <2>3
<1> QED BY <1>1, <1>3 DEF CurrentOK

LEMMA RegroupStep ==
  ASSUME CoreInv, ~ due, NEW from \in Open, NEW p, NEW to \in Open, Regroup(from, p, to)
  PROVE  CoreInv'
<1> DEFINE o == Tree(panes, from)
           b == Tree(panes, to)
           n == ids.nodes + 1
           u == Solo(p, o.leaf[p].term, o.leaf[p].seed)
           R == RemoveLeaf(o, p)
           q == FirstLeafId(b)
           P == RemovePaneFromTab(panes, from, p)
           T == IF b = NoTree THEN u ELSE InsertByZone(b, q, u, FALSE, n)
<1>1. /\ from # to /\ p \in DOMAIN o.leaf /\ due' = TRUE /\ strip' = strip /\ panes' = InsertPaneIntoTab(P, to, q, u, FALSE, n)
      /\ mirror' = Over(panes'.trees, mirror) /\ Gives(1, 0)
      /\ running' = running /\ away' = away /\ saved' = saved /\ stray' = stray
  BY DEF Regroup, Do, Dispatched, AtNode
<1>2. RestOK(R, o, p) /\ LiftOK(u, o, p)
  BY <1>1, PaneGone
<1>3. /\ TreeOK(b) /\ Within(b, ids) /\ IsFiniteSet(Nodes(b)) /\ Apart(o, b) /\ PanesForm(panes) /\ from \in Tab /\ to \in Tab
      /\ o = panes.trees[from] /\ b = panes.trees[to] /\ to \in DOMAIN panes.trees
  BY <1>1, Pieces, Idle DEF Places
<1>4. Given_(ids') /\ Later(ids, ids') /\ StripOK(strip', ids') /\ Open' = Open
  BY <1>1, GivesOK, StripLater DEF CoreInv, StripInv, Open
<1>5. IF b = NoTree THEN q = 0 ELSE q \in DOMAIN b.leaf /\ q # 0
  <2>1. b = NoTree => q = 0
    BY DEF FirstLeafId
  <2>2. b # NoTree => q \in DOMAIN b.leaf
    BY <1>3, FirstLeafOK
  <2>3. 0 \notin DOMAIN b.leaf
    BY <1>3, RootIn DEF Nodes
  <2> QED BY <2>1, <2>2, <2>3
<1> HIDE DEF o, b, n, u, R, q
<1>6. PanesAre(P, Put(panes.trees, from, R), IF panes.current = from THEN R ELSE panes.tree, panes.current,
               IF panes.current = from /\ panes.active # 0 /\ panes.active \notin Nodes(R) THEN FirstLeafId(R) ELSE panes.active,
               panes.of, IF from \in DOMAIN panes.max /\ panes.max[from] = p THEN Without(panes.max, from) ELSE panes.max)
  <2>1. Tree(panes, from) # NoTree /\ R = RemoveLeaf(panes.trees[from], p)
    BY <1>2, <1>3 DEF RestOK, o, R
  <2> QED BY <1>3, <2>1, RemovePaneFields
<1> HIDE DEF P
<1>7. to \in DOMAIN P.trees /\ P.trees[to] = b
  BY <1>1, <1>3, <1>6 DEF PanesAre, Put
<1>8. Gets(panes', P, to, T, u.root, Without(P.max, to))
  <2>1. (P.trees[to] = NoTree \/ q = 0) <=> b = NoTree
    BY <1>5, <1>7
  <2>2. PanesForm(P)
    BY <1>6 DEF PanesAre
  <2>3. Gets(InsertPaneIntoTab(P, to, q, u, FALSE, n), P, to,
             IF P.trees[to] = NoTree \/ q = 0 THEN u ELSE InsertByZone(P.trees[to], q, u, FALSE, n), u.root, Without(P.max, to))
    BY <1>7, <2>2, InsertPaneFields
  <2> QED BY <1>1, <1>7, <2>1, <2>3
<1>9. /\ PanesForm(panes') /\ panes'.trees = Put(Put(panes.trees, from, R), to, T) /\ panes'.current = panes.current
      /\ panes'.tree = IF panes.current = to THEN T ELSE IF panes.current = from THEN R ELSE panes.tree
  BY <1>6, <1>8 DEF Gets, PanesAre
<1>10. LandOK(T, b, u)
  <2>1. PICK first \in BOOLEAN : first = FALSE
    OBVIOUS
  <2>2. T = IF b = NoTree THEN u ELSE InsertByZone(b, q, u, first, ids.nodes + 1)
    BY <2>1 DEF n
  <2>3. /\ TreeOK(u) /\ Within(u, ids) /\ u # NoTree /\ DOMAIN u.kids = {} /\ Apart(b, u)
    BY <1>2, <1>3 DEF LiftOK, RestOK, Apart
  <2>4. b # NoTree => q \in DOMAIN b.leaf
    BY <1>5
  <2> HIDE DEF T
  <2> QED BY <1>1, <1>3, <2>2, <2>3, <2>4, Lands
<1> HIDE DEF T
<1>11. CurrentOK'
  BY <1>1, <1>3, <1>4, <1>9, CurrentTwo
<1> QED BY <1>1, <1>2, <1>4, <1>9, <1>10, <1>11, MoveStep DEF o, b

(* A pane dropped on another tab, which closes the tab it leaves empty.    *)
LEMMA DropThereStep ==
  ASSUME CoreInv, ~ due, NEW from \in Open, NEW source, NEW to \in Open, NEW target, NEW zone, from # to,
         Drop(from, source, to, target, zone)
  PROVE  CoreInv'
<1> DEFINE o == Tree(panes, from)
           b == Tree(panes, to)
           n == ids.nodes + 1
           u == Solo(source, o.leaf[source].term, o.leaf[source].seed)
           R == RemoveLeaf(o, source)
           T == IF b = NoTree THEN u ELSE InsertByZone(b, target, u, zone = "first", n)
           P == MovePaneToTab(panes, from, source, to, target, zone, n)
<1>1. /\ source \in DOMAIN o.leaf /\ target \in DOMAIN b.leaf /\ due' = TRUE /\ panes' = P
      /\ strip' = IF Tree(P, from) = NoTree THEN RemoveTab(strip, from) ELSE strip
      /\ mirror' = Over(panes'.trees, mirror) /\ Gives(1, 0)
      /\ running' = running /\ away' = away /\ saved' = saved /\ stray' = stray
  <2>1. Do(IF Tree(P, from) = NoTree THEN RemoveTab(strip, from) ELSE strip, P, mirror)
    BY DEF Drop, AtNode
  <2>2. source \in DOMAIN o.leaf /\ target \in DOMAIN b.leaf /\ Gives(1, 0) /\ running' = running /\ away' = away
        /\ saved' = saved /\ stray' = stray
    BY DEF Drop
  <2> HIDE DEF P
  <2> QED BY <2>1, <2>2 DEF Do, Dispatched
<1>2. RestOK(R, o, source) /\ LiftOK(u, o, source)
  BY <1>1, PaneGone
<1>3. /\ TreeOK(b) /\ Within(b, ids) /\ Apart(o, b) /\ PanesForm(panes) /\ from \in Tab /\ to \in Tab
      /\ o = panes.trees[from] /\ b = panes.trees[to] /\ to \in DOMAIN panes.trees
  BY <1>1, Pieces, Idle DEF Places
<1>4. Given_(ids') /\ Later(ids, ids') /\ StripOK(strip, ids')
  BY <1>1, GivesOK, StripLater DEF CoreInv, StripInv
<1>5. /\ PanesForm(panes') /\ panes'.trees = Put(Put(panes.trees, from, R), to, T) /\ panes'.current = to
      /\ panes'.tree = T
  <2>1. PICK V : V = T
    OBVIOUS
  <2>2. Tree(panes, from) # NoTree /\ source \in Nodes(Tree(panes, from)) /\ R = RemoveLeaf(panes.trees[from], source)
        /\ u = Solo(source, panes.trees[from].leaf[source].term, panes.trees[from].leaf[source].seed)
        /\ V = IF panes.trees[to] = NoTree THEN u ELSE InsertByZone(panes.trees[to], target, u, zone = "first", n)
    BY <1>2, <1>3, <2>1 DEF RestOK
  <2> HIDE DEF o, b, u, R, T, P, n
  <2>3. PanesAre(MovePaneToTab(panes, from, source, to, target, zone, n), Put(Put(panes.trees, from, R), to, V), V, to, source,
                  Put(panes.of, to, source),
                  Without(IF from \in DOMAIN panes.max /\ panes.max[from] = source THEN Without(panes.max, from) ELSE panes.max, to))
    BY <1>3, <2>2, MoveToFields
  <2> QED BY <1>1, <2>1, <2>3 DEF PanesAre, P
<1> HIDE DEF o, b, n, u, R, P
<1>6. LandOK(T, b, u)
  <2>1. PICK first \in BOOLEAN : first = (zone = "first")
    OBVIOUS
  <2>2. T = IF b = NoTree THEN u ELSE InsertByZone(b, target, u, first, ids.nodes + 1)
    BY <2>1 DEF n
  <2>3. /\ TreeOK(u) /\ Within(u, ids) /\ u # NoTree /\ DOMAIN u.kids = {} /\ Apart(b, u)
    BY <1>2, <1>3 DEF LiftOK, RestOK, Apart
  <2>4. b # NoTree => target \in DOMAIN b.leaf
    BY <1>1
  <2> HIDE DEF T
  <2> QED BY <1>1, <1>3, <2>2, <2>3, <2>4, Lands
<1> HIDE DEF T
<1>7. CurrentOK' /\ panes'.trees[from] = R /\ from \in DOMAIN panes'.trees
  <2>1. panes'.trees[to] = T /\ to \in DOMAIN panes'.trees /\ panes'.trees[from] = R /\ from \in DOMAIN panes'.trees
    BY <1>5 DEF Put
  <2>2. to \in ids'.tabs
    BY <1>4, OpenTabs DEF Later
  <2> QED BY <1>5, <2>1, <2>2 DEF CurrentOK, Tree
<1>8. StripOK(strip', ids') /\ (Open' = Open \/ (Open' = Open \ {from} /\ R = NoTree))
  <2>1. CASE Tree(P, from) = NoTree
    <3>1. strip' = RemoveTab(strip, from) /\ R = NoTree
      BY <1>1, <1>7, <2>1 DEF Tree
    <3>2. from \in Range(strip.tabs)
      BY DEF Open
    <3> QED BY <1>4, <3>1, <3>2, RemoveTabOK DEF Open
  <2>2. CASE Tree(P, from) # NoTree
    BY <1>1, <1>4, <2>2 DEF Open
  <2> QED BY <2>1, <2>2
<1> QED BY <1>1, <1>2, <1>5, <1>6, <1>7, <1>8, MoveStep DEF o, b

(* A task that gives another window the tree u, and leaves R of the tab.   *)
LEMMA LeaveStep ==
  ASSUME CoreInv, ~ due, NEW t \in Open, away.tree = NoTree, NEW R, NEW u, NEW x, NEW P,
         TreeOK(R), Within(R, ids), TreeOK(u), Within(u, ids), u # NoTree, Apart(R, u),
         Nodes(R) \cup Nodes(u) \subseteq Nodes(Tree(panes, t)), Seeds(R) \cup Seeds(u) \subseteq Seeds(Tree(panes, t)),
         Terms(u) \subseteq Terms(Tree(panes, t)), Terms(R) = Terms(Tree(panes, t)) \ Terms(u),
         PanesForm(P), P.trees = Put(panes.trees, t, R), P.current = panes.current,
         P.current # t => P.tree = panes.tree, P.current = t /\ R # NoTree => P.tree = R,
         Taken(t, P), away' = [tab |-> x, tree |-> u], x \in ids'.tabs, (x = t /\ R = NoTree) \/ x \notin Open,
         Given_(ids'), Later(ids, ids'), saved' = saved, stray' = stray, running' = running \ Terms(u)
  PROVE  CoreInv'
<1> DEFINE o == Tree(panes, t)
<1>1. /\ t \in Tab /\ t \in Places /\ NoTab \in Places /\ NoTab # t /\ NoTab \notin Open /\ DOMAIN mirror = Open
      /\ Piece(t) = o /\ Live(t) = Terms(o) /\ DOMAIN panes.trees = Open /\ Live(t) \subseteq running
      /\ Open \subseteq ids.tabs /\ Open \subseteq Tab /\ Piece(NoTab) = NoTree /\ panes.tree = Tree(panes, panes.current)
      /\ panes.current \in ids.tabs \cup {NoTab}
  BY Idle, OpenTabs, WorkspaceAssumption DEF Places, Piece, CoreInv, CurrentOK
<1>2. /\ DOMAIN P.trees = Open /\ P.trees[t] = R /\ IsFcn(P.trees) /\ Tree(P, t) = R
      /\ \A z \in Open \ {t} : P.trees[z] = panes.trees[z]
  BY <1>1 DEF Put, IsFcn, Tree
<1>3. StripOK(strip, ids') /\ t \in Range(strip.tabs)
  BY StripLater DEF CoreInv, StripInv, Open
<1>4. /\ due' = TRUE /\ mirror' = Over(panes'.trees, mirror) /\ StripOK(strip', ids')
      /\ Open' = (IF R = NoTree THEN Open \ {t} ELSE Open)
      /\ IsFcn(panes'.trees) /\ DOMAIN panes'.trees = Open' /\ (R # NoTree => panes'.trees[t] = R)
      /\ \A z \in Open \ {t} : panes'.trees[z] = panes.trees[z]
      /\ PanesForm(panes') /\ panes'.current = panes.current
      /\ panes'.tree = IF panes.current = t THEN R ELSE panes.tree
  <2>1. CASE R = NoTree
    <3>1. /\ due' = TRUE /\ strip' = RemoveTab(strip, t) /\ panes' = RemoveTabTrees(P, {t})
          /\ mirror' = Over(panes'.trees, mirror)
      BY <1>2, <2>1 DEF Taken, Do, Dispatched, RemoveTabTree
    <3>2. StripOK(strip', ids') /\ Open' = Open \ {t}
      BY <1>3, <3>1, RemoveTabOK DEF Open
    <3>3. PanesAre(panes', Restrict(P.trees, DOMAIN P.trees \ {t}), IF P.current \in {t} THEN NoTree ELSE P.tree, P.current,
                   IF P.current \in {t} THEN 0 ELSE P.active,
                   Restrict(P.of, DOMAIN P.of \ {t}), Restrict(P.max, DOMAIN P.max \ {t}))
      BY <3>1, RemoveTabTreesFields
    <3>4. IsFcn(panes'.trees) /\ DOMAIN panes'.trees = Open \ {t} /\ \A z \in Open \ {t} : panes'.trees[z] = panes.trees[z]
      BY <1>2, <3>3 DEF PanesAre, Restrict, IsFcn
    <3> QED BY <2>1, <3>1, <3>2, <3>3, <3>4 DEF PanesAre
  <2>2. CASE R # NoTree
    <3>1. due' = TRUE /\ strip' = strip /\ panes' = P /\ mirror' = Over(panes'.trees, mirror)
      BY <1>2, <2>2 DEF Taken, Do, Dispatched
    <3> QED BY <1>2, <1>3, <2>2, <3>1 DEF Open
  <2> QED BY <2>1, <2>2
<1>5. Tree(panes, t)' = R /\ \A z \in (Tab \cup {NoTab}) \ {t} : Tree(panes, z)' = Tree(panes, z)
  BY <1>1, <1>4 DEF Tree
<1>6. Piece(t)' = R /\ Piece(NoTab)' = u /\ \A z \in Places \ {t, NoTab} : Piece(z)' = Piece(z)
  BY <1>1, <1>5 DEF Piece, Places
<1>7. CurrentOK'
  <2>1. panes'.current \in ids'.tabs \cup {NoTab}
    BY <1>1, <1>4 DEF Later
  <2>2. panes'.tree = Tree(panes', panes'.current)
    <3>1. CASE panes.current = t
      BY <1>4, <1>5, <3>1
    <3>2. CASE panes.current # t
      <4>1. Tree(panes', panes.current) = Tree(panes, panes.current)
        BY <1>1, <1>4, <3>2 DEF Tree
      <4> QED BY <1>1, <1>4, <3>2, <4>1
    <3> QED BY <3>1, <3>2
  <2> QED BY <1>4, <2>1, <2>2 DEF CurrentOK
<1>8. AwayOK'
  <2>1. x \notin Open' /\ x \notin DOMAIN panes'.trees
    BY <1>4
  <2> QED BY <2>1 DEF AwayOK
<1>9. Frame
  BY <1>1, <1>4, <1>7, <1>8 DEF Frame, Later
<1>10. Mirrored
  BY <1>1, <1>4, MirrorsOK
<1>11. Kept(t, NoTab)
  BY <1>4, <1>6 DEF Kept
<1>12. Within(R, ids') /\ Within(u, ids')
  BY WithinLater DEF CoreInv, IdsOK
<1> HIDE DEF o
<1>13. Fits(t, t, NoTab)
  BY <1>1, <1>6, <1>12 DEF Fits, From, o
<1>14. Fits(NoTab, t, NoTab)
  BY <1>1, <1>6, <1>12 DEF Fits, From, o
<1>15. Runs(t, NoTab, {})
  <2>1. Live(t)' = Terms(R)
    BY <1>4, <1>5, NoTreeOK DEF Live
  <2>2. Live(NoTab) = {} /\ Live(NoTab)' = {}
    BY <1>1, <1>4 DEF Live
  <2> QED BY <1>1, <2>1, <2>2, RunsNone DEF o
<1> QED BY <1>1, <1>6, <1>9, <1>10, <1>11, <1>13, <1>14, <1>15, TaskStep

LEMMA DetachPaneStep ==
  ASSUME CoreInv, ~ due, NEW t \in Tab, NEW p, DetachPane(t, p)
  PROVE  CoreInv'
<1> DEFINE o == Tree(panes, t)
           u == Solo(p, o.leaf[p].term, o.leaf[p].seed)
           R == RemoveLeaf(o, p)
           P == RemovePaneFromTab(panes, t, p)
<1>1. PICK x \in Tab \ ids.tabs : away' = [tab |-> x, tree |-> u] /\ ids' = [ids EXCEPT !.tabs = @ \cup {x}]
  BY DEF DetachPane
<1>2. /\ t \in Open /\ away.tree = NoTree /\ p \in DOMAIN o.leaf /\ Taken(t, P) /\ running' = running \ {o.leaf[p].term}
      /\ saved' = saved /\ stray' = stray
  BY DEF DetachPane
<1>3. RestOK(R, o, p) /\ LiftOK(u, o, p)
  BY <1>2, PaneGone
<1>4. Given_(ids') /\ Later(ids, ids') /\ x \in ids'.tabs /\ x \notin Open
  BY <1>1, GivesTab, OpenTabs
<1>5. PanesForm(panes) /\ o = panes.trees[t]
  BY <1>2, Idle
<1> HIDE DEF o, u, R
<1>6. PanesAre(P, Put(panes.trees, t, R), IF panes.current = t THEN R ELSE panes.tree, panes.current,
               IF panes.current = t /\ panes.active # 0 /\ panes.active \notin Nodes(R) THEN FirstLeafId(R) ELSE panes.active,
               panes.of, IF t \in DOMAIN panes.max /\ panes.max[t] = p THEN Without(panes.max, t) ELSE panes.max)
  <2>1. Tree(panes, t) # NoTree /\ R = RemoveLeaf(panes.trees[t], p)
    BY <1>3, <1>5 DEF RestOK, o, R
  <2> QED BY <1>5, <2>1, RemovePaneFields
<1> HIDE DEF P
<1>7. /\ PanesForm(P) /\ P.trees = Put(panes.trees, t, R) /\ P.current = panes.current
      /\ (P.current # t => P.tree = panes.tree) /\ (P.current = t /\ R # NoTree => P.tree = R)
  BY <1>6 DEF PanesAre
<1>8. /\ TreeOK(R) /\ Within(R, ids) /\ TreeOK(u) /\ Within(u, ids) /\ u # NoTree /\ Apart(R, u)
      /\ Nodes(R) \cup Nodes(u) \subseteq Nodes(Tree(panes, t)) /\ Seeds(R) \cup Seeds(u) \subseteq Seeds(Tree(panes, t))
      /\ Terms(u) \subseteq Terms(Tree(panes, t)) /\ Terms(R) = Terms(Tree(panes, t)) \ Terms(u)
      /\ running' = running \ Terms(u)
  BY <1>2, <1>3 DEF RestOK, LiftOK, Apart, o
<1> QED BY <1>1, <1>2, <1>4, <1>7, <1>8, LeaveStep

LEMMA DetachTabStep ==
  ASSUME CoreInv, ~ due, NEW t \in Tab, DetachTab(t)
  PROVE  CoreInv'
<1> DEFINE o == Tree(panes, t)
           P == [panes EXCEPT !.trees[t] = NoTree]
<1>1. /\ t \in Open /\ away.tree = NoTree /\ o # NoTree /\ Taken(t, P) /\ running' = running \ Terms(o)
      /\ away' = [tab |-> t, tree |-> o] /\ saved' = saved /\ stray' = stray /\ ids' = ids
  BY DEF DetachTab
<1>2. Given_(ids') /\ Later(ids, ids') /\ t \in ids'.tabs
  BY <1>1, GivesNone, OpenTabs
<1>3. TreeOK(o) /\ Within(o, ids) /\ PanesForm(panes) /\ t \in DOMAIN panes.trees
  BY <1>1, Pieces, Idle DEF Places
<1>4. PanesForm(P) /\ P.trees = Put(panes.trees, t, NoTree) /\ P.current = panes.current /\ P.tree = panes.tree
  <2>1. [panes.trees EXCEPT ![t] = NoTree] = Put(panes.trees, t, NoTree)
    BY <1>3 DEF Put
  <2>2. PanesForm(P) /\ P.trees = [panes.trees EXCEPT ![t] = NoTree] /\ P.current = panes.current /\ P.tree = panes.tree
    BY <1>3 DEF PanesForm
  <2> QED BY <2>1, <2>2
<1>5. PICK R : R = NoTree
  OBVIOUS
<1> HIDE DEF P
<1>6. TreeOK(R) /\ Nodes(R) = {} /\ Terms(R) = {} /\ Seeds(R) = {} /\ Within(R, ids) /\ Apart(R, o)
  BY <1>5, NoTreeOK DEF Within, Apart
<1>7. Terms(R) = Terms(o) \ Terms(o) /\ Nodes(R) \cup Nodes(o) \subseteq Nodes(o) /\ Seeds(R) \cup Seeds(o) \subseteq Seeds(o)
  BY <1>6
<1>8. P.trees = Put(panes.trees, t, R) /\ (P.current # t => P.tree = panes.tree) /\ (P.current = t /\ R # NoTree => P.tree = R)
      /\ ((t = t /\ R = NoTree) \/ t \notin Open)
  BY <1>4, <1>5
<1> QED BY <1>1, <1>2, <1>3, <1>4, <1>6, <1>7, <1>8, LeaveStep

(* A pane that comes to an open tab from another window.                   *)
LEMMA AttachPaneStep ==
  ASSUME CoreInv, ~ due, NEW t \in Tab, NEW target, AttachPane(t, target)
  PROVE  CoreInv'
<1>1. PICK u : u = away.tree
  OBVIOUS
<1>2. PICK first \in BOOLEAN : first = FALSE
  OBVIOUS
<1> DEFINE b == Tree(panes, t)
           n == ids.nodes + 1
           P == InsertPaneIntoTab(panes, t, target, u, first, n)
           T == InsertByZone(b, target, u, first, n)
<1>3. /\ away # NoneAway /\ DOMAIN u.kids = {} /\ away' = NoneAway /\ target \in DOMAIN b.leaf /\ due' = TRUE
      /\ strip' = SetActiveTab(strip, t) /\ panes' = SetActiveTabId(P, t) /\ mirror' = Over(panes'.trees, mirror)
      /\ Gives(1, 0) /\ running' = running \cup Terms(u) /\ saved' = saved /\ stray' = stray
  BY <1>1, <1>2 DEF AttachPane, Do, Dispatched, AtNode
<1>4. b # NoTree /\ t \in Open
  <2>1. b # NoTree
    BY <1>3, NoTreeOK DEF Nodes
  <2> QED BY <2>1, Idle
<1>5. Given_(ids') /\ Later(ids, ids') /\ t \in Range(strip.tabs) /\ t \in ids'.tabs
  BY <1>3, <1>4, GivesOK, OpenTabs DEF Later, Open
<1>6. StripOK(strip', ids') /\ Open' = Open
  BY <1>3, <1>5, StripLater, SetActiveTabOK DEF CoreInv, StripInv, Open
<1>7. /\ t \in Places /\ NoTab \in Places /\ NoTab # t /\ NoTab \notin Open /\ DOMAIN mirror = Open
      /\ Piece(t) = b /\ Live(t) = Terms(b) /\ DOMAIN panes.trees = Open /\ Live(t) \subseteq running
      /\ Piece(NoTab) = u /\ b = panes.trees[t] /\ PanesForm(panes)
  BY <1>1, <1>4, Idle, OpenTabs, WorkspaceAssumption DEF Places, Piece
<1>8. TreeOK(b) /\ Within(b, ids) /\ TreeOK(u) /\ Within(u, ids) /\ Apart(b, u) /\ u # NoTree
  BY <1>1, <1>3, <1>7, Pieces DEF CoreInv, AwayOK
<1>9. LandOK(T, b, u)
  <2>1. /\ TreeOK(T) /\ T # NoTree /\ Within(T, ids') /\ Terms(T) = Terms(b) \cup Terms(u)
        /\ Seeds(T) = Seeds(b) \cup Seeds(u) /\ Nodes(T) \cap (1 .. ids.nodes) = Nodes(b) \cup Nodes(u)
        /\ Nodes(T) = Nodes(b) \cup Nodes(u) \cup {ids.nodes + 1}
    BY <1>3, <1>8, InsertGives
  <2> HIDE DEF T
  <2> QED BY <2>1 DEF LandOK
<1>10. panes'.trees = Put(panes.trees, t, T) /\ CurrentOK'
  <2>1. target # 0 /\ t \in DOMAIN panes.trees
    BY <1>3, <1>4, <1>7, <1>8, RootIn DEF Nodes
  <2>2. T = IF panes.trees[t] = NoTree \/ target = 0 THEN u ELSE InsertByZone(panes.trees[t], target, u, first, n)
    BY <1>4, <1>7, <2>1
  <2> HIDE DEF T, b, n
  <2>3. Gets(P, panes, t, T, u.root, Without(panes.max, t))
    BY <1>7, <2>1, <2>2, InsertPaneFields
  <2> HIDE DEF P
  <2>4. /\ PanesForm(panes') /\ panes'.trees = P.trees /\ panes'.current = t
        /\ panes'.tree = IF t = NoTab THEN NoTree ELSE Tree(P, t)
    BY <1>3, <2>3, SetActiveTabIdFields DEF Gets, PanesAre
  <2>5. Tree(P, t) = Tree(panes', t)
    BY <2>4 DEF Tree
  <2> QED BY <1>5, <1>7, <2>3, <2>4, <2>5 DEF CurrentOK, Gets, PanesAre
<1> HIDE DEF T, b, P
<1>11. /\ IsFcn(panes'.trees) /\ DOMAIN panes'.trees = Open /\ Piece(t)' = T /\ Tree(panes, t)' = T
       /\ Piece(NoTab)' = away'.tree /\ \A z \in Tab \ {t} : Piece(z)' = Piece(z)
  BY <1>4, <1>10, PutPieces
<1>12. away'.tree = NoTree /\ Piece(NoTab)' = NoTree
  BY <1>3, <1>11 DEF NoneAway
<1>13. Frame
  BY <1>3, <1>5, <1>6, <1>10, <1>11, OpenTabs DEF Frame, AwayOK, Later
<1>14. Mirrored
  BY <1>3, <1>6, <1>7, <1>11, MirrorsOK
<1>15. Kept(t, NoTab)
  BY <1>6, <1>11 DEF Kept, Places
<1>16. Fits(t, t, NoTab)
  BY <1>7, <1>8, <1>9, <1>11 DEF Fits, From, LandOK
<1>17. Fits(NoTab, t, NoTab) /\ Apart(Piece(t)', Piece(NoTab)')
  BY <1>12, NoTreeOK DEF Fits, From, Within, Apart
<1>18. Runs(t, NoTab, {})
  <2>1. Live(t)' = Terms(T) /\ Live(NoTab) = {} /\ Live(NoTab)' = {}
    BY <1>4, <1>6, <1>7, <1>11 DEF Live
  <2> QED BY <1>3, <1>7, <1>9, <2>1, RunsNone DEF LandOK
<1> QED BY <1>7, <1>13, <1>14, <1>15, <1>16, <1>17, <1>18, TaskStep

LEMMA SaveStateStep ==
  ASSUME CoreInv, ~ due, SaveState
  PROVE  CoreInv'
<1>1. /\ saved' = [strip |-> strip, mirror |-> mirror] /\ strip' = strip /\ panes' = panes /\ mirror' = mirror /\ due' = due
      /\ ids' = ids /\ running' = running /\ away' = away /\ stray' = stray
  BY DEF SaveState
<1>2. mirror = panes.trees /\ IsFcn(mirror) /\ DOMAIN mirror = Open /\ \A t \in DOMAIN mirror : t \in Places /\ mirror[t] = Piece(t)
  BY Idle DEF Places
<1>3. Forest(mirror, ids)
  BY <1>2, Pieces DEF Forest
<1>4. SavedOK'
  BY <1>1, <1>2, <1>3, OpenTabs DEF SavedOK, CoreInv, StripInv
<1>5. /\ IdsOK' /\ ForestOK' /\ TreesOK' /\ StripInv' /\ CurrentOK' /\ AwayOK' /\ MirrorOK'
      /\ PendingOK' /\ StrayOK' /\ RunOK' /\ AgreeOK'
  BY <1>1 DEF CoreInv, IdsOK, ForestOK, All, Piece, Tree, TreesOK, StripInv, CurrentOK, AwayOK, MirrorOK, PendingOK, StrayOK,
              RunOK, AgreeOK, Open, Live
<1> QED BY <1>4, <1>5 DEF CoreInv

(* After a restart the trees are those that were saved.                    *)
LEMMA RestartStep ==
  ASSUME CoreInv, Restart
  PROVE  CoreInv'
<1>1. PICK m : m = saved.mirror
  OBVIOUS
<1>2. PICK O : O = Range(saved.strip.tabs)
  OBVIOUS
<1>3. /\ strip' = saved.strip /\ panes' = [NoPanes EXCEPT !.trees = [t \in O \cap DOMAIN m |-> m[t]]]
      /\ running' = UNION {Terms(m[t]) : t \in DOMAIN m \cap O}
      /\ mirror' = m /\ due' = TRUE /\ away' = NoneAway /\ stray' = {} /\ ids' = ids /\ saved' = saved
  BY <1>1, <1>2 DEF Restart
<1>4. /\ StripOK(saved.strip, ids) /\ IsFcn(m) /\ DOMAIN m \subseteq ids.tabs /\ Forest(m, ids) /\ Given_(ids)
      /\ O \subseteq ids.tabs /\ ids.tabs \subseteq Tab
  <2>1. /\ StripOK(saved.strip, ids) /\ IsFcn(m) /\ DOMAIN m \subseteq ids.tabs /\ Forest(m, ids) /\ Given_(ids)
    BY <1>1 DEF CoreInv, SavedOK, IdsOK
  <2> QED BY <1>2, <2>1, StripRange DEF Given_
<1>5. Open' = O /\ NoTab \notin O
  BY <1>2, <1>3, <1>4, WorkspaceAssumption DEF Open
<1>6. /\ PanesForm(panes') /\ panes'.trees = [t \in O \cap DOMAIN m |-> m[t]] /\ panes'.tree = NoTree
      /\ panes'.current = NoTab
  BY <1>3 DEF NoPanes, PanesForm
<1>7. /\ DOMAIN panes'.trees = O \cap DOMAIN m /\ IsFcn(panes'.trees)
      /\ \A t \in O \cap DOMAIN m : panes'.trees[t] = m[t]
  BY <1>6 DEF IsFcn
<1>8. /\ Piece(NoTab)' = NoTree /\ away'.tree = NoTree
      /\ \A z \in Tab : Piece(z)' = Tree(panes, z)' /\ Tree(panes, z)' = IF z \in O \cap DOMAIN m THEN m[z] ELSE NoTree
  BY <1>3, <1>7, WorkspaceAssumption DEF Piece, Tree, NoneAway
<1>9. IdsOK' /\ StripInv' /\ AgreeOK' /\ AwayOK' /\ SavedOK'
  BY <1>1, <1>3, <1>4 DEF IdsOK, StripInv, AgreeOK, AwayOK, SavedOK
<1>10. TreesOK' /\ MirrorOK'
  BY <1>3, <1>4, <1>5, <1>7 DEF TreesOK, MirrorOK
<1>11. CurrentOK'
  BY <1>5, <1>6, <1>7 DEF CurrentOK, Tree
<1>12. PendingOK' /\ StrayOK'
  BY <1>3, <1>8, NoTreeOK DEF PendingOK, StrayOK
<1>13. ForestOK'
  <2>1. \A z \in Places : TreeOK(Piece(z)') /\ Within(Piece(z)', ids)
    BY <1>4, <1>8, NoTreeOK DEF Forest, Places, Within
  <2>2. \A z, w \in Places : z # w => Apart(Piece(z)', Piece(w)')
    <3> SUFFICES ASSUME NEW z \in Places, NEW w \in Places, z # w PROVE Apart(Piece(z)', Piece(w)')
      OBVIOUS
    <3>1. Piece(z)' = NoTree \/ (z \in DOMAIN m /\ Piece(z)' = m[z])
      BY <1>8 DEF Places
    <3>2. Piece(w)' = NoTree \/ (w \in DOMAIN m /\ Piece(w)' = m[w])
      BY <1>8 DEF Places
    <3> QED BY <1>4, <3>1, <3>2, NoTreeOK DEF Forest, Apart
  <2>3. DOMAIN All' = Places /\ \A z \in Places : All'[z] = Piece(z)'
    BY DEF All
  <2> HIDE DEF All
  <2>4. Forest(All', ids')
    BY <1>3, <2>1, <2>2, <2>3 DEF Forest
  <2> QED BY <2>4 DEF ForestOK
<1>14. RunOK'
  <2>1. \A z \in Tab : Live(z)' = IF z \in O \cap DOMAIN m THEN Terms(m[z]) ELSE {}
    BY <1>5, <1>8, NoTreeOK DEF Live
  <2>2. O \cap DOMAIN m \subseteq Tab
    BY <1>4
  <2>3. running' = UNION {Live(z)' : z \in Tab}
    BY <1>3, <2>1, <2>2
  <2> QED BY <1>3, <2>3 DEF RunOK
<1> QED BY <1>9, <1>10, <1>11, <1>12, <1>13, <1>14 DEF CoreInv

LEMMA IntoOK ==
  ASSUME NEW t \in Tab, NEW u \in Tab, t # u
  PROVE  /\ TreeOK(Into(t, u)) /\ Nodes(Into(t, u)) = {1, 2, 3} /\ Terms(Into(t, u)) = {1, 2} /\ Seeds(Into(t, u)) = {t, u}
<1>1. PICK r : r = Into(t, u)
  OBVIOUS
<1>2. /\ r = [root |-> r.root, kids |-> r.kids, leaf |-> r.leaf] /\ r.root = 1
      /\ r.kids = [n \in {1} |-> <<2, 3>>]
      /\ r.leaf = [p \in {2, 3} |-> IF p = 2 THEN [term |-> 1, seed |-> u] ELSE [term |-> 2, seed |-> t]]
  BY <1>1 DEF Into
<1>3. /\ DOMAIN r.kids = {1} /\ DOMAIN r.leaf = {2, 3} /\ r.kids[1] = <<2, 3>>
      /\ r.leaf[2] = [term |-> 1, seed |-> u] /\ r.leaf[3] = [term |-> 2, seed |-> t]
  BY <1>2
<1>4. r.leaf[2].term = 1 /\ r.leaf[2].seed = u /\ r.leaf[3].term = 2 /\ r.leaf[3].seed = t
  BY <1>3
<1>5. Nodes(r) = {1, 2, 3}
  BY <1>3 DEF Nodes
<1>6. t # NoTab /\ u # NoTab
  BY WorkspaceAssumption
<1>7. Terms(r) = {1, 2} /\ Seeds(r) = {t, u}
  BY <1>3, <1>4, <1>6 DEF Terms, Seeds
<1>8. r.kids[1] \in [1 .. 2 -> {1, 2, 3}] /\ r.kids[1][1] = 2 /\ r.kids[1][2] = 3
  BY <1>3
<1>9. r.kids \in [DOMAIN r.kids -> [1 .. 2 -> Nodes(r)]]
  BY <1>2, <1>3, <1>5, <1>8
<1>10. r.leaf \in [DOMAIN r.leaf -> [term : Nat, seed : Tab \cup {NoTab}]]
  BY <1>2, <1>3
<1>11. TreeForm(r)
  BY <1>2, <1>3, <1>5, <1>9, <1>10 DEF TreeForm
<1>12. OneParent(r)
  BY <1>2, <1>3, <1>8 DEF OneParent
<1>13. Connected(r)
  BY <1>2, <1>3, <1>5, <1>8 DEF Connected, Closed
<1>14. Distinct(r)
  BY <1>3, <1>4 DEF Distinct
<1> QED BY <1>1, <1>5, <1>7, <1>11, <1>12, <1>13, <1>14 DEF TreeOK

LEMMA InitOK ==
  ASSUME "twice" \notin Saves, Init
  PROVE  CoreInv
<1>1. PICK k \in Saves, t \in Tab, u \in Tab : t # u /\ saved = Earlier(k, t, u) /\ ids = Given(k, t, u)
  BY DEF Init
<1>2. /\ strip = NoStrip /\ panes = NoPanes /\ mirror = <<>> /\ due = FALSE /\ running = {} /\ away = NoneAway /\ stray = {}
  BY DEF Init
<1>3. k = "none" \/ k = "keyless"
  BY <1>1, WorkspaceAssumption
<1>4. IdsOK
  BY <1>1, <1>3 DEF IdsOK, Given_, Given
<1>5. NoTab \notin Tab /\ t # NoTab /\ u # NoTab
  BY WorkspaceAssumption
<1>6. strip.tabs = <<>> /\ strip.active = NoTab /\ strip = [tabs |-> strip.tabs, active |-> strip.active]
  BY <1>2 DEF NoStrip
<1>7. \A g : g = ids => StripOK(NoStrip, g)
  BY <1>4 DEF StripOK, NoTwice, NoStrip
<1>8. PanesForm(panes) /\ panes.trees = <<>> /\ panes.tree = NoTree /\ panes.current = NoTab
  BY <1>2 DEF NoPanes, PanesForm
<1>9. DOMAIN panes.trees = {} /\ Open = {} /\ IsFcn(panes.trees) /\ DOMAIN mirror = {} /\ mirror = panes.trees
  BY <1>2, <1>6, <1>8 DEF Open, Range, IsFcn
<1>10. StripInv /\ TreesOK /\ CurrentOK /\ AwayOK /\ MirrorOK /\ PendingOK /\ AgreeOK
  BY <1>2, <1>7, <1>8, <1>9 DEF StripInv, TreesOK, CurrentOK, AwayOK, MirrorOK, PendingOK, AgreeOK, Tree
<1>11. \A z \in Places : Piece(z) = NoTree
  BY <1>2, <1>9 DEF Piece, Tree, NoneAway
<1>12. StrayOK /\ RunOK
  BY <1>2, <1>9 DEF StrayOK, RunOK, Live
<1>13. ForestOK
  <2>1. DOMAIN All = Places /\ \A z \in Places : All[z] = NoTree
    BY <1>11 DEF All
  <2> HIDE DEF All
  <2> QED BY <2>1, NoTreeOK DEF ForestOK, Forest, Within, Apart
<1>14. SavedOK
  <2>1. CASE k = "none"
    <3>1. saved = [strip |-> NoStrip, mirror |-> <<>>]
      BY <1>1, <2>1 DEF Earlier
    <3>2. DOMAIN saved.mirror = {} /\ IsFcn(saved.mirror) /\ saved.strip = NoStrip
      BY <3>1 DEF IsFcn
    <3> QED BY <1>7, <3>2 DEF SavedOK, Forest
  <2>2. CASE k = "keyless"
    <3>1. /\ saved.strip = [tabs |-> <<t, u>>, active |-> t] /\ saved.mirror = [x \in {u} |-> Into(t, u)]
          /\ ids = [tabs |-> {t, u}, nodes |-> 3, terms |-> 2]
      BY <1>1, <2>2 DEF Earlier, Given
    <3>2. StripOK(saved.strip, ids)
      <4>1. saved.strip.tabs = <<t, u>> /\ saved.strip.active = t /\ ids.tabs = {t, u}
            /\ saved.strip = [tabs |-> saved.strip.tabs, active |-> saved.strip.active]
        BY <3>1
      <4>2. <<t, u>> \in Seq({t, u}) /\ NoTwice(<<t, u>>) /\ <<t, u>> # <<>>
        BY <1>1 DEF NoTwice
      <4>3. t \in Range(<<t, u>>)
        <5>1. 1 \in DOMAIN <<t, u>> /\ <<t, u>>[1] = t
          OBVIOUS
        <5> QED BY <5>1 DEF Range
      <4> QED BY <4>1, <4>2, <4>3 DEF StripOK
    <3>3. DOMAIN saved.mirror = {u} /\ saved.mirror[u] = Into(t, u) /\ IsFcn(saved.mirror)
      BY <3>1 DEF IsFcn
    <3>4. TreeOK(Into(t, u)) /\ Within(Into(t, u), ids)
      BY <1>1, <3>1, IntoOK DEF Within
    <3> QED BY <3>1, <3>2, <3>3, <3>4 DEF SavedOK, Forest
  <2> QED BY <1>3, <2>1, <2>2
<1> QED BY <1>4, <1>10, <1>12, <1>13, <1>14 DEF CoreInv

(* Whatever a task does, the invariant holds after it.                     *)
LEMMA TaskOK ==
  ASSUME CoreInv, Task
  PROVE  CoreInv'
<1>1. ~ due
  BY DEF Task
<1>2. CASE NewTabs
  <2>1. PICK t \in Tab : NewTab(t) \/ NewFolderTab(t) \/ \E activate \in BOOLEAN : ApiTab(t, activate)
    BY <1>2 DEF NewTabs
  <2> QED BY <1>1, <2>1, NewTabStep, NewFolderTabStep, ApiTabStep
<1>3. CASE Pick
  <2>1. (\E t \in Tab : Select(t)) \/ \E p \in 1 .. ids.nodes : Focus(p) \/ Maximize(p)
    BY <1>3 DEF Pick
  <2> QED BY <1>1, <2>1, SelectStep, FocusStep, MaximizeStep
<1>4. CASE Splits
  <2>1. PICK p \in 0 .. ids.nodes : (\E first \in BOOLEAN : Split(p, first)) \/ \E t \in Tab : ApiSplit(t, p)
    BY <1>4 DEF Splits
  <2> QED BY <1>1, <2>1, SplitStep, ApiSplitStep
<1>5. CASE Closes
  <2>1. PICK t \in Tab : CloseTab(t) \/ \E p \in 1 .. ids.nodes : ClosePane(t, p)
    BY <1>5 DEF Closes
  <2> QED BY <1>1, <2>1, CloseTabStep, ClosePaneStep
<1>6. CASE Moves
  <2>0. PICK from \in Open, to \in Open : \E p \in DOMAIN Tree(panes, from).leaf :
           \/ Regroup(from, p, to)
           \/ \E q \in DOMAIN Tree(panes, to).leaf, zone \in {"center", "first", "second"} : Drop(from, p, to, q, zone)
    BY <1>6 DEF Moves
  <2>1. PICK p \in DOMAIN Tree(panes, from).leaf :
           \/ Regroup(from, p, to)
           \/ \E q \in DOMAIN Tree(panes, to).leaf, zone \in {"center", "first", "second"} : Drop(from, p, to, q, zone)
    BY <2>0
  <2>2. CASE Regroup(from, p, to)
    BY <1>1, <2>2, RegroupStep
  <2>3. ASSUME NEW q, NEW zone, Drop(from, p, to, q, zone) PROVE CoreInv'
    <3>1. CASE from = to
      BY <1>1, <2>3, <3>1, DropHereStep
    <3>2. CASE from # to
      BY <1>1, <2>3, <3>2, DropThereStep
    <3> QED BY <3>1, <3>2
  <2> QED BY <2>1, <2>2, <2>3
<1>7. CASE Windows
  <2>1. AttachTab \/ \E t \in Tab : DetachTab(t) \/ \E p \in 1 .. ids.nodes : DetachPane(t, p) \/ AttachPane(t, p)
    BY <1>7 DEF Windows
  <2> QED BY <1>1, <2>1, AttachTabStep, DetachTabStep, DetachPaneStep, AttachPaneStep
<1>8. CASE SaveState
  BY <1>1, <1>8, SaveStateStep
<1> QED BY <1>2, <1>3, <1>4, <1>5, <1>6, <1>7, <1>8 DEF Task

----
(***************************************************************************)
(* The plan of the effects.                                                *)
(***************************************************************************)
(* A set of numbers that is not empty has a least.                         *)
LEMMA Least ==
  ASSUME NEW B \in SUBSET Nat, B # {}
  PROVE  \E m \in B : \A k \in B : m <= k
<1>1. PICK m \in B : \A k \in B : <<k, m>> \notin OpToRel(<, Nat)
  BY NatLessThanWellFounded, WFMin
<1>2. \A k \in B : ~ (k < m)
  BY <1>1 DEF OpToRel
<1> QED BY <1>2

(* The turns of the plan: what each makes of what the last has left.       *)
Turn(tabs, i) == tabs[IF i > Len(tabs) THEN i - Len(tabs) ELSE i]
FirstPlan(trees, M, given) ==
  [plan |-> <<>>, ids |-> given,
   taken |-> UNION {Terms(trees[t]) : t \in DOMAIN trees},
   seeded |-> UNION {Seeds(trees[t]) : t \in DOMAIN trees} \cup UNION {Seeds(M[t]) : t \in DOMAIN M}]
NextPlan(tabs, trees, M, acc, i) ==
  IF Turn(tabs, i) \in DOMAIN trees \/ NaturalOwner(Turn(tabs, i), M) # (i <= Len(tabs)) THEN acc
  ELSE PlanOne(M, acc, Turn(tabs, i))
Plans(tabs, trees, M, given, m, f) ==
  f = [i \in 0 .. m |-> IF i = 0 THEN FirstPlan(trees, M, given) ELSE NextPlan(tabs, trees, M, f[i - 1], i)]

LEMMA PlansExist ==
  ASSUME NEW tabs, NEW trees, NEW M, NEW given
  PROVE  \A m \in Nat : \E f : Plans(tabs, trees, M, given, m, f)
<1> DEFINE B == {m \in Nat : ~ \E f : Plans(tabs, trees, M, given, m, f)}
<1> SUFFICES ASSUME B # {} PROVE FALSE
  OBVIOUS
<1>1. PICK m \in B : \A k \in B : m <= k
  BY Least
<1>2. CASE m = 0
  <2> DEFINE f == [i \in 0 .. 0 |-> FirstPlan(trees, M, given)]
  <2>1. \A i \in 0 .. 0 : i = 0
    OBVIOUS
  <2>2. f = [i \in 0 .. 0 |-> IF i = 0 THEN FirstPlan(trees, M, given) ELSE NextPlan(tabs, trees, M, f[i - 1], i)]
    BY <2>1
  <2>3. Plans(tabs, trees, M, given, 0, f)
    BY <2>2 DEF Plans
  <2> QED BY <1>2, <2>3
<1>3. CASE m # 0
  <2>1. m \in Nat /\ m - 1 \in Nat /\ m - 1 \notin B
    BY <1>1, <1>3
  <2>2. PICK g : Plans(tabs, trees, M, given, m - 1, g)
    BY <2>1
  <2> DEFINE e(i, x) == IF i = 0 THEN FirstPlan(trees, M, given) ELSE NextPlan(tabs, trees, M, x, i)
             f == [i \in 0 .. m |-> IF i = m THEN e(m, g[m - 1]) ELSE g[i]]
  <2>3. \A i \in 0 .. m - 1 : g[i] = e(i, g[i - 1])
    BY <2>2 DEF Plans
  <2> HIDE DEF e
  <2>4. \A i \in 0 .. m : f[i] = e(i, f[i - 1])
    <3> TAKE i \in 0 .. m
    <3>1. CASE i = 0
      <4>1. f[0] = g[0] /\ g[0] = e(0, g[0 - 1])
        BY <1>3, <2>1, <2>3
      <4>2. e(0, g[0 - 1]) = e(0, f[0 - 1])
        BY DEF e
      <4> QED BY <3>1, <4>1, <4>2
    <3>2. CASE i # 0
      <4>1. i - 1 \in 0 .. m /\ i - 1 # m
        BY <2>1, <3>2
      <4>2. f[i - 1] = g[i - 1]
        BY <4>1
      <4>3. f[i] = e(i, g[i - 1])
        <5>1. CASE i = m
          BY <5>1
        <5>2. CASE i # m
          <6>1. i \in 0 .. m - 1
            BY <2>1, <5>2
          <6> QED BY <2>3, <5>2, <6>1
        <5> QED BY <5>1, <5>2
      <4> QED BY <4>2, <4>3
    <3> QED BY <3>1, <3>2
  <2>5. f = [i \in 0 .. m |-> e(i, f[i - 1])]
    <3> DEFINE h == [i \in 0 .. m |-> e(i, f[i - 1])]
    <3>1. DOMAIN f = 0 .. m /\ DOMAIN h = 0 .. m /\ f = [i \in 0 .. m |-> f[i]] /\ h = [i \in 0 .. m |-> h[i]]
      OBVIOUS
    <3>2. \A i \in 0 .. m : h[i] = f[i]
      BY <2>4
    <3> HIDE DEF f, h
    <3>3. f = h
      BY <3>1, <3>2
    <3> QED BY <3>3 DEF h
  <2>6. Plans(tabs, trees, M, given, m, f)
    BY <2>5 DEF Plans, e
  <2> QED BY <2>6
<1> QED BY <1>2, <1>3

LEMMA PlanSeedsIs ==
  ASSUME NEW tabs, NEW trees, NEW M, NEW given, Len(tabs) \in Nat
  PROVE  \E f : Plans(tabs, trees, M, given, 2 * Len(tabs), f) /\ PlanSeeds(tabs, trees, M, given) = f[2 * Len(tabs)]
<1> DEFINE c == CHOOSE f : Plans(tabs, trees, M, given, 2 * Len(tabs), f)
<1>1. \E f : Plans(tabs, trees, M, given, 2 * Len(tabs), f)
  <2>1. \A m \in Nat : \E f : Plans(tabs, trees, M, given, m, f)
    BY PlansExist
  <2>2. 2 * Len(tabs) \in Nat
    OBVIOUS
  <2> QED BY <2>1, <2>2
<1>2. Plans(tabs, trees, M, given, 2 * Len(tabs), c)
  BY <1>1
<1>3. PlanSeeds(tabs, trees, M, given) = c[2 * Len(tabs)]
  BY DEF PlanSeeds, Plans, FirstPlan, NextPlan, Turn
<1> QED BY <1>2, <1>3

(* The tabs planned by turn i: each has its turn once.                     *)
Planned(tabs, trees, M, i) ==
  {t \in Range(tabs) \ DOMAIN trees : \E j \in 1 .. Len(tabs) :
     tabs[j] = t /\ (IF NaturalOwner(t, M) THEN j <= i ELSE Len(tabs) + j <= i)}

(* What changes for t alone.                                               *)
LEMMA TurnOf ==
  ASSUME NEW t, NEW D, NEW E, \A x : x # t => (x \in D <=> x \in E)
  PROVE  /\ (t \in D <=> t \in E) => D = E
         /\ t \in D /\ t \notin E => D = E \cup {t}
OBVIOUS

LEMMA PlannedNext ==
  ASSUME NEW T, NEW tabs \in Seq(T), NoTwice(tabs), NEW trees, NEW M, NEW i \in 1 .. 2 * Len(tabs)
  PROVE  LET t == Turn(tabs, i)
             skip == t \in DOMAIN trees \/ NaturalOwner(t, M) # (i <= Len(tabs))
         IN /\ skip => Planned(tabs, trees, M, i) = Planned(tabs, trees, M, i - 1)
            /\ ~ skip => /\ t \in Range(tabs) \ DOMAIN trees /\ t \notin Planned(tabs, trees, M, i - 1)
                         /\ Planned(tabs, trees, M, i) = Planned(tabs, trees, M, i - 1) \cup {t}
<1> DEFINE t == Turn(tabs, i)
           D(k) == Planned(tabs, trees, M, k)
           O(x) == NaturalOwner(x, M)
<1>1. PICK n \in Nat : n = Len(tabs) /\ DOMAIN tabs = 1 .. n
  BY LenProperties
<1>2. PICK j \in 1 .. n : j = IF i > n THEN i - n ELSE i
  BY <1>1
<1>3. t = tabs[j] /\ t \in Range(tabs)
  BY <1>1, <1>2 DEF Turn, Range
<1>4. \A a, b \in 1 .. n : tabs[a] = tabs[b] => a = b
  BY <1>1 DEF NoTwice
<1>5. \A x, k : x \in D(k) <=> /\ x \in Range(tabs) \ DOMAIN trees
                               /\ \E a \in 1 .. n : tabs[a] = x /\ (IF O(x) THEN a <= k ELSE n + a <= k)
  BY <1>1 DEF Planned
<1> HIDE DEF D, t
<1>6. ASSUME NEW x, x # t PROVE x \in D(i) <=> x \in D(i - 1)
  <2>1. ASSUME NEW a \in 1 .. n, tabs[a] = x PROVE a # j
    BY <1>3, <1>6, <2>1
  <2>2. ASSUME NEW a \in 1 .. n, a # j PROVE (a <= i <=> a <= i - 1) \/ i > n
    BY <1>1, <1>2, <2>2
  <2>3. ASSUME NEW a \in 1 .. n, a # j PROVE (IF O(x) THEN a <= i ELSE n + a <= i) <=> (IF O(x) THEN a <= i - 1 ELSE n + a <= i - 1)
    <3>1. CASE i <= n
      BY <1>1, <1>2, <2>3, <3>1
    <3>2. CASE i > n
      BY <1>1, <1>2, <2>3, <3>2
    <3> QED BY <1>1, <3>1, <3>2
  <2> HIDE DEF O
  <2> QED BY <1>5, <2>1, <2>3
<1>7. t \in D(i) <=> t \notin DOMAIN trees /\ (IF O(t) THEN j <= i ELSE n + j <= i)
  BY <1>3, <1>4, <1>5
<1>8. t \in D(i - 1) <=> t \notin DOMAIN trees /\ (IF O(t) THEN j <= i - 1 ELSE n + j <= i - 1)
  BY <1>3, <1>4, <1>5
<1>9. CASE i <= n
  <2>1. j = i /\ ~ (n + j <= i) /\ j <= i /\ ~ (j <= i - 1) /\ ~ (n + j <= i - 1)
    BY <1>1, <1>2, <1>9
  <2>2. (NaturalOwner(t, M) # (i <= Len(tabs))) <=> ~ O(t)
    BY <1>1, <1>9 DEF NaturalOwner
  <2>3. O(t) => t \notin D(i - 1) /\ (t \notin DOMAIN trees => t \in D(i))
    BY <1>7, <1>8, <2>1
  <2>4. ~ O(t) => (t \in D(i) <=> t \in D(i - 1))
    BY <1>7, <1>8, <2>1
  <2> QED BY <1>3, <1>6, <1>7, <1>8, <2>2, <2>3, <2>4, TurnOf DEF D, t
<1>10. CASE i > n
  <2>1. j = i - n /\ n + j <= i /\ j <= i - 1 /\ j <= i /\ ~ (n + j <= i - 1) /\ ~ (i <= n)
    BY <1>1, <1>2, <1>10
  <2>2. (NaturalOwner(t, M) # (i <= Len(tabs))) <=> O(t)
    BY <1>1, <1>10, <2>1 DEF NaturalOwner
  <2>3. ~ O(t) => t \notin D(i - 1) /\ (t \notin DOMAIN trees => t \in D(i))
    BY <1>7, <1>8, <2>1
  <2>4. O(t) => (t \in D(i) <=> t \in D(i - 1))
    BY <1>7, <1>8, <2>1
  <2> QED BY <1>3, <1>6, <1>7, <1>8, <2>2, <2>3, <2>4, TurnOf DEF D, t
<1> QED BY <1>1, <1>9, <1>10

LEMMA PlannedEnds ==
  ASSUME NEW T, NEW tabs \in Seq(T), NEW trees, NEW M
  PROVE  /\ Planned(tabs, trees, M, 0) = {}
         /\ Planned(tabs, trees, M, 2 * Len(tabs)) = Range(tabs) \ DOMAIN trees
<1>1. PICK n \in Nat : n = Len(tabs) /\ DOMAIN tabs = 1 .. n
  BY LenProperties
<1>2. \A j \in 1 .. n : ~ (j <= 0) /\ ~ (n + j <= 0) /\ j <= 2 * n /\ n + j <= 2 * n
  BY <1>1
<1>3. \A x \in Range(tabs) : \E j \in 1 .. n : tabs[j] = x
  BY <1>1 DEF Range
<1> QED BY <1>1, <1>2, <1>3 DEF Planned

(* What the plan is given: terminals that exist, and at most one tab to    *)
(* plan that the mirror already has, with a tree of one pane or none.      *)
PlanInput(tabs, trees, M, given) ==
  /\ Given_(given) /\ tabs \in Seq(given.tabs) /\ NoTwice(tabs)
  /\ \A t \in DOMAIN trees : Terms(trees[t]) \subseteq 1 .. given.terms
  /\ \A t \in (Range(tabs) \ DOMAIN trees) \cap DOMAIN M :
       /\ M[t] = NoTree \/ \E n \in 1 .. given.nodes, k \in 1 .. given.terms :
                             M[t] = Solo(n, k, t) /\ \A u \in DOMAIN trees : k \notin Terms(trees[u])
       /\ \A u \in (Range(tabs) \ DOMAIN trees) \cap DOMAIN M : u = t
Known(trees, M) == UNION {Seeds(trees[t]) : t \in DOMAIN trees} \cup UNION {Seeds(M[t]) : t \in DOMAIN M}
(* A tree that is made: with an id and a terminal never given before, for  *)
(* a tab of which no tree is known to hold the terminal.                   *)
Made(T, t, trees, M, given, g) ==
  \E n \in 1 .. g.nodes, k \in 1 .. g.terms :
    n \notin 1 .. given.nodes /\ k \notin 1 .. given.terms /\ T = Solo(n, k, t) /\ t \notin Known(trees, M)
PlanTree(T, t, trees, M, given, g) ==
  IF t \in DOMAIN M THEN T = M[t] ELSE T = NoTree \/ Made(T, t, trees, M, given, g)
PlanOK(acc, D, trees, M, given) ==
  /\ IsFcn(acc.plan) /\ DOMAIN acc.plan = D
  /\ Given_(acc.ids) /\ Later(given, acc.ids) /\ acc.ids.tabs = given.tabs
  /\ \A t \in D : PlanTree(acc.plan[t], t, trees, M, given, acc.ids)
  /\ \A t, u \in D \ DOMAIN M : t # u => Apart(acc.plan[t], acc.plan[u])
  /\ \A k \in acc.taken : (\E t \in DOMAIN trees : k \in Terms(trees[t])) \/ \E t \in D : k \in Terms(acc.plan[t])
  /\ Known(trees, M) \subseteq acc.seeded
  /\ \A k \in 1 .. acc.ids.terms : k \notin 1 .. given.terms => \E t \in D \ DOMAIN M : k \in Terms(acc.plan[t])

(* What a planned tree holds.                                              *)
LEMMA PlanTreeHolds ==
  ASSUME NEW t \in Tab, NEW trees, NEW M, NEW given, NEW g, Given_(given), Given_(g), NEW T, t \notin DOMAIN M,
         PlanTree(T, t, trees, M, given, g)
  PROVE  /\ TreeOK(T) /\ Nodes(T) \subseteq 1 .. g.nodes /\ Terms(T) \subseteq 1 .. g.terms /\ Seeds(T) \subseteq {t}
         /\ Nodes(T) \cap (1 .. given.nodes) = {} /\ Terms(T) \cap (1 .. given.terms) = {}
         /\ T = NoTree \/ t \notin Known(trees, M)
<1>1. CASE T = NoTree
  BY <1>1, NoTreeOK
<1>2. CASE Made(T, t, trees, M, given, g)
  <2>1. PICK n \in 1 .. g.nodes, k \in 1 .. g.terms :
          n \notin 1 .. given.nodes /\ k \notin 1 .. given.terms /\ T = Solo(n, k, t) /\ t \notin Known(trees, M)
    BY <1>2 DEF Made
  <2>2. n \in Nat \ {0} /\ k \in Nat /\ t \in Tab \cup {NoTab}
    BY DEF Given_
  <2>3. TreeOK(Solo(n, k, t)) /\ Nodes(Solo(n, k, t)) = {n} /\ Terms(Solo(n, k, t)) = {k} /\ Seeds(Solo(n, k, t)) = {t} \ {NoTab}
    BY <2>2, SoloOK, SoloHolds
  <2> QED BY <2>1, <2>3
<1> QED BY <1>1, <1>2 DEF PlanTree

(* A turn keeps the plan as it should be.                                   *)
LEMMA PlanStep ==
  ASSUME NEW tabs, NEW trees, NEW M, NEW given, PlanInput(tabs, trees, M, given), NEW acc, NEW D,
         D \subseteq Range(tabs) \ DOMAIN trees, PlanOK(acc, D, trees, M, given),
         NEW t \in Range(tabs) \ DOMAIN trees, t \notin D
  PROVE  PlanOK(PlanOne(M, acc, t), D \cup {t}, trees, M, given)
<1>1. PICK r : r = PlanOne(M, acc, t)
  OBVIOUS
<1>2. PICK made \in BOOLEAN : made = (t \notin DOMAIN M /\ t \notin acc.seeded)
  OBVIOUS
<1>3. PICK C : C = IF made THEN Solo(acc.ids.nodes + 1, acc.ids.terms + 1, t) ELSE IF t \in DOMAIN M THEN M[t] ELSE NoTree
  OBVIOUS
<1>4. PICK T : T = PruneDuplicateLeaves(C, acc.taken)
  OBVIOUS
<1>5. /\ r.plan = Put(acc.plan, t, T) /\ r.taken = acc.taken \cup Terms(T) /\ r.seeded = acc.seeded \cup Seeds(T)
      /\ r.ids = IF made THEN [acc.ids EXCEPT !.nodes = @ + 1, !.terms = @ + 1] ELSE acc.ids
  BY <1>1, <1>2, <1>3, <1>4 DEF PlanOne, Emptied
<1>6. /\ Given_(given) /\ Given_(acc.ids) /\ Later(given, acc.ids) /\ acc.ids.tabs = given.tabs
      /\ acc.ids.nodes \in Nat /\ acc.ids.terms \in Nat /\ given.nodes \in Nat /\ given.terms \in Nat
      /\ 1 .. given.terms \subseteq 1 .. acc.ids.terms /\ 1 .. given.nodes \subseteq 1 .. acc.ids.nodes
  BY DEF PlanInput, PlanOK, Given_, Later
<1>7. Range(tabs) \subseteq Tab
  BY <1>6, RangeOf DEF PlanInput, Given_
<1>8. \A u \in D : u \in Tab /\ (u \notin DOMAIN M =>
         /\ Nodes(acc.plan[u]) \subseteq 1 .. acc.ids.nodes /\ Terms(acc.plan[u]) \subseteq 1 .. acc.ids.terms
         /\ Seeds(acc.plan[u]) \subseteq {u} /\ Terms(acc.plan[u]) \cap (1 .. given.terms) = {})
  BY <1>6, <1>7, PlanTreeHolds DEF PlanOK
<1>9. \A u \in D : u \in DOMAIN M => acc.plan[u] = M[u] /\ Terms(acc.plan[u]) \subseteq 1 .. given.terms /\ u # t
  <2> SUFFICES ASSUME NEW u \in D, u \in DOMAIN M
               PROVE  acc.plan[u] = M[u] /\ Terms(acc.plan[u]) \subseteq 1 .. given.terms /\ u # t
    OBVIOUS
  <2>1. acc.plan[u] = M[u] /\ u \in (Range(tabs) \ DOMAIN trees) \cap DOMAIN M
    BY DEF PlanOK, PlanTree
  <2>2. M[u] = NoTree \/ \E n \in 1 .. given.nodes, k \in 1 .. given.terms : M[u] = Solo(n, k, u)
    BY <2>1 DEF PlanInput
  <2> QED BY <2>1, <2>2, NoTreeOK, SoloHolds
<1>10. /\ Given_(r.ids) /\ Later(acc.ids, r.ids) /\ Later(given, r.ids) /\ r.ids.tabs = given.tabs
       /\ r.ids.nodes = acc.ids.nodes + (IF made THEN 1 ELSE 0) /\ r.ids.terms = acc.ids.terms + (IF made THEN 1 ELSE 0)
  <2>1. acc.ids = [tabs |-> acc.ids.tabs, nodes |-> acc.ids.nodes, terms |-> acc.ids.terms] /\ acc.ids.tabs \in SUBSET Tab
    BY <1>6 DEF Given_
  <2>2. CASE made
    <3>1. r.ids = [tabs |-> acc.ids.tabs, nodes |-> acc.ids.nodes + 1, terms |-> acc.ids.terms + 1]
      BY <1>5, <2>1, <2>2
    <3> QED BY <1>6, <2>1, <2>2, <3>1 DEF Given_, Later
  <2>3. CASE ~ made
    BY <1>5, <1>6, <2>3 DEF Given_, Later
  <2> QED BY <2>2, <2>3
<1>11. /\ PlanTree(T, t, trees, M, given, r.ids)
       /\ made => Terms(T) = {acc.ids.terms + 1} /\ Nodes(T) = {acc.ids.nodes + 1} /\ Seeds(T) \subseteq {t}
       /\ ~ made /\ t \notin DOMAIN M => T = NoTree
  <2>1. CASE t \in DOMAIN M
    <3>1. C = M[t] /\ ~ made
      BY <1>2, <1>3, <2>1
    <3>2. M[t] = NoTree \/ \E n \in 1 .. given.nodes, k \in 1 .. given.terms :
                             M[t] = Solo(n, k, t) /\ \A u \in DOMAIN trees : k \notin Terms(trees[u])
      BY <2>1 DEF PlanInput
    <3>3. CASE M[t] = NoTree
      BY <1>4, <2>1, <3>1, <3>3, PruneNone DEF PlanTree
    <3>4. CASE \E n \in 1 .. given.nodes, k \in 1 .. given.terms :
                 M[t] = Solo(n, k, t) /\ \A u \in DOMAIN trees : k \notin Terms(trees[u])
      <4>1. PICK n \in 1 .. given.nodes, k \in 1 .. given.terms :
                   M[t] = Solo(n, k, t) /\ \A u \in DOMAIN trees : k \notin Terms(trees[u])
        BY <3>4
      <4>2. \A u \in D : u \notin DOMAIN M
        BY <2>1, <1>9 DEF PlanInput
      <4>3. k \notin acc.taken
        BY <1>8, <4>1, <4>2 DEF PlanOK
      <4>4. n \in Nat \ {0} /\ k \in Nat /\ t \in Tab \cup {NoTab}
        BY <1>6, <1>7
      <4>5. PruneDuplicateLeaves(Solo(n, k, t), acc.taken) = Solo(n, k, t)
        BY <4>3, <4>4, PruneSolo
      <4> QED BY <1>4, <2>1, <3>1, <4>1, <4>5 DEF PlanTree
    <3> QED BY <3>2, <3>3, <3>4
  <2>2. CASE t \notin DOMAIN M /\ t \in acc.seeded
    <3>1. C = NoTree /\ ~ made
      BY <1>2, <1>3, <2>2
    <3> QED BY <1>4, <2>2, <3>1, PruneNone DEF PlanTree
  <2>3. CASE t \notin DOMAIN M /\ t \notin acc.seeded
    <3>1. PICK n, k : n = acc.ids.nodes + 1 /\ k = acc.ids.terms + 1
      OBVIOUS
    <3>2. made /\ C = Solo(n, k, t)
      BY <1>2, <1>3, <2>3, <3>1
    <3>3. n \in Nat \ {0} /\ k \in Nat /\ t \in Tab \cup {NoTab} /\ k \notin 1 .. acc.ids.terms /\ n \notin 1 .. acc.ids.nodes
      BY <1>6, <1>7, <3>1
    <3>4. k \notin acc.taken
      <4>1. \A u \in DOMAIN trees : k \notin Terms(trees[u])
        BY <1>6, <3>3 DEF PlanInput
      <4>2. \A u \in D : k \notin Terms(acc.plan[u])
        BY <1>6, <1>8, <1>9, <3>3
      <4> QED BY <4>1, <4>2 DEF PlanOK
    <3>5. T = Solo(n, k, t)
      BY <1>4, <3>2, <3>3, <3>4, PruneSolo
    <3>6. t \notin Known(trees, M)
      BY <2>3 DEF PlanOK
    <3>7. n \in 1 .. r.ids.nodes /\ k \in 1 .. r.ids.terms /\ n \notin 1 .. given.nodes /\ k \notin 1 .. given.terms
      BY <1>6, <1>10, <3>1, <3>2, <3>3
    <3>8. Made(T, t, trees, M, given, r.ids)
      BY <3>5, <3>6, <3>7 DEF Made
    <3>9. Terms(T) = {k} /\ Nodes(T) = {n} /\ Seeds(T) = {t} \ {NoTab}
      BY <3>5, SoloHolds
    <3> QED BY <2>3, <3>1, <3>2, <3>8, <3>9 DEF PlanTree
  <2> QED BY <2>1, <2>2, <2>3
<1>12. /\ IsFcn(r.plan) /\ DOMAIN r.plan = D \cup {t} /\ r.plan[t] = T
       /\ \A u \in D : r.plan[u] = acc.plan[u]
  BY <1>5 DEF PlanOK, Put, IsFcn
<1>13. \A u \in D \cup {t} : PlanTree(r.plan[u], u, trees, M, given, r.ids)
  <2>1. \A u \in D : PlanTree(acc.plan[u], u, trees, M, given, acc.ids)
    BY DEF PlanOK
  <2>2. 1 .. acc.ids.nodes \subseteq 1 .. r.ids.nodes /\ 1 .. acc.ids.terms \subseteq 1 .. r.ids.terms
    BY <1>6, <1>10
  <2>3. \A u \in D : PlanTree(acc.plan[u], u, trees, M, given, r.ids)
    BY <2>1, <2>2 DEF PlanTree, Made
  <2> QED BY <1>11, <1>12, <2>3
<1>14. \A u, v \in (D \cup {t}) \ DOMAIN M : u # v => Apart(r.plan[u], r.plan[v])
  <2>1. \A u, v \in D \ DOMAIN M : u # v => Apart(r.plan[u], r.plan[v])
    BY <1>12 DEF PlanOK
  <2>2. ASSUME NEW u \in D \ DOMAIN M, t \notin DOMAIN M PROVE Apart(r.plan[u], T) /\ Apart(T, r.plan[u])
    <3>1. CASE made
      <4>1. acc.ids.terms + 1 \notin 1 .. acc.ids.terms /\ acc.ids.nodes + 1 \notin 1 .. acc.ids.nodes
        BY <1>6
      <4> QED BY <1>8, <1>11, <1>12, <3>1, <4>1 DEF Apart
    <3>2. CASE ~ made
      BY <1>11, <2>2, <3>2, NoTreeOK DEF Apart
    <3> QED BY <3>1, <3>2
  <2> QED BY <1>12, <2>1, <2>2
<1>15. \A k \in r.taken : (\E u \in DOMAIN trees : k \in Terms(trees[u])) \/ \E u \in D \cup {t} : k \in Terms(r.plan[u])
  BY <1>5, <1>12 DEF PlanOK
<1>16. Known(trees, M) \subseteq r.seeded
  BY <1>5 DEF PlanOK
<1>17. \A k \in 1 .. r.ids.terms : k \notin 1 .. given.terms => \E u \in (D \cup {t}) \ DOMAIN M : k \in Terms(r.plan[u])
  <2> SUFFICES ASSUME NEW k \in 1 .. r.ids.terms, k \notin 1 .. given.terms
               PROVE  \E u \in (D \cup {t}) \ DOMAIN M : k \in Terms(r.plan[u])
    OBVIOUS
  <2>1. CASE k \in 1 .. acc.ids.terms
    BY <1>12, <2>1 DEF PlanOK
  <2>2. CASE k \notin 1 .. acc.ids.terms
    <3>1. made /\ k = acc.ids.terms + 1
      BY <1>6, <1>10, <2>2
    <3> QED BY <1>2, <1>11, <1>12, <3>1
  <2> QED BY <2>1, <2>2
<1> QED BY <1>1, <1>10, <1>12, <1>13, <1>14, <1>15, <1>16, <1>17 DEF PlanOK


LEMMA FirstPlanOK ==
  ASSUME NEW tabs, NEW trees, NEW M, NEW given, PlanInput(tabs, trees, M, given)
  PROVE  PlanOK(FirstPlan(trees, M, given), {}, trees, M, given)
<1>1. PICK r : r = FirstPlan(trees, M, given)
  OBVIOUS
<1>2. r.plan = <<>> /\ r.ids = given /\ r.taken = UNION {Terms(trees[t]) : t \in DOMAIN trees} /\ r.seeded = Known(trees, M)
  BY <1>1 DEF FirstPlan, Known
<1>3. Given_(given) /\ Later(given, given)
  BY DEF PlanInput, Given_, Later
<1>4. IsFcn(<<>>) /\ DOMAIN <<>> = {}
  BY DEF IsFcn
<1>5. \A k \in r.taken : \E t \in DOMAIN trees : k \in Terms(trees[t])
  BY <1>2
<1> QED BY <1>1, <1>2, <1>3, <1>4, <1>5 DEF PlanOK

(* The seeding: every tab that has no tree, and no other, is planned one.  *)
LEMMA PlanSeedsOK ==
  ASSUME NEW tabs, NEW trees, NEW M, NEW given, PlanInput(tabs, trees, M, given)
  PROVE  PlanOK(PlanSeeds(tabs, trees, M, given), Range(tabs) \ DOMAIN trees, trees, M, given)
<1>1. tabs \in Seq(given.tabs) /\ NoTwice(tabs) /\ Len(tabs) \in Nat
  BY LenProperties DEF PlanInput
<1>2. PICK n \in Nat : n = 2 * Len(tabs)
  BY <1>1
<1>3. PICK f : Plans(tabs, trees, M, given, n, f) /\ PlanSeeds(tabs, trees, M, given) = f[n]
  BY <1>1, <1>2, PlanSeedsIs
<1> DEFINE OK(i) == PlanOK(f[i], Planned(tabs, trees, M, i), trees, M, given)
           B == {i \in 0 .. n : ~ OK(i)}
<1>4. \A i \in 0 .. n : f[i] = IF i = 0 THEN FirstPlan(trees, M, given) ELSE NextPlan(tabs, trees, M, f[i - 1], i)
  BY <1>3 DEF Plans
<1>5. OK(0)
  <2>1. f[0] = FirstPlan(trees, M, given)
    BY <1>2, <1>4
  <2> QED BY <1>1, <2>1, FirstPlanOK, PlannedEnds
<1>6. ASSUME NEW i \in 1 .. n, OK(i - 1) PROVE OK(i)
  <2>1. PICK t : t = Turn(tabs, i)
    OBVIOUS
  <2>2. PICK skip \in BOOLEAN : skip = (t \in DOMAIN trees \/ NaturalOwner(t, M) # (i <= Len(tabs)))
    OBVIOUS
  <2>3. f[i] = IF skip THEN f[i - 1] ELSE PlanOne(M, f[i - 1], t)
    <3>1. i \in 0 .. n /\ i # 0
      BY <1>2
    <3>2. f[i] = NextPlan(tabs, trees, M, f[i - 1], i)
      BY <1>4, <3>1
    <3> QED BY <2>1, <2>2, <3>2 DEF NextPlan
  <2>4. /\ skip => Planned(tabs, trees, M, i) = Planned(tabs, trees, M, i - 1)
        /\ ~ skip => /\ t \in Range(tabs) \ DOMAIN trees /\ t \notin Planned(tabs, trees, M, i - 1)
                     /\ Planned(tabs, trees, M, i) = Planned(tabs, trees, M, i - 1) \cup {t}
    BY <1>1, <1>2, <2>1, <2>2, PlannedNext
  <2>5. Planned(tabs, trees, M, i - 1) \subseteq Range(tabs) \ DOMAIN trees
    BY DEF Planned
  <2>6. CASE skip
    BY <1>6, <2>3, <2>4, <2>6
  <2>7. CASE ~ skip
    <3>1. PICK acc, D : acc = f[i - 1] /\ D = Planned(tabs, trees, M, i - 1)
      OBVIOUS
    <3>2. PlanOK(PlanOne(M, acc, t), D \cup {t}, trees, M, given)
      BY <1>6, <2>4, <2>5, <2>7, <3>1, PlanStep
    <3> QED BY <2>3, <2>4, <2>7, <3>1, <3>2
  <2> QED BY <2>6, <2>7
<1>7. B = {}
  <2> SUFFICES ASSUME B # {} PROVE FALSE
    OBVIOUS
  <2>1. B \in SUBSET Nat
    OBVIOUS
  <2>2. PICK m \in B : \A k \in B : m <= k
    BY <2>1, Least
  <2>3. m # 0
    BY <1>5, <2>2
  <2>4. m \in 1 .. n /\ m - 1 \in 0 .. n /\ m - 1 \notin B
    BY <2>2, <2>3
  <2> QED BY <1>6, <2>2, <2>4
<1>8. OK(n)
  BY <1>2, <1>7
<1> QED BY <1>1, <1>2, <1>3, <1>8, PlannedEnds


----
(***************************************************************************)
(* The effects, and the theorems.                                          *)
(***************************************************************************)
(* A tree that was given to t: what it holds is new, and its own.          *)
Grown(T, t, trees, given, g) ==
  /\ TreeOK(T) /\ Nodes(T) \subseteq 1 .. g.nodes /\ Terms(T) \subseteq 1 .. g.terms /\ Seeds(T) \subseteq {t}
  /\ Nodes(T) \cap (1 .. given.nodes) = {} /\ Terms(T) \cap (1 .. given.terms) = {}
  /\ T = NoTree \/ \A u \in DOMAIN trees : t \notin Seeds(trees[u])
(* What the effects give the tabs D that wait for a tree.                  *)
GivenTrees(N, g, D, trees, given) ==
  /\ IsFcn(N) /\ DOMAIN N = D
  /\ Given_(g) /\ Later(given, g) /\ g.tabs = given.tabs
  /\ \A t \in D : Grown(N[t], t, trees, given, g)
  /\ \A t, u \in D : t # u => Apart(N[t], N[u])
  /\ \A k : k \in 1 .. g.terms /\ k \notin 1 .. given.terms <=> \E t \in D : k \in Terms(N[t])
Shows(P) == PanesForm(P) /\ IsFcn(P.trees) /\ P.tree = Tree(P, P.current)

LEMMA GrownOK ==
  ASSUME NEW t \in Tab, NEW trees, NEW M, NEW given, NEW g, Given_(given), Given_(g), NEW T, t \notin DOMAIN M,
         PlanTree(T, t, trees, M, given, g)
  PROVE  Grown(T, t, trees, given, g)
BY PlanTreeHolds DEF Grown, Known

LEMMA GrownFrom ==
  ASSUME NEW t, NEW trees, NEW a, NEW b, NEW g, NEW h, NEW T, Grown(T, t, trees, b, g),
         1 .. a.nodes \subseteq 1 .. b.nodes, 1 .. a.terms \subseteq 1 .. b.terms,
         1 .. g.nodes \subseteq 1 .. h.nodes, 1 .. g.terms \subseteq 1 .. h.terms
  PROVE  Grown(T, t, trees, a, h)
<1>1. /\ TreeOK(T) /\ Nodes(T) \subseteq 1 .. g.nodes /\ Terms(T) \subseteq 1 .. g.terms /\ Seeds(T) \subseteq {t}
      /\ Nodes(T) \cap (1 .. b.nodes) = {} /\ Terms(T) \cap (1 .. b.terms) = {}
      /\ T = NoTree \/ \A u \in DOMAIN trees : t \notin Seeds(trees[u])
  BY DEF Grown
<1>2. Nodes(T) \cap (1 .. a.nodes) = {} /\ Terms(T) \cap (1 .. a.terms) = {}
  BY <1>1
<1>3. Nodes(T) \subseteq 1 .. h.nodes /\ Terms(T) \subseteq 1 .. h.terms
  BY <1>1
<1> QED BY <1>1, <1>2, <1>3, Zenon DEF Grown

LEMMA GrownApart ==
  ASSUME NEW t, NEW u, t # u, NEW trees, NEW a, NEW b, NEW c, NEW T, NEW U, Grown(T, t, trees, a, b), Grown(U, u, trees, b, c)
  PROVE  Apart(T, U) /\ Apart(U, T)
BY DEF Grown, Apart

(* A first plan, of at most one tab, and what it leaves for a second.      *)
FirstGiven(trees, given, M, M2, p1, D1, D3) ==
  /\ Given_(given) /\ D1 \subseteq D3 /\ D3 \subseteq given.tabs
  /\ D1 \cap DOMAIN M = {} /\ D3 \cap DOMAIN M2 = D1
  /\ \A t \in D1 : M2[t] = p1.plan[t]
  /\ \A t, u \in D1 : t = u
  /\ PlanOK(p1, D1, trees, M, given)

(* A second plan keeps what the first has given, and gives more.           *)
LEMMA TwoPlans ==
  ASSUME NEW trees, NEW given, NEW M, NEW M2, NEW p1, NEW p3, NEW D1, NEW D3,
         FirstGiven(trees, given, M, M2, p1, D1, D3), PlanOK(p3, D3, trees, M2, p1.ids)
  PROVE  GivenTrees(p3.plan, p3.ids, D3, trees, given)
<1> USE DEF FirstGiven
<1>1. /\ Given_(p1.ids) /\ Later(given, p1.ids) /\ p1.ids.tabs = given.tabs
      /\ \A t \in D1 : PlanTree(p1.plan[t], t, trees, M, given, p1.ids)
      /\ \A k \in 1 .. p1.ids.terms : k \notin 1 .. given.terms => \E t \in D1 : k \in Terms(p1.plan[t])
  BY DEF PlanOK
<1>2. /\ IsFcn(p3.plan) /\ DOMAIN p3.plan = D3 /\ Given_(p3.ids) /\ Later(p1.ids, p3.ids) /\ p3.ids.tabs = given.tabs
      /\ \A t \in D3 : PlanTree(p3.plan[t], t, trees, M2, p1.ids, p3.ids)
      /\ \A t, u \in D3 \ DOMAIN M2 : t # u => Apart(p3.plan[t], p3.plan[u])
      /\ \A k \in 1 .. p3.ids.terms : k \notin 1 .. p1.ids.terms => \E t \in D3 : k \in Terms(p3.plan[t])
  BY <1>1 DEF PlanOK
<1>3. /\ Later(given, p3.ids)
      /\ 1 .. given.terms \subseteq 1 .. p1.ids.terms /\ 1 .. given.nodes \subseteq 1 .. p1.ids.nodes
      /\ 1 .. p1.ids.terms \subseteq 1 .. p3.ids.terms /\ 1 .. p1.ids.nodes \subseteq 1 .. p3.ids.nodes
  BY <1>1, <1>2 DEF Later, Given_
<1>4. D3 \subseteq Tab
  BY DEF Given_
<1>5. \A t \in D1 : t \in D3 /\ t \in DOMAIN M2 /\ t \notin DOMAIN M
  OBVIOUS
<1>6. \A t \in D1 : Grown(p1.plan[t], t, trees, given, p1.ids)
  BY <1>1, <1>4, <1>5, GrownOK
<1>7. \A t \in D1 : p3.plan[t] = p1.plan[t]
  BY <1>2, <1>5 DEF PlanTree
<1>8. \A t \in D3 \ D1 : Grown(p3.plan[t], t, trees, p1.ids, p3.ids)
  <2> TAKE t \in D3 \ D1
  <2>1. t \in Tab /\ t \notin DOMAIN M2 /\ PlanTree(p3.plan[t], t, trees, M2, p1.ids, p3.ids)
    BY <1>2, <1>4
  <2> QED BY <1>1, <1>2, <2>1, GrownOK
<1>9. \A t \in D3 : Grown(p3.plan[t], t, trees, given, p3.ids)
  <2> TAKE t \in D3
  <2>1. CASE t \in D1
    <3>1. Grown(p3.plan[t], t, trees, given, p1.ids)
      BY <1>6, <1>7, <2>1
    <3> QED BY <1>3, <3>1, GrownFrom
  <2>2. CASE t \notin D1
    <3>1. Grown(p3.plan[t], t, trees, p1.ids, p3.ids)
      BY <1>8, <2>2
    <3> QED BY <1>3, <3>1, GrownFrom
  <2> QED BY <2>1, <2>2
<1>10. \A t \in D1, u \in D3 \ D1 : Apart(p3.plan[t], p3.plan[u]) /\ Apart(p3.plan[u], p3.plan[t])
  <2> TAKE t \in D1, u \in D3 \ D1
  <2>1. t # u /\ Grown(p3.plan[t], t, trees, given, p1.ids) /\ Grown(p3.plan[u], u, trees, p1.ids, p3.ids)
    BY <1>6, <1>7, <1>8
  <2> QED BY <2>1, GrownApart
<1>11. \A t, u \in D3 : t # u => Apart(p3.plan[t], p3.plan[u])
  <2> SUFFICES ASSUME NEW t \in D3, NEW u \in D3, t # u PROVE Apart(p3.plan[t], p3.plan[u])
    OBVIOUS
  <2>1. CASE t \in D1 /\ u \in D1
    BY <2>1
  <2>2. CASE t \notin D1 /\ u \notin D1
    <3>1. t \in D3 \ DOMAIN M2 /\ u \in D3 \ DOMAIN M2
      BY <2>2
    <3> QED BY <1>2, <3>1
  <2> QED BY <1>10, <2>1, <2>2
<1>12. ASSUME NEW k PROVE k \in 1 .. p3.ids.terms /\ k \notin 1 .. given.terms <=> \E t \in D3 : k \in Terms(p3.plan[t])
  <2>1. \A t \in D3 : k \in Terms(p3.plan[t]) => k \in 1 .. p3.ids.terms /\ k \notin 1 .. given.terms
    BY <1>9 DEF Grown
  <2>2. ASSUME k \in 1 .. p3.ids.terms, k \notin 1 .. given.terms PROVE \E t \in D3 : k \in Terms(p3.plan[t])
    <3>1. CASE k \in 1 .. p1.ids.terms
      BY <1>1, <1>5, <1>7, <2>2, <3>1
    <3>2. CASE k \notin 1 .. p1.ids.terms
      BY <1>2, <2>2, <3>2
    <3> QED BY <3>1, <3>2
  <2> QED BY <2>1, <2>2
<1> QED BY <1>2, <1>3, <1>9, <1>11, <1>12 DEF GivenTrees

(* What the first has given is an input of the second.                     *)
LEMMA SecondInput ==
  ASSUME NEW trees, NEW given, NEW M, NEW M2, NEW p1, NEW D1, NEW D3, FirstGiven(trees, given, M, M2, p1, D1, D3),
         NEW tabs, tabs \in Seq(given.tabs), NoTwice(tabs), D3 = Range(tabs) \ DOMAIN trees,
         \A t \in DOMAIN trees : Terms(trees[t]) \subseteq 1 .. given.terms
  PROVE  PlanInput(tabs, trees, M2, p1.ids)
<1> USE DEF FirstGiven
<1>1. /\ Given_(p1.ids) /\ Later(given, p1.ids) /\ p1.ids.tabs = given.tabs
      /\ \A t \in D1 : PlanTree(p1.plan[t], t, trees, M, given, p1.ids)
  BY DEF PlanOK
<1>2. 1 .. given.terms \subseteq 1 .. p1.ids.terms
  BY <1>1 DEF Later, Given_
<1>3. ASSUME NEW t \in D1
      PROVE  M2[t] = NoTree \/ \E n \in 1 .. p1.ids.nodes, k \in 1 .. p1.ids.terms :
                                  M2[t] = Solo(n, k, t) /\ \A u \in DOMAIN trees : k \notin Terms(trees[u])
  <2>1. t \notin DOMAIN M /\ M2[t] = p1.plan[t] /\ PlanTree(p1.plan[t], t, trees, M, given, p1.ids)
    BY <1>1
  <2>2. CASE Made(M2[t], t, trees, M, given, p1.ids)
    <3>1. PICK n \in 1 .. p1.ids.nodes, k \in 1 .. p1.ids.terms : k \notin 1 .. given.terms /\ M2[t] = Solo(n, k, t)
      BY <2>2 DEF Made
    <3>2. \A u \in DOMAIN trees : k \notin Terms(trees[u])
      BY <3>1
    <3> QED BY <3>1, <3>2
  <2> QED BY <2>1, <2>2 DEF PlanTree
<1>4. /\ Given_(p1.ids) /\ tabs \in Seq(p1.ids.tabs) /\ NoTwice(tabs)
      /\ \A t \in DOMAIN trees : Terms(trees[t]) \subseteq 1 .. p1.ids.terms
  BY <1>1, <1>2
<1> QED BY <1>3, <1>4 DEF PlanInput

LEMMA OneOK ==
  ASSUME NEW S, NEW x \in S
  PROVE  <<x>> \in Seq(S) /\ NoTwice(<<x>>) /\ Range(<<x>>) = {x}
<1>1. <<x>> \in Seq(S)
  OBVIOUS
<1>2. DOMAIN <<x>> = {1} /\ <<x>>[1] = x
  OBVIOUS
<1> QED BY <1>1, <1>2 DEF NoTwice, Range

(* The first of the two plans is of the active tab alone.                  *)
LEMMA FirstEffect ==
  ASSUME CoreInv, NEW one, one = IF strip.active = NoTab THEN <<>> ELSE <<strip.active>>
  PROVE  /\ PlanInput(one, panes.trees, mirror, ids) /\ Range(one) \subseteq Open
         /\ \A t, u \in Range(one) : t = u
         /\ (Range(one) \ DOMAIN panes.trees) \cap DOMAIN mirror = {}
<1>1. Open \subseteq ids.tabs /\ Given_(ids) /\ (strip.active # NoTab => strip.active \in Open)
  BY OpenTabs DEF CoreInv, IdsOK
<1>2. one \in Seq(ids.tabs) /\ NoTwice(one) /\ Range(one) \subseteq Open /\ (\A t, u \in Range(one) : t = u)
  <2>1. CASE strip.active = NoTab
    BY <2>1 DEF NoTwice, Range
  <2>2. CASE strip.active # NoTab
    <3>1. one = <<strip.active>> /\ strip.active \in ids.tabs /\ strip.active \in Open
      BY <1>1, <2>2
    <3>2. PICK x \in ids.tabs : x = strip.active
      BY <3>1
    <3>3. <<x>> \in Seq(ids.tabs) /\ NoTwice(<<x>>) /\ Range(<<x>>) = {x}
      BY OneOK
    <3>4. one = <<x>>
      BY <3>1, <3>2
    <3>5. one \in Seq(ids.tabs) /\ NoTwice(one) /\ Range(one) = {x}
      BY <3>3, <3>4, Zenon
    <3> HIDE <3>4
    <3> QED BY <3>1, <3>2, <3>5
  <2> QED BY <2>1, <2>2
<1>3. (Range(one) \ DOMAIN panes.trees) \cap DOMAIN mirror = {}
  BY <1>2 DEF CoreInv, MirrorOK
<1>4. \A t \in DOMAIN panes.trees : Terms(panes.trees[t]) \subseteq 1 .. ids.terms
  <2> SUFFICES ASSUME NEW t \in DOMAIN panes.trees PROVE Terms(panes.trees[t]) \subseteq 1 .. ids.terms
    OBVIOUS
  <2>1. t \in Places /\ t # NoTab
    BY WorkspaceAssumption DEF CoreInv, TreesOK, IdsOK, Given_, Places
  <2>2. Piece(t) = panes.trees[t] /\ Within(Piece(t), ids)
    BY <2>1, Pieces DEF Piece, Tree
  <2> QED BY <2>2 DEF Within
<1> QED BY <1>2, <1>3, <1>4, OpenTabs DEF PlanInput, CoreInv, IdsOK


(* The two plans of the effects.                                           *)
EffectsPlans(one, trees, p1, M1, M2, p3) ==
  /\ one = IF strip.active = NoTab THEN <<>> ELSE <<strip.active>>
  /\ trees = panes.trees
  /\ p1 = PlanSeeds(one, trees, mirror, ids)
  /\ M1 = Over(p1.plan, mirror)
  /\ M2 = Restrict(M1, DOMAIN M1 \cap Open)
  /\ p3 = PlanSeeds(strip.tabs, trees, M2, p1.ids)

LEMMA BothPlans ==
  ASSUME CoreInv, NEW one, NEW trees, NEW p1, NEW M1, NEW M2, NEW p3, EffectsPlans(one, trees, p1, M1, M2, p3)
  PROVE  /\ GivenTrees(p3.plan, p3.ids, Open \ DOMAIN trees, trees, ids)
         /\ DOMAIN p1.plan = Range(one) \ DOMAIN trees /\ Range(one) \subseteq Open
         /\ DOMAIN M1 = DOMAIN p1.plan \cup DOMAIN mirror
<1> USE DEF EffectsPlans
<1>1. PICK D1, D3 : D1 = Range(one) \ DOMAIN trees /\ D3 = Open \ DOMAIN trees
  OBVIOUS
<1>2. /\ PlanInput(one, trees, mirror, ids) /\ Range(one) \subseteq Open
      /\ (\A t, u \in Range(one) : t = u) /\ (Range(one) \ DOMAIN trees) \cap DOMAIN mirror = {}
  BY FirstEffect
<1>3. PlanOK(p1, D1, trees, mirror, ids)
  BY <1>1, <1>2, PlanSeedsOK
<1>4. DOMAIN p1.plan = D1
  BY <1>3 DEF PlanOK
<1>5. DOMAIN M1 = D1 \cup DOMAIN mirror /\ \A t \in D1 : M1[t] = p1.plan[t]
  <2>1. DOMAIN Over(p1.plan, mirror) = DOMAIN p1.plan \cup DOMAIN mirror
        /\ \A t \in DOMAIN p1.plan : Over(p1.plan, mirror)[t] = p1.plan[t]
    BY DEF Over
  <2> QED BY <1>4, <2>1
<1>6. DOMAIN M2 = DOMAIN M1 \cap Open /\ \A t \in DOMAIN M2 : M2[t] = M1[t]
  BY DEF Restrict
<1>7. DOMAIN mirror \cap Open \subseteq DOMAIN trees /\ DOMAIN trees \subseteq DOMAIN mirror
  BY DEF CoreInv, MirrorOK
<1>8. D1 \subseteq D3 /\ D1 \subseteq Open /\ D1 \cap DOMAIN mirror = {} /\ D3 \cap DOMAIN M2 = D1
  BY <1>1, <1>2, <1>5, <1>6, <1>7
<1>9. \A t \in D1 : M2[t] = p1.plan[t]
  <2> TAKE t \in D1
  <2>1. t \in DOMAIN M2
    BY <1>8
  <2>2. M2[t] = M1[t] /\ M1[t] = p1.plan[t]
    BY <1>5, <1>6, <2>1, Zenon
  <2> QED BY <2>2, Zenon
<1>10. \A t, u \in D1 : t = u
  BY <1>1, <1>2
<1>11. /\ Given_(ids) /\ D3 \subseteq ids.tabs /\ strip.tabs \in Seq(ids.tabs) /\ NoTwice(strip.tabs)
       /\ Range(strip.tabs) = Open
  BY <1>1, OpenTabs DEF CoreInv, IdsOK, StripInv, StripOK, Open
<1>12. \A t \in DOMAIN trees : Terms(trees[t]) \subseteq 1 .. ids.terms
  BY <1>2 DEF PlanInput
<1>13. FirstGiven(trees, ids, mirror, M2, p1, D1, D3)
  BY <1>3, <1>8, <1>9, <1>10, <1>11, Zenon DEF FirstGiven
<1>14. PlanInput(strip.tabs, trees, M2, p1.ids)
  BY <1>1, <1>11, <1>12, <1>13, SecondInput
<1>15. PlanOK(p3, D3, trees, M2, p1.ids)
  BY <1>1, <1>11, <1>14, PlanSeedsOK
<1>16. GivenTrees(p3.plan, p3.ids, D3, trees, ids)
  BY <1>13, <1>15, TwoPlans
<1> QED BY <1>1, <1>2, <1>4, <1>5, <1>16


(* The pane slice goes on showing the tree of its tab.                     *)
LEMMA ShowsInstalled ==
  ASSUME NEW P, Shows(P), NEW plan
  PROVE  /\ Shows(Installed(P, plan)) /\ Installed(P, plan).trees = Over(plan, P.trees)
         /\ Installed(P, plan).current = P.current
<1>1. PICK R : R = Installed(P, plan)
  OBVIOUS
<1>2. PanesForm(P) /\ P.tree = Tree(P, P.current)
  BY DEF Shows
<1>3. PanesAre(R, Over(plan, P.trees), IF P.current \in DOMAIN plan THEN plan[P.current] ELSE P.tree, P.current,
               P.active, P.of, P.max)
  BY <1>1, <1>2, InstalledFields
<1>4. /\ PanesForm(R) /\ R.trees = Over(plan, P.trees) /\ R.current = P.current
      /\ R.tree = IF P.current \in DOMAIN plan THEN plan[P.current] ELSE P.tree
  BY <1>3 DEF PanesAre, PanesForm
<1>5. IsFcn(R.trees) /\ R.tree = Tree(R, R.current)
  BY <1>2, <1>4 DEF Tree, Over, IsFcn
<1> QED BY <1>1, <1>4, <1>5 DEF Shows

LEMMA ShowsRemoved ==
  ASSUME NEW P, Shows(P), NEW S
  PROVE  /\ Shows(RemoveTabTrees(P, S)) /\ RemoveTabTrees(P, S).trees = Restrict(P.trees, DOMAIN P.trees \ S)
         /\ RemoveTabTrees(P, S).current = P.current
<1>1. PICK R : R = RemoveTabTrees(P, S)
  OBVIOUS
<1>2. PanesForm(P) /\ P.tree = Tree(P, P.current)
  BY DEF Shows
<1>3. PanesAre(R, Restrict(P.trees, DOMAIN P.trees \ S), IF P.current \in S THEN NoTree ELSE P.tree, P.current,
               IF P.current \in S THEN 0 ELSE P.active,
               Restrict(P.of, DOMAIN P.of \ S), Restrict(P.max, DOMAIN P.max \ S))
  BY <1>1, <1>2, RemoveTabTreesFields
<1>4. /\ PanesForm(R) /\ R.trees = Restrict(P.trees, DOMAIN P.trees \ S) /\ R.current = P.current
      /\ R.tree = IF P.current \in S THEN NoTree ELSE P.tree
  BY <1>3 DEF PanesAre, PanesForm
<1>5. IsFcn(R.trees) /\ R.tree = Tree(R, R.current)
  BY <1>2, <1>4 DEF Tree, Restrict, IsFcn
<1> QED BY <1>1, <1>4, <1>5 DEF Shows

LEMMA ShowsActive ==
  ASSUME NEW P, Shows(P), NEW t, t # NoTab
  PROVE  /\ Shows(SetActiveTabId(P, t)) /\ SetActiveTabId(P, t).trees = P.trees
         /\ SetActiveTabId(P, t).current = t
<1>1. PICK R : R = SetActiveTabId(P, t)
  OBVIOUS
<1>2. PanesForm(P) /\ IsFcn(P.trees)
  BY DEF Shows
<1>3. R.trees = P.trees /\ R.current = t /\ R.tree = Tree(P, t) /\ PanesForm(R)
  BY <1>1, <1>2, SetActiveTabIdFields DEF PanesAre, PanesForm
<1>4. R.tree = Tree(R, R.current)
  BY <1>3 DEF Tree
<1> QED BY <1>1, <1>2, <1>3, <1>4 DEF Shows


(* What the effects leave: every open tab with a tree, and no other.       *)
LEMMA EffectsGive ==
  ASSUME CoreInv, Effects
  PROVE  \E N, g :
           /\ GivenTrees(N, g, Open \ DOMAIN panes.trees, panes.trees, ids) /\ ids' = g
           /\ Shows(panes') /\ DOMAIN panes'.trees = Open /\ mirror' = panes'.trees
           /\ \A t \in Open : panes'.trees[t] = IF t \in DOMAIN panes.trees THEN panes.trees[t] ELSE N[t]
           /\ panes'.current = IF strip.active = NoTab THEN panes.current ELSE strip.active
           /\ running' = running \cup (ids.terms + 1 .. g.terms)
           /\ strip' = strip /\ away' = away /\ saved' = saved /\ stray' = stray
<1> DEFINE trees == panes.trees
           one == IF strip.active = NoTab THEN <<>> ELSE <<strip.active>>
           p1 == PlanSeeds(one, trees, mirror, ids)
           P0 == IF one = <<>> THEN panes ELSE SetActiveTabId(panes, strip.active)
           P1 == Installed(P0, p1.plan)
           M1 == Over(p1.plan, mirror)
           P2 == RemoveTabTrees(P1, DOMAIN M1 \ Open)
           M2 == Restrict(M1, DOMAIN M1 \cap Open)
           p3 == PlanSeeds(strip.tabs, trees, M2, p1.ids)
           P3 == Installed(P2, p3.plan)
<1>11. /\ panes' = P3 /\ mirror' = Over(P3.trees, M2) /\ ids' = p3.ids
       /\ running' = running \cup (ids.terms + 1 .. p3.ids.terms)
       /\ strip' = strip /\ away' = away /\ saved' = saved /\ stray' = stray
  BY Zenon DEF Effects, Cleaned, Open
<1>1. trees = panes.trees
  OBVIOUS
<1>2. one = IF strip.active = NoTab THEN <<>> ELSE <<strip.active>>
  OBVIOUS
<1>3. p1 = PlanSeeds(one, trees, mirror, ids)
  OBVIOUS
<1>4. P0 = IF one = <<>> THEN panes ELSE SetActiveTabId(panes, strip.active)
  OBVIOUS
<1>5. P1 = Installed(P0, p1.plan)
  OBVIOUS
<1>6. M1 = Over(p1.plan, mirror)
  OBVIOUS
<1>7. P2 = RemoveTabTrees(P1, DOMAIN M1 \ Open)
  OBVIOUS
<1>8. M2 = Restrict(M1, DOMAIN M1 \cap Open)
  OBVIOUS
<1>9. p3 = PlanSeeds(strip.tabs, trees, M2, p1.ids)
  OBVIOUS
<1>10. P3 = Installed(P2, p3.plan)
  OBVIOUS
<1> HIDE DEF trees, one, p1, P0, P1, M1, P2, M2, p3, P3
<1>12. /\ GivenTrees(p3.plan, p3.ids, Open \ DOMAIN trees, trees, ids)
       /\ DOMAIN p1.plan = Range(one) \ DOMAIN trees /\ Range(one) \subseteq Open
       /\ DOMAIN M1 = DOMAIN p1.plan \cup DOMAIN mirror
  <2>1. EffectsPlans(one, trees, p1, M1, M2, p3)
    BY <1>1, <1>2, <1>3, <1>6, <1>8, <1>9, Zenon DEF EffectsPlans
  <2> QED BY <2>1, BothPlans, Zenon
<1>13. Shows(panes)
  BY Zenon DEF CoreInv, CurrentOK, TreesOK, Shows
<1>14. /\ Shows(P0) /\ P0.trees = trees
       /\ P0.current = IF strip.active = NoTab THEN panes.current ELSE strip.active
  <2>1. CASE strip.active = NoTab
    BY <1>1, <1>2, <1>4, <1>13, <2>1
  <2>2. CASE strip.active # NoTab
    <3>1. one # <<>>
      <4>1. DOMAIN <<strip.active>> = {1} /\ DOMAIN <<>> = {}
        OBVIOUS
      <4>2. <<strip.active>> # <<>>
        BY <4>1, Zenon
      <4> QED BY <1>2, <2>2, <4>2
    <3>2. P0 = SetActiveTabId(panes, strip.active)
      BY <1>4, <3>1
    <3> QED BY <1>1, <1>13, <2>2, <3>2, ShowsActive
  <2> QED BY <2>1, <2>2
<1>15. Shows(P1) /\ P1.trees = Over(p1.plan, trees) /\ P1.current = P0.current
  BY <1>5, <1>14, ShowsInstalled
<1>16. Shows(P2) /\ P2.trees = Restrict(P1.trees, DOMAIN P1.trees \ (DOMAIN M1 \ Open)) /\ P2.current = P1.current
  BY <1>7, <1>15, ShowsRemoved
<1>17. Shows(P3) /\ P3.trees = Over(p3.plan, P2.trees) /\ P3.current = P2.current
  BY <1>10, <1>16, ShowsInstalled
<1>18. DOMAIN p3.plan = Open \ DOMAIN trees /\ DOMAIN trees \subseteq DOMAIN mirror
  BY <1>1, <1>12 DEF GivenTrees, CoreInv, MirrorOK
<1>19. DOMAIN P1.trees = DOMAIN p1.plan \cup DOMAIN trees /\ \A t \in DOMAIN trees : P1.trees[t] = trees[t]
  <2>1. \A t \in DOMAIN trees : t \notin DOMAIN p1.plan
    BY <1>12
  <2> QED BY <1>15, <2>1 DEF Over
<1>20. DOMAIN P2.trees = (DOMAIN p1.plan \cup DOMAIN trees) \cap Open /\ \A t \in DOMAIN P2.trees : P2.trees[t] = P1.trees[t]
  <2>1. DOMAIN P1.trees \ (DOMAIN M1 \ Open) = DOMAIN P1.trees \cap Open
    BY <1>12, <1>18, <1>19
  <2> QED BY <1>16, <1>19, <2>1 DEF Restrict
<1>21. DOMAIN P3.trees = Open
  BY <1>12, <1>17, <1>18, <1>20 DEF Over
<1>22. \A t \in Open : P3.trees[t] = IF t \in DOMAIN trees THEN trees[t] ELSE p3.plan[t]
  <2> TAKE t \in Open
  <2>1. CASE t \in DOMAIN trees
    <3>1. t \notin DOMAIN p3.plan /\ t \in DOMAIN P2.trees
      BY <1>18, <1>20, <2>1
    <3> QED BY <1>17, <1>19, <1>20, <2>1, <3>1 DEF Over
  <2>2. CASE t \notin DOMAIN trees
    BY <1>17, <1>18, <2>2 DEF Over
  <2> QED BY <2>1, <2>2
<1>23. Over(P3.trees, M2) = P3.trees
  <2>1. DOMAIN M2 \subseteq Open
    BY <1>8 DEF Restrict
  <2>2. P3.trees = [x \in Open |-> P3.trees[x]]
    BY <1>17, <1>21 DEF Shows, IsFcn
  <2>3. Over(P3.trees, M2) = [x \in Open |-> P3.trees[x]]
    BY <1>21, <2>1 DEF Over
  <2> QED BY <2>2, <2>3
<1>24. \A t \in Open : panes'.trees[t] = IF t \in DOMAIN panes.trees THEN panes.trees[t] ELSE p3.plan[t]
  BY <1>1, <1>11, <1>22
<1>25. /\ GivenTrees(p3.plan, p3.ids, Open \ DOMAIN panes.trees, panes.trees, ids) /\ ids' = p3.ids
       /\ Shows(panes') /\ DOMAIN panes'.trees = Open /\ mirror' = panes'.trees
       /\ panes'.current = IF strip.active = NoTab THEN panes.current ELSE strip.active
  BY <1>1, <1>11, <1>12, <1>14, <1>15, <1>16, <1>17, <1>21, <1>23
<1> QED BY <1>11, <1>24, <1>25, Zenon


LEMMA EffectsStep ==
  ASSUME CoreInv, Effects
  PROVE  CoreInv'
<1>1. PICK N, g :
           /\ GivenTrees(N, g, Open \ DOMAIN panes.trees, panes.trees, ids) /\ ids' = g
           /\ Shows(panes') /\ DOMAIN panes'.trees = Open /\ mirror' = panes'.trees
           /\ \A t \in Open : panes'.trees[t] = IF t \in DOMAIN panes.trees THEN panes.trees[t] ELSE N[t]
           /\ panes'.current = IF strip.active = NoTab THEN panes.current ELSE strip.active
           /\ running' = running \cup (ids.terms + 1 .. g.terms)
           /\ strip' = strip /\ away' = away /\ saved' = saved /\ stray' = stray
  BY EffectsGive
<1>2. /\ Given_(ids) /\ Given_(ids') /\ Later(ids, ids') /\ ids'.tabs = ids.tabs
      /\ \A t \in Open \ DOMAIN panes.trees : Grown(N[t], t, panes.trees, ids, ids')
      /\ \A t, u \in Open \ DOMAIN panes.trees : t # u => Apart(N[t], N[u])
      /\ \A k : k \in 1 .. ids'.terms /\ k \notin 1 .. ids.terms <=> \E t \in Open \ DOMAIN panes.trees : k \in Terms(N[t])
  BY <1>1 DEF GivenTrees, CoreInv, IdsOK
<1>3. Open' = Open /\ Open \subseteq ids.tabs /\ ids.tabs \subseteq Tab /\ NoTab \notin Tab
  BY <1>1, OpenTabs, WorkspaceAssumption DEF Open
<1>4. \A z \in Places : TreeOK(Piece(z)) /\ Within(Piece(z), ids) /\ Within(Piece(z), ids')
  BY <1>2, Pieces, WithinLater
<1>5. \A z \in Places : Piece(z)' = IF z = NoTab THEN Piece(z) ELSE IF z \notin Open THEN NoTree
                                     ELSE IF z \in DOMAIN panes.trees THEN Piece(z) ELSE N[z]
  BY <1>1, <1>3 DEF Piece, Tree, Places
<1> DEFINE Waits == Open \ DOMAIN panes.trees
<1>6. ASSUME NEW z \in Waits PROVE TreeOK(N[z]) /\ Within(N[z], ids')
  BY <1>2, <1>3 DEF Grown, Within
<1>7. \A z \in Places : TreeOK(Piece(z)') /\ Within(Piece(z)', ids')
  <2> TAKE z \in Places
  <2>1. Within(NoTree, ids')
    BY NoTreeOK DEF Within
  <2>2. PICK p : p = Piece(z)'
    OBVIOUS
  <2>3. p \in {Piece(z), NoTree} \/ (z \in Waits /\ p = N[z])
    BY <1>5, <2>2
  <2>4. TreeOK(p) /\ Within(p, ids')
    BY <1>4, <1>6, <2>1, <2>3, NoTreeOK
  <2> QED BY <2>2, <2>4
<1>8. \A z \in Waits, w \in Places : w \notin Waits => Apart(N[z], Piece(w)') /\ Apart(Piece(w)', N[z])
  <2> SUFFICES ASSUME NEW z \in Waits, NEW w \in Places, w \notin Waits PROVE Apart(N[z], Piece(w)') /\ Apart(Piece(w)', N[z])
    OBVIOUS
  <2>1. PICK p : p = Piece(w)'
    OBVIOUS
  <2>2. CASE p = NoTree
    BY <2>1, <2>2, NoTreeOK DEF Apart
  <2>3. CASE p # NoTree
    <3>1. p = Piece(w) /\ (w = NoTab \/ w \in DOMAIN panes.trees)
      BY <1>5, <2>1, <2>3
    <3>2. Grown(N[z], z, panes.trees, ids, ids') /\ Within(p, ids)
      BY <1>2, <1>4, <3>1
    <3>3. N[z] = NoTree \/ z \notin Seeds(p)
      <4>1. CASE w = NoTab
        BY <3>1, <4>1 DEF CoreInv, PendingOK, Piece
      <4>2. CASE w # NoTab
        <5>1. p = panes.trees[w] /\ w \in DOMAIN panes.trees
          BY <3>1, <4>2 DEF Piece, Tree
        <5> QED BY <3>2, <5>1 DEF Grown
      <4> QED BY <4>1, <4>2
    <3>4. Apart(N[z], p) /\ Apart(p, N[z])
      BY <3>2, <3>3, NoTreeOK DEF Grown, Within, Apart
    <3> QED BY <2>1, <3>4
  <2> QED BY <2>2, <2>3
<1>9. \A z, w \in Places : z # w => Apart(Piece(z)', Piece(w)')
  <2> SUFFICES ASSUME NEW z \in Places, NEW w \in Places, z # w PROVE Apart(Piece(z)', Piece(w)')
    OBVIOUS
  <2>0. NoTab \notin Waits
    BY <1>3
  <2>1. CASE z \in Waits /\ w \in Waits
    BY <1>2, <1>5, <2>0, <2>1
  <2>2. CASE z \in Waits /\ w \notin Waits
    <3>1. Piece(z)' = N[z]
      BY <1>5, <2>0, <2>2
    <3> QED BY <1>8, <2>2, <3>1
  <2>3. CASE z \notin Waits /\ w \in Waits
    <3>1. Piece(w)' = N[w]
      BY <1>5, <2>0, <2>3
    <3> QED BY <1>8, <2>3, <3>1
  <2>4. CASE z \notin Waits /\ w \notin Waits
    <3>1. PICK p, q : p = Piece(z)' /\ q = Piece(w)'
      OBVIOUS
    <3>2. p \in {Piece(z), NoTree} /\ q \in {Piece(w), NoTree}
      BY <1>5, <2>4, <3>1
    <3>3. Apart(Piece(z), Piece(w))
      BY Pieces
    <3>4. Apart(p, q)
      BY <3>2, <3>3, NoTreeOK DEF Apart
    <3> QED BY <3>1, <3>4
  <2> QED BY <2>1, <2>2, <2>3, <2>4
<1>10. ForestOK'
  BY <1>7, <1>9 DEF ForestOK, Forest, All
<1>11. IdsOK' /\ StripInv' /\ TreesOK' /\ MirrorOK' /\ PendingOK' /\ AgreeOK'
  <2>1. IdsOK' /\ TreesOK' /\ MirrorOK' /\ PendingOK'
    BY <1>1, <1>2, <1>3 DEF IdsOK, TreesOK, MirrorOK, PendingOK, Shows
  <2>2. StripInv'
    BY <1>1, <1>2, StripLater DEF CoreInv, StripInv
  <2>3. AgreeOK'
    BY <1>1, <1>3, OpenTabs DEF AgreeOK
  <2> QED BY <2>1, <2>2, <2>3
<1>12. CurrentOK'
  <2>1. panes'.current \in ids'.tabs \cup {NoTab}
    BY <1>1, <1>2, <1>3, OpenTabs DEF CoreInv, CurrentOK
  <2>2. PanesForm(panes') /\ panes'.tree = Tree(panes', panes'.current)
    BY <1>1 DEF Shows
  <2> QED BY <2>1, <2>2 DEF CurrentOK
<1>13. AwayOK'
  BY <1>1, <1>2, <1>3 DEF CoreInv, AwayOK
<1>14. SavedOK'
  <2>1. StripOK(saved.strip, ids) /\ IsFcn(saved.mirror) /\ DOMAIN saved.mirror \subseteq ids.tabs /\ Forest(saved.mirror, ids)
    BY DEF CoreInv, SavedOK
  <2>2. StripOK(saved.strip, ids') /\ Forest(saved.mirror, ids')
    BY <1>2, <2>1, StripLater, ForestLater
  <2> QED BY <1>1, <1>2, <2>1, <2>2 DEF SavedOK
<1>15. StrayOK'
  <2>1. stray \subseteq 1 .. ids.terms /\ \A z \in Places : stray \cap Terms(Piece(z)) = {}
    BY DEF CoreInv, StrayOK
  <2>2. 1 .. ids.terms \subseteq 1 .. ids'.terms
    BY <1>2 DEF Later, Given_
  <2>3. ASSUME NEW z \in Places PROVE stray \cap Terms(Piece(z)') = {}
    <3>1. CASE z \in Waits
      <4>1. Piece(z)' = N[z] /\ Grown(N[z], z, panes.trees, ids, ids')
        BY <1>2, <1>3, <1>5, <3>1
      <4> QED BY <2>1, <4>1 DEF Grown
    <3>2. CASE z \notin Waits
      <4>1. PICK p : p = Piece(z)'
        OBVIOUS
      <4>2. p = Piece(z) \/ p = NoTree
        BY <1>5, <3>2, <4>1
      <4>3. stray \cap Terms(p) = {}
        BY <2>1, <4>2, NoTreeOK
      <4> QED BY <4>1, <4>3
    <3> QED BY <3>1, <3>2
  <2> QED BY <1>1, <2>1, <2>2, <2>3 DEF StrayOK
<1>16. RunOK'
  <2>1. \A t \in Tab : Live(t) = IF t \in Open /\ t \in DOMAIN panes.trees THEN Terms(panes.trees[t]) ELSE {}
    BY NoTreeOK DEF Live, Tree
  <2>2. \A t \in Tab : Live(t)' = IF t \in Open THEN Terms(IF t \in DOMAIN panes.trees THEN panes.trees[t] ELSE N[t]) ELSE {}
    BY <1>1, <1>3 DEF Live, Tree
  <2>3. \A k : k \in ids.terms + 1 .. g.terms <=> \E t \in Waits : k \in Terms(N[t])
    <3>1. \A k : k \in ids.terms + 1 .. ids'.terms <=> k \in 1 .. ids'.terms /\ k \notin 1 .. ids.terms
      BY <1>2 DEF Given_, Later
    <3> QED BY <1>1, <1>2, <3>1
  <2>4. ASSUME NEW k PROVE (\E t \in Tab : k \in Live(t)') <=> (\E t \in Tab : k \in Live(t)) \/ \E t \in Waits : k \in Terms(N[t])
    <3>1. \A t \in Tab : k \in Live(t)' <=> k \in Live(t) \/ (t \in Waits /\ k \in Terms(N[t]))
      BY <2>1, <2>2
    <3>2. Waits \subseteq Tab
      BY <1>3
    <3> HIDE DEF Waits
    <3> QED BY <3>1, <3>2
  <2>5. running = stray \cup UNION {Live(z) : z \in Tab}
    BY DEF CoreInv, RunOK
  <2>6. \A k : k \in running' <=> k \in stray' \/ \E t \in Tab : k \in Live(t)'
    <3>1. \A k : k \in running <=> k \in stray \/ \E t \in Tab : k \in Live(t)
      BY <2>5
    <3> HIDE DEF Waits
    <3> QED BY <1>1, <2>3, <2>4, <3>1
  <2> QED BY <2>6 DEF RunOK
<1> QED BY <1>10, <1>11, <1>12, <1>13, <1>14, <1>15, <1>16 DEF CoreInv


(* Whatever happens, and whatever an earlier version saved that names no    *)
(* terminal twice, the invariant holds.                                    *)
THEOREM WorkspaceInvariant == "twice" \notin Saves /\ Spec => []CoreInv
<1> SUFFICES ASSUME "twice" \notin Saves PROVE Spec => []CoreInv
  OBVIOUS
<1>1. Init => CoreInv
  BY InitOK
<1>2. CoreInv /\ [Next]_vars => CoreInv'
  <2> SUFFICES ASSUME CoreInv, [Next]_vars PROVE CoreInv'
    OBVIOUS
  <2>1. CASE UNCHANGED vars
    BY <2>1 DEF vars, CoreInv, IdsOK, ForestOK, TreesOK, StripInv, CurrentOK, AwayOK, SavedOK, MirrorOK, PendingOK,
                StrayOK, RunOK, AgreeOK, All, Piece, Live, Open
  <2>2. CASE Effects
    BY <2>2, EffectsStep
  <2>3. CASE Task
    BY <2>3, TaskOK
  <2>4. CASE Restart
    BY <2>4, RestartStep
  <2> QED BY <2>1, <2>2, <2>3, <2>4 DEF Next
<1> QED BY <1>1, <1>2, PTL DEF Spec

(* The terminals of a tree, and the leaves that show them, are as many.    *)
LEMMA AsMany ==
  ASSUME NEW t, TreeOK(t), IsFiniteSet(Nodes(t))
  PROVE  Cardinality(Terms(t)) = Cardinality(DOMAIN t.leaf)
<1>1. IsFiniteSet(DOMAIN t.leaf)
  BY FS_Subset DEF Nodes
<1> DEFINE f == [p \in DOMAIN t.leaf |-> t.leaf[p].term]
<1>2. f \in [DOMAIN t.leaf -> Terms(t)]
  BY DEF Terms
<1>3. DOMAIN f = DOMAIN t.leaf /\ \A p, q \in DOMAIN f : f[p] = f[q] => p = q
  BY DEF TreeOK, Distinct
<1>4. \A k \in Terms(t) : \E p \in DOMAIN t.leaf : f[p] = k
  BY DEF Terms
<1> HIDE DEF f
<1>5. f \in Bijection(DOMAIN t.leaf, Terms(t))
  BY <1>2, <1>3, <1>4 DEF Bijection, Injection, Surjection, IsInjective
<1> QED BY <1>1, <1>5, FS_Bijection DEF ExistsBijection

(* The tabs that have a tree, and the place of the tree that is away.      *)
LEMMA InPlace ==
  ASSUME CoreInv
  PROVE  /\ \A t \in DOMAIN panes.trees : t \in Places /\ t # NoTab /\ Piece(t) = panes.trees[t]
         /\ NoTab \in Places /\ Piece(NoTab) = away.tree
<1>1. DOMAIN panes.trees \subseteq ids.tabs /\ Given_(ids)
  BY DEF CoreInv, TreesOK, IdsOK
<1>2. ids.tabs \subseteq Tab /\ NoTab \notin Tab
  BY <1>1, WorkspaceAssumption DEF Given_
<1> QED BY <1>1, <1>2 DEF Places, Piece, Tree

(* A terminal is shown by one pane of one tab of one window, and a pane id   *)
(* names one node, whatever is split, moved, regrouped, detached, attached, *)
(* closed, saved and restored (panesSlice, paneTreeOps, removeQualified-     *)
(* Source, restoreState), unless a save already names a terminal twice.     *)
THEOREM EachTerminalAlwaysOnce == "twice" \notin Saves /\ Spec => []EachTerminalOnce
<1>1. CoreInv => EachTerminalOnce
  <2> SUFFICES ASSUME CoreInv PROVE EachTerminalOnce
    OBVIOUS
  <2>1. ASSUME NEW t \in DOMAIN panes.trees, NEW u \in DOMAIN panes.trees, t # u
        PROVE  Terms(panes.trees[t]) \cap Terms(panes.trees[u]) = {} /\ Nodes(panes.trees[t]) \cap Nodes(panes.trees[u]) = {}
    <3>1. Apart(Piece(t), Piece(u))
      BY <2>1, InPlace, Pieces
    <3> QED BY <3>1, InPlace DEF Apart
  <2>2. ASSUME NEW tree \in Trees
        PROVE  Cardinality(Terms(tree)) = Cardinality(DOMAIN tree.leaf) /\ Terms(tree) \cap Terms(away.tree) = {}
    <3>1. PICK t \in DOMAIN panes.trees : tree = panes.trees[t]
      BY DEF Trees
    <3>2. tree = Piece(t) /\ t \in Places /\ t # NoTab
      BY <3>1, InPlace
    <3>3. TreeOK(tree) /\ IsFiniteSet(Nodes(tree)) /\ Apart(tree, Piece(NoTab))
      BY <3>2, InPlace, Pieces
    <3> QED BY <3>3, AsMany, InPlace DEF Apart
  <2> QED BY <2>1, <2>2 DEF EachTerminalOnce
<1> QED BY <1>1, WorkspaceInvariant, PTL

(* No terminal is lost from sight: between tasks, those that run in this     *)
(* window are those its panes show, but for the ones the API made for a      *)
(* pane that could not be split (commitDrop, performClose, closeOneTab,     *)
(* TerminalContainer's effects, splitPaneInTab).                            *)
THEOREM NeverOrphaned == "twice" \notin Saves /\ Spec => []NoOrphan
<1>1. CoreInv => NoOrphan
  <2> SUFFICES ASSUME CoreInv, ~ due PROVE running = stray \cup UNION {Terms(tree) : tree \in Trees}
    BY DEF NoOrphan
  <2>1. running = stray \cup UNION {Live(z) : z \in Tab}
    BY DEF CoreInv, RunOK
  <2>2. /\ DOMAIN panes.trees = Open /\ \A t \in Open : t \in Tab
        /\ \A t \in Open : Live(t) = Terms(panes.trees[t])
        /\ \A t \in Tab : t \notin Open => Live(t) = {}
    BY Idle DEF Live
  <2>3. \A k : (\E z \in Tab : k \in Live(z)) <=> \E tree \in Trees : k \in Terms(tree)
    <3> TAKE k
    <3>1. (\E z \in Tab : k \in Live(z)) <=> \E t \in DOMAIN panes.trees : k \in Terms(panes.trees[t])
      BY <2>2
    <3> QED BY <3>1 DEF Trees
  <2> QED BY <2>1, <2>3
<1> QED BY <1>1, WorkspaceInvariant, PTL

(* A tab is given a terminal of its own once, over all the panes of the      *)
(* window (tabTreeSeed's planMissingTabTrees), whatever a version that       *)
(* forgot the key of an emptied tab has saved.                              *)
THEOREM AlwaysSeededOnce == "twice" \notin Saves /\ Spec => []SeededOnce
<1>1. CoreInv => SeededOnce
  <2> SUFFICES ASSUME CoreInv, NEW t \in DOMAIN panes.trees, NEW u \in DOMAIN panes.trees,
                      NEW p \in DOMAIN panes.trees[t].leaf, NEW q \in DOMAIN panes.trees[u].leaf,
                      panes.trees[t].leaf[p].seed = panes.trees[u].leaf[q].seed, panes.trees[t].leaf[p].seed # NoTab
               PROVE  t = u /\ p = q
    BY DEF SeededOnce
  <2>1. panes.trees[t].leaf[p].seed \in Seeds(panes.trees[t]) /\ panes.trees[u].leaf[q].seed \in Seeds(panes.trees[u])
    BY DEF Seeds
  <2>2. t = u
    <3>1. t # u => Apart(panes.trees[t], panes.trees[u])
      BY InPlace, Pieces
    <3> QED BY <2>1, <3>1 DEF Apart
  <2>3. TreeOK(panes.trees[t])
    BY InPlace, Pieces
  <2> QED BY <2>2, <2>3 DEF TreeOK, Distinct
<1> QED BY <1>1, WorkspaceInvariant, PTL


(***************************************************************************)
(* Focus: where it is, where a tab remembers it, and what is maximized.     *)
(***************************************************************************)
FocusOK ==
  /\ panes.active # 0 => /\ panes.tree # NoTree /\ panes.active \in 1 .. ids.nodes
                         /\ panes.active \notin DOMAIN panes.tree.kids
                         /\ stray = {} => panes.active \in DOMAIN panes.tree.leaf
  /\ ~ due /\ panes.tree # NoTree => panes.active # 0
(* What a tab remembers is no split of its tree, unless the pane that has    *)
(* the focus has just been split: then it is forgotten in the effects.      *)
OfOK ==
  \A t \in DOMAIN panes.of :
    /\ t \in DOMAIN panes.trees /\ panes.of[t] \in 1 .. ids.nodes
    /\ panes.of[t] \notin DOMAIN panes.trees[t].kids \/ (t = panes.current /\ due /\ panes.active # 0)
MaxOK == \A t \in DOMAIN panes.max : t \in DOMAIN panes.trees /\ panes.max[t] \in DOMAIN panes.trees[t].leaf
ViewInv == FocusOK /\ OfOK /\ MaxOK

(* Between tasks.                                                          *)
LEMMA IdleView ==
  ASSUME CoreInv, ViewInv, ~ due
  PROVE  /\ panes.active = 0 <=> panes.tree = NoTree
         /\ panes.active # 0 => /\ panes.active \in 1 .. ids.nodes /\ panes.active \notin DOMAIN panes.tree.kids
                                /\ panes.current \in DOMAIN panes.trees /\ panes.current # NoTab
                                /\ stray = {} => panes.active \in DOMAIN panes.tree.leaf
         /\ \A t \in DOMAIN panes.of : /\ t \in DOMAIN panes.trees /\ panes.of[t] \in 1 .. ids.nodes
                                       /\ panes.of[t] \notin DOMAIN panes.trees[t].kids
         /\ \A t \in DOMAIN panes.max : t \in DOMAIN panes.trees /\ panes.max[t] \in DOMAIN panes.trees[t].leaf
<1>1. panes.active = 0 <=> panes.tree = NoTree
  BY DEF ViewInv, FocusOK
<1>2. panes.active # 0 => /\ panes.active \in 1 .. ids.nodes /\ panes.active \notin DOMAIN panes.tree.kids
                          /\ stray = {} => panes.active \in DOMAIN panes.tree.leaf
  BY DEF ViewInv, FocusOK
<1>3. panes.tree # NoTree => panes.current \in DOMAIN panes.trees /\ panes.current # NoTab
  <2>1. panes.tree = Tree(panes, panes.current) /\ DOMAIN panes.trees = Open /\ NoTab \notin Open
    BY Idle, OpenTabs
  <2> QED BY <2>1 DEF Tree
<1>4. \A t \in DOMAIN panes.of : /\ t \in DOMAIN panes.trees /\ panes.of[t] \in 1 .. ids.nodes
                                 /\ panes.of[t] \notin DOMAIN panes.trees[t].kids
  BY DEF ViewInv, OfOK
<1>5. \A t \in DOMAIN panes.max : t \in DOMAIN panes.trees /\ panes.max[t] \in DOMAIN panes.trees[t].leaf
  BY DEF ViewInv, MaxOK
<1> QED BY <1>1, <1>2, <1>3, <1>4, <1>5

(* An id stays an id.                                                      *)
LEMMA StillGiven ==
  ASSUME CoreInv, Later(ids, ids'), Given_(ids'), NEW n \in 1 .. ids.nodes
  PROVE  n \in 1 .. ids'.nodes
BY DEF CoreInv, IdsOK, Given_, Later

(* The trees stay: what is remembered and maximized is still there.         *)
LEMMA OfStill ==
  ASSUME CoreInv, ViewInv, ~ due, Later(ids, ids'), Given_(ids'), panes'.trees = panes.trees, panes'.of = panes.of
  PROVE  OfOK'
BY IdleView, StillGiven DEF OfOK
LEMMA MaxStill ==
  ASSUME ViewInv, panes'.trees = panes.trees, panes'.max = panes.max
  PROVE  MaxOK'
BY DEF ViewInv, MaxOK

(* A tree changes: its tab remembers a pane b of it, or what it did.        *)
LEMMA OfPut ==
  ASSUME CoreInv, ViewInv, ~ due, Later(ids, ids'), Given_(ids'), NEW x, NEW T, panes'.trees = Put(panes.trees, x, T),
         \/ \E b \in 1 .. ids'.nodes : b \notin DOMAIN T.kids /\ panes'.of = Put(panes.of, x, b)
         \/ /\ panes'.of = panes.of
            /\ \/ \A k \in DOMAIN T.kids : k \in DOMAIN Tree(panes, x).kids \/ k \notin 1 .. ids.nodes
               \/ due' /\ x = panes'.current /\ panes'.active # 0
  PROVE  OfOK'
<1>1. \A t \in DOMAIN panes.of : /\ t \in DOMAIN panes.trees /\ panes.of[t] \in 1 .. ids.nodes /\ panes.of[t] \in 1 .. ids'.nodes
                                 /\ panes.of[t] \notin DOMAIN panes.trees[t].kids
  BY IdleView, StillGiven
<1>2. /\ DOMAIN panes'.trees = DOMAIN panes.trees \cup {x} /\ panes'.trees[x] = T
      /\ \A y \in DOMAIN panes.trees \ {x} : panes'.trees[y] = panes.trees[y]
  BY DEF Put
<1>3. CASE \E b \in 1 .. ids'.nodes : b \notin DOMAIN T.kids /\ panes'.of = Put(panes.of, x, b)
  <2>1. PICK b \in 1 .. ids'.nodes : b \notin DOMAIN T.kids /\ panes'.of = Put(panes.of, x, b)
    BY <1>3
  <2>2. /\ DOMAIN panes'.of = DOMAIN panes.of \cup {x} /\ panes'.of[x] = b
        /\ \A y \in DOMAIN panes.of \ {x} : panes'.of[y] = panes.of[y]
    BY <2>1 DEF Put
  <2> QED BY <1>1, <1>2, <2>1, <2>2 DEF OfOK
<1>4. CASE panes'.of = panes.of /\ \A k \in DOMAIN T.kids : k \in DOMAIN Tree(panes, x).kids \/ k \notin 1 .. ids.nodes
  BY <1>1, <1>2, <1>4 DEF OfOK, Tree
<1>5. CASE panes'.of = panes.of /\ due' /\ x = panes'.current /\ panes'.active # 0
  BY <1>1, <1>2, <1>5 DEF OfOK
<1> QED BY <1>3, <1>4, <1>5

(* It forgets what is maximized in it, or has it still.                     *)
LEMMA MaxPut ==
  ASSUME ViewInv, NEW x, NEW T, panes'.trees = Put(panes.trees, x, T),
         \/ panes'.max = Without(panes.max, x)
         \/ panes'.max = panes.max /\ (x \in DOMAIN panes.max => panes.max[x] \in DOMAIN T.leaf)
  PROVE  MaxOK'
<1>1. \A t \in DOMAIN panes.max : t \in DOMAIN panes.trees /\ panes.max[t] \in DOMAIN panes.trees[t].leaf
  BY DEF ViewInv, MaxOK
<1>2. /\ DOMAIN panes'.trees = DOMAIN panes.trees \cup {x} /\ panes'.trees[x] = T
      /\ \A y \in DOMAIN panes.trees \ {x} : panes'.trees[y] = panes.trees[y]
  BY DEF Put
<1>3. CASE panes'.max = Without(panes.max, x)
  <2>1. DOMAIN panes'.max = DOMAIN panes.max \ {x} /\ \A y \in DOMAIN panes'.max : panes'.max[y] = panes.max[y]
    BY <1>3 DEF Without, Restrict
  <2> QED BY <1>1, <1>2, <2>1 DEF MaxOK
<1>4. CASE panes'.max = panes.max /\ (x \in DOMAIN panes.max => panes.max[x] \in DOMAIN T.leaf)
  BY <1>1, <1>2, <1>4 DEF MaxOK
<1> QED BY <1>3, <1>4

(* A task that leaves the trees and the focus.                              *)
LEMMA StillView ==
  ASSUME CoreInv, ViewInv, ~ due, Later(ids, ids'), Given_(ids'), panes' = panes, stray' = stray
  PROVE  ViewInv'
<1>1. FocusOK'
  BY IdleView, StillGiven DEF FocusOK
<1>2. OfOK' /\ MaxOK'
  BY OfStill, MaxStill
<1> QED BY <1>1, <1>2 DEF ViewInv

LEMMA NewTabView ==
  ASSUME CoreInv, ViewInv, ~ due, NEW t \in Tab, NewTab(t)
  PROVE  ViewInv'
<1>1. t \in Tab \ ids.tabs /\ panes' = panes /\ ids' = [ids EXCEPT !.tabs = @ \cup {t}] /\ stray' = stray
  BY DEF NewTab, Fresh, Do, Dispatched
<1>2. Given_(ids') /\ Later(ids, ids')
  BY <1>1, GivesTab
<1> QED BY <1>1, <1>2, StillView

LEMMA StripView ==
  ASSUME CoreInv, ViewInv, ~ due, (\E t \in Tab : Select(t) \/ CloseTab(t)) \/ SaveState
  PROVE  ViewInv'
<1>1. panes' = panes /\ ids' = ids /\ stray' = stray
  BY DEF Select, CloseTab, SaveState, Do, Dispatched
<1>2. Given_(ids') /\ Later(ids, ids')
  BY <1>1, GivesNone
<1> QED BY <1>1, <1>2, StillView

(* The focus goes to a pane that is shown.                                  *)
LEMMA ShownLeaf ==
  ASSUME CoreInv, NEW p \in DOMAIN panes.tree.leaf
  PROVE  panes.tree # NoTree /\ p \notin DOMAIN panes.tree.kids /\ p \in 1 .. ids.nodes /\ p # 0
         /\ panes.current \in DOMAIN panes.trees /\ panes.tree = panes.trees[panes.current] /\ panes.current \in Tab
<1>1. /\ panes.tree = Tree(panes, panes.current) /\ panes.current \in ids.tabs \cup {NoTab}
      /\ DOMAIN panes.trees \subseteq ids.tabs /\ Given_(ids)
  BY DEF CoreInv, CurrentOK, TreesOK, IdsOK
<1>2. panes.tree # NoTree
  BY NoTreeOK DEF Nodes
<1>3. panes.current \in DOMAIN panes.trees /\ panes.tree = panes.trees[panes.current]
  BY <1>1, <1>2 DEF Tree
<1>4. panes.current \in Tab
  BY <1>1, <1>3 DEF Given_
<1>5. TreeOK(panes.tree) /\ Within(panes.tree, ids)
  <2>1. panes.current # NoTab /\ panes.current \in Places
    BY <1>4, WorkspaceAssumption DEF Places
  <2>2. Piece(panes.current) = panes.tree
    BY <1>1, <2>1 DEF Piece
  <2> QED BY <2>1, <2>2, Pieces
<1>6. p \notin DOMAIN panes.tree.kids /\ p \in Nodes(panes.tree)
  BY <1>5 DEF TreeOK, TreeForm, Nodes
<1>7. p \in 1 .. ids.nodes
  BY <1>5, <1>6 DEF Within
<1>8. p # 0
  BY <1>1, <1>7 DEF Given_
<1> QED BY <1>2, <1>3, <1>4, <1>6, <1>7, <1>8

LEMMA FocusView ==
  ASSUME CoreInv, ViewInv, ~ due, NEW p, Focus(p)
  PROVE  ViewInv'
<1>1. p \in DOMAIN panes.tree.leaf /\ panes' = [panes EXCEPT !.active = p] /\ ids' = ids /\ stray' = stray
  BY DEF Focus, Dispatched, FocusPane
<1>2. /\ panes'.trees = panes.trees /\ panes'.tree = panes.tree /\ panes'.of = panes.of /\ panes'.max = panes.max
      /\ panes'.active = p
  BY <1>1, Idle DEF PanesForm
<1>3. Given_(ids') /\ Later(ids, ids')
  BY <1>1, GivesNone
<1>4. FocusOK'
  BY <1>1, <1>2, ShownLeaf DEF FocusOK
<1>5. OfOK' /\ MaxOK'
  BY <1>2, <1>3, OfStill, MaxStill
<1> QED BY <1>4, <1>5 DEF ViewInv

LEMMA MaximizeView ==
  ASSUME CoreInv, ViewInv, ~ due, NEW p, Maximize(p)
  PROVE  ViewInv'
<1> DEFINE c == panes.current
<1>1. p \in DOMAIN panes.tree.leaf /\ panes' = ToggleMaximizePane(panes, c, p) /\ ids' = ids /\ stray' = stray
  BY DEF Maximize, Dispatched
<1>2. /\ panes'.trees = panes.trees /\ panes'.tree = panes.tree /\ panes'.of = panes.of /\ panes'.active = panes.active
      /\ panes'.max = IF c \in DOMAIN panes.max /\ panes.max[c] = p THEN Without(panes.max, c) ELSE Put(panes.max, c, p)
  BY <1>1, Idle DEF PanesForm, ToggleMaximizePane
<1>3. Given_(ids') /\ Later(ids, ids')
  BY <1>1, GivesNone
<1>4. FocusOK'
  BY <1>1, <1>2, <1>3, IdleView, StillGiven DEF FocusOK
<1>5. MaxOK'
  <2>1. c \in DOMAIN panes.trees /\ p \in DOMAIN panes.trees[c].leaf
    BY <1>1, ShownLeaf
  <2>2. \A t \in DOMAIN panes.max : t \in DOMAIN panes.trees /\ panes.max[t] \in DOMAIN panes.trees[t].leaf
    BY IdleView
  <2>3. \A t \in DOMAIN panes'.max : (t = c /\ panes'.max[t] = p) \/ (t \in DOMAIN panes.max /\ panes'.max[t] = panes.max[t])
    BY <1>2 DEF Put, Without, Restrict
  <2> QED BY <1>2, <2>1, <2>2, <2>3 DEF MaxOK
<1> QED BY <1>2, <1>3, <1>4, <1>5, OfStill DEF ViewInv

(* The tree that is shown, before a task and after it.                      *)
ShownOK == TreeOK(panes.tree) /\ Within(panes.tree, ids) /\ IsFiniteSet(Nodes(panes.tree)) /\ Given_(ids)
LEMMA ShownIs == CoreInv => ShownOK
<1> SUFFICES ASSUME CoreInv PROVE ShownOK
  OBVIOUS
<1>1. panes.tree = Tree(panes, panes.current) /\ panes.current \in ids.tabs \cup {NoTab} /\ Given_(ids)
  BY DEF CoreInv, CurrentOK, IdsOK
<1>2. panes.tree = NoTree \/ panes.current \in DOMAIN panes.trees
  BY <1>1 DEF Tree
<1>3. CASE panes.tree = NoTree
  <2>1. Within(panes.tree, ids)
    BY <1>3, NoTreeOK DEF Within
  <2> QED BY <1>1, <1>3, <2>1, NoTreeOK, FiniteTree DEF ShownOK
<1>4. CASE panes.current \in DOMAIN panes.trees
  <2>1. panes.current \in Tab /\ panes.current # NoTab
    BY <1>1, <1>4, WorkspaceAssumption DEF Given_, CoreInv, TreesOK
  <2>2. panes.current \in Places /\ Piece(panes.current) = panes.tree
    BY <1>1, <2>1 DEF Places, Piece
  <2> QED BY <1>1, <2>2, Pieces, FiniteTree DEF ShownOK
<1> QED BY <1>2, <1>3, <1>4
LEMMA ShownThen == CoreInv' => ShownOK'
BY ShownIs, PTL

(* The focus is in a pane that is shown, or nowhere.                        *)
LEMMA FocusLeaf ==
  ASSUME CoreInv',
         panes'.active \in DOMAIN panes'.tree.leaf \/ (panes'.active = 0 /\ (due' \/ panes'.tree = NoTree))
  PROVE  FocusOK'
<1>1. TreeOK(panes'.tree) /\ Within(panes'.tree, ids') /\ Given_(ids')
  BY ShownThen DEF ShownOK
<1>2. CASE panes'.active \in DOMAIN panes'.tree.leaf
  <2>1. panes'.tree # NoTree /\ panes'.active \in Nodes(panes'.tree) /\ panes'.active \notin DOMAIN panes'.tree.kids
    BY <1>1, <1>2, NoTreeOK DEF Nodes, TreeOK, TreeForm
  <2>2. panes'.active \in 1 .. ids'.nodes
    BY <1>1, <2>1 DEF Within
  <2>3. panes'.active # 0
    BY <1>1, <2>2 DEF Given_
  <2> QED BY <1>2, <2>1, <2>2, <2>3 DEF FocusOK
<1>3. CASE panes'.active = 0 /\ (due' \/ panes'.tree = NoTree)
  BY <1>3 DEF FocusOK
<1> QED BY <1>2, <1>3

(* It stays where it is, and so does the tree.                              *)
LEMMA FocusFar ==
  ASSUME CoreInv, ViewInv, ~ due, Later(ids, ids'), Given_(ids'), panes'.tree = panes.tree, panes'.active = panes.active,
         stray' = stray
  PROVE  FocusOK'
BY IdleView, StillGiven DEF FocusOK

LEMMA NewFolderTabView ==
  ASSUME CoreInv, CoreInv', ViewInv, ~ due, NEW t \in Tab, NewFolderTab(t)
  PROVE  ViewInv'
<1> DEFINE T == Solo(ids.nodes + 1, ids.terms + 1, t)
<1>1. /\ t \in Tab \ ids.tabs /\ panes' = AddTabTree(panes, t, T) /\ stray' = stray
      /\ ids' = [ids EXCEPT !.tabs = @ \cup {t}, !.nodes = @ + 1, !.terms = @ + 1]
  BY DEF NewFolderTab, Fresh, Do, Dispatched, AtNode
<1>2. DOMAIN T.kids = {}
  BY DEF Solo
<1> HIDE DEF T
<1>3. Given_(ids') /\ Later(ids, ids') /\ t \notin Open /\ t # panes.current
  <2>1. panes.current \in ids.tabs \cup {NoTab}
    BY DEF CoreInv, CurrentOK
  <2> QED BY <1>1, <2>1, GivesSolo, OpenTabs, WorkspaceAssumption
<1>4. PanesAre(panes', Put(panes.trees, t, T), panes.tree, panes.current, panes.active, panes.of, panes.max)
  BY <1>1, <1>3, Idle, AddTabTreeFields DEF PanesAre
<1>5. FocusOK'
  BY <1>1, <1>3, <1>4, FocusFar DEF PanesAre
<1>6. OfOK'
  BY <1>2, <1>3, <1>4, OfPut DEF PanesAre
<1>7. MaxOK'
  <2>1. t \notin DOMAIN panes.max
    BY <1>3, IdleView, Idle
  <2> QED BY <1>4, <2>1, MaxPut DEF PanesAre
<1> QED BY <1>5, <1>6, <1>7 DEF ViewInv

(* What setActiveTabId reads: focus that can be remembered.                 *)
Aimed(P, n) ==
  /\ PanesForm(P) /\ P.tree = Tree(P, P.current) /\ NoTab \notin DOMAIN P.trees
  /\ P.active # 0 => P.tree # NoTree /\ P.active \in 1 .. n /\ P.active \notin DOMAIN P.tree.kids
  /\ \A t \in DOMAIN P.of : /\ t \in DOMAIN P.trees /\ P.of[t] \in 1 .. n
                            /\ P.of[t] \notin DOMAIN P.trees[t].kids \/ (t = P.current /\ P.active # 0)
Recalled(of, trees, n) ==
  \A t \in DOMAIN of : t \in DOMAIN trees /\ of[t] \in 1 .. n /\ of[t] \notin DOMAIN trees[t].kids
FocusIn(P) == P.active \in DOMAIN P.tree.leaf \/ (P.active = 0 /\ P.tree = NoTree)

LEMMA ActivatedOK ==
  ASSUME NEW n, NEW P, Aimed(P, n), NEW t, t # NoTab, TreeOK(Tree(P, t)), IsFiniteSet(Nodes(Tree(P, t)))
  PROVE  LET Q == SetActiveTabId(P, t)
         IN /\ PanesForm(Q) /\ Q.trees = P.trees /\ Q.tree = Tree(P, t) /\ Q.current = t /\ Q.max = P.max
            /\ FocusIn(Q) /\ Recalled(Q.of, P.trees, n)
<1> DEFINE of == IF P.current # NoTab /\ P.active # 0 THEN Put(P.of, P.current, P.active) ELSE P.of
           T == IF t = NoTab THEN NoTree ELSE Tree(P, t)
           active == IF t \in DOMAIN of /\ of[t] \in Nodes(T) THEN of[t] ELSE FirstLeafId(T)
<1>1. PICK Q : Q = SetActiveTabId(P, t)
  OBVIOUS
<1>2. T = Tree(P, t)
  OBVIOUS
<1>3. PanesAre(Q, P.trees, T, t, active, of, P.max)
  BY <1>1, SetActiveTabIdFields DEF Aimed
<1>4. Recalled(of, P.trees, n)
  <2>1. P.active # 0 => /\ P.current \in DOMAIN P.trees /\ P.tree = P.trees[P.current]
                        /\ P.active \in 1 .. n /\ P.active \notin DOMAIN P.tree.kids
    BY DEF Aimed, Tree
  <2>2. \A x \in DOMAIN P.of : /\ x \in DOMAIN P.trees /\ P.of[x] \in 1 .. n
                               /\ P.of[x] \notin DOMAIN P.trees[x].kids \/ (x = P.current /\ P.active # 0)
    BY DEF Aimed
  <2>3. CASE P.current # NoTab /\ P.active # 0
    <3>1. of = Put(P.of, P.current, P.active)
      BY <2>3
    <3> HIDE DEF of
    <3>2. DOMAIN of = DOMAIN P.of \cup {P.current} /\ of[P.current] = P.active
          /\ \A x \in DOMAIN P.of \ {P.current} : of[x] = P.of[x]
      BY <3>1 DEF Put
    <3> QED BY <2>1, <2>2, <2>3, <3>2 DEF Recalled
  <2>4. CASE P.active = 0
    BY <2>2, <2>4 DEF Recalled
  <2>5. CASE P.current = NoTab /\ P.active # 0
    <3>1. of = P.of
      BY <2>5
    <3>2. NoTab \notin DOMAIN P.trees
      BY DEF Aimed
    <3> QED BY <2>2, <2>5, <3>1, <3>2 DEF Recalled
  <2> QED BY <2>3, <2>4, <2>5
<1> HIDE DEF of, T
<1>5. active \in DOMAIN T.leaf \/ (active = 0 /\ T = NoTree)
  <2>1. CASE t \in DOMAIN of /\ of[t] \in Nodes(T)
    <3>1. T = P.trees[t] /\ of[t] \notin DOMAIN T.kids
      BY <1>2, <1>4, <2>1 DEF Recalled, Tree
    <3> QED BY <2>1, <3>1 DEF Nodes
  <2>2. CASE ~ (t \in DOMAIN of /\ of[t] \in Nodes(T))
    <3>1. active = FirstLeafId(T)
      BY <2>2
    <3>2. CASE T = NoTree
      BY <3>1, <3>2 DEF FirstLeafId
    <3>3. CASE T # NoTree
      BY <1>2, <3>1, <3>3, FirstLeafOK
    <3> QED BY <3>2, <3>3
  <2> QED BY <2>1, <2>2
<1> HIDE DEF active
<1>6. FocusIn(Q)
  BY <1>3, <1>5 DEF FocusIn, PanesAre
<1> QED BY <1>1, <1>2, <1>3, <1>4, <1>6 DEF PanesAre

LEMMA IsAimed == ASSUME CoreInv, ViewInv PROVE Aimed(panes, ids.nodes)
<1>1. PanesForm(panes) /\ panes.tree = Tree(panes, panes.current)
  BY DEF CoreInv, CurrentOK
<1>2. NoTab \notin DOMAIN panes.trees
  BY WorkspaceAssumption DEF CoreInv, TreesOK, IdsOK, Given_
<1> QED BY <1>1, <1>2 DEF Aimed, ViewInv, FocusOK, OfOK

LEMMA SeenView ==
  ASSUME CoreInv', FocusIn(panes'), Recalled(panes'.of, panes'.trees, ids'.nodes), MaxOK'
  PROVE  ViewInv'
<1>1. FocusOK'
  BY FocusLeaf DEF FocusIn
<1> QED BY <1>1 DEF ViewInv, OfOK, Recalled

(* A tree comes to a tab that has none; focus and memory are elsewhere.     *)
LEMMA AddedAimed ==
  ASSUME CoreInv, ViewInv, ~ due, Later(ids, ids'), Given_(ids'), NEW t \in Tab, t \notin Open, NEW T, NEW P,
         P = AddTabTree(panes, t, T)
  PROVE  Aimed(P, ids'.nodes) /\ P.trees = Put(panes.trees, t, T) /\ P.max = panes.max /\ P.of = panes.of
         /\ t \notin DOMAIN panes.max /\ t \notin DOMAIN panes.of
<1>1. DOMAIN panes.trees = Open /\ PanesForm(panes) /\ panes.tree = Tree(panes, panes.current) /\ NoTab \notin Open
  BY Idle, OpenTabs
<1>2. PanesAre(P, Put(panes.trees, t, T), IF panes.current = t THEN T ELSE panes.tree, panes.current,
               panes.active, panes.of, panes.max)
  BY <1>1, AddTabTreeFields
<1>3. /\ DOMAIN P.trees = Open \cup {t} /\ P.trees[t] = T /\ \A y \in Open : P.trees[y] = panes.trees[y]
  BY <1>1, <1>2 DEF Put, PanesAre
<1>4. \A x \in DOMAIN panes.of : /\ x \in Open /\ panes.of[x] \in 1 .. ids'.nodes
                                 /\ panes.of[x] \notin DOMAIN panes.trees[x].kids
  BY <1>1, IdleView, StillGiven
<1>5. panes.active # 0 => /\ panes.current \in Open /\ panes.tree # NoTree /\ panes.active \in 1 .. ids'.nodes
                          /\ panes.active \notin DOMAIN panes.tree.kids
  BY <1>1, IdleView, StillGiven
<1>6. P.tree = Tree(P, P.current)
  <2>1. P.current = panes.current /\ P.tree = IF panes.current = t THEN T ELSE panes.tree
    BY <1>2 DEF PanesAre
  <2>2. CASE panes.current = t
    BY <1>3, <2>1, <2>2 DEF Tree
  <2>3. CASE panes.current # t
    BY <1>1, <1>3, <2>1, <2>3 DEF Tree
  <2> QED BY <2>2, <2>3
<1>7. P.active # 0 => P.tree # NoTree /\ P.active \in 1 .. ids'.nodes /\ P.active \notin DOMAIN P.tree.kids
  BY <1>2, <1>5 DEF PanesAre
<1>8. NoTab \notin DOMAIN P.trees
  BY <1>1, <1>3, WorkspaceAssumption
<1>9. \A x \in DOMAIN P.of : x \in DOMAIN P.trees /\ P.of[x] \in 1 .. ids'.nodes /\ P.of[x] \notin DOMAIN P.trees[x].kids
  BY <1>2, <1>3, <1>4 DEF PanesAre
<1>10. Aimed(P, ids'.nodes)
  BY <1>2, <1>6, <1>7, <1>8, <1>9 DEF Aimed, PanesAre
<1>11. t \notin DOMAIN panes.max /\ t \notin DOMAIN panes.of
  BY <1>1, IdleView
<1> QED BY <1>2, <1>10, <1>11 DEF PanesAre

(* It is brought to the front.                                              *)
LEMMA FrontView ==
  ASSUME CoreInv, CoreInv', ViewInv, ~ due, Later(ids, ids'), Given_(ids'), NEW t \in Tab, t \notin Open, NEW T,
         TreeOK(T), IsFiniteSet(Nodes(T)), panes' = SetActiveTabId(AddTabTree(panes, t, T), t)
  PROVE  ViewInv'
<1>1. PICK P : P = AddTabTree(panes, t, T)
  OBVIOUS
<1>2. Aimed(P, ids'.nodes) /\ P.trees = Put(panes.trees, t, T) /\ P.max = panes.max /\ t \notin DOMAIN panes.max
  BY <1>1, AddedAimed
<1>3. Tree(P, t) = T /\ t # NoTab
  BY <1>2, WorkspaceAssumption DEF Tree, Put
<1>4. panes' = SetActiveTabId(P, t)
  BY <1>1
<1>5. panes'.trees = P.trees /\ panes'.max = P.max /\ FocusIn(panes') /\ Recalled(panes'.of, P.trees, ids'.nodes)
  BY <1>2, <1>3, <1>4, ActivatedOK
<1>6. MaxOK'
  BY <1>2, <1>5, MaxPut
<1> QED BY <1>5, <1>6, SeenView

LEMMA ApiTabView ==
  ASSUME CoreInv, CoreInv', ViewInv, ~ due, NEW t \in Tab, NEW activate \in BOOLEAN, ApiTab(t, activate)
  PROVE  ViewInv'
<1> DEFINE T == Solo(ids.nodes + 1, ids.terms + 1, NoTab)
           P == AddTabTree(panes, t, T)
<1>1. /\ t \in Tab \ ids.tabs /\ panes' = Activated(P, t, activate) /\ stray' = stray /\ due' = TRUE
      /\ ids' = [ids EXCEPT !.tabs = @ \cup {t}, !.nodes = @ + 1, !.terms = @ + 1]
  BY DEF ApiTab, Fresh, Do, Dispatched, AtNode
<1>2. TreeOK(T) /\ IsFiniteSet(Nodes(T)) /\ DOMAIN T.kids = {}
  <2>1. ids.nodes + 1 \in Nat \ {0} /\ ids.terms + 1 \in Nat
    BY DEF CoreInv, IdsOK, Given_
  <2>2. PICK a : a = ids.nodes + 1
    OBVIOUS
  <2>3. PICK k : k = ids.terms + 1
    OBVIOUS
  <2>4. T = Solo(a, k, NoTab) /\ a \in Nat \ {0} /\ k \in Nat
    BY <2>1, <2>2, <2>3
  <2> HIDE DEF T
  <2>5. TreeOK(T) /\ Nodes(T) = {a} /\ DOMAIN T.kids = {}
    BY <2>4, SoloOK, SoloHolds
  <2> QED BY <2>5, FS_Singleton
<1> HIDE DEF T
<1>3. Given_(ids') /\ Later(ids, ids') /\ t \notin Open /\ t # panes.current
  <2>1. panes.current \in ids.tabs \cup {NoTab}
    BY DEF CoreInv, CurrentOK
  <2> QED BY <1>1, <2>1, GivesSolo, OpenTabs, WorkspaceAssumption
<1>4. CASE activate
  <2>1. panes' = SetActiveTabId(AddTabTree(panes, t, T), t)
    BY <1>1, <1>4 DEF Activated
  <2> QED BY <1>2, <1>3, <2>1, FrontView
<1>5. CASE ~ activate
  <2>1. panes' = P
    BY <1>1, <1>5 DEF Activated
  <2>2. PanesAre(P, Put(panes.trees, t, T), IF panes.current = t THEN T ELSE panes.tree, panes.current,
                 panes.active, panes.of, panes.max)
    BY Idle, AddTabTreeFields
  <2> HIDE DEF P
  <2>3. PanesAre(panes', Put(panes.trees, t, T), panes.tree, panes.current, panes.active, panes.of, panes.max)
    BY <1>3, <2>1, <2>2 DEF PanesAre
  <2>4. FocusOK'
    BY <1>1, <1>3, <2>3, FocusFar DEF PanesAre
  <2>5. OfOK'
    BY <1>2, <1>3, <2>3, OfPut DEF PanesAre
  <2>6. MaxOK'
    <3>1. t \notin DOMAIN panes.max
      BY <1>3, IdleView, Idle
    <3> QED BY <2>3, <3>1, MaxPut DEF PanesAre
  <2> QED BY <2>4, <2>5, <2>6 DEF ViewInv
<1> QED BY <1>4, <1>5

LEMMA AttachTabView ==
  ASSUME CoreInv, CoreInv', ViewInv, ~ due, AttachTab
  PROVE  ViewInv'
<1>1. PICK t : t = away.tab
  OBVIOUS
<1>2. PICK T : T = away.tree
  OBVIOUS
<1>3. /\ away # NoneAway /\ t \notin Open /\ panes' = SetActiveTabId(AddTabTree(panes, t, T), t) /\ ids' = ids
  BY <1>1, <1>2 DEF AttachTab, Do, Dispatched
<1>4. t \in Tab /\ Given_(ids') /\ Later(ids, ids')
  BY <1>1, <1>3, OpenTabs, GivesNone DEF CoreInv, AwayOK
<1>5. TreeOK(T) /\ IsFiniteSet(Nodes(T))
  BY <1>2, Pieces DEF Places, Piece
<1> QED BY <1>3, <1>4, <1>5, FrontView

(* A tree is put in the place of another, and what is remembered with it.   *)
MaxAt(max, trees) == \A t \in DOMAIN max : t \in DOMAIN trees /\ max[t] \in DOMAIN trees[t].leaf
LEMMA RecalledPut ==
  ASSUME NEW n, NEW of, NEW trees, Recalled(of, trees, n), NEW x, NEW T, NEW of2,
         \/ \E b \in 1 .. n : b \notin DOMAIN T.kids /\ of2 = Put(of, x, b)
         \/ of2 = of /\ (x \in DOMAIN of => of[x] \notin DOMAIN T.kids)
  PROVE  Recalled(of2, Put(trees, x, T), n)
<1>1. PICK trees2 : trees2 = Put(trees, x, T)
  OBVIOUS
<1>2. /\ DOMAIN trees2 = DOMAIN trees \cup {x} /\ trees2[x] = T /\ \A y \in DOMAIN trees \ {x} : trees2[y] = trees[y]
  BY <1>1 DEF Put
<1>3. CASE \E b \in 1 .. n : b \notin DOMAIN T.kids /\ of2 = Put(of, x, b)
  <2>1. PICK b \in 1 .. n : b \notin DOMAIN T.kids /\ of2 = Put(of, x, b)
    BY <1>3
  <2>2. /\ DOMAIN of2 = DOMAIN of \cup {x} /\ of2[x] = b /\ \A y \in DOMAIN of \ {x} : of2[y] = of[y]
    BY <2>1 DEF Put
  <2>3. Recalled(of2, trees2, n)
    BY <1>2, <2>1, <2>2 DEF Recalled
  <2> QED BY <1>1, <2>3
<1>4. CASE of2 = of /\ (x \in DOMAIN of => of[x] \notin DOMAIN T.kids)
  <2>1. Recalled(of2, trees2, n)
    BY <1>2, <1>4 DEF Recalled
  <2> QED BY <1>1, <2>1
<1> QED BY <1>3, <1>4

LEMMA MaxAtPut ==
  ASSUME NEW max, NEW trees, MaxAt(max, trees), NEW x, NEW T, NEW max2,
         max2 = Without(max, x) \/ (max2 = max /\ (x \in DOMAIN max => max[x] \in DOMAIN T.leaf))
  PROVE  MaxAt(max2, Put(trees, x, T))
<1>1. PICK trees2 : trees2 = Put(trees, x, T)
  OBVIOUS
<1>2. /\ DOMAIN trees2 = DOMAIN trees \cup {x} /\ trees2[x] = T /\ \A y \in DOMAIN trees \ {x} : trees2[y] = trees[y]
  BY <1>1 DEF Put
<1>3. CASE max2 = Without(max, x)
  <2>1. DOMAIN max2 = DOMAIN max \ {x} /\ \A y \in DOMAIN max2 : max2[y] = max[y]
    BY <1>3 DEF Without, Restrict
  <2>2. MaxAt(max2, trees2)
    BY <1>2, <2>1 DEF MaxAt
  <2> QED BY <1>1, <2>2
<1>4. CASE max2 = max /\ (x \in DOMAIN max => max[x] \in DOMAIN T.leaf)
  <2>1. MaxAt(max2, trees2)
    BY <1>2, <1>4 DEF MaxAt
  <2> QED BY <1>1, <2>1
<1> QED BY <1>3, <1>4

LEMMA RecalledLess ==
  ASSUME NEW n, NEW of, NEW max, NEW trees, NEW S, Recalled(of, trees, n), MaxAt(max, trees)
  PROVE  /\ Recalled(Restrict(of, DOMAIN of \ S), Restrict(trees, DOMAIN trees \ S), n)
         /\ MaxAt(Restrict(max, DOMAIN max \ S), Restrict(trees, DOMAIN trees \ S))
BY DEF Recalled, MaxAt, Restrict

LEMMA RecalledThen ==
  ASSUME CoreInv, Later(ids, ids'), Given_(ids'), NEW of, NEW trees, Recalled(of, trees, ids.nodes)
  PROVE  Recalled(of, trees, ids'.nodes)
BY StillGiven DEF Recalled

LEMMA Recalls ==
  ASSUME CoreInv, ViewInv, ~ due
  PROVE  Recalled(panes.of, panes.trees, ids.nodes) /\ MaxAt(panes.max, panes.trees)
BY IdleView DEF Recalled, MaxAt

(* After a task that lets the effects run, the focus may be nowhere.        *)
FocusBy(P) == FocusIn(P) \/ P.active = 0 \/ (P.tree = panes.tree /\ P.active = panes.active)
LEMMA GivenView ==
  ASSUME CoreInv, CoreInv', ViewInv, ~ due, due', Later(ids, ids'), Given_(ids'), stray' = stray, FocusBy(panes'),
         Recalled(panes'.of, panes'.trees, ids'.nodes), MaxAt(panes'.max, panes'.trees)
  PROVE  ViewInv'
<1>1. FocusOK'
  BY FocusLeaf, FocusFar DEF FocusBy, FocusIn
<1> QED BY <1>1 DEF ViewInv, OfOK, Recalled, MaxOK, MaxAt

(* A pane is taken out of its tab.                                          *)
LEMMA PrunedView ==
  ASSUME CoreInv, ViewInv, ~ due, NEW t \in Open, NEW p \in DOMAIN Tree(panes, t).leaf, NEW P,
         P = RemovePaneFromTab(panes, t, p)
  PROVE  /\ PanesForm(P) /\ P.trees = Put(panes.trees, t, RemoveLeaf(Tree(panes, t), p)) /\ P.current = panes.current
         /\ FocusBy(P) /\ Recalled(P.of, P.trees, ids.nodes) /\ MaxAt(P.max, P.trees)
<1> DEFINE o == Tree(panes, t)
           R == RemoveLeaf(o, p)
<1>1. TreeOK(o) /\ IsFiniteSet(Nodes(o)) /\ o = panes.trees[t] /\ PanesForm(panes) /\ panes.tree = Tree(panes, panes.current)
  BY Pieces, Idle DEF Places
<1>2. o # NoTree
  BY NoTreeOK DEF Nodes
<1>3. PanesAre(P, Put(panes.trees, t, R), IF panes.current = t THEN R ELSE panes.tree, panes.current,
               IF panes.current = t /\ panes.active # 0 /\ panes.active \notin Nodes(R) THEN FirstLeafId(R) ELSE panes.active,
               panes.of, IF t \in DOMAIN panes.max /\ panes.max[t] = p THEN Without(panes.max, t) ELSE panes.max)
  BY <1>1, <1>2, RemovePaneFields
<1>4. /\ TreeOK(R) /\ Nodes(R) \subseteq Nodes(o) /\ DOMAIN R.kids \subseteq DOMAIN o.kids /\ DOMAIN R.leaf = DOMAIN o.leaf \ {p}
  BY <1>1, RemoveLeafOK
<1>5. IsFiniteSet(Nodes(R))
  BY <1>1, <1>4, FS_Subset
<1> HIDE DEF R, o
<1>6. FocusBy(P)
  <2>1. CASE panes.current # t
    BY <1>3, <2>1 DEF PanesAre, FocusBy
  <2>2. CASE panes.active = 0
    BY <1>3, <2>2 DEF PanesAre, FocusBy
  <2>3. CASE panes.current = t /\ panes.active # 0 /\ panes.active \notin Nodes(R)
    <3>1. P.tree = R /\ P.active = FirstLeafId(R)
      BY <1>3, <2>3 DEF PanesAre
    <3>2. CASE R = NoTree
      BY <3>1, <3>2 DEF FirstLeafId, FocusBy
    <3>3. CASE R # NoTree
      BY <1>4, <1>5, <3>1, <3>3, FirstLeafOK DEF FocusBy, FocusIn
    <3> QED BY <3>2, <3>3
  <2>4. CASE panes.current = t /\ panes.active # 0 /\ panes.active \in Nodes(R)
    <3>1. P.tree = R /\ P.active = panes.active
      BY <1>3, <2>4 DEF PanesAre
    <3>2. panes.active \notin DOMAIN o.kids
      BY <1>1, <2>4, IdleView DEF o
    <3> QED BY <1>4, <2>4, <3>1, <3>2 DEF FocusBy, FocusIn, Nodes
  <2> QED BY <2>1, <2>2, <2>3, <2>4
<1>7. Recalled(P.of, P.trees, ids.nodes)
  <2>1. t \in DOMAIN panes.of => panes.of[t] \notin DOMAIN R.kids
    BY <1>1, <1>4, IdleView
  <2> QED BY <1>3, <2>1, Recalls, RecalledPut DEF PanesAre
<1>8. MaxAt(P.max, P.trees)
  <2>1. t \in DOMAIN panes.max => panes.max[t] \in DOMAIN o.leaf
    BY <1>1, IdleView
  <2>2. P.max = Without(panes.max, t) \/ (P.max = panes.max /\ (t \in DOMAIN panes.max => panes.max[t] \in DOMAIN R.leaf))
    BY <1>3, <1>4, <2>1 DEF PanesAre
  <2> QED BY <1>3, <2>2, Recalls, MaxAtPut DEF PanesAre
<1> QED BY <1>3, <1>6, <1>7, <1>8 DEF PanesAre, o, R

LEMMA ClosePaneView ==
  ASSUME CoreInv, CoreInv', ViewInv, ~ due, NEW t \in Tab, NEW p, ClosePane(t, p)
  PROVE  ViewInv'
<1>1. /\ t \in Open /\ p \in DOMAIN Tree(panes, t).leaf /\ due' = TRUE /\ panes' = RemovePaneFromTab(panes, t, p)
      /\ ids' = ids /\ stray' = stray
  BY DEF ClosePane, Do, Dispatched
<1>2. Given_(ids') /\ Later(ids, ids')
  BY <1>1, GivesNone
<1>3. FocusBy(panes') /\ Recalled(panes'.of, panes'.trees, ids.nodes) /\ MaxAt(panes'.max, panes'.trees)
  BY <1>1, PrunedView
<1> QED BY <1>1, <1>2, <1>3, GivenView

(* A pane that lands is a leaf of the tree it lands in.                     *)
LEMMA LandLeaf ==
  ASSUME CoreInv, NEW b, TreeOK(b), Within(b, ids), NEW q, b # NoTree => q \in DOMAIN b.leaf, NEW first \in BOOLEAN,
         NEW u, TreeOK(u), Within(u, ids), u # NoTree, DOMAIN u.kids = {}, Apart(b, u), Gives(1, 0),
         NEW T, T = IF b = NoTree THEN u ELSE InsertByZone(b, q, u, first, ids.nodes + 1)
  PROVE  /\ u.root \in DOMAIN T.leaf /\ u.root \notin DOMAIN T.kids /\ u.root \in 1 .. ids'.nodes
         /\ DOMAIN T.kids \subseteq DOMAIN b.kids \cup {ids.nodes + 1}
         /\ DOMAIN T.leaf = DOMAIN b.leaf \cup {u.root}
<1>1. ids.nodes \in Nat /\ ids'.nodes = ids.nodes + 1
  BY GivesOK DEF CoreInv, IdsOK, Given_
<1>2. PICK n : n = ids.nodes + 1
  OBVIOUS
<1>3. n \in Nat \ {0} /\ n \notin 1 .. ids.nodes /\ 1 .. ids.nodes \subseteq 1 .. ids'.nodes
  BY <1>1, <1>2
<1>4. Nodes(u) = {u.root} /\ DOMAIN u.leaf = {u.root} /\ u.root \in 1 .. ids.nodes
  BY OneLeaf DEF Within
<1>5. CASE b = NoTree
  <2>1. T = u /\ DOMAIN b.leaf = {}
    BY <1>5 DEF NoTree
  <2> QED BY <1>3, <1>4, <2>1
<1>6. CASE b # NoTree
  <2>1. T = InsertByZone(b, q, u, first, n) /\ q \in DOMAIN b.leaf /\ n \notin Nodes(b) \cup Nodes(u)
    BY <1>2, <1>3, <1>6 DEF Within
  <2>2. DOMAIN T.kids = DOMAIN b.kids \cup {n} /\ DOMAIN T.leaf = DOMAIN b.leaf \cup DOMAIN u.leaf
    BY <1>3, <2>1, InsertOK
  <2>3. u.root \notin DOMAIN b.kids /\ u.root # n
    BY <1>3, <1>4 DEF Apart, Nodes
  <2> QED BY <1>2, <1>3, <1>4, <2>2, <2>3
<1> QED BY <1>5, <1>6

LEMMA SplitView ==
  ASSUME CoreInv, CoreInv', ViewInv, ~ due, NEW p, NEW first \in BOOLEAN, Split(p, first)
  PROVE  ViewInv'
<1> DEFINE a == ids.nodes + 1
           b == ids.nodes + 2
           new == [term |-> ids.terms + 1, seed |-> NoTab]
           T == SplitLeafInTree(panes.tree, p, a, b, new, first)
<1>1. /\ p \in DOMAIN panes.tree.leaf /\ due' = TRUE /\ panes' = SplitPane(panes, p, a, b, new, first)
      /\ Gives(2, 1) /\ stray' = stray
  BY DEF Split, Do, Dispatched, AtNode
<1>2. Given_(ids') /\ Later(ids, ids')
  BY <1>1, GivesOK
<1>3. panes.current \in DOMAIN panes.trees /\ panes.current # NoTab /\ PanesForm(panes)
  BY <1>1, ShownLeaf, Idle, WorkspaceAssumption
<1>4. b \in DOMAIN T.leaf /\ b # 0
  <2>1. ids.nodes \in Nat
    BY DEF CoreInv, IdsOK, Given_
  <2>2. b # 0 /\ a # b
    BY <2>1
  <2> HIDE DEF a, b, new
  <2>3. T.leaf = Put(Put(Without(panes.tree.leaf, p), b, new), a, panes.tree.leaf[p])
    BY DEF SplitLeafInTree
  <2> QED BY <2>2, <2>3 DEF Put
<1> HIDE DEF T, a, b, new
<1>5. PanesAre(panes', Put(panes.trees, panes.current, T), T, panes.current, b, panes.of, Without(panes.max, panes.current))
  BY <1>1, <1>3, SplitPaneFields DEF T
<1>6. FocusOK'
  BY <1>4, <1>5, FocusLeaf DEF PanesAre
<1>7. OfOK'
  <2>1. PICK c : c = panes.current
    OBVIOUS
  <2>2. /\ panes'.trees = Put(panes.trees, c, T) /\ panes'.of = panes.of /\ due' /\ c = panes'.current /\ panes'.active # 0
    BY <1>1, <1>4, <1>5, <2>1 DEF PanesAre
  <2> QED BY <1>2, <2>2, OfPut
<1>8. MaxOK'
  BY <1>5, MaxPut DEF PanesAre
<1> QED BY <1>6, <1>7, <1>8 DEF ViewInv

(* A pane is given the focus with the tree it comes in.                     *)
LEMMA GetsView ==
  ASSUME CoreInv, CoreInv', ViewInv, ~ due, due', Later(ids, ids'), Given_(ids'), stray' = stray,
         NEW P, PanesForm(P), FocusBy(P), Recalled(P.of, P.trees, ids.nodes), NEW t, NEW T, NEW b, NEW max,
         Gets(panes', P, t, T, b, max), b \in DOMAIN T.leaf, b \notin DOMAIN T.kids, b \in 1 .. ids'.nodes,
         MaxAt(max, Put(P.trees, t, T))
  PROVE  ViewInv'
<1>1. /\ panes'.trees = Put(P.trees, t, T) /\ panes'.of = Put(P.of, t, b) /\ panes'.max = max
      /\ panes'.tree = (IF P.current = t THEN T ELSE P.tree) /\ panes'.active = (IF P.current = t THEN b ELSE P.active)
  BY DEF Gets, PanesAre
<1>2. FocusBy(panes')
  BY <1>1 DEF FocusBy, FocusIn
<1>3. Recalled(P.of, P.trees, ids'.nodes)
  BY RecalledThen
<1>4. Recalled(panes'.of, Put(P.trees, t, T), ids'.nodes)
  BY <1>1, <1>3, RecalledPut
<1>5. Recalled(panes'.of, panes'.trees, ids'.nodes) /\ MaxAt(panes'.max, panes'.trees)
  BY <1>1, <1>4
<1> QED BY <1>2, <1>5, GivenView

LEMMA RegroupView ==
  ASSUME CoreInv, CoreInv', ViewInv, ~ due, NEW from \in Open, NEW p, NEW to \in Open, Regroup(from, p, to)
  PROVE  ViewInv'
<1> DEFINE o == Tree(panes, from)
           b == Tree(panes, to)
           n == ids.nodes + 1
           u == Solo(p, o.leaf[p].term, o.leaf[p].seed)
           R == RemoveLeaf(o, p)
           q == FirstLeafId(b)
           P == RemovePaneFromTab(panes, from, p)
           T == IF b = NoTree THEN u ELSE InsertByZone(b, q, u, FALSE, n)
<1>1. /\ from # to /\ p \in DOMAIN o.leaf /\ due' = TRUE /\ panes' = InsertPaneIntoTab(P, to, q, u, FALSE, n)
      /\ Gives(1, 0) /\ stray' = stray
  BY DEF Regroup, Do, Dispatched, AtNode
<1>2. RestOK(R, o, p) /\ LiftOK(u, o, p)
  BY <1>1, PaneGone
<1>3. /\ TreeOK(b) /\ Within(b, ids) /\ IsFiniteSet(Nodes(b)) /\ Apart(o, b)
      /\ b = panes.trees[to] /\ to \in DOMAIN panes.trees
  BY <1>1, Pieces, Idle DEF Places
<1>4. Given_(ids') /\ Later(ids, ids')
  BY <1>1, GivesOK
<1>5. IF b = NoTree THEN q = 0 ELSE q \in DOMAIN b.leaf /\ q # 0
  <2>1. b = NoTree => q = 0
    BY DEF FirstLeafId
  <2>2. b # NoTree => q \in DOMAIN b.leaf
    BY <1>3, FirstLeafOK
  <2>3. 0 \notin DOMAIN b.leaf
    BY <1>3, RootIn DEF Nodes
  <2> QED BY <2>1, <2>2, <2>3
<1>6. /\ PanesForm(P) /\ P.trees = Put(panes.trees, from, R) /\ FocusBy(P)
      /\ Recalled(P.of, P.trees, ids.nodes) /\ MaxAt(P.max, P.trees)
  BY <1>1, PrunedView
<1> HIDE DEF o, b, n, u, R, q, P
<1>7. to \in DOMAIN P.trees /\ P.trees[to] = b
  BY <1>1, <1>3, <1>6 DEF Put
<1>8. Gets(panes', P, to, T, u.root, Without(P.max, to))
  <2>1. (P.trees[to] = NoTree \/ q = 0) <=> b = NoTree
    BY <1>5, <1>7
  <2>2. Gets(InsertPaneIntoTab(P, to, q, u, FALSE, n), P, to,
             IF P.trees[to] = NoTree \/ q = 0 THEN u ELSE InsertByZone(P.trees[to], q, u, FALSE, n), u.root, Without(P.max, to))
    BY <1>6, <1>7, InsertPaneFields
  <2> QED BY <1>1, <1>7, <2>1, <2>2
<1>9. u.root \in DOMAIN T.leaf /\ u.root \notin DOMAIN T.kids /\ u.root \in 1 .. ids'.nodes
  <2>1. PICK first \in BOOLEAN : first = FALSE
    OBVIOUS
  <2>2. T = IF b = NoTree THEN u ELSE InsertByZone(b, q, u, first, ids.nodes + 1)
    BY <2>1 DEF n
  <2>3. /\ TreeOK(u) /\ Within(u, ids) /\ u # NoTree /\ DOMAIN u.kids = {} /\ Apart(b, u)
    BY <1>2, <1>3 DEF LiftOK, RestOK, Apart
  <2>4. b # NoTree => q \in DOMAIN b.leaf
    BY <1>5
  <2> HIDE DEF T
  <2> QED BY <1>1, <1>3, <2>2, <2>3, <2>4, LandLeaf
<1> HIDE DEF T
<1>10. MaxAt(Without(P.max, to), Put(P.trees, to, T))
  BY <1>6, MaxAtPut
<1> QED BY <1>1, <1>4, <1>6, <1>8, <1>9, <1>10, GetsView

LEMMA DropThereView ==
  ASSUME CoreInv, CoreInv', ViewInv, ~ due, NEW from \in Open, NEW source, NEW to \in Open, NEW target, NEW zone, from # to,
         Drop(from, source, to, target, zone)
  PROVE  ViewInv'
<1> DEFINE o == Tree(panes, from)
           b == Tree(panes, to)
           n == ids.nodes + 1
           u == Solo(source, o.leaf[source].term, o.leaf[source].seed)
           R == RemoveLeaf(o, source)
           T == IF b = NoTree THEN u ELSE InsertByZone(b, target, u, zone = "first", n)
           P == MovePaneToTab(panes, from, source, to, target, zone, n)
           max == IF from \in DOMAIN panes.max /\ panes.max[from] = source THEN Without(panes.max, from) ELSE panes.max
<1>1. /\ source \in DOMAIN o.leaf /\ target \in DOMAIN b.leaf /\ due' = TRUE /\ panes' = P
      /\ Gives(1, 0) /\ stray' = stray
  <2>1. Do(IF Tree(P, from) = NoTree THEN RemoveTab(strip, from) ELSE strip, P, mirror)
    BY DEF Drop, AtNode
  <2>2. source \in DOMAIN o.leaf /\ target \in DOMAIN b.leaf /\ Gives(1, 0) /\ stray' = stray
    BY DEF Drop
  <2> HIDE DEF P
  <2> QED BY <2>1, <2>2 DEF Do, Dispatched
<1>2. RestOK(R, o, source) /\ LiftOK(u, o, source)
  BY <1>1, PaneGone
<1>3. /\ TreeOK(o) /\ TreeOK(b) /\ Within(b, ids) /\ Apart(o, b) /\ PanesForm(panes)
      /\ o = panes.trees[from] /\ b = panes.trees[to] /\ to \in DOMAIN panes.trees
  BY <1>1, Pieces, Idle DEF Places
<1>4. Given_(ids') /\ Later(ids, ids')
  BY <1>1, GivesOK
<1>5. DOMAIN R.kids \subseteq DOMAIN o.kids /\ DOMAIN R.leaf = DOMAIN o.leaf \ {source}
  BY <1>1, <1>3, RemoveLeafOK
<1>6. PanesAre(panes', Put(Put(panes.trees, from, R), to, T), T, to, source, Put(panes.of, to, source), Without(max, to))
  <2>1. PICK V : V = T
    OBVIOUS
  <2>2. Tree(panes, from) # NoTree /\ source \in Nodes(Tree(panes, from)) /\ R = RemoveLeaf(panes.trees[from], source)
        /\ u = Solo(source, panes.trees[from].leaf[source].term, panes.trees[from].leaf[source].seed)
        /\ V = IF panes.trees[to] = NoTree THEN u ELSE InsertByZone(panes.trees[to], target, u, zone = "first", n)
    BY <1>2, <1>3, <2>1 DEF RestOK
  <2> HIDE DEF o, b, u, R, T, P, n
  <2>3. PanesAre(MovePaneToTab(panes, from, source, to, target, zone, n), Put(Put(panes.trees, from, R), to, V), V, to, source,
                  Put(panes.of, to, source), Without(max, to))
    BY <1>3, <2>2, MoveToFields
  <2> QED BY <1>1, <2>1, <2>3 DEF P
<1> HIDE DEF o, b, n, u, R, P
<1>7. source \in DOMAIN T.leaf /\ source \notin DOMAIN T.kids /\ source \in 1 .. ids'.nodes
  <2>1. PICK first \in BOOLEAN : first = (zone = "first")
    OBVIOUS
  <2>2. T = IF b = NoTree THEN u ELSE InsertByZone(b, target, u, first, ids.nodes + 1)
    BY <2>1 DEF n
  <2>3. /\ TreeOK(u) /\ Within(u, ids) /\ u # NoTree /\ DOMAIN u.kids = {} /\ Apart(b, u) /\ u.root = source
    BY <1>2, <1>3 DEF LiftOK, RestOK, Apart
  <2>4. b # NoTree => target \in DOMAIN b.leaf
    BY <1>1
  <2> HIDE DEF T
  <2>5. u.root \in DOMAIN T.leaf /\ u.root \notin DOMAIN T.kids /\ u.root \in 1 .. ids'.nodes
    BY <1>1, <1>3, <2>2, <2>3, <2>4, LandLeaf
  <2> QED BY <2>3, <2>5
<1> HIDE DEF T
<1>8. FocusBy(panes')
  BY <1>6, <1>7 DEF FocusBy, FocusIn, PanesAre
<1>9. Recalled(panes'.of, panes'.trees, ids'.nodes)
  <2>1. from \in DOMAIN panes.of => panes.of[from] \notin DOMAIN R.kids
    BY <1>3, <1>5, IdleView
  <2>2. Recalled(panes.of, panes.trees, ids'.nodes)
    BY <1>4, Recalls, RecalledThen
  <2>3. Recalled(panes.of, Put(panes.trees, from, R), ids'.nodes)
    BY <2>1, <2>2, RecalledPut
  <2>4. Recalled(Put(panes.of, to, source), Put(Put(panes.trees, from, R), to, T), ids'.nodes)
    BY <1>7, <2>3, RecalledPut
  <2> QED BY <1>6, <2>4 DEF PanesAre
<1>10. MaxAt(panes'.max, panes'.trees)
  <2>1. from \in DOMAIN panes.max => panes.max[from] \in DOMAIN o.leaf
    BY <1>3, IdleView
  <2>2. max = Without(panes.max, from) \/ (max = panes.max /\ (from \in DOMAIN panes.max => panes.max[from] \in DOMAIN R.leaf))
    BY <1>5, <2>1
  <2> HIDE DEF max
  <2>3. MaxAt(max, Put(panes.trees, from, R))
    BY <2>2, Recalls, MaxAtPut
  <2>4. MaxAt(Without(max, to), Put(Put(panes.trees, from, R), to, T))
    BY <2>3, MaxAtPut
  <2> QED BY <1>6, <2>4 DEF PanesAre
<1> QED BY <1>1, <1>4, <1>8, <1>9, <1>10, GivenView

LEMMA DropHereView ==
  ASSUME CoreInv, CoreInv', ViewInv, ~ due, NEW t \in Open, NEW source, NEW target, NEW zone, Drop(t, source, t, target, zone)
  PROVE  ViewInv'
<1> DEFINE o == Tree(panes, t)
           n == ids.nodes + 1
           u == Solo(source, o.leaf[source].term, o.leaf[source].seed)
           R == RemoveLeaf(o, source)
           T == IF zone = "center" THEN SwapLeaves(o, source, target)
                ELSE InsertByZone(R, target, u, zone = "first", n)
           active == IF zone = "center" THEN target ELSE source
<1>1. /\ source \in DOMAIN o.leaf /\ target \in DOMAIN o.leaf /\ source # target /\ t = strip.active
      /\ due' = TRUE /\ panes' = MovePaneWithinTab(panes, t, source, target, zone, n) /\ Gives(1, 0) /\ stray' = stray
  BY DEF Drop, Do, Dispatched, AtNode
<1>2. TreeOK(o) /\ Within(o, ids) /\ o = panes.trees[t] /\ PanesForm(panes) /\ panes.current = t
  BY <1>1, Pieces, Idle DEF Places
<1>3. RestOK(R, o, source) /\ LiftOK(u, o, source)
  BY <1>1, PaneGone
<1>4. Given_(ids') /\ Later(ids, ids')
  BY <1>1, GivesOK
<1>5. DOMAIN R.kids \subseteq DOMAIN o.kids /\ DOMAIN R.leaf = DOMAIN o.leaf \ {source}
  BY <1>1, <1>2, RemoveLeafOK
<1> HIDE DEF u, R, o
<1>6. R # NoTree
  BY <1>1, <1>3, NoTreeOK DEF Nodes, RestOK
<1>7. PanesAre(panes', Put(panes.trees, t, T), T, t, active, panes.of, panes.max)
  <2>1. o = Tree(panes, t) /\ R = RemoveLeaf(o, source) /\ u = Solo(source, o.leaf[source].term, o.leaf[source].seed)
    BY DEF o, R, u
  <2>2. o # NoTree /\ source \in Nodes(o)
    BY <1>3 DEF RestOK
  <2>3. PICK V : V = T
    OBVIOUS
  <2>4. V = IF zone = "center" THEN SwapLeaves(o, source, target) ELSE InsertByZone(R, target, u, zone = "first", n)
    BY <2>3
  <2> HIDE DEF T, n
  <2>5. PanesAre(MovePaneWithinTab(panes, t, source, target, zone, n), Put(panes.trees, t, V),
                 IF panes.current = t THEN V ELSE panes.tree, panes.current,
                 IF zone = "center" THEN target ELSE source, panes.of, panes.max)
    BY <1>1, <1>2, <1>6, <2>1, <2>2, <2>4, MoveWithinFields
  <2> QED BY <1>1, <1>2, <2>3, <2>5 DEF PanesAre
<1>8. /\ active \in DOMAIN T.leaf /\ DOMAIN T.leaf = DOMAIN o.leaf
      /\ \A k \in DOMAIN T.kids : k \in DOMAIN o.kids \/ k \notin 1 .. ids.nodes
  <2>1. CASE zone = "center"
    <3>1. DOMAIN T.kids = DOMAIN o.kids /\ DOMAIN T.leaf = DOMAIN o.leaf
      BY <1>1, <1>2, <2>1, SwapOK
    <3> QED BY <1>1, <2>1, <3>1
  <2>2. CASE zone # "center"
    <3>1. PICK first \in BOOLEAN : first = (zone = "first")
      OBVIOUS
    <3>2. T = IF R = NoTree THEN u ELSE InsertByZone(R, target, u, first, ids.nodes + 1)
      BY <1>6, <2>2, <3>1
    <3>3. /\ TreeOK(R) /\ Within(R, ids) /\ TreeOK(u) /\ Within(u, ids) /\ u # NoTree /\ DOMAIN u.kids = {} /\ Apart(R, u)
          /\ u.root = source
      BY <1>3 DEF LiftOK, RestOK, Apart
    <3>4. target \in DOMAIN R.leaf
      BY <1>1, <1>5
    <3> HIDE DEF T
    <3>5. /\ u.root \in DOMAIN T.leaf /\ DOMAIN T.kids \subseteq DOMAIN R.kids \cup {ids.nodes + 1}
          /\ DOMAIN T.leaf = DOMAIN R.leaf \cup {u.root}
      BY <1>1, <3>2, <3>3, <3>4, LandLeaf
    <3>6. ids.nodes + 1 \notin 1 .. ids.nodes
      BY DEF CoreInv, IdsOK, Given_
    <3> QED BY <1>1, <1>5, <2>2, <3>3, <3>5, <3>6
  <2> QED BY <2>1, <2>2
<1> HIDE DEF T, active
<1>9. FocusOK'
  BY <1>7, <1>8, FocusLeaf DEF PanesAre
<1>10. OfOK'
  BY <1>4, <1>7, <1>8, OfPut DEF PanesAre, o
<1>11. MaxOK'
  <2>1. t \in DOMAIN panes.max => panes.max[t] \in DOMAIN T.leaf
    BY <1>2, <1>8, IdleView
  <2> QED BY <1>7, <2>1, MaxPut DEF PanesAre
<1> QED BY <1>9, <1>10, <1>11 DEF ViewInv

(* What a tab leaves behind when panes of it go to another window.          *)
LEMMA TakenView ==
  ASSUME CoreInv, CoreInv', ViewInv, ~ due, Later(ids, ids'), Given_(ids'), stray' = stray, NEW t \in Open, NEW P,
         Taken(t, P), PanesForm(P), P.trees = Put(panes.trees, t, Tree(P, t)), P.current = panes.current,
         Tree(P, t) # NoTree => FocusBy(P), P.current # t => P.tree = panes.tree /\ P.active = panes.active,
         Recalled(P.of, P.trees, ids.nodes), Tree(P, t) # NoTree => MaxAt(P.max, P.trees),
         Tree(P, t) = NoTree => MaxAt(Restrict(P.max, DOMAIN P.max \ {t}), Restrict(P.trees, DOMAIN P.trees \ {t}))
  PROVE  ViewInv'
<1>1. due' = TRUE /\ panes' = IF Tree(P, t) = NoTree THEN RemoveTabTrees(P, {t}) ELSE P
  BY DEF Taken, Do, Dispatched, RemoveTabTree
<1>2. Recalled(P.of, P.trees, ids'.nodes)
  BY RecalledThen
<1>3. CASE Tree(P, t) = NoTree
  <2>1. PanesAre(panes', Restrict(P.trees, DOMAIN P.trees \ {t}), IF P.current \in {t} THEN NoTree ELSE P.tree, P.current,
                 IF P.current \in {t} THEN 0 ELSE P.active,
                 Restrict(P.of, DOMAIN P.of \ {t}), Restrict(P.max, DOMAIN P.max \ {t}))
    BY <1>1, <1>3, RemoveTabTreesFields
  <2>2. FocusBy(panes')
    BY <2>1 DEF FocusBy, PanesAre
  <2>3. Recalled(panes'.of, panes'.trees, ids'.nodes)
    BY <1>2, <2>1 DEF Recalled, Restrict, PanesAre
  <2>4. MaxAt(panes'.max, panes'.trees)
    BY <1>3, <2>1 DEF PanesAre
  <2> QED BY <1>1, <2>2, <2>3, <2>4, GivenView
<1>4. CASE Tree(P, t) # NoTree
  <2>1. panes' = P
    BY <1>1, <1>4
  <2> QED BY <1>1, <1>2, <1>4, <2>1, GivenView
<1> QED BY <1>3, <1>4

LEMMA DetachPaneView ==
  ASSUME CoreInv, CoreInv', ViewInv, ~ due, NEW t \in Tab, NEW p, DetachPane(t, p)
  PROVE  ViewInv'
<1> DEFINE o == Tree(panes, t)
           R == RemoveLeaf(o, p)
           P == RemovePaneFromTab(panes, t, p)
<1>1. PICK x \in Tab \ ids.tabs : ids' = [ids EXCEPT !.tabs = @ \cup {x}]
  BY DEF DetachPane
<1>2. t \in Open /\ p \in DOMAIN o.leaf /\ Taken(t, P) /\ stray' = stray
  BY DEF DetachPane
<1>3. Given_(ids') /\ Later(ids, ids')
  BY <1>1, GivesTab
<1>4. /\ PanesForm(P) /\ P.trees = Put(panes.trees, t, R) /\ P.current = panes.current
      /\ FocusBy(P) /\ Recalled(P.of, P.trees, ids.nodes) /\ MaxAt(P.max, P.trees)
  BY <1>2, PrunedView
<1>5. P.current # t => P.tree = panes.tree /\ P.active = panes.active
  <2>1. PanesForm(panes) /\ Tree(panes, t) # NoTree
    BY <1>2, Idle, NoTreeOK DEF Nodes
  <2> HIDE DEF R, o
  <2>2. PanesAre(RemovePaneFromTab(panes, t, p), Put(panes.trees, t, RemoveLeaf(panes.trees[t], p)),
                 IF panes.current = t THEN RemoveLeaf(panes.trees[t], p) ELSE panes.tree, panes.current,
                 IF panes.current = t /\ panes.active # 0 /\ panes.active \notin Nodes(RemoveLeaf(panes.trees[t], p))
                 THEN FirstLeafId(RemoveLeaf(panes.trees[t], p)) ELSE panes.active,
                 panes.of, IF t \in DOMAIN panes.max /\ panes.max[t] = p THEN Without(panes.max, t) ELSE panes.max)
    BY <2>1, RemovePaneFields
  <2> QED BY <1>4, <2>2 DEF PanesAre
<1>6. MaxAt(Restrict(P.max, DOMAIN P.max \ {t}), Restrict(P.trees, DOMAIN P.trees \ {t}))
  BY <1>4, RecalledLess
<1>7. Tree(P, t) = R
  BY <1>4 DEF Tree, Put
<1> HIDE DEF P, R, o
<1> QED BY <1>2, <1>3, <1>4, <1>5, <1>6, <1>7, TakenView

LEMMA DetachTabView ==
  ASSUME CoreInv, CoreInv', ViewInv, ~ due, NEW t \in Tab, DetachTab(t)
  PROVE  ViewInv'
<1> DEFINE P == [panes EXCEPT !.trees[t] = NoTree]
<1>1. t \in Open /\ Taken(t, P) /\ stray' = stray /\ ids' = ids
  BY DEF DetachTab
<1>2. Given_(ids') /\ Later(ids, ids') /\ PanesForm(panes) /\ t \in DOMAIN panes.trees
  BY <1>1, GivesNone, Idle
<1>3. /\ PanesForm(P) /\ P.trees = Put(panes.trees, t, NoTree) /\ P.current = panes.current /\ P.tree = panes.tree
      /\ P.active = panes.active /\ P.of = panes.of /\ P.max = panes.max
  <2>1. [panes.trees EXCEPT ![t] = NoTree] = Put(panes.trees, t, NoTree)
    BY <1>2 DEF Put
  <2>2. /\ PanesForm(P) /\ P.trees = [panes.trees EXCEPT ![t] = NoTree] /\ P.current = panes.current /\ P.tree = panes.tree
        /\ P.active = panes.active /\ P.of = panes.of /\ P.max = panes.max
    BY <1>2 DEF PanesForm
  <2> QED BY <2>1, <2>2
<1> HIDE DEF P
<1>4. /\ DOMAIN P.trees = DOMAIN panes.trees \cup {t} /\ P.trees[t] = NoTree
      /\ \A y \in DOMAIN panes.trees \ {t} : P.trees[y] = panes.trees[y]
  BY <1>3 DEF Put
<1>5. Tree(P, t) = NoTree
  BY <1>4 DEF Tree
<1>6. Recalled(P.of, P.trees, ids.nodes)
  <2>1. DOMAIN NoTree.kids = {}
    BY DEF NoTree
  <2> QED BY <1>3, <2>1, Recalls, RecalledPut
<1>7. MaxAt(Restrict(P.max, DOMAIN P.max \ {t}), Restrict(P.trees, DOMAIN P.trees \ {t}))
  BY <1>3, <1>4, Recalls DEF MaxAt, Restrict
<1>8. P.trees = Put(panes.trees, t, Tree(P, t))
  BY <1>3, <1>5
<1> QED BY <1>1, <1>2, <1>3, <1>5, <1>6, <1>7, <1>8, TakenView

LEMMA AttachPaneView ==
  ASSUME CoreInv, CoreInv', ViewInv, ~ due, NEW t \in Tab, NEW target, AttachPane(t, target)
  PROVE  ViewInv'
<1>1. PICK u : u = away.tree
  OBVIOUS
<1>2. PICK first \in BOOLEAN : first = FALSE
  OBVIOUS
<1>3. PICK n : n = ids.nodes + 1
  OBVIOUS
<1> DEFINE b == Tree(panes, t)
           P == InsertPaneIntoTab(panes, t, target, u, first, n)
           T == IF b = NoTree THEN u ELSE InsertByZone(b, target, u, first, n)
<1>4. /\ away # NoneAway /\ DOMAIN u.kids = {} /\ target \in DOMAIN b.leaf /\ t = strip.active
      /\ panes' = SetActiveTabId(P, t) /\ Gives(1, 0)
  BY <1>1, <1>2, <1>3 DEF AttachPane, Do, Dispatched, AtNode
<1>5. b # NoTree /\ t \in Open
  <2>1. b # NoTree
    BY <1>4, NoTreeOK DEF Nodes
  <2> QED BY <2>1, Idle
<1>6. Given_(ids') /\ Later(ids, ids')
  BY <1>4, GivesOK
<1>7. /\ t \in Places /\ NoTab \in Places /\ NoTab # t /\ Piece(t) = b /\ Piece(NoTab) = u /\ b = panes.trees[t]
      /\ PanesForm(panes) /\ t \in DOMAIN panes.trees /\ panes.current = t /\ NoTab \notin DOMAIN panes.trees
  BY <1>1, <1>4, <1>5, Idle, OpenTabs, WorkspaceAssumption DEF Places, Piece
<1>8. TreeOK(b) /\ Within(b, ids) /\ TreeOK(u) /\ Within(u, ids) /\ Apart(b, u) /\ u # NoTree
  BY <1>1, <1>4, <1>7, Pieces DEF CoreInv, AwayOK
<1>9. u.root \in DOMAIN T.leaf /\ u.root \notin DOMAIN T.kids /\ u.root \in 1 .. ids'.nodes
  <2>1. T = IF b = NoTree THEN u ELSE InsertByZone(b, target, u, first, ids.nodes + 1)
    BY <1>3
  <2> HIDE DEF T, b
  <2> QED BY <1>4, <1>8, <2>1, LandLeaf
<1>10. Gets(P, panes, t, T, u.root, Without(panes.max, t))
  <2>1. target # 0
    BY <1>4, <1>8, RootIn DEF Nodes
  <2>2. T = IF panes.trees[t] = NoTree \/ target = 0 THEN u ELSE InsertByZone(panes.trees[t], target, u, first, n)
    BY <1>5, <1>7, <2>1
  <2> HIDE DEF T, b
  <2> QED BY <1>7, <2>2, InsertPaneFields
<1> HIDE DEF T, b, P
<1>11. /\ PanesForm(P) /\ P.trees = Put(panes.trees, t, T) /\ P.tree = T /\ P.current = t /\ P.active = u.root
       /\ P.of = Put(panes.of, t, u.root) /\ P.max = Without(panes.max, t)
  BY <1>7, <1>10 DEF Gets, PanesAre
<1>12. Recalled(P.of, P.trees, ids'.nodes)
  BY <1>6, <1>9, <1>11, Recalls, RecalledThen, RecalledPut
<1>13. DOMAIN P.trees = DOMAIN panes.trees \cup {t} /\ P.trees[t] = T
  BY <1>11 DEF Put
<1>14. Aimed(P, ids'.nodes) /\ Tree(P, t) = T
  <2>1. P.tree = Tree(P, P.current) /\ Tree(P, t) = T /\ NoTab \notin DOMAIN P.trees
    BY <1>7, <1>11, <1>13 DEF Tree
  <2>2. T # NoTree
    BY <1>9, NoTreeOK DEF Nodes
  <2> QED BY <1>9, <1>11, <1>12, <2>1, <2>2 DEF Aimed, Recalled
<1>15. TreeOK(T) /\ IsFiniteSet(Nodes(T))
  <2>1. T = InsertByZone(b, target, u, first, ids.nodes + 1)
    BY <1>3, <1>5 DEF T
  <2>2. TreeOK(T) /\ Within(T, ids')
    BY <1>4, <1>8, <2>1, InsertGives DEF b
  <2> QED BY <1>6, <2>2, FiniteTree
<1>16. panes'.trees = P.trees /\ panes'.max = P.max /\ FocusIn(panes') /\ Recalled(panes'.of, P.trees, ids'.nodes)
  BY <1>4, <1>7, <1>14, <1>15, ActivatedOK
<1>17. MaxOK'
  BY <1>11, <1>16, MaxPut
<1> QED BY <1>16, <1>17, SeenView

LEMMA RestartView ==
  ASSUME CoreInv', Restart
  PROVE  ViewInv'
<1>1. /\ panes' = [NoPanes EXCEPT !.trees = [t \in Range(saved.strip.tabs) \cap DOMAIN saved.mirror |-> saved.mirror[t]]]
      /\ due' = TRUE
  BY DEF Restart
<1>2. panes'.active = 0 /\ DOMAIN panes'.of = {} /\ DOMAIN panes'.max = {}
  BY <1>1 DEF NoPanes
<1>3. FocusOK'
  BY <1>1, <1>2, FocusLeaf
<1> QED BY <1>2, <1>3 DEF ViewInv, OfOK, MaxOK

LEMMA InitView ==
  ASSUME Init
  PROVE  ViewInv
<1>1. panes = NoPanes
  BY DEF Init
<1>2. panes.active = 0 /\ panes.tree = NoTree /\ DOMAIN panes.of = {} /\ DOMAIN panes.max = {}
  BY <1>1 DEF NoPanes
<1> QED BY <1>2 DEF ViewInv, FocusOK, OfOK, MaxOK

(* What the effects do to the focus, and to what is remembered.             *)
EffectsFocus(P0, S) ==
  /\ panes'.active = IF P0.current \in S THEN 0 ELSE P0.active
  /\ panes'.of = Restrict(P0.of, DOMAIN P0.of \ S) /\ panes'.max = Restrict(P0.max, DOMAIN P0.max \ S)
  /\ DOMAIN panes.trees \subseteq Open \cup S /\ S \cap Open = {}
LEMMA EffectsSee ==
  ASSUME CoreInv, Effects
  PROVE  /\ \E P0, S : P0 = (IF strip.active = NoTab THEN panes ELSE SetActiveTabId(panes, strip.active))
                       /\ EffectsFocus(P0, S)
         /\ panes'.trees # panes.trees => due'
<1> DEFINE trees == panes.trees
           one == IF strip.active = NoTab THEN <<>> ELSE <<strip.active>>
           p1 == PlanSeeds(one, trees, mirror, ids)
           P0 == IF one = <<>> THEN panes ELSE SetActiveTabId(panes, strip.active)
           P1 == Installed(P0, p1.plan)
           M1 == Over(p1.plan, mirror)
           P2 == RemoveTabTrees(P1, DOMAIN M1 \ Open)
           M2 == Restrict(M1, DOMAIN M1 \cap Open)
           p3 == PlanSeeds(strip.tabs, trees, M2, p1.ids)
           P3 == Installed(P2, p3.plan)
<1>11. panes' = P3 /\ due' = (P3.trees # panes.trees)
  BY Zenon DEF Effects, Cleaned, Open
<1>1. trees = panes.trees
  OBVIOUS
<1>2. one = IF strip.active = NoTab THEN <<>> ELSE <<strip.active>>
  OBVIOUS
<1>3. p1 = PlanSeeds(one, trees, mirror, ids)
  OBVIOUS
<1>4. P0 = IF one = <<>> THEN panes ELSE SetActiveTabId(panes, strip.active)
  OBVIOUS
<1>5. P1 = Installed(P0, p1.plan)
  OBVIOUS
<1>6. M1 = Over(p1.plan, mirror)
  OBVIOUS
<1>7. P2 = RemoveTabTrees(P1, DOMAIN M1 \ Open)
  OBVIOUS
<1>8. M2 = Restrict(M1, DOMAIN M1 \cap Open)
  OBVIOUS
<1>9. p3 = PlanSeeds(strip.tabs, trees, M2, p1.ids)
  OBVIOUS
<1>10. P3 = Installed(P2, p3.plan)
  OBVIOUS
<1> HIDE DEF trees, one, p1, P0, P1, M1, P2, M2, p3, P3
<1>12. DOMAIN M1 = DOMAIN p1.plan \cup DOMAIN mirror
  <2>1. EffectsPlans(one, trees, p1, M1, M2, p3)
    BY <1>1, <1>2, <1>3, <1>6, <1>8, <1>9, Zenon DEF EffectsPlans
  <2> QED BY <2>1, BothPlans, Zenon
<1>13. PanesForm(panes) /\ DOMAIN panes.trees \subseteq DOMAIN mirror
  BY DEF CoreInv, CurrentOK, MirrorOK
<1>14. P0 = (IF strip.active = NoTab THEN panes ELSE SetActiveTabId(panes, strip.active)) /\ PanesForm(P0)
  <2>1. CASE strip.active = NoTab
    BY <1>2, <1>4, <1>13, <2>1
  <2>2. CASE strip.active # NoTab
    <3>1. one # <<>>
      <4>1. DOMAIN <<strip.active>> = {1} /\ DOMAIN <<>> = {}
        OBVIOUS
      <4>2. <<strip.active>> # <<>>
        BY <4>1, Zenon
      <4> QED BY <1>2, <2>2, <4>2
    <3>2. P0 = SetActiveTabId(panes, strip.active)
      BY <1>4, <3>1
    <3>3. PanesForm(P0)
      BY <1>13, <3>2, SetActiveTabIdFields DEF PanesAre
    <3> QED BY <2>2, <3>2, <3>3
  <2> QED BY <2>1, <2>2
<1>15. PanesForm(P1) /\ P1.current = P0.current /\ P1.active = P0.active /\ P1.of = P0.of /\ P1.max = P0.max
  BY <1>5, <1>14, InstalledFields DEF PanesAre
<1>16. PICK S : S = DOMAIN M1 \ Open
  OBVIOUS
<1>17. /\ PanesForm(P2) /\ P2.active = (IF P0.current \in S THEN 0 ELSE P0.active)
       /\ P2.of = Restrict(P0.of, DOMAIN P0.of \ S) /\ P2.max = Restrict(P0.max, DOMAIN P0.max \ S)
  <2>1. PanesAre(P2, Restrict(P1.trees, DOMAIN P1.trees \ S), IF P1.current \in S THEN NoTree ELSE P1.tree, P1.current,
                 IF P1.current \in S THEN 0 ELSE P1.active,
                 Restrict(P1.of, DOMAIN P1.of \ S), Restrict(P1.max, DOMAIN P1.max \ S))
    BY <1>7, <1>15, <1>16, RemoveTabTreesFields
  <2> QED BY <1>15, <2>1 DEF PanesAre
<1>18. P3.active = P2.active /\ P3.of = P2.of /\ P3.max = P2.max
  BY <1>10, <1>17, InstalledFields DEF PanesAre
<1>19. EffectsFocus(P0, S)
  BY <1>11, <1>12, <1>13, <1>16, <1>17, <1>18 DEF EffectsFocus
<1>20. panes'.trees # panes.trees => due'
  BY <1>11, Zenon
<1> QED BY <1>14, <1>19, <1>20

LEMMA EffectsView ==
  ASSUME CoreInv, CoreInv', ViewInv, Effects
  PROVE  ViewInv'
<1>1. PICK P0, S : P0 = (IF strip.active = NoTab THEN panes ELSE SetActiveTabId(panes, strip.active)) /\ EffectsFocus(P0, S)
  BY EffectsSee
<1>2. panes'.trees # panes.trees => due'
  BY EffectsSee
<1>3. PICK N, g :
           /\ GivenTrees(N, g, Open \ DOMAIN panes.trees, panes.trees, ids) /\ ids' = g
           /\ DOMAIN panes'.trees = Open
           /\ \A t \in Open : panes'.trees[t] = IF t \in DOMAIN panes.trees THEN panes.trees[t] ELSE N[t]
           /\ panes'.current = IF strip.active = NoTab THEN panes.current ELSE strip.active
  BY EffectsGive
<1>4. Given_(ids') /\ Later(ids, ids')
  BY <1>3 DEF GivenTrees
<1>5. panes'.tree = Tree(panes', panes'.current) /\ panes.tree = Tree(panes, panes.current)
  BY DEF CoreInv, CurrentOK
<1>6. /\ panes'.active = IF P0.current \in S THEN 0 ELSE P0.active
      /\ panes'.of = Restrict(P0.of, DOMAIN P0.of \ S) /\ panes'.max = Restrict(P0.max, DOMAIN P0.max \ S)
      /\ DOMAIN panes.trees \subseteq Open \cup S /\ S \cap Open = {}
  BY <1>1 DEF EffectsFocus
<1>7. /\ DOMAIN panes'.of = DOMAIN P0.of \ S /\ \A t \in DOMAIN panes'.of : panes'.of[t] = P0.of[t]
      /\ DOMAIN panes'.max = DOMAIN P0.max \ S /\ \A t \in DOMAIN panes'.max : panes'.max[t] = P0.max[t]
  BY <1>6 DEF Restrict
<1>8. \A t \in DOMAIN panes.max : t \in DOMAIN panes.trees /\ panes.max[t] \in DOMAIN panes.trees[t].leaf
  BY DEF ViewInv, MaxOK
<1>9. CASE strip.active = NoTab
  <2>1. Open = {} /\ P0 = panes
    BY <1>1, <1>9, OpenTabs
  <2>2. panes'.tree = NoTree
    BY <1>3, <1>5, <2>1 DEF Tree
  <2>3. panes'.active = 0
    <3>1. CASE panes.current \in DOMAIN panes.trees
      BY <1>6, <2>1, <3>1
    <3>2. CASE panes.current \notin DOMAIN panes.trees
      <4>1. panes.active = 0
        BY <1>5, <3>2 DEF Tree, ViewInv, FocusOK
      <4> QED BY <1>6, <2>1, <4>1
    <3> QED BY <3>1, <3>2
  <2>4. FocusOK'
    BY <2>2, <2>3, FocusLeaf
  <2>5. DOMAIN panes'.of = {} /\ DOMAIN panes'.max = {}
    <3>1. \A t \in DOMAIN panes.of : t \in DOMAIN panes.trees
      BY DEF ViewInv, OfOK
    <3> QED BY <1>6, <1>7, <1>8, <2>1, <3>1
  <2> QED BY <2>4, <2>5 DEF ViewInv, OfOK, MaxOK
<1>10. CASE strip.active # NoTab
  <2>1. PICK t : t = strip.active
    OBVIOUS
  <2>2. t \in Open /\ t # NoTab /\ P0 = SetActiveTabId(panes, t) /\ t \in Tab /\ panes'.current = t
    BY <1>1, <1>3, <1>10, <2>1, OpenTabs
  <2>3. t \in Places /\ Piece(t) = Tree(panes, t)
    BY <2>2 DEF Places, Piece
  <2>4. /\ P0.tree = Tree(panes, t) /\ P0.current = t /\ P0.max = panes.max
        /\ FocusIn(P0) /\ Recalled(P0.of, panes.trees, ids.nodes)
    BY <2>2, <2>3, Pieces, IsAimed, ActivatedOK
  <2>5. panes'.active = P0.active
    BY <1>6, <2>2, <2>4
  <2>6. panes'.active \in DOMAIN panes'.tree.leaf \/ (panes'.active = 0 /\ (due' \/ panes'.tree = NoTree))
    <3>1. CASE t \in DOMAIN panes.trees
      <4>1. panes'.tree = P0.tree
        BY <1>3, <1>5, <2>2, <2>4, <3>1 DEF Tree
      <4> QED BY <2>4, <2>5, <4>1 DEF FocusIn
    <3>2. CASE t \notin DOMAIN panes.trees
      <4>1. P0.tree = NoTree /\ DOMAIN NoTree.leaf = {}
        BY <2>4, <3>2 DEF Tree, NoTree
      <4>2. panes'.active = 0
        BY <2>4, <2>5, <4>1 DEF FocusIn
      <4>3. due'
        BY <1>2, <1>3, <2>2, <3>2
      <4> QED BY <4>2, <4>3
    <3> QED BY <3>1, <3>2
  <2>7. FocusOK'
    BY <2>6, FocusLeaf
  <2>8. Recalled(P0.of, panes.trees, ids'.nodes)
    BY <1>4, <2>4, RecalledThen
  <2>9. OfOK'
    BY <1>3, <1>6, <1>7, <2>8 DEF Recalled, OfOK
  <2>10. MaxOK'
    <3>1. \A x \in DOMAIN panes'.max : /\ x \in DOMAIN panes.max /\ panes'.max[x] = panes.max[x]
                                      /\ x \in Open /\ x \in DOMAIN panes.trees /\ panes'.trees[x] = panes.trees[x]
      <4> TAKE x \in DOMAIN panes'.max
      <4>1. x \in DOMAIN panes.max /\ x \notin S /\ panes'.max[x] = panes.max[x]
        BY <1>7, <2>4
      <4>2. x \in DOMAIN panes.trees /\ x \in Open
        BY <1>6, <1>8, <4>1
      <4> QED BY <1>3, <4>1, <4>2
    <3> QED BY <1>3, <1>8, <3>1 DEF MaxOK
  <2> QED BY <2>7, <2>9, <2>10 DEF ViewInv
<1> QED BY <1>9, <1>10

(* A terminal that comes from the API: it has the focus, or no pane of its   *)
(* own; then what the tab remembers has it, a pane that may be gone.         *)
LEMMA ApiSplitView ==
  ASSUME CoreInv, CoreInv', ViewInv, ~ due, NEW t \in Tab, NEW p, ApiSplit(t, p)
  PROVE  ViewInv'
<1> DEFINE o == Tree(panes, t)
           a == ids.nodes + 2
           b == ids.nodes + 1
           k == ids.terms + 1
           new == [term |-> k, seed |-> NoTab]
           target == IF p \in Nodes(o) THEN p ELSE FirstLeafId(o)
           r == SplitPaneInTab(panes, t, p, a, b, new)
<1>1. t \in Open /\ p \in {0} \cup Nodes(o) /\ panes' = r
  BY DEF ApiSplit, Dispatched, AtNode
<1>2. /\ o = NoTree => Gives(1, 1) /\ stray' = stray /\ due' = TRUE
      /\ o # NoTree /\ p \in DOMAIN o.kids => Gives(0, 1) /\ stray' = stray \cup {k}
      /\ o # NoTree /\ p \notin DOMAIN o.kids => Gives(2, 1) /\ stray' = stray /\ due' = TRUE
  <2>1. o = NoTree => Gives(1, 1) /\ stray' = stray /\ due' = TRUE
    BY DEF ApiSplit
  <2>2. o # NoTree /\ p \in DOMAIN o.kids => Gives(0, 1) /\ stray' = stray \cup {k}
    BY DEF ApiSplit
  <2>3. o # NoTree /\ p \notin DOMAIN o.kids => Gives(2, 1) /\ stray' = stray /\ due' = TRUE
    BY DEF ApiSplit
  <2> QED BY <2>1, <2>2, <2>3
<1>3. /\ TreeOK(o) /\ Within(o, ids) /\ IsFiniteSet(Nodes(o)) /\ o = panes.trees[t] /\ t \in DOMAIN panes.trees
      /\ PanesForm(panes) /\ panes.tree = Tree(panes, panes.current)
  BY <1>1, Pieces, Idle DEF Places
<1>4. ids.nodes \in Nat /\ ids.terms \in Nat
  BY DEF CoreInv, IdsOK, Given_
<1>5. /\ o = NoTree => Gets(r, panes, t, Solo(b, k, NoTab), b, panes.max)
      /\ o # NoTree /\ target \in DOMAIN o.leaf =>
           Gets(r, panes, t, SplitLeafInTree(panes.trees[t], target, a, b, new, FALSE), b, Without(panes.max, t))
      /\ o # NoTree /\ target \notin DOMAIN o.leaf =>
           PanesAre(r, panes.trees, IF panes.current = t THEN panes.trees[t] ELSE panes.tree, panes.current,
                    IF panes.current = t /\ t \in DOMAIN panes.of THEN panes.of[t] ELSE panes.active, panes.of, panes.max)
  <2>1. new.term = k
    OBVIOUS
  <2> HIDE DEF new, a, b, k
  <2> QED BY <1>3, <2>1, SplitInTabFields
<1> HIDE DEF r
<1>6. FocusBy(panes) /\ Recalled(panes.of, panes.trees, ids.nodes) /\ MaxAt(panes.max, panes.trees)
  BY Recalls DEF FocusBy
<1>7. CASE o = NoTree
  <2> DEFINE T == Solo(b, k, NoTab)
  <2>1. Given_(ids') /\ Later(ids, ids') /\ ids'.nodes = ids.nodes + 1
    BY <1>2, <1>7, GivesOK
  <2>2. DOMAIN T.leaf = {b} /\ DOMAIN T.kids = {}
    BY DEF Solo
  <2>3. b \in 1 .. ids'.nodes
    BY <1>4, <2>1
  <2>4. Gets(panes', panes, t, T, b, panes.max)
    BY <1>1, <1>5, <1>7
  <2> HIDE DEF T, b
  <2>5. MaxAt(panes.max, Put(panes.trees, t, T))
    <3>1. t \notin DOMAIN panes.max
      <4>1. panes.trees[t] = NoTree
        BY <1>3, <1>7
      <4>2. NoTree.leaf = << >>
        BY DEF NoTree
      <4>3. \A x : x \notin DOMAIN << >>
        OBVIOUS
      <4>4. \A x : x \notin DOMAIN NoTree.leaf
        BY <4>2, <4>3
      <4>5. t \in DOMAIN panes.max => panes.max[t] \in DOMAIN panes.trees[t].leaf
        BY <1>6 DEF MaxAt
      <4> QED BY <4>1, <4>4, <4>5
    <3> QED BY <1>6, <3>1, MaxAtPut
  <2> QED BY <1>2, <1>3, <1>6, <1>7, <2>1, <2>2, <2>3, <2>4, <2>5, GetsView
<1>8. CASE o # NoTree /\ p \in DOMAIN o.kids
  <2>1. Given_(ids') /\ Later(ids, ids') /\ stray' # {}
    BY <1>2, <1>8, GivesOK
  <2>2. target = p /\ p \notin DOMAIN o.leaf
    BY <1>3, <1>8 DEF Nodes, TreeOK, TreeForm
  <2>3. /\ panes'.trees = panes.trees /\ panes'.of = panes.of /\ panes'.max = panes.max
        /\ panes'.tree = (IF panes.current = t THEN o ELSE panes.tree)
        /\ panes'.active = IF panes.current = t /\ t \in DOMAIN panes.of THEN panes.of[t] ELSE panes.active
    BY <1>1, <1>3, <1>5, <1>8, <2>2 DEF PanesAre
  <2>4. panes'.tree = panes.tree
    BY <1>3, <2>3
  <2>5. FocusOK'
    <3>1. CASE panes.current = t /\ t \in DOMAIN panes.of
      <4>1. panes'.active \in 1 .. ids.nodes /\ panes'.active \notin DOMAIN o.kids
        BY <1>3, <1>6, <2>3, <3>1 DEF Recalled
      <4>2. panes'.active \in 1 .. ids'.nodes /\ panes'.active # 0
        BY <1>4, <2>1, <4>1, StillGiven
      <4> QED BY <1>8, <2>1, <2>3, <3>1, <4>1, <4>2 DEF FocusOK
    <3>2. CASE ~ (panes.current = t /\ t \in DOMAIN panes.of)
      <4>1. panes'.active = panes.active
        BY <2>3, <3>2
      <4> QED BY <2>1, <2>4, <4>1, IdleView, StillGiven DEF FocusOK
    <3> QED BY <3>1, <3>2
  <2>6. OfOK' /\ MaxOK'
    BY <2>1, <2>3, OfStill, MaxStill
  <2> QED BY <2>5, <2>6 DEF ViewInv
<1>9. CASE o # NoTree /\ p \notin DOMAIN o.kids
  <2>1. Given_(ids') /\ Later(ids, ids') /\ ids'.nodes = ids.nodes + 2
    BY <1>2, <1>9, GivesOK
  <2>2. target \in DOMAIN o.leaf
    <3>1. CASE p \in Nodes(o)
      BY <1>9, <3>1 DEF Nodes
    <3>2. CASE p \notin Nodes(o)
      BY <1>3, <1>9, <3>2, FirstLeafOK
    <3> QED BY <3>1, <3>2
  <2>3. PICK q : q = target
    OBVIOUS
  <2>4. PICK first \in BOOLEAN : first = FALSE
    OBVIOUS
  <2> DEFINE T == SplitLeafInTree(o, q, a, b, new, first)
  <2>5. b \in DOMAIN T.leaf /\ b \notin DOMAIN T.kids /\ b \in 1 .. ids'.nodes
    <3>1. a \in Nat \ {0} /\ b \in Nat \ {0} /\ a # b /\ a \notin 1 .. ids.nodes /\ b \notin 1 .. ids.nodes /\ k \in Nat
          /\ k \notin 1 .. ids.terms /\ b \in 1 .. ids'.nodes
      BY <1>4, <2>1
    <3>2. q \in DOMAIN o.leaf
      BY <2>2, <2>3
    <3> HIDE DEF a, b, k, o, target
    <3>3. a \notin Nodes(o) /\ b \notin Nodes(o) /\ k \notin Terms(o)
      BY <1>3, <3>1 DEF Within
    <3>4. DOMAIN T.kids = DOMAIN o.kids \cup {q} /\ DOMAIN T.leaf = (DOMAIN o.leaf \ {q}) \cup {a, b}
      BY <1>3, <3>1, <3>2, <3>3, SplitLeafOK
    <3>5. b \notin DOMAIN o.kids /\ b # q
      BY <3>2, <3>3 DEF Nodes
    <3> HIDE DEF T
    <3> QED BY <3>1, <3>4, <3>5
  <2>6. Gets(panes', panes, t, T, b, Without(panes.max, t))
    <3> HIDE DEF target
    <3> QED BY <1>1, <1>3, <1>5, <1>9, <2>2, <2>3, <2>4
  <2> HIDE DEF T, b
  <2>7. MaxAt(Without(panes.max, t), Put(panes.trees, t, T))
    BY <1>6, MaxAtPut
  <2> QED BY <1>2, <1>3, <1>6, <1>9, <2>1, <2>5, <2>6, <2>7, GetsView
<1> QED BY <1>7, <1>8, <1>9

LEMMA TaskView ==
  ASSUME CoreInv, CoreInv', ViewInv, Task
  PROVE  ViewInv'
<1>1. ~ due
  BY DEF Task
<1>2. CASE NewTabs
  <2>1. PICK t \in Tab : NewTab(t) \/ NewFolderTab(t) \/ \E activate \in BOOLEAN : ApiTab(t, activate)
    BY <1>2 DEF NewTabs
  <2> QED BY <1>1, <2>1, NewTabView, NewFolderTabView, ApiTabView
<1>3. CASE Pick
  <2>1. (\E t \in Tab : Select(t)) \/ \E p \in 1 .. ids.nodes : Focus(p) \/ Maximize(p)
    BY <1>3 DEF Pick
  <2> QED BY <1>1, <2>1, StripView, FocusView, MaximizeView
<1>4. CASE Splits
  <2>1. PICK p \in 0 .. ids.nodes : (\E first \in BOOLEAN : Split(p, first)) \/ \E t \in Tab : ApiSplit(t, p)
    BY <1>4 DEF Splits
  <2> QED BY <1>1, <2>1, SplitView, ApiSplitView
<1>5. CASE Closes
  <2>1. PICK t \in Tab : CloseTab(t) \/ \E p \in 1 .. ids.nodes : ClosePane(t, p)
    BY <1>5 DEF Closes
  <2> QED BY <1>1, <2>1, StripView, ClosePaneView
<1>6. CASE Moves
  <2>0. PICK from \in Open, to \in Open : \E p \in DOMAIN Tree(panes, from).leaf :
           \/ Regroup(from, p, to)
           \/ \E q \in DOMAIN Tree(panes, to).leaf, zone \in {"center", "first", "second"} : Drop(from, p, to, q, zone)
    BY <1>6 DEF Moves
  <2>1. PICK p \in DOMAIN Tree(panes, from).leaf :
           \/ Regroup(from, p, to)
           \/ \E q \in DOMAIN Tree(panes, to).leaf, zone \in {"center", "first", "second"} : Drop(from, p, to, q, zone)
    BY <2>0
  <2>2. CASE Regroup(from, p, to)
    BY <1>1, <2>2, RegroupView
  <2>3. ASSUME NEW q, NEW zone, Drop(from, p, to, q, zone) PROVE ViewInv'
    <3>1. CASE from = to
      BY <1>1, <2>3, <3>1, DropHereView
    <3>2. CASE from # to
      BY <1>1, <2>3, <3>2, DropThereView
    <3> QED BY <3>1, <3>2
  <2> QED BY <2>1, <2>2, <2>3
<1>7. CASE Windows
  <2>1. AttachTab \/ \E t \in Tab : DetachTab(t) \/ \E p \in 1 .. ids.nodes : DetachPane(t, p) \/ AttachPane(t, p)
    BY <1>7 DEF Windows
  <2> QED BY <1>1, <2>1, AttachTabView, DetachTabView, DetachPaneView, AttachPaneView
<1>8. CASE SaveState
  BY <1>1, <1>8, StripView
<1> QED BY <1>2, <1>3, <1>4, <1>5, <1>6, <1>7, <1>8 DEF Task

LEMMA ViewInvariant == "twice" \notin Saves /\ Spec => []ViewInv
<1> SUFFICES ASSUME "twice" \notin Saves PROVE Spec => []ViewInv
  OBVIOUS
<1>1. Init => ViewInv
  BY InitView
<1>2. CoreInv /\ CoreInv' /\ ViewInv /\ [Next]_vars => ViewInv'
  <2> SUFFICES ASSUME CoreInv, CoreInv', ViewInv, [Next]_vars PROVE ViewInv'
    OBVIOUS
  <2>1. CASE UNCHANGED vars
    BY <2>1 DEF vars, ViewInv, FocusOK, OfOK, MaxOK
  <2>2. CASE Effects
    BY <2>2, EffectsView
  <2>3. CASE Task
    BY <2>3, TaskView
  <2>4. CASE Restart
    BY <2>4, RestartView
  <2> QED BY <2>1, <2>2, <2>3, <2>4 DEF Next
<1>3. Spec => []CoreInv
  BY WorkspaceInvariant
<1> QED BY <1>1, <1>2, <1>3, PTL DEF Spec

(* Whenever the effects have run, the two slices and the mirror agree, the   *)
(* tab that is selected is the tab that is shown, focus is in a pane of it   *)
(* unless a split that could not be made has moved it, and what is          *)
(* maximized is there (the effects of TerminalContainer, panesSlice).       *)
THEOREM AlwaysSettled == "twice" \notin Saves /\ Spec => []SettledView
<1>1. CoreInv /\ ViewInv => SettledView
  <2> SUFFICES ASSUME CoreInv, ViewInv, ~ due
               PROVE  /\ DOMAIN panes.trees = Open /\ mirror = panes.trees
                      /\ (strip.active = NoTab <=> Open = {})
                      /\ (Open # {} => panes.current = strip.active /\ panes.tree = panes.trees[strip.active])
                      /\ (panes.tree = NoTree <=> panes.active = 0)
                      /\ (panes.tree # NoTree /\ stray = {} => panes.active \in DOMAIN panes.tree.leaf)
                      /\ \A t \in DOMAIN panes.max : t \in Open /\ panes.max[t] \in DOMAIN panes.trees[t].leaf
    BY DEF SettledView
  <2>1. DOMAIN panes.trees = Open /\ mirror = panes.trees /\ (Open # {} => panes.current = strip.active)
        /\ panes.tree = Tree(panes, panes.current)
    BY Idle
  <2>2. strip.active = NoTab <=> Open = {}
    BY OpenTabs
  <2>3. Open # {} => panes.tree = panes.trees[strip.active]
    BY <2>1, <2>2, OpenTabs DEF Tree
  <2>4. (panes.tree = NoTree <=> panes.active = 0) /\ (panes.tree # NoTree /\ stray = {} => panes.active \in DOMAIN panes.tree.leaf)
    BY IdleView
  <2>5. \A t \in DOMAIN panes.max : t \in Open /\ panes.max[t] \in DOMAIN panes.trees[t].leaf
    BY <2>1, IdleView
  <2> QED BY <2>1, <2>2, <2>3, <2>4, <2>5
<1> QED BY <1>1, WorkspaceInvariant, ViewInvariant, PTL
====
