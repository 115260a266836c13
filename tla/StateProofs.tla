----------------------------- MODULE StateProofs -----------------------------
(***************************************************************************)
(* Proofs about model.State.  Its workspaces, tabs and panes (Workspace)   *)
(* refer to each other and to what exists, and what an operation is not    *)
(* about keeps its place and the focus.  pane.Busy (Busy) says what the    *)
(* shell's prompts say, and agent.resume types where it may.               *)
(***************************************************************************)
EXTENDS Workspace, Busy, SequenceTheorems, WellFoundedInduction, TLAPS

-----------------------------------------------------------------------------
(***************************************************************************)
(* Layouts (Layout.tla): paths are sequences of steps, a layout is a tree  *)
(* of paths that ends; what Split, Remove and a new ratio make of it.      *)
(***************************************************************************)
\* A place in a layout: its steps from the root.
Path == Seq({0, 1})

\* What a path is made of.
LEMMA PathIs ==
  ASSUME NEW p \in Path
  PROVE  Len(p) \in Nat /\ DOMAIN p = 1..Len(p) /\ \A i \in 1..Len(p) : p[i] \in {0, 1}
BY LenProperties, ElementOfSeq DEF Path

\* Two paths with the same steps are the same.
LEMMA PathEqual ==
  ASSUME NEW p \in Path, NEW q \in Path, Len(p) = Len(q), \A i \in 1..Len(p) : p[i] = q[i]
  PROVE  p = q
BY SeqEqual DEF Path

\* The first steps of a path.
LEMMA StartIs ==
  ASSUME NEW p \in Path, NEW k \in 0..Len(p)
  PROVE  /\ SubSeq(p, 1, k) \in Path
         /\ Len(SubSeq(p, 1, k)) = k
         /\ \A i \in 1..k : SubSeq(p, 1, k)[i] = p[i]
<1>1. Len(p) \in Nat /\ \A i \in 1..k : p[i] \in {0, 1}
  BY PathIs
<1>2. /\ SubSeq(p, 1, k) \in Path
      /\ Len(SubSeq(p, 1, k)) = IF 1 <= k THEN k - 1 + 1 ELSE 0
      /\ \A i \in 1..(k - 1 + 1) : SubSeq(p, 1, k)[i] = p[1 + i - 1]
  BY <1>1, SubSeqProperties DEF Path
<1> QED
  BY <1>1, <1>2

\* One step further.
LEMMA StepIs ==
  ASSUME NEW p \in Path, NEW x \in {0, 1}
  PROVE  /\ Append(p, x) \in Path /\ Append(p, x) # Root
         /\ Len(Append(p, x)) = Len(p) + 1
         /\ \A i \in 1..Len(p) : Append(p, x)[i] = p[i]
         /\ Append(p, x)[Len(p) + 1] = x
         /\ S!Front(Append(p, x)) = p /\ S!Last(Append(p, x)) = x
<1>1. /\ Append(p, x) \in Path /\ Append(p, x) # Root
      /\ Len(Append(p, x)) = Len(p) + 1 /\ Len(p) \in Nat
      /\ \A i \in 1..Len(p) : Append(p, x)[i] = p[i]
      /\ Append(p, x)[Len(p) + 1] = x
  BY AppendProperties, PathIs DEF Path, Root
<1>2. S!Front(Append(p, x)) = SubSeq(Append(p, x), 1, Len(p))
  BY <1>1 DEF S!Front
<1>3. SubSeq(Append(p, x), 1, Len(p)) = p
  <2>1. Len(p) \in 0..Len(Append(p, x))
    BY <1>1
  <2>2. /\ SubSeq(Append(p, x), 1, Len(p)) \in Path
        /\ Len(SubSeq(Append(p, x), 1, Len(p))) = Len(p)
        /\ \A i \in 1..Len(p) : SubSeq(Append(p, x), 1, Len(p))[i] = Append(p, x)[i]
    BY <1>1, <2>1, StartIs
  <2> QED
    BY <1>1, <2>2, PathEqual
<1> QED
  BY <1>1, <1>2, <1>3 DEF S!Last

\* One step back.
LEMMA FrontIs ==
  ASSUME NEW p \in Path, p # Root
  PROVE  /\ S!Front(p) \in Path /\ S!Last(p) \in {0, 1}
         /\ Len(S!Front(p)) = Len(p) - 1
         /\ p = Append(S!Front(p), S!Last(p))
<1>1. Len(p) \in Nat \ {0} /\ p[Len(p)] \in {0, 1}
  BY EmptySeq, PathIs DEF Path, Root
<1>2. /\ S!Front(p) \in Path
      /\ Len(S!Front(p)) = Len(p) - 1
      /\ \A i \in 1..(Len(p) - 1) : S!Front(p)[i] = p[i]
  <2>1. Len(p) - 1 \in 0..Len(p)
    BY <1>1
  <2>2. S!Front(p) = SubSeq(p, 1, Len(p) - 1)
    BY DEF S!Front
  <2> QED
    BY <2>1, <2>2, StartIs
<1>3. S!Last(p) = p[Len(p)]
  BY DEF S!Last
<1>4. p = Append(S!Front(p), S!Last(p))
  <2> DEFINE q == Append(S!Front(p), S!Last(p))
  <2>1. /\ q \in Path /\ Len(q) = Len(p)
        /\ \A i \in 1..Len(p) : q[i] = p[i]
    BY <1>1, <1>2, <1>3, StepIs
  <2> HIDE DEF q
  <2> QED
    BY <2>1, PathEqual DEF q
<1> QED
  BY <1>1, <1>2, <1>3, <1>4

\* q leads on from where p ends.
Extends(p, q) == Len(q) <= Len(p) /\ \A i \in 1..Len(q) : p[i] = q[i]

\* IsPrefix, by the steps of the two paths.
LEMMA PrefixIs ==
  ASSUME NEW p \in Path, NEW q \in Path
  PROVE  S!IsPrefix(q, p) <=> Extends(p, q)
<1>1. Len(p) \in Nat /\ Len(q) \in Nat
  BY PathIs
<1>2. CASE Len(q) <= Len(p)
  <2>1. Len(q) \in 0..Len(p) /\ Len(q) \in 0..Len(q)
    BY <1>1, <1>2
  <2>2. /\ SubSeq(p, 1, Len(q)) \in Path /\ Len(SubSeq(p, 1, Len(q))) = Len(q)
        /\ \A i \in 1..Len(q) : SubSeq(p, 1, Len(q))[i] = p[i]
    BY <2>1, StartIs
  <2>3. /\ SubSeq(q, 1, Len(q)) \in Path /\ Len(SubSeq(q, 1, Len(q))) = Len(q)
        /\ \A i \in 1..Len(q) : SubSeq(q, 1, Len(q))[i] = q[i]
    BY <2>1, StartIs
  <2>4. SubSeq(q, 1, Len(q)) = SubSeq(p, 1, Len(q)) <=> \A i \in 1..Len(q) : p[i] = q[i]
    <3>1. ASSUME SubSeq(q, 1, Len(q)) = SubSeq(p, 1, Len(q))
          PROVE  \A i \in 1..Len(q) : p[i] = q[i]
      BY <2>2, <2>3, <3>1
    <3>2. ASSUME \A i \in 1..Len(q) : p[i] = q[i]
          PROVE  SubSeq(q, 1, Len(q)) = SubSeq(p, 1, Len(q))
      <4>1. \A i \in 1..Len(q) : SubSeq(q, 1, Len(q))[i] = SubSeq(p, 1, Len(q))[i]
        BY <2>2, <2>3, <3>2
      <4> QED
        BY <2>2, <2>3, <4>1, PathEqual
    <3> QED
      BY <3>1, <3>2
  <2> QED
    BY <1>2, <2>4 DEF S!IsPrefix, Extends
<1>3. CASE ~(Len(q) <= Len(p))
  BY <1>3 DEF S!IsPrefix, Extends
<1> QED
  BY <1>2, <1>3

\* A layout whose paths have an end.
Tree(lay) ==
  /\ lay = [p \in Paths(lay) |-> lay[p]]
  /\ WellFormed(lay, Pane, Look)
  /\ \E n \in Nat : \A p \in Paths(lay) : Len(p) <= n

\* What the parts of a layout are.
LEMMA TreePaths ==
  ASSUME NEW lay, Tree(lay)
  PROVE  /\ Paths(lay) \subseteq Path
         /\ Splits(lay) \subseteq Paths(lay) /\ LeafPaths(lay) \subseteq Paths(lay)
         /\ \A p \in LeafPaths(lay) : lay[p] \in Pane
         /\ \A p \in Splits(lay) : lay[p] \in Look
         /\ \A p, q \in LeafPaths(lay) : lay[p] = lay[q] => p = q
BY DEF Tree, WellFormed, Path, Paths, Splits, LeafPaths

\* The nodes with children are the splits.
LEMMA ChildIs ==
  ASSUME NEW lay, Tree(lay), NEW f \in Path, NEW x \in {0, 1}
  PROVE  Append(f, x) \in Paths(lay) <=> f \in Splits(lay)
<1>1. \A y \in {0, 1} : Append(f, y) # Root /\ S!Front(Append(f, y)) = f
  BY StepIs
<1>2. ASSUME Append(f, x) \in Paths(lay) PROVE f \in Splits(lay)
  <2>1. \A p \in Paths(lay) : p # Root => First(S!Front(p)) \in Paths(lay) /\ S!Front(p) \in Paths(lay)
    BY DEF Tree, WellFormed
  <2>2. Append(f, x) # Root /\ S!Front(Append(f, x)) = f
    BY <1>1
  <2> QED
    BY <1>2, <2>1, <2>2 DEF Splits
<1>3. ASSUME f \in Splits(lay) PROVE Append(f, 0) \in Paths(lay) /\ Append(f, 1) \in Paths(lay)
  <2>1. \A p \in Paths(lay) : p # Root => Second(S!Front(p)) \in Paths(lay)
    BY DEF Tree, WellFormed
  <2>2. Append(f, 0) # Root /\ S!Front(Append(f, 0)) = f
    BY <1>1
  <2> QED
    BY <1>3, <2>1, <2>2 DEF Splits, First, Second
<1> QED
  BY <1>2, <1>3

\* Every node on the way to a node is one.
LEMMA Above ==
  ASSUME NEW lay, Tree(lay), NEW p \in Paths(lay), NEW k \in 0..Len(p)
  PROVE  SubSeq(p, 1, k) \in Paths(lay)
<1> DEFINE B == {m \in 0..Len(p) : SubSeq(p, 1, Len(p) - m) \notin Paths(lay)}
<1>1. p \in Path /\ Len(p) \in Nat
  BY TreePaths, PathIs
<1>2. ASSUME B # {} PROVE FALSE
  <2>1. B \subseteq Nat
    BY <1>1
  <2>2. PICK m \in B : \A y \in B : ~(<<y, m>> \in OpToRel(<, Nat))
    <3> HIDE DEF B
    <3> QED
      BY <1>2, <2>1, NatLessThanWellFounded, WFMin
  <2>3. \A y \in B : ~(y < m)
    BY <2>1, <2>2 DEF OpToRel
  <2>4. SubSeq(p, 1, Len(p)) = p
    BY <1>1, SubSeqFull DEF Path
  <2>5. m # 0
    <3>1. m = 0 => Len(p) - m = Len(p)
      BY <1>1
    <3> QED
      BY <2>4, <3>1
  <2>6. m - 1 \in 0..Len(p) /\ m - 1 \notin B /\ m \in Nat
    BY <1>1, <2>1, <2>3, <2>5
  <2> DEFINE n == Len(p) - m
  <2>7. n \in 0..Len(p) /\ n + 1 \in 0..Len(p) /\ n + 1 = Len(p) - (m - 1)
    BY <1>1, <2>6
  <2>8. SubSeq(p, 1, n + 1) \in Paths(lay)
    BY <2>6, <2>7
  <2>9. /\ SubSeq(p, 1, n + 1) \in Path /\ Len(SubSeq(p, 1, n + 1)) = n + 1
        /\ \A i \in 1..(n + 1) : SubSeq(p, 1, n + 1)[i] = p[i]
    BY ONLY <1>1, <2>7, StartIs
  <2>10. /\ SubSeq(p, 1, n) \in Path /\ Len(SubSeq(p, 1, n)) = n
         /\ \A i \in 1..n : SubSeq(p, 1, n)[i] = p[i]
    BY ONLY <1>1, <2>7, StartIs
  <2>11. p[n + 1] \in {0, 1}
    BY <1>1, <2>7, PathIs
  <2>12. SubSeq(p, 1, n + 1) = Append(SubSeq(p, 1, n), p[n + 1])
    <3> DEFINE u == SubSeq(p, 1, n + 1)
               v == SubSeq(p, 1, n)
               w == Append(v, p[n + 1])
    <3>1. w \in Path /\ Len(w) = n + 1 /\ (\A i \in 1..n : w[i] = v[i]) /\ w[n + 1] = p[n + 1]
      BY <2>10, <2>11, StepIs
    <3>2. \A i \in 1..n : u[i] = p[i] /\ v[i] = p[i]
      BY <2>7, <2>9, <2>10
    <3>3. u[n + 1] = p[n + 1]
      BY <2>7, <2>9
    <3>4. n \in Nat
      BY <2>7
    <3> HIDE DEF n, u, v, w
    <3>5. \A i \in 1..(n + 1) : u[i] = w[i]
      BY <3>1, <3>2, <3>3, <3>4
    <3> QED
      BY <2>9, <3>1, <3>5, PathEqual DEF u, v, w
  <2>13. SubSeq(p, 1, n) \in Splits(lay)
    BY <2>8, <2>10, <2>11, <2>12, ChildIs
  <2> QED
    BY <2>13, TreePaths
<1>3. Len(p) - k \in 0..Len(p) /\ Len(p) - (Len(p) - k) = k
  BY <1>1
<1> QED
  BY <1>2, <1>3

\* No way leads past a leaf.
LEMMA LeafEnds ==
  ASSUME NEW lay, Tree(lay), NEW p \in LeafPaths(lay), NEW q \in Paths(lay), Extends(q, p)
  PROVE  q = p
<1>1. p \in Path /\ q \in Path /\ Len(p) \in Nat /\ Len(q) \in Nat
  BY TreePaths, PathIs
<1>2. CASE Len(p) = Len(q)
  BY <1>1, <1>2, PathEqual DEF Extends
<1>3. CASE Len(p) # Len(q)
  <2> DEFINE n == Len(p)
             u == SubSeq(q, 1, n + 1)
  <2>1. n + 1 \in 0..Len(q) /\ n \in Nat
    BY <1>1, <1>3 DEF Extends
  <2>2. u \in Path /\ Len(u) = n + 1 /\ \A i \in 1..(n + 1) : u[i] = q[i]
    BY ONLY <1>1, <2>1, StartIs
  <2>3. q[n + 1] \in {0, 1}
    BY <1>1, <2>1, PathIs
  <2>4. u = Append(p, q[n + 1])
    <3> DEFINE w == Append(p, q[n + 1])
    <3>1. w \in Path /\ Len(w) = n + 1 /\ (\A i \in 1..n : w[i] = p[i]) /\ w[n + 1] = q[n + 1]
      BY <1>1, <2>3, StepIs
    <3>2. \A i \in 1..n : q[i] = p[i]
      BY DEF Extends
    <3>3. \A i \in 1..(n + 1) : u[i] = w[i]
      BY <2>1, <2>2, <3>1, <3>2
    <3> QED
      BY <2>2, <3>1, <3>3, PathEqual
  <2>5. u \in Paths(lay)
    BY <2>1, Above
  <2>6. p \in Splits(lay)
    BY <1>1, <2>3, <2>4, <2>5, ChildIs
  <2> QED
    BY <2>6 DEF LeafPaths
<1> QED
  BY <1>2, <1>3

\* A leaf is found by its pane.
LEMMA FindIs ==
  ASSUME NEW lay, Tree(lay), NEW p \in LeafPaths(lay)
  PROVE  Find(lay, lay[p]) = p
<1>1. \A q \in LeafPaths(lay) : lay[q] = lay[p] => q = p
  BY TreePaths
<1> QED
  BY <1>1 DEF Find

\* A pane is found at a leaf.
LEMMA FindPane ==
  ASSUME NEW lay, Tree(lay), NEW x \in Panes(lay)
  PROVE  Find(lay, x) \in LeafPaths(lay) /\ lay[Find(lay, x)] = x /\ x \in Pane
<1>1. PICK p \in LeafPaths(lay) : lay[p] = x
  BY DEF Panes
<1> QED
  BY <1>1, FindIs, TreePaths

\* A layout that is not nil has a root; if that is a leaf it is all there is.
LEMMA RootIs ==
  ASSUME NEW lay, Tree(lay)
  PROVE  /\ lay = nil <=> Paths(lay) = {}
         /\ lay # nil => Root \in Paths(lay)
         /\ Root \in LeafPaths(lay) => Paths(lay) = {Root}
<1>1. lay = nil => Paths(lay) = {}
  BY DEF nil, Paths
<1>2. lay # nil => Root \in Paths(lay)
  BY DEF Tree, WellFormed
<1>3. ASSUME Root \in LeafPaths(lay) PROVE Paths(lay) = {Root}
  <2>1. Root \in Paths(lay)
    BY <1>3, TreePaths
  <2>2. ASSUME NEW q \in Paths(lay) PROVE q = Root
    <3>1. Extends(q, Root)
      <4>1. Len(Root) = 0 /\ Len(q) \in Nat
        BY TreePaths, PathIs, EmptySeq DEF Root
      <4> QED
        BY <4>1 DEF Extends
    <3> QED
      BY <1>3, <3>1, LeafEnds
  <2> QED
    BY <2>1, <2>2
<1> QED
  BY <1>1, <1>2, <1>3

\* Going first at every split leads to a pane.
LEMMA FirstWay ==
  ASSUME NEW lay, Tree(lay), lay # nil
  PROVE  \E p \in LeafPaths(lay) : \A i \in DOMAIN p : p[i] = 0
<1> DEFINE Z == {p \in Paths(lay) : \A i \in DOMAIN p : p[i] = 0}
<1>1. PICK n \in Nat : \A p \in Paths(lay) : Len(p) <= n
  BY DEF Tree
<1>2. \A p \in Z : p \in Path /\ Len(p) \in Nat /\ DOMAIN p = 1..Len(p)
  BY TreePaths, PathIs
<1> DEFINE T == {n - Len(p) : p \in Z}
<1>3. T \subseteq Nat /\ T # {}
  <2>1. Root \in Z
    BY RootIs DEF Root
  <2>2. \A p \in Z : n - Len(p) \in Nat
    BY <1>1, <1>2
  <2> QED
    BY <2>1, <2>2
<1>4. PICK x \in T : \A y \in T : ~(<<y, x>> \in OpToRel(<, Nat))
  <2> HIDE DEF T
  <2> QED
    BY <1>3, NatLessThanWellFounded, WFMin
<1>5. PICK p \in Z : x = n - Len(p)
  OBVIOUS
<1>6. ASSUME p \in Splits(lay) PROVE FALSE
  <2> DEFINE q == Append(p, 0)
  <2>1. /\ q \in Path /\ Len(q) = Len(p) + 1 /\ DOMAIN q = 1..(Len(p) + 1)
        /\ (\A i \in 1..Len(p) : q[i] = p[i]) /\ q[Len(p) + 1] = 0
    BY <1>2, StepIs, PathIs
  <2>2. q \in Paths(lay)
    BY <1>2, <1>6, ChildIs
  <2> HIDE DEF q
  <2>3. \A i \in 1..Len(p) : p[i] = 0
    BY <1>2
  <2>4. \A i \in 1..(Len(p) + 1) : q[i] = 0
    BY <1>2, <2>1, <2>3
  <2>5. q \in Z
    BY <2>1, <2>2, <2>4
  <2>6. n - Len(q) \in T /\ n - Len(q) < n - Len(p)
    BY <1>1, <1>2, <2>1, <2>5
  <2>7. n - Len(q) \in Nat /\ n - Len(p) \in Nat
    BY <1>3, <2>6
  <2> QED
    BY <1>4, <1>5, <2>6, <2>7 DEF OpToRel
<1>7. p \in LeafPaths(lay) /\ \A i \in DOMAIN p : p[i] = 0
  BY <1>6 DEF LeafPaths
<1> QED
  BY <1>7

\* FirstPane is such a pane.
LEMMA FirstIsPane ==
  ASSUME NEW lay, Tree(lay), lay # nil
  PROVE  FirstPane(lay) \in Panes(lay)
BY FirstWay DEF FirstPane, Panes

\* What is enough for a layout: its paths are closed and end, its nodes are what they should be.
LEMMA TreeIf ==
  ASSUME NEW lay, lay = [p \in Paths(lay) |-> lay[p]],
         Paths(lay) \subseteq Path, Root \in Paths(lay),
         \E n \in Nat : \A p \in Paths(lay) : Len(p) <= n,
         \A f \in Path, x \in {0, 1} :
           Append(f, x) \in Paths(lay) =>
             f \in Paths(lay) /\ First(f) \in Paths(lay) /\ Second(f) \in Paths(lay),
         \A p \in Splits(lay) : lay[p] \in Look,
         \A p \in LeafPaths(lay) : lay[p] \in Pane,
         \A p, q \in LeafPaths(lay) : lay[p] = lay[q] => p = q
  PROVE  Tree(lay)
<1>1. ASSUME NEW p \in Paths(lay), p # Root
      PROVE  /\ First(S!Front(p)) \in Paths(lay) /\ Second(S!Front(p)) \in Paths(lay)
             /\ S!Front(p) \in Paths(lay)
  <2>1. p \in Path
    OBVIOUS
  <2>2. S!Front(p) \in Path /\ S!Last(p) \in {0, 1} /\ p = Append(S!Front(p), S!Last(p))
    BY <1>1, <2>1, FrontIs
  <2>3. Append(S!Front(p), S!Last(p)) \in Paths(lay)
    BY <2>2
  <2> QED
    BY <2>2, <2>3
<1>2. \A p \in Paths(lay) : lay[p] \in IF p \in Splits(lay) THEN Look ELSE Pane
  BY DEF LeafPaths
<1>3. \A p \in Paths(lay) : p \in Seq({0, 1})
  BY DEF Path
<1>4. WellFormed(lay, Pane, Look)
  BY <1>1, <1>2, <1>3 DEF WellFormed
<1> QED
  BY <1>4 DEF Tree

\* The panes two layouts share are in the same order.
OrderKept(a, b) ==
  \A x, y \in Panes(a) \cap Panes(b) :
    Precedes(Find(a, x), Find(a, y)) <=> Precedes(Find(b, x), Find(b, y))

\* The layout with no pane.
LEMMA NilIs ==
  /\ Tree(nil) /\ Panes(nil) = {} /\ \A lay : OrderKept(lay, nil) /\ OrderKept(nil, lay)
<1>1. Paths(nil) = {}
  BY DEF Paths, nil
<1>2. nil = [p \in {} |-> nil[p]]
  BY DEF nil
<1>3. Panes(nil) = {}
  BY <1>1 DEF Panes, LeafPaths
<1>4. WellFormed(nil, Pane, Look)
  BY <1>1 DEF WellFormed, LeafPaths
<1> QED
  BY <1>1, <1>2, <1>3, <1>4 DEF Tree, OrderKept

\* The layout with one pane.
LEMMA LeafIs ==
  ASSUME NEW x \in Pane
  PROVE  Tree(Leaf(x)) /\ Leaf(x) # nil /\ Panes(Leaf(x)) = {x}
<1> DEFINE lay == Leaf(x)
<1>1. /\ lay = [p \in Paths(lay) |-> lay[p]] /\ Paths(lay) = {Root} /\ lay[Root] = x
  BY DEF Leaf, Paths
<1>2. Root \in Path /\ Len(Root) = 0
  BY EmptySeq DEF Path, Root
<1>3. \A f \in Path, y \in {0, 1} : Append(f, y) # Root
  BY StepIs
<1>4. Splits(lay) = {} /\ LeafPaths(lay) = {Root}
  BY <1>1, <1>2, <1>3 DEF Splits, LeafPaths, First
<1>5. lay # nil
  BY <1>1 DEF nil, Paths
<1>6. Panes(lay) = {x}
  BY <1>1, <1>4 DEF Panes
<1>7. \A f \in Path, y \in {0, 1} : Append(f, y) \notin Paths(lay)
  BY <1>1, <1>3
<1>8. \E n \in Nat : \A p \in Paths(lay) : Len(p) <= n
  <2> WITNESS 0 \in Nat
  <2> QED
    BY <1>1, <1>2
<1> HIDE DEF lay
<1>9. Tree(lay)
  BY <1>1, <1>2, <1>4, <1>7, <1>8, TreeIf
<1> QED
  BY <1>5, <1>6, <1>9 DEF lay

\* Another look of a split leaves the panes where they are.
LEMMA ResizeIs ==
  ASSUME NEW lay, Tree(lay), NEW at \in Splits(lay), NEW ratio \in Ratio
  PROVE  LET new == [lay EXCEPT ![at].ratio = ratio]
         IN  Tree(new) /\ new # nil /\ Panes(new) = Panes(lay) /\ OrderKept(lay, new)
<1> DEFINE new == [lay EXCEPT ![at].ratio = ratio]
<1>0. at \in Paths(lay) /\ lay[at] \in Look
  BY TreePaths
<1>1. /\ Paths(new) = Paths(lay)
      /\ new = [p \in Paths(lay) |-> new[p]]
      /\ \A p \in Paths(lay) : p # at => new[p] = lay[p]
      /\ new[at] = [lay[at] EXCEPT !.ratio = ratio]
  BY <1>0 DEF Tree, Paths
<1>2. new[at] \in Look
  BY <1>0, <1>1 DEF Look
<1> HIDE DEF new
<1>3. Splits(new) = Splits(lay) /\ LeafPaths(new) = LeafPaths(lay)
  BY <1>1 DEF Splits, LeafPaths
<1>4. \A p \in LeafPaths(lay) : new[p] = lay[p]
  BY <1>1 DEF LeafPaths
<1>5. new # nil /\ Root \in Paths(new)
  BY <1>0, <1>1, RootIs DEF nil, Paths
<1>6. Panes(new) = Panes(lay)
  BY <1>3, <1>4 DEF Panes
<1>7. Tree(new)
  <2>1. \A p \in Splits(new) : new[p] \in Look
    BY <1>1, <1>2, <1>3, TreePaths
  <2>2. /\ \A p \in LeafPaths(new) : new[p] \in Pane
        /\ \A p, q \in LeafPaths(new) : new[p] = new[q] => p = q
    BY <1>3, <1>4, TreePaths
  <2>3. \A f \in Path, x \in {0, 1} :
           Append(f, x) \in Paths(new) =>
             f \in Paths(new) /\ First(f) \in Paths(new) /\ Second(f) \in Paths(new)
    BY <1>1, ChildIs, TreePaths DEF First, Second
  <2>4. Paths(new) \subseteq Path /\ \E n \in Nat : \A p \in Paths(new) : Len(p) <= n
    BY <1>1, TreePaths DEF Tree
  <2> QED
    BY <1>1, <1>5, <2>1, <2>2, <2>3, <2>4, TreeIf
<1>8. OrderKept(lay, new)
  <2>1. \A p \in LeafPaths(lay) : Find(new, lay[p]) = p /\ Find(lay, lay[p]) = p
    BY <1>3, <1>4, <1>7, FindIs
  <2>2. \A x \in Panes(lay) : Find(new, x) = Find(lay, x)
    BY <2>1 DEF Panes
  <2> QED
    BY <2>2 DEF OrderKept
<1> QED
  BY <1>5, <1>6, <1>7, <1>8 DEF new

\* The same with lengths instead of domains.
LEMMA PrecedesIs ==
  ASSUME NEW p \in Path, NEW q \in Path
  PROVE  /\ Precedes(p, q) <=> \E i \in 1..Len(p) : i <= Len(q) /\ (\A j \in 1..(i - 1) : p[j] = q[j]) /\ p[i] < q[i]
         /\ ~Precedes(p, p)
<1>1. /\ Len(p) \in Nat /\ Len(q) \in Nat /\ DOMAIN p = 1..Len(p) /\ DOMAIN q = 1..Len(q)
      /\ \A i \in 1..Len(p) : p[i] \in {0, 1}
  BY PathIs
<1> QED
  BY <1>1 DEF Precedes

\* Where two paths lie to a third is told before the first two part.
LEMMA PrecedesAway ==
  ASSUME NEW c \in Path, NEW a \in Path, NEW b \in Path, NEW q \in Path,
         Extends(a, c), Extends(b, c), ~Extends(q, c)
  PROVE  /\ Precedes(a, q) => Precedes(b, q)
         /\ Precedes(q, a) => Precedes(q, b)
<1>1. Len(a) \in Nat /\ Len(b) \in Nat /\ Len(c) \in Nat /\ Len(q) \in Nat
  BY PathIs
<1>2. /\ Len(c) <= Len(a) /\ Len(c) <= Len(b)
      /\ \A i \in 1..Len(c) : a[i] = c[i] /\ b[i] = c[i]
  BY DEF Extends
<1>3. ASSUME NEW i \in 1..Len(q), i <= Len(a), \A j \in 1..(i - 1) : a[j] = q[j]
      PROVE  i <= Len(c)
  <2>1. ASSUME i > Len(c) PROVE FALSE
    <3>1. \A j \in 1..Len(c) : q[j] = c[j]
      BY <1>1, <1>2, <1>3, <2>1
    <3> QED
      BY <1>1, <2>1, <3>1 DEF Extends
  <2> QED
    BY <1>1, <2>1
<1>4. ASSUME Precedes(a, q) PROVE Precedes(b, q)
  <2>1. PICK i \in 1..Len(a) : i <= Len(q) /\ (\A j \in 1..(i - 1) : a[j] = q[j]) /\ a[i] < q[i]
    BY <1>4, PrecedesIs
  <2>2. i <= Len(c)
    BY <1>1, <1>3, <2>1
  <2>3. i \in 1..Len(b) /\ (\A j \in 1..(i - 1) : b[j] = q[j]) /\ b[i] < q[i]
    BY <1>1, <1>2, <2>1, <2>2
  <2> QED
    BY <2>1, <2>3, PrecedesIs
<1>5. ASSUME Precedes(q, a) PROVE Precedes(q, b)
  <2>1. PICK i \in 1..Len(q) : i <= Len(a) /\ (\A j \in 1..(i - 1) : q[j] = a[j]) /\ q[i] < a[i]
    BY <1>5, PrecedesIs
  <2>2. i <= Len(c)
    BY <1>1, <1>3, <2>1
  <2>3. i <= Len(b) /\ (\A j \in 1..(i - 1) : q[j] = b[j]) /\ q[i] < b[i]
    BY <1>1, <1>2, <2>1, <2>2
  <2> QED
    BY <2>1, <2>3, PrecedesIs
<1> QED
  BY <1>4, <1>5

\* One step further changes nothing for the paths that lead elsewhere.
LEMMA PrecedesChild ==
  ASSUME NEW p \in Path, NEW q \in Path, NEW x \in {0, 1}, ~Extends(q, p)
  PROVE  /\ Precedes(Append(p, x), q) <=> Precedes(p, q)
         /\ Precedes(q, Append(p, x)) <=> Precedes(q, p)
<1> DEFINE c == Append(p, x)
<1>1. c \in Path /\ Len(c) = Len(p) + 1 /\ \A i \in 1..Len(p) : c[i] = p[i]
  BY StepIs
<1>2. Len(p) \in Nat
  BY PathIs
<1> HIDE DEF c
<1>3. Extends(c, p) /\ Extends(p, p)
  BY <1>1, <1>2 DEF Extends
<1>4. (Precedes(c, q) <=> Precedes(p, q)) /\ (Precedes(q, c) <=> Precedes(q, p))
  BY <1>1, <1>3, PrecedesAway
<1> QED
  BY <1>4 DEF c

\* What Split makes of the leaf at a path, by its nodes.
SplitAt(new, lay, at, x, look, created) ==
  /\ at \in Path /\ at \in Paths(lay)
  /\ First(at) \in Path /\ Second(at) \in Path
  /\ First(at) \notin Paths(lay) /\ Second(at) \notin Paths(lay) /\ First(at) # Second(at)
  /\ Paths(new) = Paths(lay) \cup {First(at), Second(at)}
  /\ new = [p \in Paths(new) |-> new[p]]
  /\ new[at] = look /\ new[First(at)] = x /\ new[Second(at)] = created
  /\ \A p \in Paths(lay) : p # at => new[p] = lay[p]

\* That is what Split makes.
LEMMA SplitNodes ==
  ASSUME NEW lay, Tree(lay), NEW x \in Panes(lay), NEW look, NEW created
  PROVE  SplitAt(Split(lay, x, look, created), lay, Find(lay, x), x, look, created)
<1> DEFINE at == Find(lay, x)
           A == First(at)
           B == Second(at)
           new == Split(lay, x, look, created)
<1>1. at \in Paths(lay) /\ at \notin Splits(lay) /\ at \in Path
  BY FindPane, TreePaths DEF LeafPaths
<1>2. A \in Path /\ B \in Path /\ S!Last(A) = 0 /\ S!Last(B) = 1
  BY <1>1, StepIs DEF First, Second
<1>3. A \notin Paths(lay) /\ B \notin Paths(lay) /\ A # B
  BY <1>1, <1>2, ChildIs DEF First, Second
<1>4. new = [p \in Paths(lay) \cup {A, B} |->
               CASE p = at -> look [] p = A -> x [] p = B -> created [] OTHER -> lay[p]]
  BY DEF Split
<1>5. at # A /\ at # B
  BY <1>1, <1>3
<1> HIDE DEF at, A, B, new
<1>6. Paths(new) = Paths(lay) \cup {A, B} /\ new = [p \in Paths(new) |-> new[p]]
  BY <1>4 DEF Paths
<1>7. new[at] = look
  BY <1>1, <1>4, <1>5
<1>8. new[A] = x
  BY <1>3, <1>4, <1>5
<1>9. new[B] = created
  BY <1>3, <1>4, <1>5
<1>10. ASSUME NEW p \in Paths(lay), p # at PROVE new[p] = lay[p]
  BY <1>3, <1>4, <1>10
<1> QED
  BY <1>1, <1>2, <1>3, <1>6, <1>7, <1>8, <1>9, <1>10 DEF SplitAt, at, A, B, new

\* Split adds the created pane and rearranges no other.
LEMMA SplitIs ==
  ASSUME NEW lay, Tree(lay), NEW x \in Panes(lay), NEW look \in Look,
         NEW created \in Pane, created \notin Panes(lay)
  PROVE  LET new == Split(lay, x, look, created)
         IN  /\ Tree(new) /\ new # nil
             /\ Panes(new) = Panes(lay) \cup {created}
             /\ OrderKept(lay, new)
<1> DEFINE at == Find(lay, x)
           A == Append(at, 0)
           B == Append(at, 1)
           new == Split(lay, x, look, created)
<1>1. /\ at \in LeafPaths(lay) /\ at \in Paths(lay) /\ at \notin Splits(lay) /\ at \in Path
      /\ lay[at] = x /\ x \in Pane
  BY FindPane, TreePaths DEF LeafPaths
<1>2. /\ A \in Path /\ B \in Path /\ S!Last(A) = 0 /\ S!Last(B) = 1
      /\ S!Front(A) = at /\ S!Front(B) = at /\ A # Root /\ B # Root
      /\ Len(A) = Len(at) + 1 /\ Len(B) = Len(at) + 1 /\ Len(at) \in Nat
  BY <1>1, StepIs, PathIs
<1>3. A \notin Paths(lay) /\ B \notin Paths(lay) /\ A # B
  BY <1>1, <1>2, ChildIs
<1>4. /\ Paths(new) = Paths(lay) \cup {A, B}
      /\ new = [p \in Paths(new) |-> new[p]]
      /\ new[at] = look /\ new[A] = x /\ new[B] = created
      /\ \A p \in Paths(lay) : p # at => new[p] = lay[p]
  <2>1. SplitAt(new, lay, at, x, look, created)
    BY SplitNodes
  <2>2. First(at) = A /\ Second(at) = B
    BY DEF First, Second
  <2> HIDE DEF at, A, B, new
  <2> QED
    BY <2>1, <2>2 DEF SplitAt
<1> HIDE DEF at, A, B, new
<1>5. \A p \in Path, y \in {0, 1} : Append(p, y) \in {A, B} => p = at
  <2> TAKE p \in Path, y \in {0, 1}
  <2>1. S!Front(Append(p, y)) = p
    BY StepIs
  <2> QED
    BY <1>2, <2>1
<1>6. \A p \in {A, B}, y \in {0, 1} : Append(p, y) \notin Paths(new)
  <2> TAKE p \in {A, B}, y \in {0, 1}
  <2>1. p \in Path /\ p # at /\ p \notin Splits(lay)
    BY <1>2, <1>3, TreePaths
  <2>2. Append(p, y) \notin Paths(lay)
    BY <2>1, ChildIs
  <2> QED
    BY <1>4, <1>5, <2>1, <2>2
<1>7. First(at) = A /\ Second(at) = B
  BY DEF First, Second, A, B, at
<1>8. Splits(new) = Splits(lay) \cup {at}
  <2>1. \A p \in Paths(lay) : p # at => (First(p) \in Paths(new) <=> First(p) \in Paths(lay))
    <3> TAKE p \in Paths(lay)
    <3>1. p \in Path
      BY TreePaths
    <3> QED
      BY <1>4, <1>5, <3>1 DEF First
  <2>2. \A p \in {A, B} : First(p) \notin Paths(new)
    BY <1>6 DEF First
  <2> QED
    BY <1>1, <1>4, <1>7, <2>1, <2>2 DEF Splits
<1>9. LeafPaths(new) = (LeafPaths(lay) \ {at}) \cup {A, B}
  BY <1>1, <1>3, <1>4, <1>8, TreePaths DEF LeafPaths
<1>10. \A p \in LeafPaths(lay) : p # at => new[p] = lay[p] /\ lay[p] # x /\ lay[p] # created /\ lay[p] \in Pane
  <2>1. \A p \in LeafPaths(lay) : lay[p] \in Panes(lay)
    BY DEF Panes
  <2> QED
    BY <1>1, <1>4, <2>1, TreePaths
<1>11. Panes(new) = Panes(lay) \cup {created}
  BY <1>1, <1>4, <1>9, <1>10 DEF Panes
<1>12. x # created
  OBVIOUS
<1>13. new # nil /\ Root \in Paths(new)
  BY <1>1, <1>4, RootIs DEF nil, Paths
<1>14. Tree(new)
  <2>1. \A p \in Splits(new) : new[p] \in Look
    BY <1>1, <1>4, <1>8, TreePaths
  <2>2. /\ \A p \in LeafPaths(new) : new[p] \in Pane
        /\ \A p, q \in LeafPaths(new) : new[p] = new[q] => p = q
    BY <1>1, <1>4, <1>9, <1>10, <1>12, TreePaths
  <2>3. ASSUME NEW f \in Path, NEW y \in {0, 1}, Append(f, y) \in Paths(new)
        PROVE  f \in Paths(new) /\ First(f) \in Paths(new) /\ Second(f) \in Paths(new)
    <3>1. CASE Append(f, y) \in Paths(lay)
      <4>1. f \in Splits(lay) /\ f \in Paths(lay)
        BY <3>1, ChildIs, TreePaths
      <4>2. Append(f, 0) \in Paths(lay) /\ Append(f, 1) \in Paths(lay)
        BY <4>1, ChildIs
      <4> QED
        BY <1>4, <4>1, <4>2 DEF First, Second
    <3>2. CASE Append(f, y) \in {A, B}
      BY <1>1, <1>4, <1>5, <1>7, <3>2
    <3> QED
      BY <1>4, <2>3, <3>1, <3>2
  <2>4. Paths(new) \subseteq Path
    BY <1>2, <1>4, TreePaths
  <2>5. \E n \in Nat : \A p \in Paths(new) : Len(p) <= n
    <3>1. PICK n \in Nat : \A p \in Paths(lay) : Len(p) <= n
      BY DEF Tree
    <3>2. \A p \in Paths(new) : Len(p) <= n + 1
      <4> TAKE p \in Paths(new)
      <4>1. Len(p) \in Nat
        BY <2>4, PathIs
      <4>2. CASE p \in Paths(lay)
        BY <3>1, <4>1, <4>2
      <4>3. CASE p \in {A, B}
        BY <1>1, <1>2, <3>1, <4>3
      <4> QED
        BY <1>4, <4>2, <4>3
    <3>3. n + 1 \in Nat
      OBVIOUS
    <3> QED
      BY <3>2, <3>3
  <2> QED
    BY <1>4, <1>13, <2>1, <2>2, <2>3, <2>4, <2>5, TreeIf
<1>15. Find(new, x) = A /\ \A y \in Panes(lay) : y # x => Find(new, y) = Find(lay, y)
  <2>1. A \in LeafPaths(new)
    BY <1>9
  <2>2. Find(new, x) = A
    BY <1>4, <1>14, <2>1, FindIs
  <2>3. ASSUME NEW y \in Panes(lay), y # x PROVE Find(new, y) = Find(lay, y)
    <3>1. Find(lay, y) \in LeafPaths(lay) /\ lay[Find(lay, y)] = y
      BY FindPane
    <3>2. Find(lay, y) # at
      BY <1>1, <2>3, <3>1
    <3>3. Find(lay, y) \in LeafPaths(new) /\ new[Find(lay, y)] = y
      BY <1>9, <1>10, <3>1, <3>2
    <3> QED
      BY <1>14, <3>3, FindIs
  <2> QED
    BY <2>2, <2>3
<1>16. OrderKept(lay, new)
  <2>1. ASSUME NEW y \in Panes(lay), y # x
        PROVE  /\ Precedes(Find(new, x), Find(new, y)) <=> Precedes(at, Find(lay, y))
               /\ Precedes(Find(new, y), Find(new, x)) <=> Precedes(Find(lay, y), at)
    <3>1. Find(lay, y) \in LeafPaths(lay) /\ lay[Find(lay, y)] = y
      BY FindPane
    <3>2. Find(lay, y) # at /\ Find(lay, y) \in Path /\ Find(lay, y) \in Paths(lay)
      BY <1>1, <2>1, <3>1, TreePaths
    <3>3. ~Extends(Find(lay, y), at)
      BY <1>1, <3>2, LeafEnds
    <3> QED
      BY <1>1, <1>15, <2>1, <3>2, <3>3, PrecedesChild DEF A
  <2>2. ~Precedes(A, A) /\ ~Precedes(at, at)
    BY <1>1, <1>2, PrecedesIs
  <2>3. at = Find(lay, x)
    BY DEF at
  <2>4. ASSUME NEW y \in Panes(lay), NEW z \in Panes(lay)
        PROVE  Precedes(Find(lay, y), Find(lay, z)) <=> Precedes(Find(new, y), Find(new, z))
    <3>1. CASE y = x /\ z = x
      BY <1>15, <2>2, <2>3, <3>1
    <3>2. CASE y = x /\ z # x
      BY <2>1, <2>3, <3>2
    <3>3. CASE y # x /\ z = x
      BY <2>1, <2>3, <3>3
    <3>4. CASE y # x /\ z # x
      BY <1>15, <3>4
    <3> QED
      BY <3>1, <3>2, <3>3, <3>4
  <2> QED
    BY <1>11, <2>4 DEF OrderKept
<1> QED
  BY <1>11, <1>13, <1>14, <1>16 DEF new

(***************************************************************************)
(* Where a node was before a leaf was cut: what is at the parent of the    *)
(* leaf or below was one step to the side the sibling is on.               *)
(***************************************************************************)
Source(parent, side, p) ==
  IF Extends(p, parent)
  THEN [i \in 1..(Len(p) + 1) |->
          IF i <= Len(parent) THEN p[i] ELSE IF i = Len(parent) + 1 THEN side ELSE p[i - 1]]
  ELSE p

\* From d on, s is p one step later.
Shifted(s, p, d) == \A i \in (d + 1)..Len(p) : s[i + 1] = p[i]

\* s is p with a step to the side put in below the parent.
Inserted(s, p, parent, side) ==
  /\ Len(s) = Len(p) + 1
  /\ \A i \in 1..Len(parent) : s[i] = parent[i]
  /\ s[Len(parent) + 1] = side
  /\ Shifted(s, p, Len(parent))

\* What the source of a path is, by cases.
LEMMA SourceIs ==
  ASSUME NEW parent \in Path, NEW side \in {0, 1}, NEW p \in Path
  PROVE  LET s == Source(parent, side, p)
         IN  /\ s \in Path
             /\ ~Extends(p, parent) => s = p
             /\ Extends(p, parent) => Inserted(s, p, parent, side)
<1> DEFINE s == Source(parent, side, p)
           d == Len(parent)
<1>1. /\ d \in Nat /\ Len(p) \in Nat
      /\ \A i \in 1..Len(p) : p[i] \in {0, 1}
  <2>1. d \in Nat
    BY PathIs
  <2>2. Len(p) \in Nat /\ \A i \in 1..Len(p) : p[i] \in {0, 1}
    BY PathIs
  <2> QED
    BY <2>1, <2>2
<1>2. CASE ~Extends(p, parent)
  BY <1>2 DEF Source
<1>3. CASE Extends(p, parent)
  <2> DEFINE e(i) == IF i <= d THEN p[i] ELSE IF i = d + 1 THEN side ELSE p[i - 1]
  <2>0. d <= Len(p) /\ \A i \in 1..d : p[i] = parent[i]
    BY <1>3 DEF Extends
  <2>1. s = [i \in 1..(Len(p) + 1) |-> e(i)]
    BY <1>3 DEF Source
  <2>2. ASSUME NEW i \in 1..(Len(p) + 1) PROVE e(i) \in {0, 1}
    <3>1. CASE i <= d
      BY <1>1, <2>0, <3>1
    <3>2. CASE i = d + 1
      BY <1>1, <3>2
    <3>3. CASE i > d + 1
      <4>1. i - 1 \in 1..Len(p)
        BY <1>1, <3>3
      <4> QED
        BY <1>1, <3>3, <4>1
    <3> QED
      BY <1>1, <3>1, <3>2, <3>3
  <2>3. s \in [1..(Len(p) + 1) -> {0, 1}]
    BY <2>1, <2>2
  <2>4. s \in Path /\ Len(s) = Len(p) + 1
    <3>1. Len(p) + 1 \in Nat
      BY <1>1
    <3> QED
      BY <2>3, <3>1 DEF Path
  <2>5. \A i \in 1..d : s[i] = parent[i]
    BY <1>1, <2>0, <2>1
  <2>6. s[d + 1] = side
    BY <1>1, <2>0, <2>1
  <2>7. Shifted(s, p, d)
    BY <1>1, <2>0, <2>1 DEF Shifted
  <2> QED
    BY <1>3, <2>4, <2>5, <2>6, <2>7 DEF Inserted
<1> QED
  BY <1>2, <1>3

\* What was at or below the sibling comes to be at or below the parent.
LEMMA SourceExtends ==
  ASSUME NEW parent \in Path, NEW side \in {0, 1}, NEW p \in Path
  PROVE  /\ Extends(Source(parent, side, p), parent) <=> Extends(p, parent)
         /\ Extends(p, parent) =>
              Extends(Source(parent, side, p), Append(parent, side))
<1> DEFINE s == Source(parent, side, p)
           d == Len(parent)
           c == Append(parent, side)
<1>1. d \in Nat /\ Len(p) \in Nat
  BY PathIs
<1>2. Len(c) = d + 1 /\ (\A i \in 1..d : c[i] = parent[i]) /\ c[d + 1] = side
  BY StepIs
<1>3. CASE ~Extends(p, parent)
  BY <1>3, SourceIs
<1>4. CASE Extends(p, parent)
  <2>1. /\ Len(s) = Len(p) + 1
        /\ \A i \in 1..d : s[i] = parent[i]
        /\ s[d + 1] = side
    <3>1. s \in Path /\ Inserted(s, p, parent, side)
      BY <1>4, SourceIs
    <3> QED
      BY <3>1 DEF Inserted
  <2>2. d <= Len(p)
    BY <1>4 DEF Extends
  <2> HIDE DEF s, d, c
  <2>3. \A i \in 1..(d + 1) : s[i] = c[i]
    BY <1>1, <1>2, <2>1
  <2>4. Extends(s, parent) /\ Extends(s, c)
    BY <1>1, <1>2, <2>1, <2>2, <2>3 DEF Extends, d
  <2> QED
    BY <1>4, <2>4 DEF s, c
<1> QED
  BY <1>3, <1>4

\* Two nodes do not come from the same one.
LEMMA SourceInjective ==
  ASSUME NEW parent \in Path, NEW side \in {0, 1}, NEW p \in Path, NEW q \in Path,
         Source(parent, side, p) = Source(parent, side, q)
  PROVE  p = q
<1>1. Extends(p, parent) <=> Extends(q, parent)
  BY SourceExtends
<1>2. CASE ~Extends(p, parent)
  BY <1>1, <1>2, SourceIs
<1>3. CASE Extends(p, parent)
  <2> DEFINE s == Source(parent, side, p)
             d == Len(parent)
  <2>1. /\ Len(s) = Len(p) + 1 /\ Len(s) = Len(q) + 1
        /\ \A i \in (d + 1)..Len(p) : s[i + 1] = p[i]
        /\ \A i \in (d + 1)..Len(q) : s[i + 1] = q[i]
    <3>1. /\ Len(s) = Len(p) + 1
          /\ Shifted(s, p, d)
      <4>1. s \in Path /\ Inserted(s, p, parent, side)
        BY <1>3, SourceIs
      <4> QED
        BY <4>1 DEF Inserted
    <3> DEFINE v == Source(parent, side, q)
    <3>2. /\ Len(v) = Len(q) + 1
          /\ Shifted(v, q, d)
      <4>1. v \in Path /\ Inserted(v, q, parent, side)
        BY <1>1, <1>3, SourceIs
      <4> QED
        BY <4>1 DEF Inserted
    <3>3. v = s
      OBVIOUS
    <3> HIDE DEF v, s
    <3> QED
      BY <3>1, <3>2, <3>3 DEF Shifted
  <2>2. \A i \in 1..d : p[i] = parent[i] /\ q[i] = parent[i]
    BY <1>1, <1>3 DEF Extends
  <2>3. d \in Nat /\ Len(p) \in Nat /\ Len(q) \in Nat
    BY PathIs
  <2> HIDE DEF s, d
  <2>4. Len(p) = Len(q) /\ \A i \in 1..Len(p) : p[i] = q[i]
    BY <2>1, <2>2, <2>3
  <2> QED
    BY <2>4, PathEqual
<1> QED
  BY <1>2, <1>3

\* A node below the sibling and where it goes.
LEMMA LiftIs ==
  ASSUME NEW parent \in Path, NEW side \in {0, 1}, NEW q \in Path, Extends(q, Append(parent, side))
  PROVE  LET l == parent \o SubSeq(q, Len(Append(parent, side)) + 1, Len(q))
         IN  l \in Path /\ Extends(l, parent) /\ Source(parent, side, l) = q
<1> DEFINE d == Len(parent)
           c == Append(parent, side)
           r == SubSeq(q, Len(c) + 1, Len(q))
           l == parent \o r
           s == Source(parent, side, l)
<1>1. d \in Nat /\ Len(q) \in Nat /\ \A i \in 1..Len(q) : q[i] \in {0, 1}
  BY PathIs
<1>2. Len(c) = d + 1 /\ (\A i \in 1..d : c[i] = parent[i]) /\ c[d + 1] = side
  BY StepIs
<1>3. d + 1 <= Len(q) /\ (\A i \in 1..d : q[i] = parent[i]) /\ q[d + 1] = side
  <2>1. Len(c) <= Len(q) /\ \A i \in 1..Len(c) : q[i] = c[i]
    BY DEF Extends
  <2> HIDE DEF c
  <2> QED
    BY <1>1, <1>2, <2>1
<1>4. /\ r \in Path /\ Len(r) = Len(q) - d - 1
      /\ \A i \in 1..(Len(q) - d - 1) : r[i] = q[d + 1 + i]
  <2>1. d + 2 \in Int /\ Len(q) \in Int /\ \A i \in (d + 2)..Len(q) : q[i] \in {0, 1}
    BY <1>1
  <2>2. Len(c) + 1 = d + 2
    BY <1>1, <1>2
  <2>3. r = SubSeq(q, d + 2, Len(q))
    BY <2>2
  <2> HIDE DEF d, c, r
  <2>4. /\ r \in Path
        /\ Len(r) = IF d + 2 <= Len(q) THEN Len(q) - (d + 2) + 1 ELSE 0
        /\ \A i \in 1..(Len(q) - (d + 2) + 1) : r[i] = q[(d + 2) + i - 1]
    BY <2>1, <2>3, SubSeqProperties DEF Path
  <2> QED
    BY <1>1, <1>3, <2>4
<1>5. /\ l \in Path /\ Len(l) = d + Len(r)
      /\ \A i \in 1..(d + Len(r)) : l[i] = IF i <= d THEN parent[i] ELSE r[i - d]
  <2> HIDE DEF r
  <2> QED
    BY <1>4, ConcatProperties DEF Path
<1> HIDE DEF r, l
<1>6. /\ Len(l) = Len(q) - 1
      /\ \A i \in 1..d : l[i] = parent[i]
      /\ \A i \in (d + 1)..Len(l) : l[i] = q[i + 1]
  <2>1. Len(l) = Len(q) - 1 /\ Len(r) = Len(q) - 1 - d
    BY <1>1, <1>4, <1>5
  <2>2. \A i \in 1..d : l[i] = parent[i]
    BY <1>1, <1>3, <1>4, <1>5
  <2>3. ASSUME NEW i \in (d + 1)..Len(l) PROVE l[i] = q[i + 1]
    <3>1. i - d \in 1..(Len(q) - d - 1) /\ d + 1 + (i - d) = i + 1
      BY <1>1, <2>1
    <3>2. r[i - d] = q[i + 1]
      BY <1>4, <3>1
    <3>3. i \in 1..(d + Len(r)) /\ ~(i <= d)
      BY <1>1, <2>1
    <3> QED
      BY <1>5, <3>2, <3>3
  <2> QED
    BY <2>1, <2>2, <2>3
<1>7. Extends(l, parent)
  BY <1>1, <1>3, <1>6 DEF Extends
<1>8. /\ s \in Path /\ Len(s) = Len(l) + 1
      /\ \A i \in 1..d : s[i] = parent[i]
      /\ s[d + 1] = side
      /\ Shifted(s, l, d)
  <2>1. s \in Path /\ Inserted(s, l, parent, side)
    BY <1>5, <1>7, SourceIs
  <2> QED
    BY <2>1 DEF Inserted
<1> HIDE DEF s
<1>9. Len(s) = Len(q) /\ \A i \in 1..Len(s) : s[i] = q[i]
  <2>1. ASSUME NEW i \in 1..Len(s) PROVE s[i] = q[i]
    <3>1. CASE i <= d
      BY <1>1, <1>3, <1>8, <3>1
    <3>2. CASE i = d + 1
      BY <1>3, <1>8, <3>2
    <3>3. CASE i > d + 1
      <4>1. i - 1 \in (d + 1)..Len(l) /\ (i - 1) + 1 = i
        BY <1>1, <1>6, <1>8, <3>3
      <4>2. s[(i - 1) + 1] = l[i - 1] /\ l[i - 1] = q[(i - 1) + 1]
        BY <1>6, <1>8, <4>1 DEF Shifted
      <4> QED
        BY <4>1, <4>2
    <3> QED
      BY <1>1, <3>1, <3>2, <3>3
  <2> QED
    BY <1>1, <1>6, <1>8, <2>1
<1>10. s = q
  BY <1>8, <1>9, PathEqual
<1> QED
  BY <1>5, <1>7, <1>10 DEF l, r, s

\* The step below the sibling leads where the code takes the rest of a path from.
LEMMA SourceAsConcat ==
  ASSUME NEW parent \in Path, NEW side \in {0, 1}, NEW p \in Path, Extends(p, parent)
  PROVE  Append(parent, side) \o SubSeq(p, Len(parent) + 1, Len(p)) = Source(parent, side, p)
<1> DEFINE d == Len(parent)
           c == Append(parent, side)
           r == SubSeq(p, d + 1, Len(p))
           l == c \o r
           s == Source(parent, side, p)
<1>1. d \in Nat /\ Len(p) \in Nat /\ \A i \in 1..Len(p) : p[i] \in {0, 1}
  BY PathIs
<1>2. c \in Path /\ Len(c) = d + 1 /\ (\A i \in 1..d : c[i] = parent[i]) /\ c[d + 1] = side
  BY StepIs
<1>3. d <= Len(p)
  BY DEF Extends
<1>4. /\ s \in Path /\ Len(s) = Len(p) + 1
      /\ \A i \in 1..d : s[i] = parent[i]
      /\ s[d + 1] = side
      /\ Shifted(s, p, d)
  <2>1. s \in Path /\ Inserted(s, p, parent, side)
    BY SourceIs
  <2> QED
    BY <2>1 DEF Inserted
<1> HIDE DEF d, c, r, l, s
<1>5. r \in Path /\ Len(r) = Len(p) - d /\ \A i \in 1..(Len(p) - d) : r[i] = p[d + i]
  <2>1. d + 1 \in Int /\ Len(p) \in Int /\ \A i \in (d + 1)..Len(p) : p[i] \in {0, 1}
    BY <1>1
  <2>2. /\ r \in Path
        /\ Len(r) = IF d + 1 <= Len(p) THEN Len(p) - (d + 1) + 1 ELSE 0
        /\ \A i \in 1..(Len(p) - (d + 1) + 1) : r[i] = p[(d + 1) + i - 1]
    BY <2>1, SubSeqProperties DEF Path, r
  <2> QED
    BY <1>1, <1>3, <2>2
<1>6. /\ l \in Path /\ Len(l) = Len(c) + Len(r)
      /\ \A i \in 1..(Len(c) + Len(r)) : l[i] = IF i <= Len(c) THEN c[i] ELSE r[i - Len(c)]
  BY <1>2, <1>5, ConcatProperties DEF Path, l
<1>7. Len(l) = Len(s)
  BY <1>1, <1>2, <1>4, <1>5, <1>6
<1>8. ASSUME NEW i \in 1..Len(s) PROVE l[i] = s[i]
  <2>1. CASE i <= d
    <3>1. i \in 1..d /\ i \in 1..(Len(c) + Len(r)) /\ i <= Len(c)
      BY <1>1, <1>2, <1>4, <1>6, <1>7, <2>1
    <3> QED
      BY <1>2, <1>4, <1>6, <3>1
  <2>2. CASE i = d + 1
    BY <1>1, <1>2, <1>3, <1>4, <1>5, <1>6, <2>2
  <2>3. CASE i > d + 1
    <3>1. i - 1 \in (d + 1)..Len(p) /\ (i - 1) + 1 = i
      BY <1>1, <1>4, <2>3
    <3>2. s[(i - 1) + 1] = p[i - 1]
      BY <1>4, <3>1 DEF Shifted
    <3>3. i - Len(c) \in 1..(Len(p) - d) /\ d + (i - Len(c)) = i - 1
      BY <1>1, <1>2, <1>4, <2>3
    <3>4. r[i - Len(c)] = p[i - 1]
      BY <1>5, <3>3
    <3>5. l[i] = r[i - Len(c)]
      BY <1>1, <1>2, <1>6, <1>7, <2>3
    <3> QED
      BY <3>1, <3>2, <3>4, <3>5
  <2> QED
    BY <1>1, <2>1, <2>2, <2>3
<1>9. l = s
  BY <1>4, <1>6, <1>7, <1>8, PathEqual
<1> QED
  BY <1>9 DEF l, c, r, s, d

\* What a path one step further extends.
LEMMA ExtendsStep ==
  ASSUME NEW p \in Path, NEW q \in Path, NEW x \in {0, 1}
  PROVE  Extends(Append(p, x), q) <=> Extends(p, q) \/ q = Append(p, x)
<1> DEFINE c == Append(p, x)
<1>1. c \in Path /\ Len(c) = Len(p) + 1 /\ \A i \in 1..Len(p) : c[i] = p[i]
  BY StepIs
<1>2. Len(p) \in Nat /\ Len(q) \in Nat
  BY PathIs
<1> HIDE DEF c
<1>3. ASSUME Extends(p, q) PROVE Extends(c, q)
  BY <1>1, <1>2, <1>3 DEF Extends
<1>4. ASSUME q = c PROVE Extends(c, q)
  BY <1>1, <1>2, <1>4 DEF Extends
<1>5. ASSUME Extends(c, q), ~Extends(p, q) PROVE q = c
  <2>1. Len(q) = Len(c)
    BY <1>1, <1>2, <1>5 DEF Extends
  <2>2. \A i \in 1..Len(q) : q[i] = c[i]
    BY <1>5 DEF Extends
  <2> QED
    BY <1>1, <2>1, <2>2, PathEqual
<1> QED
  BY <1>3, <1>4, <1>5 DEF c

\* Append, where the steps of a path do not matter.
Child(path, x) == Append(path, x)

\* Source goes along with a step, but for the step to the parent.
LEMMA SourceStep ==
  ASSUME NEW parent \in Path, NEW side \in {0, 1}, NEW p \in Path, NEW x \in {0, 1}
  PROVE  /\ Child(p, x) = parent => Source(parent, side, Child(p, x)) = Child(parent, side)
         /\ Child(p, x) # parent => Source(parent, side, Child(p, x)) = Child(Source(parent, side, p), x)
<1> USE DEF Child
<1> DEFINE c == Append(p, x)
           d == Len(parent)
           s == Source(parent, side, p)
           t == Source(parent, side, c)
<1>1. c \in Path /\ Len(c) = Len(p) + 1 /\ (\A i \in 1..Len(p) : c[i] = p[i]) /\ c[Len(p) + 1] = x
  BY StepIs
<1>2. d \in Nat /\ Len(p) \in Nat
  BY PathIs
<1>3. CASE c = parent
  <2>1. Extends(c, parent)
    <3>1. Extends(parent, parent)
      BY <1>2 DEF Extends
    <3> QED
      BY <1>3, <3>1
  <2>2. /\ t \in Path /\ Len(t) = Len(c) + 1
        /\ \A i \in 1..d : t[i] = parent[i]
        /\ t[d + 1] = side
    <3>1. t \in Path /\ Inserted(t, c, parent, side)
      BY <1>1, <2>1, SourceIs
    <3> QED
      BY <3>1 DEF Inserted
  <2> DEFINE w == Append(parent, side)
  <2>3. w \in Path /\ Len(w) = d + 1 /\ (\A i \in 1..d : w[i] = parent[i]) /\ w[d + 1] = side
    BY StepIs
  <2>4. d = Len(c)
    BY <1>3
  <2> HIDE DEF c, d, t, w
  <2>5. \A i \in 1..Len(t) : t[i] = w[i]
    BY <1>2, <2>2, <2>3, <2>4
  <2>6. t = w
    BY <2>2, <2>3, <2>4, <2>5, PathEqual
  <2> QED
    BY <1>3, <2>6 DEF c, t, w
<1>4. CASE c # parent /\ ~Extends(p, parent)
  <2>1. ~Extends(c, parent)
    BY <1>4, ExtendsStep
  <2>2. t = c /\ s = p
    BY <1>1, <1>4, <2>1, SourceIs
  <2> QED
    BY <1>4, <2>2
<1>5. CASE c # parent /\ Extends(p, parent)
  <2>1. Extends(c, parent)
    BY <1>5, ExtendsStep
  <2>2. /\ t \in Path /\ Len(t) = Len(c) + 1
        /\ \A i \in 1..d : t[i] = parent[i]
        /\ t[d + 1] = side
        /\ Shifted(t, c, d)
    <3>1. t \in Path /\ Inserted(t, c, parent, side)
      BY <1>1, <2>1, SourceIs
    <3> QED
      BY <3>1 DEF Inserted
  <2>3. /\ s \in Path /\ Len(s) = Len(p) + 1
        /\ \A i \in 1..d : s[i] = parent[i]
        /\ s[d + 1] = side
        /\ Shifted(s, p, d)
    <3>1. s \in Path /\ Inserted(s, p, parent, side)
      BY <1>5, SourceIs
    <3> QED
      BY <3>1 DEF Inserted
  <2>4. d <= Len(p)
    BY <1>5 DEF Extends
  <2> DEFINE w == Append(s, x)
  <2>5. w \in Path /\ Len(w) = Len(s) + 1 /\ (\A i \in 1..Len(s) : w[i] = s[i]) /\ w[Len(s) + 1] = x
    BY <2>3, StepIs
  <2> HIDE DEF c, d, s, t, w
  <2>6. ASSUME NEW i \in 1..Len(t) PROVE t[i] = w[i]
    <3>1. CASE i <= d + 1
      <4>1. i \in 1..Len(s) /\ (i \in 1..d \/ i = d + 1)
        BY <1>2, <2>2, <2>3, <2>4, <3>1
      <4> QED
        BY <2>2, <2>3, <2>5, <4>1
    <3>2. CASE i > d + 1
      <4>1. i - 1 \in (d + 1)..Len(c) /\ (i - 1) + 1 = i
        BY <1>1, <1>2, <2>2, <3>2
      <4>2. t[i] = c[i - 1]
        BY <2>2, <4>1 DEF Shifted
      <4>3. CASE i = Len(p) + 2
        BY <1>1, <1>2, <2>3, <2>5, <4>2, <4>3
      <4>4. CASE i # Len(p) + 2
        <5>1. i - 1 \in (d + 1)..Len(p) /\ i \in 1..Len(s) /\ i - 1 \in 1..Len(p)
          BY <1>1, <1>2, <2>2, <2>3, <3>2, <4>4
        <5>2. s[(i - 1) + 1] = p[i - 1]
          BY <2>3, <5>1 DEF Shifted
        <5> QED
          BY <1>1, <2>5, <4>1, <4>2, <5>1, <5>2
      <4> QED
        BY <4>3, <4>4
    <3> QED
      BY <1>2, <3>1, <3>2
  <2>7. Len(t) = Len(w)
    BY <1>1, <1>2, <2>2, <2>3, <2>5
  <2>8. t = w
    BY <2>2, <2>5, <2>6, <2>7, PathEqual
  <2> QED
    BY <1>5, <2>8 DEF w, t, s, c
<1> QED
  BY <1>3, <1>4, <1>5

\* Every node but the parent and those at the leaf comes from somewhere.
LEMMA SourceOnto ==
  ASSUME NEW parent \in Path, NEW side \in {0, 1}, NEW q \in Path,
         q # parent, ~Extends(q, Append(parent, 1 - side))
  PROVE  \E p \in Path : Source(parent, side, p) = q
<1>1. CASE ~Extends(q, parent)
  BY <1>1, SourceIs
<1>2. CASE Extends(q, parent)
  <2> DEFINE d == Len(parent)
             o == 1 - side
             a == Append(parent, o)
             b == Append(parent, side)
  <2>1. d \in Nat /\ Len(q) \in Nat
    BY PathIs
  <2>2. o \in {0, 1}
    OBVIOUS
  <2>3. a \in Path /\ Len(a) = d + 1 /\ (\A i \in 1..d : a[i] = parent[i]) /\ a[d + 1] = o
    BY <2>2, StepIs
  <2>4. b \in Path /\ Len(b) = d + 1 /\ (\A i \in 1..d : b[i] = parent[i]) /\ b[d + 1] = side
    BY StepIs
  <2>5. d <= Len(q) /\ \A i \in 1..d : q[i] = parent[i]
    BY <1>2 DEF Extends
  <2>6. ~Extends(q, a)
    OBVIOUS
  <2> HIDE DEF d, a, b
  <2>7. d # Len(q)
    BY <2>5, PathEqual DEF d
  <2>8. q[d + 1] \in {0, 1}
    BY <2>1, <2>5, <2>7, PathIs
  <2>9. q[d + 1] # o
    <3>1. ASSUME q[d + 1] = o PROVE \A i \in 1..Len(a) : q[i] = a[i]
      BY <2>1, <2>3, <2>5, <3>1
    <3> QED
      BY <2>1, <2>3, <2>5, <2>6, <2>7, <3>1 DEF Extends
  <2>10. q[d + 1] = side
    BY <2>8, <2>9
  <2>11. Extends(q, b)
    BY <2>1, <2>4, <2>5, <2>7, <2>10 DEF Extends
  <2> QED
    BY <2>11, LiftIs DEF b
<1> QED
  BY <1>1, <1>2

\* Source keeps what comes before what.
LEMMA SourceOrder ==
  ASSUME NEW parent \in Path, NEW side \in {0, 1}, NEW p \in Path, NEW q \in Path
  PROVE  Precedes(p, q) <=> Precedes(Source(parent, side, p), Source(parent, side, q))
<1> DEFINE d == Len(parent)
           s == Source(parent, side, p)
           t == Source(parent, side, q)
<1>1. d \in Nat /\ Len(p) \in Nat /\ Len(q) \in Nat
  BY PathIs
<1>2. s \in Path /\ t \in Path
  BY SourceIs
<1>3. CASE ~Extends(p, parent) /\ ~Extends(q, parent)
  BY <1>3, SourceIs
<1>4. CASE Extends(p, parent) /\ ~Extends(q, parent)
  <2>1. t = q /\ Extends(s, parent)
    BY <1>4, SourceIs, SourceExtends
  <2> HIDE DEF s, t
  <2>2. (Precedes(p, q) => Precedes(s, q)) /\ (Precedes(s, q) => Precedes(p, q))
    BY <1>2, <1>4, <2>1, PrecedesAway
  <2> QED
    BY <2>1, <2>2 DEF s, t
<1>5. CASE ~Extends(p, parent) /\ Extends(q, parent)
  <2>1. s = p /\ Extends(t, parent)
    BY <1>5, SourceIs, SourceExtends
  <2> HIDE DEF s, t
  <2>2. (Precedes(p, q) => Precedes(p, t)) /\ (Precedes(p, t) => Precedes(p, q))
    BY <1>2, <1>5, <2>1, PrecedesAway
  <2> QED
    BY <2>1, <2>2 DEF s, t
<1>6. CASE Extends(p, parent) /\ Extends(q, parent)
  <2>1. Inserted(s, p, parent, side) /\ Inserted(t, q, parent, side)
    BY <1>6, SourceIs
  <2> HIDE DEF s, t
  <2>2. /\ Len(s) = Len(p) + 1 /\ Len(t) = Len(q) + 1
        /\ \A i \in 1..d : s[i] = parent[i] /\ t[i] = parent[i]
        /\ s[d + 1] = side /\ t[d + 1] = side
        /\ Shifted(s, p, d) /\ Shifted(t, q, d)
    BY <2>1 DEF Inserted
  <2>3. /\ d <= Len(p) /\ d <= Len(q)
        /\ \A i \in 1..d : p[i] = parent[i] /\ q[i] = parent[i]
    BY <1>6 DEF Extends
  <2> HIDE DEF d
  <2>4. ASSUME Precedes(p, q) PROVE Precedes(s, t)
    <3>1. PICK i \in 1..Len(p) : i <= Len(q) /\ (\A j \in 1..(i - 1) : p[j] = q[j]) /\ p[i] < q[i]
      BY <2>4, PrecedesIs
    <3>2. p[i] \in Nat
      BY PathIs
    <3>3. i > d
      BY <1>1, <2>3, <3>1, <3>2
    <3>4. i \in (d + 1)..Len(p) /\ i \in (d + 1)..Len(q)
      BY <1>1, <3>1, <3>3
    <3>5. s[i + 1] < t[i + 1]
      BY <2>2, <3>1, <3>4 DEF Shifted
    <3>6. ASSUME NEW j \in 1..i PROVE s[j] = t[j]
      <4>1. CASE j <= d + 1
        BY <1>1, <2>2, <4>1
      <4>2. CASE j > d + 1
        <5>1. j - 1 \in (d + 1)..Len(p) /\ j - 1 \in (d + 1)..Len(q) /\ (j - 1) + 1 = j /\ j - 1 \in 1..(i - 1)
          BY <1>1, <3>1, <4>2
        <5>2. s[(j - 1) + 1] = p[j - 1] /\ t[(j - 1) + 1] = q[j - 1]
          BY <2>2, <5>1 DEF Shifted
        <5> QED
          BY <3>1, <5>1, <5>2
      <4> QED
        BY <1>1, <4>1, <4>2
    <3>7. i + 1 \in 1..Len(s) /\ i + 1 <= Len(t) /\ (i + 1) - 1 = i
      BY <1>1, <2>2, <3>1
    <3> QED
      BY <1>2, <3>5, <3>6, <3>7, PrecedesIs
  <2>5. ASSUME Precedes(s, t) PROVE Precedes(p, q)
    <3>1. PICK i \in 1..Len(s) : i <= Len(t) /\ (\A j \in 1..(i - 1) : s[j] = t[j]) /\ s[i] < t[i]
      BY <1>2, <2>5, PrecedesIs
    <3>2. s[i] \in Nat
      BY <1>2, PathIs
    <3>3. i > d + 1
      BY <1>1, <2>2, <3>1, <3>2
    <3>4. i - 1 \in (d + 1)..Len(p) /\ i - 1 \in (d + 1)..Len(q) /\ (i - 1) + 1 = i
      BY <1>1, <2>2, <3>1, <3>3
    <3>5. s[(i - 1) + 1] = p[i - 1] /\ t[(i - 1) + 1] = q[i - 1]
      BY <2>2, <3>4 DEF Shifted
    <3>6. p[i - 1] < q[i - 1]
      BY <3>1, <3>4, <3>5
    <3>7. ASSUME NEW j \in 1..((i - 1) - 1) PROVE p[j] = q[j]
      <4>1. CASE j <= d
        BY <1>1, <2>3, <4>1
      <4>2. CASE j > d
        <5>1. j \in (d + 1)..Len(p) /\ j \in (d + 1)..Len(q) /\ j + 1 \in 1..(i - 1)
          BY <1>1, <3>4, <4>2
        <5>2. s[j + 1] = p[j] /\ t[j + 1] = q[j]
          BY <2>2, <5>1 DEF Shifted
        <5> QED
          BY <3>1, <5>1, <5>2
      <4> QED
        BY <1>1, <4>1, <4>2
    <3>8. i - 1 \in 1..Len(p) /\ i - 1 <= Len(q)
      BY <1>1, <3>4
    <3> QED
      BY <3>6, <3>7, <3>8, PrecedesIs
  <2> QED
    BY <2>4, <2>5 DEF s, t
<1> QED
  BY <1>3, <1>4, <1>5, <1>6

\* What the layout without a leaf has at each path.
LEMMA CutIs ==
  ASSUME NEW lay, Paths(lay) \subseteq Path, NEW at \in Path, at # Root
  PROVE  LET parent == S!Front(at)
             side == 1 - S!Last(at)
             new == Cut(lay, at)
         IN  /\ Paths(new) = {p \in Path : Source(parent, side, p) \in Paths(lay)}
             /\ new = [p \in Paths(new) |-> lay[Source(parent, side, p)]]
<1> DEFINE parent == S!Front(at)
           side == 1 - S!Last(at)
           sibling == Append(parent, side)
           new == Cut(lay, at)
           src(p) == Source(parent, side, p)
           kept == {p \in Paths(lay) : ~S!IsPrefix(parent, p)}
           lift(p) == parent \o SubSeq(p, Len(sibling) + 1, Len(p))
           below == {q \in Paths(lay) : S!IsPrefix(sibling, q)}
           lifted == {lift(p) : p \in below}
           D == {p \in Path : src(p) \in Paths(lay)}
<1>1. parent \in Path /\ side \in {0, 1}
  BY FrontIs
<1>2. sibling \in Path
  BY <1>1, StepIs
<1>3. new = [p \in kept \cup lifted |->
               IF p \in kept THEN lay[p]
               ELSE lay[sibling \o SubSeq(p, Len(parent) + 1, Len(p))]]
  BY DEF Cut
<1> HIDE DEF parent, side, new
<1>4. kept = {p \in Paths(lay) : ~Extends(p, parent)}
  BY <1>1, PrefixIs
<1>5. below = {p \in Paths(lay) : Extends(p, sibling)}
  BY <1>2, PrefixIs
<1>6. \A p \in below : lift(p) \in Path /\ Extends(lift(p), parent) /\ src(lift(p)) = p
  BY <1>1, <1>5, LiftIs
<1>7. ASSUME NEW p \in D, Extends(p, parent)
      PROVE  p \in lifted /\ sibling \o SubSeq(p, Len(parent) + 1, Len(p)) = src(p)
  <2>1. src(p) \in below
    BY <1>1, <1>5, <1>7, SourceExtends
  <2>2. lift(src(p)) \in Path /\ src(lift(src(p))) = src(p)
    BY <1>6, <2>1
  <2> HIDE DEF lift
  <2>3. lift(src(p)) = p
    BY <1>1, <2>2, SourceInjective
  <2>4. p \in lifted
    BY <2>1, <2>3
  <2> QED
    BY <1>1, <1>7, <2>4, SourceAsConcat
<1>8. ASSUME NEW p \in Path, ~Extends(p, parent) PROVE src(p) = p
  BY <1>1, <1>8, SourceIs
<1>9. kept \cup lifted = D
  <2>1. kept \subseteq D
    BY <1>4, <1>8
  <2>2. lifted \subseteq D
    <3>1. ASSUME NEW p \in below PROVE lift(p) \in D
      <4>1. p \in Paths(lay) /\ lift(p) \in Path /\ src(lift(p)) = p
        BY <1>6
      <4> HIDE DEF lift, src, below
      <4> QED
        BY <4>1
    <3> HIDE DEF lift, src, below, D
    <3> QED
      BY <3>1
  <2>3. ASSUME NEW p \in D, ~Extends(p, parent) PROVE p \in kept
    BY <1>4, <1>8, <2>3
  <2> HIDE DEF kept, lifted, D
  <2> QED
    BY <1>7, <2>1, <2>2, <2>3
<1>10. ASSUME NEW p \in D
       PROVE  (IF p \in kept THEN lay[p] ELSE lay[sibling \o SubSeq(p, Len(parent) + 1, Len(p))])
                = lay[src(p)]
  <2>1. CASE p \in kept
    BY <1>4, <1>8, <2>1
  <2>2. CASE p \notin kept
    <3>1. Extends(p, parent)
      BY <1>4, <1>8, <2>2
    <3> QED
      BY <1>7, <2>2, <3>1
  <2> QED
    BY <2>1, <2>2
<1> HIDE DEF kept, lifted
<1>11. new = [p \in D |-> lay[src(p)]]
  BY <1>3, <1>9, <1>10
<1>12. Paths(new) = D
  BY <1>11 DEF Paths
<1> QED
  BY <1>11, <1>12 DEF new, parent, side

\* A pane leaves: the others stay, in their order.
LEMMA RemoveIs ==
  ASSUME NEW lay, Tree(lay), NEW x \in Panes(lay)
  PROVE  LET new == Remove(lay, x)
         IN  /\ Tree(new) /\ OrderKept(lay, new)
             /\ Panes(new) = Panes(lay) \ {x}
<1> DEFINE at == Find(lay, x)
           new == Remove(lay, x)
           parent == S!Front(at)
           other == S!Last(at)
           side == 1 - other
           src(p) == Source(parent, side, p)
<1>1. /\ at \in LeafPaths(lay) /\ at \in Paths(lay) /\ at \notin Splits(lay) /\ at \in Path
      /\ lay[at] = x /\ new = Cut(lay, at)
  BY FindPane, TreePaths DEF LeafPaths, Remove
<1>2. CASE at = Root
  <2>1. new = nil
    BY <1>1, <1>2 DEF Cut
  <2>2. Paths(lay) = {Root} /\ LeafPaths(lay) \subseteq Paths(lay)
    BY <1>1, <1>2, RootIs, TreePaths
  <2>3. LeafPaths(lay) = {at}
    BY <1>1, <1>2, <2>2
  <2>4. Panes(lay) = {x}
    BY <1>1, <2>3 DEF Panes
  <2> HIDE DEF new
  <2> QED
    BY <2>1, <2>4, NilIs DEF new
<1>3. CASE at # Root
  <2>1. /\ parent \in Path /\ other \in {0, 1} /\ side \in {0, 1} /\ other = 1 - side
        /\ at = Append(parent, other)
    BY <1>1, <1>3, FrontIs
  <2>2. /\ Paths(new) = {p \in Path : src(p) \in Paths(lay)}
        /\ new = [p \in Paths(new) |-> lay[src(p)]]
    BY <1>1, <1>3, TreePaths, CutIs
  <2> HIDE DEF at, new, parent, other, side
  <2>3. parent \in Splits(lay) /\ Append(parent, side) \in Paths(lay)
    BY <1>1, <2>1, ChildIs
  <2>4. \A p \in Path : src(p) \in Path
    BY <2>1, SourceIs
  <2>5. ASSUME NEW p \in Path, NEW y \in {0, 1}
        PROVE  Append(p, y) \in Paths(new) <=> src(p) \in Splits(lay)
    <3>1. Append(p, y) \in Path
      BY StepIs
    <3>2. CASE Append(p, y) = parent
      <4>1. src(Append(p, y)) = Append(parent, side)
        <5>1. Child(p, y) = parent
          BY <3>2, Zenon DEF Child
        <5>2. src(Child(p, y)) = Child(parent, side)
          BY <2>1, <5>1, SourceStep
        <5> QED
          BY <5>2, Zenon DEF Child
      <4>2. ~Extends(p, parent)
        <5>1. Len(parent) = Len(p) + 1 /\ Len(p) \in Nat
          BY <3>2, StepIs, PathIs
        <5> QED
          BY <5>1 DEF Extends
      <4>3. src(p) = p
        BY <2>1, <4>2, SourceIs
      <4>4. p \in Splits(lay)
        BY <2>3, <3>2, ChildIs, TreePaths
      <4> QED
        BY <2>2, <2>3, <3>1, <4>1, <4>3, <4>4
    <3>3. CASE Append(p, y) # parent
      <4>1. src(Append(p, y)) = Append(src(p), y)
        <5>1. Child(p, y) # parent
          BY <3>3 DEF Child
        <5>2. src(Child(p, y)) = Child(src(p), y)
          BY <2>1, <5>1, SourceStep
        <5> QED
          BY <5>2, Zenon DEF Child
      <4>2. Append(src(p), y) \in Paths(lay) <=> src(p) \in Splits(lay)
        BY <2>4, ChildIs
      <4> HIDE DEF src
      <4> QED
        BY <2>2, <3>1, <4>1, <4>2
    <3> QED
      BY <3>2, <3>3
  <2>6. \A p \in Path :
          /\ p \in Splits(new) <=> src(p) \in Splits(lay)
          /\ p \in LeafPaths(new) <=> src(p) \in LeafPaths(lay)
          /\ p \in Paths(new) <=> src(p) \in Paths(lay)
    <3> TAKE p \in Path
    <3>1. First(p) \in Paths(new) <=> src(p) \in Splits(lay)
      BY <2>5 DEF First
    <3>2. Splits(lay) \subseteq Paths(lay)
      BY TreePaths
    <3> HIDE DEF src
    <3>3. p \in Paths(new) <=> src(p) \in Paths(lay)
      BY <2>2
    <3>4. p \in Splits(new) <=> src(p) \in Splits(lay)
      BY <3>1, <3>2, <3>3 DEF Splits
    <3> QED
      BY <3>3, <3>4 DEF LeafPaths
  <2>7. Paths(new) \subseteq Path /\ \A p \in Paths(new) : new[p] = lay[src(p)]
    BY <2>2
  <2>8. /\ Splits(new) \subseteq Path /\ LeafPaths(new) \subseteq Path
        /\ Splits(new) \subseteq Paths(new) /\ LeafPaths(new) \subseteq Paths(new)
    BY <2>7 DEF Splits, LeafPaths
  <2>9. Root \in Paths(new)
    <3>0. Root \in Path /\ Len(Root) = 0
      BY EmptySeq DEF Path, Root
    <3>1. CASE Extends(Root, parent)
      <4>1. Len(parent) = 0
        BY <2>1, <3>0, <3>1, PathIs DEF Extends
      <4>2. parent = Root
        BY <2>1, <3>0, <4>1, PathEqual
      <4>3. Inserted(src(Root), Root, parent, side) /\ src(Root) \in Path
        BY <2>1, <3>0, <3>1, SourceIs
      <4> DEFINE w == Append(parent, side)
      <4>4. w \in Path /\ Len(w) = 0 + 1 /\ w[0 + 1] = side
        BY <2>1, <4>1, StepIs
      <4> HIDE DEF src, w
      <4>5. Len(src(Root)) = 1 /\ src(Root)[1] = side
        BY <3>0, <4>1, <4>3 DEF Inserted
      <4>6. src(Root) = w
        BY <4>3, <4>4, <4>5, PathEqual
      <4> QED
        BY <2>3, <2>6, <3>0, <4>6 DEF w
    <3>2. CASE ~Extends(Root, parent)
      <4>1. src(Root) = Root
        BY <2>1, <3>0, <3>2, SourceIs
      <4>2. Root \in Paths(lay)
        BY <1>1, RootIs DEF nil, Paths
      <4> QED
        BY <2>6, <3>0, <4>1, <4>2
    <3> QED
      BY <3>1, <3>2
  <2>10. Tree(new)
    <3>1. \A f \in Path, y \in {0, 1} :
            Append(f, y) \in Paths(new) =>
              f \in Paths(new) /\ First(f) \in Paths(new) /\ Second(f) \in Paths(new)
      <4> SUFFICES ASSUME NEW f \in Path, NEW y \in {0, 1}, Append(f, y) \in Paths(new)
                   PROVE  f \in Paths(new) /\ First(f) \in Paths(new) /\ Second(f) \in Paths(new)
        OBVIOUS
      <4>1. src(f) \in Splits(lay)
        BY <2>5
      <4>2. src(f) \in Paths(lay)
        BY <4>1, TreePaths
      <4> HIDE DEF src
      <4> QED
        BY <2>5, <2>6, <4>1, <4>2 DEF First, Second
    <3>2. \E n \in Nat : \A p \in Paths(new) : Len(p) <= n
      <4>1. PICK n \in Nat : \A p \in Paths(lay) : Len(p) <= n
        BY DEF Tree
      <4>2. ASSUME NEW p \in Paths(new) PROVE Len(p) <= n
        <5>1. p \in Path /\ src(p) \in Paths(lay) /\ Len(p) \in Nat
          BY <2>6, <2>7, PathIs
        <5>2. Len(src(p)) <= n
          BY <4>1, <5>1
        <5>3. CASE Extends(p, parent)
          <6>1. Inserted(src(p), p, parent, side)
            BY <2>1, <5>1, <5>3, SourceIs
          <6>2. Len(src(p)) = Len(p) + 1
            BY <6>1 DEF Inserted
          <6> HIDE DEF src
          <6> QED
            BY <5>1, <5>2, <6>2
        <5>4. CASE ~Extends(p, parent)
          <6>1. src(p) = p
            BY <2>1, <5>1, <5>4, SourceIs
          <6> QED
            BY <5>2, <6>1
        <5> QED
          BY <5>3, <5>4
      <4> QED
        BY <4>2
    <3>3. \A p \in Splits(new) : new[p] \in Look
      <4> TAKE p \in Splits(new)
      <4>1. src(p) \in Splits(lay) /\ new[p] = lay[src(p)]
        BY <2>6, <2>7, <2>8
      <4> HIDE DEF src
      <4> QED
        BY <4>1, TreePaths
    <3>4. /\ \A p \in LeafPaths(new) : new[p] \in Pane
          /\ \A p, q \in LeafPaths(new) : new[p] = new[q] => p = q
      <4>1. \A p \in LeafPaths(new) : p \in Path /\ src(p) \in LeafPaths(lay) /\ new[p] = lay[src(p)]
        BY <2>6, <2>7, <2>8
      <4>2. \A p, q \in Path : src(p) = src(q) => p = q
        BY <2>1, SourceInjective
      <4> HIDE DEF src
      <4> QED
        BY <4>1, <4>2, TreePaths
    <3>5. new = [p \in Paths(new) |-> new[p]]
      <4> HIDE DEF src
      <4> QED
        BY <2>2
    <3> HIDE DEF src
    <3> QED
      BY <2>7, <2>9, <3>1, <3>2, <3>3, <3>4, <3>5, TreeIf
  <2>11. ASSUME NEW p \in Path PROVE src(p) # at
    <3>1. CASE Extends(p, parent)
      <4>1. Inserted(src(p), p, parent, side)
        BY <2>1, <3>1, SourceIs
      <4>2. src(p)[Len(parent) + 1] = side
        BY <4>1 DEF Inserted
      <4>3. at[Len(parent) + 1] = other
        BY <2>1, StepIs
      <4> HIDE DEF src
      <4> QED
        BY <2>1, <4>2, <4>3
    <3>2. CASE ~Extends(p, parent)
      <4>1. src(p) = p
        BY <2>1, <3>2, SourceIs
      <4>2. Extends(parent, parent)
        BY <2>1, PathIs DEF Extends
      <4>3. Extends(at, parent)
        BY <2>1, <4>2, ExtendsStep
      <4> QED
        BY <3>2, <4>1, <4>3
    <3> QED
      BY <3>1, <3>2
  <2>12. ASSUME NEW q \in LeafPaths(lay), q # at
         PROVE  \E p \in LeafPaths(new) : src(p) = q
    <3>1. q \in Path /\ q \in Paths(lay) /\ q # parent
      BY <2>3, TreePaths DEF LeafPaths
    <3>2. ~Extends(q, Append(parent, 1 - side))
      BY <1>1, <2>1, <2>12, <3>1, LeafEnds
    <3>3. PICK p \in Path : src(p) = q
      BY <2>1, <3>1, <3>2, SourceOnto
    <3> QED
      BY <2>6, <3>3
  <2>13. Panes(new) = Panes(lay) \ {x}
    <3>1. ASSUME NEW p \in LeafPaths(new) PROVE new[p] \in Panes(lay) /\ new[p] # x
      <4>1. src(p) \in LeafPaths(lay) /\ new[p] = lay[src(p)] /\ src(p) # at
        BY <2>6, <2>7, <2>8, <2>11
      <4> HIDE DEF src
      <4> QED
        BY <1>1, <4>1, TreePaths DEF Panes
    <3>2. ASSUME NEW y \in Panes(lay), y # x PROVE y \in Panes(new)
      <4>1. PICK q \in LeafPaths(lay) : lay[q] = y
        BY DEF Panes
      <4>2. q # at
        BY <1>1, <3>2, <4>1
      <4>3. PICK p \in LeafPaths(new) : src(p) = q
        BY <2>12, <4>2
      <4>4. new[p] = y
        BY <2>7, <2>8, <4>1, <4>3
      <4> QED
        BY <4>4 DEF Panes
    <3>3. Panes(new) = {new[p] : p \in LeafPaths(new)}
      BY DEF Panes
    <3> QED
      BY <3>1, <3>2, <3>3
  <2>14. ASSUME NEW y \in Panes(new)
         PROVE  Find(new, y) \in Path /\ src(Find(new, y)) = Find(lay, y)
    <3> DEFINE p == Find(new, y)
    <3>1. p \in LeafPaths(new) /\ new[p] = y
      BY <2>10, FindPane
    <3> HIDE DEF p
    <3>2. p \in Path /\ src(p) \in LeafPaths(lay) /\ lay[src(p)] = y
      BY <2>6, <2>7, <2>8, <3>1
    <3> HIDE DEF src
    <3>3. Find(lay, lay[src(p)]) = src(p)
      BY <3>2, FindIs
    <3> QED
      BY <3>2, <3>3 DEF p
  <2>15. OrderKept(lay, new)
    <3>1. ASSUME NEW y \in Panes(new), NEW z \in Panes(new)
          PROVE  Precedes(Find(lay, y), Find(lay, z)) <=> Precedes(Find(new, y), Find(new, z))
      <4>1. /\ Find(new, y) \in Path /\ src(Find(new, y)) = Find(lay, y)
            /\ Find(new, z) \in Path /\ src(Find(new, z)) = Find(lay, z)
        BY <2>14
      <4>2. \A p, q \in Path : Precedes(p, q) <=> Precedes(src(p), src(q))
        BY <2>1, SourceOrder
      <4> HIDE DEF src
      <4> QED
        BY <4>1, <4>2
    <3> QED
      BY <3>1 DEF OrderKept
  <2> QED
    BY <2>10, <2>13, <2>15 DEF new
<1> QED
  BY <1>2, <1>3

-----------------------------------------------------------------------------
(***************************************************************************)
(* Layouts by recursion: model.go has nodes with children, the models have *)
(* paths.  Every layout is nil, a leaf, or joined from two, and what the   *)
(* methods say of a node and its children holds of the functions on paths. *)
(***************************************************************************)
\* The way to a node of the child at x, from the node above.
Under(x, p) == <<x>> \o p

\* What lies under a child, by its steps.
LEMMA UnderIs ==
  ASSUME NEW x \in {0, 1}, NEW p \in Path
  PROVE  /\ Under(x, p) \in Path /\ Under(x, p) # Root
         /\ Len(Under(x, p)) = Len(p) + 1
         /\ Under(x, p)[1] = x
         /\ \A i \in 1..Len(p) : Under(x, p)[i + 1] = p[i]
         /\ Head(Under(x, p)) = x /\ Tail(Under(x, p)) = p
<1>1. <<x>> \in Path /\ Len(<<x>>) = 1 /\ <<x>>[1] = x
  BY DEF Path
<1>2. Len(p) \in Nat
  BY PathIs
<1>3. /\ Under(x, p) \in Path
      /\ Len(Under(x, p)) = 1 + Len(p)
      /\ \A i \in 1..(1 + Len(p)) :
           Under(x, p)[i] = IF i <= 1 THEN <<x>>[i] ELSE p[i - 1]
  BY <1>1, ConcatProperties DEF Path, Under
<1> HIDE DEF Under
<1>4. Under(x, p) # Root
  BY <1>2, <1>3, EmptySeq DEF Root
<1>5. Under(x, p)[1] = x
  <2>1. 1 \in 1..(1 + Len(p))
    BY <1>2
  <2> QED
    BY <1>1, <1>3, <2>1
<1>6. ASSUME NEW i \in 1..Len(p) PROVE Under(x, p)[i + 1] = p[i]
  <2>1. i + 1 \in 1..(1 + Len(p)) /\ ~(i + 1 <= 1) /\ i + 1 - 1 = i
    BY <1>2
  <2> QED
    BY <1>3, <2>1
<1>7. Head(Under(x, p)) = x /\ Tail(Under(x, p)) = p
  <2> DEFINE u == Under(x, p)
  <2>1. u \in Seq({0, 1}) /\ u # <<>>
    BY <1>3, <1>4 DEF Path, Root
  <2>2. Len(u) = Len(p) + 1
    BY <1>2, <1>3
  <2>3. \A i \in 1..Len(p) : u[i + 1] = p[i]
    BY <1>6
  <2>4. u[1] = x
    BY <1>5
  <2> HIDE DEF u
  <2>5. /\ Head(u) = u[1] /\ Tail(u) \in Seq({0, 1}) /\ Len(Tail(u)) = Len(u) - 1
        /\ \A i \in 1..Len(Tail(u)) : Tail(u)[i] = u[i + 1]
    BY <2>1, HeadTailProperties
  <2>6. Tail(u) = p
    <3>1. Len(Tail(u)) = Len(p) /\ Tail(u) \in Path
      BY <1>2, <2>2, <2>5 DEF Path
    <3>2. \A i \in 1..Len(Tail(u)) : Tail(u)[i] = p[i]
      BY <2>3, <2>5, <3>1
    <3> QED
      BY <3>1, <3>2, PathEqual
  <2> QED
    BY <2>4, <2>5, <2>6 DEF u
<1> QED
  BY <1>2, <1>3, <1>4, <1>5, <1>6, <1>7

\* The child and the way below it are read off a path.
LEMMA UnderInjective ==
  ASSUME NEW x \in {0, 1}, NEW y \in {0, 1}, NEW p \in Path, NEW q \in Path, Under(x, p) = Under(y, q)
  PROVE  x = y /\ p = q
<1>1. Head(Under(x, p)) = x /\ Tail(Under(x, p)) = p
  BY UnderIs
<1>2. Head(Under(y, q)) = y /\ Tail(Under(y, q)) = q
  BY UnderIs
<1> HIDE DEF Under
<1> QED
  BY <1>1, <1>2

\* A node that is not the root is in one of the children.
LEMMA UnderOnto ==
  ASSUME NEW q \in Path, q # Root
  PROVE  \E x \in {0, 1}, p \in Path : q = Under(x, p)
<1> DEFINE p == Tail(q)
           x == q[1]
<1>1. Len(q) \in Nat \ {0} /\ x \in {0, 1}
  BY EmptySeq, PathIs DEF Path, Root
<1>2. /\ p \in Path /\ Len(p) = Len(q) - 1
      /\ \A i \in 1..Len(p) : p[i] = q[i + 1]
  BY HeadTailProperties DEF Path, Root
<1> HIDE DEF p, x
<1>3. /\ Under(x, p) \in Path /\ Len(Under(x, p)) = Len(p) + 1
      /\ Under(x, p)[1] = x
      /\ \A i \in 1..Len(p) : Under(x, p)[i + 1] = p[i]
  BY <1>1, <1>2, UnderIs
<1>4. ASSUME NEW i \in 1..Len(q) PROVE q[i] = Under(x, p)[i]
  <2>1. CASE i = 1
    BY <1>3, <2>1 DEF x
  <2>2. CASE i # 1
    <3>1. i - 1 \in 1..Len(p) /\ (i - 1) + 1 = i
      BY <1>1, <1>2, <2>2
    <3>2. Under(x, p)[(i - 1) + 1] = p[i - 1] /\ p[i - 1] = q[(i - 1) + 1]
      BY <1>2, <1>3, <3>1
    <3> QED
      BY <3>1, <3>2
  <2> QED
    BY <2>1, <2>2
<1>5. Len(q) = Len(Under(x, p))
  BY <1>1, <1>2, <1>3
<1>6. q = Under(x, p)
  BY <1>3, <1>4, <1>5, PathEqual
<1> QED
  BY <1>1, <1>2, <1>6

\* A step down is the same step below a child.
LEMMA UnderStep ==
  ASSUME NEW x \in {0, 1}, NEW p \in Path, NEW y \in {0, 1}
  PROVE  Child(Under(x, p), y) = Under(x, Child(p, y))
<1> DEFINE u == Under(x, p)
           c == Child(p, y)
           a == Child(u, y)
           b == Under(x, c)
<1>1. /\ u \in Path /\ Len(u) = Len(p) + 1 /\ u[1] = x
      /\ \A i \in 1..Len(p) : u[i + 1] = p[i]
  BY UnderIs
<1>2. /\ c \in Path /\ Len(c) = Len(p) + 1 /\ c[Len(p) + 1] = y
      /\ \A i \in 1..Len(p) : c[i] = p[i]
  BY StepIs DEF Child
<1> HIDE DEF u, c
<1>3. /\ a \in Path /\ Len(a) = Len(u) + 1 /\ a[Len(u) + 1] = y
      /\ \A i \in 1..Len(u) : a[i] = u[i]
  BY <1>1, StepIs DEF Child
<1>4. /\ b \in Path /\ Len(b) = Len(c) + 1 /\ b[1] = x
      /\ \A i \in 1..Len(c) : b[i + 1] = c[i]
  BY <1>2, UnderIs
<1> HIDE DEF a, b
<1>5. Len(p) \in Nat
  BY PathIs
<1>6. ASSUME NEW i \in 1..Len(a) PROVE a[i] = b[i]
  <2>1. CASE i = 1
    BY <1>1, <1>3, <1>4, <1>5, <2>1
  <2>2. CASE i \in 2..(Len(p) + 1)
    <3>1. i - 1 \in 1..Len(p) /\ i - 1 \in 1..Len(c) /\ i \in 1..Len(u) /\ (i - 1) + 1 = i
      BY <1>1, <1>2, <1>5, <2>2
    <3>2. a[i] = u[i] /\ u[(i - 1) + 1] = p[i - 1] /\ b[(i - 1) + 1] = c[i - 1] /\ c[i - 1] = p[i - 1]
      BY <1>1, <1>2, <1>3, <1>4, <3>1
    <3> QED
      BY <3>1, <3>2
  <2>3. CASE i = Len(p) + 2
    <3>1. Len(p) + 1 \in 1..Len(c) /\ (Len(p) + 1) + 1 = i /\ Len(u) + 1 = i
      BY <1>1, <1>2, <1>5, <2>3
    <3>2. b[(Len(p) + 1) + 1] = c[Len(p) + 1] /\ a[i] = y
      BY <1>3, <1>4, <3>1
    <3> QED
      BY <1>2, <3>1, <3>2
  <2>4. i = 1 \/ i \in 2..(Len(p) + 1) \/ i = Len(p) + 2
    BY <1>1, <1>3, <1>5
  <2> QED
    BY <2>1, <2>2, <2>3, <2>4
<1>7. Len(a) = Len(b)
  BY <1>1, <1>2, <1>3, <1>4, <1>5
<1>8. a = b
  BY <1>3, <1>4, <1>6, <1>7, PathEqual
<1> QED
  BY <1>8 DEF a, b, u, c

\* The children themselves are one step below the root.
LEMMA RootUnder ==
  ASSUME NEW x \in {0, 1}
  PROVE  Root \in Path /\ Len(Root) = 0 /\ Under(x, Root) = Child(Root, x)
<1>1. Root \in Path /\ Len(Root) = 0
  BY EmptySeq DEF Root, Path
<1>2. Under(x, Root) \in Path /\ Len(Under(x, Root)) = 1 /\ Under(x, Root)[1] = x
  <2>1. Under(x, Root) \in Path /\ Len(Under(x, Root)) = Len(Root) + 1 /\ Under(x, Root)[1] = x
    BY <1>1, UnderIs
  <2> QED
    BY <1>1, <2>1
<1>3. Child(Root, x) \in Path /\ Len(Child(Root, x)) = 1 /\ Child(Root, x)[1] = x
  <2>1. Child(Root, x) \in Path /\ Len(Child(Root, x)) = Len(Root) + 1 /\ Child(Root, x)[Len(Root) + 1] = x
    BY <1>1, StepIs DEF Child
  <2> QED
    BY <1>1, <2>1
<1>4. Under(x, Root) = Child(Root, x)
  <2> DEFINE a == Under(x, Root)
             b == Child(Root, x)
  <2> HIDE DEF a, b
  <2>1. a \in Path /\ b \in Path /\ Len(a) = 1 /\ Len(b) = 1 /\ a[1] = b[1]
    BY <1>2, <1>3 DEF a, b
  <2>2. \A i \in 1..Len(a) : a[i] = b[i]
    BY <2>1
  <2>3. a = b
    BY <2>1, <2>2, PathEqual
  <2> QED
    BY <2>3 DEF a, b
<1> QED
  BY <1>1, <1>4

\* So is a step up.
LEMMA UnderFront ==
  ASSUME NEW x \in {0, 1}, NEW p \in Path, p # Root
  PROVE  S!Front(Under(x, p)) = Under(x, S!Front(p)) /\ S!Last(Under(x, p)) = S!Last(p)
<1> DEFINE f == S!Front(p)
           y == S!Last(p)
<1>1. f \in Path /\ y \in {0, 1} /\ p = Child(f, y)
  BY FrontIs DEF Child
<1> HIDE DEF f, y
<1>2. Under(x, p) = Child(Under(x, f), y)
  BY <1>1, UnderStep
<1>3. Under(x, f) \in Path
  BY <1>1, UnderIs
<1>4. S!Front(Child(Under(x, f), y)) = Under(x, f) /\ S!Last(Child(Under(x, f), y)) = y
  BY <1>1, <1>3, StepIs DEF Child
<1> QED
  BY <1>2, <1>4 DEF f, y

\* What extends what, below the root.
LEMMA UnderExtends ==
  ASSUME NEW x \in {0, 1}, NEW y \in {0, 1}, NEW p \in Path, NEW q \in Path
  PROVE  Extends(Under(x, p), Under(y, q)) <=> x = y /\ Extends(p, q)
<1> DEFINE u == Under(x, p)
           v == Under(y, q)
<1>1. Len(p) \in Nat /\ Len(q) \in Nat
  BY PathIs
<1>2. Len(u) = Len(p) + 1 /\ u[1] = x /\ \A i \in 1..Len(p) : u[i + 1] = p[i]
  BY UnderIs
<1>3. Len(v) = Len(q) + 1 /\ v[1] = y /\ \A i \in 1..Len(q) : v[i + 1] = q[i]
  BY UnderIs
<1> HIDE DEF u, v
<1>4. ASSUME Extends(u, v) PROVE x = y /\ Extends(p, q)
  <2>1. Len(q) <= Len(p) /\ \A i \in 1..Len(v) : u[i] = v[i]
    BY <1>1, <1>2, <1>3, <1>4 DEF Extends
  <2>2. x = y
    BY <1>1, <1>2, <1>3, <2>1
  <2>3. ASSUME NEW i \in 1..Len(q) PROVE p[i] = q[i]
    <3>1. i + 1 \in 1..Len(v) /\ i \in 1..Len(p)
      BY <1>1, <1>3, <2>1
    <3>2. u[i + 1] = v[i + 1]
      BY <2>1, <3>1
    <3> QED
      BY <1>2, <1>3, <3>1, <3>2
  <2> QED
    BY <2>1, <2>2, <2>3 DEF Extends
<1>5. ASSUME x = y, Extends(p, q) PROVE Extends(u, v)
  <2>1. Len(q) <= Len(p) /\ \A i \in 1..Len(q) : p[i] = q[i]
    BY <1>5 DEF Extends
  <2>2. ASSUME NEW i \in 1..Len(v) PROVE u[i] = v[i]
    <3>1. CASE i = 1
      BY <1>2, <1>3, <1>5, <3>1
    <3>2. CASE i # 1
      <4>1. i - 1 \in 1..Len(q) /\ i - 1 \in 1..Len(p) /\ (i - 1) + 1 = i
        BY <1>1, <1>3, <2>1, <3>2
      <4>2. u[(i - 1) + 1] = p[i - 1] /\ v[(i - 1) + 1] = q[i - 1] /\ p[i - 1] = q[i - 1]
        BY <1>2, <1>3, <2>1, <4>1
      <4> QED
        BY <4>1, <4>2
    <3> QED
      BY <3>1, <3>2
  <2> QED
    BY <1>1, <1>2, <1>3, <2>1, <2>2 DEF Extends
<1> QED
  BY <1>4, <1>5 DEF u, v

\* The first child comes before the second, within a child its own order holds.
LEMMA UnderPrecedes ==
  ASSUME NEW x \in {0, 1}, NEW y \in {0, 1}, NEW p \in Path, NEW q \in Path
  PROVE  Precedes(Under(x, p), Under(y, q)) <=> x < y \/ (x = y /\ Precedes(p, q))
<1> DEFINE u == Under(x, p)
           v == Under(y, q)
<1>1. Len(p) \in Nat /\ Len(q) \in Nat
  BY PathIs
<1>2. u \in Path /\ Len(u) = Len(p) + 1 /\ u[1] = x /\ \A i \in 1..Len(p) : u[i + 1] = p[i]
  BY UnderIs
<1>3. v \in Path /\ Len(v) = Len(q) + 1 /\ v[1] = y /\ \A i \in 1..Len(q) : v[i + 1] = q[i]
  BY UnderIs
<1> HIDE DEF u, v
<1>4. ASSUME Precedes(u, v), ~(x < y) PROVE x = y /\ Precedes(p, q)
  <2>1. PICK i \in 1..Len(u) : i <= Len(v) /\ (\A j \in 1..(i - 1) : u[j] = v[j]) /\ u[i] < v[i]
    BY <1>2, <1>3, <1>4, PrecedesIs
  <2>2. i # 1
    BY <1>2, <1>3, <1>4, <2>1
  <2>3. x = y
    BY <1>1, <1>2, <1>3, <2>1, <2>2
  <2>4. i - 1 \in 1..Len(p) /\ i - 1 \in 1..Len(q) /\ (i - 1) + 1 = i
    BY <1>1, <1>2, <1>3, <2>1, <2>2
  <2>5. p[i - 1] < q[i - 1]
    <3>1. u[(i - 1) + 1] = p[i - 1] /\ v[(i - 1) + 1] = q[i - 1]
      BY <1>2, <1>3, <2>4
    <3> QED
      BY <2>1, <2>4, <3>1
  <2>6. ASSUME NEW j \in 1..((i - 1) - 1) PROVE p[j] = q[j]
    <3>1. j + 1 \in 1..(i - 1) /\ j \in 1..Len(p) /\ j \in 1..Len(q)
      BY <1>1, <2>1, <2>4
    <3>2. u[j + 1] = v[j + 1]
      BY <2>1, <3>1
    <3> QED
      BY <1>2, <1>3, <3>1, <3>2
  <2> QED
    BY <2>3, <2>4, <2>5, <2>6, PrecedesIs
<1>5. ASSUME x < y PROVE Precedes(u, v)
  <2>1. 1 \in 1..Len(u) /\ 1 <= Len(v) /\ u[1] < v[1] /\ \A j \in 1..(1 - 1) : u[j] = v[j]
    BY <1>1, <1>2, <1>3, <1>5
  <2> QED
    BY <1>2, <1>3, <2>1, PrecedesIs
<1>6. ASSUME x = y, Precedes(p, q) PROVE Precedes(u, v)
  <2>1. PICK i \in 1..Len(p) : i <= Len(q) /\ (\A j \in 1..(i - 1) : p[j] = q[j]) /\ p[i] < q[i]
    BY <1>6, PrecedesIs
  <2>2. i + 1 \in 1..Len(u) /\ i + 1 <= Len(v) /\ i \in 1..Len(q)
    BY <1>1, <1>2, <1>3, <2>1
  <2>3. u[i + 1] < v[i + 1]
    BY <1>2, <1>3, <2>1, <2>2
  <2>4. ASSUME NEW j \in 1..((i + 1) - 1) PROVE u[j] = v[j]
    <3>1. CASE j = 1
      BY <1>2, <1>3, <1>6, <3>1
    <3>2. CASE j # 1
      <4>1. j - 1 \in 1..(i - 1) /\ j - 1 \in 1..Len(p) /\ j - 1 \in 1..Len(q) /\ (j - 1) + 1 = j
        BY <1>1, <2>1, <3>2
      <4>2. u[(j - 1) + 1] = p[j - 1] /\ v[(j - 1) + 1] = q[j - 1] /\ p[j - 1] = q[j - 1]
        BY <1>2, <1>3, <2>1, <4>1
      <4> QED
        BY <4>1, <4>2
    <3> QED
      BY <3>1, <3>2
  <2> QED
    BY <1>2, <1>3, <2>2, <2>3, <2>4, PrecedesIs
<1> QED
  BY <1>4, <1>5, <1>6 DEF u, v

\* What a step is put into is told by what comes of it.
LEMMA InsertedOnce ==
  ASSUME NEW parent \in Path, NEW side \in {0, 1}, NEW p \in Path, NEW s \in Path, NEW t \in Path,
         Len(parent) <= Len(p), Inserted(s, p, parent, side), Inserted(t, p, parent, side)
  PROVE  s = t
<1> DEFINE d == Len(parent)
<1>1. d \in Nat /\ Len(p) \in Nat /\ d <= Len(p)
  BY PathIs
<1>2. /\ Len(s) = Len(p) + 1 /\ Len(t) = Len(p) + 1
      /\ \A i \in 1..d : s[i] = parent[i] /\ t[i] = parent[i]
      /\ s[d + 1] = side /\ t[d + 1] = side
      /\ \A i \in (d + 1)..Len(p) : s[i + 1] = p[i] /\ t[i + 1] = p[i]
  BY DEF Inserted, Shifted
<1> HIDE DEF d
<1>3. ASSUME NEW i \in 1..Len(s) PROVE s[i] = t[i]
  <2>1. CASE i \in 1..d
    BY <1>2, <2>1
  <2>2. CASE i = d + 1
    BY <1>2, <2>2
  <2>3. CASE i > d + 1
    <3>1. i - 1 \in (d + 1)..Len(p) /\ (i - 1) + 1 = i
      BY <1>1, <1>2, <2>3
    <3>2. s[(i - 1) + 1] = p[i - 1] /\ t[(i - 1) + 1] = p[i - 1]
      BY <1>2, <3>1
    <3> QED
      BY <3>1, <3>2
  <2> QED
    BY <1>1, <1>2, <2>1, <2>2, <2>3
<1> QED
  BY <1>2, <1>3, PathEqual

\* Cutting a leaf of a child moves what is in that child, and nothing else.
LEMMA SourceUnder ==
  ASSUME NEW x \in {0, 1}, NEW y \in {0, 1}, NEW parent \in Path, NEW side \in {0, 1}, NEW p \in Path
  PROVE  Source(Under(x, parent), side, Under(y, p))
           = IF x = y THEN Under(y, Source(parent, side, p)) ELSE Under(y, p)
<1> DEFINE u == Under(y, p)
           v == Under(x, parent)
           s == Source(parent, side, p)
           t == Under(y, s)
<1>1. Len(p) \in Nat /\ Len(parent) \in Nat
  BY PathIs
<1>2. u \in Path /\ Len(u) = Len(p) + 1 /\ u[1] = y /\ \A i \in 1..Len(p) : u[i + 1] = p[i]
  BY UnderIs
<1>3. v \in Path /\ Len(v) = Len(parent) + 1 /\ v[1] = x /\ \A i \in 1..Len(parent) : v[i + 1] = parent[i]
  BY UnderIs
<1>4. Extends(u, v) <=> x = y /\ Extends(p, parent)
  BY UnderExtends
<1>5. s \in Path /\ (~Extends(p, parent) => s = p) /\ (Extends(p, parent) => Inserted(s, p, parent, side))
  BY SourceIs
<1> HIDE DEF u, v, s
<1>6. t \in Path /\ Len(t) = Len(s) + 1 /\ t[1] = y /\ \A i \in 1..Len(s) : t[i + 1] = s[i]
  BY <1>5, UnderIs
<1>7. /\ Source(v, side, u) \in Path
      /\ ~Extends(u, v) => Source(v, side, u) = u
      /\ Extends(u, v) => Inserted(Source(v, side, u), u, v, side)
  BY <1>2, <1>3, SourceIs
<1>8. CASE x # y
  BY <1>4, <1>7, <1>8 DEF u, v
<1>9. CASE x = y /\ ~Extends(p, parent)
  <2>1. Source(v, side, u) = u /\ s = p
    BY <1>4, <1>5, <1>7, <1>9
  <2> QED
    BY <1>9, <2>1 DEF u, v, s
<1>10. CASE x = y /\ Extends(p, parent)
  <2> HIDE DEF t
  <2>1. /\ Len(s) = Len(p) + 1 /\ Len(parent) <= Len(p)
        /\ \A i \in 1..Len(parent) : s[i] = parent[i]
        /\ s[Len(parent) + 1] = side
        /\ \A i \in (Len(parent) + 1)..Len(p) : s[i + 1] = p[i]
    BY <1>5, <1>10 DEF Inserted, Shifted, Extends
  <2>2. ASSUME NEW i \in 1..Len(v) PROVE t[i] = v[i]
    <3>1. CASE i = 1
      BY <1>3, <1>6, <1>10, <3>1
    <3>2. CASE i # 1
      <4>1. i - 1 \in 1..Len(parent) /\ i - 1 \in 1..Len(s) /\ (i - 1) + 1 = i
        BY <1>1, <1>3, <2>1, <3>2
      <4>2. t[(i - 1) + 1] = s[i - 1] /\ v[(i - 1) + 1] = parent[i - 1] /\ s[i - 1] = parent[i - 1]
        BY <1>3, <1>6, <2>1, <4>1
      <4> QED
        BY <4>1, <4>2
    <3> QED
      BY <3>1, <3>2
  <2>3. t[Len(v) + 1] = side
    <3>1. Len(parent) + 1 \in 1..Len(s) /\ Len(v) + 1 = (Len(parent) + 1) + 1
      BY <1>1, <1>3, <2>1
    <3> QED
      BY <1>6, <2>1, <3>1
  <2>4. ASSUME NEW i \in (Len(v) + 1)..Len(u) PROVE t[i + 1] = u[i]
    <3>1. /\ i - 1 \in (Len(parent) + 1)..Len(p) /\ i - 1 \in 1..Len(p) /\ (i - 1) + 1 = i
          /\ i \in 1..Len(s)
      BY <1>1, <1>2, <1>3, <2>1
    <3>2. t[i + 1] = s[i] /\ u[(i - 1) + 1] = p[i - 1] /\ s[(i - 1) + 1] = p[i - 1]
      BY <1>2, <1>6, <2>1, <3>1
    <3> QED
      BY <3>1, <3>2
  <2>5. Len(t) = Len(u) + 1 /\ Len(v) <= Len(u)
    BY <1>1, <1>2, <1>3, <1>6, <2>1
  <2>6. Inserted(t, u, v, side)
    BY <2>2, <2>3, <2>4, <2>5 DEF Inserted, Shifted
  <2>7. Inserted(Source(v, side, u), u, v, side)
    BY <1>4, <1>7, <1>10
  <2>8. Source(v, side, u) = t
    BY <1>2, <1>3, <1>6, <1>7, <2>5, <2>6, <2>7, InsertedOnce
  <2> QED
    BY <1>10, <2>8 DEF u, v, s, t
<1> QED
  BY <1>8, <1>9, <1>10

\* Cutting a child of the root leaves the other one.
LEMMA SourceRoot ==
  ASSUME NEW side \in {0, 1}, NEW p \in Path
  PROVE  Source(Root, side, p) = Under(side, p)
<1> DEFINE s == Source(Root, side, p)
           u == Under(side, p)
<1>1. Root \in Path /\ Len(Root) = 0 /\ Len(p) \in Nat
  BY PathIs, RootUnder
<1>2. Extends(p, Root)
  BY <1>1 DEF Extends
<1>3. s \in Path /\ Inserted(s, p, Root, side)
  BY <1>1, <1>2, SourceIs
<1>4. u \in Path /\ Len(u) = Len(p) + 1 /\ u[1] = side /\ \A i \in 1..Len(p) : u[i + 1] = p[i]
  BY UnderIs
<1> HIDE DEF s, u
<1>5. Inserted(u, p, Root, side)
  BY <1>1, <1>4 DEF Inserted, Shifted
<1>6. s = u
  BY <1>1, <1>3, <1>4, <1>5, InsertedOnce
<1> QED
  BY <1>6 DEF s, u

\* A cut further down leaves the root in place.
LEMMA SourceOfRoot ==
  ASSUME NEW x \in {0, 1}, NEW parent \in Path, NEW side \in {0, 1}
  PROVE  Source(Under(x, parent), side, Root) = Root
<1>1. Root \in Path /\ Len(Root) = 0 /\ Len(parent) \in Nat
  BY PathIs, RootUnder
<1>2. Under(x, parent) \in Path /\ Len(Under(x, parent)) = Len(parent) + 1
  BY UnderIs
<1>3. ~Extends(Root, Under(x, parent))
  BY <1>1, <1>2 DEF Extends
<1> QED
  BY <1>1, <1>2, <1>3, SourceIs

\* The children by number.
Kid(x, a, b) == IF x = 0 THEN a ELSE b

\* What Join puts together, by its nodes.
Joins(j, look, a, b) ==
  /\ j = [p \in Paths(j) |-> j[p]]
  /\ Paths(j) \subseteq Path /\ Root \in Paths(j) /\ j[Root] = look
  /\ \A x \in {0, 1}, p \in Path : Under(x, p) \in Paths(j) <=> p \in Paths(Kid(x, a, b))
  /\ \A x \in {0, 1} : \A p \in Paths(Kid(x, a, b)) : j[Under(x, p)] = Kid(x, a, b)[p]

\* Join puts its children below the root and nothing else.
LEMMA JoinIs ==
  ASSUME NEW look, NEW a, NEW b, Paths(a) \subseteq Path, Paths(b) \subseteq Path
  PROVE  Joins(Join(look, a, b), look, a, b)
<1> DEFINE j == Join(look, a, b)
<1>1. /\ Paths(j) = {Root} \cup {Under(0, q) : q \in Paths(a)} \cup {Under(1, q) : q \in Paths(b)}
      /\ j = [p \in Paths(j) |-> IF p = Root THEN look ELSE IF Head(p) = 0 THEN a[Tail(p)] ELSE b[Tail(p)]]
  BY DEF Join, Paths, Under
<1> HIDE DEF j
<1>2. \A x \in {0, 1}, p \in Path : Under(x, p) \in Path /\ Under(x, p) # Root /\ Head(Under(x, p)) = x /\ Tail(Under(x, p)) = p
  BY UnderIs
<1>3. \A x, y \in {0, 1}, p, q \in Path : Under(x, p) = Under(y, q) => x = y /\ p = q
  BY UnderInjective
<1> HIDE DEF Under
<1>4. Paths(j) \subseteq Path /\ Root \in Paths(j) /\ j[Root] = look
  BY <1>1, <1>2, RootUnder
<1>5. ASSUME NEW x \in {0, 1}, NEW p \in Path
      PROVE  Under(x, p) \in Paths(j) <=> p \in Paths(Kid(x, a, b))
  <2>1. Under(x, p) # Root
    BY <1>2
  <2>2. CASE x = 0
    <3>1. Under(x, p) \in Paths(j) <=> \E q \in Paths(a) : Under(x, p) = Under(0, q)
      <4>1. \A q \in Paths(b) : Under(x, p) # Under(1, q)
        BY <1>3, <2>2
      <4> QED
        BY <1>1, <2>1, <4>1
    <3> QED
      BY <1>3, <2>2, <3>1 DEF Kid
  <2>3. CASE x = 1
    <3>1. Under(x, p) \in Paths(j) <=> \E q \in Paths(b) : Under(x, p) = Under(1, q)
      <4>1. \A q \in Paths(a) : Under(x, p) # Under(0, q)
        BY <1>3, <2>3
      <4> QED
        BY <1>1, <2>1, <4>1
    <3> QED
      BY <1>3, <2>3, <3>1 DEF Kid
  <2> QED
    BY <2>2, <2>3
<1>6. ASSUME NEW x \in {0, 1}, NEW p \in Paths(Kid(x, a, b))
      PROVE  j[Under(x, p)] = Kid(x, a, b)[p]
  <2>1. p \in Path
    BY <1>6 DEF Kid
  <2>2. Under(x, p) \in Paths(j) /\ Under(x, p) # Root /\ Head(Under(x, p)) = x /\ Tail(Under(x, p)) = p
    BY <1>2, <1>5, <2>1
  <2> QED
    BY <1>1, <2>2 DEF Kid
<1>7. j = [p \in Paths(j) |-> j[p]]
  BY <1>1
<1> QED
  BY <1>4, <1>5, <1>6, <1>7 DEF Joins, j

\* That determines it.
LEMMA JoinOnly ==
  ASSUME NEW look, NEW a, NEW b, Paths(a) \subseteq Path, Paths(b) \subseteq Path, NEW j, Joins(j, look, a, b)
  PROVE  j = Join(look, a, b)
<1> DEFINE k == Join(look, a, b)
<1>1. Joins(k, look, a, b)
  BY JoinIs
<1> HIDE DEF k
<1>2. ASSUME NEW p \in Path PROVE (p \in Paths(j) <=> p \in Paths(k)) /\ (p \in Paths(j) => j[p] = k[p])
  <2>1. CASE p = Root
    BY <1>1, <2>1 DEF Joins
  <2>2. CASE p # Root
    <3>1. PICK x \in {0, 1}, q \in Path : p = Under(x, q)
      BY <2>2, UnderOnto
    <3> HIDE DEF Under
    <3> QED
      BY <1>1, <3>1 DEF Joins
  <2> QED
    BY <2>1, <2>2
<1>3. Paths(j) = Paths(k)
  BY <1>1, <1>2 DEF Joins
<1>4. j = [p \in Paths(j) |-> j[p]] /\ k = [p \in Paths(k) |-> k[p]] /\ Paths(j) \subseteq Path
  BY <1>1 DEF Joins
<1>5. [p \in Paths(j) |-> j[p]] = [p \in Paths(k) |-> k[p]]
  BY <1>2, <1>3, <1>4
<1> QED
  BY <1>4, <1>5 DEF k

\* Two layouts that can be the children of a split.
Joinable(look, a, b) ==
  /\ look \in Look /\ Tree(a) /\ Tree(b) /\ a # nil /\ b # nil
  /\ Panes(a) \cap Panes(b) = {}

\* The splits and leaves of a split: its own node, and those of its children.
LEMMA JoinNodes ==
  ASSUME NEW look, NEW a, NEW b, Joinable(look, a, b), NEW j, Joins(j, look, a, b)
  PROVE  /\ Root \in Splits(j) /\ Root \notin LeafPaths(j)
         /\ \A x \in {0, 1}, p \in Path :
              /\ Under(x, p) \in Splits(j) <=> p \in Splits(Kid(x, a, b))
              /\ Under(x, p) \in LeafPaths(j) <=> p \in LeafPaths(Kid(x, a, b))
<1>1. \A x \in {0, 1} : Root \in Paths(Kid(x, a, b)) /\ Paths(Kid(x, a, b)) \subseteq Path
  BY RootIs, TreePaths DEF Joinable, Kid
<1>2. First(Root) = Under(0, Root) /\ Root \in Path
  BY RootUnder DEF First, Child
<1>3. ASSUME NEW x \in {0, 1}, NEW p \in Path PROVE First(Under(x, p)) = Under(x, First(p)) /\ First(p) \in Path
  BY UnderStep, StepIs DEF First, Child
<1> HIDE DEF Under
<1>4. Root \in Splits(j)
  <2>1. Under(0, Root) \in Paths(j)
    BY <1>1, <1>2 DEF Joins
  <2> QED
    BY <1>2, <2>1 DEF Joins, Splits
<1>5. ASSUME NEW x \in {0, 1}, NEW p \in Path
      PROVE  /\ Under(x, p) \in Splits(j) <=> p \in Splits(Kid(x, a, b))
             /\ Under(x, p) \in LeafPaths(j) <=> p \in LeafPaths(Kid(x, a, b))
  <2>1. Under(x, First(p)) \in Paths(j) <=> First(p) \in Paths(Kid(x, a, b))
    BY <1>3 DEF Joins
  <2>2. Under(x, p) \in Paths(j) <=> p \in Paths(Kid(x, a, b))
    BY DEF Joins
  <2>3. First(Under(x, p)) = Under(x, First(p))
    BY <1>3
  <2>4. Under(x, p) \in Splits(j) <=> p \in Splits(Kid(x, a, b))
    BY <2>1, <2>2, <2>3 DEF Splits
  <2> QED
    BY <2>2, <2>4 DEF LeafPaths
<1>6. Root \notin LeafPaths(j)
  BY <1>4 DEF LeafPaths
<1> QED
  BY <1>4, <1>5, <1>6

\* The leaves of a join are those of its children.
LEMMA JoinLeaf ==
  ASSUME NEW look, NEW a, NEW b, Joinable(look, a, b), NEW j, Joins(j, look, a, b), NEW q \in LeafPaths(j)
  PROVE  \E x \in {0, 1} : \E p \in LeafPaths(Kid(x, a, b)) :
           p \in Path /\ q = Under(x, p) /\ j[q] = Kid(x, a, b)[p]
<1>1. q \in Path /\ q # Root
  BY JoinNodes DEF Joins, LeafPaths
<1>2. PICK x \in {0, 1}, p \in Path : q = Under(x, p)
  BY <1>1, UnderOnto
<1> HIDE DEF Under
<1>3. p \in LeafPaths(Kid(x, a, b))
  BY <1>2, JoinNodes
<1>4. j[q] = Kid(x, a, b)[p]
  BY <1>2, <1>3 DEF Joins, LeafPaths
<1> QED
  BY <1>2, <1>3, <1>4

\* Its panes are those of its children.
LEMMA JoinPanes ==
  ASSUME NEW look, NEW a, NEW b, Joinable(look, a, b), NEW j, Joins(j, look, a, b)
  PROVE  Panes(j) = Panes(a) \cup Panes(b)
<1>1. ASSUME NEW y \in Panes(j) PROVE y \in Panes(a) \cup Panes(b)
  <2>1. PICK q \in LeafPaths(j) : y = j[q]
    BY DEF Panes
  <2>2. PICK x \in {0, 1} : \E p \in LeafPaths(Kid(x, a, b)) : j[q] = Kid(x, a, b)[p]
    BY JoinLeaf
  <2> QED
    BY <2>1, <2>2 DEF Panes, Kid
<1>2. ASSUME NEW x \in {0, 1}, NEW y \in Panes(Kid(x, a, b)) PROVE y \in Panes(j)
  <2>1. PICK p \in LeafPaths(Kid(x, a, b)) : y = Kid(x, a, b)[p]
    BY DEF Panes
  <2>2. p \in Path /\ p \in Paths(Kid(x, a, b))
    BY TreePaths DEF Joinable, Kid
  <2>3. Under(x, p) \in LeafPaths(j) /\ j[Under(x, p)] = y
    BY <2>1, <2>2, JoinNodes DEF Joins
  <2> QED
    BY <2>3 DEF Panes
<1>3. Panes(a) \subseteq Panes(j) /\ Panes(b) \subseteq Panes(j)
  BY <1>2 DEF Kid
<1> QED
  BY <1>1, <1>3

\* A node is the root or in one child; its children are then in the same one.
LEMMA JoinClosed ==
  ASSUME NEW look, NEW a, NEW b, Joinable(look, a, b), NEW j, Joins(j, look, a, b),
         NEW f \in Path, NEW y \in {0, 1}, Append(f, y) \in Paths(j)
  PROVE  f \in Paths(j) /\ First(f) \in Paths(j) /\ Second(f) \in Paths(j)
<1>1. \A x \in {0, 1} : Root \in Paths(Kid(x, a, b))
  BY RootIs DEF Joinable, Kid
<1>2. CASE f = Root
  <2>1. Root \in Path /\ Under(0, Root) = First(f) /\ Under(1, Root) = Second(f)
    BY <1>2, RootUnder DEF First, Second, Child
  <2> HIDE DEF Under
  <2>2. Under(0, Root) \in Paths(j) /\ Under(1, Root) \in Paths(j)
    BY <1>1, <2>1 DEF Joins
  <2> QED
    BY <1>2, <2>1, <2>2 DEF Joins
<1>3. CASE f # Root
  <2>1. PICK x \in {0, 1}, g \in Path : f = Under(x, g)
    BY <1>3, UnderOnto
  <2>2. \A z \in {0, 1} : Append(f, z) = Under(x, Append(g, z)) /\ Append(g, z) \in Path
    BY <2>1, UnderStep, StepIs DEF Child
  <2> HIDE DEF Under
  <2>3. Append(g, y) \in Paths(Kid(x, a, b))
    BY <2>2 DEF Joins
  <2>4. Tree(Kid(x, a, b))
    BY DEF Joinable, Kid
  <2>5. g \in Splits(Kid(x, a, b)) /\ g \in Paths(Kid(x, a, b))
    BY <2>3, <2>4, ChildIs, TreePaths
  <2>6. Append(g, 0) \in Paths(Kid(x, a, b)) /\ Append(g, 1) \in Paths(Kid(x, a, b))
    BY <2>4, <2>5, ChildIs
  <2>7. Under(x, Append(g, 0)) \in Paths(j) /\ Under(x, Append(g, 1)) \in Paths(j) /\ Under(x, g) \in Paths(j)
    BY <2>2, <2>5, <2>6 DEF Joins
  <2> QED
    BY <2>1, <2>2, <2>7 DEF First, Second
<1> QED
  BY <1>2, <1>3

\* It is a layout.
LEMMA JoinTree ==
  ASSUME NEW look, NEW a, NEW b, Joinable(look, a, b), NEW j, Joins(j, look, a, b)
  PROVE  Tree(j) /\ j # nil
<1> DEFINE kid(x) == Kid(x, a, b)
<1>1. \A x \in {0, 1} : Tree(kid(x))
  BY DEF Joinable, Kid
<1>2. ASSUME NEW q \in Paths(j), q # Root
      PROVE  \E x \in {0, 1} : \E p \in Paths(kid(x)) : p \in Path /\ q = Under(x, p)
  <2>1. q \in Path
    BY DEF Joins
  <2>2. PICK x \in {0, 1}, p \in Path : q = Under(x, p)
    BY <1>2, <2>1, UnderOnto
  <2> HIDE DEF Under
  <2> QED
    BY <2>2 DEF Joins
<1>3. \E n \in Nat : \A q \in Paths(j) : Len(q) <= n
  <2>1. PICK na \in Nat : \A p \in Paths(a) : Len(p) <= na
    BY DEF Joinable, Tree
  <2>2. PICK nb \in Nat : \A p \in Paths(b) : Len(p) <= nb
    BY DEF Joinable, Tree
  <2>3. ASSUME NEW q \in Paths(j) PROVE Len(q) <= na + nb + 1
    <3>1. CASE q = Root
      BY <3>1, RootUnder
    <3>2. CASE q # Root
      <4>1. PICK x \in {0, 1} : \E p \in Paths(kid(x)) : p \in Path /\ q = Under(x, p)
        BY <1>2, <3>2
      <4>2. PICK p \in Paths(kid(x)) : p \in Path /\ q = Under(x, p)
        BY <4>1
      <4>3. Len(q) = Len(p) + 1 /\ Len(p) \in Nat
        BY <4>2, UnderIs, PathIs
      <4>4. Len(p) <= na \/ Len(p) <= nb
        BY <2>1, <2>2, <4>2 DEF Kid
      <4> QED
        BY <4>3, <4>4
    <3> QED
      BY <3>1, <3>2
  <2>4. na + nb + 1 \in Nat
    OBVIOUS
  <2> QED
    BY <2>3, <2>4
<1>4. \A f \in Path, y \in {0, 1} :
        Append(f, y) \in Paths(j) => f \in Paths(j) /\ First(f) \in Paths(j) /\ Second(f) \in Paths(j)
  BY JoinClosed
<1>5. ASSUME NEW q \in Splits(j) PROVE j[q] \in Look
  <2>1. CASE q = Root
    BY <2>1 DEF Joins, Joinable
  <2>2. CASE q # Root
    <3>1. q \in Paths(j)
      BY DEF Splits
    <3>2. PICK x \in {0, 1} : \E p \in Paths(kid(x)) : p \in Path /\ q = Under(x, p)
      BY <1>2, <2>2, <3>1
    <3>3. PICK p \in Paths(kid(x)) : p \in Path /\ q = Under(x, p)
      BY <3>2
    <3> HIDE DEF Under
    <3>4. p \in Splits(kid(x)) /\ j[q] = kid(x)[p]
      BY <3>3, JoinNodes DEF Joins
    <3> QED
      BY <1>1, <3>4, TreePaths
  <2> QED
    BY <2>1, <2>2
<1>6. ASSUME NEW q \in LeafPaths(j), NEW r \in LeafPaths(j)
      PROVE  j[q] \in Pane /\ (j[q] = j[r] => q = r)
  <2>1. PICK x \in {0, 1} : \E p \in LeafPaths(kid(x)) : p \in Path /\ q = Under(x, p) /\ j[q] = kid(x)[p]
    BY JoinLeaf
  <2>2. PICK p \in LeafPaths(kid(x)) : q = Under(x, p) /\ j[q] = kid(x)[p]
    BY <2>1
  <2>3. PICK y \in {0, 1} : \E s \in LeafPaths(kid(y)) : s \in Path /\ r = Under(y, s) /\ j[r] = kid(y)[s]
    BY JoinLeaf
  <2>4. PICK s \in LeafPaths(kid(y)) : r = Under(y, s) /\ j[r] = kid(y)[s]
    BY <2>3
  <2> HIDE DEF Under
  <2>5. kid(x)[p] \in Pane /\ kid(x)[p] \in Panes(kid(x)) /\ kid(y)[s] \in Panes(kid(y))
    BY <1>1, TreePaths DEF Panes
  <2>6. ASSUME j[q] = j[r] PROVE q = r
    <3>1. x = y
      BY <2>2, <2>4, <2>5, <2>6 DEF Joinable, Kid
    <3>2. p = s
      BY <1>1, <2>2, <2>4, <2>6, <3>1, TreePaths
    <3> QED
      BY <2>2, <2>4, <3>1, <3>2
  <2> QED
    BY <2>2, <2>5, <2>6
<1>7. j # nil
  <2>1. Root \in Paths(j) /\ Paths(nil) = {}
    BY DEF Joins, Paths, nil
  <2> QED
    BY <2>1
<1>8. j = [p \in Paths(j) |-> j[p]] /\ Paths(j) \subseteq Path /\ Root \in Paths(j)
  BY DEF Joins
<1> QED
  BY <1>3, <1>4, <1>5, <1>6, <1>7, <1>8, TreeIf

\* A pane of a child is found where the child has it.
LEMMA JoinFind ==
  ASSUME NEW look, NEW a, NEW b, Joinable(look, a, b), NEW j, Joins(j, look, a, b),
         NEW x \in {0, 1}, NEW y \in Panes(Kid(x, a, b))
  PROVE  Find(j, y) = Under(x, Find(Kid(x, a, b), y))
<1> DEFINE p == Find(Kid(x, a, b), y)
<1>1. Tree(Kid(x, a, b))
  BY DEF Joinable, Kid
<1>2. p \in LeafPaths(Kid(x, a, b)) /\ Kid(x, a, b)[p] = y /\ p \in Path /\ p \in Paths(Kid(x, a, b))
  BY <1>1, FindPane, TreePaths
<1> HIDE DEF p
<1>3. Under(x, p) \in LeafPaths(j) /\ j[Under(x, p)] = y
  BY <1>2, JoinNodes DEF Joins
<1>4. Find(j, y) = Under(x, p)
  BY <1>3, JoinTree, FindIs
<1> QED
  BY <1>4 DEF p

\* Remove, of any pane: a layout that does not have it stays.
Removed(lay, id) == IF id \in Panes(lay) THEN Remove(lay, id) ELSE lay

\* A leaf that is not the root leaves its sibling behind.
LEMMA CutLeaves ==
  ASSUME NEW lay, Tree(lay), NEW at \in LeafPaths(lay), at # Root
  PROVE  Cut(lay, at) # nil
<1> DEFINE parent == S!Front(at)
           side == 1 - S!Last(at)
           new == Cut(lay, at)
<1>1. at \in Path /\ at \in Paths(lay) /\ Paths(lay) \subseteq Path
  BY TreePaths
<1>2. parent \in Path /\ S!Last(at) \in {0, 1} /\ side \in {0, 1} /\ at = Append(parent, S!Last(at))
  BY <1>1, FrontIs
<1>3. Paths(new) = {p \in Path : Source(parent, side, p) \in Paths(lay)}
  BY <1>1, CutIs
<1> HIDE DEF parent, side, new
<1>4. Append(parent, side) \in Paths(lay)
  BY <1>1, <1>2, ChildIs
<1>5. Source(parent, side, parent) = Append(parent, side)
  <2> DEFINE c == Append(parent, side)
  <2>1. Len(parent) \in Nat /\ Extends(parent, parent)
    BY <1>2, PathIs DEF Extends
  <2>2. c \in Path /\ Len(c) = Len(parent) + 1 /\ c[Len(parent) + 1] = side
        /\ \A i \in 1..Len(parent) : c[i] = parent[i]
    BY <1>2, StepIs
  <2> HIDE DEF c
  <2>3. Inserted(c, parent, parent, side)
    BY <2>1, <2>2 DEF Inserted, Shifted
  <2>4. Source(parent, side, parent) \in Path /\ Inserted(Source(parent, side, parent), parent, parent, side)
    BY <1>2, <2>1, SourceIs
  <2>5. Source(parent, side, parent) = c
    BY <1>2, <2>1, <2>2, <2>3, <2>4, InsertedOnce
  <2> QED
    BY <2>5 DEF c
<1>6. parent \in Paths(new)
  BY <1>2, <1>3, <1>4, <1>5
<1>7. Paths(nil) = {}
  BY DEF Paths, nil
<1> QED
  BY <1>6, <1>7 DEF new

\* A leaf of a child goes: that child is cut.
LEMMA CutUnder ==
  ASSUME NEW look, NEW a, NEW b, Joinable(look, a, b), NEW j, Joins(j, look, a, b),
         NEW x \in {0, 1}, NEW at \in LeafPaths(Kid(x, a, b)), at # Root
  PROVE  LET new == Cut(Kid(x, a, b), at)
         IN  Joins(Cut(j, Under(x, at)), look, IF x = 0 THEN new ELSE a, IF x = 0 THEN b ELSE new)
<1> DEFINE kid(y) == Kid(y, a, b)
           new == Cut(kid(x), at)
           after(y) == Kid(y, IF x = 0 THEN new ELSE a, IF x = 0 THEN b ELSE new)
           parent == S!Front(at)
           side == 1 - S!Last(at)
           k == Cut(j, Under(x, at))
<1>1. \A y \in {0, 1} : Tree(kid(y)) /\ Paths(kid(y)) \subseteq Path
  BY TreePaths DEF Joinable, Kid
<1>2. at \in Path
  BY <1>1, TreePaths
<1>3. parent \in Path /\ side \in {0, 1} /\ S!Last(at) \in {0, 1}
  BY <1>2, FrontIs
<1>4. /\ Paths(new) = {p \in Path : Source(parent, side, p) \in Paths(kid(x))}
      /\ new = [p \in Paths(new) |-> kid(x)[Source(parent, side, p)]]
  BY <1>1, <1>2, CutIs
<1>5. /\ Under(x, at) \in Path /\ Under(x, at) # Root
      /\ S!Front(Under(x, at)) = Under(x, parent) /\ S!Last(Under(x, at)) = S!Last(at)
  BY <1>2, UnderIs, UnderFront
<1>6. Paths(j) \subseteq Path
  BY DEF Joins
<1>7. /\ Paths(k) = {p \in Path : Source(Under(x, parent), side, p) \in Paths(j)}
      /\ k = [p \in Paths(k) |-> j[Source(Under(x, parent), side, p)]]
  <2> HIDE DEF Under
  <2> QED
    BY <1>5, <1>6, CutIs
<1>8. Source(Under(x, parent), side, Root) = Root /\ Root \in Path
  BY <1>3, SourceOfRoot, RootUnder
<1>9. \A y \in {0, 1}, p \in Path :
        /\ Source(Under(x, parent), side, Under(y, p))
             = IF x = y THEN Under(y, Source(parent, side, p)) ELSE Under(y, p)
        /\ Source(parent, side, p) \in Path
        /\ Under(y, p) \in Path
  <2>1. ASSUME NEW y \in {0, 1}, NEW p \in Path
        PROVE  Source(Under(x, parent), side, Under(y, p))
                 = IF x = y THEN Under(y, Source(parent, side, p)) ELSE Under(y, p)
    <3> HIDE DEF parent, side
    <3> QED
      BY <1>3, SourceUnder
  <2>2. \A p \in Path : Source(parent, side, p) \in Path
    <3> HIDE DEF parent, side
    <3> QED
      BY <1>3, SourceIs
  <2>3. \A y \in {0, 1}, p \in Path : Under(y, p) \in Path
    BY UnderIs
  <2> HIDE DEF parent, side, Under
  <2> QED
    BY <2>1, <2>2, <2>3
<1>10. \A y \in {0, 1} : after(y) = IF y = x THEN new ELSE kid(y)
  BY DEF Kid
<1> HIDE DEF new, after, parent, side, k, kid, Under
<1>11. Root \in Paths(k) /\ k[Root] = look
  BY <1>7, <1>8 DEF Joins
<1>12. ASSUME NEW y \in {0, 1}, NEW p \in Path
       PROVE  /\ Under(y, p) \in Paths(k) <=> p \in Paths(after(y))
              /\ Under(y, p) \in Paths(k) => k[Under(y, p)] = after(y)[p]
  <2>1. CASE x = y
    <3>1. Source(Under(x, parent), side, Under(y, p)) = Under(y, Source(parent, side, p))
      BY <1>9, <2>1
    <3>2. /\ Under(y, Source(parent, side, p)) \in Paths(j) <=> Source(parent, side, p) \in Paths(kid(x))
          /\ Source(parent, side, p) \in Paths(kid(x)) =>
               j[Under(y, Source(parent, side, p))] = kid(x)[Source(parent, side, p)]
      BY <1>9, <2>1 DEF Joins, kid
    <3> QED
      BY <1>4, <1>7, <1>9, <1>10, <2>1, <3>1, <3>2
  <2>2. CASE x # y
    <3>1. Source(Under(x, parent), side, Under(y, p)) = Under(y, p)
      BY <1>9, <2>2
    <3>2. /\ Under(y, p) \in Paths(j) <=> p \in Paths(kid(y))
          /\ p \in Paths(kid(y)) => j[Under(y, p)] = kid(y)[p]
      BY DEF Joins, kid
    <3> QED
      BY <1>7, <1>9, <1>10, <2>2, <3>1, <3>2
  <2> QED
    BY <2>1, <2>2
<1>13. \A y \in {0, 1} : Paths(after(y)) \subseteq Path
  BY <1>1, <1>4, <1>10
<1>14. k = [p \in Paths(k) |-> k[p]] /\ Paths(k) \subseteq Path
  BY <1>7
<1> QED
  BY <1>11, <1>12, <1>13, <1>14 DEF Joins, after, k, new, kid

\* A child that is only a leaf goes: the other child is what is left.
LEMMA CutRoot ==
  ASSUME NEW look, NEW a, NEW b, Joinable(look, a, b), NEW j, Joins(j, look, a, b), NEW x \in {0, 1}
  PROVE  Cut(j, Under(x, Root)) = Kid(1 - x, a, b)
<1> DEFINE other == Kid(1 - x, a, b)
           u == Under(x, Root)
           k == Cut(j, u)
<1>1. u = Append(Root, x) /\ Root \in Path /\ 1 - x \in {0, 1}
  BY RootUnder DEF Child
<1>2. u \in Path /\ u # Root /\ S!Front(u) = Root /\ S!Last(u) = x
  BY <1>1, StepIs
<1> HIDE DEF u
<1>3. Paths(j) \subseteq Path
  BY DEF Joins
<1>4. /\ Paths(k) = {p \in Path : Source(Root, 1 - x, p) \in Paths(j)}
      /\ k = [p \in Paths(k) |-> j[Source(Root, 1 - x, p)]]
  BY <1>2, <1>3, CutIs
<1>5. \A p \in Path : Source(Root, 1 - x, p) = Under(1 - x, p)
  BY <1>1, SourceRoot
<1>6. other = [p \in Paths(other) |-> other[p]] /\ Paths(other) \subseteq Path
  BY <1>1, TreePaths DEF Joinable, Tree, Kid
<1> HIDE DEF k, Under, other
<1>7. Paths(k) = Paths(other)
  BY <1>1, <1>4, <1>5, <1>6 DEF Joins, other
<1>8. \A p \in Paths(k) : j[Source(Root, 1 - x, p)] = other[p]
  BY <1>1, <1>5, <1>6, <1>7 DEF Joins, other
<1>9. k = other
  BY <1>4, <1>6, <1>7, <1>8
<1> QED
  BY <1>9 DEF k, u, other

\* Remove of a split as model.go has it: both children, then the lift.
LEMMA RemoveJoin ==
  ASSUME NEW look, NEW a, NEW b, Joinable(look, a, b), NEW id \in Pane
  PROVE  Removed(Join(look, a, b), id) =
           IF Removed(a, id) = nil THEN Removed(b, id)
           ELSE IF Removed(b, id) = nil THEN Removed(a, id)
           ELSE Join(look, Removed(a, id), Removed(b, id))
<1> DEFINE j == Join(look, a, b)
           kid(y) == Kid(y, a, b)
<1>1. /\ Tree(a) /\ Tree(b) /\ a # nil /\ b # nil /\ Panes(a) \cap Panes(b) = {}
      /\ Paths(a) \subseteq Path /\ Paths(b) \subseteq Path
  BY TreePaths DEF Joinable
<1>2. Joins(j, look, a, b)
  BY <1>1, JoinIs
<1>3. Panes(j) = Panes(a) \cup Panes(b)
  BY <1>2, JoinPanes
<1> HIDE DEF j
<1>4. CASE id \notin Panes(j)
  BY <1>1, <1>3, <1>4 DEF Removed, j
<1>5. ASSUME NEW x \in {0, 1}, id \in Panes(kid(x))
      PROVE  LET new == Remove(kid(x), id)
             IN  /\ Removed(j, id) = Remove(j, id)
                 /\ new = nil => Remove(j, id) = kid(1 - x)
                 /\ new # nil => Remove(j, id) = Join(look, IF x = 0 THEN new ELSE a, IF x = 0 THEN b ELSE new)
  <2> DEFINE at == Find(kid(x), id)
  <2>1. Tree(kid(x)) /\ id \in Panes(j)
    BY <1>1, <1>3, <1>5 DEF Kid
  <2>2. at \in LeafPaths(kid(x)) /\ at \in Path
    BY <1>5, <2>1, FindPane, TreePaths
  <2>3. Find(j, id) = Under(x, at)
    BY <1>2, <1>5, JoinFind
  <2>4. Removed(j, id) = Remove(j, id)
    BY <2>1 DEF Removed
  <2>5. Remove(j, id) = Cut(j, Under(x, at)) /\ Remove(kid(x), id) = Cut(kid(x), at)
    BY <2>3 DEF Remove
  <2> HIDE DEF at, Under
  <2>6. CASE at = Root
    <3>1. Remove(kid(x), id) = nil
      BY <2>5, <2>6 DEF Cut
    <3>2. Remove(j, id) = kid(1 - x)
      BY <1>2, <2>5, <2>6, CutRoot
    <3> QED
      BY <2>4, <3>1, <3>2
  <2>7. CASE at # Root
    <3> DEFINE new == Cut(kid(x), at)
               na == IF x = 0 THEN new ELSE a
               nb == IF x = 0 THEN b ELSE new
    <3>1. new # nil
      BY <2>1, <2>2, <2>7, CutLeaves
    <3>2. Joins(Cut(j, Under(x, at)), look, na, nb)
      BY <1>2, <2>2, <2>7, CutUnder
    <3>3. Paths(new) \subseteq Path
      <4>1. Tree(Remove(kid(x), id))
        BY <1>5, <2>1, RemoveIs
      <4> QED
        BY <2>5, <4>1, TreePaths
    <3> HIDE DEF new
    <3>4. Paths(na) \subseteq Path /\ Paths(nb) \subseteq Path
      BY <1>1, <3>3
    <3> HIDE DEF na, nb
    <3>5. Cut(j, Under(x, at)) = Join(look, na, nb)
      BY <3>2, <3>4, JoinOnly
    <3> QED
      BY <2>4, <2>5, <3>1, <3>5 DEF new, na, nb
  <2> QED
    BY <2>6, <2>7
<1>6. CASE id \in Panes(a)
  <2>1. kid(0) = a /\ kid(1 - 0) = b /\ id \notin Panes(b)
    BY <1>1, <1>6 DEF Kid
  <2>2. Removed(a, id) = Remove(a, id) /\ Removed(b, id) = b
    BY <1>6, <2>1 DEF Removed
  <2> HIDE DEF kid
  <2>3. /\ Remove(a, id) = nil => Removed(j, id) = b
        /\ Remove(a, id) # nil => Removed(j, id) = Join(look, Remove(a, id), b)
    BY <1>5, <1>6, <2>1
  <2> QED
    BY <1>1, <2>2, <2>3 DEF j
<1>7. CASE id \in Panes(b)
  <2>1. kid(1) = b /\ kid(1 - 1) = a /\ id \notin Panes(a)
    BY <1>1, <1>7 DEF Kid
  <2>2. Removed(b, id) = Remove(b, id) /\ Removed(a, id) = a
    BY <1>7, <2>1 DEF Removed
  <2> HIDE DEF kid
  <2>3. /\ Remove(b, id) = nil => Removed(j, id) = a
        /\ Remove(b, id) # nil => Removed(j, id) = Join(look, a, Remove(b, id))
    BY <1>5, <1>7, <2>1
  <2> QED
    BY <1>1, <2>2, <2>3 DEF j
<1> QED
  BY <1>3, <1>4, <1>6, <1>7

\* All layouts, as a set.
Layouts == {lay \in UNION {[D -> Pane \cup Look] : D \in SUBSET Path} : Tree(lay)}

\* Every layout is among them.
LEMMA LayoutsAre ==
  ASSUME NEW lay
  PROVE  lay \in Layouts <=> Tree(lay)
<1>1. ASSUME Tree(lay) PROVE lay \in UNION {[D -> Pane \cup Look] : D \in SUBSET Path}
  <2>1. Paths(lay) \subseteq Path
    BY <1>1, TreePaths
  <2>2. \A p \in Paths(lay) : lay[p] \in Pane \cup Look
    <3>1. \A p \in Paths(lay) : p \in Splits(lay) \/ p \in LeafPaths(lay)
      BY DEF LeafPaths
    <3> QED
      BY <1>1, <3>1, TreePaths
  <2>3. lay = [p \in Paths(lay) |-> lay[p]]
    BY <1>1 DEF Tree
  <2>4. lay \in [Paths(lay) -> Pane \cup Look]
    BY <2>2, <2>3
  <2> QED
    BY <2>1, <2>4
<1> QED
  BY <1>1 DEF Layouts

\* The child of the root on one side.
Below(lay, x) == [p \in {q \in Path : Under(x, q) \in Paths(lay)} |-> lay[Under(x, p)]]

\* The child of a split is a layout.
LEMMA BelowIs ==
  ASSUME NEW lay, Tree(lay), Root \in Splits(lay), NEW x \in {0, 1}
  PROVE  LET b == Below(lay, x)
         IN  /\ Tree(b) /\ b # nil
             /\ \A p \in Path : p \in Paths(b) <=> Under(x, p) \in Paths(lay)
             /\ \A p \in Paths(b) : b[p] = lay[Under(x, p)]
             /\ \A p \in LeafPaths(b) : p \in Path /\ Under(x, p) \in LeafPaths(lay)
             /\ Under(x, Root) \in Paths(lay)
<1> DEFINE b == Below(lay, x)
<1>1. /\ b = [p \in Paths(b) |-> b[p]] /\ Paths(b) \subseteq Path
      /\ \A p \in Path : p \in Paths(b) <=> Under(x, p) \in Paths(lay)
      /\ \A p \in Paths(b) : b[p] = lay[Under(x, p)]
  BY DEF Below, Paths
<1> HIDE DEF b
<1>2. \A p \in Path, y \in {0, 1} : Append(p, y) \in Path /\ Append(Under(x, p), y) = Under(x, Append(p, y))
  BY UnderStep, StepIs DEF Child
<1>3. \A p \in Path : Under(x, p) \in Path /\ Len(Under(x, p)) = Len(p) + 1 /\ Len(p) \in Nat
  BY UnderIs, PathIs
<1>4. Under(x, Root) \in Paths(lay) /\ Root \in Path
  <2>1. Root \in Path /\ Under(x, Root) = Append(Root, x)
    BY RootUnder DEF Child
  <2>2. Append(Root, x) \in Paths(lay)
    BY <2>1, ChildIs
  <2> QED
    BY <2>1, <2>2
<1> HIDE DEF Under
<1>5. Root \in Paths(b)
  BY <1>1, <1>4
<1>6. ASSUME NEW p \in Path
      PROVE  /\ p \in Splits(b) <=> Under(x, p) \in Splits(lay)
             /\ p \in LeafPaths(b) <=> Under(x, p) \in LeafPaths(lay)
  <2>1. Append(p, 0) \in Path /\ Append(Under(x, p), 0) = Under(x, Append(p, 0))
    BY <1>2
  <2>2. p \in Splits(b) <=> Under(x, p) \in Splits(lay)
    BY <1>1, <2>1 DEF Splits, First
  <2> QED
    BY <1>1, <2>2 DEF LeafPaths
<1>7. ASSUME NEW f \in Path, NEW y \in {0, 1}, Append(f, y) \in Paths(b)
      PROVE  f \in Paths(b) /\ First(f) \in Paths(b) /\ Second(f) \in Paths(b)
  <2>1. Append(Under(x, f), y) \in Paths(lay) /\ Under(x, f) \in Path
    BY <1>1, <1>2, <1>3, <1>7
  <2>2. Under(x, f) \in Splits(lay)
    BY <2>1, ChildIs
  <2>3. Append(Under(x, f), 0) \in Paths(lay) /\ Append(Under(x, f), 1) \in Paths(lay) /\ Under(x, f) \in Paths(lay)
    BY <2>1, <2>2, ChildIs, TreePaths
  <2> QED
    BY <1>1, <1>2, <2>3 DEF First, Second
<1>8. \E n \in Nat : \A p \in Paths(b) : Len(p) <= n
  <2>1. PICK n \in Nat : \A p \in Paths(lay) : Len(p) <= n
    BY DEF Tree
  <2>2. \A p \in Paths(b) : Len(p) <= n
    BY <1>1, <1>3, <2>1
  <2> QED
    BY <2>2
<1>9. \A p \in Splits(b) : b[p] \in Look
  <2>1. \A p \in Splits(b) : p \in Paths(b) /\ p \in Path
    BY <1>1 DEF Splits
  <2> QED
    BY <1>1, <1>6, <2>1, TreePaths
<1>10. \A p \in LeafPaths(b) : p \in Paths(b) /\ p \in Path /\ Under(x, p) \in LeafPaths(lay)
  <2>1. \A p \in LeafPaths(b) : p \in Paths(b) /\ p \in Path
    BY <1>1 DEF LeafPaths
  <2> QED
    BY <1>6, <2>1
<1>11. \A p \in LeafPaths(b) : b[p] \in Pane
  BY <1>1, <1>10, TreePaths
<1>12. ASSUME NEW p \in LeafPaths(b), NEW q \in LeafPaths(b), b[p] = b[q] PROVE p = q
  <2>1. Under(x, p) = Under(x, q)
    BY <1>1, <1>10, <1>12, TreePaths
  <2> QED
    BY <1>10, <2>1, UnderInjective
<1>13. Tree(b)
  BY <1>1, <1>5, <1>7, <1>8, <1>9, <1>11, <1>12, TreeIf
<1>14. b # nil
  <2>1. Paths(nil) = {}
    BY DEF Paths, nil
  <2> QED
    BY <1>5, <2>1
<1> QED
  BY <1>1, <1>4, <1>10, <1>13, <1>14 DEF b

\* A layout with a split at its root is made of two others.
LEMMA SplitRoot ==
  ASSUME NEW lay, Tree(lay), Root \in Splits(lay)
  PROVE  /\ Joinable(lay[Root], Below(lay, 0), Below(lay, 1))
         /\ lay = Join(lay[Root], Below(lay, 0), Below(lay, 1))
<1> DEFINE a == Below(lay, 0)
           b == Below(lay, 1)
           look == lay[Root]
<1>1. \A x \in {0, 1} :
        /\ Tree(Kid(x, a, b)) /\ Kid(x, a, b) # nil
        /\ \A p \in Path : p \in Paths(Kid(x, a, b)) <=> Under(x, p) \in Paths(lay)
        /\ \A p \in Paths(Kid(x, a, b)) : Kid(x, a, b)[p] = lay[Under(x, p)]
        /\ \A p \in LeafPaths(Kid(x, a, b)) : p \in Path /\ Under(x, p) \in LeafPaths(lay)
  <2> TAKE x \in {0, 1}
  <2>1. Kid(x, a, b) = Below(lay, x)
    BY DEF Kid
  <2> HIDE DEF a, b
  <2> QED
    BY <2>1, BelowIs
<1> HIDE DEF a, b, Under
<1>2. Panes(a) \cap Panes(b) = {}
  <2>1. ASSUME NEW y \in Panes(a), y \in Panes(b) PROVE FALSE
    <3>1. PICK p \in LeafPaths(Kid(0, a, b)) : y = Kid(0, a, b)[p]
      BY DEF Panes, Kid
    <3>2. PICK q \in LeafPaths(Kid(1, a, b)) : y = Kid(1, a, b)[q]
      BY <2>1 DEF Panes, Kid
    <3>3. p \in Path /\ q \in Path /\ Under(0, p) \in LeafPaths(lay) /\ Under(1, q) \in LeafPaths(lay)
      BY <1>1
    <3>4. y = lay[Under(0, p)] /\ y = lay[Under(1, q)]
      BY <1>1, <3>1, <3>2 DEF LeafPaths
    <3>5. Under(0, p) = Under(1, q)
      BY <3>3, <3>4, TreePaths
    <3> QED
      BY <3>3, <3>5, UnderInjective
  <2> QED
    BY <2>1
<1>3. Joinable(look, a, b)
  <2>1. Kid(0, a, b) = a /\ Kid(1, a, b) = b
    BY DEF Kid
  <2>2. Tree(a) /\ Tree(b) /\ a # nil /\ b # nil
    BY <1>1, <2>1
  <2>3. look \in Look
    BY TreePaths
  <2> QED
    BY <1>2, <2>2, <2>3 DEF Joinable
<1>4. Joins(lay, look, a, b)
  <2>1. lay = [p \in Paths(lay) |-> lay[p]] /\ Paths(lay) \subseteq Path /\ Root \in Paths(lay)
    BY TreePaths DEF Tree, Splits
  <2> QED
    BY <1>1, <2>1 DEF Joins
<1>5. lay = Join(look, a, b)
  BY <1>3, <1>4, TreePaths, JoinOnly DEF Joinable
<1> QED
  BY <1>3, <1>5 DEF a, b

\* A layout whose root is no split is one leaf.
LEMMA LeafRoot ==
  ASSUME NEW lay, Tree(lay), lay # nil, Root \notin Splits(lay)
  PROVE  \E x \in Pane : lay = Leaf(x)
<1>1. Root \in LeafPaths(lay) /\ Paths(lay) = {Root}
  BY RootIs DEF LeafPaths
<1>2. lay[Root] \in Pane /\ lay = [p \in Paths(lay) |-> lay[p]]
  BY <1>1, TreePaths DEF Tree
<1>3. lay = Leaf(lay[Root])
  <2>1. lay = [p \in {Root} |-> lay[p]]
    BY <1>1, <1>2
  <2> QED
    BY <2>1 DEF Leaf
<1> QED
  BY <1>2, <1>3

(***************************************************************************)
(* Induction on layouts: what nil and every leaf have, and a split has     *)
(* whose children have it, every layout has.                               *)
(***************************************************************************)
LEMMA LayoutInduction ==
  ASSUME NEW G, nil \in G, \A x \in Pane : Leaf(x) \in G,
         \A look \in Look : \A a, b \in G \cap Layouts : Joinable(look, a, b) => Join(look, a, b) \in G
  PROVE  Layouts \subseteq G
<1> DEFINE deep(lay, n) == \A p \in Paths(lay) : Len(p) <= n
           B == {n \in Nat : \E lay \in Layouts : lay \notin G /\ deep(lay, n)}
<1>1. ASSUME B # {} PROVE FALSE
  <2>1. PICK n \in B : \A m \in B : ~(<<m, n>> \in OpToRel(<, Nat))
    <3>1. B \subseteq Nat
      OBVIOUS
    <3> HIDE DEF B
    <3> QED
      BY <1>1, <3>1, NatLessThanWellFounded, WFMin
  <2>2. \A m \in B : ~(m < n)
    BY <2>1 DEF OpToRel
  <2>3. PICK lay \in Layouts : lay \notin G /\ deep(lay, n)
    BY <2>1
  <2>4. Tree(lay) /\ lay # nil
    BY <2>3, LayoutsAre
  <2>5. Root \in Splits(lay)
    BY <2>3, <2>4, LeafRoot
  <2> DEFINE a == Below(lay, 0)
             b == Below(lay, 1)
  <2>6. Joinable(lay[Root], a, b) /\ lay = Join(lay[Root], a, b)
    BY <2>4, <2>5, SplitRoot
  <2>7. n \in Nat /\ n >= 1
    <3>1. Under(0, Root) \in Paths(lay)
      BY <2>4, <2>5, BelowIs
    <3>2. Len(Under(0, Root)) = Len(Root) + 1 /\ Len(Root) = 0
      BY RootUnder, UnderIs
    <3> HIDE DEF Under
    <3> QED
      BY <2>3, <3>1, <3>2
  <2>8. ASSUME NEW x \in {0, 1} PROVE deep(Below(lay, x), n - 1)
    <3>1. ASSUME NEW p \in Paths(Below(lay, x)) PROVE Len(p) <= n - 1
      <4>1. p \in Path
        BY <2>4, <2>5, BelowIs, TreePaths
      <4>2. Under(x, p) \in Paths(lay)
        BY <2>4, <2>5, <4>1, BelowIs
      <4>3. Len(Under(x, p)) = Len(p) + 1 /\ Len(p) \in Nat
        BY <4>1, UnderIs, PathIs
      <4> HIDE DEF Under
      <4> QED
        BY <2>3, <2>7, <4>2, <4>3
    <3> QED
      BY <3>1
  <2>9. a \in Layouts /\ b \in Layouts
    BY <2>6, LayoutsAre DEF Joinable
  <2>10. n - 1 \in Nat /\ n - 1 \notin B
    <3>1. n - 1 \in Nat /\ n - 1 < n
      BY <2>7
    <3> HIDE DEF B
    <3> QED
      BY <2>2, <3>1
  <2>11. a \in G /\ b \in G
    <3>1. deep(a, n - 1) /\ deep(b, n - 1)
      BY <2>8
    <3> HIDE DEF a, b, deep
    <3> QED
      BY <2>9, <2>10, <3>1
  <2>12. lay[Root] \in Look
    BY <2>6 DEF Joinable
  <2> HIDE DEF a, b
  <2>13. Join(lay[Root], a, b) \in G
    BY <2>6, <2>9, <2>11, <2>12
  <2> QED
    BY <2>3, <2>6, <2>13
<1>2. ASSUME NEW lay \in Layouts PROVE lay \in G
  <2>1. PICK n \in Nat : deep(lay, n)
    BY LayoutsAre DEF Tree
  <2> QED
    BY <1>1, <2>1
<1> QED
  BY <1>2

\* The nil layout and a layout of one pane.
LEMMA NilAndLeaf ==
  /\ nil \in Layouts /\ Panes(nil) = {}
  /\ \A x \in Pane : Leaf(x) \in Layouts /\ Panes(Leaf(x)) = {x} /\ Find(Leaf(x), x) = Root /\ Leaf(x) # nil
<1>1. Tree(nil) /\ Panes(nil) = {}
  BY NilIs
<1>2. ASSUME NEW x \in Pane
      PROVE  Tree(Leaf(x)) /\ Panes(Leaf(x)) = {x} /\ Find(Leaf(x), x) = Root /\ Leaf(x) # nil
  <2>1. Tree(Leaf(x)) /\ Panes(Leaf(x)) = {x}
    BY LeafIs
  <2>2. Find(Leaf(x), x) \in Paths(Leaf(x))
    BY <2>1, FindPane, TreePaths
  <2>3. Paths(Leaf(x)) = {Root} /\ Paths(nil) = {}
    BY DEF Leaf, Paths, nil
  <2> QED
    BY <2>1, <2>2, <2>3
<1> QED
  BY <1>1, <1>2, LayoutsAre

\* Children that have no pane in common make a layout.
LEMMA JoinLayout ==
  ASSUME NEW look \in Look, NEW a \in Layouts, NEW b \in Layouts, Joinable(look, a, b)
  PROVE  /\ Join(look, a, b) \in Layouts
         /\ Joins(Join(look, a, b), look, a, b)
         /\ Panes(Join(look, a, b)) = Panes(a) \cup Panes(b)
         /\ Panes(a) \cap Panes(b) = {}
<1>1. Paths(a) \subseteq Path /\ Paths(b) \subseteq Path
  BY LayoutsAre, TreePaths
<1>2. Joins(Join(look, a, b), look, a, b)
  BY <1>1, JoinIs
<1>3. Tree(Join(look, a, b))
  BY <1>2, JoinTree
<1> QED
  BY <1>2, <1>3, JoinPanes, LayoutsAre DEF Joinable

\* Remove of model.go, as equations for a function on layouts. The code overwrites the
\* node with what is left of it, which is Join again.
RemoveAsWritten(remove, id) ==
  /\ remove[nil] = nil
  /\ \A x \in Pane : remove[Leaf(x)] = IF x = id THEN nil ELSE Leaf(x)
  /\ \A look \in Look, a, b \in Layouts : Joinable(look, a, b) =>
       remove[Join(look, a, b)] = IF remove[a] = nil THEN remove[b]
                                  ELSE IF remove[b] = nil THEN remove[a]
                                  ELSE Join(look, remove[a], remove[b])

\* Remove as the recursion has it is Remove by paths, of which the other proofs speak: the
\* cut below one child, the sibling in the place of its parent, and nothing for a pane
\* that is elsewhere, for layouts of any depth.
THEOREM RemoveIsRecursive ==
  ASSUME NEW id \in Pane, NEW remove \in [Layouts -> Layouts]
  PROVE  /\ [lay \in Layouts |-> Removed(lay, id)] \in [Layouts -> Layouts]
         /\ RemoveAsWritten(remove, id) <=> remove = [lay \in Layouts |-> Removed(lay, id)]
<1>1. Removed(nil, id) = nil
  BY NilAndLeaf DEF Removed
<1>2. ASSUME NEW x \in Pane PROVE Removed(Leaf(x), id) = IF x = id THEN nil ELSE Leaf(x)
  <2>1. CASE x = id
    BY <2>1, NilAndLeaf DEF Removed, Remove, Cut
  <2>2. CASE x # id
    BY <2>2, NilAndLeaf DEF Removed
  <2> QED
    BY <2>1, <2>2
<1>3. ASSUME remove = [lay \in Layouts |-> Removed(lay, id)] PROVE RemoveAsWritten(remove, id)
  <2>1. \A lay \in Layouts : remove[lay] = Removed(lay, id)
    BY <1>3
  <2>2. \A look \in Look, a, b \in Layouts : Joinable(look, a, b) =>
          remove[Join(look, a, b)] = IF remove[a] = nil THEN remove[b]
                                     ELSE IF remove[b] = nil THEN remove[a]
                                     ELSE Join(look, remove[a], remove[b])
    BY <2>1, JoinLayout, RemoveJoin
  <2> QED
    BY <1>1, <1>2, <2>1, <2>2, NilAndLeaf DEF RemoveAsWritten
<1>4. ASSUME RemoveAsWritten(remove, id) PROVE remove = [lay \in Layouts |-> Removed(lay, id)]
  <2> DEFINE G == {lay \in Layouts : remove[lay] = Removed(lay, id)}
  <2>1. nil \in G /\ \A x \in Pane : Leaf(x) \in G
    BY <1>1, <1>2, <1>4, NilAndLeaf DEF RemoveAsWritten
  <2>2. ASSUME NEW look \in Look, NEW a \in G \cap Layouts, NEW b \in G \cap Layouts, Joinable(look, a, b)
        PROVE  Join(look, a, b) \in G
    BY <1>4, <2>2, JoinLayout, RemoveJoin DEF RemoveAsWritten
  <2>3. Layouts \subseteq G
    <3> HIDE DEF G
    <3> QED
      BY <2>1, <2>2, LayoutInduction
  <2> QED
    BY <2>3
<1>5. \A lay \in Layouts : Removed(lay, id) \in Layouts
  BY LayoutsAre, RemoveIs DEF Removed
<1> QED
  BY <1>3, <1>4, <1>5

\* Find of model.go: the way to the node it returns, or none for nil.
FindAsWritten(find, id, none) ==
  /\ find[nil] = none
  /\ \A x \in Pane : find[Leaf(x)] = IF x = id THEN Root ELSE none
  /\ \A look \in Look, a, b \in Layouts : Joinable(look, a, b) =>
       find[Join(look, a, b)] = IF find[a] # none THEN Under(0, find[a])
                                ELSE IF find[b] # none THEN Under(1, find[b])
                                ELSE none

\* Find as the recursion has it, the first child before the second, finds exactly the panes
\* of the layout, each at its leaf, for layouts of any depth.
THEOREM FindIsRecursive ==
  ASSUME NEW id \in Pane, NEW none, none \notin Path, NEW find \in [Layouts -> Path \cup {none}]
  PROVE  LET found == [lay \in Layouts |-> IF id \in Panes(lay) THEN Find(lay, id) ELSE none]
         IN  found \in [Layouts -> Path \cup {none}] /\ (FindAsWritten(find, id, none) <=> find = found)
<1> DEFINE found(lay) == IF id \in Panes(lay) THEN Find(lay, id) ELSE none
<1>1. found(nil) = none /\ \A x \in Pane : found(Leaf(x)) = IF x = id THEN Root ELSE none
  BY NilAndLeaf
<1>2. \A lay \in Layouts : found(lay) # none <=> id \in Panes(lay)
  BY LayoutsAre, FindPane, TreePaths
<1>3. ASSUME NEW look \in Look, NEW a \in Layouts, NEW b \in Layouts, Joinable(look, a, b)
      PROVE  found(Join(look, a, b)) = IF found(a) # none THEN Under(0, found(a))
                                       ELSE IF found(b) # none THEN Under(1, found(b))
                                       ELSE none
  <2> DEFINE j == Join(look, a, b)
  <2>1. /\ Joins(j, look, a, b) /\ Panes(j) = Panes(a) \cup Panes(b) /\ Panes(a) \cap Panes(b) = {}
    BY <1>3, JoinLayout
  <2> HIDE DEF j, Under
  <2>2. id \in Panes(a) => Find(j, id) = Under(0, Find(a, id))
    <3>1. Kid(0, a, b) = a
      BY DEF Kid
    <3> QED
      BY <1>3, <2>1, <3>1, JoinFind
  <2>3. id \in Panes(b) => Find(j, id) = Under(1, Find(b, id))
    <3>1. Kid(1, a, b) = b
      BY DEF Kid
    <3> QED
      BY <1>3, <2>1, <3>1, JoinFind
  <2> QED
    BY <1>2, <2>1, <2>2, <2>3 DEF j
<1>6. \A lay \in Layouts : found(lay) \in Path \cup {none}
  BY LayoutsAre, FindPane, TreePaths
<1> HIDE DEF found, Under
<1>4. ASSUME find = [lay \in Layouts |-> found(lay)] PROVE FindAsWritten(find, id, none)
  <2>1. \A lay \in Layouts : find[lay] = found(lay)
    BY <1>4
  <2>2. \A look \in Look, a, b \in Layouts : Joinable(look, a, b) =>
          find[Join(look, a, b)] = IF find[a] # none THEN Under(0, find[a])
                                   ELSE IF find[b] # none THEN Under(1, find[b])
                                   ELSE none
    BY <1>3, <2>1, JoinLayout
  <2> QED
    BY <1>1, <2>1, <2>2, NilAndLeaf DEF FindAsWritten
<1>5. ASSUME FindAsWritten(find, id, none) PROVE find = [lay \in Layouts |-> found(lay)]
  <2> DEFINE G == {lay \in Layouts : find[lay] = found(lay)}
  <2>1. nil \in G /\ \A x \in Pane : Leaf(x) \in G
    BY <1>1, <1>5, NilAndLeaf DEF FindAsWritten
  <2>2. ASSUME NEW look \in Look, NEW a \in G \cap Layouts, NEW b \in G \cap Layouts, Joinable(look, a, b)
        PROVE  Join(look, a, b) \in G
    BY <1>3, <1>5, <2>2, JoinLayout DEF FindAsWritten
  <2>3. Layouts \subseteq G
    <3> HIDE DEF G
    <3> QED
      BY <2>1, <2>2, LayoutInduction
  <2> QED
    BY <2>3
<1> QED
  BY <1>4, <1>5, <1>6 DEF found

\* There is one way to a leaf that goes first all along.
LEMMA FirstOnce ==
  ASSUME NEW lay, Tree(lay), NEW p \in LeafPaths(lay), \A i \in DOMAIN p : p[i] = 0
  PROVE  FirstPane(lay) = lay[p]
<1>1. ASSUME NEW q \in LeafPaths(lay), \A i \in DOMAIN q : q[i] = 0 PROVE q = p
  <2>1. /\ p \in Paths(lay) /\ q \in Paths(lay)
        /\ Len(p) \in Nat /\ DOMAIN p = 1..Len(p) /\ Len(q) \in Nat /\ DOMAIN q = 1..Len(q)
    BY TreePaths, PathIs
  <2>2. (\A i \in 1..Len(p) : p[i] = 0) /\ (\A i \in 1..Len(q) : q[i] = 0)
    BY <1>1, <2>1
  <2>3. Extends(p, q) \/ Extends(q, p)
    BY <2>1, <2>2 DEF Extends
  <2> QED
    BY <1>1, <2>1, <2>3, LeafEnds
<1> QED
  BY <1>1 DEF FirstPane

\* The first pane of a split is that of its first child.
LEMMA JoinFirst ==
  ASSUME NEW look, NEW a, NEW b, Joinable(look, a, b), NEW j, Joins(j, look, a, b)
  PROVE  FirstPane(j) = FirstPane(a)
<1>1. PICK p \in LeafPaths(a) : \A i \in DOMAIN p : p[i] = 0
  BY FirstWay DEF Joinable
<1>2. FirstPane(a) = a[p] /\ p \in Path /\ p \in Paths(a)
  BY <1>1, FirstOnce, TreePaths DEF Joinable
<1>3. Tree(j) /\ Kid(0, a, b) = a
  BY JoinTree DEF Kid
<1>4. Under(0, p) \in LeafPaths(j) /\ j[Under(0, p)] = a[p]
  <2> HIDE DEF Under
  <2> QED
    BY <1>2, <1>3, JoinNodes DEF Joins
<1>5. \A i \in DOMAIN Under(0, p) : Under(0, p)[i] = 0
  <2> DEFINE u == Under(0, p)
  <2>1. /\ u \in Path /\ Len(u) = Len(p) + 1 /\ u[1] = 0 /\ \A i \in 1..Len(p) : u[i + 1] = p[i]
    BY <1>2, UnderIs
  <2>2. DOMAIN u = 1..(Len(p) + 1) /\ Len(p) \in Nat /\ DOMAIN p = 1..Len(p)
    BY <1>2, <2>1, PathIs
  <2> HIDE DEF u
  <2>3. ASSUME NEW i \in DOMAIN u PROVE u[i] = 0
    <3>1. CASE i = 1
      BY <2>1, <3>1
    <3>2. CASE i # 1
      <4>1. i - 1 \in 1..Len(p) /\ i = (i - 1) + 1
        BY <2>2, <3>2
      <4>2. u[i] = p[i - 1] /\ p[i - 1] = 0
        BY <1>1, <2>1, <2>2, <4>1
      <4> QED
        BY <4>2
    <3> QED
      BY <3>1, <3>2
  <2> QED
    BY <2>3 DEF u
<1> HIDE DEF Under
<1> QED
  BY <1>2, <1>3, <1>4, <1>5, FirstOnce

\* Leaves of model.go.
LeavesAsWritten(leaves) ==
  /\ leaves[nil] = <<>>
  /\ \A x \in Pane : leaves[Leaf(x)] = <<x>>
  /\ \A look \in Look, a, b \in Layouts : Joinable(look, a, b) =>
       leaves[Join(look, a, b)] = leaves[a] \o leaves[b]

\* A list of the panes of a layout, each once, in the order of PaneOrder.
Lists(list, lay) ==
  /\ \A i \in 1..Len(list) : list[i] \in Panes(lay)
  /\ \A x \in Panes(lay) : \E i \in 1..Len(list) : list[i] = x
  /\ \A i, k \in 1..Len(list) : i < k <=> <<list[i], list[k]>> \in PaneOrder(lay)
  /\ lay # nil => Len(list) > 0 /\ list[1] = FirstPane(lay)

\* PaneOrder of a split: that of the children, and the first child before the second.
LEMMA JoinOrder ==
  ASSUME NEW look, NEW a, NEW b, Joinable(look, a, b), NEW j, Joins(j, look, a, b),
         NEW x \in {0, 1}, NEW y \in {0, 1}, NEW p \in Panes(Kid(x, a, b)), NEW q \in Panes(Kid(y, a, b))
  PROVE  <<p, q>> \in PaneOrder(j) <=> x < y \/ (x = y /\ <<p, q>> \in PaneOrder(Kid(x, a, b)))
<1> DEFINE fp == Find(Kid(x, a, b), p)
           fq == Find(Kid(y, a, b), q)
<1>1. fp \in Path /\ fq \in Path
  BY FindPane, TreePaths DEF Joinable, Kid
<1>2. Find(j, p) = Under(x, fp) /\ Find(j, q) = Under(y, fq)
  BY JoinFind
<1>3. p \in Panes(j) /\ q \in Panes(j)
  BY JoinPanes DEF Kid
<1>4. <<p, q>> \in PaneOrder(j) <=> Precedes(Find(j, p), Find(j, q))
  BY <1>3 DEF PaneOrder
<1>5. x = y => (<<p, q>> \in PaneOrder(Kid(x, a, b)) <=> Precedes(fp, fq))
  BY DEF PaneOrder
<1> HIDE DEF fp, fq, Under
<1>6. Precedes(Under(x, fp), Under(y, fq)) <=> x < y \/ (x = y /\ Precedes(fp, fq))
  BY <1>1, UnderPrecedes
<1> QED
  BY <1>2, <1>4, <1>5, <1>6

\* The lists of two children, one after the other, list the split.
LEMMA ListsJoin ==
  ASSUME NEW look, NEW a, NEW b, Joinable(look, a, b), NEW j, Joins(j, look, a, b),
         NEW l \in Seq(Pane), NEW m \in Seq(Pane), Lists(l, a), Lists(m, b)
  PROVE  Lists(l \o m, j)
<1> DEFINE c == l \o m
<1>1. Len(l) \in Nat /\ Len(m) \in Nat
  OBVIOUS
<1>2. Len(c) = Len(l) + Len(m) /\ \A i \in 1..Len(c) : c[i] = IF i <= Len(l) THEN l[i] ELSE m[i - Len(l)]
  BY <1>1
<1> HIDE DEF c
<1>3. Panes(j) = Panes(a) \cup Panes(b) /\ FirstPane(j) = FirstPane(a) /\ a # nil
  BY JoinPanes, JoinFirst DEF Joinable
<1>4. \A i \in 1..Len(l) : i \in 1..Len(c) /\ c[i] = l[i] /\ l[i] \in Panes(a)
  BY <1>1, <1>2 DEF Lists
<1>5. \A i \in 1..Len(m) : i + Len(l) \in 1..Len(c) /\ c[i + Len(l)] = m[i] /\ m[i] \in Panes(b)
  <2> TAKE i \in 1..Len(m)
  <2>1. i + Len(l) \in 1..Len(c) /\ ~(i + Len(l) <= Len(l)) /\ (i + Len(l)) - Len(l) = i
    BY <1>1, <1>2
  <2>2. m[i] \in Panes(b)
    BY DEF Lists
  <2> QED
    BY <1>2, <2>1, <2>2
<1>6. \A i \in 1..Len(c) : i \in 1..Len(l) \/ (i > Len(l) /\ i - Len(l) \in 1..Len(m) /\ c[i] = m[i - Len(l)])
  BY <1>1, <1>2
<1>7. \A i \in 1..Len(c) : c[i] \in Panes(j)
  BY <1>3, <1>4, <1>5, <1>6
<1>8. ASSUME NEW x \in Panes(j) PROVE \E i \in 1..Len(c) : c[i] = x
  <2>1. CASE x \in Panes(a)
    BY <1>4, <2>1 DEF Lists
  <2>2. CASE x \in Panes(b)
    BY <1>5, <2>2 DEF Lists
  <2> QED
    BY <1>3, <2>1, <2>2
<1>9. ASSUME NEW i \in 1..Len(c), NEW k \in 1..Len(c)
      PROVE  i < k <=> <<c[i], c[k]>> \in PaneOrder(j)
  <2> DEFINE n == Len(l)
             side(h) == IF h <= n THEN 0 ELSE 1
             at(h) == IF h <= n THEN h ELSE h - n
             kid(x) == Kid(x, a, b)
             list(x) == IF x = 0 THEN l ELSE m
  <2>1. \A h \in 1..Len(c) :
          /\ side(h) \in {0, 1} /\ at(h) \in 1..Len(list(side(h)))
          /\ c[h] = list(side(h))[at(h)] /\ c[h] \in Panes(kid(side(h)))
    BY <1>1, <1>2, <1>4, <1>6 DEF Lists, Kid
  <2>2. side(i) = side(k) => (at(i) < at(k) <=> <<c[i], c[k]>> \in PaneOrder(kid(side(i))))
    <3>1. \A x \in {0, 1} : \A f, g \in 1..Len(list(x)) :
            f < g <=> <<list(x)[f], list(x)[g]>> \in PaneOrder(kid(x))
      BY DEF Lists, Kid
    <3> HIDE DEF side, at, kid, list
    <3> QED
      BY <2>1, <3>1
  <2>3. i < k <=> side(i) < side(k) \/ (side(i) = side(k) /\ at(i) < at(k))
    BY <1>1, <1>2
  <2> HIDE DEF side, at, list
  <2>4. <<c[i], c[k]>> \in PaneOrder(j)
        <=> side(i) < side(k) \/ (side(i) = side(k) /\ <<c[i], c[k]>> \in PaneOrder(kid(side(i))))
    <3>1. /\ side(i) \in {0, 1} /\ c[i] \in Panes(Kid(side(i), a, b))
          /\ side(k) \in {0, 1} /\ c[k] \in Panes(Kid(side(k), a, b))
      BY <2>1
    <3> HIDE DEF kid
    <3>2. <<c[i], c[k]>> \in PaneOrder(j)
          <=> side(i) < side(k) \/ (side(i) = side(k) /\ <<c[i], c[k]>> \in PaneOrder(Kid(side(i), a, b)))
      BY <3>1, JoinOrder
    <3> QED
      BY <3>2 DEF kid
  <2> QED
    BY <2>2, <2>3, <2>4
<1>10. Len(c) > 0 /\ c[1] = FirstPane(j)
  <2>1. Len(l) > 0 /\ l[1] = FirstPane(a)
    BY <1>3 DEF Lists
  <2> QED
    BY <1>1, <1>2, <1>3, <2>1
<1> QED
  BY <1>7, <1>8, <1>9, <1>10 DEF Lists, c

\* A layout has one such list.
LEMMA ListsOnce ==
  ASSUME NEW lay, NEW l \in Seq(Pane), NEW m \in Seq(Pane), Lists(l, lay), Lists(m, lay)
  PROVE  l = m
<1> DEFINE B == {i \in Nat : i > 0 /\ (i <= Len(l) \/ i <= Len(m)) /\ ~(i <= Len(l) /\ i <= Len(m) /\ l[i] = m[i])}
<1>1. Len(l) \in Nat /\ Len(m) \in Nat
  OBVIOUS
<1>2. /\ \A i \in 1..Len(l) : \E k \in 1..Len(m) : m[k] = l[i]
      /\ \A i \in 1..Len(m) : \E k \in 1..Len(l) : l[k] = m[i]
  BY DEF Lists
<1>3. /\ \A i, k \in 1..Len(l) : i < k <=> <<l[i], l[k]>> \in PaneOrder(lay)
      /\ \A i, k \in 1..Len(m) : i < k <=> <<m[i], m[k]>> \in PaneOrder(lay)
  BY DEF Lists
<1>4. ASSUME B # {} PROVE FALSE
  <2>1. PICK i \in B : \A k \in B : ~(<<k, i>> \in OpToRel(<, Nat))
    <3>1. B \subseteq Nat
      OBVIOUS
    <3> HIDE DEF B
    <3> QED
      BY <1>4, <3>1, NatLessThanWellFounded, WFMin
  <2>2. \A k \in B : ~(k < i)
    BY <2>1 DEF OpToRel
  <2>3. /\ i \in Nat /\ i > 0 /\ (i <= Len(l) \/ i <= Len(m))
        /\ ~(i <= Len(l) /\ i <= Len(m) /\ l[i] = m[i])
    OBVIOUS
  <2>4. \A k \in 1..(i - 1) : k \in 1..Len(l) /\ k \in 1..Len(m) /\ l[k] = m[k]
    <3> TAKE k \in 1..(i - 1)
    <3>1. k \in Nat /\ k > 0 /\ k < i /\ k \notin B
      <4>1. k \in Nat /\ k > 0 /\ k < i
        BY <2>3
      <4> HIDE DEF B
      <4> QED
        BY <2>2, <4>1
    <3> QED
      BY <1>1, <3>1
  <2>5. CASE i <= Len(l)
    <3>1. i \in 1..Len(l)
      BY <1>1, <2>3, <2>5
    <3>2. PICK k \in 1..Len(m) : m[k] = l[i]
      BY <1>2, <3>1
    <3>3. ~(k < i)
      <4>1. ASSUME k < i PROVE FALSE
        <5>1. k \in 1..(i - 1)
          BY <2>3, <4>1
        <5>2. k \in 1..Len(l) /\ l[k] = l[i]
          BY <2>4, <3>2, <5>1
        <5>3. <<l[k], l[i]>> \in PaneOrder(lay) /\ <<l[i], l[i]>> \notin PaneOrder(lay)
          BY <1>3, <3>1, <4>1, <5>2
        <5> QED
          BY <5>2, <5>3
      <4> QED
        BY <4>1
    <3>4. i \in 1..Len(m) /\ k >= i
      BY <1>1, <2>3, <3>3
    <3>5. k # i /\ m[i] # l[i]
      <4>1. i <= Len(l) /\ i <= Len(m)
        BY <1>1, <3>1, <3>4
      <4>2. m[i] # l[i]
        BY <2>3, <4>1
      <4> QED
        BY <3>2, <4>2
    <3>6. PICK h \in 1..Len(l) : l[h] = m[i]
      BY <1>2, <3>4
    <3>7. ~(h < i)
      <4>1. ASSUME h < i PROVE FALSE
        <5>1. h \in 1..(i - 1)
          BY <2>3, <4>1
        <5>2. h \in 1..Len(m) /\ m[h] = m[i]
          BY <2>4, <3>6, <5>1
        <5>3. <<m[h], m[i]>> \in PaneOrder(lay) /\ <<m[i], m[i]>> \notin PaneOrder(lay)
          BY <1>3, <3>4, <4>1, <5>2
        <5> QED
          BY <5>2, <5>3
      <4> QED
        BY <4>1
    <3>8. h > i
      BY <1>1, <2>3, <3>5, <3>6, <3>7
    <3>9. <<l[i], l[h]>> \in PaneOrder(lay)
      BY <1>3, <3>1, <3>8
    <3>10. <<m[k], m[i]>> \in PaneOrder(lay)
      BY <3>2, <3>6, <3>9
    <3>11. k < i
      BY <1>3, <3>4, <3>10
    <3> QED
      BY <3>3, <3>11
  <2>6. CASE ~(i <= Len(l))
    <3>1. i \in 1..Len(m)
      BY <1>1, <2>3, <2>6
    <3>2. PICK h \in 1..Len(l) : l[h] = m[i]
      BY <1>2, <3>1
    <3>3. h \in 1..(i - 1) /\ h < i
      BY <1>1, <2>3, <2>6
    <3>4. h \in 1..Len(m) /\ m[h] = m[i]
      BY <2>4, <3>2, <3>3
    <3>5. <<m[h], m[i]>> \in PaneOrder(lay) /\ <<m[i], m[i]>> \notin PaneOrder(lay)
      BY <1>3, <3>1, <3>3, <3>4
    <3> QED
      BY <3>4, <3>5
  <2> QED
    BY <2>5, <2>6
<1>5. Len(l) = Len(m)
  <2>1. CASE Len(l) > Len(m)
    <3>1. Len(l) \in B
      BY <1>1, <2>1
    <3> QED
      BY <1>4, <3>1
  <2>2. CASE Len(m) > Len(l)
    <3>1. Len(m) \in B
      BY <1>1, <2>2
    <3> QED
      BY <1>4, <3>1
  <2> QED
    BY <1>1, <2>1, <2>2
<1>6. \A i \in 1..Len(l) : l[i] = m[i]
  <2> TAKE i \in 1..Len(l)
  <2>1. i \in Nat /\ i > 0 /\ i <= Len(l) /\ i <= Len(m)
    BY <1>1, <1>5
  <2>2. i \notin B
    BY <1>4
  <2> QED
    BY <2>1, <2>2
<1> QED
  BY <1>5, <1>6, SeqEqual

\* The lists of nil and of a leaf.
LEMMA ListsLeaf ==
  /\ Lists(<<>>, nil)
  /\ \A x \in Pane : Lists(<<x>>, Leaf(x))
<1>1. Lists(<<>>, nil)
  BY NilAndLeaf DEF Lists
<1>2. ASSUME NEW x \in Pane PROVE Lists(<<x>>, Leaf(x))
  <2>1. Len(<<x>>) = 1 /\ <<x>>[1] = x
    OBVIOUS
  <2>2. Panes(Leaf(x)) = {x} /\ Tree(Leaf(x)) /\ Leaf(x) # nil
    BY LeafIs
  <2>3. FirstPane(Leaf(x)) = x
    BY <2>2, FirstIsPane
  <2>4. <<x, x>> \notin PaneOrder(Leaf(x))
    <3>1. Find(Leaf(x), x) = Root
      BY NilAndLeaf
    <3>2. ~Precedes(Root, Root)
      BY DEF Precedes, Root
    <3> QED
      BY <3>1, <3>2 DEF PaneOrder
  <2> DEFINE l == <<x>>
  <2>5. l[1] = x /\ 1..Len(l) = {1} /\ Len(l) > 0 /\ <<l[1], l[1]>> \notin PaneOrder(Leaf(x))
    BY <2>1, <2>4
  <2> HIDE DEF l
  <2>6. Lists(l, Leaf(x))
    BY <2>2, <2>3, <2>5 DEF Lists
  <2> QED
    BY <2>6 DEF l
<1> QED
  BY <1>1, <1>2

\* Leaves as the recursion has it lists every pane of the layout once, in the order in which
\* a pane comes before another on the screen, and its head is the pane that closing the
\* active one falls back to, for layouts of any depth.
THEOREM LeavesIsRecursive ==
  ASSUME NEW leaves \in [Layouts -> Seq(Pane)]
  PROVE  /\ \A lay \in Layouts : \E list \in Seq(Pane) : Lists(list, lay)
         /\ LeavesAsWritten(leaves) <=> \A lay \in Layouts : Lists(leaves[lay], lay)
<1>1. ASSUME LeavesAsWritten(leaves) PROVE \A lay \in Layouts : Lists(leaves[lay], lay)
  <2> DEFINE G == {lay \in Layouts : Lists(leaves[lay], lay)}
  <2>1. nil \in G /\ \A x \in Pane : Leaf(x) \in G
    BY <1>1, ListsLeaf, NilAndLeaf DEF LeavesAsWritten
  <2>2. ASSUME NEW look \in Look, NEW a \in G \cap Layouts, NEW b \in G \cap Layouts, Joinable(look, a, b)
        PROVE  Join(look, a, b) \in G
    <3>1. Join(look, a, b) \in Layouts /\ Joins(Join(look, a, b), look, a, b)
      BY <2>2, JoinLayout
    <3>2. leaves[Join(look, a, b)] = leaves[a] \o leaves[b]
      BY <1>1, <2>2 DEF LeavesAsWritten
    <3>3. Lists(leaves[a] \o leaves[b], Join(look, a, b))
      BY <2>2, <3>1, ListsJoin
    <3> QED
      BY <3>1, <3>2, <3>3
  <2>3. Layouts \subseteq G
    <3> HIDE DEF G
    <3> QED
      BY <2>1, <2>2, LayoutInduction
  <2> QED
    BY <2>3
<1>2. ASSUME \A lay \in Layouts : Lists(leaves[lay], lay) PROVE LeavesAsWritten(leaves)
  <2>1. leaves[nil] = <<>>
    <3>1. <<>> \in Seq(Pane) /\ leaves[nil] \in Seq(Pane) /\ Lists(leaves[nil], nil)
      BY <1>2, NilAndLeaf
    <3> QED
      BY <3>1, ListsLeaf, ListsOnce
  <2>2. ASSUME NEW x \in Pane PROVE leaves[Leaf(x)] = <<x>>
    <3>1. <<x>> \in Seq(Pane) /\ leaves[Leaf(x)] \in Seq(Pane) /\ Lists(leaves[Leaf(x)], Leaf(x))
      BY <1>2, NilAndLeaf
    <3> QED
      BY <3>1, ListsLeaf, ListsOnce
  <2>3. ASSUME NEW look \in Look, NEW a \in Layouts, NEW b \in Layouts, Joinable(look, a, b)
        PROVE  leaves[Join(look, a, b)] = leaves[a] \o leaves[b]
    <3>1. Join(look, a, b) \in Layouts /\ Joins(Join(look, a, b), look, a, b)
      BY <2>3, JoinLayout
    <3>2. Lists(leaves[a] \o leaves[b], Join(look, a, b))
      BY <1>2, <2>3, <3>1, ListsJoin
    <3>3. leaves[a] \o leaves[b] \in Seq(Pane) /\ leaves[Join(look, a, b)] \in Seq(Pane)
      BY <3>1
    <3> QED
      BY <1>2, <3>1, <3>2, <3>3, ListsOnce
  <2> QED
    BY <2>1, <2>2, <2>3 DEF LeavesAsWritten
<1>3. \A lay \in Layouts : \E list \in Seq(Pane) : Lists(list, lay)
  <2> DEFINE G == {lay \in Layouts : \E list \in Seq(Pane) : Lists(list, lay)}
  <2>1. nil \in G
    <3>1. <<>> \in Seq(Pane)
      OBVIOUS
    <3> QED
      BY <3>1, ListsLeaf, NilAndLeaf
  <2>2. ASSUME NEW x \in Pane PROVE Leaf(x) \in G
    <3>1. <<x>> \in Seq(Pane)
      OBVIOUS
    <3> QED
      BY <3>1, ListsLeaf, NilAndLeaf
  <2>3. ASSUME NEW look \in Look, NEW a \in G \cap Layouts, NEW b \in G \cap Layouts, Joinable(look, a, b)
        PROVE  Join(look, a, b) \in G
    <3>1. PICK l \in Seq(Pane), m \in Seq(Pane) : Lists(l, a) /\ Lists(m, b)
      OBVIOUS
    <3>2. Join(look, a, b) \in Layouts /\ Joins(Join(look, a, b), look, a, b)
      BY <2>3, JoinLayout
    <3>3. Lists(l \o m, Join(look, a, b)) /\ l \o m \in Seq(Pane)
      BY <2>3, <3>1, <3>2, ListsJoin
    <3> QED
      BY <3>2, <3>3
  <2>4. Layouts \subseteq G
    <3> HIDE DEF G
    <3> QED
      BY <2>1, <2>2, <2>3, LayoutInduction
  <2> QED
    BY <2>4
<1> QED
  BY <1>1, <1>2, <1>3

\* The splits of a layout, level by level.
LEMMA SplitsBelow ==
  /\ Splits(nil) = {} /\ \A x \in Pane : Splits(Leaf(x)) = {}
  /\ \A look, a, b : Joinable(look, a, b) =>
       LET j == Join(look, a, b)
       IN  /\ Root \in Splits(j)
           /\ \A p \in Splits(a) : p \in Path /\ Under(0, p) \in Splits(j)
           /\ \A p \in Splits(b) : p \in Path /\ Under(1, p) \in Splits(j)
           /\ \A q \in Splits(j) : \/ q = Root
                                   \/ \E p \in Splits(a) : q = Under(0, p)
                                   \/ \E p \in Splits(b) : q = Under(1, p)
<1>1. Splits(nil) = {}
  BY DEF Splits, Paths, nil
<1>2. ASSUME NEW x \in Pane PROVE Splits(Leaf(x)) = {}
  <2>1. Paths(Leaf(x)) = {Root} /\ First(Root) # Root
    BY RootUnder, UnderIs DEF Leaf, Paths, First, Child
  <2> QED
    BY <2>1 DEF Splits
<1>3. ASSUME NEW look, NEW a, NEW b, Joinable(look, a, b)
      PROVE  LET j == Join(look, a, b)
             IN  /\ Root \in Splits(j)
                 /\ \A p \in Splits(a) : p \in Path /\ Under(0, p) \in Splits(j)
                 /\ \A p \in Splits(b) : p \in Path /\ Under(1, p) \in Splits(j)
                 /\ \A q \in Splits(j) : \/ q = Root
                                         \/ \E p \in Splits(a) : q = Under(0, p)
                                         \/ \E p \in Splits(b) : q = Under(1, p)
  <2> DEFINE j == Join(look, a, b)
  <2>1. Joins(j, look, a, b) /\ Tree(j) /\ Kid(0, a, b) = a /\ Kid(1, a, b) = b
    <3>1. Paths(a) \subseteq Path /\ Paths(b) \subseteq Path
      BY <1>3, TreePaths DEF Joinable
    <3> QED
      BY <1>3, <3>1, JoinIs, JoinTree DEF Kid
  <2>2. Splits(j) \subseteq Path /\ Splits(a) \subseteq Path /\ Splits(b) \subseteq Path
    BY <1>3, <2>1, TreePaths DEF Joinable
  <2>3. Root \in Splits(j) /\ \A x \in {0, 1}, p \in Path : Under(x, p) \in Splits(j) <=> p \in Splits(Kid(x, a, b))
    BY <1>3, <2>1, JoinNodes
  <2>4. \A q \in Path : q = Root \/ \E x \in {0, 1}, p \in Path : q = Under(x, p)
    BY UnderOnto
  <2> HIDE DEF j, Under
  <2>5. ASSUME NEW q \in Splits(j), q # Root
        PROVE  (\E p \in Splits(a) : q = Under(0, p)) \/ \E p \in Splits(b) : q = Under(1, p)
    <3>1. PICK x \in {0, 1}, p \in Path : q = Under(x, p)
      BY <2>2, <2>4, <2>5
    <3>2. p \in Splits(Kid(x, a, b))
      BY <2>3, <3>1
    <3> QED
      BY <2>1, <3>1, <3>2
  <2>6. \A p \in Splits(a) : p \in Path /\ Under(0, p) \in Splits(j)
    BY <2>1, <2>2, <2>3
  <2>7. \A p \in Splits(b) : p \in Path /\ Under(1, p) \in Splits(j)
    BY <2>1, <2>2, <2>3
  <2> QED
    BY <2>3, <2>5, <2>6, <2>7 DEF j
<1> QED
  BY <1>1, <1>2, <1>3

\* At of model.go, by the paths it accepts: at a split it is there or goes on in a child.
AtAsWritten(found) ==
  /\ found[nil] = {} /\ \A x \in Pane : found[Leaf(x)] = {}
  /\ \A look \in Look, a, b \in Layouts : Joinable(look, a, b) =>
       found[Join(look, a, b)] =
         {Root} \cup {Under(0, p) : p \in found[a]} \cup {Under(1, p) : p \in found[b]}

\* At as the recursion has it accepts the paths of the splits and no other, so pane.resize
\* changes a split or fails, for layouts of any depth.
THEOREM AtIsRecursive ==
  ASSUME NEW found \in [Layouts -> SUBSET Path]
  PROVE  /\ [lay \in Layouts |-> Splits(lay)] \in [Layouts -> SUBSET Path]
         /\ AtAsWritten(found) <=> found = [lay \in Layouts |-> Splits(lay)]
<1>1. Splits(nil) = {}
  BY SplitsBelow
<1>2. \A x \in Pane : Splits(Leaf(x)) = {}
  BY SplitsBelow
<1>3. ASSUME NEW look \in Look, NEW a \in Layouts, NEW b \in Layouts, Joinable(look, a, b)
      PROVE  Splits(Join(look, a, b)) = {Root} \cup {Under(0, p) : p \in Splits(a)} \cup {Under(1, p) : p \in Splits(b)}
  <2> HIDE DEF Under
  <2> QED
    BY <1>3, SplitsBelow
<1>4. \A lay \in Layouts : Splits(lay) \in SUBSET Path
  BY LayoutsAre, TreePaths
<1> HIDE DEF Under
<1>5. ASSUME found = [lay \in Layouts |-> Splits(lay)] PROVE AtAsWritten(found)
  <2>1. \A lay \in Layouts : found[lay] = Splits(lay)
    BY <1>5
  <2>2. \A look \in Look, a, b \in Layouts : Joinable(look, a, b) =>
          found[Join(look, a, b)] =
            {Root} \cup {Under(0, p) : p \in found[a]} \cup {Under(1, p) : p \in found[b]}
    BY <1>3, <2>1, JoinLayout
  <2> QED
    BY <1>1, <1>2, <2>1, <2>2, NilAndLeaf DEF AtAsWritten
<1>6. ASSUME AtAsWritten(found) PROVE found = [lay \in Layouts |-> Splits(lay)]
  <2> DEFINE G == {lay \in Layouts : found[lay] = Splits(lay)}
  <2>1. nil \in G /\ \A x \in Pane : Leaf(x) \in G
    BY <1>1, <1>2, <1>6, NilAndLeaf DEF AtAsWritten
  <2>2. ASSUME NEW look \in Look, NEW a \in G \cap Layouts, NEW b \in G \cap Layouts, Joinable(look, a, b)
        PROVE  Join(look, a, b) \in G
    <3>1. Join(look, a, b) \in Layouts
      BY <2>2, JoinLayout
    <3>2. found[Join(look, a, b)] = {Root} \cup {Under(0, p) : p \in found[a]} \cup {Under(1, p) : p \in found[b]}
      BY <1>6, <2>2 DEF AtAsWritten
    <3>3. found[a] = Splits(a) /\ found[b] = Splits(b)
      OBVIOUS
    <3>4. Splits(Join(look, a, b)) = {Root} \cup {Under(0, p) : p \in found[a]} \cup {Under(1, p) : p \in found[b]}
      BY <1>3, <2>2, <3>3
    <3> QED
      BY <3>1, <3>2, <3>4
  <2>3. Layouts \subseteq G
    <3> HIDE DEF G
    <3> QED
      BY <2>1, <2>2, LayoutInduction
  <2> QED
    BY <2>3
<1> QED
  BY <1>4, <1>5, <1>6

\* A pane of a child is split in the child.
LEMMA SplitUnder ==
  ASSUME NEW look, NEW a, NEW b, Joinable(look, a, b), NEW j, Joins(j, look, a, b),
         NEW x \in {0, 1}, NEW id \in Panes(Kid(x, a, b)), NEW style, NEW created
  PROVE  LET new == Split(Kid(x, a, b), id, style, created)
         IN  Joins(Split(j, id, style, created), look, IF x = 0 THEN new ELSE a, IF x = 0 THEN b ELSE new)
<1> DEFINE kid == Kid(x, a, b)
           new == Split(kid, id, style, created)
           na == IF x = 0 THEN new ELSE a
           nb == IF x = 0 THEN b ELSE new
           s == Split(j, id, style, created)
           at == Find(kid, id)
           A == First(at)
           B == Second(at)
           pos == Find(j, id)
<1>1. Tree(kid) /\ Tree(j) /\ id \in Panes(j) /\ (\A y \in {0, 1} : Paths(Kid(y, a, b)) \subseteq Path)
  <2>1. Tree(kid) /\ \A y \in {0, 1} : Paths(Kid(y, a, b)) \subseteq Path
    BY TreePaths DEF Joinable, Kid
  <2>2. Tree(j) /\ Panes(j) = Panes(a) \cup Panes(b)
    BY JoinTree, JoinPanes
  <2> QED
    BY <2>1, <2>2 DEF Kid
<1>2. pos = Under(x, at)
  BY JoinFind
<1>3. /\ at \in Path /\ at \in Paths(kid) /\ A \in Path /\ B \in Path
      /\ A \notin Paths(kid) /\ B \notin Paths(kid) /\ A # B
      /\ Paths(new) = Paths(kid) \cup {A, B}
      /\ new[at] = style /\ new[A] = id /\ new[B] = created
      /\ \A p \in Paths(kid) : p # at => new[p] = kid[p]
  <2>1. Tree(kid) /\ id \in Panes(kid)
    BY <1>1
  <2>2. SplitAt(new, kid, at, id, style, created)
    <3> HIDE DEF kid
    <3> QED
      BY <2>1, SplitNodes
  <2> HIDE DEF kid, new, at
  <2> QED
    BY <2>2 DEF SplitAt
<1>4. /\ First(pos) \in Path /\ Second(pos) \in Path
      /\ Paths(s) = Paths(j) \cup {First(pos), Second(pos)}
      /\ s = [p \in Paths(s) |-> s[p]]
      /\ s[pos] = style /\ s[First(pos)] = id /\ s[Second(pos)] = created
      /\ \A p \in Paths(j) : p # pos => s[p] = j[p]
  <2>1. Tree(j) /\ id \in Panes(j)
    BY <1>1
  <2>2. SplitAt(s, j, pos, id, style, created)
    BY <2>1, SplitNodes
  <2> HIDE DEF s, pos
  <2> QED
    BY <2>2 DEF SplitAt
<1>5. First(pos) = Under(x, A) /\ Second(pos) = Under(x, B)
  BY <1>2, <1>3, UnderStep DEF First, Second, Child
<1>6. \A y \in {0, 1} : Kid(y, na, nb) = IF y = x THEN new ELSE Kid(y, a, b)
  BY DEF Kid
<1>7. \A y, z \in {0, 1}, p, q \in Path : Under(y, p) = Under(z, q) => y = z /\ p = q
  BY UnderInjective
<1> HIDE DEF kid, new, na, nb, s, at, A, B, pos, Under
<1>8. s[Root] = look /\ Root \in Paths(s) /\ Paths(s) \subseteq Path
  <2>1. pos # Root
    BY <1>2, <1>3, UnderIs DEF Under
  <2> QED
    BY <1>4, <2>1 DEF Joins
<1>9. ASSUME NEW y \in {0, 1}, NEW p \in Path
      PROVE  Under(y, p) \in Paths(s) <=> p \in Paths(Kid(y, na, nb))
  <2>1. Under(y, p) \in Paths(s) <=> Under(y, p) \in Paths(j) \/ (y = x /\ p \in {A, B})
    BY <1>3, <1>4, <1>5, <1>7
  <2>2. Under(y, p) \in Paths(j) <=> p \in Paths(Kid(y, a, b))
    BY DEF Joins
  <2> QED
    BY <1>3, <1>6, <2>1, <2>2 DEF kid
<1>10. ASSUME NEW y \in {0, 1}, NEW p \in Paths(Kid(y, na, nb))
       PROVE  s[Under(y, p)] = Kid(y, na, nb)[p]
  <2>1. CASE y # x
    <3>1. p \in Paths(Kid(y, a, b)) /\ Kid(y, na, nb) = Kid(y, a, b) /\ p \in Path
      BY <1>1, <1>6, <2>1
    <3>2. Under(y, p) \in Paths(j) /\ j[Under(y, p)] = Kid(y, a, b)[p]
      BY <3>1 DEF Joins
    <3>3. Under(y, p) # pos
      BY <1>2, <1>3, <1>7, <2>1, <3>1
    <3> QED
      BY <1>4, <3>1, <3>2, <3>3
  <2>2. CASE y = x /\ p \in {at, A, B}
    BY <1>2, <1>3, <1>4, <1>5, <1>6, <2>2
  <2>3. CASE y = x /\ p \notin {at, A, B}
    <3>1. p \in Paths(kid) /\ Kid(y, na, nb) = new /\ p \in Path /\ new[p] = kid[p]
      BY <1>1, <1>3, <1>6, <2>3 DEF kid
    <3>2. Under(y, p) \in Paths(j) /\ j[Under(y, p)] = kid[p]
      BY <2>3, <3>1 DEF Joins, kid
    <3>3. Under(y, p) # pos
      BY <1>2, <1>3, <1>7, <2>3, <3>1
    <3> QED
      BY <1>4, <3>1, <3>2, <3>3
  <2> QED
    BY <2>1, <2>2, <2>3
<1>11. Joins(s, look, na, nb)
  BY <1>4, <1>8, <1>9, <1>10 DEF Joins
<1> QED
  BY <1>11 DEF s, na, nb, new, kid

\* pane.split, of any pane: a layout that does not have it stays.
SplitOrNot(lay, id, style, created) == IF id \in Panes(lay) THEN Split(lay, id, style, created) ELSE lay

\* The layouts a new pane can come into.
FreshFor(created) == {lay \in Layouts : created \notin Panes(lay)}

\* A split leaf is the join of the two.
LEMMA SplitLeafIs ==
  ASSUME NEW id \in Pane, NEW created \in Pane, NEW style
  PROVE  Split(Leaf(id), id, style, created) = Join(style, Leaf(id), Leaf(created))
<1> DEFINE s == Split(Leaf(id), id, style, created)
           a == Leaf(id)
           b == Leaf(created)
<1>1. /\ Tree(a) /\ id \in Panes(a) /\ Find(a, id) = Root
      /\ Paths(a) = {Root} /\ Paths(b) = {Root} /\ a[Root] = id /\ b[Root] = created
  BY LeafIs, NilAndLeaf DEF Leaf, Paths
<1>2. SplitAt(s, a, Root, id, style, created)
  <2>1. SplitAt(s, a, Find(a, id), id, style, created)
    BY <1>1, SplitNodes
  <2> QED
    BY <1>1, <2>1
<1>3. First(Root) = Under(0, Root) /\ Second(Root) = Under(1, Root) /\ Root \in Path
  BY RootUnder DEF First, Second, Child
<1>4. \A y, z \in {0, 1}, p, q \in Path : Under(y, p) = Under(z, q) => y = z /\ p = q
  BY UnderInjective
<1>5. \A y \in {0, 1}, p \in Path : Under(y, p) # Root
  BY UnderIs
<1> HIDE DEF s, a, b, Under
<1>6. /\ Paths(s) = {Root, Under(0, Root), Under(1, Root)} /\ s = [p \in Paths(s) |-> s[p]]
      /\ Paths(s) \subseteq Path
      /\ s[Root] = style /\ s[Under(0, Root)] = id /\ s[Under(1, Root)] = created
  BY <1>1, <1>2, <1>3 DEF SplitAt
<1>7. ASSUME NEW y \in {0, 1}, NEW p \in Path
      PROVE  /\ Under(y, p) \in Paths(s) <=> p \in Paths(Kid(y, a, b))
             /\ p \in Paths(Kid(y, a, b)) => s[Under(y, p)] = Kid(y, a, b)[p]
  <2>1. Paths(Kid(y, a, b)) = {Root}
    BY <1>1 DEF Kid
  <2>2. Under(y, p) \in Paths(s) <=> p = Root
    BY <1>3, <1>4, <1>5, <1>6
  <2>3. s[Under(y, Root)] = Kid(y, a, b)[Root]
    BY <1>1, <1>6 DEF Kid
  <2> QED
    BY <2>1, <2>2, <2>3
<1>8. Joins(s, style, a, b)
  <2>1. \A x \in {0, 1} : \A p \in Paths(Kid(x, a, b)) : s[Under(x, p)] = Kid(x, a, b)[p]
    <3>1. \A x \in {0, 1} : Paths(Kid(x, a, b)) \subseteq Path
      BY <1>1, <1>3 DEF Kid
    <3> QED
      BY <1>7, <3>1
  <2> QED
    BY <1>6, <1>7, <2>1 DEF Joins
<1>9. Paths(a) \subseteq Path /\ Paths(b) \subseteq Path
  BY <1>1, <1>3
<1>10. s = Join(style, a, b)
  BY <1>8, <1>9, JoinOnly
<1> QED
  BY <1>10 DEF s, a, b

\* A split of one of the panes of a join.
LEMMA SplitJoin ==
  ASSUME NEW look, NEW a, NEW b, Joinable(look, a, b), NEW id \in Pane, NEW style \in Look,
         NEW created \in Pane, created \notin Panes(a), created \notin Panes(b)
  PROVE  SplitOrNot(Join(look, a, b), id, style, created)
           = Join(look, SplitOrNot(a, id, style, created), SplitOrNot(b, id, style, created))
<1> DEFINE j == Join(look, a, b)
           kid(y) == Kid(y, a, b)
<1>1. /\ Tree(a) /\ Tree(b) /\ Panes(a) \cap Panes(b) = {}
      /\ Paths(a) \subseteq Path /\ Paths(b) \subseteq Path
  BY TreePaths DEF Joinable
<1>2. Joins(j, look, a, b)
  BY <1>1, JoinIs
<1>3. Panes(j) = Panes(a) \cup Panes(b)
  BY <1>2, JoinPanes
<1> HIDE DEF j
<1>4. CASE id \notin Panes(j)
  BY <1>3, <1>4 DEF SplitOrNot, j
<1>5. ASSUME NEW x \in {0, 1}, id \in Panes(kid(x))
      PROVE  LET new == Split(kid(x), id, style, created)
             IN  /\ x = 0 => Split(j, id, style, created) = Join(look, new, b)
                 /\ x = 1 => Split(j, id, style, created) = Join(look, a, new)
  <2> DEFINE new == Split(kid(x), id, style, created)
             na == IF x = 0 THEN new ELSE a
             nb == IF x = 0 THEN b ELSE new
  <2>1. Tree(new)
    <3>1. Tree(kid(x)) /\ created \notin Panes(kid(x))
      BY <1>1 DEF Kid
    <3> HIDE DEF kid
    <3> QED
      BY <1>5, <3>1, SplitIs
  <2>2. Joins(Split(j, id, style, created), look, na, nb)
    BY <1>2, <1>5, SplitUnder
  <2>3. Paths(na) \subseteq Path /\ Paths(nb) \subseteq Path
    BY <1>1, <2>1, TreePaths
  <2> HIDE DEF na, nb
  <2>4. Split(j, id, style, created) = Join(look, na, nb)
    BY <2>2, <2>3, JoinOnly
  <2> HIDE DEF kid
  <2>5. x = 0 => Split(j, id, style, created) = Join(look, new, b)
    BY <2>4 DEF na, nb
  <2>6. x = 1 => Split(j, id, style, created) = Join(look, a, new)
    BY <2>4 DEF na, nb
  <2> QED
    BY <2>5, <2>6
<1>6. CASE id \in Panes(a)
  <2>1. kid(0) = a /\ id \notin Panes(b)
    BY <1>1, <1>6 DEF Kid
  <2>2. Split(j, id, style, created) = Join(look, Split(a, id, style, created), b)
    BY <1>5, <1>6, <2>1
  <2> QED
    BY <1>3, <1>6, <2>1, <2>2 DEF SplitOrNot, j
<1>7. CASE id \in Panes(b)
  <2>1. kid(1) = b /\ id \notin Panes(a)
    BY <1>1, <1>7 DEF Kid
  <2> HIDE DEF kid
  <2>2. Split(j, id, style, created) = Join(look, a, Split(b, id, style, created))
    BY <1>5, <1>7, <2>1
  <2> QED
    BY <1>3, <1>7, <2>1, <2>2 DEF SplitOrNot, j
<1> QED
  BY <1>3, <1>4, <1>6, <1>7

\* What pane.split assigns to the node that Find returns, as equations: where the pane is a
\* leaf, the leaf is overwritten; elsewhere the tree stays as it is.
SplitAsWritten(split, id, style, created) ==
  /\ split[nil] = nil
  /\ \A x \in Pane \ {created} :
       split[Leaf(x)] = IF x = id THEN Join(style, Leaf(id), Leaf(created)) ELSE Leaf(x)
  /\ \A look \in Look, a, b \in FreshFor(created) : Joinable(look, a, b) =>
       split[Join(look, a, b)] = Join(look, split[a], split[b])

\* The assignment through the pointer is Split by paths: it splits the leaf of the pane and
\* changes nothing else, for layouts of any depth.
THEOREM SplitIsRecursive ==
  ASSUME NEW id \in Pane, NEW style \in Look, NEW created \in Pane, NEW split \in [FreshFor(created) -> Layouts]
  PROVE  LET splitting == [lay \in FreshFor(created) |-> SplitOrNot(lay, id, style, created)]
         IN  /\ splitting \in [FreshFor(created) -> Layouts]
             /\ SplitAsWritten(split, id, style, created) <=> split = splitting
<1> DEFINE new(lay) == SplitOrNot(lay, id, style, created)
           Fresh == FreshFor(created)
<1>1. new(nil) = nil /\ nil \in Fresh
  BY NilAndLeaf DEF SplitOrNot, FreshFor
<1>2. ASSUME NEW x \in Pane \ {created}
      PROVE  Leaf(x) \in Fresh /\ new(Leaf(x)) = IF x = id THEN Join(style, Leaf(id), Leaf(created)) ELSE Leaf(x)
  BY NilAndLeaf, SplitLeafIs DEF SplitOrNot, FreshFor
<1>3. ASSUME NEW look \in Look, NEW a \in Layouts, NEW b \in Layouts, Joinable(look, a, b)
      PROVE  /\ Join(look, a, b) \in Layouts
             /\ Join(look, a, b) \in Fresh <=> a \in Fresh /\ b \in Fresh
             /\ a \in Fresh /\ b \in Fresh => new(Join(look, a, b)) = Join(look, new(a), new(b))
  <2>1. Join(look, a, b) \in Layouts /\ Panes(Join(look, a, b)) = Panes(a) \cup Panes(b)
    BY <1>3, JoinLayout
  <2>2. Join(look, a, b) \in Fresh <=> a \in Fresh /\ b \in Fresh
    BY <2>1 DEF FreshFor
  <2>3. ASSUME a \in Fresh, b \in Fresh PROVE new(Join(look, a, b)) = Join(look, new(a), new(b))
    <3>1. created \notin Panes(a) /\ created \notin Panes(b)
      BY <2>3 DEF FreshFor
    <3>2. SplitOrNot(Join(look, a, b), id, style, created)
            = Join(look, SplitOrNot(a, id, style, created), SplitOrNot(b, id, style, created))
      BY <1>3, <3>1, SplitJoin
    <3> QED
      BY <3>2
  <2> QED
    BY <2>1, <2>2, <2>3
<1>4. \A lay \in Fresh : new(lay) \in Layouts /\ lay \in Layouts
  BY LayoutsAre, SplitIs DEF SplitOrNot, FreshFor
<1>5. [lay \in Fresh |-> new(lay)] \in [Fresh -> Layouts]
  BY <1>4
<1> HIDE DEF new, Fresh
<1>6. ASSUME split = [lay \in Fresh |-> new(lay)] PROVE SplitAsWritten(split, id, style, created)
  <2>1. \A lay \in Fresh : split[lay] = new(lay)
    BY <1>6
  <2>2. \A look \in Look, a, b \in Fresh : Joinable(look, a, b) =>
          split[Join(look, a, b)] = Join(look, split[a], split[b])
    BY <1>3, <1>4, <2>1
  <2> QED
    BY <1>1, <1>2, <2>1, <2>2 DEF SplitAsWritten, Fresh
<1>7. ASSUME SplitAsWritten(split, id, style, created) PROVE split = [lay \in Fresh |-> new(lay)]
  <2> DEFINE G == {lay \in Layouts : lay \in Fresh => split[lay] = new(lay)}
  <2>1. nil \in G
    BY <1>1, <1>7, NilAndLeaf DEF SplitAsWritten
  <2>2. ASSUME NEW x \in Pane PROVE Leaf(x) \in G
    <3>1. CASE x = created
      BY <3>1, NilAndLeaf DEF Fresh, FreshFor
    <3>2. CASE x # created
      BY <1>2, <1>7, <3>2, NilAndLeaf DEF SplitAsWritten
    <3> QED
      BY <3>1, <3>2
  <2>3. ASSUME NEW look \in Look, NEW a \in G \cap Layouts, NEW b \in G \cap Layouts, Joinable(look, a, b)
        PROVE  Join(look, a, b) \in G
    <3>1. ASSUME a \in Fresh, b \in Fresh PROVE split[Join(look, a, b)] = new(Join(look, a, b))
      <4>1. split[Join(look, a, b)] = Join(look, split[a], split[b])
        BY <1>7, <2>3, <3>1 DEF SplitAsWritten, Fresh
      <4>2. split[a] = new(a) /\ split[b] = new(b)
        BY <3>1
      <4> QED
        BY <1>3, <2>3, <3>1, <4>1, <4>2
    <3> QED
      BY <1>3, <2>3, <3>1
  <2>4. Layouts \subseteq G
    <3> HIDE DEF G
    <3> QED
      BY <2>1, <2>2, <2>3, LayoutInduction
  <2>5. \A lay \in Fresh : split[lay] = new(lay)
    BY <1>4, <2>4
  <2> QED
    BY <2>5 DEF Fresh
<1> QED
  BY <1>5, <1>6, <1>7 DEF new, Fresh

\* pane.resize: another ratio for one split.
Resized(lay, at, ratio) == [lay EXCEPT ![at].ratio = ratio]

\* The splits of all layouts.
Places == {place \in Layouts \X Path : place[2] \in Splits(place[1])}

\* A new ratio for the root of a join.
LEMMA ResizeRoot ==
  ASSUME NEW look \in Look, NEW a, NEW b, Joinable(look, a, b), NEW ratio
  PROVE  Resized(Join(look, a, b), Root, ratio) = Join([look EXCEPT !.ratio = ratio], a, b)
<1> DEFINE j == Join(look, a, b)
           turned == [look EXCEPT !.ratio = ratio]
           s == Resized(j, Root, ratio)
<1>1. Paths(a) \subseteq Path /\ Paths(b) \subseteq Path
  BY TreePaths DEF Joinable
<1>2. Joins(j, look, a, b)
  BY <1>1, JoinIs
<1> HIDE DEF j
<1>3. s = [j EXCEPT ![Root] = [j[Root] EXCEPT !.ratio = ratio]]
  BY DEF Resized
<1>4. \A y \in {0, 1}, p \in Path : Under(y, p) # Root
  BY UnderIs
<1> HIDE DEF turned, s, Under
<1>5. /\ Paths(s) = Paths(j) /\ s = [p \in Paths(s) |-> s[p]]
      /\ s[Root] = turned /\ \A p \in Paths(j) : p # Root => s[p] = j[p]
  BY <1>2, <1>3 DEF Joins, Paths, turned
<1>6. Joins(s, turned, a, b)
  <2>1. ASSUME NEW x \in {0, 1}, NEW p \in Paths(Kid(x, a, b)) PROVE s[Under(x, p)] = Kid(x, a, b)[p]
    <3>1. p \in Path
      BY <1>1 DEF Kid
    <3>2. Under(x, p) \in Paths(j) /\ j[Under(x, p)] = Kid(x, a, b)[p]
      BY <1>2, <3>1 DEF Joins
    <3> QED
      BY <1>4, <1>5, <3>1, <3>2
  <2> QED
    BY <1>2, <1>5, <2>1 DEF Joins
<1>7. s = Join(turned, a, b)
  BY <1>1, <1>6, JoinOnly
<1> QED
  BY <1>7 DEF s, turned, j

\* A split of a child has its new ratio in the child.
LEMMA ResizeUnder ==
  ASSUME NEW look, NEW a, NEW b, Joinable(look, a, b), NEW ratio,
         NEW x \in {0, 1}, NEW at \in Splits(Kid(x, a, b))
  PROVE  LET new == Resized(Kid(x, a, b), at, ratio)
         IN  /\ x = 0 => Resized(Join(look, a, b), Under(x, at), ratio) = Join(look, new, b)
             /\ x = 1 => Resized(Join(look, a, b), Under(x, at), ratio) = Join(look, a, new)
<1> DEFINE j == Join(look, a, b)
           kid == Kid(x, a, b)
           new == Resized(kid, at, ratio)
           na == IF x = 0 THEN new ELSE a
           nb == IF x = 0 THEN b ELSE new
           s == Resized(j, Under(x, at), ratio)
<1>1. \A y \in {0, 1} : Tree(Kid(y, a, b)) /\ Paths(Kid(y, a, b)) \subseteq Path
  BY TreePaths DEF Joinable, Kid
<1>2. Joins(j, look, a, b)
  <2>1. Paths(a) \subseteq Path /\ Paths(b) \subseteq Path
    BY TreePaths DEF Joinable
  <2> QED
    BY <2>1, JoinIs
<1>3. at \in Paths(kid) /\ at \in Path
  BY <1>1, TreePaths
<1>4. \A y \in {0, 1}, p \in Path : Under(y, p) # Root
  BY UnderIs
<1>5. \A y, z \in {0, 1}, p, q \in Path : Under(y, p) = Under(z, q) => y = z /\ p = q
  BY UnderInjective
<1>6. \A y \in {0, 1} : Kid(y, na, nb) = IF y = x THEN new ELSE Kid(y, a, b)
  BY DEF Kid
<1> HIDE DEF j, Under
<1>7. Under(x, at) \in Paths(j) /\ j[Under(x, at)] = kid[at]
  BY <1>2, <1>3 DEF Joins
<1>8. kid = [p \in Paths(kid) |-> kid[p]]
  BY <1>1 DEF Tree
<1> HIDE DEF kid
<1>9. /\ Paths(new) = Paths(kid) /\ new[at] = [kid[at] EXCEPT !.ratio = ratio]
      /\ \A p \in Paths(kid) : p # at => new[p] = kid[p]
  BY <1>3, <1>8 DEF Resized, Paths
<1>10. /\ Paths(s) = Paths(j) /\ s = [p \in Paths(s) |-> s[p]]
       /\ s[Under(x, at)] = [kid[at] EXCEPT !.ratio = ratio]
       /\ \A p \in Paths(j) : p # Under(x, at) => s[p] = j[p]
  BY <1>2, <1>7 DEF Resized, Paths, Joins
<1> HIDE DEF new, na, nb, s
<1>11. ASSUME NEW y \in {0, 1}, NEW p \in Path
       PROVE  Under(y, p) \in Paths(s) <=> p \in Paths(Kid(y, na, nb))
  BY <1>2, <1>6, <1>9, <1>10 DEF Joins, kid
<1>12. ASSUME NEW y \in {0, 1}, NEW p \in Paths(Kid(y, na, nb))
       PROVE  s[Under(y, p)] = Kid(y, na, nb)[p]
  <2>1. p \in Paths(Kid(y, a, b)) /\ p \in Path
    BY <1>1, <1>6, <1>9 DEF kid
  <2>2. Under(y, p) \in Paths(j) /\ j[Under(y, p)] = Kid(y, a, b)[p]
    BY <1>2, <2>1 DEF Joins
  <2>3. CASE y = x /\ p = at
    BY <1>6, <1>9, <1>10, <2>3
  <2>4. CASE ~(y = x /\ p = at)
    <3>1. Under(y, p) # Under(x, at)
      BY <1>3, <1>5, <2>1, <2>4
    <3>2. s[Under(y, p)] = Kid(y, a, b)[p]
      BY <1>10, <2>2, <3>1
    <3>3. Kid(y, na, nb)[p] = Kid(y, a, b)[p]
      BY <1>6, <1>9, <2>1, <2>4 DEF kid
    <3> QED
      BY <3>2, <3>3
  <2> QED
    BY <2>3, <2>4
<1>13. Joins(s, look, na, nb)
  <2>1. Paths(s) \subseteq Path /\ Root \in Paths(s) /\ s[Root] = look
    BY <1>2, <1>3, <1>4, <1>10 DEF Joins
  <2> QED
    BY <1>10, <1>11, <1>12, <2>1 DEF Joins
<1>14. Paths(na) \subseteq Path /\ Paths(nb) \subseteq Path
  <2>1. Paths(a) \subseteq Path /\ Paths(b) \subseteq Path /\ Paths(new) \subseteq Path
    BY <1>1, <1>9, TreePaths DEF Joinable, kid
  <2> QED
    BY <2>1 DEF na, nb
<1>15. s = Join(look, na, nb)
  BY <1>13, <1>14, JoinOnly
<1>16. x = 0 => s = Join(look, new, b)
  BY <1>15 DEF na, nb
<1>17. x = 1 => s = Join(look, a, new)
  BY <1>15 DEF na, nb
<1> QED
  BY <1>16, <1>17 DEF s, new, kid, j

\* What pane.resize assigns to the node that At returns, as equations: at the end of the way
\* the ratio is overwritten, on the way the other child stays as it is.
ResizeAsWritten(resize, ratio) ==
  \A look \in Look, a, b \in Layouts : Joinable(look, a, b) =>
    LET j == Join(look, a, b)
    IN  /\ resize[<<j, Root>>] = Join([look EXCEPT !.ratio = ratio], a, b)
        /\ \A p \in Splits(a) : resize[<<j, Under(0, p)>>] = Join(look, resize[<<a, p>>], b)
        /\ \A p \in Splits(b) : resize[<<j, Under(1, p)>>] = Join(look, a, resize[<<b, p>>])

\* The assignment through the pointer gives one split, that of the path, its new ratio, and
\* moves no pane, for layouts of any depth.
THEOREM ResizeIsRecursive ==
  ASSUME NEW ratio \in Ratio, NEW resize \in [Places -> Layouts]
  PROVE  LET resizing == [place \in Places |-> Resized(place[1], place[2], ratio)]
         IN  /\ resizing \in [Places -> Layouts]
             /\ ResizeAsWritten(resize, ratio) <=> resize = resizing
<1> DEFINE new(lay, at) == Resized(lay, at, ratio)
           resizing == [place \in Places |-> new(place[1], place[2])]
<1>1. \A lay \in Layouts : \A p \in Splits(lay) : <<lay, p>> \in Places /\ new(lay, p) \in Layouts
  <2> TAKE lay \in Layouts
  <2> TAKE p \in Splits(lay)
  <2>1. Tree(lay) /\ p \in Path
    BY LayoutsAre, TreePaths
  <2>2. Tree(new(lay, p))
    BY <2>1, ResizeIs DEF Resized
  <2> QED
    BY <2>1, <2>2, LayoutsAre DEF Places
<1>2. ASSUME NEW place \in Places
      PROVE  place[1] \in Layouts /\ place[2] \in Splits(place[1]) /\ place = <<place[1], place[2]>>
  BY DEF Places
<1>3. ASSUME NEW look \in Look, NEW a \in Layouts, NEW b \in Layouts, Joinable(look, a, b)
      PROVE  LET j == Join(look, a, b)
             IN  /\ j \in Layouts
                 /\ new(j, Root) = Join([look EXCEPT !.ratio = ratio], a, b)
                 /\ \A p \in Splits(a) : new(j, Under(0, p)) = Join(look, new(a, p), b)
                 /\ \A p \in Splits(b) : new(j, Under(1, p)) = Join(look, a, new(b, p))
  <2> DEFINE j == Join(look, a, b)
  <2>1. j \in Layouts
    BY <1>3, JoinLayout
  <2>2. new(j, Root) = Join([look EXCEPT !.ratio = ratio], a, b)
    BY <1>3, ResizeRoot
  <2>3. Kid(0, a, b) = a /\ Kid(1, a, b) = b
    BY DEF Kid
  <2>4. ASSUME NEW p \in Splits(a) PROVE new(j, Under(0, p)) = Join(look, new(a, p), b)
    <3>1. p \in Splits(Kid(0, a, b))
      BY <2>3
    <3> HIDE DEF Under
    <3> QED
      BY <1>3, <2>3, <3>1, ResizeUnder
  <2>5. ASSUME NEW p \in Splits(b) PROVE new(j, Under(1, p)) = Join(look, a, new(b, p))
    <3>1. p \in Splits(Kid(1, a, b))
      BY <2>3
    <3> HIDE DEF Under
    <3> QED
      BY <1>3, <2>3, <3>1, ResizeUnder
  <2> HIDE DEF j, new
  <2> QED
    BY <2>1, <2>2, <2>4, <2>5 DEF j
<1>4. resizing \in [Places -> Layouts]
  BY <1>1, <1>2
<1> HIDE DEF new, Under
<1>5. \A lay \in Layouts : \A p \in Splits(lay) : resizing[<<lay, p>>] = new(lay, p)
  BY <1>1
<1>6. ASSUME resize = resizing PROVE ResizeAsWritten(resize, ratio)
  <2>1. \A lay \in Layouts : \A p \in Splits(lay) : resize[<<lay, p>>] = new(lay, p)
    BY <1>5, <1>6
  <2> HIDE DEF resizing
  <2>2. ASSUME NEW look \in Look, NEW a \in Layouts, NEW b \in Layouts, Joinable(look, a, b)
        PROVE  LET j == Join(look, a, b)
               IN  /\ resize[<<j, Root>>] = Join([look EXCEPT !.ratio = ratio], a, b)
                   /\ \A p \in Splits(a) : resize[<<j, Under(0, p)>>] = Join(look, resize[<<a, p>>], b)
                   /\ \A p \in Splits(b) : resize[<<j, Under(1, p)>>] = Join(look, a, resize[<<b, p>>])
    <3> DEFINE j == Join(look, a, b)
    <3>1. /\ j \in Layouts /\ new(j, Root) = Join([look EXCEPT !.ratio = ratio], a, b)
          /\ \A p \in Splits(a) : new(j, Under(0, p)) = Join(look, new(a, p), b)
          /\ \A p \in Splits(b) : new(j, Under(1, p)) = Join(look, a, new(b, p))
      BY <1>3, <2>2
    <3>2. /\ Root \in Splits(j)
          /\ \A p \in Splits(a) : Under(0, p) \in Splits(j)
          /\ \A p \in Splits(b) : Under(1, p) \in Splits(j)
      BY <2>2, SplitsBelow
    <3> HIDE DEF j
    <3> QED
      BY <2>1, <3>1, <3>2 DEF j
  <2> QED
    BY <2>2 DEF ResizeAsWritten
<1>7. ASSUME ResizeAsWritten(resize, ratio) PROVE resize = resizing
  <2> DEFINE G == {lay \in Layouts : \A p \in Splits(lay) : resize[<<lay, p>>] = new(lay, p)}
  <2>1. nil \in G /\ \A x \in Pane : Leaf(x) \in G
    BY SplitsBelow, NilAndLeaf
  <2>2. ASSUME NEW look \in Look, NEW a \in G \cap Layouts, NEW b \in G \cap Layouts, Joinable(look, a, b)
        PROVE  Join(look, a, b) \in G
    <3> DEFINE j == Join(look, a, b)
    <3>1. /\ j \in Layouts /\ new(j, Root) = Join([look EXCEPT !.ratio = ratio], a, b)
          /\ \A p \in Splits(a) : new(j, Under(0, p)) = Join(look, new(a, p), b)
          /\ \A p \in Splits(b) : new(j, Under(1, p)) = Join(look, a, new(b, p))
      BY <1>3, <2>2
    <3>2. \A q \in Splits(j) : \/ q = Root
                               \/ \E p \in Splits(a) : q = Under(0, p)
                               \/ \E p \in Splits(b) : q = Under(1, p)
      BY <2>2, SplitsBelow
    <3>3. /\ resize[<<j, Root>>] = Join([look EXCEPT !.ratio = ratio], a, b)
          /\ \A p \in Splits(a) : resize[<<j, Under(0, p)>>] = Join(look, resize[<<a, p>>], b)
          /\ \A p \in Splits(b) : resize[<<j, Under(1, p)>>] = Join(look, a, resize[<<b, p>>])
      BY <1>7, <2>2 DEF ResizeAsWritten
    <3>4. /\ \A p \in Splits(a) : resize[<<a, p>>] = new(a, p)
          /\ \A p \in Splits(b) : resize[<<b, p>>] = new(b, p)
      OBVIOUS
    <3> HIDE DEF j
    <3> HIDE DEF new
    <3>5. ASSUME NEW q \in Splits(j) PROVE resize[<<j, q>>] = new(j, q)
      <4>1. CASE q = Root
        BY <3>1, <3>3, <4>1
      <4>2. ASSUME NEW p \in Splits(a), q = Under(0, p) PROVE resize[<<j, q>>] = new(j, q)
        BY <3>1, <3>3, <3>4, <4>2
      <4>3. ASSUME NEW p \in Splits(b), q = Under(1, p) PROVE resize[<<j, q>>] = new(j, q)
        BY <3>1, <3>3, <3>4, <4>3
      <4> QED
        BY <3>2, <4>1, <4>2, <4>3
    <3> QED
      BY <3>1, <3>5 DEF j
  <2>3. Layouts \subseteq G
    <3> HIDE DEF G
    <3> QED
      BY <2>1, <2>2, LayoutInduction
  <2>4. ASSUME NEW place \in Places PROVE resize[place] = new(place[1], place[2])
    <3>1. resize[<<place[1], place[2]>>] = new(place[1], place[2])
      BY <1>2, <2>3
    <3> QED
      BY <1>2, <3>1
  <2> QED
    BY <2>4
<1> QED
  BY <1>4, <1>6, <1>7 DEF new

-----------------------------------------------------------------------------
(***************************************************************************)
(* Lists of ids: the workspaces of the state and the tabs of a workspace.  *)
(***************************************************************************)
\* What is asked of a list of ids, by its indices.
LEMMA IdsIs ==
  ASSUME NEW T, NEW s \in Seq(T)
  PROVE  /\ Len(s) \in Nat /\ DOMAIN s = 1..Len(s)
         /\ S!ToSet(s) = {s[i] : i \in 1..Len(s)} /\ S!ToSet(s) \subseteq T
         /\ \A u, v : Ahead(s, u, v) <=> \E i, j \in 1..Len(s) : i < j /\ s[i] = u /\ s[j] = v
         /\ S!IsInjective(s) <=> \A i, j \in 1..Len(s) : s[i] = s[j] => i = j
         /\ s = <<>> <=> S!ToSet(s) = {}
         /\ s # <<>> => s[1] \in S!ToSet(s)
<1>1. Len(s) \in Nat /\ DOMAIN s = 1..Len(s)
  BY LenProperties
<1>2. \A i \in 1..Len(s) : s[i] \in T
  BY ElementOfSeq
<1>3. S!ToSet(s) = {s[i] : i \in 1..Len(s)}
  BY <1>1 DEF S!ToSet
<1>4. \A u, v : Ahead(s, u, v) <=> \E i, j \in 1..Len(s) : i < j /\ s[i] = u /\ s[j] = v
  BY <1>1 DEF Ahead
<1>5. S!IsInjective(s) <=> \A i, j \in 1..Len(s) : s[i] = s[j] => i = j
  BY <1>1 DEF S!IsInjective
<1>6. /\ s = <<>> => Len(s) = 0
      /\ s # <<>> => Len(s) # 0
  BY EmptySeq
<1>7. ASSUME s # <<>> PROVE s[1] \in S!ToSet(s)
  <2>1. 1 \in 1..Len(s)
    BY <1>1, <1>6, <1>7
  <2> QED
    BY <1>3, <2>1
<1>8. ASSUME s = <<>> PROVE S!ToSet(s) = {}
  BY <1>3, <1>6, <1>8
<1>9. S!ToSet(s) \subseteq T
  BY <1>2, <1>3
<1>10. s = <<>> <=> S!ToSet(s) = {}
  <2>1. s # <<>> => S!ToSet(s) # {}
    BY <1>7
  <2> QED
    BY <1>8, <2>1, Zenon
<1> QED
  BY <1>1, <1>3, <1>4, <1>5, <1>7, <1>9, <1>10, Zenon

\* What is a part of an order is in that order.
LEMMA PartIs ==
  ASSUME NEW T, NEW s \in Seq(T), NEW l \in Seq(T), S!IsInjective(s),
         NEW f \in [1..Len(l) -> 1..Len(s)],
         \A i, j \in 1..Len(l) : i < j => f[i] < f[j],
         \A i \in 1..Len(l) : l[i] = s[f[i]]
  PROVE  /\ S!IsInjective(l)
         /\ \A u, v \in S!ToSet(l) : Ahead(l, u, v) <=> Ahead(s, u, v)
<1>1. /\ Len(s) \in Nat /\ Len(l) \in Nat
      /\ S!ToSet(l) = {l[i] : i \in 1..Len(l)}
      /\ \A i, j \in 1..Len(s) : s[i] = s[j] => i = j
  BY IdsIs
<1>2. ASSUME NEW i \in 1..Len(l), NEW j \in 1..Len(l), l[i] = l[j] PROVE i = j
  <2>1. f[i] = f[j]
    <3>1. f[i] \in 1..Len(s) /\ f[j] \in 1..Len(s)
      OBVIOUS
    <3>2. s[f[i]] = s[f[j]]
      BY <1>2
    <3> QED
      BY <1>1, <3>1, <3>2
  <2>2. ~(f[i] < f[j]) /\ ~(f[j] < f[i])
    BY <1>1, <2>1
  <2>3. ~(i < j) /\ ~(j < i)
    BY <2>2
  <2> QED
    BY <1>1, <2>3
<1>3. ASSUME NEW u \in S!ToSet(l), NEW v \in S!ToSet(l)
      PROVE  Ahead(l, u, v) <=> Ahead(s, u, v)
  <2>1. ASSUME NEW i \in 1..Len(l), NEW j \in 1..Len(l), i < j, l[i] = u, l[j] = v
        PROVE  Ahead(s, u, v)
    <3>1. f[i] \in 1..Len(s) /\ f[j] \in 1..Len(s) /\ f[i] < f[j] /\ s[f[i]] = u /\ s[f[j]] = v
      BY <2>1
    <3> QED
      BY <3>1, IdsIs
  <2>2. ASSUME NEW i \in 1..Len(s), NEW j \in 1..Len(s), i < j, s[i] = u, s[j] = v
        PROVE  Ahead(l, u, v)
    <3>1. PICK a \in 1..Len(l) : l[a] = u
      BY <1>1
    <3>2. PICK b \in 1..Len(l) : l[b] = v
      BY <1>1
    <3>3. f[a] = i /\ f[b] = j
      BY <1>1, <2>2, <3>1, <3>2
    <3>4. ~(b < a)
      <4>1. ~(f[b] < f[a])
        BY <1>1, <2>2, <3>3
      <4> QED
        BY <4>1
    <3>5. a # b
      BY <1>1, <2>2, <3>3
    <3>6. a < b
      BY <1>1, <3>4, <3>5
    <3> QED
      BY <3>1, <3>2, <3>6, IdsIs
  <2>3. Ahead(l, u, v) => \E i, j \in 1..Len(l) : i < j /\ l[i] = u /\ l[j] = v
    BY IdsIs
  <2>4. Ahead(s, u, v) => \E i, j \in 1..Len(s) : i < j /\ s[i] = u /\ s[j] = v
    BY IdsIs
  <2> QED
    BY <2>1, <2>2, <2>3, <2>4
<1>4. S!IsInjective(l)
  BY <1>2, IdsIs
<1> QED
  BY <1>3, <1>4

\* A new id is put last.
LEMMA AppendIs ==
  ASSUME NEW T, NEW s \in Seq(T), S!IsInjective(s), NEW id \in T, id \notin S!ToSet(s)
  PROVE  LET new == Append(s, id)
         IN  /\ new \in Seq(T) /\ S!IsInjective(new)
             /\ S!ToSet(new) = S!ToSet(s) \cup {id}
             /\ \A u, v \in S!ToSet(s) : Ahead(s, u, v) <=> Ahead(new, u, v)
<1> DEFINE new == Append(s, id)
<1>1. /\ new \in Seq(T) /\ Len(new) = Len(s) + 1
      /\ \A i \in 1..Len(s) : new[i] = s[i]
      /\ new[Len(s) + 1] = id
  BY AppendProperties
<1> HIDE DEF new
<1>2. /\ Len(s) \in Nat /\ S!ToSet(s) = {s[i] : i \in 1..Len(s)}
      /\ \A i, j \in 1..Len(s) : s[i] = s[j] => i = j
  BY IdsIs
<1>3. S!ToSet(new) = {new[i] : i \in 1..Len(new)}
  BY <1>1, IdsIs
<1>4. \A i \in 1..Len(new) : i \in 1..Len(s) \/ i = Len(s) + 1
  BY <1>1, <1>2
<1>5. \A i \in 1..Len(s) : s[i] # id /\ i \in 1..Len(new)
  BY <1>1, <1>2
<1>6. S!ToSet(new) = S!ToSet(s) \cup {id}
  <2>1. Len(s) + 1 \in 1..Len(new)
    BY <1>1, <1>2
  <2> QED
    BY <1>1, <1>2, <1>3, <1>4, <1>5, <2>1
<1>7. S!IsInjective(new)
  <2>1. \A i, j \in 1..Len(new) : new[i] = new[j] => i = j
    BY <1>1, <1>2, <1>4, <1>5
  <2> QED
    BY <1>1, <2>1, IdsIs
<1>8. \A u, v \in S!ToSet(s) : Ahead(s, u, v) <=> Ahead(new, u, v)
  <2> DEFINE f == [i \in 1..Len(s) |-> i]
  <2>1. /\ f \in [1..Len(s) -> 1..Len(new)]
        /\ \A i, j \in 1..Len(s) : i < j => f[i] < f[j]
        /\ \A i \in 1..Len(s) : s[i] = new[f[i]]
    BY <1>1, <1>5
  <2> HIDE DEF f
  <2> QED
    BY <1>1, <1>7, <2>1, PartIs
<1> QED
  BY <1>1, <1>6, <1>7, <1>8 DEF new

\* Taking out an id leaves the others in their order.
LEMMA WithoutIs ==
  ASSUME NEW T, NEW s \in Seq(T), S!IsInjective(s), NEW id \in S!ToSet(s)
  PROVE  LET left == Without(s, id)
         IN  /\ left \in Seq(T) /\ S!IsInjective(left)
             /\ Len(left) = Len(s) - 1 /\ Len(s) \in Nat /\ DOMAIN s = 1..Len(s)
             /\ S!ToSet(left) = S!ToSet(s) \ {id}
             /\ \A u, v \in S!ToSet(left) : Ahead(left, u, v) <=> Ahead(s, u, v)
<1> DEFINE left == Without(s, id)
           k == Index(s, id)
           n == Len(s)
<1>1. /\ n \in Nat /\ DOMAIN s = 1..n /\ S!ToSet(s) = {s[i] : i \in 1..n}
      /\ \A i, j \in 1..n : s[i] = s[j] => i = j
      /\ \A i \in 1..n : s[i] \in T
  BY IdsIs, ElementOfSeq
<1>2. k \in 1..n /\ s[k] = id
  <2>1. \E i \in DOMAIN s : s[i] = id
    BY <1>1
  <2> QED
    BY <1>1, <2>1 DEF Index
<1>3. left = SubSeq(s, 1, k - 1) \o SubSeq(s, k + 1, n)
  BY DEF Without, S!RemoveAt
<1> HIDE DEF k, n, left
<1>4. /\ SubSeq(s, 1, k - 1) \in Seq(T)
      /\ Len(SubSeq(s, 1, k - 1)) = k - 1
      /\ \A i \in 1..(k - 1) : SubSeq(s, 1, k - 1)[i] = s[i]
  <2>1. 1 \in Int /\ k - 1 \in Int /\ \A i \in 1..(k - 1) : s[i] \in T
    BY <1>1, <1>2
  <2>2. /\ SubSeq(s, 1, k - 1) \in Seq(T)
        /\ Len(SubSeq(s, 1, k - 1)) = IF 1 <= k - 1 THEN (k - 1) - 1 + 1 ELSE 0
        /\ \A i \in 1..((k - 1) - 1 + 1) : SubSeq(s, 1, k - 1)[i] = s[1 + i - 1]
    BY <2>1, SubSeqProperties
  <2> QED
    BY <1>1, <1>2, <2>2
<1>5. /\ SubSeq(s, k + 1, n) \in Seq(T)
      /\ Len(SubSeq(s, k + 1, n)) = n - k
      /\ \A i \in 1..(n - k) : SubSeq(s, k + 1, n)[i] = s[k + i]
  <2>1. k + 1 \in Int /\ n \in Int /\ \A i \in (k + 1)..n : s[i] \in T
    BY <1>1, <1>2
  <2>2. /\ SubSeq(s, k + 1, n) \in Seq(T)
        /\ Len(SubSeq(s, k + 1, n)) = IF k + 1 <= n THEN n - (k + 1) + 1 ELSE 0
        /\ \A i \in 1..(n - (k + 1) + 1) : SubSeq(s, k + 1, n)[i] = s[(k + 1) + i - 1]
    BY <2>1, SubSeqProperties
  <2> QED
    BY <1>1, <1>2, <2>2
<1> DEFINE a == SubSeq(s, 1, k - 1)
           b == SubSeq(s, k + 1, n)
<1>6. /\ left \in Seq(T) /\ Len(left) = Len(a) + Len(b)
      /\ \A i \in 1..(Len(a) + Len(b)) : left[i] = IF i <= Len(a) THEN a[i] ELSE b[i - Len(a)]
  BY <1>3, <1>4, <1>5, ConcatProperties
<1> HIDE DEF a, b
<1> DEFINE f == [i \in 1..(n - 1) |-> IF i < k THEN i ELSE i + 1]
<1>7. Len(left) = n - 1 /\ \A i \in 1..(n - 1) : left[i] = s[f[i]]
  <2>1. Len(left) = n - 1 /\ Len(a) = k - 1 /\ Len(b) = n - k
    BY <1>1, <1>2, <1>4, <1>5, <1>6 DEF a, b
  <2>2. ASSUME NEW i \in 1..(n - 1), i < k PROVE left[i] = s[f[i]]
    BY <1>1, <1>2, <1>4, <1>6, <2>1, <2>2 DEF a
  <2>3. ASSUME NEW i \in 1..(n - 1), ~(i < k) PROVE left[i] = s[f[i]]
    <3>1. i - (k - 1) \in 1..(n - k) /\ k + (i - (k - 1)) = i + 1
      BY <1>1, <1>2, <2>3
    <3>2. left[i] = b[i - (k - 1)]
      <4>1. i \in 1..(Len(a) + Len(b)) /\ ~(i <= Len(a)) /\ Len(a) = k - 1
        BY <1>1, <1>2, <2>1, <2>3
      <4> QED
        BY <1>6, <4>1
    <3>3. b[i - (k - 1)] = s[i + 1]
      BY <1>5, <3>1 DEF b
    <3> QED
      BY <2>3, <3>2, <3>3
  <2> QED
    BY <2>1, <2>2, <2>3
<1>8. /\ f \in [1..(n - 1) -> 1..n]
      /\ \A i, j \in 1..(n - 1) : i < j => f[i] < f[j]
      /\ \A i \in 1..(n - 1) : f[i] # k
      /\ \A j \in 1..n : j # k => \E i \in 1..(n - 1) : f[i] = j
  <2>1. f \in [1..(n - 1) -> 1..n]
    BY <1>1, <1>2
  <2>2. \A i, j \in 1..(n - 1) : i < j => f[i] < f[j]
    BY <1>1, <1>2
  <2>3. \A i \in 1..(n - 1) : f[i] # k
    BY <1>1, <1>2
  <2>4. ASSUME NEW j \in 1..n, j # k PROVE \E i \in 1..(n - 1) : f[i] = j
    <3>1. CASE j < k
      <4>1. j \in 1..(n - 1) /\ f[j] = j
        BY <1>1, <1>2, <3>1
      <4> QED
        BY <4>1
    <3>2. CASE j > k
      <4>1. j - 1 \in 1..(n - 1) /\ f[j - 1] = j
        BY <1>1, <1>2, <3>2
      <4> QED
        BY <4>1
    <3> QED
      BY <1>1, <1>2, <2>4, <3>1, <3>2
  <2> QED
    BY <2>1, <2>2, <2>3, <2>4
<1> HIDE DEF f
<1>9. /\ S!IsInjective(left)
      /\ \A u, v \in S!ToSet(left) : Ahead(left, u, v) <=> Ahead(s, u, v)
  <2>1. f \in [1..Len(left) -> 1..n] /\ left \in Seq(T)
    BY <1>6, <1>7, <1>8
  <2>2. \A i, j \in 1..Len(left) : i < j => f[i] < f[j]
    BY <1>7, <1>8
  <2>3. \A i \in 1..Len(left) : left[i] = s[f[i]]
    BY <1>7
  <2> QED
    BY <2>1, <2>2, <2>3, PartIs DEF n
<1>10. S!ToSet(left) = S!ToSet(s) \ {id}
  <2>1. S!ToSet(left) = {left[i] : i \in 1..(n - 1)}
    BY <1>6, <1>7, IdsIs
  <2> QED
    <3>1. ASSUME NEW i \in 1..(n - 1) PROVE left[i] \in S!ToSet(s) /\ left[i] # id
      <4>1. left[i] = s[f[i]] /\ f[i] \in 1..n /\ f[i] # k
        BY <1>7, <1>8
      <4> QED
        BY <1>1, <1>2, <4>1
    <3>2. ASSUME NEW j \in 1..n, s[j] # id PROVE s[j] \in S!ToSet(left)
      <4>1. PICK i \in 1..(n - 1) : f[i] = j
        BY <1>2, <1>8, <3>2
      <4>2. left[i] = s[j]
        BY <1>7, <4>1
      <4> QED
        BY <2>1, <4>2
    <3> QED
      BY <1>1, <2>1, <3>1, <3>2
<1> QED
  BY <1>1, <1>6, <1>7, <1>9, <1>10 DEF left, n

\* Moving an id leaves the others in their order.
LEMMA MovedIs ==
  ASSUME NEW T, NEW s \in Seq(T), S!IsInjective(s), NEW id \in S!ToSet(s), NEW index \in DOMAIN s
  PROVE  LET new == Moved(s, id, index)
         IN  /\ new \in Seq(T) /\ S!IsInjective(new)
             /\ S!ToSet(new) = S!ToSet(s)
             /\ \A u, v \in S!ToSet(s) \ {id} : Ahead(s, u, v) <=> Ahead(new, u, v)
<1> DEFINE left == Without(s, id)
           new == Moved(s, id, index)
           m == Len(left)
<1>1. /\ left \in Seq(T) /\ S!IsInjective(left)
      /\ m = Len(s) - 1 /\ Len(s) \in Nat /\ DOMAIN s = 1..Len(s)
      /\ S!ToSet(left) = S!ToSet(s) \ {id}
      /\ \A u, v \in S!ToSet(left) : Ahead(left, u, v) <=> Ahead(s, u, v)
  BY WithoutIs
<1>2. new = SubSeq(left, 1, index - 1) \o <<id>> \o SubSeq(left, index, m)
  BY DEF Moved, S!InsertAt
<1> HIDE DEF left, new, m
<1>3. /\ m \in Nat /\ index \in 1..(m + 1) /\ id \in T
      /\ \A i \in 1..m : left[i] \in T
  <2>1. m \in Nat /\ id \in T
    BY <1>1, IdsIs DEF m
  <2>2. \A i \in 1..m : left[i] \in T
    BY <1>1, ElementOfSeq DEF m
  <2> QED
    BY <1>1, <2>1, <2>2
<1> DEFINE a == SubSeq(left, 1, index - 1)
           b == SubSeq(left, index, m)
           c == a \o <<id>>
<1>4. /\ a \in Seq(T) /\ Len(a) = index - 1
      /\ \A i \in 1..(index - 1) : a[i] = left[i]
  <2>1. 1 \in Int /\ index - 1 \in Int /\ \A i \in 1..(index - 1) : left[i] \in T
    BY <1>3
  <2>2. /\ a \in Seq(T)
        /\ Len(a) = IF 1 <= index - 1 THEN (index - 1) - 1 + 1 ELSE 0
        /\ \A i \in 1..((index - 1) - 1 + 1) : a[i] = left[1 + i - 1]
    BY <2>1, SubSeqProperties
  <2> HIDE DEF a
  <2> QED
    BY <1>3, <2>2
<1>5. /\ b \in Seq(T) /\ Len(b) = m - index + 1
      /\ \A i \in 1..(m - index + 1) : b[i] = left[index + i - 1]
  <2>1. index \in Int /\ m \in Int /\ \A i \in index..m : left[i] \in T
    BY <1>3
  <2>2. /\ b \in Seq(T)
        /\ Len(b) = IF index <= m THEN m - index + 1 ELSE 0
        /\ \A i \in 1..(m - index + 1) : b[i] = left[index + i - 1]
    BY <2>1, SubSeqProperties
  <2> HIDE DEF b
  <2> QED
    BY <1>3, <2>2
<1>6. new = c \o b
  BY <1>2
<1> HIDE DEF a, b
<1>7. /\ c \in Seq(T) /\ Len(c) = index /\ c[index] = id
      /\ \A i \in 1..(index - 1) : c[i] = left[i]
  <2>1. <<id>> \in Seq(T) /\ Len(<<id>>) = 1 /\ <<id>>[1] = id
    BY <1>3
  <2> DEFINE e == <<id>>
  <2> HIDE DEF e
  <2>2. /\ a \o e \in Seq(T) /\ Len(a \o e) = Len(a) + Len(e)
        /\ \A i \in 1..(Len(a) + Len(e)) : (a \o e)[i] = IF i <= Len(a) THEN a[i] ELSE e[i - Len(a)]
    BY <1>4, <2>1, ConcatProperties DEF e
  <2>3. Len(e) = 1 /\ e[1] = id /\ index - (index - 1) = 1
    BY <1>3, <2>1 DEF e
  <2>4. c = a \o e
    BY DEF e
  <2> HIDE DEF c
  <2>5. c \in Seq(T) /\ Len(c) = index
    BY <1>3, <1>4, <2>2, <2>3, <2>4
  <2>6. ASSUME NEW i \in 1..index PROVE c[i] = IF i <= index - 1 THEN a[i] ELSE e[i - (index - 1)]
    <3>1. i \in 1..(Len(a) + Len(e)) /\ Len(a) = index - 1
      BY <1>3, <1>4, <2>3
    <3>2. c[i] = IF i <= Len(a) THEN a[i] ELSE e[i - Len(a)]
      BY <2>2, <2>4, <3>1
    <3> QED
      BY <3>1, <3>2
  <2>7. c[index] = id
    <3>1. index \in 1..index /\ ~(index <= index - 1)
      BY <1>3
    <3> QED
      BY <2>3, <2>6, <3>1
  <2>8. ASSUME NEW i \in 1..(index - 1) PROVE c[i] = left[i]
    <3>1. i \in 1..index /\ i <= index - 1
      BY <1>3
    <3> QED
      BY <1>4, <2>6, <3>1
  <2> QED
    BY <2>5, <2>7, <2>8
<1> HIDE DEF c
<1>8. /\ new \in Seq(T) /\ Len(new) = Len(c) + Len(b)
      /\ \A i \in 1..(Len(c) + Len(b)) : new[i] = IF i <= Len(c) THEN c[i] ELSE b[i - Len(c)]
  <2>1. /\ c \o b \in Seq(T) /\ Len(c \o b) = Len(c) + Len(b)
        /\ \A i \in 1..(Len(c) + Len(b)) : (c \o b)[i] = IF i <= Len(c) THEN c[i] ELSE b[i - Len(c)]
    BY <1>5, <1>7, ConcatProperties
  <2> QED
    BY <1>6, <2>1
<1> DEFINE f == [i \in 1..m |-> IF i < index THEN i ELSE i + 1]
<1>9. /\ Len(new) = m + 1 /\ new[index] = id
      /\ \A i \in 1..m : left[i] = new[f[i]]
  <2>1. Len(new) = m + 1 /\ new[index] = id
    BY <1>3, <1>5, <1>7, <1>8
  <2>2. ASSUME NEW i \in 1..m, i < index PROVE left[i] = new[f[i]]
    <3>1. i \in 1..(Len(c) + Len(b)) /\ i <= Len(c) /\ i \in 1..(index - 1)
      BY <1>3, <1>5, <1>7, <2>2
    <3> QED
      BY <1>7, <1>8, <2>2, <3>1
  <2>3. ASSUME NEW i \in 1..m, ~(i < index) PROVE left[i] = new[f[i]]
    <3>1. (i + 1) - index \in 1..(m - index + 1) /\ index + ((i + 1) - index) - 1 = i
      BY <1>3, <2>3
    <3>2. new[i + 1] = b[(i + 1) - index]
      <4>1. i + 1 \in 1..(Len(c) + Len(b)) /\ ~(i + 1 <= Len(c)) /\ Len(c) = index
        BY <1>3, <1>5, <1>7, <2>3
      <4> QED
        BY <1>8, <4>1
    <3>3. b[(i + 1) - index] = left[i]
      BY <1>5, <3>1
    <3> QED
      BY <2>3, <3>2, <3>3
  <2> QED
    BY <2>1, <2>2, <2>3
<1>10. /\ f \in [1..m -> 1..(m + 1)]
       /\ \A i, j \in 1..m : i < j => f[i] < f[j]
       /\ \A i \in 1..m : f[i] # index
       /\ \A j \in 1..(m + 1) : j # index => \E i \in 1..m : f[i] = j
  <2>1. f \in [1..m -> 1..(m + 1)]
    BY <1>3
  <2>2. \A i, j \in 1..m : i < j => f[i] < f[j]
    BY <1>3
  <2>3. \A i \in 1..m : f[i] # index
    BY <1>3
  <2>4. ASSUME NEW j \in 1..(m + 1), j # index PROVE \E i \in 1..m : f[i] = j
    <3>1. CASE j < index
      <4>1. j \in 1..m /\ f[j] = j
        BY <1>3, <3>1
      <4> QED
        BY <4>1
    <3>2. CASE j > index
      <4>1. j - 1 \in 1..m /\ f[j - 1] = j
        BY <1>3, <3>2
      <4> QED
        BY <4>1
    <3> QED
      BY <1>3, <2>4, <3>1, <3>2
  <2> QED
    BY <2>1, <2>2, <2>3, <2>4
<1> HIDE DEF f
<1>11. /\ S!ToSet(left) = {left[i] : i \in 1..m}
       /\ \A i, j \in 1..m : left[i] = left[j] => i = j
  BY <1>1, IdsIs DEF m
<1>12. \A i \in 1..m : left[i] # id
  BY <1>1, <1>11
<1>13. \A j \in 1..(m + 1) : j # index => \E i \in 1..m : f[i] = j /\ new[j] = left[i]
  BY <1>9, <1>10
<1>14. S!IsInjective(new)
  <2>1. ASSUME NEW i \in 1..(m + 1), NEW j \in 1..(m + 1), new[i] = new[j] PROVE i = j
    BY <1>9, <1>11, <1>12, <1>13, <2>1
  <2>2. \A i, j \in 1..Len(new) : new[i] = new[j] => i = j
    BY <1>9, <2>1
  <2> QED
    BY <1>8, <2>2, IdsIs
<1>15. S!ToSet(new) = S!ToSet(s)
  <2>1. S!ToSet(new) = {new[i] : i \in 1..(m + 1)}
    BY <1>8, <1>9, IdsIs
  <2>2. S!ToSet(new) = S!ToSet(left) \cup {id}
    <3>1. ASSUME NEW j \in 1..(m + 1) PROVE new[j] \in S!ToSet(left) \cup {id}
      <4>1. CASE j = index
        BY <1>9, <4>1
      <4>2. CASE j # index
        BY <1>11, <1>13, <4>2
      <4> QED
        BY <4>1, <4>2
    <3>2. ASSUME NEW i \in 1..m PROVE left[i] \in S!ToSet(new)
      <4>1. f[i] \in 1..(m + 1) /\ left[i] = new[f[i]]
        BY <1>9, <1>10
      <4> QED
        BY <2>1, <4>1
    <3>3. id \in S!ToSet(new)
      BY <1>3, <1>9, <2>1
    <3> QED
      BY <1>11, <2>1, <3>1, <3>2, <3>3
  <2> QED
    BY <1>1, <2>2
<1>16. \A u, v \in S!ToSet(left) : Ahead(left, u, v) <=> Ahead(new, u, v)
  <2>1. f \in [1..Len(left) -> 1..Len(new)]
    BY <1>9, <1>10 DEF m
  <2>2. \A i, j \in 1..Len(left) : i < j => f[i] < f[j]
    BY <1>10 DEF m
  <2>3. \A i \in 1..Len(left) : left[i] = new[f[i]]
    BY <1>9 DEF m
  <2>4. left \in Seq(T) /\ new \in Seq(T)
    BY <1>1, <1>8
  <2> QED
    BY <1>14, <2>1, <2>2, <2>3, <2>4, PartIs
<1> QED
  BY <1>1, <1>8, <1>14, <1>15, <1>16 DEF new

-----------------------------------------------------------------------------
(***************************************************************************)
(* Workspaces, tabs and panes: the inductive invariant and each mutation   *)
(* that keeps it.                                                          *)
(***************************************************************************)
\* The types of all variables but the layouts.
Typed ==
  /\ workspaces \in Seq(Ws)
  /\ tabs \in [Ws -> Seq(Tab)]
  /\ activeWorkspaceID \in Ws \cup {NoID}
  /\ activeTabID \in [Ws -> Tab \cup {NoID}]
  /\ activePaneID \in [Tab -> Pane \cup {NoID}]
  /\ home \in [Tab -> Ws \cup {NoID}]
  /\ pane \in [Pane -> Tab \cup {NoID}]

\* Every layout is a tree of finite depth, which the types do not say.
LayoutsAreTrees == layout = [t \in Tab |-> layout[t]] /\ \A t \in Tab : Tree(layout[t])

(***************************************************************************)
(* No workspace is listed twice, and one that is not listed remembers no   *)
(* active tab: otherwise workspace.create and workspace.close would leave  *)
(* a list or an active id behind that is wrong.                            *)
(***************************************************************************)
Apart ==
  /\ S!IsInjective(workspaces)
  /\ \A w \in Ws \ Workspaces : activeTabID[w] = NoID

\* The inductive invariant.
WorkspaceIInv == WorkspaceInv /\ LayoutsAreTrees /\ Apart

\* The parts of the invariant each action is shown to keep.
LEMMA PartsAre ==
  WorkspaceIInv <=> Typed /\ LayoutsAreTrees /\ LinksAgree /\ ActiveExists /\ Apart
<1>1. ASSUME LayoutsAreTrees PROVE \A t \in Tab : WellFormed(layout[t], Pane, Look)
  BY <1>1 DEF LayoutsAreTrees, Tree
<1>2. ASSUME LayoutsAreTrees PROVE WorkspaceTypeOK <=> Typed
  BY <1>1, <1>2, Zenon DEF WorkspaceTypeOK, Typed
<1> QED
  BY <1>2, Zenon DEF WorkspaceIInv, WorkspaceInv

\* The same of the next state.
LEMMA PartsAreNext ==
  ASSUME Typed', LayoutsAreTrees', LinksAgree', ActiveExists', Apart'
  PROVE  WorkspaceIInv'
<1>1. \A t \in Tab : WellFormed(layout'[t], Pane, Look)
  BY DEF LayoutsAreTrees, Tree
<1>2. WorkspaceTypeOK'
  BY <1>1, Zenon DEF WorkspaceTypeOK, Typed
<1> QED
  BY <1>2, Zenon DEF WorkspaceIInv, WorkspaceInv

\* Nothing is open at first.
LEMMA WorkspaceInitIs == WorkspaceInit => WorkspaceIInv
<1> SUFFICES ASSUME WorkspaceInit PROVE WorkspaceIInv
  OBVIOUS
<1> USE DEF WorkspaceInit
<1>1. \A T : <<>> \in Seq(T) /\ S!ToSet(<<>>) = {} /\ S!IsInjective(<<>>)
  BY EmptySeq DEF S!ToSet, S!IsInjective
<1>2. Typed
  BY <1>1 DEF Typed
<1>3. LayoutsAreTrees
  BY NilIs DEF LayoutsAreTrees
<1>4. LinksAgree
  BY <1>1, NilIs, IdAssumption DEF LinksAgree, Open, Present, Tabs
<1>5. ActiveExists
  BY <1>1, IdAssumption DEF ActiveExists, Open, Workspaces
<1>6. Apart
  BY <1>1 DEF Apart
<1> QED
  BY <1>2, <1>3, <1>4, <1>5, <1>6, PartsAre

\* A workspace that is not listed has no tabs.
LEMMA NoTabs ==
  ASSUME WorkspaceIInv, NEW w \in Ws, w \notin Workspaces
  PROVE  tabs[w] = <<>> /\ Tabs(w) = {} /\ activeTabID[w] = NoID
<1>1. Typed /\ LinksAgree /\ Apart
  BY PartsAre
<1>2. Tabs(w) = {t \in Tab : home[t] = w}
  BY <1>1 DEF LinksAgree
<1>3. \A t \in Tab : home[t] # w
  BY <1>1, IdAssumption DEF LinksAgree, Open
<1>4. tabs[w] \in Seq(Tab)
  BY <1>1 DEF Typed
<1> QED
  BY <1>1, <1>2, <1>3, <1>4, IdsIs DEF Apart, Tabs

\* Each mutation keeps the invariant.
LEMMA CreateWorkspaceKeeps ==
  ASSUME WorkspaceIInv, NEW w \in Ws, CreateWorkspace(w)
  PROVE  WorkspaceIInv'
<1>1. Typed /\ LayoutsAreTrees /\ LinksAgree /\ ActiveExists /\ Apart
  BY PartsAre
<1>2. /\ w \notin Workspaces /\ workspaces' = Append(workspaces, w) /\ activeWorkspaceID' = w
      /\ tabs' = tabs /\ activeTabID' = activeTabID /\ activePaneID' = activePaneID
      /\ layout' = layout /\ home' = home /\ pane' = pane
  BY DEF CreateWorkspace
<1>3. /\ workspaces' \in Seq(Ws) /\ S!IsInjective(workspaces')
      /\ Workspaces' = Workspaces \cup {w}
  BY <1>1, <1>2, AppendIs DEF Typed, Apart, Workspaces
<1>4. Typed'
  BY <1>1, <1>2, <1>3 DEF Typed
<1>5. LayoutsAreTrees'
  BY <1>1, <1>2 DEF LayoutsAreTrees
<1>6. LinksAgree'
  <2>1. Open' = Open /\ Present' = Present /\ \A v \in Ws : Tabs(v)' = Tabs(v)
    BY <1>2 DEF Open, Present, Tabs
  <2> QED
    BY <1>1, <1>2, <1>3, <2>1 DEF LinksAgree
<1>7. ActiveExists'
  <2>1. activeWorkspaceID' # NoID /\ workspaces' # <<>> /\ activeWorkspaceID' \in Workspaces'
    <3>1. w \in S!ToSet(workspaces')
      BY <1>3 DEF Workspaces
    <3> QED
      BY <1>2, <1>3, <3>1, IdAssumption, IdsIs DEF Workspaces
  <2>2. \A v \in Workspaces' : IF tabs'[v] = <<>> THEN activeTabID'[v] = NoID ELSE activeTabID'[v] \in Tabs(v)'
    BY <1>1, <1>2, <1>3, NoTabs DEF ActiveExists, Tabs
  <2>3. \A t \in Open' : activePaneID'[t] \in Panes(layout'[t])
    BY <1>1, <1>2 DEF ActiveExists, Open
  <2> QED
    BY <2>1, <2>2, <2>3 DEF ActiveExists
<1>8. Apart'
  BY <1>1, <1>2, <1>3 DEF Apart
<1> QED
  BY <1>4, <1>5, <1>6, <1>7, <1>8, PartsAreNext

LEMMA SwitchWorkspaceKeeps ==
  ASSUME WorkspaceIInv, NEW w \in Ws, SwitchWorkspace(w)
  PROVE  WorkspaceIInv'
<1>1. Typed /\ LayoutsAreTrees /\ LinksAgree /\ ActiveExists /\ Apart
  BY PartsAre
<1>2. /\ w \in Workspaces /\ activeWorkspaceID' = w /\ workspaces' = workspaces
      /\ tabs' = tabs /\ activeTabID' = activeTabID /\ activePaneID' = activePaneID
      /\ layout' = layout /\ home' = home /\ pane' = pane
  BY DEF SwitchWorkspace
<1>3. Typed' /\ LayoutsAreTrees' /\ Apart'
  BY <1>1, <1>2 DEF Typed, LayoutsAreTrees, Apart, Workspaces
<1>4. LinksAgree'
  BY <1>1, <1>2 DEF LinksAgree, Open, Present, Tabs, Workspaces
<1>5. ActiveExists'
  <2>1. activeWorkspaceID' # NoID /\ workspaces' # <<>> /\ activeWorkspaceID' \in Workspaces'
    BY <1>1, <1>2, IdAssumption, IdsIs DEF Workspaces, Typed
  <2>2. \A v \in Workspaces' : IF tabs'[v] = <<>> THEN activeTabID'[v] = NoID ELSE activeTabID'[v] \in Tabs(v)'
    BY <1>1, <1>2 DEF ActiveExists, Tabs, Workspaces
  <2>3. \A t \in Open' : activePaneID'[t] \in Panes(layout'[t])
    BY <1>1, <1>2 DEF ActiveExists, Open
  <2> QED
    BY <2>1, <2>2, <2>3 DEF ActiveExists
<1> QED
  BY <1>3, <1>4, <1>5, PartsAreNext

\* The panes of the tabs of a workspace that closes.
LEMMA PanesGone ==
  ASSUME WorkspaceIInv, NEW closed \in SUBSET Tab
  PROVE  UNION {Panes(layout[t]) : t \in closed} = {p \in Pane : pane[p] \in closed}
<1>1. \A t \in Tab : Panes(layout[t]) = {p \in Pane : pane[p] = t}
  BY PartsAre DEF LinksAgree
<1> QED
  BY <1>1

\* The panes that go are those of the tabs that close.
LEMMA CloseWorkspaceKeeps ==
  ASSUME WorkspaceIInv, NEW w \in Ws, CloseWorkspace(w)
  PROVE  WorkspaceIInv'
<1> DEFINE closed == Tabs(w)
<1>1. Typed /\ LayoutsAreTrees /\ LinksAgree /\ ActiveExists /\ Apart
  BY PartsAre
<1>2. closed = {t \in Tab : home[t] = w} /\ w # NoID
  BY <1>1, IdAssumption DEF LinksAgree
<1>3. /\ w \in Workspaces /\ workspaces' = Without(workspaces, w)
      /\ activeWorkspaceID' = IF activeWorkspaceID = w THEN FirstOf(workspaces') ELSE activeWorkspaceID
      /\ tabs' = [tabs EXCEPT ![w] = <<>>]
      /\ activeTabID' = [activeTabID EXCEPT ![w] = NoID]
      /\ layout' = Forget(layout, closed, nil)
      /\ activePaneID' = Forget(activePaneID, closed, NoID)
      /\ home' = Forget(home, closed, NoID)
      /\ pane' = Forget(pane, UNION {Panes(layout[t]) : t \in closed}, NoID)
  BY DEF CloseWorkspace
<1>4. /\ workspaces' \in Seq(Ws) /\ S!IsInjective(workspaces')
      /\ Workspaces' = Workspaces \ {w}
  BY <1>1, <1>3, WithoutIs DEF Typed, Apart, Workspaces
<1>5. /\ tabs' \in [Ws -> Seq(Tab)] /\ tabs'[w] = <<>>
      /\ \A v \in Ws : v # w => tabs'[v] = tabs[v]
      /\ activeTabID' \in [Ws -> Tab \cup {NoID}] /\ activeTabID'[w] = NoID
      /\ \A v \in Ws : v # w => activeTabID'[v] = activeTabID[v]
  BY <1>1, <1>3, EmptySeq DEF Typed
<1>6. /\ layout' = [t \in Tab |-> IF home[t] = w THEN nil ELSE layout[t]]
      /\ activePaneID' = [t \in Tab |-> IF home[t] = w THEN NoID ELSE activePaneID[t]]
      /\ home' = [t \in Tab |-> IF home[t] = w THEN NoID ELSE home[t]]
  <2>1. DOMAIN layout = Tab /\ DOMAIN activePaneID = Tab /\ DOMAIN home = Tab
    BY <1>1 DEF Typed, LayoutsAreTrees
  <2> HIDE DEF closed
  <2> QED
    BY <1>2, <1>3, <2>1 DEF Forget
<1>7. pane' = [p \in Pane |-> IF pane[p] \in closed THEN NoID ELSE pane[p]]
  <2>1. UNION {Panes(layout[t]) : t \in closed} = {p \in Pane : pane[p] \in closed}
    BY <1>2, PanesGone
  <2> HIDE DEF closed
  <2> QED
    BY <1>1, <1>3, <2>1 DEF Forget, Typed
<1> HIDE DEF closed
<1>8. \A t \in Tab : t # NoID
  BY IdAssumption
<1>9. Typed'
  <2>1. activeWorkspaceID' \in Ws \cup {NoID}
    BY <1>1, <1>3, <1>4, IdsIs DEF Typed, FirstOf
  <2>2. activePaneID' \in [Tab -> Pane \cup {NoID}] /\ home' \in [Tab -> Ws \cup {NoID}]
    BY <1>1, <1>6 DEF Typed
  <2>3. pane' \in [Pane -> Tab \cup {NoID}]
    BY <1>1, <1>7 DEF Typed
  <2> QED
    BY <1>4, <1>5, <2>1, <2>2, <2>3 DEF Typed
<1>10. LayoutsAreTrees'
  BY <1>1, <1>6, NilIs DEF LayoutsAreTrees
<1>11. LinksAgree'
  <2>1. ASSUME NEW t \in Tab PROVE Panes(layout'[t]) = {p \in Pane : pane'[p] = t}
    <3>1. Panes(layout[t]) = {p \in Pane : pane[p] = t}
      BY <1>1 DEF LinksAgree
    <3>2. CASE home[t] = w
      BY <1>2, <1>6, <1>7, <1>8, <3>2, NilIs
    <3>3. CASE home[t] # w
      BY <1>2, <1>6, <1>7, <1>8, <3>1, <3>3
    <3> QED
      BY <3>2, <3>3
  <2>2. \A t \in Open' : layout'[t] # nil /\ home'[t] \in Workspaces'
    BY <1>1, <1>2, <1>4, <1>6 DEF LinksAgree, Open
  <2>3. \A p \in Present' : pane'[p] \in Open'
    BY <1>1, <1>2, <1>6, <1>7, <1>8 DEF LinksAgree, Open, Present
  <2>4. ASSUME NEW v \in Ws PROVE Tabs(v)' = {t \in Tab : home'[t] = v} /\ S!IsInjective(tabs'[v])
    <3>1. Tabs(v) = {t \in Tab : home[t] = v} /\ S!IsInjective(tabs[v])
      BY <1>1 DEF LinksAgree
    <3>2. CASE v = w
      <4>1. Tabs(v)' = {} /\ S!IsInjective(tabs'[v])
        BY <1>5, <3>2 DEF Tabs, S!ToSet, S!IsInjective
      <4> QED
        BY <1>2, <1>6, <3>2, <4>1
    <3>3. CASE v # w
      <4>1. Tabs(v)' = Tabs(v) /\ v # NoID
        BY <1>5, <3>3, IdAssumption DEF Tabs
      <4> QED
        BY <1>5, <1>6, <3>1, <3>3, <4>1
    <3> QED
      BY <3>2, <3>3
  <2> QED
    BY <2>1, <2>2, <2>3, <2>4 DEF LinksAgree
<1>12. ActiveExists'
  <2>1. /\ activeWorkspaceID' = NoID <=> workspaces' = <<>>
        /\ activeWorkspaceID' # NoID => activeWorkspaceID' \in Workspaces'
    <3>1. CASE activeWorkspaceID = w /\ workspaces' = <<>>
      BY <1>3, <3>1 DEF FirstOf
    <3>2. CASE activeWorkspaceID = w /\ workspaces' # <<>>
      <4>1. activeWorkspaceID' = workspaces'[1] /\ workspaces'[1] \in Workspaces' /\ workspaces'[1] \in Ws
        BY <1>3, <1>4, <3>2, IdsIs DEF FirstOf, Workspaces
      <4> QED
        BY <3>2, <4>1, IdAssumption
    <3>3. CASE activeWorkspaceID # w
      <4>1. workspaces # <<>>
        BY <1>1, <1>3, IdsIs DEF Typed, Workspaces
      <4>2. activeWorkspaceID' \in Workspaces' /\ activeWorkspaceID' # NoID
        BY <1>1, <1>3, <1>4, <3>3, <4>1 DEF ActiveExists
      <4>3. workspaces' # <<>>
        BY <1>4, <4>2, IdsIs DEF Workspaces
      <4> QED
        BY <4>2, <4>3
    <3> QED
      BY <3>1, <3>2, <3>3
  <2>2. \A v \in Workspaces' : IF tabs'[v] = <<>> THEN activeTabID'[v] = NoID ELSE activeTabID'[v] \in Tabs(v)'
    <3>1. Workspaces \subseteq Ws
      BY <1>1, IdsIs DEF Typed, Workspaces
    <3> QED
      BY <1>1, <1>4, <1>5, <3>1 DEF ActiveExists, Tabs
  <2>3. \A t \in Open' : activePaneID'[t] \in Panes(layout'[t])
    BY <1>1, <1>6 DEF ActiveExists, Open
  <2> QED
    BY <2>1, <2>2, <2>3 DEF ActiveExists
<1>13. Apart'
  BY <1>1, <1>4, <1>5 DEF Apart
<1> QED
  BY <1>9, <1>10, <1>11, <1>12, <1>13, PartsAreNext

LEMMA CreateTabKeeps ==
  ASSUME WorkspaceIInv, NEW w \in Ws, NEW t \in Tab, NEW created \in Pane, CreateTab(w, t, created)
  PROVE  WorkspaceIInv'
<1>1. Typed /\ LayoutsAreTrees /\ LinksAgree /\ ActiveExists /\ Apart
  BY PartsAre
<1>2. /\ w \in Workspaces /\ home[t] = NoID /\ pane[created] = NoID
      /\ workspaces' = workspaces /\ activeWorkspaceID' = activeWorkspaceID
      /\ pane' = [pane EXCEPT ![created] = t]
      /\ layout' = [layout EXCEPT ![t] = Leaf(created)]
      /\ activePaneID' = [activePaneID EXCEPT ![t] = created]
      /\ home' = [home EXCEPT ![t] = w]
      /\ tabs' = [tabs EXCEPT ![w] = Append(tabs[w], t)]
      /\ activeTabID' = [activeTabID EXCEPT ![w] = t]
  BY DEF CreateTab, Open, Present
<1>3. w # NoID /\ t # NoID /\ created # NoID
  BY IdAssumption
<1>4. /\ \A v \in Ws : Tabs(v) = {u \in Tab : home[u] = v} /\ S!IsInjective(tabs[v])
      /\ \A u \in Tab : Panes(layout[u]) = {p \in Pane : pane[p] = u}
      /\ \A p \in Pane : pane[p] # NoID => pane[p] \in Open
      /\ \A u \in Tab : home[u] # NoID => layout[u] # nil /\ home[u] \in Workspaces
  BY <1>1 DEF LinksAgree, Open, Present
<1>5. /\ tabs'[w] \in Seq(Tab) /\ S!IsInjective(tabs'[w])
      /\ S!ToSet(tabs'[w]) = S!ToSet(tabs[w]) \cup {t}
  <2>1. tabs[w] \in Seq(Tab) /\ t \notin S!ToSet(tabs[w]) /\ tabs'[w] = Append(tabs[w], t)
    BY <1>1, <1>2, <1>3, <1>4 DEF Typed, Tabs
  <2> QED
    BY <1>4, <2>1, AppendIs
<1>6. /\ tabs' \in [Ws -> Seq(Tab)]
      /\ \A v \in Ws : v # w => tabs'[v] = tabs[v]
  <2>1. tabs' = [v \in Ws |-> IF v = w THEN tabs'[w] ELSE tabs[v]]
    BY <1>1, <1>2 DEF Typed
  <2> QED
    BY <1>1, <1>5, <2>1 DEF Typed
<1>7. /\ layout' = [u \in Tab |-> IF u = t THEN Leaf(created) ELSE layout[u]]
      /\ activePaneID' = [u \in Tab |-> IF u = t THEN created ELSE activePaneID[u]]
      /\ home' = [u \in Tab |-> IF u = t THEN w ELSE home[u]]
      /\ pane' = [p \in Pane |-> IF p = created THEN t ELSE pane[p]]
      /\ activeTabID' = [v \in Ws |-> IF v = w THEN t ELSE activeTabID[v]]
  BY <1>1, <1>2 DEF Typed, LayoutsAreTrees
<1>8. \A p \in Pane : pane[p] # t
  BY <1>2, <1>3, <1>4 DEF Open
<1>9. Typed'
  BY <1>1, <1>2, <1>6, <1>7 DEF Typed
<1>10. LayoutsAreTrees'
  BY <1>1, <1>7, LeafIs DEF LayoutsAreTrees
<1>11. LinksAgree'
  <2>1. ASSUME NEW u \in Tab PROVE Panes(layout'[u]) = {p \in Pane : pane'[p] = u}
    <3>1. CASE u = t
      <4>1. Panes(layout'[u]) = {created}
        BY <1>7, <3>1, LeafIs
      <4>2. {p \in Pane : pane'[p] = t} = {created}
        BY <1>7, <1>8
      <4> QED
        BY <3>1, <4>1, <4>2
    <3>2. CASE u # t
      <4>1. layout'[u] = layout[u] /\ u # NoID
        BY <1>7, <3>2, IdAssumption
      <4>2. \A p \in Pane : pane'[p] = u <=> pane[p] = u
        BY <1>2, <1>7, <3>2, <4>1
      <4> QED
        BY <1>4, <4>1, <4>2
    <3> QED
      BY <3>1, <3>2
  <2>2. \A u \in Open' : layout'[u] # nil /\ home'[u] \in Workspaces'
    BY <1>2, <1>4, <1>7, LeafIs DEF Open, Workspaces
  <2>3. \A p \in Present' : pane'[p] \in Open'
    BY <1>3, <1>4, <1>7 DEF Open, Present
  <2>4. ASSUME NEW v \in Ws PROVE Tabs(v)' = {u \in Tab : home'[u] = v} /\ S!IsInjective(tabs'[v])
    <3>1. CASE v = w
      BY <1>4, <1>5, <1>7, <3>1 DEF Tabs
    <3>2. CASE v # w
      <4>1. v # NoID
        BY IdAssumption
      <4> QED
        BY <1>2, <1>4, <1>6, <1>7, <3>2, <4>1 DEF Tabs
    <3> QED
      BY <3>1, <3>2
  <2> QED
    BY <2>1, <2>2, <2>3, <2>4 DEF LinksAgree
<1>12. ActiveExists'
  <2>1. /\ activeWorkspaceID' = NoID <=> workspaces' = <<>>
        /\ activeWorkspaceID' # NoID => activeWorkspaceID' \in Workspaces'
    BY <1>1, <1>2 DEF ActiveExists, Workspaces
  <2>2. ASSUME NEW v \in Workspaces'
        PROVE  IF tabs'[v] = <<>> THEN activeTabID'[v] = NoID ELSE activeTabID'[v] \in Tabs(v)'
    <3>1. v \in Ws /\ v \in Workspaces
      BY <1>1, <1>2, IdsIs DEF Typed, Workspaces
    <3>2. CASE v = w
      BY <1>5, <1>7, <3>1, <3>2, IdsIs DEF Tabs
    <3>3. CASE v # w
      BY <1>1, <1>6, <1>7, <3>1, <3>3 DEF ActiveExists, Tabs
    <3> QED
      BY <3>2, <3>3
  <2>3. \A u \in Open' : activePaneID'[u] \in Panes(layout'[u])
    BY <1>1, <1>7, LeafIs DEF ActiveExists, Open
  <2> QED
    BY <2>1, <2>2, <2>3 DEF ActiveExists
<1>13. Apart'
  BY <1>1, <1>2, <1>7 DEF Apart, Workspaces
<1> QED
  BY <1>9, <1>10, <1>11, <1>12, <1>13, PartsAreNext

LEMMA FocusTabKeeps ==
  ASSUME WorkspaceIInv, NEW t \in Tab, FocusTab(t)
  PROVE  WorkspaceIInv'
<1>1. Typed /\ LayoutsAreTrees /\ LinksAgree /\ ActiveExists /\ Apart
  BY PartsAre
<1>2. /\ t \in Open /\ activeTabID' = [activeTabID EXCEPT ![home[t]] = t]
      /\ activeWorkspaceID' = home[t] /\ workspaces' = workspaces /\ tabs' = tabs
      /\ activePaneID' = activePaneID /\ layout' = layout /\ home' = home /\ pane' = pane
  BY DEF FocusTab
<1>3. /\ home[t] \in Workspaces /\ home[t] \in Ws /\ home[t] # NoID /\ t \in Tabs(home[t])
      /\ Workspaces \subseteq Ws
  BY <1>1, <1>2, IdsIs DEF LinksAgree, Open, Typed, Workspaces
<1>4. activeTabID' = [v \in Ws |-> IF v = home[t] THEN t ELSE activeTabID[v]]
  BY <1>1, <1>2 DEF Typed
<1>5. Typed'
  BY <1>1, <1>2, <1>3, <1>4 DEF Typed
<1>6. LayoutsAreTrees' /\ Apart'
  BY <1>1, <1>2, <1>3, <1>4 DEF LayoutsAreTrees, Apart, Workspaces
<1>7. LinksAgree'
  BY <1>1, <1>2 DEF LinksAgree, Open, Present, Tabs, Workspaces
<1>8. ActiveExists'
  <2>1. activeWorkspaceID' # NoID /\ workspaces' # <<>> /\ activeWorkspaceID' \in Workspaces'
    BY <1>1, <1>2, <1>3, IdsIs DEF Workspaces, Typed
  <2>2. ASSUME NEW v \in Workspaces'
        PROVE  IF tabs'[v] = <<>> THEN activeTabID'[v] = NoID ELSE activeTabID'[v] \in Tabs(v)'
    <3>1. v \in Ws /\ v \in Workspaces /\ tabs[v] \in Seq(Tab)
      BY <1>1, <1>2, <1>3 DEF Typed, Workspaces
    <3>2. CASE v = home[t]
      <4>1. tabs'[v] # <<>> /\ activeTabID'[v] = t /\ t \in Tabs(v)'
        BY <1>2, <1>3, <1>4, <3>1, <3>2, IdsIs DEF Tabs
      <4> QED
        BY <4>1
    <3>3. CASE v # home[t]
      BY <1>1, <1>2, <1>4, <3>1, <3>3 DEF ActiveExists, Tabs
    <3> QED
      BY <3>2, <3>3
  <2>3. \A u \in Open' : activePaneID'[u] \in Panes(layout'[u])
    BY <1>1, <1>2 DEF ActiveExists, Open
  <2> QED
    BY <2>1, <2>2, <2>3 DEF ActiveExists
<1> QED
  BY <1>5, <1>6, <1>7, <1>8, PartsAreNext

LEMMA FocusPaneKeeps ==
  ASSUME WorkspaceIInv, NEW p \in Pane, FocusPane(p)
  PROVE  WorkspaceIInv'
<1> DEFINE t == pane[p]
<1>1. Typed /\ LayoutsAreTrees /\ LinksAgree /\ ActiveExists /\ Apart
  BY PartsAre
<1>2. /\ p \in Present /\ activePaneID' = [activePaneID EXCEPT ![t] = p]
      /\ activeTabID' = [activeTabID EXCEPT ![home[t]] = t]
      /\ activeWorkspaceID' = home[t] /\ workspaces' = workspaces /\ tabs' = tabs
      /\ layout' = layout /\ home' = home /\ pane' = pane
  BY DEF FocusPane, TabOf
<1>3. t \in Open /\ t \in Tab /\ p \in Panes(layout[t])
  BY <1>1, <1>2 DEF LinksAgree, Open, Present
<1> HIDE DEF t
<1>4. /\ home[t] \in Workspaces /\ home[t] \in Ws /\ home[t] # NoID /\ t \in Tabs(home[t])
      /\ Workspaces \subseteq Ws
  BY <1>1, <1>3, IdsIs DEF LinksAgree, Open, Typed, Workspaces
<1>5. /\ activeTabID' = [v \in Ws |-> IF v = home[t] THEN t ELSE activeTabID[v]]
      /\ activePaneID' = [u \in Tab |-> IF u = t THEN p ELSE activePaneID[u]]
  BY <1>1, <1>2 DEF Typed
<1>6. Typed'
  BY <1>1, <1>2, <1>3, <1>4, <1>5 DEF Typed
<1>7. LayoutsAreTrees' /\ Apart'
  BY <1>1, <1>2, <1>4, <1>5 DEF LayoutsAreTrees, Apart, Workspaces
<1>8. LinksAgree'
  BY <1>1, <1>2 DEF LinksAgree, Open, Present, Tabs, Workspaces
<1>9. ActiveExists'
  <2>1. activeWorkspaceID' # NoID /\ workspaces' # <<>> /\ activeWorkspaceID' \in Workspaces'
    BY <1>1, <1>2, <1>4, IdsIs DEF Workspaces, Typed
  <2>2. ASSUME NEW v \in Workspaces'
        PROVE  IF tabs'[v] = <<>> THEN activeTabID'[v] = NoID ELSE activeTabID'[v] \in Tabs(v)'
    <3>1. v \in Ws /\ v \in Workspaces /\ tabs[v] \in Seq(Tab)
      BY <1>1, <1>2, <1>4 DEF Typed, Workspaces
    <3>2. CASE v = home[t]
      <4>1. tabs'[v] # <<>> /\ activeTabID'[v] = t /\ t \in Tabs(v)'
        BY <1>2, <1>4, <1>5, <3>1, <3>2, IdsIs DEF Tabs
      <4> QED
        BY <4>1
    <3>3. CASE v # home[t]
      BY <1>1, <1>2, <1>5, <3>1, <3>3 DEF ActiveExists, Tabs
    <3> QED
      BY <3>2, <3>3
  <2>3. \A u \in Open' : activePaneID'[u] \in Panes(layout'[u])
    BY <1>1, <1>2, <1>3, <1>5 DEF ActiveExists, Open
  <2> QED
    BY <2>1, <2>2, <2>3 DEF ActiveExists
<1> QED
  BY <1>6, <1>7, <1>8, <1>9, PartsAreNext

LEMMA MoveTabKeeps ==
  ASSUME WorkspaceIInv, NEW t \in Tab, NEW index, MoveTab(t, index)
  PROVE  WorkspaceIInv'
<1> DEFINE w == home[t]
<1>1. Typed /\ LayoutsAreTrees /\ LinksAgree /\ ActiveExists /\ Apart
  BY PartsAre
<1>2. /\ t \in Open /\ index \in DOMAIN tabs[w]
      /\ tabs' = [tabs EXCEPT ![w] = Moved(tabs[w], t, index)]
      /\ workspaces' = workspaces /\ activeWorkspaceID' = activeWorkspaceID
      /\ activeTabID' = activeTabID /\ activePaneID' = activePaneID
      /\ layout' = layout /\ home' = home /\ pane' = pane
  BY DEF MoveTab
<1>3. w \in Ws /\ t \in S!ToSet(tabs[w]) /\ tabs[w] \in Seq(Tab) /\ S!IsInjective(tabs[w])
  BY <1>1, <1>2 DEF LinksAgree, Open, Typed, Tabs
<1> HIDE DEF w
<1>4. /\ tabs'[w] \in Seq(Tab) /\ S!IsInjective(tabs'[w])
      /\ S!ToSet(tabs'[w]) = S!ToSet(tabs[w])
  <2>1. tabs'[w] = Moved(tabs[w], t, index)
    BY <1>1, <1>2, <1>3 DEF Typed
  <2> QED
    BY <1>2, <1>3, <2>1, MovedIs
<1>5. /\ tabs' \in [Ws -> Seq(Tab)]
      /\ \A v \in Ws : v # w => tabs'[v] = tabs[v]
  <2>1. tabs' = [v \in Ws |-> IF v = w THEN tabs'[w] ELSE tabs[v]]
    BY <1>1, <1>2, <1>3 DEF Typed
  <2> QED
    BY <1>1, <1>4, <2>1 DEF Typed
<1>6. \A v \in Ws : Tabs(v)' = Tabs(v) /\ S!IsInjective(tabs'[v])
  BY <1>1, <1>4, <1>5 DEF Tabs, LinksAgree
<1>7. Typed' /\ LayoutsAreTrees' /\ Apart'
  BY <1>1, <1>2, <1>5 DEF Typed, LayoutsAreTrees, Apart, Workspaces
<1>8. LinksAgree'
  BY <1>1, <1>2, <1>6 DEF LinksAgree, Open, Present, Workspaces
<1>9. ActiveExists'
  <2>1. /\ activeWorkspaceID' = NoID <=> workspaces' = <<>>
        /\ activeWorkspaceID' # NoID => activeWorkspaceID' \in Workspaces'
    BY <1>1, <1>2 DEF ActiveExists, Workspaces
  <2>2. ASSUME NEW v \in Workspaces'
        PROVE  IF tabs'[v] = <<>> THEN activeTabID'[v] = NoID ELSE activeTabID'[v] \in Tabs(v)'
    <3>1. v \in Ws /\ v \in Workspaces
      BY <1>1, <1>2, IdsIs DEF Typed, Workspaces
    <3>2. tabs[v] \in Seq(Tab) /\ tabs'[v] \in Seq(Tab)
      BY <1>1, <1>5, <3>1 DEF Typed
    <3>3. tabs'[v] = <<>> <=> tabs[v] = <<>>
      BY <1>6, <3>1, <3>2, IdsIs DEF Tabs
    <3> QED
      BY <1>1, <1>2, <1>6, <3>1, <3>3 DEF ActiveExists
  <2>3. \A u \in Open' : activePaneID'[u] \in Panes(layout'[u])
    BY <1>1, <1>2 DEF ActiveExists, Open
  <2> QED
    BY <2>1, <2>2, <2>3 DEF ActiveExists
<1> QED
  BY <1>7, <1>8, <1>9, PartsAreNext

\* What closeTab takes with the tab are its panes.
LEMMA CloseTabKeeps ==
  ASSUME WorkspaceIInv, NEW t \in Tab, t \in Open, CloseTab(t, Panes(layout[t]))
  PROVE  WorkspaceIInv'
<1> DEFINE w == home[t]
<1>1. Typed /\ LayoutsAreTrees /\ LinksAgree /\ ActiveExists /\ Apart
  BY PartsAre
<1>2. /\ tabs' = [tabs EXCEPT ![w] = Without(tabs[w], t)]
      /\ activeTabID' = [activeTabID EXCEPT ![w] = IF activeTabID[w] = t THEN FirstOf(Without(tabs[w], t))
                                                   ELSE activeTabID[w]]
      /\ pane' = Forget(pane, Panes(layout[t]), NoID)
      /\ layout' = [layout EXCEPT ![t] = nil]
      /\ activePaneID' = [activePaneID EXCEPT ![t] = NoID]
      /\ home' = [home EXCEPT ![t] = NoID]
      /\ workspaces' = workspaces /\ activeWorkspaceID' = activeWorkspaceID
  BY DEF CloseTab
<1>3. /\ \A v \in Ws : Tabs(v) = {u \in Tab : home[u] = v} /\ S!IsInjective(tabs[v])
      /\ \A u \in Tab : Panes(layout[u]) = {p \in Pane : pane[p] = u}
      /\ \A p \in Pane : pane[p] # NoID => pane[p] \in Open
      /\ \A u \in Tab : home[u] # NoID => layout[u] # nil /\ home[u] \in Workspaces
  BY <1>1 DEF LinksAgree, Open, Present
<1>4. /\ w \in Ws /\ w \in Workspaces /\ t \in S!ToSet(tabs[w])
      /\ tabs[w] \in Seq(Tab) /\ S!IsInjective(tabs[w])
  BY <1>1, <1>3 DEF Open, Typed, Tabs
<1>5. \A v \in Ws : v # NoID
  BY IdAssumption
<1>6. \A u \in Tab : u # NoID
  BY IdAssumption
<1> HIDE DEF w
<1>7. /\ tabs'[w] \in Seq(Tab) /\ S!IsInjective(tabs'[w])
      /\ S!ToSet(tabs'[w]) = S!ToSet(tabs[w]) \ {t}
      /\ tabs'[w] = Without(tabs[w], t)
  <2>1. tabs'[w] = Without(tabs[w], t)
    BY <1>1, <1>2, <1>4 DEF Typed
  <2> QED
    BY <1>4, <2>1, WithoutIs
<1>8. /\ tabs' \in [Ws -> Seq(Tab)]
      /\ \A v \in Ws : v # w => tabs'[v] = tabs[v]
  <2>1. tabs' = [v \in Ws |-> IF v = w THEN tabs'[w] ELSE tabs[v]]
    BY <1>1, <1>2, <1>4 DEF Typed
  <2> QED
    BY <1>1, <1>7, <2>1 DEF Typed
<1>9. /\ layout' = [u \in Tab |-> IF u = t THEN nil ELSE layout[u]]
      /\ activePaneID' = [u \in Tab |-> IF u = t THEN NoID ELSE activePaneID[u]]
      /\ home' = [u \in Tab |-> IF u = t THEN NoID ELSE home[u]]
      /\ activeTabID' = [v \in Ws |-> IF v = w THEN IF activeTabID[w] = t THEN FirstOf(tabs'[w]) ELSE activeTabID[w]
                                      ELSE activeTabID[v]]
  BY <1>1, <1>2, <1>7 DEF Typed, LayoutsAreTrees
<1>10. pane' = [p \in Pane |-> IF pane[p] = t THEN NoID ELSE pane[p]]
  BY <1>1, <1>2, <1>3 DEF Typed, Forget
<1>11. FirstOf(tabs'[w]) \in Tab \cup {NoID}
  BY <1>7, IdsIs DEF FirstOf
<1>12. Typed'
  <2>1. activeTabID' \in [Ws -> Tab \cup {NoID}]
    BY <1>1, <1>9, <1>11 DEF Typed
  <2>2. activePaneID' \in [Tab -> Pane \cup {NoID}] /\ home' \in [Tab -> Ws \cup {NoID}]
    BY <1>1, <1>9 DEF Typed
  <2>3. pane' \in [Pane -> Tab \cup {NoID}]
    BY <1>1, <1>10 DEF Typed
  <2> QED
    BY <1>1, <1>2, <1>8, <2>1, <2>2, <2>3 DEF Typed
<1>13. LayoutsAreTrees'
  BY <1>1, <1>9, NilIs DEF LayoutsAreTrees
<1>14. LinksAgree'
  <2>1. ASSUME NEW u \in Tab PROVE Panes(layout'[u]) = {p \in Pane : pane'[p] = u}
    <3>1. CASE u = t
      BY <1>6, <1>9, <1>10, <3>1, NilIs
    <3>2. CASE u # t
      BY <1>3, <1>6, <1>9, <1>10, <3>2
    <3> QED
      BY <3>1, <3>2
  <2>2. \A u \in Open' : layout'[u] # nil /\ home'[u] \in Workspaces'
    BY <1>2, <1>3, <1>9 DEF Open, Workspaces
  <2>3. \A p \in Present' : pane'[p] \in Open'
    BY <1>3, <1>9, <1>10 DEF Open, Present
  <2>4. ASSUME NEW v \in Ws PROVE Tabs(v)' = {u \in Tab : home'[u] = v} /\ S!IsInjective(tabs'[v])
    <3>1. CASE v = w
      BY <1>3, <1>5, <1>7, <1>9, <3>1 DEF Tabs
    <3>2. CASE v # w
      <4>1. Tabs(v)' = Tabs(v) /\ S!IsInjective(tabs'[v]) /\ v # NoID
        BY <1>3, <1>5, <1>8, <3>2 DEF Tabs
      <4>2. \A u \in Tab : home'[u] = v <=> home[u] = v
        <5>1. home[t] # v
          BY <3>2 DEF w
        <5> QED
          BY <1>9, <4>1, <5>1
      <4> QED
        BY <1>3, <4>1, <4>2
    <3> QED
      BY <3>1, <3>2
  <2> QED
    BY <2>1, <2>2, <2>3, <2>4 DEF LinksAgree
<1>15. ActiveExists'
  <2>1. /\ activeWorkspaceID' = NoID <=> workspaces' = <<>>
        /\ activeWorkspaceID' # NoID => activeWorkspaceID' \in Workspaces'
    BY <1>1, <1>2 DEF ActiveExists, Workspaces
  <2>2. ASSUME NEW v \in Workspaces'
        PROVE  IF tabs'[v] = <<>> THEN activeTabID'[v] = NoID ELSE activeTabID'[v] \in Tabs(v)'
    <3>1. v \in Ws /\ v \in Workspaces
      BY <1>1, <1>2, IdsIs DEF Typed, Workspaces
    <3>2. CASE v # w
      BY <1>1, <1>8, <1>9, <3>1, <3>2 DEF ActiveExists, Tabs
    <3>3. CASE v = w /\ activeTabID[w] = t
      <4>1. activeTabID'[v] = FirstOf(tabs'[v])
        BY <1>4, <1>9, <3>3
      <4>2. tabs'[v] # <<>> => tabs'[v][1] \in S!ToSet(tabs'[v])
        BY <1>7, <3>3, IdsIs
      <4> QED
        BY <4>1, <4>2 DEF FirstOf, Tabs
    <3>4. CASE v = w /\ activeTabID[w] # t
      <4>1. activeTabID'[v] = activeTabID[v] /\ tabs[v] # <<>>
        BY <1>4, <1>9, <3>4, IdsIs
      <4>2. activeTabID[v] \in S!ToSet(tabs[v])
        BY <1>1, <3>1, <4>1 DEF ActiveExists, Tabs
      <4>3. activeTabID'[v] \in S!ToSet(tabs'[v])
        BY <1>7, <3>4, <4>1, <4>2
      <4>4. tabs'[v] # <<>>
        BY <1>7, <3>4, <4>3, IdsIs
      <4> QED
        BY <4>3, <4>4 DEF Tabs
    <3> QED
      BY <3>2, <3>3, <3>4
  <2>3. \A u \in Open' : activePaneID'[u] \in Panes(layout'[u])
    BY <1>1, <1>9 DEF ActiveExists, Open
  <2> QED
    BY <2>1, <2>2, <2>3 DEF ActiveExists
<1>16. Apart'
  BY <1>1, <1>2, <1>4, <1>9 DEF Apart, Workspaces
<1> QED
  BY <1>12, <1>13, <1>14, <1>15, <1>16, PartsAreNext

LEMMA ResizeSplitKeeps ==
  ASSUME WorkspaceIInv, NEW t \in Tab, NEW path, NEW ratio \in Ratio, ResizeSplit(t, path, ratio)
  PROVE  WorkspaceIInv'
<1> DEFINE new == [layout[t] EXCEPT ![path].ratio = ratio]
<1>1. Typed /\ LayoutsAreTrees /\ LinksAgree /\ ActiveExists /\ Apart
  BY PartsAre
<1>2. /\ t \in Open /\ path \in Splits(layout[t])
      /\ workspaces' = workspaces /\ tabs' = tabs /\ activeWorkspaceID' = activeWorkspaceID
      /\ activeTabID' = activeTabID /\ activePaneID' = activePaneID /\ home' = home /\ pane' = pane
  BY DEF ResizeSplit
<1>3. layout' = [u \in Tab |-> IF u = t THEN new ELSE layout[u]]
  BY <1>1 DEF ResizeSplit, LayoutsAreTrees
<1>4. Tree(new) /\ new # nil /\ Panes(new) = Panes(layout[t])
  BY <1>1, <1>2, ResizeIs DEF LayoutsAreTrees
<1> HIDE DEF new
<1>5. \A u \in Tab : Tree(layout'[u]) /\ Panes(layout'[u]) = Panes(layout[u]) /\ (layout[u] # nil => layout'[u] # nil)
  BY <1>1, <1>3, <1>4 DEF LayoutsAreTrees
<1>6. Typed' /\ Apart'
  BY <1>1, <1>2 DEF Typed, Apart, Workspaces
<1>7. LayoutsAreTrees'
  BY <1>3, <1>5 DEF LayoutsAreTrees
<1>8. LinksAgree'
  BY <1>1, <1>2, <1>5 DEF LinksAgree, Open, Present, Tabs, Workspaces
<1>9. ActiveExists'
  BY <1>1, <1>2, <1>5 DEF ActiveExists, Open, Tabs, Workspaces
<1> QED
  BY <1>6, <1>7, <1>8, <1>9, PartsAreNext

LEMMA SplitPaneKeeps ==
  ASSUME WorkspaceIInv, NEW p \in Pane, NEW created \in Pane, NEW orientation \in Orientation,
         SplitPane(p, orientation, created)
  PROVE  WorkspaceIInv'
<1> DEFINE t == pane[p]
           look == [orientation |-> orientation, ratio |-> Half]
           new == Split(layout[t], p, look, created)
<1>1. Typed /\ LayoutsAreTrees /\ LinksAgree /\ ActiveExists /\ Apart
  BY PartsAre
<1>2. /\ p \in Present /\ pane[created] = NoID
      /\ layout' = [layout EXCEPT ![t] = new]
      /\ pane' = [pane EXCEPT ![created] = t]
      /\ activePaneID' = [activePaneID EXCEPT ![t] = created]
      /\ workspaces' = workspaces /\ tabs' = tabs /\ activeWorkspaceID' = activeWorkspaceID
      /\ activeTabID' = activeTabID /\ home' = home
  BY DEF SplitPane, TabOf, Present
<1>3. /\ t \in Open /\ t \in Tab /\ t # NoID /\ p \in Panes(layout[t])
      /\ \A u \in Tab : u # NoID /\ Panes(layout[u]) = {q \in Pane : pane[q] = u}
  BY <1>1, <1>2, IdAssumption DEF LinksAgree, Open, Present
<1>4. /\ Tree(new) /\ new # nil /\ Panes(new) = Panes(layout[t]) \cup {created}
  <2>1. look \in Look /\ created \notin Panes(layout[t]) /\ Tree(layout[t])
    BY <1>1, <1>2, <1>3, IdAssumption DEF Look, LayoutsAreTrees
  <2> HIDE DEF look
  <2> QED
    BY <1>3, <2>1, SplitIs
<1> HIDE DEF t, new
<1>5. /\ layout' = [u \in Tab |-> IF u = t THEN new ELSE layout[u]]
      /\ pane' = [q \in Pane |-> IF q = created THEN t ELSE pane[q]]
      /\ activePaneID' = [u \in Tab |-> IF u = t THEN created ELSE activePaneID[u]]
  BY <1>1, <1>2 DEF Typed, LayoutsAreTrees
<1>6. Typed' /\ Apart'
  BY <1>1, <1>2, <1>3, <1>5 DEF Typed, Apart, Workspaces
<1>7. LayoutsAreTrees'
  BY <1>1, <1>4, <1>5 DEF LayoutsAreTrees
<1>8. LinksAgree'
  <2>1. ASSUME NEW u \in Tab PROVE Panes(layout'[u]) = {q \in Pane : pane'[q] = u}
    <3>1. CASE u = t
      BY <1>3, <1>4, <1>5, <3>1
    <3>2. CASE u # t
      BY <1>2, <1>3, <1>5, <3>2
    <3> QED
      BY <3>1, <3>2
  <2>2. \A u \in Open' : layout'[u] # nil /\ home'[u] \in Workspaces'
    BY <1>1, <1>2, <1>4, <1>5 DEF LinksAgree, Open, Workspaces
  <2>3. \A q \in Present' : pane'[q] \in Open'
    BY <1>1, <1>2, <1>3, <1>5 DEF LinksAgree, Open, Present
  <2>4. \A v \in Ws : Tabs(v)' = {u \in Tab : home'[u] = v} /\ S!IsInjective(tabs'[v])
    BY <1>1, <1>2 DEF LinksAgree, Tabs
  <2> QED
    BY <2>1, <2>2, <2>3, <2>4 DEF LinksAgree
<1>9. ActiveExists'
  <2>1. \A u \in Open' : activePaneID'[u] \in Panes(layout'[u])
    BY <1>1, <1>2, <1>4, <1>5 DEF ActiveExists, Open
  <2> QED
    BY <1>1, <1>2, <2>1 DEF ActiveExists, Tabs, Workspaces
<1> QED
  BY <1>6, <1>7, <1>8, <1>9, PartsAreNext

LEMMA RemovePaneKeeps ==
  ASSUME WorkspaceIInv, NEW p \in Pane, RemovePane(p)
  PROVE  WorkspaceIInv'
<1> DEFINE t == pane[p]
           left == Remove(layout[t], p)
<1>1. Typed /\ LayoutsAreTrees /\ LinksAgree /\ ActiveExists /\ Apart
  BY PartsAre
<1>2. /\ p \in Present
      /\ left = nil => CloseTab(t, {p})
      /\ left # nil =>
           /\ pane' = [pane EXCEPT ![p] = NoID]
           /\ layout' = [layout EXCEPT ![t] = left]
           /\ activePaneID' = [activePaneID EXCEPT ![t] = IF activePaneID[t] = p THEN FirstPane(left)
                                                          ELSE activePaneID[t]]
           /\ workspaces' = workspaces /\ tabs' = tabs /\ activeWorkspaceID' = activeWorkspaceID
           /\ activeTabID' = activeTabID /\ home' = home
  BY DEF RemovePane, TabOf, ActivePaneAfter
<1>3. /\ t \in Open /\ t \in Tab /\ t # NoID /\ p \in Panes(layout[t])
      /\ \A u \in Tab : u # NoID /\ Panes(layout[u]) = {q \in Pane : pane[q] = u}
  BY <1>1, <1>2, IdAssumption DEF LinksAgree, Open, Present
<1>4. Tree(left) /\ Panes(left) = Panes(layout[t]) \ {p}
  BY <1>1, <1>3, RemoveIs DEF LayoutsAreTrees
<1> HIDE DEF t, left
<1>5. CASE left = nil
  <2>1. Panes(layout[t]) = {p}
    BY <1>3, <1>4, <1>5, NilIs
  <2> QED
    BY <1>2, <1>3, <1>5, <2>1, CloseTabKeeps
<1>6. CASE left # nil
  <2>1. FirstPane(left) \in Panes(left)
    BY <1>4, <1>6, FirstIsPane
  <2>2. /\ layout' = [u \in Tab |-> IF u = t THEN left ELSE layout[u]]
        /\ pane' = [q \in Pane |-> IF q = p THEN NoID ELSE pane[q]]
        /\ activePaneID' = [u \in Tab |-> IF u = t THEN IF activePaneID[t] = p THEN FirstPane(left) ELSE activePaneID[t]
                                          ELSE activePaneID[u]]
        /\ workspaces' = workspaces /\ tabs' = tabs /\ activeWorkspaceID' = activeWorkspaceID
        /\ activeTabID' = activeTabID /\ home' = home
    BY <1>1, <1>2, <1>6 DEF Typed, LayoutsAreTrees
  <2>3. FirstPane(left) \in Pane
    BY <1>3, <1>4, <2>1
  <2>4. Typed' /\ Apart'
    BY <1>1, <2>2, <2>3 DEF Typed, Apart, Workspaces
  <2>5. LayoutsAreTrees'
    BY <1>1, <1>4, <2>2 DEF LayoutsAreTrees
  <2>6. LinksAgree'
    <3>1. ASSUME NEW u \in Tab PROVE Panes(layout'[u]) = {q \in Pane : pane'[q] = u}
      <4>1. CASE u = t
        BY <1>3, <1>4, <2>2, <4>1
      <4>2. CASE u # t
        BY <1>2, <1>3, <2>2, <4>2 DEF t
      <4> QED
        BY <4>1, <4>2
    <3>2. \A u \in Open' : layout'[u] # nil /\ home'[u] \in Workspaces'
      BY <1>1, <1>6, <2>2 DEF LinksAgree, Open, Workspaces
    <3>3. \A q \in Present' : pane'[q] \in Open'
      BY <1>1, <2>2 DEF LinksAgree, Open, Present
    <3>4. \A v \in Ws : Tabs(v)' = {u \in Tab : home'[u] = v} /\ S!IsInjective(tabs'[v])
      BY <1>1, <2>2 DEF LinksAgree, Tabs
    <3> QED
      BY <3>1, <3>2, <3>3, <3>4 DEF LinksAgree
  <2>7. ActiveExists'
    <3>1. \A u \in Open' : activePaneID'[u] \in Panes(layout'[u])
      BY <1>1, <1>4, <2>1, <2>2 DEF ActiveExists, Open
    <3> QED
      BY <1>1, <2>2, <3>1 DEF ActiveExists, Tabs, Workspaces
  <2> QED
    BY <2>4, <2>5, <2>6, <2>7, PartsAreNext
<1> QED
  BY <1>5, <1>6

\* Each step, by its action.
LEMMA WorkspaceStepKeeps ==
  ASSUME WorkspaceIInv, [WorkspaceNext]_workspaceVars
  PROVE  WorkspaceIInv'
<1>1. ASSUME NEW w \in Ws, CreateWorkspace(w) PROVE WorkspaceIInv'
  BY <1>1, CreateWorkspaceKeeps
<1>2. ASSUME NEW w \in Ws, SwitchWorkspace(w) PROVE WorkspaceIInv'
  BY <1>2, SwitchWorkspaceKeeps
<1>3. ASSUME NEW w \in Ws, CloseWorkspace(w) PROVE WorkspaceIInv'
  BY <1>3, CloseWorkspaceKeeps
<1>4. ASSUME NEW w \in Ws, NEW t \in Tab, NEW created \in Pane, CreateTab(w, t, created)
      PROVE  WorkspaceIInv'
  BY <1>4, CreateTabKeeps
<1>5. ASSUME NEW t \in Tab, FocusTab(t) PROVE WorkspaceIInv'
  BY <1>5, FocusTabKeeps
<1>6. ASSUME NEW t \in Tab, CloseTabOfClient(t) PROVE WorkspaceIInv'
  <2>1. t \in Open /\ CloseTab(t, Panes(layout[t]))
    BY <1>6 DEF CloseTabOfClient
  <2> QED
    BY <2>1, CloseTabKeeps
<1>7. ASSUME NEW t \in Open, NEW index \in DOMAIN tabs[home[t]], MoveTab(t, index)
      PROVE  WorkspaceIInv'
  BY <1>7, MoveTabKeeps DEF Open
<1>8. ASSUME NEW p \in Pane, NEW created \in Pane, NEW orientation \in Orientation,
             SplitPane(p, orientation, created)
      PROVE  WorkspaceIInv'
  BY <1>8, SplitPaneKeeps
<1>9. ASSUME NEW p \in Pane, FocusPane(p) PROVE WorkspaceIInv'
  BY <1>9, FocusPaneKeeps
<1>10. ASSUME NEW p \in Pane, RemovePane(p) PROVE WorkspaceIInv'
  BY <1>10, RemovePaneKeeps
<1>11. ASSUME NEW t \in Tab, NEW ratio \in Ratio, NEW path \in Paths(layout[t]), ResizeSplit(t, path, ratio)
       PROVE  WorkspaceIInv'
  BY <1>11, ResizeSplitKeeps
<1>12. CASE UNCHANGED workspaceVars
  <2>1. Typed /\ LayoutsAreTrees /\ LinksAgree /\ ActiveExists /\ Apart
    BY PartsAre
  <2>2. /\ workspaces' = workspaces /\ tabs' = tabs /\ activeWorkspaceID' = activeWorkspaceID
        /\ activeTabID' = activeTabID /\ activePaneID' = activePaneID
        /\ layout' = layout /\ home' = home /\ pane' = pane
    BY <1>12 DEF workspaceVars
  <2>3. Typed' /\ LayoutsAreTrees' /\ Apart'
    BY <2>1, <2>2 DEF Typed, LayoutsAreTrees, Apart, Workspaces
  <2>4. LinksAgree'
    BY <2>1, <2>2 DEF LinksAgree, Open, Present, Tabs, Workspaces
  <2>5. ActiveExists'
    BY <2>1, <2>2 DEF ActiveExists, Open, Tabs, Workspaces
  <2> QED
    BY <2>3, <2>4, <2>5, PartsAreNext
<1> QED
  BY <1>1, <1>2, <1>3, <1>4, <1>5, <1>6, <1>7, <1>8, <1>9, <1>10, <1>11, <1>12, Zenon DEF WorkspaceNext

\* WorkspaceIInv is inductive.
LEMMA WorkspaceInductive == WorkspaceSpec => []WorkspaceIInv
BY WorkspaceInitIs, WorkspaceStepKeeps, PTL DEF WorkspaceSpec

(***************************************************************************)
(* Whatever is opened, split, moved and closed, in whichever order, the    *)
(* workspaces, tabs and panes of the state refer to each other and to what *)
(* exists: mutate (runtime.go) may follow an id without checking it.       *)
(***************************************************************************)
THEOREM WorkspaceInvCorrect == WorkspaceSpec => []WorkspaceInv
<1>1. WorkspaceIInv => WorkspaceInv
  BY DEF WorkspaceIInv
<1> QED
  BY <1>1, WorkspaceInductive, PTL

-----------------------------------------------------------------------------
\* OrderKept, as the property says it.
LEMMA OrderIs ==
  ASSUME NEW a, NEW b, OrderKept(a, b)
  PROVE  LET stay == Panes(a) \cap Panes(b)
         IN  PaneOrder(a) \cap (stay \X stay) = PaneOrder(b) \cap (stay \X stay)
<1> DEFINE stay == Panes(a) \cap Panes(b)
<1>1. ASSUME NEW x \in stay, NEW y \in stay
      PROVE  <<x, y>> \in PaneOrder(a) <=> <<x, y>> \in PaneOrder(b)
  <2>1. Precedes(Find(a, x), Find(a, y)) <=> Precedes(Find(b, x), Find(b, y))
    BY DEF OrderKept
  <2> QED
    BY <2>1 DEF PaneOrder
<1> HIDE DEF stay
<1>2. ASSUME NEW e \in stay \X stay PROVE e \in PaneOrder(a) <=> e \in PaneOrder(b)
  <2>1. PICK x \in stay, y \in stay : e = <<x, y>>
    OBVIOUS
  <2> QED
    BY <1>1, <2>1
<1>3. PaneOrder(a) \cap (stay \X stay) = PaneOrder(b) \cap (stay \X stay)
  BY <1>2
<1> QED
  BY <1>3 DEF stay

\* A layout that does not change keeps its order.
LEMMA OrderSame == ASSUME NEW a PROVE OrderKept(a, a)
BY DEF OrderKept

\* What a step does to the order of the panes of each tab, and to their tab.
PanesStay ==
  /\ \A t \in Tab : OrderKept(layout[t], layout'[t])
  /\ \A p \in Pane : pane[p] # NoID => pane'[p] \in {pane[p], NoID}

\* And to the order of the tabs of each workspace.
TabsStay ==
  \A w \in Ws : \E t \in Tab \cup {NoID} :
    \A u, v \in (S!ToSet(tabs[w]) \cap S!ToSet(tabs'[w])) \ {t} :
      Ahead(tabs[w], u, v) <=> Ahead(tabs'[w], u, v)

\* Tabs that do not change keep theirs.
LEMMA TabsSame ==
  ASSUME tabs' = tabs
  PROVE  TabsStay
<1>1. ASSUME NEW w \in Ws
      PROVE  \E t \in Tab \cup {NoID} :
               \A u, v \in (S!ToSet(tabs[w]) \cap S!ToSet(tabs'[w])) \ {t} :
                 Ahead(tabs[w], u, v) <=> Ahead(tabs'[w], u, v)
  <2>1. tabs'[w] = tabs[w]
    OBVIOUS
  <2> WITNESS NoID \in Tab \cup {NoID}
  <2> QED
    BY <2>1, Zenon
<1> QED
  BY <1>1, Zenon DEF TabsStay

\* One workspace's tabs change: those common to both orders but one are as they were.
LEMMA TabsOfOne ==
  ASSUME NEW w \in Ws, \A v \in Ws : v # w => tabs'[v] = tabs[v], NEW t \in Tab \cup {NoID},
         \A u, v \in (S!ToSet(tabs[w]) \cap S!ToSet(tabs'[w])) \ {t} :
           Ahead(tabs[w], u, v) <=> Ahead(tabs'[w], u, v)
  PROVE  TabsStay
<1>1. ASSUME NEW x \in Ws
      PROVE  \E y \in Tab \cup {NoID} :
               \A u, v \in (S!ToSet(tabs[x]) \cap S!ToSet(tabs'[x])) \ {y} :
                 Ahead(tabs[x], u, v) <=> Ahead(tabs'[x], u, v)
  <2>1. CASE x = w
    <3> WITNESS t \in Tab \cup {NoID}
    <3> QED
      BY <2>1, Zenon
  <2>2. CASE x # w
    <3>1. tabs'[x] = tabs[x]
      BY <2>2
    <3> WITNESS NoID \in Tab \cup {NoID}
    <3> QED
      BY <3>1, Zenon
  <2> QED
    BY <2>1, <2>2
<1> QED
  BY <1>1, Zenon DEF TabsStay

LEMMA CloseTabStays ==
  ASSUME WorkspaceIInv, NEW t \in Tab, t \in Open, CloseTab(t, Panes(layout[t]))
  PROVE  PanesStay /\ TabsStay
<1>1. Typed /\ LayoutsAreTrees /\ LinksAgree
  BY PartsAre
<1>2. /\ tabs' = [tabs EXCEPT ![home[t]] = Without(tabs[home[t]], t)]
      /\ pane' = Forget(pane, Panes(layout[t]), NoID)
      /\ layout' = [layout EXCEPT ![t] = nil]
  BY DEF CloseTab
<1>3. PanesStay
  <2>1. \A u \in Tab : layout'[u] = IF u = t THEN nil ELSE layout[u]
    BY <1>1, <1>2 DEF LayoutsAreTrees
  <2>2. \A p \in Pane : pane'[p] \in {pane[p], NoID}
    BY <1>1, <1>2 DEF Typed, Forget
  <2> QED
    BY <2>1, <2>2, NilIs, OrderSame DEF PanesStay
<1>4. TabsStay
  <2> DEFINE w == home[t]
  <2>1. /\ w \in Ws /\ t \in S!ToSet(tabs[w])
        /\ tabs[w] \in Seq(Tab) /\ S!IsInjective(tabs[w])
    BY <1>1 DEF LinksAgree, Open, Typed, Tabs
  <2> HIDE DEF w
  <2>2. tabs'[w] = Without(tabs[w], t) /\ \A v \in Ws : v # w => tabs'[v] = tabs[v]
    BY <1>1, <1>2, <2>1 DEF Typed, w
  <2>3. \A u, v \in S!ToSet(tabs'[w]) : Ahead(tabs'[w], u, v) <=> Ahead(tabs[w], u, v)
    BY <2>1, <2>2, WithoutIs
  <2> QED
    BY <2>1, <2>2, <2>3, TabsOfOne
<1> QED
  BY <1>3, <1>4

\* Each mutation leaves the panes and tabs it is not about in their place.
LEMMA CloseWorkspaceStays ==
  ASSUME WorkspaceIInv, NEW w \in Ws, CloseWorkspace(w)
  PROVE  PanesStay /\ TabsStay
<1>1. Typed /\ LayoutsAreTrees /\ LinksAgree
  BY PartsAre
<1>2. /\ tabs' = [tabs EXCEPT ![w] = <<>>]
      /\ layout' = Forget(layout, Tabs(w), nil)
      /\ pane' = Forget(pane, UNION {Panes(layout[t]) : t \in Tabs(w)}, NoID)
  BY DEF CloseWorkspace
<1>3. PanesStay
  <2>1. \A u \in Tab : layout'[u] \in {nil, layout[u]}
    BY <1>1, <1>2 DEF LayoutsAreTrees, Forget
  <2>2. \A p \in Pane : pane'[p] \in {pane[p], NoID}
    BY <1>1, <1>2 DEF Typed, Forget
  <2> QED
    BY <2>1, <2>2, NilIs, OrderSame DEF PanesStay
<1>4. TabsStay
  <2>1. S!ToSet(tabs'[w]) = {} /\ \A v \in Ws : v # w => tabs'[v] = tabs[v]
    BY <1>1, <1>2 DEF Typed, S!ToSet
  <2> QED
    BY <2>1, TabsOfOne
<1> QED
  BY <1>3, <1>4

LEMMA CreateTabStays ==
  ASSUME WorkspaceIInv, NEW w \in Ws, NEW t \in Tab, NEW created \in Pane, CreateTab(w, t, created)
  PROVE  PanesStay /\ TabsStay
<1>1. Typed /\ LayoutsAreTrees /\ LinksAgree
  BY PartsAre
<1>2. /\ home[t] = NoID /\ pane[created] = NoID
      /\ pane' = [pane EXCEPT ![created] = t]
      /\ layout' = [layout EXCEPT ![t] = Leaf(created)]
      /\ tabs' = [tabs EXCEPT ![w] = Append(tabs[w], t)]
  BY DEF CreateTab, Open, Present
<1>3. PanesStay
  <2>1. \A p \in Pane : pane[p] # t
    BY <1>1, <1>2, IdAssumption DEF LinksAgree, Open, Present
  <2>2. Panes(layout[t]) = {}
    BY <1>1, <2>1 DEF LinksAgree
  <2>3. \A u \in Tab : u # t => layout'[u] = layout[u]
    BY <1>1, <1>2 DEF LayoutsAreTrees
  <2>4. \A u \in Tab : OrderKept(layout[u], layout'[u])
    BY <2>2, <2>3, OrderSame DEF OrderKept
  <2>5. \A p \in Pane : pane[p] # NoID => pane'[p] \in {pane[p], NoID}
    BY <1>1, <1>2 DEF Typed
  <2> QED
    BY <2>4, <2>5 DEF PanesStay
<1>4. TabsStay
  <2>1. tabs[w] \in Seq(Tab) /\ t \notin S!ToSet(tabs[w]) /\ S!IsInjective(tabs[w])
    BY <1>1, <1>2, IdAssumption DEF Typed, Tabs, LinksAgree
  <2>2. tabs'[w] = Append(tabs[w], t) /\ \A v \in Ws : v # w => tabs'[v] = tabs[v]
    BY <1>1, <1>2 DEF Typed
  <2>3. \A u, v \in S!ToSet(tabs[w]) : Ahead(tabs[w], u, v) <=> Ahead(tabs'[w], u, v)
    BY <2>1, <2>2, AppendIs
  <2> QED
    BY <2>2, <2>3, TabsOfOne
<1> QED
  BY <1>3, <1>4

LEMMA MoveTabStays ==
  ASSUME WorkspaceIInv, NEW t \in Tab, NEW index, MoveTab(t, index)
  PROVE  PanesStay /\ TabsStay
<1>1. Typed /\ LayoutsAreTrees /\ LinksAgree
  BY PartsAre
<1>2. /\ t \in Open /\ index \in DOMAIN tabs[home[t]]
      /\ tabs' = [tabs EXCEPT ![home[t]] = Moved(tabs[home[t]], t, index)]
      /\ layout' = layout /\ pane' = pane
  BY DEF MoveTab
<1>3. PanesStay
  BY <1>2, OrderSame DEF PanesStay
<1>4. TabsStay
  <2> DEFINE w == home[t]
  <2>1. /\ w \in Ws /\ t \in S!ToSet(tabs[w])
        /\ tabs[w] \in Seq(Tab) /\ S!IsInjective(tabs[w])
    BY <1>1, <1>2 DEF LinksAgree, Open, Typed, Tabs
  <2> HIDE DEF w
  <2>2. tabs'[w] = Moved(tabs[w], t, index) /\ \A v \in Ws : v # w => tabs'[v] = tabs[v]
    BY <1>1, <1>2, <2>1 DEF Typed, w
  <2>3. \A u, v \in S!ToSet(tabs[w]) \ {t} : Ahead(tabs[w], u, v) <=> Ahead(tabs'[w], u, v)
    BY <1>2, <2>1, <2>2, MovedIs DEF w
  <2> QED
    BY <2>1, <2>2, <2>3, TabsOfOne
<1> QED
  BY <1>3, <1>4

LEMMA ResizeSplitStays ==
  ASSUME WorkspaceIInv, NEW t \in Tab, NEW path, NEW ratio \in Ratio, ResizeSplit(t, path, ratio)
  PROVE  PanesStay /\ TabsStay
<1> DEFINE new == [layout[t] EXCEPT ![path].ratio = ratio]
<1>1. LayoutsAreTrees
  BY PartsAre
<1>2. /\ path \in Splits(layout[t]) /\ tabs' = tabs /\ pane' = pane
      /\ \A u \in Tab : layout'[u] = IF u = t THEN new ELSE layout[u]
  BY <1>1 DEF ResizeSplit, LayoutsAreTrees
<1>3. OrderKept(layout[t], new)
  BY <1>1, <1>2, ResizeIs DEF LayoutsAreTrees
<1> HIDE DEF new
<1>4. PanesStay
  BY <1>2, <1>3, OrderSame DEF PanesStay
<1> QED
  BY <1>2, <1>4, TabsSame

LEMMA SplitPaneStays ==
  ASSUME WorkspaceIInv, NEW p \in Pane, NEW created \in Pane, NEW orientation \in Orientation,
         SplitPane(p, orientation, created)
  PROVE  PanesStay /\ TabsStay
<1> DEFINE t == pane[p]
           look == [orientation |-> orientation, ratio |-> Half]
           new == Split(layout[t], p, look, created)
<1>1. Typed /\ LayoutsAreTrees /\ LinksAgree
  BY PartsAre
<1>2. /\ p \in Present /\ pane[created] = NoID /\ tabs' = tabs
      /\ layout' = [layout EXCEPT ![t] = new]
      /\ pane' = [pane EXCEPT ![created] = t]
  BY DEF SplitPane, TabOf, Present
<1>3. t \in Tab /\ t # NoID /\ p \in Panes(layout[t]) /\ Panes(layout[t]) = {q \in Pane : pane[q] = t}
  BY <1>1, <1>2, IdAssumption DEF LinksAgree, Open, Present
<1>4. OrderKept(layout[t], new)
  <2>1. look \in Look /\ created \notin Panes(layout[t]) /\ Tree(layout[t])
    BY <1>1, <1>2, <1>3, IdAssumption DEF Look, LayoutsAreTrees
  <2> HIDE DEF look
  <2> QED
    BY <1>3, <2>1, SplitIs
<1> HIDE DEF t, new
<1>5. /\ \A u \in Tab : layout'[u] = IF u = t THEN new ELSE layout[u]
      /\ \A q \in Pane : pane'[q] = IF q = created THEN t ELSE pane[q]
  BY <1>1, <1>2 DEF Typed, LayoutsAreTrees
<1>6. PanesStay
  BY <1>2, <1>4, <1>5, OrderSame DEF PanesStay
<1> QED
  BY <1>2, <1>6, TabsSame

LEMMA RemovePaneStays ==
  ASSUME WorkspaceIInv, NEW p \in Pane, RemovePane(p)
  PROVE  PanesStay /\ TabsStay
<1> DEFINE t == pane[p]
           left == Remove(layout[t], p)
<1>1. Typed /\ LayoutsAreTrees /\ LinksAgree
  BY PartsAre
<1>2. /\ p \in Present
      /\ left = nil => CloseTab(t, {p})
      /\ left # nil => /\ pane' = [pane EXCEPT ![p] = NoID] /\ tabs' = tabs
                       /\ layout' = [layout EXCEPT ![t] = left]
  BY DEF RemovePane, TabOf
<1>3. t \in Open /\ t \in Tab /\ p \in Panes(layout[t])
  BY <1>1, <1>2 DEF LinksAgree, Open, Present
<1>4. OrderKept(layout[t], left) /\ Panes(left) = Panes(layout[t]) \ {p}
  BY <1>1, <1>3, RemoveIs DEF LayoutsAreTrees
<1> HIDE DEF t, left
<1>5. CASE left = nil
  <2>1. Panes(layout[t]) = {p}
    BY <1>3, <1>4, <1>5, NilIs
  <2> QED
    BY <1>2, <1>3, <1>5, <2>1, CloseTabStays
<1>6. CASE left # nil
  <2>1. /\ \A u \in Tab : layout'[u] = IF u = t THEN left ELSE layout[u]
        /\ \A q \in Pane : pane'[q] \in {pane[q], NoID}
    BY <1>1, <1>2, <1>6 DEF Typed, LayoutsAreTrees
  <2>2. PanesStay
    BY <1>4, <2>1, OrderSame DEF PanesStay
  <2> QED
    BY <1>2, <1>6, <2>2, TabsSame
<1> QED
  BY <1>5, <1>6

\* Each step, by its action.
LEMMA WorkspaceStepStays ==
  ASSUME WorkspaceIInv, [WorkspaceNext]_workspaceVars
  PROVE  PanesStay /\ TabsStay
<1>1. ASSUME layout' = layout, pane' = pane, tabs' = tabs PROVE PanesStay /\ TabsStay
  BY <1>1, OrderSame, TabsSame DEF PanesStay
<1>2. ASSUME NEW w \in Ws, CreateWorkspace(w) \/ SwitchWorkspace(w) PROVE PanesStay /\ TabsStay
  BY <1>1, <1>2 DEF CreateWorkspace, SwitchWorkspace
<1>3. ASSUME NEW w \in Ws, CloseWorkspace(w) PROVE PanesStay /\ TabsStay
  BY <1>3, CloseWorkspaceStays
<1>4. ASSUME NEW w \in Ws, NEW t \in Tab, NEW created \in Pane, CreateTab(w, t, created)
      PROVE  PanesStay /\ TabsStay
  BY <1>4, CreateTabStays
<1>5. ASSUME NEW t \in Tab, FocusTab(t) PROVE PanesStay /\ TabsStay
  BY <1>1, <1>5 DEF FocusTab
<1>6. ASSUME NEW t \in Tab, CloseTabOfClient(t) PROVE PanesStay /\ TabsStay
  <2>1. t \in Open /\ CloseTab(t, Panes(layout[t]))
    BY <1>6 DEF CloseTabOfClient
  <2> QED
    BY <2>1, CloseTabStays
<1>7. ASSUME NEW t \in Open, NEW index \in DOMAIN tabs[home[t]], MoveTab(t, index)
      PROVE  PanesStay /\ TabsStay
  BY <1>7, MoveTabStays DEF Open
<1>8. ASSUME NEW p \in Pane, NEW created \in Pane, NEW orientation \in Orientation,
             SplitPane(p, orientation, created)
      PROVE  PanesStay /\ TabsStay
  BY <1>8, SplitPaneStays
<1>9. ASSUME NEW p \in Pane, FocusPane(p) PROVE PanesStay /\ TabsStay
  BY <1>1, <1>9 DEF FocusPane
<1>10. ASSUME NEW p \in Pane, RemovePane(p) PROVE PanesStay /\ TabsStay
  BY <1>10, RemovePaneStays
<1>11. ASSUME NEW t \in Tab, NEW ratio \in Ratio, NEW path \in Paths(layout[t]), ResizeSplit(t, path, ratio)
       PROVE  PanesStay /\ TabsStay
  BY <1>11, ResizeSplitStays
<1>12. CASE UNCHANGED workspaceVars
  BY <1>1, <1>12 DEF workspaceVars
<1> QED
  BY <1>2, <1>3, <1>4, <1>5, <1>6, <1>7, <1>8, <1>9, <1>10, <1>11, <1>12, Zenon DEF WorkspaceNext

(***************************************************************************)
(* No step of any operation rearranges panes or tabs it is not about:      *)
(* splitting, removing and resizing (model.go) keep the order of the panes *)
(* that stay, and closing, creating and moving a tab (runtime.go) that of  *)
(* the other tabs.                                                         *)
(***************************************************************************)
THEOREM RestKeepsPlaceCorrect == WorkspaceSpec => RestKeepsPlace
<1>1. ASSUME WorkspaceIInv, [WorkspaceNext]_workspaceVars
      PROVE  [\A t \in Tab :
                LET stay == Panes(layout[t]) \cap Panes(layout'[t])
                IN  /\ stay # {} => \A p \in Panes(layout[t]) : pane'[p] \in {t, NoID}
                    /\ PaneOrder(layout[t]) \cap (stay \X stay) =
                       PaneOrder(layout'[t]) \cap (stay \X stay)]_workspaceVars
  <2>1. PanesStay
    BY <1>1, WorkspaceStepStays
  <2>2. ASSUME NEW t \in Tab
        PROVE  LET stay == Panes(layout[t]) \cap Panes(layout'[t])
               IN  /\ stay # {} => \A p \in Panes(layout[t]) : pane'[p] \in {t, NoID}
                   /\ PaneOrder(layout[t]) \cap (stay \X stay) =
                      PaneOrder(layout'[t]) \cap (stay \X stay)
    <3>1. Panes(layout[t]) = {p \in Pane : pane[p] = t} /\ t # NoID
      BY <1>1, PartsAre, IdAssumption DEF LinksAgree
    <3>2. \A p \in Panes(layout[t]) : pane'[p] \in {t, NoID}
      BY <2>1, <3>1 DEF PanesStay
    <3>3. OrderKept(layout[t], layout'[t])
      BY <2>1 DEF PanesStay
    <3> QED
      BY <3>2, <3>3, OrderIs, Zenon
  <2> QED
    BY <2>2, Zenon
<1>2. ASSUME WorkspaceIInv, [WorkspaceNext]_workspaceVars
      PROVE  [\A w \in Ws : \E t \in Tab \cup {NoID} :
                \A u, v \in (S!ToSet(tabs[w]) \cap S!ToSet(tabs'[w])) \ {t} :
                  Ahead(tabs[w], u, v) <=> Ahead(tabs'[w], u, v)]_workspaceVars
  BY <1>2, WorkspaceStepStays, Zenon DEF TabsStay
<1> QED
  BY <1>1, <1>2, WorkspaceInductive, PTL DEF WorkspaceSpec, RestKeepsPlace, PanesKeepPlace, OneTabMoves

\* What a step that closes something does to the focus.
FocusStays ==
  /\ \A t \in Open : activePaneID'[t] \in {activePaneID[t]} \/ pane'[activePaneID[t]] = NoID
  /\ \A w \in Workspaces : activeTabID'[w] = activeTabID[w] \/ home'[activeTabID[w]] = NoID
  /\ activeWorkspaceID' = activeWorkspaceID \/ activeWorkspaceID \notin S!ToSet(workspaces')

\* No pane leaves the state.
NothingCloses == \A p \in Pane : pane[p] # NoID => pane'[p] # NoID

\* The active pane of the tab that closes is one of those that go.
LEMMA CloseTabLeavesFocus ==
  ASSUME WorkspaceIInv, NEW t \in Tab, t \in Open, CloseTab(t, Panes(layout[t]))
  PROVE  FocusStays
<1>1. Typed /\ LinksAgree /\ ActiveExists
  BY PartsAre
<1>2. /\ \A v \in Ws : activeTabID'[v] = activeTabID[v] \/ activeTabID[v] = t
      /\ \A p \in Panes(layout[t]) : p \in Pane /\ pane'[p] = NoID
      /\ \A u \in Tab : u # t => activePaneID'[u] = activePaneID[u]
      /\ home'[t] = NoID /\ activeWorkspaceID' = activeWorkspaceID
  BY <1>1 DEF CloseTab, Typed, LinksAgree, Forget
<1>3. Workspaces \subseteq Ws
  BY <1>1, IdsIs DEF Typed, Workspaces
<1>4. activePaneID[t] \in Panes(layout[t])
  BY <1>1 DEF ActiveExists
<1> QED
  BY <1>2, <1>3, <1>4 DEF FocusStays, Open

\* The active tab of the workspace that closes is one of those that go, or it has none.
LEMMA CloseWorkspaceLeavesFocus ==
  ASSUME WorkspaceIInv, NEW w \in Ws, CloseWorkspace(w)
  PROVE  FocusStays
<1>1. Typed /\ LinksAgree /\ ActiveExists /\ Apart
  BY PartsAre
<1>2. /\ w \in Workspaces /\ workspaces' = Without(workspaces, w)
      /\ activeWorkspaceID' = IF activeWorkspaceID = w THEN FirstOf(workspaces') ELSE activeWorkspaceID
      /\ activeTabID' = [activeTabID EXCEPT ![w] = NoID]
      /\ activePaneID' = Forget(activePaneID, Tabs(w), NoID)
      /\ home' = Forget(home, Tabs(w), NoID)
      /\ pane' = Forget(pane, UNION {Panes(layout[t]) : t \in Tabs(w)}, NoID)
  BY DEF CloseWorkspace
<1>3. Tabs(w) \subseteq Tab
  BY <1>1 DEF LinksAgree
<1>4. /\ \A t \in Tab : activePaneID'[t] = activePaneID[t] \/ t \in Tabs(w)
      /\ \A t \in Tabs(w) : home'[t] = NoID
      /\ \A v \in Ws : activeTabID'[v] = activeTabID[v] \/ v = w
  BY <1>1, <1>2, <1>3 DEF Typed, Forget
<1>5. \A t \in Open : t \in Tabs(w) => pane'[activePaneID[t]] = NoID
  <2>1. ASSUME NEW t \in Open, t \in Tabs(w) PROVE pane'[activePaneID[t]] = NoID
    <3>1. activePaneID[t] \in Panes(layout[t])
      BY <1>1 DEF ActiveExists
    <3>2. Panes(layout[t]) \subseteq Pane
      BY <1>1, <1>3, <2>1 DEF LinksAgree
    <3>3. activePaneID[t] \in UNION {Panes(layout[u]) : u \in Tabs(w)}
      BY <2>1, <3>1
    <3> QED
      BY <1>1, <1>2, <3>1, <3>2, <3>3 DEF Typed, Forget
  <2> QED
    BY <2>1
<1>6. activeTabID'[w] = activeTabID[w] \/ home'[activeTabID[w]] = NoID
  <2>1. activeTabID'[w] = NoID
    BY <1>1, <1>2 DEF Typed
  <2>2. activeTabID[w] = NoID \/ activeTabID[w] \in Tabs(w)
    BY <1>1, <1>2 DEF ActiveExists
  <2> QED
    BY <1>4, <2>1, <2>2
<1>7. Workspaces \subseteq Ws
  BY <1>1, IdsIs DEF Typed, Workspaces
<1>8. S!ToSet(workspaces') = Workspaces \ {w}
  BY <1>1, <1>2, WithoutIs DEF Typed, Apart, Workspaces
<1>9. activeWorkspaceID' = activeWorkspaceID \/ activeWorkspaceID \notin S!ToSet(workspaces')
  BY <1>2, <1>8
<1>10. \A t \in Open : t \in Tab
  BY DEF Open
<1>11. \A v \in Workspaces : activeTabID'[v] = activeTabID[v] \/ home'[activeTabID[v]] = NoID
  BY <1>4, <1>6, <1>7
<1>12. \A t \in Open : activePaneID'[t] \in {activePaneID[t]} \/ pane'[activePaneID[t]] = NoID
  BY <1>4, <1>5, <1>10
<1> QED
  BY <1>9, <1>11, <1>12 DEF FocusStays

\* The active pane changes only if it is the one that goes.
LEMMA RemovePaneLeavesFocus ==
  ASSUME WorkspaceIInv, NEW p \in Pane, RemovePane(p)
  PROVE  FocusStays
<1> DEFINE t == pane[p]
           left == Remove(layout[t], p)
<1>1. Typed /\ LayoutsAreTrees /\ LinksAgree
  BY PartsAre
<1>2. /\ p \in Present
      /\ left = nil => CloseTab(t, {p})
      /\ left # nil =>
           /\ pane' = [pane EXCEPT ![p] = NoID]
           /\ activePaneID' = [activePaneID EXCEPT ![t] = IF activePaneID[t] = p THEN FirstPane(left)
                                                          ELSE activePaneID[t]]
           /\ activeWorkspaceID' = activeWorkspaceID /\ activeTabID' = activeTabID
  BY DEF RemovePane, TabOf, ActivePaneAfter
<1>3. t \in Open /\ t \in Tab /\ p \in Panes(layout[t])
  BY <1>1, <1>2 DEF LinksAgree, Open, Present
<1>4. Panes(left) = Panes(layout[t]) \ {p}
  BY <1>1, <1>3, RemoveIs DEF LayoutsAreTrees
<1> HIDE DEF t, left
<1>5. CASE left = nil
  <2>1. Panes(layout[t]) = {p}
    BY <1>3, <1>4, <1>5, NilIs
  <2> QED
    BY <1>2, <1>3, <1>5, <2>1, CloseTabLeavesFocus
<1>6. CASE left # nil
  <2>1. \A u \in Tab : activePaneID'[u] = activePaneID[u] \/ activePaneID[u] = p
    BY <1>1, <1>2, <1>6 DEF Typed
  <2>2. pane'[p] = NoID
    BY <1>1, <1>2, <1>6 DEF Typed
  <2> QED
    BY <1>2, <1>6, <2>1, <2>2 DEF FocusStays, Open
<1> QED
  BY <1>5, <1>6

\* Each step, by its action.
LEMMA StepLeavesFocus ==
  ASSUME WorkspaceIInv, [WorkspaceNext]_workspaceVars
  PROVE  NothingCloses \/ FocusStays
<1>1. Typed
  BY PartsAre
<1>2. ASSUME pane' = pane PROVE NothingCloses
  BY <1>2 DEF NothingCloses
<1>3. ASSUME NEW created \in Pane, NEW t, t # NoID, pane' = [pane EXCEPT ![created] = t]
      PROVE  NothingCloses
  BY <1>1, <1>3 DEF NothingCloses, Typed
<1>4. ASSUME NEW w \in Ws, CreateWorkspace(w) \/ SwitchWorkspace(w) PROVE NothingCloses
  BY <1>2, <1>4 DEF CreateWorkspace, SwitchWorkspace
<1>5. ASSUME NEW w \in Ws, CloseWorkspace(w) PROVE FocusStays
  BY <1>5, CloseWorkspaceLeavesFocus
<1>6. ASSUME NEW w \in Ws, NEW t \in Tab, NEW created \in Pane, CreateTab(w, t, created)
      PROVE  NothingCloses
  BY <1>3, <1>6, IdAssumption DEF CreateTab
<1>7. ASSUME NEW t \in Tab, FocusTab(t) PROVE NothingCloses
  BY <1>2, <1>7 DEF FocusTab
<1>8. ASSUME NEW t \in Tab, CloseTabOfClient(t) PROVE FocusStays
  <2>1. t \in Open /\ CloseTab(t, Panes(layout[t]))
    BY <1>8 DEF CloseTabOfClient
  <2> QED
    BY <2>1, CloseTabLeavesFocus
<1>9. ASSUME NEW t \in Open, NEW index \in DOMAIN tabs[home[t]], MoveTab(t, index) PROVE NothingCloses
  BY <1>2, <1>9 DEF MoveTab
<1>10. ASSUME NEW p \in Pane, NEW created \in Pane, NEW orientation \in Orientation,
              SplitPane(p, orientation, created)
       PROVE  NothingCloses
  <2>1. pane[p] # NoID /\ pane' = [pane EXCEPT ![created] = pane[p]]
    BY <1>10 DEF SplitPane, TabOf, Present
  <2> QED
    BY <1>3, <2>1
<1>11. ASSUME NEW p \in Pane, FocusPane(p) PROVE NothingCloses
  BY <1>2, <1>11 DEF FocusPane
<1>12. ASSUME NEW p \in Pane, RemovePane(p) PROVE FocusStays
  BY <1>12, RemovePaneLeavesFocus
<1>13. ASSUME NEW t \in Tab, NEW ratio \in Ratio, NEW path \in Paths(layout[t]), ResizeSplit(t, path, ratio)
       PROVE  NothingCloses
  BY <1>2, <1>13 DEF ResizeSplit
<1>14. CASE UNCHANGED workspaceVars
  BY <1>2, <1>14 DEF workspaceVars
<1> QED
  BY <1>4, <1>5, <1>6, <1>7, <1>8, <1>9, <1>10, <1>11, <1>12, <1>13, <1>14, Zenon DEF WorkspaceNext

(***************************************************************************)
(* What closes takes the focus only off itself: closeTab, workspace.close  *)
(* and removePane (runtime.go) leave every active id that is still there.  *)
(***************************************************************************)
THEOREM FocusSurvivesClosingCorrect == WorkspaceSpec => FocusSurvivesClosing
<1>1. ASSUME WorkspaceIInv, [WorkspaceNext]_workspaceVars
      PROVE  [(\E p \in Pane : pane[p] # NoID /\ pane'[p] = NoID) =>
                /\ \A t \in Open : activePaneID'[t] \in {activePaneID[t]} \/ pane'[activePaneID[t]] = NoID
                /\ \A w \in Workspaces : activeTabID'[w] = activeTabID[w] \/ home'[activeTabID[w]] = NoID
                /\ activeWorkspaceID' = activeWorkspaceID
                   \/ activeWorkspaceID \notin S!ToSet(workspaces')]_workspaceVars
  BY <1>1, StepLeavesFocus, Zenon DEF NothingCloses, FocusStays
<1> QED
  BY <1>1, WorkspaceInductive, PTL DEF WorkspaceSpec, FocusSurvivesClosing

-----------------------------------------------------------------------------
(***************************************************************************)
(* Busy, for any clients, calls, launches and lines: first what holds      *)
(* whatever races are lost, then what holds until one is, and again once   *)
(* the pane is quiet.                                                      *)
(***************************************************************************)
\* A shell that has not started has printed no prompt.
NoPromptYet ==
  \A l \in Launch : l > launch \/ (l = launch /\ shell = "starting") => prompts[l] = 0

SessionsPast == \A c \in Call : session[c] <= launch

IInv == TypeOK /\ NoPromptYet /\ SessionsPast /\ BusyIsPending

-----------------------------------------------------------------------------
LEMMA InitInvariant == Init => IInv
<1> SUFFICES ASSUME Init PROVE IInv
  OBVIOUS
<1>1. /\ input \in Seq(Line) /\ Len(input) = 0
      /\ launch \in Launch /\ prompts \in [Launch -> 0..MaxQueue] /\ lines \in 0..MaxLines
  BY BusyAssumption DEF Init, Launch
<1>2. /\ promptAware = FALSE /\ commandPending = FALSE /\ busy = FALSE
      /\ agentKnown \in BOOLEAN /\ detected = FALSE
  BY DEF Init
<1>3. /\ shell = "starting" /\ reservation = None /\ table = None
      /\ client \in [Client -> {"idle", "sent"}]
      /\ call \in [Call -> {"idle", "reserved", "identified", "checked", "typed", "failed"}]
  BY DEF Init
<1>4. session \in [Call -> Launch] /\ raced \subseteq Race
  BY BusyAssumption DEF Init, Launch
<1>5. Len(input) <= MaxQueue
  BY <1>1, BusyAssumption
<1>6. TypeOK
  BY <1>1, <1>2, <1>3, <1>4, <1>5, Zenon DEF TypeOK
<1>7. NoPromptYet /\ SessionsPast
  BY DEF Init, NoPromptYet, SessionsPast
<1> QED
  BY <1>2, <1>6, <1>7, Zenon DEF IInv, BusyIsPending

LEMMA TypeStep ==
  ASSUME IInv, [Next]_vars
  PROVE  TypeOK'
<1> USE BusyAssumption DEF IInv, TypeOK, NoPromptYet, Launch, Running, Table, Line, Race, Lost, shellVars, recordVars, agentVars, callVars
<1>1. CASE ShellStarts
  BY <1>1 DEF ShellStarts, Prompt
<1>2. CASE ShellReads
  BY <1>2 DEF ShellReads
<1>3. CASE ProgramReads
  BY <1>3 DEF ProgramReads
<1>4. CASE CommandEnds
  <2> USE <1>4 DEF CommandEnds, Prompt
  <2>1. /\ shell' \in {"starting", "prompt", "command", "agent", "stopped"}
        /\ launch' \in Launch
        /\ input' \in Seq(Line) /\ Len(input') <= MaxQueue
    OBVIOUS
  <2>5. prompts' \in [Launch -> 0..MaxQueue]
    <3>1. /\ prompts' = [prompts EXCEPT ![launch] = @ + 1] /\ prompts[launch] < MaxQueue
          /\ prompts \in [1..MaxLaunches -> 0..MaxQueue] /\ launch \in 1..MaxLaunches /\ MaxQueue \in Nat
      OBVIOUS
    <3> QED
      BY ONLY <3>1 DEF Launch
  <2>2. /\ promptAware' \in BOOLEAN /\ commandPending' \in BOOLEAN /\ busy' \in BOOLEAN
        /\ commandPending' => promptAware'
    BY Zenon
  <2>3. /\ agentKnown' \in BOOLEAN /\ detected' \in BOOLEAN
        /\ detected' => agentKnown' /\ shell' = "agent"
    BY Zenon
  <2>4. /\ reservation' \in Call \cup {None}
        /\ client' \in [Client -> {"idle", "sent"}]
        /\ call' \in [Call -> {"idle", "reserved", "identified", "checked", "typed", "failed"}]
        /\ session' \in [Call -> Launch]
        /\ table' \in Table \cup {None} /\ lines' \in 0..MaxLines /\ raced' \subseteq Race
    OBVIOUS
  <2> QED
    BY <2>1, <2>2, <2>3, <2>4, <2>5, Zenon DEF TypeOK
<1>5. CASE StopAgent
  <2> USE <1>5 DEF StopAgent
  <2>1. /\ shell' \in {"starting", "prompt", "command", "agent", "stopped"}
        /\ launch' \in Launch
        /\ input' \in Seq(Line) /\ Len(input') <= MaxQueue
        /\ prompts' \in [Launch -> 0..MaxQueue]
    OBVIOUS
  <2>2. /\ promptAware' \in BOOLEAN /\ commandPending' \in BOOLEAN /\ busy' \in BOOLEAN
        /\ commandPending' => promptAware'
    BY Zenon
  <2>3. /\ agentKnown' \in BOOLEAN /\ detected' \in BOOLEAN
        /\ detected' => agentKnown' /\ shell' = "agent"
    BY Zenon
  <2>4. /\ reservation' \in Call \cup {None}
        /\ client' \in [Client -> {"idle", "sent"}]
        /\ call' \in [Call -> {"idle", "reserved", "identified", "checked", "typed", "failed"}]
        /\ session' \in [Call -> Launch]
        /\ table' \in Table \cup {None} /\ lines' \in 0..MaxLines /\ raced' \subseteq Race
    OBVIOUS
  <2> QED
    BY <2>1, <2>2, <2>3, <2>4, Zenon DEF TypeOK
<1>6. CASE RestartPane
  <2> USE <1>6 DEF RestartPane
  <2>1. /\ shell' \in {"starting", "prompt", "command", "agent", "stopped"}
        /\ launch' \in Launch
        /\ input' \in Seq(Line) /\ Len(input') <= MaxQueue
        /\ prompts' \in [Launch -> 0..MaxQueue]
    OBVIOUS
  <2>2. /\ promptAware' \in BOOLEAN /\ commandPending' \in BOOLEAN /\ busy' \in BOOLEAN
        /\ commandPending' => promptAware'
    BY Zenon
  <2>3. /\ agentKnown' \in BOOLEAN /\ detected' \in BOOLEAN
        /\ detected' => agentKnown' /\ shell' = "agent"
    BY Zenon
  <2>4. /\ reservation' \in Call \cup {None}
        /\ client' \in [Client -> {"idle", "sent"}]
        /\ call' \in [Call -> {"idle", "reserved", "identified", "checked", "typed", "failed"}]
        /\ session' \in [Call -> Launch]
        /\ table' \in Table \cup {None} /\ lines' \in 0..MaxLines /\ raced' \subseteq Race
    OBVIOUS
  <2> QED
    BY <2>1, <2>2, <2>3, <2>4, Zenon DEF TypeOK
<1>7. ASSUME NEW l \in Launch, Metadata(l) PROVE TypeOK'
  <2> USE <1>7 DEF Metadata, promptLocked
  <2>1. /\ shell' \in {"starting", "prompt", "command", "agent", "stopped"}
        /\ launch' \in Launch
        /\ input' \in Seq(Line) /\ Len(input') <= MaxQueue
        /\ prompts' \in [Launch -> 0..MaxQueue]
    OBVIOUS
  <2>2. /\ promptAware' \in BOOLEAN /\ commandPending' \in BOOLEAN /\ busy' \in BOOLEAN
        /\ commandPending' => promptAware'
    BY Zenon
  <2>3. /\ agentKnown' \in BOOLEAN /\ detected' \in BOOLEAN
        /\ detected' => agentKnown' /\ shell' = "agent"
    BY Zenon
  <2>4. /\ reservation' \in Call \cup {None}
        /\ client' \in [Client -> {"idle", "sent"}]
        /\ call' \in [Call -> {"idle", "reserved", "identified", "checked", "typed", "failed"}]
        /\ session' \in [Call -> Launch]
        /\ table' \in Table \cup {None} /\ lines' \in 0..MaxLines /\ raced' \subseteq Race
    OBVIOUS
  <2> QED
    BY <2>1, <2>2, <2>3, <2>4, Zenon DEF TypeOK
<1>8. ASSUME NEW c \in Client, NEW line \in Line \ {"resume"}, SendInput(c, line) PROVE TypeOK'
  BY <1>8 DEF SendInput
<1>9. ASSUME NEW c \in Client, RecordInput(c) PROVE TypeOK'
  BY <1>9 DEF RecordInput, commandSubmitted
<1>10. CASE TakeTable
  BY <1>10 DEF TakeTable
<1>11. CASE Monitor
  BY <1>11 DEF Monitor, BusyNow
<1>12. ASSUME NEW c \in Call, Reserve(c) PROVE TypeOK'
  BY <1>12 DEF Reserve, At
<1>13. ASSUME NEW c \in Call, Identify(c) PROVE TypeOK'
  BY <1>13 DEF Identify, At
<1>14. ASSUME NEW c \in Call, CheckIdle(c) PROVE TypeOK'
  BY <1>14 DEF CheckIdle, At
<1>15. ASSUME NEW c \in Call, TypeCommand(c) PROVE TypeOK'
  <2> USE <1>15 DEF TypeCommand, At
  <2>1. /\ shell' \in {"starting", "prompt", "command", "agent", "stopped"}
        /\ launch' \in Launch
        /\ input' \in Seq(Line) /\ Len(input') <= MaxQueue
        /\ prompts' \in [Launch -> 0..MaxQueue]
    <3>1. CASE Running /\ session[c] = launch
      <4>1. input' = Append(input, "resume") /\ "resume" \in Line /\ UNCHANGED <<shell, launch, prompts>>
        BY <3>1
      <4>2. input' \in Seq(Line) /\ Len(input') = Len(input) + 1 /\ Len(input) \in Nat
        BY <4>1
      <4> QED
        BY <4>1, <4>2
    <3>2. CASE ~(Running /\ session[c] = launch)
      BY <3>2
    <3> QED
      BY <3>1, <3>2
  <2>2. /\ promptAware' \in BOOLEAN /\ commandPending' \in BOOLEAN /\ busy' \in BOOLEAN
        /\ commandPending' => promptAware'
    BY Zenon
  <2>3. /\ agentKnown' \in BOOLEAN /\ detected' \in BOOLEAN
        /\ detected' => agentKnown' /\ shell' = "agent"
    BY Zenon
  <2>4. /\ reservation' \in Call \cup {None}
        /\ client' \in [Client -> {"idle", "sent"}]
        /\ call' \in [Call -> {"idle", "reserved", "identified", "checked", "typed", "failed"}]
        /\ session' \in [Call -> Launch]
        /\ table' \in Table \cup {None} /\ lines' \in 0..MaxLines /\ raced' \subseteq Race
    OBVIOUS
  <2> QED
    BY <2>1, <2>2, <2>3, <2>4, Zenon DEF TypeOK
<1>16. ASSUME NEW c \in Call, RecordCommand(c) PROVE TypeOK'
  BY <1>16 DEF RecordCommand, At, commandSubmitted
<1>17. ASSUME NEW c \in Call, Fail(c) PROVE TypeOK'
  BY <1>17 DEF Fail, At
<1>18. CASE Expire
  BY <1>18 DEF Expire
<1>19. CASE UNCHANGED vars
  BY <1>19 DEF vars
<1> QED
  BY <1>1, <1>2, <1>3, <1>4, <1>5, <1>6, <1>7, <1>8, <1>9, <1>10, <1>11, <1>12, <1>13, <1>14, <1>15, <1>16, <1>17, <1>18, <1>19 DEF Next, ShellStep, ResumeStep

LEMMA PromptStep ==
  ASSUME IInv, [Next]_vars
  PROVE  NoPromptYet'
<1> USE BusyAssumption DEF IInv, TypeOK, NoPromptYet, Launch, shellVars, recordVars, agentVars, callVars
<1>1. CASE ShellStarts
  BY <1>1 DEF ShellStarts, Prompt
<1>2. CASE ShellReads
  BY <1>2 DEF ShellReads
<1>3. CASE ProgramReads
  BY <1>3 DEF ProgramReads
<1>4. CASE CommandEnds
  BY <1>4 DEF CommandEnds, Prompt
<1>5. CASE StopAgent
  BY <1>5 DEF StopAgent
<1>6. CASE RestartPane
  BY <1>6 DEF RestartPane
<1>7. ASSUME NEW l \in Launch, Metadata(l) PROVE NoPromptYet'
  BY <1>7 DEF Metadata, promptLocked
<1>8. ASSUME NEW c \in Client, NEW line \in Line \ {"resume"}, SendInput(c, line) PROVE NoPromptYet'
  BY <1>8 DEF SendInput
<1>9. ASSUME NEW c \in Client, RecordInput(c) PROVE NoPromptYet'
  BY <1>9 DEF RecordInput, commandSubmitted
<1>10. CASE TakeTable
  BY <1>10 DEF TakeTable
<1>11. CASE Monitor
  BY <1>11 DEF Monitor, BusyNow
<1>12. ASSUME NEW c \in Call, Reserve(c) PROVE NoPromptYet'
  BY <1>12 DEF Reserve, At
<1>13. ASSUME NEW c \in Call, Identify(c) PROVE NoPromptYet'
  BY <1>13 DEF Identify, At
<1>14. ASSUME NEW c \in Call, CheckIdle(c) PROVE NoPromptYet'
  BY <1>14 DEF CheckIdle, At
<1>15. ASSUME NEW c \in Call, TypeCommand(c) PROVE NoPromptYet'
  BY <1>15 DEF TypeCommand, At
<1>16. ASSUME NEW c \in Call, RecordCommand(c) PROVE NoPromptYet'
  BY <1>16 DEF RecordCommand, At, commandSubmitted
<1>17. ASSUME NEW c \in Call, Fail(c) PROVE NoPromptYet'
  BY <1>17 DEF Fail, At
<1>18. CASE Expire
  BY <1>18 DEF Expire
<1>19. CASE UNCHANGED vars
  BY <1>19 DEF vars
<1> QED
  BY <1>1, <1>2, <1>3, <1>4, <1>5, <1>6, <1>7, <1>8, <1>9, <1>10, <1>11, <1>12, <1>13, <1>14, <1>15, <1>16, <1>17, <1>18, <1>19 DEF Next, ShellStep, ResumeStep

LEMMA SessionStep ==
  ASSUME IInv, [Next]_vars
  PROVE  SessionsPast'
<1> USE BusyAssumption DEF IInv, TypeOK, SessionsPast, Launch
<1>1. ASSUME NEW c \in Call, Identify(c) \/ RecordCommand(c) \/ Fail(c) PROVE SessionsPast'
  <2>1. /\ launch' = launch /\ launch \in Nat /\ 1 <= launch
        /\ session' \in {[session EXCEPT ![c] = launch], [session EXCEPT ![c] = 1]}
    BY <1>1 DEF Identify, RecordCommand, Fail, shellVars
  <2>2. session'[c] <= launch /\ \A d \in Call : d # c => session'[d] = session[d]
    BY <2>1
  <2> QED
    BY <2>1, <2>2
<1>2. CASE RestartPane
  BY <1>2 DEF RestartPane, callVars
<1>3. CASE UNCHANGED <<session, launch>>
  BY <1>3
<1> QED
  BY <1>1, <1>2, <1>3, Zenon DEF Next, ShellStep, ResumeStep, ShellStarts, ShellReads, ProgramReads, CommandEnds, StopAgent,
       Metadata, SendInput, RecordInput, TakeTable, Monitor, Reserve, CheckIdle, TypeCommand, Expire,
       shellVars, callVars, vars

LEMMA PendingStep ==
  ASSUME IInv, [Next]_vars
  PROVE  BusyIsPending'
<1> USE DEF IInv, TypeOK, BusyIsPending, shellVars, recordVars, agentVars, callVars
<1>1. CASE ShellStarts
  BY <1>1 DEF ShellStarts, Prompt
<1>2. CASE ShellReads
  BY <1>2 DEF ShellReads
<1>3. CASE ProgramReads
  BY <1>3 DEF ProgramReads
<1>4. CASE CommandEnds
  BY <1>4 DEF CommandEnds, Prompt
<1>5. CASE StopAgent
  BY <1>5 DEF StopAgent
<1>6. CASE RestartPane
  BY <1>6 DEF RestartPane
<1>7. ASSUME NEW l \in Launch, Metadata(l) PROVE BusyIsPending'
  BY <1>7 DEF Metadata, promptLocked
<1>8. ASSUME NEW c \in Client, NEW line \in Line \ {"resume"}, SendInput(c, line) PROVE BusyIsPending'
  BY <1>8 DEF SendInput
<1>9. ASSUME NEW c \in Client, RecordInput(c) PROVE BusyIsPending'
  BY <1>9 DEF RecordInput, commandSubmitted
<1>10. CASE TakeTable
  BY <1>10 DEF TakeTable
<1>11. CASE Monitor
  BY <1>11 DEF Monitor, BusyNow
<1>12. ASSUME NEW c \in Call, Reserve(c) PROVE BusyIsPending'
  BY <1>12 DEF Reserve, At
<1>13. ASSUME NEW c \in Call, Identify(c) PROVE BusyIsPending'
  BY <1>13 DEF Identify, At
<1>14. ASSUME NEW c \in Call, CheckIdle(c) PROVE BusyIsPending'
  BY <1>14 DEF CheckIdle, At
<1>15. ASSUME NEW c \in Call, TypeCommand(c) PROVE BusyIsPending'
  BY <1>15 DEF TypeCommand, At
<1>16. ASSUME NEW c \in Call, RecordCommand(c) PROVE BusyIsPending'
  BY <1>16 DEF RecordCommand, At, commandSubmitted
<1>17. ASSUME NEW c \in Call, Fail(c) PROVE BusyIsPending'
  BY <1>17 DEF Fail, At
<1>18. CASE Expire
  BY <1>18 DEF Expire
<1>19. CASE UNCHANGED vars
  BY <1>19 DEF vars
<1> QED
  BY <1>1, <1>2, <1>3, <1>4, <1>5, <1>6, <1>7, <1>8, <1>9, <1>10, <1>11, <1>12, <1>13, <1>14, <1>15, <1>16, <1>17, <1>18, <1>19 DEF Next, ShellStep, ResumeStep

LEMMA Inductive == Spec => []IInv
<1>1. IInv /\ [Next]_vars => IInv'
  BY TypeStep, PromptStep, SessionStep, PendingStep DEF IInv
<1> QED
  BY InitInvariant, <1>1, PTL DEF Spec

-----------------------------------------------------------------------------
(***************************************************************************)
(* Every variable keeps its type; in particular a command is pending only  *)
(* for a shell that reports prompts, and an agent known to run is the      *)
(* program of the shell.                                                   *)
(***************************************************************************)
THEOREM TypeCorrect == Spec => []TypeOK
<1>1. IInv => TypeOK
  BY DEF IInv
<1> QED
  BY Inductive, <1>1, PTL

(***************************************************************************)
(* Of a pane whose shell reports prompts, Busy is what is shown of         *)
(* commandPending, whoever records commands and prompts in whatever order. *)
(***************************************************************************)
THEOREM BusyIsPendingCorrect == Spec => []BusyIsPending
<1>1. IInv => BusyIsPending
  BY DEF IInv
<1> QED
  BY Inductive, <1>1, PTL
-----------------------------------------------------------------------------
(***************************************************************************)
(* What holds while clients have waited and no reservation expired in use. *)
(***************************************************************************)
Fair == raced \subseteq {"quickShell"}

Working == shell \in {"command", "agent"}
Unread == \E l \in Launch : prompts[l] > 0

\* One line is under way, and a program at work only reads its answer.
OneLine ==
  /\ Len(input) <= 1
  /\ shell \in {"starting", "stopped"} => input = <<>>
  /\ Working => \A i \in DOMAIN input : input[i] = "command"

\* One prompt is unread, the one at which the shell waits for its next line.
OnePrompt ==
  \A l \in Launch : prompts[l] > 0 => l = launch /\ prompts[l] = 1 /\ shell = "prompt" /\ input = <<>>

\* A shell all of whose prompts are recorded has reported one.
AwareOncePrompted == shell # "starting" /\ PromptsRecorded => promptAware

\* A recorded line is pending until its prompt is printed.
PendingWhileWorking == promptAware /\ ~Unrecorded /\ (Working \/ input # <<>>) => commandPending

OneCall == \A c, d \in Call : call[c] # "idle" /\ call[d] # "idle" => c = d

\* Until it types, a call has the reservation, and nobody else does anything.
HoldsReservation ==
  \A c \in Call : call[c] \notin {"idle", "typed"} =>
    /\ reservation = c
    /\ ~AgentAtLarge
    /\ \A i \in DOMAIN input : input[i] # "resume"
    /\ \A d \in Client : client[d] = "idle"

\* The agent is reserved until the shell has read its command.
ReservedUntilRead == (\E i \in DOMAIN input : input[i] = "resume") => reservation # None

\* A prompt that is printed while a call is under way ends a command that is
\* pending, so the call does not take the shell for idle before it is read.
SeesPrompt ==
  \A c \in Call :
    /\ session[c] <= launch
    /\ call[c] = "reserved" /\ agentKnown => shell # "starting" /\ (Unread => commandPending)
    /\ call[c] = "identified" /\ session[c] = launch =>
         shell \in {"prompt", "command"} /\ (Unread => commandPending)
    /\ call[c] = "checked" /\ session[c] = launch => shell = "prompt" /\ input = <<>> /\ ~Unread

CarefulInv ==
  /\ OneLine /\ OnePrompt /\ AwareOncePrompted /\ PendingWhileWorking
  /\ OneCall /\ HoldsReservation /\ ReservedUntilRead /\ SeesPrompt

\* When the shell waits at a prompt that has been read, nothing is pending, and
\* nothing is on its way to be recorded as pending.
NothingPending ==
  shell = "prompt" /\ input = <<>> /\ ~Unread => ~commandPending /\ ~Unrecorded

LEMMA InitCareful == Init => CarefulInv
<1> SUFFICES ASSUME Init PROVE CarefulInv
  OBVIOUS
<1>1. /\ shell = "starting" /\ input = <<>> /\ launch = 1
      /\ \A l \in Launch : prompts[l] = 0
      /\ \A c \in Call : call[c] = "idle" /\ session[c] = 1
  BY DEF Init
<1> QED
  BY <1>1 DEF CarefulInv, Working, Unread, OneLine, OnePrompt, AwareOncePrompted, PendingWhileWorking,
       OneCall, HoldsReservation, ReservedUntilRead, SeesPrompt

\* A call that is under way is the only one, wherever it goes.
LEMMA OnlyCall ==
  ASSUME OneCall, call \in [Call -> {"idle", "reserved", "identified", "checked", "typed", "failed"}],
         NEW c \in Call, call[c] # "idle",
         NEW there \in {"idle", "reserved", "identified", "checked", "typed", "failed"},
         call' = [call EXCEPT ![c] = there]
  PROVE  /\ call'[c] = there
         /\ \A d \in Call : d # c => call[d] = "idle" /\ call'[d] = "idle"
         /\ OneCall'
  BY DEF OneCall

\* A command that ends was pending unless it is still to be recorded.
LEMMA CommandEndsCareful ==
  ASSUME IInv, CarefulInv, Fair, Fair', CommandEnds
  PROVE  CarefulInv'
<1> USE BusyAssumption DEF IInv, TypeOK, Launch, CarefulInv, Fair, Lost, Working
<1>1. input = <<>> /\ input' = <<>>
  BY DEF CommandEnds
<1>2. Working /\ shell' = "prompt"
  BY DEF CommandEnds
<1>3. ~Unread
  BY <1>2 DEF OnePrompt, Unread
<1>4. OnePrompt'
  BY <1>1, <1>2, <1>3 DEF CommandEnds, Prompt, OnePrompt, Unread
<1>5. SeesPrompt'
  <2>1. PromptsRecorded
    BY <1>3 DEF PromptsRecorded, Unread
  <2>2. ~Unrecorded => commandPending
    BY <1>2, <2>1, Zenon DEF AwareOncePrompted, PendingWhileWorking
  <2>3. UNCHANGED <<call, session, launch, commandPending, agentKnown>>
    BY DEF CommandEnds, recordVars, callVars
  <2>4. \A c \in Call : call[c] \notin {"idle", "typed"} => ~Unrecorded
    BY DEF HoldsReservation, OneCall, Unrecorded
  <2>5. \A c \in Call : ~(call[c] = "checked" /\ session[c] = launch)
    BY <1>2 DEF SeesPrompt
  <2> QED
    BY <1>2, <2>2, <2>3, <2>4, <2>5 DEF SeesPrompt
<1> QED
  BY <1>1, <1>2, <1>4, <1>5 DEF CommandEnds, Prompt, OneLine, AwareOncePrompted, PendingWhileWorking, OneCall,
       HoldsReservation, ReservedUntilRead, PromptsRecorded, Unrecorded, AgentAtLarge, recordVars, callVars

LEMMA IdentifyCareful ==
  ASSUME IInv, CarefulInv, Fair, Fair', NEW c \in Call, Identify(c)
  PROVE  CarefulInv'
<1> USE BusyAssumption DEF IInv, TypeOK, Launch, Line, Running, CarefulInv, Working, shellVars, recordVars, agentVars
<1> DEFINE finds == Running /\ agentKnown /\ ~detected
<1>1. /\ call[c] = "reserved" /\ call' = [call EXCEPT ![c] = IF finds THEN "identified" ELSE "failed"]
      /\ session' = [session EXCEPT ![c] = launch]
      /\ UNCHANGED <<shellVars, recordVars, agentVars, reservation, client>>
  BY DEF Identify, At
<1>2. /\ call'[c] = IF finds THEN "identified" ELSE "failed"
      /\ \A d \in Call : d # c => call[d] = "idle" /\ call'[d] = "idle"
      /\ OneCall'
  BY <1>1, OnlyCall
<1>3. OneLine' /\ OnePrompt' /\ AwareOncePrompted' /\ ReservedUntilRead'
  BY <1>1 DEF OneLine, OnePrompt, AwareOncePrompted, ReservedUntilRead, PromptsRecorded
<1>4. PendingWhileWorking'
  <2>1. Unrecorded' <=> Unrecorded
    BY <1>1, <1>2 DEF Unrecorded
  <2> QED
    BY <1>1, <2>1, Zenon DEF PendingWhileWorking
<1>5. HoldsReservation'
  BY <1>1, <1>2 DEF HoldsReservation, AgentAtLarge
<1>6. SeesPrompt'
  <2>1. finds => shell \in {"prompt", "command"} /\ (Unread => commandPending)
    BY <1>1 DEF SeesPrompt, HoldsReservation, AgentAtLarge
  <2>2. Unread' <=> Unread
    BY <1>1 DEF Unread
  <2> QED
    BY <1>1, <1>2, <2>1, <2>2 DEF SeesPrompt
<1> QED
  BY <1>2, <1>3, <1>4, <1>5, <1>6

\* The shell a call takes for idle is idle: it is at its prompt, the prompt
\* is recorded, and no line is under way.
LEMMA CheckIdleCareful ==
  ASSUME IInv, CarefulInv, Fair, Fair', NEW c \in Call, CheckIdle(c)
  PROVE  CarefulInv'
<1> USE BusyAssumption DEF IInv, TypeOK, Launch, Line, CarefulInv, Working, shellVars, recordVars, agentVars
<1> DEFINE busyNow == (promptAware /\ commandPending) \/ (~promptAware /\ Working)
<1>1. /\ call[c] = "identified" /\ call' = [call EXCEPT ![c] = IF busyNow THEN "failed" ELSE "checked"]
      /\ UNCHANGED <<shellVars, recordVars, agentVars, reservation, session, client>>
  BY DEF CheckIdle, At
<1>2. /\ call'[c] = IF busyNow THEN "failed" ELSE "checked"
      /\ \A d \in Call : d # c => call[d] = "idle" /\ call'[d] = "idle"
      /\ OneCall'
  BY <1>1, OnlyCall
<1>3. ~Unrecorded /\ ~Unrecorded'
  BY <1>1, <1>2 DEF Unrecorded, HoldsReservation
<1>4. OneLine' /\ OnePrompt' /\ AwareOncePrompted' /\ ReservedUntilRead'
  BY <1>1 DEF OneLine, OnePrompt, AwareOncePrompted, ReservedUntilRead, PromptsRecorded
<1>5. PendingWhileWorking'
  BY <1>1, <1>3, Zenon DEF PendingWhileWorking
<1>6. HoldsReservation'
  BY <1>1, <1>2 DEF HoldsReservation, AgentAtLarge
<1>7. SeesPrompt'
  <2>1. CASE busyNow
    BY <1>1, <1>2, <2>1 DEF SeesPrompt
  <2>2. CASE ~busyNow /\ session[c] = launch
    <3>1. shell \in {"prompt", "command"} /\ (Unread => commandPending)
      BY <1>1, <2>2 DEF SeesPrompt
    <3>2. Unread \/ promptAware
      BY <3>1 DEF Unread, AwareOncePrompted, PromptsRecorded
    <3>3. promptAware /\ ~commandPending /\ ~Unread
      BY <2>2, <3>1, <3>2, Zenon
    <3>4. shell = "prompt" /\ input = <<>>
      BY <1>3, <3>1, <3>3 DEF PendingWhileWorking
    <3> QED
      BY <1>1, <1>2, <2>2, <3>3, <3>4 DEF SeesPrompt, Unread
  <2>3. CASE ~busyNow /\ session[c] # launch
    BY <1>1, <1>2, <2>3 DEF SeesPrompt
  <2> QED
    BY <2>1, <2>2, <2>3
<1> QED
  BY <1>2, <1>4, <1>5, <1>6, <1>7

\* A call types only at an idle prompt.
LEMMA TypesWhenIdle ==
  ASSUME CarefulInv, NEW c \in Call, call[c] = "checked", session[c] = launch
  PROVE  shell = "prompt" /\ input = <<>> /\ ~Unread
  BY DEF CarefulInv, SeesPrompt

LEMMA TypeCommandCareful ==
  ASSUME IInv, CarefulInv, Fair, Fair', NEW c \in Call, TypeCommand(c)
  PROVE  CarefulInv'
<1> USE BusyAssumption DEF IInv, TypeOK, Launch, Line, Running, CarefulInv, Working, recordVars, agentVars
<1>1. /\ call[c] = "checked"
      /\ UNCHANGED <<launch, shell, prompts, recordVars, agentVars, reservation, session, client>>
  BY DEF TypeCommand, At
<1>2. CASE Running /\ session[c] = launch
  <2>1. call' = [call EXCEPT ![c] = "typed"] /\ input' = Append(input, "resume")
    BY <1>2 DEF TypeCommand, At
  <2>2. shell = "prompt" /\ ~Unread /\ reservation # None /\ input' = <<"resume">>
    <3>1. shell = "prompt" /\ ~Unread /\ input = <<>>
      BY <1>1, <1>2, TypesWhenIdle
    <3>2. reservation = c
      BY <1>1 DEF HoldsReservation
    <3> QED
      BY <2>1, <3>1, <3>2
  <2>3. call'[c] = "typed" /\ (\A d \in Call : d # c => call'[d] = "idle") /\ OneCall'
    BY <1>1, <2>1, OnlyCall
  <2>4. Unrecorded'
    BY <2>3 DEF Unrecorded
  <2>5. OneLine' /\ OnePrompt' /\ AwareOncePrompted' /\ PendingWhileWorking' /\ ReservedUntilRead'
    BY <1>1, <2>2, <2>4 DEF OneLine, OnePrompt, AwareOncePrompted, PendingWhileWorking, ReservedUntilRead,
         Unread, PromptsRecorded
  <2>6. HoldsReservation' /\ SeesPrompt'
    BY <1>1, <2>3 DEF HoldsReservation, SeesPrompt
  <2> QED
    BY <2>3, <2>5, <2>6
<1>3. CASE ~(Running /\ session[c] = launch)
  <2>1. call' = [call EXCEPT ![c] = "failed"] /\ UNCHANGED input
    BY <1>3 DEF TypeCommand, At
  <2>2. call'[c] = "failed" /\ (\A d \in Call : d # c => call[d] = "idle" /\ call'[d] = "idle") /\ OneCall'
    BY <1>1, <2>1, OnlyCall
  <2>3. OneLine' /\ OnePrompt' /\ AwareOncePrompted' /\ ReservedUntilRead'
    BY <1>1, <2>1 DEF OneLine, OnePrompt, AwareOncePrompted, ReservedUntilRead, PromptsRecorded
  <2>4. PendingWhileWorking'
    <3>1. Unrecorded' <=> Unrecorded
      BY <1>1, <2>2 DEF Unrecorded
    <3> QED
      BY <1>1, <2>1, <3>1, Zenon DEF PendingWhileWorking
  <2>5. HoldsReservation'
    BY <1>1, <2>1, <2>2 DEF HoldsReservation, AgentAtLarge
  <2>6. SeesPrompt'
    BY <1>1, <2>2 DEF SeesPrompt
  <2> QED
    BY <2>2, <2>3, <2>4, <2>5, <2>6
<1> QED
  BY <1>2, <1>3

\* A call that returns was the only one.
LEMMA ReturnCareful ==
  ASSUME IInv, CarefulInv, Fair, Fair', NEW c \in Call, RecordCommand(c) \/ Fail(c)
  PROVE  CarefulInv'
<1> USE BusyAssumption DEF IInv, TypeOK, Launch, Line, CarefulInv, Working, shellVars, recordVars, agentVars
<1>1. call[c] \in {"typed", "failed"} /\ call' = [call EXCEPT ![c] = "idle"]
  BY DEF RecordCommand, Fail, At
<1>2. \A d \in Call : call'[d] = "idle"
  BY <1>1, OnlyCall
<1>3. OneCall' /\ HoldsReservation' /\ SeesPrompt'
  BY <1>2 DEF RecordCommand, Fail, OneCall, HoldsReservation, SeesPrompt
<1>4. CASE RecordCommand(c)
  BY <1>3, <1>4 DEF RecordCommand, commandSubmitted, OneLine, OnePrompt, AwareOncePrompted, PendingWhileWorking,
       ReservedUntilRead, PromptsRecorded
<1>5. CASE Fail(c)
  <2>1. call[c] = "failed" /\ UNCHANGED <<shellVars, recordVars, agentVars, client>>
    BY <1>5 DEF Fail, At
  <2>2. Unrecorded => Unrecorded'
    BY <2>1 DEF HoldsReservation, OneCall, Unrecorded
  <2>3. PendingWhileWorking'
    BY <2>1, <2>2, Zenon DEF PendingWhileWorking
  <2>4. OneLine' /\ OnePrompt' /\ AwareOncePrompted'
    BY <2>1 DEF OneLine, OnePrompt, AwareOncePrompted, PromptsRecorded
  <2>5. ReservedUntilRead'
    BY <2>1 DEF HoldsReservation, ReservedUntilRead
  <2> QED
    BY <1>3, <2>3, <2>4, <2>5
<1> QED
  BY <1>4, <1>5

LEMMA CarefulStep ==
  ASSUME IInv, CarefulInv, Fair, Fair', [Next]_vars
  PROVE  CarefulInv'
<1> USE BusyAssumption DEF IInv, TypeOK, NoPromptYet, Launch, Line, Running, Working, shellVars, recordVars, agentVars, callVars
<1> USE DEF CarefulInv, Fair, Lost, OneLine, OnePrompt, AwareOncePrompted, PendingWhileWorking, OneCall,
      HoldsReservation, ReservedUntilRead, SeesPrompt, Unread, PromptsRecorded, Unrecorded, AgentAtLarge
<1>1. CASE ShellStarts
  BY <1>1 DEF ShellStarts, Prompt
<1>2. CASE ShellReads
  <2>1. input # <<>> /\ input' = Tail(input) /\ shell = "prompt" /\ Working' /\ ~Unread
    BY <1>2 DEF ShellReads
  <2>2. Len(Tail(input)) = 0 /\ Tail(input) \in Seq(Line)
    <3>1. input \in Seq(Line) /\ Len(input) <= 1
      OBVIOUS
    <3>2. Len(input) \in Nat \ {0}
      BY ONLY <2>1, <3>1, EmptySeq
    <3>3. Len(Tail(input)) = Len(input) - 1 /\ Tail(input) \in Seq(Line)
      BY ONLY <2>1, <3>1, HeadTailProperties
    <3> QED
      BY ONLY <3>1, <3>2, <3>3
  <2>3. input' = <<>>
    BY <2>1, <2>2, EmptySeq
  <2>4. OneLine' /\ OnePrompt' /\ AwareOncePrompted' /\ PendingWhileWorking'
    BY <1>2, <2>1, <2>3 DEF ShellReads
  <2>5. HoldsReservation'
    BY <1>2, <2>1, <2>3 DEF ShellReads
  <2>6. OneCall' /\ ReservedUntilRead' /\ SeesPrompt'
    BY <1>2, <2>1, <2>3 DEF ShellReads
  <2> QED
    BY <2>4, <2>5, <2>6
<1>3. CASE ProgramReads
  BY <1>3 DEF ProgramReads
<1>4. CASE CommandEnds
  BY <1>4, CommandEndsCareful
<1>5. CASE StopAgent
  BY <1>5 DEF StopAgent
<1>6. CASE RestartPane
  BY <1>6 DEF RestartPane
<1>7. ASSUME NEW l \in Launch, Metadata(l) PROVE CarefulInv'
  <2>1. ~Unread' /\ ~Working /\ input = <<>>
    BY <1>7 DEF Metadata
  <2>2. OneLine' /\ OnePrompt' /\ AwareOncePrompted' /\ PendingWhileWorking'
    BY <1>7, <2>1 DEF Metadata, promptLocked
  <2>3. OneCall' /\ HoldsReservation' /\ ReservedUntilRead'
    BY <1>7 DEF Metadata
  <2>4. SeesPrompt'
    BY <1>7, <2>1 DEF Metadata
  <2> QED
    BY <2>2, <2>3, <2>4
<1>8. ASSUME NEW c \in Client, NEW line \in Line \ {"resume"}, SendInput(c, line) PROVE CarefulInv'
  <2>1. Awaited(line)
    BY ONLY <1>8, Fair' DEF SendInput, Lost, Fair
  <2>2. input = <<>> /\ input' = <<line>> /\ UNCHANGED <<launch, shell, prompts, recordVars, agentVars, callVars>>
    BY ONLY <1>8, <2>1 DEF SendInput, Awaited
  <2>3. (\A d \in Call : call[d] = "idle") /\ ~Unread
    BY <2>1 DEF Awaited, NobodyElse
  <2>4. shell = "prompt" \/ (Working /\ line = "command")
    BY <2>1 DEF Awaited
  <2>5. Unrecorded'
    BY ONLY <1>8, IInv DEF SendInput, Unrecorded, IInv, TypeOK
  <2>6. OneLine' /\ OnePrompt' /\ AwareOncePrompted'
    BY <2>2, <2>3, <2>4
  <2>7. PendingWhileWorking' /\ OneCall' /\ HoldsReservation' /\ ReservedUntilRead' /\ SeesPrompt'
    BY <2>2, <2>3, <2>5
  <2> QED
    BY <2>6, <2>7
<1>9. ASSUME NEW c \in Client, RecordInput(c) PROVE CarefulInv'
  BY <1>9 DEF RecordInput, commandSubmitted
<1>10. CASE TakeTable
  BY <1>10 DEF TakeTable
<1>11. CASE Monitor
  BY <1>11 DEF Monitor
<1>12. ASSUME NEW c \in Call, Reserve(c) PROVE CarefulInv'
  <2>1. Settled
    BY ONLY <1>12, Fair' DEF Reserve, Lost, Fair
  <2>2. /\ reservation = None /\ reservation' = c
        /\ call[c] = "idle" /\ call' = [call EXCEPT ![c] = "reserved"]
        /\ UNCHANGED <<shellVars, recordVars, agentVars, session, client>>
    BY <1>12 DEF Reserve, At
  <2> QED
    BY <2>1, <2>2 DEF Settled
<1>13. ASSUME NEW c \in Call, ResumeStep(c) PROVE CarefulInv'
  BY <1>13, IdentifyCareful, CheckIdleCareful, TypeCommandCareful, ReturnCareful DEF ResumeStep
<1>14. CASE Expire
  <2>1. ~InUse
    BY ONLY <1>14, Fair' DEF Expire, Lost, Fair
  <2>2. reservation # None /\ reservation' = None /\ UNCHANGED <<shellVars, recordVars, agentVars, call, session, client>>
    BY <1>14 DEF Expire
  <2> QED
    BY <2>1, <2>2 DEF InUse
<1>15. CASE UNCHANGED vars
  BY <1>15 DEF vars
<1> QED
  BY <1>1, <1>2, <1>3, <1>4, <1>5, <1>6, <1>7, <1>8, <1>9, <1>10, <1>11, <1>12, <1>13, <1>14, <1>15 DEF Next, ShellStep

\* Races are forgotten only when the last prompt is recorded and nothing else
\* is under way; what is recorded is then right whatever went before.
LEMMA ForgottenWhenQuiet ==
  ASSUME IInv, [Next]_vars, ~(raced \subseteq raced')
  PROVE  \E l \in Launch : Metadata(l) /\ Quiet(prompts')
<1>1. CASE \E l \in Launch : Metadata(l)
  BY <1>1 DEF Metadata, Lost
<1>2. CASE ~(\E l \in Launch : Metadata(l))
  BY <1>2 DEF Next, ShellStep, ResumeStep, ShellStarts, ShellReads, ProgramReads, CommandEnds, StopAgent, RestartPane,
       SendInput, RecordInput, TakeTable, Monitor, Reserve, Identify, CheckIdle, TypeCommand, RecordCommand, Fail,
       Expire, Lost, vars
<1> QED
  BY <1>1, <1>2

LEMMA QuietIsRight ==
  ASSUME IInv, NEW l \in Launch, Metadata(l), Quiet(prompts')
  PROVE  CarefulInv' /\ NothingPending'
<1> USE DEF IInv, TypeOK
<1>1. /\ shell' = "prompt" /\ input' = <<>> /\ ~Unread' /\ PromptsRecorded'
      /\ UNCHANGED <<launch, session>>
      /\ \A c \in Call : call[c] = "idle" /\ call'[c] = "idle"
      /\ \A c \in Client : client[c] = "idle" /\ client'[c] = "idle"
  BY DEF Metadata, Quiet, NobodyElse, Unread, PromptsRecorded, callVars
<1>2. promptAware' = TRUE /\ commandPending' = FALSE
  BY DEF Metadata, promptLocked
<1>3. OneLine' /\ OnePrompt' /\ AwareOncePrompted' /\ PendingWhileWorking' /\ ReservedUntilRead'
  BY <1>1, <1>2 DEF OneLine, OnePrompt, AwareOncePrompted, PendingWhileWorking, ReservedUntilRead, Working, Unread
<1>4. OneCall' /\ HoldsReservation' /\ SeesPrompt'
  BY <1>1 DEF OneCall, HoldsReservation, SeesPrompt, SessionsPast
<1>5. NothingPending'
  BY <1>1, <1>2 DEF NothingPending, Unrecorded
<1> QED
  BY <1>3, <1>4, <1>5 DEF CarefulInv

FairInv == Fair => CarefulInv
PendingInv == raced = {} => NothingPending

LEMMA FairInductive == Spec => [](IInv /\ FairInv)
<1>1. Init => IInv /\ FairInv
  BY InitInvariant, InitCareful DEF FairInv
<1>2. ASSUME IInv, FairInv, [Next]_vars PROVE FairInv'
  <2>1. CASE Fair /\ Fair'
    BY <1>2, <2>1, CarefulStep DEF FairInv
  <2>2. CASE ~Fair /\ Fair'
    <3>1. ~(raced \subseteq raced')
      BY <2>2 DEF Fair
    <3> QED
      BY <1>2, <3>1, ForgottenWhenQuiet, QuietIsRight DEF FairInv
  <2> QED
    BY <2>1, <2>2 DEF FairInv
<1>3. IInv /\ FairInv /\ [Next]_vars => (IInv /\ FairInv)'
  BY <1>2, TypeStep, PromptStep, SessionStep, PendingStep DEF IInv
<1> QED
  BY <1>1, <1>3, PTL DEF Spec

LEMMA NothingPendingStep ==
  ASSUME IInv, CarefulInv, NothingPending, raced = {}, raced' = {}, [Next]_vars
  PROVE  NothingPending'
<1> USE BusyAssumption DEF IInv, TypeOK, Launch, Line, NothingPending, Unread, Unrecorded
<1> USE DEF shellVars, recordVars, agentVars, callVars
<1>1. CASE ShellStarts \/ CommandEnds
  <2>1. prompts'[launch'] > 0
    BY <1>1 DEF ShellStarts, CommandEnds, Prompt
  <2> QED
    BY <1>1, <2>1 DEF ShellStarts, CommandEnds
<1>2. CASE ShellReads \/ ProgramReads \/ StopAgent \/ RestartPane
  BY <1>2 DEF ShellReads, ProgramReads, StopAgent, RestartPane
<1>3. ASSUME NEW l \in Launch, Metadata(l) PROVE NothingPending'
  BY <1>3 DEF Metadata, promptLocked, Lost, Quiet, NobodyElse
<1>4. ASSUME NEW c \in Client, NEW line \in Line \ {"resume"}, SendInput(c, line) PROVE NothingPending'
  <2>1. input \in Seq(Line) /\ input' = Append(input, line)
    BY <1>4 DEF SendInput
  <2>2. input' # <<>>
    BY ONLY <2>1
  <2> QED
    BY <2>2
<1>5. ASSUME NEW c \in Client, RecordInput(c) PROVE NothingPending'
  BY <1>5 DEF RecordInput
<1>6. CASE TakeTable \/ Monitor \/ Expire
  BY <1>6 DEF TakeTable, Monitor, Expire
<1>7. ASSUME NEW c \in Call, Reserve(c) \/ Identify(c) \/ CheckIdle(c) \/ Fail(c) PROVE NothingPending'
  <2>1. UNCHANGED <<shell, input, prompts, commandPending, client>>
    BY <1>7 DEF Reserve, Identify, CheckIdle, Fail
  <2>2. \A d \in Call : call'[d] = "typed" => call[d] = "typed"
    BY <1>7 DEF Reserve, Identify, CheckIdle, Fail, At
  <2> QED
    BY <2>1, <2>2
<1>8. ASSUME NEW c \in Call, TypeCommand(c) PROVE NothingPending'
  <2>1. CASE Running /\ session[c] = launch
    <3>1. input' = Append(input, "resume") /\ input \in Seq(Line)
      BY <1>8, <2>1 DEF TypeCommand
    <3>2. input' # <<>>
      BY ONLY <3>1
    <3> QED
      BY <3>2
  <2>2. CASE ~(Running /\ session[c] = launch)
    BY <1>8, <2>2 DEF TypeCommand, At
  <2> QED
    BY <2>1, <2>2
<1>9. ASSUME NEW c \in Call, RecordCommand(c) PROVE NothingPending'
  BY <1>9 DEF RecordCommand, At
<1>10. CASE UNCHANGED vars
  BY <1>10 DEF vars
<1> QED
  BY <1>1, <1>2, <1>3, <1>4, <1>5, <1>6, <1>7, <1>8, <1>9, <1>10 DEF Next, ShellStep, ResumeStep

LEMMA NothingPendingInductive == Spec => []PendingInv
<1>1. Init => PendingInv
  BY DEF Init, PendingInv, NothingPending
<1>2. ASSUME IInv, FairInv, PendingInv, [Next]_vars PROVE PendingInv'
  <2>1. CASE raced = {} /\ raced' = {}
    <3>1. Fair /\ NothingPending
      BY <1>2, <2>1 DEF Fair, PendingInv
    <3> QED
      BY <1>2, <2>1, <3>1, NothingPendingStep DEF FairInv, PendingInv
  <2>2. CASE raced # {} /\ raced' = {}
    <3>1. ~(raced \subseteq raced')
      BY <2>2
    <3> QED
      BY <1>2, <3>1, ForgottenWhenQuiet, QuietIsRight DEF PendingInv
  <2> QED
    BY <2>1, <2>2 DEF PendingInv
<1> QED
  BY FairInductive, <1>1, <1>2, PTL DEF Spec

(***************************************************************************)
(* While the shell runs a command that has been recorded the pane is busy: *)
(* no prompt of an earlier command is recorded in between, and none is     *)
(* printed before the command ends, unless lines were sent without waiting *)
(* or a reservation expired in use.  And at a prompt that has been read,   *)
(* with no line under way, the pane is not busy, unless a prompt was read  *)
(* before its command was recorded.  The next prompt read with nothing     *)
(* under way puts both right again.                                        *)
(***************************************************************************)
THEOREM BusyWhileRunningCorrect == Spec => []BusyWhileRunning
<1>1. IInv /\ FairInv /\ PendingInv => BusyWhileRunning
  <2>1. ASSUME IInv, FairInv, Fair, promptAware, ~Unrecorded, Working PROVE busy
    <3>1. commandPending
      BY <2>1 DEF FairInv, CarefulInv, PendingWhileWorking
    <3> QED
      BY <2>1, <3>1, Zenon DEF IInv, BusyIsPending
  <2>2. ASSUME IInv, FairInv, PendingInv, raced = {}, shell = "prompt", input = <<>>, PromptsRecorded PROVE ~busy
    <3>1. ~Unread /\ Fair
      BY <2>2 DEF Unread, PromptsRecorded, Fair
    <3>2. promptAware /\ ~commandPending
      BY <2>2, <3>1 DEF PendingInv, NothingPending, FairInv, CarefulInv, AwareOncePrompted
    <3> QED
      BY <2>2, <3>2, Zenon DEF IInv, BusyIsPending
  <2> QED
    BY <2>1, <2>2, Zenon DEF BusyWhileRunning, Working, Fair
<1> QED
  BY FairInductive, NothingPendingInductive, <1>1, PTL

(***************************************************************************)
(* Whoever clicks on resume, the shell never has two commands to read that *)
(* resume the agent, unless lines were sent or clicks made without waiting *)
(* or a reservation expired in use, since the pane was last quiet.         *)
(***************************************************************************)
THEOREM TypedOnceCorrect == Spec => []TypedOnce
<1>1. IInv /\ FairInv => TypedOnce
  BY DEF IInv, TypeOK, FairInv, Fair, CarefulInv, OneLine, TypedOnce
<1> QED
  BY FairInductive, <1>1, PTL

(***************************************************************************)
(* The command that resumes the agent is typed at an idle prompt, although *)
(* the shell is looked at before it is typed, and without a lock, unless   *)
(* lines were sent or clicks made without waiting or a reservation expired *)
(* in use, since the pane was last quiet.                                  *)
(***************************************************************************)
THEOREM TypesAtPromptCorrect == Spec => TypesAtPrompt
<1>1. IInv /\ FairInv /\ [Next]_vars =>
        [\A c \in Call : raced \subseteq {"quickShell"} /\ call[c] = "checked" /\ call'[c] = "typed" =>
           shell = "prompt" /\ input = <<>>]_vars
  <2> SUFFICES ASSUME IInv, FairInv, Fair, Next, NEW c \in Call, call[c] = "checked", call'[c] = "typed"
               PROVE  shell = "prompt" /\ input = <<>>
    BY Zenon DEF vars, Fair
  <2>1. PICK d \in Call : TypeCommand(d)
    BY DEF Next, ShellStep, ShellStarts, ShellReads, ProgramReads, CommandEnds, StopAgent, RestartPane, Metadata,
         SendInput, RecordInput, TakeTable, Monitor, Reserve, ResumeStep, Identify, CheckIdle, RecordCommand, Fail,
         Expire, At, callVars, IInv, TypeOK
  <2>2. d = c /\ session[c] = launch
    BY <2>1 DEF TypeCommand, At, IInv, TypeOK
  <2> QED
    BY <2>2, TypesWhenIdle DEF FairInv
<1> QED
  BY FairInductive, <1>1, PTL DEF Spec, TypesAtPrompt
=============================================================================
