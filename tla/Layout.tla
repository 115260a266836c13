------------------------------- MODULE Layout -------------------------------
(***************************************************************************)
(* The split layout of a tab (src/internal/model/model.go, type Layout and *)
(* its methods) without its recursion: a layout is a function on the paths *)
(* of its nodes, which are what pane.resize names a split by.  A node with *)
(* children is mapped to the look of its split, a leaf to its pane, and    *)
(* the nil layout is the empty function.  LayoutTree shows that this is    *)
(* what the recursive methods compute.                                     *)
(***************************************************************************)
EXTENDS Naturals, Sequences

S == INSTANCE SequencesExt

Root == <<>>
nil == <<>>
First(path) == Append(path, 0)
Second(path) == Append(path, 1)

Paths(layout) == DOMAIN layout
Splits(layout) == {p \in Paths(layout) : First(p) \in Paths(layout)}
LeafPaths(layout) == Paths(layout) \ Splits(layout)

\* The panes of a layout: Leaves() without its order.
Panes(layout) == {layout[p] : p \in LeafPaths(layout)}

\* Find: the path of a pane of the layout.
Find(layout, pane) == CHOOSE p \in LeafPaths(layout) : layout[p] = pane

\* Leaves()[0]: the pane reached by going first at every split.
FirstPane(layout) ==
  layout[CHOOSE p \in LeafPaths(layout) : \A i \in DOMAIN p : p[i] = 0]

\* p comes before q when the layout is read first to second.
Precedes(p, q) ==
  \E i \in DOMAIN p \cap DOMAIN q :
    /\ \A j \in 1..(i - 1) : p[j] = q[j]
    /\ p[i] < q[i]

\* The order of Leaves(), as a relation on panes.
PaneOrder(layout) ==
  {order \in Panes(layout) \X Panes(layout) :
     Precedes(Find(layout, order[1]), Find(layout, order[2]))}

Leaf(pane) == [p \in {Root} |-> pane]

\* A node with two children: the children are what they were, one step below.
Join(look, first, second) ==
  [p \in {Root} \cup {<<0>> \o q : q \in Paths(first)} \cup {<<1>> \o q : q \in Paths(second)} |->
     IF p = Root THEN look
     ELSE IF Head(p) = 0 THEN first[Tail(p)] ELSE second[Tail(p)]]

\* pane.split: the leaf becomes a split of itself and a new leaf.
Split(layout, pane, look, created) ==
  LET at == Find(layout, pane)
  IN  [p \in Paths(layout) \cup {First(at), Second(at)} |->
         CASE p = at -> look
           [] p = First(at) -> pane
           [] p = Second(at) -> created
           [] OTHER -> layout[p]]

\* The layout without the leaf at a path: the sibling of the leaf, with all
\* below it, takes the place of their parent.
Cut(layout, at) ==
  LET parent == S!Front(at)
      sibling == Append(parent, 1 - S!Last(at))
      kept == {p \in Paths(layout) : ~S!IsPrefix(parent, p)}
      lifted == {parent \o SubSeq(p, Len(sibling) + 1, Len(p)) :
                   p \in {q \in Paths(layout) : S!IsPrefix(sibling, q)}}
  IN  IF at = Root THEN nil
      ELSE [p \in kept \cup lifted |->
              IF p \in kept THEN layout[p]
              ELSE layout[sibling \o SubSeq(p, Len(parent) + 1, Len(p))]]

\* Mutant: the last pane fills the gap.
RemoveFillingGap(layout, pane) ==
  LET at == Find(layout, pane)
      last == CHOOSE p \in LeafPaths(layout) : \A i \in DOMAIN p : p[i] = 1
  IN  Cut([layout EXCEPT ![at] = layout[last], ![last] = pane], last)

\* Remove, of a pane of the layout
Remove(layout, pane) == Cut(layout, Find(layout, pane))

(***************************************************************************)
(* What a layout must be: nil, or a binary tree whose leaves are different *)
(* panes.                                                                  *)
(***************************************************************************)
WellFormed(layout, panes, looks) ==
  /\ Root \in Paths(layout) \/ layout = nil
  /\ \A p \in Paths(layout) :
       /\ p \in Seq({0, 1})
       /\ p # Root => First(S!Front(p)) \in Paths(layout) /\ Second(S!Front(p)) \in Paths(layout)
       /\ p # Root => S!Front(p) \in Paths(layout)
       /\ layout[p] \in IF p \in Splits(layout) THEN looks ELSE panes
  /\ \A p, q \in LeafPaths(layout) : layout[p] = layout[q] => p = q
=============================================================================
