----------------------------- MODULE LayoutTree -----------------------------
(***************************************************************************)
(* The methods of model.Layout (src/internal/model/model.go) as they are   *)
(* written, by recursion on a tree of nodes, and what mutate assigns       *)
(* through the nodes they return; MethodsAgree compares them with module   *)
(* Layout, on which the module of workspaces is built.                     *)
(***************************************************************************)
EXTENDS Naturals, Sequences, Functions

CONSTANTS
  Pane,
  None  \* a nil *Layout

L == INSTANCE Layout

\* A node: a leaf has a pane and no children, a split a look and two.
LeafNode(pane) == [pane |-> pane, look |-> None, first |-> None, second |-> None]
SplitNode(look, first, second) == [pane |-> None, look |-> look, first |-> first, second |-> second]

RECURSIVE Leaves(_), Find(_, _), RemoveWithoutLift(_, _), Remove(_, _), At(_, _), Put(_, _, _)
RECURSIVE TreeAt(_, _), PathsOf(_)

Leaves(n) ==
  IF n = None THEN <<>>
  ELSE IF n.pane # None THEN <<n.pane>>
  ELSE Leaves(n.first) \o Leaves(n.second)

\* The path to the node of a pane, where the code returns the node; or None.
Find(n, id) ==
  IF n = None THEN None
  ELSE IF n.pane = id THEN <<>>
  ELSE LET f == Find(n.first, id)
           s == Find(n.second, id)
       IN  IF f # None THEN <<0>> \o f
           ELSE IF s # None THEN <<1>> \o s ELSE None

\* Mutant: a split that lost one child keeps the other as a child.
RemoveWithoutLift(n, id) ==
  IF n = None THEN None
  ELSE IF n.pane = id THEN None
  ELSE IF n.pane # None THEN n
  ELSE LET first == RemoveWithoutLift(n.first, id)
           second == RemoveWithoutLift(n.second, id)
       IN  IF first = None /\ second = None THEN None ELSE SplitNode(n.look, first, second)

Remove(n, id) ==
  IF n = None THEN None
  ELSE IF n.pane = id THEN None
  ELSE IF n.pane # None THEN n
  ELSE LET first == Remove(n.first, id)
           second == Remove(n.second, id)
       IN  IF first = None THEN second
           ELSE IF second = None THEN first
           ELSE SplitNode(n.look, first, second)

\* The split at a path; None stands for the error.
At(n, path) ==
  IF n = None THEN None
  ELSE IF n.pane # None THEN None
  ELSE IF path = <<>> THEN n
  ELSE At(IF Head(path) = 0 THEN n.first ELSE n.second, Tail(path))

\* An assignment through the pointer to the node at a path: *node = new.
Put(n, path, new) ==
  IF path = <<>> THEN new
  ELSE IF Head(path) = 0 THEN SplitNode(n.look, Put(n.first, Tail(path), new), n.second)
  ELSE SplitNode(n.look, n.first, Put(n.second, Tail(path), new))

-----------------------------------------------------------------------------
\* The nodes of a layout from a path down, and the layout of a tree.
TreeAt(layout, path) ==
  IF path \in L!Splits(layout)
  THEN SplitNode(layout[path], TreeAt(layout, L!First(path)), TreeAt(layout, L!Second(path)))
  ELSE LeafNode(layout[path])

TreeOf(layout) == IF layout = L!nil THEN None ELSE TreeAt(layout, L!Root)

PathsOf(n) ==
  IF n = None THEN L!nil
  ELSE IF n.pane # None THEN L!Leaf(n.pane)
  ELSE L!Join(n.look, PathsOf(n.first), PathsOf(n.second))

\* pane.split: *leaf = Layout{First: the leaf, Second: a new one}
SplitLeaf(n, pane, look, created) ==
  Put(n, Find(n, pane), SplitNode(look, LeafNode(pane), LeafNode(created)))

-----------------------------------------------------------------------------
Looking(layout, n) ==
  LET leaves == Leaves(n)
  IN  /\ L!PaneOrder(layout) =
           {order \in Range(leaves) \X Range(leaves) :
              \E i, j \in DOMAIN leaves : i < j /\ order = <<leaves[i], leaves[j]>>}
      /\ leaves # <<>> => leaves[1] = L!FirstPane(layout)
      /\ \A pane \in Pane :
           Find(n, pane) = IF pane \in L!Panes(layout) THEN L!Find(layout, pane) ELSE None
      /\ \A path \in DOMAIN layout : \A more \in {<<>>, <<0>>, <<1>>} :
           (At(n, path \o more) # None) <=> (path \o more \in L!Splits(layout))

Changing(layout, n, look) ==
  /\ \A pane \in L!Panes(layout) :
       /\ PathsOf(Remove(n, pane)) = L!Remove(layout, pane)
       /\ \A created \in Pane \ L!Panes(layout) :
            PathsOf(SplitLeaf(n, pane, look, created)) = L!Split(layout, pane, look, created)
  /\ \A path \in L!Splits(layout) :
       LET node == At(n, path)
       IN  PathsOf(Put(n, path, SplitNode(look, node.first, node.second)))
           = [layout EXCEPT ![path] = look]

Agrees(layout, look) ==
  LET n == TreeOf(layout) IN PathsOf(n) = layout /\ Looking(layout, n) /\ Changing(layout, n, look)
=============================================================================
