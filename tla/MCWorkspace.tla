---------------------------- MODULE MCWorkspace ----------------------------
(* Workspace on a few interchangeable ids, with the recursive methods beside *)
(* every layout it reaches. *)
EXTENDS Workspace, TLC

Trees == INSTANCE LayoutTree WITH None <- NoID

Symmetry == Permutations(Ws) \cup Permutations(Tab) \cup Permutations(Pane) \cup Permutations(Orientation)

(***************************************************************************)
(* On every tree of a tab, Leaves, Find, At and Remove, and what splitting *)
(* and resizing assign through a node's pointer, give what module Layout   *)
(* says: nothing is lost, doubled or moved to another place on the way     *)
(* back from the recursion, and paths that name no split are refused.      *)
(***************************************************************************)
MethodsAgree ==
  \A t \in Tab, orientation \in Orientation :
    Trees!Agrees(layout[t], [orientation |-> orientation, ratio |-> Half])
=============================================================================
