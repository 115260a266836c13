----------------------------- MODULE MCRuntime -----------------------------
(* Runtime on small sets of interchangeable panes and launches. *)
EXTENDS Runtime, TLC

Symmetry == Permutations(Pane) \cup Permutations(Shell)
=============================================================================
