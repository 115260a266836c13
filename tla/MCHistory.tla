----------------------------- MODULE MCHistory -----------------------------
(* The history of one pane over its launches. *)
EXTENDS History
=============================================================================
