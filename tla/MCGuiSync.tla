----------------------------- MODULE MCGuiSync -----------------------------
(* The window with a few calls in flight. *)
EXTENDS GuiSync
=============================================================================
