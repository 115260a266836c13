------------------------------- MODULE MCBusy -------------------------------
(* One pane, its clients and the calls that resume its agent. *)
EXTENDS Busy
=============================================================================
