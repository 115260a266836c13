--------------------------- MODULE MCOutputStream ---------------------------
(* OutputStream with a ring of a few bytes. *)
EXTENDS OutputStream
=============================================================================
