------------------------- MODULE MCTerminalPipeline -------------------------
(* TerminalPipeline on a few bytes of output. *)
EXTENDS TerminalPipeline
=============================================================================
