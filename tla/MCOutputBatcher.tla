-------------------------- MODULE MCOutputBatcher --------------------------
(* OutputBatcher on a few bytes of output. *)
EXTENDS OutputBatcher
=============================================================================
