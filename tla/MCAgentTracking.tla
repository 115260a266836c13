-------------------------- MODULE MCAgentTracking --------------------------
(* Two agents in one pane, which may be nested, over three launches. *)
EXTENDS AgentTracking
=============================================================================
