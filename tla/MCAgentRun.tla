----------------------------- MODULE MCAgentRun -----------------------------
(* AgentRun for model checking: the numbers are in the configurations. *)
EXTENDS AgentRun
=============================================================================
