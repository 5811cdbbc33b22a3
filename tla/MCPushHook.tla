----------------------------- MODULE MCPushHook -----------------------------
(* PushHook for model checking: the bound is in the configuration.         *)
EXTENDS PushHook
=============================================================================
