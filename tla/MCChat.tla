------------------------------- MODULE MCChat -------------------------------
(* Chat for model checking: the numbers are in the configuration.          *)
EXTENDS Chat
=============================================================================
