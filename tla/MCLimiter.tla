------------------------------ MODULE MCLimiter -----------------------------
(* Limiter for model checking: the numbers are in the configurations. *)
EXTENDS Limiter
=============================================================================
