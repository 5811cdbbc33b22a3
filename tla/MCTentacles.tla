---------------------------- MODULE MCTentacles -----------------------------
(* Tentacles for model checking: sessions and lines are in the cfg.        *)
EXTENDS Tentacles
=============================================================================
