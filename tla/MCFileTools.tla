----------------------------- MODULE MCFileTools ----------------------------
(* FileTools for model checking: two agents of one deck.                   *)
EXTENDS FileTools
=============================================================================
