------------------------------ MODULE MCDeckUi ------------------------------
(* DeckUi for model checking: the numbers are in the configurations.       *)
EXTENDS DeckUi
=============================================================================
