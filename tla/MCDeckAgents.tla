---------------------------- MODULE MCDeckAgents ----------------------------
(* DeckAgents for model checking: no agent has a tentacle, so all are      *)
(* shared work with one slot between them, and one queues behind another.  *)
EXTENDS DeckAgents

MCClassOf == [a \in Agents |-> "shared"]
MCSlots == [c \in Class |-> 1]
=============================================================================
