------------------------------- MODULE MCDeck -------------------------------
(***************************************************************************)
(* The deck's server for model checking: its native agents, its terminals, *)
(* its tentacle store and its audit log.  What connections do to each      *)
(* other in one of them does not touch the others, so each behaviour has   *)
(* one of them move.                                                       *)
(***************************************************************************)
EXTENDS DeckAgents, Tentacles, DeckTerminals, AuditLog

VARIABLE which     \* the component that moves

ASSUME TerminalsAssumption /\ TentaclesAssumption /\ LogAssumption

(* No agent has a tentacle, so all are shared work with one slot between   *)
(* them, and one queues behind another.                                    *)
MCClassOf == [a \in Agents |-> "shared"]
MCSlots == [c \in Class |-> 1]

allVars == <<which, vars, termVars, storeVars, logVars>>

MCInit ==
  /\ which \in {"agents", "terminals", "store", "log"}
  /\ Init /\ TermInit /\ LogInit
  /\ StoreInit /\ (which # "store" => dir = FALSE)

(* The store and the log may be left alone for good.                       *)
MCNext ==
  /\ UNCHANGED which
  /\ \/ which = "agents" /\ Next /\ UNCHANGED <<termVars, storeVars, logVars>>
     \/ which = "terminals" /\ TermNext /\ UNCHANGED <<vars, storeVars, logVars>>
     \/ which = "store" /\ StoreNext /\ UNCHANGED <<vars, termVars, logVars>>
     \/ which = "log" /\ LogNext /\ UNCHANGED <<vars, termVars, storeVars>>
     \/ which \in {"store", "log"} /\ UNCHANGED <<vars, termVars, storeVars, logVars>>

(* The fairness of DeckAgents, when the agents move.                       *)
MCFairness ==
  /\ \A c \in Conns : WF_vars(which = "agents" /\ ConnStep(c))
  /\ \A a \in Agents : WF_vars(which = "agents" /\ JobStep(a))
                         /\ WF_vars(which = "agents" /\ ForwarderStep(a))

MCSpec == MCInit /\ [][MCNext]_allVars /\ MCFairness
=============================================================================
