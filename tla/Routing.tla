------------------------------ MODULE Routing -------------------------------
(***************************************************************************)
(* The model choice over any registry and any configured default: both are *)
(* fixed while the program runs.                                           *)
(***************************************************************************)
EXTENDS ModelChoice

CONSTANTS
  Catalogue,  \* the models a user may register
  Providers   \* the providers a run may ask for

ASSUME RoutingAssumption == IsRegistry(Catalogue)

VARIABLES
  registry,  \* ModelRegistry: what is registered
  default    \* the configured default_model, registered or not, or NoModel

choiceVars == <<registry, default>>

RoutingInit ==
  /\ registry \in (SUBSET Catalogue) \ {{}}
  /\ default \in Catalogue \cup {NoModel}

RoutingSpec == RoutingInit /\ [][FALSE]_choiceVars

(* Routing never serves a harder task with a weaker model, and never       *)
(* passes over the provider that was asked for when it has any model, for  *)
(* every registry and every default (orchestrator.rs 66-69, llm.rs).       *)
RoutingHonoured ==
  /\ Monotone(registry, default)
  /\ \A p \in Providers : ProviderHonoured(registry, p)
=============================================================================
