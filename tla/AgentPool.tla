----------------------------- MODULE AgentPool ------------------------------
(***************************************************************************)
(* What the scheduler promises its callers, without semaphores, counters   *)
(* or maps: every accepted job is run at most once, never more of a class  *)
(* at a time than the class has slots, and a job stopped before it became  *)
(* active is discarded instead of run.                                     *)
(***************************************************************************)
EXTENDS Integers, FiniteSets

CONSTANTS Jobs, Class, ClassOf, Slots

VARIABLES
  stage,    \* "absent", "pending", "active" or "over"
  stopped   \* jobs asked to stop

poolVars == <<stage, stopped>>

Active(c) == {j \in Jobs : ClassOf[j] = c /\ stage[j] = "active"}

Init ==
  /\ stage = [j \in Jobs |-> "absent"]
  /\ stopped = {}

Move(j, from, to) ==
  /\ stage[j] = from
  /\ stage' = [stage EXCEPT ![j] = to]
  /\ UNCHANGED stopped

Accept(j)   == Move(j, "absent", "pending")
Activate(j) == j \notin stopped
               /\ Cardinality(Active(ClassOf[j])) < Slots[ClassOf[j]]
               /\ Move(j, "pending", "active")
Discard(j)  == j \in stopped /\ Move(j, "pending", "over")
Complete(j) == Move(j, "active", "over")

Stop ==
  /\ \E js \in SUBSET Jobs : stopped' = stopped \cup js
  /\ UNCHANGED stage

Next ==
  \/ \E j \in Jobs : Accept(j) \/ Activate(j) \/ Discard(j) \/ Complete(j)
  \/ Stop

(* An accepted job does not stay pending for ever. *)
EveryJobSettles == \A j \in Jobs : stage[j] = "pending" ~> stage[j] = "over"

SafeSpec == Init /\ [][Next]_poolVars
Spec == SafeSpec /\ EveryJobSettles
=============================================================================
