----------------------------- MODULE Hysteresis -----------------------------
(***************************************************************************)
(* The watchdog with a memory of its last samples: what its strike counter *)
(* promises, said without the counter.                                     *)
(***************************************************************************)
EXTENDS Watchdog, Sequences

ASSUME HysteresisAssumption == WatchdogAssumption

VARIABLE recent  \* history: the last Strikes samples

watchedVars == <<freeMb, availableMb, lowCount, refreshDue, recent>>

HInit == WatchdogInit /\ recent = <<>>

Remember == recent' = IF refreshDue
  THEN LET s == Append(recent, availableMb') IN IF Len(s) > Strikes THEN Tail(s) ELSE s
  ELSE recent

HNext ==
  \/ (Admit \/ Deny) /\ Remember
  \/ (IntervalElapses \/ MemoryMoves) /\ UNCHANGED recent

HSpec == HInit /\ [][HNext]_watchedVars

(* Hysteresis: the gate is closed exactly while the last HysteresisStrikes *)
(* samples, and none but those, were all below the floor: neither a dip    *)
(* shorter than that nor a spike that was never sampled moves it, and one  *)
(* healthy sample opens it (watchdog.rs 133-150 and 159-169).              *)
ClosedByLowRun ==
  Denying <=> Len(recent) = Strikes /\ \A i \in 1..Strikes : recent[i] < FloorMb
=============================================================================
