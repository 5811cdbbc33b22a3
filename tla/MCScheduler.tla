----------------------------- MODULE MCScheduler ----------------------------
(* Scheduler instances for model checking: the class of each job is fixed  *)
(* here, the numbers are in the configuration.  A behaviour has one        *)
(* submitter, cancellations and a memory that moves across the watchdog's  *)
(* floor; or a long scoped agent that fills one place below the cap, and   *)
(* two submitters with three jobs for the other.                           *)
EXTENDS Scheduler

CONSTANTS j1, j2, j3, j4, s1, s2

MCClassOf == [j \in Jobs |-> IF j \in {j1, j4} THEN "scoped" ELSE "shared"]
LowOrNot == {0, 1}

VARIABLE alone  \* s1 submits, and not the long job j4

MCInit ==
  /\ alone \in BOOLEAN /\ Init
  /\ ~alone => freeMb = FloorMb

Others == Jobs \ {j4}

One == At(s2, "idle")' /\ phase'[j4] = "new"

(* j4 runs before the others are submitted, until they are done or wait;   *)
(* memory moves no earlier than that.                                      *)
Two ==
  LET begun == phase[j4] \in {"starting", "running", "ended", "removed", "counted", "done"}
      settled == \A j \in Others : phase[j] \in {"done", "refused", "waiting"}
  IN /\ UNCHANGED <<refreshDue, cancelled>>
     /\ ~begun => \A j \in Others : phase'[j] = "new"
     /\ phase[j4] = "running" /\ phase'[j4] # "running" => settled
     /\ freeMb' # freeMb => settled

OneDrained ==
  /\ alone /\ \A j \in Others : phase[j] \in {"done", "refused"}
  /\ UNCHANGED vars

MCNext ==
  /\ \/ Next /\ IF alone THEN One ELSE Two
     \/ OneDrained
  /\ UNCHANGED alone

MCSpec ==
  MCInit /\ [][MCNext]_<<vars, alone>> /\ SchedulingFairness /\ RunsEnd({"shared"})
=============================================================================
