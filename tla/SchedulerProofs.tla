--------------------------- MODULE SchedulerProofs --------------------------
(***************************************************************************)
(* Theorems about the scheduler for every set of jobs, every number of     *)
(* concurrent submitters and every configuration.                          *)
(***************************************************************************)
EXTENDS Scheduler, FiniteSetTheorems, TLAPS

(* Scheduler::new gives each class at least one slot.                      *)
LEMMA SlotsType == Slots \in [Class -> Nat \ {0}]
  BY SchedulerAssumption DEF Slots, ScopedSlots, SharedSlots, AtLeastOne, SaturatingSub, Class

LEMMA InitType == Init => TypeOK
  BY SlotsType, SchedulerAssumption DEF Init, TypeOK, At, Phase, Class

LEMMA NextType == TypeOK /\ [Next]_vars => TypeOK'
<1> SUFFICES ASSUME TypeOK, [Next]_vars PROVE TypeOK'
  OBVIOUS
<1> USE SchedulerAssumption DEF TypeOK, Phase, At
<1>1. ASSUME NEW s \in Submitters, NEW j \in Jobs, SubmitDenied(s, j) \/ SubmitAdmitted(s, j)
      PROVE  TypeOK'
  <2>1. CASE SubmitDenied(s, j)
    BY <2>1 DEF SubmitDenied, Refuse, Goto, To
  <2>2. CASE SubmitAdmitted(s, j)
    BY <2>2 DEF SubmitAdmitted, Goto, To, counterVars
  <2> QED
    BY <1>1, <2>1, <2>2
<1>2. ASSUME NEW s \in Submitters, SubmitStep(s)
      PROVE  TypeOK'
  <2>1. CASE LoadSubmitted(s)
    BY <2>1 DEF LoadSubmitted, Goto, taskVars, counterVars
  <2>2. CASE QueueFull(s)
    BY <2>2 DEF QueueFull, Refuse, Goto, To
  <2>3. CASE PassCap(s)
    BY <2>3 DEF PassCap, Goto, taskVars, counterVars
  <2>4. CASE InsertToken(s)
    BY <2>4 DEF InsertToken, Goto, taskVars, counterVars
  <2>5. CASE CountSubmitted(s)
    BY <2>5 DEF CountSubmitted, Goto, taskVars
  <2>6. CASE SpawnTask(s)
    BY <2>6 DEF SpawnTask, Goto, To, counterVars
  <2> QED
    BY <1>2, <2>1, <2>2, <2>3, <2>4, <2>5, <2>6 DEF SubmitStep
<1>3. ASSUME NEW j \in Jobs, TaskStep(j) \/ RunEnds(j)
      PROVE  TypeOK'
  <2> USE DEF To, SemOf, taskFrame, submitVars
  <2>1. CASE Enqueue(j)
    BY <2>1 DEF Enqueue
  <2>2. CASE Acquire(j)
    BY <2>2 DEF Acquire
  <2>3. CASE Start(j) \/ PollRun(j) \/ SkipCancelled(j) \/ RunEnds(j)
    BY <2>3 DEF Start, PollRun, SkipCancelled, RunEnds
  <2>4. CASE RemoveToken(j)
    BY <2>4 DEF RemoveToken
  <2>5. CASE CountCompleted(j)
    BY <2>5 DEF CountCompleted
  <2>6. CASE DropPermit(j)
    BY <2>6 DEF DropPermit
  <2> QED
    BY <1>3, <2>1, <2>2, <2>3, <2>4, <2>5, <2>6 DEF TaskStep
<1>4. ASSUME (\E j \in Jobs : Cancel(j)) \/ CancelAll
      PROVE  TypeOK'
  BY <1>4 DEF Cancel, CancelAll, cancelFrame, taskVars, counterVars, submitVars
<1>5. ASSUME Environment
      PROVE  TypeOK'
  BY <1>5 DEF Environment, taskVars, counterVars, submitVars
<1>6. CASE Drained \/ UNCHANGED vars
  BY <1>6 DEF Drained, vars
<1> QED
  BY <1>1, <1>2, <1>3, <1>4, <1>5, <1>6 DEF Next

(* The state stays well typed: subJob holds a job only of Jobs, counters   *)
(* never go below zero, permits are never overdrawn.                       *)
THEOREM TypeCorrect == SafetySpec => []TypeOK
<1> QED
  BY InitType, NextType, PTL DEF SafetySpec

-----------------------------------------------------------------------------
(* What a task's steps and the end of its run do to the phase of the job,  *)
(* and what they leave alone.                                              *)
JobStep(j) == TaskStep(j) \/ RunEnds(j)

TaskEdges ==
  {<<"spawned", "waiting">>, <<"waiting", "holding">>, <<"holding", "starting">>, <<"starting", "running">>,
   <<"holding", "ended">>, <<"running", "ended">>, <<"ended", "removed">>,
   <<"removed", "counted">>, <<"counted", "done">>}

Moves(j, p, q) ==
  /\ phase[j] = p
  /\ phase' = [phase EXCEPT ![j] = q]
  /\ tracked' = IF p = "ended" THEN tracked \ {j} ELSE tracked
  /\ completed' = IF p = "removed" THEN completed + 1 ELSE completed
  /\ permits' = CASE p = "waiting" -> [permits EXCEPT ![ClassOf[j]] = @ - 1]
                   [] p = "counted" -> [permits EXCEPT ![ClassOf[j]] = @ + 1]
                   [] OTHER -> permits
  /\ p = "waiting" => permits[ClassOf[j]] > 0
  /\ q = "starting" => j \notin cancelled
  /\ p = "holding" /\ q = "ended" => j \in cancelled

LEMMA JobStepShape ==
  ASSUME NEW j \in Jobs, JobStep(j)
  PROVE  /\ UNCHANGED <<cancelled, submitted, rejected, subPc, subJob, loaded>>
         /\ \E e \in TaskEdges : Moves(j, e[1], e[2])
<1> USE DEF To, SemOf, taskFrame, submitVars, TaskEdges, Moves
<1>1. CASE Enqueue(j)
  <2>1. Moves(j, "spawned", "waiting")
    BY <1>1 DEF Enqueue
  <2> QED
    BY <1>1, <2>1 DEF Enqueue
<1>2. CASE Acquire(j)
  <2>1. Moves(j, "waiting", "holding")
    BY <1>2 DEF Acquire
  <2> QED
    BY <1>2, <2>1 DEF Acquire
<1>3. CASE Start(j)
  <2>1. Moves(j, "holding", "starting")
    BY <1>3 DEF Start
  <2> QED
    BY <1>3, <2>1 DEF Start
<1>9. CASE PollRun(j)
  <2>1. Moves(j, "starting", "running")
    BY <1>9 DEF PollRun
  <2> QED
    BY <1>9, <2>1 DEF PollRun
<1>4. CASE SkipCancelled(j)
  <2>1. Moves(j, "holding", "ended")
    BY <1>4 DEF SkipCancelled
  <2> QED
    BY <1>4, <2>1 DEF SkipCancelled
<1>5. CASE RunEnds(j)
  <2>1. Moves(j, "running", "ended")
    BY <1>5 DEF RunEnds
  <2> QED
    BY <1>5, <2>1 DEF RunEnds
<1>6. CASE RemoveToken(j)
  <2>1. Moves(j, "ended", "removed")
    BY <1>6 DEF RemoveToken
  <2> QED
    BY <1>6, <2>1 DEF RemoveToken
<1>7. CASE CountCompleted(j)
  <2>1. Moves(j, "removed", "counted")
    BY <1>7 DEF CountCompleted
  <2> QED
    BY <1>7, <2>1 DEF CountCompleted
<1>8. CASE DropPermit(j)
  <2>1. Moves(j, "counted", "done")
    BY <1>8 DEF DropPermit
  <2> QED
    BY <1>8, <2>1 DEF DropPermit
<1> QED
  BY <1>1, <1>2, <1>3, <1>4, <1>5, <1>6, <1>7, <1>8, <1>9 DEF JobStep, TaskStep

LEMMA InitSubmitter == Init => SubmitterInv
  BY DEF Init, SubmitterInv, At

LEMMA NextSubmitter == TypeOK /\ SubmitterInv /\ [Next]_vars => SubmitterInv'
<1> SUFFICES ASSUME TypeOK, SubmitterInv, [Next]_vars PROVE SubmitterInv'
  OBVIOUS
<1> USE SchedulerAssumption DEF TypeOK, SubmitterInv, At
<1>1. ASSUME NEW s \in Submitters, NEW j \in Jobs, SubmitDenied(s, j)
      PROVE  SubmitterInv'
  BY <1>1 DEF SubmitDenied, Refuse, Goto, To
<1>2. ASSUME NEW s \in Submitters, NEW j \in Jobs, SubmitAdmitted(s, j)
      PROVE  SubmitterInv'
  BY <1>2 DEF SubmitAdmitted, Goto, To
<1>3. ASSUME NEW s \in Submitters, SubmitStep(s)
      PROVE  SubmitterInv'
  <2>1. CASE LoadSubmitted(s) \/ PassCap(s) \/ InsertToken(s) \/ CountSubmitted(s)
    BY <2>1 DEF LoadSubmitted, PassCap, InsertToken, CountSubmitted, Goto, taskVars
  <2>2. CASE QueueFull(s)
    BY <2>2 DEF QueueFull, Refuse, Goto, To
  <2>3. CASE SpawnTask(s)
    BY <2>3 DEF SpawnTask, Goto, To
  <2> QED
    BY <1>3, <2>1, <2>2, <2>3 DEF SubmitStep
<1>4. ASSUME NEW j \in Jobs, JobStep(j)
      PROVE  SubmitterInv'
  <2>1. PICK e \in TaskEdges : Moves(j, e[1], e[2])
    BY <1>4, JobStepShape
  <2>2. UNCHANGED <<subPc, subJob>>
    BY <1>4, JobStepShape
  <2>3. phase[j] # "submitting"
    BY <2>1 DEF TaskEdges, Moves
  <2> QED
    BY <2>1, <2>2, <2>3 DEF Moves
<1>5. ASSUME (\E j \in Jobs : Cancel(j)) \/ CancelAll \/ Environment \/ Drained \/ UNCHANGED vars
      PROVE  SubmitterInv'
  BY <1>5 DEF Cancel, CancelAll, cancelFrame, Environment, Drained, vars, taskVars, submitVars
<1> QED
  BY <1>1, <1>2, <1>3, <1>4, <1>5 DEF Next, JobStep

(* Until its task removes it, cancel() finds the token of every job that   *)
(* was spawned: no order of submissions, completions and cancellations     *)
(* leaves a running agent that cannot be stopped.                          *)
THEOREM CancelAlwaysReaches == SafetySpec => []CancelReachesLiveJobs
<1>1. Init => TrackedInv
  BY DEF Init, TrackedInv, CancelReachesLiveJobs, InPhase, At
<1>2. TypeOK /\ SubmitterInv /\ TrackedInv /\ [Next]_vars => TrackedInv'
  <2> SUFFICES ASSUME TypeOK, SubmitterInv, TrackedInv, [Next]_vars PROVE TrackedInv'
    OBVIOUS
  <2> USE SchedulerAssumption
          DEF TypeOK, SubmitterInv, TrackedInv, CancelReachesLiveJobs, InPhase, At
  <2>1. ASSUME NEW s \in Submitters, NEW j \in Jobs, SubmitDenied(s, j) \/ SubmitAdmitted(s, j)
        PROVE  TrackedInv'
    <3>1. CASE SubmitDenied(s, j)
      BY <3>1 DEF SubmitDenied, Refuse, Goto, To
    <3>2. CASE SubmitAdmitted(s, j)
      BY <3>2 DEF SubmitAdmitted, Goto, To
    <3> QED
      BY <2>1, <3>1, <3>2
  <2>2. ASSUME NEW s \in Submitters, SubmitStep(s)
        PROVE  TrackedInv'
    <3>1. CASE LoadSubmitted(s) \/ PassCap(s)
      BY <3>1 DEF LoadSubmitted, PassCap, Goto, taskVars
    <3>2. CASE InsertToken(s) \/ CountSubmitted(s)
      BY <3>2 DEF InsertToken, CountSubmitted, Goto, taskVars
    <3>3. CASE QueueFull(s)
      BY <3>3 DEF QueueFull, Refuse, Goto, To
    <3>4. CASE SpawnTask(s)
      BY <3>4 DEF SpawnTask, Goto, To
    <3> QED
      BY <2>2, <3>1, <3>2, <3>3, <3>4 DEF SubmitStep
  <2>3. ASSUME NEW j \in Jobs, JobStep(j)
        PROVE  TrackedInv'
    <3>1. PICK e \in TaskEdges : Moves(j, e[1], e[2])
      BY <2>3, JobStepShape
    <3>2. UNCHANGED <<subPc, subJob>>
      BY <2>3, JobStepShape
    <3>3. phase[j] # "submitting"
      BY <3>1 DEF TaskEdges, Moves
    <3>4. e[2] \in {"spawned", "waiting", "holding", "starting", "running", "ended"} =>
            e[1] \in {"spawned", "waiting", "holding", "starting", "running"}
      BY DEF TaskEdges
    <3> QED
      BY <3>1, <3>2, <3>3, <3>4 DEF Moves
  <2>4. ASSUME (\E j \in Jobs : Cancel(j)) \/ CancelAll \/ Environment \/ Drained \/ UNCHANGED vars
        PROVE  TrackedInv'
    BY <2>4 DEF Cancel, CancelAll, cancelFrame, Environment, Drained, vars, taskVars, submitVars
  <2> QED
    BY <2>1, <2>2, <2>3, <2>4 DEF Next, JobStep
<1>3. TrackedInv => CancelReachesLiveJobs
  BY DEF TrackedInv
<1> QED
  BY <1>1, <1>2, <1>3, InitType, NextType, InitSubmitter, NextSubmitter, PTL DEF SafetySpec

-----------------------------------------------------------------------------
(* Steps that are not a task's leave the permits and the holders alone.    *)
OtherStep ==
  \/ \E s \in Submitters, j \in Jobs : SubmitDenied(s, j) \/ SubmitAdmitted(s, j)
  \/ \E s \in Submitters : SubmitStep(s)
  \/ (\E j \in Jobs : Cancel(j)) \/ CancelAll \/ Environment \/ Drained \/ UNCHANGED vars

LEMMA OtherStepShape ==
  ASSUME TypeOK, SubmitterInv, OtherStep
  PROVE  /\ UNCHANGED <<permits, completed>>
         /\ \A k \in Jobs : phase'[k] # phase[k] =>
              /\ phase[k] \in {"new", "submitting"}
              /\ phase'[k] \in {"submitting", "refused", "spawned"}
<1> USE DEF TypeOK, SubmitterInv, At
<1>1. ASSUME NEW s \in Submitters, NEW j \in Jobs, SubmitDenied(s, j) \/ SubmitAdmitted(s, j)
      PROVE  /\ UNCHANGED <<permits, completed>>
             /\ phase[j] = "new"
             /\ \E q \in {"submitting", "refused"} : phase' = [phase EXCEPT ![j] = q]
  BY <1>1 DEF SubmitDenied, SubmitAdmitted, Refuse, To, counterVars
<1>2. ASSUME NEW s \in Submitters, SubmitStep(s)
      PROVE  /\ UNCHANGED <<permits, completed>>
             /\ phase[subJob[s]] = "submitting"
             /\ phase' = phase \/ \E q \in {"refused", "spawned"} : phase' = [phase EXCEPT ![subJob[s]] = q]
  BY <1>2 DEF SubmitStep, LoadSubmitted, QueueFull, PassCap, InsertToken, CountSubmitted,
              SpawnTask, Refuse, To, taskVars, counterVars
<1>3. ASSUME (\E j \in Jobs : Cancel(j)) \/ CancelAll \/ Environment \/ Drained \/ UNCHANGED vars
      PROVE  UNCHANGED <<permits, completed, phase>>
  BY <1>3 DEF Cancel, CancelAll, cancelFrame, Environment, Drained, vars, taskVars, counterVars
<1>4. CASE \E s \in Submitters, j \in Jobs : SubmitDenied(s, j) \/ SubmitAdmitted(s, j)
  BY <1>1, <1>4
<1>5. CASE \E s \in Submitters : SubmitStep(s)
  <2>1. PICK s \in Submitters : SubmitStep(s)
    BY <1>5
  <2> QED
    BY <1>2, <2>1
<1> QED
  BY <1>3, <1>4, <1>5 DEF OtherStep

LEMMA HoldersFinite ==
  ASSUME NEW c PROVE IsFiniteSet(Holders(c)) /\ Cardinality(Holders(c)) \in Nat
  BY SchedulerAssumption, FS_Subset, FS_CardinalityType DEF Holders

LEMMA InitPermits == Init => PermitsConserved
<1> SUFFICES ASSUME Init, NEW c \in Class
             PROVE  permits[c] + Cardinality(Holders(c)) = Slots[c]
  BY DEF PermitsConserved
<1>1. Holders(c) = {}
  BY DEF Init, Holders, HoldingPhases
<1> QED
  BY <1>1, FS_EmptySet, SlotsType DEF Init

LEMMA NextPermits ==
  TypeOK /\ SubmitterInv /\ PermitsConserved /\ [Next]_vars => PermitsConserved'
<1> SUFFICES ASSUME TypeOK, SubmitterInv, PermitsConserved, [Next]_vars, NEW c \in Class
             PROVE  permits'[c] + Cardinality(Holders(c)') = Slots[c]
  BY DEF PermitsConserved
<1> USE DEF TypeOK
<1>1. CASE OtherStep
  <2>1. Holders(c)' = Holders(c)
    BY <1>1, OtherStepShape DEF Holders, HoldingPhases
  <2> QED
    BY <1>1, <2>1, OtherStepShape DEF PermitsConserved
<1>2. ASSUME NEW j \in Jobs, JobStep(j)
      PROVE  permits'[c] + Cardinality(Holders(c)') = Slots[c]
  <2>1. PICK e \in TaskEdges : Moves(j, e[1], e[2])
    BY <1>2, JobStepShape
  <2>2. ClassOf[j] \in Class /\ Slots[c] \in Nat /\ permits[c] \in Nat
    BY SchedulerAssumption, SlotsType
  <2>3. CASE c = ClassOf[j] /\ e[1] = "waiting"
    <3>1. e[2] = "holding"
      BY <2>3 DEF TaskEdges
    <3>2. Holders(c)' = Holders(c) \cup {j} /\ j \notin Holders(c)
      BY <2>1, <2>3, <3>1 DEF Moves, Holders, HoldingPhases
    <3>3. Cardinality(Holders(c)') = Cardinality(Holders(c)) + 1
      BY <3>2, HoldersFinite, FS_AddElement
    <3>4. permits'[c] = permits[c] - 1
      BY <2>1, <2>3 DEF Moves
    <3> QED
      BY <2>2, <3>3, <3>4, HoldersFinite DEF PermitsConserved
  <2>4. CASE c = ClassOf[j] /\ e[1] = "counted"
    <3>1. e[2] = "done"
      BY <2>4 DEF TaskEdges
    <3>2. Holders(c)' = Holders(c) \ {j} /\ j \in Holders(c)
      BY <2>1, <2>4, <3>1 DEF Moves, Holders, HoldingPhases
    <3>3. Cardinality(Holders(c)') = Cardinality(Holders(c)) - 1
      BY <3>2, HoldersFinite, FS_RemoveElement
    <3>4. permits'[c] = permits[c] + 1
      BY <2>1, <2>4 DEF Moves
    <3> QED
      BY <2>2, <3>3, <3>4, HoldersFinite DEF PermitsConserved
  <2>5. CASE c # ClassOf[j] \/ e[1] \notin {"waiting", "counted"}
    <3>1. e[1] \notin {"waiting", "counted"} => (e[1] \in HoldingPhases <=> e[2] \in HoldingPhases)
      BY DEF TaskEdges, HoldingPhases
    <3>2. Holders(c)' = Holders(c)
      BY <2>1, <2>5, <3>1 DEF Moves, Holders
    <3>3. permits'[c] = permits[c]
      BY <2>1, <2>5 DEF Moves
    <3> QED
      BY <3>2, <3>3 DEF PermitsConserved
  <2> QED
    BY <2>3, <2>4, <2>5
<1> QED
  BY <1>1, <1>2 DEF Next, OtherStep, JobStep

(* No path through a task, cancellation and panic included, loses a permit *)
(* or releases one twice.                                                  *)
THEOREM PermitsConservation == SafetySpec => []PermitsConserved
<1> QED
  BY InitType, NextType, InitSubmitter, NextSubmitter, InitPermits, NextPermits, PTL DEF SafetySpec

(* With at least two agents and a reservation below max_agents, the two    *)
(* semaphores together never let more than max_agents jobs run.            *)
THEOREM RunningNeverExceedsMaxAgents == SafetySpec => []RunningBound
<1>1. TypeOK /\ PermitsConserved => RunningBound
  <2> SUFFICES ASSUME TypeOK, PermitsConserved, SplitFits
               PROVE  Cardinality(Running) <= MaxAgents
    BY DEF RunningBound
  <2> DEFINE A == Holders("scoped")
             B == Holders("shared")
  <2>1. Running \subseteq A \cup B
    BY SchedulerAssumption DEF Running, InPhase, Holders, HoldingPhases, Class
  <2>2. IsFiniteSet(A \cup B) /\ Cardinality(A \cup B) = Cardinality(A) + Cardinality(B) - Cardinality(A \cap B)
    BY HoldersFinite, FS_Union
  <2>3. Cardinality(A \cap B) \in Nat
    BY HoldersFinite, FS_Subset, FS_CardinalityType, A \cap B \subseteq A
  <2>4. Cardinality(Running) <= Cardinality(A \cup B) /\ Cardinality(Running) \in Nat
    BY <2>1, <2>2, FS_Subset, FS_CardinalityType
  <2>5. Cardinality(A) <= ScopedSlots /\ Cardinality(B) <= SharedSlots
    BY SlotsType, HoldersFinite DEF PermitsConserved, TypeOK, Class, Slots
  <2>6. ScopedSlots + SharedSlots = MaxAgents /\ ScopedSlots \in Nat /\ SharedSlots \in Nat
    BY SchedulerAssumption DEF SplitFits, ScopedSlots, SharedSlots, AtLeastOne, SaturatingSub
  <2> HIDE DEF A, B
  <2> QED
    BY <2>2, <2>3, <2>4, <2>5, <2>6, SchedulerAssumption, HoldersFinite DEF A, B
<1> QED
  BY <1>1, TypeCorrect, PermitsConservation, PTL

-----------------------------------------------------------------------------
LEMMA CommittedFinite ==
  ASSUME NEW c
  PROVE  /\ IsFiniteSet(Committed(c)) /\ Cardinality(Committed(c)) \in Nat
         /\ Cardinality(Committed(c)) <= Cardinality(Submitters)
         /\ Cardinality(Submitters) \in Nat /\ Cardinality(Submitters) >= 1
<1>1. Committed(c) \subseteq Submitters
  BY DEF Committed
<1>2. Cardinality(Submitters) # 0 /\ Cardinality(Submitters) \in Nat
  BY SchedulerAssumption, FS_EmptySet, FS_CardinalityType
<1> QED
  BY <1>1, <1>2, SchedulerAssumption, FS_Subset, FS_CardinalityType

LEMMA InitOvershoot == Init => OvershootInv(Nat)
<1> SUFFICES ASSUME Init, NEW c \in Nat
             PROVE  submitted - c + Cardinality(Committed(c))
                      <= MaxOutstanding + Cardinality(Submitters) - 1
  BY DEF OvershootInv
<1>1. Committed(c) = {}
  BY DEF Init, Committed, At
<1> QED
  BY <1>1, CommittedFinite, FS_EmptySet, SchedulerAssumption DEF Init, MaxOutstanding

LEMMA NextOvershoot ==
  TypeOK /\ OvershootInv(Nat) /\ [Next]_vars => OvershootInv(Nat)'
<1> SUFFICES ASSUME TypeOK, OvershootInv(Nat), [Next]_vars,
                    NEW c \in Nat, completed' <= c
             PROVE  submitted' - c + Cardinality(Committed(c)')
                      <= MaxOutstanding + Cardinality(Submitters) - 1
  BY DEF OvershootInv
<1> USE DEF TypeOK, At
<1>a. MaxOutstanding \in Nat /\ MaxOutstanding >= 1 /\ submitted \in Nat /\ completed \in Nat
  BY SchedulerAssumption DEF MaxOutstanding
<1>b. completed <= c =>
        submitted - c + Cardinality(Committed(c)) <= MaxOutstanding + Cardinality(Submitters) - 1
  BY DEF OvershootInv
<1>c. Cardinality(Committed(c)) \in Nat /\ IsFiniteSet(Committed(c))
      /\ Cardinality(Submitters) \in Nat
  BY CommittedFinite
<1>1. ASSUME UNCHANGED <<subPc, loaded, submitted>>, completed' \in {completed, completed + 1}
      PROVE  submitted' - c + Cardinality(Committed(c)')
               <= MaxOutstanding + Cardinality(Submitters) - 1
  <2>1. Committed(c)' = Committed(c)
    BY <1>1 DEF Committed
  <2> QED
    BY <1>1, <2>1, <1>a, <1>b
<1>2. ASSUME NEW s \in Submitters, NEW j \in Jobs, SubmitDenied(s, j) \/ SubmitAdmitted(s, j)
      PROVE  /\ Committed(c)' = Committed(c)
             /\ UNCHANGED <<submitted, completed>>
  BY <1>2 DEF SubmitDenied, SubmitAdmitted, Refuse, Goto, Committed, counterVars
<1>3. ASSUME NEW s \in Submitters, LoadSubmitted(s)
      PROVE  submitted' - c + Cardinality(Committed(c)')
               <= MaxOutstanding + Cardinality(Submitters) - 1
  <2>1. UNCHANGED <<submitted, completed>>
    BY <1>3 DEF LoadSubmitted, counterVars
  <2>2. CASE submitted - c < MaxOutstanding
    <3>1. Committed(c)' \subseteq Submitters
      BY DEF Committed
    <3>2. Cardinality(Committed(c)') <= Cardinality(Submitters) /\ Cardinality(Committed(c)') \in Nat
      BY <3>1, SchedulerAssumption, FS_Subset, FS_CardinalityType
    <3> QED
      BY <2>1, <2>2, <3>2, <1>a, <1>c
  <2>3. CASE ~(submitted - c < MaxOutstanding)
    <3>1. Committed(c)' = Committed(c)
      BY <1>3, <2>3 DEF LoadSubmitted, Goto, Committed
    <3> QED
      BY <2>1, <3>1, <1>b
  <2> QED
    BY <2>2, <2>3
<1>4. ASSUME NEW s \in Submitters, QueueFull(s)
      PROVE  submitted' - c + Cardinality(Committed(c)')
               <= MaxOutstanding + Cardinality(Submitters) - 1
  <2>1. UNCHANGED <<submitted, completed>>
    BY <1>4 DEF QueueFull
  <2>2. Committed(c)' \subseteq Committed(c)
    BY <1>4 DEF QueueFull, Refuse, Goto, Committed
  <2>3. Cardinality(Committed(c)') <= Cardinality(Committed(c)) /\ Cardinality(Committed(c)') \in Nat
    BY <2>2, <1>c, FS_Subset, FS_CardinalityType
  <2> QED
    BY <2>1, <2>3, <1>a, <1>b, <1>c
<1>5. ASSUME NEW s \in Submitters, PassCap(s)
      PROVE  /\ Committed(c)' = Committed(c)
             /\ UNCHANGED <<submitted, completed>>
  <2>1. UNCHANGED <<submitted, completed>>
    BY <1>5 DEF PassCap, counterVars
  <2>2. loaded[s] \in Nat /\ loaded[s] - completed < MaxOutstanding
    BY <1>5, <1>a DEF PassCap, BelowCap, SaturatingSub
  <2>3. loaded[s] - c < MaxOutstanding
    BY <2>1, <2>2, <1>a
  <2>4. s \in Committed(c) /\ s \in Committed(c)'
    BY <1>5, <2>3 DEF PassCap, Goto, Committed
  <2>5. \A t \in Submitters \ {s} : t \in Committed(c)' <=> t \in Committed(c)
    BY <1>5 DEF PassCap, Goto, Committed
  <2>6. Committed(c) \subseteq Submitters /\ Committed(c)' \subseteq Submitters
    BY DEF Committed
  <2>7. \A t : t \in Committed(c)' <=> t \in Committed(c)
    BY <2>4, <2>5, <2>6, Zenon
  <2>8. Committed(c)' = Committed(c)
    BY <2>7, Zenon
  <2> QED
    BY <2>1, <2>8
<1>6. ASSUME NEW s \in Submitters, InsertToken(s) \/ SpawnTask(s)
      PROVE  /\ Committed(c)' = Committed(c)
             /\ UNCHANGED <<submitted, completed>>
  BY <1>6 DEF InsertToken, SpawnTask, Goto, Committed, counterVars
<1>7. ASSUME NEW s \in Submitters, CountSubmitted(s)
      PROVE  submitted' - c + Cardinality(Committed(c)')
               <= MaxOutstanding + Cardinality(Submitters) - 1
  <2>1. submitted' = submitted + 1 /\ completed' = completed
    BY <1>7 DEF CountSubmitted
  <2>2. Committed(c)' = Committed(c) \ {s} /\ s \in Committed(c)
    BY <1>7 DEF CountSubmitted, Goto, Committed
  <2>3. Cardinality(Committed(c)') = Cardinality(Committed(c)) - 1
    BY <2>2, <1>c, FS_RemoveElement
  <2> QED
    BY <2>1, <2>3, <1>a, <1>b, <1>c
<1>8. ASSUME NEW j \in Jobs, JobStep(j)
      PROVE  UNCHANGED <<subPc, loaded, submitted>> /\ completed' \in {completed, completed + 1}
  BY <1>8, JobStepShape DEF Moves
<1>9. ASSUME (\E j \in Jobs : Cancel(j)) \/ CancelAll \/ Environment \/ Drained \/ UNCHANGED vars
      PROVE  UNCHANGED <<subPc, loaded, submitted, completed>>
  BY <1>9 DEF Cancel, CancelAll, cancelFrame, Environment, Drained, vars, submitVars, counterVars
<1>10. CASE \E s \in Submitters : SubmitStep(s)
  BY <1>10, <1>3, <1>4, <1>5, <1>6, <1>7, <1>b DEF SubmitStep
<1>11. CASE \E s \in Submitters, j \in Jobs : SubmitDenied(s, j) \/ SubmitAdmitted(s, j)
  BY <1>11, <1>2, <1>b
<1>12. CASE \E j \in Jobs : JobStep(j)
  BY <1>12, <1>8, <1>1
<1>13. CASE (\E j \in Jobs : Cancel(j)) \/ CancelAll \/ Environment \/ Drained \/ UNCHANGED vars
  BY <1>13, <1>9, <1>1
<1> QED
  BY <1>10, <1>11, <1>12, <1>13 DEF Next, JobStep

(* The cap is checked on two stale loads and enforced by nothing else, yet *)
(* concurrent submissions overshoot it by less than the number of callers: *)
(* exactly one caller, and the cap is exact.                               *)
THEOREM OutstandingNeverFarAboveCap == SafetySpec => []OutstandingBound
<1>1. TypeOK /\ OvershootInv(Nat) => OutstandingBound
  <2> SUFFICES ASSUME TypeOK, OvershootInv(Nat) PROVE OutstandingBound
    OBVIOUS
  <2>1. submitted - completed + Cardinality(Committed(completed))
          <= MaxOutstanding + Cardinality(Submitters) - 1
    BY DEF TypeOK, OvershootInv
  <2> QED
    <3>1. Cardinality(Committed(completed)) \in Nat /\ Cardinality(Submitters) \in Nat
      BY CommittedFinite
    <3>2. MaxOutstanding \in Nat /\ submitted \in Nat /\ completed \in Nat
      BY SchedulerAssumption DEF TypeOK, MaxOutstanding
    <3> QED
      BY <2>1, <3>1, <3>2 DEF OutstandingBound
<1> QED
  BY <1>1, TypeCorrect, InitType, NextType, InitOvershoot, NextOvershoot, PTL DEF SafetySpec

-----------------------------------------------------------------------------
(* The counters and what they count.                                       *)
AtSpawn == {s \in Submitters : At(s, "spawn")}
CountedPhases == {"spawned", "waiting", "holding", "starting", "running", "ended", "removed"}
IsCounted(j) == phase[j] \in CountedPhases \/ \E s \in AtSpawn : subJob[s] = j

LEMMA CountedIs ==
  ASSUME TypeOK
  PROVE  /\ Counted = {j \in Jobs : IsCounted(j)}
         /\ IsFiniteSet(Counted) /\ Cardinality(Counted) \in Nat
         /\ IsFiniteSet(InPhase({"refused"})) /\ Cardinality(InPhase({"refused"})) \in Nat
<1>1. \A s \in AtSpawn : subJob[s] \in Jobs
  BY DEF TypeOK, AtSpawn, At
<1>2. Counted = {j \in Jobs : IsCounted(j)}
  BY <1>1 DEF Counted, IsCounted, AtSpawn, InPhase, CountedPhases
<1>3. Counted \subseteq Jobs /\ InPhase({"refused"}) \subseteq Jobs
  BY <1>2 DEF InPhase
<1> QED
  BY <1>2, <1>3, SchedulerAssumption, FS_Subset, FS_CardinalityType

(* A step that counts no job in or out leaves the counters alone, and one  *)
(* that does moves its counter by one.                                     *)
LEMMA CountersFollow ==
  ASSUME TypeOK, TypeOK', AccountingExact,
         \/ Counted' = Counted /\ submitted' = submitted /\ completed' = completed
         \/ \E j \in Jobs \ Counted : Counted' = Counted \cup {j}
              /\ submitted' = submitted + 1 /\ completed' = completed
         \/ \E j \in Counted : Counted' = Counted \ {j}
              /\ submitted' = submitted /\ completed' = completed + 1,
         \/ InPhase({"refused"})' = InPhase({"refused"}) /\ rejected' = rejected
         \/ \E j \in Jobs \ InPhase({"refused"}) :
              InPhase({"refused"})' = InPhase({"refused"}) \cup {j} /\ rejected' = rejected + 1
  PROVE  AccountingExact'
<1>1. submitted \in Nat /\ completed \in Nat /\ rejected \in Nat
  BY DEF TypeOK
<1>2. Cardinality(Counted') = submitted' - completed'
  <2>1. CASE Counted' = Counted /\ submitted' = submitted /\ completed' = completed
    BY <2>1 DEF AccountingExact
  <2>2. ASSUME NEW j \in Jobs \ Counted, Counted' = Counted \cup {j},
               submitted' = submitted + 1, completed' = completed
        PROVE  Cardinality(Counted') = submitted' - completed'
    <3>1. Cardinality(Counted') = Cardinality(Counted) + 1
      BY <2>2, CountedIs, FS_AddElement
    <3> QED
      BY <1>1, <2>2, <3>1, SMT DEF AccountingExact
  <2>3. ASSUME NEW j \in Counted, Counted' = Counted \ {j},
               submitted' = submitted, completed' = completed + 1
        PROVE  Cardinality(Counted') = submitted' - completed'
    <3>1. Cardinality(Counted') = Cardinality(Counted) - 1
      BY <2>3, CountedIs, FS_RemoveElement
    <3> QED
      BY <1>1, <2>3, <3>1, SMT DEF AccountingExact
  <2> QED
    BY <2>1, <2>2, <2>3
<1>3. Cardinality(InPhase({"refused"})') = rejected'
  <2>1. CASE InPhase({"refused"})' = InPhase({"refused"}) /\ rejected' = rejected
    BY <2>1 DEF AccountingExact
  <2>2. ASSUME NEW j \in Jobs \ InPhase({"refused"}), rejected' = rejected + 1,
               InPhase({"refused"})' = InPhase({"refused"}) \cup {j}
        PROVE  Cardinality(InPhase({"refused"})') = rejected'
    <3>1. Cardinality(InPhase({"refused"})') = Cardinality(InPhase({"refused"})) + 1
      BY <2>2, CountedIs, FS_AddElement
    <3> QED
      BY <1>1, <2>2, <3>1, SMT DEF AccountingExact
  <2> QED
    BY <2>1, <2>2
<1> QED
  BY <1>2, <1>3 DEF AccountingExact

(* Each job is counted in once, by the submitter that has it in hand, and  *)
(* counted out once, by its task, however the task came to its end.        *)
LEMMA NextAccounting ==
  TypeOK /\ SubmitterInv /\ AccountingExact /\ [Next]_vars => AccountingExact'
<1> SUFFICES ASSUME TypeOK, SubmitterInv, AccountingExact, [Next]_vars PROVE AccountingExact'
  OBVIOUS
<1>t. TypeOK'
  BY NextType
<1>c. Counted = {j \in Jobs : IsCounted(j)} /\ Counted' = {j \in Jobs : IsCounted(j)'}
  <2>1. Counted = {j \in Jobs : IsCounted(j)}
    BY CountedIs
  <2>2. \A s \in AtSpawn' : subJob'[s] \in Jobs
    BY <1>t DEF TypeOK, AtSpawn, At
  <2>3. Counted' = {j \in Jobs : IsCounted(j)'}
    BY <2>2 DEF Counted, IsCounted, AtSpawn, InPhase, CountedPhases
  <2> QED
    BY <2>1, <2>3
<1> USE DEF IsCounted, AtSpawn, At, CountedPhases, InPhase
<1>1. ASSUME NEW s \in Submitters, NEW j \in Jobs, SubmitDenied(s, j) PROVE AccountingExact'
  <2>1. /\ phase[j] = "new" /\ phase' = [phase EXCEPT ![j] = "refused"]
        /\ subPc[s] = "idle" /\ subPc' = [subPc EXCEPT ![s] = "idle"]
        /\ subJob' = [subJob EXCEPT ![s] = NoJob]
        /\ rejected' = rejected + 1 /\ UNCHANGED <<submitted, completed>>
    BY <1>1 DEF SubmitDenied, Refuse, Goto, To
  <2>2. Counted' = Counted
    BY <1>c, <2>1 DEF TypeOK
  <2>3. /\ InPhase({"refused"})' = InPhase({"refused"}) \cup {j}
        /\ j \notin InPhase({"refused"})
    BY <2>1 DEF TypeOK
  <2> QED
    BY <1>t, <2>1, <2>2, <2>3, CountersFollow
<1>2. ASSUME NEW s \in Submitters, NEW j \in Jobs, SubmitAdmitted(s, j) PROVE AccountingExact'
  <2>1. /\ phase[j] = "new" /\ phase' = [phase EXCEPT ![j] = "submitting"]
        /\ subPc[s] = "idle" /\ subPc' = [subPc EXCEPT ![s] = "load"]
        /\ subJob' = [subJob EXCEPT ![s] = j]
        /\ UNCHANGED <<submitted, completed, rejected>>
    BY <1>2 DEF SubmitAdmitted, Goto, To, counterVars
  <2>2. Counted' = Counted /\ InPhase({"refused"})' = InPhase({"refused"})
    BY <1>c, <2>1 DEF TypeOK
  <2> QED
    BY <1>t, <2>1, <2>2, CountersFollow
<1>3. ASSUME NEW s \in Submitters, LoadSubmitted(s) \/ PassCap(s) \/ InsertToken(s)
      PROVE  AccountingExact'
  <2>1. /\ subPc[s] # "spawn"
        /\ \E pc \in {"check", "insert", "count"} : subPc' = [subPc EXCEPT ![s] = pc]
        /\ UNCHANGED <<phase, subJob, submitted, completed, rejected>>
    BY <1>3 DEF LoadSubmitted, PassCap, InsertToken, Goto, taskVars, counterVars
  <2>2. Counted' = Counted /\ InPhase({"refused"})' = InPhase({"refused"})
    BY <1>c, <2>1 DEF TypeOK
  <2> QED
    BY <1>t, <2>1, <2>2, CountersFollow
<1>4. ASSUME NEW s \in Submitters, QueueFull(s) PROVE AccountingExact'
  <2>1. /\ subPc[s] = "check" /\ subJob[s] \in Jobs /\ phase[subJob[s]] = "submitting"
        /\ phase' = [phase EXCEPT ![subJob[s]] = "refused"]
        /\ subPc' = [subPc EXCEPT ![s] = "idle"]
        /\ subJob' = [subJob EXCEPT ![s] = NoJob]
        /\ rejected' = rejected + 1 /\ UNCHANGED <<submitted, completed>>
    BY <1>4 DEF QueueFull, Refuse, Goto, To, TypeOK, SubmitterInv
  <2>2. Counted' = Counted
    BY <1>c, <2>1 DEF TypeOK
  <2>3. /\ InPhase({"refused"})' = InPhase({"refused"}) \cup {subJob[s]}
        /\ subJob[s] \notin InPhase({"refused"})
    BY <2>1 DEF TypeOK
  <2> QED
    BY <1>t, <2>1, <2>2, <2>3, CountersFollow
<1>5. ASSUME NEW s \in Submitters, CountSubmitted(s) PROVE AccountingExact'
  <2>1. /\ subPc[s] = "count" /\ subJob[s] \in Jobs /\ phase[subJob[s]] = "submitting"
        /\ subPc' = [subPc EXCEPT ![s] = "spawn"]
        /\ submitted' = submitted + 1 /\ UNCHANGED <<phase, subJob, completed, rejected>>
    BY <1>5 DEF CountSubmitted, Goto, TypeOK, SubmitterInv, taskVars
  <2>2. \A t \in Submitters : subJob[t] = subJob[s] => t = s
    BY <2>1, SchedulerAssumption DEF SubmitterInv
  <2>3. Counted' = Counted \cup {subJob[s]} /\ subJob[s] \notin Counted
    BY <1>c, <2>1, <2>2 DEF TypeOK
  <2>4. InPhase({"refused"})' = InPhase({"refused"})
    BY <2>1
  <2> QED
    BY <1>t, <2>1, <2>3, <2>4, CountersFollow
<1>6. ASSUME NEW s \in Submitters, SpawnTask(s) PROVE AccountingExact'
  <2>1. /\ subPc[s] = "spawn" /\ subJob[s] \in Jobs /\ phase[subJob[s]] = "submitting"
        /\ phase' = [phase EXCEPT ![subJob[s]] = "spawned"]
        /\ subPc' = [subPc EXCEPT ![s] = "idle"]
        /\ subJob' = [subJob EXCEPT ![s] = NoJob]
        /\ UNCHANGED <<submitted, completed, rejected>>
    BY <1>6 DEF SpawnTask, Goto, To, TypeOK, SubmitterInv, counterVars
  <2>2. Counted' = Counted /\ InPhase({"refused"})' = InPhase({"refused"})
    BY <1>c, <2>1 DEF TypeOK
  <2> QED
    BY <1>t, <2>1, <2>2, CountersFollow
<1>7. ASSUME NEW j \in Jobs, JobStep(j) PROVE AccountingExact'
  <2>1. PICK e \in TaskEdges : Moves(j, e[1], e[2])
    BY <1>7, JobStepShape
  <2>2. UNCHANGED <<submitted, rejected, subPc, subJob>>
    BY <1>7, JobStepShape
  <2>3. /\ phase[j] = e[1] /\ phase' = [phase EXCEPT ![j] = e[2]]
        /\ completed' = IF e[1] = "removed" THEN completed + 1 ELSE completed
    BY <2>1 DEF Moves
  <2>4. \A s \in AtSpawn : subJob[s] # j
    BY <2>3 DEF TaskEdges, SubmitterInv
  <2>5. InPhase({"refused"})' = InPhase({"refused"})
    BY <2>3 DEF TaskEdges, TypeOK
  <2>6. CASE e[1] = "removed"
    <3>1. e[2] = "counted"
      BY <2>6 DEF TaskEdges
    <3>2. Counted' = Counted \ {j} /\ j \in Counted
      BY <1>c, <2>2, <2>3, <2>4, <2>6, <3>1 DEF TypeOK
    <3> QED
      BY <1>t, <2>2, <2>3, <2>5, <2>6, <3>2, CountersFollow
  <2>7. CASE e[1] # "removed"
    <3>1. e[1] \in CountedPhases <=> e[2] \in CountedPhases
      BY <2>7 DEF TaskEdges
    <3>2. Counted' = Counted
      BY <1>c, <2>2, <2>3, <3>1 DEF TypeOK
    <3> QED
      BY <1>t, <2>2, <2>3, <2>5, <2>7, <3>2, CountersFollow
  <2> QED
    BY <2>6, <2>7
<1>8. CASE (\E j \in Jobs : Cancel(j)) \/ CancelAll \/ Environment \/ Drained \/ UNCHANGED vars
  <2>1. UNCHANGED <<phase, subPc, subJob, submitted, completed, rejected>>
    BY <1>8 DEF Cancel, CancelAll, cancelFrame, Environment, Drained, vars, taskVars,
                counterVars, submitVars
  <2> QED
    BY <2>1 DEF AccountingExact, Counted
<1> QED
  BY <1>1, <1>2, <1>3, <1>4, <1>5, <1>6, <1>7, <1>8 DEF Next, SubmitStep, JobStep

(* scheduler.rs 166-205: whatever was refused, skipped, cancelled or       *)
(* panicked, the counters are the numbers of jobs refused and outstanding. *)
THEOREM CountersAreExact == SafetySpec => []AccountingExact
<1>1. Init => AccountingExact
  <2> SUFFICES ASSUME Init PROVE AccountingExact
    OBVIOUS
  <2>1. Counted = {} /\ InPhase({"refused"}) = {}
    BY DEF Init, Counted, InPhase, At
  <2>2. submitted = 0 /\ completed = 0 /\ rejected = 0
    BY DEF Init
  <2>3. Cardinality(Counted) = 0 /\ Cardinality(InPhase({"refused"})) = 0
    BY <2>1, FS_EmptySet
  <2> QED
    BY <2>2, <2>3, SMT DEF AccountingExact
<1> QED
  BY <1>1, InitType, NextType, InitSubmitter, NextSubmitter, NextAccounting, PTL DEF SafetySpec

-----------------------------------------------------------------------------
(* Refinement of the abstract pool.                                        *)

StageOf(ph) ==
  CASE ph \in {"new", "refused", "submitting"} -> "absent"
    [] ph \in {"spawned", "waiting", "holding"} -> "pending"
    [] ph \in {"starting", "running"} -> "active"
    [] OTHER -> "over"

LEMMA StageOfPhase == stageOf = [j \in Jobs |-> StageOf(phase[j])]
  BY DEF stageOf, StageOf

(* A step that moves at most one job from one stage to another.            *)
LEMMA StageMoves ==
  ASSUME TypeOK, NEW j \in Jobs, NEW q \in Phase, phase' = [phase EXCEPT ![j] = q]
  PROVE  stageOf' = [stageOf EXCEPT ![j] = StageOf(q)]
<1>1. stageOf' = [k \in Jobs |-> StageOf(phase'[k])]
  BY DEF stageOf, StageOf
<1>2. \A k \in Jobs : phase'[k] = IF k = j THEN q ELSE phase[k]
  BY DEF TypeOK
<1> HIDE DEF StageOf
<1> QED
  BY <1>1, <1>2, StageOfPhase

(* Every step of the scheduler is a step of the pool or leaves it alone:   *)
(* safety of the implementation for every configuration.                   *)
THEOREM SchedulerImplementsPool == SafetySpec => ImplementsPool
<1>1. Init => Pool!Init
  BY DEF Init, Pool!Init, stageOf
<1>2. TypeOK /\ SubmitterInv /\ PermitsConserved /\ [Next]_vars => [Pool!Next]_<<stageOf, cancelled>>
  <2> SUFFICES ASSUME TypeOK, SubmitterInv, PermitsConserved, [Next]_vars
               PROVE  Pool!Next \/ UNCHANGED <<stageOf, cancelled>>
    OBVIOUS
  <2>1. ASSUME NEW j \in Jobs, JobStep(j)
        PROVE  Pool!Next \/ UNCHANGED <<stageOf, cancelled>>
    <3>1. PICK e \in TaskEdges : Moves(j, e[1], e[2])
      BY <2>1, JobStepShape
    <3>2. cancelled' = cancelled
      BY <2>1, JobStepShape
    <3>3. e[1] \in Phase /\ e[2] \in Phase /\ phase[j] = e[1] /\ phase' = [phase EXCEPT ![j] = e[2]]
      BY <3>1 DEF TaskEdges, Phase, Moves
    <3>4. stageOf' = [stageOf EXCEPT ![j] = StageOf(e[2])] /\ stageOf[j] = StageOf(e[1])
      BY <3>3, StageMoves, StageOfPhase
    <3>5. CASE e[1] = "holding" /\ e[2] = "starting"
      <4>1. j \notin cancelled
        BY <3>1, <3>5 DEF Moves
      <4>2. stageOf[j] = "pending" /\ stageOf' = [stageOf EXCEPT ![j] = "active"]
        BY <3>4, <3>5 DEF StageOf
      <4> DEFINE c == ClassOf[j]
                 A == {k \in Jobs : ClassOf[k] = c /\ stageOf[k] = "active"}
      <4>3. A \subseteq Holders(c) \ {j} /\ j \in Holders(c)
        BY <3>3, <3>5, <4>2 DEF Holders, HoldingPhases, stageOf
      <4>4. Cardinality(A) < Cardinality(Holders(c))
        BY <4>3, HoldersFinite, FS_Subset, FS_RemoveElement, FS_CardinalityType
      <4>5. Cardinality(Holders(c)) <= Slots[c]
        BY HoldersFinite, SlotsType, SchedulerAssumption DEF PermitsConserved, TypeOK
      <4>6. Cardinality(A) \in Nat /\ Slots[c] \in Nat /\ Cardinality(Holders(c)) \in Nat
        BY <4>3, HoldersFinite, FS_Subset, FS_CardinalityType, SlotsType, SchedulerAssumption
      <4>7. Cardinality(A) < Slots[c]
        BY <4>4, <4>5, <4>6
      <4>8. Pool!Cardinality(Pool!Active(c)) < Slots[c]
        BY <4>7 DEF Pool!Active, Pool!Cardinality, Cardinality
      <4>9. Pool!Activate(j)
        BY <3>2, <4>1, <4>2, <4>8 DEF Pool!Activate, Pool!Move
      <4> QED
        BY <4>9 DEF Pool!Next
    <3>6. CASE e[1] = "holding" /\ e[2] = "ended"
      <4>1. j \in cancelled
        BY <3>1, <3>6 DEF Moves
      <4>2. stageOf[j] = "pending" /\ stageOf' = [stageOf EXCEPT ![j] = "over"]
        BY <3>4, <3>6 DEF StageOf
      <4>3. Pool!Discard(j)
        BY <3>2, <4>1, <4>2 DEF Pool!Discard, Pool!Move
      <4> QED
        BY <4>3 DEF Pool!Next
    <3>7. CASE e[1] = "running"
      <4>1. e[2] = "ended"
        BY <3>7 DEF TaskEdges
      <4>2. Pool!Complete(j)
        BY <3>2, <3>4, <3>7, <4>1 DEF StageOf, Pool!Complete, Pool!Move
      <4> QED
        BY <4>2 DEF Pool!Next
    <3>8. CASE e[1] \notin {"holding", "running"}
      <4>1. StageOf(e[1]) = StageOf(e[2])
        BY <3>8 DEF TaskEdges, StageOf
      <4>2. stageOf' = stageOf
        BY <3>4, <4>1, StageOfPhase
      <4> QED
        BY <3>2, <4>2
    <3> QED
      BY <3>5, <3>6, <3>7, <3>8 DEF TaskEdges
  <2>2. ASSUME NEW s \in Submitters, NEW j \in Jobs, SubmitDenied(s, j) \/ SubmitAdmitted(s, j)
        PROVE  UNCHANGED <<stageOf, cancelled>>
    <3>1. cancelled' = cancelled /\ phase[j] = "new"
      BY <2>2 DEF SubmitDenied, SubmitAdmitted
    <3>2. PICK q \in {"refused", "submitting"} : phase' = [phase EXCEPT ![j] = q]
      BY <2>2 DEF SubmitDenied, SubmitAdmitted, Refuse, To
    <3>3. StageOf(q) = StageOf(phase[j])
      BY <3>1 DEF StageOf
    <3>4. q \in Phase
      BY DEF Phase
    <3>5. stageOf' = [stageOf EXCEPT ![j] = StageOf(q)]
      BY <3>2, <3>4, StageMoves
    <3> QED
      BY <3>1, <3>3, <3>5, StageOfPhase
  <2>3. ASSUME NEW s \in Submitters, SubmitStep(s)
        PROVE  Pool!Next \/ UNCHANGED <<stageOf, cancelled>>
    <3>1. CASE SpawnTask(s)
      <4>1. subJob[s] \in Jobs /\ phase[subJob[s]] = "submitting" /\ cancelled' = cancelled
        BY <3>1 DEF SpawnTask, TypeOK, SubmitterInv, At
      <4>2. phase' = [phase EXCEPT ![subJob[s]] = "spawned"]
        BY <3>1 DEF SpawnTask, To
      <4>3. stageOf' = [stageOf EXCEPT ![subJob[s]] = "pending"] /\ stageOf[subJob[s]] = "absent"
        BY <4>1, <4>2, StageMoves, StageOfPhase DEF StageOf, Phase
      <4>4. Pool!Accept(subJob[s])
        BY <4>1, <4>3 DEF Pool!Accept, Pool!Move
      <4> QED
        BY <4>1, <4>4 DEF Pool!Next
    <3>2. CASE QueueFull(s)
      <4>1. subJob[s] \in Jobs /\ phase[subJob[s]] = "submitting" /\ cancelled' = cancelled
        BY <3>2 DEF QueueFull, TypeOK, SubmitterInv, At
      <4>2. phase' = [phase EXCEPT ![subJob[s]] = "refused"]
        BY <3>2 DEF QueueFull, Refuse, To
      <4>3. stageOf' = [stageOf EXCEPT ![subJob[s]] = "absent"] /\ stageOf[subJob[s]] = "absent"
        BY <4>1, <4>2, StageMoves, StageOfPhase DEF StageOf, Phase
      <4> QED
        BY <4>1, <4>3, StageOfPhase
    <3>3. CASE LoadSubmitted(s) \/ PassCap(s) \/ InsertToken(s) \/ CountSubmitted(s)
      BY <3>3 DEF LoadSubmitted, PassCap, InsertToken, CountSubmitted, taskVars, stageOf
    <3> QED
      BY <2>3, <3>1, <3>2, <3>3 DEF SubmitStep
  <2>4. ASSUME (\E j \in Jobs : Cancel(j)) \/ CancelAll
        PROVE  Pool!Next
    <3>1. stageOf' = stageOf
      BY <2>4 DEF Cancel, CancelAll, cancelFrame, taskVars, stageOf
    <3>2. \E js \in SUBSET Jobs : cancelled' = cancelled \cup js
      BY <2>4 DEF Cancel, CancelAll, TypeOK
    <3> QED
      BY <3>1, <3>2 DEF Pool!Next, Pool!Stop
  <2>5. CASE Environment \/ Drained \/ UNCHANGED vars
    BY <2>5 DEF Environment, Drained, vars, taskVars, stageOf
  <2> QED
    BY <2>1, <2>2, <2>3, <2>4, <2>5 DEF Next, JobStep
<1> QED
  BY <1>1, <1>2, InitType, NextType, InitSubmitter, NextSubmitter, InitPermits, NextPermits, PTL
  DEF SafetySpec, ImplementsPool, Pool!SafeSpec, Pool!poolVars
=============================================================================
