---------------------------- MODULE Escalation ------------------------------
(***************************************************************************)
(* run_agent_escalating (crates/runtime/src/orchestrator.rs): the driver   *)
(* that retries a task on stronger models.  Each attempt is an AgentRun of *)
(* its own, reporting on a private channel; the driver forwards that       *)
(* channel's progress to the task's channel, keeps the attempts' terminal  *)
(* events back and, when it gives up climbing, sends one for the task.     *)
(***************************************************************************)
EXTENDS AgentRun, ModelChoice

CONSTANTS
  Registries,      \* what may be registered
  Default,         \* the configured default_model, or NoModel
  EscalateOn,      \* outcomes the policy escalates on ({} for TierOnly)
  MaxEscalations,  \* policy.max_escalations
  TaskCapacity     \* capacity of the task's event channel

ASSUME EscalationAssumption ==
  /\ \A R \in Registries : IsRegistry(R)
  /\ EscalateOn \subseteq {"failed", "limit"}
  /\ MaxEscalations \in Nat /\ TaskCapacity \in Nat \ {0}

VARIABLES
  driver,       \* where the driver is
  stock,        \* the registered models, fixed while the task runs
  model,        \* the model of the current attempt
  first,        \* history: the model of the first one
  escalations,  \* how many handoffs so far
  taskChannel,  \* the task's events, not yet received
  taskHeard,    \* the task's receiver still exists
  told          \* history: terminal events the receiver got

routeVars == <<stock, model, first>>
driverVars == <<driver, routeVars, escalations, taskChannel, taskHeard, told>>
taskVars == <<runVars, driverVars>>

(* The initial model: a forced tier, or the tier of the task's difficulty. *)
EInit ==
  /\ Init
  /\ driver = "launch"
  /\ stock \in Registries
  /\ \E t \in TaskType, long, large \in BOOLEAN, tier \in Tier :
       \/ model = ChooseModel(stock, tier, Default)
       \/ model = ChooseModel(stock, DifficultyTier(t, long, large), Default)
  /\ first = model
  /\ escalations = 0
  /\ taskChannel = <<>> /\ taskHeard = TRUE /\ told = <<>>

-----------------------------------------------------------------------------
(* A new attempt, with its private channel, on the current model. *)
Launch ==
  /\ driver = "launch"
  /\ pc' = "new" /\ outcome' = "none" /\ turn' = 0 /\ todo' = <<>>
  /\ counts' = NoCounts /\ unanswered' = 0 /\ cutShort' = FALSE
  /\ resends' = 0
  /\ channel' = <<>> /\ taken' = <<>>
  /\ driver' = "drain"
  /\ UNCHANGED <<late, cancelled, listening, routeVars, escalations, taskChannel, taskHeard, told>>

(* The attempt's own steps, while the driver drains its channel. *)
Attempt ==
  /\ driver = "drain"
  /\ RunStep
  /\ UNCHANGED driverVars

TaskRoom == Len(taskChannel) < TaskCapacity

(* try_send on the task's channel *)
Offer(kind) ==
  taskChannel' = IF taskHeard /\ TaskRoom THEN Append(taskChannel, kind) ELSE taskChannel

driverFrame == UNCHANGED <<loopVars, cancelled, listening>>

(* Mutant: the attempt's terminal event is forwarded too. *)
Forward_all ==
  /\ driver = "drain" /\ channel # <<>>
  /\ channel' = Tail(channel)
  /\ taken' = Taken(taken, Head(channel))
  /\ Offer(Head(channel))
  /\ UNCHANGED <<driver, routeVars, escalations, taskHeard, told>> /\ driverFrame

Forward ==
  /\ driver = "drain" /\ channel # <<>>
  /\ channel' = Tail(channel)
  /\ taken' = Taken(taken, Head(channel))
  /\ IF Head(channel) \in Terminal THEN UNCHANGED taskChannel ELSE Offer(Head(channel))
  /\ UNCHANGED <<driver, routeVars, escalations, taskHeard, told>> /\ driverFrame

(* Mutant: the driver waits for a terminal event that a panic never sends. *)
Join_terminal ==
  /\ driver = "drain" /\ channel = <<>> /\ pc = "ended"
  /\ driver' = "decide"
  /\ UNCHANGED <<routeVars, escalations, taskChannel, taskHeard, told, channel, taken>> /\ driverFrame

(* The channel is closed and empty: the attempt's task is joined. *)
Join ==
  /\ driver = "drain" /\ channel = <<>> /\ Over
  /\ driver' = "decide"
  /\ UNCHANGED <<routeVars, escalations, taskChannel, taskHeard, told, channel, taken>> /\ driverFrame

(* A panicked attempt counts as failed. *)
AttemptOutcome == IF pc = "panicked" THEN "failed" ELSE outcome

(* Mutant: the last handoff the policy allows is never made. *)
WantsEscalation_oneLess == AttemptOutcome \in EscalateOn /\ escalations + 1 < MaxEscalations

WantsEscalation == AttemptOutcome \in EscalateOn /\ escalations < MaxEscalations

Escalate ==
  /\ driver = "decide" /\ WantsEscalation /\ NextStronger(stock, model) # NoModel
  /\ Offer("escalated")
  /\ model' = NextStronger(stock, model)
  /\ escalations' = escalations + 1
  /\ driver' = "launch"
  /\ UNCHANGED <<stock, first, taskHeard, told, channel, taken>> /\ driverFrame

GiveUp ==
  /\ driver = "decide" /\ (~WantsEscalation \/ NextStronger(stock, model) = NoModel)
  /\ driver' = "emit"
  /\ UNCHANGED <<routeVars, escalations, taskChannel, taskHeard, told, channel, taken>> /\ driverFrame

(* emit_terminal waits for room, unless nobody is listening. *)
EmitTerminal ==
  /\ driver = "emit" /\ (TaskRoom \/ ~taskHeard)
  /\ Offer(AttemptOutcome)
  /\ driver' = "done"
  /\ UNCHANGED <<routeVars, escalations, taskHeard, told, channel, taken>> /\ driverFrame

-----------------------------------------------------------------------------
(* The environment: cancellation and the task's receiver.                  *)

CancelTask == CancelRun /\ UNCHANGED driverVars

TakeEvent ==
  /\ taskChannel # <<>>
  /\ taskChannel' = Tail(taskChannel)
  /\ told' = Taken(told, Head(taskChannel))
  /\ UNCHANGED <<runVars, driver, routeVars, escalations, taskHeard>>

LeaveTask ==
  /\ taskHeard
  /\ taskHeard' = FALSE /\ taskChannel' = <<>>
  /\ UNCHANGED <<runVars, driver, routeVars, escalations, told>>

DriverStep == Launch \/ Forward \/ Join \/ Escalate \/ GiveUp \/ EmitTerminal

TaskDone == driver = "done" /\ taskChannel = <<>> /\ UNCHANGED taskVars

ENext == DriverStep \/ Attempt \/ CancelTask \/ TakeEvent \/ LeaveTask \/ TaskDone

ESpec == EInit /\ [][ENext]_taskVars

-----------------------------------------------------------------------------
(* orchestrator.rs 137-139: consumers see exactly one terminal event for   *)
(* the whole task, after everything else, and it is the last attempt's     *)
(* outcome, however many attempts there were.                              *)
OneTerminalPerTask == SaysOnce(taskChannel, told, driver = "done", taskHeard, AttemptOutcome)

(* The tier a task is entitled to try: one up for each handoff the policy  *)
(* allows, as far as there are tiers.                                      *)
Entitled == IF first.tier + MaxEscalations < Powerful THEN first.tier + MaxEscalations ELSE Powerful

(* orchestrator.rs 133-137: a task that fails or hits a guard for good has *)
(* been tried on the strongest tier it is entitled to, unless it came to a *)
(* tier with nothing registered in it: the ladder skips none.              *)
LadderIsClimbed ==
  driver \in {"emit", "done"} /\ AttemptOutcome \in EscalateOn =>
    model.tier >= Entitled \/ InTier(stock, model.tier + 1) = {}

(* The task has ended and said so.                                         *)
TaskReported == driver = "done" /\ (taskHeard => told # <<>>)
=============================================================================
