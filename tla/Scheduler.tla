----------------------------- MODULE Scheduler ------------------------------
(***************************************************************************)
(* The native-agent scheduler (crates/runtime/src/scheduler.rs).           *)
(*                                                                         *)
(* Submitters are the callers of submit() that can run at the same time    *)
(* (one per deck connection).  A submission passes the memory watchdog,    *)
(* compares two separately loaded counters with the outstanding cap, then  *)
(* registers its token, counts itself and spawns a task.  The task waits   *)
(* for a slot of its class, runs the job unless it was cancelled by then,  *)
(* and cleans up whether the job returned or panicked.                     *)
(*                                                                         *)
(* Job ids are fresh for every submission (core/src/ids.rs generate_id).   *)
(***************************************************************************)
EXTENDS Integers, Sequences, FiniteSets

CONSTANTS
  Jobs,            \* ids of the jobs ever submitted
  ClassOf,         \* AgentJob.class of each job
  Submitters,      \* concurrent callers of submit()
  NoJob,           \* a submitter with nothing in hand
  MaxAgents, ReservedScoped, QueueCapacity,              \* SchedulerConfig
  FloorMb, HysteresisStrikes, StrikeCap, MemoryReadings  \* Watchdog

Class == {"scoped", "shared"}

ASSUME SchedulerAssumption ==
  /\ IsFiniteSet(Jobs) /\ NoJob \notin Jobs
  /\ ClassOf \in [Jobs -> Class]
  /\ IsFiniteSet(Submitters) /\ Submitters # {}
  /\ MaxAgents \in Nat \ {0}
  /\ ReservedScoped \in Nat
  /\ QueueCapacity \in Nat

SaturatingSub(a, b) == IF a >= b THEN a - b ELSE 0
AtLeastOne(n) == IF n = 0 THEN 1 ELSE n

(* Scheduler::new splits max_agents between the two classes. *)
ScopedSlots == AtLeastOne(IF ReservedScoped <= MaxAgents THEN ReservedScoped ELSE MaxAgents)
SharedSlots == AtLeastOne(SaturatingSub(MaxAgents, ScopedSlots))
Slots == [c \in Class |-> IF c = "scoped" THEN ScopedSlots ELSE SharedSlots]
MaxOutstanding == MaxAgents + QueueCapacity

VARIABLES
  phase,      \* where each job is, from "new" to "done" or "refused"
  tracked,    \* keys of the jobs map
  cancelled,  \* jobs whose CancellationToken is cancelled
  waiters,    \* per class, the semaphore's FIFO wait list
  permits,    \* per class, the semaphore's free permits
  submitted, completed, rejected,   \* the atomic counters
  subPc,      \* where each submitter is inside submit()
  subJob,     \* the job it is submitting
  loaded,     \* the value it loaded from `submitted`
  freeMb, availableMb, lowCount, refreshDue   \* MemoryWatchdog

taskVars    == <<phase, waiters, permits>>
counterVars == <<submitted, completed, rejected>>
submitVars  == <<subPc, subJob, loaded>>
watchdogVars == <<freeMb, availableMb, lowCount, refreshDue>>
vars == <<phase, tracked, cancelled, waiters, permits, submitted, completed, rejected,
          subPc, subJob, loaded, freeMb, availableMb, lowCount, refreshDue>>

Gate == INSTANCE Watchdog

Init ==
  /\ phase = [j \in Jobs |-> "new"]
  /\ tracked = {} /\ cancelled = {}
  /\ waiters = [c \in Class |-> <<>>]
  /\ permits = Slots
  /\ submitted = 0 /\ completed = 0 /\ rejected = 0
  /\ subPc = [s \in Submitters |-> "idle"]
  /\ subJob = [s \in Submitters |-> NoJob]
  /\ loaded = [s \in Submitters |-> 0]
  /\ Gate!WatchdogInit

-----------------------------------------------------------------------------
(* submit(), one action per step another thread can interleave with.       *)

At(s, pc) == subPc[s] = pc
Goto(s, pc) == subPc' = [subPc EXCEPT ![s] = pc]
To(j, ph) == phase' = [phase EXCEPT ![j] = ph]

Refuse(s, j) ==
  /\ To(j, "refused")
  /\ rejected' = rejected + 1
  /\ Goto(s, "idle")
  /\ subJob' = [subJob EXCEPT ![s] = NoJob]

(* watchdog.admit() denies: SubmitError::MemoryFloor *)
SubmitDenied(s, j) ==
  /\ At(s, "idle") /\ phase[j] = "new"
  /\ Gate!Deny
  /\ Refuse(s, j)
  /\ UNCHANGED <<tracked, cancelled, waiters, permits, submitted, completed, loaded>>

SubmitAdmitted(s, j) ==
  /\ At(s, "idle") /\ phase[j] = "new"
  /\ Gate!Admit
  /\ To(j, "submitting")
  /\ Goto(s, "load")
  /\ subJob' = [subJob EXCEPT ![s] = j]
  /\ UNCHANGED <<tracked, cancelled, waiters, permits, counterVars, loaded>>

LoadSubmitted(s) ==
  /\ At(s, "load")
  /\ loaded' = [loaded EXCEPT ![s] = submitted]
  /\ Goto(s, "check")
  /\ UNCHANGED <<taskVars, tracked, cancelled, counterVars, subJob, watchdogVars>>

(* Mutant: off by one at the cap. *)
BelowCap_inclusive(s) == SaturatingSub(loaded[s], completed) <= MaxOutstanding

(* outstanding < max_outstanding, from the two loads *)
BelowCap(s) == SaturatingSub(loaded[s], completed) < MaxOutstanding

(* SubmitError::QueueFull *)
QueueFull(s) ==
  /\ At(s, "check") /\ ~BelowCap(s)
  /\ Refuse(s, subJob[s])
  /\ UNCHANGED <<tracked, cancelled, waiters, permits, submitted, completed, loaded, watchdogVars>>

PassCap(s) ==
  /\ At(s, "check") /\ BelowCap(s)
  /\ Goto(s, "insert")
  /\ UNCHANGED <<taskVars, tracked, cancelled, counterVars, subJob, loaded, watchdogVars>>

InsertToken(s) ==
  /\ At(s, "insert")
  /\ tracked' = tracked \cup {subJob[s]}
  /\ Goto(s, "count")
  /\ UNCHANGED <<taskVars, cancelled, counterVars, subJob, loaded, watchdogVars>>

CountSubmitted(s) ==
  /\ At(s, "count")
  /\ submitted' = submitted + 1
  /\ Goto(s, "spawn")
  /\ UNCHANGED <<taskVars, tracked, cancelled, completed, rejected, subJob, loaded, watchdogVars>>

SpawnTask(s) ==
  /\ At(s, "spawn")
  /\ To(subJob[s], "spawned")
  /\ Goto(s, "idle")
  /\ subJob' = [subJob EXCEPT ![s] = NoJob]
  /\ UNCHANGED <<tracked, cancelled, waiters, permits, counterVars, loaded, watchdogVars>>

-----------------------------------------------------------------------------
(* The spawned task.                                                       *)

taskFrame == UNCHANGED <<cancelled, submitted, rejected, submitVars, watchdogVars>>

(* Mutant: both classes draw from one semaphore. *)
SemOf_common(j) == "scoped"

(* The semaphore a job draws its slot from. *)
SemOf(j) == ClassOf[j]

(* First poll of acquire_owned: join the semaphore's FIFO wait list. *)
Enqueue(j) ==
  /\ phase[j] = "spawned"
  /\ To(j, "waiting")
  /\ waiters' = [waiters EXCEPT ![SemOf(j)] = Append(@, j)]
  /\ UNCHANGED <<tracked, completed, permits>> /\ taskFrame

(* Mutant: the permit is not kept for the task. *)
Acquire_dropped(j) ==
  LET c == SemOf(j) IN
  /\ phase[j] = "waiting"
  /\ waiters[c] # <<>> /\ j = Head(waiters[c])
  /\ permits[c] > 0
  /\ waiters' = [waiters EXCEPT ![c] = Tail(@)]
  /\ To(j, "holding")
  /\ UNCHANGED <<tracked, completed, permits>> /\ taskFrame

Acquire(j) ==
  LET c == SemOf(j) IN
  /\ phase[j] = "waiting"
  /\ waiters[c] # <<>> /\ j = Head(waiters[c])
  /\ permits[c] > 0
  /\ permits' = [permits EXCEPT ![c] = @ - 1]
  /\ waiters' = [waiters EXCEPT ![c] = Tail(@)]
  /\ To(j, "holding")
  /\ UNCHANGED <<tracked, completed>> /\ taskFrame

(* Mutant: the token is dropped at the start. *)
Start_untracked(j) ==
  /\ phase[j] = "holding" /\ j \notin cancelled
  /\ tracked' = tracked \ {j}
  /\ To(j, "starting")
  /\ UNCHANGED <<completed, waiters, permits>> /\ taskFrame

(* !token.is_cancelled(): the task is going to poll the job's future *)
Start(j) ==
  /\ phase[j] = "holding" /\ j \notin cancelled
  /\ To(j, "starting")
  /\ UNCHANGED <<tracked, completed, waiters, permits>> /\ taskFrame

(* Its first poll, whatever happened to the token since it was looked at *)
PollRun(j) ==
  /\ phase[j] = "starting"
  /\ To(j, "running")
  /\ UNCHANGED <<tracked, completed, waiters, permits>> /\ taskFrame

(* Mutant: a cancelled task returns early, past its own clean-up. *)
SkipCancelled_returns(j) ==
  /\ phase[j] = "holding" /\ j \in cancelled
  /\ To(j, "counted")
  /\ UNCHANGED <<tracked, completed, waiters, permits>> /\ taskFrame

SkipCancelled(j) ==
  /\ phase[j] = "holding" /\ j \in cancelled
  /\ To(j, "ended")
  /\ UNCHANGED <<tracked, completed, waiters, permits>> /\ taskFrame

(* The future returned, or panicked inside catch_unwind: same clean-up. *)
RunEnds(j) ==
  /\ phase[j] = "running"
  /\ To(j, "ended")
  /\ UNCHANGED <<tracked, completed, waiters, permits>> /\ taskFrame

RemoveToken(j) ==
  /\ phase[j] = "ended"
  /\ tracked' = tracked \ {j}
  /\ To(j, "removed")
  /\ UNCHANGED <<completed, waiters, permits>> /\ taskFrame

CountCompleted(j) ==
  /\ phase[j] = "removed"
  /\ completed' = completed + 1
  /\ To(j, "counted")
  /\ UNCHANGED <<tracked, waiters, permits>> /\ taskFrame

(* Mutant: the permit is forgotten. *)
DropPermit_forgotten(j) ==
  /\ phase[j] = "counted"
  /\ To(j, "done")
  /\ UNCHANGED <<tracked, completed, waiters, permits>> /\ taskFrame

DropPermit(j) ==
  /\ phase[j] = "counted"
  /\ permits' = [permits EXCEPT ![SemOf(j)] = @ + 1]
  /\ To(j, "done")
  /\ UNCHANGED <<tracked, completed, waiters>> /\ taskFrame

(* Everything the task does on its own, the job's own run left out. *)
TaskStep(j) ==
  \/ Enqueue(j) \/ Acquire(j) \/ Start(j) \/ SkipCancelled(j)
  \/ PollRun(j) \/ RemoveToken(j) \/ CountCompleted(j) \/ DropPermit(j)

-----------------------------------------------------------------------------
cancelFrame ==
  UNCHANGED <<taskVars, tracked, counterVars, submitVars, watchdogVars>>

(* cancel(id) when it answers true; when it answers false nothing changes. *)
Cancel(j) ==
  /\ j \in tracked
  /\ cancelled' = cancelled \cup {j}
  /\ cancelFrame

CancelAll ==
  /\ cancelled' = cancelled \cup tracked
  /\ cancelFrame

Environment ==
  /\ Gate!IntervalElapses \/ Gate!MemoryMoves
  /\ UNCHANGED <<taskVars, tracked, cancelled, counterVars, submitVars>>

(* Every job ever submitted is over: the scheduler may rest. *)
Drained ==
  /\ \A j \in Jobs : phase[j] \in {"done", "refused"}
  /\ UNCHANGED vars

SubmitStep(s) ==
  \/ LoadSubmitted(s) \/ QueueFull(s) \/ PassCap(s)
  \/ InsertToken(s) \/ CountSubmitted(s) \/ SpawnTask(s)

Next ==
  \/ \E s \in Submitters, j \in Jobs : SubmitDenied(s, j) \/ SubmitAdmitted(s, j)
  \/ \E s \in Submitters : SubmitStep(s)
  \/ \E j \in Jobs : TaskStep(j) \/ RunEnds(j) \/ Cancel(j)
  \/ CancelAll
  \/ Environment
  \/ Drained

(* tokio polls every ready task and a caller inside submit() runs on.      *)
SchedulingFairness ==
  /\ \A s \in Submitters : WF_vars(SubmitStep(s))
  /\ \A j \in Jobs : WF_vars(TaskStep(j))

(* Runs of the given classes end: run_agent is bounded by max_turns.       *)
RunsEnd(classes) == \A j \in Jobs : ClassOf[j] \in classes => WF_vars(RunEnds(j))

SafetySpec == Init /\ [][Next]_vars

(* The scoped agents may stay in their scopes for ever. *)
Spec == SafetySpec /\ SchedulingFairness /\ RunsEnd({"shared"})

-----------------------------------------------------------------------------
Phase == {"new", "refused", "submitting", "spawned", "waiting", "holding", "starting", "running",
          "ended", "removed", "counted", "done"}
HoldingPhases == {"holding", "starting", "running", "ended", "removed", "counted"}

InPhase(ps) == {j \in Jobs : phase[j] \in ps}
Holders(c) == {j \in Jobs : ClassOf[j] = c /\ phase[j] \in HoldingPhases}
Running == InPhase({"running"})

TypeOK ==
  /\ phase \in [Jobs -> Phase]
  /\ tracked \subseteq Jobs /\ cancelled \subseteq Jobs
  /\ waiters \in [Class -> Seq(Jobs)]
  /\ permits \in [Class -> Nat]
  /\ submitted \in Nat /\ completed \in Nat /\ rejected \in Nat
  /\ subPc \in [Submitters -> {"idle", "load", "check", "insert", "count", "spawn"}]
  /\ subJob \in [Submitters -> Jobs \cup {NoJob}]
  /\ \A s \in Submitters : At(s, "idle") <=> subJob[s] = NoJob
  /\ loaded \in [Submitters -> Nat]

(* No permit is lost or minted on any path, panic and cancellation         *)
(* included: free permits and holders always add up to the class's slots.  *)
PermitsConserved ==
  \A c \in Class : permits[c] + Cardinality(Holders(c)) = Slots[c]

(* scheduler.rs 91: max_agents is "total concurrent agents (split across   *)
(* classes)".  The split of Scheduler::new honours it when both classes    *)
(* get their share of it; each class has one slot whatever the numbers.    *)
SplitFits == MaxAgents >= 2 /\ ReservedScoped < MaxAgents
RunningBound == SplitFits => Cardinality(Running) <= MaxAgents

(* The counters the cap and stats() rely on are exact: submitted minus     *)
(* completed is the number of jobs counted in and not yet counted out.     *)
Counted == InPhase({"spawned", "waiting", "holding", "starting", "running", "ended", "removed"})
             \cup {subJob[s] : s \in {t \in Submitters : At(t, "spawn")}}
AccountingExact ==
  /\ submitted - completed = Cardinality(Counted)
  /\ rejected = Cardinality(InPhase({"refused"}))

(* scheduler.rs 95: submissions queue up to queue_capacity beyond          *)
(* max_agents.  One caller at a time keeps to that; what the check-then-   *)
(* count of submit() guarantees to concurrent callers is an excess of less *)
(* than one job each.                                                      *)
OutstandingBound ==
  submitted - completed <= MaxOutstanding + Cardinality(Submitters) - 1

(* A job can be cancelled from before its task exists until it has ended:  *)
(* cancel() finds its token through every phase in between.                *)
CancelReachesLiveJobs ==
  InPhase({"spawned", "waiting", "holding", "starting", "running", "ended"}) \subseteq tracked

(* scheduler.rs 49-50: neither class starves the other.  Shared jobs       *)
(* finish even when the scoped agents never do.                            *)
SharedNotStarved ==
  \A j \in Jobs : ClassOf[j] = "shared" => (phase[j] = "spawned" ~> phase[j] = "done")

-----------------------------------------------------------------------------
(* The inductive invariants the proofs rest on.                            *)

(* Each job in submit() is in the hands of exactly one submitter.          *)
SubmitterInv ==
  /\ \A s \in Submitters : ~At(s, "idle") => phase[subJob[s]] = "submitting"
  /\ \A s, t \in Submitters : subJob[s] = subJob[t] /\ subJob[s] # NoJob => s = t

(* A token is in the map before the task that will remove it exists.       *)
TrackedInv ==
  /\ CancelReachesLiveJobs
  /\ \A s \in Submitters : At(s, "count") \/ At(s, "spawn") => subJob[s] \in tracked

(* The submitters that pass the cap, now or already, if `completed` has    *)
(* reached c by the time they load it.                                     *)
Committed(c) ==
  {s \in Submitters : \/ At(s, "insert") \/ At(s, "count")
                      \/ At(s, "check") /\ loaded[s] - c < MaxOutstanding}

(* For every later value c of `completed`: the work then outstanding plus  *)
(* the submissions then bound to pass keeps to the bound.                  *)
OvershootInv(C) ==
  \A c \in C : completed <= c =>
    submitted - c + Cardinality(Committed(c)) <= MaxOutstanding + Cardinality(Submitters) - 1

-----------------------------------------------------------------------------
(* The scheduler implements the pool: a job is pending from the moment its *)
(* task exists, active from the moment the task found the token uncancelled *)
(* until the future is over, and over once it ended.                       *)
stageOf == [j \in Jobs |->
  CASE phase[j] \in {"new", "refused", "submitting"} -> "absent"
    [] phase[j] \in {"spawned", "waiting", "holding"} -> "pending"
    [] phase[j] \in {"starting", "running"} -> "active"
    [] OTHER -> "over"]

Pool == INSTANCE AgentPool WITH stage <- stageOf, stopped <- cancelled

(* Every behaviour of the scheduler is one of the abstract pool ...        *)
ImplementsPool == Pool!SafeSpec

(* ... in which every accepted job settles, if the scoped ones end too.    *)
EveryJobSettles == RunsEnd({"scoped"}) => Pool!EveryJobSettles
=============================================================================
