# Coding Monkey in TLA+

A model of the parts of Coding Monkey where ordering, concurrency, limits and
failure decide whether the program is right: who may run, how calls to a model
provider are paced, retried and streamed, how an agent run and an escalating
task end, what the deck leaves behind when a browser goes away and what its
page shows when it comes back, what agents and sessions do to files they share,
and what the pipelines that ship, audit and document a repository let through.
The specifications are translated from the Rust source under `src/crates/`; TLC
checks them on small instances, and TLAPS proves every safety property
that the passing runs check for all of them.

Paths below are relative to `src/crates/`. In `PROJECT.json`, `map` ties every
definition to its source lines, `hazards` lists what can go wrong and the
properties that would notice, and `mutants` gives, for every checked property,
a plausible bug that makes it fail. A mutated definition stands before the one
it belongs to, named after it and the bug.

## 1. The system

### Components, what they keep, what they do

| Component | State it keeps | Operations | What makes it right |
|---|---|---|---|
| Memory watchdog (`core/src/watchdog.rs`) | last reading, strike counter, refresh time | `admit` | closed exactly after the configured run of low samples |
| Token bucket (`core/src/ratelimit.rs`) | tokens, last refill | `consume` (refill is lazy) | never more than burst plus rate times elapsed time |
| Model registry, routing table (`core/src/models.rs`, `types.rs`) | a read-only map of models | `cheapest_in_tier`, selector, `tier_for_task` | cheapest model of the tier, never a weaker tier for a harder task, stays with the provider |
| Scheduler (`runtime/src/scheduler.rs`) | a job-to-token map, two semaphores, three counters | `submit`, the spawned task, `cancel`, `cancel_all`, `stats` | slots neither lost nor exceeded, exact counters, cancel always reaches a live job, no class starves the other |
| Provider limiter (`runtime/src/limiter.rs`) | per provider: pause window, failure streak, bucket, in-flight semaphore | `acquire`, `note_success`, `note_failure`, `run_with_retry` | no slot leaks, pacing across retries, a pause is respected, every call comes back |
| Agent loop (`runtime/src/agent.rs`, `event.rs`, `state.rs`) | transcript, turn counter, repeat counts, a bounded event channel | `run_agent`, `emit`, `emit_terminal` | every tool call is answered before the next request, the terminal event is never dropped, the run ends |
| Orchestrator (`runtime/src/orchestrator.rs`) | the ladder position, a private channel per attempt | `choose_model`, `next_stronger`, `drive` | one terminal event per task, the ladder is climbed as far as it goes, few requests after a cancel |
| LLM client (`runtime/src/llm.rs`) | a line buffer and an accumulator within one stream | `pick`, `chat`, `chat_stream` | stays with the provider; the answer is what was sent, however it was cut |
| Tools and file guard (`runtime/src/tools/`, `fs_guard.rs`) | a set of locked paths per guard; the files | `read_file`, `write_file`, `run_command`, ... | no torn file, a failed write leaves the file as it was |
| Deck native agents (`deck/src/server.rs`) | `native_agents`, one `owned_agents` per connection, one forwarder per agent | `agent.spawn`, `agent.cancel`, the forwarder, end of connection | nothing left running or counted after a connection closes, cap overshoot bounded, the clean-up ends |
| Deck terminals (`deck/src/server.rs`) | `terminals`, one `owned_terms` per connection | `term.spawn`, `term.kill`, end of connection | no process nobody can kill |
| Deck session (`deck/src/server.rs`, `schemas.rs`) | authenticated flag, deadline, rate bucket, outbound queue | upgrade, first message, every frame, end | no command before authentication; answers in order |
| Tentacle store (`deck/src/tentacles.rs`) | directories with `CONTEXT.md` and `todo.md` | `create`, `remove`, `toggle_todo`, `write_context` | no lost toggle, no half-written file |
| Audit log (`agents/src/audit.rs`) | the file and `last_hash` | `open`, `log`, `verify_audit_log` | what verifies is evidence; the chain resumes |
| PTY spawn (`agents/src/spawn.rs`) | child process, reader thread, one mutex | spawn, write, resize, wait, kill | the output arrives, exit is reported |
| Ship gauntlet (`skills/src/skills/ship.rs`, `git.rs`) | the git tree, the version files | the stages in order | nothing is pushed past a gate; success is success |
| Review, investigate, cso (`skills/src/skills/`) | findings | phases with early exits | the severity gate; a verdict somebody gave |
| Engulf (`engulf/src/`) | scan result, audit, runbook, the vault on disk | the phases asked for, in order | what it says it wrote is there and tells of this run |
| Pentest agent (`pentest-agent/src/`) | findings; the pre-push hook | probe, scan, gate; install, uninstall | weaker never passes where stronger was stopped; the user's hook is kept |
| CLI (`cli/src/`) | `.monkey/context` of a project | `init`, `import`, `setup`, `chat`, hand-over | the user's texts are kept |
| Web client (`web/src/ws.rs`, `app.rs`) | socket, timers, the views | connect, close, send, select, edit, save | one way back; views that settle on what is stored |

### How they interact

```
 page --ws--> deck session --submit/cancel--> Scheduler --polls--> run_agent / drive
   ^              |   ^                           |                  |        |
   +--- frames ---+   +-- forwarder <-- channel <-+------------------+ events |
                  |                           Watchdog         LimitedBackend |
                  +-- PTY terminals            (admit)     = ProviderLimiter  |
                  +-- tentacle store                          + chat_stream   |
                  +-- audit log                                     tools <---+

 monkey ship --> review, cso audit, pentest (gates) --> bump --> git push --> pre-push hook
 monkey engulf --> scan --> audit --> runbook --> vault
```

* A connection's handler calls `Scheduler::submit` and `cancel` directly, and
  shares `native_agents` and `terminals` with the other connections behind
  mutexes that are held for one step at a time. The tentacle store has no lock.
* `submit` asks the watchdog, tests the counters, and spawns a tokio task that
  waits for a slot of its class and polls the job's future inside
  `catch_unwind`.
* The future is `run_agent` or the orchestrator's `drive`, which starts
  `run_agent` as a task of its own with a child cancellation token and a
  private channel. Both send events on a bounded channel to the forwarder.
* `run_agent` calls the model through `LimitedBackend`, which takes the
  provider's gate (shared by all agents on that provider) for each attempt,
  and makes a file guard of its own for its tools.
* `ship` calls the skills' gates and the pentest runner in process, then git,
  which calls the hook, which calls the `monkey` command again.

### What is hard here

Locks and atomics are taken one at a time, so nearly every operation is a
check followed, in a later step, by an act: the cap in `submit` (two loads, a
map insert, an increment), the caps of `agent.spawn` and `term.spawn`, the
limiter's pause test before the wait for a slot, the store's read, edit and
write of a file. Tasks are cancelled by a token that is looked at in some
places and not in others, panics are caught in two places, channels are bounded
and written with `try_send` except for the terminal event, and receivers go
away at any moment. Files are written in two steps a reader or a crash comes
between, any of which may fail, and gates take minutes in which the repository
goes on changing, up to the branch that is checked out. The
hazards in `PROJECT.json` are these, each at its line.

## 2. The modules

| Module | Models | State and actions |
|---|---|---|
| `Watchdog` | `MemoryWatchdog` | `lowCount`, the cached reading and whether it is due for a refresh; `Admit`, `Deny`, and the memory and the clock as environment |
| `Hysteresis` | | extends `Watchdog` with a memory of its last samples, to say without the counter what the counter is for |
| `AgentPool` | what the scheduler promises | per job a stage (absent, pending, active, over), the stopped jobs; a job becomes active only when it is not stopped and its class has a slot |
| `Scheduler` | `Scheduler::submit`, its task, `cancel`, `cancel_all` | composes `Watchdog` (instance `Gate`); one action per step another thread can interleave with: load, test, insert, count, spawn; enqueue, acquire, look at the token (start or skip), first poll, end, remove, count, drop |
| `Limiter` | one provider's gate with the two retry loops | callers through pause, bucket and FIFO semaphore, a clock of ticks, backoff as the span the jitter chooses from |
| `ModelChoice` | the pure routing functions | no state: tier listing, the two tie-breaks, `ChooseModel`, `NextStronger`, the selector, `pick` |
| `Routing` | a program with some registry and some default | extends `ModelChoice`: any nonempty part of a catalogue, any default, neither of which changes |
| `Stream` | `chat_stream`, its line buffer and accumulator, under `LimitedBackend`'s retry | bytes that arrive in chunks of any size, the kept partial line, text and calls so far, what the listener heard |
| `AgentRun` | `run_agent` | the loop's program counter, with the wait for the limiter and each attempt of a call as steps, unanswered calls, repeat counts, the bounded channel and its receiver |
| `Escalation` | `drive` and `emit_terminal` | extends `AgentRun` (the attempt) and `ModelChoice` (the ladder): driver, private channel, the task's channel |
| `AtomicFile` | what `write_file` promises | the text of a file, and the writes that are undecided: each replaces it at once or gives up |
| `FileTools` | `write_file`, `read_file`, `run_command`, `FsGuard`'s locks | inodes behind the path and the temporary name, what each agent has open, one guard for each agent, the process of a command and those it starts; crashes |
| `DeckAgents` | `agent.spawn`, `agent.cancel`, `spawn_event_forwarder`, the end of `handle_ws` | over `AgentPool` as the scheduler: connections, what each owns, `native_agents`, forwarders |
| `DeckTerminals` | `term.spawn`, `term.kill`, the end of `handle_ws` | connections (`client`), `terminals`, the live processes |
| `Tentacles` | `TentacleStore` with several sessions and crashes | the directory, the two files (missing, truncated, or with a content), where each session is between its file operations, each of which may fail |
| `AuditLog` | `AuditLogger`, `verify_audit_log` | the lines of the file, each logger's `last_hash`; text and line break are two writes |
| `Session` | `ws_upgrade`, `handle_ws` and the tentacle messages of `dispatch` | the connection, authentication, expiry, tokens, frames in both directions, what is stored, and the sessions of lost connections that still read |
| `DeckUi` | `DeckClient` and the page's views | extends `Session`: sockets and timers, the views, the user, faults of the network and restarts |
| `Chat` | `monkey chat` over `spawn_agent` | the command, the reader thread, their mutex, the child and the pseudo terminal between them |
| `Gates` | the skills' and the runner's gates | no state: severities, thresholds, `Review`, `Cso`, `Investigate`, `Pentest` as functions of what the models and engines answer |
| `Probe` | the checks of both pentest engines | extends `Gates`: a site or a file that gets weaker step by step |
| `PushHook` | install, uninstall and run of the hook | extends `Gates`: the hook and its backup, an install or uninstall in steps, between any two of which the user writes and deletes hooks, pushes |
| `Ship` | the stages of `ship` up to the push | extends `Gates`: the repository and what is checked out, the developer who stages, commits and checks out at any time, the run's stage, its branch and what each gate passed |
| `Scanner` | the scan and what it recognises | no state: files of a catalogue, and what `scan` says of a set of them |
| `Engulf` | `run_engulf`, audit, runbook, vault | extends `Scanner`, `Gates`: the phases of the list asked for, what is on disk, whole or truncated, from which run |
| `Setup` | `init`, `import`, `setup` | the context files, the plan of the command under way, the user's edits |
| `SchedulerProofs`, `CallProofs`, `AgentRunProofs`, `FileToolsProofs`, `DeckProofs`, `DeckUiProofs`, `GatesProofs`, `PipelinesProofs` | | theorems (section 4) |
| `MC*` | | instances for TLC |

`AgentPool` is used twice: `Scheduler` is shown to implement it (the refinement
maps a job's phase to a stage and the cancelled tokens to the stopped jobs),
and `DeckAgents` is built on it in place of the scheduler. What the deck relies
on, that a queued job which was cancelled is discarded without running and that
every other accepted job settles, is therefore what the scheduler was shown to
provide. `FileTools` is shown to implement `AtomicFile` by reading the text
through the path's inode.

Abstractions that matter. A model's answer is a sequence of tool calls, each
with a *signature* (the name and arguments the repeat guard compares) or
`"fresh"` for one never seen before, or `"finish"`; in `Stream`, which is about
the text, a fragment is the number of the line that brought it. An event is its
kind. Time exists only in `Limiter` and `Session`, as ticks and deadlines that
pass. A pool job in `Scheduler` has an opaque run; its inside is `AgentRun`. In
`DeckAgents` an agent's events are reduced to the terminal one, since the
others can only be forwarded or lose the connection. A finding is its severity
(with its kind and path where engulf's notes tell them apart), a file what the
rules distinguish in it, a note the record of the facts it shows, a hash the
number of the entry it was made from.

## 3. The runs

Components that share no state are checked in one run: a variable `which`,
chosen at the start, says which of them moves, and the others stay where they
start. The states explored are then the sum of theirs and not the product, and
nothing is lost, since no property relates two of them. `MCRuntime`, `MCDeck`
and `MCPipelines` are built this way; they extend the components' modules, so
that what they check is the very definition the theorems are about. "Violation"
runs show a place where the code does other than what its own documentation
says; they are in section 6.

| Run | Bounds | What it shows |
|---|---|---|
| `scheduler_pool`: one submitter | 3 jobs (1 scoped, 2 shared), 1 slot per class, a cap of 2, memory moving over the floor | The scheduler implements `AgentPool`; slots are conserved; `cancel` finds every job that may still run; shared jobs finish although the scoped job may run for ever; every accepted job settles if scoped runs end. Two shared jobs on one slot make one wait, and a third job is refused while two are outstanding. |
| `scheduler_pool`: two | a fourth job that runs first and takes one place below the cap, 2 submitters with the others | Two threads inside `submit` at once with room for one: the counters are exact at every step, and the outstanding work exceeds its cap by less than the number of submitters. Two are the fewest that overlap. |
| `runtime`: limiter | 3 callers, 1 call each, 2 in flight, burst 2, 1 token per tick, 1 retry, 4 ticks counted | No slot leaks, the calls issued stay within burst + rate x time, retries included, a pause lets out only those already past the gate, each once, and every call returns. A third caller queues on both the bucket and the semaphore. |
| `runtime`: stream | lines of 3 bytes, chunks of 1 to 5, four scripts, 2 requests | The answer is what was sent however it was cut into chunks, and the last thing the listener heard, through a break-off and a retry. A chunk can end in a character, a line, at its break and beyond the next; the scripts have alternating calls, a line that cannot be decoded, and no end. |
| `runtime`: run and task | 2 turns, 2 calls per answer, repeat limit 1, 1 retry of a call, 4 models in 3 tiers or 2 around an empty tier, 2 escalations, every starting tier, channels of 1 | Every call answered before the next request, the terminal event never dropped; one terminal event per task whatever the attempts sent; a task that fails for good has climbed as far as it may; after a cancel only the attempts left of one call are sent; every task ends and reports unless its listener left. |
| `runtime`: watchdog, choice | 3 strikes, saturation at 5, floor 2, readings 0..4; every registry of a six-model catalogue, every default | The gate is closed exactly while the last three samples were low. Harder tasks never get a weaker tier, and the provider asked for is not passed over. Readings on, below and above the floor and a saturation past the strikes are all the comparisons tell apart; the registries include every empty-tier case. |
| `deck` | 2 connections; 2 agents on 1 slot, cap 1; 4 terminals, cap 2; 2 sessions and a todo list of one line; 2 loggers, 4 entries | A closed connection leaves no agent running unstopped, none listed, and no process; listed agents and spawns under way stay within the cap plus one for each further connection; the clean-up never waits for ever. A truncated file is one being written, or left by a crash or a failed write. What verifies in the audit log is what was acknowledged, and a log nobody interrupted resumes over restarts. |
| `deck_page` | 2 tentacles, a burst of 1, 2 frames under way, 2 changes of the user, 1 fault, 1 lost connection whose session reads on | One socket or one timer at any time; a view at rest has what is stored; the page gets ready again. The fault is a lost connection, a restart with another token, an expiry, a late authentication or a timer that fails, the bucket runs dry, and any write may fail. Of a lost connection a prefix of what was under way is still read, next to the new session. |
| `pipelines`: ship, hook | 2 branches, 2 commits, 1 checkout, 2 runs from seven sets of options; 3 hooks of the user's | What gets to origin past a gate, and when success is success, with staging and commits between any two stages and a checkout between some two. Where the user's newest hook is, whenever she writes and deletes. A second run sees what a failed one left; a checkout goes to the base or from it, before, between or during the runs. |
| `pipelines`: pentest | every source file; every site that is weakened in at most 8 steps | A weakened subject is never let through where it was stopped; the cso audit stops at least as much; investigate reports a verdict some phase gave. The theorem has no bound on the steps; eight lose all that two checks look at. |
| `pipelines`: engulf, set-up | 4 trees, 4 lists of phases (all, notes before what they show, a scan and notes twice), 2 runs, notes with room for 2; 3 prompts for 2 files | What a run says it wrote is on disk, whole, and the newest the list allows; a committed `.env` never passes; templates fill gaps only, and the user's text gives way to a forced import only. |
| `pipelines`: files | 2 agents with a guard each, 4 inodes | `write_file` implements `AtomicFile` as long as no two writes of the path meet, and again after those that met are over. Four inodes are the target, the temporary file and one open per agent. |
| violations | the smallest that show them | `limiter_pause`, `agent_run_cut`, `deck_agents_queued`, `store_toggles`, `files_shared`, `chat_output`, `push_hook` |

The passing runs take between half a minute and three and a half minutes
with two workers. Deadlock is checked except in `pipelines`, where a ship run,
an engulf run and the user's hooks come to an end that is not marked, and in
`store_toggles` and `chat_output`, where a session may rest and the command
ends. The other specifications have an explicit step for the state in which
everything is over (`Drained`, `Rest`, `TaskDone`), so any other state without a
successor would be reported; in `deck` the store and the log may also be left
alone for good.

### Fairness

Weak fairness only, and only of what the program does on its own:

* tokio polls a task that is ready, so every step of a submitter, of a
  spawned task, of the driver, of a forwarder and of a closing handler that
  stays possible is taken;
* a model call ends: the HTTP client has a timeout (`runtime/src/llm.rs`,
  `with_registry`), and a tool call ends: `run_command` gives up after
  a time limit, the other tools do not wait. Hence `ChatEnds`, `ToolEnds`;
* a run ends because `max_turns` bounds it, and this is assumed of shared jobs
  by `Scheduler`. It is deliberately *not* assumed of scoped jobs where the
  property is that they do not starve the others;
* the clock ticks, the interval between memory samples elapses, and somebody
  asks the watchdog again (it samples only when asked);
* the page's timers and callbacks fire, the server runs, and a frame that is
  not lost arrives (`DeckUi`). The number of faults is bounded, and
  `ReadyAgain` claims nothing once the token is stale or the session expired;
* the operating system runs the threads and the child of `monkey chat`.

Nothing is assumed of clients: no fairness on submitting, cancelling,
disconnecting, on a socket failing or on memory recovering.

## 4. What is proved

For every value of the constants that satisfies the modules' assumptions. These
are named in each module and evaluated by the runs:

* sets of jobs, submitters, connections, callers, agents and files are finite,
  limits are positive where the code makes them so (`.max(1)`, a capacity of a
  channel), and constants that stand for different things are different;
* `WatchdogAssumption`: the counter saturates no lower than the strikes that
  close the gate, as 2^32 - 1 does; `IsRegistry`: ids and costs are numbers and
  no two registered models share an id, as in a map; `LogAssumption`: entries
  are bounded by a number;
* `FileToolsAssumption`: there are more inodes than agents and the target, and
  an empty or mixed text is told from a whole one;
* `ShipAssumption`: a run is asked for gates there are, and the base is a
  branch. `EngulfAssumption`: a list of phases has phases in it; it may be in
  any order, with repeats, since `run_engulf` takes the list as it is given
  (`engulf/src/lib.rs` 122-130);
* `SetupAssumption`: `MAPPINGS` names no prompt file twice;
* `StreamAssumption`: a line is longer than a line break and a wide character,
  a provider sends lines of the kinds there are, and the slots of a call's
  fragments are counted from 1 (the code's from 0).

Three theorems take one more hypothesis, named where they are proved: writes of
a path that never meet (`[](shared = {})`, in `ReadersSeeWholeTexts`), a session
or a caller that is alone (`OneSession`, `OneCaller`). They say under which condition the documentation's
sentence is true that a violation run shows to be false without it.

An invariant a run checks is seldom inductive. For each theorem, then, the
strengthening, and why it is needed.

`SchedulerProofs`:

* `TypeCorrect`: `TypeOK`.
* `CancelAlwaysReaches`: a job that may still run is in the token map. Not
  inductive alone: the task is created after the token is inserted, so the
  invariant says where each submitter stands (`SubmitterInv`: a job in
  `submit` is in one submitter's hands and its phase is "submitting";
  `TrackedInv`: past the insert, that job is in the map).
* `PermitsConservation`: free permits plus holders are the slots of the class.
  Inductive as it stands with the type invariant; each step moves at most one
  job in or out of the holders, and changes the permit of that job's class.
* `RunningNeverExceedsMaxAgents`: from conservation and the arithmetic of the
  split, when `max_agents` is at least 2 and the reservation leaves something.
* `OutstandingNeverFarAboveCap`: `submit` loads `submitted` and then
  `completed`, so what a submitter will decide depends on how far `completed`
  will have come when it loads it. The inductive invariant (`OvershootInv`)
  speaks of every such later value `c`: the work outstanding at `c` plus the
  submitters that pass the cap if `completed` is `c` keep to the bound.
* `CountersAreExact`: `AccountingExact` with `SubmitterInv`. Every step counts
  no job in or out, and then leaves the counters alone, or counts one in or
  out and moves one counter by one (`CountersFollow`).
* `SchedulerImplementsPool`: the initial state and every step of the scheduler
  map to the pool's initial state and to a step or a stutter of the pool.
  Needs `PermitsConserved`, for a job becomes active only in a free slot.

`CallProofs`:

* `SlotsNeverLeak`: permits plus holders are `max_in_flight`; a step moves one
  caller in or out of the holders and one permit the other way.
* `CallsArePaced`: `Budget` is inductive: a caller's token goes from the bucket
  to its place in the queue for slots and from there into the calls issued,
  each attempt of a call counting as one, and a tick adds no more than the
  rate. Nothing is claimed past the horizon where ticks are no longer counted.
* `OneStragglerEach`: who got a call out in the present pause is not past the
  gate again before it ends (`StragglersWait`), because retries and returns
  lead to the gate, and the gate, while there is a pause, to sleep.
* `AloneNoCallInPause`: with one caller on the provider the gate does hold
  (`GateHolds`: who is past it is so outside of a pause), since nobody else can
  open a pause behind it. So it takes two for the run `limiter_pause`.
* `GateFollowsLowRun`: the counter is the length of the run of low samples
  that ends with the last one, as far back as they are remembered: the samples
  it covers are low, and the one before them is not (`StrikesInv`).
* `AnswerIsTheOneSent`: `StreamInv` says what the client holds at every byte,
  wherever the chunks end: while it reads, text and calls are those of the
  lines that arrived in full, none of which ended the answer, what it kept is
  the beginning of the next line, and the lines with a damaged character are
  those whose first byte ended a chunk. `PushGathers` is one line, `ByteWalks`
  one byte, `ChunkIs` says what a chunk is by quotient and remainder of its
  bytes' numbers. The walk over a chunk is a recursive function, so both its
  equation and the induction over the chunk have to be had without the
  library's theorems: by the least place at which they would fail
  (`InductionOverSet`, `WalkIs`). Of failed answers nothing is claimed.

`AgentRunProofs`:

* `CallsAnsweredBeforeChat`: the calls still to be dealt with are those that
  have no result (`TranscriptInv`), so when none is left a request may go out;
  results that stand for a panic, an unknown tool or the repeat guard count.
* `TerminalIsDelivered`: `TerminalNeverDropped` says of the queue and of what
  the receiver took that the terminal event is in one of them, once, last and
  with the run's outcome, as soon as the run has ended, and in neither before.
  It is inductive with the fact that a run which is reporting has an outcome.
  Progress that finds no room must not take its place, and what is received
  must leave it where it was (`SayLast`, `TakeKeeps`).
* `OneTerminalForEachTask`: nothing terminal is on the task's channel before
  the driver is done, because what it forwards is filtered and what it emits
  comes last; and a joined attempt has an outcome and is over (`JoinedInv`).
* `LateRequestsAreBounded`: the token is looked at once a turn, so requests go
  out after it was cancelled; `LateInv` says that they are attempts of the one
  chat call that was going on: as many as failed, and the one under way.
  Neither a new turn nor a new attempt on a stronger model comes after it,
  because each begins with a look at the token.
* `TheLadderIsClimbed`: `LadderInv` says that the tier of the present model is
  that of the first plus the handoffs, so a driver that gives up on a task
  worth a handoff has used up what the policy allows, or is at the top, or
  below a tier that is not stocked. It needs that a nonempty tier has a
  cheapest model (`CheapestIsOne`), which is an induction over costs made with
  least elements, and that the model is of that tier.
* `RoutingIsHonoured`: that the table of initial choices is monotone in the
  tier, and falls to the lowest from the highest only when there is no other,
  by cases on the three tiers and on where the choice comes from, the default
  or the ladder; and that `pick` answers, with a model of the provider asked
  for if it has one.

`FileToolsProofs`:

* `WriteFileIsAtomic`: each agent has a guard of its own, as in the code, so
  writes of the path may meet. `shared` remembers those that did, until they
  are over, and every step of `FileTools` while it is empty is a step or a
  stutter of `AtomicFile`. The invariant (`WriterInv`): while none have met
  there is one writer at most; from the moment it opened the temporary file
  that name stands for the inode it has open, which is not the target's, and
  once filled the inode holds its text. It must hold again after writes that
  met, whatever temporary file they left: the next writer truncates it, and it
  is never the inode of the path. There is always an inode to open, since
  there are more than the target and one for each agent (`FreeInode`, by
  counting). The run `files_shared` shows what happens when writes do meet.
* `ReadersSeeWholeTexts`: that the path goes from one whole text to the next
  does not yet say what a reader gets, who keeps the inode it opened while the
  path goes elsewhere. `ReaderInv`: no writer opens, fills or truncates the
  inode of the path or one that a reader has open. Here the writes must never
  have met, since a torn text they left would stay until the next write.

`DeckProofs`:

* `CapOvershootBounded`: `CapInv` counts the listed agents together with the
  connections past the cap's test. Passing the test adds a connection while
  the list is below the cap; listing moves one from the second group to the
  first.
* `NoAgentOrphaned` and `ClosingFreesCapacity`: `OwnershipInv` says that
  every agent spawned is in the owned set of its connection or in its hand,
  and that each stage of the clean-up has done its part for all of them. The
  clean-up works on the owned set, so ownership is what makes it complete;
  the conjunct about the hand is needed since an agent runs, and can end,
  before it is listed and owned.
* `NoTerminalOrphaned`, from `TermOwnedInv`: a connection owns exactly what it
  spawned, between owning a terminal and listing it the connection does
  nothing else, so when the clean-up begins all it owns is listed and its
  kills reach it.
* `TornFilesAreInProgress`: `TornIsInProgress` says that a truncated file has
  a session filling it whose handle still belongs to the directory, or that a
  crash or a write that failed after truncating left it and nobody opened it
  since (`leftTorn`). The difficult step
  is the fill by one of two sessions that truncated the same file: what it
  leaves is a text, so nothing is claimed of the other. A session never writes
  back a truncation it read, since it finds no check box in it.
* `AloneEveryToggleCounts`: for a session that is alone on the deck, what it is
  about to write back is the file with the one box flipped (`AloneInv`), so
  each toggle counts, crashes or not.
* `TheLogIsEvidence`: two invariants. `WholeInv` holds as long as the log can
  be read: at most one entry is being written, on the last line, what was
  acknowledged is on lines before it, and both are in the order the entries
  were made, whence each is there once. A torn or doubled line makes the log
  unreadable for good, and nothing is claimed of it. `CleanInv` holds while
  there were no faults: one logger, every line chained to the one before, the
  logger's hash the last line's. It is what lets a log resume.

`DeckUiProofs`:

* `ExactlyOneWayBack`: the count of sockets and timers is inductive with one
  fact: an open connection is the one socket there is (`WayBackInv`), so what
  closes it takes that socket away before a timer is set.
* `ViewSettles`: a property of rest, so the invariant must say what every
  other state is on its way to. `SettlingInv`: of the todo, and of the text,
  a request is under way to the server; or an answer is under way to the page
  and the *last* one of them holds what is stored; or none is and the page
  shows it; or a tentacle comes that the page will select instead, and ask
  for; or it was changed since without an answer that says so, by a session of
  a connection that was lost or by a write that failed (`untold`). The last
  answer is what counts, since two clicks may cross two
  answers. It needs that requests are answered at all, hence `KnownInv`: the
  page selects only what is stored, and the token goes before everything else
  it sends on a connection, so no request is dropped for want of it.

`GatesProofs`:

* `VerdictsAlwaysStand`: by cases on the severities, which are ordered by rank
  (`GateStopsCritical`, `StopsIfAsBad`).
* `WeakerIsStopped`: a subject is weakened in one feature at a time, and then
  for each finding there was one at least as bad is there (`AsBad`), for every
  check of both engines. A site whose own URL goes to plain HTTP loses some
  checks, but that is itself a finding as bad as those they would make
  (`PlainHttpIsAsBad`). One that only redirects there loses them for nothing,
  which the property excepts (`LeavesHttps`).

`PipelinesProofs`:

* `SuccessMeansDone` and `PushesAreGated`: `ShipInv` says of each stage that,
  as long as the developer has not checked out another branch, the gates
  before it, if they were asked for, passed every commit on the branch the run
  began on that was neither made nor staged meanwhile. That what is staged was
  staged meanwhile is part of it, for the run begins on a clean tree and its
  own commit of the version takes along what is staged.
* `NewestHookIsKept`: three steps could lose the newest hook: the rename over
  an older backup, the truncation and the removal. `HookInv` says what is in
  the hook's place at each step of an install or uninstall, unless the user
  wrote there since it looked: what is renamed is then the newest hook or the
  empty file of an install that was cut short, and what is truncated or
  removed none of hers. The two excuses the property has are these (`excuse`),
  and each ends with the next hook she writes.
* `WhatIsWrittenIsCurrent`: a text that is written is current until its source
  is done again, and from then on stale until it is written again
  (`EngulfInv`, `Stale`). A list may have a phase in any place and more than
  once, so the invariant counts the phases done (`InOrder`), and at the end
  what is stale is what the list has outdated (`Outdated`).
* `CommittedEnvIsBlocked`: the audit a run has done is one of the repository
  as it is, in which a `.env` is counted as critical whatever else there is
  (`AuditInv`).
* `GapsAreFilled`: `PlanInv` says of each item of a command's plan that an
  import which comes first for its file is earlier in the plan, or was done,
  or was passed over because the file has a text. While a file is open nothing
  comes first for it.

What is only model-checked, and why:

* liveness, which these back ends do not establish under fairness:
  `SharedNotStarved`, `EveryJobSettles`, `EverythingReturns`, `CleanupEnds`,
  `ReadyAgain`. The refinements state no fairness of `AgentPool` and
  `AtomicFile`, so they are proved whole;
* that the code does other than its documentation says (section 6), which is a
  matter of one behaviour.

## 5. Not modelled

* No state and no order of events: argument parsing and hand-over (the rest of
  `cli`), rendering and terminal tabs (`web`), static assets, bind and banner
  (`deck`), text assembly under a size cap, environment probes and redaction
  (`agents/src/context.rs`, `doctor.rs`, `redact.rs`), the concurrency budget
  (computed once, a constant of `Scheduler`), names and ids (`core`).
* Text: prompts, wording, Markdown, regular expressions. `Probe`, `Scanner`
  and `Engulf` take from them what the rules and the notes tell apart. Git
  history and schemas in the scan, and engulf's own model client, are left out.
* Operations of modelled components that change no modelled state:
  `Scheduler::stats`, `list_dir` and `search`, `term.write` and `term.resize`,
  messages that only answer; the resolution of paths under the root; loading a
  registry from a file; the optional pull request at the end of `ship`.
* Deployment files.

## 6. Where the code and its documentation differ

Found by a run, each with the line quoted in `PROJECT.json`:

* `limiter_pause`: a call goes out inside a pause that opened while it waited
  for its slot; `acquire` does not look at the pause again. What does hold is
  `OneStragglerPerPause`: at most one such call per agent and pause, and none
  for an agent that is alone on its provider (`AloneNoCallInPause`).
* `agent_run_cut`: a run cancelled while its last answer streams reports
  *finished* with the partial text, since the client returns a broken-off
  stream as a success.
* `deck_agents_queued`: an agent cancelled while queued sends no terminal
  event, so its id stays in `native_agents`, and counts against the cap, until
  its connection closes. `ClosedFreesCapacity` is what limits the damage.
* `store_toggles`: of two toggles that overlap one is lost, and files are
  written in place. `TornIsInProgress` is what holds, and a session
  that is alone loses no toggle (`AloneEveryToggleCounts`).
* `files_shared`: each run has a guard of its own, so two agents of one
  directory share a temporary file without a lock, and a reader can see an
  empty or mixed text. As long as no two writes of the path meet `write_file`
  is atomic and readers see whole texts (`WriteFileIsAtomic`,
  `ReadersSeeWholeTexts`).
* `chat_output`: `monkey chat` exits when the agent does, whatever is still to
  be printed, and prints nothing when it is first at the mutex; what the user
  types is not forwarded at all.
* `push_hook`: the installed hook runs a command that is told neither a
  directory nor a target and so fails: it refuses every push, and does not look
  at `MONKEY_PENTEST_SKIP`.

Seen while modelling, and modelled as the code does it:

* the caps on outstanding work (`runtime/src/scheduler.rs` 162-177), native
  agents (`deck/src/server.rs` 846, 898) and terminals (746, 816) are tested in
  one step and counted in another; concurrent callers exceed each by less than
  one apiece (`OutstandingBound`, `CapInv`);
* `max_agents = 1` gives each class a slot, so two jobs run
  (`scheduler.rs` 142-143; hence `SplitFits` in `RunningBound`);
* a later failure with a smaller jitter shortens the pause an earlier one set
  (`limiter.rs` 169);
* every event except the terminal one is sent with `try_send` and may be
  lost, where the event module speaks of deltas only (`agent.rs` 348,
  `event.rs` 9), and the usage event is per turn (`agent.rs` 228);
* a character that two chunks share is replaced by the mark for a bad one
  (`llm.rs` 249), a stream without `[DONE]` counts as complete and an error
  object in a stream as an empty line (255, 303-341);
* a listener hears a retried answer's deltas twice (`agent.rs` 119);
* `term.kill` leaves the terminal in the map until its connection closes
  (`deck/src/server.rs` 833); `write_context` to a tentacle that is gone is
  confirmed as saved (735-742);
* the authentication deadline and the expiry are looked at only when a frame
  arrives (523-532), so a silent client keeps its connection;
* the page does not fetch its views again after a reconnect
  (`web/src/app.rs` 65-153; hence `fetched` in `SettledViewIsStored`). It goes
  on as soon as its socket is open, while sessions of connections it lost may
  still act on what they were sent, and a write of the store that fails is
  logged and not answered (hence `untold`; a toggle's is not even logged,
  `deck/src/tentacles.rs` 192);
* the rows of the todo list are keyed by their line and keep the text and the
  mark they were made with (`app.rs` 286-298), so after a toggle, or when
  another tentacle is selected, rows that are there stay as they were although
  the signal they are made from has changed. `SettledViewIsStored` is about
  the signal and says nothing of the rows;
* after its token is cancelled a run still sends the attempts of the chat call
  it is in, since neither the wait for the limiter nor the retries look at the
  token (`agent.rs` 107-123, 180; `LateRequestsBounded`);
* a job whose token is cancelled between the scheduler's look at it and the
  first poll is polled (`scheduler.rs` 191-195);
* `next_stronger` returns none when the tier above has no model, although its
  comment has this for the top tier only (`orchestrator.rs` 119-129), so a
  ladder with an empty middle tier ends there (hence the second case of
  `LadderIsClimbed`);
* a command's time limit and its cancellation kill the process of the call and
  not what it has started (`tools/run_command.rs` 123), which runs on;
* `.gitignore` is among the hidden files the scan skips, so its absence is
  reported for every repository (`engulf/src/scanner.rs` 380-421, 957);
* a failed install does not halt `ship` by itself (`ship.rs` 166-176, 8-9):
  the later stages run, and the result is blocked;
* the gates of `ship`, the bump and the look at what is ahead work on what is
  checked out (`git.rs` 111-140), and the push sends the branch the run began
  on (`ship.rs` 104, 458): a checkout while the run goes on makes it push a
  branch no gate of the run has seen, and succeed (hence `strayed` in
  `PushedWasGated` and `SuccessIsTrue`). The commit of the version takes along
  what was staged meanwhile (`git.rs` 269-273), which is pushed as well (hence
  `raced`); a version file that cannot be written may be left truncated
  (231-233);
* engulf's phases run in the order of the caller's list, as often as they are
  in it, although its field says "Order is fixed" (`engulf/src/lib.rs` 77):
  notes that are written before what they show tell of nothing, or of an
  earlier result. In the list of all phases the vault comes before the runbook
  (113-121), so its deployment note never shows one (hence `Outdated`);
* an https site that starts to redirect to plain http gets no finding for it,
  and loses those about HSTS and cookies, which look at where the redirects
  led (`pentest-agent/src/blackbox.rs` 113-120, 210, 246), so it may pass where
  it was stopped (hence `LeavesHttps` in `WeakerNeverPasses`);
* `audit.rs` 83-85 resumes from a line that has no break, and appends to it;
* an install of the hook that is cut short leaves an empty file that counts as
  the user's, and a second forced install puts it over the backup (`hook.rs`
  53-57); and install and uninstall look at the hook once (44-46, 68), so one
  the user puts there between the look and the write or the removal is lost
  without a backup (both are an `excuse` in `NewestHookKept`);
* `setup` after an aborted `init` only imports, and never writes the templates
  (`cli/src/commands/setup.rs` 32).
