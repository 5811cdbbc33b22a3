---------------------------- MODULE DeckAgents ------------------------------
(***************************************************************************)
(* The deck's native agents (crates/deck/src/server.rs): connections that  *)
(* spawn, cancel and abandon agents, one event forwarder per agent, and    *)
(* the shared set of running agents behind the cap and agent.list.  The    *)
(* scheduler is its abstract specification, AgentPool; an agent's events   *)
(* are reduced to the terminal one that ends its forwarder.                *)
(***************************************************************************)
EXTENDS Integers, FiniteSets

CONSTANTS
  Conns,            \* WebSocket connections
  Agents,           \* ids of the agents ever spawned, in the order they were made
  ClassOf, Slots,   \* the pool's classes (tentacle-scoped or not) and slots
  NativeMaxAgents,  \* AppState.native_max_agents
  NoConn, NoAgent   \* not yet spawned; nothing in hand

Class == {"scoped", "shared"}

ASSUME DeckAssumption ==
  /\ IsFiniteSet(Conns) /\ Conns # {} /\ NoConn \notin Conns
  /\ Agents \subseteq Nat /\ IsFiniteSet(Agents) /\ NoAgent \notin Agents
  /\ ClassOf \in [Agents -> Class] /\ Slots \in [Class -> Nat \ {0}]
  /\ NativeMaxAgents \in Nat \ {0}

VARIABLES
  conn,           \* where each connection's handle_ws task is
  inHand,         \* the agent it is spawning
  owned,          \* the ids it owns
  toCancel,       \* owned ids its clean-up has not come to yet
  socketUp,       \* its writer task still drains the outbound channel
  stage, stopped, \* the scheduler, as an AgentPool
  events,         \* each agent's event channel: open, terminal, closed
  forwarder,      \* each agent's forwarder task
  nativeAgents,   \* AppState.native_agents
  spawnedBy       \* history: the connection that spawned each agent

connVars  == <<conn, inHand, owned, toCancel, socketUp>>
poolVars  == <<stage, stopped>>
agentVars == <<events, forwarder, nativeAgents, spawnedBy>>
vars == <<conn, inHand, owned, toCancel, socketUp, stage, stopped,
          events, forwarder, nativeAgents, spawnedBy>>

Pool == INSTANCE AgentPool WITH Jobs <- Agents

Init ==
  /\ conn = [c \in Conns |-> "reading"]
  /\ inHand = [c \in Conns |-> NoAgent]
  /\ owned = [c \in Conns |-> {}]
  /\ toCancel = [c \in Conns |-> {}]
  /\ socketUp = [c \in Conns |-> TRUE]
  /\ Pool!Init
  /\ events = [a \in Agents |-> "open"]
  /\ forwarder = [a \in Agents |-> "none"]
  /\ nativeAgents = {}
  /\ spawnedBy = [a \in Agents |-> NoConn]

Goto(c, pc) == conn' = [conn EXCEPT ![c] = pc]
ForwarderTo(a, pc) == forwarder' = [forwarder EXCEPT ![a] = pc]

-----------------------------------------------------------------------------
(* dispatch: agent.spawn                                                   *)

(* Mutant: off by one at the cap. *)
BelowCap_inclusive == Cardinality(nativeAgents) <= NativeMaxAgents

BelowCap == Cardinality(nativeAgents) < NativeMaxAgents

(* The set is locked for the check alone; at the cap the request is        *)
(* answered with agent.error and nothing changes.                          *)
CheckCap(c) ==
  /\ conn[c] = "reading" /\ BelowCap
  /\ Goto(c, "submit")
  /\ UNCHANGED <<inHand, owned, toCancel, socketUp, poolVars, agentVars>>

(* generate_id: an id never used before; here they are numbered as made.   *)
Fresh(a) == spawnedBy[a] = NoConn /\ \A b \in Agents : spawnedBy[b] = NoConn => a <= b

(* A fresh id, its forwarder, and the scheduler's yes. *)
Submit(c, a) ==
  /\ conn[c] = "submit" /\ Fresh(a)
  /\ Pool!Accept(a)
  /\ ForwarderTo(a, "pump")
  /\ spawnedBy' = [spawnedBy EXCEPT ![a] = c]
  /\ inHand' = [inHand EXCEPT ![c] = a]
  /\ Goto(c, "insert")
  /\ UNCHANGED <<owned, toCancel, socketUp, events, nativeAgents>>

(* The scheduler's no: the forwarder ends with its channel, the id is gone. *)
SubmitRefused(c) ==
  /\ conn[c] = "submit"
  /\ Goto(c, "reading")
  /\ UNCHANGED <<inHand, owned, toCancel, socketUp, poolVars, agentVars>>

(* Mutant: only a connection that can still write owns what it spawned. *)
Insert_ownsIfUp(c) ==
  /\ conn[c] = "insert"
  /\ nativeAgents' = nativeAgents \cup {inHand[c]}
  /\ owned' = IF socketUp[c] THEN [owned EXCEPT ![c] = @ \cup {inHand[c]}] ELSE owned
  /\ inHand' = [inHand EXCEPT ![c] = NoAgent]
  /\ Goto(c, "reading")
  /\ UNCHANGED <<toCancel, socketUp, poolVars, events, forwarder, spawnedBy>>

Insert(c) ==
  /\ conn[c] = "insert"
  /\ nativeAgents' = nativeAgents \cup {inHand[c]}
  /\ owned' = [owned EXCEPT ![c] = @ \cup {inHand[c]}]
  /\ inHand' = [inHand EXCEPT ![c] = NoAgent]
  /\ Goto(c, "reading")
  /\ UNCHANGED <<toCancel, socketUp, poolVars, events, forwarder, spawnedBy>>

(* scheduler.cancel finds the ids of jobs that are not over. *)
Cancellable(as) == {a \in as : stage[a] \in {"pending", "active"}}
StopAgents(as) == stopped' = stopped \cup Cancellable(as) /\ UNCHANGED stage

(* dispatch: agent.cancel, for any id; one not found changes nothing. *)
CancelRequest(c, a) ==
  /\ conn[c] = "reading" /\ a \in Cancellable(Agents)
  /\ StopAgents({a})
  /\ UNCHANGED <<connVars, agentVars>>

-----------------------------------------------------------------------------
(* The end of a connection.                                                *)

(* The writer task ends: the peer is gone or was sent a close. *)
SocketFails(c) ==
  /\ conn[c] # "closed" /\ socketUp[c]
  /\ socketUp' = [socketUp EXCEPT ![c] = FALSE]
  /\ UNCHANGED <<conn, inHand, owned, toCancel, poolVars, agentVars>>

(* The read loop ends. *)
Disconnect(c) ==
  /\ conn[c] = "reading"
  /\ Goto(c, "cancelling")
  /\ toCancel' = [toCancel EXCEPT ![c] = owned[c]]
  /\ UNCHANGED <<inHand, owned, socketUp, poolVars, agentVars>>

(* One id at a time, in the order they were pushed; the map of terminals   *)
(* is awaited between two of them.                                         *)
CancelOwned(c, a) ==
  /\ conn[c] = "cancelling" /\ a \in toCancel[c] /\ \A b \in toCancel[c] : a <= b
  /\ StopAgents({a})
  /\ toCancel' = [toCancel EXCEPT ![c] = @ \ {a}]
  /\ UNCHANGED <<conn, inHand, owned, socketUp, agentVars>>

(* Mutant: the clean-up leaves the list to the forwarders. *)
RetainOthers_skipped(c) ==
  /\ conn[c] = "cancelling" /\ toCancel[c] = {}
  /\ Goto(c, "joining")
  /\ UNCHANGED <<inHand, owned, toCancel, socketUp, poolVars, agentVars>>

RetainOthers(c) ==
  /\ conn[c] = "cancelling" /\ toCancel[c] = {}
  /\ nativeAgents' = nativeAgents \ owned[c]
  /\ Goto(c, "joining")
  /\ UNCHANGED <<inHand, owned, toCancel, socketUp, poolVars, events, forwarder, spawnedBy>>

(* The writer drains until the last forwarder lets go of the channel. *)
JoinWriter(c) ==
  /\ conn[c] = "joining"
  /\ socketUp[c] => \A a \in Agents : spawnedBy[a] = c => forwarder[a] = "ended"
  /\ Goto(c, "closed")
  /\ socketUp' = [socketUp EXCEPT ![c] = FALSE]
  /\ UNCHANGED <<inHand, owned, toCancel, poolVars, agentVars>>

-----------------------------------------------------------------------------
(* The agents, in the pool: a run reports its one terminal event before it *)
(* completes; a job discarded in the queue drops its channel unused.       *)

RunFrame == UNCHANGED <<connVars, forwarder, nativeAgents, spawnedBy>>

Activate(a) == Pool!Activate(a) /\ UNCHANGED events /\ RunFrame

Report(a) ==
  /\ stage[a] = "active" /\ events[a] = "open"
  /\ events' = [events EXCEPT ![a] = "terminal"]
  /\ UNCHANGED poolVars /\ RunFrame

Complete(a) ==
  /\ events[a] = "terminal"
  /\ Pool!Complete(a)
  /\ UNCHANGED events /\ RunFrame

Discard(a) ==
  /\ Pool!Discard(a)
  /\ events' = [events EXCEPT ![a] = "closed"]
  /\ RunFrame

-----------------------------------------------------------------------------
(* spawn_event_forwarder                                                   *)

ForwarderFrame == UNCHANGED <<connVars, poolVars, events, spawnedBy>>

(* The terminal event is sent on; if that fails the forwarder just ends. *)
ForwardTerminal(a) ==
  /\ forwarder[a] = "pump" /\ events[a] = "terminal"
  /\ ForwarderTo(a, IF socketUp[spawnedBy[a]] THEN "remove" ELSE "ended")
  /\ UNCHANGED nativeAgents /\ ForwarderFrame

(* Any other event that is not lossy meets a dead connection. *)
ForwardFails(a) ==
  /\ forwarder[a] = "pump" /\ stage[a] = "active" /\ ~socketUp[spawnedBy[a]]
  /\ ForwarderTo(a, "ended")
  /\ UNCHANGED nativeAgents /\ ForwarderFrame

(* Mutant: the forwarder waits for a terminal event that never comes. *)
ChannelClosed_waits(a) ==
  /\ forwarder[a] = "pump" /\ events[a] = "terminal" /\ ~socketUp[spawnedBy[a]]
  /\ ForwarderTo(a, "ended")
  /\ UNCHANGED nativeAgents /\ ForwarderFrame

(* The job went away without a terminal event: recv() gives None. *)
ChannelClosed(a) ==
  /\ forwarder[a] = "pump" /\ events[a] = "closed"
  /\ ForwarderTo(a, "ended")
  /\ UNCHANGED nativeAgents /\ ForwarderFrame

(* agent.finished is sent, the id leaves the list. *)
RemoveFinished(a) ==
  /\ forwarder[a] = "remove"
  /\ nativeAgents' = nativeAgents \ {a}
  /\ ForwarderTo(a, "ended")
  /\ ForwarderFrame

-----------------------------------------------------------------------------
ConnStep(c) ==
  \/ \E a \in Agents : Submit(c, a) \/ CancelOwned(c, a)
  \/ SubmitRefused(c) \/ Insert(c) \/ RetainOthers(c) \/ JoinWriter(c)

ClientStep(c) ==
  \/ CheckCap(c) \/ SocketFails(c) \/ Disconnect(c)
  \/ \E a \in Agents : CancelRequest(c, a)

JobStep(a) == Activate(a) \/ Report(a) \/ Complete(a) \/ Discard(a)
ForwarderStep(a) ==
  ForwardTerminal(a) \/ ForwardFails(a) \/ ChannelClosed(a) \/ RemoveFinished(a)

Rest == (\A c \in Conns : conn[c] = "closed") /\ UNCHANGED vars

Next ==
  \/ \E c \in Conns : ConnStep(c) \/ ClientStep(c)
  \/ \E a \in Agents : JobStep(a) \/ ForwarderStep(a)
  \/ Rest

(* Tasks are polled; runs end (max_turns, call and tool time limits), and  *)
(* a queued job that was cancelled is discarded when its turn comes.       *)
Fairness ==
  /\ \A c \in Conns : WF_vars(ConnStep(c))
  /\ \A a \in Agents : WF_vars(JobStep(a)) /\ WF_vars(ForwarderStep(a))

SafetySpec == Init /\ [][Next]_vars
Spec == SafetySpec /\ Fairness

-----------------------------------------------------------------------------
Closed(c) == conn[c] = "closed"
SpawnedBy(c) == {a \in Agents : spawnedBy[a] = c}

TypeOK ==
  /\ conn \in [Conns -> {"reading", "submit", "insert", "cancelling", "joining", "closed"}]
  /\ inHand \in [Conns -> Agents \cup {NoAgent}]
  /\ \A c \in Conns : conn[c] = "insert" => inHand[c] \in Agents
  /\ owned \in [Conns -> SUBSET Agents] /\ toCancel \in [Conns -> SUBSET Agents]
  /\ socketUp \in [Conns -> BOOLEAN]
  /\ stage \in [Agents -> {"absent", "pending", "active", "over"}]
  /\ stopped \subseteq Agents
  /\ events \in [Agents -> {"open", "terminal", "closed"}]
  /\ forwarder \in [Agents -> {"none", "pump", "remove", "ended"}]
  /\ nativeAgents \subseteq Agents
  /\ spawnedBy \in [Agents -> Conns \cup {NoConn}]

(* A connection leaves no agent running behind it: when its handler has    *)
(* returned, each agent it spawned is over or told to stop, whenever the   *)
(* socket failed and whatever was in hand then (server.rs 626-633).        *)
NoOrphans ==
  \A c \in Conns : Closed(c) => \A a \in SpawnedBy(c) : stage[a] = "over" \/ a \in stopped

(* And none of them counts against the cap of the other connections.       *)
ClosedFreesCapacity == \A c \in Conns : Closed(c) => nativeAgents \cap SpawnedBy(c) = {}

(* server.rs 179: native_max_agents is "most native agents allowed at      *)
(* once".  Checking (846) and inserting (898) under two separate locks     *)
(* guarantees less: each connection past the check adds one more, so that  *)
(* the set and the spawns on their way to it stay below the cap plus one   *)
(* for every connection.                                                   *)
Committed == {c \in Conns : conn[c] \in {"submit", "insert"}}
CapInv ==
  Cardinality(nativeAgents) + Cardinality(Committed) <= NativeMaxAgents + Cardinality(Conns) - 1

(* What that leaves for the set itself.                                    *)
NativeBound == Cardinality(nativeAgents) <= NativeMaxAgents + Cardinality(Conns) - 1

(* server.rs 177: native_agents holds the "ids of currently-running native *)
(* agents (for the cap and listing)".  Listed, over, and nobody left to    *)
(* take it off the list:                                                   *)
Stale(a) ==
  /\ a \in nativeAgents /\ stage[a] = "over" /\ forwarder[a] = "ended"
  /\ conn[spawnedBy[a]] = "reading"

(* An agent cancelled before it started leaves the list like any other.    *)
CancelledLeavesList ==
  \A a \in Agents : Stale(a) /\ socketUp[spawnedBy[a]] => events[a] = "terminal"

(* Closing a connection ends: the handler does not wait for its writer for *)
(* ever, whatever became of the connection's agents.                       *)
CleanupEnds == \A c \in Conns : conn[c] = "joining" ~> Closed(c)

-----------------------------------------------------------------------------
(* The inductive invariant behind NoOrphans and ClosedFreesCapacity.       *)

Owned(a) == \/ a \in owned[spawnedBy[a]]
            \/ conn[spawnedBy[a]] = "insert" /\ inHand[spawnedBy[a]] = a

(* Every agent spawned is owned by its connection or in its hand, and the  *)
(* clean-up's steps have done their part for all of them.                  *)
HandInv   == \A c \in Conns : conn[c] = "insert" => spawnedBy[inHand[c]] = c
OwnedInv  == \A a \in Agents : spawnedBy[a] # NoConn => Owned(a) /\ stage[a] # "absent"
ListedInv == \A a \in nativeAgents : spawnedBy[a] # NoConn
CancelInv ==
  \A a \in Agents : spawnedBy[a] # NoConn /\ conn[spawnedBy[a]] \in {"cancelling", "joining", "closed"}
    => \/ stage[a] = "over" \/ a \in stopped
       \/ conn[spawnedBy[a]] = "cancelling" /\ a \in toCancel[spawnedBy[a]]
RetainInv ==
  \A a \in nativeAgents :
    spawnedBy[a] # NoConn => conn[spawnedBy[a]] \notin {"joining", "closed"}

OwnershipInv == HandInv /\ OwnedInv /\ ListedInv /\ CancelInv /\ RetainInv
=============================================================================
