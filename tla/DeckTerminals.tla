--------------------------- MODULE DeckTerminals ----------------------------
(***************************************************************************)
(* The deck's PTY terminals (crates/deck/src/server.rs): connections that  *)
(* spawn and kill agent processes in terminals kept in one shared map,     *)
(* which the cap on terminals is checked against.                          *)
(***************************************************************************)
EXTENDS Integers, FiniteSets

CONSTANTS
  Clients,            \* WebSocket connections
  Terminals,          \* ids of the terminals ever spawned
  MaxAgents,          \* AppState.max_agents
  NoClient, NoTerm    \* not yet spawned; nothing in hand

TerminalsAssumption ==
  /\ IsFiniteSet(Clients) /\ Clients # {} /\ NoClient \notin Clients
  /\ IsFiniteSet(Terminals) /\ NoTerm \notin Terminals
  /\ MaxAgents \in Nat \ {0}

VARIABLES
  client,     \* where each connection's handle_ws task is
  spawning,   \* the terminal it is spawning
  owns,       \* the ids it owns
  toKill,     \* owned ids its clean-up has not come to yet
  terminals,  \* AppState.terminals
  alive,      \* terminals whose process runs (environment)
  startedBy   \* history: the connection that spawned each terminal

termVars == <<client, spawning, owns, toKill, terminals, alive, startedBy>>

TermInit ==
  /\ client = [c \in Clients |-> "reading"]
  /\ spawning = [c \in Clients |-> NoTerm]
  /\ owns = [c \in Clients |-> {}]
  /\ toKill = [c \in Clients |-> {}]
  /\ terminals = {} /\ alive = {}
  /\ startedBy = [t \in Terminals |-> NoClient]

ClientTo(c, pc) == client' = [client EXCEPT ![c] = pc]

-----------------------------------------------------------------------------
(* dispatch: term.spawn                                                    *)

BelowTermCap == Cardinality(terminals) < MaxAgents

PassCap(c) ==
  /\ client[c] = "reading" /\ BelowTermCap
  /\ ClientTo(c, "spawn")
  /\ UNCHANGED <<spawning, owns, toKill, terminals, alive, startedBy>>

(* At the cap the request is answered with an error. *)
Refuse(c) ==
  /\ client[c] = "reading" /\ ~BelowTermCap
  /\ UNCHANGED termVars

(* spawn_agent starts the process; the id is owned before it is in the map *)
(* (the audit log is written in between).                                  *)
Spawn(c, t) ==
  /\ client[c] = "spawn" /\ startedBy[t] = NoClient
  /\ alive' = alive \cup {t}
  /\ startedBy' = [startedBy EXCEPT ![t] = c]
  /\ owns' = [owns EXCEPT ![c] = @ \cup {t}]
  /\ spawning' = [spawning EXCEPT ![c] = t]
  /\ ClientTo(c, "insert")
  /\ UNCHANGED <<toKill, terminals>>

SpawnFails(c) ==
  /\ client[c] = "spawn"
  /\ ClientTo(c, "reading")
  /\ UNCHANGED <<spawning, owns, toKill, terminals, alive, startedBy>>

ListTerminal(c) ==
  /\ client[c] = "insert"
  /\ terminals' = terminals \cup {spawning[c]}
  /\ spawning' = [spawning EXCEPT ![c] = NoTerm]
  /\ ClientTo(c, "reading")
  /\ UNCHANGED <<owns, toKill, alive, startedBy>>

(* dispatch: term.kill, for any id in the map; the entry stays. *)
TermKill(c, t) ==
  /\ client[c] = "reading" /\ t \in terminals
  /\ alive' = alive \ {t}
  /\ UNCHANGED <<client, spawning, owns, toKill, terminals, startedBy>>

(* The process ends by itself. *)
ProcessExits(t) ==
  /\ t \in alive
  /\ alive' = alive \ {t}
  /\ UNCHANGED <<client, spawning, owns, toKill, terminals, startedBy>>

-----------------------------------------------------------------------------
(* The read loop ends, and the clean-up kills what the connection owns, a  *)
(* terminal at a time, each under a lock of the map of its own.            *)
ClientLeaves(c) ==
  /\ client[c] = "reading"
  /\ ClientTo(c, "killing")
  /\ toKill' = [toKill EXCEPT ![c] = owns[c]]
  /\ UNCHANGED <<spawning, owns, terminals, alive, startedBy>>

(* Mutant: the loop stops after its first terminal. *)
KillOwned_firstOnly(c, t) ==
  /\ client[c] = "killing" /\ t \in toKill[c]
  /\ toKill' = [toKill EXCEPT ![c] = {}]
  /\ alive' = IF t \in terminals THEN alive \ {t} ELSE alive
  /\ UNCHANGED <<client, spawning, owns, terminals, startedBy>>

KillOwned(c, t) ==
  /\ client[c] = "killing" /\ t \in toKill[c]
  /\ toKill' = [toKill EXCEPT ![c] = @ \ {t}]
  /\ alive' = IF t \in terminals THEN alive \ {t} ELSE alive
  /\ UNCHANGED <<client, spawning, owns, terminals, startedBy>>

RetainOtherTerminals(c) ==
  /\ client[c] = "killing" /\ toKill[c] = {}
  /\ terminals' = terminals \ owns[c]
  /\ ClientTo(c, "closed")
  /\ UNCHANGED <<spawning, owns, toKill, alive, startedBy>>

TermRest == (\A c \in Clients : client[c] = "closed") /\ UNCHANGED termVars

TermNext ==
  \/ \E c \in Clients :
       \/ PassCap(c) \/ Refuse(c) \/ SpawnFails(c) \/ ListTerminal(c) \/ ClientLeaves(c) \/ RetainOtherTerminals(c)
       \/ \E t \in Terminals : Spawn(c, t) \/ TermKill(c, t) \/ KillOwned(c, t)
  \/ \E t \in Terminals : ProcessExits(t)
  \/ TermRest

TermSpec == TermInit /\ [][TermNext]_termVars

-----------------------------------------------------------------------------
ClientClosed(c) == client[c] = "closed"
StartedBy(c) == {t \in Terminals : startedBy[t] = c}

(* A closed connection leaves no process behind it and no entry that would *)
(* count against the others, although it owns an id before the map has it  *)
(* and other connections kill and close meanwhile (server.rs 626-639).     *)
NoOrphanTerminals ==
  \A c \in Clients : ClientClosed(c) => StartedBy(c) \cap (alive \cup terminals) = {}
=============================================================================
