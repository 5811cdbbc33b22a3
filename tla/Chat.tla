-------------------------------- MODULE Chat --------------------------------
(***************************************************************************)
(* `monkey chat`: an agent in a pseudo terminal (spawn_agent and           *)
(* AgentTerminal, crates/agents/src/spawn.rs) and the command that waits   *)
(* for it (crates/cli/src/commands/chat.rs).  A reader thread pumps what   *)
(* the agent writes to the command's stdout; the handles of the terminal   *)
(* are behind one mutex, which wait() keeps for as long as the agent runs  *)
(* and the reader thread needs once.  The choice of an agent, the prompt   *)
(* and what the texts say are left out.                                    *)
(***************************************************************************)
EXTENDS Integers

CONSTANTS
  Output,    \* chunks the agent writes before it exits: a number
  Room       \* chunks the terminal holds until they are read: at least one

VARIABLES
  main,      \* where the command is
  lock,      \* who holds the mutex: "none", "main" or "reader"
  reader,    \* where the reader thread is
  agent,     \* the agent: "none", "running" or "exited"
  left,      \* chunks it has still to write
  held,      \* chunks in the terminal
  shown      \* chunks on stdout

vars == <<main, lock, reader, agent, left, held, shown>>

Init ==
  /\ main = "start" /\ lock = "none" /\ reader = "none" /\ agent = "none"
  /\ left = Output /\ held = 0 /\ shown = 0

-----------------------------------------------------------------------------
(* The command.                                                            *)

(* spawn_agent: the process is started before the reader thread.           *)
SpawnAgent ==
  /\ main = "start"
  /\ agent' = "running" /\ reader' = "new"
  /\ main' = "spawned"
  /\ UNCHANGED <<lock, left, held, shown>>

SpawnFails ==
  /\ main = "start"
  /\ main' = "gone"
  /\ UNCHANGED <<lock, reader, agent, left, held, shown>>

(* write(): the prompt of the command line, if there is one.               *)
WritePrompt ==
  /\ main = "spawned" /\ lock = "none"
  /\ main' = "written"
  /\ UNCHANGED <<lock, reader, agent, left, held, shown>>

(* wait() takes the mutex ...                                              *)
Wait ==
  /\ main \in {"spawned", "written"} /\ lock = "none"
  /\ lock' = "main" /\ main' = "waiting"
  /\ UNCHANGED <<reader, agent, left, held, shown>>

(* ... and the process exits with the agent's code, its threads with it.   *)
WaitReturns ==
  /\ main = "waiting" /\ agent = "exited"
  /\ lock' = "none" /\ main' = "gone"
  /\ UNCHANGED <<reader, agent, left, held, shown>>

-----------------------------------------------------------------------------
(* The reader thread, while there is a process for it.                     *)

TakeLock ==
  /\ main # "gone" /\ reader = "new" /\ lock = "none"
  /\ lock' = "reader" /\ reader' = "cloning"
  /\ UNCHANGED <<main, agent, left, held, shown>>

CloneReader ==
  /\ main # "gone" /\ reader = "cloning"
  /\ lock' = "none" /\ reader' = "reading"
  /\ UNCHANGED <<main, agent, left, held, shown>>

Read ==
  /\ main # "gone" /\ reader = "reading" /\ held > 0
  /\ held' = held - 1 /\ shown' = shown + 1
  /\ UNCHANGED <<main, lock, reader, agent, left>>

ReadEnds ==
  /\ main # "gone" /\ reader = "reading" /\ held = 0 /\ agent = "exited"
  /\ reader' = "over"
  /\ UNCHANGED <<main, lock, agent, left, held, shown>>

-----------------------------------------------------------------------------
(* The agent: it blocks while the terminal is full.                        *)

AgentWrites ==
  /\ agent = "running" /\ left > 0 /\ held < Room
  /\ left' = left - 1 /\ held' = held + 1
  /\ UNCHANGED <<main, lock, reader, agent, shown>>

AgentExits ==
  /\ agent = "running" /\ left = 0
  /\ agent' = "exited"
  /\ UNCHANGED <<main, lock, reader, left, held, shown>>

MainStep == SpawnAgent \/ SpawnFails \/ WritePrompt \/ Wait \/ WaitReturns
ReaderStep == TakeLock \/ CloneReader \/ Read \/ ReadEnds
AgentStep == AgentWrites \/ AgentExits

Next == MainStep \/ ReaderStep \/ AgentStep

(* Two threads and a process that the operating system runs.               *)
Spec ==
  Init /\ [][Next]_vars
    /\ WF_vars(MainStep) /\ WF_vars(ReaderStep) /\ WF_vars(AgentStep)

-----------------------------------------------------------------------------
(* chat.rs 5: the command "pipes host stdin/stdout".  What an agent that   *)
(* was started writes gets to stdout.  It does not when wait() is first at *)
(* the mutex - the reader thread then waits for the command, the command   *)
(* for the agent and the agent for the reader - nor when the agent exits   *)
(* and the command leaves before the reader has come to the last chunk.    *)
OutputIsPiped == <>[](agent = "none" \/ shown = Output)
=============================================================================
