------------------------------ MODULE FileTools ------------------------------
(***************************************************************************)
(* The tools of native agents that touch the disk (crates/runtime/src/     *)
(* tools/, with the write locks of fs_guard.rs).  An agent makes one tool  *)
(* call at a time and has an FsGuard of its own (run_agent makes it with   *)
(* the ToolCtx, agent.rs 169); the agents of a deck share its working      *)
(* directory.  The model follows one path: the file, the temporary sibling *)
(* write_file puts the text in, and the inodes behind the two names,       *)
(* because a file that is open keeps its inode when its name goes to       *)
(* another one.                                                            *)
(***************************************************************************)
EXTENDS Naturals, FiniteSets

CONSTANTS
  Agents,       \* agents that have a call in progress
  Inodes,       \* as many as can be linked or open at once
  NoInode, Old, Empty, Mixed    \* no file; texts that are no agent's

FileToolsAssumption ==
  /\ IsFiniteSet(Agents) /\ IsFiniteSet(Inodes) /\ NoInode \notin Inodes
  /\ Cardinality(Inodes) > Cardinality(Agents) + 1
  /\ {Empty, Mixed} \cap (Agents \cup {Old}) = {}

VARIABLES
  target, temp,   \* the inodes of the path and of path.monkey-tmp
  data,           \* the text of each inode: Empty, Old, Mixed or an agent's
  doing,          \* where each agent's call is
  handle,         \* the inode it has open
  locks,          \* agents whose guard has the path's write lock taken
  child,          \* agents whose command runs: the process of the call itself
  offspring,      \* ... and what that process has started, still running
  shared          \* history: writes under way that have met another one

names == <<target, temp, data>>
commandVars == <<child, offspring>>
toolVars == <<target, temp, data, doing, handle, locks, commandVars, shared>>

ToolsInit ==
  /\ \E i \in Inodes :
       \/ target = NoInode /\ data = [j \in Inodes |-> Empty]
       \/ target = i /\ data = [j \in Inodes |-> IF j = i THEN Old ELSE Empty]
  /\ temp = NoInode
  /\ doing = [a \in Agents |-> "idle"]
  /\ handle = [a \in Agents |-> NoInode]
  /\ locks = {} /\ child = {} /\ offspring = {} /\ shared = {}

Goto(a, to) == doing' = [doing EXCEPT ![a] = to]
Text(i) == IF i = NoInode THEN NoInode ELSE data[i]
InUse == ({target, temp} \cup {handle[a] : a \in Agents}) \ {NoInode}

-----------------------------------------------------------------------------
(* write_file                                                              *)

(* A write is undecided from the moment it has the lock until its call     *)
(* returns.                                                                *)
Undecided == {a \in Agents : doing[a] \in {"write.open", "write.fill", "write.rename"}}

(* try_lock_write on the resolved path, in the agent's own guard: another  *)
(* agent's write to the path is not noticed.  A call that finds the lock   *)
(* taken returns an error at once.                                         *)
BeginWrite(a) ==
  /\ doing[a] = "idle" /\ a \notin locks
  /\ locks' = locks \cup {a}
  /\ shared' = IF Undecided = {} THEN {} ELSE Undecided \cup {a}
  /\ Goto(a, "write.open")
  /\ UNCHANGED <<names, handle, commandVars>>

(* Every return of the call drops the lock.                                *)
EndWrite(a) ==
  /\ locks' = locks \ {a} /\ shared' = shared \ {a}
  /\ handle' = [handle EXCEPT ![a] = NoInode]
  /\ Goto(a, "idle")

(* The parents cannot be created, or the temporary file not opened.        *)
WriteFails(a) ==
  /\ doing[a] = "write.open"
  /\ EndWrite(a)
  /\ UNCHANGED <<names, commandVars>>

(* Mutant: the file is opened under its own name. *)
OpenTemp_inPlace(a) ==
  /\ doing[a] = "write.open"
  /\ LET i == IF target # NoInode THEN target ELSE CHOOSE j \in Inodes : j \notin InUse IN
     /\ target' = i
     /\ data' = [data EXCEPT ![i] = Empty]
     /\ handle' = [handle EXCEPT ![a] = i]
  /\ Goto(a, "write.fill")
  /\ UNCHANGED <<temp, locks, commandVars, shared>>

(* tokio::fs::write opens the temporary file under its one name, creating  *)
(* or truncating it ...                                                    *)
OpenTemp(a) ==
  /\ doing[a] = "write.open"
  /\ LET i == IF temp # NoInode THEN temp ELSE CHOOSE j \in Inodes : j \notin InUse IN
     /\ temp' = i
     /\ data' = [data EXCEPT ![i] = Empty]
     /\ handle' = [handle EXCEPT ![a] = i]
  /\ Goto(a, "write.fill")
  /\ UNCHANGED <<target, locks, commandVars, shared>>

(* ... and fills it.  Over the text of another agent that opened it too,   *)
(* the shorter text leaves the end of the longer one.                      *)
FillTemp(a) ==
  /\ doing[a] = "write.fill"
  /\ \E t \in {a} \cup IF data[handle[a]] = Empty THEN {} ELSE {Mixed} :
       data' = [data EXCEPT ![handle[a]] = t]
  /\ Goto(a, "write.rename")
  /\ UNCHANGED <<target, temp, handle, locks, commandVars, shared>>

(* The disk is full part of the way: the temporary file stays behind.      *)
FillFails(a) ==
  /\ doing[a] = "write.fill"
  /\ data' = [data EXCEPT ![handle[a]] = Mixed]
  /\ EndWrite(a)
  /\ UNCHANGED <<target, temp, commandVars>>

(* The name of the target goes to what the temporary name stands for now.  *)
RenameTemp(a) ==
  /\ doing[a] = "write.rename" /\ temp # NoInode
  /\ target' = temp /\ temp' = NoInode
  /\ EndWrite(a)
  /\ UNCHANGED <<data, commandVars>>

(* The rename fails, for want of the temporary name or for another reason: *)
(* the temporary file is removed, if that succeeds, and an error returned. *)
RenameFails(a) ==
  /\ doing[a] = "write.rename"
  /\ temp' \in {NoInode, temp}
  /\ EndWrite(a)
  /\ UNCHANGED <<target, data, commandVars>>

-----------------------------------------------------------------------------
(* read_file opens the file and returns what its inode holds at some moment *)
(* while it has it open.                                                   *)

OpenTarget(a) ==
  /\ doing[a] = "idle" /\ target # NoInode
  /\ handle' = [handle EXCEPT ![a] = target]
  /\ Goto(a, "read")
  /\ UNCHANGED <<names, locks, commandVars, shared>>

ReadTarget(a) ==
  /\ doing[a] = "read"
  /\ handle' = [handle EXCEPT ![a] = NoInode]
  /\ Goto(a, "idle")
  /\ UNCHANGED <<names, locks, commandVars, shared>>

-----------------------------------------------------------------------------
(* run_command: the call waits until the process has ended and everybody   *)
(* who holds its output has too, for the cancel token or for the time      *)
(* limit, whichever is first.                                              *)

StartCommand(a) ==
  /\ doing[a] = "idle"
  /\ child' = child \cup {a}
  /\ Goto(a, "command")
  /\ UNCHANGED <<names, handle, locks, offspring, shared>>

(* make, npm or cargo start processes of their own.                        *)
ChildSpawns(a) ==
  /\ a \in child
  /\ offspring' = offspring \cup {a}
  /\ UNCHANGED <<names, doing, handle, locks, child, shared>>

ProcessExits(a) ==
  /\ \/ a \in child /\ child' = child \ {a} /\ UNCHANGED offspring
     \/ a \in offspring /\ offspring' = offspring \ {a} /\ UNCHANGED child
  /\ UNCHANGED <<names, doing, handle, locks, shared>>

(* wait_with_output is done.  What an earlier call left behind has nothing *)
(* to do with this one's output; what this one started may have closed it. *)
CommandReturns(a) ==
  /\ doing[a] = "command" /\ a \notin child
  /\ Goto(a, "idle")
  /\ UNCHANGED <<names, handle, locks, commandVars, shared>>

(* Cancelled, or timed out after DEFAULT_TIMEOUT: kill_on_drop kills the   *)
(* process of the call, and only that one.                                 *)
CommandAborted(a) ==
  /\ doing[a] = "command"
  /\ child' = child \ {a}
  /\ Goto(a, "idle")
  /\ UNCHANGED <<names, handle, locks, offspring, shared>>

-----------------------------------------------------------------------------
(* The process of the deck or the CLI dies.  The files stay; a command it  *)
(* leaves behind is not followed further.                                  *)
Crash ==
  /\ \E a \in Agents : doing[a] # "idle"
  /\ doing' = [a \in Agents |-> "idle"]
  /\ handle' = [a \in Agents |-> NoInode]
  /\ locks' = {} /\ child' = {} /\ offspring' = {} /\ shared' = {}
  /\ UNCHANGED <<names>>

AgentStep(a) ==
  \/ BeginWrite(a) \/ WriteFails(a) \/ OpenTemp(a)
  \/ FillTemp(a) \/ FillFails(a) \/ RenameTemp(a) \/ RenameFails(a)
  \/ OpenTarget(a) \/ ReadTarget(a)
  \/ StartCommand(a) \/ ChildSpawns(a) \/ ProcessExits(a)
  \/ CommandReturns(a) \/ CommandAborted(a)

ToolsNext == (\E a \in Agents : AgentStep(a)) \/ Crash

ToolsSpec == ToolsInit /\ [][ToolsNext]_toolVars

-----------------------------------------------------------------------------
File == INSTANCE AtomicFile WITH
  Writers <- Agents, NoText <- NoInode, text <- Text(target), undecided <- Undecided

(* write_file implements the atomic file it promises to be for as long as  *)
(* no two writes of the path meet, and again once those that met are over: *)
(* the file goes from one whole text to the next, through failures of      *)
(* every step and a crash at any moment, past temporary files and texts    *)
(* that earlier calls left behind, and a call that fails has not touched   *)
(* it.  (Writes that meet are the run files_shared's.)                     *)
ImplementsAtomicFile ==
  File!Init /\ [][shared # {} \/ File!Next]_<<Text(target), Undecided>>

(* write_file.rs 7: a reader never sees a half-written file.               *)
ReadsAreWhole ==
  \A a \in Agents : doing[a] = "read" => data[handle[a]] \notin {Empty, Mixed}
=============================================================================
