------------------------------ MODULE Tentacles ------------------------------
(***************************************************************************)
(* The deck's tentacle store (crates/deck/src/tentacles.rs): one directory *)
(* with CONTEXT.md and todo.md, worked on by the WebSocket sessions of one *)
(* deck process, which run in parallel and take no lock.  std::fs::write   *)
(* opens and truncates a file, then fills it: two steps that another       *)
(* session, or a crash of the process, can come between, and either can    *)
(* fail.  Ids, titles and the text of an item are left out; a todo file is *)
(* the set of its check-box lines and the set of those that are ticked.    *)
(***************************************************************************)
EXTENDS FiniteSets

CONSTANTS
  Sessions,       \* WebSocket connections of the deck
  Lines,          \* line numbers that can hold a check box
  First,          \* the line of the template's "- [ ] First task"
  NoFile, Torn    \* the file is missing; it is open and truncated

TodoFiles == [boxes : SUBSET Lines, done : SUBSET Lines]

TentaclesAssumption ==
  /\ First \in Lines
  /\ NoFile # Torn
  /\ \A f \in {NoFile, Torn} : f \notin TodoFiles \cup {"template", "notes"}

VARIABLES
  dir,       \* the tentacle's directory exists
  context,   \* CONTEXT.md: NoFile, Torn, "template" or "notes"
  todo,      \* todo.md: NoFile, Torn or [boxes, done]
  step,      \* where each session is in the operation it performs
  line,      \* the line its toggle is for
  copy,      \* what it is about to write to todo.md
  linked,    \* sessions whose open file is still the one in the directory
  leftTorn,  \* history: files truncated last by a write that was not carried out
  ticks      \* history: per line, is it ticked if every toggle counted

files == <<dir, context, todo>>
session == <<step, line, copy, linked>>
history == <<leftTorn, ticks>>
storeVars == <<dir, context, todo, step, line, copy, linked, leftTorn, ticks>>

Template == [boxes |-> {First}, done |-> {}]
(* The deck starts on a tentacle that is absent, or on one whose todo list *)
(* its user has extended.                                                  *)
StoreInit ==
  /\ \/ dir = FALSE /\ context = NoFile /\ todo = NoFile
     \/ dir = TRUE /\ context = "notes" /\ todo = [boxes |-> Lines, done |-> {}]
  /\ step = [s \in Sessions |-> "idle"]
  /\ line = [s \in Sessions |-> First]
  /\ copy = [s \in Sessions |-> Template]
  /\ linked = {}
  /\ leftTorn = {}
  /\ ticks = {}

GoOn(s, to) == step' = [step EXCEPT ![s] = to]

(* get(id): the directory must be there.                                   *)
Found == dir

(* The part of a file toggle_todo can change: a truncated one has no line. *)
BoxesOf(f) == IF f \in {NoFile, Torn} THEN {} ELSE f.boxes

-----------------------------------------------------------------------------
(* toggle_todo                                                             *)

Flip(f, l) == [f EXCEPT !.done = IF l \in @ THEN @ \ {l} ELSE @ \cup {l}]

(* Mutant: the file is written back whether or not the line was a box.     *)
ReadTodo_writesAnyway(s, l) ==
  /\ step[s] = "idle" /\ Found /\ todo # NoFile
  /\ line' = [line EXCEPT ![s] = l]
  /\ copy' = [copy EXCEPT ![s] = IF l \in BoxesOf(todo) THEN Flip(todo, l) ELSE todo]
  /\ GoOn(s, "toggle.open")
  /\ UNCHANGED <<files, linked, history>>

(* The file is read, and a new text made of it; without a box at the line  *)
(* (or without the file) the call ends here.                               *)
ReadTodo(s, l) ==
  /\ step[s] = "idle" /\ Found
  /\ l \in BoxesOf(todo)
  /\ line' = [line EXCEPT ![s] = l]
  /\ copy' = [copy EXCEPT ![s] = Flip(todo, l)]
  /\ GoOn(s, "toggle.open")
  /\ UNCHANGED <<files, linked, history>>

(* fs::write opens the file, creating it if need be, and truncates it ...   *)
OpenTodo(s) ==
  /\ step[s] = "toggle.open" /\ dir
  /\ todo' = Torn /\ linked' = linked \cup {s}
  /\ leftTorn' = leftTorn \ {"todo"}
  /\ GoOn(s, "toggle.fill")
  /\ UNCHANGED <<dir, context, line, copy, ticks>>

(* ... and the text goes to the file that was opened, which may since have *)
(* been unlinked.                                                          *)
FillTodo(s) ==
  /\ step[s] = "toggle.fill"
  /\ todo' = IF s \in linked THEN copy[s] ELSE todo
  /\ ticks' = IF s \in linked
              THEN (ticks \ {line[s]}) \cup ({line[s]} \ ticks) ELSE ticks
  /\ linked' = linked \ {s}
  /\ GoOn(s, "idle")
  /\ UNCHANGED <<dir, context, line, copy, leftTorn>>

-----------------------------------------------------------------------------
(* Writes that fail.  toggle_todo drops the error, create and              *)
(* write_context return it; either way the call is over.                   *)

(* The file cannot be opened, for want of the directory or otherwise.      *)
OpenFails(s) ==
  /\ step[s] \in {"toggle.open", "create.openContext", "create.openTodo"}
  /\ GoOn(s, "idle")
  /\ UNCHANGED <<files, line, copy, linked, history>>

(* The disk is full: nothing is put into the file that was truncated.      *)
FillFails(s) ==
  /\ \E f \in {"todo", "context"} :
       /\ step[s] \in IF f = "todo" THEN {"toggle.fill", "create.fillTodo"}
                                   ELSE {"create.fillContext", "context.fill"}
       /\ leftTorn' = IF s \in linked THEN leftTorn \cup {f} ELSE leftTorn
  /\ linked' = linked \ {s}
  /\ GoOn(s, "idle")
  /\ UNCHANGED <<files, line, copy, ticks>>

-----------------------------------------------------------------------------
(* create                                                                  *)

MakeDir(s) ==
  /\ step[s] = "idle"
  /\ dir' = TRUE
  /\ GoOn(s, "create.context")
  /\ UNCHANGED <<context, todo, line, copy, linked, history>>

(* Each file is looked for, and written from the template when it is       *)
(* missing.                                                                *)
FindContext(s) ==
  /\ step[s] = "create.context"
  /\ GoOn(s, IF context = NoFile THEN "create.openContext" ELSE "create.todo")
  /\ UNCHANGED <<files, line, copy, linked, history>>

FindTodo(s) ==
  /\ step[s] = "create.todo"
  /\ GoOn(s, IF todo = NoFile THEN "create.openTodo" ELSE "idle")
  /\ UNCHANGED <<files, line, copy, linked, history>>

CreateOpensContext(s) ==
  /\ step[s] = "create.openContext" /\ dir
  /\ context' = Torn /\ linked' = linked \cup {s}
  /\ leftTorn' = leftTorn \ {"context"}
  /\ GoOn(s, "create.fillContext")
  /\ UNCHANGED <<dir, todo, line, copy, ticks>>

CreateFillsContext(s) ==
  /\ step[s] = "create.fillContext"
  /\ context' = IF s \in linked THEN "template" ELSE context
  /\ linked' = linked \ {s}
  /\ GoOn(s, "create.todo")
  /\ UNCHANGED <<dir, todo, line, copy, history>>

CreateOpensTodo(s) ==
  /\ step[s] = "create.openTodo" /\ dir
  /\ todo' = Torn /\ linked' = linked \cup {s}
  /\ leftTorn' = leftTorn \ {"todo"}
  /\ GoOn(s, "create.fillTodo")
  /\ UNCHANGED <<dir, context, line, copy, ticks>>

CreateFillsTodo(s) ==
  /\ step[s] = "create.fillTodo"
  /\ todo' = IF s \in linked THEN Template ELSE todo
  /\ ticks' = IF s \in linked THEN {} ELSE ticks
  /\ linked' = linked \ {s}
  /\ GoOn(s, "idle")
  /\ UNCHANGED <<dir, context, line, copy, leftTorn>>

-----------------------------------------------------------------------------
(* remove, write_context, and a crash of the deck                          *)

(* remove_dir_all unlinks the files one after the other; what is open      *)
(* stays open, but is no longer in the directory.                          *)
RemoveFiles(s) ==
  /\ step[s] = "idle" /\ dir
  /\ context' = NoFile /\ todo' = NoFile
  /\ linked' = {}
  /\ ticks' = {}
  /\ GoOn(s, "remove.dir")
  /\ UNCHANGED <<dir, line, copy, leftTorn>>

(* It fails on a directory in which a file has appeared, or that is gone.  *)
RemoveDir(s) ==
  /\ step[s] = "remove.dir"
  /\ dir' = (dir /\ (context # NoFile \/ todo # NoFile))
  /\ GoOn(s, "idle")
  /\ UNCHANGED <<context, todo, line, copy, linked, history>>

OpenContext(s) ==
  /\ step[s] = "idle" /\ Found
  /\ context' = Torn /\ linked' = linked \cup {s}
  /\ leftTorn' = leftTorn \ {"context"}
  /\ GoOn(s, "context.fill")
  /\ UNCHANGED <<dir, todo, line, copy, ticks>>

FillContext(s) ==
  /\ step[s] = "context.fill"
  /\ context' = IF s \in linked THEN "notes" ELSE context
  /\ linked' = linked \ {s}
  /\ GoOn(s, "idle")
  /\ UNCHANGED <<dir, todo, line, copy, history>>

(* The deck process dies; the files stay as they are, and its sessions are *)
(* new ones when it is back.                                               *)
Crash ==
  /\ \E s \in Sessions : step[s] # "idle"
  /\ step' = [s \in Sessions |-> "idle"]
  /\ linked' = {}
  /\ leftTorn' = leftTorn \cup (IF todo = Torn THEN {"todo"} ELSE {})
                        \cup (IF context = Torn THEN {"context"} ELSE {})
  /\ UNCHANGED <<files, line, copy, ticks>>

-----------------------------------------------------------------------------
SessionStep(s) ==
  \/ \E l \in Lines : ReadTodo(s, l)
  \/ OpenTodo(s) \/ FillTodo(s) \/ OpenFails(s) \/ FillFails(s)
  \/ MakeDir(s) \/ FindContext(s) \/ FindTodo(s)
  \/ CreateOpensContext(s) \/ CreateFillsContext(s)
  \/ CreateOpensTodo(s) \/ CreateFillsTodo(s)
  \/ RemoveFiles(s) \/ RemoveDir(s)
  \/ OpenContext(s) \/ FillContext(s)

StoreNext == (\E s \in Sessions : SessionStep(s)) \/ Crash

StoreSpec == StoreInit /\ [][StoreNext]_storeVars

-----------------------------------------------------------------------------
(* An empty todo.md or CONTEXT.md is one that a session is writing at this *)
(* moment, or that a crash or a write that failed has left: a session that *)
(* reads a file another one has truncated finds no check box in it, and    *)
(* never writes what it read back.  (toggle_todo, create, write_context    *)
(* and remove, in any interleaving.)                                       *)
TornIsInProgress ==
  /\ todo = Torn =>
       \/ "todo" \in leftTorn
       \/ \E s \in linked : step[s] \in {"toggle.fill", "create.fillTodo"}
  /\ context = Torn =>
       \/ "context" \in leftTorn
       \/ \E s \in linked : step[s] \in {"create.fillContext", "context.fill"}

(* The header of tentacles.rs (10-12) promises operations that are safe to *)
(* call from several sessions: a toggle that was carried out counts.       *)
(* toggle_todo writes back the whole file it read, so of two that overlap  *)
(* one is lost.                                                            *)
TogglesAllCount ==
  (todo \notin {NoFile, Torn} /\ \A s \in Sessions : step[s] = "idle")
    => todo.done = ticks
=============================================================================
