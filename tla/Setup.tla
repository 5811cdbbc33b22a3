------------------------------- MODULE Setup --------------------------------
(***************************************************************************)
(* How a project gets its guidance for agents: `monkey init`, `import` and *)
(* `setup` (crates/cli/src/commands) fill .monkey/context from the prompt  *)
(* files other tools left in the project and from templates.  The user     *)
(* edits both between the commands, and a command may be killed.  Only the *)
(* files that can come from either are modelled; std::fs::write truncates  *)
(* a file and fills it in a step of its own.                               *)
(***************************************************************************)
EXTENDS Integers, Sequences

CONSTANTS
  Mappings,   \* MAPPINGS: [source, dest], in order
  Templates   \* the context files init has a template for, in order

NoGuidance == "none"
TornGuidance == "torn"

Sources == {Mappings[i].source : i \in DOMAIN Mappings}
Dests == {Mappings[i].dest : i \in DOMAIN Mappings} \cup {Templates[i] : i \in DOMAIN Templates}

(* An imported text is known by the prompt file it is from; the others are *)
(* a template and the user's.                                              *)
ImportOf(i) == Mappings[i].source

SetupAssumption ==
  /\ Mappings \in Seq([source : STRING, dest : STRING]) /\ Templates \in Seq(STRING)
  /\ \A i, j \in DOMAIN Mappings : Mappings[i].source = Mappings[j].source => i = j
  /\ Sources \cap {NoGuidance, TornGuidance, "template", "user"} = {}

VARIABLES
  present,     \* .monkey is a directory
  prompts,     \* prompt files in the project
  guidance,    \* .monkey/context: what is in each file
  plan,        \* what the command has still to do
  force,       \* import --force
  adopted,     \* written: destinations this import has written
  filling      \* it has opened the file of the first item of its plan

setupVars == <<present, prompts, guidance, plan, force, adopted, filling>>

NotSetUp ==
  /\ present = FALSE /\ prompts = {}
  /\ guidance = [d \in Dests |-> NoGuidance]
  /\ plan = <<>> /\ force = FALSE /\ adopted = {} /\ filling = FALSE

-----------------------------------------------------------------------------
Imports == [i \in DOMAIN Mappings |-> [from |-> i, dest |-> Mappings[i].dest]]
FillIns == [i \in DOMAIN Templates |-> [from |-> 0, dest |-> Templates[i]]]

Run(items, forced) ==
  /\ plan = <<>> /\ plan' = items
  /\ present' = TRUE /\ force' = forced /\ adopted' = {} /\ filling' = FALSE
  /\ UNCHANGED <<prompts, guidance>>

(* Mutant: the templates come before what the project has.                 *)
InitPlan_templatesFirst == FillIns \o Imports

(* init adopts existing prompts, then writes what is missing.              *)
InitPlan == Imports \o FillIns

InitCommand == Run(InitPlan, FALSE)
ImportCommand == \E f \in BOOLEAN : Run(Imports, f)
SetupCommand == Run(IF present THEN Imports ELSE InitPlan, FALSE)

(* write_if_missing, or the conditions of import_existing_prompts.         *)
Wanted(item) ==
  IF item.from = 0 THEN guidance[item.dest] = NoGuidance
  ELSE /\ Mappings[item.from].source \in prompts
       /\ force \/ guidance[item.dest] = NoGuidance
       /\ item.dest \notin adopted

PassOver ==
  /\ plan # <<>> /\ ~filling /\ ~Wanted(Head(plan))
  /\ plan' = Tail(plan)
  /\ UNCHANGED <<present, prompts, guidance, force, adopted, filling>>

OpenFile ==
  /\ plan # <<>> /\ ~filling /\ Wanted(Head(plan))
  /\ guidance' = [guidance EXCEPT ![Head(plan).dest] = TornGuidance]
  /\ filling' = TRUE
  /\ UNCHANGED <<present, prompts, plan, force, adopted>>

FillFile ==
  /\ filling
  /\ LET item == Head(plan)
     IN /\ guidance' = [guidance EXCEPT ![item.dest] =
                          IF item.from = 0 THEN "template" ELSE ImportOf(item.from)]
        /\ adopted' = adopted \cup {item.dest}
  /\ plan' = Tail(plan) /\ filling' = FALSE
  /\ UNCHANGED <<present, prompts, force>>

(* A prompt that cannot be read, or a full disk, ends the command; so does *)
(* killing it.                                                             *)
Abort ==
  /\ plan # <<>>
  /\ plan' = <<>> /\ filling' = FALSE
  /\ UNCHANGED <<present, prompts, guidance, force, adopted>>

(* The user, between commands.                                             *)
PutPrompts ==
  /\ plan = <<>>
  /\ \E s \in Sources : prompts' = (prompts \ {s}) \cup ({s} \ prompts)
  /\ UNCHANGED <<present, guidance, plan, force, adopted, filling>>

EditGuidance ==
  /\ plan = <<>> /\ present
  /\ \E d \in Dests, text \in {NoGuidance, "user"} : guidance' = [guidance EXCEPT ![d] = text]
  /\ UNCHANGED <<present, prompts, plan, force, adopted, filling>>

SetUp ==
  \/ InitCommand \/ ImportCommand \/ SetupCommand
  \/ PassOver \/ OpenFile \/ FillFile \/ Abort
  \/ PutPrompts \/ EditGuidance

SetupSpec == NotSetUp /\ [][SetUp]_setupVars

-----------------------------------------------------------------------------
Commanded == plan # <<>>
Before(d, i) == {k \in 1..(i - 1) : Mappings[k].dest = d /\ Mappings[k].source \in prompts}

TookOver ==
  Commanded /\ \E d \in Dests :
    \/ guidance[d] = "user" /\ guidance'[d] # "user" /\ ~force
    \/ guidance'[d] = "template" /\ guidance[d] # "template"
         /\ \E i \in DOMAIN Mappings : Mappings[i].dest = d /\ Mappings[i].source \in prompts
    \/ \E i \in DOMAIN Mappings :
         guidance'[d] = ImportOf(i) /\ guidance[d] # ImportOf(i) /\ Before(d, i) # {}

(* A command takes the place of nothing it should not: what the user wrote *)
(* gives way to a forced import only, a template fills in only where the   *)
(* project has no prompt for the file, and of two prompts for one file the *)
(* first in the list is taken, however often commands are run, aborted and *)
(* run again (import.rs 24-73, init.rs 40-81: "the templates only fill the *)
(* gaps").                                                                 *)
TemplatesFillGaps == [][~TookOver]_setupVars
=============================================================================
