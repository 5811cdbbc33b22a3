-------------------------------- MODULE Engulf -------------------------------
(***************************************************************************)
(* The engulf pipeline (crates/engulf/src/lib.rs): run_engulf scans a      *)
(* repository, audits it (security.rs), writes a deployment runbook        *)
(* (deployer.rs) and a vault of notes (vault.rs).  A text is the record of *)
(* the facts it shows.  The repository changes between runs; what earlier  *)
(* runs wrote stays on disk until it is overwritten.                       *)
(***************************************************************************)
EXTENDS Scanner, Gates

CONSTANTS
  Trees,        \* the sets of files the repository may consist of
  PhaseLists,   \* the lists of phases run_engulf is called with
  Answers,      \* what the model may say: {"failed"} or severities of findings
  Rows,         \* findings the security note has room for (20)
  MaxEngulfs    \* bound: runs

AllPhases == <<"scan", "security", "docs", "vault", "deploy">>

(* The list may have its phases in any order, and one more than once.      *)
EngulfAssumption ==
  /\ PhaseLists \subseteq Seq(ToSet(AllPhases))
  /\ \A t \in Trees : IsFiniteSet(t)
  /\ \A answer \in Answers : IsFiniteSet(answer)

-----------------------------------------------------------------------------
(* The audit: the scanner's hints, and what the model adds if it answers   *)
(* with a list; a severity it invents is read as info.                     *)
ModelFindings(answer) == IF answer = Failed THEN {} ELSE
  {IF s \in Severities THEN s ELSE "info" : s \in answer}

AuditWith(scan, answer) ==
  LET static == {<<"static", h.severity, h.path>> : h \in scan.hints}
      model == {<<"model", s, "">> : s \in ModelFindings(answer)}
      all == static \cup model IN
  [findings |-> all,
   counts |-> [s \in Severities |-> Cardinality({f \in all : f[2] = s})]]

NoAudit == [findings |-> {}, counts |-> [s \in Severities |-> 0]]

-----------------------------------------------------------------------------
(* The runbook: a platform the configuration or else the framework speaks  *)
(* for, and its steps, TRUE for a manual one.                              *)
DetectPlatform(scan) ==
  LET rungs == [i \in 1 .. 5 |->
                  LET p == <<"Vercel", "Fly.io", "Railway", "Netlify", "Docker">>[i]
                  IN <<{p}, p>>]
      fallback == IF scan.stack.primary \in {"Next.js", "SvelteKit"} THEN "Vercel" ELSE "Unknown"
  IN Ladder(scan.ci \cup {scan.stack.deployTarget}, rungs, fallback)

Steps(platform) ==
  CASE platform = "Vercel" -> <<FALSE, TRUE, FALSE, TRUE, FALSE, FALSE>>
    [] platform = "Docker" -> <<FALSE, FALSE, TRUE, TRUE>>
    [] platform = "Fly.io" -> <<FALSE, TRUE, TRUE, TRUE, FALSE>>
    [] platform = "Railway" -> <<FALSE, TRUE, TRUE, TRUE, FALSE>>
    [] OTHER -> <<FALSE, TRUE, FALSE, FALSE>>

(* It asks for the variables without an example; a model that fails only   *)
(* takes the tips away.                                                    *)
GenerateRunbook(scan, answer) ==
  LET platform == DetectPlatform(scan) IN
  [platform |-> platform, steps |-> Steps(platform),
   required |-> {v.name : v \in {w \in scan.vars : ~w.example}},
   estimate |-> IF Len(Steps(platform)) > 5 THEN "30-60" ELSE "15-30",
   tips |-> answer # Failed]

NoRunbook == [platform |-> "", steps |-> <<>>, required |-> {}, estimate |-> "", tips |-> FALSE]

-----------------------------------------------------------------------------
(* The texts.                                                              *)
SecurityReport(scan, audit) ==
  [stack |-> scan.stack.primary, findings |-> audit.findings, counts |-> audit.counts]

RunbookReport(scan, runbook) ==
  [stack |-> scan.stack, platform |-> runbook.platform, steps |-> runbook.steps,
   vars |-> scan.vars, tips |-> runbook.tips]

TopDirs(files) == {f.dir : f \in files} \ {""}
Filed(files, dir) == Cardinality({f \in files : f.dir = dir})
Configs(files) == {f.path : f \in {g \in files : g.name \in ConfigFiles}}

HomeNote(scan) ==
  [stack |-> scan.stack, files |-> Cardinality(scan.files), deps |-> Cardinality(scan.deps),
   routes |-> Cardinality(scan.routes), vars |-> Cardinality(scan.vars)]
ArchitectureNote(scan) ==
  [stack |-> scan.stack, ci |-> scan.ci, configs |-> Configs(scan.files),
   dirs |-> [d \in TopDirs(scan.files) |-> Filed(scan.files, d)]]
ApiNote(scan) == [routes |-> scan.routes, vars |-> scan.vars]
SecurityNote(audit) ==
  [counts |-> audit.counts, rows |-> IF Cardinality(audit.findings) < Rows
                                     THEN Cardinality(audit.findings) ELSE Rows]
DeploymentNote(runbook) ==
  [platform |-> runbook.platform, estimate |-> runbook.estimate, steps |-> runbook.steps,
   required |-> runbook.required]
DependenciesNote(scan) ==
  [total |-> Cardinality(scan.deps), production |-> {d \in scan.deps : d[1] = "production"},
   dev |-> {d \in scan.deps : d[1] = "dev"}]
OnboardingNote(scan) ==
  [packageManager |-> scan.stack.packageManager, vars |-> scan.vars, dirs |-> TopDirs(scan.files)]
CodebaseMapNote(scan) ==
  [files |-> Cardinality(scan.files), configs |-> Configs(scan.files),
   dirs |-> [d \in TopDirs(scan.files) |-> Filed(scan.files, d)]]

NoteNames == <<"HOME", "Architecture", "API", "Security", "Deployment", "Dependencies",
               "Onboarding", "CodebaseMap">>
Notes(scan, audit, runbook) ==
  <<HomeNote(scan), ArchitectureNote(scan), ApiNote(scan), SecurityNote(audit),
    DeploymentNote(runbook), DependenciesNote(scan), OnboardingNote(scan),
    CodebaseMapNote(scan)>>

Texts == ToSet(NoteNames) \cup {"SECURITY.md", "DEPLOYMENT.md"}
NoText == [text |-> "none"]
TornText == [text |-> "torn"]

VARIABLES
  tree,       \* the files of the repository as the last run found it
  asked,      \* the phases the last run was to go through
  todo,       \* the phases the run has still to do
  scan,       \* the results of its phases so far
  audit,
  runbook,
  summary,    \* its summary: [written, completed, skipped]
  disk,       \* the texts under .monkey
  outcome,    \* of the last run: "none", "ok", "error"
  engulfs     \* number of runs begun

engulfVars == <<tree, asked, todo, scan, audit, runbook, summary, disk, outcome, engulfs>>
results == <<scan, audit, runbook>>

NoScan == [files |-> {}, none |-> TRUE]
NoSummary == [written |-> {}, completed |-> {}, skipped |-> {}]

EngulfInit ==
  /\ tree = {}
  /\ asked = <<>> /\ todo = <<>> /\ scan = NoScan /\ audit = NoAudit /\ runbook = NoRunbook
  /\ summary = NoSummary /\ disk = [t \in Texts |-> NoText]
  /\ outcome = "ok" /\ engulfs = 0

Idle == todo = <<>>

(* A run finds the repository in any state.  An empty list asks for all    *)
(* phases.                                                                 *)
BeginEngulf(phases) ==
  /\ Idle /\ engulfs < MaxEngulfs
  /\ engulfs' = engulfs + 1
  /\ asked' = IF phases = <<>> THEN AllPhases ELSE phases
  /\ todo' = asked'
  /\ scan' = NoScan /\ audit' = NoAudit /\ runbook' = NoRunbook
  /\ summary' = NoSummary /\ outcome' = "none"
  /\ tree' \in Trees
  /\ UNCHANGED disk

-----------------------------------------------------------------------------
Doing(phase) == ~Idle /\ Head(todo) = phase

(* The phase is done; after the last one the run returns its summary.      *)
Complete(phase, written) ==
  /\ summary' = [summary EXCEPT !.completed = @ \cup {phase}, !.written = @ \cup written]
  /\ todo' = Tail(todo)
  /\ outcome' = IF Tail(todo) = <<>> THEN "ok" ELSE outcome

Skip(phase) ==
  /\ summary' = [summary EXCEPT !.skipped = @ \cup {phase}]
  /\ todo' = Tail(todo)
  /\ outcome' = IF Tail(todo) = <<>> THEN "ok" ELSE outcome
  /\ UNCHANGED <<tree, asked, results, disk, engulfs>>

(* A `?` gives the run up; the summary is lost.                            *)
GiveUp ==
  /\ todo' = <<>> /\ outcome' = "error"
  /\ summary' = NoSummary

(* write_file: if it fails, nothing has happened to the text, or it has    *)
(* been cut.                                                               *)
WriteGivesUp(text) == disk' \in {disk, [disk EXCEPT ![text] = TornText]} /\ GiveUp

ScanPhase ==
  /\ Doing("scan")
  /\ scan' \in Scans(tree)
  /\ Complete("scan", {})
  /\ UNCHANGED <<tree, asked, audit, runbook, disk, engulfs>>

SecurityPhase ==
  /\ Doing("security") /\ scan # NoScan
  /\ \E answer \in Answers :
       \/ /\ audit' = AuditWith(scan, answer)
          /\ disk' = [disk EXCEPT !["SECURITY.md"] = SecurityReport(scan, audit')]
          /\ Complete("security", {"SECURITY.md"})
       \/ WriteGivesUp("SECURITY.md") /\ UNCHANGED audit
  /\ UNCHANGED <<tree, asked, scan, runbook, engulfs>>

DeployPhase ==
  /\ Doing("deploy") /\ scan # NoScan
  /\ \E answer \in Answers :
       \/ /\ runbook' = GenerateRunbook(scan, answer)
          /\ disk' = [disk EXCEPT !["DEPLOYMENT.md"] = RunbookReport(scan, runbook')]
          /\ Complete("deploy", {"DEPLOYMENT.md"})
       \/ WriteGivesUp("DEPLOYMENT.md") /\ UNCHANGED runbook
  /\ UNCHANGED <<tree, asked, scan, audit, engulfs>>

Docs == Doing("docs") /\ Skip("docs")

NothingScanned(phase) == Doing(phase) /\ scan = NoScan /\ Skip(phase)

(* Mutant: a note that is there is kept.                                   *)
WriteNotes_keeps(n) ==
  [t \in Texts |-> IF \E i \in 1 .. n : NoteNames[i] = t /\ disk[t] = NoText
                   THEN Notes(scan, audit, runbook)[CHOOSE i \in 1 .. n : NoteNames[i] = t]
                   ELSE disk[t]]

(* The disk when the first n notes have been written.                      *)
WriteNotes(n) ==
  [t \in Texts |-> IF \E i \in 1 .. n : NoteNames[i] = t
                   THEN Notes(scan, audit, runbook)[CHOOSE i \in 1 .. n : NoteNames[i] = t]
                   ELSE disk[t]]

(* write_vault; a phase that has not been done counts as one that found    *)
(* nothing.  A write that fails leaves the notes before it written.        *)
VaultPhase ==
  /\ Doing("vault") /\ scan # NoScan
  /\ \/ /\ disk' = WriteNotes(Len(NoteNames))
        /\ Complete("vault", ToSet(NoteNames))
     \/ \E n \in 0 .. Len(NoteNames) : disk' = WriteNotes(n) /\ GiveUp
     \/ \E n \in 1 .. Len(NoteNames) :
          disk' = [WriteNotes(n) EXCEPT ![NoteNames[n]] = TornText] /\ GiveUp
  /\ UNCHANGED <<tree, asked, results, engulfs>>

EngulfNext ==
  \/ \E phases \in PhaseLists : BeginEngulf(phases)
  \/ ScanPhase \/ SecurityPhase \/ DeployPhase \/ Docs \/ VaultPhase
  \/ NothingScanned("security") \/ NothingScanned("deploy") \/ NothingScanned("vault")

EngulfSpec == EngulfInit /\ [][EngulfNext]_engulfVars

-----------------------------------------------------------------------------
(* The phase that writes a text, and the one whose result it shows.        *)
Writer(t) ==
  CASE t = "SECURITY.md" -> "security" [] t = "DEPLOYMENT.md" -> "deploy" [] OTHER -> "vault"
Source(t) ==
  CASE t = "Security" -> "security" [] t = "Deployment" -> "deploy" [] OTHER -> "scan"

(* The caller asked for the source of a text after it was last written.    *)
Outdated(t) ==
  \E i \in DOMAIN asked :
    asked[i] = Source(t) /\ \A j \in DOMAIN asked : asked[j] = Writer(t) => j < i

IsCurrent(t) ==
  /\ t = "SECURITY.md" => disk[t] = SecurityReport(scan, audit)
  /\ t = "DEPLOYMENT.md" => disk[t] = RunbookReport(scan, runbook)
  /\ \A i \in 1 .. Len(NoteNames) :
       t = NoteNames[i] => disk[t] = Notes(scan, audit, runbook)[i]

(* What a successful run says it has written is on disk, whole, and tells  *)
(* of what this run found last: not of an earlier run, of one that was     *)
(* given up half-way, or of an earlier scan or audit of its own.  The      *)
(* exception is of the caller's making: a text whose source comes after it *)
(* in the list, as the runbook comes after the notes in the list of all    *)
(* phases (lib.rs 113-130).                                                *)
WrittenIsCurrent ==
  outcome = "ok" =>
    \A t \in summary.written :
      disk[t] \notin {NoText, TornText} /\ (IsCurrent(t) \/ Outdated(t))

(* A committed .env never gets past an audit, whatever else is in the      *)
(* repository, whatever the order the directories are read in and whatever *)
(* the model says or fails to say: the report has it, and cso, which takes *)
(* the audit over, blocks on it with every threshold.                      *)
CommittedEnvBlocks ==
  "security" \in summary.completed /\ Env \in tree =>
    \A failOn \in Severities :
      Cso([audit |-> {s \in Severities : audit.counts[s] > 0}, secrets |-> FALSE,
           advisories |-> 0, mode |-> "daily", target |-> FALSE,
           failOn |-> failOn]).verdict = "blocked"
=============================================================================
