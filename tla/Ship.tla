-------------------------------- MODULE Ship ---------------------------------
(***************************************************************************)
(* `monkey ship` (crates/skills/src/skills/ship.rs, with git.rs): the      *)
(* gauntlet is run again and again on one repository, whose developer      *)
(* stages, commits and checks out other branches whenever she likes, also  *)
(* while a run is under way (a gate takes minutes and asks models).  The   *)
(* gates, the bump and the look at what is ahead work on what is checked   *)
(* out; the push sends the branch that was when the run began.  What the   *)
(* gates decide is taken from Gates.  Versions are numbers; edits that are *)
(* not staged (they dirty the tree as staged ones do), the bump kind, the  *)
(* texts of findings and the report, and the pull request of stage 9 (it   *)
(* decides nothing) are left out.                                          *)
(***************************************************************************)
EXTENDS Gates

CONSTANTS
  Branches, Base,   \* the branches; the one that runs compare with
  Commits,          \* what the developer may commit
  Options,          \* what runs are asked for: gates, build, bump, push, dryRun, failOn
  Torn,             \* a version file that was truncated
  MaxRuns,          \* bound: runs of ship
  MaxCheckouts      \* bound: checkouts of other branches

Gated == {"review", "audit", "pentest"}

ShipAssumption == Base \in Branches /\ Options # {} /\ \A o \in Options : o.gates \subseteq Gated

VARIABLES
  here,         \* the branch checked out
  baseKnown,    \* the base branch resolves to a commit
  staged,       \* what the developer has staged
  commits,      \* her commits on each branch, ahead of base
  version,      \* the version in the working tree ...
  head,         \* ... in the last commit of each branch ...
  remote,       \* what is on origin of each branch: commits and a version
  checkouts,
  branch,       \* the branch the run began on
  opts,         \* of the run: [gates, build, bump, push, dryRun, failOn]
  at,           \* its stage, or "idle"
  failed,       \* its blocking stages that failed
  cleared,      \* history: the commits each gate let pass in this run
  critical,     \* history: a gate of this run saw a critical finding
  raced,        \* history: what was staged or committed while this run was under way
  strayed,      \* history: another branch was checked out while it was
  pushed,       \* history: this run has pushed
  report,       \* of the last run: "none", "ok", "blocked", "error"
  runs          \* number of runs begun

worktree == <<here, staged, commits, version, head>>
repo == <<worktree, baseKnown, remote, checkouts>>
run == <<branch, opts, failed, cleared, critical, raced, strayed, pushed, report, runs>>
shipVars == <<repo, at, run>>

ShipInit ==
  /\ here \in Branches /\ baseKnown \in BOOLEAN /\ checkouts = 0
  /\ staged = {} /\ commits = [b \in Branches |-> {}]
  /\ version = 0 /\ head = [b \in Branches |-> 0]
  /\ remote = [b \in Branches |-> [commits |-> {}, version |-> 0]]
  /\ branch = Base /\ opts \in {CHOOSE o \in Options : TRUE}
  /\ at = "idle" /\ failed = {} /\ cleared = [g \in Gated |-> {}]
  /\ critical = FALSE /\ raced = {} /\ strayed = FALSE /\ pushed = FALSE
  /\ report = "none" /\ runs = 0

-----------------------------------------------------------------------------
(* The developer.                                                          *)

Race(c) == raced' = IF at = "idle" THEN raced ELSE raced \cup {c}

StageEdit(c) ==
  /\ here # Base /\ c \notin staged /\ \A b \in Branches : c \notin commits[b]
  /\ staged' = staged \cup {c}
  /\ Race(c)
  /\ UNCHANGED <<here, commits, version, head, baseKnown, remote, checkouts, at, branch, opts,
                 failed, cleared, critical, strayed, pushed, report, runs>>

(* git commit: all that is staged, with the version file or without.       *)
CommitIndex(v) ==
  /\ commits' = [commits EXCEPT ![here] = @ \cup staged] /\ staged' = {}
  /\ head' = [head EXCEPT ![here] = v]
  /\ UNCHANGED here

Commit ==
  /\ staged # {} /\ here # Base
  /\ \E v \in {version, head[here]} : CommitIndex(v)
  /\ UNCHANGED <<version, baseKnown, remote, checkouts, at, run>>

(* git checkout: what is not committed is carried along.                   *)
Checkout(b) ==
  /\ b # here /\ checkouts < MaxCheckouts
  /\ here' = b /\ checkouts' = checkouts + 1
  /\ version' = IF version = head[here] THEN head[b] ELSE version
  /\ strayed' = (strayed \/ at # "idle")
  /\ UNCHANGED <<staged, commits, head, baseKnown, remote, at, branch, opts, failed, cleared,
                 critical, raced, pushed, report, runs>>

-----------------------------------------------------------------------------
ToStage(stage) == at' = stage

(* finalize: the run was blocked if any blocking stage of it failed.       *)
FinishWith(failures) ==
  /\ failed' = failures
  /\ report' = IF failures = {} THEN "ok" ELSE "blocked"
  /\ ToStage("idle")

(* A `?` in the body: no report, only an error.                            *)
FinishInError ==
  /\ report' = "error"
  /\ ToStage("idle")
  /\ UNCHANGED failed

Clean == staged = {} /\ version = head[here]

BeginShip(o) ==
  /\ at = "idle" /\ runs < MaxRuns
  /\ runs' = runs + 1
  /\ branch' = here /\ opts' = o
  /\ cleared' = [g \in Gated |-> {}]
  /\ critical' = FALSE /\ raced' = {} /\ strayed' = FALSE /\ pushed' = FALSE
  /\ \/ here = Base /\ FinishWith({"branch-guard"})
     \/ here # Base /\ ~Clean /\ FinishWith({"clean-tree"})
     \/ here # Base /\ Clean /\ failed' = {} /\ report' = "none"
        /\ ToStage(IF o.build THEN "install" ELSE "review")
     \/ FinishInError       \* git does not run, or not in a repository
  /\ UNCHANGED repo

(* run_shell makes a stage of any exit; no other stage waits for install.   *)
InstallDeps ==
  /\ at = "install"
  /\ failed' \in {failed, failed \cup {"install"}}
  /\ ToStage("typecheck")
  /\ UNCHANGED <<repo, branch, opts, cleared, critical, raced, strayed, pushed, report, runs>>

(* A typecheck script that is missing is as good as one that passes.       *)
Typecheck ==
  /\ at = "typecheck"
  /\ \/ ToStage("review") /\ UNCHANGED <<failed, report>>
     \/ FinishWith(failed \cup {"typecheck"})
  /\ UNCHANGED <<repo, branch, opts, cleared, critical, raced, strayed, pushed, runs>>

(* A gate that passes lets the run go on; one that blocks ends it, and so  *)
(* does an error - as an error of the run for review and cso, as a failed  *)
(* stage for the pentest.                                                  *)
GateStage(gate, result, next) ==
  /\ \/ result.verdict = "ok" /\ ToStage(next) /\ UNCHANGED <<failed, report>>
     \/ result.verdict = "blocked" /\ FinishWith(failed \cup {gate})
     \/ result.verdict = "error" /\ gate # "pentest" /\ FinishInError
     \/ result.verdict = "error" /\ gate = "pentest" /\ FinishWith(failed \cup {gate})
  /\ cleared' = IF result.verdict = "ok" THEN [cleared EXCEPT ![gate] = commits[here]] ELSE cleared
  /\ critical' = (critical \/ "critical" \in result.findings)
  /\ UNCHANGED <<repo, branch, opts, raced, strayed, pushed, runs>>

SkipGate(gate, next) ==
  /\ at = gate /\ gate \notin opts.gates
  /\ ToStage(next)
  /\ UNCHANGED <<repo, run>>

(* changed_files, commit_messages: of what is checked out.  There are none *)
(* when it has no commit of its own, and when git cannot find the base.    *)
OwnCommits == here # Base /\ (commits[here] # {} \/ head[here] # 0)
ChangedFiles == baseKnown /\ OwnCommits

Found == {{}} \cup {{s} : s \in Severities}
Replies == Found \cup {Unavailable, Failed}

ReviewStage ==
  /\ at = "review" /\ "review" \in opts.gates
  /\ \E primary \in Replies :
       GateStage("review", Review([changed |-> ChangedFiles, primary |-> primary,
                                   secondOpinion |-> FALSE, failOn |-> opts.failOn]), "audit")

AuditStage ==
  /\ at = "audit" /\ "audit" \in opts.gates
  /\ \E audit \in Found \cup {Failed}, secrets \in BOOLEAN, advisories \in {0, 5, 6} :
       GateStage("audit", Cso([audit |-> audit, secrets |-> secrets, advisories |-> advisories,
                               mode |-> "daily", target |-> FALSE, failOn |-> opts.failOn]),
                 "pentest")

PentestStage ==
  /\ at = "pentest" /\ "pentest" \in opts.gates
  /\ \E whitebox \in Found \cup {Failed}, blackbox \in Found :
       GateStage("pentest", Pentest([cwd |-> TRUE, target |-> TRUE, whitebox |-> whitebox,
                                     blackbox |-> blackbox], SkillThreshold(opts.failOn)),
                 "bump")

(* bump_version rewrites the version file of the working tree; it is added *)
(* and what is staged is committed, either of which may fail, which nobody *)
(* looks at.  Without a version file, or one to be read, there is nothing  *)
(* to bump; if it cannot be written the run ends in an error, and the file *)
(* may be truncated.  --dry-run is not asked for.                          *)
Bump ==
  /\ at = "bump" /\ opts.bump
  /\ \/ /\ version # Torn /\ version' = version + 1
        /\ \/ \E v \in {version', head[here]} : CommitIndex(v)
           \/ UNCHANGED <<here, staged, commits, head>>
        /\ ToStage("ahead") /\ UNCHANGED <<failed, report>>
     \/ ToStage("ahead") /\ UNCHANGED <<worktree, failed, report>>
     \/ /\ version' \in {version, Torn}
        /\ FinishInError /\ UNCHANGED <<here, staged, commits, head>>
  /\ UNCHANGED <<baseKnown, remote, checkouts, branch, opts, cleared, critical, raced, strayed,
                 pushed, runs>>

SkipBump ==
  /\ at = "bump" /\ ~opts.bump
  /\ ToStage("ahead")
  /\ UNCHANGED <<repo, run>>

(* Mutant: commits that cannot be listed are taken to be there.            *)
Ahead_assumed ==
  /\ at = "ahead"
  /\ \/ (~baseKnown \/ OwnCommits) /\ ToStage("push") /\ UNCHANGED <<failed, report>>
     \/ baseKnown /\ ~OwnCommits /\ FinishWith(failed \cup {"diff-vs-base"})
  /\ UNCHANGED <<repo, branch, opts, cleared, critical, raced, strayed, pushed, runs>>

(* commit_messages: no commits ahead, or no base to compare with.          *)
Ahead ==
  /\ at = "ahead"
  /\ \/ ChangedFiles /\ ToStage("push") /\ UNCHANGED <<failed, report>>
     \/ ~ChangedFiles /\ FinishWith(failed \cup {"diff-vs-base"})
  /\ UNCHANGED <<repo, branch, opts, cleared, critical, raced, strayed, pushed, runs>>

(* Mutant: the outcome of git push is not looked at.                       *)
Push_unchecked ==
  /\ at = "push" /\ opts.push /\ ~opts.dryRun
  /\ \/ /\ remote' = [remote EXCEPT ![branch] =
                                 [commits |-> commits[branch], version |-> head[branch]]]
        /\ pushed' = TRUE
     \/ UNCHANGED <<remote, pushed>>
  /\ FinishWith(failed)
  /\ UNCHANGED <<worktree, baseKnown, checkouts, branch, opts, cleared, critical, raced, strayed,
                 runs>>

(* git push sends the branch the run began on, as it is now, whatever is   *)
(* checked out.  No remote, or a push that fails, blocks the run.          *)
Push ==
  /\ at = "push" /\ opts.push /\ ~opts.dryRun
  /\ \/ /\ remote' = [remote EXCEPT ![branch] =
                                 [commits |-> commits[branch], version |-> head[branch]]]
        /\ pushed' = TRUE
        /\ FinishWith(failed)
     \/ FinishWith(failed \cup {"push"}) /\ UNCHANGED <<remote, pushed>>
  /\ UNCHANGED <<worktree, baseKnown, checkouts, branch, opts, cleared, critical, raced, strayed,
                 runs>>

SkipPush ==
  /\ at = "push" /\ (~opts.push \/ opts.dryRun)
  /\ FinishWith(failed)
  /\ UNCHANGED <<repo, branch, opts, cleared, critical, raced, strayed, pushed, runs>>

-----------------------------------------------------------------------------
Developer == Commit \/ (\E c \in Commits : StageEdit(c)) \/ \E b \in Branches : Checkout(b)

Gauntlet ==
  \/ \E o \in Options : BeginShip(o)
  \/ InstallDeps \/ Typecheck
  \/ ReviewStage \/ AuditStage \/ PentestStage
  \/ SkipGate("review", "audit") \/ SkipGate("audit", "pentest") \/ SkipGate("pentest", "bump")
  \/ Bump \/ SkipBump \/ Ahead \/ Push \/ SkipPush

ShipNext == Developer \/ Gauntlet

ShipSpec == ShipInit /\ [][ShipNext]_shipVars

-----------------------------------------------------------------------------
(* A push past a gate: of base; or, if what was checked out when the run   *)
(* began still is, of a commit that some gate enabled for the run did not  *)
(* pass in that run, although it was neither made nor staged since, or of  *)
(* a branch that git cannot compare with its base, which to review is one  *)
(* without changes.                                                        *)
UngatedPush ==
  /\ remote' # remote
  /\ \/ remote'[Base] # remote[Base]
     \/ ~strayed /\ ~baseKnown
     \/ ~strayed /\ \E g \in opts.gates : ~(remote'[branch].commits \ raced \subseteq cleared[g])

(* Nothing gets to origin past a gate, however often runs fail and are     *)
(* begun again, unless the developer leaves the branch while a run is      *)
(* under way (ship.rs 218-353, 419-497).                                   *)
PushedWasGated == [][~UngatedPush]_shipVars

(* A run that reports success did what it was asked to do: no gate had     *)
(* seen a critical finding, whatever the threshold, and if it was to push, *)
(* it has, and everything the gates passed is on origin, unless they were  *)
(* shown another branch (ship.rs 389-497, 572-617).                        *)
SuccessIsTrue ==
  report = "ok" =>
    /\ ~critical
    /\ opts.push /\ ~opts.dryRun =>
         pushed /\ (strayed \/ \A g \in opts.gates : cleared[g] \subseteq remote[branch].commits)
=============================================================================
