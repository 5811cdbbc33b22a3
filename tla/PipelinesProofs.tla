-------------------------- MODULE PipelinesProofs ---------------------------
(***************************************************************************)
(* Proofs about what works on a repository: ship and its gates, the hook   *)
(* of the user's that the pre-push hook must not lose, engulf, and the     *)
(* set-up of a project, for any commits, options, hooks, repositories and  *)
(* prompts.                                                                *)
(***************************************************************************)
EXTENDS GatesProofs, Ship, PushHook, Engulf, Setup, SequenceTheorems, FiniteSetTheorems, TLAPS

(* Where a run is tells what its gates have passed, as long as what it     *)
(* began on is checked out.                                                *)
PastReview == {"audit", "pentest", "bump", "ahead", "push"}
PastAudit == {"pentest", "bump", "ahead", "push"}
PastPentest == {"bump", "ahead", "push"}

Seen(gate) == commits[branch] \ raced \subseteq cleared[gate]

ShipTypeOK ==
  /\ here \in Branches /\ branch \in Branches /\ opts \in Options
  /\ staged \subseteq Commits
  /\ commits \in [Branches -> SUBSET Commits]
  /\ cleared \in [Gated -> SUBSET Commits]
  /\ remote = [b \in Branches |-> remote[b]]

ShipInv ==
  /\ ShipTypeOK
  /\ at \in {"idle", "install", "typecheck", "review"} \cup PastReview
  /\ at # "idle" => branch # Base /\ staged \subseteq raced
  /\ at # "idle" /\ ~strayed =>
       /\ here = branch
       /\ \A g \in Gated : cleared[g] \subseteq commits[branch]
       /\ at \in PastReview /\ "review" \in opts.gates => Seen("review")
       /\ at \in PastAudit /\ "audit" \in opts.gates => Seen("audit")
       /\ at \in PastPentest /\ "pentest" \in opts.gates => Seen("pentest")
  /\ at = "push" => baseKnown
  /\ at # "idle" => ~critical /\ report # "ok"
  /\ SuccessIsTrue

LEMMA ShipInvInit == ASSUME ShipAssumption PROVE ShipInit => ShipInv
<1> SUFFICES ASSUME ShipInit PROVE ShipInv
  OBVIOUS
<1>1. opts \in Options
  BY Zenon DEF ShipAssumption, ShipInit
<1>2. ShipTypeOK
  BY <1>1, SMT DEF ShipInit, ShipTypeOK, ShipAssumption
<1> QED
  BY <1>2, SMT DEF ShipInit, ShipInv, SuccessIsTrue, PastReview

(* A commit of what is staged adds only what was staged or committed while *)
(* the run was under way.                                                  *)
LEMMA CommitKeeps ==
  ASSUME ShipInv, NEW v, CommitIndex(v)
  PROVE  /\ here' = here /\ staged' = {}
         /\ commits' \in [Branches -> SUBSET Commits]
         /\ \A b \in Branches : commits[b] \subseteq commits'[b] /\ commits'[b] \subseteq commits[b] \cup staged
BY SMT DEF CommitIndex, ShipInv, ShipTypeOK

(* What a step needs that leaves the run where it is.                      *)
LEMMA RunStays ==
  ASSUME ShipInv, ShipTypeOK', UNCHANGED <<at, baseKnown, remote, run>>, here' = here,
         staged' \subseteq staged,
         \A b \in Branches : commits[b] \subseteq commits'[b] /\ commits'[b] \subseteq commits[b] \cup staged
  PROVE  ShipInv'
BY SMT DEF ShipInv, ShipTypeOK, Seen, SuccessIsTrue, run, PastReview, PastAudit, PastPentest

(* The three gates are one handler, which tells from the result what       *)
(* becomes of the run.                                                     *)
LEMMA GateStageKeeps ==
  ASSUME ShipAssumption, ShipInv, NEW result,
         result.verdict = "ok" => "critical" \notin result.findings,
         NEW gate \in Gated, gate \in opts.gates,
         NEW next, GateStage(gate, result, next),
         \/ gate = "review" /\ at = "review" /\ next = "audit"
         \/ gate = "audit" /\ at = "audit" /\ next = "pentest"
         \/ gate = "pentest" /\ at = "pentest" /\ next = "bump"
  PROVE  ShipInv'
<1> USE DEF PastReview, PastAudit, PastPentest, Gated
<1>1. UNCHANGED <<here, staged, commits, baseKnown, remote, branch, opts, raced, strayed, pushed>>
  BY Zenon DEF GateStage, repo, worktree
<1>2. CASE result.verdict = "ok" /\ at' = next /\ UNCHANGED <<failed, report>>
  <2>1. cleared' = [cleared EXCEPT ![gate] = commits[here]]
    BY <1>2, Zenon DEF GateStage
  <2>2. ~critical'
    <3>1. critical' = (critical \/ "critical" \in result.findings)
      BY Zenon DEF GateStage
    <3>2. ~critical
      BY SMT DEF ShipInv
    <3> QED
      BY <1>2, <3>1, <3>2, Zenon
  <2>3. ShipTypeOK'
    BY <1>1, <2>1, SMT DEF ShipInv, ShipTypeOK
  <2>4. /\ ~strayed => cleared'[gate] = commits[branch]
        /\ \A g \in Gated \ {gate} : cleared'[g] = cleared[g]
    BY <2>1, SMT DEF ShipInv, ShipTypeOK
  <2> QED
    BY <1>1, <1>2, <2>2, <2>3, <2>4, SMT DEF ShipInv, Seen, SuccessIsTrue
<1>3. CASE result.verdict # "ok" /\ at' = "idle" /\ report' \in {"blocked", "error"}
  <2>1. cleared' = cleared
    BY <1>3, Zenon DEF GateStage
  <2> QED
    BY <1>1, <1>3, <2>1, SMT DEF ShipInv, ShipTypeOK, SuccessIsTrue
<1>4. \/ result.verdict = "ok" /\ at' = next /\ UNCHANGED <<failed, report>>
      \/ result.verdict # "ok" /\ at' = "idle" /\ report' \in {"blocked", "error"}
  <2>1. failed \cup {gate} # {}
    OBVIOUS
  <2> QED
    BY <2>1, SMT DEF GateStage, ToStage, FinishWith, FinishInError
<1> QED
  BY <1>2, <1>3, <1>4

LEMMA SkipGateKeeps ==
  ASSUME ShipInv, NEW gate \in Gated, NEW next, SkipGate(gate, next),
         \/ gate = "review" /\ next = "audit"
         \/ gate = "audit" /\ next = "pentest"
         \/ gate = "pentest" /\ next = "bump"
  PROVE  ShipInv'
<1>1. at = gate /\ gate \notin opts.gates /\ at' = next /\ UNCHANGED <<repo, run>>
  BY Zenon DEF SkipGate, ToStage
<1> QED
  BY <1>1, SMT DEF repo, worktree, run, ShipInv, ShipTypeOK, Seen, SuccessIsTrue, PastReview,
                   PastAudit, PastPentest, Gated

LEMMA ShipInvNext ==
  ASSUME ShipAssumption, ShipInv, [ShipNext]_shipVars
  PROVE  ShipInv'
<1> USE DEF PastReview, PastAudit, PastPentest, Gated, ToStage
<1>1. ASSUME NEW c \in Commits, StageEdit(c)
      PROVE  ShipInv'
  <2>1. /\ UNCHANGED <<here, commits, baseKnown, remote, at, branch, opts, cleared, critical,
                       strayed, pushed, report>>
        /\ staged' = staged \cup {c} /\ raced \subseteq raced' /\ (at # "idle" => c \in raced')
    BY <1>1, SMT DEF StageEdit, Race
  <2> QED
    BY <2>1, SMT DEF ShipInv, ShipTypeOK, Seen, SuccessIsTrue
<1>2. CASE Commit
  <2>1. PICK v : CommitIndex(v)
    BY <1>2, Zenon DEF Commit
  <2>2. UNCHANGED <<at, baseKnown, remote, run>>
    BY <1>2, Zenon DEF Commit
  <2>3. ShipTypeOK'
    BY <2>1, <2>2, CommitKeeps, SMT DEF ShipInv, ShipTypeOK, run
  <2> QED
    BY <2>1, <2>2, <2>3, CommitKeeps, RunStays, Zenon
<1>3. ASSUME NEW b \in Branches, Checkout(b)
      PROVE  ShipInv'
  <2>1. /\ UNCHANGED <<staged, commits, baseKnown, remote, at, branch, opts, cleared, critical,
                       raced, pushed, report>>
        /\ here' = b
        /\ at # "idle" => strayed'
        /\ strayed => strayed'
    BY <1>3, Zenon DEF Checkout
  <2> QED
    BY <2>1, SMT DEF ShipInv, ShipTypeOK, SuccessIsTrue
<1>4. ASSUME NEW o \in Options, BeginShip(o)
      PROVE  ShipInv'
  <2>1. /\ opts' = o /\ cleared' = [g \in Gated |-> {}] /\ critical' = FALSE /\ branch' = here
        /\ raced' = {} /\ pushed' = FALSE /\ UNCHANGED repo
    BY <1>4, Zenon DEF BeginShip
  <2>2. \/ at' = "idle"
        \/ at' \in {"install", "review"} /\ here # Base /\ Clean
    BY <1>4, SMT DEF BeginShip, FinishWith, FinishInError
  <2>3. report' # "ok"
    BY <1>4, SMT DEF BeginShip, FinishWith, FinishInError
  <2> QED
    BY <2>1, <2>2, <2>3, SMT DEF repo, worktree, Clean, ShipInv, ShipTypeOK, SuccessIsTrue
<1>5. CASE InstallDeps
  BY <1>5, SMT DEF InstallDeps, repo, worktree, ShipInv, ShipTypeOK, SuccessIsTrue
<1>6. CASE Typecheck
  BY <1>6, SMT DEF Typecheck, FinishWith, repo, worktree, ShipInv, ShipTypeOK, SuccessIsTrue
<1>7. CASE ReviewStage
  <2>1. PICK primary \in Replies :
          GateStage("review", Review([changed |-> ChangedFiles, primary |-> primary,
                                      secondOpinion |-> FALSE, failOn |-> opts.failOn]), "audit")
    BY <1>7, Zenon DEF ReviewStage
  <2>2. at = "review" /\ "review" \in opts.gates
    BY <1>7, Zenon DEF ReviewStage
  <2> QED
    BY <2>1, <2>2, ReviewStopsCritical, GateStageKeeps
<1>8. CASE AuditStage
  <2>1. PICK source \in Found \cup {Failed}, secrets \in BOOLEAN, advisories \in {0, 5, 6} :
          GateStage("audit", Cso([audit |-> source, secrets |-> secrets,
                                  advisories |-> advisories, mode |-> "daily",
                                  target |-> FALSE, failOn |-> opts.failOn]), "pentest")
    BY <1>8, Zenon DEF AuditStage
  <2>2. at = "audit" /\ "audit" \in opts.gates
    BY <1>8, Zenon DEF AuditStage
  <2> QED
    BY <2>1, <2>2, CsoStopsCritical, GateStageKeeps
<1>9. CASE PentestStage
  <2>1. PICK whitebox \in Found \cup {Failed}, blackbox \in Found :
          GateStage("pentest", Pentest([cwd |-> TRUE, target |-> TRUE, whitebox |-> whitebox,
                                        blackbox |-> blackbox], SkillThreshold(opts.failOn)),
                    "bump")
    BY <1>9, Zenon DEF PentestStage
  <2>2. at = "pentest" /\ "pentest" \in opts.gates
    BY <1>9, Zenon DEF PentestStage
  <2> QED
    BY <2>1, <2>2, PentestStopsCritical, GateStageKeeps
<1>10. CASE SkipGate("review", "audit") \/ SkipGate("audit", "pentest")
            \/ SkipGate("pentest", "bump")
  BY <1>10, SkipGateKeeps
<1>11. CASE Bump
  <2>1. /\ UNCHANGED <<baseKnown, remote, branch, opts, cleared, critical, raced, strayed, pushed>>
        /\ at = "bump"
        /\ \/ at' = "ahead" /\ report' = report
           \/ at' = "idle" /\ report' = "error"
    BY <1>11, Zenon DEF Bump, FinishInError
  <2>2. /\ here' = here /\ staged' \subseteq staged
        /\ commits' \in [Branches -> SUBSET Commits]
        /\ \A b \in Branches : /\ commits[b] \subseteq commits'[b]
                               /\ commits'[b] \subseteq commits[b] \cup staged
    <3>1. CASE \E v : CommitIndex(v)
      BY <3>1, CommitKeeps
    <3>2. CASE UNCHANGED <<here, staged, commits>>
      BY <3>2 DEF ShipInv, ShipTypeOK
    <3> QED
      BY <1>11, <3>1, <3>2, Zenon DEF Bump, worktree
  <2>3. ShipTypeOK'
    BY <2>1, <2>2, SMT DEF ShipInv, ShipTypeOK
  <2> QED
    BY <2>1, <2>2, <2>3, SMT DEF ShipInv, ShipTypeOK, Seen, SuccessIsTrue
<1>12. CASE SkipBump
  BY <1>12, SMT DEF SkipBump, repo, worktree, run, ShipInv, ShipTypeOK, Seen, SuccessIsTrue
<1>13. CASE Ahead
  BY <1>13, SMT DEF Ahead, ChangedFiles, FinishWith, repo, worktree, ShipInv, ShipTypeOK, Seen,
                    SuccessIsTrue
<1>14. CASE Push
  <2>1. at' = "idle" /\ at = "push"
        /\ UNCHANGED <<here, staged, commits, baseKnown, branch, opts, cleared, critical, raced,
                       strayed>>
    BY <1>14, SMT DEF Push, FinishWith, worktree
  <2>2. CASE /\ remote' = [remote EXCEPT ![branch] = [commits |-> commits[branch],
                                                      version |-> head[branch]]]
             /\ pushed'
    <3>1. remote' = [b \in Branches |-> remote'[b]] /\ remote'[branch].commits = commits[branch]
      BY <2>2, SMT DEF ShipInv, ShipTypeOK
    <3>2. ~strayed => \A g \in opts.gates : cleared[g] \subseteq remote'[branch].commits
      BY <2>1, <3>1, SMT DEF ShipInv, ShipTypeOK, ShipAssumption
    <3> QED
      BY <2>1, <2>2, <3>1, <3>2, SMT DEF ShipInv, ShipTypeOK, SuccessIsTrue
  <2>3. CASE report' = "blocked" /\ UNCHANGED remote
    BY <2>1, <2>3, SMT DEF ShipInv, ShipTypeOK, SuccessIsTrue
  <2>4. failed \cup {"push"} # {}
    OBVIOUS
  <2> QED
    BY <1>14, <2>2, <2>3, <2>4, SMT DEF Push, FinishWith
<1>15. CASE SkipPush
  BY <1>15, SMT DEF SkipPush, FinishWith, repo, worktree, ShipInv, ShipTypeOK, SuccessIsTrue
<1>16. CASE UNCHANGED shipVars
  BY <1>16, SMT DEF shipVars, repo, worktree, run, ShipInv, ShipTypeOK, Seen, SuccessIsTrue
<1> QED
  BY <1>1, <1>2, <1>3, <1>4, <1>5, <1>6, <1>7, <1>8, <1>9, <1>10, <1>11, <1>12, <1>13,
     <1>14, <1>15, <1>16 DEF ShipNext, Developer, Gauntlet

(* A run of ship that reports success had no gate that saw a critical      *)
(* finding, whatever its threshold; if it was to push it has pushed, and   *)
(* what the gates passed is on origin unless another branch was checked    *)
(* out meanwhile (ship.rs 389-497, 572-617), for any branches, commits,    *)
(* options and number of runs.                                             *)
THEOREM SuccessMeansDone == ASSUME ShipAssumption PROVE ShipSpec => []SuccessIsTrue
<1>1. ShipInit => ShipInv
  BY ShipInvInit
<1>2. ShipInv /\ [ShipNext]_shipVars => ShipInv'
  BY ShipInvNext
<1>3. ShipInv => SuccessIsTrue
  BY DEF ShipInv
<1> QED
  BY <1>1, <1>2, <1>3, PTL DEF ShipSpec

(* No step of ship sends base to origin, nor a commit that a gate of the   *)
(* run was asked about and did not pass, unless it was made or staged      *)
(* while the run went on, or another branch was checked out meanwhile      *)
(* (ship.rs 218-353, 419-497).                                             *)
THEOREM PushesAreGated == ASSUME ShipAssumption PROVE ShipSpec => PushedWasGated
<1>1. ShipInit => ShipInv
  BY ShipInvInit
<1>2. ShipInv /\ [ShipNext]_shipVars => ShipInv'
  BY ShipInvNext
<1>3. ShipInv /\ [ShipNext]_shipVars => [~UngatedPush]_shipVars
  <2> SUFFICES ASSUME ShipInv, ShipNext, remote' # remote
               PROVE  ~UngatedPush
    BY DEF UngatedPush, shipVars
  <2>1. CASE Push
    <3>1. /\ remote' = [remote EXCEPT ![branch] = [commits |-> commits[branch],
                                                   version |-> head[branch]]]
          /\ at = "push"
      BY <2>1, Zenon DEF Push
    <3>2. remote'[branch].commits = commits[branch]
      BY <3>1, SMT DEF ShipInv, ShipTypeOK
    <3>3. opts.gates \subseteq Gated
      BY DEF ShipInv, ShipTypeOK, ShipAssumption
    <3>4. remote'[Base] = remote[Base]
      BY <3>1, SMT DEF ShipInv, ShipTypeOK, ShipAssumption
    <3> QED
      BY <3>1, <3>2, <3>3, <3>4, SMT DEF UngatedPush, ShipInv, Seen, Gated, PastReview, PastAudit,
                                         PastPentest
  <2>2. CASE Developer
    BY <2>2, Zenon DEF Developer, StageEdit, Checkout, Commit
  <2>3. CASE \E o \in Options : BeginShip(o)
    BY <2>3, Zenon DEF BeginShip, repo
  <2>4. CASE ReviewStage \/ AuditStage \/ PentestStage
    BY <2>4, Zenon DEF ReviewStage, AuditStage, PentestStage, GateStage, repo
  <2>5. CASE InstallDeps \/ Typecheck \/ Ahead \/ SkipPush
    BY <2>5, Zenon DEF InstallDeps, Typecheck, Ahead, SkipPush, repo
  <2>6. CASE SkipGate("review", "audit") \/ SkipGate("audit", "pentest")
             \/ SkipGate("pentest", "bump") \/ SkipBump
    BY <2>6, Zenon DEF SkipGate, SkipBump, repo
  <2>7. CASE Bump
    BY <2>7, Zenon DEF Bump
  <2> QED
    BY <2>1, <2>2, <2>3, <2>4, <2>5, <2>6, <2>7, Zenon DEF ShipNext, Gauntlet
<1> QED
  BY <1>1, <1>2, <1>3, PTL DEF ShipSpec, PushedWasGated

-----------------------------------------------------------------------------
(* Where an install stands tells what is in the hook's place, unless the   *)
(* user wrote there since it looked; a hook of the user's in that place is *)
(* the one she wrote last, and an empty file without an install under way  *)
(* is what an interrupted one left.                                        *)
HookInv ==
  /\ written \in Nat /\ newest \in Nat
  /\ step \in {"idle", "backup", "write", "fill", "chmod", "remove"}
  /\ hook \in Nat => hook \in {NoHook, newest}
  /\ hook \notin Nat => hook \in {Managed, EmptyFile}
  /\ hook = EmptyFile => step = "fill" \/ excuse = "cut short"
  /\ step = "backup" => hook # Managed
  /\ step = "write" /\ excuse = "none" => hook \in {NoHook, Managed}
  /\ step = "fill" /\ excuse = "none" => hook \in {NoHook, EmptyFile}
  /\ step = "remove" /\ excuse = "none" => hook \in {NoHook, Managed}

LEMMA HookInvInit == Init => HookInv /\ NewestHookKept
BY SMT DEF Init, HookInv, NewestHookKept, NoHook, Managed, EmptyFile

LEMMA Places ==
  /\ NoHook \in Nat /\ Managed \notin Nat /\ EmptyFile \notin Nat /\ Managed # EmptyFile
  /\ \A n \in Nat : n + 1 \in Nat /\ n + 1 # NoHook
BY SMT DEF NoHook, Managed, EmptyFile

(* The steps that could lose the newest hook are the rename over an older  *)
(* backup, which moves a hook of the user's, the newest, or the empty file *)
(* of an interrupted install; and those that truncate and remove, where    *)
(* there is no hook of hers unless she wrote it since the look.            *)
LEMMA HookInvNext ==
  HookInv /\ NewestHookKept /\ [Next]_vars => (HookInv /\ NewestHookKept)'
<1> SUFFICES ASSUME HookInv, NewestHookKept, [Next]_vars
             PROVE  (HookInv /\ NewestHookKept)'
  OBVIOUS
<1> USE DEF HookInv, NewestHookKept
<1>1. CASE WriteHook
  BY <1>1, Places DEF WriteHook, LookedAt
<1>2. CASE DeleteHook
  BY <1>2, Places DEF DeleteHook
<1>3. ASSUME NEW forced \in BOOLEAN, Install(forced)
      PROVE  (HookInv /\ NewestHookKept)'
  BY <1>3, Places DEF Install
<1>4. CASE BackUp
  <2>1. /\ bak' = hook /\ hook' = NoHook /\ step = "backup" /\ hook # NoHook /\ step' = "write"
        /\ UNCHANGED <<newest, written, excuse>>
    BY <1>4, Zenon DEF BackUp
  <2>2. excuse # "none" \/ hook = newest
    BY <2>1, Places
  <2> QED
    BY <2>1, <2>2, Places
<1>5. CASE OpenHook
  <2>1. /\ hook' = EmptyFile /\ step = "write" /\ step' = "fill"
        /\ UNCHANGED <<bak, newest, written, excuse>>
    BY <1>5, Zenon DEF OpenHook
  <2>2. excuse = "none" => newest \in {NoHook, bak}
    BY <2>1, Places
  <2> QED
    BY <2>1, <2>2, Places
<1>6. CASE FillHook
  <2>1. /\ \/ hook # NoHook /\ hook' = Managed
           \/ hook # EmptyFile /\ hook' = hook
        /\ step = "fill" /\ step' = "chmod" /\ UNCHANGED <<bak, newest, written, excuse>>
    BY <1>6, Zenon DEF FillHook
  <2>2. excuse = "none" => newest \in {NoHook, bak}
    BY <2>1, Places
  <2>3. CASE hook' = Managed
    BY <2>1, <2>2, <2>3, Places
  <2>4. CASE hook' = hook /\ hook # EmptyFile
    BY <2>1, <2>2, <2>4, Places
  <2> QED
    BY <2>1, <2>3, <2>4, Zenon
<1>7. CASE SetExecutable
  BY <1>7, Places DEF SetExecutable
<1>8. CASE Abandon
  <2>1. excuse' = IF step = "fill" THEN "cut short" ELSE excuse
    BY <1>8, Zenon DEF Abandon
  <2>2. step # "idle" /\ step' = "idle"
        /\ UNCHANGED <<hook, executable, bak, newest, written, push>>
    BY <1>8, Zenon DEF Abandon
  <2> QED
    BY <2>1, <2>2, Places
<1>9. CASE Uninstall \/ RemoveHook
  BY <1>9, Places DEF Uninstall, RemoveHook
<1>10. ASSUME NEW skip \in BOOLEAN, NEW found \in {{}, {"medium"}, {"high"}},
              GitPush(skip, found)
       PROVE  (HookInv /\ NewestHookKept)'
  BY <1>10, Zenon DEF GitPush
<1>11. CASE UNCHANGED vars
  BY <1>11, Zenon DEF vars
<1> QED
  BY <1>1, <1>2, <1>3, <1>4, <1>5, <1>6, <1>7, <1>8, <1>9, <1>10, <1>11 DEF Next

(* hook.rs 39-74 keeps the hook the user wrote last, in its place or as    *)
(* the backup, unless she wrote it after an install or uninstall had       *)
(* looked, or an install since was cut short before it filled its file.    *)
THEOREM NewestHookIsKept == Spec => []NewestHookKept
<1>1. HookInv /\ NewestHookKept /\ [Next]_vars => (HookInv /\ NewestHookKept)'
  BY HookInvNext
<1> QED
  BY HookInvInit, <1>1, PTL DEF Spec

-----------------------------------------------------------------------------
(* Engulf.  How many of the phases of the run are done.                    *)
PhaseNames == {"scan", "security", "docs", "vault", "deploy"}
NoteTexts == {NoteNames[i] : i \in 1 .. Len(NoteNames)}
Done == Len(asked) - Len(todo)

(* The phases to do are the last ones of those asked for.                  *)
InOrder ==
  /\ asked \in Seq(PhaseNames) /\ todo \in Seq(PhaseNames)
  /\ Done \in Nat
  /\ \A i \in 1 .. Len(todo) : todo[i] = asked[Done + i]

(* The source of a text has been done again since the text was written.    *)
Stale(t) ==
  \E i \in 1 .. Done : asked[i] = Source(t) /\ \A j \in i .. Done : asked[j] # Writer(t)

Right(t) == disk[t] \notin {NoText, TornText} /\ (IsCurrent(t) \/ Stale(t))

(* A text that is written is right from then on.                           *)
EngulfInv ==
  /\ InOrder
  /\ outcome = "ok" => todo = <<>>
  /\ summary.written \subseteq Texts
  /\ summary.written # {} => scan # NoScan
  /\ DOMAIN disk = Texts
  /\ \A t \in summary.written : Right(t)

LEMMA PhaseListsAreLists ==
  ASSUME EngulfAssumption, NEW phases \in PhaseLists
  PROVE  phases \in Seq(PhaseNames) /\ AllPhases \in Seq(PhaseNames)
<1>1. ToSet(AllPhases) = PhaseNames
  BY SMT DEF ToSet, AllPhases, PhaseNames
<1>2. AllPhases \in Seq(PhaseNames)
  BY SMT DEF AllPhases, PhaseNames
<1> QED
  BY <1>1, <1>2, Zenon DEF EngulfAssumption

(* When a phase is done, what was stale still is, if the phase has not     *)
(* written it, and what the phase is the source of is.                     *)
LEMMA PhaseDone ==
  ASSUME InOrder, NEW phase, Doing(phase), todo' = Tail(todo), asked' = asked
  PROVE  /\ InOrder'
         /\ \A t : phase # Writer(t) /\ (Stale(t) \/ phase = Source(t)) => Stale(t)'
<1>1. todo \in Seq(PhaseNames) /\ todo # <<>> /\ Head(todo) = phase
  BY DEF InOrder, Doing, Idle
<1>2. /\ todo' \in Seq(PhaseNames) /\ Len(todo') = Len(todo) - 1
      /\ \A i \in 1 .. Len(todo') : todo'[i] = todo[i + 1]
  BY <1>1, HeadTailProperties
<1>3. Len(todo) \in Nat /\ Len(todo) > 0 /\ Len(asked) \in Nat
  BY <1>1, EmptySeq, LenProperties, SMT DEF InOrder
<1>4. Done' = Done + 1 /\ Done \in Nat /\ Done' \in Nat
  BY <1>2, <1>3, SMT DEF Done, InOrder
<1>5. asked[Done'] = phase
  <2>1. todo[1] = phase
    BY <1>1, <1>3
  <2> QED
    BY <1>3, <1>4, <2>1, SMT DEF InOrder
<1>6. ASSUME NEW i \in 1 .. Len(todo')
      PROVE  todo'[i] = asked[Done' + i]
  <2>1. i + 1 \in 1 .. Len(todo) /\ Done + (i + 1) = Done' + i
    BY <1>2, <1>3, <1>4, SMT
  <2> QED
    BY <1>2, <2>1, SMT DEF InOrder
<1>7. InOrder'
  BY <1>2, <1>4, <1>6, Zenon DEF InOrder
<1>8. ASSUME NEW t, phase # Writer(t), Stale(t)
      PROVE  Stale(t)'
  <2>1. PICK i \in 1 .. Done : asked[i] = Source(t) /\ \A j \in i .. Done : asked[j] # Writer(t)
    BY <1>8 DEF Stale
  <2>2. i \in 1 .. Done' /\ \A j \in i .. Done' : j \in i .. Done \/ j = Done'
    BY <1>4, SMT
  <2>3. \A j \in i .. Done' : asked[j] # Writer(t)
    BY <1>5, <1>8, <2>1, <2>2, Zenon
  <2> QED
    BY <2>1, <2>2, <2>3, Zenon DEF Stale, Source, Writer
<1>9. ASSUME NEW t, phase # Writer(t), phase = Source(t)
      PROVE  Stale(t)'
  <2>1. Done' \in 1 .. Done' /\ \A j \in Done' .. Done' : j = Done'
    BY <1>4, SMT
  <2> QED
    BY <1>5, <1>9, <2>1, Zenon DEF Stale, Source, Writer
<1> QED
  BY <1>7, <1>8, <1>9

(* A text is not disturbed by a phase that does not write it.              *)
LEMMA StaysRight ==
  ASSUME InOrder, NEW phase, Doing(phase), todo' = Tail(todo), asked' = asked,
         NEW t, Right(t), disk'[t] = disk[t], phase # Writer(t),
         phase = Source(t) \/ (IsCurrent(t) => IsCurrent(t)')
  PROVE  Right(t)'
BY PhaseDone, Zenon DEF Right

LEMMA GivesUp ==
  ASSUME EngulfInv, GiveUp, asked' = asked, DOMAIN disk' = Texts
  PROVE  EngulfInv'
<1>1. todo' = <<>> /\ summary'.written = {} /\ outcome' = "error"
  BY SMT DEF GiveUp, NoSummary
<1>2. todo' \in Seq(PhaseNames) /\ Len(todo') = 0
  BY <1>1
<1>3. Len(asked) \in Nat
  BY LenProperties DEF EngulfInv, InOrder
<1>4. InOrder'
  BY <1>2, <1>3, SMT DEF EngulfInv, InOrder, Done
<1> QED
  BY <1>1, <1>4, SMT DEF EngulfInv

LEMMA NamesOfTexts ==
  /\ Len(NoteNames) = 8 /\ NoteTexts = ToSet(NoteNames) /\ NoteTexts \subseteq Texts
  /\ \A i, j \in 1 .. 8 : NoteNames[i] = NoteNames[j] => i = j
  /\ \A i \in 1 .. 8 : NoteNames[i] = "Deployment" => i = 5
  /\ NoteNames[5] = "Deployment"
  /\ "SECURITY.md" \notin NoteTexts /\ "DEPLOYMENT.md" \notin NoteTexts
  /\ {"SECURITY.md", "DEPLOYMENT.md"} \subseteq Texts
<1>1. Len(NoteNames) = 8 /\ DOMAIN NoteNames = 1 .. 8
  BY SMT DEF NoteNames
<1>2. NoteTexts = ToSet(NoteNames)
  BY <1>1, Zenon DEF NoteTexts, ToSet
<1>3. \A i \in 1 .. 8 : i \in {1, 2, 3, 4, 5, 6, 7, 8}
  BY SMT
<1>4. \A i, j \in {1, 2, 3, 4, 5, 6, 7, 8} : NoteNames[i] = NoteNames[j] => i = j
  BY SMT DEF NoteNames
<1>5. \A i \in 1 .. 8 : NoteNames[i] = "Deployment" => i = 5
  BY SMT DEF NoteNames
<1>6. \A i \in 1 .. 8 : NoteNames[i] # "SECURITY.md"
  BY SMT DEF NoteNames
<1>7. \A i \in 1 .. 8 : NoteNames[i] # "DEPLOYMENT.md"
  BY SMT DEF NoteNames
<1>8. NoteNames[5] = "Deployment"
  BY SMT DEF NoteNames
<1> QED
  BY <1>1, <1>2, <1>3, <1>4, <1>5, <1>6, <1>7, <1>8, Zenon DEF NoteTexts, Texts

(* A report is not one of the two that stand for no report.                *)
LEMMA ReportsAreWhole ==
  ASSUME NEW s, NEW a, NEW r
  PROVE  /\ SecurityReport(s, a) \notin {NoText, TornText}
         /\ RunbookReport(s, r) \notin {NoText, TornText}
         /\ \A i \in 1 .. 8 : Notes(s, a, r)[i] \notin {NoText, TornText}
<1>1. \A x \in {NoText, TornText} : DOMAIN x = {"text"}
  BY SMT DEF NoText, TornText
<1>2. "text" \notin DOMAIN SecurityReport(s, a) /\ "text" \notin DOMAIN RunbookReport(s, r)
  BY SMT DEF SecurityReport, RunbookReport
<1>3. /\ "text" \notin DOMAIN HomeNote(s) /\ "text" \notin DOMAIN ArchitectureNote(s)
      /\ "text" \notin DOMAIN ApiNote(s) /\ "text" \notin DOMAIN SecurityNote(a)
      /\ "text" \notin DOMAIN DeploymentNote(r) /\ "text" \notin DOMAIN DependenciesNote(s)
      /\ "text" \notin DOMAIN OnboardingNote(s) /\ "text" \notin DOMAIN CodebaseMapNote(s)
  BY SMT DEF HomeNote, ArchitectureNote, ApiNote, SecurityNote, DeploymentNote,
     DependenciesNote, OnboardingNote, CodebaseMapNote
<1>4. \A i \in 1 .. 8 : "text" \notin DOMAIN Notes(s, a, r)[i]
  BY <1>3, SMT DEF Notes
<1> QED
  BY <1>1, <1>2, <1>4

(* What the notes do not show does not matter to them.                     *)
LEMMA NotesDepend ==
  ASSUME NEW s, NEW a, NEW r, NEW q, NEW i \in 1 .. 8
  PROVE  /\ NoteNames[i] # "Deployment" => Notes(s, a, r)[i] = Notes(s, a, q)[i]
         /\ NoteNames[i] # "Security" => Notes(s, a, r)[i] = Notes(s, q, r)[i]
         /\ NoteNames[i] \in {"Security", "Deployment"} => Notes(s, a, r)[i] = Notes(q, a, r)[i]
<1>1. /\ i # 5 => Notes(s, a, r)[i] = Notes(s, a, q)[i]
      /\ i # 4 => Notes(s, a, r)[i] = Notes(s, q, r)[i]
      /\ i \in {4, 5} => Notes(s, a, r)[i] = Notes(q, a, r)[i]
  BY SMT DEF Notes
<1>2. /\ NoteNames[i] # "Deployment" => i # 5
      /\ NoteNames[i] # "Security" => i # 4
      /\ NoteNames[i] \in {"Security", "Deployment"} => i \in {4, 5}
  BY SMT DEF NoteNames
<1> QED
  BY <1>1, <1>2, Zenon

LEMMA EngulfInvInit == EngulfInit => EngulfInv
<1> SUFFICES ASSUME EngulfInit PROVE EngulfInv
  OBVIOUS
<1>1. todo \in Seq(PhaseNames) /\ Len(todo) = 0 /\ asked \in Seq(PhaseNames) /\ Len(asked) = 0
  BY SMT DEF EngulfInit
<1>2. InOrder /\ todo = <<>>
  BY <1>1, SMT DEF InOrder, Done, EngulfInit
<1>3. summary.written = {} /\ DOMAIN disk = Texts
  BY SMT DEF EngulfInit, NoSummary
<1> QED
  BY <1>2, <1>3, SMT DEF EngulfInv

LEMMA BeginEngulfKeeps ==
  ASSUME EngulfAssumption, EngulfInv, NEW phases \in PhaseLists, BeginEngulf(phases)
  PROVE  EngulfInv'
<1>1. /\ todo' = asked' /\ scan' = NoScan /\ summary'.written = {} /\ disk' = disk
      /\ outcome' = "none"
  BY SMT DEF BeginEngulf, NoSummary
<1>2. asked' \in Seq(PhaseNames)
  BY PhaseListsAreLists, Zenon DEF BeginEngulf
<1>3. InOrder'
  BY <1>1, <1>2, LenProperties, SMT DEF InOrder, Done
<1> QED
  BY <1>1, <1>3, SMT DEF EngulfInv

(* What a phase that is done has to see to: the texts W it has written are *)
(* right, and the others are not disturbed.                                *)
PhaseWrites(phase, W) ==
  /\ Doing(phase) /\ todo' = Tail(todo) /\ asked' = asked
  /\ outcome' = IF Tail(todo) = <<>> THEN "ok" ELSE outcome
  /\ DOMAIN disk' = Texts
  /\ summary'.written = summary.written \cup W /\ W \subseteq Texts
  /\ summary'.written # {} => scan' # NoScan
  /\ \A t \in W : Right(t)'
  /\ \A t \in summary.written \ W :
       /\ disk'[t] = disk[t] /\ phase # Writer(t)
       /\ phase = Source(t) \/ (IsCurrent(t) => IsCurrent(t)')

LEMMA PhaseKeeps ==
  ASSUME EngulfInv, NEW phase, NEW W, PhaseWrites(phase, W)
  PROVE  EngulfInv'
<1>1. InOrder'
  BY PhaseDone, Zenon DEF EngulfInv, PhaseWrites
<1>2. outcome' = "ok" => todo' = <<>>
  <2>1. todo # <<>> => outcome # "ok"
    BY Zenon DEF EngulfInv
  <2> QED
    BY <2>1, SMT DEF PhaseWrites, Doing, Idle
<1>3. ASSUME NEW t \in summary.written \ W
      PROVE  Right(t)'
  <2>1. Right(t) /\ InOrder
    BY <1>3, Zenon DEF EngulfInv
  <2> QED
    BY <1>3, <2>1, StaysRight, Zenon DEF PhaseWrites
<1> QED
  BY <1>1, <1>2, <1>3, Zenon DEF EngulfInv, PhaseWrites

(* A text stays current while nothing it shows changes.                    *)
LEMMA CurrentStays ==
  ASSUME NEW t, disk'[t] = disk[t],
         scan' = scan \/ t \in {"Security", "Deployment"},
         audit' = audit \/ t \notin {"Security", "SECURITY.md"},
         runbook' = runbook \/ t \notin {"Deployment", "DEPLOYMENT.md"}
  PROVE  IsCurrent(t) => IsCurrent(t)'
<1>1. ASSUME NEW i \in 1 .. 8, t = NoteNames[i]
      PROVE  Notes(scan', audit', runbook')[i] = Notes(scan, audit, runbook)[i]
  <2>1. /\ scan' = scan \/ NoteNames[i] \in {"Security", "Deployment"}
        /\ audit' = audit \/ NoteNames[i] # "Security"
        /\ runbook' = runbook \/ NoteNames[i] # "Deployment"
    BY <1>1, Zenon
  <2>2. Notes(scan', audit', runbook')[i] = Notes(scan, audit', runbook')[i]
    BY <2>1, NotesDepend
  <2>3. Notes(scan, audit', runbook')[i] = Notes(scan, audit, runbook')[i]
    BY <2>1, NotesDepend
  <2>4. Notes(scan, audit, runbook')[i] = Notes(scan, audit, runbook)[i]
    BY <2>1, NotesDepend
  <2> QED
    BY <2>2, <2>3, <2>4
<1>2. t = "SECURITY.md" => scan' = scan /\ audit' = audit
  BY SMT
<1>3. t = "DEPLOYMENT.md" => scan' = scan /\ runbook' = runbook
  BY SMT
<1> QED
  BY <1>1, <1>2, <1>3, NamesOfTexts, Zenon DEF IsCurrent

(* The text a phase writes is right.                                       *)
LEMMA NewIsRight ==
  ASSUME NEW t, disk'[t] \notin {NoText, TornText}, IsCurrent(t)'
  PROVE  Right(t)'
BY Zenon DEF Right

LEMMA ScanKeeps == ASSUME EngulfInv, ScanPhase PROVE EngulfInv'
<1>1. /\ Doing("scan") /\ todo' = Tail(todo) /\ UNCHANGED <<asked, audit, runbook, disk>>
      /\ outcome' = IF Tail(todo) = <<>> THEN "ok" ELSE outcome
      /\ summary'.written = summary.written \cup {}
  BY SMT DEF ScanPhase, Complete
<1>2. scan' # NoScan
  <2>1. "none" \in DOMAIN NoScan
    BY SMT DEF NoScan
  <2>2. \A r \in Scans(tree) : "none" \notin DOMAIN r
    BY SMT DEF Scans
  <2> QED
    BY <2>1, <2>2, Zenon DEF ScanPhase
<1>3. ASSUME NEW t \in summary.written
      PROVE  /\ "scan" # Writer(t)
             /\ "scan" = Source(t) \/ (IsCurrent(t) => IsCurrent(t)')
  <2>1. "scan" # Writer(t)
    BY SMT DEF Writer
  <2>2. t \in {"Security", "Deployment"} => (IsCurrent(t) => IsCurrent(t)')
    BY <1>1, CurrentStays, Zenon
  <2>3. t \notin {"Security", "Deployment"} => Source(t) = "scan"
    BY Zenon DEF Source
  <2> QED
    BY <2>1, <2>2, <2>3, Zenon
<1>4. PhaseWrites("scan", {})
  BY <1>1, <1>2, <1>3, Zenon DEF EngulfInv, PhaseWrites
<1> QED
  BY <1>4, PhaseKeeps

(* Documents, and phases that need a scan where there is none.             *)
LEMMA SkipKeeps ==
  ASSUME EngulfInv, NEW phase, Doing(phase), Skip(phase), phase = "docs" \/ scan = NoScan
  PROVE  EngulfInv'
<1>1. /\ todo' = Tail(todo) /\ summary'.written = summary.written \cup {}
      /\ UNCHANGED <<asked, scan, audit, runbook, disk>>
      /\ outcome' = IF Tail(todo) = <<>> THEN "ok" ELSE outcome
  BY SMT DEF Skip, results
<1>2. ASSUME NEW t \in summary.written
      PROVE  phase # Writer(t) /\ (IsCurrent(t) => IsCurrent(t)')
  <2>1. phase = "docs"
    BY Zenon DEF EngulfInv
  <2>2. "docs" # Writer(t)
    BY SMT DEF Writer
  <2> QED
    BY <1>1, <2>1, <2>2, Zenon DEF IsCurrent
<1>3. PhaseWrites(phase, {})
  BY <1>1, <1>2, Zenon DEF EngulfInv, PhaseWrites
<1> QED
  BY <1>3, PhaseKeeps

LEMMA SecurityKeeps == ASSUME EngulfInv, SecurityPhase PROVE EngulfInv'
<1>1. PICK answer \in Answers :
        \/ /\ audit' = AuditWith(scan, answer)
           /\ disk' = [disk EXCEPT !["SECURITY.md"] = SecurityReport(scan, audit')]
           /\ Complete("security", {"SECURITY.md"})
        \/ WriteGivesUp("SECURITY.md") /\ UNCHANGED audit
  BY Zenon DEF SecurityPhase
<1>2. Doing("security") /\ scan # NoScan /\ UNCHANGED <<asked, scan, runbook>>
  BY Zenon DEF SecurityPhase
<1>3. CASE WriteGivesUp("SECURITY.md")
  <2>1. DOMAIN disk' = Texts /\ GiveUp
    BY <1>3, SMT DEF WriteGivesUp, EngulfInv
  <2> QED
    BY <1>2, <2>1, GivesUp
<1>4. CASE /\ disk' = [disk EXCEPT !["SECURITY.md"] = SecurityReport(scan, audit')]
           /\ Complete("security", {"SECURITY.md"})
  <2>1. /\ todo' = Tail(todo) /\ summary'.written = summary.written \cup {"SECURITY.md"}
        /\ outcome' = IF Tail(todo) = <<>> THEN "ok" ELSE outcome
    BY <1>4, SMT DEF Complete
  <2>2. DOMAIN disk' = Texts /\ disk'["SECURITY.md"] = SecurityReport(scan, audit')
        /\ \A t \in Texts : t # "SECURITY.md" => disk'[t] = disk[t]
    BY <1>4, NamesOfTexts, SMT DEF EngulfInv
  <2>3. Right("SECURITY.md")'
    BY <1>2, <2>2, NamesOfTexts, ReportsAreWhole, NewIsRight, Zenon DEF IsCurrent, NoteTexts
  <2>4. ASSUME NEW t \in summary.written, t # "SECURITY.md"
        PROVE  /\ disk'[t] = disk[t] /\ "security" # Writer(t)
               /\ "security" = Source(t) \/ (IsCurrent(t) => IsCurrent(t)')
    <3>1. t \in Texts /\ disk'[t] = disk[t]
      BY <2>2, <2>4 DEF EngulfInv
    <3>2. "security" # Writer(t)
      BY <2>4, SMT DEF Writer
    <3>3. t = "Security" => "security" = Source(t)
      BY SMT DEF Source
    <3>4. t # "Security" => (IsCurrent(t) => IsCurrent(t)')
      BY <1>2, <2>4, <3>1, CurrentStays, Zenon
    <3> QED
      BY <3>1, <3>2, <3>3, <3>4, Zenon
  <2>5. PhaseWrites("security", {"SECURITY.md"})
    BY <1>2, <2>1, <2>2, <2>3, <2>4, NamesOfTexts, Zenon DEF PhaseWrites
  <2> QED
    BY <2>5, PhaseKeeps
<1> QED
  BY <1>1, <1>3, <1>4

LEMMA DeployKeeps == ASSUME EngulfInv, DeployPhase PROVE EngulfInv'
<1>1. PICK answer \in Answers :
        \/ /\ runbook' = GenerateRunbook(scan, answer)
           /\ disk' = [disk EXCEPT !["DEPLOYMENT.md"] = RunbookReport(scan, runbook')]
           /\ Complete("deploy", {"DEPLOYMENT.md"})
        \/ WriteGivesUp("DEPLOYMENT.md") /\ UNCHANGED runbook
  BY Zenon DEF DeployPhase
<1>2. Doing("deploy") /\ scan # NoScan /\ UNCHANGED <<asked, scan, audit>>
  BY Zenon DEF DeployPhase
<1>3. CASE WriteGivesUp("DEPLOYMENT.md")
  <2>1. DOMAIN disk' = Texts /\ GiveUp
    BY <1>3, SMT DEF WriteGivesUp, EngulfInv
  <2> QED
    BY <1>2, <2>1, GivesUp
<1>4. CASE /\ disk' = [disk EXCEPT !["DEPLOYMENT.md"] = RunbookReport(scan, runbook')]
           /\ Complete("deploy", {"DEPLOYMENT.md"})
  <2>1. /\ todo' = Tail(todo) /\ summary'.written = summary.written \cup {"DEPLOYMENT.md"}
        /\ outcome' = IF Tail(todo) = <<>> THEN "ok" ELSE outcome
    BY <1>4, SMT DEF Complete
  <2>2. DOMAIN disk' = Texts /\ disk'["DEPLOYMENT.md"] = RunbookReport(scan, runbook')
        /\ \A t \in Texts : t # "DEPLOYMENT.md" => disk'[t] = disk[t]
    BY <1>4, NamesOfTexts, SMT DEF EngulfInv
  <2>3. Right("DEPLOYMENT.md")'
    BY <1>2, <2>2, NamesOfTexts, ReportsAreWhole, NewIsRight, Zenon DEF IsCurrent, NoteTexts
  <2>4. ASSUME NEW t \in summary.written, t # "DEPLOYMENT.md"
        PROVE  /\ disk'[t] = disk[t] /\ "deploy" # Writer(t)
               /\ "deploy" = Source(t) \/ (IsCurrent(t) => IsCurrent(t)')
    <3>1. t \in Texts /\ disk'[t] = disk[t]
      BY <2>2, <2>4 DEF EngulfInv
    <3>2. "deploy" # Writer(t)
      BY <2>4, SMT DEF Writer
    <3>3. t = "Deployment" => "deploy" = Source(t)
      BY SMT DEF Source
    <3>4. t # "Deployment" => (IsCurrent(t) => IsCurrent(t)')
      BY <1>2, <2>4, <3>1, CurrentStays, Zenon
    <3> QED
      BY <3>1, <3>2, <3>3, <3>4, Zenon
  <2>5. PhaseWrites("deploy", {"DEPLOYMENT.md"})
    BY <1>2, <2>1, <2>2, <2>3, <2>4, NamesOfTexts, Zenon DEF PhaseWrites
  <2> QED
    BY <2>5, PhaseKeeps
<1> QED
  BY <1>1, <1>3, <1>4

LEMMA VaultKeeps == ASSUME EngulfInv, VaultPhase PROVE EngulfInv'
<1>1. Doing("vault") /\ scan # NoScan /\ UNCHANGED <<asked, scan, audit, runbook>>
  BY Zenon DEF VaultPhase, results
<1>2. \A n : DOMAIN WriteNotes(n) = Texts
  BY Zenon DEF WriteNotes
<1>3. CASE GiveUp /\ \E n : \/ disk' = WriteNotes(n)
                            \/ disk' = [WriteNotes(n) EXCEPT ![NoteNames[n]] = TornText]
  <2>1. DOMAIN disk' = Texts
    <3>1. PICK n : \/ disk' = WriteNotes(n)
                   \/ disk' = [WriteNotes(n) EXCEPT ![NoteNames[n]] = TornText]
      BY <1>3
    <3> HIDE DEF WriteNotes
    <3> QED
      BY <1>2, <3>1, SMT
  <2> QED
    BY <1>1, <1>3, <2>1, GivesUp
<1>4. CASE disk' = WriteNotes(Len(NoteNames)) /\ Complete("vault", ToSet(NoteNames))
  <2>1. /\ todo' = Tail(todo) /\ summary'.written = summary.written \cup NoteTexts
        /\ outcome' = IF Tail(todo) = <<>> THEN "ok" ELSE outcome
    BY <1>4, NamesOfTexts, SMT DEF Complete
  <2>2. ASSUME NEW i \in 1 .. 8
        PROVE  disk'[NoteNames[i]] = Notes(scan, audit, runbook)[i]
    <3>1. NoteNames[i] \in NoteTexts /\ NoteNames[i] \in Texts /\ i \in 1 .. Len(NoteNames)
      BY NamesOfTexts, Zenon DEF NoteTexts
    <3>2. (CHOOSE j \in 1 .. Len(NoteNames) : NoteNames[j] = NoteNames[i]) = i
      BY <3>1, NamesOfTexts, Zenon
    <3> QED
      BY <1>4, <3>1, <3>2, Zenon DEF WriteNotes
  <2>3. ASSUME NEW t \in NoteTexts
        PROVE  Right(t)'
    <3>1. PICK i \in 1 .. 8 : t = NoteNames[i]
      BY NamesOfTexts, Zenon DEF NoteTexts
    <3>2. disk'[t] = Notes(scan, audit, runbook)[i]
      BY <2>2, <3>1
    <3>3. \A j \in 1 .. Len(NoteNames) : t = NoteNames[j] => j = i
      BY <3>1, NamesOfTexts, Zenon
    <3>4. t # "SECURITY.md" /\ t # "DEPLOYMENT.md"
      BY NamesOfTexts, Zenon
    <3>5. disk'[t] \notin {NoText, TornText}
      BY <3>2, ReportsAreWhole, Zenon
    <3> QED
      BY <1>1, <3>2, <3>3, <3>4, <3>5, NewIsRight, Zenon DEF IsCurrent
  <2>4. ASSUME NEW t \in summary.written, t \notin NoteTexts
        PROVE  disk'[t] = disk[t] /\ "vault" # Writer(t) /\ (IsCurrent(t) => IsCurrent(t)')
    <3>1. t \in Texts /\ t \in {"SECURITY.md", "DEPLOYMENT.md"}
      BY <2>4, NamesOfTexts DEF EngulfInv, Texts
    <3>2. disk'[t] = disk[t]
      BY <1>4, <2>4, <3>1, Zenon DEF WriteNotes, NoteTexts
    <3>3. "vault" # Writer(t)
      BY <3>1, SMT DEF Writer
    <3> QED
      BY <1>1, <3>2, <3>3, Zenon DEF IsCurrent
  <2>5. DOMAIN disk' = Texts
    BY <1>2, <1>4, Zenon
  <2>6. PhaseWrites("vault", NoteTexts)
    BY <1>1, <2>1, <2>3, <2>4, <2>5, NamesOfTexts, Zenon DEF PhaseWrites
  <2> QED
    BY <2>6, PhaseKeeps
<1> QED
  BY <1>3, <1>4, Zenon DEF VaultPhase

LEMMA EngulfInvNext ==
  ASSUME EngulfAssumption, EngulfInv, [EngulfNext]_engulfVars
  PROVE  EngulfInv'
<1>1. CASE UNCHANGED engulfVars
  <2>1. UNCHANGED <<tree, todo, asked, outcome, scan, audit, runbook, disk, summary>>
    BY <1>1, SMT DEF engulfVars, results
  <2>2. InOrder' <=> InOrder
    BY <2>1, SMT DEF InOrder, Done
  <2>3. ASSUME NEW t
        PROVE  Right(t) => Right(t)'
    <3>1. IsCurrent(t) => IsCurrent(t)'
      BY <2>1, SMT DEF IsCurrent
    <3>2. Stale(t) => Stale(t)'
      BY <2>1, SMT DEF Stale, Done
    <3> QED
      BY <2>1, <3>1, <3>2, Zenon DEF Right
  <2> QED
    BY <2>1, <2>2, <2>3, SMT DEF EngulfInv
<1>2. CASE Docs
  BY <1>2, SkipKeeps DEF Docs
<1>3. CASE NothingScanned("security") \/ NothingScanned("deploy") \/ NothingScanned("vault")
  BY <1>3, SkipKeeps DEF NothingScanned
<1> QED
  BY <1>1, <1>2, <1>3, BeginEngulfKeeps, ScanKeeps, SecurityKeeps, DeployKeeps, VaultKeeps
     DEF EngulfNext

(* When the run is over, a stale text is one that the list of the caller   *)
(* has outdated.                                                           *)
LEMMA StaleIsOutdated ==
  ASSUME InOrder, todo = <<>>, NEW t, Stale(t)
  PROVE  Outdated(t)
<1>1. Len(asked) \in Nat /\ DOMAIN asked = 1 .. Len(asked) /\ Done = Len(asked)
  BY LenProperties, SMT DEF InOrder, Done
<1>2. PICK i \in 1 .. Done : asked[i] = Source(t) /\ \A j \in i .. Done : asked[j] # Writer(t)
  BY DEF Stale
<1>3. \A j \in 1 .. Done : j \in i .. Done \/ j < i
  BY <1>1, SMT
<1> QED
  BY <1>1, <1>2, <1>3, Zenon DEF Outdated

(* What a run of engulf that succeeds says it has written is on disk,      *)
(* whole, and shows what the run found last, unless the caller asked for   *)
(* its source after it (lib.rs 108-241, vault.rs 45-83), for any           *)
(* repositories, answers and lists of phases, repeats included.            *)
THEOREM WhatIsWrittenIsCurrent ==
  ASSUME EngulfAssumption PROVE EngulfSpec => []WrittenIsCurrent
<1>1. EngulfInit => EngulfInv
  BY EngulfInvInit
<1>2. EngulfInv /\ [EngulfNext]_engulfVars => EngulfInv'
  BY EngulfInvNext
<1>3. EngulfInv => WrittenIsCurrent
  BY StaleIsOutdated, Zenon DEF EngulfInv, WrittenIsCurrent, Right
<1> QED
  BY <1>1, <1>2, <1>3, PTL DEF EngulfSpec

-----------------------------------------------------------------------------
LEMMA ImageIsFinite ==
  ASSUME NEW S, IsFiniteSet(S), NEW f
  PROVE  IsFiniteSet({f[x] : x \in S})
<1> DEFINE T == {f[x] : x \in S}
           g == [x \in S |-> f[x]]
<1>1. g \in Surjection(S, T)
  BY DEF Surjection
<1> QED
  BY <1>1, FS_Surjection

(* What the scanner makes of a repository with a .env.                     *)
LEMMA EnvIsCollected ==
  ASSUME NEW t, Env \in t
  PROVE  Env \in CollectFiles(t) /\ Env \in Root(CollectFiles(t), ".env")
<1>1. Env.path = ".env" /\ Env.dir = "" /\ Env.name = ".env"
  BY Zenon DEF Env, FileAt
<1>2. "" \notin SkipDirs
  BY SMT DEF SkipDirs
<1>3. {"", ".env"} \cap Hidden \subseteq ConfigFiles
  BY SMT DEF Hidden, ConfigFiles
<1>4. Env \in CollectFiles(t)
  BY <1>1, <1>2, <1>3, Zenon DEF CollectFiles
<1> QED
  BY <1>1, <1>4, Zenon DEF Root

LEMMA HintsAreFinite ==
  ASSUME NEW t, IsFiniteSet(t), NEW s \in Scans(t)
  PROVE  IsFiniteSet(s.hints)
<1> DEFINE files == CollectFiles(t)
           Hint(severity, kind) ==
             [f \in files |-> [severity |-> severity, kind |-> kind, path |-> f.path]]
<1>1. PICK inSecrets \in FirstOf(SecretFiles(files)) :
        s.hints = DetectSecurityHints(files, inSecrets)
  BY SMT DEF Scans
<1>2. inSecrets \subseteq SecretFiles(files)
  BY Zenon DEF FirstOf, kSubset
<1>3. SecretFiles(files) \subseteq files
  BY Zenon DEF SecretFiles, CodeFiles
<1>4. files \subseteq t
  BY Zenon DEF CollectFiles
<1>5. IsFiniteSet(Root(files, ".env")) /\ Root(files, ".env") \subseteq files
  <2>1. Root(files, ".env") \subseteq files
    BY Zenon DEF Root
  <2> QED
    BY <1>4, <2>1, FS_Subset
<1>6. /\ IsFiniteSet({g \in inSecrets : g.secret})
      /\ {g \in inSecrets : g.secret} \subseteq files
  <2>1. {g \in inSecrets : g.secret} \subseteq files
    BY <1>2, <1>3
  <2> QED
    BY <1>4, <2>1, FS_Subset
<1>7. ASSUME NEW severity, NEW kind, NEW S, S \subseteq files, IsFiniteSet(S)
      PROVE  IsFiniteSet({[severity |-> severity, kind |-> kind, path |-> f.path] : f \in S})
  <2>1. {[severity |-> severity, kind |-> kind, path |-> f.path] : f \in S}
          = {Hint(severity, kind)[f] : f \in S}
    BY <1>7
  <2>2. IsFiniteSet({Hint(severity, kind)[f] : f \in S})
    <3> HIDE DEF Hint
    <3> QED
      BY <1>7, ImageIsFinite
  <2> QED
    BY <2>1, <2>2
<1>8. /\ IsFiniteSet({[severity |-> "critical", kind |-> "committed-secrets", path |-> f.path]
                        : f \in Root(files, ".env")})
      /\ IsFiniteSet({[severity |-> "critical", kind |-> "hardcoded-secret", path |-> f.path]
                        : f \in {g \in inSecrets : g.secret}})
  BY <1>5, <1>6, <1>7
<1>9. IsFiniteSet(IF Root(files, ".gitignore") # {} THEN {}
                  ELSE {[severity |-> "high", kind |-> "missing-gitignore", path |-> ""]})
  BY FS_EmptySet, FS_Singleton
<1> DEFINE envs == {[severity |-> "critical", kind |-> "committed-secrets", path |-> f.path]
                     : f \in Root(files, ".env")}
           secrets == {[severity |-> "critical", kind |-> "hardcoded-secret", path |-> f.path]
                        : f \in {g \in inSecrets : g.secret}}
           ignores == IF Root(files, ".gitignore") # {} THEN {}
                      ELSE {[severity |-> "high", kind |-> "missing-gitignore", path |-> ""]}
<1>10. s.hints = envs \cup secrets \cup ignores
  BY <1>1, Zenon DEF DetectSecurityHints
<1>11. IsFiniteSet(envs) /\ IsFiniteSet(secrets) /\ IsFiniteSet(ignores)
  BY <1>8, <1>9, Zenon
<1> HIDE DEF envs, secrets, ignores
<1>12. IsFiniteSet(envs \cup secrets)
  BY <1>11, FS_Union
<1> QED
  BY <1>10, <1>11, <1>12, FS_Union

(* The severities of an audit of it.                                       *)
LEMMA AuditHasEnv ==
  ASSUME NEW t, IsFiniteSet(t), Env \in t, NEW s \in Scans(t),
         NEW answer, IsFiniteSet(answer)
  PROVE  AuditWith(s, answer).counts["critical"] > 0
<1> DEFINE static == {<<"static", h.severity, h.path>> : h \in s.hints}
           model == {<<"model", v, "">> : v \in ModelFindings(answer)}
           all == static \cup model
           worst == {f \in all : f[2] = "critical"}
<1>1. IsFiniteSet(static)
  <2> DEFINE F == [h \in s.hints |-> <<"static", h.severity, h.path>>]
  <2>1. static = {F[h] : h \in s.hints}
    OBVIOUS
  <2>2. IsFiniteSet({F[h] : h \in s.hints})
    <3> HIDE DEF F
    <3> QED
      BY HintsAreFinite, ImageIsFinite
  <2> QED
    BY <2>1, <2>2
<1>2. IsFiniteSet(ModelFindings(answer))
  <2> DEFINE F == [v \in answer |-> IF v \in Severities THEN v ELSE "info"]
  <2>1. {IF v \in Severities THEN v ELSE "info" : v \in answer} = {F[v] : v \in answer}
    OBVIOUS
  <2>2. IsFiniteSet({IF v \in Severities THEN v ELSE "info" : v \in answer})
    <3>1. IsFiniteSet({F[v] : v \in answer})
      <4> HIDE DEF F
      <4> QED
        BY ImageIsFinite
    <3> QED
      BY <2>1, <3>1
  <2> QED
    BY <2>2, FS_EmptySet, Zenon DEF ModelFindings
<1>3. IsFiniteSet(model)
  <2> DEFINE F == [v \in ModelFindings(answer) |-> <<"model", v, "">>]
  <2>1. model = {F[v] : v \in ModelFindings(answer)}
    OBVIOUS
  <2>2. IsFiniteSet({F[v] : v \in ModelFindings(answer)})
    <3> HIDE DEF F
    <3> QED
      BY <1>2, ImageIsFinite
  <2> QED
    BY <2>1, <2>2
<1>4. IsFiniteSet(all)
  BY <1>1, <1>3, FS_Union
<1>5. IsFiniteSet(worst)
  <2>1. worst \in SUBSET all
    OBVIOUS
  <2> QED
    BY <1>4, <2>1, FS_Subset
<1>6. <<"static", "critical", ".env">> \in worst
  <2>1. PICK inSecrets \in FirstOf(SecretFiles(CollectFiles(t))) :
          s.hints = DetectSecurityHints(CollectFiles(t), inSecrets)
    BY SMT DEF Scans
  <2>2. [severity |-> "critical", kind |-> "committed-secrets", path |-> Env.path] \in s.hints
    BY <2>1, EnvIsCollected, Zenon DEF DetectSecurityHints
  <2>3. Env.path = ".env"
    BY Zenon DEF Env, FileAt
  <2>4. <<"static", "critical", ".env">> \in static
    BY <2>2, <2>3
  <2>5. <<"static", "critical", ".env">>[2] = "critical"
    OBVIOUS
  <2> QED
    BY <2>4, <2>5
<1>7. Cardinality(worst) \in Nat /\ Cardinality(worst) # 0
  BY <1>5, <1>6, FS_CardinalityType, FS_EmptySet
<1>8. AuditWith(s, answer).counts["critical"] = Cardinality(worst)
  BY SMT DEF AuditWith, Severities
<1> HIDE DEF worst
<1> QED
  BY <1>7, <1>8, SMT

(* The audit a run has done is one of the repository as it is.             *)
AuditInv ==
  /\ IsFiniteSet(tree)
  /\ scan # NoScan => scan \in Scans(tree)
  /\ "security" \in summary.completed /\ Env \in tree => audit.counts["critical"] > 0

LEMMA AuditInvInit == EngulfInit => AuditInv
<1> SUFFICES ASSUME EngulfInit PROVE AuditInv
  OBVIOUS
<1>1. tree = {} /\ scan = NoScan
  BY Zenon DEF EngulfInit
<1> QED
  BY <1>1, FS_EmptySet DEF AuditInv

LEMMA AuditInvNext ==
  ASSUME EngulfAssumption, AuditInv, [EngulfNext]_engulfVars
  PROVE  AuditInv'
<1>1. ASSUME UNCHANGED <<tree, scan, audit>>,
             "security" \in summary'.completed => "security" \in summary.completed
      PROVE  AuditInv'
  BY <1>1, SMT DEF AuditInv
<1>2. ASSUME GiveUp
      PROVE  summary'.completed = {}
  BY <1>2, SMT DEF GiveUp, NoSummary
<1>3. CASE UNCHANGED engulfVars
  BY <1>1, <1>3, SMT DEF engulfVars
<1>4. ASSUME NEW phases \in PhaseLists, BeginEngulf(phases)
      PROVE  AuditInv'
  <2>1. tree' \in Trees /\ scan' = NoScan /\ summary'.completed = {}
    BY <1>4, SMT DEF BeginEngulf, NoSummary
  <2> QED
    BY <2>1, Zenon DEF AuditInv, EngulfAssumption
<1>5. CASE ScanPhase
  <2>1. scan' \in Scans(tree) /\ UNCHANGED <<tree, audit>>
    BY <1>5, Zenon DEF ScanPhase
  <2>2. summary'.completed = summary.completed \cup {"scan"}
    BY <1>5, SMT DEF ScanPhase, Complete
  <2> QED
    BY <2>1, <2>2, SMT DEF AuditInv
<1>6. CASE SecurityPhase
  <2>1. PICK answer \in Answers :
          \/ audit' = AuditWith(scan, answer)
          \/ WriteGivesUp("SECURITY.md") /\ UNCHANGED audit
    BY <1>6, Zenon DEF SecurityPhase
  <2>2. scan # NoScan /\ UNCHANGED <<tree, scan>>
    BY <1>6, Zenon DEF SecurityPhase
  <2>3. CASE WriteGivesUp("SECURITY.md")
    BY <1>2, <2>2, <2>3, Zenon DEF WriteGivesUp, AuditInv
  <2>4. CASE audit' = AuditWith(scan, answer)
    <3>1. Env \in tree => audit'.counts["critical"] > 0
      BY <2>2, <2>4, AuditHasEnv, Zenon DEF AuditInv, EngulfAssumption
    <3> QED
      BY <2>2, <3>1, Zenon DEF AuditInv
  <2> QED
    BY <2>1, <2>3, <2>4
<1>7. CASE DeployPhase
  <2>1. UNCHANGED <<tree, scan, audit>>
    BY <1>7, Zenon DEF DeployPhase
  <2>2. CASE Complete("deploy", {"DEPLOYMENT.md"})
    <3>1. summary'.completed = summary.completed \cup {"deploy"}
      BY <2>2, SMT DEF Complete
    <3> QED
      BY <1>1, <2>1, <3>1, SMT
  <2>3. CASE WriteGivesUp("DEPLOYMENT.md")
    BY <1>1, <1>2, <2>1, <2>3 DEF WriteGivesUp
  <2> QED
    BY <1>7, <2>2, <2>3, Zenon DEF DeployPhase
<1>8. CASE VaultPhase
  <2>1. UNCHANGED <<tree, scan, audit>>
    BY <1>8, Zenon DEF VaultPhase, results
  <2>2. CASE Complete("vault", ToSet(NoteNames))
    <3>1. summary'.completed = summary.completed \cup {"vault"}
      BY <2>2, SMT DEF Complete
    <3> QED
      BY <1>1, <2>1, <3>1, SMT
  <2>3. CASE GiveUp
    BY <1>1, <1>2, <2>1, <2>3
  <2> QED
    BY <1>8, <2>2, <2>3, Zenon DEF VaultPhase
<1>9. ASSUME NEW phase, Skip(phase)
      PROVE  AuditInv'
  <2>1. UNCHANGED <<tree, scan, audit>>
    BY <1>9, Zenon DEF Skip, results
  <2>2. summary'.completed = summary.completed
    BY <1>9, SMT DEF Skip
  <2> QED
    BY <1>1, <2>1, <2>2
<1>10. CASE Docs \/ NothingScanned("security") \/ NothingScanned("deploy")
            \/ NothingScanned("vault")
  BY <1>9, <1>10, Zenon DEF Docs, NothingScanned
<1> QED
  BY <1>3, <1>4, <1>5, <1>6, <1>7, <1>8, <1>10 DEF EngulfNext

(* A .env in the repository is a critical finding of every audit that      *)
(* succeeds, and cso blocks on the audit whatever the model says           *)
(* (scanner.rs 380-421, security.rs 187-262, cso.rs 107-181), for any      *)
(* repositories and answers.                                               *)
THEOREM CommittedEnvIsBlocked ==
  ASSUME EngulfAssumption PROVE EngulfSpec => []CommittedEnvBlocks
<1>1. EngulfInit => AuditInv
  BY AuditInvInit
<1>2. AuditInv /\ [EngulfNext]_engulfVars => AuditInv'
  BY AuditInvNext
<1>3. AuditInv => CommittedEnvBlocks
  <2> SUFFICES ASSUME AuditInv, "security" \in summary.completed, Env \in tree,
                      NEW failOn \in Severities
               PROVE  Cso([audit |-> {s \in Severities : audit.counts[s] > 0},
                           secrets |-> FALSE, advisories |-> 0, mode |-> "daily",
                           target |-> FALSE, failOn |-> failOn]).verdict = "blocked"
    BY Zenon DEF CommittedEnvBlocks
  <2> DEFINE found == {s \in Severities : audit.counts[s] > 0}
             in == [audit |-> found, secrets |-> FALSE, advisories |-> 0, mode |-> "daily",
                    target |-> FALSE, failOn |-> failOn]
  <2>1. "critical" \in found
    BY Zenon DEF AuditInv, Severities
  <2>2. in.audit = found
    BY Zenon
  <2>3. found # Failed
    <3>1. "critical" \notin Failed
      BY SMT DEF Failed
    <3> QED
      BY <2>1, <3>1, Zenon
  <2>4. Cso(in).verdict = "blocked"
    <3> HIDE DEF in, found
    <3> QED
      BY <2>1, <2>2, <2>3, CsoBlocksCritical
  <2> QED
    BY <2>4
<1> QED
  BY <1>1, <1>2, <1>3, PTL DEF EngulfSpec

-----------------------------------------------------------------------------
(* The set-up of a project.                                                *)
OwnTexts == {NoGuidance, TornGuidance, "template", "user"}
Items ==
  {item \in [from : 0 .. Len(Mappings), dest : Dests] :
     item.from # 0 => item.dest = Mappings[item.from].dest}

(* The prompts that come before an item of the plan for its file: all of   *)
(* them before a template, those further up in the list before an import.  *)
Precedes(item, j) == item.from = 0 \/ j < item.from
ComesFirst(item, j) ==
  Precedes(item, j) /\ Mappings[j].source \in prompts /\ Mappings[j].dest = item.dest

(* An import of prompt j that was passed over had its reasons.             *)
Settled(j) ==
  \/ Mappings[j].dest \in adopted
  \/ ~force /\ guidance[Mappings[j].dest] # NoGuidance

(* The import of what comes first is behind the command, or still before   *)
(* it but earlier in the plan.                                             *)
PlanInv ==
  \A k \in 1 .. Len(plan), j \in 1 .. Len(Mappings) :
    ComesFirst(plan[k], j) => Settled(j) \/ \E h \in 1 .. (k - 1) : plan[h].from = j

SetupInv ==
  /\ guidance \in [Dests -> OwnTexts \cup Sources]
  /\ plan \in Seq(Items)
  /\ \A d \in adopted : d \in Dests /\ (plan # <<>> => guidance[d] # NoGuidance)
  /\ PlanInv
  /\ filling =>
       /\ plan # <<>> /\ guidance[plan[1].dest] = TornGuidance
       /\ \A j \in 1 .. Len(Mappings) : ~ComesFirst(plan[1], j)

LEMMA Prompts ==
  ASSUME SetupAssumption
  PROVE  /\ Len(Mappings) \in Nat /\ DOMAIN Mappings = 1 .. Len(Mappings)
         /\ \A i \in 1 .. Len(Mappings) : /\ Mappings[i].dest \in Dests
                                          /\ ImportOf(i) \in Sources /\ ImportOf(i) \notin OwnTexts
         /\ \A i, j \in 1 .. Len(Mappings) : ImportOf(i) = ImportOf(j) => i = j
         /\ Len(Templates) \in Nat /\ DOMAIN Templates = 1 .. Len(Templates)
         /\ \A i \in 1 .. Len(Templates) : Templates[i] \in Dests
<1>1. /\ Len(Mappings) \in Nat /\ DOMAIN Mappings = 1 .. Len(Mappings)
      /\ Len(Templates) \in Nat /\ DOMAIN Templates = 1 .. Len(Templates)
  BY SMT DEF SetupAssumption
<1>2. \A i \in DOMAIN Mappings : Mappings[i].dest \in Dests /\ ImportOf(i) \in Sources
  BY Zenon DEF Dests, Sources, ImportOf
<1>3. \A i \in DOMAIN Templates : Templates[i] \in Dests
  BY Zenon DEF Dests
<1>4. \A t \in Sources : t \notin OwnTexts
  BY SMT DEF SetupAssumption, OwnTexts
<1>5. \A i, j \in DOMAIN Mappings : ImportOf(i) = ImportOf(j) => i = j
  BY Zenon DEF SetupAssumption, ImportOf
<1> QED
  BY <1>1, <1>2, <1>3, <1>4, <1>5, Zenon

(* A command takes the prompts in the order of the list, and the templates *)
(* after them.                                                             *)
ListOrder(items) ==
  /\ items \in Seq(Items)
  /\ \A k \in 1 .. Len(items), j \in 1 .. Len(Mappings) :
       Precedes(items[k], j) => \E h \in 1 .. (k - 1) : items[h].from = j

LEMMA ImportsInOrder == ASSUME SetupAssumption PROVE ListOrder(Imports)
<1>1. /\ Len(Mappings) \in Nat /\ DOMAIN Mappings = 1 .. Len(Mappings)
      /\ \A i \in 1 .. Len(Mappings) : Mappings[i].dest \in Dests
  BY Prompts
<1>2. \A i \in 1 .. Len(Mappings) : [from |-> i, dest |-> Mappings[i].dest] \in Items
  BY <1>1, SMT DEF Items
<1>3. Imports \in Seq(Items) /\ Len(Imports) = Len(Mappings)
  BY <1>1, <1>2, SMT DEF Imports
<1>4. \A k \in 1 .. Len(Mappings) : Imports[k].from = k
  BY <1>1, SMT DEF Imports
<1> QED
  BY <1>1, <1>3, <1>4, SMT DEF ListOrder, Precedes

LEMMA InitPlanInOrder == ASSUME SetupAssumption PROVE ListOrder(InitPlan)
<1> DEFINE n == Len(Mappings)
           m == Len(Templates)
<1>1. n \in Nat /\ m \in Nat /\ DOMAIN Templates = 1 .. m /\ DOMAIN Mappings = 1 .. n
  BY Prompts
<1>2. \A i \in 1 .. m : [from |-> 0, dest |-> Templates[i]] \in Items
  BY <1>1, Prompts, SMT DEF Items
<1>3. FillIns \in Seq(Items) /\ Len(FillIns) = m /\ \A i \in 1 .. m : FillIns[i].from = 0
  BY <1>1, <1>2, SMT DEF FillIns
<1>4. Imports \in Seq(Items) /\ Len(Imports) = n /\ \A k \in 1 .. n : Imports[k].from = k
  <2>1. Imports \in Seq(Items)
    BY ImportsInOrder, Zenon DEF ListOrder
  <2> QED
    BY <2>1, <1>1, SMT DEF Imports
<1>5. /\ InitPlan \in Seq(Items) /\ Len(InitPlan) = n + m
      /\ \A k \in 1 .. n : InitPlan[k] = Imports[k]
      /\ \A k \in (n + 1) .. (n + m) : InitPlan[k] = FillIns[k - n]
  <2>1. /\ InitPlan \in Seq(Items) /\ Len(InitPlan) = Len(Imports) + Len(FillIns)
        /\ \A i \in 1 .. (Len(Imports) + Len(FillIns)) :
             InitPlan[i] = IF i <= Len(Imports) THEN Imports[i] ELSE FillIns[i - Len(Imports)]
    BY <1>3, <1>4, ConcatProperties, Zenon DEF InitPlan
  <2> QED
    BY <2>1, <1>1, <1>3, <1>4, SMT
<1>6. \A k \in 1 .. n : InitPlan[k].from = k
  BY <1>4, <1>5, SMT
<1>7. ASSUME NEW k \in 1 .. (n + m), NEW j \in 1 .. n, Precedes(InitPlan[k], j)
      PROVE  \E h \in 1 .. (k - 1) : InitPlan[h].from = j
  <2>1. j \in 1 .. (k - 1)
    BY <1>1, <1>6, <1>7, SMT DEF Precedes
  <2> QED
    BY <1>6, <2>1, Zenon
<1> QED
  BY <1>5, <1>7, Zenon DEF ListOrder

LEMMA SetupInvInit == ASSUME SetupAssumption PROVE NotSetUp => SetupInv
BY SMT DEF NotSetUp, SetupInv, PlanInv, OwnTexts, Items

LEMMA SetupInvNext ==
  ASSUME SetupAssumption, SetupInv, [SetUp]_setupVars
  PROVE  SetupInv'
<1>1. ASSUME NEW items, ListOrder(items), NEW forced, Run(items, forced) PROVE SetupInv'
  <2>1. plan' = items /\ adopted' = {} /\ ~filling' /\ UNCHANGED guidance
    BY <1>1, SMT DEF Run
  <2>2. /\ plan' \in Seq(Items)
        /\ \A k \in 1 .. Len(plan'), j \in 1 .. Len(Mappings) :
             Precedes(plan'[k], j) => \E h \in 1 .. (k - 1) : plan'[h].from = j
    BY <1>1, <2>1, Zenon DEF ListOrder
  <2> QED
    BY <2>1, <2>2, Zenon DEF SetupInv, PlanInv, ComesFirst
<1>2. CASE InitCommand \/ ImportCommand \/ SetupCommand
  BY <1>2, <1>1, ImportsInOrder, InitPlanInOrder, Zenon DEF InitCommand, ImportCommand, SetupCommand
<1>3. ASSUME plan # <<>>
      PROVE  /\ Len(plan) \in Nat \ {0} /\ Head(plan) = plan[1] /\ plan[1] \in Items
             /\ Tail(plan) \in Seq(Items) /\ Len(Tail(plan)) = Len(plan) - 1
             /\ \A k \in 1 .. Len(Tail(plan)) : Tail(plan)[k] = plan[k + 1]
  BY <1>3, SMT DEF SetupInv
(* What is taken off the plan was settled.                                 *)
<1>4. ASSUME plan # <<>>, plan' = Tail(plan), UNCHANGED prompts,
             \A j \in 1 .. Len(Mappings) : Settled(j) => Settled(j)',
             \A j \in 1 .. Len(Mappings) :
               plan[1].from = j /\ Mappings[j].source \in prompts => Settled(j)'
      PROVE  PlanInv'
  <2> SUFFICES ASSUME NEW k \in 1 .. Len(plan'), NEW j \in 1 .. Len(Mappings), ComesFirst(plan[k], j)'
               PROVE  Settled(j)' \/ \E h \in 1 .. (k - 1) : plan'[h].from = j
    BY Zenon DEF PlanInv
  <2>1. k + 1 \in 1 .. Len(plan) /\ plan'[k] = plan[k + 1] /\ k + 1 - 1 = k
    BY <1>3, <1>4, SMT
  <2>2. ComesFirst(plan[k + 1], j) /\ Mappings[j].source \in prompts
    <3>1. /\ Precedes(plan'[k], j) /\ Mappings[j].source \in prompts
          /\ Mappings[j].dest = plan'[k].dest
      BY <1>4, Zenon DEF ComesFirst, Precedes
    <3> QED
      BY <2>1, <3>1, Zenon DEF ComesFirst
  <2>3. Settled(j) \/ \E h \in 1 .. k : plan[h].from = j
    <3>1. PlanInv
      BY DEF SetupInv
    <3>2. Settled(j) \/ \E h \in 1 .. (k + 1 - 1) : plan[h].from = j
      BY <2>1, <2>2, <3>1, SMT DEF PlanInv
    <3> QED
      BY <2>1, <3>2
  <2>4. ASSUME NEW h \in 1 .. k, plan[h].from = j
        PROVE  Settled(j)' \/ \E g \in 1 .. (k - 1) : plan'[g].from = j
    <3>1. CASE h = 1
      BY <2>2, <2>4, <3>1, <1>4, Zenon
    <3>2. CASE h # 1
      <4>1. h - 1 \in 1 .. (k - 1) /\ plan'[h - 1] = plan[h]
        BY <3>2, <2>1, <1>3, <1>4, SMT
      <4> QED
        BY <4>1, <2>4, Zenon
    <3> QED
      BY <3>1, <3>2
  <2> QED
    BY <2>3, <2>4, <1>4, Zenon
<1>5. CASE PassOver
  <2>1. /\ plan # <<>> /\ ~filling /\ ~Wanted(plan[1]) /\ plan' = Tail(plan)
        /\ UNCHANGED <<prompts, guidance, force, adopted, filling>>
    BY <1>5, <1>3, Zenon DEF PassOver
  <2>2. \A j \in 1 .. Len(Mappings) : Settled(j) => Settled(j)'
    BY <2>1, Zenon DEF Settled
  <2>3. ASSUME NEW j \in 1 .. Len(Mappings), plan[1].from = j, Mappings[j].source \in prompts
        PROVE  Settled(j)'
    <3>1. j # 0 /\ plan[1].dest = Mappings[j].dest
      BY <2>1, <2>3, <1>3, Prompts, SMT DEF Items
    <3> QED
      BY <2>1, <2>3, <3>1, SMT DEF Wanted, Settled
  <2>4. PlanInv'
    BY <2>1, <2>2, <2>3, <1>4, Zenon
  <2> QED
    BY <2>1, <2>4, <1>3, Zenon DEF SetupInv
<1>6. CASE OpenFile
  <2> DEFINE d == plan[1].dest
  <2>1. /\ plan # <<>> /\ ~filling /\ Wanted(plan[1]) /\ filling'
        /\ guidance' = [guidance EXCEPT ![d] = TornGuidance]
        /\ UNCHANGED <<prompts, plan, force, adopted>>
    BY <1>6, <1>3, Zenon DEF OpenFile
  <2>2. d \in Dests /\ 1 \in 1 .. Len(plan)
    BY <2>1, <1>3, SMT DEF Items
  <2>3. /\ guidance' \in [Dests -> OwnTexts \cup Sources]
        /\ guidance'[d] = TornGuidance
        /\ \A e \in Dests : guidance[e] # NoGuidance => guidance'[e] # NoGuidance
    BY <2>1, <2>2, SMT DEF SetupInv, OwnTexts, TornGuidance, NoGuidance
  <2>4. \A j \in 1 .. Len(Mappings) : Settled(j) => Settled(j)'
    BY <2>1, <2>3, Prompts, Zenon DEF Settled
  <2>5. ASSUME NEW j \in 1 .. Len(Mappings), ComesFirst(plan[1], j) PROVE FALSE
    <3>1. Settled(j)
      <4>1. Settled(j) \/ \E h \in 1 .. (1 - 1) : plan[h].from = j
        BY <2>2, <2>5, Zenon DEF SetupInv, PlanInv
      <4> QED
        BY <4>1, SMT
    <3>2. d = Mappings[j].dest /\ (d \in adopted => guidance[d] # NoGuidance)
      BY <2>1, <2>5, Zenon DEF ComesFirst, SetupInv
    <3> QED
      BY <3>1, <3>2, <2>1, Zenon DEF Settled, Wanted
  <2>6. \A j \in 1 .. Len(Mappings), k \in 1 .. Len(plan) : ComesFirst(plan[k], j)' <=> ComesFirst(plan[k], j)
    BY <2>1, Zenon DEF ComesFirst
  <2>7. \A j \in 1 .. Len(Mappings) : ~ComesFirst(plan[1], j)'
    BY <2>5, <2>6, <2>2, Zenon
  <2>8. PlanInv'
    BY <2>1, <2>4, <2>6, Zenon DEF SetupInv, PlanInv
  <2> QED
    BY <2>1, <2>3, <2>7, <2>8, Zenon DEF SetupInv
<1>7. CASE FillFile
  <2> DEFINE item == plan[1]
             text == IF item.from = 0 THEN "template" ELSE ImportOf(item.from)
  <2>1. /\ plan # <<>> /\ filling /\ guidance[item.dest] = TornGuidance
        /\ guidance' = [guidance EXCEPT ![item.dest] = text]
        /\ adopted' = adopted \cup {item.dest}
        /\ plan' = Tail(plan) /\ ~filling' /\ UNCHANGED <<prompts, force>>
    <3>1. plan # <<>> /\ filling /\ guidance[item.dest] = TornGuidance
      BY <1>7, Zenon DEF FillFile, SetupInv
    <3> QED
      BY <1>7, <1>3, <3>1, Zenon DEF FillFile
  <2>2. item.dest \in Dests /\ item.from \in 0 .. Len(Mappings)
        /\ (item.from # 0 => item.dest = Mappings[item.from].dest)
    BY <2>1, <1>3, SMT DEF Items
  <2>3. text \in OwnTexts \cup Sources /\ text # NoGuidance
    <3>1. CASE item.from = 0
      BY <3>1, SMT DEF OwnTexts, NoGuidance
    <3>2. CASE item.from # 0
      <4>1. item.from \in 1 .. Len(Mappings)
        BY <3>2, <2>2, Prompts, SMT
      <4>2. ImportOf(item.from) \in Sources /\ ImportOf(item.from) \notin OwnTexts
        BY <4>1, Prompts, Zenon
      <4> QED
        BY <3>2, <4>2, Zenon DEF OwnTexts
    <3> QED
      BY <3>1, <3>2
  <2> HIDE DEF text
  <2>4. /\ guidance' \in [Dests -> OwnTexts \cup Sources]
        /\ guidance'[item.dest] # NoGuidance
        /\ \A e \in Dests : guidance[e] # NoGuidance => guidance'[e] # NoGuidance
    BY <2>1, <2>2, <2>3, SMT DEF SetupInv
  <2>5. \A j \in 1 .. Len(Mappings) : Settled(j) => Settled(j)'
    BY <2>1, <2>4, Prompts, Zenon DEF Settled
  <2>6. \A j \in 1 .. Len(Mappings) :
          plan[1].from = j /\ Mappings[j].source \in prompts => Settled(j)'
    <3>1. \A j \in 1 .. Len(Mappings) : j # 0
      BY Prompts, SMT
    <3> QED
      BY <3>1, <2>1, <2>2, Zenon DEF Settled
  <2>7. \A d \in adopted' : d \in Dests /\ guidance'[d] # NoGuidance
    BY <2>1, <2>2, <2>4, Zenon DEF SetupInv
  <2>8. PlanInv'
    BY <2>1, <2>5, <2>6, <1>4, Zenon
  <2> QED
    BY <2>1, <2>4, <2>7, <2>8, <1>3, Zenon DEF SetupInv
<1>8. CASE Abort
  <2>1. plan' = <<>> /\ Len(plan') = 0 /\ plan' \in Seq(Items)
    BY <1>8, SMT DEF Abort
  <2> QED
    BY <1>8, <2>1, SMT DEF Abort, SetupInv, PlanInv
<1>9. CASE PutPrompts \/ EditGuidance
  <2>1. plan = <<>> /\ Len(plan) = 0 /\ UNCHANGED <<plan, adopted, filling>> /\ ~filling
    BY <1>9, SMT DEF PutPrompts, EditGuidance, SetupInv
  <2>2. guidance' \in [Dests -> OwnTexts \cup Sources]
    BY <1>9, SMT DEF PutPrompts, EditGuidance, SetupInv, OwnTexts
  <2> QED
    BY <2>1, <2>2, SMT DEF SetupInv, PlanInv
<1>10. CASE UNCHANGED setupVars
  BY <1>10, SMT DEF setupVars, SetupInv, PlanInv, ComesFirst, Precedes, Settled
<1> QED
  BY <1>2, <1>5, <1>6, <1>7, <1>8, <1>9, <1>10, Zenon DEF SetUp

(* A step of a command that changes a context file opens one or fills the  *)
(* one it opened.                                                          *)
LEMMA NothingTakenOver ==
  ASSUME SetupAssumption, SetupInv, SetUp
  PROVE  ~TookOver
<1>1. SUFFICES ASSUME plan # <<>>, NEW d \in Dests, guidance'[d] # guidance[d]
      PROVE  /\ ~(guidance[d] = "user" /\ ~force)
             /\ ~(guidance'[d] = "template"
                   /\ \E i \in DOMAIN Mappings : Mappings[i].dest = d /\ Mappings[i].source \in prompts)
             /\ ~\E i \in DOMAIN Mappings : guidance'[d] = ImportOf(i) /\ Before(d, i) # {}
  BY Zenon DEF TookOver, Commanded
<1>2. /\ Head(plan) = plan[1] /\ plan[1].dest \in Dests /\ plan[1].from \in 0 .. Len(Mappings)
      /\ DOMAIN guidance = Dests /\ DOMAIN Mappings = 1 .. Len(Mappings) /\ Len(Mappings) \in Nat
  BY <1>1, Prompts, SMT DEF SetupInv, Items
<1>3. CASE OpenFile
  <2>1. Wanted(plan[1]) /\ guidance' = [guidance EXCEPT ![plan[1].dest] = TornGuidance]
    BY <1>2, <1>3, Zenon DEF OpenFile
  <2>2. d = plan[1].dest /\ guidance'[d] = TornGuidance
    BY <1>1, <1>2, <2>1, SMT
  <2>3. guidance[d] # "user" \/ force
    BY <2>1, <2>2, SMT DEF Wanted, NoGuidance
  <2>4. TornGuidance # "template" /\ \A i \in DOMAIN Mappings : ImportOf(i) # TornGuidance
    <3>1. TornGuidance # "template"
      BY SMT DEF TornGuidance
    <3> QED
      BY <3>1, <1>2, Prompts, Zenon DEF OwnTexts
  <2> QED
    BY <2>2, <2>3, <2>4, Zenon
<1>4. CASE FillFile
  <2>1. /\ filling /\ guidance' = [guidance EXCEPT ![plan[1].dest] =
                                     IF plan[1].from = 0 THEN "template" ELSE ImportOf(plan[1].from)]
        /\ guidance[plan[1].dest] = TornGuidance
        /\ \A j \in 1 .. Len(Mappings) : ~ComesFirst(plan[1], j)
    BY <1>2, <1>4, Zenon DEF FillFile, SetupInv
  <2>2. /\ d = plan[1].dest
        /\ guidance'[d] = IF plan[1].from = 0 THEN "template" ELSE ImportOf(plan[1].from)
    BY <1>1, <1>2, <2>1, SMT
  <2>3. guidance[d] # "user"
    BY <2>1, <2>2, SMT DEF TornGuidance
  <2>4. CASE plan[1].from = 0
    <3>1. \A i \in DOMAIN Mappings : ImportOf(i) # "template"
      BY <1>2, Prompts, Zenon DEF OwnTexts
    <3> QED
      BY <3>1, <2>1, <2>2, <2>3, <2>4, <1>2, Zenon DEF ComesFirst, Precedes
  <2>5. CASE plan[1].from # 0
    <3>1. plan[1].from \in 1 .. Len(Mappings)
      BY <2>5, <1>2, SMT
    <3>2. ImportOf(plan[1].from) # "template"
      BY <3>1, Prompts, Zenon DEF OwnTexts
    <3>3. ASSUME NEW i \in DOMAIN Mappings, ImportOf(plan[1].from) = ImportOf(i), NEW k \in Before(d, i)
          PROVE  FALSE
      <4>1. i = plan[1].from
        BY <3>1, <3>3, <1>2, Prompts, Zenon
      <4>2. k \in 1 .. (i - 1) /\ Mappings[k].dest = d /\ Mappings[k].source \in prompts
        BY <3>3, Zenon DEF Before
      <4>3. k \in 1 .. Len(Mappings) /\ k < i
        BY <4>2, <3>3, <1>2, SMT
      <4> QED
        BY <4>1, <4>2, <4>3, <2>1, <2>2, Zenon DEF ComesFirst, Precedes
    <3> QED
      BY <2>2, <2>3, <2>5, <3>2, <3>3, Zenon
  <2> QED
    BY <2>4, <2>5
<1>5. CASE UNCHANGED guidance
  BY <1>5, <1>1
<1> QED
  BY <1>1, <1>3, <1>4, <1>5, Zenon
     DEF SetUp, InitCommand, ImportCommand, SetupCommand, Run, PassOver, Abort, PutPrompts, EditGuidance

(* import.rs 24-73, init.rs 40-81: no command takes the place of what the  *)
(* user wrote or of what a prompt of the project is for, for any prompts   *)
(* and templates, in any history of commands, aborts and edits.            *)
THEOREM GapsAreFilled == ASSUME SetupAssumption PROVE SetupSpec => TemplatesFillGaps
<1>1. SetupInv /\ [SetUp]_setupVars => [~TookOver]_setupVars
  BY NothingTakenOver, Zenon
<1> QED
  BY SetupInvInit, SetupInvNext, <1>1, PTL DEF SetupSpec, TemplatesFillGaps
=============================================================================
