-------------------------------- MODULE Gates --------------------------------
(***************************************************************************)
(* What the gates of the skills crate decide (crates/skills/src/skills/    *)
(* review.rs, cso.rs, investigate.rs, types.rs) and the pentest runner     *)
(* (crates/pentest-agent/src/runner.rs), as functions of what their        *)
(* environment answers.  Titles, locations and reports are left out: the   *)
(* findings of a run are a set of severities, and dedupe() is what a set   *)
(* does anyway.                                                            *)
(***************************************************************************)
EXTENDS Integers, Sequences, SequencesExt, FiniteSetsExt

Severities == {"info", "low", "medium", "high", "critical"}
Rank == [info |-> 0, low |-> 1, medium |-> 2, high |-> 3, critical |-> 4]

(* Severity::from_threshold of the skills: "info" is one of the unknown    *)
(* values, which all mean high.                                            *)
SkillThreshold(name) == IF name \in Severities \ {"info"} THEN name ELSE "high"

(* Severity::from_threshold of the pentest agent.                          *)
PentestThreshold(name) == IF name \in Severities THEN name ELSE "high"

-----------------------------------------------------------------------------
(* A result has a verdict, ok or blocked, or is an error; errors carry no  *)
(* findings.                                                               *)
Passed(found) == [verdict |-> "ok", findings |-> found]
Blocked(found) == [verdict |-> "blocked", findings |-> found]
Error == [verdict |-> "error", findings |-> {}]

Gate(found, threshold) ==
  IF \E f \in found : Rank[f] >= Rank[threshold] THEN Blocked(found) ELSE Passed(found)

(* What LLMClient::complete can come to: an answer, a missing key, or a    *)
(* request that fails.                                                     *)
Unavailable == {"unavailable"}
Failed == {"failed"}

(* An answer of the review model is a set of lines: findings by severity,  *)
(* "none" lines, and text in any other form, which is dropped.             *)
ParseFindings(answer) == answer \cap Severities

(* A second opinion that cannot be had is skipped.                         *)
SecondOpinion(in) ==
  IF in.secondOpinion /\ in.second \notin {Unavailable, Failed}
  THEN ParseFindings(in.second) ELSE {}

Review(in) ==
  IF ~in.changed THEN Passed({})
  ELSE IF in.primary = Unavailable THEN Blocked({"high"})
  ELSE IF in.primary = Failed THEN Error
  ELSE Gate(ParseFindings(in.primary) \cup SecondOpinion(in), SkillThreshold(in.failOn))

-----------------------------------------------------------------------------
(* run_pentest: in.whitebox is {"failed"} or the findings in the source,   *)
(* in.blackbox the findings at the target.                                 *)
Pentest(in, threshold) ==
  IF ~in.cwd /\ ~in.target THEN Error
  ELSE IF in.cwd /\ in.whitebox = Failed THEN Error
  ELSE Gate((IF in.cwd THEN in.whitebox ELSE {}) \cup (IF in.target THEN in.blackbox ELSE {}),
            threshold)

(* Mutant: what is worse than high is taken over as high.                  *)
Imported_capped(found) ==
  {IF f = "info" THEN "low" ELSE IF f = "critical" THEN "high" ELSE f : f \in found}

(* Cso takes findings over with their severity, but Info becomes Low.      *)
Imported(found) == {IF f = "info" THEN "low" ELSE f : f \in found}

Advisories(n) == IF n = 0 THEN {} ELSE IF n > 5 THEN {"high"} ELSE {"medium"}

(* The pentest of cso blocks through its findings; one that fails is       *)
(* skipped with a warning.                                                 *)
CsoPentest(in) ==
  IF in.mode = "comprehensive" \/ in.target
  THEN Imported(Pentest(in, SkillThreshold(in.failOn)).findings) ELSE {}

Cso(in) ==
  IF in.audit = Failed THEN Error
  ELSE Gate((IF in.secrets THEN {"critical"} ELSE {}) \cup Imported(in.audit)
              \cup Advisories(in.advisories) \cup CsoPentest(in),
            SkillThreshold(in.failOn))

-----------------------------------------------------------------------------
(* Investigate: each phase asks a stronger model, which sees what the one  *)
(* before it said.  An answer is here its verdict.                         *)
Phases == <<"fast", "balanced", "powerful">>
PhaseLimit(maxEscalations) ==
  IF Len(Phases) < maxEscalations + 1 THEN Len(Phases) ELSE maxEscalations + 1

Verdicts == {"confirmed", "likely", "insufficient", "none"}

(* The phases that are asked: up to the first that confirms a root cause   *)
(* or does not answer.                                                     *)
PhasesRun(answers, limit) ==
  LET ends == {i \in 1 .. limit : answers[i] \notin Verdicts \ {"confirmed"}} IN
  IF ends = {} THEN limit ELSE Min(ends)

VerdictFindings(verdict) ==
  CASE verdict = "confirmed" -> {"high"}
    [] verdict \in {"likely", "insufficient"} -> {"medium"}
    [] OTHER -> {}

(* The verdict is that of the last answer; only "insufficient" blocks.     *)
Investigate(answers, maxEscalations) ==
  LET last == answers[PhasesRun(answers, PhaseLimit(maxEscalations))] IN
  IF last = "unavailable" THEN Blocked({"high"})
  ELSE IF last = "failed" THEN Error
  ELSE IF last = "insufficient" THEN Blocked(VerdictFindings(last))
  ELSE Passed(VerdictFindings(last))

-----------------------------------------------------------------------------
(* investigate.rs 11-13: a confirmed root cause is the end of it.  What is *)
(* reported as confirmed is what some phase confirmed before any phase got *)
(* no answer, and neither a later phase nor a limit of the escalations     *)
(* loses it again.                                                         *)
ReportsConfirmed ==
  \A answers \in [1 .. Len(Phases) -> Verdicts \cup {"unavailable", "failed"}],
     maxEscalations \in 0 .. Len(Phases) :
    Investigate(answers, maxEscalations) = Passed({"high"}) <=>
      \E i \in 1 .. PhaseLimit(maxEscalations) :
        answers[i] = "confirmed" /\ \A j \in 1 .. i - 1 : answers[j] \in Verdicts
=============================================================================
