---------------------------- MODULE GatesProofs -----------------------------
(***************************************************************************)
(* Proofs about what the gates decide and what the pentest engines report, *)
(* for every value of --fail-on, every site and every source file.         *)
(***************************************************************************)
EXTENDS Probe, TLAPS

(* A gate that lets a critical finding pass would do so for some value of  *)
(* --fail-on.                                                              *)
LEMMA GateStopsCritical ==
  ASSUME NEW found, NEW failOn
  PROVE  LET result == Gate(found, SkillThreshold(failOn)) IN
         result.verdict = "ok" => "critical" \notin result.findings
<1>1. SkillThreshold(failOn) \in {"low", "medium", "high", "critical"}
  BY Zenon DEF SkillThreshold, Severities
<1>2. Rank["critical"] >= Rank[SkillThreshold(failOn)]
  BY <1>1, SMT DEF Rank
<1>3. "critical" \in found => Gate(found, SkillThreshold(failOn)).verdict = "blocked"
  BY <1>2, SMT DEF Gate, Blocked
<1>4. Gate(found, SkillThreshold(failOn)).findings = found
  BY SMT DEF Gate, Blocked, Passed
<1> QED
  BY <1>3, <1>4, SMT

LEMMA ReviewStopsCritical ==
  ASSUME NEW in
  PROVE  Review(in).verdict = "ok" => "critical" \notin Review(in).findings
<1> DEFINE found == ParseFindings(in.primary) \cup SecondOpinion(in)
<1>1. Review(in) \in {Passed({}), Blocked({"high"}), Error,
                      Gate(found, SkillThreshold(in.failOn))}
  BY Zenon DEF Review
<1>2. Review(in) = Gate(found, SkillThreshold(in.failOn))
        => (Review(in).verdict = "ok" => "critical" \notin Review(in).findings)
  BY GateStopsCritical
<1> QED
  BY <1>1, <1>2, SMT DEF Passed, Blocked, Error

LEMMA CsoStopsCritical ==
  ASSUME NEW in
  PROVE  Cso(in).verdict = "ok" => "critical" \notin Cso(in).findings
<1> DEFINE found == (IF in.secrets THEN {"critical"} ELSE {}) \cup Imported(in.audit)
                      \cup Advisories(in.advisories) \cup CsoPentest(in)
<1>1. Cso(in) \in {Error, Gate(found, SkillThreshold(in.failOn))}
  BY Zenon DEF Cso
<1>2. Cso(in) = Gate(found, SkillThreshold(in.failOn))
        => (Cso(in).verdict = "ok" => "critical" \notin Cso(in).findings)
  BY GateStopsCritical
<1> QED
  BY <1>1, <1>2, SMT DEF Error

LEMMA PentestStopsCritical ==
  ASSUME NEW in, NEW failOn
  PROVE  LET result == Pentest(in, SkillThreshold(failOn)) IN
         result.verdict = "ok" => "critical" \notin result.findings
<1> DEFINE found == (IF in.cwd THEN in.whitebox ELSE {})
                      \cup (IF in.target THEN in.blackbox ELSE {})
           result == Pentest(in, SkillThreshold(failOn))
<1>1. result \in {Error, Gate(found, SkillThreshold(failOn))}
  BY Zenon DEF Pentest
<1>2. result = Gate(found, SkillThreshold(failOn))
        => (result.verdict = "ok" => "critical" \notin result.findings)
  BY GateStopsCritical
<1> QED
  BY <1>1, <1>2, SMT DEF Error

(* Cso blocks on an audit with a critical finding, for every --fail-on.    *)
LEMMA CsoBlocksCritical ==
  ASSUME NEW in, in.audit # Failed, "critical" \in in.audit
  PROVE  Cso(in).verdict = "blocked"
<1> DEFINE found == (IF in.secrets THEN {"critical"} ELSE {}) \cup Imported(in.audit)
                      \cup Advisories(in.advisories) \cup CsoPentest(in)
<1>1. "critical" \in Imported(in.audit)
  BY Zenon DEF Imported
<1>2. SkillThreshold(in.failOn) \in {"low", "medium", "high", "critical"}
  BY Zenon DEF SkillThreshold, Severities
<1>3. Rank["critical"] >= Rank[SkillThreshold(in.failOn)]
  BY <1>2, SMT DEF Rank
<1>4. "critical" \in found
  BY <1>1
<1>5. Cso(in) = Gate(found, SkillThreshold(in.failOn))
  BY Zenon DEF Cso
<1> HIDE DEF found
<1> QED
  BY <1>3, <1>4, <1>5, SMT DEF Gate, Blocked

-----------------------------------------------------------------------------
(* Investigate reports a confirmed root cause exactly when some phase that *)
(* is asked confirms one before any phase got no answer.                   *)
LEMMA ConfirmedIsReported == ReportsConfirmed
<1> SUFFICES ASSUME NEW answers \in [1 .. Len(Phases) -> Verdicts \cup {"unavailable", "failed"}],
                    NEW maxEscalations \in 0 .. Len(Phases)
             PROVE  Investigate(answers, maxEscalations) = Passed({"high"}) <=>
                      \E i \in 1 .. PhaseLimit(maxEscalations) :
                        /\ answers[i] = "confirmed"
                        /\ \A j \in 1 .. i - 1 : answers[j] \in Verdicts
  BY Zenon DEF ReportsConfirmed
<1> DEFINE limit == PhaseLimit(maxEscalations)
           ends == {i \in 1 .. limit : answers[i] \notin Verdicts \ {"confirmed"}}
           asked == PhasesRun(answers, limit)
           last == answers[asked]
<1>1. Len(Phases) = 3
  BY SMT DEF Phases
<1>2. limit \in 1 .. 3
  BY <1>1, SMT DEF PhaseLimit
<1>3. answers \in [1 .. 3 -> Verdicts \cup {"unavailable", "failed"}]
  BY <1>1
<1>4. asked = IF ends = {} THEN limit ELSE Min(ends)
  BY Zenon DEF PhasesRun
<1>5. ends # {} => asked \in ends /\ \A i \in ends : asked <= i
  <2> SUFFICES ASSUME ends # {} PROVE asked \in ends /\ \A i \in ends : asked <= i
    OBVIOUS
  <2>1. ends \subseteq {1, 2, 3} /\ \A i \in ends : i \in Int
    BY <1>2, SMT
  <2> HIDE DEF ends
  <2>2. \E i \in ends : \A j \in ends : i <= j
    <3>1. CASE 1 \in ends
      BY <2>1, <3>1, SMT
    <3>2. CASE 1 \notin ends /\ 2 \in ends
      BY <2>1, <3>2, SMT
    <3>3. CASE 1 \notin ends /\ 2 \notin ends
      <4>1. 3 \in ends /\ \A j \in ends : j = 3
        BY <2>1, <3>3, Zenon
      <4> QED
        BY <4>1, SMT
    <3> QED
      BY <3>1, <3>2, <3>3
  <2>3. asked = CHOOSE i \in ends : \A j \in ends : i <= j
    BY <1>4, Zenon DEF Min
  <2> HIDE DEF asked
  <2> QED
    BY <2>2, <2>3, Zenon
<1>6. asked \in 1 .. limit /\ (ends = {} => asked = limit)
  BY <1>2, <1>4, <1>5, SMT
<1>7. Investigate(answers, maxEscalations) = Passed({"high"}) <=> last = "confirmed"
  <2>1. last \in Verdicts \cup {"unavailable", "failed"}
    <3> HIDE DEF asked, limit
    <3>1. asked \in 1 .. 3
      BY <1>2, <1>6, SMT
    <3> QED
      BY <1>3, <3>1
  <2> HIDE DEF last
  <2>2. Investigate(answers, maxEscalations) =
          (IF last = "unavailable" THEN Blocked({"high"})
           ELSE IF last = "failed" THEN Error
           ELSE IF last = "insufficient" THEN Blocked(VerdictFindings(last))
           ELSE Passed(VerdictFindings(last)))
    BY Zenon DEF Investigate, last
  <2>3. /\ VerdictFindings("confirmed") = {"high"} /\ VerdictFindings("likely") = {"medium"}
        /\ VerdictFindings("none") = {}
    BY SMT DEF VerdictFindings
  <2>4. /\ \A x : Passed(x).verdict = "ok" /\ Passed(x).findings = x
        /\ \A x : Blocked(x).verdict = "blocked"
        /\ Error.verdict = "error"
    BY Zenon DEF Passed, Blocked, Error
  <2>5. {"medium"} # {"high"} /\ {} # {"high"}
    OBVIOUS
  <2>6. CASE last \in {"unavailable", "insufficient", "failed"}
    <3>1. Investigate(answers, maxEscalations).verdict # "ok"
      BY <2>2, <2>4, <2>6, SMT
    <3> QED
      BY <2>4, <2>6, <3>1, SMT
  <2>7. CASE last \in {"likely", "none"}
    <3>1. Investigate(answers, maxEscalations).findings \in {{"medium"}, {}}
      BY <2>2, <2>3, <2>4, <2>7, SMT
    <3> QED
      BY <2>4, <2>5, <2>7, <3>1, SMT
  <2>8. CASE last = "confirmed"
    <3>1. last # "unavailable" /\ last # "failed" /\ last # "insufficient"
      BY <2>8, SMT
    <3>2. Investigate(answers, maxEscalations) = Passed(VerdictFindings(last))
      BY <2>2, <3>1, Zenon
    <3> QED
      BY <2>3, <2>8, <3>2, Zenon
  <2>9. \/ last \in {"unavailable", "insufficient", "failed"} \/ last \in {"likely", "none"}
        \/ last = "confirmed"
    BY <2>1, Zenon DEF Verdicts
  <2> QED
    BY <2>6, <2>7, <2>8, <2>9
<1> HIDE DEF asked, ends
<1>8. last = "confirmed" => \A j \in 1 .. asked - 1 : answers[j] \in Verdicts
  <2> SUFFICES ASSUME NEW j \in 1 .. asked - 1 PROVE answers[j] \in Verdicts
    OBVIOUS
  <2>1. j \in 1 .. limit /\ ~(asked <= j)
    BY <1>2, <1>6, SMT
  <2>2. j \notin ends
    BY <1>5, <2>1, SMT
  <2> QED
    BY <2>1, <2>2 DEF ends
<1>9. ASSUME NEW i \in 1 .. limit, answers[i] = "confirmed",
             \A j \in 1 .. i - 1 : answers[j] \in Verdicts
      PROVE  last = "confirmed"
  <2>1. i \in ends
    BY <1>9 DEF ends
  <2>2. asked \in ends /\ asked <= i /\ asked \in 1 .. limit
    BY <1>5, <1>6, <2>1
  <2>3. CASE asked = i
    BY <1>9, <2>3
  <2>4. CASE asked \in 1 .. i - 1
    BY <1>9, <2>2, <2>4, Zenon DEF ends
  <2> QED
    BY <1>2, <2>2, <2>3, <2>4, SMT
<1> QED
  BY <1>6, <1>7, <1>8, <1>9

LEMMA RankIsNat == \A s \in Severities : Rank[s] \in Nat
BY SMT DEF Severities, Rank

(* What the pentest stops with a --fail-on, cso stops with it, as it takes *)
(* each finding over with a severity that is as high.                      *)
LEMMA CsoStopsWhatPentestStops ==
  ASSUME NEW w, NEW b, w # Failed, w \cup b \subseteq Severities
  PROVE  PentestStops(w, b) \ {"info"} \subseteq CsoStops(w, b)
<1> SUFFICES ASSUME NEW failOn \in PentestStops(w, b), failOn # "info"
             PROVE  failOn \in CsoStops(w, b)
  OBVIOUS
<1> DEFINE p == [cwd |-> TRUE, target |-> TRUE, whitebox |-> w, blackbox |-> b]
           c == [mode |-> "comprehensive", cwd |-> TRUE, target |-> TRUE, failOn |-> failOn,
                 secrets |-> FALSE, audit |-> {}, advisories |-> 0,
                 whitebox |-> w, blackbox |-> b]
<1>1. failOn \in Severities /\ Pentest(p, PentestThreshold(failOn)).verdict # "ok"
  BY Zenon DEF PentestStops
<1>2. PentestThreshold(failOn) = failOn /\ SkillThreshold(failOn) = failOn
  BY <1>1, Zenon DEF PentestThreshold, SkillThreshold
<1>3. /\ p.cwd /\ p.target /\ p.whitebox = w /\ p.blackbox = b
      /\ c.cwd /\ c.target /\ c.whitebox = w /\ c.blackbox = b
      /\ c.mode = "comprehensive" /\ c.failOn = failOn /\ c.audit = {} /\ ~c.secrets
      /\ c.advisories = 0
  BY Zenon
<1> HIDE DEF p, c
<1>4. /\ Pentest(p, failOn) = Gate(w \cup b, failOn)
      /\ Pentest(c, failOn) = Gate(w \cup b, failOn)
  BY <1>3, Zenon DEF Pentest
<1>5. PICK f \in w \cup b : Rank[f] >= Rank[failOn]
  BY <1>1, <1>2, <1>4, SMT DEF Gate, Passed
<1>6. f # "info"
  BY <1>1, <1>5, SMT DEF Rank, Severities
<1>7. f \in Imported(Pentest(c, failOn).findings)
  <2>1. Pentest(c, failOn).findings = w \cup b
    BY <1>4, SMT DEF Gate, Blocked, Passed
  <2> QED
    BY <1>6, <2>1, Zenon DEF Imported
<1>8. c.audit # Failed
  BY <1>3, Zenon DEF Failed
<1> DEFINE found == (IF c.secrets THEN {"critical"} ELSE {}) \cup Imported(c.audit)
                      \cup Advisories(c.advisories) \cup CsoPentest(c)
<1>9. f \in found
  <2>1. CsoPentest(c) = Imported(Pentest(c, failOn).findings)
    BY <1>2, <1>3, Zenon DEF CsoPentest
  <2> QED
    BY <1>7, <2>1
<1>10. Cso(c) = Gate(found, failOn)
  BY <1>2, <1>3, <1>8, Zenon DEF Cso
<1>11. Cso(c).verdict # "ok"
  <2> HIDE DEF found
  <2> QED
    BY <1>5, <1>9, <1>10, SMT DEF Gate, Blocked
<1> QED
  BY <1>1, <1>11, Zenon DEF CsoStops, c

-----------------------------------------------------------------------------
(* The pentest engines.                                                    *)
LEMMA SeveritiesFound ==
  /\ \A f : ScanFile(f) \subseteq Severities /\ ScanFile(f) # Failed
  /\ \A s : s.exposed \in {"nothing"} \cup DOMAIN SeverityForPath => Probe(s) \subseteq Severities
<1>1. \A r \in Rules : r.severity \in Severities
  BY SMT DEF Rules, Rule, Severities
<1>2. \A f : ScanFile(f) \subseteq Severities
  BY <1>1, Zenon DEF ScanFile
<1>3. "failed" \notin Severities
  BY SMT DEF Severities
<1>4. \A f : ScanFile(f) # Failed
  BY <1>2, <1>3, Zenon DEF Failed
<1>5. ASSUME NEW s, s.exposed \in {"nothing"} \cup DOMAIN SeverityForPath
      PROVE  Probe(s) \subseteq Severities
  <2>1. CheckSensitivePaths(s) \subseteq Severities
    BY <1>5, SMT DEF CheckSensitivePaths, SeverityForPath, Severities
  <2>2. /\ CheckSecurityHeaders(s) \subseteq Severities /\ CheckCookies(s) \subseteq Severities
        /\ CheckServerDisclosure(s) \subseteq Severities /\ CheckOpenCors(s) \subseteq Severities
        /\ CheckHttpsEnforcement(s) \subseteq Severities /\ CheckRobots(s) \subseteq Severities
    BY Zenon DEF CheckSecurityHeaders, CheckCookies, CheckServerDisclosure, CheckOpenCors,
       CheckHttpsEnforcement, CheckRobots, If, Severities
  <2>3. "high" \in Severities
    BY Zenon DEF Severities
  <2> QED
    BY <2>1, <2>2, <2>3, Zenon DEF Probe
<1> QED
  BY <1>2, <1>4, <1>5

(* A set of findings that some gate stops on is at least as bad as another *)
(* if each finding of the other has one as severe in it.                   *)
AsBad(found, other) == \A f \in other : \E g \in found : Rank[g] >= Rank[f]

LEMMA StopsIfAsBad ==
  ASSUME NEW w, NEW b, NEW v, NEW c, w \cup b \subseteq Severities, w # Failed,
         v \cup c \subseteq Severities, AsBad(v \cup c, w \cup b)
  PROVE  PentestStops(w, b) \subseteq PentestStops(v, c)
<1> SUFFICES ASSUME NEW failOn \in PentestStops(w, b)
             PROVE  failOn \in PentestStops(v, c)
  OBVIOUS
<1> DEFINE p(x, y) == [cwd |-> TRUE, target |-> TRUE, whitebox |-> x, blackbox |-> y]
           threshold == PentestThreshold(failOn)
<1>1. failOn \in Severities /\ Pentest(p(w, b), threshold).verdict # "ok"
  BY Zenon DEF PentestStops
<1>2. threshold \in Severities
  BY <1>1, Zenon DEF PentestThreshold
<1>3. Pentest(p(w, b), threshold) = Gate(w \cup b, threshold)
  BY Zenon DEF Pentest
<1>4. Pentest(p(v, c), threshold) \in {Error, Gate(v \cup c, threshold)}
  BY Zenon DEF Pentest
<1> HIDE DEF p, threshold
<1>5. PICK f \in w \cup b : Rank[f] >= Rank[threshold]
  BY <1>1, <1>3, SMT DEF Gate, Passed
<1>6. PICK g \in v \cup c : Rank[g] >= Rank[f]
  BY Zenon DEF AsBad
<1>7. Rank[g] >= Rank[threshold]
  <2>1. Rank[f] \in Nat /\ Rank[g] \in Nat /\ Rank[threshold] \in Nat
    BY <1>2, RankIsNat
  <2> QED
    BY <1>5, <1>6, <2>1, SMT
<1>8. Pentest(p(v, c), threshold).verdict # "ok"
  BY <1>4, <1>7, SMT DEF Gate, Blocked, Error
<1> QED
  BY <1>1, <1>8, Zenon DEF PentestStops, p, threshold

LEMMA SupersetIsAsBad ==
  ASSUME NEW found, NEW other, other \subseteq found, other \subseteq Severities
  PROVE  AsBad(found, other)
<1> SUFFICES ASSUME NEW f \in other PROVE \E g \in found : Rank[g] >= Rank[f]
  BY DEF AsBad
<1>1. Rank[f] >= Rank[f]
  BY RankIsNat, SMT
<1> QED
  BY <1>1

(* What a deployment may do to the features, but for the schemes.          *)
MayWeaken(s, t) ==
  /\ \/ s.csp = t.csp
     \/ s.csp = "frame-ancestors" /\ t.csp = "plain"
     \/ s.csp = "plain" /\ t.csp = "missing"
  /\ s.nosniff = t.nosniff \/ t.nosniff = "missing"
  /\ s.frame = t.frame \/ t.frame = "missing"
  /\ s.hsts = t.hsts \/ t.hsts = "missing"
  /\ s.referrer = t.referrer \/ t.referrer = "missing"
  /\ s.cookie = t.cookie \/ s.cookie = "all-flags" \/ t.cookie = "no-flags"
  /\ s.server = t.server \/ t.server = "version"
  /\ s.cors = t.cors \/ s.cors = "none" \/ t.cors = "any-with-credentials"
  /\ s.plainHttp = t.plainHttp \/ s.plainHttp = "to-https" \/ t.plainHttp = "served"
  /\ \/ s.exposed = t.exposed
     \/ s.exposed = "nothing"
     \/ s.exposed = "/config.json" /\ t.exposed = "/admin"
     \/ s.exposed = "/admin" /\ t.exposed = "/backup.zip"
     \/ s.exposed = "/backup.zip" /\ t.exposed = "/.env"
  /\ s.robots = t.robots \/ t.robots = "admin"

LEMMA SeverityOfPath ==
  /\ SeverityForPath["/.env"] = "critical" /\ SeverityForPath["/backup.zip"] = "high"
  /\ SeverityForPath["/admin"] = "medium" /\ SeverityForPath["/config.json"] = "low"
  /\ DOMAIN SeverityForPath = {"/.env", "/backup.zip", "/admin", "/config.json"}
BY SMT DEF SeverityForPath

(* A check that looks at weaker features finds as much.                    *)
LEMMA ChecksFindAsMuch ==
  ASSUME NEW s, NEW t, s.target = t.target, s.lands = t.lands, MayWeaken(s, t),
         s.exposed \in {"nothing"} \cup DOMAIN SeverityForPath
  PROVE  /\ AsBad(CheckSecurityHeaders(t), CheckSecurityHeaders(s))
         /\ AsBad(CheckCookies(t), CheckCookies(s))
         /\ AsBad(CheckServerDisclosure(t), CheckServerDisclosure(s))
         /\ AsBad(CheckOpenCors(t), CheckOpenCors(s))
         /\ AsBad(CheckHttpsEnforcement(t), CheckHttpsEnforcement(s))
         /\ AsBad(CheckSensitivePaths(t), CheckSensitivePaths(s))
         /\ AsBad(CheckRobots(t), CheckRobots(s))
<1> USE DEF MayWeaken, AsBad, If
<1>0. /\ Rank["high"] >= Rank["high"] /\ Rank["high"] >= Rank["medium"]
      /\ Rank["high"] >= Rank["low"] /\ Rank["medium"] >= Rank["medium"]
      /\ Rank["medium"] >= Rank["low"] /\ Rank["low"] >= Rank["low"]
      /\ Rank["critical"] >= Rank["critical"] /\ Rank["critical"] >= Rank["high"]
  BY SMT DEF Rank
<1>1. CheckSecurityHeaders(s) \subseteq CheckSecurityHeaders(t)
  BY SMT DEF CheckSecurityHeaders
<1>2. AsBad(CheckSecurityHeaders(t), CheckSecurityHeaders(s))
  <2>1. CheckSecurityHeaders(s) \subseteq {"high", "medium", "low"}
    BY SMT DEF CheckSecurityHeaders
  <2> QED
    BY <1>0, <1>1, <2>1, SMT
<1>3. AsBad(CheckCookies(t), CheckCookies(s))
  BY <1>0, SMT DEF CheckCookies
<1>4. AsBad(CheckServerDisclosure(t), CheckServerDisclosure(s))
  BY <1>0, SMT DEF CheckServerDisclosure
<1>5. AsBad(CheckOpenCors(t), CheckOpenCors(s))
  BY <1>0, SMT DEF CheckOpenCors
<1>6. AsBad(CheckHttpsEnforcement(t), CheckHttpsEnforcement(s))
  BY <1>0, SMT DEF CheckHttpsEnforcement
<1>7. AsBad(CheckSensitivePaths(t), CheckSensitivePaths(s))
  BY <1>0, SeverityOfPath, SMT DEF CheckSensitivePaths
<1>8. AsBad(CheckRobots(t), CheckRobots(s))
  BY <1>0, SMT DEF CheckRobots
<1> QED
  BY <1>2, <1>3, <1>4, <1>5, <1>6, <1>7, <1>8, Zenon

LEMMA WeakerSiteIsAsBad ==
  ASSUME NEW s, NEW t, s.target = t.target, s.lands = t.lands, MayWeaken(s, t),
         s.exposed \in {"nothing"} \cup DOMAIN SeverityForPath
  PROVE  AsBad(Probe(t), Probe(s))
<1> SUFFICES ASSUME NEW f \in Probe(s) PROVE \E g \in Probe(t) : Rank[g] >= Rank[f]
  BY DEF AsBad
<1>1. CASE f \in CheckSecurityHeaders(s) \cup CheckCookies(s) \cup CheckServerDisclosure(s)
                  \cup CheckOpenCors(s) \cup CheckSensitivePaths(s) \cup CheckRobots(s)
  BY <1>1, ChecksFindAsMuch, Zenon DEF AsBad, Probe
<1>2. CASE s.target = "https" /\ f \in CheckHttpsEnforcement(s)
  BY <1>2, ChecksFindAsMuch, Zenon DEF AsBad, Probe
<1>3. CASE s.target # "https" /\ f = "high"
  <2>1. Rank["high"] >= Rank["high"]
    BY SMT DEF Rank
  <2> QED
    BY <1>3, <2>1, Zenon DEF Probe
<1> QED
  BY <1>1, <1>2, <1>3, Zenon DEF Probe

(* Of plain http some checks do not ask what they ask of https, but that   *)
(* the site is asked for by a plain http URL is worse than what they miss. *)
LEMMA PlainHttpIsAsBad ==
  ASSUME NEW s, NEW t, t.target = "http", t.server = s.server,
         t.cors = s.cors, t.exposed = s.exposed, t.robots = s.robots,
         s.exposed \in {"nothing"} \cup DOMAIN SeverityForPath
  PROVE  AsBad(Probe(t), Probe(s))
<1> SUFFICES ASSUME NEW f \in Probe(s) PROVE \E g \in Probe(t) : Rank[g] >= Rank[f]
  BY DEF AsBad
<1>1. "high" \in Probe(t)
  BY SMT DEF Probe
<1>2. CASE f \in CheckSecurityHeaders(s) \cup CheckCookies(s) \cup CheckHttpsEnforcement(s)
  <2>1. f \in {"high", "medium", "low"}
    BY <1>2, SMT DEF CheckSecurityHeaders, CheckCookies, CheckHttpsEnforcement, If
  <2>2. Rank["high"] >= Rank[f]
    BY <2>1, SMT DEF Rank
  <2> QED
    BY <1>1, <2>2
<1>3. CASE f \in CheckServerDisclosure(s) \cup CheckOpenCors(s) \cup CheckSensitivePaths(s)
                  \cup CheckRobots(s)
  <2>1. f \in Probe(t)
    BY <1>3, Zenon DEF Probe, CheckServerDisclosure, CheckOpenCors, CheckSensitivePaths,
       CheckRobots
  <2>2. Rank[f] >= Rank[f]
    BY SeveritiesFound, RankIsNat, SMT
  <2> QED
    BY <2>1, <2>2
<1>4. CASE f = "high"
  <2>1. Rank["high"] >= Rank["high"]
    BY SMT DEF Rank
  <2> QED
    BY <1>1, <1>4, <2>1
<1> QED
  BY <1>2, <1>3, <1>4, Zenon DEF Probe

-----------------------------------------------------------------------------
ProbeInv ==
  /\ DOMAIN site = Features
  /\ \A x \in Features : site[x] \in 1 .. Len(Strength[x])
  /\ file \in Files

LEMMA FeaturesAre ==
  /\ Features = {"target", "lands", "csp", "nosniff", "frame", "hsts", "referrer", "cookie",
                 "server", "cors", "plainHttp", "exposed", "robots"}
  /\ \A x \in Features : Len(Strength[x]) \in Nat \ {0}
<1>1. Features = {"target", "lands", "csp", "nosniff", "frame", "hsts", "referrer", "cookie",
                  "server", "cors", "plainHttp", "exposed", "robots"}
  BY SMT DEF Features, Strength
<1>2. \A x \in Features : Len(Strength[x]) \in Nat \ {0}
  BY <1>1, SMT DEF Strength
<1> QED
  BY <1>1, <1>2

LEMMA ProbeInvInit == ProbeInit => ProbeInv
<1> SUFFICES ASSUME ProbeInit PROVE ProbeInv
  OBVIOUS
<1>1. BlankFile \in Files
  BY SMT DEF BlankFile, Files
<1>2. file \in Files
  BY <1>1, Zenon DEF ProbeInit
<1>3. site = [x \in Features |-> 1]
  BY Zenon DEF ProbeInit
<1>4. DOMAIN site = Features /\ \A x \in Features : site[x] = 1
  BY <1>3, Zenon
<1>5. \A x \in Features : 1 \in 1 .. Len(Strength[x])
  <2> TAKE x \in Features
  <2>1. Len(Strength[x]) \in Nat \ {0}
    BY FeaturesAre, Zenon
  <2> QED
    BY <2>1, SMT
<1> QED
  BY <1>2, <1>4, <1>5, Zenon DEF ProbeInv

LEMMA WeakenSiteKeeps ==
  ASSUME ProbeInv, NEW x \in Features, WeakenSite(x)
  PROVE  ProbeInv'
<1>1. site' = [site EXCEPT ![x] = site[x] + 1] /\ file' = file /\ site[x] < Len(Strength[x])
  BY Zenon DEF WeakenSite
<1>2. DOMAIN site' = Features /\ site'[x] = site[x] + 1
      /\ \A y \in Features : y # x => site'[y] = site[y]
  BY <1>1, Zenon DEF ProbeInv
<1>3. site'[x] \in 1 .. Len(Strength[x])
  <2>1. site[x] \in 1 .. Len(Strength[x]) /\ Len(Strength[x]) \in Nat
    BY FeaturesAre, Zenon DEF ProbeInv
  <2> QED
    BY <1>1, <1>2, <2>1, SMT
<1> QED
  BY <1>1, <1>2, <1>3, Zenon DEF ProbeInv

LEMMA WeakenFileKeeps ==
  ASSUME ProbeInv, WeakenFile
  PROVE  /\ ProbeInv'
         /\ ScanFile(file) \subseteq ScanFile(file')
<1>1. file \in Files /\ site' = site
  BY Zenon DEF ProbeInv, WeakenFile
<1>2. /\ file' \in Files
      /\ file'.ext = file.ext /\ file'.part = file.part
      /\ file'.large = file.large /\ file'.long = file.long
      /\ file.matches \subseteq file'.matches /\ file'.flags \subseteq file.flags
  <2>1. CASE \E kind \in Kinds \ file.matches : file' = [file EXCEPT !.matches = @ \cup {kind}]
    BY <1>1, <2>1, SMT DEF Files
  <2>2. CASE \E flag \in file.flags : file' = [file EXCEPT !.flags = @ \ {flag}]
    BY <1>1, <2>2, SMT DEF Files
  <2> QED
    BY <2>1, <2>2, Zenon DEF WeakenFile
<1>3. \A r \in Rules : Applies(r, file) => Applies(r, file')
  BY <1>2, Zenon DEF Applies
<1>4. ScanFile(file) \subseteq ScanFile(file')
  <2> HIDE DEF Rules
  <2> QED
    BY <1>2, <1>3, SMT DEF ScanFile
<1> QED
  BY <1>1, <1>2, <1>4, Zenon DEF ProbeInv

LEMMA ProbeInvNext == ProbeInv /\ [ProbeNext]_probeVars => ProbeInv'
<1>1. CASE UNCHANGED probeVars
  BY <1>1, Zenon DEF probeVars, ProbeInv
<1> QED
  BY <1>1, WeakenSiteKeeps, WeakenFileKeeps DEF ProbeNext

(* One feature of the site is a step weaker, and the others are as before. *)
LEMMA SiteChanges ==
  ASSUME ProbeInv, NEW x \in Features, WeakenSite(x)
  PROVE  /\ \A y \in Features : y # x => Site'[y] = Site[y]
         /\ \E i \in 1 .. Len(Strength[x]) - 1 :
              Site[x] = Strength[x][i] /\ Site'[x] = Strength[x][i + 1]
<1>1. site' = [site EXCEPT ![x] = site[x] + 1] /\ site[x] < Len(Strength[x])
  BY Zenon DEF WeakenSite
<1>2. site'[x] = site[x] + 1 /\ \A y \in Features : y # x => site'[y] = site[y]
  BY <1>1, Zenon DEF ProbeInv
<1>3. /\ Site[x] = Strength[x][site[x]] /\ Site'[x] = Strength[x][site'[x]]
      /\ \A y \in Features : Site[y] = Strength[y][site[y]] /\ Site'[y] = Strength[y][site'[y]]
  BY Zenon DEF Site
<1>4. site[x] \in 1 .. Len(Strength[x]) - 1
  <2>1. site[x] \in 1 .. Len(Strength[x]) /\ Len(Strength[x]) \in Nat
    BY FeaturesAre, Zenon DEF ProbeInv
  <2> QED
    BY <1>1, <2>1, SMT
<1> QED
  BY <1>2, <1>3, <1>4, Zenon

LEMMA PathsAreKnown ==
  ASSUME NEW i \in 1 .. Len(Strength["exposed"])
  PROVE  Strength["exposed"][i] \in {"nothing"} \cup DOMAIN SeverityForPath
BY SeverityOfPath, SMT DEF Strength

LEMMA ExposedIsKnown ==
  ASSUME ProbeInv
  PROVE  Site.exposed \in {"nothing"} \cup DOMAIN SeverityForPath
<1>1. Site["exposed"] = Strength["exposed"][site["exposed"]]
  BY FeaturesAre, Zenon DEF Site
<1>2. site["exposed"] \in 1 .. Len(Strength["exposed"])
  BY FeaturesAre, Zenon DEF ProbeInv
<1> QED
  BY <1>1, <1>2, PathsAreKnown

LEMMA ChangeMayWeaken ==
  ASSUME NEW s, NEW t, NEW x \in Features, x \notin {"target", "lands"},
         \A y \in Features : y # x => t[y] = s[y],
         \E i \in 1 .. Len(Strength[x]) - 1 : s[x] = Strength[x][i] /\ t[x] = Strength[x][i + 1]
  PROVE  MayWeaken(s, t) /\ s.target = t.target /\ s.lands = t.lands
<1>1. s.target = t.target /\ s.lands = t.lands
  BY FeaturesAre, SMT
<1>2. CASE x = "csp"
  <2>1. \/ s.csp = "frame-ancestors" /\ t.csp = "plain"
        \/ s.csp = "plain" /\ t.csp = "missing"
    BY <1>2, SMT DEF Strength
  <2> QED
    BY <1>2, <2>1, FeaturesAre, SMT DEF MayWeaken
<1>3. CASE x \in {"nosniff", "frame", "hsts", "referrer"}
  <2>1. Strength[x] = <<"set", "missing">>
    BY <1>3, SMT DEF Strength
  <2>2. t[x] = "missing"
    BY <2>1, SMT
  <2> QED
    BY <1>3, <2>2, FeaturesAre, SMTT(30) DEF MayWeaken
<1>4. CASE x = "cookie"
  <2>1. s.cookie = "all-flags" \/ t.cookie = "no-flags"
    BY <1>4, SMT DEF Strength
  <2> QED
    BY <1>4, <2>1, FeaturesAre, SMT DEF MayWeaken
<1>5. CASE x = "server"
  <2>1. t.server = "version"
    BY <1>5, SMT DEF Strength
  <2> QED
    BY <1>5, <2>1, FeaturesAre, SMT DEF MayWeaken
<1>6. CASE x = "cors"
  <2>1. s.cors = "none" \/ t.cors = "any-with-credentials"
    BY <1>6, SMT DEF Strength
  <2> QED
    BY <1>6, <2>1, FeaturesAre, SMT DEF MayWeaken
<1>7. CASE x = "plainHttp"
  <2>1. s.plainHttp = "to-https" \/ t.plainHttp = "served"
    BY <1>7, SMT DEF Strength
  <2> QED
    BY <1>7, <2>1, FeaturesAre, SMT DEF MayWeaken
<1>8. CASE x = "exposed"
  <2>1. \/ s.exposed = "nothing"
        \/ s.exposed = "/config.json" /\ t.exposed = "/admin"
        \/ s.exposed = "/admin" /\ t.exposed = "/backup.zip"
        \/ s.exposed = "/backup.zip" /\ t.exposed = "/.env"
    BY <1>8, SMT DEF Strength
  <2> QED
    BY <1>8, <2>1, FeaturesAre, SMT DEF MayWeaken
<1>9. CASE x = "robots"
  <2>1. t.robots = "admin"
    BY <1>9, SMT DEF Strength
  <2> QED
    BY <1>9, <2>1, FeaturesAre, SMT DEF MayWeaken
<1> QED
  BY <1>1, <1>2, <1>3, <1>4, <1>5, <1>6, <1>7, <1>8, <1>9, FeaturesAre, SMT

LEMMA WeakenSiteIsAsBad ==
  ASSUME ProbeInv, NEW x \in Features, WeakenSite(x), ~LeavesHttps
  PROVE  AsBad(Probe(Site'), Probe(Site))
<1>1. CASE x \notin {"target", "lands"}
  <2>1. MayWeaken(Site, Site') /\ Site.target = Site'.target /\ Site.lands = Site'.lands
    BY <1>1, SiteChanges, ChangeMayWeaken
  <2> QED
    BY <2>1, ExposedIsKnown, WeakerSiteIsAsBad
<1>2. CASE x \in {"target", "lands"}
  <2>1. /\ Site'.server = Site.server /\ Site'.cors = Site.cors
        /\ Site'.exposed = Site.exposed /\ Site'.robots = Site.robots
    BY <1>2, SiteChanges, FeaturesAre, SMT
  <2>2. PICK i \in 1 .. Len(Strength[x]) - 1 :
          Site[x] = Strength[x][i] /\ Site'[x] = Strength[x][i + 1]
    BY SiteChanges, Zenon
  <2>3. Strength[x] = <<"https", "http">>
    BY <1>2, SMT DEF Strength
  <2>4. Site[x] = "https" /\ Site'[x] = "http"
    BY <2>2, <2>3, SMT
  <2>5. Site'.target = "http"
    <3>1. CASE x = "target"
      BY <2>4, <3>1
    <3>2. CASE x = "lands"
      <4>1. Site.target # "https" /\ Site'["target"] = Site["target"]
        BY <2>4, <3>2, SiteChanges, FeaturesAre, SMTT(30) DEF LeavesHttps
      <4>2. Site["target"] \in {"https", "http"}
        <5>1. Site["target"] = Strength["target"][site["target"]]
          BY FeaturesAre, Zenon DEF Site
        <5>2. site["target"] \in 1 .. Len(Strength["target"])
          BY FeaturesAre, Zenon DEF ProbeInv
        <5>3. Strength["target"] = <<"https", "http">>
          BY SMT DEF Strength
        <5> QED
          BY <5>1, <5>2, <5>3, SMT
      <4> QED
        BY <4>1, <4>2
    <3> QED
      BY <1>2, <3>1, <3>2
  <2> QED
    BY <2>1, <2>5, ExposedIsKnown, PlainHttpIsAsBad
<1> QED
  BY <1>1, <1>2

(* Cso blocks on what blocks the pentest, whose findings it takes over     *)
(* (cso.rs 107-181), and investigate reports what a phase has confirmed    *)
(* (investigate.rs 123-284), for every site, source file and --fail-on.    *)
THEOREM VerdictsAlwaysStand == ProbeSpec => []VerdictsStand
<1>1. ProbeInit => ProbeInv
  BY ProbeInvInit
<1>2. ProbeInv /\ [ProbeNext]_probeVars => ProbeInv'
  BY ProbeInvNext
<1>3. ProbeInv => VerdictsStand
  <2> SUFFICES ASSUME ProbeInv PROVE CsoStopsAsMuch
    BY ConfirmedIsReported DEF VerdictsStand
  <2>1. ScanFile(file) \cup Probe(Site) \subseteq Severities /\ ScanFile(file) # Failed
    BY ExposedIsKnown, SeveritiesFound, Zenon
  <2> QED
    BY <2>1, CsoStopsWhatPentestStops, Zenon DEF CsoStopsAsMuch
<1> QED
  BY <1>1, <1>2, <1>3, PTL DEF ProbeSpec

(* A site or a source file that loses a protection is stopped by every     *)
(* gate that stopped it before (blackbox.rs 61-143, whitebox.rs 354-411),  *)
(* unless it is that its https URL now redirects to plain http.            *)
THEOREM WeakerIsStopped == ProbeSpec => WeakerNeverPasses
<1>1. ProbeInit => ProbeInv
  BY ProbeInvInit
<1>2. ProbeInv /\ [ProbeNext]_probeVars => ProbeInv'
  BY ProbeInvNext
<1>3. ProbeInv /\ ProbeInv' /\ [ProbeNext]_probeVars => [~Loosened]_probeVars
  <2> SUFFICES ASSUME ProbeInv, ProbeInv', ProbeNext, ~LeavesHttps
               PROVE  PentestStops(ScanFile(file), Probe(Site))
                        \subseteq PentestStops(ScanFile(file'), Probe(Site'))
    BY Zenon DEF Loosened
  <2>1. /\ ScanFile(file) \cup Probe(Site) \subseteq Severities /\ ScanFile(file) # Failed
        /\ Site'.exposed \in {"nothing"} \cup DOMAIN SeverityForPath
    <3>1. Site.exposed \in {"nothing"} \cup DOMAIN SeverityForPath
      BY ExposedIsKnown
    <3>2. Site'.exposed \in {"nothing"} \cup DOMAIN SeverityForPath
      <4>1. Site'["exposed"] = Strength["exposed"][site'["exposed"]]
        BY FeaturesAre, Zenon DEF Site
      <4>2. site'["exposed"] \in 1 .. Len(Strength["exposed"])
        BY FeaturesAre, Zenon DEF ProbeInv
      <4> QED
        BY <4>1, <4>2, PathsAreKnown
    <3> QED
      BY <3>1, <3>2, SeveritiesFound, Zenon
  <2>2. ScanFile(file') \cup Probe(Site') \subseteq Severities
    BY <2>1, SeveritiesFound, Zenon
  <2>3. AsBad(ScanFile(file') \cup Probe(Site'), ScanFile(file) \cup Probe(Site))
    <3>1. ASSUME NEW x \in Features, WeakenSite(x)
          PROVE  AsBad(ScanFile(file') \cup Probe(Site'), ScanFile(file) \cup Probe(Site))
      <4>1. file' = file
        BY <3>1, Zenon DEF WeakenSite
      <4>2. AsBad(ScanFile(file), ScanFile(file))
        BY SupersetIsAsBad, SeveritiesFound
      <4>3. AsBad(Probe(Site'), Probe(Site))
        BY <3>1, WeakenSiteIsAsBad
      <4> QED
        BY <4>1, <4>2, <4>3, Zenon DEF AsBad
    <3>2. CASE WeakenFile
      <4>1. ScanFile(file) \subseteq ScanFile(file')
        BY <3>2, WeakenFileKeeps
      <4>2. Site' = Site
        BY <3>2, Zenon DEF WeakenFile, Site
      <4> QED
        BY <2>1, <4>1, <4>2, SupersetIsAsBad
    <3> QED
      BY <3>1, <3>2 DEF ProbeNext
  <2> QED
    BY <2>1, <2>2, <2>3, StopsIfAsBad
<1> QED
  BY <1>1, <1>2, <1>3, PTL DEF ProbeSpec, WeakerNeverPasses
=============================================================================
