-------------------------------- MODULE Probe --------------------------------
(***************************************************************************)
(* What the pentest engines report (crates/pentest-agent/src/blackbox.rs,  *)
(* whitebox.rs) and what becomes of it in the gates.  The blackbox engine  *)
(* looks at a site, here a record of the features its checks tell apart;   *)
(* the whitebox engine at a file with one line worth a match.  What they   *)
(* look at gets worse, one step at a time.                                 *)
(***************************************************************************)
EXTENDS Gates

CONSTANT MaxLosses   \* bound: the steps the features of the site get weaker

VARIABLES
  engine,     \* the engine whose subject changes
  site,       \* how weak each feature of the site is
  file        \* the source file

probeVars == <<engine, site, file>>

(* Features from strong to weak; a deployment moves one of them one step.  *)
Strength == [
  target    |-> <<"https", "http">>,    \* the scheme of the URL it is asked about
  lands     |-> <<"https", "http">>,    \* and of the one that redirects lead to
  csp       |-> <<"frame-ancestors", "plain", "missing">>,
  nosniff   |-> <<"set", "missing">>,
  frame     |-> <<"set", "missing">>,
  hsts      |-> <<"set", "missing">>,
  referrer  |-> <<"set", "missing">>,
  cookie    |-> <<"all-flags", "not-secure", "no-flags">>,
  server    |-> <<"bare", "version">>,
  cors      |-> <<"none", "any", "any-with-credentials">>,
  plainHttp |-> <<"to-https", "to-http", "served">>,
  exposed   |-> <<"nothing", "/config.json", "/admin", "/backup.zip", "/.env">>,
  robots    |-> <<"quiet", "admin">>]

Features == DOMAIN Strength

-----------------------------------------------------------------------------
(* The checks of blackbox.rs, one operator each.                           *)

If(condition, severity) == IF condition THEN {severity} ELSE {}

CheckSecurityHeaders(s) ==
  If(s.csp = "missing", "high")
    \cup If(s.nosniff = "missing", "medium")
    \cup If(s.frame = "missing" /\ s.csp # "frame-ancestors", "medium")
    \cup If(s.hsts = "missing" /\ s.lands = "https", "medium")
    \cup If(s.referrer = "missing", "low")

(* Secure is asked for only of an answer that came over https.             *)
CheckCookies(s) ==
  If(s.cookie = "no-flags" \/ (s.cookie = "not-secure" /\ s.lands = "https"), "medium")

CheckServerDisclosure(s) == If(s.server = "version", "low")

CheckOpenCors(s) ==
  If(s.cors = "any-with-credentials", "high") \cup If(s.cors = "any", "low")

(* The plain-http twin of an https site.                                   *)
CheckHttpsEnforcement(s) ==
  If(s.plainHttp = "served", "high") \cup If(s.plainHttp = "to-http", "medium")

SeverityForPath == [p \in {"/.env", "/backup.zip", "/admin", "/config.json"} |->
  CASE p = "/.env" -> "critical" [] p = "/backup.zip" -> "high"
    [] p = "/admin" -> "medium" [] OTHER -> "low"]

CheckSensitivePaths(s) ==
  IF s.exposed = "nothing" THEN {} ELSE {SeverityForPath[s.exposed]}

CheckRobots(s) == If(s.robots = "admin", "low")

(* Mutant: over plain http only that is reported.                          *)
Probe_stopsAtHttp(s) ==
  IF s.target = "http" THEN {"high"}
  ELSE CheckSecurityHeaders(s) \cup CheckCookies(s) \cup CheckServerDisclosure(s)
         \cup CheckOpenCors(s) \cup CheckHttpsEnforcement(s)
         \cup CheckSensitivePaths(s) \cup CheckRobots(s)

(* probe() of a site that answers: its headers are those redirects lead    *)
(* to.  (One that does not answer, or a URL that is none, is a single      *)
(* finding of severity Info.)                                              *)
Probe(s) ==
  CheckSecurityHeaders(s) \cup CheckCookies(s) \cup CheckServerDisclosure(s)
    \cup CheckOpenCors(s)
    \cup (IF s.target = "https" THEN CheckHttpsEnforcement(s) ELSE {"high"})
    \cup CheckSensitivePaths(s) \cup CheckRobots(s)

-----------------------------------------------------------------------------
(* whitebox.rs.  A rule has a severity, the extensions it looks at (none:  *)
(* all), path parts it skips, and flags that excuse a line.                *)
Scripts == {".ts", ".js"}
Code == Scripts \cup {".py", ".rs"}
Rule(kind, severity, extensions, excludes, forbid) ==
  [kind |-> kind, severity |-> severity, extensions |-> extensions,
   excludes |-> excludes, forbid |-> forbid]

(* ".ts" stands for the script extensions, ".rs" for the other languages;  *)
(* weak-crypto, hardcoded-secret and tls-verify-disabled look at any file. *)
Rules == {
  Rule("sql-injection", "high", Code, {"test", "mock"}, {}),
  Rule("command-injection", "critical", Code, {"test"}, {}),
  Rule("path-traversal", "high", Code, {"test"}, {}),
  Rule("xss-dom", "high", Scripts, {"test"}, {}),
  Rule("weak-crypto", "high", {}, {"test"}, {}),
  Rule("insecure-random", "medium", Code, {"test", "bench"}, {}),
  Rule("hardcoded-secret", "critical", {}, {"test", "fixture", "example"}, {}),
  Rule("ssrf", "high", Code, {"test"}, {}),
  Rule("eval-or-dynamic-exec", "critical", Scripts, {"test", "fixture"}, {}),
  Rule("tls-verify-disabled", "high", {}, {"test"}, {}),
  Rule("insecure-cookie", "medium", Code, {"test"}, {"HttpOnly", "Secure"})}

(* A file: its extension, a part of its path, whether it is too large, and *)
(* one line: the kinds whose pattern it matches, the flags it has, and     *)
(* whether it is too long.                                                 *)
Kinds == {"sql-injection", "command-injection", "hardcoded-secret", "eval-or-dynamic-exec",
          "insecure-cookie"}
Files == [ext : {".ts", ".rs", ".yml"}, part : {"src", "test", "example", "mock"},
          large : BOOLEAN, long : BOOLEAN, flags : SUBSET {"HttpOnly", "Secure"},
          matches : SUBSET Kinds]

Applies(rule, f) ==
  /\ rule.extensions = {} \/ f.ext \in rule.extensions
  /\ f.part \notin rule.excludes

ScanFile(f) ==
  IF f.large \/ f.long THEN {}
  ELSE {r.severity : r \in {r \in Rules :
          /\ Applies(r, f) /\ r.kind \in f.matches
          /\ r.forbid = {} \/ ~(r.forbid \subseteq f.flags)}}

-----------------------------------------------------------------------------
BlankFile == [ext |-> ".ts", part |-> "src", large |-> FALSE, long |-> FALSE,
              flags |-> {"HttpOnly", "Secure"}, matches |-> {}]
Losses == FoldFunction(LAMBDA level, sum : level - 1 + sum, 0, site)
Site == [x \in Features |-> Strength[x][site[x]]]

ProbeInit ==
  /\ engine \in {"blackbox", "whitebox"}
  /\ site = [x \in Features |-> 1]
  /\ file \in IF engine = "blackbox" THEN {BlankFile} ELSE
               {f \in Files : f.matches = {} /\ f.flags = BlankFile.flags}

WeakenSite(x) ==
  /\ engine = "blackbox" /\ Losses < MaxLosses /\ site[x] < Len(Strength[x])
  /\ site' = [site EXCEPT ![x] = @ + 1]
  /\ UNCHANGED <<engine, file>>

WeakenFile ==
  /\ engine = "whitebox"
  /\ \/ \E kind \in Kinds \ file.matches : file' = [file EXCEPT !.matches = @ \cup {kind}]
     \/ \E flag \in file.flags : file' = [file EXCEPT !.flags = @ \ {flag}]
  /\ UNCHANGED <<engine, site>>

ProbeNext == WeakenFile \/ \E x \in Features : WeakenSite(x)

ProbeSpec == ProbeInit /\ [][ProbeNext]_probeVars

-----------------------------------------------------------------------------
(* The --fail-on values with which a gate stops these findings.            *)
PentestStops(whitebox, blackbox) ==
  {failOn \in Severities :
     Pentest([cwd |-> TRUE, target |-> TRUE, whitebox |-> whitebox, blackbox |-> blackbox],
             PentestThreshold(failOn)).verdict # "ok"}

CsoStops(whitebox, blackbox) ==
  {failOn \in Severities :
     Cso([mode |-> "comprehensive", cwd |-> TRUE, target |-> TRUE, failOn |-> failOn,
          secrets |-> FALSE, audit |-> {}, advisories |-> 0,
          whitebox |-> whitebox, blackbox |-> blackbox]).verdict # "ok"}

(* An https site starts to send its visitors on to plain http.             *)
LeavesHttps == Site.target = "https" /\ Site'.lands # Site.lands

Loosened ==
  /\ <<site, file>>' # <<site, file>>
  /\ ~LeavesHttps
  /\ ~(PentestStops(ScanFile(file), Probe(Site))
         \subseteq PentestStops(ScanFile(file'), Probe(Site')))

(* A site or a file that loses a protection, whichever and in whatever     *)
(* order, is never let through by a gate that stopped it before: the       *)
(* checks are separate, but several look at one header or at a scheme      *)
(* (blackbox.rs 61-143, whitebox.rs 354-411).  One loss is excepted: where *)
(* an https URL redirects to plain http, nothing is reported for that,     *)
(* and what is asked only of an answer over https no longer is (blackbox   *)
(* .rs 113-120, 210, 246).                                                 *)
WeakerNeverPasses == [][~Loosened]_probeVars

(* What blocks the pentest blocks a comprehensive cso audit with the same  *)
(* --fail-on, which takes the findings over into its own severities; only  *)
(* "info" means info to the one and high to the other.                     *)
CsoStopsAsMuch ==
  LET whitebox == ScanFile(file)
      blackbox == Probe(Site)
  IN PentestStops(whitebox, blackbox) \ {"info"} \subseteq CsoStops(whitebox, blackbox)

(* The verdicts of one part of the skills hold for the others (cso.rs      *)
(* 107-181), and those of investigate for its report (investigate.rs       *)
(* 123-284).                                                               *)
VerdictsStand == CsoStopsAsMuch /\ ReportsConfirmed
=============================================================================
