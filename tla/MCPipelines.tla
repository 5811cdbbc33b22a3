----------------------------- MODULE MCPipelines ----------------------------
(***************************************************************************)
(* What works on a repository, for model checking: ship, the pre-push      *)
(* hook, the pentest engines behind the gates, engulf, the set-up of a     *)
(* project, and the file tools of agents.  Each behaviour has one of them  *)
(* at work.                                                                *)
(***************************************************************************)
EXTENDS PushHook, FileTools, Probe, Ship, Engulf, Setup

VARIABLE which   \* the one at work

ASSUME FileToolsAssumption /\ ShipAssumption /\ EngulfAssumption /\ SetupAssumption

(* Two prompts that go to one file, and one with a file of its own.        *)
Mapped(s, d) == [source |-> s, dest |-> d]
MCMappings == <<Mapped("CODEX.md", "CODEX.md"), Mapped("AGENTS.md", "AGENT.md"),
                Mapped("GEMINI.md", "AGENT.md")>>
MCTemplates == <<"AGENT.md", "CODEX.md">>

(* A run that is asked for everything, and runs that differ from it in one *)
(* or two respects.                                                        *)
FullRun == [gates |-> {"review", "audit", "pentest"}, build |-> TRUE, bump |-> TRUE,
            push |-> TRUE, dryRun |-> FALSE, failOn |-> "low"]
MCOptions ==
  {FullRun, [FullRun EXCEPT !.failOn = "critical"], [FullRun EXCEPT !.gates = {"audit"}],
   [FullRun EXCEPT !.build = FALSE, !.bump = FALSE], [FullRun EXCEPT !.dryRun = TRUE],
   [FullRun EXCEPT !.push = FALSE, !.failOn = "critical"],
   [FullRun EXCEPT !.gates = {"pentest", "review"}, !.failOn = "critical", !.bump = FALSE]}

(* Repositories that between them have each kind of file once, and lose    *)
(* and gain some from one to the next.                                     *)
MCTrees == {{}, {Env, Vercel, Module, Workflow},
            {Env, Main, Keys, TestKeys, EnvExample},
            {GitIgnore, Main, Keys, Routes, Package, DockerFile}}
(* All phases; a list that asks first for what needs a scan; and lists     *)
(* that bring again, or after the notes, what a note shows, and the notes  *)
(* themselves.                                                             *)
MCPhaseLists == {<<>>, <<"vault", "deploy", "security", "scan">>, <<"scan", "vault", "security">>,
                 <<"scan", "deploy", "vault", "scan", "vault">>}
MCAnswers == {Failed, {"low", "severe"}}

allVars == <<which, shipVars, vars, probeVars, engulfVars, toolVars, setupVars>>

MCInit ==
  /\ which \in {"ship", "hook", "pentest", "engulf", "files", "setup"}
  /\ ShipInit /\ (which # "ship" => here = Base /\ baseKnown)
  /\ Init
  /\ ProbeInit /\ (which # "pentest" => engine = "blackbox")
  /\ EngulfInit
  /\ ToolsInit /\ (which # "files" => target = NoInode)
  /\ NotSetUp

MCNext ==
  /\ UNCHANGED which
  /\ \/ /\ which = "ship" /\ ShipNext
        /\ UNCHANGED <<vars, probeVars, engulfVars, toolVars, setupVars>>
     \/ /\ which = "hook" /\ Next
        /\ UNCHANGED <<shipVars, probeVars, engulfVars, toolVars, setupVars>>
     \/ /\ which = "pentest" /\ ProbeNext
        /\ UNCHANGED <<shipVars, vars, engulfVars, toolVars, setupVars>>
     \/ /\ which = "engulf" /\ EngulfNext
        /\ UNCHANGED <<shipVars, vars, probeVars, toolVars, setupVars>>
     \/ /\ which = "files" /\ ToolsNext
        /\ UNCHANGED <<shipVars, vars, probeVars, engulfVars, setupVars>>
     \/ /\ which = "setup" /\ SetUp
        /\ UNCHANGED <<shipVars, vars, probeVars, engulfVars, toolVars>>

MCSpec == MCInit /\ [][MCNext]_allVars
=============================================================================
