------------------------------ MODULE PushHook -------------------------------
(***************************************************************************)
(* The pre-push hook (crates/pentest-agent/src/hook.rs) and the command it *)
(* runs (crates/cli/src/commands/pentest.rs).  The user may have a hook of *)
(* her own, and write or delete one at any time; `monkey pentest           *)
(* install-hook` looks at what is there and moves hers aside, and          *)
(* `uninstall-hook` removes the managed one, in steps between which she    *)
(* writes, and the process may die; git push runs whatever hook it finds.  *)
(***************************************************************************)
EXTENDS Gates

CONSTANT UserHooks    \* bound: the hooks the user writes, numbered in order

NoHook == 0
Managed == -1         \* a file that holds the sentinel
EmptyFile == -2       \* created by fs::write, not filled yet

VARIABLES
  hook,       \* .git/hooks/pre-push
  executable, \* it has the permission git asks for
  bak,        \* .git/hooks/pre-push.bak
  step,       \* of the install or uninstall under way, or "idle"
  newest,     \* history: the last hook the user wrote and has not deleted
  written,    \* history: how many she wrote
  excuse,     \* history: what may cost her this last hook: "none", "raced", "cut short"
  push        \* the last push: [refused, skip, found]

vars == <<hook, executable, bak, step, newest, written, excuse, push>>

Init ==
  /\ hook = NoHook /\ bak = NoHook /\ executable = FALSE
  /\ step = "idle" /\ newest = NoHook /\ written = 0 /\ excuse = "none"
  /\ push = [refused |-> FALSE, skip |-> FALSE, found |-> {}]

-----------------------------------------------------------------------------
(* The hook that is in place has been looked at, and what is in place when *)
(* the next step comes is truncated or removed.                            *)
LookedAt == {"write", "fill", "remove"}

WriteHook ==
  /\ written < UserHooks
  /\ written' = written + 1 /\ newest' = written + 1 /\ hook' = written + 1
  /\ executable' = TRUE
  /\ excuse' = IF step \in LookedAt THEN "raced" ELSE "none"
  /\ UNCHANGED <<bak, step, push>>

DeleteHook ==
  /\ hook # NoHook
  /\ hook' = NoHook /\ executable' = FALSE
  /\ newest' = IF hook = newest THEN NoHook ELSE newest
  /\ UNCHANGED <<bak, step, written, excuse, push>>

(* install_pre_push_hook looks.  A hook without the sentinel is replaced   *)
(* only with force.                                                        *)
Install(force) ==
  /\ step = "idle"
  /\ \/ hook \in {NoHook, Managed} /\ step' = "write"
     \/ hook \notin {NoHook, Managed} /\ force /\ step' = "backup"
  /\ UNCHANGED <<hook, executable, bak, newest, written, excuse, push>>

(* Mutant: the old hook is removed to make place for the new one.          *)
BackUp_removes ==
  /\ step = "backup" /\ hook # NoHook
  /\ hook' = NoHook /\ executable' = FALSE
  /\ step' = "write"
  /\ UNCHANGED <<bak, newest, written, excuse, push>>

(* The rename replaces whatever backup there was; it fails if the hook is  *)
(* gone.                                                                   *)
BackUp ==
  /\ step = "backup" /\ hook # NoHook
  /\ bak' = hook /\ hook' = NoHook /\ executable' = FALSE
  /\ step' = "write"
  /\ UNCHANGED <<newest, written, excuse, push>>

(* fs::write truncates what is there.                                      *)
OpenHook ==
  /\ step = "write"
  /\ hook' = EmptyFile
  /\ step' = "fill"
  /\ UNCHANGED <<executable, bak, newest, written, excuse, push>>

(* It fills the file it opened, which may no longer be the one in place:   *)
(* the user deleted it, or put hers there - or wrote hers into it.         *)
FillHook ==
  /\ step = "fill"
  /\ \/ hook # NoHook /\ hook' = Managed
     \/ hook # EmptyFile /\ hook' = hook
  /\ step' = "chmod"
  /\ UNCHANGED <<executable, bak, newest, written, excuse, push>>

SetExecutable ==
  /\ step = "chmod" /\ hook # NoHook
  /\ executable' = TRUE
  /\ step' = "idle"
  /\ UNCHANGED <<hook, bak, newest, written, excuse, push>>

(* uninstall_pre_push_hook looks, and leaves a hook without the sentinel   *)
(* alone ...                                                               *)
Uninstall ==
  /\ step = "idle" /\ hook = Managed
  /\ step' = "remove"
  /\ UNCHANGED <<hook, executable, bak, newest, written, excuse, push>>

(* ... and removes what is there by then; the backup stays where it is.    *)
RemoveHook ==
  /\ step = "remove" /\ hook # NoHook
  /\ hook' = NoHook /\ executable' = FALSE
  /\ step' = "idle"
  /\ UNCHANGED <<bak, newest, written, excuse, push>>

(* The process dies, or a step of it fails and it returns the error.       *)
Abandon ==
  /\ step # "idle" /\ step' = "idle"
  /\ excuse' = IF step = "fill" THEN "cut short" ELSE excuse
  /\ UNCHANGED <<hook, executable, bak, newest, written, push>>

-----------------------------------------------------------------------------
(* `monkey pentest` in a repository whose source has the findings `found`. *)
(* --cwd is not given a value by --pre-push, and --fail-on is not looked   *)
(* at; the exit code is 0 only for a run that is ok.                       *)
PentestCommand(args, found) ==
  Pentest([cwd |-> args.cwd, target |-> FALSE, whitebox |-> found, blackbox |-> {}], "high")

HookArgs == [cwd |-> FALSE]    \* exec monkey pentest --pre-push

(* git runs an executable hook, here the managed one or one of the user's  *)
(* that lets everything through.                                           *)
HookRefuses(found) ==
  hook = Managed /\ executable /\ PentestCommand(HookArgs, found).verdict # "ok"

(* The body of the hook does not look at MONKEY_PENTEST_SKIP.              *)
GitPush(skip, found) ==
  /\ push' = [refused |-> HookRefuses(found), skip |-> skip, found |-> found]
  /\ UNCHANGED <<hook, executable, bak, step, newest, written, excuse>>

Next ==
  \/ WriteHook \/ DeleteHook
  \/ \E force \in BOOLEAN : Install(force)
  \/ BackUp \/ OpenHook \/ FillHook \/ SetExecutable
  \/ Uninstall \/ RemoveHook \/ Abandon
  \/ \E skip \in BOOLEAN, found \in {{}, {"medium"}, {"high"}} : GitPush(skip, found)

Spec == Init /\ [][Next]_vars

-----------------------------------------------------------------------------
(* Whatever is installed, uninstalled, forced and abandoned half-way, and  *)
(* whatever the user writes and deletes meanwhile, the hook she wrote last *)
(* is still there, in its place or as its backup: hook.rs 5, a hook of the *)
(* user's is never clobbered.  Two things may have happened to it: she     *)
(* wrote it after an install or uninstall had looked, which does not look  *)
(* again; or an install since then was cut short between creating its file *)
(* and filling it, and a second forced one takes the file without the      *)
(* sentinel for a hook and puts it over the backup.                        *)
NewestHookKept == excuse = "none" /\ newest # NoHook => newest \in {hook, bak}

(* README.md 56 and hook.rs 4: the hook blocks a push on what a scan of    *)
(* the source finds, and hook.rs 22 lets one through that asks for it.  It *)
(* refuses every push: the command it runs is told neither a source tree   *)
(* nor a target, and ends in an error.                                     *)
RefusedOnFindings == push.refused => ~push.skip /\ push.found # {}
=============================================================================
