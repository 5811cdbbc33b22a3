------------------------------ MODULE AuditLog -------------------------------
(***************************************************************************)
(* The hash-chained audit log (crates/agents/src/audit.rs).  Loggers open  *)
(* one file, resume its chain from the last line and append entries; a     *)
(* logger of the deck is used under a mutex, so its log() calls come one   *)
(* after the other, but a second process may have the same file open.      *)
(* writeln! hands a line to the file in two writes, the text and the line  *)
(* break, and an error or a crash can come before, between or inside them. *)
(*                                                                         *)
(* A hash is the number of the entry it was computed from: no two entries  *)
(* have the same hash, and one whose content is changed no longer has its  *)
(* own.  The time, type and fields of an entry are left out.               *)
(***************************************************************************)
EXTENDS Integers, Sequences, FiniteSetsExt

CONSTANTS
  Loggers,       \* processes that can have the log open
  MaxEntries     \* bound: entries ever written

LogAssumption == MaxEntries \in Nat

Genesis == 0     \* genesis_hash()
NoHash == -1     \* the logger is not open

VARIABLES
  file,      \* the lines: each the texts written on it; the last is unended
  lastHash,  \* AuditLogger.last_hash of each logger
  writing,   \* the entry it has written without its line break, or none
  next,      \* number of the next entry
  acked,     \* history: the entries for which log() returned Ok, in order
  faults     \* history: what went wrong: "io", "crash", "shared"

logVars == <<file, lastHash, writing, next, acked, faults>>

NoEntry == [hash |-> 0, prev |-> 0]
PartOfEntry == [hash |-> 0, prev |-> -1]    \* text that does not parse

LogInit ==
  /\ file = << <<>> >>
  /\ lastHash = [l \in Loggers |-> NoHash]
  /\ writing = [l \in Loggers |-> NoEntry]
  /\ next = 1
  /\ acked = <<>>
  /\ faults = {}

-----------------------------------------------------------------------------
(* Reading the file back.                                                  *)

(* Blank lines are skipped by every reader.                                *)
EntryLines(f) == {i \in 1 .. Len(f) : f[i] # <<>>}

(* A line is an entry when it is exactly one: serde_json refuses text that *)
(* is cut short, and text after the object.                                *)
IsEntry(text) == Len(text) = 1 /\ text[1] # PartOfEntry

Readable(f) == \A i \in EntryLines(f) : IsEntry(f[i])

(* The hash a reader that has come to line n remembers.                    *)
HashBefore(f, n) ==
  LET before == {i \in EntryLines(f) : i < n}
  IN  IF before = {} THEN Genesis ELSE f[Max(before)][1].hash

(* last_hash_in_file; fails when a line is not an entry.                   *)
LastHash(f) == HashBefore(f, Len(f) + 1)

(* verify_audit_log: each entry's prev_hash is the hash of the one before. *)
(* (The second check, that this_hash is that of the content, always holds  *)
(* of an entry log() wrote.)                                               *)
VerifyAuditLog(f) ==
  Readable(f) /\ \A i \in EntryLines(f) : f[i][1].prev = HashBefore(f, i)

-----------------------------------------------------------------------------
Append1(f, text) == [f EXCEPT ![Len(f)] = Append(@, text)]
EndLine(f) == Append(f, <<>>)
Others(l) == {m \in Loggers \ {l} : lastHash[m] # NoHash}

(* Mutant: the logger always starts a new chain.                           *)
OpenLog_fromGenesis(l) ==
  /\ lastHash[l] = NoHash /\ Readable(file)
  /\ lastHash' = [lastHash EXCEPT ![l] = Genesis]
  /\ faults' = IF Others(l) = {} THEN faults ELSE faults \cup {"shared"}
  /\ UNCHANGED <<file, writing, next, acked>>

(* AuditLogger::open; it fails, and the deck does not start, on a file     *)
(* that cannot be read.                                                    *)
OpenLog(l) ==
  /\ lastHash[l] = NoHash /\ Readable(file)
  /\ lastHash' = [lastHash EXCEPT ![l] = LastHash(file)]
  /\ faults' = IF Others(l) = {} THEN faults ELSE faults \cup {"shared"}
  /\ UNCHANGED <<file, writing, next, acked>>

(* log(): the entry is chained to the last one this logger knows of.       *)
WriteText(l) ==
  /\ lastHash[l] # NoHash /\ writing[l] = NoEntry /\ next <= MaxEntries
  /\ LET entry == [hash |-> next, prev |-> lastHash[l]] IN
     /\ file' = Append1(file, entry)
     /\ writing' = [writing EXCEPT ![l] = entry]
  /\ next' = next + 1
  /\ UNCHANGED <<lastHash, acked, faults>>

WriteLineBreak(l) ==
  /\ writing[l] # NoEntry
  /\ file' = EndLine(file)
  /\ lastHash' = [lastHash EXCEPT ![l] = writing[l].hash]
  /\ acked' = Append(acked, writing[l])
  /\ writing' = [writing EXCEPT ![l] = NoEntry]
  /\ UNCHANGED <<next, faults>>

(* The disk refuses part or all of the text, or the line break.  log()     *)
(* returns the error, which the deck drops, and last_hash stays as it was. *)
TextFails(l) ==
  /\ lastHash[l] # NoHash /\ writing[l] = NoEntry /\ next <= MaxEntries
  /\ file' \in {file, Append1(file, PartOfEntry)}
  /\ next' = next + 1
  /\ faults' = faults \cup {"io"}
  /\ UNCHANGED <<lastHash, writing, acked>>

LineBreakFails(l) ==
  /\ writing[l] # NoEntry
  /\ writing' = [writing EXCEPT ![l] = NoEntry]
  /\ faults' = faults \cup {"io"}
  /\ UNCHANGED <<file, lastHash, next, acked>>

(* The process ends: between two entries, or in the middle of one.         *)
CloseLog(l) ==
  /\ lastHash[l] # NoHash /\ writing[l] = NoEntry
  /\ lastHash' = [lastHash EXCEPT ![l] = NoHash]
  /\ UNCHANGED <<file, writing, next, acked, faults>>

LoggerDies(l) ==
  /\ writing[l] # NoEntry
  /\ writing' = [writing EXCEPT ![l] = NoEntry]
  /\ lastHash' = [lastHash EXCEPT ![l] = NoHash]
  /\ faults' = faults \cup {"crash"}
  /\ UNCHANGED <<file, next, acked>>

LoggerStep(l) ==
  \/ OpenLog(l) \/ CloseLog(l) \/ LoggerDies(l)
  \/ WriteText(l) \/ WriteLineBreak(l) \/ TextFails(l) \/ LineBreakFails(l)

LogNext == \E l \in Loggers : LoggerStep(l)

LogSpec == LogInit /\ [][LogNext]_logVars

-----------------------------------------------------------------------------
(* A log that verifies is evidence: whatever crashed, failed or wrote to   *)
(* the file at the same time, when verify_audit_log accepts it, every      *)
(* entry log() acknowledged is a line of it, once, and their lines are in  *)
(* the order of the calls.                                                 *)
VerifiedIsEvidence ==
  VerifyAuditLog(file) =>
    /\ \A k \in 1 .. Len(acked) : \E i \in 1 .. Len(file) : file[i] = <<acked[k]>>
    /\ \A k, m \in 1 .. Len(acked), i, j \in 1 .. Len(file) :
         file[i] = <<acked[k]>> /\ file[j] = <<acked[m]>> => (k < m <=> i < j)

(* With one logger at a time that is never interrupted inside a line, the  *)
(* chain resumes over any number of restarts: the log always verifies, and *)
(* the deck can always be started on it.                                   *)
CleanLogVerifies == faults = {} => VerifyAuditLog(file)

(* The two promises of the audit log together (audit.rs 86-165).           *)
LogIsEvidence == VerifiedIsEvidence /\ CleanLogVerifies
=============================================================================
