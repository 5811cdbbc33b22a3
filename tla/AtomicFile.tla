----------------------------- MODULE AtomicFile ------------------------------
(***************************************************************************)
(* What write_file promises of a file (crates/runtime/src/tools/           *)
(* write_file.rs 5-9): a write replaces the whole text in one step, so     *)
(* whoever reads the file reads what some one write put there, and a write *)
(* that reports an error has changed nothing.                              *)
(***************************************************************************)
CONSTANTS
  Writers,     \* those that write the file
  Old, NoText  \* a text from before; the file is missing

VARIABLES
  text,        \* the text of the file: that of the writer named
  undecided    \* writers that have not replaced it yet and still may

Init == text \in {NoText, Old} /\ undecided = {}

Ask(w) ==
  /\ w \notin undecided
  /\ undecided' = undecided \cup {w}
  /\ UNCHANGED text

Replace(w) ==
  /\ w \in undecided
  /\ text' = w
  /\ undecided' = undecided \ {w}

GiveUp(ws) ==
  /\ ws \subseteq undecided
  /\ undecided' = undecided \ ws
  /\ UNCHANGED text

Next ==
  \/ \E w \in Writers : Ask(w) \/ Replace(w)
  \/ \E ws \in SUBSET Writers : GiveUp(ws)

Spec == Init /\ [][Next]_<<text, undecided>>
=============================================================================
