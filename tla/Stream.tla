------------------------------- MODULE Stream -------------------------------
(***************************************************************************)
(* One streamed answer of a model: chat_stream, its line buffer and its    *)
(* accumulator (crates/runtime/src/llm.rs), under the retries of           *)
(* LimitedBackend (agent.rs).  The provider sends lines; the network cuts  *)
(* their bytes into chunks wherever it likes, may break off, and so may    *)
(* the cancel token.  A line has Width bytes, the last its line break; the *)
(* first two are one character where the line is marked wide.  What a      *)
(* fragment says is left out: it is known by the number of its line.       *)
(***************************************************************************)
EXTENDS Integers, Sequences

CONSTANTS
  Scripts,      \* the lines a provider may send, as [kind, index, wide]
  Width,        \* bytes of a line
  MaxChunk,     \* most bytes that arrive at a time (bound)
  MaxAttempts   \* requests LimitedBackend makes for one answer

SseLine == [kind : {"content", "call", "usage", "done", "bad"}, index : Nat, wide : BOOLEAN]

(* A call's index is its place in the vector, from 1.                      *)
ASSUME StreamAssumption ==
  /\ Width \in Nat /\ Width > 2
  /\ MaxAttempts \in Nat \ {0}
  /\ \A s \in Scripts :
       s \in Seq(SseLine) /\ \A i \in DOMAIN s : s[i].kind = "call" => s[i].index > 0

VARIABLES
  stream,    \* "reading", or how chat ended: "answered" or "failed"
  script,    \* what the provider sends this time
  arrived,   \* bytes of it that arrived
  buf,       \* the partial line kept for the next chunk
  text,      \* StreamAccumulator.content: fragments, in order
  calls,     \* StreamAccumulator.tool_calls: per slot, fragments in order
  heard,     \* history: what on_delta was called with
  tries,     \* requests made
  stopped,   \* the cancel token
  cut        \* history: lines whose wide character two chunks share

streamVars == <<stream, script, arrived, buf, text, calls, heard, tries, stopped, cut>>

Start ==
  /\ stream = "reading"
  /\ script \in Scripts /\ arrived = 0
  /\ buf = <<>> /\ text = <<>> /\ calls = <<>> /\ heard = <<>>
  /\ tries = 1 /\ stopped = FALSE /\ cut = {}

-----------------------------------------------------------------------------
(* The accumulator.                                                        *)

(* A fragment, or what from_utf8_lossy makes of a character cut in two.    *)
Fragment(i, damaged) == [line |-> i, damaged |-> damaged]

(* slot(index): the vector grows up to the index.                          *)
Slot(acc, index) ==
  IF Len(acc) >= index THEN acc ELSE acc \o [k \in 1..(index - Len(acc)) |-> <<>>]

(* push(): content goes to the text and to on_delta, a tool-call fragment  *)
(* to its slot; a usage chunk, or one with nothing in it, changes neither. *)
Push(st, i, damaged) ==
  LET line == script[i] f == Fragment(i, damaged)
  IN CASE line.kind = "content" ->
            [st EXCEPT !.text = Append(@, f), !.heard = Append(@, f)]
       [] line.kind = "call" ->
            LET slots == Slot(st.calls, line.index)
            IN [st EXCEPT !.calls = [slots EXCEPT ![line.index] = Append(@, f)]]
       [] line.kind = "usage" -> st
       [] line.kind = "done" -> [st EXCEPT !.end = "done"]
       [] line.kind = "bad" -> [st EXCEPT !.end = "bad"]

(* A complete line: one without "data:" at its beginning is passed over,   *)
(* one with a hole in it is no JSON.                                       *)
TakeLine(st) ==
  LET bytes == st.rest
  IN IF bytes = <<>> \/ Head(bytes).at # 1 THEN [st EXCEPT !.rest = <<>>]
     ELSE IF Len(bytes) # Width - 1 THEN [st EXCEPT !.end = "bad"]
     ELSE Push([st EXCEPT !.rest = <<>>], Head(bytes).line, \E k \in DOMAIN bytes : bytes[k].damaged)

TakeByte(st, b) ==
  IF st.end # "no" THEN st
  ELSE IF b.at = Width THEN TakeLine(st) ELSE [st EXCEPT !.rest = Append(@, b)]

(* drain_sse_lines: the complete lines of the buffer in order, until the   *)
(* end of the answer or a line that cannot be decoded.  What is kept from  *)
(* the chunk before has no line break, so the search goes on from there.   *)
Walk(st, chunk) ==
  LET after[k \in 0..Len(chunk)] ==
        IF k = 0 THEN st ELSE TakeByte(after[k - 1], chunk[k])
  IN after

(* Mutant: the buffer is taken over by each chunk, the partial line lost.  *)
Drain_forgetsRest(chunk) ==
  Walk([rest |-> <<>>, text |-> text, calls |-> calls, heard |-> heard, end |-> "no"],
       chunk)[Len(chunk)]

Drain(chunk) ==
  Walk([rest |-> buf, text |-> text, calls |-> calls, heard |-> heard, end |-> "no"],
       chunk)[Len(chunk)]

-----------------------------------------------------------------------------
(* The loop of chat_stream.                                                *)

LineOf(b) == ((b - 1) \div Width) + 1
AtOf(b) == ((b - 1) % Width) + 1
Total == Len(script) * Width

(* A chunk is decoded by itself: a wide character at its edge is damaged.  *)
Splits(b) == b \in 1..Total /\ AtOf(b) = 1 /\ script[LineOf(b)].wide
Chunk(n) ==
  [k \in 1..n |->
     LET b == arrived + k
     IN [line |-> LineOf(b), at |-> AtOf(b),
         damaged |-> (k = n /\ Splits(b)) \/ (k = 1 /\ Splits(b - 1))]]

Arrive(n) ==
  /\ stream = "reading" /\ ~stopped /\ arrived + n <= Total
  /\ LET st == Drain(Chunk(n))
     IN /\ buf' = st.rest /\ text' = st.text /\ calls' = st.calls /\ heard' = st.heard
        /\ stream' = CASE st.end = "done" -> "answered"
                       [] st.end = "bad" -> "failed"
                       [] st.end = "no" -> "reading"
  /\ arrived' = arrived + n
  /\ cut' = IF Splits(arrived + n) THEN cut \cup {LineOf(arrived + n)} ELSE cut
  /\ UNCHANGED <<script, tries, stopped>>

(* The provider ends the stream, with or without [DONE]: an answer.        *)
StreamEnds ==
  /\ stream = "reading" /\ ~stopped
  /\ stream' = "answered"
  /\ UNCHANGED <<script, arrived, buf, text, calls, heard, tries, stopped, cut>>

(* The cancel token is looked at first: what there is counts as an answer. *)
BreakOff ==
  /\ stream = "reading" /\ stopped
  /\ stream' = "answered"
  /\ UNCHANGED <<script, arrived, buf, text, calls, heard, tries, stopped, cut>>

(* The request or the connection fails.  LimitedBackend asks again with    *)
(* the same on_delta and everything else from the start.                   *)
ConnectionFails ==
  /\ stream = "reading" /\ (~stopped \/ arrived = 0)
  /\ IF tries < MaxAttempts
     THEN /\ script' \in Scripts
          /\ tries' = tries + 1 /\ arrived' = 0 /\ buf' = <<>> /\ cut' = {}
          /\ text' = <<>> /\ calls' = <<>>
          /\ UNCHANGED stream
     ELSE stream' = "failed" /\ UNCHANGED <<script, tries, arrived, buf, text, calls, cut>>
  /\ UNCHANGED <<heard, stopped>>

Stop ==
  /\ stream = "reading" /\ ~stopped
  /\ stopped' = TRUE
  /\ UNCHANGED <<stream, script, arrived, buf, text, calls, heard, tries, cut>>

AnswerOver == stream # "reading" /\ UNCHANGED streamVars

Flow ==
  \/ \E n \in 1..MaxChunk : Arrive(n)
  \/ StreamEnds \/ BreakOff \/ ConnectionFails \/ Stop
  \/ AnswerOver

StreamSpec == Start /\ [][Flow]_streamVars

-----------------------------------------------------------------------------
(* The lines that arrived in full, up to the end of the answer.            *)
UpTo(n) == {i \in 1..n : \A k \in 1..i : script[k].kind # "done"}
Received == UpTo(arrived \div Width)
Contents(lines) == {i \in lines : script[i].kind = "content"}
CallParts(lines, s) == {i \in lines : script[i].kind = "call" /\ script[i].index = s}

(* The fragments of some lines, each once and in the order they were sent, *)
(* whole but for the lines that are split.                                 *)
Sent(fragments, lines, split) ==
  /\ {fragments[k].line : k \in DOMAIN fragments} = lines
  /\ \A k, l \in DOMAIN fragments : k < l => fragments[k].line < fragments[l].line
  /\ \A k \in DOMAIN fragments : fragments[k].damaged <=> fragments[k].line \in split

EndsWith(all, last) ==
  /\ Len(last) <= Len(all)
  /\ \A k \in DOMAIN last : last[k] = all[Len(all) - Len(last) + k]

(* However the network cuts the bytes, and after however many attempts,    *)
(* the answer is what the provider sent in the last of them, fragment by   *)
(* fragment, up to the last complete line - the interleaved fragments of   *)
(* several tool calls each in their own - and it is the last thing the     *)
(* listener heard.  Only a character that two chunks share is damaged.     *)
(* (llm.rs 205-368, agent.rs 97-127.)                                      *)
AnswerIsWhatWasSent ==
  stream = "answered" =>
    /\ Sent(text, Contents(Received), cut)
    /\ \A s \in DOMAIN calls : Sent(calls[s], CallParts(Received, s), cut)
    /\ \A i \in Received : script[i].kind = "call" => script[i].index \in DOMAIN calls
    /\ EndsWith(heard, text)
=============================================================================
