------------------------------ MODULE AgentRun ------------------------------
(***************************************************************************)
(* One run of the native agent loop: run_agent (crates/runtime/src/        *)
(* agent.rs) with the bounded event channel it reports on.  The model's    *)
(* answers, the tools, the cancel token and the channel's receiver are the *)
(* environment.  Events are reduced to what their delivery depends on:     *)
(* text deltas, other progress, and the four terminal events.              *)
(***************************************************************************)
EXTENDS Integers, Sequences

CONSTANTS
  Signatures,    \* tool calls (name and arguments) a model may repeat
  MaxCalls,      \* most tool calls in one answer (bound)
  MaxTurns,      \* AgentConfig.max_turns
  MaxIdentical,  \* MAX_IDENTICAL_CALLS
  MaxResends,    \* max_retries of the limiter the calls go through
  Capacity       \* capacity of the event channel

(* A call that finishes the run, and one never made before.  A fresh call  *)
(* counts once and cannot trip the repeat guard.                           *)
Call == Signatures \cup {"fresh", "finish"}

ASSUME AgentRunAssumption ==
  /\ Signatures \cap {"fresh", "finish"} = {}
  /\ MaxCalls \in Nat /\ MaxTurns \in Nat /\ MaxResends \in Nat
  /\ MaxIdentical \in Nat \ {0} /\ Capacity \in Nat \ {0}

VARIABLES
  pc,          \* where the loop is
  outcome,     \* AgentOutcome, once there is one
  turn,        \* AgentState.turn
  todo,        \* tool calls of the last answer not yet dealt with
  counts,      \* call_counts
  unanswered,  \* calls in the transcript that have no result yet
  cutShort,    \* the last answer was cut off by the cancel token
  resends,       \* attempts already failed in the current chat call
  late,        \* history: requests sent since the token was cancelled
  channel,     \* events sent and not yet received
  cancelled,   \* the cancel token
  listening,   \* the receiver still exists
  taken        \* history: terminal events it took from the channel

sendVars == <<resends, late>>
loopVars == <<pc, outcome, turn, todo, counts, unanswered, cutShort, resends, late>>
runVars == <<pc, outcome, turn, todo, counts, unanswered, cutShort, resends, late,
             channel, cancelled, listening, taken>>

Terminal == {"finished", "limit", "failed", "cancelled"}
Over == pc \in {"ended", "panicked"}

NoCounts == [g \in Signatures |-> 0]

Init ==
  /\ pc = "new" /\ outcome = "none" /\ turn = 0 /\ todo = <<>>
  /\ counts = NoCounts /\ unanswered = 0 /\ cutShort = FALSE
  /\ resends = 0 /\ late = 0
  /\ channel = <<>> /\ taken = <<>>
  /\ cancelled = FALSE /\ listening = TRUE

-----------------------------------------------------------------------------
(* emit(): try_send for progress; terminal events are awaited (Report).    *)

Room == Len(channel) < Capacity

(* Progress is sent without waiting: what does not fit is gone. *)
TrySend(kinds) ==
  LET free == IF listening THEN Capacity - Len(channel) ELSE 0
      kept == IF Len(kinds) <= free THEN Len(kinds) ELSE free
  IN channel' = channel \o SubSeq(kinds, 1, kept)

(* The loop is over; its terminal event is still to be sent. *)
End(o) == pc' = "reporting" /\ outcome' = o

envFrame == UNCHANGED <<cancelled, listening, taken>>
quiet == UNCHANGED channel /\ envFrame

Begin ==
  /\ pc = "new"
  /\ TrySend(<<"progress">>)
  /\ pc' = "top"
  /\ UNCHANGED <<outcome, turn, todo, counts, unanswered, cutShort, sendVars>> /\ envFrame

(* Mutant: the token is only looked at between two turns. *)
NextTurn_skipsFirst ==
  /\ pc = "top"
  /\ \/ cancelled /\ turn > 0 /\ End("cancelled")
     \/ ~(cancelled /\ turn > 0) /\ turn >= MaxTurns /\ End("limit")
     \/ ~(cancelled /\ turn > 0) /\ turn < MaxTurns /\ pc' = "acquire" /\ UNCHANGED outcome
  /\ UNCHANGED <<turn, todo, counts, unanswered, cutShort, sendVars>> /\ quiet

(* The checks at the top of every turn; then backend.chat, which waits for *)
(* the limiter first and does not look at the token while it does.         *)
NextTurn ==
  /\ pc = "top"
  /\ \/ cancelled /\ End("cancelled")
     \/ ~cancelled /\ turn >= MaxTurns /\ End("limit")
     \/ ~cancelled /\ turn < MaxTurns /\ pc' = "acquire" /\ UNCHANGED outcome
  /\ UNCHANGED <<turn, todo, counts, unanswered, cutShort, sendVars>> /\ quiet

(* The limiter let the call through: the request goes out, ...             *)
SendRequest ==
  /\ pc = "acquire"
  /\ pc' = "chat"
  /\ late' = IF cancelled THEN late + 1 ELSE late
  /\ UNCHANGED <<outcome, turn, todo, counts, unanswered, cutShort, resends>> /\ quiet

(* ... its answer streams text, ...                                        *)
Stream ==
  /\ pc = "chat"
  /\ TrySend(<<"delta">>)
  /\ UNCHANGED loopVars /\ envFrame

(* ... fails in a way worth another attempt, which goes to the limiter     *)
(* again, ...                                                              *)
Resend ==
  /\ pc = "chat" /\ resends < MaxResends
  /\ pc' = "acquire"
  /\ resends' = resends + 1
  /\ UNCHANGED <<outcome, turn, todo, counts, unanswered, cutShort, late>> /\ quiet

(* ... fails for good, without a key even before the request, ...          *)
ChatFails ==
  /\ pc \in {"acquire", "chat"}
  /\ End("failed") /\ resends' = 0
  /\ UNCHANGED <<turn, todo, counts, unanswered, cutShort, late>> /\ quiet

Answers == UNION {[1..n -> Call] : n \in 0..MaxCalls}

(* ... or returns the answer, what there is of it when the cancel token    *)
(* cut the stream.  An answer without calls ends the run.                  *)
ChatReturns(calls, text) ==
  /\ pc = "chat"
  /\ turn' = turn + 1 /\ resends' = 0
  /\ cutShort' = cancelled
  /\ TrySend(IF text THEN <<"progress", "progress">> ELSE <<"progress">>)
  /\ todo' = calls
  /\ unanswered' = Len(calls)
  /\ IF calls = <<>> THEN End("finished") ELSE pc' = "call" /\ UNCHANGED outcome
  /\ UNCHANGED <<counts, late>> /\ envFrame

-----------------------------------------------------------------------------
(* The tool calls of an answer, in order.                                  *)

Finish ==
  /\ pc = "call" /\ Head(todo) = "finish"
  /\ End("finished")
  /\ UNCHANGED <<turn, todo, counts, unanswered, cutShort, sendVars>> /\ quiet

Counted(c) == IF c \in Signatures THEN [counts EXCEPT ![c] = @ + 1] ELSE counts

Stuck(c) == c \in Signatures /\ counts[c] >= MaxIdentical

RepeatGuard ==
  /\ pc = "call" /\ Stuck(Head(todo))
  /\ counts' = Counted(Head(todo))
  /\ End("limit")
  /\ UNCHANGED <<turn, todo, unanswered, cutShort, sendVars>> /\ quiet

CallTool ==
  /\ pc = "call" /\ Head(todo) # "finish" /\ ~Stuck(Head(todo))
  /\ counts' = Counted(Head(todo))
  /\ TrySend(<<"progress">>)
  /\ pc' = "tool"
  /\ UNCHANGED <<outcome, turn, todo, unanswered, cutShort, sendVars>> /\ envFrame

(* Mutant: a call that cannot be run gets no result in the transcript. *)
ToolReturns_unanswered ==
  /\ pc = "tool"
  /\ TrySend(<<"progress">>)
  /\ todo' = Tail(todo)
  /\ \E answered \in {0, 1} : unanswered' = unanswered - answered
  /\ pc' = IF Tail(todo) = <<>> THEN "top" ELSE "call"
  /\ UNCHANGED <<outcome, turn, counts, cutShort, sendVars>> /\ envFrame

(* The result, an error result for an unknown tool or bad arguments        *)
(* included, goes into the transcript.                                     *)
ToolReturns ==
  /\ pc = "tool"
  /\ TrySend(<<"progress">>)
  /\ todo' = Tail(todo)
  /\ unanswered' = unanswered - 1
  /\ pc' = IF Tail(todo) = <<>> THEN "top" ELSE "call"
  /\ UNCHANGED <<outcome, turn, counts, cutShort, sendVars>> /\ envFrame

(* A tool panics: the run's task is gone, its end of the channel with it. *)
ToolPanics ==
  /\ pc = "tool"
  /\ pc' = "panicked"
  /\ UNCHANGED <<outcome, turn, todo, counts, unanswered, cutShort, sendVars>> /\ quiet

(* Mutant: the terminal event is sent like any other. *)
Report_lossy ==
  /\ pc = "reporting"
  /\ TrySend(<<outcome>>)
  /\ pc' = "ended"
  /\ UNCHANGED <<outcome, turn, todo, counts, unanswered, cutShort, sendVars>> /\ envFrame

(* The terminal event waits for room, unless nobody is listening. *)
Report ==
  /\ pc = "reporting" /\ (Room \/ ~listening)
  /\ TrySend(<<outcome>>)
  /\ pc' = "ended"
  /\ UNCHANGED <<outcome, turn, todo, counts, unanswered, cutShort, sendVars>> /\ envFrame

-----------------------------------------------------------------------------
(* The environment: the token is cancelled, events are received, or the    *)
(* receiver goes away.                                                     *)

CancelRun ==
  /\ ~cancelled
  /\ cancelled' = TRUE
  /\ UNCHANGED <<loopVars, channel, listening, taken>>

(* What the receiver got: its terminal events are remembered. *)
Taken(got, kind) == IF kind \in Terminal THEN Append(got, kind) ELSE got

Receive ==
  /\ channel # <<>>
  /\ channel' = Tail(channel)
  /\ taken' = Taken(taken, Head(channel))
  /\ UNCHANGED <<loopVars, cancelled, listening>>

DropReceiver ==
  /\ listening
  /\ listening' = FALSE /\ channel' = <<>>
  /\ UNCHANGED <<loopVars, cancelled, taken>>

(* What the run does on its own. *)
LoopStep ==
  \/ Begin \/ NextTurn \/ SendRequest \/ Finish \/ RepeatGuard \/ CallTool \/ Report

(* What the model and the tools answer. *)
ChatEnds ==
  Resend \/ ChatFails \/ \E calls \in Answers, text \in BOOLEAN : ChatReturns(calls, text)
ToolEnds == ToolReturns \/ ToolPanics

RunStep == LoopStep \/ Stream \/ ChatEnds \/ ToolEnds

Rest == Over /\ channel = <<>> /\ UNCHANGED runVars

Next == RunStep \/ CancelRun \/ Receive \/ DropReceiver \/ Rest

SafetySpec == Init /\ [][Next]_runVars

-----------------------------------------------------------------------------
(* Every call the transcript records has its result before the model is    *)
(* asked again; providers refuse a transcript with an unanswered call.     *)
AnsweredBeforeChat == pc \in {"top", "acquire", "chat"} => unanswered = 0 /\ todo = <<>>

(* A receiver that stays gets one terminal event, the outcome, once the    *)
(* sender is over: it is waiting, last in the queue, or has been got.      *)
SaysOnce(queue, got, over, heard, o) ==
  LET waiting == {i \in 1..Len(queue) : queue[i] \in Terminal} IN
  /\ waiting # {} \/ got # <<>> => over
  /\ over /\ heard => waiting # {} \/ got # <<>>
  /\ \A i \in waiting : i = Len(queue) /\ queue[i] = o /\ got = <<>>
  /\ got # <<>> => got = <<o>> /\ queue = <<>>

(* event.rs 7-8: terminal events are never dropped under backpressure.     *)
(* Whatever the deltas and the progress did to the channel before, a run   *)
(* that ended has said so, once and last.                                  *)
TerminalNeverDropped == SaysOnce(channel, taken, pc = "ended", listening, outcome)

(* The cancel token is not looked at between the top of a turn and the     *)
(* end of the chat call, so requests still go out after it: those of the   *)
(* call that was going on, no more than its retries allow.                 *)
LateRequestsBounded == late <= MaxResends + 1

(* state.rs 159: Finished means "the model called `finish`".  A run whose  *)
(* last answer was cut off by its cancel token did not get that far.       *)
CutShortIsNotFinished ==
  Over /\ outcome = "finished" /\ cutShort => todo # <<>> /\ Head(todo) = "finish"
=============================================================================
