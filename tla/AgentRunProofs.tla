--------------------------- MODULE AgentRunProofs ---------------------------
(***************************************************************************)
(* What one run of an agent and a whole task with its handoffs keep to,    *)
(* for any number of turns, calls, handoffs and models and any capacities  *)
(* of the two channels, and how a task gets its model, for any registry.   *)
(***************************************************************************)
EXTENDS Escalation, Routing, SequenceTheorems, WellFoundedInduction, TLAPS

Outcomes == Terminal \cup {"none"}
Kinds == Terminal \cup {"progress", "delta"}

-----------------------------------------------------------------------------
(* A queue that ends with one terminal event.                              *)

Silent(s) == \A i \in 1..Len(s) : s[i] \notin Terminal

LEMMA QuietBefore ==
  ASSUME NEW queue, NEW got, NEW over, NEW heard, NEW o,
         SaysOnce(queue, got, over, heard, o), ~over
  PROVE  Silent(queue) /\ got = <<>>
BY DEF SaysOnce, Silent

LEMMA QuietKeeps ==
  ASSUME NEW queue, NEW got, NEW over, NEW heard, NEW o,
         Silent(queue), got = <<>>, ~over \/ ~heard
  PROVE  SaysOnce(queue, got, over, heard, o)
BY DEF SaysOnce, Silent

LEMMA SayLast ==
  ASSUME NEW K, NEW queue \in Seq(K), NEW o \in K, o \in Terminal, NEW heard, Silent(queue)
  PROVE  SaysOnce(Append(queue, o), <<>>, TRUE, heard, o)
<1> DEFINE next == Append(queue, o)
<1>1. /\ Len(queue) \in Nat /\ Len(next) = Len(queue) + 1
      /\ \A i \in 1..Len(queue) : next[i] = queue[i]
      /\ next[Len(queue) + 1] = o
  BY AppendProperties, LenProperties
<1> HIDE DEF next
<1>2. \A i \in 1..Len(next) : next[i] \in Terminal => i = Len(next)
  BY <1>1, SMT DEF Silent
<1>3. Len(next) \in 1..Len(next) /\ next[Len(next)] = o
  BY <1>1, SMT
<1>4. SaysOnce(next, <<>>, TRUE, heard, o)
  BY <1>2, <1>3 DEF SaysOnce
<1> QED
  BY <1>4 DEF next

LEMMA LeavingKeeps ==
  ASSUME NEW queue, NEW got, NEW over, NEW heard, NEW o, SaysOnce(queue, got, over, heard, o)
  PROVE  SaysOnce(<<>>, got, over, FALSE, o)
BY EmptySeq, SMT DEF SaysOnce

(* The receiver takes the first event of the queue.                        *)
LEMMA TakeKeeps ==
  ASSUME NEW K, NEW queue \in Seq(K), queue # <<>>, NEW got, NEW over \in BOOLEAN,
         NEW heard \in BOOLEAN, NEW o, SaysOnce(queue, got, over, heard, o)
  PROVE  SaysOnce(Tail(queue), Taken(got, Head(queue)), over, heard, o)
<1> DEFINE waiting == {i \in 1..Len(queue) : queue[i] \in Terminal}
           next == Tail(queue)
           left == {i \in 1..Len(next) : next[i] \in Terminal}
<1>1. /\ next \in Seq(K)
      /\ Len(queue) \in Nat \ {0} /\ Len(next) = Len(queue) - 1
      /\ \A i \in 1..(Len(queue) - 1) : next[i] = queue[i+1]
      /\ Head(queue) = queue[1]
  BY HeadTailProperties, LenProperties, EmptySeq, SMT
<1>o. /\ waiting # {} \/ got # <<>> => over
      /\ over /\ heard => waiting # {} \/ got # <<>>
      /\ \A i \in waiting : i = Len(queue) /\ queue[i] = o /\ got = <<>>
      /\ got = <<>>
  BY DEF SaysOnce
<1>2. CASE Head(queue) \notin Terminal
  <2>1. waiting # {} => left # {}
    <3>1. SUFFICES ASSUME NEW i \in waiting PROVE i - 1 \in left
      OBVIOUS
    <3>2. i \in 1..Len(queue) /\ queue[i] \in Terminal /\ i # 1
      BY <1>1, <1>2
    <3> QED
      BY <1>1, <3>2, SMT
  <2>2. \A i \in left : i + 1 \in waiting /\ next[i] = queue[i+1]
    BY <1>1, SMT
  <2>3. ASSUME NEW i \in left PROVE i = Len(next) /\ next[i] = o
    <3>1. i + 1 = Len(queue) /\ next[i] = o
      BY <1>o, <2>2
    <3>2. i \in Nat /\ Len(next) = Len(queue) - 1 /\ Len(queue) \in Nat
      BY <1>1
    <3> HIDE DEF next
    <3>3. i = Len(next)
      BY <3>1, <3>2, SMT
    <3> QED
      BY <3>1, <3>3
  <2>4. Taken(got, Head(queue)) = <<>>
    BY <1>2, <1>o DEF Taken
  <2> QED
    BY <1>o, <2>1, <2>2, <2>3, <2>4 DEF SaysOnce
<1>3. CASE Head(queue) \in Terminal
  <2>1. 1 \in waiting
    BY <1>1, <1>3, SMT
  <2>2. Len(queue) = 1 /\ Head(queue) = o /\ over
    BY <1>1, <1>o, <2>1
  <2>3. Taken(got, Head(queue)) = <<o>> /\ <<o>> # <<>>
    BY <1>3, <1>o, <2>2 DEF Taken
  <2>4. Len(next) = 0 /\ next = <<>>
    <3>1. Len(next) = 0
      BY <1>1, <2>2
    <3> QED
      BY <1>1, <3>1, EmptySeq
  <2>5. left = {}
    BY <2>4, SMT
  <2> QED
    BY <2>2, <2>3, <2>4, <2>5 DEF SaysOnce
<1> QED
  BY <1>2, <1>3

-----------------------------------------------------------------------------
(* One run.                                                                *)

RunTypeOK ==
  /\ pc \in {"new", "top", "acquire", "chat", "call", "tool", "reporting", "ended", "panicked"}
  /\ outcome \in Outcomes
  /\ todo \in Seq(Call)
  /\ unanswered \in Nat
  /\ resends \in 0..MaxResends /\ late \in Nat
  /\ channel \in Seq(Kinds) /\ Len(channel) <= Capacity
  /\ cancelled \in BOOLEAN /\ listening \in BOOLEAN

(* The calls still to be dealt with are those without a result, and a turn *)
(* begins when there are none.  A run that is ending has an outcome.       *)
TranscriptInv ==
  /\ pc \in {"new", "top", "acquire", "chat"} => todo = <<>> /\ unanswered = 0
  /\ pc \in {"call", "tool"} => todo # <<>> /\ unanswered = Len(todo)
  /\ pc \in {"reporting", "ended"} => outcome \in Terminal

(* Late requests are attempts of the one call that was going on when the   *)
(* token was cancelled.                                                    *)
LateInv ==
  /\ ~cancelled => late = 0
  /\ pc = "acquire" => late <= resends
  /\ pc = "chat" => late <= resends + 1
  /\ LateRequestsBounded

RunInv == RunTypeOK /\ TranscriptInv /\ LateInv /\ TerminalNeverDropped

LEMMA RunInvInit == AgentRunAssumption /\ Init => RunInv
<1> SUFFICES ASSUME AgentRunAssumption, Init PROVE RunInv
  OBVIOUS
<1>1. RunTypeOK
  <2>1. todo \in Seq(Call) /\ channel \in Seq(Kinds) /\ Len(channel) = 0
    BY EmptySeq DEF Init
  <2>2. outcome \in Outcomes /\ cancelled \in BOOLEAN /\ listening \in BOOLEAN
    BY DEF Init, Outcomes
  <2>3. /\ unanswered \in Nat /\ resends \in 0..MaxResends /\ late \in Nat
        /\ 0 <= Capacity
    BY SMT DEF AgentRunAssumption, Init
  <2> QED
    BY <2>1, <2>2, <2>3 DEF Init, RunTypeOK
<1>3. TranscriptInv /\ LateInv
  BY SMT DEF AgentRunAssumption, Init, TranscriptInv, LateInv, LateRequestsBounded
<1>2. TerminalNeverDropped
  BY SMT DEF Init, TerminalNeverDropped, SaysOnce
<1> QED
  BY <1>1, <1>2, <1>3 DEF RunInv

(* try_send appends what there is room for, and nothing without a receiver. *)
LEMMA TrySendFits ==
  ASSUME AgentRunAssumption, RunTypeOK, NEW kinds \in Seq(Kinds), TrySend(kinds)
  PROVE  /\ channel' \in Seq(Kinds) /\ Len(channel') <= Capacity
         /\ Silent(channel) /\ Silent(kinds) => Silent(channel')
         /\ ~listening => channel' = channel
         /\ listening /\ Room /\ Len(kinds) = 1 => channel' = Append(channel, kinds[1])
<1> DEFINE free == IF listening THEN Capacity - Len(channel) ELSE 0
           kept == IF Len(kinds) <= free THEN Len(kinds) ELSE free
           head == SubSeq(kinds, 1, kept)
<1>1. channel' = channel \o head
  BY DEF TrySend
<1>2. Len(channel) \in Nat /\ Len(kinds) \in Nat /\ Capacity \in Nat
  BY DEF RunTypeOK, AgentRunAssumption
<1>3. kept \in 0..Len(kinds) /\ Len(channel) + kept <= Capacity /\ (~listening => kept = 0)
  BY <1>2, SMT DEF RunTypeOK
<1>6. listening /\ Room /\ Len(kinds) = 1 => kept = 1
  BY <1>2, SMT DEF Room
<1> HIDE DEF kept
<1>4. head \in Seq(Kinds) /\ Len(head) = kept /\ \A i \in 1..kept : head[i] = kinds[i]
  BY <1>2, <1>3, SMT
<1> HIDE DEF head
<1>5. channel' \in Seq(Kinds) /\ Len(channel') = Len(channel) + kept
  BY <1>1, <1>4, ConcatProperties DEF RunTypeOK
<1>7. \A i \in 1..Len(channel') :
        channel'[i] = IF i <= Len(channel) THEN channel[i] ELSE head[i - Len(channel)]
  BY <1>1, <1>2, <1>3, <1>4, <1>5, SMT DEF RunTypeOK
<1>8. ASSUME Silent(channel), Silent(kinds) PROVE Silent(channel')
  <2> SUFFICES ASSUME NEW i \in 1..Len(channel') PROVE channel'[i] \notin Terminal
    BY DEF Silent
  <2>1. CASE i <= Len(channel)
    BY <1>2, <1>7, <1>8, <2>1, SMT DEF Silent
  <2>2. CASE ~(i <= Len(channel))
    <3> DEFINE k == i - Len(channel)
    <3>1. k \in 1..kept /\ k \in 1..Len(kinds)
      BY <1>2, <1>3, <1>5, <2>2, SMT
    <3>2. channel'[i] = head[k]
      BY <1>7, <2>2
    <3> QED
      BY <1>4, <1>8, <3>1, <3>2 DEF Silent
  <2> QED
    BY <2>1, <2>2
<1>9. ASSUME ~listening PROVE channel' = channel
  <2>1. head = <<>>
    BY <1>3, <1>4, <1>9, EmptySeq
  <2> QED
    BY <1>1, <2>1, SMT DEF RunTypeOK
<1>10. ASSUME listening, Room, Len(kinds) = 1 PROVE channel' = Append(channel, kinds[1])
  <2>1. head = <<kinds[1]>>
    BY <1>4, <1>6, <1>10, SMT
  <2>2. kinds[1] \in Kinds
    BY <1>10, SMT
  <2> QED
    BY <1>1, <2>1, <2>2, SMT DEF RunTypeOK
<1> QED
  BY <1>3, <1>5, <1>8, <1>9, <1>10

(* What a run sends while it is going on is never terminal.                *)
LEMMA ProgressKeepsOut ==
  ASSUME AgentRunAssumption, RunInv, pc # "ended", pc' # "ended", taken' = taken,
         NEW kinds \in {<<"progress">>, <<"delta">>, <<"progress", "progress">>}, TrySend(kinds)
  PROVE  /\ channel' \in Seq(Kinds) /\ Len(channel') <= Capacity
         /\ TerminalNeverDropped'
<1>1. kinds \in Seq(Kinds)
  <2>1. "progress" \in Kinds /\ "delta" \in Kinds
    BY DEF Kinds
  <2>2. CASE kinds = <<"progress">>
    BY <2>1, <2>2
  <2>3. CASE kinds = <<"delta">>
    BY <2>1, <2>3
  <2>4. CASE kinds = <<"progress", "progress">>
    BY <2>1, <2>4
  <2> QED
    BY <2>2, <2>3, <2>4
<1>2. Silent(kinds)
  BY SMT DEF Terminal, Silent
<1>3. Silent(channel) /\ taken = <<>>
  BY DEF RunInv, TerminalNeverDropped, SaysOnce, Silent
<1>4. channel' \in Seq(Kinds) /\ Len(channel') <= Capacity /\ Silent(channel')
  BY <1>1, <1>2, <1>3, TrySendFits DEF RunInv
<1>5. SaysOnce(channel', taken', pc' = "ended", listening', outcome')
  BY <1>3, <1>4, QuietKeeps
<1> QED
  BY <1>4, <1>5 DEF TerminalNeverDropped

(* A run that sends nothing and does not end has said nothing.             *)
LEMMA SilenceKeepsOut ==
  ASSUME RunInv, pc # "ended", pc' # "ended", channel' = channel, taken' = taken
  PROVE  TerminalNeverDropped'
<1>1. Silent(channel) /\ taken = <<>>
  BY DEF RunInv, TerminalNeverDropped, SaysOnce, Silent
<1>2. SaysOnce(channel', taken', pc' = "ended", listening', outcome')
  BY <1>1, QuietKeeps DEF Silent
<1> QED
  BY <1>2 DEF TerminalNeverDropped

LEMMA RunStepKeeps == AgentRunAssumption /\ RunInv /\ RunStep => RunInv'
<1> SUFFICES ASSUME AgentRunAssumption, RunInv, RunStep PROVE RunInv'
  OBVIOUS
<1> USE DEF RunInv, TranscriptInv, LateInv, LateRequestsBounded
(* Steps that send nothing leave the channel as it is.                     *)
<1>q. quiet => UNCHANGED <<channel, cancelled, listening, taken>>
  BY DEF quiet, envFrame
<1>1. CASE Begin
  <2>1. channel' \in Seq(Kinds) /\ Len(channel') <= Capacity /\ TerminalNeverDropped'
    BY <1>1, ProgressKeepsOut DEF Begin, envFrame
  <2> QED
    BY <1>1, <2>1, SMT DEF Begin, envFrame, sendVars, RunTypeOK
<1>2. CASE NextTurn
  <2>1. TerminalNeverDropped'
    BY <1>2, <1>q, SilenceKeepsOut DEF NextTurn, End
  <2> QED
    BY <1>2, <1>q, <2>1, SMT DEF NextTurn, End, sendVars, RunTypeOK, Outcomes, Terminal
<1>12. CASE SendRequest
  <2>1. TerminalNeverDropped'
    BY <1>12, <1>q, SilenceKeepsOut DEF SendRequest
  <2> QED
    BY <1>12, <1>q, <2>1, SMT DEF SendRequest, AgentRunAssumption, RunTypeOK, Outcomes, Terminal
<1>3. CASE Stream
  <2>1. channel' \in Seq(Kinds) /\ Len(channel') <= Capacity /\ TerminalNeverDropped'
    BY <1>3, ProgressKeepsOut DEF Stream, loopVars, envFrame
  <2> QED
    BY <1>3, <2>1, SMT DEF Stream, envFrame, loopVars, RunTypeOK
<1>13. CASE Resend
  <2>1. TerminalNeverDropped'
    BY <1>13, <1>q, SilenceKeepsOut DEF Resend
  <2> QED
    BY <1>13, <1>q, <2>1, SMT DEF Resend, AgentRunAssumption, RunTypeOK, Outcomes, Terminal
<1>4. CASE ChatFails
  <2>1. TerminalNeverDropped'
    BY <1>4, <1>q, SilenceKeepsOut DEF ChatFails, End
  <2> QED
    BY <1>4, <1>q, <2>1, SMT DEF ChatFails, End, AgentRunAssumption, RunTypeOK, Outcomes, Terminal
<1>5. ASSUME NEW calls \in Answers, NEW text \in BOOLEAN, ChatReturns(calls, text) PROVE RunInv'
  <2>1. calls \in Seq(Call) /\ Len(calls) \in Nat
    BY SMT DEF Answers, AgentRunAssumption
  <2>2. /\ todo' = calls /\ unanswered' = Len(calls)
        /\ resends' = 0 /\ UNCHANGED <<late, cancelled, listening, taken>>
        /\ \/ calls = <<>> /\ pc' = "reporting" /\ outcome' = "finished"
           \/ calls # <<>> /\ pc' = "call" /\ outcome' = outcome
    BY <1>5 DEF ChatReturns, End, envFrame
  <2>3. pc # "ended" /\ pc' # "ended"
    BY <1>5, <2>2 DEF ChatReturns
  <2>4. /\ channel' \in Seq(Kinds) /\ Len(channel') <= Capacity
        /\ TerminalNeverDropped'
    BY <1>5, <2>2, <2>3, ProgressKeepsOut DEF ChatReturns
  <2> QED
    BY <2>1, <2>2, <2>4, SMT DEF AgentRunAssumption, RunTypeOK, Outcomes, Terminal
<1>6. CASE Finish
  <2>1. TerminalNeverDropped'
    BY <1>6, <1>q, SilenceKeepsOut DEF Finish, End
  <2> QED
    BY <1>6, <1>q, <2>1, SMT DEF Finish, End, sendVars, RunTypeOK, Outcomes, Terminal
<1>7. CASE RepeatGuard
  <2>1. TerminalNeverDropped'
    BY <1>7, <1>q, SilenceKeepsOut DEF RepeatGuard, End
  <2> QED
    BY <1>7, <1>q, <2>1, SMT DEF RepeatGuard, End, sendVars, RunTypeOK, Outcomes, Terminal
<1>8. CASE CallTool
  <2>1. channel' \in Seq(Kinds) /\ Len(channel') <= Capacity /\ TerminalNeverDropped'
    BY <1>8, ProgressKeepsOut DEF CallTool, envFrame
  <2>2. pc = "call" /\ pc' = "tool"
        /\ UNCHANGED <<outcome, todo, unanswered, resends, late, cancelled, listening>>
    BY <1>8 DEF CallTool, envFrame, sendVars
  <2> QED
    BY <2>1, <2>2, SMT DEF RunTypeOK
<1>9. CASE ToolReturns
  <2>1. /\ pc = "tool" /\ todo' = Tail(todo) /\ unanswered' = unanswered - 1
        /\ pc' = IF Tail(todo) = <<>> THEN "top" ELSE "call"
        /\ UNCHANGED <<outcome, resends, late, cancelled, listening, taken>>
    BY <1>9 DEF ToolReturns, envFrame, sendVars
  <2>2. /\ channel' \in Seq(Kinds) /\ Len(channel') <= Capacity
        /\ TerminalNeverDropped'
    BY <1>9, <2>1, ProgressKeepsOut DEF ToolReturns
  <2>3. todo \in Seq(Call) /\ todo # <<>> /\ unanswered = Len(todo)
    BY <2>1 DEF RunTypeOK
  <2>4. Tail(todo) \in Seq(Call) /\ Len(Tail(todo)) = Len(todo) - 1
    BY <2>3, HeadTailProperties
  <2>5. Len(todo) - 1 \in Nat /\ (Tail(todo) = <<>> <=> Len(todo) - 1 = 0)
    <3>1. Len(todo) \in Nat /\ Len(todo) # 0 /\ Len(Tail(todo)) = Len(todo) - 1
      BY <2>3, <2>4, EmptySeq, LenProperties
    <3>2. Tail(todo) = <<>> <=> Len(Tail(todo)) = 0
      BY <2>4, EmptySeq
    <3> QED
      BY <3>1, <3>2
  <2> QED
    BY <2>1, <2>2, <2>3, <2>4, <2>5, SMT DEF RunTypeOK
<1>10. CASE ToolPanics
  <2>1. TerminalNeverDropped'
    BY <1>10, <1>q, SilenceKeepsOut DEF ToolPanics
  <2> QED
    BY <1>10, <1>q, <2>1, SMT DEF ToolPanics, sendVars, RunTypeOK
<1>11. CASE Report
  <2>1. /\ pc = "reporting" /\ pc' = "ended" /\ (Room \/ ~listening) /\ TrySend(<<outcome>>)
        /\ UNCHANGED <<outcome, todo, unanswered, resends, late, cancelled, listening, taken>>
    BY <1>11 DEF Report, envFrame, sendVars
  <2>2. outcome \in Terminal /\ outcome \in Kinds
    BY <2>1 DEF Kinds
  <2>3. <<outcome>> \in Seq(Kinds) /\ Len(<<outcome>>) = 1 /\ <<outcome>>[1] = outcome
    BY <2>2, SMT
  <2>4. /\ channel' \in Seq(Kinds) /\ Len(channel') <= Capacity
        /\ ~listening => channel' = channel
        /\ listening /\ Room => channel' = Append(channel, outcome)
    <3>1. \A s \in Seq(Kinds) : Len(s) = 1 /\ TrySend(s)
            => /\ channel' \in Seq(Kinds) /\ Len(channel') <= Capacity
               /\ ~listening => channel' = channel
               /\ listening /\ Room => channel' = Append(channel, s[1])
      BY TrySendFits
    <3> QED
      BY <2>1, <2>3, <3>1
  <2>5. Silent(channel) /\ taken = <<>>
    BY <2>1 DEF TerminalNeverDropped, SaysOnce, Silent
  <2>6. SaysOnce(channel', taken', TRUE, listening, outcome)
    <3>1. CASE ~listening
      BY <2>1, <2>4, <2>5, <3>1, QuietKeeps
    <3>2. CASE listening /\ Room
      BY <2>1, <2>2, <2>4, <2>5, <3>2, SayLast DEF RunTypeOK
    <3> QED
      BY <2>1, <3>1, <3>2
  <2>7. TerminalNeverDropped'
    BY <2>1, <2>6 DEF TerminalNeverDropped
  <2> QED
    BY <2>1, <2>2, <2>4, <2>7, SMT DEF RunTypeOK
<1> QED
  BY <1>1, <1>2, <1>3, <1>4, <1>5, <1>6, <1>7, <1>8, <1>9, <1>10, <1>11, <1>12, <1>13
     DEF RunStep, LoopStep, ChatEnds, ToolEnds

(* The receiver takes an event, or goes away, or the token is cancelled.   *)
LEMMA ReceiverKeeps ==
  ASSUME AgentRunAssumption, RunInv, UNCHANGED loopVars, cancelled' \in {cancelled, TRUE},
         \/ channel' = channel /\ UNCHANGED <<listening, taken>>
         \/ /\ channel # <<>> /\ channel' = Tail(channel)
            /\ taken' = Taken(taken, Head(channel)) /\ listening' = listening
         \/ channel' = <<>> /\ listening' = FALSE /\ taken' = taken
  PROVE  RunInv'
<1>1. channel \in Seq(Kinds) /\ Len(channel) <= Capacity /\ Capacity \in Nat /\ listening \in BOOLEAN
  BY DEF AgentRunAssumption, RunInv, RunTypeOK
<1>2. UNCHANGED <<pc, outcome, todo, unanswered, resends, late>>
  BY DEF loopVars
<1>3. TranscriptInv' /\ LateInv' /\ cancelled' \in BOOLEAN
  <2>1. cancelled \in BOOLEAN /\ (~cancelled' => ~cancelled)
    BY DEF RunInv, RunTypeOK
  <2> QED
    BY <1>2, <2>1 DEF RunInv, RunTypeOK, TranscriptInv, LateInv, LateRequestsBounded
<1>4. CASE channel' = channel /\ UNCHANGED <<listening, taken>>
  <2>1. TerminalNeverDropped'
    BY <1>2, <1>4 DEF RunInv, TerminalNeverDropped
  <2> QED
    BY <1>1, <1>2, <1>3, <1>4, <2>1 DEF RunInv, RunTypeOK
<1>5. CASE /\ channel # <<>> /\ channel' = Tail(channel)
           /\ taken' = Taken(taken, Head(channel)) /\ listening' = listening
  <2>1. channel' \in Seq(Kinds) /\ Len(channel') <= Capacity
    BY <1>1, <1>5, HeadTailProperties, SMT
  <2>2. SaysOnce(channel, taken, pc = "ended", listening, outcome)
    BY DEF RunInv, TerminalNeverDropped
  <2>3. SaysOnce(channel', taken', pc' = "ended", listening', outcome')
    BY <1>1, <1>2, <1>5, <2>2, TakeKeeps, Zenon
  <2> QED
    BY <1>1, <1>2, <1>3, <1>5, <2>1, <2>3 DEF RunInv, RunTypeOK, TerminalNeverDropped
<1>6. CASE channel' = <<>> /\ listening' = FALSE /\ taken' = taken
  <2>1. channel' \in Seq(Kinds) /\ Len(channel') <= Capacity
    BY <1>1, <1>6, EmptySeq, SMT
  <2>2. SaysOnce(channel, taken, pc = "ended", listening, outcome)
    BY DEF RunInv, TerminalNeverDropped
  <2>3. SaysOnce(channel', taken', pc' = "ended", listening', outcome')
    BY <1>2, <1>6, <2>2, LeavingKeeps
  <2> QED
    BY <1>1, <1>2, <1>3, <1>6, <2>1, <2>3 DEF RunInv, RunTypeOK, TerminalNeverDropped
<1> QED
  BY <1>4, <1>5, <1>6

LEMMA RunInvNext == AgentRunAssumption /\ RunInv /\ [Next]_runVars => RunInv'
<1> SUFFICES ASSUME AgentRunAssumption, RunInv, [Next]_runVars PROVE RunInv'
  OBVIOUS
<1>1. CASE RunStep
  BY <1>1, RunStepKeeps
<1>2. CASE CancelRun
  BY <1>2, ReceiverKeeps DEF CancelRun
<1>3. CASE Receive
  BY <1>3, ReceiverKeeps DEF Receive
<1>4. CASE DropReceiver
  BY <1>4, ReceiverKeeps DEF DropReceiver
<1>5. CASE Rest \/ UNCHANGED runVars
  BY <1>5, ReceiverKeeps DEF Rest, runVars, loopVars
<1> QED
  BY <1>1, <1>2, <1>3, <1>4, <1>5 DEF Next

(* agent.rs 173-305: whenever the model is asked, every call of its        *)
(* earlier answers has its result in the transcript.                       *)
THEOREM CallsAnsweredBeforeChat == SafetySpec => []AnsweredBeforeChat
<1>1. RunInv => AnsweredBeforeChat
  BY DEF RunInv, TranscriptInv, AnsweredBeforeChat
<1> QED
  BY RunInvInit, RunInvNext, AgentRunAssumption, <1>1, PTL DEF SafetySpec

(* event.rs 7-8: a run that ended has sent its terminal event, once and    *)
(* last, and its receiver gets it, however small the channel and however   *)
(* fast deltas and progress fill it; a run that panicked sends none.       *)
THEOREM TerminalIsDelivered == SafetySpec => []TerminalNeverDropped
<1>1. RunInv => TerminalNeverDropped
  BY DEF RunInv
<1> QED
  BY RunInvInit, RunInvNext, AgentRunAssumption, <1>1, PTL DEF SafetySpec

-----------------------------------------------------------------------------
(* A task: its attempts and the driver that hands it over.                 *)

TaskKinds == Kinds \cup {"escalated"}

DriverTypeOK ==
  /\ driver \in {"launch", "drain", "decide", "emit", "done"}
  /\ escalations \in 0..MaxEscalations
  /\ taskChannel \in Seq(TaskKinds)
  /\ taskHeard \in BOOLEAN

(* A joined attempt is over and stays over, with an outcome to report.     *)
JoinedInv == driver \in {"decide", "emit", "done"} => AttemptOutcome \in Terminal

(* Each handoff so far went up by one tier; the driver only gives up on    *)
(* climbing where LadderIsClimbed says so.                                 *)
LadderInv ==
  /\ stock \in Registries
  /\ first.tier \in Tier /\ model.tier \in Tier
  /\ model.tier = first.tier + escalations
  /\ LadderIsClimbed

TaskInv == RunInv /\ DriverTypeOK /\ JoinedInv /\ OneTerminalPerTask

LEMMA TaskQuietBefore ==
  ASSUME OneTerminalPerTask, driver # "done"
  PROVE  Silent(taskChannel) /\ told = <<>>
BY DEF OneTerminalPerTask, SaysOnce, Silent

LEMMA TaskQuietKeeps ==
  ASSUME Silent(taskChannel)', told' = <<>>, driver' # "done" \/ ~taskHeard'
  PROVE  OneTerminalPerTask'
<1>1. Silent(taskChannel')
  BY DEF Silent
<1>2. SaysOnce(taskChannel', told', driver' = "done", taskHeard', AttemptOutcome')
  BY <1>1, QuietKeeps
<1> QED
  BY <1>2 DEF OneTerminalPerTask

(* try_send on the task's channel adds at most the event it was given.     *)
LEMMA OfferAdds ==
  ASSUME taskChannel \in Seq(TaskKinds), NEW kind \in TaskKinds, Offer(kind)
  PROVE  /\ taskChannel' \in Seq(TaskKinds)
         /\ Silent(taskChannel) /\ kind \notin Terminal => Silent(taskChannel)'
<1>1. CASE taskChannel' = taskChannel
  BY <1>1 DEF Silent
<1>2. CASE taskChannel' = Append(taskChannel, kind)
  BY <1>2, AppendProperties, LenProperties, SMT DEF Silent
<1> QED
  BY <1>1, <1>2 DEF Offer

LEMMA TaskInvInit == EInit => TaskInv
<1> SUFFICES ASSUME EInit PROVE TaskInv
  OBVIOUS
<1>1. RunInv
  BY RunInvInit, AgentRunAssumption DEF EInit
<1>2. /\ driver = "launch" /\ escalations = 0
      /\ taskChannel = <<>> /\ taskHeard = TRUE /\ told = <<>>
  BY DEF EInit
<1>3. DriverTypeOK
  BY <1>2, EscalationAssumption, EmptySeq, SMT DEF DriverTypeOK, EscalationAssumption
<1>4. OneTerminalPerTask
  BY <1>2, SMT DEF OneTerminalPerTask, SaysOnce
<1> QED
  BY <1>1, <1>2, <1>3, <1>4 DEF TaskInv, JoinedInv

LEMMA TaskInvNext == TaskInv /\ [ENext]_taskVars => TaskInv'
<1> SUFFICES ASSUME TaskInv, [ENext]_taskVars PROVE TaskInv'
  OBVIOUS
<1> USE AgentRunAssumption, EscalationAssumption DEF TaskInv
<1>t. /\ taskChannel \in Seq(TaskKinds) /\ taskHeard \in BOOLEAN /\ listening \in BOOLEAN
      /\ channel \in Seq(Kinds) /\ escalations \in 0..MaxEscalations
  BY DEF DriverTypeOK, RunInv, RunTypeOK
<1>k. /\ \A k \in Kinds : k \in TaskKinds
      /\ "escalated" \in TaskKinds /\ "escalated" \notin Terminal
      /\ Terminal \subseteq Kinds
  BY DEF TaskKinds, Kinds, Terminal
(* Steps of the driver that leave the run and the task's channel alone.    *)
<1>f. ASSUME driverFrame, channel' = channel, taken' = taken PROVE RunInv' /\ AttemptOutcome' = AttemptOutcome
  BY <1>f, ReceiverKeeps DEF driverFrame, AttemptOutcome, loopVars
<1>1. CASE Launch
  <2>1. /\ pc' = "new" /\ outcome' = "none" /\ todo' = <<>> /\ unanswered' = 0
        /\ resends' = 0 /\ channel' = <<>> /\ taken' = <<>>
        /\ driver = "launch" /\ driver' = "drain"
        /\ UNCHANGED <<late, cancelled, listening, escalations, taskChannel, taskHeard, told>>
    BY <1>1 DEF Launch
  <2>2. RunTypeOK'
    BY <1>t, <2>1, EmptySeq, SMT DEF RunInv, RunTypeOK, AgentRunAssumption, Outcomes
  <2>3. TranscriptInv' /\ LateInv'
    BY <2>1 DEF TranscriptInv, RunInv, LateInv, LateRequestsBounded
  <2>4. TerminalNeverDropped'
    <3>1. Silent(channel')
      BY <2>1, EmptySeq, SMT DEF Silent
    <3>2. SaysOnce(channel', taken', pc' = "ended", listening', outcome')
      BY <2>1, <3>1, QuietKeeps
    <3> QED
      BY <3>2 DEF TerminalNeverDropped
  <2>5. OneTerminalPerTask'
    BY <2>1, TaskQuietBefore, TaskQuietKeeps DEF Silent
  <2> QED
    BY <2>1, <2>2, <2>3, <2>4, <2>5 DEF RunInv, DriverTypeOK, JoinedInv
<1>2. CASE Attempt
  <2>1. RunInv'
    BY <1>2, RunStepKeeps DEF Attempt
  <2>2. driver = "drain" /\ UNCHANGED <<driver, escalations, taskChannel, taskHeard, told>>
    BY <1>2 DEF Attempt, driverVars
  <2>3. OneTerminalPerTask'
    BY <2>2, TaskQuietBefore, TaskQuietKeeps DEF Silent
  <2> QED
    BY <2>1, <2>2, <2>3 DEF DriverTypeOK, JoinedInv
<1>3. CASE Forward
  <2>1. /\ driver = "drain" /\ channel # <<>> /\ channel' = Tail(channel)
        /\ taken' = Taken(taken, Head(channel))
        /\ UNCHANGED <<driver, escalations, taskHeard, told>> /\ driverFrame
    BY <1>3 DEF Forward
  <2>2. RunInv'
    BY <2>1, ReceiverKeeps DEF driverFrame
  <2>3. Head(channel) \in Kinds
    BY <1>t, <2>1, HeadTailProperties
  <2>4. taskChannel' \in Seq(TaskKinds) /\ Silent(taskChannel)'
    <3>1. CASE Head(channel) \in Terminal
      BY <1>3, <1>t, <2>1, <3>1, TaskQuietBefore DEF Forward, Silent
    <3>2. CASE Head(channel) \notin Terminal
      BY <1>3, <1>t, <1>k, <2>1, <2>3, <3>2, TaskQuietBefore, OfferAdds DEF Forward
    <3> QED
      BY <3>1, <3>2
  <2>5. OneTerminalPerTask'
    BY <2>1, <2>4, TaskQuietBefore, TaskQuietKeeps
  <2> QED
    BY <2>1, <2>2, <2>4, <2>5 DEF DriverTypeOK, JoinedInv
<1>4. CASE Join
  <2>1. /\ driver = "drain" /\ driver' = "decide" /\ Over
        /\ UNCHANGED <<escalations, taskChannel, taskHeard, told, channel, taken>> /\ driverFrame
    BY <1>4 DEF Join
  <2>2. AttemptOutcome \in Terminal
    BY <2>1 DEF Over, AttemptOutcome, RunInv, TranscriptInv, Terminal
  <2>3. OneTerminalPerTask'
    BY <2>1, TaskQuietBefore, TaskQuietKeeps DEF Silent
  <2> QED
    BY <1>f, <2>1, <2>2, <2>3 DEF DriverTypeOK, JoinedInv
<1>5. CASE Escalate
  <2>1. /\ driver = "decide" /\ driver' = "launch" /\ WantsEscalation /\ Offer("escalated")
        /\ escalations' = escalations + 1
        /\ UNCHANGED <<taskHeard, told, channel, taken>> /\ driverFrame
    BY <1>5 DEF Escalate
  <2>2. taskChannel' \in Seq(TaskKinds) /\ Silent(taskChannel)'
    BY <1>t, <1>k, <2>1, TaskQuietBefore, OfferAdds
  <2>3. OneTerminalPerTask'
    BY <2>1, <2>2, TaskQuietBefore, TaskQuietKeeps
  <2>4. escalations' \in 0..MaxEscalations
    BY <1>t, <2>1, SMT DEF WantsEscalation, EscalationAssumption
  <2> QED
    BY <1>f, <2>1, <2>2, <2>3, <2>4 DEF DriverTypeOK, JoinedInv
<1>6. CASE GiveUp
  <2>1. /\ driver = "decide" /\ driver' = "emit"
        /\ UNCHANGED <<escalations, taskChannel, taskHeard, told, channel, taken>> /\ driverFrame
    BY <1>6 DEF GiveUp
  <2>2. OneTerminalPerTask'
    BY <2>1, TaskQuietBefore, TaskQuietKeeps DEF Silent
  <2> QED
    BY <1>f, <2>1, <2>2 DEF DriverTypeOK, JoinedInv
<1>7. CASE EmitTerminal
  <2>1. /\ driver = "emit" /\ driver' = "done" /\ (TaskRoom \/ ~taskHeard)
        /\ Offer(AttemptOutcome)
        /\ UNCHANGED <<escalations, taskHeard, told, channel, taken>> /\ driverFrame
    BY <1>7 DEF EmitTerminal
  <2>2. AttemptOutcome \in Terminal /\ AttemptOutcome \in TaskKinds
    BY <1>k, <2>1 DEF JoinedInv
  <2>3. taskChannel' \in Seq(TaskKinds)
    BY <1>t, <2>1, <2>2, OfferAdds
  <2>4. OneTerminalPerTask'
    <3>1. Silent(taskChannel) /\ told = <<>> /\ told' = <<>> /\ AttemptOutcome' = AttemptOutcome
      BY <1>f, <2>1, TaskQuietBefore
    <3>2. CASE ~taskHeard
      BY <2>1, <3>1, <3>2, TaskQuietKeeps DEF Offer, Silent
    <3>3. CASE taskHeard /\ TaskRoom
      <4>1. taskChannel' = Append(taskChannel, AttemptOutcome)
        BY <2>1, <3>3 DEF Offer
      <4>2. SaysOnce(taskChannel', told', TRUE, taskHeard', AttemptOutcome)
        BY <1>t, <2>2, <3>1, <4>1, SayLast
      <4> QED
        BY <2>1, <3>1, <4>2 DEF OneTerminalPerTask
    <3> QED
      BY <2>1, <3>2, <3>3
  <2> QED
    BY <1>f, <2>1, <2>2, <2>3, <2>4 DEF DriverTypeOK, JoinedInv
<1>8. CASE CancelTask
  <2>1. RunInv' /\ AttemptOutcome' = AttemptOutcome
    BY <1>8, ReceiverKeeps DEF CancelTask, CancelRun, AttemptOutcome, loopVars
  <2>2. UNCHANGED <<driver, escalations, taskChannel, taskHeard, told>>
    BY <1>8 DEF CancelTask, driverVars
  <2> QED
    BY <2>1, <2>2 DEF DriverTypeOK, JoinedInv, OneTerminalPerTask
<1>9. CASE TakeEvent
  <2>1. /\ taskChannel # <<>> /\ taskChannel' = Tail(taskChannel)
        /\ told' = Taken(told, Head(taskChannel))
        /\ UNCHANGED <<runVars, driver, escalations, taskHeard>>
    BY <1>9 DEF TakeEvent
  <2>2. RunInv' /\ AttemptOutcome' = AttemptOutcome
    BY <2>1, ReceiverKeeps DEF runVars, AttemptOutcome, loopVars
  <2>3. taskChannel' \in Seq(TaskKinds)
    BY <1>t, <2>1, HeadTailProperties
  <2>4. SaysOnce(taskChannel, told, driver = "done", taskHeard, AttemptOutcome)
    BY DEF OneTerminalPerTask
  <2>5. SaysOnce(taskChannel', told', driver' = "done", taskHeard', AttemptOutcome')
    <3>1. UNCHANGED <<driver, taskHeard, AttemptOutcome>> /\ (driver = "done") \in BOOLEAN
      BY <2>1, <2>2
    <3> DEFINE over == driver = "done"
    <3>3. taskChannel \in Seq(TaskKinds) /\ taskHeard \in BOOLEAN /\ over \in BOOLEAN
      BY <1>t, <3>1
    <3>4. SaysOnce(taskChannel, told, over, taskHeard, AttemptOutcome)
      BY <2>4
    <3> HIDE DEF over
    <3>5. SaysOnce(Tail(taskChannel), Taken(told, Head(taskChannel)), over, taskHeard,
                   AttemptOutcome)
      BY <2>1, <3>3, <3>4, TakeKeeps
    <3>2. SaysOnce(taskChannel', told', driver = "done", taskHeard, AttemptOutcome)
      BY <2>1, <3>5 DEF over
    <3> QED
      BY <3>1, <3>2
  <2> QED
    BY <2>1, <2>2, <2>3, <2>5 DEF DriverTypeOK, JoinedInv, OneTerminalPerTask
<1>10. CASE LeaveTask
  <2>1. /\ taskHeard' = FALSE /\ taskChannel' = <<>>
        /\ UNCHANGED <<runVars, driver, escalations, told>>
    BY <1>10 DEF LeaveTask
  <2>2. RunInv' /\ AttemptOutcome' = AttemptOutcome
    BY <2>1, ReceiverKeeps DEF runVars, AttemptOutcome, loopVars
  <2>3. OneTerminalPerTask'
    BY <2>1, <2>2, LeavingKeeps DEF OneTerminalPerTask
  <2> QED
    BY <2>1, <2>2, <2>3, EmptySeq DEF DriverTypeOK, JoinedInv
<1>11. CASE TaskDone \/ UNCHANGED taskVars
  <2>1. UNCHANGED <<runVars, driverVars>>
    BY <1>11 DEF TaskDone, taskVars
  <2>2. RunInv' /\ AttemptOutcome' = AttemptOutcome
    BY <2>1, ReceiverKeeps DEF runVars, AttemptOutcome, loopVars
  <2> QED
    BY <2>1, <2>2 DEF driverVars, DriverTypeOK, JoinedInv, OneTerminalPerTask
<1> QED
  BY <1>1, <1>2, <1>3, <1>4, <1>5, <1>6, <1>7, <1>8, <1>9, <1>10, <1>11 DEF ENext, DriverStep

(* orchestrator.rs 137-139: however many attempts a task took, whatever    *)
(* was dropped on the way, its channel gets one terminal event, the last   *)
(* attempt's, and nothing after it.                                        *)
THEOREM OneTerminalForEachTask == ESpec => []OneTerminalPerTask
<1>1. TaskInv => OneTerminalPerTask
  BY DEF TaskInv
<1> QED
  BY TaskInvInit, TaskInvNext, <1>1, PTL DEF ESpec

(* agent.rs 96-125, 180-183: after its token is cancelled a task sends no  *)
(* request but the attempts left of the call that was going on, whatever   *)
(* fails and however often it is handed over.                              *)
THEOREM LateRequestsAreBounded == ESpec => []LateRequestsBounded
<1>1. TaskInv => LateRequestsBounded
  BY DEF TaskInv, RunInv, LateInv
<1> QED
  BY TaskInvInit, TaskInvNext, <1>1, PTL DEF ESpec

(* The numbers of the set have a least one.                                *)
LEMMA LeastNumber ==
  ASSUME NEW N, N \subseteq Nat, N # {}
  PROVE  \E n \in N : \A k \in N : n <= k
<1>1. PICK n \in N : \A k \in N : ~(<<k, n>> \in OpToRel(<, Nat))
  BY NatLessThanWellFounded, WFMin
<1>2. \A k \in N : ~(k < n)
  BY <1>1 DEF OpToRel
<1> QED
  BY <1>2, SMT

(* Every set of registered models has a cheapest one.                      *)
LEMMA CheapestIsOne ==
  ASSUME NEW S, S # {}, \A m \in S : m.id \in Nat /\ m.cost \in Nat
  PROVE  CheapestOf(S) \in S /\ \A n \in S : Before(CheapestOf(S), n)
<1>1. PICK c \in {m.cost : m \in S} : \A k \in {m.cost : m \in S} : c <= k
  <2>1. {m.cost : m \in S} \subseteq Nat /\ {m.cost : m \in S} # {}
    OBVIOUS
  <2> QED
    BY <2>1, LeastNumber
<1> DEFINE ids == {m.id : m \in {n \in S : n.cost = c}}
<1>2. PICK i \in ids : \A k \in ids : i <= k
  <2>1. ids \subseteq Nat /\ ids # {}
    BY <1>1
  <2> QED
    BY <2>1, LeastNumber
<1>3. PICK m \in S : m.cost = c /\ m.id = i
  BY <1>2
<1>4. ASSUME NEW n \in S PROVE Before(m, n)
  <2>1. c <= n.cost /\ c \in Nat /\ n.cost \in Nat
    BY <1>1, <1>3
  <2>2. CASE n.cost = c
    BY <1>2, <1>3, <2>2 DEF Before
  <2>3. CASE n.cost # c
    BY <1>3, <2>1, <2>3, SMT DEF Before
  <2> QED
    BY <2>2, <2>3
<1> QED
  BY <1>3, <1>4 DEF CheapestOf

-----------------------------------------------------------------------------
(* The choice of a model.                                                  *)

Stocked(R, t) == InTier(R, t) # {}

LEMMA TierAnswers ==
  ASSUME NEW R, IsRegistry(R), NEW t \in Tier
  PROVE  IF Stocked(R, t) THEN CheapestInTier(R, t) # NoModel /\ CheapestInTier(R, t).tier = t
                          ELSE CheapestInTier(R, t) = NoModel
<1>1. CASE Stocked(R, t)
  <2>1. InTier(R, t) # {} /\ \A m \in InTier(R, t) : m.id \in Nat /\ m.cost \in Nat
    BY <1>1 DEF Stocked, IsRegistry, InTier
  <2>2. CheapestInTier(R, t) \in InTier(R, t)
    BY <2>1, CheapestIsOne DEF CheapestInTier
  <2> QED
    BY <1>1, <2>2 DEF InTier, IsRegistry
<1>2. CASE ~Stocked(R, t)
  BY <1>2 DEF Stocked, CheapestInTier, CheapestOf
<1> QED
  BY <1>1, <1>2

(* An unstocked tier is served by Balanced, Powerful, Fast, in that order. *)
LEMMA FirstStockedTier ==
  ASSUME NEW R, IsRegistry(R), NEW t \in Tier
  PROVE  FirstStocked(R, t).tier =
           IF Stocked(R, t) THEN t
           ELSE IF Stocked(R, Balanced) THEN Balanced
           ELSE IF Stocked(R, Powerful) THEN Powerful ELSE Fast
<1>1. Fast \in Tier /\ Balanced \in Tier /\ Powerful \in Tier /\ NoModel.tier = Fast
  BY DEF Tier, NoModel
<1>2. CASE Stocked(R, t)
  BY <1>2, TierAnswers DEF FirstStocked, OrElse
<1>3. CASE ~Stocked(R, t) /\ Stocked(R, Balanced)
  BY <1>1, <1>3, TierAnswers DEF FirstStocked, OrElse
<1>4. CASE ~Stocked(R, t) /\ ~Stocked(R, Balanced) /\ Stocked(R, Powerful)
  BY <1>1, <1>4, TierAnswers DEF FirstStocked, OrElse
<1>5. CASE ~Stocked(R, t) /\ ~Stocked(R, Balanced) /\ ~Stocked(R, Powerful)
  <2>1. CASE Stocked(R, Fast)
    BY <1>1, <1>5, <2>1, TierAnswers DEF FirstStocked, OrElse
  <2>2. CASE ~Stocked(R, Fast)
    BY <1>1, <1>5, <2>2, TierAnswers DEF FirstStocked, OrElse
  <2> QED
    BY <2>1, <2>2
<1> QED
  BY <1>2, <1>3, <1>4, <1>5

LEMMA ChoiceTier ==
  ASSUME NEW R, IsRegistry(R), NEW d, NEW u \in Tier
  PROVE  /\ ChooseModel(R, u, d).tier =
              IF u = 1 /\ d \in R THEN d.tier
              ELSE IF Stocked(R, u) THEN u
              ELSE IF Stocked(R, 1) THEN 1 ELSE IF Stocked(R, 2) THEN 2 ELSE 0
         /\ d \in R => d.tier \in Tier /\ Stocked(R, d.tier)
         /\ ChooseModel(R, u, d).tier \in Tier
<1>1. /\ Tier = {0, 1, 2} /\ Fast = 0 /\ Balanced = 1 /\ Powerful = 2
      /\ d \in R => d.tier \in Tier /\ Stocked(R, d.tier)
  BY DEF Tier, Fast, Balanced, Powerful, IsRegistry, Stocked, InTier
<1> QED
  BY <1>1, FirstStockedTier DEF ChooseModel

(* A task's difficulty is at least its type's.                             *)
LEMMA DifficultyAtLeastType ==
  ASSUME NEW task \in TaskType, NEW long \in BOOLEAN, NEW large \in BOOLEAN
  PROVE  /\ TierForTask(task) \in Tier /\ DifficultyTier(task, long, large) \in Tier
         /\ TierForTask(task) <= DifficultyTier(task, long, large)
<1>1. TierForTask(task) \in {0, 1, 2}
  BY DEF TierForTask, Fast, Balanced, Powerful
<1> DEFINE one(b) == IF b THEN 1 ELSE 0
<1>2. one(long) \in {0, 1} /\ one(large) \in {0, 1}
  OBVIOUS
<1>3. DifficultyTier(task, long, large) =
        IF TierForTask(task) + one(long) + one(large) > 2 THEN 2
        ELSE TierForTask(task) + one(long) + one(large)
  BY DEF DifficultyTier, Powerful
<1> HIDE DEF one
<1> QED
  BY <1>1, <1>2, <1>3, SMT DEF Tier, Fast, Balanced, Powerful

LEMMA ChoiceIsMonotone ==
  ASSUME NEW R, IsRegistry(R), NEW d
  PROVE  Monotone(R, d)
<1> DEFINE routed == [t \in Tier |-> ChooseModel(R, t, d).tier]
<1>1. Tier = {0, 1, 2} /\ Fast = 0 /\ Balanced = 1 /\ Powerful = 2
  BY DEF Tier, Fast, Balanced, Powerful
<1>2. \A u \in Tier : routed[u] =
        IF u = 1 /\ d \in R THEN d.tier
        ELSE IF Stocked(R, u) THEN u
        ELSE IF Stocked(R, 1) THEN 1 ELSE IF Stocked(R, 2) THEN 2 ELSE 0
  BY ChoiceTier
<1>r. d \in R => d.tier \in Tier /\ Stocked(R, d.tier)
  BY <1>1, ChoiceTier
<1> HIDE DEF routed, Tier
<1>3. ASSUME NEW s \in Tier, NEW t \in Tier, s <= t PROVE routed[s] <= routed[t]
  <2>3. CASE d \in R
    <3>1. CASE s = 0 /\ t = 1
      BY <1>1, <1>2, <1>r, <2>3, <3>1, SMT
    <3>2. CASE s = 1 /\ t = 2
      BY <1>1, <1>2, <1>r, <2>3, <3>2, SMT
    <3>3. CASE s = t \/ (s = 0 /\ t = 2)
      BY <1>1, <1>2, <1>r, <2>3, <3>3, SMT
    <3> QED
      BY <1>1, <1>3, <3>1, <3>2, <3>3, SMT
  <2>4. CASE d \notin R
    BY <1>1, <1>2, <1>3, <2>4, SMT
  <2> QED
    BY <2>3, <2>4
<1>4. ASSUME NEW task \in TaskType, NEW long \in BOOLEAN, NEW large \in BOOLEAN
      PROVE  routed[TierForTask(task)] <= routed[DifficultyTier(task, long, large)]
  BY <1>3, DifficultyAtLeastType
<1>5. ASSUME routed[Powerful] = Fast PROVE \A m \in R : m.tier = Fast
  <2>1. ~Stocked(R, 1) /\ ~Stocked(R, 2)
    BY <1>1, <1>2, <1>5, SMT
  <2>2. \A m \in R : m.tier \in Tier
    BY DEF IsRegistry
  <2> QED
    BY <1>1, <2>1, <2>2 DEF Stocked, InTier
<1> QED
  BY <1>3, <1>4, <1>5 DEF Monotone, routed

LEMMA LadderInit == EInit => LadderInv
<1> SUFFICES ASSUME EInit PROVE LadderInv
  OBVIOUS
<1>1. stock \in Registries /\ IsRegistry(stock)
  BY EscalationAssumption DEF EInit, EscalationAssumption
<1>2. PICK u \in Tier : model = ChooseModel(stock, u, Default)
  BY DifficultyAtLeastType DEF EInit
<1>3. model.tier \in Tier
  BY <1>1, <1>2, ChoiceTier
<1> QED
  BY <1>1, <1>3, SMT DEF EInit, LadderInv, LadderIsClimbed, Tier, Fast, Balanced, Powerful

LEMMA LadderNext == TaskInv /\ LadderInv /\ [ENext]_taskVars => LadderInv'
<1> SUFFICES ASSUME TaskInv, LadderInv, [ENext]_taskVars PROVE LadderInv'
  OBVIOUS
<1>1. /\ Tier = {0, 1, 2} /\ Fast = 0 /\ Balanced = 1 /\ Powerful = 2
      /\ IsRegistry(stock) /\ MaxEscalations \in Nat /\ escalations \in Nat
      /\ first.tier \in Tier /\ model.tier \in Tier /\ model.tier = first.tier + escalations
  BY EscalationAssumption, SMT DEF EscalationAssumption, LadderInv, TaskInv, DriverTypeOK,
     Tier, Fast, Balanced, Powerful
(* What a tier above the current model's offers.                           *)
<1>2. /\ model.tier = 2 => NextStronger(stock, model) = NoModel
      /\ model.tier # 2 /\ InTier(stock, model.tier + 1) # {} =>
           /\ NextStronger(stock, model) # NoModel
           /\ NextStronger(stock, model).tier = model.tier + 1
      /\ InTier(stock, model.tier + 1) = {} => NextStronger(stock, model) = NoModel
  <2>1. model.tier # 2 => model.tier + 1 \in Tier
    BY <1>1, SMT
  <2>2. CASE model.tier = 2
    BY <1>1, <2>2 DEF NextStronger
  <2>3. CASE model.tier # 2
    BY <1>1, <2>1, <2>3, TierAnswers DEF NextStronger, Stocked
  <2> QED
    BY <2>2, <2>3
<1>3. CASE Escalate
  <2>1. /\ model' = NextStronger(stock, model) /\ NextStronger(stock, model) # NoModel
        /\ escalations' = escalations + 1 /\ driver' = "launch" /\ UNCHANGED <<stock, first>>
    BY <1>3 DEF Escalate
  <2>2. model'.tier = model.tier + 1 /\ model'.tier \in Tier
    BY <1>1, <1>2, <2>1, SMT
  <2>3. model'.tier = first'.tier + escalations'
    BY <1>1, <2>1, <2>2, SMT
  <2> QED
    BY <2>1, <2>2, <2>3 DEF LadderInv, LadderIsClimbed
<1>4. CASE GiveUp
  <2>1. /\ ~WantsEscalation \/ NextStronger(stock, model) = NoModel
        /\ UNCHANGED <<stock, first, model, escalations>>
        /\ AttemptOutcome' = AttemptOutcome
    BY <1>4 DEF GiveUp, routeVars, driverFrame, loopVars, AttemptOutcome
  <2>2. ASSUME AttemptOutcome \in EscalateOn
        PROVE  model.tier >= Entitled \/ InTier(stock, model.tier + 1) = {}
    <3>1. CASE ~(escalations < MaxEscalations)
      BY <1>1, <3>1, SMT DEF Entitled
    <3>2. CASE NextStronger(stock, model) = NoModel
      <4>1. model.tier = 2 \/ InTier(stock, model.tier + 1) = {}
        BY <1>2, <3>2
      <4> QED
        BY <1>1, <4>1, SMT DEF Entitled
    <3> QED
      BY <2>1, <2>2, <3>1, <3>2 DEF WantsEscalation
  <2>3. Entitled' = Entitled
    BY <2>1 DEF Entitled
  <2> QED
    BY <2>1, <2>2, <2>3 DEF LadderInv, LadderIsClimbed
<1>5. ASSUME UNCHANGED <<stock, first, model, escalations>>,
             driver' \in {"launch", "drain", "decide"}
      PROVE  LadderInv'
  BY <1>5 DEF LadderInv, LadderIsClimbed
<1>6. ASSUME UNCHANGED <<stock, first, model, escalations>>, AttemptOutcome' = AttemptOutcome,
             driver' = driver \/ (driver = "emit" /\ driver' = "done")
      PROVE  LadderInv'
  <2>1. Entitled' = Entitled
    BY <1>6 DEF Entitled
  <2> QED
    BY <1>6, <2>1 DEF LadderInv, LadderIsClimbed
<1>7. CASE Launch \/ Attempt \/ Forward \/ Join
  BY <1>5, <1>7 DEF Launch, Attempt, Forward, Join, driverVars, routeVars
<1>8. CASE EmitTerminal \/ TakeEvent \/ LeaveTask \/ TaskDone \/ UNCHANGED taskVars
  BY <1>6, <1>8 DEF EmitTerminal, TakeEvent, LeaveTask, TaskDone, driverVars, routeVars,
     taskVars, runVars, driverFrame, loopVars, AttemptOutcome
<1>9. CASE CancelTask
  BY <1>6, <1>9 DEF CancelTask, CancelRun, driverVars, routeVars, loopVars, AttemptOutcome
<1> QED
  BY <1>3, <1>4, <1>7, <1>8, <1>9 DEF ENext, DriverStep

(* orchestrator.rs 133-137, 184-201: for any registries, policy and number *)
(* of handoffs, a task that fails for good has been tried on the strongest *)
(* tier it is entitled to or stands below an unstocked one.                *)
THEOREM TheLadderIsClimbed == ESpec => []LadderIsClimbed
<1>1. LadderInv => LadderIsClimbed
  BY DEF LadderInv
<1> QED
  BY TaskInvInit, TaskInvNext, LadderInit, LadderNext, <1>1, PTL DEF ESpec

LEMMA FirstByIdIsOne ==
  ASSUME NEW S, S # {}, \A m \in S : m.id \in Nat
  PROVE  FirstById(S) # {}
<1>1. PICK i \in {m.id : m \in S} : \A k \in {m.id : m \in S} : i <= k
  <2>1. {m.id : m \in S} \subseteq Nat /\ {m.id : m \in S} # {}
    OBVIOUS
  <2> QED
    BY <2>1, LeastNumber
<1> QED
  BY <1>1 DEF FirstById

LEMMA SomeCheapest ==
  ASSUME NEW S, S # {}, \A m \in S : m.cost \in Nat
  PROVE  Cheapest(S) # {}
<1>1. PICK c \in {m.cost : m \in S} : \A k \in {m.cost : m \in S} : c <= k
  <2>1. {m.cost : m \in S} \subseteq Nat /\ {m.cost : m \in S} # {}
    OBVIOUS
  <2> QED
    BY <2>1, LeastNumber
<1> QED
  BY <1>1 DEF Cheapest

(* The selector answers from the models of the provider that was asked     *)
(* for, and has an answer when there is one.                               *)
LEMMA SelectorKeepsProvider ==
  ASSUME NEW R, IsRegistry(R), NEW p, NEW task
  PROVE  /\ SelectorAnswers(R, p, task) \subseteq Of(R, p)
         /\ Of(R, p) # {} => SelectorAnswers(R, p, task) # {}
<1> DEFINE tiers == <<TierForTask(task), Balanced, Powerful, Fast>>
           stocked == {i \in 1..4 : InTier(Of(R, p), tiers[i]) # {}}
           least == {k \in stocked : \A l \in stocked : k <= l}
<1>1. SelectorAnswers(R, p, task) = UNION {Cheapest(InTier(Of(R, p), tiers[i])) : i \in least}
  BY DEF SelectorAnswers
<1>2. \A i \in 1..4 : Cheapest(InTier(Of(R, p), tiers[i])) \subseteq Of(R, p)
  BY DEF Cheapest, InTier
<1>3. SelectorAnswers(R, p, task) \subseteq Of(R, p)
  BY <1>1, <1>2
<1>4. ASSUME Of(R, p) # {} PROVE SelectorAnswers(R, p, task) # {}
  <2>1. PICK m \in Of(R, p) : m.tier \in Tier
    BY <1>4 DEF IsRegistry, Of
  <2>2. \E i \in 1..4 : m.tier = tiers[i]
    BY <2>1, SMT DEF Tier
  <2>3. stocked # {} /\ stocked \subseteq Nat
    BY <2>1, <2>2 DEF InTier
  <2>4. PICK k \in stocked : \A l \in stocked : k <= l
    BY <2>3, LeastNumber
  <2>5. Cheapest(InTier(Of(R, p), tiers[k])) # {}
    <3>1. InTier(Of(R, p), tiers[k]) # {}
      BY <2>4
    <3>2. \A n \in InTier(Of(R, p), tiers[k]) : n.cost \in Nat
      BY DEF InTier, Of, IsRegistry
    <3> QED
      BY <3>1, <3>2, SomeCheapest
  <2> QED
    BY <1>1, <2>4, <2>5
<1> QED
  BY <1>3, <1>4

LEMMA PickHonoursProvider ==
  ASSUME NEW R, IsRegistry(R), NEW p
  PROVE  ProviderHonoured(R, p)
<1> SUFFICES ASSUME NEW task \in TaskType, NEW tier \in Tier
             PROVE  /\ PickAnswers(R, task, tier, p) # {}
                    /\ Of(R, p) # {} => PickAnswers(R, task, tier, p) \subseteq Of(R, p)
  BY DEF ProviderHonoured
<1>1. R # {} /\ \A m \in R : m.id \in Nat
  BY DEF IsRegistry
<1>2. CASE InTier(Of(R, p), tier) # {}
  <2>1. /\ InTier(Of(R, p), tier) \subseteq Of(R, p)
        /\ \A m \in InTier(Of(R, p), tier) : m.id \in Nat
    BY <1>1 DEF InTier, Of
  <2>2. FirstById(InTier(Of(R, p), tier)) # {}
    BY <1>2, <2>1, FirstByIdIsOne
  <2>3. PickAnswers(R, task, tier, p) = FirstById(InTier(Of(R, p), tier))
    BY <1>2 DEF PickAnswers
  <2> QED
    BY <2>1, <2>2, <2>3 DEF FirstById
<1>3. CASE InTier(Of(R, p), tier) = {} /\ SelectorAnswers(R, p, task) # {}
  BY <1>3, SelectorKeepsProvider DEF PickAnswers
<1>4. CASE InTier(Of(R, p), tier) = {} /\ SelectorAnswers(R, p, task) = {}
  <2>1. PickAnswers(R, task, tier, p) = FirstById(R) /\ Of(R, p) = {}
    BY <1>4, SelectorKeepsProvider DEF PickAnswers
  <2> QED
    BY <1>1, <2>1, FirstByIdIsOne
<1> QED
  BY <1>2, <1>3, <1>4

(* orchestrator.rs 66-69, llm.rs 134-145: whatever is registered and       *)
(* whatever the default, a harder task never gets a weaker model, and a    *)
(* provider that has any model is never passed over.                       *)
THEOREM RoutingIsHonoured == RoutingSpec => []RoutingHonoured
<1>1. RoutingInit => RoutingHonoured
  <2> SUFFICES ASSUME RoutingInit PROVE RoutingHonoured
    OBVIOUS
  <2>1. IsRegistry(registry)
    <3>1. registry \subseteq Catalogue /\ registry # {}
      BY DEF RoutingInit
    <3>2. /\ NoModel \notin Catalogue
          /\ \A m \in Catalogue : m.id \in Nat /\ m.tier \in Tier /\ m.cost \in Nat
          /\ \A m, n \in Catalogue : m.id = n.id => m = n
      BY RoutingAssumption DEF RoutingAssumption, IsRegistry
    <3> QED
      BY <3>1, <3>2, Zenon DEF IsRegistry
  <2> QED
    BY <2>1, ChoiceIsMonotone, PickHonoursProvider DEF RoutingHonoured
<1>2. RoutingHonoured /\ [FALSE]_choiceVars => RoutingHonoured'
  BY DEF choiceVars, RoutingHonoured, Monotone, ProviderHonoured
<1> QED
  BY <1>1, <1>2, PTL DEF RoutingSpec
=============================================================================
