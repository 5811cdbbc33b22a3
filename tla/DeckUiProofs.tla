---------------------------- MODULE DeckUiProofs ----------------------------
(***************************************************************************)
(* The page never gives up its connection and never has two, and what it   *)
(* shows settles on what the server has stored, whatever the server, the   *)
(* network and the user do, for any number of tentacles, frames under way  *)
(* and faults.                                                             *)
(***************************************************************************)
EXTENDS DeckUi, TLAPS

(* An open connection is the one socket there is: what closes it takes it  *)
(* away before a timer is set.  What is asked for is asked for on it.      *)
WayBackInv ==
  /\ sockets \in {0, 1} /\ timers \in {0, 1}
  /\ OneWayBack
  /\ linked => sockets = 1
  /\ fetched => linked

LEMMA WayBackInit == Init => WayBackInv
BY SMT DEF Init, WayBackInv, OneWayBack

(* on_close is called for a socket there is.                               *)
LEMMA CloseTurnsToTimer ==
  ASSUME WayBackInv, sockets = 1, OnClose
  PROVE  WayBackInv'
BY SMT DEF WayBackInv, OneWayBack, OnClose

LEMMA WayBackNext == WayBackInv /\ [Next]_vars => WayBackInv'
<1> SUFFICES ASSUME WayBackInv, [Next]_vars PROVE WayBackInv'
  OBVIOUS
<1>1. ASSUME UNCHANGED <<sockets, timers, linked, fetched>> PROVE WayBackInv'
  BY <1>1 DEF WayBackInv, OneWayBack
<1>13. ASSUME UNCHANGED <<sockets, timers, linked>>, fetched' = linked PROVE WayBackInv'
  BY <1>13 DEF WayBackInv, OneWayBack
<1>2. CASE Open
  BY <1>2, SMT DEF Open, WayBackInv, OneWayBack, asked
<1>3. CASE RefusedByServer
  BY <1>3, CloseTurnsToTimer, SMT DEF RefusedByServer, WayBackInv
<1>4. CASE ClosedByServer
  BY <1>4, CloseTurnsToTimer, SMT DEF ClosedByServer, WayBackInv
<1>5. CASE TimerFires
  BY <1>5, SMT DEF TimerFires, WayBackInv, OneWayBack, asked
<1>6. CASE ConnectionLost
  BY <1>6, CloseTurnsToTimer, Zenon DEF ConnectionLost, ConnectionEnds, WayBackInv
<1>7. CASE Restart
  BY <1>7, CloseTurnsToTimer, Zenon DEF Restart, ConnectionEnds, WayBackInv
<1>8. CASE Receive
  BY <1>8, <1>1, <1>13, Zenon DEF Receive, Show, SelectAndFetch, asked
<1>9. CASE (ServerStep \/ Refill \/ \E k \in Lost : ReadOldFrame(k)) /\ Still
  BY <1>9, <1>1, Zenon DEF Still, page
<1>10. CASE SessionExpires \/ LateAuthentication
  BY <1>10, <1>1, Zenon DEF SessionExpires, LateAuthentication, page, asked
<1>11. CASE User
  BY <1>11, <1>1, <1>13, Zenon DEF User, Select, SelectAndFetch, CreateNew, Type, Save, CheckBox, Change, page, asked
<1>12. CASE UNCHANGED vars
  BY <1>12, <1>1, Zenon DEF vars, page, asked
<1> QED
  BY <1>2, <1>3, <1>4, <1>5, <1>6, <1>7, <1>8, <1>9, <1>10, <1>11, <1>12, Zenon DEF Next

(* ws.rs 224-321: connect, its callbacks and schedule_reconnect keep       *)
(* exactly one socket or one timer, under any number of refusals, closes,  *)
(* losses and restarts.                                                    *)
THEOREM ExactlyOneWayBack == SafetySpec => []OneWayBack
<1>1. WayBackInv => OneWayBack
  BY DEF WayBackInv
<1> QED
  BY WayBackInit, WayBackNext, <1>1, PTL DEF SafetySpec

-----------------------------------------------------------------------------
(* What the page shows settles on what is stored.                          *)
FrameTypes ==
  {"auth", "ready", "close", "tentacle.list", "tentacle.todos", "tentacle.context",
   "tentacle.created", "tentacle.create", "tentacle.toggle", "tentacle.writeContext"}
Values == {Nothing, Draft, Template} \cup BOOLEAN \cup SUBSET Ids
Frames ==
  {f \in [type : FrameTypes, id : Ids \cup {Nothing}, value : Values] :
     f.type = "tentacle.create" => f.id \in Ids}

UiTypeOK ==
  /\ inbox \in Seq(Frames) /\ outbox \in Seq(Frames)
  /\ list \subseteq Ids
  /\ old \in [Lost -> Seq(Frames)]
  /\ done \in [Ids -> BOOLEAN \cup {Nothing}]
  /\ context \in [Ids -> Values]
  /\ active \in Ids \cup {Nothing}
  /\ body \in Values

(* What the page has been told of is there, and its first frame on a       *)
(* connection that has not let it in is the token.                         *)
KnownInv ==
  /\ shownList \subseteq list
  /\ \A j \in 1 .. Len(outbox) :
       /\ outbox[j].type = "ready" => outbox[j].value \subseteq list
       /\ outbox[j].type = "tentacle.created" => outbox[j].id \in list
  /\ linked /\ conn = "open" => authed \/ (inbox # <<>> /\ inbox[1].type = "auth")

(* What is under way to the server (ib) and to the page (ob) that will be  *)
(* shown of tentacle id: a request of one of types, an answer of type, or  *)
(* a tentacle the page will select instead, and ask for.                   *)
Asked(ib, id, types) == \E i \in 1 .. Len(ib) : ib[i].type \in types /\ ib[i].id = id
Coming(ob) == \E j \in 1 .. Len(ob) : ob[j].type = "tentacle.created"
Tells(f, id, type) == f.type = type /\ f.id = id
Quiet(ob, id, type) == \A j \in 1 .. Len(ob) : ~Tells(ob[j], id, type)
LastTells(ob, id, type, stored) ==
  \E j \in 1 .. Len(ob) :
    /\ Tells(ob[j], id, type) /\ ob[j].value = stored
    /\ \A k \in 1 .. Len(ob) : Tells(ob[k], id, type) => k <= j

(* The last that will be shown is what is stored.                          *)
Pending(ib, ob, id, types, type, stored) ==
  Asked(ib, id, types) \/ Coming(ob) \/ LastTells(ob, id, type, stored)

TodoTypes == {"tentacle.todos", "tentacle.toggle"}
TodoSettles ==
  \/ "tentacle.todos" \in untold
  \/ Pending(inbox, outbox, active, TodoTypes, "tentacle.todos", done[active])
  \/ Quiet(outbox, active, "tentacle.todos") /\ todos = done[active]

ContextTypes == {"tentacle.context"}
ContextSettles ==
  \/ "tentacle.context" \in untold
  \/ Pending(inbox, outbox, active, ContextTypes, "tentacle.context", context[active])
  \/ Quiet(outbox, active, "tentacle.context") /\ (typed \/ body = context[active])

SettlingInv ==
  linked /\ conn = "open" /\ fetched => active \in list /\ TodoSettles /\ ContextSettles

-----------------------------------------------------------------------------
(* What a frame that is sent, read or received does to what is under way.  *)

(* An answer that holds what is stored is the last one.                    *)
LEMMA AnswerSettles ==
  ASSUME NEW S, NEW ib, NEW ob \in Seq(S), NEW id, NEW types, NEW type, NEW stored, NEW f,
         Tells(f, id, type), f.value = stored
  PROVE  Pending(ib, Append(ob, f), id, types, type, stored)
<1> DEFINE o == Append(ob, f)
<1>1. Len(o) = Len(ob) + 1 /\ o[Len(ob) + 1] = f /\ Len(ob) \in Nat
  BY SMT
<1> HIDE DEF o
<1>2. LastTells(o, id, type, stored)
  BY <1>1, SMT DEF LastTells
<1> QED
  BY <1>2, Zenon DEF Pending, o

(* Any other answer changes nothing.                                       *)
LEMMA OtherAnswer ==
  ASSUME NEW S, NEW ib, NEW ob \in Seq(S), NEW id, NEW types, NEW type, NEW stored, NEW f,
         ~Tells(f, id, type)
  PROVE  /\ Pending(ib, ob, id, types, type, stored) =>
              Pending(ib, Append(ob, f), id, types, type, stored)
         /\ Quiet(ob, id, type) => Quiet(Append(ob, f), id, type)
<1> DEFINE o == Append(ob, f)
<1>1. /\ Len(o) = Len(ob) + 1 /\ o[Len(ob) + 1] = f /\ Len(ob) \in Nat
      /\ \A j \in 1 .. Len(ob) : o[j] = ob[j]
  BY SMT
<1> HIDE DEF o
<1>2. Quiet(ob, id, type) => Quiet(o, id, type)
  BY <1>1, SMT DEF Quiet
<1>3. Coming(ob) => Coming(o)
  BY <1>1, SMT DEF Coming
<1>4. LastTells(ob, id, type, stored) => LastTells(o, id, type, stored)
  BY <1>1, SMT DEF LastTells
<1> QED
  BY <1>2, <1>3, <1>4, Zenon DEF Pending, o

(* A frame that is not such a request is read.                             *)
LEMMA OtherRead ==
  ASSUME NEW S, NEW ib \in Seq(S), ib # <<>>, NEW ob, NEW id, NEW types, NEW type, NEW stored,
         ~(Head(ib).type \in types /\ Head(ib).id = id),
         Pending(ib, ob, id, types, type, stored)
  PROVE  Pending(Tail(ib), ob, id, types, type, stored)
<1> DEFINE t == Tail(ib)
<1>1. /\ Len(ib) \in Nat \ {0} /\ Head(ib) = ib[1]
      /\ Len(t) = Len(ib) - 1 /\ \A i \in 1 .. Len(t) : t[i] = ib[i + 1]
  BY SMT
<1> HIDE DEF t
<1>2. Asked(ib, id, types) => Asked(t, id, types)
  <2> SUFFICES ASSUME NEW i \in 1 .. Len(ib), ib[i].type \in types /\ ib[i].id = id
               PROVE  Asked(t, id, types)
    BY Zenon DEF Asked
  <2>1. i - 1 \in 1 .. Len(t) /\ t[i - 1] = ib[i]
    BY <1>1, SMT
  <2> QED
    BY <2>1, Zenon DEF Asked
<1> QED
  BY <1>2, Zenon DEF Pending, t

(* Requests that are sent are asked, and take nothing away.                *)
LEMMA Sending ==
  ASSUME NEW S, NEW T, NEW ib \in Seq(S), NEW more \in Seq(T), NEW id, NEW types
  PROVE  /\ Asked(ib, id, types) => Asked(ib \o more, id, types)
         /\ Asked(more, id, types) => Asked(ib \o more, id, types)
<1> DEFINE t == ib \o more
<1>1. /\ Len(ib) \in Nat /\ Len(more) \in Nat /\ Len(t) = Len(ib) + Len(more)
      /\ \A i \in 1 .. Len(ib) : t[i] = ib[i]
      /\ \A i \in 1 .. Len(more) : t[Len(ib) + i] = more[i]
  BY SMT
<1> HIDE DEF t
<1>2. Asked(ib, id, types) => Asked(t, id, types)
  BY <1>1, SMT DEF Asked
<1>3. ASSUME NEW i \in 1 .. Len(more), more[i].type \in types /\ more[i].id = id
      PROVE  Asked(t, id, types)
  <2>1. Len(ib) + i \in 1 .. Len(t)
    BY <1>1, SMT
  <2> QED
    BY <2>1, <1>1, <1>3, Zenon DEF Asked
<1> QED
  BY <1>2, <1>3, Zenon DEF Asked, t

(* The page receives an answer: if it is the last one, what it holds is    *)
(* shown; any other frame that does not select changes nothing.            *)
LEMMA Receiving ==
  ASSUME NEW S, NEW ib, NEW ob \in Seq(S), ob # <<>>, NEW id, NEW types, NEW type, NEW stored,
         Head(ob).type # "tentacle.created"
  PROVE  /\ Pending(ib, ob, id, types, type, stored) =>
              \/ Pending(ib, Tail(ob), id, types, type, stored)
              \/ /\ Tells(Head(ob), id, type) /\ Head(ob).value = stored
                 /\ Quiet(Tail(ob), id, type)
         /\ Quiet(ob, id, type) => ~Tells(Head(ob), id, type) /\ Quiet(Tail(ob), id, type)
<1> DEFINE t == Tail(ob)
<1>1. /\ Len(ob) \in Nat \ {0} /\ Head(ob) = ob[1]
      /\ Len(t) = Len(ob) - 1 /\ \A i \in 1 .. Len(t) : t[i] = ob[i + 1]
  BY SMT
<1> HIDE DEF t
<1>2. Quiet(ob, id, type) => ~Tells(Head(ob), id, type) /\ Quiet(t, id, type)
  BY <1>1, SMT DEF Quiet
<1>3. Coming(ob) => Coming(t)
  <2> SUFFICES ASSUME NEW j \in 1 .. Len(ob), ob[j].type = "tentacle.created" PROVE Coming(t)
    BY Zenon DEF Coming
  <2>1. j - 1 \in 1 .. Len(t) /\ t[j - 1] = ob[j]
    BY <1>1, SMT
  <2> QED
    BY <2>1, Zenon DEF Coming
<1>4. ASSUME NEW j \in 1 .. Len(ob), Tells(ob[j], id, type), ob[j].value = stored,
             \A k \in 1 .. Len(ob) : Tells(ob[k], id, type) => k <= j
      PROVE  \/ LastTells(t, id, type, stored)
             \/ /\ Tells(Head(ob), id, type) /\ Head(ob).value = stored
                /\ Quiet(t, id, type)
  <2>1. CASE j = 1
    BY <2>1, <1>1, <1>4, SMT DEF Quiet
  <2>2. CASE j # 1
    <3>1. j - 1 \in 1 .. Len(t) /\ t[j - 1] = ob[j]
      BY <2>2, <1>1, SMT
    <3>2. \A k \in 1 .. Len(t) : Tells(t[k], id, type) => k <= j - 1
      BY <1>1, <1>4, SMT
    <3> QED
      BY <3>1, <3>2, <1>4, Zenon DEF LastTells
  <2> QED
    BY <2>1, <2>2
<1> QED
  BY <1>2, <1>3, <1>4, Zenon DEF Pending, LastTells, t

-----------------------------------------------------------------------------
LEMMA UiTypeInit == Init => UiTypeOK
<1>1. Init => inbox \in Seq(Frames) /\ outbox \in Seq(Frames) /\ old \in [Lost -> Seq(Frames)]
  BY SMT DEF Init, ServerInit
<1>2. Nothing \in Values /\ Template \in Values /\ FALSE \in BOOLEAN
  BY DEF Values
<1> QED
  BY <1>1, <1>2, SessionAssumption, SMT DEF Init, ServerInit, UiTypeOK

(* What dispatch answers is a frame, and what it stores has its type.      *)
LEMMA FrameType ==
  ASSUME NEW type \in FrameTypes, NEW id \in Ids \cup {Nothing}, NEW value \in Values,
         type = "tentacle.create" => id \in Ids
  PROVE  Frame(type, id, value) \in Frames
BY Zenon DEF Frame, Frames

LEMMA SignalType ==
  \A type \in {"auth", "close"} : Signal(type) \in Frames
BY SMT DEF Signal, Frame, Frames, FrameTypes, Values

LEMMA DispatchStores ==
  ASSUME UiTypeOK, NEW f \in Frames, NEW heard \in BOOLEAN, Dispatch(f, heard)
  PROVE  /\ list \subseteq list' /\ list' \subseteq Ids
         /\ done' \in [Ids -> BOOLEAN \cup {Nothing}] /\ context' \in [Ids -> Values]
<1>1. /\ f.type \in FrameTypes /\ f.id \in Ids \cup {Nothing} /\ f.value \in Values
      /\ f.type = "tentacle.create" => f.id \in Ids
  BY DEF Frames
<1>2. Nothing \in Values /\ Template \in Values
  BY DEF Values
<1>3. CASE UNCHANGED files
  BY <1>3, SMT DEF UiTypeOK, files
<1>4. CASE Query(f, heard)
  BY <1>4, <1>3 DEF Query
<1>5. CASE f.type = "tentacle.create" /\ Create(f, heard) /\ ~UNCHANGED files
  <2>1. f.id \in Ids /\ context[f.id] \in Values
    BY <1>1, <1>5, SMT DEF UiTypeOK
  <2>2. /\ Made(f.id, context[f.id], Template) \subseteq Values
        /\ Made(f.id, done[f.id], FALSE) \subseteq BOOLEAN \cup {Nothing}
    BY <1>2, <2>1, Zenon DEF Made, UiTypeOK
  <2>3. /\ list' = list \cup {f.id}
        /\ \E text \in Values : context' = [context EXCEPT ![f.id] = text]
        /\ \/ done' = done
           \/ \E box \in BOOLEAN \cup {Nothing} : done' = [done EXCEPT ![f.id] = box]
    BY <1>5, <2>1, <2>2, Zenon DEF Create
  <2> QED
    BY <2>1, <2>3, SMT DEF UiTypeOK
<1>6. CASE Toggle(f, heard)
  <2>1. \/ done' = done
        \/ \E box \in BOOLEAN \cup {Nothing} : f.id \in list /\ done' = [done EXCEPT ![f.id] = box]
    <3>1. f.id \in list => done[f.id] \in BOOLEAN \cup {Nothing}
      BY SMT DEF UiTypeOK
    <3>2. done[f.id] # Nothing /\ f.id \in list => (~done[f.id]) \in BOOLEAN
      BY <3>1
    <3> QED
      BY <1>6, <3>1, <3>2, Zenon DEF Toggle, FlipBox
  <2>2. list' = list /\ context' = context
    BY <1>6, Zenon DEF Toggle
  <2> QED
    BY <2>1, <2>2, SMT DEF UiTypeOK
<1>7. CASE WriteContext(f, heard)
  <2>1. \/ context' = context
        \/ \E text \in Values \cup {context[f.id]} : f.id \in list /\ context' = [context EXCEPT ![f.id] = text]
    BY <1>1, <1>2, <1>7, SMT DEF WriteContext
  <2>2. f.id \in list => context[f.id] \in Values
    BY DEF UiTypeOK
  <2> QED
    BY <1>7, <2>1, <2>2, SMT DEF WriteContext, UiTypeOK
<1> QED
  BY <1>3, <1>4, <1>5, <1>6, <1>7, Zenon DEF Dispatch, Create

(* What dispatch answers, if it is heard: it tells only of what is stored  *)
(* when it has done its work, it is not what lets the page in, and a       *)
(* question is answered.                                                   *)
Answers(f, g) ==
  /\ g.type # "ready"
  /\ g.type = "tentacle.created" => g.id \in list'
  /\ g.type = "tentacle.todos" /\ g.id \in list => g.value = done'[g.id]
  /\ g.type = "tentacle.context" /\ g.id \in list => g.value = context'[g.id]
  /\ f.type \in TodoTypes => Tells(g, f.id, "tentacle.todos")
  /\ f.type \in ContextTypes => Tells(g, f.id, "tentacle.context")

LEMMA AnswerType ==
  ASSUME NEW f, NEW heard \in BOOLEAN, NEW type \in FrameTypes, NEW id \in Ids \cup {Nothing},
         NEW value \in Values, type # "tentacle.create", Answer(heard, type, id, value),
         Answers(f, Frame(type, id, value))
  PROVE  IF heard THEN \E g \in Frames : Answers(f, g) /\ outbox' = Append(outbox, g)
                  ELSE outbox' = outbox
BY FrameType, Zenon DEF Answer

LEMMA DispatchTells ==
  ASSUME UiTypeOK, NEW f \in Frames, NEW heard \in BOOLEAN, Dispatch(f, heard)
  PROVE  \/ outbox' = outbox /\ (heard => f.type \notin TodoTypes \cup ContextTypes)
         \/ heard /\ \E g \in Frames : Answers(f, g) /\ outbox' = Append(outbox, g)
<1> DEFINE Told == IF heard THEN \E g \in Frames : Answers(f, g) /\ outbox' = Append(outbox, g)
                            ELSE outbox' = outbox
<1>1. /\ f.type \in FrameTypes /\ f.id \in Ids \cup {Nothing} /\ f.value \in Values
      /\ f.type = "tentacle.create" => f.id \in Ids
  BY DEF Frames
<1>2. Nothing \in Values /\ BOOLEAN \subseteq Values /\ list \in Values
  BY SMT DEF Values, UiTypeOK
<1>3. /\ \A i \in list : done[i] \in Values /\ context[i] \in Values
      /\ \A i \in list' : done'[i] \in Values
  BY <1>2, DispatchStores, SMT DEF UiTypeOK
<1>4. CASE Query(f, heard) /\ f.type \in {"auth", "tentacle.list"}
  <2> DEFINE g == Frame("tentacle.list", Nothing, list)
  <2>1. Answers(f, g)
    BY <1>4, SMT DEF Answers, TodoTypes, ContextTypes, Frame
  <2>2. Answer(heard, "tentacle.list", Nothing, list)
    BY <1>4, SMT DEF Query
  <2>3. Told
    BY <1>2, <2>1, <2>2, AnswerType, Zenon DEF FrameTypes
  <2> QED
    BY <2>3
<1>5. CASE Query(f, heard) /\ f.type = "tentacle.todos"
  <2> DEFINE v == IF f.id \in list THEN done[f.id] ELSE Nothing
             g == Frame("tentacle.todos", f.id, v)
  <2>1. v \in Values
    BY <1>2, <1>3
  <2>2. /\ g.type = "tentacle.todos" /\ g.id = f.id /\ f.id \in list => g.value = done[f.id]
        /\ g.type = "tentacle.todos" /\ g.id = f.id
    BY DEF Frame
  <2>3. Answer(heard, "tentacle.todos", f.id, v)
    BY <1>5, SMT DEF Query
  <2>4. UNCHANGED files
    BY <1>5, Zenon DEF Query
  <2>5. Answers(f, g)
    BY <1>5, <2>2, <2>4, SMT DEF Answers, TodoTypes, ContextTypes, Tells, files
  <2>6. Told
    BY <1>1, <2>1, <2>3, <2>5, AnswerType, Zenon DEF FrameTypes
  <2> QED
    BY <2>6
<1>6. CASE Query(f, heard) /\ f.type = "tentacle.context"
  <2> DEFINE v == IF f.id \in list THEN context[f.id] ELSE Nothing
             g == Frame("tentacle.context", f.id, v)
  <2>1. v \in Values
    BY <1>2, <1>3
  <2>2. /\ g.type = "tentacle.context" /\ g.id = f.id /\ f.id \in list => g.value = context[f.id]
        /\ g.type = "tentacle.context" /\ g.id = f.id
    BY DEF Frame
  <2>3. Answer(heard, "tentacle.context", f.id, v)
    BY <1>6, SMT DEF Query
  <2>4. UNCHANGED files
    BY <1>6, Zenon DEF Query
  <2>5. Answers(f, g)
    BY <1>6, <2>2, <2>4, SMT DEF Answers, TodoTypes, ContextTypes, Tells, files
  <2>6. Told
    BY <1>1, <2>1, <2>3, <2>5, AnswerType, Zenon DEF FrameTypes
  <2> QED
    BY <2>6
<1>7. CASE f.type = "tentacle.create" /\ Create(f, heard)
  <2> DEFINE g == Frame("tentacle.created", f.id, done'[f.id])
  <2>1. f.type \notin TodoTypes \cup ContextTypes
    BY <1>7, SMT DEF TodoTypes, ContextTypes
  <2>2. CASE list' = list \cup {f.id} /\ Answer(heard, "tentacle.created", f.id, done'[f.id])
    <3>1. g.type = "tentacle.created" /\ g.id = f.id
      BY DEF Frame
    <3>2. Answers(f, g)
      BY <2>1, <2>2, <3>1, SMT DEF Answers
    <3>3. Told
      BY <1>1, <1>3, <2>2, <3>2, AnswerType, Zenon DEF FrameTypes
    <3> QED
      BY <3>3
  <2> QED
    BY <1>7, <2>1, <2>2, Zenon DEF Create
<1>8. CASE f.type = "tentacle.toggle" /\ Toggle(f, heard)
  <2> DEFINE v == IF f.id \in list THEN done'[f.id] ELSE Nothing
             g == Frame("tentacle.todos", f.id, v)
  <2>1. Answer(heard, "tentacle.todos", f.id, v) /\ list' = list
    BY <1>8, Zenon DEF Toggle
  <2>2. v \in Values
    BY <1>2, <1>3, <2>1
  <2>3. /\ g.type = "tentacle.todos" /\ g.id = f.id
        /\ f.id \in list => g.value = done'[f.id]
    BY DEF Frame
  <2>4. Answers(f, g)
    BY <1>8, <2>3, SMT DEF Answers, TodoTypes, ContextTypes, Tells
  <2>5. Told
    BY <1>1, <2>1, <2>2, <2>4, AnswerType, Zenon DEF FrameTypes
  <2> QED
    BY <2>5
<1>9. CASE f.type = "tentacle.writeContext" /\ WriteContext(f, heard)
  <2> DEFINE g == Frame("tentacle.context", f.id, f.value)
  <2>1. f.type \notin TodoTypes \cup ContextTypes
    BY <1>9, SMT DEF TodoTypes, ContextTypes
  <2>2. CASE /\ context' = IF f.id \in list THEN [context EXCEPT ![f.id] = f.value] ELSE context
             /\ Answer(heard, "tentacle.context", f.id, f.value)
    <3>1. g.type = "tentacle.context" /\ g.id = f.id /\ g.value = f.value
      BY DEF Frame
    <3>2. f.id \in list => context'[f.id] = f.value
      BY <2>2, SMT DEF UiTypeOK
    <3>3. Answers(f, g)
      BY <2>1, <3>1, <3>2, SMT DEF Answers
    <3>4. Told
      BY <1>1, <2>2, <3>3, AnswerType, Zenon DEF FrameTypes
    <3> QED
      BY <3>4
  <2> QED
    BY <1>9, <2>1, <2>2, Zenon DEF WriteContext
<1> QED
  BY <1>4, <1>5, <1>6, <1>7, <1>8, <1>9, Zenon DEF Dispatch, Query

LEMMA UiTypeNext == UiTypeOK /\ [Next]_vars => UiTypeOK'
<1> SUFFICES ASSUME UiTypeOK, [Next]_vars PROVE UiTypeOK'
  OBVIOUS
<1> DEFINE Boxes == inbox' \in Seq(Frames) /\ outbox' \in Seq(Frames)
<1> DEFINE Shown == active' \in Ids \cup {Nothing} /\ body' \in Values
<1>1. /\ UNCHANGED <<store, active, body>> /\ Boxes => UiTypeOK'
      /\ UNCHANGED store /\ Boxes /\ Shown => UiTypeOK'
  BY Zenon DEF UiTypeOK, store, files
<1>3. /\ \A g \in Frames : <<g>> \in Seq(Frames)
      /\ \A g, h \in Frames : <<g, h>> \in Seq(Frames)
      /\ \A g \in Frames : Append(outbox, g) \in Seq(Frames)
      /\ <<>> \in Seq(Frames)
      /\ \A s \in Seq(Frames) : inbox \o s \in Seq(Frames)
  BY SMT DEF UiTypeOK
<1>4. /\ inbox # <<>> => Tail(inbox) \in Seq(Frames) /\ Head(inbox) \in Frames
      /\ outbox # <<>> => Tail(outbox) \in Seq(Frames) /\ Head(outbox) \in Frames
  BY SMT DEF UiTypeOK
<1>5. ASSUME NEW id \in Ids, SelectAndFetch(id)
      PROVE  inbox' \in Seq(Frames) /\ active' \in Ids
  <2> DEFINE g == Frame("tentacle.context", id, Nothing)
             h == Frame("tentacle.todos", id, Nothing)
  <2>1. g \in Frames /\ h \in Frames
    BY FrameType, Zenon DEF FrameTypes, Values
  <2> QED
    BY <2>1, <1>3, <1>5, Zenon DEF SelectAndFetch, Send, UiTypeOK
<1>6. CASE ReadFrame /\ Still
  <2> DEFINE f == Head(inbox)
  <2>1. UNCHANGED <<active, body, old>> /\ inbox # <<>>
    BY <1>6, Zenon DEF ReadFrame, Still, view
  <2>2. CASE Break
    BY <2>1, <2>2, <1>1, <1>3, SignalType, Zenon DEF Break, store
  <2>3. CASE inbox' = Tail(inbox) /\ Drop(f)
    BY <2>1, <2>3, <1>1, <1>4, Zenon DEF Drop, UiTypeOK, store
  <2>4. CASE inbox' = Tail(inbox) /\ Authenticate(f)
    <3>1. Ready \in Frames
      BY FrameType, Zenon DEF Ready, FrameTypes, Values, UiTypeOK
    <3> QED
      BY <2>1, <2>4, <3>1, <1>1, <1>3, <1>4, Zenon DEF Authenticate, store
  <2>5. CASE inbox' = Tail(inbox) /\ Dispatch(f, TRUE)
    <3>1. f \in Frames /\ inbox' \in Seq(Frames)
      BY <2>1, <2>5, <1>4, Zenon
    <3>2. outbox' \in Seq(Frames)
      BY <2>5, <3>1, <1>3, DispatchTells, Zenon DEF UiTypeOK
    <3> QED
      BY <2>1, <2>5, <3>1, <3>2, DispatchStores, Zenon DEF UiTypeOK
  <2> QED
    BY <1>6, <2>2, <2>3, <2>4, <2>5, Zenon DEF ReadFrame
<1>15. ASSUME NEW k \in Lost, ReadOldFrame(k), Still PROVE UiTypeOK'
  <2>1. UNCHANGED <<active, body, inbox>>
    BY <1>15, Zenon DEF ReadOldFrame, Still, view
  <2>2. old[k] \in Seq(Frames) /\ old[k] # <<>>
    BY <1>15, Zenon DEF ReadOldFrame, UiTypeOK
  <2>3. Head(old[k]) \in Frames /\ Tail(old[k]) \in Seq(Frames)
    BY <2>2, SMT
  <2>4. old' \in [Lost -> Seq(Frames)]
    <3>1. \E s \in Seq(Frames) : old' = [old EXCEPT ![k] = s]
      BY <1>15, <2>3, <1>3, Zenon DEF ReadOldFrame
    <3> QED
      BY <3>1, SMT DEF UiTypeOK
  <2>5. CASE UNCHANGED <<files, outbox>>
    BY <2>1, <2>4, <2>5, Zenon DEF files, UiTypeOK
  <2>6. CASE Dispatch(Head(old[k]), FALSE)
    <3>1. outbox' = outbox
      BY <2>3, <2>6, DispatchTells, Zenon
    <3> QED
      BY <2>1, <2>3, <2>4, <2>6, <3>1, DispatchStores, Zenon DEF UiTypeOK
  <2> QED
    BY <1>15, <2>5, <2>6, Zenon DEF ReadOldFrame
<1>7. CASE (EndSession \/ Refill) /\ Still
  BY <1>7, <1>1, SMT DEF EndSession, Refill, Still, view, UiTypeOK
<1>8. CASE SessionExpires \/ LateAuthentication
  BY <1>8, <1>1, SMT DEF SessionExpires, LateAuthentication, Expire, DeadlinePasses, view, UiTypeOK
<1>9. CASE Open
  BY <1>9, <1>1, <1>3, SignalType, SMT DEF Open
<1>10. CASE RefusedByServer \/ ClosedByServer \/ TimerFires \/ UNCHANGED vars
  BY <1>10, <1>1, SMT DEF RefusedByServer, ClosedByServer, TimerFires, server, view, vars, UiTypeOK, store, files
<1>11. CASE ConnectionLost
  <2>1. \A n \in 0 .. Len(inbox) : SubSeq(inbox, 1, n) \in Seq(Frames)
    BY SMT DEF UiTypeOK
  <2>2. \E k \in Lost, s \in Seq(Frames) : old' = [old EXCEPT ![k] = s]
    BY <1>11, <2>1, <1>3, Zenon DEF ConnectionLost
  <2>3. old' \in [Lost -> Seq(Frames)]
    BY <2>2, SMT DEF UiTypeOK
  <2>4. inbox' = <<>> /\ outbox' = <<>> /\ UNCHANGED <<files, active, body>>
    BY <1>11, Zenon DEF ConnectionLost, ConnectionEnds, view
  <2> QED
    BY <2>3, <2>4, <1>3, Zenon DEF UiTypeOK, files
<1>12. CASE Restart
  <2>1. inbox' = <<>> /\ outbox' = <<>> /\ UNCHANGED <<files, active, body>>
    BY <1>12, Zenon DEF Restart, ConnectionEnds, view
  <2>2. old' \in [Lost -> Seq(Frames)]
    BY <1>12, SMT DEF Restart
  <2> QED
    BY <2>1, <2>2, <1>3, Zenon DEF UiTypeOK, files
<1>13. CASE Receive
  <2> DEFINE f == Head(outbox)
  <2>1. /\ outbox # <<>> /\ outbox' = Tail(outbox) /\ Show(f) /\ UNCHANGED store
    BY <1>13, Zenon DEF Receive
  <2>2. f \in Frames /\ outbox' \in Seq(Frames) /\ f.value \in Values
    BY <2>1, <1>4, Zenon DEF Frames
  <2>3. CASE f.type = "tentacle.created" /\ SelectAndFetch(f.id) /\ UNCHANGED body
    <3>1. f.id \in Ids \cup {Nothing}
      BY <2>2 DEF Frames
    <3>2. active' \in Ids \cup {Nothing} /\ inbox' \in Seq(Frames)
      <4> DEFINE g == Frame("tentacle.context", f.id, Nothing)
                 h == Frame("tentacle.todos", f.id, Nothing)
      <4>1. g \in Frames /\ h \in Frames
        BY <3>1, FrameType, Zenon DEF FrameTypes, Values
      <4> QED
        BY <4>1, <3>1, <2>3, <1>3, Zenon DEF SelectAndFetch, Send, UiTypeOK
    <3> QED
      BY <3>2, <2>1, <2>2, <2>3, <1>1, Zenon DEF UiTypeOK
  <2>4. CASE UNCHANGED <<inbox, active>> /\ body' \in {body, f.value}
    BY <2>1, <2>2, <2>4, <1>1, SMT DEF UiTypeOK
  <2> QED
    BY <2>1, <2>3, <2>4, SMT DEF Show, view
<1>14. CASE User
  <2>1. ASSUME NEW id \in Ids, Select(id) PROVE UiTypeOK'
    BY <2>1, <1>1, <1>5, Zenon DEF Select, UiTypeOK
  <2>2. CASE Type
    BY <2>2, <1>1, Zenon DEF Type, server, Values, UiTypeOK
  <2>3. ASSUME NEW g \in Frames, Send(<<g>>), UNCHANGED <<outbox, store, active, body>>
        PROVE  UiTypeOK'
    BY <2>3, <1>1, <1>3, Zenon DEF Send, UiTypeOK
  <2>4. CASE Save
    <3>1. Frame("tentacle.writeContext", active, body) \in Frames
      BY FrameType, Zenon DEF FrameTypes, UiTypeOK
    <3> QED
      BY <2>4, <3>1, <2>3, Zenon DEF Save, Change, view
  <2>5. CASE CheckBox
    <3>1. Frame("tentacle.toggle", active, Nothing) \in Frames
      BY FrameType, Zenon DEF FrameTypes, Values, UiTypeOK
    <3> QED
      BY <2>5, <3>1, <2>3, Zenon DEF CheckBox, Change, view
  <2>6. ASSUME NEW id \in Ids, CreateNew(id) PROVE UiTypeOK'
    <3>1. Frame("tentacle.create", id, Nothing) \in Frames
      BY FrameType, Zenon DEF FrameTypes, Values
    <3> QED
      BY <2>6, <3>1, <2>3, Zenon DEF CreateNew, Change, view
  <2> QED
    BY <1>14, <2>1, <2>2, <2>4, <2>5, <2>6, Zenon DEF User
<1> QED
  BY <1>6, <1>7, <1>8, <1>9, <1>10, <1>11, <1>12, <1>13, <1>14, <1>15, Zenon DEF Next, ServerStep

-----------------------------------------------------------------------------
LEMMA KnownInit == Init => KnownInv
BY SMT DEF Init, ServerInit, KnownInv

(* Two of KnownInv's parts: what the answers under way tell of is stored,  *)
(* and the token goes first.                                               *)
ToldIsKnown(ob, stored) ==
  \A j \in 1 .. Len(ob) :
    /\ ob[j].type = "ready" => ob[j].value \subseteq stored
    /\ ob[j].type = "tentacle.created" => ob[j].id \in stored

LEMMA ToldGrows ==
  ASSUME NEW ob \in Seq(Frames), NEW stored, NEW more, stored \subseteq more,
         ToldIsKnown(ob, stored)
  PROVE  /\ ToldIsKnown(ob, more)
         /\ ob # <<>> => ToldIsKnown(Tail(ob), more)
         /\ \A g : /\ g.type = "ready" => g.value \subseteq more
                   /\ g.type = "tentacle.created" => g.id \in more
                   => ToldIsKnown(Append(ob, g), more)
<1>1. ToldIsKnown(ob, more)
  BY SMT DEF ToldIsKnown
<1>2. ASSUME ob # <<>> PROVE ToldIsKnown(Tail(ob), more)
  <2> DEFINE t == Tail(ob)
  <2>1. Len(ob) \in Nat \ {0} /\ Len(t) = Len(ob) - 1 /\ \A i \in 1 .. Len(t) : t[i] = ob[i + 1]
    BY <1>2, SMT
  <2> HIDE DEF t
  <2>2. ToldIsKnown(t, more)
    BY <1>1, <2>1, SMT DEF ToldIsKnown
  <2> QED
    BY <2>2 DEF t
<1>3. ASSUME NEW g, g.type = "ready" => g.value \subseteq more,
             g.type = "tentacle.created" => g.id \in more
      PROVE  ToldIsKnown(Append(ob, g), more)
  <2> DEFINE o == Append(ob, g)
  <2>1. /\ Len(o) = Len(ob) + 1 /\ o[Len(ob) + 1] = g /\ Len(ob) \in Nat
        /\ \A j \in 1 .. Len(ob) : o[j] = ob[j]
    BY SMT
  <2> HIDE DEF o
  <2>2. ToldIsKnown(o, more)
    BY <1>1, <1>3, <2>1, SMT DEF ToldIsKnown
  <2> QED
    BY <2>2 DEF o
<1> QED
  BY <1>1, <1>2, <1>3, Zenon

LEMMA KnownNext == UiTypeOK /\ KnownInv /\ [Next]_vars => KnownInv'
<1> SUFFICES ASSUME UiTypeOK, KnownInv, [Next]_vars PROVE KnownInv'
  OBVIOUS
<1> DEFINE Shown == shownList' \subseteq list'
           Token == linked' /\ conn' = "open" => authed' \/ (inbox' # <<>> /\ inbox'[1].type = "auth")
<1>1. Shown /\ ToldIsKnown(outbox', list') /\ Token => KnownInv'
  BY Zenon DEF KnownInv, ToldIsKnown
<1>2. ToldIsKnown(outbox, list) /\ outbox \in Seq(Frames)
  BY Zenon DEF KnownInv, ToldIsKnown, UiTypeOK
<1>3. UNCHANGED <<outbox, list>> => ToldIsKnown(outbox', list')
  BY <1>2, Zenon
<1>4. ToldIsKnown(<<>>, list)
  BY SMT DEF ToldIsKnown
<1>5. UNCHANGED <<shownList, list>> => Shown
  BY Zenon DEF KnownInv
<1>6. UNCHANGED <<linked, conn, authed, inbox>> => Token
  BY SMT DEF KnownInv
<1>7. ASSUME NEW S, NEW s \in Seq(S), Send(s), UNCHANGED <<linked, conn, authed>>
      PROVE  Token
  <2>1. inbox # <<>> => (inbox \o s) # <<>> /\ (inbox \o s)[1] = inbox[1]
    <3>1. Len(inbox) \in Nat /\ Len(s) \in Nat /\ Len(inbox \o s) = Len(inbox) + Len(s)
      BY SMT DEF UiTypeOK
    <3>2. inbox # <<>> => Len(inbox) # 0
      BY SMT DEF UiTypeOK
    <3> QED
      BY <3>1, <3>2, SMT DEF UiTypeOK
  <2> QED
    BY <1>7, <2>1, SMT DEF Send, KnownInv
<1>8. ASSUME NEW id, SelectAndFetch(id), UNCHANGED <<linked, conn, authed>>
       PROVE  Token
  <2> DEFINE g == Frame("tentacle.context", id, Nothing)
             h == Frame("tentacle.todos", id, Nothing)
  <2>1. <<g, h>> \in Seq({g, h})
    BY SMT
  <2> QED
    BY <2>1, <1>8, <1>7, Zenon DEF SelectAndFetch
<1>9. ASSUME NEW g, Send(<<g>>), UNCHANGED <<linked, conn, authed>>
       PROVE  Token
  <2>1. <<g>> \in Seq({g})
    BY SMT
  <2> QED
    BY <2>1, <1>9, <1>7, Zenon
<1>10. CASE ReadFrame /\ Still
  <2> DEFINE f == Head(inbox)
  <2>1. /\ inbox # <<>> /\ conn = "open" /\ UNCHANGED <<linked, shownList>>
        /\ f = inbox[1] /\ f \in Frames
    BY <1>10, SMT DEF ReadFrame, Still, page, view, UiTypeOK
  <2>2. CASE Break
    <3>1. Signal("close").type = "close"
      BY DEF Signal, Frame
    <3>2. conn' # "open" /\ list' = list
      BY <2>2, SMT DEF Break, files
    <3>3. ToldIsKnown(outbox', list')
      BY <2>2, <3>1, <3>2, <1>2, ToldGrows, Zenon DEF Break
    <3> QED
      BY <3>2, <3>3, <2>1, <1>1, <1>5, Zenon
  <2>3. CASE Drop(f) /\ UNCHANGED conn
    <3>1. authed \/ ~linked
      BY <2>1, <2>3, SMT DEF KnownInv, Drop, Refused
    <3> QED
      BY <3>1, <2>1, <2>3, <1>1, <1>3, <1>5, Zenon DEF Drop, files
  <2>4. CASE Authenticate(f)
    <3>1. Ready.type = "ready" /\ Ready.value = list
      BY DEF Ready, Frame
    <3>2. ToldIsKnown(outbox', list')
      BY <3>1, <2>4, <1>2, ToldGrows, SMT DEF Authenticate, files
    <3> QED
      BY <3>2, <2>1, <2>4, <1>1, <1>5, Zenon DEF Authenticate, files
  <2>5. CASE authed /\ Dispatch(f, TRUE) /\ UNCHANGED authed
    <3>1. list \subseteq list'
      BY <2>1, <2>5, DispatchStores, Zenon
    <3>2. Shown
      BY <3>1, <2>1, SMT DEF KnownInv
    <3>3. \/ outbox' = outbox
          \/ \E g \in Frames : /\ outbox' = Append(outbox, g) /\ g.type # "ready"
                               /\ g.type = "tentacle.created" => g.id \in list'
      BY <2>1, <2>5, DispatchTells, Zenon DEF Answers
    <3>4. ToldIsKnown(outbox', list')
      <4>1. CASE outbox' = outbox
        BY <4>1, <3>1, <1>2, ToldGrows, Zenon
      <4>2. ASSUME NEW g, outbox' = Append(outbox, g), g.type # "ready",
                   g.type = "tentacle.created" => g.id \in list'
            PROVE  ToldIsKnown(outbox', list')
        BY <4>2, <3>1, <1>2, ToldGrows, Zenon
      <4> QED
        BY <3>3, <4>1, <4>2, Zenon
    <3> QED
      BY <3>4, <3>2, <2>1, <2>5, <1>1, Zenon
  <2> QED
    BY <1>10, <2>2, <2>3, <2>4, <2>5, Zenon DEF ReadFrame
<1>20. ASSUME NEW k \in Lost, ReadOldFrame(k), Still PROVE KnownInv'
  <2>1. UNCHANGED <<linked, conn, authed, inbox, shownList>>
    BY <1>20, Zenon DEF ReadOldFrame, Still, page, view, session
  <2>2. Head(old[k]) \in Frames
    BY <1>20, SMT DEF ReadOldFrame, UiTypeOK
  <2>3. list \subseteq list' /\ outbox' = outbox
    BY <1>20, <2>2, DispatchStores, DispatchTells, Zenon DEF ReadOldFrame, files
  <2>4. ToldIsKnown(outbox', list')
    BY <2>3, <1>2, ToldGrows, Zenon
  <2>5. Shown
    BY <2>1, <2>3, SMT DEF KnownInv
  <2> QED
    BY <2>1, <2>4, <2>5, <1>1, <1>6, Zenon
<1>11. CASE EndSession /\ Still
  BY <1>11, <1>1, <1>3, <1>5, SMT DEF EndSession, Still, view, store, files
<1>12. CASE Refill /\ Still
  BY <1>12, <1>1, <1>3, <1>5, <1>6, Zenon DEF Refill, Still, view, page, store, files
<1>13. CASE SessionExpires \/ LateAuthentication
  BY <1>13, <1>1, <1>3, <1>5, <1>6, Zenon
     DEF SessionExpires, LateAuthentication, Expire, DeadlinePasses, view, page, store, files
<1>14. CASE Open
  <2>1. inbox' # <<>> /\ inbox'[1].type = "auth"
    BY <1>14, SMT DEF Open, Signal, Frame
  <2> QED
    BY <1>14, <2>1, <1>1, <1>4, <1>5, Zenon DEF Open, store, files
<1>15. CASE RefusedByServer \/ ClosedByServer
  BY <1>15, <1>1, <1>3, <1>5, Zenon DEF RefusedByServer, ClosedByServer, OnClose, server, store, files, view
<1>16. CASE TimerFires \/ UNCHANGED vars
  BY <1>16, <1>1, <1>3, <1>5, <1>6, Zenon DEF TimerFires, server, session, store, files, view, page, vars
<1>17. CASE ConnectionLost \/ Restart
  BY <1>17, <1>1, <1>4, <1>5, Zenon DEF ConnectionLost, Restart, ConnectionEnds, OnClose, files, view
<1>18. CASE Receive
  <2> DEFINE f == Head(outbox)
  <2>1. /\ outbox # <<>> /\ outbox' = Tail(outbox) /\ Show(f)
        /\ UNCHANGED <<list, linked, conn, authed>>
    BY <1>18, Zenon DEF Receive, store, files, session
  <2>2. f = outbox[1] /\ 1 \in 1 .. Len(outbox)
    BY <2>1, SMT DEF UiTypeOK
  <2>3. ToldIsKnown(outbox', list')
    BY <2>1, <1>2, ToldGrows, Zenon
  <2>4. Shown
    BY <2>1, <2>2, SMT DEF Show, view, KnownInv
  <2>5. inbox' = inbox \/ SelectAndFetch(f.id)
    BY <2>1, Zenon DEF Show
  <2> QED
    BY <2>1, <2>3, <2>4, <2>5, <1>1, <1>6, <1>8, Zenon
<1>19. CASE User
  <2>1. UNCHANGED <<outbox, list, shownList, linked, conn, authed>>
    BY <1>19, Zenon
       DEF User, Select, CreateNew, Type, Save, CheckBox, Change, session, store, files, page, view, server
  <2>2. Token
    BY <2>1, <1>19, <1>6, <1>8, <1>9, Zenon
       DEF User, Select, CreateNew, Type, Save, CheckBox, Change, server
  <2> QED
    BY <2>1, <2>2, <1>1, <1>3, <1>5, Zenon
<1> QED
  BY <1>10, <1>11, <1>12, <1>13, <1>14, <1>15, <1>16, <1>17, <1>18, <1>19, <1>20, Zenon DEF Next, ServerStep

-----------------------------------------------------------------------------
LEMMA SettlingInit == Init => SettlingInv
BY SMT DEF Init, ServerInit, SettlingInv

(* Of a part that does not change, nothing is asked by the frame that is   *)
(* read, and nothing told: what is pending stays so.                       *)
LEMMA Kept ==
  ASSUME NEW ib \in Seq(Frames), NEW ob \in Seq(Frames), NEW ib2, NEW ob2,
         NEW id, NEW types, NEW type, NEW stored, NEW g,
         ib2 = ib \/ (ib # <<>> /\ ib2 = Tail(ib) /\ ~(Head(ib).type \in types /\ Head(ib).id = id)),
         ob2 = ob \/ (ob2 = Append(ob, g) /\ ~Tells(g, id, type))
  PROVE  /\ Pending(ib, ob, id, types, type, stored) => Pending(ib2, ob2, id, types, type, stored)
         /\ Quiet(ob, id, type) => Quiet(ob2, id, type)
<1>1. Pending(ib, ob, id, types, type, stored) => Pending(ib2, ob, id, types, type, stored)
  BY OtherRead, Zenon
<1> QED
  BY <1>1, OtherAnswer, Zenon

(* The history of what is changed and not told.                            *)
LEMMA Noted ==
  ASSUME UiTypeOK, fetched, Note, NEW g,
         NEW part \in {"tentacle.todos", "tentacle.context"},
         outbox' = outbox \/ (outbox' = Append(outbox, g) /\ ~Tells(g, active, part))
  PROVE  /\ part \in untold => part \in untold'
         /\ part = "tentacle.todos" /\ done'[active] # done[active] => part \in untold'
         /\ part = "tentacle.context" /\ context'[active] # context[active] => part \in untold'
<1>1. part \notin ToldParts
  <2>1. CASE outbox' = outbox
    BY <2>1, SMT DEF ToldParts, UiTypeOK
  <2>2. CASE outbox' = Append(outbox, g) /\ ~Tells(g, active, part)
    <3>1. Len(outbox') = Len(outbox) + 1 /\ outbox'[Len(outbox')] = g
      BY <2>2, SMT DEF UiTypeOK
    <3> QED
      BY <2>2, <3>1, SMT DEF ToldParts, Tells
  <2> QED
    BY <2>1, <2>2
<1> QED
  BY <1>1, SMT DEF Note, ChangedParts

(* The server reads a frame: what it is asked of the selection it answers, *)
(* and what it changes of it, it tells, or it is noted.                    *)
LEMMA TodoStep ==
  ASSUME UiTypeOK, fetched, Note, TodoSettles, UNCHANGED <<active, todos>>, NEW g,
         \/ outbox' = outbox
         \/ /\ outbox' = Append(outbox, g)
            /\ Tells(g, active, "tentacle.todos") => g.value = done'[active],
         \/ inbox' = inbox
         \/ /\ inbox # <<>> /\ inbox' = Tail(inbox)
            /\ Head(inbox).type \in TodoTypes /\ Head(inbox).id = active =>
                 outbox' = Append(outbox, g) /\ Tells(g, active, "tentacle.todos")
  PROVE  TodoSettles'
<1>1. inbox \in Seq(Frames) /\ outbox \in Seq(Frames)
  BY DEF UiTypeOK
<1>2. CASE /\ outbox' = Append(outbox, g) /\ Tells(g, active, "tentacle.todos")
           /\ g.value = done'[active]
  <2>1. Pending(inbox', outbox', active, TodoTypes, "tentacle.todos", done'[active])
    BY <1>1, <1>2, AnswerSettles, Zenon
  <2> QED
    BY <2>1, Zenon DEF TodoSettles
<1>3. CASE outbox' = outbox \/ (outbox' = Append(outbox, g) /\ ~Tells(g, active, "tentacle.todos"))
  <2> DEFINE part == "tentacle.todos"
  <2>1. CASE part \in untold \/ done'[active] # done[active]
    <3>1. part \in untold'
      BY <1>3, <2>1, Noted, Zenon
    <3> QED
      BY <3>1, Zenon DEF TodoSettles
  <2>2. CASE part \notin untold /\ done'[active] = done[active]
    <3>1. /\ Pending(inbox, outbox, active, TodoTypes, part, done[active]) =>
                Pending(inbox', outbox', active, TodoTypes, part, done[active])
          /\ Quiet(outbox, active, part) => Quiet(outbox', active, part)
      <4>1. CASE inbox' = inbox
        BY <1>1, <1>3, <4>1, Kept, Zenon
      <4>2. CASE /\ inbox # <<>> /\ inbox' = Tail(inbox)
                 /\ ~(Head(inbox).type \in TodoTypes /\ Head(inbox).id = active)
        BY <1>1, <1>3, <4>2, Kept, Zenon
      <4>3. CASE outbox' = Append(outbox, g) /\ Tells(g, active, part)
        <5>1. outbox' # outbox
          BY <1>1, <4>3, SMT
        <5> QED
          BY <1>3, <4>3, <5>1
      <4> QED
        BY <4>1, <4>2, <4>3, Zenon
    <3> QED
      BY <2>2, <3>1, Zenon DEF TodoSettles
  <2> QED
    BY <2>1, <2>2, Zenon
<1> QED
  BY <1>2, <1>3, Zenon

LEMMA ContextStep ==
  ASSUME UiTypeOK, fetched, Note, ContextSettles, UNCHANGED <<active, body, typed>>, NEW g,
         \/ outbox' = outbox
         \/ /\ outbox' = Append(outbox, g)
            /\ Tells(g, active, "tentacle.context") => g.value = context'[active],
         \/ inbox' = inbox
         \/ /\ inbox # <<>> /\ inbox' = Tail(inbox)
            /\ Head(inbox).type \in ContextTypes /\ Head(inbox).id = active =>
                 outbox' = Append(outbox, g) /\ Tells(g, active, "tentacle.context")
  PROVE  ContextSettles'
<1>1. inbox \in Seq(Frames) /\ outbox \in Seq(Frames)
  BY DEF UiTypeOK
<1>2. CASE /\ outbox' = Append(outbox, g) /\ Tells(g, active, "tentacle.context")
           /\ g.value = context'[active]
  <2>1. Pending(inbox', outbox', active, ContextTypes, "tentacle.context", context'[active])
    BY <1>1, <1>2, AnswerSettles, Zenon
  <2> QED
    BY <2>1, Zenon DEF ContextSettles
<1>3. CASE outbox' = outbox \/ (outbox' = Append(outbox, g) /\ ~Tells(g, active, "tentacle.context"))
  <2> DEFINE part == "tentacle.context"
  <2>1. CASE part \in untold \/ context'[active] # context[active]
    <3>1. part \in untold'
      BY <1>3, <2>1, Noted, Zenon
    <3> QED
      BY <3>1, Zenon DEF ContextSettles
  <2>2. CASE part \notin untold /\ context'[active] = context[active]
    <3>1. /\ Pending(inbox, outbox, active, ContextTypes, part, context[active]) =>
                Pending(inbox', outbox', active, ContextTypes, part, context[active])
          /\ Quiet(outbox, active, part) => Quiet(outbox', active, part)
      <4>1. CASE inbox' = inbox
        BY <1>1, <1>3, <4>1, Kept, Zenon
      <4>2. CASE /\ inbox # <<>> /\ inbox' = Tail(inbox)
                 /\ ~(Head(inbox).type \in ContextTypes /\ Head(inbox).id = active)
        BY <1>1, <1>3, <4>2, Kept, Zenon
      <4>3. CASE outbox' = Append(outbox, g) /\ Tells(g, active, part)
        <5>1. outbox' # outbox
          BY <1>1, <4>3, SMT
        <5> QED
          BY <1>3, <4>3, <5>1
      <4> QED
        BY <4>1, <4>2, <4>3, Zenon
    <3> QED
      BY <2>2, <3>1, Zenon DEF ContextSettles
  <2> QED
    BY <2>1, <2>2, Zenon
<1> QED
  BY <1>2, <1>3, Zenon

(* The page receives a frame: an answer for the selection is shown.        *)
LEMMA ReceiveSettles ==
  ASSUME UiTypeOK, TodoSettles, ContextSettles,
         outbox # <<>>, outbox' = Tail(outbox), Head(outbox).type # "tentacle.created",
         Show(Head(outbox)), UNCHANGED store
  PROVE  TodoSettles' /\ ContextSettles'
<1> DEFINE f == Head(outbox)
           right == typed \/ body = context[active]
<1>1. outbox \in Seq(Frames)
  BY DEF UiTypeOK
<1>2. UNCHANGED <<inbox, active, done, context, untold>>
  BY Zenon DEF Show, store, files, view, asked
<1>3. \/ "tentacle.todos" \in untold
      \/ Pending(inbox, outbox', active, TodoTypes, "tentacle.todos", done[active])
      \/ /\ Quiet(outbox', active, "tentacle.todos")
         /\ IF Tells(f, active, "tentacle.todos") THEN f.value = done[active]
                                                  ELSE todos = done[active]
  BY <1>1, Receiving, Zenon DEF TodoSettles
<1>4. todos' = IF Tells(f, active, "tentacle.todos") THEN f.value ELSE todos
  BY SMT DEF Show, Tells, view
<1>5. TodoSettles'
  BY <1>2, <1>3, <1>4, Zenon DEF TodoSettles
<1>6. \/ "tentacle.context" \in untold
      \/ Pending(inbox, outbox', active, ContextTypes, "tentacle.context", context[active])
      \/ /\ Quiet(outbox', active, "tentacle.context")
         /\ IF Tells(f, active, "tentacle.context") THEN f.value = context[active] ELSE right
  BY <1>1, Receiving, Zenon DEF ContextSettles
<1>7. IF Tells(f, active, "tentacle.context") THEN body' = f.value ELSE UNCHANGED <<body, typed>>
  BY SMT DEF Show, Tells, view
<1>8. ContextSettles'
  BY <1>2, <1>6, <1>7, Zenon DEF ContextSettles
<1> QED
  BY <1>5, <1>8

LEMMA SettlingNext == WayBackInv /\ UiTypeOK /\ KnownInv /\ SettlingInv /\ [Next]_vars => SettlingInv'
<1> SUFFICES ASSUME WayBackInv, UiTypeOK, KnownInv, SettlingInv, [Next]_vars PROVE SettlingInv'
  OBVIOUS
<1>1. ~linked' \/ ~fetched' \/ conn' # "open" => SettlingInv'
  BY Zenon DEF SettlingInv
<1>2. ASSUME UNCHANGED <<linked, conn, inbox, outbox, store, view, asked>> PROVE SettlingInv'
  BY <1>2, Zenon DEF SettlingInv, TodoSettles, ContextSettles, store, files, view, asked
<1>3. inbox \in Seq(Frames) /\ outbox \in Seq(Frames)
  BY DEF UiTypeOK
(* What asks anew for what it selects.                                     *)
<1>4. ASSUME NEW id \in list, SelectAndFetch(id), UNCHANGED <<linked, list>> PROVE SettlingInv'
  <2> DEFINE g == Frame("tentacle.context", id, Nothing)
             h == Frame("tentacle.todos", id, Nothing)
             more == <<g, h>>
  <2>1. /\ Len(more) = 2 /\ more[1].type = "tentacle.context" /\ more[1].id = id
        /\ more[2].type = "tentacle.todos" /\ more[2].id = id
        /\ more \in Seq({g, h})
    BY SMT DEF Frame
  <2>2. active' = id /\ (linked => inbox' = inbox \o more)
    BY <1>4, Zenon DEF SelectAndFetch, Send
  <2> HIDE DEF more, g, h
  <2>3. Asked(more, id, ContextTypes) /\ Asked(more, id, TodoTypes)
    BY <2>1, SMT DEF Asked, ContextTypes, TodoTypes
  <2>4. linked => Asked(inbox', id, ContextTypes) /\ Asked(inbox', id, TodoTypes)
    BY <2>1, <2>2, <2>3, <1>3, Sending, Zenon
  <2> QED
    BY <1>4, <2>2, <2>4, Zenon DEF SettlingInv, TodoSettles, ContextSettles, Pending
(* What only adds to what is asked.                                        *)
<1>5. ASSUME NEW g, Send(<<g>>), UNCHANGED <<linked, conn, outbox, store, view, asked>> PROVE SettlingInv'
  <2>1. <<g>> \in Seq({g})
    BY SMT
  <2>2. linked => \A types : Asked(inbox, active, types) => Asked(inbox', active, types)
    BY <1>5, <2>1, <1>3, Sending, Zenon DEF Send
  <2> QED
    BY <1>5, <2>2, Zenon DEF SettlingInv, TodoSettles, ContextSettles, Pending, store, files, view, asked
<1>6. CASE ReadFrame /\ Still /\ Note
  <2> DEFINE f == Head(inbox)
  <2>1. /\ inbox # <<>> /\ conn = "open"
        /\ UNCHANGED <<linked, active, todos, body, typed, fetched>>
        /\ f = inbox[1] /\ f \in Frames
    BY <1>6, <1>3, SMT DEF ReadFrame, Still, page, view
  <2>2. CASE Break
    BY <2>2, <1>1, SMT DEF Break
  <2>3. SUFFICES ASSUME inbox' = Tail(inbox),
                        Drop(f) \/ Authenticate(f) \/ (authed /\ Dispatch(f, TRUE)),
                        linked, fetched
                 PROVE  SettlingInv'
    <3>1. ~linked \/ ~fetched => SettlingInv'
      BY <1>1, <2>1, Zenon
    <3>2. \/ Break
          \/ inbox' = Tail(inbox) /\ (Drop(f) \/ Authenticate(f) \/ (authed /\ Dispatch(f, TRUE)))
      BY <1>6, Zenon DEF ReadFrame
    <3> QED
      BY <3>1, <3>2, <2>2, Zenon
  <2>4. active \in list /\ TodoSettles /\ ContextSettles
    BY <2>1, <2>3, Zenon DEF SettlingInv
  <2>5. CASE Drop(f)
    <3>1. f.type \in {"tentacle.create", "tentacle.writeContext"}
      BY <2>1, <2>3, <2>5, SMT DEF Drop, Refused, KnownInv
    <3>2. f.type \notin TodoTypes /\ f.type \notin ContextTypes
      BY <3>1, SMT DEF TodoTypes, ContextTypes
    <3>3. outbox' = outbox /\ active' \in list'
      BY <2>1, <2>4, <2>5, Zenon DEF Drop, files
    <3>4. TodoSettles' /\ ContextSettles'
      BY <1>6, <2>1, <2>3, <2>4, <3>2, <3>3, TodoStep, ContextStep, Zenon
    <3> QED
      BY <3>3, <3>4, Zenon DEF SettlingInv
  <2>6. CASE Authenticate(f)
    <3>1. ~Tells(Ready, active, "tentacle.todos") /\ ~Tells(Ready, active, "tentacle.context")
      BY SMT DEF Tells, Ready, Frame
    <3>2. f.type \notin TodoTypes /\ f.type \notin ContextTypes
      BY <2>6, SMT DEF Authenticate, TodoTypes, ContextTypes
    <3>3. outbox' = Append(outbox, Ready) /\ active' \in list'
      BY <2>1, <2>4, <2>6, Zenon DEF Authenticate, files
    <3>4. TodoSettles' /\ ContextSettles'
      BY <1>6, <2>1, <2>3, <2>4, <3>1, <3>2, <3>3, TodoStep, ContextStep, Zenon
    <3> QED
      BY <3>3, <3>4, Zenon DEF SettlingInv
  <2>7. CASE Dispatch(f, TRUE)
    <3>1. active' \in list'
      BY <2>1, <2>4, <2>7, DispatchStores, Zenon
    <3>2. CASE outbox' = outbox /\ f.type \notin TodoTypes \cup ContextTypes
      <4>1. TodoSettles' /\ ContextSettles'
        BY <1>6, <2>1, <2>3, <2>4, <3>2, TodoStep, ContextStep, Zenon
      <4> QED
        BY <3>1, <4>1, Zenon DEF SettlingInv
    <3>3. ASSUME NEW g \in Frames, Answers(f, g), outbox' = Append(outbox, g)
          PROVE  SettlingInv'
      <4>1. /\ Tells(g, active, "tentacle.todos") => g.value = done'[active]
            /\ Tells(g, active, "tentacle.context") => g.value = context'[active]
        BY <2>4, <3>3, Zenon DEF Answers, Tells
      <4>2. /\ f.type \in TodoTypes /\ f.id = active => Tells(g, active, "tentacle.todos")
            /\ f.type \in ContextTypes /\ f.id = active => Tells(g, active, "tentacle.context")
        BY <3>3, Zenon DEF Answers
      <4>3. TodoSettles'
        BY <1>6, <2>1, <2>3, <2>4, <3>3, <4>1, <4>2, TodoStep, Zenon
      <4>4. ContextSettles'
        BY <1>6, <2>1, <2>3, <2>4, <3>3, <4>1, <4>2, ContextStep, Zenon
      <4> QED
        BY <3>1, <4>3, <4>4, Zenon DEF SettlingInv
    <3> QED
      BY <2>1, <2>7, <3>2, <3>3, DispatchTells, Zenon
  <2> QED
    BY <2>3, <2>5, <2>6, <2>7
<1>13. ASSUME NEW k \in Lost, ReadOldFrame(k), Still, Note PROVE SettlingInv'
  <2>1. UNCHANGED <<inbox, conn, linked, active, todos, body, typed, fetched>>
    BY <1>13, Zenon DEF ReadOldFrame, Still, page, view, session
  <2>2. Head(old[k]) \in Frames
    BY <1>13, SMT DEF ReadOldFrame, UiTypeOK
  <2>3. list \subseteq list' /\ outbox' = outbox
    BY <1>13, <2>2, DispatchStores, DispatchTells, Zenon DEF ReadOldFrame, files
  <2>4. SUFFICES ASSUME linked, conn = "open", fetched PROVE SettlingInv'
    BY <1>1, <2>1, Zenon
  <2>5. active \in list /\ TodoSettles /\ ContextSettles
    BY <2>4, Zenon DEF SettlingInv
  <2>6. TodoSettles' /\ ContextSettles'
    BY <1>13, <2>1, <2>3, <2>4, <2>5, TodoStep, ContextStep, Zenon
  <2> QED
    BY <2>1, <2>3, <2>5, <2>6, Zenon DEF SettlingInv
<1>7. CASE EndSession /\ Still
  BY <1>7, <1>1, SMT DEF EndSession
<1>8. CASE (Refill /\ Still /\ UNCHANGED untold) \/ SessionExpires \/ LateAuthentication
  BY <1>8, <1>2, Zenon DEF Refill, SessionExpires, LateAuthentication, Expire, DeadlinePasses, Still, page, asked
<1>9. CASE RefusedByServer \/ ClosedByServer \/ ConnectionLost \/ Restart
  BY <1>9, <1>1, Zenon DEF RefusedByServer, ClosedByServer, ConnectionLost, Restart, ConnectionEnds, OnClose
<1>14. CASE Open
  <2>1. fetched' = fetched /\ ~linked
    BY <1>14, Zenon DEF Open, asked
  <2>2. ~fetched
    BY <2>1 DEF WayBackInv
  <2> QED
    BY <2>1, <2>2, <1>1
<1>10. CASE TimerFires \/ UNCHANGED vars
  BY <1>10, <1>2, Zenon DEF TimerFires, vars, server, session, page
<1>11. CASE Receive
  <2> DEFINE f == Head(outbox)
  <2>1. /\ outbox # <<>> /\ outbox' = Tail(outbox) /\ Show(f)
        /\ UNCHANGED <<linked, conn, list, store>>
    BY <1>11, Zenon DEF Receive, session, store, files
  <2>2. CASE f.type = "tentacle.created"
    <3>1. f.id \in list
      BY <2>1, <2>2, <1>3, SMT DEF KnownInv
    <3>2. SelectAndFetch(f.id)
      BY <2>1, <2>2, SMT DEF Show
    <3> QED
      BY <2>1, <3>1, <3>2, <1>4, Zenon
  <2>3. CASE f.type # "tentacle.created"
    <3>1. UNCHANGED <<active, fetched>>
      BY <2>1, <2>3, Zenon DEF Show, view, asked
    <3> QED
      BY <2>1, <2>3, <3>1, ReceiveSettles, Zenon DEF SettlingInv
  <2> QED
    BY <2>2, <2>3
<1>12. CASE User
  <2>1. ASSUME NEW id \in Ids, Select(id) PROVE SettlingInv'
    <3>1. id \in list
      BY <2>1, SMT DEF Select, KnownInv
    <3> QED
      BY <2>1, <3>1, <1>4, Zenon DEF Select, page, store, files
  <2>2. CASE Type
    BY <2>2, Zenon DEF Type, server, session, store, files, page, asked, SettlingInv, TodoSettles, ContextSettles
  <2>3. CASE Save \/ CheckBox \/ \E id \in Ids : CreateNew(id)
    BY <2>3, <1>5, Zenon DEF Save, CheckBox, CreateNew, Change, session, page, view
  <2> QED
    BY <1>12, <2>1, <2>2, <2>3, Zenon DEF User
<1> QED
  BY <1>6, <1>7, <1>8, <1>9, <1>10, <1>11, <1>12, <1>13, <1>14, Zenon DEF Next, ServerStep

(* server.rs 497-1041, app.rs: once all that was sent has been answered,   *)
(* the page shows of its selection what the server has stored, for any     *)
(* number of tentacles, edits and clicks, and however often the connection *)
(* was lost before the page asked.                                         *)
THEOREM ViewSettles == SafetySpec => []SettledViewIsStored
<1>1. UiTypeOK /\ SettlingInv => SettledViewIsStored
  <2>1. inbox = <<>> /\ outbox = <<>> => Len(inbox) = 0 /\ Len(outbox) = 0
    BY SMT
  <2> QED
    BY <2>1, SMT DEF SettlingInv, SettledViewIsStored, TodoSettles, ContextSettles,
                     Pending, Asked, Coming, LastTells
<1> QED
  BY WayBackInit, WayBackNext, UiTypeInit, UiTypeNext, KnownInit, KnownNext, SettlingInit, SettlingNext, <1>1, PTL
     DEF SafetySpec
=============================================================================
