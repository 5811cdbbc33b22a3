------------------------------- MODULE DeckUi --------------------------------
(***************************************************************************)
(* The deck's page (crates/web/src/ws.rs, app.rs) on its connection to the *)
(* server (Session).  The page reconnects by a timer each time its socket  *)
(* closes, shows the tentacles, the context and the todo of the one that   *)
(* is selected, and sends what its user does, if the socket is open.  The  *)
(* network may drop the connection and the server may be restarted with    *)
(* another token.  What is modelled of the todo list is the signal its     *)
(* rows are made from; the rows themselves, which are told apart by their  *)
(* line and keep the fields they were made with, are not, nor are terminal *)
(* tabs.                                                                   *)
(***************************************************************************)
EXTENDS Session

CONSTANTS
  Draft,        \* a text the user types
  MaxFrames,    \* bound: frames under way when the user acts
  MaxChanges,   \* bound: requests of the user to change the store
  MaxFaults     \* bound: of those below that the environment makes

VARIABLES
  state,        \* the ConnState shown in the banner
  sockets,      \* sockets of the page that are not closed
  timers,       \* timers that will call connect
  linked,       \* the socket is open
  shownList,    \* the tentacles in the left rail
  active,       \* the one selected
  todos,        \* the todos signal: the box of the selection, Nothing for no row
  body,         \* the text in the context editor
  typed,        \* history: the user has typed since it came
  fetched,      \* history: the selection has been asked for, on this connection
  untold,       \* history: what of it has changed since, without an answer that says so
  changes, faults

page == <<state, sockets, timers, linked>>
view == <<shownList, active, todos, body, typed>>
asked == <<fetched, untold>>
counts == <<changes, faults>>
vars == <<server, page, view, asked, counts>>

Init ==
  /\ ServerInit
  /\ state = "connecting" /\ sockets = 1 /\ timers = 0 /\ linked = FALSE
  /\ shownList = {} /\ active = Nothing /\ todos = Nothing
  /\ body = Nothing /\ typed = FALSE
  /\ fetched = FALSE /\ untold = {} /\ changes = 0 /\ faults = 0

Fault == faults < MaxFaults /\ faults' = faults + 1 /\ UNCHANGED changes

-----------------------------------------------------------------------------
(* connect and its callbacks.                                              *)

(* Mutant: a page that was let in once does not send the token again.      *)
Open_tokenOnce ==
  /\ sockets > 0 /\ ~linked
  /\ Upgrade
  /\ linked' = TRUE
  /\ inbox' = IF shownList = {} THEN <<Signal("auth")>> ELSE <<>>
  /\ outbox' = <<>>
  /\ UNCHANGED <<expired, goodToken, store, state, sockets, timers, shownList, active,
                 todos, body, typed, asked, counts>>

(* on_open: the server has taken the connection, and the token is sent.    *)
(* Sessions of lost connections may still be reading, and that of a closed *)
(* one cleaning up.                                                        *)
Open ==
  /\ sockets > 0 /\ ~linked
  /\ Upgrade
  /\ linked' = TRUE
  /\ inbox' = <<Signal("auth")>> /\ outbox' = <<>>
  /\ UNCHANGED <<expired, goodToken, store, state, sockets, timers, shownList, active,
                 todos, body, typed, asked, counts>>

(* Mutant: the error of a socket that does not open is followed by a timer *)
(* of its own.                                                             *)
OnClose_andOnError ==
  /\ sockets' = sockets - 1 /\ linked' = FALSE
  /\ state' = "reconnecting" /\ fetched' = FALSE /\ untold' = {}
  /\ timers' = timers + IF linked THEN 1 ELSE 2

(* on_close, and schedule_reconnect; the delay, 250 ms doubled up to 8 s,  *)
(* is left out.                                                            *)
OnClose ==
  /\ sockets' = sockets - 1 /\ linked' = FALSE
  /\ state' = "reconnecting" /\ fetched' = FALSE /\ untold' = {}
  /\ timers' = timers + 1

(* An expired session refuses the upgrade.                                 *)
RefusedByServer ==
  /\ sockets > 0 /\ ~linked /\ expired
  /\ OnClose
  /\ UNCHANGED <<server, view, counts>>

ClosedByServer ==
  /\ linked /\ conn \in {"closing", "closed"} /\ outbox = <<>>
  /\ OnClose
  /\ UNCHANGED <<server, view, counts>>

(* connect once more; a WebSocket that cannot be made is a fault.          *)
TimerFires ==
  /\ timers > 0
  /\ \/ timers' = timers - 1 /\ sockets' = sockets + 1 /\ state' = "connecting" /\ UNCHANGED counts
     \/ Fault /\ state' = "reconnecting" /\ UNCHANGED <<timers, sockets>>
  /\ UNCHANGED <<server, linked, view, asked>>

(* Faults of the environment.  A lost connection takes a suffix of what is *)
(* under way with it; the server's session reads the rest, which starts    *)
(* with the token if that has not been read, before it sees the end.  A    *)
(* server started anew has a new token.                                    *)
ConnectionEnds ==
  /\ OnClose
  /\ conn' = "none" /\ authed' = FALSE /\ late' = FALSE /\ tokens' = Burst
  /\ inbox' = <<>> /\ outbox' = <<>>

ConnectionLost ==
  /\ linked /\ Fault
  /\ ConnectionEnds
  /\ \E k \in Lost, n \in 0..Len(inbox) :
       /\ old[k] = <<>>
       /\ old' = [old EXCEPT ![k] = IF conn = "open" /\ (authed \/ goodToken)
                                    THEN SubSeq(inbox, 1, n) ELSE <<>>]
  /\ UNCHANGED <<expired, goodToken, files, view>>

Restart ==
  /\ linked /\ Fault
  /\ ConnectionEnds
  /\ old' = [k \in Lost |-> <<>>]
  /\ expired' = FALSE /\ goodToken' = FALSE
  /\ UNCHANGED <<files, view>>

SessionExpires == Fault /\ Expire /\ UNCHANGED <<page, view, asked>>

LateAuthentication == Fault /\ DeadlinePasses /\ UNCHANGED <<page, view, asked>>

-----------------------------------------------------------------------------
(* send: a frame is dropped if the socket is not open.                     *)
Send(frames) == inbox' = IF linked THEN inbox \o frames ELSE inbox

Room == Len(inbox) + Len(outbox) + Cardinality({k \in Lost : old[k] # <<>>}) < MaxFrames

(* set_active_id, and the effect that fetches what is to be shown.         *)
SelectAndFetch(id) ==
  /\ active' = id
  /\ fetched' = linked /\ untold' = {}
  /\ Send(<<Frame("tentacle.context", id, Nothing), Frame("tentacle.todos", id, Nothing)>>)

(* The handler of app.rs.                                                  *)
Show(f) ==
  \/ /\ f.type = "ready"
     /\ state' = "ready" /\ shownList' = f.value
     /\ UNCHANGED <<inbox, active, todos, body, typed, asked>>
  \/ /\ f.type = "tentacle.created"
     /\ shownList' = shownList \cup {f.id}
     /\ todos' = f.value
     /\ SelectAndFetch(f.id)
     /\ UNCHANGED <<state, body, typed>>
  \/ /\ f.type = "tentacle.todos"
     /\ todos' = IF f.id = active THEN f.value ELSE todos
     /\ UNCHANGED <<state, inbox, shownList, active, body, typed, asked>>
  \/ /\ f.type = "tentacle.context"
     /\ IF f.id = active THEN body' = f.value /\ typed' = FALSE
                         ELSE UNCHANGED <<body, typed>>
     /\ UNCHANGED <<state, inbox, shownList, active, todos, asked>>
  \/ f.type = "close" /\ UNCHANGED <<state, inbox, view, asked>>

Receive ==
  /\ linked /\ outbox # <<>>
  /\ outbox' = Tail(outbox)
  /\ Show(Head(outbox))
  /\ UNCHANGED <<session, store, sockets, timers, linked, counts>>

-----------------------------------------------------------------------------
(* The user.                                                               *)

Select(id) ==
  /\ id \in shownList /\ Room
  /\ SelectAndFetch(id)
  /\ UNCHANGED <<session, outbox, store, page, shownList, todos, body,
                 typed, counts>>

Type ==
  /\ active # Nothing /\ ~typed
  /\ body' = Draft /\ typed' = TRUE
  /\ UNCHANGED <<server, page, shownList, active, todos, asked, counts>>

Change(frame) ==
  /\ Room /\ Send(<<frame>>)
  /\ changes < MaxChanges /\ changes' = changes + 1
  /\ UNCHANGED <<session, outbox, store, page, view, asked, faults>>

Save == active # Nothing /\ Change(Frame("tentacle.writeContext", active, body))

(* The box of a row is clicked.                                            *)
CheckBox == active # Nothing /\ todos # Nothing /\ Change(Frame("tentacle.toggle", active, Nothing))
CreateNew(id) == Change(Frame("tentacle.create", id, Nothing))

User ==
  \/ \E id \in Ids : Select(id) \/ CreateNew(id)
  \/ Type \/ Save \/ CheckBox

Still == UNCHANGED <<page, view, fetched, counts>>

(* What the server has just changed of the selection, and told of it.      *)
ChangedParts == {part \in {"tentacle.todos", "tentacle.context"} :
                   IF part = "tentacle.todos" THEN done'[active] # done[active]
                                              ELSE context'[active] # context[active]}
ToldParts == IF Len(outbox') > Len(outbox) /\ outbox'[Len(outbox')].id = active
             THEN {outbox'[Len(outbox')].type} ELSE {}
Note == untold' = IF fetched THEN (untold \cup ChangedParts) \ ToldParts ELSE {}

Next ==
  \/ (ServerStep \/ \E k \in Lost : ReadOldFrame(k)) /\ Still /\ Note
  \/ Refill /\ Still /\ UNCHANGED untold
  \/ SessionExpires
  \/ Open \/ RefusedByServer \/ ClosedByServer \/ TimerFires \/ Receive
  \/ ConnectionLost \/ Restart \/ LateAuthentication
  \/ User

(* The server runs, frames that are not lost arrive, timers fire.          *)
Fairness ==
  /\ WF_vars(ServerStep /\ Still /\ Note)
  /\ WF_vars(Open) /\ WF_vars(RefusedByServer) /\ WF_vars(ClosedByServer)
  /\ WF_vars(TimerFires) /\ WF_vars(Receive)

SafetySpec == Init /\ [][Next]_vars
Spec == SafetySpec /\ Fairness

-----------------------------------------------------------------------------
(* However connections fail to open, are closed, lost or refused, the page *)
(* has exactly one socket or one timer that will make one: it neither      *)
(* gives up nor ends up with two connections.                              *)
OneWayBack == sockets + timers = 1

(* As long as the page's token is good and the session lasts, the page     *)
(* gets ready again after every lost connection, and after being closed    *)
(* for sending too fast.                                                   *)
ReadyAgain == <>[](goodToken /\ ~expired) => []<>(state = "ready")

(* When nothing is under way, a page that asked for its selection on this  *)
(* connection has what the server has: its todo with every click that was  *)
(* carried out applied once, and its text in the editor unless the user    *)
(* has typed since - but for what was changed without its being told: by a *)
(* session of a connection it has lost, or by a write that failed.  (The   *)
(* editor shows body; of the todo this is about the signal, not the rows.) *)
SettledViewIsStored ==
  linked /\ conn = "open" /\ state = "ready" /\ inbox = <<>> /\ outbox = <<>> /\ fetched =>
    /\ "tentacle.todos" \in untold \/ todos = done[active]
    /\ "tentacle.context" \in untold \/ typed \/ body = context[active]
=============================================================================
