------------------------------ MODULE Session --------------------------------
(***************************************************************************)
(* The server's half of a deck connection (crates/deck/src/server.rs,      *)
(* schemas.rs): the upgrade, the loop of handle_ws that reads a frame and  *)
(* acts on it, and its clean-up.  Frames come in order on inbox, answers   *)
(* go out in order on outbox.  The session of a connection the page has    *)
(* lost reads on what came over it, next to that of the connection the     *)
(* page has now.  A write of the store can fail, also after it truncated   *)
(* the file.  The audit log, terminals, native agents and operations on    *)
(* the store that overlap are the subject of AuditLog, DeckTerminals,      *)
(* DeckAgents and Tentacles.                                               *)
(***************************************************************************)
EXTENDS Integers, Sequences, FiniteSets

CONSTANTS
  Ids,          \* of tentacles
  First,        \* the one there is at the start
  Burst,        \* capacity of the connection's token bucket
  Lost,         \* bound: lost connections whose sessions still read
  Template,     \* the text create writes
  Nothing       \* no tentacle, no text, no todo

ASSUME SessionAssumption == First \in Ids

VARIABLES
  conn,         \* "none", "open", "closing", "closed"
  authed,       \* the client has shown the token
  late,         \* the authentication deadline has passed
  expired,      \* the session has expired
  goodToken,    \* the token the page was loaded with is this server's
  tokens,       \* in the bucket
  inbox, outbox,
  old,          \* frames that the sessions of lost connections may still read
  list,         \* the tentacles there are
  context,      \* CONTEXT.md of each; Nothing if it is empty or missing
  done          \* whether its todo is checked; Nothing if the list is empty or missing

session == <<conn, authed, late, expired, goodToken, tokens>>
files == <<list, context, done>>
store == <<files, old>>
server == <<session, inbox, outbox, store>>

Frame(type, id, value) == [type |-> type, id |-> id, value |-> value]
Signal(type) == Frame(type, Nothing, Nothing)

ServerInit ==
  /\ conn = "none" /\ authed = FALSE /\ late = FALSE /\ expired = FALSE /\ goodToken = TRUE
  /\ tokens = Burst /\ inbox = <<>> /\ outbox = <<>>
  /\ list = {First} /\ old = [k \in Lost |-> <<>>]
  /\ context = [i \in Ids |-> IF i = First THEN Template ELSE Nothing]
  /\ done = [i \in Ids |-> IF i = First THEN FALSE ELSE Nothing]

-----------------------------------------------------------------------------
(* ws_upgrade: an expired session takes no connection.  (The origin of the *)
(* deck's own page is allowed.)                                            *)
Upgrade ==
  /\ ~expired
  /\ conn' = "open" /\ authed' = FALSE /\ late' = FALSE /\ tokens' = Burst

Refill ==
  /\ conn = "open" /\ tokens < Burst
  /\ tokens' = tokens + 1
  /\ UNCHANGED <<conn, authed, late, expired, goodToken, inbox, outbox, store>>

DeadlinePasses ==
  /\ conn = "open" /\ ~authed /\ ~late
  /\ late' = TRUE
  /\ UNCHANGED <<conn, authed, expired, goodToken, tokens, inbox, outbox, store>>

Expire ==
  /\ ~expired /\ expired' = TRUE
  /\ UNCHANGED <<conn, authed, late, goodToken, tokens, inbox, outbox, store>>

-----------------------------------------------------------------------------
(* What dispatch does for an authenticated request, and the answer it      *)
(* sends if the page still hears it.  An error of the store only makes a   *)
(* line in the server's log.                                               *)

Answer(heard, type, id, value) ==
  outbox' = IF heard THEN Append(outbox, Frame(type, id, value)) ELSE outbox

(* The box is flipped; or the write fails and leaves the file as it was or *)
(* truncated, and without a box from then on.                              *)
FlipBox(id) ==
  \/ (id \notin list \/ done[id] = Nothing) /\ UNCHANGED done
  \/ /\ id \in list /\ done[id] # Nothing
     /\ \/ done' = [done EXCEPT ![id] = ~@]
        \/ \E box \in {done[id], Nothing} : done' = [done EXCEPT ![id] = box]

(* Mutant: the list that is sent is the one read before the change.        *)
Toggle_staleReply(f, heard) ==
  /\ FlipBox(f.id)
  /\ Answer(heard, "tentacle.todos", f.id, IF f.id \in list THEN done[f.id] ELSE Nothing)
  /\ UNCHANGED <<list, context>>

(* The answer is the list as it is read after the write.                   *)
Toggle(f, heard) ==
  /\ FlipBox(f.id)
  /\ Answer(heard, "tentacle.todos", f.id, IF f.id \in list THEN done'[f.id] ELSE Nothing)
  /\ UNCHANGED <<list, context>>

(* create writes the files that are missing.  Of a tentacle there is, a    *)
(* file that reads as empty may be missing.                                *)
Made(id, now, fresh) ==
  IF now # Nothing THEN {now} ELSE IF id \in list THEN {Nothing, fresh} ELSE {fresh}

(* The tentacle is there and its files are, or an error is returned before *)
(* all is done.                                                            *)
Create(f, heard) ==
  \/ /\ list' = list \cup {f.id}
     /\ \E text \in Made(f.id, context[f.id], Template) : context' = [context EXCEPT ![f.id] = text]
     /\ \E box \in Made(f.id, done[f.id], FALSE) : done' = [done EXCEPT ![f.id] = box]
     /\ Answer(heard, "tentacle.created", f.id, done'[f.id])
  \/ /\ list' = list \cup {f.id}
     /\ \E text \in {context[f.id]} \cup Made(f.id, context[f.id], Template) :
          context' = [context EXCEPT ![f.id] = text]
     /\ UNCHANGED <<done, outbox>>
  \/ UNCHANGED <<files, outbox>>

(* The answer holds what was asked to be written, also when there was no   *)
(* tentacle to write it to.  A write that fails leaves the text as it was, *)
(* or truncated, and is not answered.                                      *)
WriteContext(f, heard) ==
  /\ \/ /\ context' = IF f.id \in list THEN [context EXCEPT ![f.id] = f.value] ELSE context
        /\ Answer(heard, "tentacle.context", f.id, f.value)
     \/ /\ f.id \in list
        /\ \E text \in {context[f.id], Nothing} : context' = [context EXCEPT ![f.id] = text]
        /\ UNCHANGED outbox
  /\ UNCHANGED <<list, done>>

(* Nobody hears what a lost connection asks for.                           *)
Query(f, heard) ==
  /\ \/ /\ f.type \in {"auth", "tentacle.list"}
        /\ Answer(heard, "tentacle.list", Nothing, list)
     \/ /\ f.type = "tentacle.todos"
        /\ Answer(heard, f.type, f.id, IF f.id \in list THEN done[f.id] ELSE Nothing)
     \/ /\ f.type = "tentacle.context"
        /\ Answer(heard, f.type, f.id, IF f.id \in list THEN context[f.id] ELSE Nothing)
  /\ UNCHANGED files

Dispatch(f, heard) ==
  \/ Query(f, heard)
  \/ f.type = "tentacle.create" /\ Create(f, heard)
  \/ f.type = "tentacle.toggle" /\ Toggle(f, heard)
  \/ f.type = "tentacle.writeContext" /\ WriteContext(f, heard)

(* The loop ends with a Close, and what it kept with it: no frame is read  *)
(* any more.                                                               *)
Break ==
  /\ conn' = "closing"
  /\ authed' = FALSE /\ late' = FALSE /\ tokens' = Burst /\ inbox' = <<>>
  /\ outbox' = Append(outbox, Signal("close"))
  /\ UNCHANGED <<expired, goodToken, files>>

Ready == Frame("ready", Nothing, list)

TimedOut == expired \/ (~authed /\ late)

(* parse_ws_msg: a title or a text may be longer than the schema allows.  *)
Refused(f) == f.type \in {"tentacle.create", "tentacle.writeContext"}

(* A frame that does not pass the schema, or comes before the token, is    *)
(* dropped without an answer.                                              *)
Drop(f) ==
  /\ Refused(f) \/ (~authed /\ f.type # "auth")
  /\ UNCHANGED <<authed, outbox, files>>

Authenticate(f) ==
  /\ ~authed /\ f.type = "auth" /\ goodToken
  /\ authed' = TRUE
  /\ outbox' = Append(outbox, Ready)
  /\ UNCHANGED files

(* One frame of handle_ws's loop.  Deadline and expiry are looked at here  *)
(* only, before the frame is.                                              *)
ReadFrame ==
  /\ conn = "open" /\ inbox # <<>>
  /\ LET f == Head(inbox) IN
     \/ TimedOut /\ Break
     \/ ~TimedOut /\ tokens = 0 /\ Break
     \/ ~TimedOut /\ tokens > 0 /\ ~authed /\ f.type = "auth" /\ ~goodToken /\ Break
     \/ /\ ~TimedOut /\ tokens > 0
        /\ tokens' = tokens - 1 /\ inbox' = Tail(inbox)
        /\ \/ Drop(f)
           \/ Authenticate(f)
           \/ authed /\ Dispatch(f, TRUE) /\ UNCHANGED authed
        /\ UNCHANGED <<conn, late, expired, goodToken>>
  /\ UNCHANGED old

(* The session of a lost connection: its loop acts on the frames that came *)
(* over it (or drops them), until it ends, for want of tokens or time or   *)
(* because there is no more to read.                                       *)
ReadOldFrame(k) ==
  /\ old[k] # <<>>
  /\ \/ old' = [old EXCEPT ![k] = <<>>] /\ UNCHANGED <<files, outbox>>
     \/ /\ ~expired /\ old' = [old EXCEPT ![k] = Tail(@)]
        /\ UNCHANGED <<files, outbox>> \/ Dispatch(Head(old[k]), FALSE)
  /\ UNCHANGED <<session, inbox>>

(* What the connection owns is killed, the writer drains the frames that   *)
(* are left, and the socket is closed.                                     *)
EndSession ==
  /\ conn = "closing"
  /\ conn' = "closed"
  /\ UNCHANGED <<authed, late, expired, goodToken, tokens, inbox, outbox, store>>

ServerStep == ReadFrame \/ EndSession
=============================================================================
