------------------------------ MODULE Connection ------------------------------
(* How an HTTP/2 server connection lives and ends: the poll loop of          *)
(* proto/connection.rs with go_away.rs, settings.rs, the shutdown PING of    *)
(* ping_pong.rs, and the requests of recv.rs it accepts, refuses or ignores. *)
(*                                                                           *)
(* The connection task runs one poll from Begin to "parked".  What poll2 has *)
(* to write comes in a fixed order before it reads a frame, so "poll" is one *)
(* place and the order is in the guards.  Beside the task run:               *)
(*   - its owner, between two polls: shutdowns, settings, accept;            *)
(*   - the users of accepted requests, who answer or drop them at any time;  *)
(*   - the client, over two queues that lose and reorder nothing, and delay  *)
(*     a frame as buffers and transport do.  It keeps the protocol unless    *)
(*     Moves says otherwise.                                                 *)
(*                                                                           *)
(* A request ends its stream's receiving half and a response its sending     *)
(* half, so a stream is live from its HEADERS to its response.  PINGs other  *)
(* than the shutdown's are in PingPong.  Errors of the transport are left    *)
(* out.                                                                      *)
EXTENDS Integers, Sequences, FiniteSets

CONSTANTS
  N,               \* requests the client may send: streams 1 .. N
  MaxConcurrent,   \* SETTINGS_MAX_CONCURRENT_STREAMS of the server
  MaxUnread,       \* bound: frames the client leaves unread before it sends more
  Moves            \* what the owner and the client may do besides requests

AllMoves == {"graceful", "abrupt", "window",
             "settings", "badSettings", "malformed", "reset", "goaway", "late",
             "violate", "eof"}

ASSUME ConnectionAssumption ==
  {N, MaxConcurrent, MaxUnread} \subseteq Nat /\ Moves \subseteq AllMoves

Ids == 1 .. N
MaxId == N + 1     \* StreamId::MAX

VARIABLES
  pc,            \* where the connection task is
  closing,       \* State::Closing and Closed: the reason, or "open"
  theirs,        \* Connection::error: the reason of the client's GOAWAY
  outcome,       \* what the last poll returned
  goAway,        \* GoAway; a pending frame is always the one of going_away
  ping,          \* PingPong::pending_ping
  local,         \* Settings::local
  remote,        \* Settings::remote: nothing, or a frame that can be applied or not
  refused,       \* Recv::refused
  lastProcessed, \* Recv::last_processed_id
  maxId,         \* Recv::max_stream_id
  stream,        \* what has become of each request
  queue,         \* Recv::pending_accept
  held,          \* requests a user holds the answer of
  outbox,        \* control frames written, not yet read by the client
  inbox,         \* frames of the client, not yet read
  scheduled,     \* the task has been woken since its last poll began
  waiting,       \* wakers it left: with the transport and in Actions::task
  client,        \* the client: requests opened, and what it did once
  announced,     \* history: the last GOAWAY written
  erred          \* history: the task detected an error of the client

taskVars == <<pc, closing, theirs, outcome>>
settingsVars == <<local, remote>>
recvVars == <<refused, lastProcessed, maxId>>
streamVars == <<stream, queue, held>>
wakeVars == <<scheduled, waiting>>
history == <<announced, erred>>
vars == <<taskVars, goAway, ping, settingsVars, recvVars, streamVars, outbox, inbox,
          wakeVars, client, history>>

Reasons == {"NO_ERROR", "PROTOCOL_ERROR", "USER", "CLIENT"}

Live == {s \in Ids : stream[s] \in {"open", "answering"}}

Init ==
  /\ pc = "parked" /\ closing = "open" /\ theirs = "none" /\ outcome = "pending"
  /\ goAway = [going |-> FALSE, last |-> MaxId, reason |-> "NO_ERROR",
               closeNow |-> FALSE, user |-> FALSE, pending |-> FALSE]
  /\ ping = "none" /\ local = "waitingAck" /\ remote = "none"
  /\ refused = 0 /\ lastProcessed = 0 /\ maxId = MaxId
  /\ stream = [s \in Ids |-> "idle"] /\ queue = <<>> /\ held = {}
  /\ outbox = <<"SETTINGS">> /\ inbox = <<>>
  /\ scheduled = TRUE /\ waiting = {}
  /\ client = [opened |-> 0, stopped |-> FALSE, settings |-> FALSE, reset |-> {},
               goaway |-> FALSE, ended |-> FALSE]
  /\ announced = [last |-> MaxId, reason |-> "none"] /\ erred = FALSE

-----------------------------------------------------------------------------
(* GoAway and the errors that lead to it.                                    *)

\* GoAway::go_away
Announce(last, reason, closeNow, user) ==
  goAway' = [going |-> TRUE, last |-> last, reason |-> reason,
             closeNow |-> closeNow, user |-> user, pending |-> TRUE]

\* go_away_now: nothing new is sent when the last GOAWAY said the same.
GoAwayNow(reason, user) ==
  IF goAway.going /\ goAway.last = lastProcessed /\ goAway.reason = reason
  THEN goAway' = [goAway EXCEPT !.closeNow = TRUE, !.user = user]
  ELSE Announce(lastProcessed, reason, TRUE, user)

\* Mutant: the first GOAWAY of a graceful shutdown is enough.
ShouldCloseOnIdleEarly == ~goAway.closeNow /\ goAway.going

ShouldCloseOnIdle == ~goAway.closeNow /\ goAway.going /\ goAway.last # MaxId

\* recv_err for every stream above `last`: its queue is cleared, but a reset
\* that is only scheduled is still written.
FailAbove(last) ==
  stream' = [s \in Ids |->
               IF s > last /\ stream[s] \in {"open", "answering", "rejected"}
               THEN "failed" ELSE stream[s]]

\* Mutant: a connection that goes away for any reason ends on an error.
ConnErrorQuiet(reason) ==
  /\ erred' = TRUE
  /\ IF goAway.going
     THEN pc' = "closing" /\ closing' = reason /\ UNCHANGED <<goAway, stream>>
     ELSE /\ pc' = "poll" /\ closing' = closing
          /\ FailAbove(0) /\ GoAwayNow(reason, goAway.user)

\* poll's arm for RecvError::Connection.  An error that was announced already
\* ends the connection.
ConnError(reason) ==
  /\ erred' = TRUE
  /\ IF goAway.going /\ goAway.reason = reason
     THEN pc' = "closing" /\ closing' = reason /\ UNCHANGED <<goAway, stream>>
     ELSE /\ pc' = "poll" /\ closing' = closing
          /\ FailAbove(0) /\ GoAwayNow(reason, goAway.user)

-----------------------------------------------------------------------------
(* The owner, who polls the connection again after each call.                *)

OwnerCalls(move) == move \in Moves /\ pc = "parked" /\ scheduled' = TRUE

\* Mutant: is_going_away is not asked.
GracefulAgain ==
  /\ OwnerCalls("graceful") /\ ping = "none"
  /\ Announce(MaxId, "NO_ERROR", goAway.closeNow, goAway.user)
  /\ maxId' = MaxId /\ ping' = "unsent"
  /\ UNCHANGED <<taskVars, settingsVars, refused, lastProcessed, streamVars, outbox, inbox,
                 waiting, client, history>>

Graceful ==
  /\ OwnerCalls("graceful") /\ ~goAway.going
  /\ Announce(MaxId, "NO_ERROR", goAway.closeNow, goAway.user)
  /\ maxId' = MaxId /\ ping' = "unsent"
  /\ UNCHANGED <<taskVars, settingsVars, refused, lastProcessed, streamVars, outbox, inbox,
                 waiting, client, history>>

Abrupt ==
  /\ OwnerCalls("abrupt") /\ ~goAway.user
  /\ GoAwayNow("USER", TRUE) /\ FailAbove(0)
  /\ UNCHANGED <<taskVars, ping, settingsVars, recvVars, queue, held, outbox, inbox,
                 waiting, client, history>>

\* Mutant: new settings replace those that wait for their ack.
SetInitialWindowAnyTime ==
  /\ OwnerCalls("window")
  /\ local' = "toSend"
  /\ UNCHANGED <<taskVars, goAway, ping, remote, recvVars, streamVars, outbox, inbox,
                 waiting, client, history>>

\* set_initial_window_size, an error while another one is under way
SetInitialWindow ==
  /\ OwnerCalls("window") /\ local = "synced"
  /\ local' = "toSend"
  /\ UNCHANGED <<taskVars, goAway, ping, remote, recvVars, streamVars, outbox, inbox,
                 waiting, client, history>>

\* poll_accept, after its poll has returned Pending
Accept ==
  /\ pc = "parked" /\ queue # <<>> /\ scheduled' = TRUE
  /\ held' = held \cup {Head(queue)} /\ queue' = Tail(queue)
  /\ UNCHANGED <<taskVars, goAway, ping, settingsVars, recvVars, stream, outbox, inbox,
                 waiting, client, history>>

-----------------------------------------------------------------------------
(* The users of accepted requests, in threads of their own.                  *)

\* Mutant: the connection task is not woken.
WakeTaskNot == UNCHANGED wakeVars

\* task.take().wake()
WakeTask ==
  /\ scheduled' = (scheduled \/ "task" \in waiting)
  /\ waiting' = waiting \ {"task"}

Gives(s, fate) ==
  /\ s \in held /\ held' = held \ {s}
  /\ IF stream[s] = "open"
     THEN stream' = [stream EXCEPT ![s] = fate] /\ WakeTask
     ELSE UNCHANGED <<stream, wakeVars>>
  /\ UNCHANGED <<taskVars, goAway, ping, settingsVars, recvVars, queue, outbox, inbox,
                 client, history>>

\* send_response with the end of the stream, or send_reset: a frame is queued,
\* and the stream is counted until it is written.
Answer(s) == Gives(s, "answering")

\* The handle is dropped: an implicit reset, after which nothing is counted.
Drop(s) == Gives(s, "cancelled")

-----------------------------------------------------------------------------
(* One poll of the connection task.                                          *)

Register(waker) == waiting' = waiting \cup {waker}

Begin ==
  /\ pc = "parked" /\ scheduled
  /\ pc' = IF closing = "open" THEN "poll" ELSE "closing"
  /\ scheduled' = FALSE
  /\ UNCHANGED <<closing, theirs, outcome, goAway, ping, settingsVars, recvVars, streamVars,
                 outbox, inbox, waiting, client, history>>

(* What poll2 writes before it reads: a GOAWAY, the shutdown PING, the ack   *)
(* of the client's SETTINGS, its own, a refusal; the first that is due.      *)
Due ==
  IF goAway.pending THEN "GOAWAY"
  ELSE IF goAway.closeNow THEN "close"
  ELSE IF ping = "unsent" THEN "PING"
  ELSE IF remote # "none" THEN "ACK"
  ELSE IF local = "toSend" THEN "SETTINGS"
  ELSE IF refused # 0 THEN "RST_STREAM"
  ELSE "read"

Written(frame) ==
  /\ pc = "poll" /\ Due = frame
  /\ outbox' = Append(outbox, frame)

\* A GOAWAY that closes at once is the last thing poll2 does.
SendGoAway ==
  /\ Written("GOAWAY")
  /\ goAway' = [goAway EXCEPT !.pending = FALSE]
  /\ announced' = [last |-> goAway.last, reason |-> goAway.reason]
  /\ UNCHANGED <<taskVars, ping, settingsVars, recvVars, streamVars, inbox,
                 wakeVars, client, erred>>

\* should_close_now: the end of poll2, for the user or with the error.
Leave ==
  /\ pc = "poll" /\ Due = "close"
  /\ pc' = "closing" /\ closing' = IF goAway.user THEN "NO_ERROR" ELSE goAway.reason
  /\ UNCHANGED <<theirs, outcome, goAway, ping, settingsVars, recvVars, streamVars, outbox,
                 inbox, wakeVars, client, history>>

SendShutdownPing ==
  /\ Written("PING") /\ ping' = "sent"
  /\ UNCHANGED <<taskVars, goAway, settingsVars, recvVars, streamVars, inbox,
                 wakeVars, client, history>>

\* Acknowledged first, then applied; the frame stays if that fails.
SendSettingsAck ==
  /\ Written("ACK")
  /\ IF remote = "bad"
     THEN ConnError("PROTOCOL_ERROR") /\ UNCHANGED remote
     ELSE remote' = "none" /\ UNCHANGED <<pc, closing, goAway, stream, erred>>
  /\ UNCHANGED <<theirs, outcome, ping, local, recvVars, queue, held, inbox,
                 wakeVars, client, announced>>

SendLocalSettings ==
  /\ Written("SETTINGS") /\ local' = "waitingAck"
  /\ UNCHANGED <<taskVars, goAway, ping, remote, recvVars, streamVars, inbox,
                 wakeVars, client, history>>

SendRefusal ==
  /\ Written("RST_STREAM") /\ refused' = 0
  /\ UNCHANGED <<taskVars, goAway, ping, settingsVars, lastProcessed, maxId, streamVars,
                 inbox, wakeVars, client, history>>

\* The codec is full, of these frames or of the streams' own, and stays so.
Block ==
  /\ pc = "poll" /\ Due \notin {"close", "read"}
  /\ pc' = "complete" /\ Register("write")
  /\ UNCHANGED <<closing, theirs, outcome, goAway, ping, settingsVars, recvVars, streamVars,
                 outbox, inbox, scheduled, client, history>>

NothingToRead ==
  /\ pc = "poll" /\ Due = "read" /\ inbox = <<>>
  /\ pc' = "complete" /\ Register("read")
  /\ UNCHANGED <<closing, theirs, outcome, goAway, ping, settingsVars, recvVars, streamVars,
                 outbox, inbox, scheduled, client, history>>

(* poll_complete: what the streams have to say, and a flush.                 *)
Flushed(s) ==
  CASE stream[s] = "answering" -> "answered"
    [] stream[s] \in {"cancelled", "rejected"} -> "reset"
    [] OTHER -> stream[s]

CompleteReady ==
  /\ pc = "complete" /\ pc' = "idle" /\ Register("task")
  /\ stream' = [s \in Ids |-> Flushed(s)]
  /\ UNCHANGED <<closing, theirs, outcome, goAway, ping, settingsVars, recvVars, queue, held,
                 outbox, inbox, scheduled, client, history>>

CompleteBlocked ==
  /\ pc = "complete" /\ pc' = "parked" /\ Register("write")
  /\ \E written \in SUBSET Ids :
       stream' = [s \in Ids |-> IF s \in written THEN Flushed(s) ELSE stream[s]]
  /\ UNCHANGED <<closing, theirs, outcome, goAway, ping, settingsVars, recvVars, queue, held,
                 outbox, inbox, scheduled, client, history>>

\* Mutant: a connection that goes away closes with streams on it.
IdleWithStreams ==
  /\ pc = "idle"
  /\ IF theirs # "none" \/ ShouldCloseOnIdle
     THEN pc' = "poll" /\ GoAwayNow("NO_ERROR", goAway.user)
     ELSE pc' = "parked" /\ UNCHANGED goAway
  /\ UNCHANGED <<closing, theirs, outcome, ping, settingsVars, recvVars, streamVars, outbox,
                 inbox, wakeVars, client, history>>

\* The poll ends here, or closes a connection that goes away and is idle.
Idle ==
  /\ pc = "idle"
  /\ IF (theirs # "none" \/ ShouldCloseOnIdle) /\ Live = {}
     THEN pc' = "poll" /\ GoAwayNow("NO_ERROR", goAway.user)
     ELSE pc' = "parked" /\ UNCHANGED goAway
  /\ UNCHANGED <<closing, theirs, outcome, ping, settingsVars, recvVars, streamVars, outbox,
                 inbox, wakeVars, client, history>>

\* codec.shutdown, and take_error: the client's reason wins over no error,
\* and over ours.
CloseReady ==
  /\ pc = "closing" /\ pc' = "done"
  /\ outcome' = IF theirs \in {"none", "NO_ERROR"} THEN closing ELSE theirs
  /\ theirs' = "none"
  /\ UNCHANGED <<closing, goAway, ping, settingsVars, recvVars, streamVars, outbox, inbox,
                 wakeVars, client, history>>

CloseBlocked ==
  /\ pc = "closing" /\ pc' = "parked" /\ Register("write")
  /\ UNCHANGED <<closing, theirs, outcome, goAway, ping, settingsVars, recvVars, streamVars,
                 outbox, inbox, scheduled, client, history>>

\* The transport is writable again.
Writable ==
  /\ "write" \in waiting /\ waiting' = waiting \ {"write"} /\ scheduled' = TRUE
  /\ UNCHANGED <<taskVars, goAway, ping, settingsVars, recvVars, streamVars, outbox, inbox,
                 client, history>>

-----------------------------------------------------------------------------
(* The frames poll2 reads; after each it starts over.                        *)

Frame(kind, id, arg) == [kind |-> kind, id |-> id, arg |-> arg]

Read(kind) ==
  /\ pc = "poll" /\ Due = "read" /\ inbox # <<>>
  /\ Head(inbox).kind = kind /\ inbox' = Tail(inbox)

\* Mutant: the last id that was announced is not looked at.
RecvHeadersAny ==
  LET s == Head(inbox).id
  IN  /\ Read("HEADERS") /\ Head(inbox).arg = "good"
      /\ \/ /\ Cardinality(Live) >= MaxConcurrent
            /\ stream' = [stream EXCEPT ![s] = "refused"] /\ refused' = s
            /\ UNCHANGED <<lastProcessed, queue>>
         \/ /\ Cardinality(Live) < MaxConcurrent
            /\ stream' = [stream EXCEPT ![s] = "open"]
            /\ lastProcessed' = IF s > lastProcessed THEN s ELSE lastProcessed
            /\ queue' = Append(queue, s)
            /\ UNCHANGED refused
      /\ UNCHANGED <<taskVars, goAway, ping, settingsVars, maxId, held, outbox, wakeVars,
                     client, history>>

\* A HEADERS above the last id that was announced is ignored; one over the
\* limit is refused.
RecvHeaders ==
  LET s == Head(inbox).id
  IN  /\ Read("HEADERS") /\ Head(inbox).arg = "good"
      /\ \/ /\ s > maxId
            /\ stream' = [stream EXCEPT ![s] = "ignored"]
            /\ UNCHANGED <<refused, lastProcessed, queue>>
         \/ /\ s <= maxId /\ Cardinality(Live) >= MaxConcurrent
            /\ stream' = [stream EXCEPT ![s] = "refused"] /\ refused' = s
            /\ UNCHANGED <<lastProcessed, queue>>
         \/ /\ s <= maxId /\ Cardinality(Live) < MaxConcurrent
            /\ stream' = [stream EXCEPT ![s] = "open"]
            /\ lastProcessed' = IF s > lastProcessed THEN s ELSE lastProcessed
            /\ queue' = Append(queue, s)
            /\ UNCHANGED refused
      /\ UNCHANGED <<taskVars, goAway, ping, settingsVars, maxId, held, outbox, wakeVars,
                     client, history>>

\* poll's arm for RecvError::Stream: the stream is made up to be reset.
RecvMalformedHeaders ==
  /\ Read("HEADERS") /\ Head(inbox).arg = "malformed"
  /\ stream' = [stream EXCEPT ![Head(inbox).id] = "rejected"] /\ WakeTask
  /\ UNCHANGED <<taskVars, goAway, ping, settingsVars, recvVars, queue, held, outbox,
                 client, history>>

RecvReset ==
  LET s == Head(inbox).id
  IN  /\ Read("RST_STREAM")
      /\ IF s <= maxId /\ stream[s] \in {"open", "answering", "cancelled", "rejected"}
         THEN stream' = [stream EXCEPT ![s] = "failed"]
         ELSE UNCHANGED stream
      /\ UNCHANGED <<taskVars, goAway, ping, settingsVars, recvVars, queue, held, outbox,
                     wakeVars, client, history>>

RecvSettings ==
  /\ Read("SETTINGS") /\ remote' = Head(inbox).arg
  /\ UNCHANGED <<taskVars, goAway, ping, local, recvVars, streamVars, outbox, wakeVars,
                 client, history>>

RecvSettingsAck ==
  /\ Read("SETTINGS_ACK")
  /\ IF local = "waitingAck"
     THEN local' = "synced" /\ UNCHANGED <<pc, closing, goAway, stream, erred>>
     ELSE ConnError("PROTOCOL_ERROR") /\ UNCHANGED local
  /\ UNCHANGED <<theirs, outcome, ping, remote, recvVars, queue, held, outbox, wakeVars,
                 client, announced>>

\* Mutant: streams above the last id are still accepted.
RecvShutdownAckOpen ==
  /\ Read("PING_ACK")
  /\ IF ping # "none"
     THEN /\ ping' = "none" /\ maxId' = maxId
          /\ Announce(lastProcessed, "NO_ERROR", goAway.closeNow, goAway.user)
     ELSE UNCHANGED <<ping, maxId, goAway>>
  /\ UNCHANGED <<taskVars, settingsVars, refused, lastProcessed, streamVars, outbox, wakeVars,
                 client, history>>

\* The ack of the shutdown PING: from here on nothing new is processed.
RecvShutdownAck ==
  /\ Read("PING_ACK")
  /\ IF ping # "none"
     THEN /\ ping' = "none" /\ maxId' = lastProcessed
          /\ Announce(lastProcessed, "NO_ERROR", goAway.closeNow, goAway.user)
     ELSE UNCHANGED <<ping, maxId, goAway>>
  /\ UNCHANGED <<taskVars, settingsVars, refused, lastProcessed, streamVars, outbox, wakeVars,
                 client, history>>

\* All streams above the last id fail, those the client started as well.
RecvGoAway ==
  /\ Read("GOAWAY") /\ theirs' = Head(inbox).arg /\ FailAbove(Head(inbox).id)
  /\ UNCHANGED <<pc, closing, outcome, goAway, ping, settingsVars, recvVars, queue, held,
                 outbox, wakeVars, client, history>>

RecvViolation ==
  /\ Read("VIOLATION") /\ ConnError("PROTOCOL_ERROR")
  /\ UNCHANGED <<theirs, outcome, ping, settingsVars, recvVars, queue, held, outbox, wakeVars,
                 client, announced>>

RecvEof ==
  /\ Read("EOF") /\ FailAbove(0)
  /\ pc' = "closing" /\ closing' = "NO_ERROR"
  /\ UNCHANGED <<theirs, outcome, goAway, ping, settingsVars, recvVars, queue, held, outbox,
                 wakeVars, client, history>>

-----------------------------------------------------------------------------
(* The client.                                                               *)

Sends(frame) ==
  /\ ~client.ended
  /\ inbox' = Append(inbox, frame)
  /\ scheduled' = (scheduled \/ "read" \in waiting) /\ waiting' = waiting \ {"read"}

\* Of its own accord.
Starts(frame) == Len(inbox) < MaxUnread /\ Sends(frame)

ClientUnchanged ==
  UNCHANGED <<taskVars, goAway, ping, settingsVars, recvVars, streamVars, outbox, history>>

ClientOpens(arg) ==
  /\ client.opened < N /\ (~client.stopped \/ "late" \in Moves)
  /\ Starts(Frame("HEADERS", client.opened + 1, arg))
  /\ client' = [client EXCEPT !.opened = @ + 1]
  /\ ClientUnchanged

ClientResets(s) ==
  /\ s <= client.opened /\ s \notin client.reset
  /\ Starts(Frame("RST_STREAM", s, "good"))
  /\ client' = [client EXCEPT !.reset = @ \cup {s}]
  /\ ClientUnchanged

\* The client's SETTINGS, once.
ClientSettings(arg) ==
  /\ ~client.settings /\ Starts(Frame("SETTINGS", 0, arg))
  /\ client' = [client EXCEPT !.settings = TRUE]
  /\ ClientUnchanged

\* A client that goes away has processed no stream of the server, or says so
\* of all it may start.
ClientGoesAway(last, reason) ==
  /\ ~client.goaway /\ Starts(Frame("GOAWAY", last, reason))
  /\ client' = [client EXCEPT !.goaway = TRUE, !.stopped = TRUE]
  /\ ClientUnchanged

ClientEnds(kind) ==
  /\ Starts(Frame(kind, 0, "good"))
  /\ client' = [client EXCEPT !.ended = TRUE]
  /\ ClientUnchanged

\* What the client does with a frame: it acknowledges PING and SETTINGS, and
\* opens nothing after a GOAWAY.
ClientReads ==
  LET frame == Head(outbox)
      Acks(kind) == IF client.ended THEN UNCHANGED <<inbox, wakeVars>>
                    ELSE Sends(Frame(kind, 0, "good"))
  IN  /\ outbox # <<>> /\ outbox' = Tail(outbox)
      /\ CASE frame = "PING" -> Acks("PING_ACK") /\ UNCHANGED client
           [] frame = "SETTINGS" -> Acks("SETTINGS_ACK") /\ UNCHANGED client
           [] frame = "GOAWAY" -> /\ client' = [client EXCEPT !.stopped = TRUE]
                                  /\ UNCHANGED <<inbox, wakeVars>>
           [] OTHER -> UNCHANGED <<inbox, wakeVars, client>>
      /\ UNCHANGED <<taskVars, goAway, ping, settingsVars, recvVars, streamVars, history>>

ClientMoves ==
  \/ ClientOpens("good")
  \/ "malformed" \in Moves /\ ClientOpens("malformed")
  \/ "reset" \in Moves /\ \E s \in Ids : ClientResets(s)
  \/ "settings" \in Moves /\ ClientSettings("good")
  \/ "badSettings" \in Moves /\ ClientSettings("bad")
  \/ "goaway" \in Moves /\ \E last \in {0, MaxId}, reason \in {"NO_ERROR", "CLIENT"} :
       ClientGoesAway(last, reason)
  \/ "violate" \in Moves /\ ClientEnds("VIOLATION")
  \/ "eof" \in Moves /\ ClientEnds("EOF")

-----------------------------------------------------------------------------
Owner == Graceful \/ Abrupt \/ SetInitialWindow
Users == \E s \in Ids : Answer(s) \/ Drop(s)
Sending == \/ SendGoAway \/ SendShutdownPing \/ SendSettingsAck
           \/ SendLocalSettings \/ SendRefusal
Receiving == \/ RecvHeaders \/ RecvMalformedHeaders \/ RecvReset \/ RecvSettings
             \/ RecvSettingsAck \/ RecvShutdownAck \/ RecvGoAway \/ RecvViolation \/ RecvEof
Blocked == Block \/ CompleteBlocked \/ CloseBlocked
Poll == \/ Begin \/ Sending \/ Leave \/ NothingToRead \/ Receiving
        \/ CompleteReady \/ Idle \/ CloseReady \/ Blocked

Next == Owner \/ Accept \/ Users \/ Poll \/ Writable \/ ClientMoves \/ ClientReads

Spec == Init /\ [][Next]_vars

(* The runtime polls what was woken; the transport takes frames again and    *)
(* again; the owner accepts between its other calls, the users answer or     *)
(* drop what they were given, and the client reads.                          *)
Fairness ==
  /\ WF_vars(Poll) /\ WF_vars(Writable) /\ WF_vars(ClientReads) /\ SF_vars(Accept)
  /\ \A s \in Ids : WF_vars(Answer(s) \/ Drop(s))
  /\ SF_vars(Sending) /\ SF_vars(CompleteReady) /\ SF_vars(CloseReady)

FairSpec == Spec /\ Fairness

-----------------------------------------------------------------------------
(* Properties.                                                               *)

ClientFrames ==
  [kind : {"HEADERS", "RST_STREAM"}, id : Ids, arg : {"good", "malformed"}]
    \cup [kind : {"SETTINGS"}, id : {0}, arg : {"good", "bad"}]
    \cup [kind : {"GOAWAY"}, id : {0, MaxId}, arg : Reasons]
    \cup [kind : {"SETTINGS_ACK", "PING_ACK", "VIOLATION", "EOF"}, id : {0}, arg : {"good"}]
ServerFrames == {"GOAWAY", "PING", "ACK", "SETTINGS", "RST_STREAM"}

Fates == {"idle", "open", "answering", "answered", "cancelled", "rejected",
          "reset", "failed", "refused", "ignored"}

GoAways == [going : BOOLEAN, last : 0 .. MaxId, reason : Reasons,
            closeNow : BOOLEAN, user : BOOLEAN, pending : BOOLEAN]

Clients == [opened : 0 .. N, stopped : BOOLEAN, settings : BOOLEAN,
            reset : SUBSET Ids, goaway : BOOLEAN, ended : BOOLEAN]

\* Type correctness.
TypeOK ==
  /\ pc \in {"parked", "poll", "complete", "idle", "closing", "done"}
  /\ closing \in Reasons \cup {"open"} /\ theirs \in Reasons \cup {"none"}
  /\ outcome \in Reasons \cup {"pending"}
  /\ goAway \in GoAways
  /\ ping \in {"none", "unsent", "sent"}
  /\ local \in {"toSend", "waitingAck", "synced"} /\ remote \in {"none", "good", "bad"}
  /\ refused \in 0 .. N /\ lastProcessed \in 0 .. N /\ maxId \in 0 .. MaxId
  /\ stream \in [Ids -> Fates]
  /\ queue \in Seq(Ids) /\ held \subseteq Ids
  /\ outbox \in Seq(ServerFrames) /\ inbox \in Seq(ClientFrames)
  /\ scheduled \in BOOLEAN /\ waiting \subseteq {"read", "write", "task"}
  /\ client \in Clients
  /\ announced \in [last : 0 .. MaxId, reason : Reasons \cup {"none"}]
  /\ erred \in BOOLEAN

\* What the assertions of GoAway::go_away, Recv::go_away, ping_shutdown and
\* poll2 (a shutdown PING, a graceful GOAWAY) rely on, whenever they may be met.
NoAssertFails ==
  /\ lastProcessed <= maxId
  /\ goAway.going => lastProcessed <= goAway.last
  /\ ~goAway.going => maxId = MaxId /\ ping = "none"
  /\ goAway.pending /\ ~goAway.closeNow => goAway.reason = "NO_ERROR"

\* The last id of successive GOAWAY frames never grows, through graceful and
\* abrupt shutdowns and errors that overtake each other.
GoAwayNeverGrows == [][announced'.last <= announced.last]_vars

\* Whatever request was given to the application is below the last id the
\* client was told of, so that the client never repeats it elsewhere.
ProcessedIsAnnounced == lastProcessed <= announced.last

\* The task has only an ack to expect that is on its way, and the other way
\* round: settings of the two sides cannot get out of step.
SettingsInStep ==
  LET OnTheirWay == Cardinality({i \in DOMAIN outbox : outbox[i] = "SETTINGS"})
                      + Cardinality({i \in DOMAIN inbox : inbox[i].kind = "SETTINGS_ACK"})
  IN  IF local = "waitingAck" /\ ~client.ended THEN OnTheirWay = 1 ELSE OnTheirWay <= 1

\* The owner shuts down gracefully and nothing else ends the connection.
OnlyGraceful ==
  goAway.going /\ ~erred /\ ~goAway.user /\ ~client.goaway /\ ~client.ended

\* A graceful shutdown loses nothing: at its end each request the client sent
\* was answered, dropped by its user, or refused.
GracefulLosesNothing ==
  pc = "done" /\ OnlyGraceful =>
    \A s \in Ids : stream[s] \in
      {"answered", "cancelled", "reset", "refused"}
        \cup (IF s > client.opened THEN {"idle"} ELSE {})
        \cup (IF s \in client.reset THEN {"failed"} ELSE {})

\* An error the task detects is what its owner and the client learn, unless
\* the owner or the client was already ending the connection.
ErrorIsTold ==
  pc = "done" /\ erred /\ ~goAway.user /\ ~client.goaway =>
    outcome = "PROTOCOL_ERROR" /\ announced.reason = "PROTOCOL_ERROR"

\* No stream outlives the connection: it starts to close only when the last
\* one has ended, and no request comes in afterwards.
ClosesWithoutStreams == closing # "open" => Live = {}

\* A connection that goes away, of its own or the client's will, ends.
GoingAwayEnds == goAway.going \/ theirs # "none" ~> pc = "done"
=============================================================================
