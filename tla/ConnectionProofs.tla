--------------------------- MODULE ConnectionProofs ---------------------------
(* For every number of requests, every limit and choice of Moves: how a      *)
(* Connection ends, that a graceful shutdown loses no request, that SETTINGS *)
(* and their acknowledgements keep in step, and what each side makes of the  *)
(* messages of the other.                                                    *)
EXTENDS Connection, Messages, SequenceTheorems, FiniteSetTheorems, TLAPS

\* What is announced and what is processed: the GOAWAY that was written, the
\* one to write, and the last id above which requests are ignored.  Before a
\* connection closes now, the ids it ignores are those it announces.
GoAwayInStep ==
  /\ goAway.last <= announced.last
  /\ ~goAway.pending => goAway.last = announced.last
  /\ goAway.going /\ ~goAway.pending => goAway.reason = announced.reason
  /\ ~goAway.going => goAway.last = MaxId /\ ~goAway.closeNow /\ ~goAway.pending
  /\ ~goAway.closeNow => maxId = goAway.last /\ goAway.reason = "NO_ERROR"
  /\ lastProcessed <= maxId /\ lastProcessed <= goAway.last
  /\ ping # "none" => goAway.going

\* A connection that closes now, or is closing, has no live stream left.
EndsWithoutStreams ==
  /\ goAway.closeNow \/ closing # "open" => Live = {}
  /\ closing # "open" => pc \in {"parked", "closing", "done"}
  /\ pc \in {"closing", "done"} => closing # "open"

\* A detected error stays the reason of the GOAWAY until the connection is
\* closed, and then is the reason of its end.
ErrorIsKept ==
  /\ theirs # "none" => client.goaway
  /\ \A i \in DOMAIN inbox : inbox[i].kind = "GOAWAY" => client.goaway
  /\ erred => goAway.closeNow
  /\ erred /\ ~goAway.user /\ ~client.goaway =>
       /\ goAway.reason = "PROTOCOL_ERROR"
       /\ closing # "open" => closing = "PROTOCOL_ERROR" /\ announced.reason = "PROTOCOL_ERROR"

\* The inductive invariant.
Inv == TypeOK /\ GoAwayInStep /\ EndsWithoutStreams /\ ErrorIsKept /\ ErrorIsTold
-----------------------------------------------------------------------------
\* What the proofs of the steps use of the queues.
LEMMA HeadOfInbox ==
  ASSUME TypeOK, inbox # <<>>
  PROVE  /\ Head(inbox) \in ClientFrames /\ Tail(inbox) \in Seq(ClientFrames)
         /\ \A i \in DOMAIN Tail(inbox) : i + 1 \in DOMAIN inbox /\ Tail(inbox)[i] = inbox[i + 1]
         /\ 1 \in DOMAIN inbox /\ Head(inbox) = inbox[1]
<1>1. inbox \in Seq(ClientFrames)
  BY DEF TypeOK
<1> QED
  BY <1>1, HeadTailProperties

LEMMA FrameFields ==
  ASSUME NEW frame \in ClientFrames
  PROVE  /\ frame.kind \in {"HEADERS", "RST_STREAM"} => frame.id \in Ids
         /\ frame.kind = "SETTINGS" => frame.arg \in {"good", "bad"}
         /\ frame.kind = "GOAWAY" => frame.arg \in Reasons /\ frame.id \in {0, MaxId}
BY DEF ClientFrames

\* The constants one by one.
LEMMA Constants == N \in Nat /\ MaxId = N + 1 /\ MaxId \in Nat /\ Ids = 1 .. N
BY ConnectionAssumption DEF MaxId, Ids

\* The operators on GoAway and the streams keep the types.
LEMMA AnnounceType ==
  ASSUME NEW last \in 0 .. MaxId, NEW reason \in Reasons, NEW closeNow \in BOOLEAN,
         NEW user \in BOOLEAN, Announce(last, reason, closeNow, user)
  PROVE  goAway' \in GoAways
BY DEF Announce, GoAways

LEMMA GoAwayNowType ==
  ASSUME TypeOK, NEW reason \in Reasons, NEW user \in BOOLEAN, GoAwayNow(reason, user)
  PROVE  goAway' \in GoAways
<1>1. goAway \in GoAways /\ lastProcessed \in 0 .. MaxId
  BY Constants DEF TypeOK
<1>2. CASE Announce(lastProcessed, reason, TRUE, user)
  BY <1>1, <1>2, AnnounceType
<1>3. CASE goAway' = [goAway EXCEPT !.closeNow = TRUE, !.user = user]
  BY <1>1, <1>3 DEF GoAways
<1> QED
  BY <1>2, <1>3 DEF GoAwayNow

LEMMA FailAboveType ==
  ASSUME TypeOK, NEW last, FailAbove(last)
  PROVE  stream' \in [Ids -> Fates]
BY DEF FailAbove, TypeOK, Fates

LEMMA ConnErrorType ==
  ASSUME TypeOK, NEW reason \in Reasons, ConnError(reason)
  PROVE  /\ pc' \in {"closing", "poll"} /\ closing' \in {reason, closing}
         /\ goAway' \in GoAways /\ stream' \in [Ids -> Fates] /\ erred' = TRUE
<1>1. goAway.user \in BOOLEAN
  BY DEF TypeOK, GoAways
<1>2. CASE UNCHANGED <<goAway, stream>>
  BY <1>2 DEF ConnError, TypeOK
<1>3. CASE FailAbove(0) /\ GoAwayNow(reason, goAway.user)
  BY <1>1, <1>3, GoAwayNowType, FailAboveType DEF ConnError
<1> QED
  BY <1>2, <1>3 DEF ConnError

LEMMA WrittenType ==
  ASSUME TypeOK, NEW frame \in ServerFrames, Written(frame)
  PROVE  outbox' \in Seq(ServerFrames)
<1>1. outbox \in Seq(ServerFrames)
  BY DEF TypeOK
<1> QED
  BY <1>1, AppendProperties DEF Written

LEMMA ReadType ==
  ASSUME TypeOK, NEW kind, Read(kind)
  PROVE  /\ inbox' \in Seq(ClientFrames) /\ Head(inbox) \in ClientFrames
         /\ Head(inbox).kind = kind /\ pc = "poll"
BY HeadOfInbox DEF Read

\* Every step keeps the types; an end has a reason, because the task closes no
\* connection that is open.
LEMMA TypeStep ==
  ASSUME TypeOK, EndsWithoutStreams, [Next]_vars
  PROVE  TypeOK'
<1> USE Constants
<1> USE DEF taskVars, settingsVars, recvVars, streamVars, wakeVars, history
<1>1. CASE Graceful
  <2>1. goAway.closeNow \in BOOLEAN /\ goAway.user \in BOOLEAN
    BY DEF TypeOK, GoAways
  <2>2. goAway' \in GoAways
    BY <1>1, <2>1, AnnounceType DEF Graceful, Reasons
  <2> QED
    BY <1>1, <2>2 DEF Graceful, OwnerCalls, TypeOK
<1>2. CASE Abrupt
  <2>1. goAway' \in GoAways /\ stream' \in [Ids -> Fates]
    BY <1>2, GoAwayNowType, FailAboveType DEF Abrupt, Reasons
  <2> QED
    BY <1>2, <2>1 DEF Abrupt, OwnerCalls, TypeOK
<1>3. CASE SetInitialWindow
  BY <1>3 DEF SetInitialWindow, OwnerCalls, TypeOK
<1>4. CASE Accept
  <2>1. queue \in Seq(Ids) /\ queue # <<>>
    BY <1>4 DEF Accept, TypeOK
  <2>2. Head(queue) \in Ids /\ Tail(queue) \in Seq(Ids)
    BY <2>1, HeadTailProperties
  <2>3. held' \subseteq Ids
    BY <1>4, <2>2 DEF Accept, TypeOK
  <2> QED
    BY <1>4, <2>2, <2>3 DEF Accept, TypeOK
<1>5. CASE Users
  <2>1. PICK s \in Ids, fate \in {"answering", "cancelled"} : Gives(s, fate)
    BY <1>5 DEF Users, Answer, Drop
  <2>2. stream' \in [Ids -> Fates] /\ scheduled' \in BOOLEAN /\ waiting' \subseteq waiting
    BY <2>1 DEF Gives, WakeTask, TypeOK, Fates
  <2> QED
    BY <2>1, <2>2 DEF Gives, TypeOK
<1>6. CASE Begin \/ Leave \/ NothingToRead \/ Block \/ CloseBlocked \/ CloseReady \/ Writable
  <2>1. CASE Begin
    BY <2>1 DEF Begin, TypeOK
  <2>2. CASE Leave
    <3>1. closing' \in Reasons
      BY <2>2 DEF Leave, TypeOK, GoAways, Reasons
    <3> QED
      BY <2>2, <3>1 DEF Leave, TypeOK
  <2>3. CASE NothingToRead
    BY <2>3 DEF NothingToRead, Register, TypeOK
  <2>4. CASE Block
    BY <2>4 DEF Block, Register, TypeOK
  <2>5. CASE CloseBlocked
    BY <2>5 DEF CloseBlocked, Register, TypeOK
  <2>6. CASE CloseReady
    <3>1. outcome' \in Reasons
      BY <2>6 DEF CloseReady, TypeOK, EndsWithoutStreams
    <3> QED
      BY <2>6, <3>1 DEF CloseReady, TypeOK
  <2>7. CASE Writable
    BY <2>7 DEF Writable, TypeOK
  <2> QED
    BY <1>6, <2>1, <2>2, <2>3, <2>4, <2>5, <2>6, <2>7
<1>7. CASE CompleteBlocked \/ CompleteReady
  <2>1. stream' \in [Ids -> Fates]
    <3>1. \A s \in Ids : Flushed(s) \in Fates /\ stream[s] \in Fates
      BY DEF Flushed, TypeOK, Fates
    <3> QED
      BY <1>7, <3>1 DEF CompleteBlocked, CompleteReady
  <2> QED
    BY <1>7, <2>1 DEF CompleteBlocked, CompleteReady, Register, TypeOK
<1>8. CASE Idle
  <2>1. goAway' \in GoAways
    <3>1. goAway.user \in BOOLEAN /\ goAway \in GoAways
      BY DEF TypeOK, GoAways
    <3> QED
      BY <1>8, <3>1, GoAwayNowType DEF Idle, Reasons
  <2> QED
    BY <1>8, <2>1 DEF Idle, TypeOK
<1>9. CASE Sending
  <2>1. outbox' \in Seq(ServerFrames)
    BY <1>9, WrittenType DEF Sending, SendGoAway, SendShutdownPing, SendSettingsAck,
      SendLocalSettings, SendRefusal, ServerFrames
  <2>2. CASE SendGoAway
    <3>1. /\ goAway' \in GoAways
          /\ announced' \in [last : 0 .. MaxId, reason : Reasons \cup {"none"}]
      BY <2>2 DEF SendGoAway, TypeOK, GoAways
    <3> QED
      BY <2>1, <2>2, <3>1 DEF SendGoAway, TypeOK
  <2>3. CASE SendShutdownPing \/ SendLocalSettings \/ SendRefusal
    <3>1. CASE SendShutdownPing
      BY <2>1, <3>1 DEF SendShutdownPing, TypeOK
    <3>2. CASE SendLocalSettings
      BY <2>1, <3>2 DEF SendLocalSettings, TypeOK
    <3>3. CASE SendRefusal
      BY <2>1, <3>3 DEF SendRefusal, TypeOK
    <3> QED
      BY <2>3, <3>1, <3>2, <3>3
  <2>4. CASE SendSettingsAck
    <3>1. CASE remote = "bad"
      <4>1. ConnError("PROTOCOL_ERROR") /\ "PROTOCOL_ERROR" \in Reasons
        BY <2>4, <3>1 DEF SendSettingsAck, Reasons
      <4>2. /\ pc' \in {"closing", "poll"} /\ closing' \in {"PROTOCOL_ERROR", closing}
            /\ goAway' \in GoAways /\ stream' \in [Ids -> Fates] /\ erred' = TRUE
        BY <4>1, ConnErrorType
      <4> QED
        BY <2>1, <2>4, <3>1, <4>1, <4>2 DEF SendSettingsAck, TypeOK
    <3>2. CASE remote # "bad"
      BY <2>1, <2>4, <3>2 DEF SendSettingsAck, TypeOK
    <3> QED
      BY <3>1, <3>2
  <2> QED
    BY <1>9, <2>2, <2>3, <2>4 DEF Sending
<1>10. CASE Receiving
  <2> DEFINE frame == Head(inbox)
  <2>1. /\ inbox' \in Seq(ClientFrames)
        /\ frame.kind \in {"HEADERS", "RST_STREAM"} => frame.id \in Ids
        /\ frame.kind = "SETTINGS" => frame.arg \in {"good", "bad"}
        /\ frame.kind = "GOAWAY" => frame.arg \in Reasons
    BY <1>10, ReadType, FrameFields DEF Receiving, RecvHeaders, RecvMalformedHeaders,
      RecvReset, RecvSettings, RecvSettingsAck, RecvShutdownAck, RecvGoAway, RecvViolation, RecvEof
  <2>2. CASE RecvHeaders
    <3>1. frame.id \in Ids
      BY <2>1, <2>2, ReadType DEF RecvHeaders
    <3>2. stream' \in [Ids -> Fates]
      BY <2>2, <3>1 DEF RecvHeaders, TypeOK, Fates
    <3>3. queue' \in Seq(Ids)
      <4>1. queue \in Seq(Ids)
        BY DEF TypeOK
      <4> QED
        BY <2>2, <3>1, <4>1, AppendProperties DEF RecvHeaders
    <3>4. refused' \in 0 .. N /\ lastProcessed' \in 0 .. N
      BY <2>2, <3>1 DEF RecvHeaders, TypeOK
    <3> QED
      BY <2>1, <2>2, <3>2, <3>3, <3>4 DEF RecvHeaders, TypeOK
  <2>3. CASE RecvMalformedHeaders
    <3>1. stream' \in [Ids -> Fates] /\ scheduled' \in BOOLEAN /\ waiting' \subseteq waiting
      BY <2>3 DEF RecvMalformedHeaders, WakeTask, TypeOK, Fates
    <3> QED
      BY <2>1, <2>3, <3>1 DEF RecvMalformedHeaders, TypeOK
  <2>4. CASE RecvReset
    <3>1. stream' \in [Ids -> Fates]
      BY <2>4 DEF RecvReset, TypeOK, Fates
    <3> QED
      BY <2>1, <2>4, <3>1 DEF RecvReset, TypeOK
  <2>5. CASE RecvSettings
    <3>1. frame.arg \in {"good", "bad"}
      BY <2>1, <2>5, ReadType DEF RecvSettings
    <3> QED
      BY <2>1, <2>5, <3>1 DEF RecvSettings, TypeOK
  <2>6. CASE RecvSettingsAck
    <3>1. CASE local = "waitingAck"
      BY <2>1, <2>6, <3>1 DEF RecvSettingsAck, TypeOK
    <3>2. CASE local # "waitingAck"
      <4>1. ConnError("PROTOCOL_ERROR") /\ "PROTOCOL_ERROR" \in Reasons
        BY <2>6, <3>2 DEF RecvSettingsAck, Reasons
      <4>2. /\ pc' \in {"closing", "poll"} /\ closing' \in {"PROTOCOL_ERROR", closing}
            /\ goAway' \in GoAways /\ stream' \in [Ids -> Fates] /\ erred' = TRUE
        BY <4>1, ConnErrorType
      <4> QED
        BY <2>1, <2>6, <3>2, <4>1, <4>2 DEF RecvSettingsAck, TypeOK
    <3> QED
      BY <3>1, <3>2
  <2>7. CASE RecvShutdownAck
    <3>1. goAway.closeNow \in BOOLEAN /\ goAway.user \in BOOLEAN /\ lastProcessed \in 0 .. MaxId
      BY DEF TypeOK, GoAways
    <3>2. goAway' \in GoAways
      BY <2>7, <3>1, AnnounceType DEF RecvShutdownAck, Reasons, TypeOK
    <3> QED
      BY <2>1, <2>7, <3>1, <3>2 DEF RecvShutdownAck, TypeOK
  <2>8. CASE RecvGoAway
    <3>1. frame.arg \in Reasons /\ stream' \in [Ids -> Fates]
      BY <2>1, <2>8, ReadType, FailAboveType DEF RecvGoAway
    <3> QED
      BY <2>1, <2>8, <3>1 DEF RecvGoAway, TypeOK
  <2>9. CASE RecvViolation
    <3>1. ConnError("PROTOCOL_ERROR") /\ "PROTOCOL_ERROR" \in Reasons
      BY <2>9 DEF RecvViolation, Reasons
    <3>2. /\ pc' \in {"closing", "poll"} /\ closing' \in {"PROTOCOL_ERROR", closing}
          /\ goAway' \in GoAways /\ stream' \in [Ids -> Fates] /\ erred' = TRUE
      BY <3>1, ConnErrorType
    <3> QED
      BY <2>1, <2>9, <3>1, <3>2 DEF RecvViolation, TypeOK
  <2>10. CASE RecvEof
    <3>1. stream' \in [Ids -> Fates]
      BY <2>10, FailAboveType DEF RecvEof
    <3> QED
      BY <2>1, <2>10, <3>1 DEF RecvEof, TypeOK, Reasons
  <2> QED
    BY <1>10, <2>2, <2>3, <2>4, <2>5, <2>6, <2>7, <2>8, <2>9, <2>10 DEF Receiving
<1>11. CASE ClientMoves
  <2>1. PICK frame \in ClientFrames : Sends(frame)
    <3>1. ASSUME NEW arg \in {"good", "malformed"}, ClientOpens(arg)
          PROVE  \E frame \in ClientFrames : Sends(frame)
      <4>1. client.opened + 1 \in Ids
        BY <3>1 DEF ClientOpens, TypeOK, Clients
      <4> QED
        BY <3>1, <4>1 DEF ClientOpens, Starts, Frame, ClientFrames
    <3>2. ASSUME NEW s \in Ids, ClientResets(s)
          PROVE  \E frame \in ClientFrames : Sends(frame)
      BY <3>2 DEF ClientResets, Starts, Frame, ClientFrames
    <3>3. ASSUME NEW arg \in {"good", "bad"}, ClientSettings(arg)
          PROVE  \E frame \in ClientFrames : Sends(frame)
      BY <3>3 DEF ClientSettings, Starts, Frame, ClientFrames
    <3>4. ASSUME NEW last \in {0, MaxId}, NEW reason \in Reasons, ClientGoesAway(last, reason)
          PROVE  \E frame \in ClientFrames : Sends(frame)
      BY <3>4 DEF ClientGoesAway, Starts, Frame, ClientFrames
    <3>5. ASSUME NEW kind \in {"VIOLATION", "EOF"}, ClientEnds(kind)
          PROVE  \E frame \in ClientFrames : Sends(frame)
      BY <3>5 DEF ClientEnds, Starts, Frame, ClientFrames
    <3> QED
      BY <1>11, <3>1, <3>2, <3>3, <3>4, <3>5 DEF ClientMoves, Reasons
  <2>2. inbox' \in Seq(ClientFrames) /\ scheduled' \in BOOLEAN /\ waiting' \subseteq waiting
    <3>1. inbox \in Seq(ClientFrames)
      BY DEF TypeOK
    <3> QED
      BY <2>1, <3>1, AppendProperties DEF Sends, TypeOK
  <2>3. client' \in Clients
    <3>1. ASSUME NEW arg, ClientOpens(arg) PROVE client' \in Clients
      <4>1. client.opened + 1 \in 0 .. N /\ client \in Clients
        BY <3>1 DEF ClientOpens, TypeOK, Clients
      <4> QED
        BY <3>1, <4>1 DEF ClientOpens, Clients
    <3>2. ASSUME NEW s \in Ids, ClientResets(s) PROVE client' \in Clients
      BY <3>2 DEF ClientResets, TypeOK, Clients
    <3>3. ASSUME NEW arg, ClientSettings(arg) PROVE client' \in Clients
      BY <3>3 DEF ClientSettings, TypeOK, Clients
    <3>4. ASSUME NEW last, NEW reason, ClientGoesAway(last, reason) PROVE client' \in Clients
      BY <3>4 DEF ClientGoesAway, TypeOK, Clients
    <3>5. ASSUME NEW kind, ClientEnds(kind) PROVE client' \in Clients
      BY <3>5 DEF ClientEnds, TypeOK, Clients
    <3> QED
      BY <1>11, <3>1, <3>2, <3>3, <3>4, <3>5 DEF ClientMoves
  <2>4. ClientUnchanged
    BY <1>11 DEF ClientMoves, ClientOpens, ClientResets, ClientSettings, ClientGoesAway,
      ClientEnds
  <2> QED
    BY <2>2, <2>3, <2>4 DEF ClientUnchanged, TypeOK
<1>12. CASE ClientReads
  <2>1. outbox \in Seq(ServerFrames) /\ outbox # <<>> /\ inbox \in Seq(ClientFrames)
    BY <1>12 DEF ClientReads, TypeOK
  <2>2. Tail(outbox) \in Seq(ServerFrames)
    BY <2>1, HeadTailProperties
  <2>3. /\ Frame("PING_ACK", 0, "good") \in ClientFrames
        /\ Frame("SETTINGS_ACK", 0, "good") \in ClientFrames
    BY DEF Frame, ClientFrames
  <2>4. \A frame \in ClientFrames : Sends(frame) =>
          inbox' \in Seq(ClientFrames) /\ scheduled' \in BOOLEAN /\ waiting' \subseteq waiting
    BY <2>1, AppendProperties DEF Sends, TypeOK
  <2>5. inbox' \in Seq(ClientFrames) /\ scheduled' \in BOOLEAN /\ waiting' \subseteq waiting
    BY <1>12, <2>1, <2>3, <2>4 DEF ClientReads, TypeOK
  <2>6. client' \in Clients
    BY <1>12 DEF ClientReads, TypeOK, Clients
  <2> QED
    BY <1>12, <2>2, <2>5, <2>6 DEF ClientReads, TypeOK
<1>13. CASE UNCHANGED vars
  BY <1>13 DEF vars, TypeOK
<1> QED
  BY <1>1, <1>2, <1>3, <1>4, <1>5, <1>6, <1>7, <1>8, <1>9, <1>10, <1>11, <1>12, <1>13
     DEF Next, Owner, Poll, Blocked

\* What a read finds: a frame comes in before the connection closes at once.
LEMMA DueToRead == Due = "read" => ~goAway.pending /\ ~goAway.closeNow
BY DEF Due

\* GOAWAY frames, and the requests between them.
LEMMA AnnounceStep ==
  ASSUME TypeOK, GoAwayInStep, EndsWithoutStreams, [Next]_vars
  PROVE  GoAwayInStep' /\ announced'.last <= announced.last
<1> USE Constants
<1> USE DEF taskVars, settingsVars, recvVars, streamVars, wakeVars, history
<1>0. /\ goAway \in GoAways /\ lastProcessed \in 0 .. N /\ maxId \in 0 .. MaxId
      /\ announced \in [last : 0 .. MaxId, reason : Reasons \cup {"none"}]
      /\ goAway.last \in Int /\ announced.last \in Int /\ goAway.user \in BOOLEAN
  BY DEF TypeOK, GoAways
<1>a. ASSUME NEW reason \in Reasons, NEW user \in BOOLEAN, GoAwayNow(reason, user),
             UNCHANGED <<announced, maxId, lastProcessed, ping>>
      PROVE  GoAwayInStep'
  <2>1. CASE goAway.going /\ goAway' = [goAway EXCEPT !.closeNow = TRUE, !.user = user]
    BY <1>0, <1>a, <2>1 DEF GoAwayInStep, GoAways
  <2>2. CASE Announce(lastProcessed, reason, TRUE, user)
    BY <1>0, <1>a, <2>2 DEF GoAwayInStep, Announce
  <2> QED
    BY <1>a, <2>1, <2>2 DEF GoAwayNow
<1>b. ASSUME NEW reason \in Reasons, ConnError(reason),
             UNCHANGED <<announced, maxId, lastProcessed, ping>>
      PROVE  GoAwayInStep'
  BY <1>0, <1>a, <1>b DEF ConnError, GoAwayInStep
<1>1. CASE Graceful
  BY <1>0, <1>1 DEF Graceful, OwnerCalls, Announce, GoAwayInStep
<1>2. CASE Abrupt
  <2>1. GoAwayNow("USER", TRUE) /\ "USER" \in Reasons /\ TRUE \in BOOLEAN
    BY <1>2 DEF Abrupt, Reasons
  <2>2. UNCHANGED <<announced, maxId, lastProcessed, ping>>
    BY <1>2 DEF Abrupt
  <2>3. GoAwayInStep'
    BY <2>1, <2>2, <1>a, Zenon
  <2> QED
    BY <1>0, <2>2, <2>3
<1>3. CASE SendGoAway
  BY <1>0, <1>3 DEF SendGoAway, GoAwayInStep, GoAways, Written, Due
<1>4. CASE SendSettingsAck
  BY <1>0, <1>4, <1>b DEF SendSettingsAck, GoAwayInStep, Reasons
<1>5. CASE Idle
  <2>1. CASE GoAwayNow("NO_ERROR", goAway.user)
    BY <1>0, <1>5, <2>1, <1>a DEF Idle, Reasons
  <2>2. CASE UNCHANGED goAway
    BY <1>0, <1>5, <2>2 DEF Idle, GoAwayInStep
  <2> QED
    BY <1>5, <2>1, <2>2 DEF Idle
<1>6. CASE RecvSettingsAck
  BY <1>0, <1>6, <1>b DEF RecvSettingsAck, GoAwayInStep, Reasons
<1>7. CASE RecvViolation
  BY <1>0, <1>7, <1>b DEF RecvViolation, Reasons
<1>8. CASE RecvShutdownAck
  BY <1>0, <1>8, DueToRead DEF RecvShutdownAck, Read, Announce, GoAwayInStep
<1>9. CASE RecvHeaders
  <2>1. Head(inbox).id \in Ids
    BY <1>9, ReadType, FrameFields DEF RecvHeaders
  <2>2. lastProcessed' <= maxId /\ lastProcessed' \in 0 .. N
    BY <1>0, <1>9, <2>1 DEF RecvHeaders, GoAwayInStep
  <2>3. ~goAway.closeNow
    BY <1>9, DueToRead DEF RecvHeaders, Read
  <2> QED
    BY <1>0, <1>9, <2>2, <2>3 DEF RecvHeaders, GoAwayInStep
<1>10. CASE SendShutdownPing
  BY <1>0, <1>10 DEF SendShutdownPing, Written, Due, GoAwayInStep
<1>11. CASE UNCHANGED <<goAway, announced, maxId, lastProcessed, ping>>
  BY <1>0, <1>11 DEF GoAwayInStep
<1>12. CASE SetInitialWindow \/ Accept \/ Users \/ Begin \/ Leave \/ NothingToRead \/ Blocked
            \/ CompleteReady \/ CloseReady \/ Writable \/ SendLocalSettings \/ SendRefusal
            \/ RecvMalformedHeaders \/ RecvReset \/ RecvSettings \/ RecvGoAway \/ RecvEof
  BY <1>11, <1>12 DEF SetInitialWindow, Accept, Users, Answer, Drop, Gives, Begin, Leave,
    NothingToRead, Blocked, Block, CompleteBlocked, CloseBlocked, CompleteReady, CloseReady,
    Writable, SendLocalSettings, SendRefusal, RecvMalformedHeaders, RecvReset, RecvSettings,
    RecvGoAway, RecvEof
<1>13. CASE ClientMoves \/ ClientReads \/ UNCHANGED vars
  BY <1>11, <1>13 DEF ClientMoves, ClientOpens, ClientResets, ClientSettings, ClientGoesAway,
    ClientEnds, ClientReads, ClientUnchanged, vars
<1>14. announced'.last <= announced.last
  <2>1. CASE SendGoAway
    BY <1>0, <2>1 DEF SendGoAway, GoAwayInStep
  <2>2. SendGoAway \/ UNCHANGED announced
    BY DEF Next, Owner, Poll, Sending, Receiving, Blocked, Graceful, Abrupt, SetInitialWindow,
      Accept, Users, Answer, Drop, Gives, Begin, Leave, NothingToRead, Block, CompleteBlocked,
      CloseBlocked, CompleteReady, Idle, CloseReady, Writable, SendShutdownPing,
      SendSettingsAck, SendLocalSettings, SendRefusal, RecvHeaders, RecvMalformedHeaders,
      RecvReset, RecvSettings, RecvSettingsAck, RecvShutdownAck, RecvGoAway, RecvViolation,
      RecvEof, ClientMoves, ClientOpens, ClientResets, ClientSettings, ClientGoesAway,
      ClientEnds, ClientReads, ClientUnchanged, vars
  <2> QED
    BY <1>0, <2>1, <2>2
<1> QED
  BY <1>1, <1>2, <1>3, <1>4, <1>5, <1>6, <1>7, <1>8, <1>9, <1>10, <1>12, <1>13, <1>14
     DEF Next, Owner, Poll, Sending, Receiving

\* An error is met only before the connection closes now, and is then new.
LEMMA ConnErrorIsNew ==
  ASSUME GoAwayInStep, ~goAway.closeNow, ConnError("PROTOCOL_ERROR")
  PROVE  /\ pc' = "poll" /\ closing' = closing /\ erred'
         /\ FailAbove(0) /\ GoAwayNow("PROTOCOL_ERROR", goAway.user)
BY DEF GoAwayInStep, ConnError

\* What GoAwayNow leaves behind.
LEMMA GoAwayNowCloses ==
  ASSUME TypeOK, NEW reason \in Reasons, NEW user \in BOOLEAN, GoAwayNow(reason, user)
  PROVE  goAway'.closeNow /\ goAway'.reason = reason /\ goAway'.user = user
<1>1. goAway \in GoAways
  BY DEF TypeOK
<1>2. CASE Announce(lastProcessed, reason, TRUE, user)
  BY <1>2 DEF Announce
<1>3. CASE goAway.reason = reason /\ goAway' = [goAway EXCEPT !.closeNow = TRUE, !.user = user]
  BY <1>1, <1>3 DEF GoAways
<1> QED
  BY <1>2, <1>3 DEF GoAwayNow

LEMMA FailAboveZero ==
  ASSUME TypeOK, FailAbove(0)
  PROVE  Live' = {}
BY Constants DEF TypeOK, FailAbove, Live

\* No stream is live when the connection closes, and none comes alive then.
LEMMA LiveStep ==
  ASSUME TypeOK, GoAwayInStep, EndsWithoutStreams, [Next]_vars
  PROVE  EndsWithoutStreams'
<1> USE Constants
<1> USE DEF taskVars, settingsVars, recvVars, streamVars, wakeVars, history
<1>0. goAway \in GoAways /\ stream \in [Ids -> Fates]
  BY DEF TypeOK
<1>a. UNCHANGED stream => Live' = Live
  BY DEF Live
<1>b. ASSUME UNCHANGED <<goAway, closing>>, Live' \subseteq Live,
             pc' = pc \/ (pc = "complete" /\ pc' \in {"parked", "idle"})
      PROVE  EndsWithoutStreams'
  BY <1>b DEF EndsWithoutStreams
<1>c. ASSUME ConnError("PROTOCOL_ERROR"), pc = "poll", ~goAway.closeNow
      PROVE  EndsWithoutStreams'
  BY <1>c, ConnErrorIsNew, FailAboveZero DEF EndsWithoutStreams
<1>1. CASE Graceful
  BY <1>0, <1>1, <1>a DEF Graceful, OwnerCalls, Announce, EndsWithoutStreams
<1>2. CASE Abrupt
  BY <1>2, FailAboveZero DEF Abrupt, OwnerCalls, EndsWithoutStreams
<1>3. CASE Users
  <2>1. PICK s \in Ids, fate \in {"answering", "cancelled"} : Gives(s, fate)
    BY <1>3 DEF Users, Answer, Drop
  <2>2. Live' \subseteq Live
    BY <1>0, <2>1 DEF Gives, Live
  <2> QED
    BY <2>1, <2>2, <1>b DEF Gives
<1>4. CASE Begin
  BY <1>4, <1>a DEF Begin, EndsWithoutStreams
<1>5. CASE SendGoAway
  BY <1>0, <1>5, <1>a DEF SendGoAway, EndsWithoutStreams, GoAways
<1>6. CASE Leave
  <2>1. goAway.closeNow /\ Live = {}
    BY <1>6 DEF Leave, Due, EndsWithoutStreams
  <2>2. closing' # "open"
    BY <1>0, <1>6 DEF Leave, GoAways, Reasons
  <2> QED
    BY <1>6, <1>a, <2>1, <2>2 DEF Leave, EndsWithoutStreams
<1>7. CASE SendSettingsAck
  <2>1. ~goAway.closeNow /\ pc = "poll"
    BY <1>7 DEF SendSettingsAck, Written, Due
  <2>2. CASE ConnError("PROTOCOL_ERROR")
    BY <2>1, <2>2, <1>c
  <2>3. CASE UNCHANGED <<pc, closing, goAway, stream>>
    BY <2>3, <1>a, <1>b
  <2> QED
    BY <1>7, <2>2, <2>3 DEF SendSettingsAck
<1>8. CASE NothingToRead \/ Block \/ CloseBlocked \/ CloseReady
  BY <1>8, <1>a DEF NothingToRead, Block, CloseBlocked, CloseReady, EndsWithoutStreams
<1>9. CASE CompleteReady \/ CompleteBlocked
  <2>1. Live' \subseteq Live
    BY <1>0, <1>9 DEF CompleteReady, CompleteBlocked, Flushed, Live
  <2> QED
    BY <1>9, <2>1, <1>b DEF CompleteReady, CompleteBlocked
<1>10. CASE Idle
  <2>1. CASE Live = {}
    BY <1>10, <1>a, <2>1 DEF Idle, EndsWithoutStreams
  <2>2. CASE Live # {}
    BY <1>10, <1>a, <2>2 DEF Idle, EndsWithoutStreams
  <2> QED
    BY <2>1, <2>2
<1>11. CASE Receiving
  <2>1. pc = "poll" /\ ~goAway.closeNow
    BY <1>11, DueToRead DEF Receiving, Read, RecvHeaders, RecvMalformedHeaders, RecvReset,
      RecvSettings, RecvSettingsAck, RecvShutdownAck, RecvGoAway, RecvViolation, RecvEof
  <2>2. closing = "open"
    BY <2>1 DEF EndsWithoutStreams
  <2>3. CASE UNCHANGED <<goAway, closing, pc>>
    BY <2>1, <2>2, <2>3 DEF EndsWithoutStreams
  <2>4. CASE RecvSettingsAck
    BY <2>1, <2>3, <2>4, <1>c DEF RecvSettingsAck
  <2>5. CASE RecvViolation
    BY <2>1, <2>5, <1>c DEF RecvViolation
  <2>6. CASE RecvShutdownAck
    BY <1>0, <2>1, <2>2, <2>6 DEF RecvShutdownAck, Announce, EndsWithoutStreams
  <2>7. CASE RecvEof
    BY <2>7, FailAboveZero DEF RecvEof, EndsWithoutStreams
  <2> QED
    BY <1>11, <2>3, <2>4, <2>5, <2>6, <2>7 DEF Receiving, RecvHeaders, RecvMalformedHeaders,
      RecvReset, RecvSettings, RecvGoAway
<1>12. CASE UNCHANGED <<goAway, closing, pc, stream>>
  BY <1>12, <1>a, <1>b
<1>13. CASE SetInitialWindow \/ Accept \/ SendShutdownPing \/ SendLocalSettings \/ SendRefusal
            \/ Writable \/ ClientMoves \/ ClientReads \/ UNCHANGED vars
  BY <1>12, <1>13 DEF SetInitialWindow, Accept, SendShutdownPing, SendLocalSettings,
    SendRefusal, Writable, ClientMoves, ClientOpens, ClientResets, ClientSettings,
    ClientGoesAway, ClientEnds, ClientReads, ClientUnchanged, vars
<1> QED
  BY <1>1, <1>2, <1>3, <1>4, <1>5, <1>6, <1>7, <1>8, <1>9, <1>10, <1>11, <1>13
     DEF Next, Owner, Poll, Sending, Blocked

\* A detected error is kept, and a client's GOAWAY is known from its frame on.
LEMMA ErrorStep ==
  ASSUME TypeOK, GoAwayInStep, EndsWithoutStreams, ErrorIsKept, [Next]_vars
  PROVE  ErrorIsKept'
<1> USE Constants
<1> USE DEF taskVars, settingsVars, recvVars, streamVars, wakeVars, history
<1>0. goAway \in GoAways /\ client \in Clients /\ inbox \in Seq(ClientFrames)
      /\ goAway.user \in BOOLEAN
  BY DEF TypeOK, GoAways
<1> DEFINE GoAwayKnown == /\ theirs # "none" => client.goaway
                          /\ \A i \in DOMAIN inbox : inbox[i].kind = "GOAWAY" => client.goaway
           Kept == /\ erred => goAway.closeNow
                   /\ erred /\ ~goAway.user /\ ~client.goaway =>
                        /\ goAway.reason = "PROTOCOL_ERROR"
                        /\ closing # "open" => /\ closing = "PROTOCOL_ERROR"
                                               /\ announced.reason = "PROTOCOL_ERROR"
<1>1. GoAwayKnown'
  <2>a. ASSUME NEW frame, frame.kind # "GOAWAY" \/ client'.goaway, Sends(frame),
               client.goaway => client'.goaway, UNCHANGED theirs
        PROVE  GoAwayKnown'
    <3>1. \A i \in DOMAIN inbox' : inbox'[i] = IF i \in DOMAIN inbox THEN inbox[i] ELSE frame
      BY <1>0, <2>a, AppendProperties DEF Sends
    <3> QED
      BY <2>a, <3>1 DEF ErrorIsKept
  <2>b. CASE UNCHANGED <<inbox, theirs>> /\ (client.goaway => client'.goaway)
    BY <2>b DEF ErrorIsKept
  <2>1. CASE Receiving
    <3>1. inbox # <<>> /\ inbox' = Tail(inbox) /\ UNCHANGED client
      BY <2>1 DEF Receiving, Read, RecvHeaders, RecvMalformedHeaders, RecvReset,
        RecvSettings, RecvSettingsAck, RecvShutdownAck, RecvGoAway, RecvViolation, RecvEof
    <3>2. \A i \in DOMAIN inbox' : i + 1 \in DOMAIN inbox /\ inbox'[i] = inbox[i + 1]
      BY <3>1, HeadOfInbox
    <3>3. UNCHANGED theirs \/ (inbox[1].kind = "GOAWAY" /\ 1 \in DOMAIN inbox)
      BY <2>1, <3>1, HeadOfInbox DEF Receiving, Read, RecvHeaders, RecvMalformedHeaders,
        RecvReset, RecvSettings, RecvSettingsAck, RecvShutdownAck, RecvGoAway, RecvViolation,
        RecvEof
    <3> QED
      BY <3>1, <3>2, <3>3 DEF ErrorIsKept
  <2>2. CASE ClientMoves
    <3>1. ASSUME NEW arg, ClientOpens(arg) PROVE GoAwayKnown'
      BY <1>0, <3>1, <2>a DEF ClientOpens, Starts, Frame, ClientUnchanged, Clients
    <3>2. ASSUME NEW s, ClientResets(s) PROVE GoAwayKnown'
      BY <1>0, <3>2, <2>a DEF ClientResets, Starts, Frame, ClientUnchanged, Clients
    <3>3. ASSUME NEW arg, ClientSettings(arg) PROVE GoAwayKnown'
      BY <1>0, <3>3, <2>a DEF ClientSettings, Starts, Frame, ClientUnchanged, Clients
    <3>4. ASSUME NEW last, NEW reason, ClientGoesAway(last, reason) PROVE GoAwayKnown'
      BY <1>0, <3>4, <2>a DEF ClientGoesAway, Starts, Frame, ClientUnchanged, Clients
    <3>5. ASSUME NEW kind \in {"VIOLATION", "EOF"}, ClientEnds(kind) PROVE GoAwayKnown'
      BY <1>0, <3>5, <2>a DEF ClientEnds, Starts, Frame, ClientUnchanged, Clients
    <3> QED
      BY <2>2, <3>1, <3>2, <3>3, <3>4, <3>5 DEF ClientMoves
  <2>3. CASE ClientReads
    <3>1. (client.goaway => client'.goaway) /\ UNCHANGED theirs
      BY <1>0, <2>3 DEF ClientReads, Clients
    <3>2. CASE UNCHANGED inbox
      BY <3>1, <3>2, <2>b
    <3>3. CASE \E kind \in {"PING_ACK", "SETTINGS_ACK"} : Sends(Frame(kind, 0, "good"))
      BY <3>1, <3>3, <2>a DEF Frame
    <3> QED
      BY <2>3, <3>2, <3>3 DEF ClientReads
  <2>4. CASE CloseReady
    BY <2>4 DEF CloseReady, ErrorIsKept
  <2>5. CASE Owner \/ Accept \/ Users \/ Sending \/ Begin \/ Leave \/ NothingToRead \/ Blocked
             \/ CompleteReady \/ Idle \/ Writable \/ UNCHANGED vars
    BY <2>5, <2>b DEF Owner, Graceful, Abrupt, SetInitialWindow, Accept, Users, Answer, Drop,
      Gives, Sending, SendGoAway, SendShutdownPing, SendSettingsAck, SendLocalSettings,
      SendRefusal, Begin, Leave, NothingToRead, Blocked, Block, CompleteBlocked, CloseBlocked,
      CompleteReady, Idle, Writable, vars
  <2> QED
    BY <2>1, <2>2, <2>3, <2>4, <2>5 DEF Next, Poll
<1>2. Kept'
  <2>a. ASSUME ConnError("PROTOCOL_ERROR"), pc = "poll", ~goAway.closeNow
        PROVE  Kept'
    <3>1. /\ goAway'.closeNow /\ goAway'.reason = "PROTOCOL_ERROR"
          /\ closing' = closing
      BY <1>0, <2>a, ConnErrorIsNew, GoAwayNowCloses DEF Reasons
    <3>2. closing = "open"
      BY <2>a DEF EndsWithoutStreams
    <3> QED
      BY <3>1, <3>2
  <2>b. CASE UNCHANGED <<goAway, closing, announced, erred>> /\ (client.goaway => client'.goaway)
    BY <2>b DEF ErrorIsKept
  <2>1. CASE Graceful
    BY <2>1 DEF Graceful, Announce, GoAwayInStep, ErrorIsKept
  <2>2. CASE Abrupt
    <3>1. GoAwayNow("USER", TRUE) /\ "USER" \in Reasons /\ TRUE \in BOOLEAN
      BY <2>2 DEF Abrupt, Reasons
    <3>2. goAway'.closeNow /\ goAway'.user
      BY <3>1, GoAwayNowCloses
    <3> QED
      BY <3>2
  <2>3. CASE SendGoAway
    <3>1. pc = "poll" /\ closing = "open"
      BY <2>3 DEF SendGoAway, Written, EndsWithoutStreams
    <3> QED
      BY <1>0, <2>3, <3>1 DEF SendGoAway, GoAways, ErrorIsKept
  <2>4. CASE SendSettingsAck
    <3>1. ~goAway.closeNow /\ pc = "poll"
      BY <2>4 DEF SendSettingsAck, Written, Due
    <3>2. CASE remote = "bad"
      BY <2>4, <3>1, <3>2, <2>a DEF SendSettingsAck
    <3>3. CASE remote # "bad"
      BY <2>4, <3>3, <2>b DEF SendSettingsAck
    <3> QED
      BY <3>2, <3>3
  <2>5. CASE Leave
    <3>1. goAway.reason = announced.reason
      BY <2>5 DEF Leave, Due, GoAwayInStep
    <3> QED
      BY <2>5, <3>1 DEF Leave, ErrorIsKept
  <2>6. CASE Idle
    <3>1. CASE GoAwayNow("NO_ERROR", goAway.user) /\ (theirs # "none" \/ ~goAway.closeNow)
      <4>1. goAway'.closeNow
        BY <1>0, <3>1, GoAwayNowCloses DEF Reasons
      <4>2. client.goaway \/ ~erred
        BY <3>1 DEF ErrorIsKept
      <4> QED
        BY <2>6, <4>1, <4>2 DEF Idle
    <3>2. CASE UNCHANGED goAway
      BY <2>6, <3>2, <2>b DEF Idle
    <3> QED
      BY <2>6, <3>1, <3>2 DEF Idle, ShouldCloseOnIdle
  <2>7. CASE Receiving
    <3>1. pc = "poll" /\ ~goAway.closeNow
      BY <2>7, DueToRead DEF Receiving, Read, RecvHeaders, RecvMalformedHeaders, RecvReset,
        RecvSettings, RecvSettingsAck, RecvShutdownAck, RecvGoAway, RecvViolation, RecvEof
    <3>2. ~erred
      BY <3>1 DEF ErrorIsKept
    <3>3. CASE UNCHANGED erred
      BY <3>2, <3>3
    <3>4. CASE ConnError("PROTOCOL_ERROR")
      BY <3>1, <3>4, <2>a
    <3> QED
      BY <2>7, <3>3, <3>4 DEF Receiving, RecvHeaders, RecvMalformedHeaders, RecvReset,
        RecvSettings, RecvSettingsAck, RecvShutdownAck, RecvGoAway, RecvViolation, RecvEof
  <2>8. client.goaway => client'.goaway
    <3>1. CASE ClientMoves \/ ClientReads
      BY <1>0, <3>1 DEF ClientMoves, ClientOpens, ClientResets, ClientSettings, ClientGoesAway,
        ClientEnds, ClientReads, Clients
    <3>2. CASE UNCHANGED client
      BY <3>2
    <3> QED
      BY <3>1, <3>2 DEF Next, Owner, Poll, Sending, Receiving, Blocked, Graceful, Abrupt,
        SetInitialWindow, Accept, Users, Answer, Drop, Gives, Begin, Leave, NothingToRead,
        Block, CompleteBlocked, CloseBlocked, CompleteReady, Idle, CloseReady, Writable,
        SendGoAway, SendShutdownPing, SendSettingsAck, SendLocalSettings, SendRefusal,
        RecvHeaders, RecvMalformedHeaders, RecvReset, RecvSettings, RecvSettingsAck,
        RecvShutdownAck, RecvGoAway, RecvViolation, RecvEof, vars
  <2>9. CASE SetInitialWindow \/ Accept \/ Users \/ Begin \/ SendShutdownPing
             \/ SendLocalSettings \/ SendRefusal \/ NothingToRead \/ Blocked \/ CompleteReady
             \/ CloseReady \/ Writable \/ ClientMoves \/ ClientReads \/ UNCHANGED vars
    BY <2>9, <2>8, <2>b DEF SetInitialWindow, Accept, Users, Answer, Drop, Gives, Begin,
      SendShutdownPing, SendLocalSettings, SendRefusal, NothingToRead, Blocked, Block,
      CompleteBlocked, CloseBlocked, CompleteReady, CloseReady, Writable, ClientMoves,
      ClientOpens, ClientResets, ClientSettings, ClientGoesAway, ClientEnds, ClientReads,
      ClientUnchanged, vars
  <2> QED
    BY <2>1, <2>2, <2>3, <2>4, <2>5, <2>6, <2>7, <2>9 DEF Next, Owner, Poll, Sending
<1> QED
  BY <1>1, <1>2 DEF ErrorIsKept

\* ErrorIsTold, from the error that was kept.
LEMMA ToldStep ==
  ASSUME TypeOK, EndsWithoutStreams, ErrorIsKept, ErrorIsTold, [Next]_vars
  PROVE  ErrorIsTold'
<1> USE DEF taskVars, settingsVars, recvVars, streamVars, wakeVars, history
<1>1. CASE CloseReady
  <2> SUFFICES ASSUME erred, ~goAway.user, ~client.goaway
               PROVE  outcome' = "PROTOCOL_ERROR" /\ announced.reason = "PROTOCOL_ERROR"
    BY <1>1 DEF CloseReady, ErrorIsTold
  <2>1. closing = "PROTOCOL_ERROR" /\ announced.reason = "PROTOCOL_ERROR" /\ theirs = "none"
    BY <1>1 DEF CloseReady, EndsWithoutStreams, ErrorIsKept
  <2> QED
    BY <1>1, <2>1 DEF CloseReady
<1>2. CASE ClientMoves \/ ClientReads
  <2>1. client.goaway => client'.goaway
    BY <1>2 DEF ClientMoves, ClientOpens, ClientResets, ClientSettings, ClientGoesAway,
      ClientEnds, ClientReads, TypeOK, Clients
  <2>2. UNCHANGED <<pc, erred, goAway, outcome, announced>>
    BY <1>2 DEF ClientMoves, ClientOpens, ClientResets, ClientSettings, ClientGoesAway,
      ClientEnds, ClientReads, ClientUnchanged
  <2> QED
    BY <2>1, <2>2 DEF ErrorIsTold
<1>3. CASE UNCHANGED <<pc, erred, goAway, outcome, announced, client>>
  BY <1>3 DEF ErrorIsTold
<1>4. CASE Accept \/ Users \/ Writable \/ UNCHANGED vars
  BY <1>3, <1>4 DEF Accept, Users, Answer, Drop, Gives, Writable, vars
<1>5. CASE pc' # "done"
  BY <1>5 DEF ErrorIsTold
<1>6. CASE Owner \/ Begin \/ Sending \/ Leave \/ NothingToRead \/ Receiving \/ CompleteReady
           \/ Idle \/ Blocked
  BY <1>5, <1>6 DEF Owner, Graceful, Abrupt, SetInitialWindow, OwnerCalls, Begin, Sending,
    SendGoAway, SendShutdownPing, SendSettingsAck, SendLocalSettings, SendRefusal, Written,
    ConnError, Leave, NothingToRead, Receiving, Read, RecvHeaders, RecvMalformedHeaders,
    RecvReset, RecvSettings, RecvSettingsAck, RecvShutdownAck, RecvGoAway, RecvViolation,
    RecvEof, CompleteReady, Idle, Blocked, Block, CompleteBlocked, CloseBlocked
<1> QED
  BY <1>1, <1>2, <1>4, <1>6 DEF Next, Poll

-----------------------------------------------------------------------------
LEMMA InvInit == Init => Inv
<1> SUFFICES ASSUME Init PROVE Inv
  OBVIOUS
<1>1. TypeOK
  <2>1. goAway \in GoAways /\ client \in Clients
    BY Constants DEF Init, GoAways, Clients, Reasons
  <2>2. <<>> \in Seq(Ids) /\ <<>> \in Seq(ClientFrames) /\ <<"SETTINGS">> \in Seq(ServerFrames)
    BY DEF ServerFrames
  <2>3. stream \in [Ids -> Fates]
    BY DEF Init, Fates
  <2>4. scheduled \in BOOLEAN /\ erred \in BOOLEAN
    BY Zenon DEF Init
  <2> QED
    BY Constants, <2>1, <2>2, <2>3, <2>4 DEF Init, TypeOK, Reasons
<1>2. Live = {}
  BY DEF Init, Live
<1>3. GoAwayInStep
  BY Constants DEF Init, GoAwayInStep
<1>4. EndsWithoutStreams
  BY <1>2 DEF Init, EndsWithoutStreams
<1>5. ErrorIsKept /\ ErrorIsTold
  BY DEF Init, ErrorIsKept, ErrorIsTold
<1> QED
  BY <1>1, <1>3, <1>4, <1>5 DEF Inv

LEMMA InvStep == Inv /\ [Next]_vars => Inv'
BY TypeStep, AnnounceStep, LiveStep, ErrorStep, ToldStep DEF Inv

LEMMA Invariance == Spec => []Inv
BY InvInit, InvStep, PTL DEF Spec

\* Every variable of Connection keeps its type.
THEOREM TypeCorrect == Spec => []TypeOK
<1>1. Inv => TypeOK
  BY DEF Inv
<1> QED
  BY <1>1, Invariance, PTL

\* The assertions of GoAway::go_away, Recv::go_away, ping_shutdown and poll2 hold.
THEOREM AssertionsHold == Spec => []NoAssertFails
<1>1. Inv => NoAssertFails
  BY DEF Inv, GoAwayInStep, NoAssertFails
<1> QED
  BY <1>1, Invariance, PTL

\* A request given to the application is within the last id the client knows.
THEOREM RequestsAnnounced == Spec => []ProcessedIsAnnounced
<1>1. Inv => ProcessedIsAnnounced
  <2> SUFFICES ASSUME Inv PROVE lastProcessed <= announced.last
    BY DEF ProcessedIsAnnounced
  <2>1. lastProcessed \in Int /\ goAway.last \in Int /\ announced.last \in Int
    BY Constants DEF Inv, TypeOK, GoAways
  <2> QED
    BY <2>1 DEF Inv, GoAwayInStep
<1> QED
  BY <1>1, Invariance, PTL

\* A GOAWAY never raises the last id of the one before.
THEOREM LastIdNeverGrows == Spec => GoAwayNeverGrows
<1>1. Inv /\ [Next]_vars => [announced'.last <= announced.last]_vars
  BY AnnounceStep DEF Inv
<1> QED
  BY <1>1, Invariance, PTL DEF Spec, GoAwayNeverGrows

\* A connection starts to close when its last stream has ended.
THEOREM NoStreamOutlives == Spec => []ClosesWithoutStreams
<1>1. Inv => ClosesWithoutStreams
  BY DEF Inv, EndsWithoutStreams, ClosesWithoutStreams
<1> QED
  BY <1>1, Invariance, PTL

\* An error the task detects reaches both its owner and the client.
THEOREM ErrorsTold == Spec => []ErrorIsTold
<1>1. Inv => ErrorIsTold
  BY DEF Inv
<1> QED
  BY <1>1, Invariance, PTL

-----------------------------------------------------------------------------
(* A graceful shutdown loses no request, for every number of requests and    *)
(* every limit, when the client opens none after it has read a GOAWAY.  The  *)
(* argument follows the queues: the client acknowledges the shutdown PING    *)
(* after it has read the GOAWAY before it, so that behind the ack there is   *)
(* no HEADERS frame, and the server ignores ids only from the ack on.        *)

\* Nothing but a graceful shutdown ends the connection.
Calm == ~erred /\ ~goAway.user /\ ~client.goaway /\ ~client.ended

\* A request the client sent is on its way until the server knows it, and a
\* stream fails only by a reset of the client.
RequestsArrive ==
  /\ \A s \in Ids : stream[s] = "idle" /\ s <= client.opened =>
       \E i \in DOMAIN inbox : inbox[i].kind = "HEADERS" /\ inbox[i].id = s
  /\ \A i \in DOMAIN inbox : inbox[i].kind = "RST_STREAM" => inbox[i].id \in client.reset
  /\ \A i \in DOMAIN inbox : inbox[i].kind # "EOF"
  /\ \A s \in Ids : stream[s] = "failed" => s \in client.reset
  /\ \A s \in Ids : stream[s] # "ignored"

\* The GOAWAY is before the PING, the requests are before the ack, and from
\* the ack on there are none.
Farewell ==
  /\ goAway.going /\ ~goAway.pending =>
       client.stopped \/ \E k \in DOMAIN outbox : outbox[k] = "GOAWAY"
  /\ \A j \in DOMAIN outbox : outbox[j] = "PING" =>
       client.stopped \/ \E k \in DOMAIN outbox : k < j /\ outbox[k] = "GOAWAY"
  /\ \A i \in DOMAIN inbox : inbox[i].kind = "PING_ACK" =>
       client.stopped /\ \A k \in DOMAIN inbox : i < k => inbox[k].kind # "HEADERS"
  /\ maxId # MaxId \/ goAway.last # MaxId =>
       client.stopped /\ \A k \in DOMAIN inbox : inbox[k].kind # "HEADERS"

\* The connection closes after the second GOAWAY, with nothing left to write.
Settled ==
  /\ closing # "open" => goAway.closeNow
  /\ goAway.closeNow => /\ goAway.last # MaxId
                        /\ \A s \in Ids : stream[s] \notin {"open", "answering", "rejected"}
  /\ pc = "idle" => \A s \in Ids : stream[s] # "rejected"

\* The inductive invariant, beside Inv.
NothingIsLost == Calm => RequestsArrive /\ Farewell /\ Settled

-----------------------------------------------------------------------------
(* The queues.                                                               *)

LEMMA InboxAppend ==
  ASSUME TypeOK, NEW frame \in ClientFrames, inbox' = Append(inbox, frame)
  PROVE  /\ Len(inbox) \in Nat /\ DOMAIN inbox = 1 .. Len(inbox)
         /\ DOMAIN inbox' = 1 .. Len(inbox) + 1
         /\ \A i \in DOMAIN inbox : inbox'[i] = inbox[i]
         /\ inbox'[Len(inbox) + 1] = frame
<1>1. inbox \in Seq(ClientFrames)
  BY DEF TypeOK
<1> QED
  BY <1>1, AppendProperties

LEMMA InboxTail ==
  ASSUME TypeOK, inbox # <<>>, inbox' = Tail(inbox)
  PROVE  /\ Len(inbox) \in Nat \ {0} /\ DOMAIN inbox = 1 .. Len(inbox)
         /\ DOMAIN inbox' = 1 .. Len(inbox) - 1
         /\ \A i \in DOMAIN inbox' : inbox'[i] = inbox[i + 1]
         /\ Head(inbox) = inbox[1]
<1>1. inbox \in Seq(ClientFrames) /\ Len(inbox) \in Nat \ {0}
  BY EmptySeq DEF TypeOK
<1> QED
  BY <1>1, HeadTailProperties

LEMMA OutboxAppend ==
  ASSUME TypeOK, NEW frame \in ServerFrames, outbox' = Append(outbox, frame)
  PROVE  /\ Len(outbox) \in Nat /\ DOMAIN outbox = 1 .. Len(outbox)
         /\ DOMAIN outbox' = 1 .. Len(outbox) + 1
         /\ \A i \in DOMAIN outbox : outbox'[i] = outbox[i]
         /\ outbox'[Len(outbox) + 1] = frame
<1>1. outbox \in Seq(ServerFrames)
  BY DEF TypeOK
<1> QED
  BY <1>1, AppendProperties

LEMMA OutboxTail ==
  ASSUME TypeOK, outbox # <<>>, outbox' = Tail(outbox)
  PROVE  /\ Len(outbox) \in Nat \ {0} /\ DOMAIN outbox = 1 .. Len(outbox)
         /\ DOMAIN outbox' = 1 .. Len(outbox) - 1
         /\ \A i \in DOMAIN outbox' : outbox'[i] = outbox[i + 1]
         /\ Head(outbox) = outbox[1]
<1>1. outbox \in Seq(ServerFrames) /\ Len(outbox) \in Nat \ {0}
  BY EmptySeq DEF TypeOK
<1> QED
  BY <1>1, HeadTailProperties

-----------------------------------------------------------------------------
(* RequestsArrive: what disturbs the streams, the inbox or what the client sent.   *)

LEMMA RequestsKept ==
  ASSUME RequestsArrive, UNCHANGED inbox,
         client'.opened = client.opened, client'.reset = client.reset,
         \A s \in Ids : /\ stream'[s] = "idle" => stream[s] = "idle"
                        /\ stream'[s] = "failed" => stream[s] = "failed"
                        /\ stream'[s] # "ignored"
  PROVE  RequestsArrive'
BY DEF RequestsArrive

LEMMA RequestsRead ==
  ASSUME TypeOK, RequestsArrive, NEW kind, Read(kind), UNCHANGED client,
         \A s \in Ids : /\ stream'[s] = "idle" =>
                             stream[s] = "idle" /\ ~(kind = "HEADERS" /\ Head(inbox).id = s)
                        /\ stream'[s] = "failed" => stream[s] = "failed" \/ s \in client.reset
                        /\ stream'[s] # "ignored"
  PROVE  RequestsArrive'
<1>1. inbox # <<>> /\ inbox' = Tail(inbox) /\ Head(inbox).kind = kind
  BY DEF Read
<1>2. ASSUME NEW s \in Ids, stream'[s] = "idle", s <= client'.opened
      PROVE  \E i \in DOMAIN inbox' : inbox'[i].kind = "HEADERS" /\ inbox'[i].id = s
  <2>1. PICK i \in DOMAIN inbox : inbox[i].kind = "HEADERS" /\ inbox[i].id = s
    BY <1>2 DEF RequestsArrive
  <2>2. i # 1
    BY <1>1, <1>2, <2>1, InboxTail
  <2>3. i - 1 \in DOMAIN inbox' /\ inbox'[i - 1] = inbox[i]
    BY <1>1, <2>1, <2>2, InboxTail
  <2> QED
    BY <2>1, <2>3
<1>3. \A i \in DOMAIN inbox' : i + 1 \in DOMAIN inbox /\ inbox'[i] = inbox[i + 1]
  BY <1>1, InboxTail
<1>4. /\ \A i \in DOMAIN inbox' : inbox'[i].kind = "RST_STREAM" => inbox'[i].id \in client'.reset
      /\ \A i \in DOMAIN inbox' : inbox'[i].kind # "EOF"
  BY <1>3 DEF RequestsArrive
<1>5. \A s \in Ids : /\ stream'[s] = "failed" => s \in client'.reset
                     /\ stream'[s] # "ignored"
  BY DEF RequestsArrive
<1> QED
  BY <1>2, <1>4, <1>5 DEF RequestsArrive

LEMMA RequestsSent ==
  ASSUME TypeOK, RequestsArrive, NEW frame \in ClientFrames, inbox' = Append(inbox, frame),
         UNCHANGED stream, frame.kind # "EOF",
         client.reset \subseteq client'.reset,
         frame.kind = "RST_STREAM" => frame.id \in client'.reset,
         \/ client'.opened = client.opened
         \/ /\ client'.opened = client.opened + 1
            /\ frame.kind = "HEADERS" /\ frame.id = client'.opened
  PROVE  RequestsArrive'
<1>1. /\ \A i \in DOMAIN inbox : i \in DOMAIN inbox' /\ inbox'[i] = inbox[i]
      /\ \A i \in DOMAIN inbox' : i \in DOMAIN inbox \/ inbox'[i] = frame
      /\ \E i \in DOMAIN inbox' : inbox'[i] = frame
  BY InboxAppend
<1>2. client.opened \in Nat /\ Ids \subseteq Nat
  BY DEF TypeOK, Clients, Ids
<1>3. ASSUME NEW s \in Ids, stream'[s] = "idle", s <= client'.opened
      PROVE  \E i \in DOMAIN inbox' : inbox'[i].kind = "HEADERS" /\ inbox'[i].id = s
  <2>1. CASE s <= client.opened
    BY <1>1, <1>3, <2>1 DEF RequestsArrive
  <2>2. CASE ~(s <= client.opened)
    <3>1. frame.kind = "HEADERS" /\ frame.id = s
      BY <1>2, <1>3, <2>2
    <3> QED
      BY <1>1, <3>1
  <2> QED
    BY <2>1, <2>2
<1>4. /\ \A i \in DOMAIN inbox' : inbox'[i].kind = "RST_STREAM" => inbox'[i].id \in client'.reset
      /\ \A i \in DOMAIN inbox' : inbox'[i].kind # "EOF"
  BY <1>1 DEF RequestsArrive
<1>5. \A s \in Ids : /\ stream'[s] = "failed" => s \in client'.reset
                     /\ stream'[s] # "ignored"
  BY DEF RequestsArrive
<1> QED
  BY <1>3, <1>4, <1>5 DEF RequestsArrive

-----------------------------------------------------------------------------
(* Farewell: what disturbs the queues or the GOAWAY.                         *)

LEMMA FarewellKept ==
  ASSUME Farewell, UNCHANGED <<inbox, outbox>>, client'.stopped = client.stopped,
         goAway'.going /\ ~goAway'.pending => goAway.going /\ ~goAway.pending,
         maxId' # MaxId \/ goAway'.last # MaxId => maxId # MaxId \/ goAway.last # MaxId
  PROVE  Farewell'
BY DEF Farewell

\* The PING is written after a GOAWAY.
LEMMA FarewellWritten ==
  ASSUME TypeOK, Farewell, NEW frame \in ServerFrames, Written(frame),
         UNCHANGED <<inbox, client, maxId>>, goAway'.last = goAway.last,
         goAway'.going /\ ~goAway'.pending =>
           (goAway.going /\ ~goAway.pending) \/ frame = "GOAWAY",
         frame = "PING" => goAway.going /\ ~goAway.pending
  PROVE  Farewell'
<1> DEFINE n == Len(outbox)
<1>1. /\ n \in Nat /\ DOMAIN outbox = 1 .. n /\ DOMAIN outbox' = 1 .. n + 1
      /\ \A i \in DOMAIN outbox : outbox'[i] = outbox[i]
      /\ outbox'[n + 1] = frame
  BY OutboxAppend DEF Written
<1>2. goAway'.going /\ ~goAway'.pending =>
        client'.stopped \/ \E k \in DOMAIN outbox' : outbox'[k] = "GOAWAY"
  BY <1>1 DEF Farewell
<1>3. ASSUME NEW j \in DOMAIN outbox', outbox'[j] = "PING", ~client'.stopped
      PROVE  \E k \in DOMAIN outbox' : k < j /\ outbox'[k] = "GOAWAY"
  <2>1. CASE j \in DOMAIN outbox
    <3>1. PICK k \in DOMAIN outbox : k < j /\ outbox[k] = "GOAWAY"
      BY <1>1, <1>3, <2>1 DEF Farewell
    <3> QED
      BY <1>1, <3>1
  <2>2. CASE j \notin DOMAIN outbox
    <3>1. j = n + 1 /\ frame = "PING"
      BY <1>1, <1>3, <2>2
    <3>2. PICK k \in DOMAIN outbox : outbox[k] = "GOAWAY"
      BY <1>3, <3>1 DEF Farewell
    <3> QED
      BY <1>1, <3>1, <3>2
  <2> QED
    BY <2>1, <2>2
<1>4. /\ \A i \in DOMAIN inbox' : inbox'[i].kind = "PING_ACK" =>
           client'.stopped /\ \A k \in DOMAIN inbox' : i < k => inbox'[k].kind # "HEADERS"
      /\ maxId' # MaxId \/ goAway'.last # MaxId =>
           client'.stopped /\ \A k \in DOMAIN inbox' : inbox'[k].kind # "HEADERS"
  BY DEF Farewell
<1> QED
  BY <1>2, <1>3, <1>4 DEF Farewell

\* Only the ack makes the server ignore ids.
LEMMA FarewellRead ==
  ASSUME TypeOK, Farewell, NEW kind, Read(kind), UNCHANGED <<outbox, client>>,
         goAway'.going /\ ~goAway'.pending => goAway.going /\ ~goAway.pending,
         maxId' # MaxId \/ goAway'.last # MaxId =>
           maxId # MaxId \/ goAway.last # MaxId \/ kind = "PING_ACK"
  PROVE  Farewell'
<1>1. inbox # <<>> /\ inbox' = Tail(inbox) /\ Head(inbox).kind = kind
  BY DEF Read
<1>2. /\ Len(inbox) \in Nat \ {0} /\ DOMAIN inbox = 1 .. Len(inbox)
      /\ DOMAIN inbox' = 1 .. Len(inbox) - 1
      /\ \A i \in DOMAIN inbox' : inbox'[i] = inbox[i + 1]
      /\ Head(inbox) = inbox[1]
  BY <1>1, InboxTail
<1>3. ASSUME NEW i \in DOMAIN inbox', inbox'[i].kind = "PING_ACK"
      PROVE  client'.stopped /\ \A k \in DOMAIN inbox' : i < k => inbox'[k].kind # "HEADERS"
  <2>1. i + 1 \in DOMAIN inbox /\ inbox[i + 1].kind = "PING_ACK"
    BY <1>2, <1>3
  <2>2. client.stopped /\ \A k \in DOMAIN inbox : i + 1 < k => inbox[k].kind # "HEADERS"
    BY <2>1 DEF Farewell
  <2> QED
    BY <1>2, <2>2
<1>4. ASSUME maxId' # MaxId \/ goAway'.last # MaxId
      PROVE  client'.stopped /\ \A k \in DOMAIN inbox' : inbox'[k].kind # "HEADERS"
  <2>1. CASE maxId # MaxId \/ goAway.last # MaxId
    BY <1>2, <2>1 DEF Farewell
  <2>2. CASE kind = "PING_ACK"
    <3>1. 1 \in DOMAIN inbox /\ inbox[1].kind = "PING_ACK"
      BY <1>1, <1>2, <2>2
    <3>2. client.stopped /\ \A k \in DOMAIN inbox : 1 < k => inbox[k].kind # "HEADERS"
      BY <3>1 DEF Farewell
    <3> QED
      BY <1>2, <3>2
  <2> QED
    BY <1>4, <2>1, <2>2
<1>5. /\ goAway'.going /\ ~goAway'.pending =>
           client'.stopped \/ \E k \in DOMAIN outbox' : outbox'[k] = "GOAWAY"
      /\ \A j \in DOMAIN outbox' : outbox'[j] = "PING" =>
           client'.stopped \/ \E k \in DOMAIN outbox' : k < j /\ outbox'[k] = "GOAWAY"
  BY DEF Farewell
<1> QED
  BY <1>3, <1>4, <1>5 DEF Farewell

\* A client that has stopped opens nothing.
LEMMA FarewellSent ==
  ASSUME TypeOK, Farewell, NEW frame \in ClientFrames, inbox' = Append(inbox, frame),
         UNCHANGED <<outbox, goAway, maxId>>, client'.stopped = client.stopped,
         frame.kind = "HEADERS" => ~client.stopped, frame.kind # "PING_ACK"
  PROVE  Farewell'
<1>1. /\ Len(inbox) \in Nat /\ DOMAIN inbox = 1 .. Len(inbox)
      /\ DOMAIN inbox' = 1 .. Len(inbox) + 1
      /\ \A i \in DOMAIN inbox : inbox'[i] = inbox[i]
      /\ inbox'[Len(inbox) + 1] = frame
  BY InboxAppend
<1>2. ASSUME NEW i \in DOMAIN inbox', inbox'[i].kind = "PING_ACK"
      PROVE  client'.stopped /\ \A k \in DOMAIN inbox' : i < k => inbox'[k].kind # "HEADERS"
  <2>1. i \in DOMAIN inbox /\ inbox[i].kind = "PING_ACK"
    BY <1>1, <1>2
  <2>2. client.stopped /\ \A k \in DOMAIN inbox : i < k => inbox[k].kind # "HEADERS"
    BY <2>1 DEF Farewell
  <2> QED
    BY <1>1, <2>2
<1>3. ASSUME maxId' # MaxId \/ goAway'.last # MaxId
      PROVE  client'.stopped /\ \A k \in DOMAIN inbox' : inbox'[k].kind # "HEADERS"
  <2>1. client.stopped /\ \A k \in DOMAIN inbox : inbox[k].kind # "HEADERS"
    BY <1>3 DEF Farewell
  <2> QED
    BY <1>1, <2>1
<1>4. /\ goAway'.going /\ ~goAway'.pending =>
           client'.stopped \/ \E k \in DOMAIN outbox' : outbox'[k] = "GOAWAY"
      /\ \A j \in DOMAIN outbox' : outbox'[j] = "PING" =>
           client'.stopped \/ \E k \in DOMAIN outbox' : k < j /\ outbox'[k] = "GOAWAY"
  BY DEF Farewell
<1> QED
  BY <1>2, <1>3, <1>4 DEF Farewell

LEMMA FarewellClientReads ==
  ASSUME TypeOK, Farewell, ClientReads, ~client.ended
  PROVE  Farewell'
<1> DEFINE frame == Head(outbox)
           n == Len(outbox)
<1>1. outbox # <<>> /\ outbox' = Tail(outbox) /\ goAway' = goAway /\ maxId' = maxId
  BY DEF ClientReads, recvVars
<1>2. /\ n \in Nat \ {0} /\ DOMAIN outbox = 1 .. n /\ DOMAIN outbox' = 1 .. n - 1
      /\ \A i \in DOMAIN outbox' : outbox'[i] = outbox[i + 1]
      /\ frame = outbox[1]
  BY <1>1, OutboxTail
<1>3. CASE frame = "GOAWAY"
  <2>1. client'.stopped /\ inbox' = inbox
    BY <1>3 DEF ClientReads, TypeOK, Clients
  <2> QED
    BY <1>1, <2>1 DEF Farewell
<1>4. CASE frame # "GOAWAY"
  <2>1. client' = client
    BY <1>4 DEF ClientReads
  <2>2. \A k \in DOMAIN outbox : outbox[k] = "GOAWAY" =>
          k - 1 \in DOMAIN outbox' /\ outbox'[k - 1] = "GOAWAY"
    BY <1>2, <1>4
  <2>3. goAway'.going /\ ~goAway'.pending =>
          client'.stopped \/ \E k \in DOMAIN outbox' : outbox'[k] = "GOAWAY"
    BY <1>1, <2>1, <2>2 DEF Farewell
  <2>4. ASSUME NEW j \in DOMAIN outbox', outbox'[j] = "PING", ~client'.stopped
        PROVE  \E k \in DOMAIN outbox' : k < j /\ outbox'[k] = "GOAWAY"
    <3>1. j + 1 \in DOMAIN outbox /\ outbox[j + 1] = "PING"
      BY <1>2, <2>4
    <3>2. PICK k \in DOMAIN outbox : k < j + 1 /\ outbox[k] = "GOAWAY"
      BY <2>1, <2>4, <3>1 DEF Farewell
    <3>3. k - 1 < j
      BY <1>2, <3>2
    <3> QED
      BY <2>2, <3>2, <3>3
  <2>5. /\ \A i \in DOMAIN inbox' : inbox'[i].kind = "PING_ACK" =>
             client'.stopped /\ \A k \in DOMAIN inbox' : i < k => inbox'[k].kind # "HEADERS"
        /\ maxId' # MaxId \/ goAway'.last # MaxId =>
             client'.stopped /\ \A k \in DOMAIN inbox' : inbox'[k].kind # "HEADERS"
    <3>1. CASE inbox' = inbox
      BY <1>1, <2>1, <3>1 DEF Farewell
    <3>2. CASE inbox' # inbox
      <4>1. PICK ack \in ClientFrames :
              /\ inbox' = Append(inbox, ack) /\ ack.kind # "HEADERS"
              /\ ack.kind = "PING_ACK" => frame = "PING"
        <5>1. /\ Frame("PING_ACK", 0, "good") \in ClientFrames
              /\ Frame("SETTINGS_ACK", 0, "good") \in ClientFrames
          BY DEF Frame, ClientFrames
        <5>2. /\ Frame("PING_ACK", 0, "good").kind = "PING_ACK"
              /\ Frame("SETTINGS_ACK", 0, "good").kind = "SETTINGS_ACK"
          BY DEF Frame
        <5>3. CASE frame = "PING"
          <6>1. inbox' = Append(inbox, Frame("PING_ACK", 0, "good"))
            BY <5>3, <3>2 DEF ClientReads, Sends
          <6> QED
            BY <5>1, <5>2, <5>3, <6>1
        <5>4. CASE frame = "SETTINGS"
          <6>1. inbox' = Append(inbox, Frame("SETTINGS_ACK", 0, "good"))
            BY <5>4, <3>2 DEF ClientReads, Sends
          <6> QED
            BY <5>1, <5>2, <6>1
        <5>5. frame = "PING" \/ frame = "SETTINGS"
          BY <1>4, <3>2 DEF ClientReads
        <5> QED
          BY <5>3, <5>4, <5>5
      <4>2. /\ Len(inbox) \in Nat /\ DOMAIN inbox = 1 .. Len(inbox)
            /\ DOMAIN inbox' = 1 .. Len(inbox) + 1
            /\ \A i \in DOMAIN inbox : inbox'[i] = inbox[i]
            /\ inbox'[Len(inbox) + 1] = ack
        BY <4>1, InboxAppend
      <4>3. frame = "PING" => client.stopped
        <5>1. ASSUME frame = "PING", ~client.stopped PROVE FALSE
          <6>1. 1 \in DOMAIN outbox /\ outbox[1] = "PING"
            BY <1>2, <5>1
          <6>2. PICK k \in DOMAIN outbox : k < 1
            BY <5>1, <6>1 DEF Farewell
          <6> QED
            BY <1>2, <6>2
        <5> QED
          BY <5>1
      <4>4. ASSUME NEW i \in DOMAIN inbox', inbox'[i].kind = "PING_ACK"
            PROVE  /\ client'.stopped
                   /\ \A k \in DOMAIN inbox' : i < k => inbox'[k].kind # "HEADERS"
        <5>1. CASE i \in DOMAIN inbox
          <6>1. client.stopped /\ \A k \in DOMAIN inbox : i < k => inbox[k].kind # "HEADERS"
            BY <4>2, <4>4, <5>1 DEF Farewell
          <6> QED
            BY <2>1, <4>1, <4>2, <6>1
        <5>2. CASE i \notin DOMAIN inbox
          <6>1. i = Len(inbox) + 1 /\ ack.kind = "PING_ACK"
            BY <4>2, <4>4, <5>2
          <6>2. \A k \in DOMAIN inbox' : ~(i < k)
            BY <4>2, <6>1
          <6> QED
            BY <2>1, <4>1, <4>3, <6>1, <6>2
        <5> QED
          BY <5>1, <5>2
      <4>5. ASSUME maxId' # MaxId \/ goAway'.last # MaxId
            PROVE  client'.stopped /\ \A k \in DOMAIN inbox' : inbox'[k].kind # "HEADERS"
        <5>1. client.stopped /\ \A k \in DOMAIN inbox : inbox[k].kind # "HEADERS"
          BY <1>1, <4>5 DEF Farewell
        <5> QED
          BY <2>1, <4>1, <4>2, <5>1
      <4> QED
        BY <4>4, <4>5
    <3> QED
      BY <3>1, <3>2
  <2> QED
    BY <2>3, <2>4, <2>5 DEF Farewell
<1> QED
  BY <1>3, <1>4

-----------------------------------------------------------------------------
(* The steps of a connection that nothing else ends.                         *)

LEMMA ErrorIsNoted == ASSUME NEW reason, ConnError(reason) PROVE erred'
BY DEF ConnError

\* What ends a connection otherwise is not undone.
LEMMA CalmBefore ==
  ASSUME TypeOK, [Next]_vars, Calm'
  PROVE  Calm
<1> USE DEF taskVars, settingsVars, recvVars, streamVars, wakeVars, history
<1>0. goAway.user \in BOOLEAN
  BY DEF TypeOK, GoAways
<1>1. ~erred
  <2>1. UNCHANGED erred \/ erred'
    BY ErrorIsNoted DEF Next, Owner, Poll, Sending, Receiving, Blocked, Graceful, Abrupt,
      SetInitialWindow, Accept, Users, Answer, Drop, Gives, Begin, SendGoAway,
      SendShutdownPing, SendSettingsAck, SendLocalSettings, SendRefusal, Leave,
      NothingToRead, RecvHeaders, RecvMalformedHeaders, RecvReset, RecvSettings,
      RecvSettingsAck, RecvShutdownAck, RecvGoAway, RecvViolation, RecvEof, CompleteReady,
      Idle, CloseReady, Block, CompleteBlocked, CloseBlocked, Writable, ClientMoves,
      ClientOpens, ClientResets, ClientSettings, ClientGoesAway, ClientEnds, ClientReads,
      ClientUnchanged, vars
  <2> QED
    BY <2>1 DEF Calm
<1>2. ~goAway.user
  <2>1. UNCHANGED goAway \/ goAway'.user = goAway.user \/ goAway'.user \/ erred'
    <3>1. CASE Graceful \/ RecvShutdownAck
      BY <3>1 DEF Graceful, RecvShutdownAck, Announce
    <3>2. CASE Abrupt
      BY <3>2, GoAwayNowCloses DEF Abrupt, Reasons
    <3>3. CASE Idle
      BY <1>0, <3>3, GoAwayNowCloses DEF Idle, Reasons
    <3>4. CASE SendGoAway
      BY <3>4 DEF SendGoAway, TypeOK, GoAways
    <3>5. CASE SendSettingsAck \/ RecvSettingsAck \/ RecvViolation
      BY <3>5, ErrorIsNoted DEF SendSettingsAck, RecvSettingsAck, RecvViolation
    <3> QED
      BY <3>1, <3>2, <3>3, <3>4, <3>5 DEF Next, Owner, Poll, Sending, Receiving, Blocked,
        SetInitialWindow, Accept, Users, Answer, Drop, Gives, Begin, SendShutdownPing,
        SendLocalSettings, SendRefusal, Leave, NothingToRead, RecvHeaders,
        RecvMalformedHeaders, RecvReset, RecvSettings, RecvGoAway, RecvEof, CompleteReady,
        CloseReady, Block, CompleteBlocked, CloseBlocked, Writable, ClientMoves,
        ClientOpens, ClientResets, ClientSettings, ClientGoesAway, ClientEnds, ClientReads,
        ClientUnchanged, vars
  <2> QED
    BY <2>1 DEF Calm
<1>3. ~client.goaway /\ ~client.ended
  <2>1. CASE UNCHANGED client
    BY <2>1 DEF Calm
  <2>2. CASE ClientMoves
    BY <2>2 DEF ClientMoves, ClientOpens, ClientResets, ClientSettings, ClientGoesAway,
      ClientEnds, Calm, TypeOK, Clients
  <2>3. CASE ClientReads
    <3>1. CASE Head(outbox) = "GOAWAY"
      BY <2>3, <3>1 DEF ClientReads, Calm, TypeOK, Clients
    <3>2. CASE Head(outbox) # "GOAWAY"
      BY <2>1, <2>3, <3>2 DEF ClientReads
    <3> QED
      BY <3>1, <3>2
  <2> QED
    BY <2>1, <2>2, <2>3 DEF Next, Owner, Poll, Sending, Receiving, Blocked, Graceful, Abrupt,
      SetInitialWindow, Accept, Users, Answer, Drop, Gives, Begin, SendGoAway,
      SendShutdownPing, SendSettingsAck, SendLocalSettings, SendRefusal, Leave,
      NothingToRead, RecvHeaders, RecvMalformedHeaders, RecvReset, RecvSettings,
      RecvSettingsAck, RecvShutdownAck, RecvGoAway, RecvViolation, RecvEof, CompleteReady,
      Idle, CloseReady, Block, CompleteBlocked, CloseBlocked, Writable, vars
<1> QED
  BY <1>1, <1>2, <1>3 DEF Calm

-----------------------------------------------------------------------------
LEMMA SettledKept ==
  ASSUME Settled, UNCHANGED closing, goAway'.closeNow = goAway.closeNow,
         goAway'.closeNow => goAway'.last = goAway.last,
         pc' = "idle" => pc = "idle",
         \A s \in Ids : /\ stream'[s] \in {"open", "rejected"} => stream[s] = stream'[s]
                        /\ stream'[s] = "answering" => stream[s] \in {"open", "answering"}
  PROVE  Settled'
BY DEF Settled

\* What changes neither the streams, the queues nor the GOAWAY.
LEMMA QuietStep ==
  ASSUME RequestsArrive, Farewell, Settled,
         UNCHANGED <<inbox, outbox, client, stream, goAway, maxId, closing>>,
         pc' = "idle" => pc = "idle"
  PROVE  RequestsArrive' /\ Farewell' /\ Settled'
BY RequestsKept, FarewellKept, SettledKept DEF RequestsArrive

LEMMA UsersStep ==
  ASSUME TypeOK, RequestsArrive, Farewell, Settled, Users
  PROVE  RequestsArrive' /\ Farewell' /\ Settled'
<1>1. PICK s \in Ids, fate \in {"answering", "cancelled"} : Gives(s, fate)
  BY DEF Users, Answer, Drop
<1>2. stream \in [Ids -> Fates]
  BY DEF TypeOK
<1>3. \/ stream' = stream
      \/ stream[s] = "open" /\ stream' = [stream EXCEPT ![s] = fate]
  BY <1>1 DEF Gives
<1>4. \A u \in Ids : /\ stream'[u] = "idle" => stream[u] = "idle"
                     /\ stream'[u] = "failed" => stream[u] = "failed"
                     /\ stream'[u] # "ignored"
                     /\ stream'[u] \in {"open", "rejected"} => stream[u] = stream'[u]
                     /\ stream'[u] = "answering" => stream[u] \in {"open", "answering"}
  BY <1>1, <1>2, <1>3 DEF RequestsArrive
<1>5. UNCHANGED <<inbox, outbox, client, goAway, maxId, closing, pc>>
  BY <1>1 DEF Gives, taskVars, recvVars
<1> QED
  BY <1>4, <1>5, RequestsKept, FarewellKept, SettledKept

\* A shutdown begins: nothing is ignored before its PING is acknowledged.
LEMMA GracefulStep ==
  ASSUME TypeOK, GoAwayInStep, RequestsArrive, Farewell, Settled, Graceful
  PROVE  RequestsArrive' /\ Farewell' /\ Settled'
<1>1. UNCHANGED <<inbox, outbox, client, stream, pc, closing>> /\ ~goAway.closeNow
  BY DEF Graceful, GoAwayInStep, taskVars, streamVars
<1>2. maxId' = MaxId /\ goAway'.last = MaxId /\ goAway'.pending /\ ~goAway'.closeNow
  BY <1>1 DEF Graceful, Announce
<1>3. goAway.closeNow \in BOOLEAN /\ goAway'.closeNow \in BOOLEAN
  BY DEF TypeOK, GoAways, Graceful, Announce
<1>4. RequestsArrive'
  BY <1>1, RequestsKept DEF RequestsArrive
<1>5. Farewell'
  BY <1>1, <1>2, FarewellKept
<1>6. Settled'
  BY <1>1, <1>2, <1>3, SettledKept
<1> QED
  BY <1>4, <1>5, <1>6

\* A frame of the connection is written.
LEMMA SendingStep ==
  ASSUME TypeOK, GoAwayInStep, RequestsArrive, Farewell, Settled, Sending, ~erred'
  PROVE  RequestsArrive' /\ Farewell' /\ Settled'
<1> USE DEF taskVars, settingsVars, recvVars, streamVars
<1>a. goAway \in GoAways
  BY DEF TypeOK
<1>1. CASE SendGoAway
  <2>1. /\ goAway'.last = goAway.last /\ goAway'.closeNow = goAway.closeNow
        /\ UNCHANGED <<inbox, client, stream, maxId, closing, pc>> /\ Written("GOAWAY")
    BY <1>a, <1>1 DEF SendGoAway, GoAways
  <2>2. RequestsArrive' /\ Settled'
    BY <2>1, RequestsKept, SettledKept DEF RequestsArrive
  <2>3. Farewell'
    BY <2>1, FarewellWritten DEF ServerFrames
  <2> QED
    BY <2>2, <2>3
<1>2. CASE SendShutdownPing
  <2>1. goAway.going /\ ~goAway.pending
    BY <1>2 DEF SendShutdownPing, Written, Due, GoAwayInStep
  <2>2. UNCHANGED <<goAway, inbox, client, stream, maxId, closing, pc>> /\ Written("PING")
    BY <1>2 DEF SendShutdownPing
  <2>3. Farewell'
    BY <2>1, <2>2, FarewellWritten DEF ServerFrames
  <2> QED
    BY <2>2, <2>3, RequestsKept, SettledKept DEF RequestsArrive
<1>3. CASE SendSettingsAck \/ SendLocalSettings \/ SendRefusal
  <2>1. /\ UNCHANGED <<goAway, inbox, client, stream, maxId, closing, pc>>
        /\ Written("ACK") \/ Written("SETTINGS") \/ Written("RST_STREAM")
    BY <1>3, ErrorIsNoted DEF SendSettingsAck, SendLocalSettings, SendRefusal
  <2>2. Farewell'
    BY <2>1, FarewellWritten DEF ServerFrames
  <2> QED
    BY <2>1, <2>2, RequestsKept, SettledKept DEF RequestsArrive
<1> QED
  BY <1>1, <1>2, <1>3 DEF Sending

\* The connection closes with its last GOAWAY written.
LEMMA LeaveStep ==
  ASSUME TypeOK, RequestsArrive, Farewell, Settled, Leave
  PROVE  RequestsArrive' /\ Farewell' /\ Settled'
<1>1. UNCHANGED <<inbox, outbox, client, stream, goAway, maxId>> /\ pc' # "idle"
  BY DEF Leave, recvVars, streamVars
<1>2. goAway.closeNow
  BY DEF Leave, Due
<1> QED
  BY <1>1, <1>2, RequestsKept, FarewellKept DEF RequestsArrive, Settled

\* The streams are flushed.
LEMMA CompleteStep ==
  ASSUME TypeOK, RequestsArrive, Farewell, Settled, CompleteReady \/ CompleteBlocked
  PROVE  RequestsArrive' /\ Farewell' /\ Settled'
<1>1. UNCHANGED <<inbox, outbox, client, goAway, maxId, closing>>
  BY DEF CompleteReady, CompleteBlocked, recvVars
<1>2. \A s \in Ids : stream'[s] = stream[s] \/ stream'[s] = Flushed(s)
  BY DEF CompleteReady, CompleteBlocked
<1>3. \A s \in Ids : \/ Flushed(s) = stream[s] /\ stream[s] # "rejected"
                     \/ Flushed(s) \in {"answered", "reset"}
  BY DEF Flushed
<1>4. /\ RequestsArrive' /\ Farewell'
      /\ \A s \in Ids : stream'[s] \in {"open", "answering", "rejected"} =>
                         stream'[s] = stream[s]
  BY <1>1, <1>2, <1>3, RequestsKept, FarewellKept DEF RequestsArrive
<1>5. pc' = "idle" => \A s \in Ids : stream'[s] # "rejected"
  <2>1. CASE CompleteReady
    BY <1>3, <2>1 DEF CompleteReady
  <2>2. CASE CompleteBlocked
    BY <2>2 DEF CompleteBlocked
  <2> QED
    BY <2>1, <2>2
<1> QED
  BY <1>1, <1>4, <1>5 DEF Settled

\* An idle connection that goes away closes after its second GOAWAY.
LEMMA IdleStep ==
  ASSUME Inv, Calm, RequestsArrive, Farewell, Settled, Idle
  PROVE  RequestsArrive' /\ Farewell' /\ Settled'
<1>1. UNCHANGED <<inbox, outbox, client, stream, maxId, closing>>
      /\ pc = "idle" /\ pc' # "idle"
  BY DEF Idle, recvVars, streamVars
<1>2. CASE UNCHANGED goAway
  BY <1>1, <1>2, QuietStep
<1>3. CASE ~UNCHANGED goAway
  <2>1. theirs = "none"
    BY DEF Inv, ErrorIsKept, Calm
  <2>2. ShouldCloseOnIdle /\ Live = {} /\ GoAwayNow("NO_ERROR", goAway.user)
    BY <1>3, <2>1 DEF Idle
  <2>3. goAway \in GoAways /\ lastProcessed \in 0 .. N /\ stream \in [Ids -> Fates]
    BY DEF Inv, TypeOK
  <2>4. lastProcessed # MaxId
    BY <2>3, Constants
  <2>5. /\ goAway'.last # MaxId
        /\ goAway'.going /\ ~goAway'.pending => goAway.going /\ ~goAway.pending
    <3>1. CASE Announce(lastProcessed, "NO_ERROR", TRUE, goAway.user)
      BY <2>4, <3>1 DEF Announce
    <3>2. CASE goAway' = [goAway EXCEPT !.closeNow = TRUE, !.user = goAway.user]
      BY <2>2, <2>3, <3>2 DEF ShouldCloseOnIdle, GoAways
    <3> QED
      BY <2>2, <3>1, <3>2 DEF GoAwayNow
  <2>6. goAway.last # MaxId
    BY <2>2 DEF ShouldCloseOnIdle
  <2>7. RequestsArrive' /\ Farewell'
    BY <1>1, <2>5, <2>6, RequestsKept, FarewellKept DEF RequestsArrive
  <2>8. Settled'
    <3>1. \A s \in Ids : stream[s] \notin {"open", "answering", "rejected"}
      BY <1>1, <2>2 DEF Live, Settled
    <3>2. goAway'.closeNow
      BY <2>2, <2>3, GoAwayNowCloses DEF Inv, GoAways, Reasons
    <3> QED
      BY <1>1, <2>5, <3>1, <3>2 DEF Settled
  <2> QED
    BY <2>7, <2>8
<1> QED
  BY <1>2, <1>3

-----------------------------------------------------------------------------
\* What a frame of a client that keeps the protocol does.
LEMMA RequestReadStep ==
  ASSUME TypeOK, RequestsArrive, Farewell, Settled, RecvHeaders \/ RecvMalformedHeaders
  PROVE  RequestsArrive' /\ Farewell' /\ Settled'
<1> DEFINE s == Head(inbox).id
<1> USE DEF taskVars, recvVars, streamVars
<1>1. /\ Read("HEADERS") /\ UNCHANGED <<outbox, client, goAway, maxId, closing, pc>>
  BY DEF RecvHeaders, RecvMalformedHeaders
<1>2. ~goAway.closeNow /\ pc = "poll"
  BY <1>1, DueToRead DEF Read
<1>3. s \in Ids /\ stream \in [Ids -> Fates]
  BY <1>1, ReadType, FrameFields DEF TypeOK
<1>4. 1 \in DOMAIN inbox /\ inbox[1].kind = "HEADERS"
  BY <1>1, HeadOfInbox DEF Read
<1>5. maxId = MaxId
  BY <1>4 DEF Farewell
<1>6. ~(s > maxId)
  BY <1>3, <1>5, Constants
<1>7. PICK fate \in {"refused", "open", "rejected"} : stream' = [stream EXCEPT ![s] = fate]
  BY <1>6 DEF RecvHeaders, RecvMalformedHeaders
<1>8. RequestsArrive'
  <2>1. \A u \in Ids : /\ stream'[u] = "idle" =>
                             stream[u] = "idle" /\ ~("HEADERS" = "HEADERS" /\ Head(inbox).id = u)
                       /\ stream'[u] = "failed" => stream[u] = "failed" \/ u \in client.reset
                       /\ stream'[u] # "ignored"
    BY <1>3, <1>7 DEF RequestsArrive
  <2> QED
    BY <1>1, <2>1, RequestsRead
<1>9. Farewell'
  BY <1>1, FarewellRead
<1>10. Settled'
  BY <1>1, <1>2 DEF Settled
<1> QED
  BY <1>8, <1>9, <1>10

LEMMA ResetReadStep ==
  ASSUME TypeOK, RequestsArrive, Farewell, Settled, RecvReset
  PROVE  RequestsArrive' /\ Farewell' /\ Settled'
<1> DEFINE s == Head(inbox).id
<1> USE DEF taskVars, recvVars, streamVars
<1>1. Read("RST_STREAM") /\ UNCHANGED <<outbox, client, goAway, maxId, closing, pc>>
  BY DEF RecvReset
<1>2. s \in Ids /\ stream \in [Ids -> Fates]
  BY <1>1, ReadType, FrameFields DEF TypeOK
<1>3. 1 \in DOMAIN inbox /\ inbox[1].kind = "RST_STREAM" /\ inbox[1].id = s
  BY <1>1, HeadOfInbox DEF Read
<1>4. s \in client.reset
  BY <1>3 DEF RequestsArrive
<1>5. stream' = stream \/ stream' = [stream EXCEPT ![s] = "failed"]
  BY DEF RecvReset
<1>6. \A u \in Ids : /\ stream'[u] = "idle" =>
                           stream[u] = "idle" /\ ~("RST_STREAM" = "HEADERS" /\ Head(inbox).id = u)
                     /\ stream'[u] = "failed" => stream[u] = "failed" \/ u \in client.reset
                     /\ stream'[u] # "ignored"
  BY <1>2, <1>4, <1>5 DEF RequestsArrive
<1>7. RequestsArrive'
  BY <1>1, <1>6, RequestsRead
<1>8. Farewell'
  BY <1>1, FarewellRead
<1>9. Settled'
  BY <1>1, <1>2, <1>5, SettledKept
<1> QED
  BY <1>7, <1>8, <1>9

\* SETTINGS and their ack leave the streams and the GOAWAY alone.
LEMMA SettingsReadStep ==
  ASSUME TypeOK, RequestsArrive, Farewell, Settled, RecvSettings \/ RecvSettingsAck, ~erred'
  PROVE  RequestsArrive' /\ Farewell' /\ Settled'
<1> USE DEF taskVars, settingsVars, recvVars, streamVars
<1>1. PICK kind \in {"SETTINGS", "SETTINGS_ACK"} : Read(kind)
  BY DEF RecvSettings, RecvSettingsAck
<1>2. UNCHANGED <<outbox, client, stream, goAway, maxId, closing, pc>>
  BY ErrorIsNoted DEF RecvSettings, RecvSettingsAck
<1>3. \A u \in Ids : /\ stream'[u] = "idle" =>
                           stream[u] = "idle" /\ ~(kind = "HEADERS" /\ Head(inbox).id = u)
                     /\ stream'[u] = "failed" => stream[u] = "failed" \/ u \in client.reset
                     /\ stream'[u] # "ignored"
  BY <1>2 DEF RequestsArrive
<1>4. RequestsArrive'
  BY <1>1, <1>2, <1>3, RequestsRead
<1>5. Farewell'
  BY <1>1, <1>2, FarewellRead
<1>6. Settled'
  BY <1>2, SettledKept
<1> QED
  BY <1>4, <1>5, <1>6

\* Behind the ack of the shutdown PING there is no request.
LEMMA AckReadStep ==
  ASSUME TypeOK, RequestsArrive, Farewell, Settled, RecvShutdownAck
  PROVE  RequestsArrive' /\ Farewell' /\ Settled'
<1> USE DEF taskVars, settingsVars, recvVars, streamVars
<1>1. Read("PING_ACK") /\ UNCHANGED <<outbox, client, stream, closing, pc>>
  BY DEF RecvShutdownAck
<1>2. ~goAway.closeNow /\ ~goAway.pending
  BY <1>1, DueToRead DEF Read
<1>3. /\ goAway'.closeNow = goAway.closeNow
      /\ goAway'.going /\ ~goAway'.pending => goAway.going /\ ~goAway.pending
  BY DEF RecvShutdownAck, Announce
<1>4. \A u \in Ids : /\ stream'[u] = "idle" =>
                           stream[u] = "idle" /\ ~("PING_ACK" = "HEADERS" /\ Head(inbox).id = u)
                     /\ stream'[u] = "failed" => stream[u] = "failed" \/ u \in client.reset
                     /\ stream'[u] # "ignored"
  BY <1>1 DEF RequestsArrive
<1>5. RequestsArrive'
  BY <1>1, <1>4, RequestsRead
<1>6. Farewell'
  BY <1>1, <1>3, FarewellRead
<1>7. Settled'
  BY <1>1, <1>2, <1>3, SettledKept
<1> QED
  BY <1>5, <1>6, <1>7

LEMMA ReceivingStep ==
  ASSUME Inv, Calm, Calm', RequestsArrive, Farewell, Settled, Receiving
  PROVE  RequestsArrive' /\ Farewell' /\ Settled'
<1>1. TypeOK /\ ~erred'
  BY DEF Inv, Calm
<1>2. ~RecvGoAway
  <2>1. ASSUME RecvGoAway PROVE FALSE
    <3>1. 1 \in DOMAIN inbox /\ inbox[1].kind = "GOAWAY"
      BY <1>1, <2>1, HeadOfInbox DEF RecvGoAway, Read
    <3> QED
      BY <3>1 DEF Inv, ErrorIsKept, Calm
  <2> QED
    BY <2>1
<1>3. ~RecvEof
  <2>1. ASSUME RecvEof PROVE FALSE
    <3>1. 1 \in DOMAIN inbox /\ inbox[1].kind = "EOF"
      BY <1>1, <2>1, HeadOfInbox DEF RecvEof, Read
    <3> QED
      BY <3>1 DEF RequestsArrive
  <2> QED
    BY <2>1
<1>4. ~RecvViolation
  BY <1>1, ErrorIsNoted DEF RecvViolation
<1> QED
  BY <1>1, <1>2, <1>3, <1>4, RequestReadStep, ResetReadStep, SettingsReadStep, AckReadStep
  DEF Receiving

-----------------------------------------------------------------------------
\* The client opens nothing behind a GOAWAY it has read.
LEMMA ClientMovesStep ==
  ASSUME "late" \notin Moves, TypeOK, Calm', RequestsArrive, Farewell, Settled, ClientMoves
  PROVE  RequestsArrive' /\ Farewell' /\ Settled'
<1> USE DEF taskVars, recvVars, streamVars
<1>1. client \in Clients /\ client.opened \in Nat /\ client.reset \subseteq Ids
  BY Constants DEF TypeOK, Clients
<1>2. UNCHANGED <<outbox, stream, goAway, maxId, closing, pc>>
  BY DEF ClientMoves, ClientOpens, ClientResets, ClientSettings, ClientGoesAway, ClientEnds,
    ClientUnchanged
<1>3. Settled'
  BY <1>2, SettledKept
<1>4. CASE ClientOpens("good") \/ ClientOpens("malformed")
  <2>1. PICK arg \in {"good", "malformed"} : ClientOpens(arg)
    BY <1>4
  <2> DEFINE frame == Frame("HEADERS", client.opened + 1, arg)
  <2>2. frame \in ClientFrames /\ frame.kind = "HEADERS" /\ frame.id = client.opened + 1
    <3>1. client.opened + 1 \in Ids
      BY <1>1, <2>1, Constants DEF ClientOpens
    <3> QED
      BY <3>1 DEF Frame, ClientFrames
  <2>3. inbox' = Append(inbox, frame) /\ ~client.stopped
    BY <2>1 DEF ClientOpens, Starts, Sends
  <2>4. client'.opened = client.opened + 1 /\ client'.reset = client.reset
        /\ client'.stopped = client.stopped
    BY <1>1, <2>1 DEF ClientOpens, Clients
  <2>5. RequestsArrive'
    BY <1>2, <2>2, <2>3, <2>4, RequestsSent
  <2>6. Farewell'
    BY <1>2, <2>2, <2>3, <2>4, FarewellSent
  <2> QED
    BY <1>3, <2>5, <2>6
<1>5. CASE \E s \in Ids : ClientResets(s)
  <2>1. PICK s \in Ids : ClientResets(s)
    BY <1>5
  <2> DEFINE frame == Frame("RST_STREAM", s, "good")
  <2>2. frame \in ClientFrames /\ frame.kind = "RST_STREAM" /\ frame.id = s
    BY DEF Frame, ClientFrames
  <2>3. inbox' = Append(inbox, frame)
    BY <2>1 DEF ClientResets, Starts, Sends
  <2>4. client'.opened = client.opened /\ client'.reset = client.reset \cup {s}
        /\ client'.stopped = client.stopped
    BY <1>1, <2>1 DEF ClientResets, Clients
  <2>5. RequestsArrive'
    BY <1>2, <2>2, <2>3, <2>4, RequestsSent
  <2>6. Farewell'
    BY <1>2, <2>2, <2>3, <2>4, FarewellSent
  <2> QED
    BY <1>3, <2>5, <2>6
<1>6. CASE ClientSettings("good") \/ ClientSettings("bad")
  <2>1. PICK arg \in {"good", "bad"} : ClientSettings(arg)
    BY <1>6
  <2> DEFINE frame == Frame("SETTINGS", 0, arg)
  <2>2. frame \in ClientFrames /\ frame.kind = "SETTINGS"
    BY DEF Frame, ClientFrames
  <2>3. inbox' = Append(inbox, frame)
    BY <2>1 DEF ClientSettings, Starts, Sends
  <2>4. client'.opened = client.opened /\ client'.reset = client.reset
        /\ client'.stopped = client.stopped
    BY <1>1, <2>1 DEF ClientSettings, Clients
  <2>5. RequestsArrive'
    BY <1>2, <2>2, <2>3, <2>4, RequestsSent
  <2>6. Farewell'
    BY <1>2, <2>2, <2>3, <2>4, FarewellSent
  <2> QED
    BY <1>3, <2>5, <2>6
<1>7. ~\E last \in {0, MaxId}, reason \in {"NO_ERROR", "CLIENT"} : ClientGoesAway(last, reason)
  BY <1>1 DEF ClientGoesAway, Calm, Clients
<1>8. ~ClientEnds("VIOLATION") /\ ~ClientEnds("EOF")
  BY <1>1 DEF ClientEnds, Calm, Clients
<1> QED
  BY <1>4, <1>5, <1>6, <1>7, <1>8 DEF ClientMoves

LEMMA ClientReadsStep ==
  ASSUME TypeOK, Calm, RequestsArrive, Farewell, Settled, ClientReads
  PROVE  RequestsArrive' /\ Farewell' /\ Settled'
<1> USE DEF taskVars, recvVars, streamVars
<1> DEFINE frame == Head(outbox)
<1>1. UNCHANGED <<stream, goAway, maxId, closing, pc>>
  BY DEF ClientReads
<1>2. client'.opened = client.opened /\ client'.reset = client.reset
  <2>1. CASE frame = "GOAWAY"
    BY <2>1 DEF ClientReads, TypeOK, Clients
  <2>2. CASE frame # "GOAWAY"
    BY <2>2 DEF ClientReads
  <2> QED
    BY <2>1, <2>2
<1>3. RequestsArrive'
  <2>1. CASE inbox' = inbox
    BY <1>1, <1>2, <2>1, RequestsKept DEF RequestsArrive
  <2>2. CASE inbox' # inbox
    <3>1. /\ Frame("PING_ACK", 0, "good") \in ClientFrames
          /\ Frame("PING_ACK", 0, "good").kind = "PING_ACK"
          /\ Frame("SETTINGS_ACK", 0, "good") \in ClientFrames
          /\ Frame("SETTINGS_ACK", 0, "good").kind = "SETTINGS_ACK"
      BY DEF Frame, ClientFrames
    <3>2. CASE frame = "PING"
      <4>1. inbox' = Append(inbox, Frame("PING_ACK", 0, "good"))
        BY <2>2, <3>2 DEF ClientReads, Sends
      <4> QED
        BY <1>1, <1>2, <3>1, <4>1, RequestsSent
    <3>3. CASE frame = "SETTINGS"
      <4>1. inbox' = Append(inbox, Frame("SETTINGS_ACK", 0, "good"))
        BY <2>2, <3>3 DEF ClientReads, Sends
      <4> QED
        BY <1>1, <1>2, <3>1, <4>1, RequestsSent
    <3>4. frame = "PING" \/ frame = "SETTINGS"
      BY <2>2 DEF ClientReads
    <3> QED
      BY <3>2, <3>3, <3>4
  <2> QED
    BY <2>1, <2>2
<1>4. Farewell'
  BY FarewellClientReads DEF Calm
<1>5. Settled'
  BY <1>1, SettledKept
<1> QED
  BY <1>3, <1>4, <1>5

-----------------------------------------------------------------------------
LEMMA NothingIsLostInit ==
  ASSUME Init PROVE NothingIsLost
<1>1. DOMAIN inbox = {} /\ DOMAIN outbox = 1 .. 1 /\ outbox[1] = "SETTINGS"
  BY DEF Init
<1>2. \A s \in Ids : ~(s <= client.opened) /\ stream[s] = "idle"
  BY Constants DEF Init
<1>3. RequestsArrive
  BY <1>1, <1>2 DEF RequestsArrive
<1>4. Farewell
  BY <1>1 DEF Farewell, Init
<1>5. Settled
  BY DEF Settled, Init
<1> QED
  BY <1>3, <1>4, <1>5 DEF NothingIsLost

LEMMA NothingIsLostStep ==
  ASSUME "late" \notin Moves, Inv, NothingIsLost, [Next]_vars
  PROVE  NothingIsLost'
<1> SUFFICES ASSUME Calm' PROVE RequestsArrive' /\ Farewell' /\ Settled'
  BY DEF NothingIsLost
<1>1. TypeOK /\ GoAwayInStep /\ Calm
  BY CalmBefore DEF Inv
<1>2. RequestsArrive /\ Farewell /\ Settled
  BY <1>1 DEF NothingIsLost
<1>3. ~erred' /\ ~goAway'.user
  BY DEF Calm
<1>4. CASE SetInitialWindow \/ Accept \/ Begin \/ NothingToRead \/ Block \/ CloseBlocked
           \/ CloseReady \/ Writable \/ UNCHANGED vars
  <2>1. /\ UNCHANGED <<inbox, outbox, client, stream, goAway, maxId, closing>>
        /\ pc' = "idle" => pc = "idle"
    BY <1>4 DEF SetInitialWindow, Accept, Begin, NothingToRead, Block, CloseBlocked,
      CloseReady, Writable, vars, taskVars, recvVars, streamVars
  <2> QED
    BY <1>2, <2>1, QuietStep
<1>5. ~Abrupt
  BY <1>1, <1>3, GoAwayNowCloses DEF Abrupt, Reasons
<1>6. CASE Graceful
  BY <1>1, <1>2, <1>6, GracefulStep
<1>7. CASE Users
  BY <1>1, <1>2, <1>7, UsersStep
<1>8. CASE Sending
  BY <1>1, <1>2, <1>3, <1>8, SendingStep
<1>9. CASE Leave
  BY <1>1, <1>2, <1>9, LeaveStep
<1>10. CASE CompleteReady \/ CompleteBlocked
  BY <1>1, <1>2, <1>10, CompleteStep
<1>11. CASE Idle
  BY <1>1, <1>2, <1>11, IdleStep
<1>12. CASE Receiving
  BY <1>1, <1>2, <1>12, ReceivingStep
<1>13. CASE ClientMoves
  BY <1>1, <1>2, <1>13, ClientMovesStep
<1>14. CASE ClientReads
  BY <1>1, <1>2, <1>14, ClientReadsStep
<1> QED
  BY <1>4, <1>5, <1>6, <1>7, <1>8, <1>9, <1>10, <1>11, <1>12, <1>13, <1>14
  DEF Next, Owner, Poll, Blocked

\* A graceful shutdown loses no request: when it ends, each request the client
\* sent has been answered, dropped by its user or refused (go_away_gracefully and
\* the ack of its PING, connection.rs:329 and 279), provided the client opens
\* none behind a GOAWAY.
THEOREM ShutdownLosesNothing ==
  ASSUME "late" \notin Moves
  PROVE  Spec => []GracefulLosesNothing
<1>1. Inv /\ NothingIsLost => GracefulLosesNothing
  <2> SUFFICES ASSUME Inv, NothingIsLost, pc = "done", OnlyGraceful, NEW s \in Ids
               PROVE  stream[s] \in
                        {"answered", "cancelled", "reset", "refused"}
                          \cup (IF s > client.opened THEN {"idle"} ELSE {})
                          \cup (IF s \in client.reset THEN {"failed"} ELSE {})
    BY DEF GracefulLosesNothing
  <2>1. RequestsArrive /\ Farewell /\ Settled
    BY DEF NothingIsLost, OnlyGraceful, Calm
  <2>2. goAway.closeNow
    BY <2>1 DEF Inv, EndsWithoutStreams, Settled
  <2>3. stream[s] \in Fates \ {"open", "answering", "rejected", "ignored"}
    BY <2>1, <2>2 DEF Inv, TypeOK, Settled, RequestsArrive
  <2>4. stream[s] = "failed" => s \in client.reset
    BY <2>1 DEF RequestsArrive
  <2>5. stream[s] = "idle" => s > client.opened
    <3>1. \A i \in DOMAIN inbox : inbox[i].kind # "HEADERS"
      BY <2>1, <2>2 DEF Settled, Farewell
    <3>2. s \in Int /\ client.opened \in Int
      BY Constants DEF Inv, TypeOK, Clients
    <3> QED
      BY <2>1, <3>1, <3>2 DEF RequestsArrive
  <2> QED
    BY <2>3, <2>4, <2>5 DEF Fates
<1>2. NothingIsLost /\ Inv /\ [Next]_vars => NothingIsLost'
  BY NothingIsLostStep
<1> QED
  BY <1>1, <1>2, NothingIsLostInit, Invariance, PTL DEF Spec

-----------------------------------------------------------------------------
(* SETTINGS and their acknowledgements, for every number of requests, limit  *)
(* and choice of Moves: while the server waits for an ack, exactly one frame *)
(* is on its way, its SETTINGS or the ack of them, and none otherwise.  The  *)
(* frames are counted by their places in the two queues.                     *)

Told(q) == {i \in DOMAIN q : q[i] = "SETTINGS"}
Acked(q) == {i \in DOMAIN q : q[i].kind = "SETTINGS_ACK"}

OnTheWay == Cardinality(Told(outbox)) + Cardinality(Acked(inbox))

\* The inductive invariant, beside Inv.
InStep ==
  /\ local # "waitingAck" => OnTheWay = 0
  /\ local = "waitingAck" => OnTheWay <= 1 /\ (client.ended \/ OnTheWay = 1)

-----------------------------------------------------------------------------
(* Places in a queue.                                                        *)

LEMMA Finite ==
  ASSUME NEW n \in Nat, NEW S \in SUBSET (1 .. n)
  PROVE  IsFiniteSet(S) /\ Cardinality(S) \in Nat
<1>1. IsFiniteSet(1 .. n)
  BY FS_Interval
<1>2. IsFiniteSet(S)
  BY <1>1, FS_Subset
<1> QED
  BY <1>2, FS_CardinalityType

\* The places of what is left when the first is taken.
LEMMA Shifted ==
  ASSUME NEW n \in Nat, NEW S \in SUBSET (1 .. n), NEW T,
         T = {i \in 1 .. n - 1 : i + 1 \in S}
  PROVE  Cardinality(T) = IF 1 \in S THEN Cardinality(S) - 1 ELSE Cardinality(S)
<1> DEFINE R == S \ {1}
           f == [i \in R |-> i - 1]
<1>1. IsFiniteSet(S)
  BY Finite
<1>2. IsFiniteSet(R) /\ Cardinality(R) = IF 1 \in S THEN Cardinality(S) - 1 ELSE Cardinality(S)
  BY <1>1, FS_RemoveElement
<1>3. f \in Bijection(R, T)
  <2>1. \A i \in R : i \in 1 .. n /\ i # 1 /\ f[i] = i - 1 /\ f[i] \in T
    OBVIOUS
  <2>2. \A i, j \in R : f[i] = f[j] => i = j
    BY <2>1
  <2>3. \A t \in T : t + 1 \in R /\ f[t + 1] = t
    OBVIOUS
  <2> HIDE DEF f
  <2>4. f \in [R -> T]
    BY <2>1 DEF f
  <2>5. \A t \in T : \E i \in R : f[i] = t
    BY <2>3
  <2> QED
    BY <2>2, <2>4, <2>5 DEF Bijection, Injection, Surjection, IsInjective
<1>4. ExistsBijection(R, T)
  BY <1>3 DEF ExistsBijection
<1>5. Cardinality(T) = Cardinality(R)
  BY <1>2, <1>4, FS_Bijection
<1> QED
  BY <1>2, <1>5

LEMMA Counts ==
  ASSUME TypeOK
  PROVE  /\ IsFiniteSet(Told(outbox)) /\ Cardinality(Told(outbox)) \in Nat
         /\ IsFiniteSet(Acked(inbox)) /\ Cardinality(Acked(inbox)) \in Nat
<1>1. /\ Len(outbox) \in Nat /\ Told(outbox) \in SUBSET (1 .. Len(outbox))
      /\ Len(inbox) \in Nat /\ Acked(inbox) \in SUBSET (1 .. Len(inbox))
  BY DEF TypeOK, Told, Acked
<1> QED
  BY <1>1, Finite

\* What writing and reading a frame does to the counts.
LEMMA ToldAppend ==
  ASSUME TypeOK, NEW frame \in ServerFrames, outbox' = Append(outbox, frame)
  PROVE  Cardinality(Told(outbox')) =
           Cardinality(Told(outbox)) + IF frame = "SETTINGS" THEN 1 ELSE 0
<1> DEFINE last == Len(outbox) + 1
<1>1. outbox \in Seq(ServerFrames) /\ Len(outbox) \in Nat
  BY DEF TypeOK
<1>2. /\ DOMAIN outbox = 1 .. Len(outbox) /\ DOMAIN outbox' = 1 .. last
      /\ \A i \in 1 .. Len(outbox) : outbox'[i] = outbox[i]
      /\ outbox'[last] = frame
  BY <1>1, AppendProperties
<1>3. last \notin Told(outbox)
  BY <1>1, <1>2 DEF Told
<1>4. CASE frame = "SETTINGS"
  <2>1. Told(outbox') = Told(outbox) \cup {last}
    BY <1>1, <1>2, <1>4 DEF Told
  <2> QED
    BY <1>3, <1>4, <2>1, Counts, FS_AddElement
<1>5. CASE frame # "SETTINGS"
  <2>1. Told(outbox') = Told(outbox)
    BY <1>1, <1>2, <1>5 DEF Told
  <2> QED
    BY <1>5, <2>1, Counts
<1> QED
  BY <1>4, <1>5

LEMMA ToldTail ==
  ASSUME TypeOK, outbox # <<>>, outbox' = Tail(outbox)
  PROVE  Cardinality(Told(outbox')) =
           IF Head(outbox) = "SETTINGS" THEN Cardinality(Told(outbox)) - 1
           ELSE Cardinality(Told(outbox))
<1> DEFINE n == Len(outbox)
<1>1. outbox \in Seq(ServerFrames) /\ n \in Nat /\ n # 0 /\ DOMAIN outbox = 1 .. n
  BY EmptySeq DEF TypeOK
<1>2. /\ Head(outbox) = outbox[1] /\ DOMAIN outbox' = 1 .. n - 1
      /\ \A i \in 1 .. n - 1 : outbox'[i] = outbox[i + 1]
  BY <1>1, HeadTailProperties
<1>3. Told(outbox) \in SUBSET (1 .. n)
  BY <1>1 DEF Told
<1>4. Told(outbox') = {i \in 1 .. n - 1 : i + 1 \in Told(outbox)}
  BY <1>1, <1>2 DEF Told
<1>5. 1 \in Told(outbox) <=> Head(outbox) = "SETTINGS"
  BY <1>1, <1>2 DEF Told
<1> QED
  BY <1>1, <1>3, <1>4, <1>5, Shifted

LEMMA AcksAppend ==
  ASSUME TypeOK, NEW frame \in ClientFrames, inbox' = Append(inbox, frame)
  PROVE  Cardinality(Acked(inbox')) =
           Cardinality(Acked(inbox)) + IF frame.kind = "SETTINGS_ACK" THEN 1 ELSE 0
<1> DEFINE last == Len(inbox) + 1
<1>1. inbox \in Seq(ClientFrames) /\ Len(inbox) \in Nat
  BY DEF TypeOK
<1>2. /\ DOMAIN inbox = 1 .. Len(inbox) /\ DOMAIN inbox' = 1 .. last
      /\ \A i \in 1 .. Len(inbox) : inbox'[i] = inbox[i]
      /\ inbox'[last] = frame
  BY <1>1, AppendProperties
<1>3. last \notin Acked(inbox)
  BY <1>1, <1>2 DEF Acked
<1>4. CASE frame.kind = "SETTINGS_ACK"
  <2>1. Acked(inbox') = Acked(inbox) \cup {last}
    BY <1>1, <1>2, <1>4 DEF Acked
  <2> QED
    BY <1>3, <1>4, <2>1, Counts, FS_AddElement
<1>5. CASE frame.kind # "SETTINGS_ACK"
  <2>1. Acked(inbox') = Acked(inbox)
    BY <1>1, <1>2, <1>5 DEF Acked
  <2> QED
    BY <1>5, <2>1, Counts
<1> QED
  BY <1>4, <1>5

LEMMA AcksTail ==
  ASSUME TypeOK, inbox # <<>>, inbox' = Tail(inbox)
  PROVE  Cardinality(Acked(inbox')) =
           IF Head(inbox).kind = "SETTINGS_ACK" THEN Cardinality(Acked(inbox)) - 1
           ELSE Cardinality(Acked(inbox))
<1> DEFINE n == Len(inbox)
<1>1. inbox \in Seq(ClientFrames) /\ n \in Nat /\ n # 0 /\ DOMAIN inbox = 1 .. n
  BY EmptySeq DEF TypeOK
<1>2. /\ Head(inbox) = inbox[1] /\ DOMAIN inbox' = 1 .. n - 1
      /\ \A i \in 1 .. n - 1 : inbox'[i] = inbox[i + 1]
  BY <1>1, HeadTailProperties
<1>3. Acked(inbox) \in SUBSET (1 .. n)
  BY <1>1 DEF Acked
<1>4. Acked(inbox') = {i \in 1 .. n - 1 : i + 1 \in Acked(inbox)}
  BY <1>1, <1>2 DEF Acked
<1>5. 1 \in Acked(inbox) <=> Head(inbox).kind = "SETTINGS_ACK"
  BY <1>1, <1>2 DEF Acked
<1> QED
  BY <1>1, <1>3, <1>4, <1>5, Shifted

-----------------------------------------------------------------------------
(* The steps.                                                                *)

LEMMA StepInit == Init => InStep
<1> SUFFICES ASSUME Init PROVE InStep
  OBVIOUS
<1>1. local = "waitingAck" /\ outbox = <<"SETTINGS">> /\ inbox = <<>>
  BY DEF Init
<1>2. Told(outbox) = {1} /\ Acked(inbox) = {}
  BY <1>1 DEF Told, Acked
<1>3. Cardinality({}) = 0 /\ Cardinality({1}) = 1
  BY FS_EmptySet, FS_Singleton
<1>4. OnTheWay = 1
  BY <1>2, <1>3 DEF OnTheWay
<1> QED
  BY <1>1, <1>4 DEF InStep

\* What InStep reads.
LEMMA SameCounts ==
  ASSUME InStep, UNCHANGED <<local, outbox, inbox, client>>
  PROVE  InStep'
BY DEF InStep, OnTheWay, Told, Acked

\* A frame other than SETTINGS is written.
LEMMA OtherWritten ==
  ASSUME TypeOK, InStep, NEW frame \in ServerFrames \ {"SETTINGS"}, Written(frame),
         UNCHANGED <<local, inbox, client>>
  PROVE  InStep'
<1>1. Cardinality(Told(outbox')) = Cardinality(Told(outbox))
  BY Counts, ToldAppend DEF Written
<1>2. OnTheWay' = OnTheWay
  BY <1>1 DEF OnTheWay, Acked, Told
<1> QED
  BY <1>2 DEF InStep

\* A frame other than an ack of SETTINGS is read.
LEMMA OtherRead ==
  ASSUME TypeOK, InStep, NEW kind, kind # "SETTINGS_ACK", Read(kind),
         UNCHANGED <<local, outbox, client>>
  PROVE  InStep'
<1>1. Cardinality(Acked(inbox')) = Cardinality(Acked(inbox))
  BY AcksTail DEF Read
<1>2. OnTheWay' = OnTheWay
  BY <1>1 DEF OnTheWay, Acked, Told
<1> QED
  BY <1>2 DEF InStep

LEMMA SettingsWritten ==
  ASSUME TypeOK, InStep, SendLocalSettings
  PROVE  InStep'
<1>1. local = "toSend" /\ local' = "waitingAck" /\ outbox' = Append(outbox, "SETTINGS")
      /\ inbox' = inbox
  BY DEF SendLocalSettings, Written, Due
<1>2. Cardinality(Told(outbox')) = Cardinality(Told(outbox)) + 1
  BY <1>1, ToldAppend DEF ServerFrames
<1>3. OnTheWay' = OnTheWay + 1
  BY <1>1, <1>2, Counts DEF OnTheWay
<1> QED
  BY <1>1, <1>3 DEF InStep

\* An ack can only be read while it is waited for.
LEMMA AckRead ==
  ASSUME TypeOK, InStep, RecvSettingsAck
  PROVE  InStep'
<1>1. inbox # <<>> /\ Head(inbox).kind = "SETTINGS_ACK" /\ inbox' = Tail(inbox)
      /\ outbox' = outbox
  BY DEF RecvSettingsAck, Read
<1>2. Cardinality(Acked(inbox')) = Cardinality(Acked(inbox)) - 1
  BY <1>1, AcksTail
<1>3. OnTheWay' = OnTheWay - 1
  BY <1>1, <1>2, Counts DEF OnTheWay
<1>4. OnTheWay \in Nat /\ OnTheWay' \in Nat
  <2>1. inbox' \in Seq(ClientFrames) /\ Len(inbox') \in Nat
    BY <1>1, HeadOfInbox
  <2>2. Acked(inbox') \in SUBSET (1 .. Len(inbox'))
    BY <2>1 DEF Acked
  <2>3. Cardinality(Acked(inbox')) \in Nat
    BY <2>1, <2>2, Finite
  <2> QED
    BY <1>1, <2>3, Counts DEF OnTheWay
<1>5. local = "waitingAck" /\ OnTheWay = 1
  BY <1>3, <1>4 DEF InStep
<1>6. local' = "synced"
  BY <1>5 DEF RecvSettingsAck
<1> QED
  BY <1>3, <1>5, <1>6 DEF InStep

\* The client starts a frame, which is no ack.
LEMMA ClientStarts ==
  ASSUME TypeOK, InStep, NEW frame \in ClientFrames, frame.kind # "SETTINGS_ACK",
         Starts(frame), UNCHANGED <<local, outbox>>, client.ended => client'.ended
  PROVE  InStep'
<1>1. Cardinality(Acked(inbox')) = Cardinality(Acked(inbox))
  BY Counts, AcksAppend DEF Starts, Sends
<1>2. OnTheWay' = OnTheWay
  BY <1>1 DEF OnTheWay, Acked, Told
<1> QED
  BY <1>2 DEF InStep

\* The client reads SETTINGS and acknowledges them, unless it has ended.
LEMMA ClientReadsSettings ==
  ASSUME TypeOK, InStep, ClientReads
  PROVE  InStep'
<1> DEFINE frame == Head(outbox)
<1>1. outbox # <<>> /\ outbox' = Tail(outbox) /\ local' = local
  BY DEF ClientReads, settingsVars
<1>2. client'.ended = client.ended
  <2>1. CASE frame = "GOAWAY"
    BY <2>1 DEF ClientReads, TypeOK, Clients
  <2>2. CASE frame # "GOAWAY"
    BY <2>2 DEF ClientReads
  <2> QED
    BY <2>1, <2>2
<1>3. CASE frame = "SETTINGS" /\ ~client.ended
  <2>1. inbox' = Append(inbox, Frame("SETTINGS_ACK", 0, "good"))
    BY <1>3 DEF ClientReads, Sends
  <2>2. Frame("SETTINGS_ACK", 0, "good") \in ClientFrames
    BY DEF Frame, ClientFrames
  <2>3. Frame("SETTINGS_ACK", 0, "good").kind = "SETTINGS_ACK"
    BY DEF Frame
  <2>4. Cardinality(Acked(inbox')) = Cardinality(Acked(inbox)) + 1
    BY <2>1, <2>2, <2>3, AcksAppend
  <2>5. Cardinality(Told(outbox')) = Cardinality(Told(outbox)) - 1
    BY <1>1, <1>3, ToldTail
  <2>6. OnTheWay' = OnTheWay
    BY <2>4, <2>5, Counts DEF OnTheWay, Acked, Told
  <2> QED
    BY <1>1, <1>2, <2>6 DEF InStep
<1>4. CASE frame = "SETTINGS" /\ client.ended
  <2>1. inbox' = inbox
    BY <1>4 DEF ClientReads
  <2>2. Cardinality(Told(outbox')) = Cardinality(Told(outbox)) - 1
    BY <1>1, <1>4, ToldTail
  <2>3. OnTheWay' = OnTheWay - 1
    BY <2>1, <2>2, Counts DEF OnTheWay, Acked, Told
  <2>4. OnTheWay \in Nat /\ OnTheWay # 0
    <3>1. outbox \in Seq(ServerFrames) /\ 1 \in DOMAIN outbox /\ outbox[1] = "SETTINGS"
      <4>1. outbox \in Seq(ServerFrames) /\ Len(outbox) \in Nat \ {0}
        BY <1>1, EmptySeq DEF TypeOK
      <4> QED
        BY <1>4, <4>1
    <3>2. 1 \in Told(outbox)
      BY <3>1 DEF Told
    <3>3. Cardinality(Told(outbox)) # 0
      BY <3>2, Counts, FS_EmptySet
    <3> QED
      BY <3>3, Counts DEF OnTheWay
  <2> QED
    BY <1>1, <1>2, <1>4, <2>3, <2>4 DEF InStep
<1>5. CASE frame # "SETTINGS"
  <2>1. Cardinality(Told(outbox')) = Cardinality(Told(outbox))
    BY <1>1, <1>5, ToldTail
  <2>2. Cardinality(Acked(inbox')) = Cardinality(Acked(inbox))
    <3>1. CASE inbox' = inbox
      BY <3>1 DEF Acked
    <3>2. CASE inbox' # inbox
      <4>1. inbox' = Append(inbox, Frame("PING_ACK", 0, "good"))
        BY <1>5, <3>2 DEF ClientReads, Sends
      <4>2. Frame("PING_ACK", 0, "good") \in ClientFrames
        BY DEF Frame, ClientFrames
      <4>3. Frame("PING_ACK", 0, "good").kind = "PING_ACK"
        BY DEF Frame
      <4> QED
        BY <4>1, <4>2, <4>3, AcksAppend, Counts
    <3> QED
      BY <3>1, <3>2
  <2>3. OnTheWay' = OnTheWay
    BY <2>1, <2>2 DEF OnTheWay, Acked, Told
  <2> QED
    BY <1>1, <1>2, <2>3 DEF InStep
<1> QED
  BY <1>3, <1>4, <1>5

LEMMA StepNext ==
  ASSUME TypeOK, InStep, [Next]_vars
  PROVE  InStep'
<1> USE DEF taskVars, settingsVars, recvVars, streamVars, wakeVars, history
<1>1. CASE Owner
  <2>1. CASE SetInitialWindow
    <3>1. local # "waitingAck" /\ local' = "toSend"
      BY <2>1 DEF SetInitialWindow
    <3>2. OnTheWay' = OnTheWay
      BY <2>1 DEF SetInitialWindow, OnTheWay, Told, Acked
    <3> QED
      BY <3>1, <3>2 DEF InStep
  <2>2. CASE Graceful \/ Abrupt
    BY <2>2, SameCounts DEF Graceful, Abrupt
  <2> QED
    BY <1>1, <2>1, <2>2 DEF Owner
<1>2. CASE Accept \/ Users \/ Writable
  BY <1>2, SameCounts DEF Accept, Users, Answer, Drop, Gives, Writable
<1>3. CASE Begin \/ Leave \/ NothingToRead \/ CompleteReady \/ Idle \/ CloseReady \/ Blocked
  BY <1>3, SameCounts DEF Begin, Leave, NothingToRead, CompleteReady, Idle, CloseReady,
    Blocked, Block, CompleteBlocked, CloseBlocked
<1>4. CASE Sending
  <2>1. CASE SendGoAway
    BY <2>1, OtherWritten DEF SendGoAway, ServerFrames
  <2>2. CASE SendShutdownPing
    BY <2>2, OtherWritten DEF SendShutdownPing, ServerFrames
  <2>3. CASE SendSettingsAck
    BY <2>3, OtherWritten DEF SendSettingsAck, ServerFrames
  <2>4. CASE SendLocalSettings
    BY <2>4, SettingsWritten
  <2>5. CASE SendRefusal
    BY <2>5, OtherWritten DEF SendRefusal, ServerFrames
  <2> QED
    BY <1>4, <2>1, <2>2, <2>3, <2>4, <2>5 DEF Sending
<1>5. CASE Receiving
  <2>1. CASE RecvHeaders
    BY <2>1, OtherRead DEF RecvHeaders
  <2>2. CASE RecvMalformedHeaders
    BY <2>2, OtherRead DEF RecvMalformedHeaders
  <2>3. CASE RecvReset
    BY <2>3, OtherRead DEF RecvReset
  <2>4. CASE RecvSettings
    BY <2>4, OtherRead DEF RecvSettings
  <2>5. CASE RecvSettingsAck
    BY <2>5, AckRead
  <2>6. CASE RecvShutdownAck
    BY <2>6, OtherRead DEF RecvShutdownAck
  <2>7. CASE RecvGoAway
    BY <2>7, OtherRead DEF RecvGoAway
  <2>8. CASE RecvViolation
    BY <2>8, OtherRead DEF RecvViolation
  <2>9. CASE RecvEof
    BY <2>9, OtherRead DEF RecvEof
  <2> QED
    BY <1>5, <2>1, <2>2, <2>3, <2>4, <2>5, <2>6, <2>7, <2>8, <2>9 DEF Receiving
<1>6. CASE ClientMoves
  <2>1. PICK frame \in ClientFrames :
          Starts(frame) /\ frame.kind # "SETTINGS_ACK" /\ (client.ended => client'.ended)
    <3> USE DEF Frame
    <3>1. CASE ClientOpens("good") \/ ClientOpens("malformed")
      <4>1. PICK arg \in {"good", "malformed"} : ClientOpens(arg)
        BY <3>1
      <4>2. client.opened + 1 \in Ids
        BY <4>1, Constants DEF ClientOpens, TypeOK, Clients
      <4>3. Frame("HEADERS", client.opened + 1, arg) \in ClientFrames
        BY <4>2 DEF ClientFrames
      <4> QED
        BY <4>1, <4>3 DEF ClientOpens, TypeOK, Clients
    <3>2. CASE \E s \in Ids : ClientResets(s)
      <4>1. PICK s \in Ids : ClientResets(s)
        BY <3>2
      <4>2. Frame("RST_STREAM", s, "good") \in ClientFrames
        BY DEF ClientFrames
      <4> QED
        BY <4>1, <4>2 DEF ClientResets, TypeOK, Clients
    <3>3. CASE ClientSettings("good") \/ ClientSettings("bad")
      <4>1. PICK arg \in {"good", "bad"} : ClientSettings(arg)
        BY <3>3
      <4>2. Frame("SETTINGS", 0, arg) \in ClientFrames
        BY DEF ClientFrames
      <4> QED
        BY <4>1, <4>2 DEF ClientSettings, TypeOK, Clients
    <3>4. CASE \E last \in {0, MaxId}, reason \in {"NO_ERROR", "CLIENT"} :
                 ClientGoesAway(last, reason)
      <4>1. PICK last \in {0, MaxId}, reason \in {"NO_ERROR", "CLIENT"} :
              ClientGoesAway(last, reason)
        BY <3>4
      <4>2. Frame("GOAWAY", last, reason) \in ClientFrames
        BY DEF ClientFrames, Reasons
      <4> QED
        BY <4>1, <4>2 DEF ClientGoesAway, TypeOK, Clients
    <3>5. CASE ClientEnds("VIOLATION") \/ ClientEnds("EOF")
      <4>1. PICK kind \in {"VIOLATION", "EOF"} : ClientEnds(kind)
        BY <3>5
      <4>2. Frame(kind, 0, "good") \in ClientFrames
        BY DEF ClientFrames
      <4> QED
        BY <4>1, <4>2 DEF ClientEnds, TypeOK, Clients
    <3> QED
      BY <1>6, <3>1, <3>2, <3>3, <3>4, <3>5 DEF ClientMoves
  <2>2. UNCHANGED <<local, outbox>>
    BY <1>6 DEF ClientMoves, ClientOpens, ClientResets, ClientSettings, ClientGoesAway,
      ClientEnds, ClientUnchanged
  <2> QED
    BY <2>1, <2>2, ClientStarts
<1>7. CASE ClientReads
  BY <1>7, ClientReadsSettings
<1>8. CASE UNCHANGED vars
  BY <1>8, SameCounts DEF vars
<1> QED
  BY <1>1, <1>2, <1>3, <1>4, <1>5, <1>6, <1>7, <1>8 DEF Next, Poll

-----------------------------------------------------------------------------
\* While the task waits for an ack of its SETTINGS, the frame or its ack is on
\* its way, and only one: settings.rs:42 takes any ack for the one it expects.
THEOREM SettingsNeverConfused == Spec => []SettingsInStep
<1>1. TypeOK /\ InStep => SettingsInStep
  <2> SUFFICES ASSUME TypeOK, InStep PROVE SettingsInStep
    OBVIOUS
  <2>1. OnTheWay \in Nat
    BY Counts DEF OnTheWay
  <2>2. IF local = "waitingAck" /\ ~client.ended THEN OnTheWay = 1 ELSE OnTheWay <= 1
    BY <2>1 DEF InStep
  <2> QED
    BY <2>2 DEF OnTheWay, Told, Acked, SettingsInStep
<1>2. InStep /\ TypeOK /\ [Next]_vars => InStep'
  BY StepNext
<1> QED
  BY <1>1, <1>2, StepInit, TypeCorrect, PTL DEF Spec

-----------------------------------------------------------------------------
(* For all schemes, authorities, paths, statuses and methods: what the       *)
(* receiving side of a connection makes of the messages the other side       *)
(* sends.  Each theorem splits on the checks of the sender, and then on      *)
(* those of the receiver.                                                    *)

\* The kinds of what is sent and received are different.
LEMMA Kinds ==
  /\ \A e : UserError(e).kind # "frame"
  /\ \A p, f : HeadersFrame(p, f).kind = "frame" /\ HeadersFrame(p, f).pseudo = p
               /\ HeadersFrame(p, f).fields = f
  /\ StreamError.kind # "request"
  /\ ConnectionError.kind # "request"
  /\ \A m, u, f : GotRequest(m, u, f).kind = "request" /\ GotRequest(m, u, f).method = m
                  /\ GotRequest(m, u, f).fields = f
BY DEF UserError, HeadersFrame, StreamError, ConnectionError, GotRequest

LEMMA FrameParts ==
  ASSUME NEW p, NEW f, NEW x, x = HeadersFrame(p, f)
  PROVE  x.pseudo = p /\ x.fields = f
BY DEF HeadersFrame

\* What is sent has passed the checks of the sender.
LEMMA SentIsChecked ==
  ASSUME NEW pseudo, NEW f, SendHeaders(pseudo, f).kind = "frame"
  PROVE  /\ CheckHeaders(f) /\ ~f.big
         /\ SendHeaders(pseudo, f) = HeadersFrame(pseudo, f)
<1>1. CASE ~CheckHeaders(f)
  BY <1>1, Kinds DEF SendHeaders
<1>2. CASE CheckHeaders(f) /\ f.big
  BY <1>2, Kinds DEF SendHeaders
<1>3. CASE CheckHeaders(f) /\ ~f.big
  BY <1>3 DEF SendHeaders
<1> QED
  BY <1>1, <1>2, <1>3

\* Fields that pass the sender's check pass the receiver's, but for a second
\* TE field.
LEMMA ChecksAgree ==
  ASSUME NEW f \in Fields, CheckHeaders(f)
  PROVE  IsWellFormed(f) <=> f.te # "trailersFirst"
BY DEF CheckHeaders, IsWellFormed, Fields

\* What a request's URI can be.
LEMMA UriParts ==
  ASSUME NEW u \in Uris, IsUri(u)
  PROVE  /\ u.scheme # Absent => u.authority # Absent /\ u.path # Absent
         /\ u.scheme = Absent /\ u.authority # Absent => u.path = Absent
         /\ u.path # ""
         /\ "" # Absent /\ "/" # Absent /\ "http" # Absent /\ "/" # ""
BY MessagesAssumption DEF Uris, IsUri

LEMMA PseudoParts ==
  ASSUME NEW method \in Methods, NEW u \in Uris
  PROVE  /\ RequestPseudo(method, u).method = method /\ method # Absent
         /\ RequestPseudo(method, u).scheme = u.scheme
         /\ RequestPseudo(method, u).authority = u.authority
         /\ RequestPseudo(method, u).status = Absent
         /\ RequestPseudo(method, u).path =
              IF u.path # Absent THEN u.path ELSE IF method = "OPTIONS" THEN "" ELSE "/"
BY MessagesAssumption DEF RequestPseudo, NoPseudo

\* The pseudo header fields of a request that is sent.
LEMMA ClientSendsPseudo ==
  ASSUME NEW req \in Requests, ClientSends(req).kind = "frame"
  PROVE  \E p : /\ ClientSends(req) = HeadersFrame(p, req.fields)
                /\ CheckHeaders(req.fields)
                /\ p.method = req.method /\ p.method # Absent
                /\ p.status = Absent
                /\ p.authority = req.uri.authority
                /\ p.scheme = IF req.uri.scheme = Absent /\ req.uri.authority = Absent
                              THEN "http" ELSE req.uri.scheme
                /\ p.path = IF req.uri.path # Absent THEN req.uri.path
                            ELSE IF req.method = "OPTIONS" THEN "" ELSE "/"
<1> DEFINE ps == RequestPseudo(req.method, req.uri)
           bare == ps.scheme = Absent /\ ps.authority = Absent
           p == IF bare THEN [ps EXCEPT !.scheme = "http"] ELSE ps
<1>1. req.method \in Methods /\ req.uri \in Uris
  BY DEF Requests
<1>2. /\ ps.method = req.method /\ req.method # Absent
      /\ ps.scheme = req.uri.scheme /\ ps.authority = req.uri.authority /\ ps.status = Absent
      /\ ps.path = IF req.uri.path # Absent THEN req.uri.path
                   ELSE IF req.method = "OPTIONS" THEN "" ELSE "/"
  BY <1>1, PseudoParts
<1>3. ~(bare /\ req.version = "HTTP/2.0")
  BY Kinds DEF ClientSends
<1>4. ClientSends(req) = SendHeaders(p, req.fields)
  BY <1>3 DEF ClientSends
<1>5. ClientSends(req) = HeadersFrame(p, req.fields) /\ CheckHeaders(req.fields)
  BY <1>4, SentIsChecked
<1>6. /\ p.method = ps.method /\ p.status = ps.status /\ p.authority = ps.authority
      /\ p.path = ps.path
      /\ p.scheme = IF bare THEN "http" ELSE ps.scheme
  <2>1. CASE bare
    BY <2>1 DEF RequestPseudo, NoPseudo
  <2>2. CASE ~bare
    BY <2>2
  <2> QED
    BY <2>1, <2>2
<1> QED
  BY <1>2, <1>5, <1>6

\* What the server makes of a request that has a method and no status.
LEMMA ReadRequestOutcome ==
  ASSUME NEW p, NEW f, p.method # Absent, p.status = Absent,
         NEW uri, uri = [scheme |-> IF p.authority = Absent THEN Absent ELSE p.scheme,
                         authority |-> p.authority, path |-> p.path]
  PROVE  ReadRequest(p, f) =
           IF \/ p.method = "CONNECT" /\ (p.scheme # Absent \/ p.path # Absent)
              \/ p.method # "CONNECT" /\ p.scheme = Absent
              \/ p.path = ""
              \/ ~IsUri(uri)
           THEN StreamError ELSE GotRequest(p.method, uri, f)
BY DEF ReadRequest

LEMMA UriEq ==
  ASSUME NEW u \in Uris, NEW s, NEW a, NEW q, u.scheme = s, u.authority = a, u.path = q
  PROVE  [scheme |-> s, authority |-> a, path |-> q] = u
BY DEF Uris

LEMMA UriWithPath ==
  ASSUME NEW u \in Uris, NEW s, NEW a, NEW q, u.scheme = s, u.authority = a
  PROVE  [scheme |-> s, authority |-> a, path |-> q] = [u EXCEPT !.path = q]
BY DEF Uris

LEMMA NormalUri ==
  ASSUME NEW u \in Uris
  PROVE  Normal(u) = [u EXCEPT !.path = IF u.path = Absent THEN "/" ELSE u.path]
BY DEF Normal, Uris

-----------------------------------------------------------------------------
\* Every request the client sends reaches the server as it was sent, or is
\* refused as a stream for one of the reasons of Refused: client.rs:444 and
\* send.rs:56 against headers.rs:735 and server.rs:537.  None of them ends the
\* connection.
THEOREM RequestsSurvive == \A req \in Requests : RequestSurvives(req)
<1> SUFFICES ASSUME NEW req \in Requests, ClientSends(req).kind = "frame"
             PROVE  ServerReceives(ClientSends(req)) =
                      IF Refused(req) THEN StreamError
                      ELSE GotRequest(req.method, Normal(req.uri), req.fields)
  BY DEF RequestSurvives
<1> DEFINE f == req.fields
           u == req.uri
<1>1. PICK p : /\ ClientSends(req) = HeadersFrame(p, f)
               /\ CheckHeaders(f)
               /\ p.method = req.method /\ p.method # Absent
               /\ p.status = Absent
               /\ p.authority = u.authority
               /\ p.scheme = IF u.scheme = Absent /\ u.authority = Absent
                             THEN "http" ELSE u.scheme
               /\ p.path = IF u.path # Absent THEN u.path
                           ELSE IF req.method = "OPTIONS" THEN "" ELSE "/"
  BY ClientSendsPseudo
<1>2. u \in Uris /\ IsUri(u) /\ f \in Fields
  BY DEF Requests
<1>3. ServerReceives(ClientSends(req)) =
        IF ~IsWellFormed(f) \/ f.length = "malformed" THEN StreamError ELSE ReadRequest(p, f)
  <2>1. ClientSends(req).pseudo = p /\ ClientSends(req).fields = f
    <3>1. ClientSends(req) = HeadersFrame(p, f)
      BY <1>1
    <3> QED
      BY <3>1, FrameParts
  <2> QED
    BY <2>1 DEF ServerReceives
<1>4. CASE Slips(f)
  <2>1. ~IsWellFormed(f) \/ f.length = "malformed"
    BY <1>1, <1>2, <1>4, ChecksAgree DEF Slips
  <2> QED
    BY <1>3, <1>4, <2>1 DEF Refused
<1>5. CASE ~Slips(f)
  <2> DEFINE uri == [scheme |-> IF p.authority = Absent THEN Absent ELSE p.scheme,
                     authority |-> p.authority, path |-> p.path]
  <2>1. ServerReceives(ClientSends(req)) = ReadRequest(p, f)
    BY <1>1, <1>2, <1>3, <1>5, ChecksAgree DEF Slips
  <2>2. ReadRequest(p, f) =
          IF \/ p.method = "CONNECT" /\ (p.scheme # Absent \/ p.path # Absent)
             \/ p.method # "CONNECT" /\ p.scheme = Absent
             \/ p.path = ""
             \/ ~IsUri(uri)
          THEN StreamError ELSE GotRequest(p.method, uri, f)
    BY <1>1, ReadRequestOutcome
  <2>3. /\ u.scheme # Absent => u.authority # Absent /\ u.path # Absent
        /\ u.scheme = Absent /\ u.authority # Absent => u.path = Absent
        /\ u.path # ""
        /\ "" # Absent /\ "/" # Absent /\ "http" # Absent /\ "/" # ""
    BY <1>2, UriParts
  <2>4. CASE Refused(req)
    <3>1. \/ req.method = "CONNECT"
          \/ u.scheme = Absent /\ u.authority # Absent
          \/ req.method = "OPTIONS" /\ u.path = Absent
      BY <1>5, <2>4 DEF Refused
    <3>2. CASE req.method = "CONNECT"
      <4>1. p.path # Absent
        BY <1>1, <2>3
      <4> QED
        BY <1>1, <2>1, <2>2, <2>4, <3>2, <4>1
    <3>3. CASE req.method # "CONNECT" /\ u.scheme = Absent /\ u.authority # Absent
      BY <1>1, <2>1, <2>2, <2>4, <3>3
    <3>4. CASE req.method = "OPTIONS" /\ u.path = Absent
      BY <1>1, <2>1, <2>2, <2>4, <3>4
    <3> QED
      BY <3>1, <3>2, <3>3, <3>4
  <2>5. CASE ~Refused(req)
    <3>1. /\ req.method # "CONNECT"
          /\ u.scheme # Absent \/ u.authority = Absent
          /\ u.path = Absent => req.method # "OPTIONS"
      BY <2>5 DEF Refused
    <3>2. p.scheme # Absent
      BY <1>1, <2>3, <3>1
    <3>3. p.path = (IF u.path = Absent THEN "/" ELSE u.path) /\ p.path # "" /\ p.path # Absent
      BY <1>1, <2>3, <3>1
    <3>4. (IF p.authority = Absent THEN Absent ELSE p.scheme) = u.scheme
      BY <1>1, <2>3, <3>1
    <3>5. uri = Normal(u)
      <4> DEFINE s == IF p.authority = Absent THEN Absent ELSE p.scheme
      <4> HIDE DEF s
      <4>1. uri = [scheme |-> s, authority |-> p.authority, path |-> p.path]
        BY DEF s
      <4>2. u.scheme = s /\ u.authority = p.authority
        BY <1>1, <3>4 DEF s
      <4>3. [scheme |-> s, authority |-> p.authority, path |-> p.path] = [u EXCEPT !.path = p.path]
        BY <1>2, <4>2, UriWithPath
      <4>4. Normal(u) = [u EXCEPT !.path = p.path]
        BY <1>2, <3>3, NormalUri
      <4> QED
        BY <4>1, <4>3, <4>4
    <3>6. uri.scheme = u.scheme /\ uri.authority = u.authority /\ uri.path = p.path
      BY <1>1, <3>4
    <3>7. IsUri(uri)
      <4>1. CASE u.scheme # Absent
        BY <2>3, <3>3, <3>6, <4>1 DEF IsUri
      <4>2. CASE u.scheme = Absent
        BY <3>1, <3>6, <4>2 DEF IsUri
      <4> QED
        BY <4>1, <4>2
    <3>8. ReadRequest(p, f) = GotRequest(p.method, uri, f)
      BY <1>1, <2>2, <3>1, <3>2, <3>3, <3>7
    <3> QED
      BY <1>1, <2>1, <2>5, <3>5, <3>8
  <2> QED
    BY <2>4, <2>5
<1> QED
  BY <1>4, <1>5

\* Every response the server sends reaches the client, or is refused for a
\* second TE field or, if it does not answer a HEAD, a malformed length that
\* send.rs:56 let pass.
THEOREM ResponsesSurvive ==
  \A res \in Responses, toHead \in BOOLEAN : ResponseSurvives(res, toHead)
<1> SUFFICES ASSUME NEW res \in Responses, NEW toHead \in BOOLEAN,
                    ServerSends(res).kind = "frame"
             PROVE  ClientReceives(ServerSends(res), toHead) =
                      IF \/ res.fields.te = "trailersFirst"
                         \/ ~toHead /\ res.fields.length = "malformed"
                      THEN StreamError ELSE GotResponse(res.status, res.fields)
  BY DEF ResponseSurvives
<1> DEFINE p == ResponsePseudo(res.status)
<1>1. res.fields \in Fields /\ res.status \in Statuses
  BY DEF Responses
<1>2. ServerSends(res) = HeadersFrame(p, res.fields) /\ CheckHeaders(res.fields)
  BY SentIsChecked DEF ServerSends
<1>3. p.status = res.status /\ res.status # Absent
  BY <1>1, MessagesAssumption DEF ResponsePseudo, NoPseudo
<1>4. ClientReceives(ServerSends(res), toHead) =
        IF ~IsWellFormed(res.fields) \/ (~toHead /\ res.fields.length = "malformed")
        THEN StreamError ELSE GotResponse(res.status, res.fields)
  BY <1>2, <1>3, Kinds DEF ClientReceives
<1>5. IsWellFormed(res.fields) <=> res.fields.te # "trailersFirst"
  BY <1>1, <1>2, ChecksAgree
<1> QED
  BY <1>4, <1>5

\* A promise of the server reaches the client if its request has a scheme;
\* convert_push_message (server.rs:484) does not ask for one, as the client's
\* convert_send_message does of its requests.
THEOREM PromisesSurvive == \A req \in Requests : PromiseSurvives(req)
<1> SUFFICES ASSUME NEW req \in Requests, ServerPromises(req).kind = "frame"
             PROVE  ClientReceivesPromise(ServerPromises(req)) =
                      IF req.uri.scheme = Absent \/ req.fields.te = "trailersFirst"
                      THEN StreamError ELSE GotRequest(req.method, req.uri, req.fields)
  BY DEF PromiseSurvives
<1> DEFINE f == req.fields
           u == req.uri
           p == RequestPseudo(req.method, u)
           uri == [scheme |-> IF p.authority = Absent THEN Absent ELSE p.scheme,
                   authority |-> p.authority, path |-> p.path]
<1>1. u \in Uris /\ IsUri(u) /\ f \in Fields /\ req.method \in Methods
  BY DEF Requests
<1>2. /\ IsPromisable(req.method, f) /\ CheckHeaders(f)
      /\ ServerPromises(req) = HeadersFrame(p, f)
  <2>1. CASE ~IsPromisable(req.method, f) \/ ~CheckHeaders(f)
    BY <2>1, Kinds DEF ServerPromises
  <2>2. CASE IsPromisable(req.method, f) /\ CheckHeaders(f)
    BY <2>2 DEF ServerPromises
  <2> QED
    BY <2>1, <2>2
<1>3. req.method # "CONNECT" /\ req.method # "OPTIONS"
  BY <1>2 DEF IsPromisable
<1>4. /\ p.method = req.method /\ req.method # Absent
      /\ p.scheme = u.scheme /\ p.authority = u.authority /\ p.status = Absent
      /\ p.path = IF u.path # Absent THEN u.path ELSE IF req.method = "OPTIONS" THEN "" ELSE "/"
  BY <1>1, PseudoParts
<1>5. IsWellFormed(f) <=> f.te # "trailersFirst"
  BY <1>1, <1>2, ChecksAgree
<1>6. ReadRequest(p, f) =
        IF p.scheme = Absent \/ p.path = "" \/ ~IsUri(uri)
        THEN StreamError ELSE GotRequest(p.method, uri, f)
  BY <1>3, <1>4, ReadRequestOutcome
<1>7. ClientReceivesPromise(ServerPromises(req)) =
        IF ~IsWellFormed(f) THEN StreamError
        ELSE IF ReadRequest(p, f).kind = "request"
                /\ ~IsPromisable(ReadRequest(p, f).method, ReadRequest(p, f).fields)
             THEN StreamError ELSE ReadRequest(p, f)
  BY <1>2, Kinds DEF ClientReceivesPromise
<1>8. CASE ~IsWellFormed(f)
  BY <1>5, <1>7, <1>8
<1>9. CASE IsWellFormed(f) /\ u.scheme = Absent
  <2>1. ReadRequest(p, f) = StreamError
    BY <1>4, <1>6, <1>9
  <2> QED
    BY <1>7, <1>9, <2>1, Kinds
<1>10. CASE IsWellFormed(f) /\ u.scheme # Absent
  <2>1. /\ u.authority # Absent /\ u.path # Absent /\ u.path # ""
    BY <1>1, <1>10, UriParts
  <2>2. p.path = u.path
    BY <1>4, <2>1
  <2>3. uri = u
    <3> DEFINE s == IF p.authority = Absent THEN Absent ELSE p.scheme
    <3>1. u.scheme = s /\ u.authority = p.authority
      BY <1>4, <2>1
    <3> HIDE DEF s, p
    <3>2. [scheme |-> s, authority |-> p.authority, path |-> p.path] = u
      BY <1>1, <2>2, <3>1, UriEq
    <3> QED
      BY <3>2 DEF s
  <2>4. ReadRequest(p, f) = GotRequest(req.method, u, f)
    BY <1>1, <1>4, <1>6, <1>10, <2>1, <2>2, <2>3
  <2>5. /\ ReadRequest(p, f).method = req.method
        /\ ReadRequest(p, f).fields = f
    BY <2>4, Kinds
  <2> QED
    BY <1>2, <1>5, <1>7, <1>10, <2>4, <2>5
<1> QED
  BY <1>8, <1>9, <1>10

\* Trailers leave unchecked (send.rs:226) and are refused by the other side when
\* check_headers would have refused them, and for a second TE field.
THEOREM AllTrailersSurvive == \A f \in Fields : TrailersSurvive(f)
<1> SUFFICES ASSUME NEW f \in Fields, SendTrailers(f).kind = "frame"
             PROVE  ReceivesTrailers(SendTrailers(f)) =
                      IF f.hop \/ f.te \in {"other", "trailersFirst"} THEN StreamError
                      ELSE [kind |-> "trailers", fields |-> f]
  BY DEF TrailersSurvive
<1>1. SendTrailers(f) = HeadersFrame(NoPseudo, f)
  BY Kinds DEF SendTrailers
<1>2. IsWellFormed(f) <=> ~(f.hop \/ f.te \in {"other", "trailersFirst"})
  BY DEF IsWellFormed, Fields
<1> QED
  BY <1>1, <1>2, Kinds DEF ReceivesTrailers
=============================================================================
