----------------------------- MODULE RecvStreams -----------------------------
(* The receiving half of an HTTP/2 connection: proto/streams/recv.rs, the    *)
(* entry points of streams.rs that reach it, counts.rs, and the handles of   *)
(* share.rs.  On a server the peer opens streams with HEADERS and the        *)
(* application accepts them; on a client the one request `Parent` is under   *)
(* way and the peer answers it and promises streams on it.                   *)
(*                                                                           *)
(* As in SendStreams each entry point locks `Inner` and is one action on     *)
(* `me`.  Of the sending half only what closes a stream is kept: the queue   *)
(* of its frames, none of which waits for a window.                          *)
EXTENDS StreamState, FlowControl, Queues, FiniteSets

CONSTANTS
  ConnWindow,   \* DEFAULT_INITIAL_WINDOW_SIZE, of the connection
  MaxReset,     \* local_reset_max
  Targets,      \* values of set_target_window_size
  Windows,      \* values of set_initial_window_size
  Instances,    \* names of the instances a run starts with
  Servers,      \* those in which this end is the server
  (* What differs between the instances: a function of them each.            *)
  StreamWindow, \* local_init_window_sz
  MaxRecv,      \* SETTINGS_MAX_CONCURRENT_STREAMS of this end
  PeerIds,      \* ids of the streams the peer may open: 1..n
  DataSizes,    \* lengths of the peer's DATA frames
  Lengths,      \* values of content-length the peer declares
  Resettable,   \* streams the application may reset
  Moves,        \* what else may happen: a subset of AllMoves
  MaxBytes,     \* bound: bytes the peer sends, on all streams
  MaxChanges    \* bound: windows the user changes

AllMoves == {"trailers", "violate", "malformed", "oversize", "streamError", "reset",
             "respond", "expire", "eof", "overPromise"}

ASSUME RecvAssumption ==
  /\ Servers \subseteq Instances /\ MaxReset \in Nat
  /\ {ConnWindow} \cup Targets \cup Windows \subseteq 0 .. MaxWindow
  /\ \A i \in Instances :
       /\ IsFiniteSet(PeerIds[i]) /\ PeerIds[i] = 1 .. Cardinality(PeerIds[i])
       /\ StreamWindow[i] \in 0 .. MaxWindow
       /\ DataSizes[i] \cup Lengths[i] \cup {MaxRecv[i], MaxBytes[i], MaxChanges[i]} \subseteq Nat
       /\ Resettable[i] \subseteq {0} \cup PeerIds[i] /\ Moves[i] \subseteq AllMoves

VARIABLES
  instance, \* which of the instances this is
  me,     \* Inner: what the mutex protects
  end,    \* how the connection task ended, "open" before
  peer,   \* what the peer knows: its windows, what it sent on each stream
  app,    \* what the application has read of each stream, and how it ended
  changes \* bound: windows the user changed

vars == <<instance, me, end, peer, app, changes>>

Parent == 0
Ids == {Parent} \cup PeerIds[instance]
Omitted == -1
NoId == -1

(* Keys of the slab.  A stream's key is its id; an entry made for a stream   *)
(* whose old entry the application still holds gets a second one, below 0.   *)
(* Bound: two entries of one id at a time, see SecondEntry.                  *)
Second(s) == -1 - s
IdOf(k) == IF k >= 0 THEN k ELSE -1 - k

-----------------------------------------------------------------------------
(* The store.                                                                *)

\* Stream::new.  `handles` counts as ref_count does, `task` is recv_task.
NewStream(window) ==
  [state |-> Idle, counted |-> FALSE, handles |-> {}, flow |-> Flow(window, window),
   inFlight |-> 0, events |-> <<>>, out |-> <<>>, length |-> Omitted,
   promises |-> <<>>, task |-> "none"]

\* Store::ids maps the id of a stream to its slab entry.
Slab(m) == DOMAIN m.store
Linked(m, s) == s \in DOMAIN m.ids
With(f, x, y) == [z \in DOMAIN f \cup {x} |-> IF z = x THEN y ELSE f[z]]
FreeKey(m, s) == IF s \in Slab(m) THEN Second(s) ELSE s
Insert(m, s, stream) ==
  LET k == FreeKey(m, s)
  IN  [m EXCEPT !.store = With(@, k, stream), !.ids = With(@, s, k)]

IsPendingAccept(m, s) ==
  Queued(m.accept, s) \/ \E p \in Slab(m) : Queued(m.store[p].promises, s)

StreamClosed(m, s) == IsClosed(m.store[s].state) /\ m.store[s].out = <<>>

IsReleased(m, s) ==
  /\ StreamClosed(m, s) /\ m.store[s].handles = {}
  /\ ~IsPendingAccept(m, s) /\ ~Queued(m.sending \o m.updates \o m.expiring, s)

\* An assert! of the code, an expect, or an unsigned subtraction.
Check(m, holds, name) == IF holds THEN m ELSE [m EXCEPT !.failed = @ \cup {name}]

Wake(m) == [m EXCEPT !.woken = TRUE]

\* Mutant: the reader is not woken.
NotifyNot(m, s) == m

\* notify_recv
Notify(m, s) == [m EXCEPT !.store[s].task = "none"]

\* Ptr::remove; `lost` are the bytes nobody can release any more.
RemoveFromSlab(m, s) ==
  [m EXCEPT !.store = Restrict(@, DOMAIN @ \ {s}), !.lost = @ + m.store[s].inFlight]

-----------------------------------------------------------------------------
(* Counts.                                                                   *)

CanIncNumRecv(m) == MaxRecv[instance] > m.numRecv
CanIncNumReset(m) == MaxReset > m.numReset

IncNumRecv(m, s) ==
  Check([m EXCEPT !.numRecv = @ + 1, !.store[s].counted = TRUE],
        CanIncNumRecv(m) /\ ~m.store[s].counted, "inc_num_recv_streams")

DecNumRecv(m, s) ==
  Check([m EXCEPT !.numRecv = @ - 1, !.store[s].counted = FALSE],
        m.numRecv > 0, "dec_num_streams")

DecNumReset(m) == Check([m EXCEPT !.numReset = @ - 1], m.numReset > 0, "dec_num_reset_streams")

\* Mutant: the slot stays taken.
TransitionAfterKeepsSlot(m, s, wasReset) ==
  LET unlinked == IF StreamClosed(m, s) /\ ~Queued(m.expiring, s)
                  THEN [(IF wasReset THEN DecNumReset(m) ELSE m)
                          EXCEPT !.ids = Restrict(@, DOMAIN @ \ {IdOf(s)})]
                  ELSE m
  IN  IF IsReleased(m, s) THEN RemoveFromSlab(unlinked, s) ELSE unlinked

TransitionAfter(m, s, wasReset) ==
  LET gone == StreamClosed(m, s)
      unlinked == IF gone /\ ~Queued(m.expiring, s)
                  THEN [(IF wasReset THEN DecNumReset(m) ELSE m)
                          EXCEPT !.ids = Restrict(@, DOMAIN @ \ {IdOf(s)})]
                  ELSE m
      uncounted == IF gone /\ m.store[s].counted THEN DecNumRecv(unlinked, s) ELSE unlinked
  IN  IF IsReleased(m, s) THEN RemoveFromSlab(uncounted, s) ELSE uncounted

Transition(m, s, Body(_, _)) == TransitionAfter(Body(m, s), s, Queued(m.expiring, s))

-----------------------------------------------------------------------------
(* What is left of the sending half.                                         *)

ScheduleSend(m, s) == Wake([m EXCEPT !.sending = PushOnce(@, s)])
QueueFrame(m, s, frame) == ScheduleSend([m EXCEPT !.store[s].out = Append(@, frame)], s)

SendReset(m, s) ==
  LET st == m.store[s]
      reset == [m EXCEPT !.store[s].state = SetReset(@)]
  IN  CASE IsReset(st.state) -> m
        [] ~IsReset(st.state) /\ IsClosed(st.state) /\ st.out = <<>> -> reset
        [] OTHER -> QueueFrame([reset EXCEPT !.store[s].out = <<>>], s, "RST_STREAM")

ScheduleImplicitReset(m, s) ==
  IF IsClosed(m.store[s].state) THEN m
  ELSE ScheduleSend([m EXCEPT !.store[s].state = SetScheduledReset(@)], s)

EnqueueResetExpiration(m, s) ==
  LET evicted ==
        IF ~CanIncNumReset(m) /\ m.expiring # <<>>
        THEN TransitionAfter([m EXCEPT !.expiring = Tail(@)], Head(m.expiring), TRUE)
        ELSE m
  IN  IF ~IsLocalReset(m.store[s].state) \/ Queued(m.expiring, s) THEN m
      ELSE IF CanIncNumReset(evicted)
           THEN [evicted EXCEPT !.numReset = @ + 1, !.expiring = Append(@, s)]
           ELSE evicted

\* Actions::send_reset, also for a stream nobody knows (any more).
ActionsSendReset(m, s) ==
  LET Reset(n, t) == Notify(EnqueueResetExpiration(SendReset(n, t), t), t)
      known == IF Linked(m, s) THEN m ELSE Insert(m, s, NewStream(0))
  IN  Transition(known, known.ids[s], Reset)

MaybeCancel(m, s) ==
  IF m.store[s].handles = {} /\ ~IsClosed(m.store[s].state)
  THEN EnqueueResetExpiration(ScheduleImplicitReset(m, s), s) ELSE m

-----------------------------------------------------------------------------
(* Recv.                                                                     *)

\* A connection error: poll() ends all streams and the connection.
ConnError(m) == [m EXCEPT !.err = TRUE]

ReleaseConnection(m, n, task) ==
  LET released == Check([m EXCEPT !.inFlight = @ - n, !.flow = AssignCapacity(@, n)],
                        m.inFlight >= n, "release_connection_capacity")
  IN  IF task /\ UnclaimedCapacity(released.flow) > 0 THEN Wake(released) ELSE released

\* Mutant: a stream's window update is not queued.
ReleaseCapacityUnqueued(m, s, n) ==
  LET released == ReleaseConnection(m, n, TRUE)
  IN  [released EXCEPT !.store[s].inFlight = @ - n, !.store[s].flow = AssignCapacity(@, n)]

ReleaseCapacity(m, s, n) ==
  LET released == [ReleaseConnection(m, n, TRUE) EXCEPT
                     !.store[s].inFlight = @ - n, !.store[s].flow = AssignCapacity(@, n)]
  IN  IF UnclaimedCapacity(released.store[s].flow) > 0
      THEN Wake([released EXCEPT !.updates = PushOnce(@, s)]) ELSE released

ReleaseClosedCapacity(m, s) ==
  IF m.store[s].inFlight = 0 THEN m
  ELSE [ReleaseConnection(m, m.store[s].inFlight, TRUE) EXCEPT
          !.store[s].inFlight = 0, !.store[s].events = <<>>]

ConsumeConnectionWindow(m, n) ==
  IF AsSize(m.flow.window) < n THEN ConnError(m)
  ELSE Check([m EXCEPT !.flow = SendDataOn(@, n), !.inFlight = @ + n],
             MaySendData(m.flow, n), "send_data: connection window")

IgnoreData(m, n) ==
  LET consumed == ConsumeConnectionWindow(m, n)
  IN  IF consumed.err THEN consumed ELSE ReleaseConnection(consumed, n, FALSE)

Event(kind, n) == [kind |-> kind, n |-> n]
Deliver(m, s, event) == Notify([m EXCEPT !.store[s].events = Append(@, event)], s)

IsServer == instance \in Servers

\* Mutant: the limit of the peer's streams is not looked at.
RecvOpenIdUnlimited(m, s, push) ==
  IF push = IsServer \/ s < m.nextId THEN ConnError(m)
  ELSE Insert([m EXCEPT !.nextId = s + 1], s, NewStream(m.initWindow))

\* Recv::open
RecvOpenId(m, s, push) ==
  LET known == Check(m, m.refused = NoId, "open: refused")
      next == [known EXCEPT !.nextId = s + 1]
  IN  CASE push = IsServer \/ s < m.nextId -> ConnError(known)
        [] ~(push = IsServer \/ s < m.nextId) /\ ~CanIncNumRecv(m) -> [next EXCEPT !.refused = s]
        [] OTHER -> Insert(next, s, NewStream(m.initWindow))

\* Recv::recv_headers and what streams.rs does with its errors.
RecvMessage(m, s, eos, len, how) ==
  LET initial == IsInitial(m.store[s].state)
      opened == [m EXCEPT !.store[s].state = RecvOpen(@, eos),
                          !.store[s].length = IF len # Omitted THEN len ELSE @]
      counted == IF initial THEN IncNumRecv(opened, s) ELSE opened
      answered == QueueFrame([counted EXCEPT !.store[s].state = SendOpen(@, TRUE)], s, "HEADERS")
      given == Deliver(counted, s, Event("headers", 0))
  IN  CASE how = "oversize" /\ IsServer /\ initial ->
             EnqueueResetExpiration(ScheduleImplicitReset(answered, s), s)
        [] how # "ok" /\ ~(how = "oversize" /\ IsServer /\ initial) -> SendReset(counted, s)
        [] OTHER -> IF IsServer THEN [given EXCEPT !.accept = PushOnce(@, s)] ELSE given

RecvTrailers(m, s) ==
  LET st == m.store[s]
      ended == [m EXCEPT !.store[s].state = RecvClose(@)]
  IN  CASE ~CanRecvClose(st.state) -> ConnError(m)
        [] CanRecvClose(st.state) /\ st.length > 0 -> SendReset(ended, s)
        [] OTHER -> Deliver(ended, s, Event("trailers", 0))

MayHaveForgotten(m, s) == IF s = Parent THEN TRUE ELSE s < m.nextId

RecvHeadersFrame(m, s, eos, len, how) ==
  LET opened == IF Linked(m, s) THEN m ELSE RecvOpenId(m, s, FALSE)
      k == opened.ids[s]
      head == IsRecvHeaders(opened.store[k].state)
      Body(n, t) == IF head THEN RecvMessage(n, t, eos, len, how) ELSE RecvTrailers(n, t)
  IN  IF ~Linked(m, s) /\ ~IsServer /\ MayHaveForgotten(m, s) THEN ActionsSendReset(m, s)
      ELSE IF ~Linked(opened, s) \/ IsLocalReset(opened.store[k].state) THEN opened
      ELSE IF ~head /\ ~eos THEN ActionsSendReset(opened, s)
      ELSE Transition(opened, k, Body)

\* Mutant: the bytes of a frame that ends in a stream error stay consumed.
DataErrorKeeps(m, s, n) == SendReset(m, s)

\* A stream error takes the bytes back at once: the user never sees them.
DataError(m, s, n) == SendReset(ReleaseConnection(m, n, FALSE), s)

\* Mutant: the length is not checked at the end.
LengthFitsAtMost(length, n, eos) == length = Omitted \/ n <= length

\* dec_content_length, and ensure_content_length_zero at the end
LengthFits(length, n, eos) == length = Omitted \/ (IF eos THEN n = length ELSE n <= length)

\* Recv::recv_data for a stream that is streaming, n within the connection's
\* window.
StreamData(m, s, n, eos) ==
  LET st == m.store[s]
      left == IF st.length = Omitted THEN Omitted ELSE st.length - n
      taken == [m EXCEPT !.store[s].flow = SendDataOn(@, n), !.store[s].inFlight = @ + n,
                         !.store[s].length = left,
                         !.store[s].state = IF eos THEN RecvClose(@) ELSE @]
  IN  IF AsSize(st.flow.window) < n \/ ~LengthFits(st.length, n, eos) THEN DataError(m, s, n)
      ELSE Check(Deliver(taken, s, Event("data", n)),
                 MaySendData(st.flow, n), "send_data: stream window")

RecvDataFrame(m, s, n, eos) ==
  LET consumed == ConsumeConnectionWindow(m, n)
      ignored == IgnoreData(m, n)
      Body(x, t) == CASE IsLocalReset(x.store[t].state) -> ignored
                      [] IsRecvStreaming(x.store[t].state) ->
                           IF consumed.err THEN consumed ELSE StreamData(consumed, t, n, eos)
                      [] OTHER -> ConnError(x)
  IN  CASE Linked(m, s) -> Transition(m, m.ids[s], Body)
        [] ~Linked(m, s) /\ MayHaveForgotten(m, s) ->
             IF ignored.err THEN ignored ELSE ActionsSendReset(ignored, s)
        [] OTHER -> ConnError(m)

\* Send::recv_err clears what was queued.
ClearOut(m, s) == [m EXCEPT !.store[s].out = <<>>]

RecvResetFrame(m, s) ==
  LET Body(n, t) ==
        ClearOut(Notify([n EXCEPT !.store[t].state = RecvReset(@, Queued(n.sending, t))], t), t)
  IN  CASE Linked(m, s) -> Transition(m, m.ids[s], Body)
        [] ~Linked(m, s) /\ MayHaveForgotten(m, s) -> m
        [] OTHER -> ConnError(m)

RecvPushPromiseFrame(m, s, how) ==
  LET checked == RecvOpenId(Check(m, ~Linked(m, s), "insert"), s, TRUE)
      Body(n, t) ==
        LET reserved == [n EXCEPT !.store[t].state = ReservedRemote]
        IN  IF how = "ok" THEN Deliver(reserved, t, Event("headers", 0)) ELSE SendReset(reserved, t)
      k == checked.ids[s]
      promised == Transition(checked, k, Body)
      parent == m.ids[Parent]
  IN  IF ~Linked(m, Parent) \/ EnsureRecvOpen(m.store[parent].state) = "error" THEN ConnError(m)
      ELSE IF ~Linked(checked, s) THEN checked
      ELSE IF how # "ok" THEN promised
      ELSE Notify([promised EXCEPT !.store[parent].promises = PushOnce(@, k)], parent)

\* apply_local_settings, when the peer has acknowledged them.
ApplyLocalSettings(m, val) ==
  LET change == val - m.initWindow
      fits == \A k \in Range(m.ids) : CanIncWindow(m.store[k].flow, change)
      moved(st) == [st EXCEPT !.flow = DecRecvWindow(@, -change)]
  IN  [Check(m, fits, "inc_window: initial window") EXCEPT
         !.initWindow = val, !.local = NoId,
         !.store = [k \in DOMAIN @ |-> IF k \in Range(m.ids) THEN moved(@[k]) ELSE @[k]]]

\* set_target_connection_window
SetTarget(m, target) ==
  LET current == m.flow.available + m.inFlight
      set == [Check(m, current >= 0, "checked_size") EXCEPT
                !.flow = IF target > current THEN AssignCapacity(@, target - current)
                         ELSE ClaimCapacity(@, current - target)]
  IN  IF UnclaimedCapacity(set.flow) > 0 THEN Wake(set) ELSE set

-----------------------------------------------------------------------------
(* The ends of everything.                                                   *)

ForEachLinked(m, Body(_, _)) == Each(Body, m, SetToSeq(Range(m.ids)))

Fail(m, cause) ==
  LET Body(n, t) ==
        ClearOut(Notify([n EXCEPT !.store[t].state = RecvErr(@, cause)], t), t)
      One(n, t) == Transition(n, t, Body)
  IN  ForEachLinked(m, One)

\* recv_eof, and the queues that are emptied after it.
Eof(m, clearAccept) ==
  LET Same(n, t) == n
      DropUpdate(n, t) == Transition([n EXCEPT !.updates = Tail(@)], t, Same)
      DropExpiring(n, t) == TransitionAfter([n EXCEPT !.expiring = Tail(@)], t, TRUE)
      DropAccept(n, t) == TransitionAfter([n EXCEPT !.accept = Tail(@)], t, FALSE)
      DropSending(n, t) == Transition([n EXCEPT !.sending = Tail(@)], t, Same)
      m1 == Fail(m, "Io")
      m2 == Each(DropUpdate, m1, m1.updates)
      m3 == Each(DropExpiring, m2, m2.expiring)
      m4 == IF clearAccept THEN Each(DropAccept, m3, m3.accept) ELSE m3
  IN  Each(DropSending, m4, m4.sending)

\* drop_stream_ref
DropStreamRef(m, s, handle) ==
  LET dropped == [m EXCEPT !.store[s].handles = @ \ {handle}]
      last == dropped.store[s].handles = {}
      woken == IF last /\ StreamClosed(m, s) THEN Wake(dropped) ELSE dropped
      DropPromise(n, t) ==
        LET next == Transition([n EXCEPT !.store[s].promises = Tail(@)], t, MaybeCancel)
        IN  IF s \in Slab(n) THEN Check(next, s \in Slab(next), "dangling store key") ELSE n
      Body(n, t) ==
        LET released == ReleaseClosedCapacity(MaybeCancel(n, t), t)
        IN  IF last THEN Each(DropPromise, released, n.store[t].promises)
            ELSE MaybeCancel(n, t)
      after == Body(woken, s)
  IN  IF s \in Slab(after) THEN TransitionAfter(after, s, Queued(m.expiring, s)) ELSE after

-----------------------------------------------------------------------------
SilentPeer(said, credit) == [said |-> said, sent |-> 0, credit |-> credit, length |-> Omitted]
Unread == [message |-> FALSE, read |-> 0, saw |-> "nothing"]

\* The client's request is under way and its body is sent.
Request == [NewStream(StreamWindow[instance]) EXCEPT
              !.state = HalfClosedLocal("AwaitingHeaders"), !.handles = {"other"}]
Requests == IF IsServer THEN {} ELSE {Parent}

Init ==
  /\ instance \in Instances
  /\ me = [store |-> [s \in Requests |-> Request], ids |-> [s \in Requests |-> s],
           accept |-> <<>>, updates |-> <<>>, expiring |-> <<>>, sending |-> <<>>,
           flow |-> Flow(ConnWindow, ConnWindow), inFlight |-> 0,
           initWindow |-> StreamWindow[instance], local |-> NoId, nextId |-> 1, refused |-> NoId,
           numRecv |-> 0, numReset |-> 0, lost |-> 0, err |-> FALSE, woken |-> TRUE,
           failed |-> {}]
  /\ end = "open"
  /\ peer = [conn |-> ConnWindow,
             stream |-> [s \in Ids |-> SilentPeer("nothing", StreamWindow[instance])]]
  /\ app = [s \in Ids |-> Unread]
  /\ changes = 0

\* A failed assertion unwinds the holder of the lock: nothing runs after it.
Alive == me.failed = {}
Held(k, handle) == k \in Slab(me) /\ handle \in me.store[k].handles

(* The connection task, reading.  poll_ready has sent a refusal before.      *)
TaskRuns == Alive /\ end = "open"
Reads == TaskRuns /\ me.refused = NoId

\* Bound: no third entry of an id.
SecondEntry(s) == Linked(me, s) \/ Second(s) \notin Slab(me)

\* What was read also gets poll_complete called; an error ends all streams.
Applied(m) ==
  /\ me' = IF m.err THEN Fail(m, "LocallyReset") ELSE Wake(m)
  /\ end' = IF m.err THEN "error" ELSE end
  /\ UNCHANGED <<instance, app, changes>>

PeerSays(s, said) == peer' = [peer EXCEPT !.stream[s].said = said]
Said(s) == peer.stream[s].said

\* What the peer may open next; ids only grow.
Opens(s) == IsServer /\ s # Parent /\ \A t \in PeerIds[instance] : t >= s => Said(t) = "nothing"
Answers(s) == ~IsServer /\ (IF s = Parent THEN Said(s) = "nothing" ELSE Said(s) = "promised")

PeerHeaders(s, eos, len, how) ==
  /\ Reads /\ SecondEntry(s) /\ (Opens(s) \/ Answers(s))
  /\ Applied(RecvHeadersFrame(me, s, eos, len, how))
  /\ peer' = [peer EXCEPT
               !.stream[s] = [@ EXCEPT !.said = IF eos THEN "ended" ELSE "open",
                                       !.credit = me.initWindow,
                                       !.length = IF eos THEN Omitted ELSE len]]

PeerTrailers(s, eos) ==
  /\ Reads /\ SecondEntry(s) /\ Said(s) = "open"
  /\ Applied(RecvHeadersFrame(me, s, eos, Omitted, "ok"))
  /\ PeerSays(s, IF eos THEN "ended" ELSE "open")

Sent == MapThenSumSet(LAMBDA s : peer.stream[s].sent, Ids)
PeerData(s, n, eos) ==
  LET from == peer.stream[s]
      told == [from EXCEPT !.sent = @ + n, !.credit = @ - n, !.said = IF eos THEN "ended" ELSE @]
  IN  /\ Reads /\ SecondEntry(s) /\ from.said = "open" /\ Sent + n <= MaxBytes[instance]
      /\ "violate" \in Moves[instance] \/ (n <= peer.conn /\ n <= from.credit)
      /\ Applied(RecvDataFrame(me, s, n, eos))
      /\ peer' = [conn |-> peer.conn - n, stream |-> [peer.stream EXCEPT ![s] = told]]

PeerReset(s) ==
  /\ Reads /\ Said(s) \in {"open", "ended"} \cup (IF IsServer THEN {} ELSE {"promised"})
  /\ Applied(RecvResetFrame(me, s))
  /\ PeerSays(s, "reset")

\* A peer that keeps to the limit counts the streams it has promised.
Promised == {s \in PeerIds[instance] : Said(s) = "promised"}
PeerPromise(s, how) ==
  /\ Reads /\ SecondEntry(s) /\ ~IsServer /\ Said(Parent) \in {"nothing", "open"}
  /\ \A t \in PeerIds[instance] : t >= s => Said(t) = "nothing"
  /\ "overPromise" \in Moves[instance] \/ me.numRecv + Cardinality(Promised) < MaxRecv[instance]
  /\ Applied(RecvPushPromiseFrame(me, s, how))
  /\ PeerSays(s, "promised")

\* A frame the codec rejects for its stream alone.
StreamError(s) ==
  /\ Reads /\ SecondEntry(s) /\ Said(s) \in {"open", "ended"}
  /\ Applied(ActionsSendReset(me, s))
  /\ UNCHANGED peer

SettingsAck ==
  LET told(s) == [peer.stream[s] EXCEPT !.credit = @ + me.local - me.initWindow]
  IN  /\ Reads /\ me.local # NoId
      /\ Applied(ApplyLocalSettings(me, me.local))
      /\ peer' = [peer EXCEPT !.stream = [s \in Ids |-> told(s)]]

\* clear_expired_reset_streams, for the oldest one; time is not modelled.
ResetExpires ==
  /\ TaskRuns /\ me.expiring # <<>>
  /\ Applied(TransitionAfter([me EXCEPT !.expiring = Tail(@)], Head(me.expiring), TRUE))
  /\ UNCHANGED peer

RecvEof ==
  /\ Reads
  /\ me' = Eof(me, FALSE) /\ end' = "eof"
  /\ UNCHANGED <<instance, peer, app, changes>>

Reading ==
  \/ \E s \in Ids :
       \/ \E eos \in BOOLEAN, len \in Lengths[instance] \cup {Omitted} :
            PeerHeaders(s, eos, len, "ok")
       \/ \E how \in {"malformed", "oversize"} \cap Moves[instance], eos \in BOOLEAN :
            PeerHeaders(s, eos, Omitted, how)
       \/ \E eos \in IF "violate" \in Moves[instance] THEN BOOLEAN ELSE {TRUE} :
            "trailers" \in Moves[instance] /\ PeerTrailers(s, eos)
       \/ \E n \in DataSizes[instance], eos \in BOOLEAN : PeerData(s, n, eos)
       \/ "reset" \in Moves[instance] /\ PeerReset(s)
       \/ \E how \in {"ok"} \cup ({"malformed", "oversize"} \cap Moves[instance]) :
            s # Parent /\ PeerPromise(s, how)
       \/ "streamError" \in Moves[instance] /\ StreamError(s)
  \/ SettingsAck
  \/ "expire" \in Moves[instance] /\ ResetExpires
  \/ "eof" \in Moves[instance] /\ RecvEof

-----------------------------------------------------------------------------
(* The connection task, writing: poll_complete, one frame per step, since    *)
(* after each one the codec may be full and the lock given up.               *)

Writes == TaskRuns /\ me.woken
Wrote(m) == me' = m /\ UNCHANGED <<instance, end, app, changes>>

\* send_pending_refusal
WriteRefusal ==
  /\ TaskRuns /\ me.refused # NoId
  /\ Wrote([me EXCEPT !.refused = NoId])
  /\ PeerSays(me.refused, "reset")

Announced(flow) == IncWindow(flow, UnclaimedCapacity(flow))
Announce(m) == Check([m EXCEPT !.flow = Announced(@)],
                     CanIncWindow(m.flow, UnclaimedCapacity(m.flow)), "inc_window: connection")

\* send_connection_window_update
WriteConnUpdate ==
  /\ Writes /\ UnclaimedCapacity(me.flow) > 0
  /\ Wrote(Announce(me))
  /\ peer' = [peer EXCEPT !.conn = @ + UnclaimedCapacity(me.flow)]

StreamUpdate(m, k) ==
  LET Body(n, t) ==
        IF IsRecvStreaming(n.store[t].state)
        THEN Check([n EXCEPT !.store[t].flow = Announced(@)],
                   CanIncWindow(n.store[t].flow, UnclaimedCapacity(n.store[t].flow)),
                   "inc_window: stream")
        ELSE n
  IN  Transition([m EXCEPT !.updates = Tail(@)], k, Body)

\* One round of send_stream_window_updates.
WriteStreamUpdate ==
  LET k == Head(me.updates)
  IN  /\ Writes /\ UnclaimedCapacity(me.flow) = 0 /\ me.updates # <<>>
      /\ Wrote(StreamUpdate(me, k))
      /\ peer' = IF IsRecvStreaming(me.store[k].state)
                 THEN [peer EXCEPT !.stream[IdOf(k)].credit =
                         @ + UnclaimedCapacity(me.store[k].flow)]
                 ELSE peer

\* Prioritize::pop_frame: the state after it, and whether there was a frame.
Popped(m, frame) == [me |-> m, frame |-> frame]

Requeue(m, k, wasReset) ==
  LET more == m.store[k].out # <<>> \/ IsScheduledReset(m.store[k].state)
  IN  TransitionAfter([m EXCEPT !.sending = IF more THEN PushOnce(@, k) ELSE @], k, wasReset)

PopFrame(m) ==
  LET Round(acc, k) ==
        LET n == [acc.me EXCEPT !.sending = Tail(@)]
            wasReset == Queued(n.expiring, k)
        IN  IF acc.frame THEN acc
            ELSE IF n.store[k].out # <<>>
            THEN Popped(Requeue([n EXCEPT !.store[k].out = Tail(@)], k, wasReset), TRUE)
            ELSE IF IsScheduledReset(n.store[k].state)
            THEN Popped(Requeue([n EXCEPT !.store[k].state = SetReset(@)], k, wasReset), TRUE)
            ELSE Popped(TransitionAfter(Check(n, IsClosed(n.store[k].state), "dangling stream"),
                                        k, wasReset), FALSE)
  IN  Each(Round, Popped(m, FALSE), m.sending)

NoUpdates == UnclaimedCapacity(me.flow) = 0 /\ me.updates = <<>>

WriteFrame ==
  /\ Writes /\ NoUpdates /\ PopFrame(me).frame
  /\ Wrote(PopFrame(me).me) /\ UNCHANGED peer

\* Nothing to write: the task leaves its waker and parks.
Park ==
  /\ Writes /\ me.refused = NoId /\ NoUpdates /\ ~PopFrame(me).frame
  /\ Wrote([PopFrame(me).me EXCEPT !.woken = FALSE]) /\ UNCHANGED peer

Writing == WriteRefusal \/ WriteConnUpdate \/ WriteStreamUpdate \/ WriteFrame \/ Park

-----------------------------------------------------------------------------
(* The application.  The handles of one stream are polled by one task.       *)

Asked(m) == me' = m /\ UNCHANGED <<instance, end, peer, changes>>
Saw(s, what) == app' = [app EXCEPT ![s].saw = what]

\* poll_accept: next_incoming, take_request and the two handles.
Accept ==
  LET k == Head(me.accept)
      st == me.store[k]
  IN  /\ TaskRuns /\ me.accept # <<>>
      /\ Asked(Check([me EXCEPT !.accept = Tail(@),
                                !.store[k].handles = {"body", "other"},
                                !.store[k].events = Tail(@)],
                     st.events # <<>> /\ Head(st.events).kind = "headers", "take_request"))
      /\ app' = [app EXCEPT ![k].message = TRUE]

\* ensure_recv_open()? and the waker, where there is nothing to take.
Waits(m, k, for) == [m EXCEPT !.store[k].task = for]

PollResponse(k) ==
  LET st == me.store[k]
  IN  /\ Alive /\ ~IsServer /\ Held(k, "other") /\ ~app[k].message /\ app[k].saw = "nothing"
      /\ IF st.events # <<>>
         THEN /\ Asked(Check([me EXCEPT !.store[k].events = Tail(@),
                                       !.store[k].handles = @ \cup {"body"}],
                            Head(st.events).kind = "headers", "poll_response"))
              /\ app' = [app EXCEPT ![k].message = TRUE]
         ELSE IF EnsureRecvOpen(st.state) = "error"
         THEN Asked(me) /\ Saw(k, "error")
         ELSE Asked(Waits(me, k, "message")) /\ UNCHANGED app

\* A promise is handed out with its own ResponseFuture.
PollPushed ==
  LET st == me.store[Parent]
      k == Head(st.promises)
  IN  /\ Alive /\ ~IsServer /\ Held(Parent, "other") /\ UNCHANGED app
      /\ \/ /\ st.promises # <<>>
            /\ Asked(Check([me EXCEPT !.store[Parent].promises = Tail(@),
                                     !.store[k].handles = {"other"},
                                     !.store[k].events = Tail(@)],
                          me.store[k].events # <<>>, "poll_pushed"))
         \/ /\ st.promises = <<>> /\ EnsureRecvOpen(st.state) = "open"
            /\ Asked(Waits(me, Parent, "pushes"))

PollData(k) ==
  LET st == me.store[k]
  IN  /\ Alive /\ Held(k, "body") /\ app[k].saw = "nothing"
      /\ CASE st.events # <<>> /\ Head(st.events).kind = "data" ->
                /\ Asked([me EXCEPT !.store[k].events = Tail(@)])
                /\ app' = [app EXCEPT ![k].read = @ + Head(st.events).n]
           [] st.events # <<>> /\ Head(st.events).kind # "data" ->
                Asked(Notify(me, k)) /\ Saw(k, "end")
           [] st.events = <<>> /\ EnsureRecvOpen(st.state) = "open" ->
                Asked(Waits(me, k, "message")) /\ UNCHANGED app
           [] OTHER ->
                Asked(me) /\ Saw(k, IF EnsureRecvOpen(st.state) = "error" THEN "error" ELSE "end")

\* poll_trailers, after the end of the data.
PollTrailers(k) ==
  /\ Alive /\ Held(k, "body") /\ app[k].saw = "end" /\ me.store[k].events # <<>>
  /\ Asked([me EXCEPT !.store[k].events = Tail(@)]) /\ UNCHANGED app

\* FlowControl::release_capacity, refused above what is in flight.
Release(k, n) ==
  /\ Alive /\ k \in Slab(me) /\ me.store[k].handles # {} /\ n <= me.store[k].inFlight
  /\ Asked(ReleaseCapacity(me, k, n)) /\ UNCHANGED app

\* A RecvStream is dropped in two steps: its buffer, then its reference.
DropRecvStream(k) ==
  /\ Alive /\ Held(k, "body")
  /\ Asked([me EXCEPT !.store[k].events = <<>>,
                      !.store[k].handles = (@ \ {"body"}) \cup {"emptied"}])
  /\ UNCHANGED app

DropHandle(k, handle) ==
  /\ Alive /\ Held(k, handle)
  /\ Asked(DropStreamRef(me, k, handle)) /\ UNCHANGED app

SendResponse(k, eos) ==
  LET Body(m, t) == QueueFrame([m EXCEPT !.store[t].state = SendOpen(@, eos)], t, "HEADERS")
  IN  /\ Alive /\ IsServer /\ Held(k, "other") /\ CanSendOpen(me.store[k].state)
      /\ Asked(Transition(me, k, Body)) /\ UNCHANGED app

\* An empty DATA frame with END_STREAM.
SendEnd(k) ==
  LET Body(m, t) == QueueFrame([m EXCEPT !.store[t].state = SendClose(@)], t, "DATA")
  IN  /\ Alive /\ IsServer /\ Held(k, "other") /\ IsSendStreaming(me.store[k].state)
      /\ Asked(Transition(me, k, Body)) /\ UNCHANGED app

\* StreamRef::send_reset
ResetByUser(k) ==
  LET Reset(n, t) == Notify(EnqueueResetExpiration(SendReset(n, t), t), t)
  IN  /\ Alive /\ Held(k, "other")
      /\ Asked(Transition(me, k, Reset)) /\ UNCHANGED app

SetTargetWindow(target) ==
  /\ TaskRuns /\ changes < MaxChanges[instance]
  /\ me' = SetTarget(me, target) /\ changes' = changes + 1
  /\ UNCHANGED <<instance, end, peer, app>>

\* Refused while SETTINGS wait for their ACK.
SetInitialWindow(val) ==
  /\ TaskRuns /\ changes < MaxChanges[instance] /\ me.local = NoId
  /\ me' = [me EXCEPT !.local = val] /\ changes' = changes + 1
  /\ UNCHANGED <<instance, end, peer, app>>

DropConnection ==
  /\ Alive /\ end # "dropped"
  /\ me' = Eof(me, TRUE) /\ end' = "dropped"
  /\ UNCHANGED <<instance, peer, app, changes>>

Application ==
  \/ Accept \/ PollPushed
  \/ \E k \in Ids :
       \/ PollResponse(k) \/ PollData(k) \/ PollTrailers(k)
       \/ \E n \in 1 .. MaxBytes[instance] : Release(k, n)
       \/ DropRecvStream(k)
       \/ \E handle \in {"emptied", "other"} : DropHandle(k, handle)
       \/ "respond" \in Moves[instance] /\ \E eos \in BOOLEAN : SendResponse(k, eos)
       \/ "respond" \in Moves[instance] /\ SendEnd(k)
       \/ k \in Resettable[instance] /\ ResetByUser(k)
  \/ \E target \in Targets : SetTargetWindow(target)
  \/ \E val \in Windows : SetInitialWindow(val)
  \/ "eof" \in Moves[instance] /\ DropConnection

Next == Reading \/ Writing \/ Application

Spec == Init /\ [][Next]_vars

-----------------------------------------------------------------------------
(* Properties.                                                               *)

\* The bytes in flight on each stream.
InFlight(m) == [k \in Slab(m) |-> m.store[k].inFlight]

\* No assertion, panic or subtraction of the receiving half fails, whatever
\* order frames, polls, releases, resets and drops come in.
NoAssertFails == me.failed = {}

\* Every byte the connection's window has taken is in flight on exactly one
\* stream until it is given back, and windows say what the peer may still send.
BytesAccounted ==
  end = "open" =>
    /\ me.inFlight = SumFunction(InFlight(me)) + me.lost
    /\ me.lost > 0 => ~IsServer
    /\ me.flow.window = peer.conn
    /\ \A s \in DOMAIN me.ids :
         LET st == me.store[me.ids[s]]
         IN  IsRecvStreaming(st.state) =>
               /\ st.flow.window = peer.stream[s].credit
               /\ st.flow.available + st.inFlight = me.initWindow

\* A reader that waits has nothing to read and is told when its stream ends
\* (but for a reset by this end: reset_on_recv_stream_err wakes nobody), and a
\* connection task that parked has nothing to write.
NobodyForgotten ==
  /\ \A k \in Slab(me) :
       LET st == me.store[k]
       IN  st.task # "none" /\ st.handles # {} /\ Alive =>
             /\ (IF st.task = "message" THEN st.events ELSE st.promises) = <<>>
             /\ EnsureRecvOpen(st.state) = "open" \/ IsLocalReset(st.state)
  /\ TaskRuns /\ ~me.woken => NoUpdates /\ ~PopFrame(me).frame

\* A peer that has used up its window gets more once everything it sent has
\* been given back: the update is queued or already announced.  Where the user
\* has made the windows smaller this fails: apply_local_settings queues none.
NoStall ==
  end = "open" =>
    /\ me.inFlight = 0 /\ peer.conn <= 0 => me.flow.available <= 0 \/ UnclaimedCapacity(me.flow) > 0
    /\ \A s \in DOMAIN me.ids :
         LET k == me.ids[s]
             st == me.store[k]
         IN  IsRecvStreaming(st.state) /\ st.inFlight = 0 /\ peer.stream[s].credit <= 0
               /\ st.flow.available > 0 /\ me.initWindow >= StreamWindow[instance]
               => Queued(me.updates, k)

\* The peer's streams are counted while they are open, never above the limit,
\* and a stream nothing refers to any more has left the slab.
SlotsAccounted ==
  /\ me.numRecv = Cardinality({k \in Slab(me) : me.store[k].counted})
  /\ me.numRecv <= MaxRecv[instance]
  /\ Len(me.expiring) <= me.numReset /\ me.numReset <= MaxReset
  /\ \A k \in Slab(me) : Alive => ~IsReleased(me, k)

\* A body that ends without an error is all that the peer sent, and as long as
\* it declared, although bytes, resets and errors overtake each other.
CleanEndIsComplete ==
  \A s \in Ids :
    app[s].saw = "end" =>
      /\ peer.stream[s].said # "open" /\ app[s].read = peer.stream[s].sent
      /\ peer.stream[s].length # Omitted => app[s].read = peer.stream[s].length
=============================================================================
