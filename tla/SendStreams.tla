----------------------------- MODULE SendStreams -----------------------------
(* The sending half of an HTTP/2 client connection: proto/streams/send.rs,   *)
(* prioritize.rs, counts.rs, the store they work on, and the entry points of *)
(* streams.rs that reach them.                                               *)
(*                                                                           *)
(* Every entry point locks one mutex (`Inner`) for its whole body, so each   *)
(* is one action on `me`, the locked record.  Three parties take turns:      *)
(*   - the application, through SendRequest and the per-stream handles;      *)
(*   - the connection task, which applies the frames it reads;               *)
(*   - the same task in poll_complete, which writes frames for as long as    *)
(*     the codec accepts them: one step per frame, since after every frame   *)
(*     poll_ready may be Pending and give up the lock.                       *)
(*                                                                           *)
(* A helper below is named after the method it models and maps a whole       *)
(* locked record to the next one.                                            *)
EXTENDS StreamState, FlowControl, Queues, FiniteSets

CONSTANTS
  Ids,               \* stream ids the client may use: 1..n in opening order
  Handles,           \* clones of SendRequest
  InitWindow,        \* remote_init_window_sz, of the connection and of a stream
  MaxFrame,          \* max_send_frame_size
  InitMaxStreams,    \* initial_max_send_streams
  MaxReset,          \* local_reset_max
  DataSizes,         \* sizes of the DATA payloads the application sends
  ReserveSizes,      \* capacities it reserves; {} if it never does
  Droppable,         \* streams whose handles may be dropped
  Resettable,        \* streams the application may reset
  PeerMoves,         \* what the peer may do: a subset of AllPeerMoves
  WindowSettings,    \* values of SETTINGS_INITIAL_WINDOW_SIZE the peer sends
  StreamSettings,    \* values of SETTINGS_MAX_CONCURRENT_STREAMS it sends
  MaxData,           \* bound: bytes the application gives to one stream
  MaxGrant,          \* bound: bytes the peer ever grants, per window
  MaxSettings        \* bound: SETTINGS frames the peer sends

AllPeerMoves == {"respond", "violate", "reset", "goaway", "expire", "eof"}

ASSUME SendAssumption ==
  /\ IsFiniteSet(Ids) /\ Ids = 1 .. Cardinality(Ids) /\ IsFiniteSet(Handles)
  /\ {InitWindow} \cup WindowSettings \subseteq 0 .. MaxWindow
  /\ MaxFrame \in Nat \ {0}
  /\ {InitMaxStreams, MaxReset, MaxData, MaxGrant, MaxSettings} \subseteq Nat
  /\ DataSizes \cup ReserveSizes \cup StreamSettings \subseteq Nat
  /\ Droppable \cup Resettable \subseteq Ids /\ PeerMoves \subseteq AllPeerMoves

VARIABLES
  me,       \* Inner: what the mutex protects
  codec,    \* the DATA frame the codec still holds for reclaim_frame
  request,  \* what each SendRequest waits for: SendRequest::pending
  done,     \* the connection task has seen the end of the transport
  wire,     \* history: what was written and what the peer answered, per stream
  granted,  \* history: bytes the peer allowed, and how many SETTINGS it sent
  accepted  \* history: bytes send_data took, per stream

vars == <<me, codec, request, done, wire, granted, accepted>>

NoFrame == [kind |-> "none"]

\* Values beside the ids of InFlightData and of SendRequest::pending.
Nothing == 0
Dropped == -1

Frame(kind, len, eos) == [kind |-> kind, len |-> len, eos |-> eos]

-----------------------------------------------------------------------------
(* The store.  A stream's pending_* flags are its membership of the queue    *)
(* they guard, and reset_at is set exactly while it is in pendingReset.      *)

NewStream(m, s) ==
  [state |-> Idle, counted |-> FALSE, refs |-> 0, flow |-> Flow(m.initWindow, 0),
   requested |-> 0, buffered |-> 0, pending |-> <<>>]

Slab(m) == DOMAIN m.store

IsSendReady(m, s) == ~Queued(m.pendingOpen, s)

StreamClosed(m, s) ==
  LET st == m.store[s]
  IN  IsClosed(st.state) /\ st.pending = <<>> /\ st.buffered = 0

IsReleased(m, s) ==
  /\ StreamClosed(m, s)
  /\ m.store[s].refs = 0
  /\ ~Queued(m.pendingSend \o m.pendingCapacity \o m.pendingOpen \o m.pendingReset, s)

\* Ptr::unlink: the index map's swap_remove.
Unlink(m, s) ==
  IF ~Contains(m.ids, s) THEN m
  ELSE LET last == Last(m.ids)
           moved == [i \in 1 .. Len(m.ids) |-> IF m.ids[i] = s THEN last ELSE m.ids[i]]
       IN  [m EXCEPT !.ids = Front(moved)]

\* Store::insert: a slot of the slab for one more stream.
Insert(store, s, st) ==
  [t \in DOMAIN store \cup {s} |-> IF t = s THEN st ELSE store[t]]

RemoveFromSlab(m, s) == [m EXCEPT !.store = Restrict(@, DOMAIN @ \ {s})]

\* An assert! or debug_assert! of the code, or an unsigned subtraction.
Check(m, holds, name) ==
  IF holds THEN m ELSE [m EXCEPT !.failed = @ \cup {name}]

\* task.take().wake()
Wake(m) == [m EXCEPT !.woken = TRUE]

-----------------------------------------------------------------------------
(* Counts.                                                                   *)

\* Mutants: off by one.
CanIncNumSendOneMore(m) == m.maxSend >= m.numSend
CanIncNumSend(m) == m.maxSend > m.numSend
CanIncNumReset(m) == MaxReset > m.numReset

IncNumSend(m, s) ==
  Check([m EXCEPT !.numSend = @ + 1, !.store[s].counted = TRUE],
        CanIncNumSend(m) /\ ~m.store[s].counted, "inc_num_send_streams")

\* Mutant: the stream is still marked as counted.
DecNumSendKeepsMark(m, s) ==
  Check([m EXCEPT !.numSend = @ - 1], m.numSend > 0, "dec_num_streams")

DecNumSend(m, s) ==
  Check([m EXCEPT !.numSend = @ - 1, !.store[s].counted = FALSE],
        m.numSend > 0, "dec_num_streams")

DecNumReset(m) ==
  Check([m EXCEPT !.numReset = @ - 1], m.numReset > 0, "dec_num_reset_streams")

TransitionAfter(m, s, wasReset) ==
  LET unlinked ==
        IF StreamClosed(m, s) /\ ~Queued(m.pendingReset, s)
        THEN IF wasReset THEN DecNumReset(Unlink(m, s)) ELSE Unlink(m, s)
        ELSE m
      uncounted ==
        IF StreamClosed(m, s) /\ m.store[s].counted
        THEN DecNumSend(unlinked, s)
        ELSE unlinked
  IN  IF IsReleased(m, s)
      THEN RemoveFromSlab(Check(uncounted, ~Contains(uncounted.ids, s), "remove"), s)
      ELSE uncounted

Transition(m, s, Body(_, _)) ==
  TransitionAfter(Body(m, s), s, Queued(m.pendingReset, s))

-----------------------------------------------------------------------------
(* Prioritize: who gets the connection's capacity, and what goes out next.   *)

\* Mutant: the connection task is not woken.
ScheduleSendQuietly(m, s) ==
  IF IsSendReady(m, s) THEN [m EXCEPT !.pendingSend = PushOnce(@, s)] ELSE m

ScheduleSend(m, s) ==
  IF IsSendReady(m, s)
  THEN Wake([m EXCEPT !.pendingSend = PushOnce(@, s)])
  ELSE m

\* Mutant: the newest frame goes first.
QueueFrameInFront(m, s, frame) ==
  ScheduleSend([m EXCEPT !.store[s].pending = <<frame>> \o @], s)

QueueFrame(m, s, frame) ==
  ScheduleSend([m EXCEPT !.store[s].pending = Append(@, frame)], s)

QueueOpen(m, s) ==
  Check([m EXCEPT !.pendingOpen = PushOnce(@, s)],
        ~Queued(m.pendingSend, s), "pending_open while pending_send")

TryAssignCapacity(m, s) ==
  LET st == m.store[s]
      handed == AsSize(st.flow.available)
      additional == Min({st.requested - handed, AsSize(st.flow.window) - handed})
      share == Min({AsSize(m.flow.available), additional})
      assigned ==
        IF share > 0
        THEN [m EXCEPT !.store[s].flow = AssignCapacity(@, share),
                       !.flow = ClaimCapacity(@, share)]
        ELSE m
      flow == assigned.store[s].flow
      short == flow.available < st.requested /\ HasUnavailable(flow)
      sendable == st.buffered > 0 /\ IsSendReady(m, s)
      queued ==
        [assigned EXCEPT
           !.pendingCapacity = IF short THEN PushOnce(@, s) ELSE @,
           !.pendingSend = IF sendable THEN PushOnce(@, s) ELSE @]
      checked == Check(m, st.requested >= handed /\ AsSize(st.flow.window) >= handed,
                       "try_assign_capacity: requested and window cover available")
  IN  IF additional = 0 THEN checked
      ELSE Check([queued EXCEPT !.failed = checked.failed],
                 IsSendStreaming(st.state) \/ st.buffered > 0,
                 "try_assign_capacity: stream can send")

\* One round of assign_connection_capacity: serve the first that waits.
ServeWaiting(n, s) ==
  LET popped == [n EXCEPT !.pendingCapacity = Tail(@)]
      st == n.store[s]
  IN  IF n.flow.available <= 0 THEN n
      ELSE IF ~(IsSendStreaming(st.state) \/ st.buffered > 0) THEN popped
      ELSE Transition(popped, s, TryAssignCapacity)

(* Hands `inc` to the streams waiting for capacity, first come first served. *)
(* A stream that goes back to the queue got the last of it, so the loop over *)
(* the queue as it stood never has to look at it again.                      *)
AssignConnectionCapacity(m, inc) ==
  Each(ServeWaiting, [m EXCEPT !.flow = AssignCapacity(@, inc)], m.pendingCapacity)

\* Mutant: the stream keeps what it gives back.
ReclaimAllCapacityTwice(m, s) ==
  AssignConnectionCapacity(m, AsSize(m.store[s].flow.available))

ReclaimAllCapacity(m, s) ==
  LET available == AsSize(m.store[s].flow.available)
  IN  AssignConnectionCapacity(
        [m EXCEPT !.store[s].flow = ClaimCapacity(@, available)], available)

ReclaimReservedCapacity(m, s) ==
  LET st == m.store[s]
      reserved == st.requested - st.buffered
  IN  IF reserved > 0
      THEN AssignConnectionCapacity(
             [m EXCEPT !.store[s].flow = ClaimCapacity(@, reserved)], reserved)
      ELSE m

ReserveCapacity(m, s, extra) ==
  LET st == m.store[s]
      capacity == extra + st.buffered
      asked == [m EXCEPT !.store[s].requested = capacity]
      surplus == AsSize(st.flow.available) - capacity
  IN  CASE capacity = st.requested -> m
        [] capacity < st.requested ->
             IF surplus > 0
             THEN AssignConnectionCapacity(
                    [asked EXCEPT !.store[s].flow = ClaimCapacity(@, surplus)], surplus)
             ELSE asked
        [] OTHER -> IF IsSendClosed(st.state) THEN m ELSE TryAssignCapacity(asked, s)

\* Prioritize::send_data, for a stream that is_send_streaming.
PrioritizeData(m, s, sz, eos) ==
  LET buffered == m.store[s].buffered + sz
      counted == [m EXCEPT !.store[s].buffered = buffered]
      funded ==
        IF m.store[s].requested < buffered
        THEN TryAssignCapacity([counted EXCEPT !.store[s].requested = buffered], s)
        ELSE counted
      closed ==
        IF eos
        THEN ReserveCapacity([funded EXCEPT !.store[s].state = SendClose(@)], s, 0)
        ELSE funded
      frame == Frame("DATA", sz, eos)
      st == closed.store[s]
  IN  IF st.flow.available > 0 \/ st.buffered = 0
      THEN QueueFrame(closed, s, frame)
      ELSE [closed EXCEPT !.store[s].pending = Append(@, frame)]

ClearQueue(m, s) ==
  [m EXCEPT !.store[s] = [@ EXCEPT !.pending = <<>>, !.buffered = 0, !.requested = 0],
            !.inFlight = IF @ = s THEN Dropped ELSE @]

\* try_reclaim_frame: what the codec did not write of a DATA frame goes back
\* to the front of its stream's queue.
ReclaimFrame(m, frame) ==
  LET s == frame.stream
      freed == [m EXCEPT !.inFlight = Nothing]
      back == [freed EXCEPT !.store[s].pending =
                              <<Frame("DATA", frame.rest, frame.eos)>> \o @]
  IN  CASE frame = NoFrame -> m
        [] frame # NoFrame /\ m.inFlight = Dropped -> freed
        [] OTHER ->
             LET known == Check(freed, m.inFlight = s /\ (frame.rest > 0 => s \in Slab(m)),
                                "reclaim_frame")
             IN  IF frame.rest = 0 \/ known.failed # {} THEN known
                 ELSE IF m.store[s].flow.available > 0
                      THEN [back EXCEPT !.pendingSend = PushOnce(@, s)]
                      ELSE back

\* One round of schedule_pending_open: the first that waits takes a slot.
GrantSlot(n, s) ==
  IF CanIncNumSend(n)
  THEN [IncNumSend([n EXCEPT !.pendingOpen = Tail(@)], s)
          EXCEPT !.pendingSend = PushOnce(@, s)]
  ELSE n

SchedulePendingOpen(m) == Each(GrantSlot, m, m.pendingOpen)

(* One round of pop_frame's loop, for the stream `s` just taken from         *)
(* pending_send: the state after it and the frame to write, if it has one.   *)
Popped(m, frame) == [me |-> m, frame |-> frame]

\* After a frame: keep the stream queued while it has more, then tidy up.
Requeue(m, s, wasReset) ==
  LET st == m.store[s]
      more == st.pending # <<>> \/ IsScheduledReset(st.state)
  IN  TransitionAfter([m EXCEPT !.pendingSend = IF more THEN PushOnce(@, s) ELSE @],
                      s, wasReset)

\* A stream without the frame at the front of its queue, of which `len` bytes
\* are written.
SentOf(st, len) ==
  [st EXCEPT !.flow = SendDataOn(@, len), !.buffered = @ - len, !.requested = @ - len,
             !.pending = Tail(@)]

PopData(m, s, wasReset) ==
  LET st == m.store[s]
      data == Head(st.pending)
      len == Min({data.len, MaxFrame, AsSize(st.flow.available)})
      sent == [m EXCEPT !.store[s] = SentOf(@, len),
                        !.flow = SendDataOn(AssignCapacity(@, len), len),
                        !.inFlight = s]
      checked ==
        Check(Check(Check(sent, MaySendData(m.flow, len), "send_data: connection window"),
                    MaySendData(st.flow, len), "send_data: stream window"),
              st.buffered >= len /\ st.requested >= len, "pop_frame: buffered")
      frame == [kind |-> "DATA", stream |-> s, len |-> len,
                rest |-> data.len - len, eos |-> data.eos]
  IN  IF data.len > 0 /\ st.flow.available = 0
      THEN Popped(m, NoFrame)
      ELSE Popped(Requeue(checked, s, wasReset), frame)

PopOther(m, s, wasReset) ==
  LET st == m.store[s]
      head == Head(st.pending)
  IN  Popped(Requeue([m EXCEPT !.store[s].pending = Tail(@)], s, wasReset),
             [kind |-> head.kind, stream |-> s, len |-> 0, rest |-> 0, eos |-> head.eos])

PopEmpty(m, s, wasReset) ==
  IF IsScheduledReset(m.store[s].state)
  THEN Popped(Requeue([m EXCEPT !.store[s].state = SetReset(@)], s, wasReset),
              [kind |-> "RST_STREAM", stream |-> s, len |-> 0, rest |-> 0, eos |-> FALSE])
  ELSE Popped(TransitionAfter(Check(m, IsClosed(m.store[s].state), "dangling stream"),
                              s, wasReset), NoFrame)

\* One round of pop_frame's loop, which ends with the first frame it finds.
PopNext(acc, s) ==
  LET n == [acc.me EXCEPT !.pendingSend = Tail(@)]
      wasReset == Queued(n.pendingReset, s)
      pending == n.store[s].pending
  IN  IF acc.frame # NoFrame THEN acc
      ELSE IF pending = <<>> THEN PopEmpty(n, s, wasReset)
      ELSE IF Head(pending).kind = "DATA" THEN PopData(n, s, wasReset)
      ELSE PopOther(n, s, wasReset)

PopFrame(m) == Each(PopNext, Popped(m, NoFrame), m.pendingSend)

-----------------------------------------------------------------------------
(* Send, and the parts of Recv and Actions it shares a stream with.          *)

\* Mutant: the state is not set to reset.
SendResetStaysOpen(m, s) ==
  IF IsClosed(m.store[s].state) THEN m
  ELSE ReclaimAllCapacity(QueueFrame(ClearQueue(m, s), s, Frame("RST_STREAM", 0, FALSE)), s)

SendReset(m, s) ==
  LET st == m.store[s]
      reset == [m EXCEPT !.store[s].state = SetReset(@)]
      queued == QueueFrame(ClearQueue(reset, s), s, Frame("RST_STREAM", 0, FALSE))
  IN  CASE IsReset(st.state) -> m
        [] ~IsReset(st.state) /\ IsClosed(st.state) /\ st.pending = <<>> -> reset
        [] OTHER -> ReclaimAllCapacity(queued, s)

ScheduleImplicitReset(m, s) ==
  IF IsClosed(m.store[s].state) THEN m
  ELSE ScheduleSend(
         ReclaimReservedCapacity(
           [m EXCEPT !.store[s].state = SetScheduledReset(@)], s), s)

\* Mutant: what was queued stays queued.
SendRecvErrKeepsQueue(m, s) == ReclaimAllCapacity(m, s)

SendRecvErr(m, s) == ReclaimAllCapacity(ClearQueue(m, s), s)

\* Mutant: the wider window is not used.
RecvStreamWindowUpdateOnly(m, s, inc) ==
  IF CanIncWindow(m.store[s].flow, inc)
  THEN [m EXCEPT !.store[s].flow = IncWindow(@, inc)]
  ELSE SendReset(m, s)

RecvStreamWindowUpdate(m, s, inc) ==
  LET st == m.store[s]
  IN  CASE IsSendClosed(st.state) /\ st.buffered = 0 -> m
        [] ~(IsSendClosed(st.state) /\ st.buffered = 0) /\ ~CanIncWindow(st.flow, inc) ->
             SendReset(m, s)
        [] OTHER ->
             TryAssignCapacity([m EXCEPT !.store[s].flow = IncWindow(@, inc)], s)

\* Keeps a locally reset stream known for a while, evicting the oldest one.
EnqueueResetExpiration(m, s) ==
  LET oldest == Head(m.pendingReset)
      evicted ==
        IF ~CanIncNumReset(m) /\ m.pendingReset # <<>>
        THEN TransitionAfter([m EXCEPT !.pendingReset = Tail(@)], oldest, TRUE)
        ELSE m
  IN  IF ~IsLocalReset(m.store[s].state) \/ Queued(m.pendingReset, s) THEN m
      ELSE IF CanIncNumReset(evicted)
           THEN [evicted EXCEPT !.numReset = @ + 1, !.pendingReset = Append(@, s)]
           ELSE evicted

ActionsSendReset(m, s) ==
  LET Reset(n, t) == EnqueueResetExpiration(SendReset(n, t), t)
  IN  Transition(m, s, Reset)

MaybeCancel(m, s) ==
  IF m.store[s].refs = 0 /\ ~IsClosed(m.store[s].state)
  THEN EnqueueResetExpiration(ScheduleImplicitReset(m, s), s)
  ELSE m

\* drop_stream_ref
DropStreamRef(m, s) ==
  LET dropped == [m EXCEPT !.store[s].refs = @ - 1]
      woken == IF dropped.store[s].refs = 0 /\ StreamClosed(m, s)
               THEN Wake(dropped) ELSE dropped
  IN  Transition(woken, s, MaybeCancel)

\* Store::for_each; an entry the body unlinks is replaced by the last one,
\* so what is visited is every entry, in an order that only unlinking changes.
ForEach(m, Body(_, _)) == Each(Body, m, m.ids)

-----------------------------------------------------------------------------
Init ==
  /\ me = [store |-> <<>>, ids |-> <<>>, pendingSend |-> <<>>,
           pendingCapacity |-> <<>>, pendingOpen |-> <<>>, pendingReset |-> <<>>,
           flow |-> Flow(InitWindow, InitWindow), inFlight |-> Nothing,
           numSend |-> 0, maxSend |-> InitMaxStreams, numReset |-> 0,
           initWindow |-> InitWindow, nextId |-> 1, maxId |-> Cardinality(Ids),
           connError |-> FALSE, woken |-> TRUE, failed |-> {}]
  /\ codec = NoFrame
  /\ request = [h \in Handles |-> Nothing]
  /\ done = FALSE
  /\ wire = [s \in Ids |-> [headers |-> FALSE, bytes |-> 0, eos |-> FALSE,
                            rst |-> 0, peer |-> "silent"]]
  /\ granted = [conn |-> InitWindow, stream |-> [s \in Ids |-> 0], settings |-> 0]
  /\ accepted = [s \in Ids |-> 0]

\* A failed assertion unwinds the holder of the lock: nothing runs after it.
Alive == me.failed = {}

(* The application.                                                          *)

Waits(h, s) == request[h] = s
UserHolds(s) == s \in Slab(me) /\ me.store[s].refs > Cardinality({h \in Handles : Waits(h, s)})
IsPendingOpen(s) == Queued(me.pendingOpen, s)

SendRequest(h, eos) ==
  LET s == me.nextId
      opened == [NewStream(me, s) EXCEPT !.state = SendOpen(@, eos)]
      linked == [me EXCEPT !.nextId = s + 1, !.ids = Append(@, s),
                           !.store = Insert(@, s, opened)]
      counted == IF CanIncNumSend(me) THEN IncNumSend(linked, s) ELSE QueueOpen(linked, s)
      queued == QueueFrame(counted, s, Frame("HEADERS", 0, eos))
      pending == ~CanIncNumSend(me)
      held == [queued EXCEPT !.store[s].refs = IF pending THEN 2 ELSE 1]
  IN  /\ Alive /\ ~me.connError /\ s \in Ids
      /\ request[h] # Dropped /\ ~IsPendingOpen(request[h])
      /\ me' = IF pending /\ request[h] # Nothing
               THEN DropStreamRef(held, request[h]) ELSE held
      /\ request' = IF pending THEN [request EXCEPT ![h] = s] ELSE request
      /\ granted' = [granted EXCEPT !.stream[s] = me.initWindow]
      /\ UNCHANGED <<codec, done, wire, accepted>>

\* poll_ready forgets the stream it waited for, unless the connection failed.
PollReady(h) ==
  /\ Alive /\ ~me.connError /\ request[h] \in Ids /\ ~IsPendingOpen(request[h])
  /\ request' = [request EXCEPT ![h] = Nothing]
  /\ me' = DropStreamRef(me, request[h])
  /\ UNCHANGED <<codec, done, wire, granted, accepted>>

DropSendRequest(h) ==
  /\ Alive /\ request[h] \in Droppable \cup {Nothing}
  /\ request' = [request EXCEPT ![h] = Dropped]
  /\ me' = IF request[h] \in Ids THEN DropStreamRef(me, request[h]) ELSE me
  /\ UNCHANGED <<codec, done, wire, granted, accepted>>

SendData(s, sz, eos) ==
  LET Body(m, t) == PrioritizeData(m, t, sz, eos)
  IN  /\ Alive /\ UserHolds(s) /\ IsSendStreaming(me.store[s].state)
      /\ accepted[s] + sz <= MaxData
      /\ me' = Transition(me, s, Body)
      /\ accepted' = [accepted EXCEPT ![s] = @ + sz]
      /\ UNCHANGED <<codec, request, done, wire, granted>>

SendTrailers(s) ==
  LET Body(m, t) ==
        ReserveCapacity(
          QueueFrame([m EXCEPT !.store[t].state = SendClose(@)], t, Frame("TRAILERS", 0, TRUE)),
          t, 0)
  IN  /\ Alive /\ UserHolds(s) /\ IsSendStreaming(me.store[s].state)
      /\ me' = Transition(me, s, Body)
      /\ UNCHANGED <<codec, request, done, wire, granted, accepted>>

Reserve(s, n) ==
  /\ Alive /\ UserHolds(s)
  /\ me' = ReserveCapacity(me, s, n)
  /\ UNCHANGED <<codec, request, done, wire, granted, accepted>>

ResetByUser(s) ==
  /\ Alive /\ UserHolds(s) /\ s \in Resettable
  /\ me' = ActionsSendReset(me, s)
  /\ UNCHANGED <<codec, request, done, wire, granted, accepted>>

\* The last of the application's own references to the stream goes away.
DropHandle(s) ==
  /\ Alive /\ UserHolds(s) /\ s \in Droppable
  /\ me' = DropStreamRef(me, s)
  /\ UNCHANGED <<codec, request, done, wire, granted, accepted>>

(* The connection task, applying a frame it read.  The peer only answers     *)
(* streams whose HEADERS it has seen, and says nothing after its end.        *)

TaskRuns == Alive /\ ~done
PeerMayAnswer(s) ==
  wire[s].headers /\ wire[s].peer \in {"silent", "answering"} /\ Contains(me.ids, s)

\* What the task does with a frame also gets it polled again.
Applied(m) == me' = Wake(m) /\ UNCHANGED <<codec, request, done, accepted>>
PeerSays(s, what) == wire' = [wire EXCEPT ![s].peer = what] /\ UNCHANGED granted

RecvHeaders(s, eos) ==
  LET Body(m, t) == [m EXCEPT !.store[t].state = RecvOpen(@, eos)]
  IN  /\ TaskRuns /\ PeerMayAnswer(s) /\ wire[s].peer = "silent"
      /\ Applied(IF IsLocalReset(me.store[s].state) THEN me ELSE Transition(me, s, Body))
      /\ PeerSays(s, IF eos THEN "ended" ELSE "answering")

\* DATA with END_STREAM, or trailers.
RecvEndStream(s) ==
  LET Body(m, t) == [m EXCEPT !.store[t].state = RecvClose(@)]
  IN  /\ TaskRuns /\ PeerMayAnswer(s) /\ wire[s].peer = "answering"
      /\ Applied(IF IsLocalReset(me.store[s].state) THEN me ELSE Transition(me, s, Body))
      /\ PeerSays(s, "ended")

\* DATA that breaks a rule of its stream: reset_on_recv_stream_err.
RecvBadData(s) ==
  /\ TaskRuns /\ PeerMayAnswer(s) /\ wire[s].peer = "answering"
  /\ ~IsLocalReset(me.store[s].state)
  /\ Applied(Transition(me, s, SendReset))
  /\ UNCHANGED <<wire, granted>>

RecvResetFrame(s) ==
  LET Body(m, t) ==
        SendRecvErr([m EXCEPT !.store[t].state = RecvReset(@, Queued(m.pendingSend, t))], t)
  IN  /\ TaskRuns /\ PeerMayAnswer(s)
      /\ Applied(Transition(me, s, Body))
      /\ PeerSays(s, "reset")

\* recv_err on one stream, from a GOAWAY or from the end of the transport.
FailStream(m, t, cause) ==
  LET Fail(n, s) == SendRecvErr([n EXCEPT !.store[s].state = RecvErr(@, cause)], s)
  IN  Transition(m, t, Fail)

\* recv_err for every stream with an id above `last`.
FailAbove(m, last, cause) ==
  LET Body(n, t) == IF t > last THEN FailStream(n, t, cause) ELSE n
  IN  ForEach(m, Body)

RecvGoAway(last) ==
  /\ TaskRuns /\ last <= me.maxId
  /\ Applied([FailAbove(me, last, "LocallyReset") EXCEPT !.maxId = last, !.connError = TRUE])
  /\ UNCHANGED <<wire, granted>>

CanGrantConn(inc) ==
  TaskRuns /\ granted.conn + inc <= MaxGrant /\ CanIncWindow(me.flow, inc)

RecvConnWindowUpdate(inc) ==
  /\ CanGrantConn(inc)
  /\ granted' = [granted EXCEPT !.conn = @ + inc]
  /\ UNCHANGED wire
  /\ Applied(AssignConnectionCapacity([me EXCEPT !.flow = IncWindow(@, inc)], inc))

CanGrant(s, inc) ==
  /\ TaskRuns /\ wire[s].headers /\ Contains(me.ids, s)
  /\ granted.stream[s] + inc <= MaxGrant

RecvWindowUpdate(s, inc) ==
  /\ CanGrant(s, inc)
  /\ granted' = [granted EXCEPT !.stream[s] = @ + inc]
  /\ UNCHANGED wire
  /\ Applied(RecvStreamWindowUpdate(me, s, inc))

\* One stream's part of a smaller window, what it must give back added up.
ShrinkWindow(acc, s, dec) ==
  LET flow == acc.me.store[s].flow
      excess == AsSize(AsSize(flow.available) - AsSize(flow.window - dec))
  IN  [me |-> [acc.me EXCEPT !.store[s].flow = ClaimCapacity(DecSendWindow(@, dec), excess)],
       total |-> acc.total + excess]

(* SETTINGS_INITIAL_WINDOW_SIZE.  A peer that grants more than a window can  *)
(* hold makes this a connection error, which is not modelled here.           *)
ApplyWindowSetting(m, val) ==
  LET change == val - m.initWindow
      noted == [m EXCEPT !.initWindow = val]
      Shrink(acc, s) == ShrinkWindow(acc, s, -change)
      shrunk == Each(Shrink, [me |-> noted, total |-> 0], m.ids)
      Grow(n, s) == RecvStreamWindowUpdate(n, s, change)
  IN  CASE change < 0 -> AssignConnectionCapacity(shrunk.me, shrunk.total)
        [] change > 0 -> ForEach(noted, Grow)
        [] OTHER -> m

RecvWindowSetting(val) ==
  LET change == val - me.initWindow
  IN  /\ TaskRuns /\ change # 0 /\ granted.settings < MaxSettings
      /\ \A s \in Slab(me) : CanIncWindow(me.store[s].flow, change)
      /\ Applied(ApplyWindowSetting(me, val))
      /\ granted' = [granted EXCEPT !.settings = @ + 1,
                       !.stream = [s \in Ids |-> @[s] + IF s < me.nextId THEN change ELSE 0]]
      /\ UNCHANGED wire

RecvStreamsSetting(val) ==
  /\ TaskRuns /\ val # me.maxSend /\ granted.settings < MaxSettings
  /\ Applied([me EXCEPT !.maxSend = val])
  /\ granted' = [granted EXCEPT !.settings = @ + 1]
  /\ UNCHANGED wire

\* clear_expired_reset_streams, for the oldest one; time is not modelled.
ResetExpires ==
  /\ TaskRuns /\ me.pendingReset # <<>>
  /\ Applied(TransitionAfter([me EXCEPT !.pendingReset = Tail(@)],
                              Head(me.pendingReset), TRUE))
  /\ UNCHANGED <<wire, granted>>

\* clear_queues, one entry of a queue at a time.
Same(m, t) == m
DropExpiring(m, t) == TransitionAfter([m EXCEPT !.pendingReset = Tail(@)], t, TRUE)
DropWaiting(m, t) == Transition([m EXCEPT !.pendingCapacity = Tail(@)], t, Same)
DropSending(m, t) == Transition([m EXCEPT !.pendingSend = Tail(@)], t, Same)
DropOpening(m, t) == Transition([m EXCEPT !.pendingOpen = Tail(@)], t, Same)

ClearQueues(m) ==
  LET m1 == Each(DropExpiring, m, m.pendingReset)
      m2 == Each(DropWaiting, m1, m1.pendingCapacity)
      m3 == Each(DropSending, m2, m2.pendingSend)
  IN  Each(DropOpening, m3, m3.pendingOpen)

\* recv_eof: every stream fails, then every queue is emptied in turn.
RecvEof ==
  /\ TaskRuns
  /\ me' = ClearQueues(FailAbove([me EXCEPT !.connError = TRUE], 0, "Io"))
  /\ done' = TRUE
  /\ UNCHANGED <<codec, request, wire, granted, accepted>>

-----------------------------------------------------------------------------
(* poll_complete.                                                            *)

Write(w, f) ==
  CASE f.kind = "HEADERS" -> [w EXCEPT !.headers = TRUE, !.eos = f.eos]
    [] f.kind = "DATA" -> [w EXCEPT !.bytes = @ + f.len, !.eos = f.eos /\ f.rest = 0]
    [] f.kind = "TRAILERS" -> [w EXCEPT !.eos = TRUE]
    [] OTHER -> [w EXCEPT !.rst = @ + 1]

Polled == PopFrame(SchedulePendingOpen(ReclaimFrame(me, codec)))

CanPoll == TaskRuns /\ me.woken

WriteFrame ==
  /\ CanPoll
  /\ UNCHANGED <<request, done, granted, accepted>>
  /\ \E polled \in {Polled} :
       /\ polled.frame # NoFrame
       /\ me' = polled.me
       /\ codec' = IF polled.frame.kind = "DATA" THEN polled.frame ELSE NoFrame
       /\ wire' = [wire EXCEPT ![polled.frame.stream] = Write(@, polled.frame)]

\* Nothing to write: the task leaves its waker and parks.
Park ==
  /\ CanPoll
  /\ codec' = NoFrame
  /\ UNCHANGED <<request, done, wire, granted, accepted>>
  /\ \E polled \in {Polled} :
       polled.frame = NoFrame /\ me' = [polled.me EXCEPT !.woken = FALSE]

Application ==
  \/ \E h \in Handles : PollReady(h) \/ DropSendRequest(h)
  \/ \E h \in Handles, eos \in BOOLEAN : SendRequest(h, eos)
  \/ \E s \in Ids : \/ \E sz \in DataSizes, eos \in BOOLEAN : SendData(s, sz, eos)
                    \/ SendTrailers(s)
                    \/ \E n \in ReserveSizes : Reserve(s, n)
                    \/ ResetByUser(s)
                    \/ DropHandle(s)

Reading ==
  \/ \E s \in Ids :
       \/ "respond" \in PeerMoves /\ \E eos \in BOOLEAN : RecvHeaders(s, eos)
       \/ "respond" \in PeerMoves /\ RecvEndStream(s)
       \/ "violate" \in PeerMoves /\ RecvBadData(s)
       \/ "reset" \in PeerMoves /\ RecvResetFrame(s)
       \/ \E inc \in 1 .. MaxGrant : RecvWindowUpdate(s, inc)
  \/ \E inc \in 1 .. MaxGrant : RecvConnWindowUpdate(inc)
  \/ \E val \in WindowSettings : RecvWindowSetting(val)
  \/ \E val \in StreamSettings : RecvStreamsSetting(val)
  \/ "goaway" \in PeerMoves /\ \E last \in 0 .. Cardinality(Ids) : RecvGoAway(last)
  \/ "expire" \in PeerMoves /\ ResetExpires
  \/ "eof" \in PeerMoves /\ RecvEof

Writing == WriteFrame \/ Park

Next == Application \/ Reading \/ Writing

Spec == Init /\ [][Next]_vars

\* The runtime polls a task that was woken, the transport accepts frames, and
\* the peer goes on granting window until it has granted what it means to.
\* Each line is WF_vars of its action with the ENABLED written out.
Fairness ==
  /\ []<>~CanPoll \/ []<><<Writing>>_vars
  /\ []<>~CanGrantConn(1) \/ []<><<\E inc \in 1 .. MaxGrant : RecvConnWindowUpdate(inc)>>_vars
  /\ \A s \in Ids :
       []<>~CanGrant(s, 1) \/ []<><<\E inc \in 1 .. MaxGrant : RecvWindowUpdate(s, inc)>>_vars

FairSpec == Spec /\ Fairness

-----------------------------------------------------------------------------
(* Properties.                                                               *)

Bytes(pending) == SumFunction([i \in DOMAIN pending |-> pending[i].len])

Unsent(s) ==
  Bytes(me.store[s].pending) + (IF me.inFlight = s THEN codec.rest ELSE 0)

\* Type correctness of the locked state and of the histories.
TypeOK ==
  /\ Slab(me) \subseteq Ids
  /\ \A s \in Slab(me) :
       /\ me.store[s].state \in States
       /\ me.store[s].flow \in Flows
       /\ {me.store[s].refs, me.store[s].requested, me.store[s].buffered} \subseteq Nat
       /\ ToSet(me.store[s].pending) \subseteq
            [kind : {"HEADERS", "DATA", "TRAILERS", "RST_STREAM"}, len : 0 .. MaxData, eos : BOOLEAN]
  /\ \A q \in {me.pendingSend, me.pendingCapacity, me.pendingOpen, me.pendingReset, me.ids} :
       ToSet(q) \subseteq Slab(me) /\ IsInjective(q)
  /\ me.flow \in Flows /\ me.inFlight \in Ids \cup {Nothing, Dropped}
  /\ {me.numSend, me.maxSend, me.numReset, me.initWindow, me.nextId} \subseteq Nat

\* No assertion of the code fires: in particular, the DATA taken for writing
\* fits both windows, whatever order requests, resets and updates came in.
NoAssertFails == me.failed = {}

\* Capacity is neither lost nor invented: what the connection's window allows
\* is either free or handed to exactly one stream.
HandedOut(m) == SumFunction([s \in Slab(m) |-> m.store[s].flow.available])

CapacityConserved == me.flow.window = me.flow.available + HandedOut(me)

\* A stream never holds more capacity than its window allows or than it
\* asked for, so none can starve the others with capacity it cannot use.
CapacityUsable ==
  \A s \in Slab(me) : LET st == me.store[s]
                       IN  st.flow.available <= AsSize(st.flow.window)
                             /\ st.flow.available <= st.requested

\* Both hold together through requests, releases, resets and every change of a
\* window.
CapacityAccounted == CapacityConserved /\ CapacityUsable

\* Streams wait for connection capacity only while there is none, and data
\* that no queue, waiting list or codec knows of has no window to go into.
NoStrandedData ==
  /\ me.pendingCapacity # <<>> => me.flow.available <= 0
  /\ \A s \in Slab(me) :
       me.store[s].buffered > 0 /\ IsSendReady(me, s) =>
         \/ Queued(me.pendingSend \o me.pendingCapacity, s)
         \/ me.inFlight = s
         \/ me.store[s].flow.window <= 0

\* buffered_send_data counts the bytes still queued or in the codec.
BufferedIsQueued == \A s \in Slab(me) : me.store[s].buffered = Unsent(s)

\* A task is never left parked over HEADERS, trailers or RST_STREAM it could
\* write: whoever made the frame sendable has woken it.
ControlIsWoken ==
  TaskRuns /\ ~me.woken => Polled.frame = NoFrame \/ Polled.frame.kind = "DATA"

\* The same for DATA, which holds while no stream waits for a slot: capacity
\* that such a stream gives back to others wakes nobody.
ParkedHasNothingToWrite == TaskRuns /\ ~me.woken => Polled.frame = NoFrame

\* The counters say what is there: a slot per counted stream, and a reset slot
\* for every stream kept for late frames, never above the limit.
SlotsAccountedFor ==
  /\ me.numSend = Cardinality({s \in Slab(me) : me.store[s].counted})
  /\ Len(me.pendingReset) <= me.numReset /\ me.numReset <= MaxReset

\* A stream the peer still takes for open.
OpenForPeer(w) == w.headers /\ w.rst = 0 /\ w.peer # "reset" /\ ~(w.eos /\ w.peer = "ended")

\* HEADERS that open a stream never exceed MAX_CONCURRENT_STREAMS as the peer
\* counts, although slots are freed long before RST_STREAM is written.
PeerConcurrency ==
  [][\A s \in Ids : ~wire[s].headers /\ wire'[s].headers =>
       Cardinality({t \in Ids : OpenForPeer(wire'[t])}) <= me.maxSend]_vars

\* The frames of one stream are in order: nothing follows RST_STREAM, and
\* nothing but RST_STREAM comes before HEADERS or after END_STREAM.
FramesInOrder ==
  [][\A s \in Ids : wire'[s] # wire[s] /\ wire'[s].peer = wire[s].peer =>
       /\ wire[s].rst = 0
       /\ wire'[s].rst = 1 \/ (~wire[s].eos /\ wire'[s].headers)]_vars

\* END_STREAM without a reset means every byte send_data took was written.
CleanEndIsComplete ==
  \A s \in Ids : wire[s].eos /\ wire[s].rst = 0 => wire[s].bytes = accepted[s]

BytesWritten == SumFunction([t \in Ids |-> wire[t].bytes])

\* Bytes are written only inside what the peer granted, on both levels.
WithinGrants ==
  [][\A s \in Ids : wire'[s].bytes > wire[s].bytes =>
       /\ wire'[s].bytes <= granted.stream[s]
       /\ BytesWritten' <= granted.conn]_vars

\* HEADERS open streams in the order of their ids.
OpenedInOrder ==
  [][\A s \in Ids : ~wire[s].headers /\ wire'[s].headers =>
       \A t \in Ids : t > s => ~wire[t].headers]_vars

\* The end of the connection takes every slot back and leaves no stream queued
\* for sending, whatever the application still does with its handles.
EndReleasesSlots ==
  done => /\ me.numSend = 0
          /\ me.pendingSend \o me.pendingCapacity \o me.pendingOpen = <<>>

\* The counters of the store agree with what they count, whatever the calls,
\* frames and resets were and in whatever order.
CountersAgree == TypeOK /\ BufferedIsQueued /\ SlotsAccountedFor /\ EndReleasesSlots

\* What the peer granted s and has not got yet: on the stream, and of the
\* connection's window what no other stream holds.
LeftFor(s) ==
  LET held == HandedOut(me) - me.store[s].flow.available
  IN  Min({granted.stream[s] - wire[s].bytes, granted.conn - BytesWritten - held})

\* What send_data took is eventually written as far as the peer granted it,
\* unless its stream is reset, a GOAWAY disowns it or the connection ends, as
\* long as no stream has to wait for a slot.
DataGoesOut ==
  \A s \in Ids :
    wire[s].bytes < accepted[s] ~>
      \/ wire[s].bytes = accepted[s] \/ done \/ s > me.maxId
      \/ s \notin Slab(me) \/ IsReset(me.store[s].state) \/ LeftFor(s) <= 0

\* A stream nothing refers to any more has left the slab.
SlabForgets == \A s \in Slab(me) : ~IsReleased(me, s)
=============================================================================
