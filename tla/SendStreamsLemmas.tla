-------------------------- MODULE SendStreamsLemmas --------------------------
(* What the proofs about SendStreams rest on: loops and sums, the inductive  *)
(* invariant, and that the helpers of send.rs, prioritize.rs, store.rs and   *)
(* counts.rs keep it.  The helpers are called in the middle of operations,   *)
(* so the invariant of the locked record, Sound, has two parameters: the     *)
(* capacity that is just being moved, and the bytes no queue holds.          *)
(*                                                                           *)
(* A lemma about a helper Op says that Op(m, ..) keeps Sound and leaves      *)
(* alone what Keeps, Steady or Calm name, which is what the callers need.    *)
EXTENDS SendStreams, QueueLemmas

-----------------------------------------------------------------------------
(* The inductive invariant.                                                  *)

\* A stream that is dropped while it holds a reservation breaks the accounts
\* (run reserve_drop), so what is about them assumes that one of the two
\* never happens.
Prudent == ReserveSizes = {} \/ Droppable = {}

\* Nobody sends an empty DATA frame: it is taken for larger than a negative
\* window.
Careful == Prudent /\ 0 \notin DataSizes

\* Frames as TypeOK has them, and those a stream may queue.
FrameTypes ==
  [kind : {"HEADERS", "DATA", "TRAILERS", "RST_STREAM"}, len : 0 .. MaxData, eos : BOOLEAN]
SendFrames ==
  {f \in FrameTypes : IF f.kind = "DATA" THEN Careful => f.len > 0 ELSE f.len = 0}

\* The states a stream the client opened may be in.
ClientStates ==
  {Open("Streaming", r) : r \in Peers} \cup {HalfClosedLocal(p) : p \in Peers}
    \cup {HalfClosedRemote("Streaming")} \cup {Closed(c) : c \in Causes}

\* One stream, and a store of them.
Streams ==
  [state : States, counted : BOOLEAN, refs : Int, flow : Flows,
   requested : Int, buffered : Int, pending : Seq(SendFrames)]

Stores == UNION {[S -> Streams] : S \in SUBSET Ids}

\* The assertions of the code, by the names the model gives them.
Asserts ==
  {"inc_num_send_streams", "dec_num_streams", "dec_num_reset_streams", "remove",
   "pending_open while pending_send", "reclaim_frame",
   "try_assign_capacity: requested and window cover available",
   "try_assign_capacity: stream can send", "send_data: connection window",
   "send_data: stream window", "pop_frame: buffered", "dangling stream"}

\* The type of the locked record.
Locked ==
  [store : Stores, ids : Seq(Ids), pendingSend : Seq(Ids), pendingCapacity : Seq(Ids),
   pendingOpen : Seq(Ids), pendingReset : Seq(Ids), flow : Flows,
   inFlight : Ids \cup {Nothing, Dropped}, numSend : Int, maxSend : Nat, numReset : Int,
   initWindow : Nat, nextId : Nat, maxId : Int, connError : BOOLEAN, woken : BOOLEAN,
   failed : SUBSET Asserts]

\* Every queue is one, and ids are never used twice.
Queues(m) ==
  /\ IsQueue(m.ids, Slab(m)) /\ IsQueue(m.pendingSend, Slab(m))
  /\ IsQueue(m.pendingCapacity, Slab(m)) /\ IsQueue(m.pendingOpen, Slab(m))
  /\ IsQueue(m.pendingReset, Slab(m))
  /\ \A s \in Slab(m) : s < m.nextId

\* What no id finds any more has nothing left to do.
Findable(m) == \A s \in Slab(m) : Queued(m.ids, s) \/ StreamClosed(m, s)

\* The streams that hold a slot.
Counted(m) == {s \in Slab(m) : m.store[s].counted}

\* The counters of open and of reset streams.
Slots(m) ==
  /\ m.numSend = Cardinality(Counted(m))
  /\ \A s \in Counted(m) : ~Queued(m.pendingOpen, s)
  /\ Len(m.pendingReset) <= m.numReset /\ m.numReset <= MaxReset

\* A stream that is queued for sending has something to send, or is only there
\* to be forgotten; it waits for a slot or for its turn, never for both.
Busy(st) == st.pending # <<>> \/ st.buffered > 0 \/ IsClosed(st.state)
Working(m) ==
  \A s \in Slab(m) :
    /\ Queued(m.pendingSend, s) \/ Queued(m.pendingOpen, s) => Busy(m.store[s])
    /\ Queued(m.pendingSend, s) => ~Queued(m.pendingOpen, s)

\* One stream, of whose data `held` bytes are in the codec.
StreamFine(st, held) ==
  /\ st.state \in ClientStates
  /\ st.buffered = Bytes(st.pending) + held
  /\ st.buffered <= st.requested
  /\ st.flow.available <= AsSize(st.flow.window)
  /\ st.flow.available <= st.requested
  /\ Prudent => /\ st.flow.available >= 0
                /\ IsSendClosed(st.state) \/ ReserveSizes = {} => st.requested = st.buffered

\* The bytes of a stream that buffered counts and no queue holds: what the
\* codec did not write yet, and what is just being queued.
Loose == [codec : Nat, new : [Ids -> Nat]]

\* Which of them are of the stream s.
Held(m, rest, s) == IF m.inFlight = s THEN rest.codec + rest.new[s] ELSE rest.new[s]

\* Every stream is fine.
Fine(m, rest) == \A s \in Slab(m) : StreamFine(m.store[s], Held(m, rest, s))

\* The connection's window is free, handed out or, in the middle of an
\* operation, the `d` bytes that are just being moved.
Balanced(m, d) ==
  Prudent => m.flow.available >= 0 /\ m.flow.window = m.flow.available + HandedOut(m) + d

\* What the codec holds of a frame can go back to the frame's stream.
Returnable(m, rest) ==
  rest.codec > 0 /\ m.inFlight \in Ids =>
    m.inFlight \in Slab(m) /\ ~Queued(m.pendingOpen, m.inFlight)

\* No assertion has failed.
Trusty(m) == Careful => m.failed = {}

\* What holds between two operations of the locked record, while `d` bytes of
\* capacity are on their way and `rest` is in no queue.
Sound(m, d, rest) ==
  /\ m \in Locked /\ Queues(m) /\ Findable(m) /\ Working(m) /\ Slots(m)
  /\ Fine(m, rest) /\ Returnable(m, rest) /\ Balanced(m, d) /\ Trusty(m)

\* n bytes in the codec and nothing else, and what the codec really holds.
Left(n) == [codec |-> n, new |-> [s \in Ids |-> 0]]
InCodec == Left(IF codec = NoFrame THEN 0 ELSE codec.rest)

\* A DATA frame the codec may hold.
DataFrames == [kind : {"DATA"}, stream : Ids, len : 0 .. MaxData, rest : 0 .. MaxData, eos : BOOLEAN]

\* The frame of which the codec holds a part.
CodecKnown ==
  \/ codec = NoFrame /\ me.inFlight = Nothing
  \/ codec \in DataFrames /\ me.inFlight \in {codec.stream, Dropped} /\ codec.stream < me.nextId

\* A stream is kept for every SendRequest that waits for it and for the
\* application's own handle.
Waiting(s) == {h \in Handles : Waits(h, s)}
Referenced ==
  /\ \A h \in Handles : request[h] \in Slab(me) \cup {Nothing, Dropped}
  /\ \A s \in Slab(me) :
       me.store[s].refs >= Cardinality(Waiting(s)) + (IF Droppable = {} THEN 1 ELSE 0)

\* What the peer may still answer, it has not ended.
PeerEnded(x) == x.inner = "HalfClosedRemote" \/ (IsClosed(x) /\ ~IsLocalReset(x))
PeerView ==
  ~done => \A s \in Slab(me) :
             wire[s].peer \in {"silent", "answering"} => ~PeerEnded(me.store[s].state)

\* What was written and what is left of a window is what the peer granted.
InGrants ==
  /\ me.flow.window = granted.conn - BytesWritten
  /\ \A s \in Slab(me) :
       Queued(me.ids, s) => me.store[s].flow.window <= granted.stream[s] - wire[s].bytes
  /\ \A s \in Ids : s >= me.nextId => wire[s].bytes = 0 /\ wire[s].peer = "silent"

\* What the history keeps of one stream.
Marks == [headers : BOOLEAN, bytes : Nat, eos : BOOLEAN, rst : Nat,
          peer : {"silent", "answering", "ended", "reset"}]

\* The types of the histories and of what the handles wait for.
Histories ==
  /\ request \in [Handles -> Ids \cup {Nothing, Dropped}]
  /\ wire \in [Ids -> Marks]
  /\ granted \in [conn : Int, stream : [Ids -> Int], settings : Nat]
  /\ accepted \in [Ids -> 0 .. MaxData]

\* The inductive invariant.
IInv ==
  /\ Sound(me, 0, InCodec) /\ Histories /\ CodecKnown
  /\ Referenced /\ PeerView /\ InGrants

-----------------------------------------------------------------------------
(* The bytes of a stream's queue of frames.                                  *)

\* The lengths of the frames of a queue.
Lens(q) == [i \in DOMAIN q |-> q[i].len]

\* The length of a frame is a natural number.
LEMMA FrameLen ==
  ASSUME NEW f \in SendFrames PROVE f.len \in Nat
<1>1. MaxData \in Nat BY SendAssumption
<1>2. QED BY <1>1 DEF SendFrames, FrameTypes

\* The lengths can be summed.
LEMMA LensSummable ==
  ASSUME NEW q \in Seq(SendFrames)
  PROVE  /\ DOMAIN Lens(q) = 1 .. Len(q) /\ IsSummable(Lens(q))
         /\ \A i \in 1 .. Len(q) : Lens(q)[i] = q[i].len /\ q[i].len \in Nat
<1>1. DOMAIN q = 1 .. Len(q) /\ Len(q) \in Nat /\ \A i \in 1 .. Len(q) : q[i] \in SendFrames
  OBVIOUS
<1>2. \A i \in 1 .. Len(q) : q[i].len \in Nat
  BY <1>1, FrameLen
<1>3. IsFiniteSet(1 .. Len(q))
  BY <1>1, FS_Interval
<1>4. QED BY <1>1, <1>2, <1>3 DEF Lens, IsSummable

\* The bytes of a queue are a natural number.
LEMMA BytesNat ==
  ASSUME NEW q \in Seq(SendFrames)
  PROVE  Bytes(q) \in Nat
<1>1. Bytes(q) = SumFunction(Lens(q)) BY DEF Bytes, Lens
<1>2. \A i \in DOMAIN Lens(q) : Lens(q)[i] >= 0
  BY LensSummable
<1>3. QED BY <1>1, <1>2, LensSummable, SumIsInt, SumPart

\* An empty queue has no bytes.
LEMMA BytesNone == Bytes(<<>>) = 0
<1>1. Bytes(<<>>) = SumFunction(Lens(<<>>)) BY DEF Bytes, Lens
<1>2. DOMAIN Lens(<<>>) = {} BY DEF Lens
<1>3. QED BY <1>1, <1>2, SumEmpty

\* A frame at the end adds its bytes.
LEMMA BytesAppend ==
  ASSUME NEW q \in Seq(SendFrames), NEW f \in SendFrames
  PROVE  Append(q, f) \in Seq(SendFrames) /\ Bytes(Append(q, f)) = Bytes(q) + f.len
<1> DEFINE r == Append(q, f)
           n == Len(q)
<1>1. /\ r \in Seq(SendFrames) /\ Len(r) = n + 1 /\ n \in Nat /\ r[n + 1] = f
      /\ \A i \in 1 .. n : r[i] = q[i]
  OBVIOUS
<1> HIDE DEF r
<1>2. DOMAIN Lens(r) = 1 .. n + 1 /\ IsSummable(Lens(r)) /\ Lens(r)[n + 1] = f.len
  BY <1>1, LensSummable
<1>3. DOMAIN Lens(q) = DOMAIN Lens(r) \ {n + 1} /\ \A i \in DOMAIN Lens(q) : Lens(q)[i] = Lens(r)[i]
  <2>1. DOMAIN Lens(q) = 1 .. n /\ \A i \in 1 .. n : Lens(q)[i] = q[i].len
    BY LensSummable
  <2>2. \A i \in 1 .. n + 1 : Lens(r)[i] = r[i].len
    BY <1>1, LensSummable
  <2> HIDE DEF n
  <2>3. QED BY <1>1, <1>2, <2>1, <2>2
<1>4. n + 1 \in DOMAIN Lens(r) BY <1>1, <1>2
<1>5. SumFunction(Lens(r)) = Lens(r)[n + 1] + SumFunction(Lens(q))
  BY <1>2, <1>3, <1>4, SumDrop
<1>6. Bytes(r) = SumFunction(Lens(r)) /\ Bytes(q) = SumFunction(Lens(q))
  BY DEF Bytes, Lens
<1>7. Bytes(q) \in Nat /\ f.len \in Nat
  BY BytesNat, FrameLen
<1>8. QED BY <1>1, <1>2, <1>5, <1>6, <1>7 DEF r

\* The first frame and the rest make up the bytes of the queue.
LEMMA BytesHead ==
  ASSUME NEW q \in Seq(SendFrames), q # <<>>
  PROVE  /\ Head(q) \in SendFrames /\ Tail(q) \in Seq(SendFrames)
         /\ Bytes(q) = Head(q).len + Bytes(Tail(q))
<1> DEFINE n == Len(q)
           r == Tail(q)
           P(k) == SumFunction([i \in 1 .. k |-> q[i].len])
           T(k) == SumFunction([i \in 1 .. k |-> r[i].len])
           Good == {k \in 0 .. n - 1 : P(k + 1) = q[1].len + T(k)}
<1>1. /\ n \in Nat /\ n >= 1 /\ Head(q) = q[1] /\ q[1] \in SendFrames
      /\ r \in Seq(SendFrames) /\ Len(r) = n - 1 /\ \A i \in 1 .. n - 1 : r[i] = q[i + 1]
  OBVIOUS
<1>2. /\ \A i \in 1 .. n : q[i].len \in Nat
      /\ \A i \in 1 .. n - 1 : r[i].len \in Nat /\ r[i].len = q[i + 1].len
  BY <1>1, LensSummable
<1> HIDE DEF r, n
<1>3. ASSUME NEW k \in 1 .. n PROVE P(k) \in Int /\ P(k) = q[k].len + P(k - 1)
  <2> DEFINE a == [i \in 1 .. k |-> q[i].len]
             b == [i \in 1 .. k - 1 |-> q[i].len]
  <2>1. k \in Nat /\ IsFiniteSet(1 .. k) BY <1>1, FS_Interval
  <2>2. IsSummable(a)
    <3>1. \A i \in 1 .. k : a[i] \in Int BY <1>1, <1>2
    <3>2. DOMAIN a = 1 .. k OBVIOUS
    <3> HIDE DEF a
    <3>3. QED BY <2>1, <3>1, <3>2 DEF IsSummable
  <2>3. k \in DOMAIN a /\ DOMAIN b = DOMAIN a \ {k} /\ (\A i \in DOMAIN b : b[i] = a[i]) /\ a[k] = q[k].len
    BY <2>1
  <2> HIDE DEF a, b
  <2>4. SumFunction(a) = a[k] + SumFunction(b) /\ SumFunction(a) \in Int
    BY <2>2, <2>3, SumDrop, SumIsInt
  <2>5. QED BY <2>3, <2>4 DEF a, b
<1>4. ASSUME NEW k \in 1 .. n - 1 PROVE T(k) \in Int /\ T(k) = r[k].len + T(k - 1)
  <2> DEFINE a == [i \in 1 .. k |-> r[i].len]
             b == [i \in 1 .. k - 1 |-> r[i].len]
  <2>1. k \in Nat /\ IsFiniteSet(1 .. k) BY <1>1, FS_Interval
  <2>2. IsSummable(a)
    <3>1. \A i \in 1 .. k : a[i] \in Int BY <1>1, <1>2
    <3>2. DOMAIN a = 1 .. k OBVIOUS
    <3> HIDE DEF a
    <3>3. QED BY <2>1, <3>1, <3>2 DEF IsSummable
  <2>3. k \in DOMAIN a /\ DOMAIN b = DOMAIN a \ {k} /\ (\A i \in DOMAIN b : b[i] = a[i]) /\ a[k] = r[k].len
    BY <2>1
  <2> HIDE DEF a, b
  <2>4. SumFunction(a) = a[k] + SumFunction(b) /\ SumFunction(a) \in Int
    BY <2>2, <2>3, SumDrop, SumIsInt
  <2>5. QED BY <2>3, <2>4 DEF a, b
<1>5. P(0) = 0 /\ T(0) = 0
  <2>1. DOMAIN [i \in 1 .. 0 |-> q[i].len] = {} /\ DOMAIN [i \in 1 .. 0 |-> r[i].len] = {}
    OBVIOUS
  <2>2. QED BY <2>1, SumEmpty
<1>6. Bytes(q) = P(n) /\ Bytes(r) = T(n - 1)
  <2>1. DOMAIN q = 1 .. n /\ DOMAIN r = 1 .. n - 1 BY <1>1 DEF n
  <2>2. QED BY <2>1 DEF Bytes
<1> HIDE DEF P, T
<1>7. \A k \in 0 .. n - 1 : k \in Good
  <2>1. 0 \in Good BY <1>1, <1>2, <1>3, <1>5
  <2>2. ASSUME NEW k \in 1 .. n - 1, k - 1 \in Good PROVE k \in Good
    <3>1. P(k) = q[1].len + T(k - 1) BY <1>1, <2>2
    <3>2. P(k + 1) = q[k + 1].len + P(k)
      <4>1. k + 1 \in 1 .. n /\ (k + 1) - 1 = k BY <1>1
      <4>2. P(k + 1) = q[k + 1].len + P((k + 1) - 1) BY <4>1, <1>3
      <4>3. QED BY <4>1, <4>2
    <3>3. T(k) = r[k].len + T(k - 1) /\ r[k].len = q[k + 1].len BY <1>1, <1>2, <1>4
    <3>4. T(k - 1) \in Int BY <1>4, <1>5, <1>1
    <3>5. q[1].len \in Nat /\ q[k + 1].len \in Nat BY <1>1, <1>2
    <3>6. k \in 0 .. n - 1 BY <1>1
    <3>7. QED BY <3>1, <3>2, <3>3, <3>4, <3>5, <3>6
  <2>3. n - 1 \in Nat BY <1>1
  <2> HIDE DEF Good
  <2>4. QED BY <2>1, <2>2, <2>3, NatSetInduction
<1>8. P(n) = q[1].len + T(n - 1)
  BY <1>1, <1>7
<1>9. QED BY <1>1, <1>6, <1>8 DEF r

\* A frame in front adds its bytes.
LEMMA BytesInFront ==
  ASSUME NEW q \in Seq(SendFrames), NEW f \in SendFrames
  PROVE  <<f>> \o q \in Seq(SendFrames) /\ Bytes(<<f>> \o q) = f.len + Bytes(q)
<1> DEFINE r == <<f>> \o q
<1>1. /\ r \in Seq(SendFrames) /\ r # <<>> /\ Head(r) = f /\ Len(r) = Len(q) + 1
      /\ \A i \in 1 .. Len(q) : r[i + 1] = q[i]
  OBVIOUS
<1>2. Tail(r) = q
  <2> DEFINE a == Tail(r)
  <2>1. a \in Seq(SendFrames) /\ Len(a) = Len(q) /\ \A i \in 1 .. Len(a) : a[i] = q[i]
    BY <1>1
  <2> HIDE DEF a
  <2>2. a = q BY <2>1, SeqEqual
  <2>3. QED BY <2>2 DEF a
<1> HIDE DEF r
<1>3. QED BY <1>1, <1>2, BytesHead DEF r

-----------------------------------------------------------------------------
(* The locked record.                                                        *)

\* A store maps some of the ids to streams.
LEMMA StoreTyped ==
  ASSUME NEW st
  PROVE  st \in Stores <=> DOMAIN st \subseteq Ids /\ st \in [DOMAIN st -> Streams]
BY DEF Stores

\* Replacing one stream of a store leaves the others alone.
LEMMA StorePut ==
  ASSUME NEW st \in Stores, NEW s \in DOMAIN st, NEW r \in Streams
  PROVE  /\ [st EXCEPT ![s] = r] \in Stores /\ DOMAIN [st EXCEPT ![s] = r] = DOMAIN st
         /\ [st EXCEPT ![s] = r][s] = r
         /\ \A t \in DOMAIN st : t # s => [st EXCEPT ![s] = r][t] = st[t]
<1>1. DOMAIN st \subseteq Ids /\ st \in [DOMAIN st -> Streams] BY StoreTyped
<1> DEFINE new == [st EXCEPT ![s] = r]
<1>2. DOMAIN new = DOMAIN st /\ new \in [DOMAIN st -> Streams] BY <1>1
<1>3. new \in Stores BY <1>1, <1>2, StoreTyped
<1>4. QED BY <1>1, <1>3

\* The streams of the slab are typed.
LEMMA StreamTyped ==
  ASSUME NEW m \in Locked, NEW s \in Slab(m)
  PROVE  s \in Ids /\ m.store[s] \in Streams
<1>1. m.store \in Stores BY DEF Locked
<1>2. QED BY <1>1, StoreTyped DEF Slab

\* Ids are numbers, and neither of the two marks beside them.
LEMMA IdsNat == IsFiniteSet(Ids) /\ Ids \subseteq Nat /\ Nothing \notin Ids /\ Dropped \notin Ids
<1>1. Ids = 1 .. Cardinality(Ids) /\ Cardinality(Ids) \in Nat
  BY SendAssumption, FS_CardinalityType
<1>2. QED BY <1>1, SendAssumption DEF Nothing, Dropped

\* What most operations leave alone: how many streams there are, and the
\* queues that counting them goes by.
SameSlots(m, n) ==
  /\ n.ids = m.ids /\ n.pendingOpen = m.pendingOpen /\ n.pendingReset = m.pendingReset
  /\ n.numSend = m.numSend /\ n.numReset = m.numReset
  /\ n.nextId = m.nextId /\ n.initWindow = m.initWindow

\* No assertion fails on the way from m to n.
Harmless(m, n) == Careful /\ m.failed = {} => n.failed = {}

\* n differs from m in the stream s and in what changes along with it.
Touches(m, n, s) ==
  /\ n \in Locked
  /\ Slab(n) = Slab(m) /\ \A t \in Slab(m) : t # s => n.store[t] = m.store[t]
  /\ n.store[s].counted = m.store[s].counted /\ n.store[s].refs = m.store[s].refs
  /\ SameSlots(m, n)
  /\ IsQueue(n.pendingSend, Slab(m)) /\ IsQueue(n.pendingCapacity, Slab(m))
  /\ \A t \in Slab(m) : Queued(n.pendingSend, t) =>
       Queued(m.pendingSend, t) \/ (t = s /\ ~Queued(m.pendingOpen, t))
  /\ n.inFlight = m.inFlight \/ (m.inFlight = s /\ n.inFlight = Dropped)
  /\ Harmless(m, n)

\* Doing nothing touches one stream at most.
LEMMA TouchesNothing ==
  ASSUME NEW m \in Locked, Queues(m), NEW s \in Slab(m)
  PROVE  Touches(m, m, s)
BY DEF Touches, SameSlots, Queues, Harmless

\* Two changes of one stream are a change of that stream.
LEMMA TouchesTwice ==
  ASSUME NEW m, NEW n, NEW o, NEW s, Touches(m, n, s), Touches(n, o, s)
  PROVE  Touches(m, o, s)
BY DEF Touches, SameSlots, Harmless

\* schedule_send changes only where the stream is queued.
LEMMA ScheduleSendTouches ==
  ASSUME NEW m \in Locked, Queues(m), NEW s \in Slab(m)
  PROVE  /\ Touches(m, ScheduleSend(m, s), s)
         /\ ScheduleSend(m, s).store = m.store /\ ScheduleSend(m, s).flow = m.flow
         /\ ScheduleSend(m, s).inFlight = m.inFlight
<1>1. IsQueue(PushOnce(m.pendingSend, s), Slab(m))
  BY QueuePush DEF Queues
<1>2. PushOnce(m.pendingSend, s) \in Seq(Ids)
  BY <1>1, StoreTyped DEF IsQueue, Locked, Slab
<1>3. \A t : Queued(PushOnce(m.pendingSend, s), t) <=> Queued(m.pendingSend, t) \/ t = s
  BY QueuePush DEF Queues
<1>4. QED BY <1>1, <1>2, <1>3 DEF Touches, SameSlots, ScheduleSend, IsSendReady, Wake, Queues, Locked, Slab, Harmless

\* A step that changes one stream's record, and perhaps the flow of the
\* connection and what is in flight.
Put(m, s, r, F, i) ==
  [m EXCEPT !.store = [m.store EXCEPT ![s] = r], !.flow = F, !.inFlight = i]

\* Replacing the record of a stream touches that stream.
LEMMA PutTouches ==
  ASSUME NEW m \in Locked, Queues(m), NEW s \in Slab(m), NEW r \in Streams,
         r.counted = m.store[s].counted, r.refs = m.store[s].refs,
         NEW F \in Flows, NEW i, i = m.inFlight \/ (m.inFlight = s /\ i = Dropped),
         NEW n, n = Put(m, s, r, F, i)
  PROVE  /\ n \in Locked /\ Touches(m, n, s) /\ Queues(n) /\ Slab(n) = Slab(m)
         /\ n.store[s] = r /\ n.flow = F /\ n.inFlight = i
         /\ n.pendingSend = m.pendingSend /\ n.pendingCapacity = m.pendingCapacity
         /\ n.failed = m.failed
<1> DEFINE new == [m.store EXCEPT ![s] = r]
<1>1. /\ new \in Stores /\ DOMAIN new = DOMAIN m.store /\ new[s] = r
      /\ \A t \in DOMAIN m.store : t # s => new[t] = m.store[t]
  BY StorePut DEF Slab, Locked
<1>2. i \in Ids \cup {Nothing, Dropped} BY DEF Locked
<1> HIDE DEF new
<1>3. n = [m EXCEPT !.store = new, !.flow = F, !.inFlight = i] BY DEF new, Put
<1>4. n \in Locked BY <1>1, <1>2, <1>3 DEF Locked
<1>5. n.store = new /\ n.flow = F /\ n.inFlight = i BY <1>3 DEF Locked
<1>6. /\ n.ids = m.ids /\ n.pendingOpen = m.pendingOpen /\ n.pendingReset = m.pendingReset
      /\ n.numSend = m.numSend /\ n.numReset = m.numReset
      /\ n.nextId = m.nextId /\ n.initWindow = m.initWindow
      /\ n.pendingSend = m.pendingSend /\ n.pendingCapacity = m.pendingCapacity
      /\ n.failed = m.failed
  BY <1>3 DEF Locked
<1>7. QED BY <1>1, <1>4, <1>5, <1>6 DEF Touches, SameSlots, Queues, Slab, Harmless

\* queue_frame appends the frame and touches that stream only.
LEMMA QueueFrameTouches ==
  ASSUME NEW m \in Locked, Queues(m), NEW s \in Slab(m), NEW f \in SendFrames
  PROVE  LET n == QueueFrame(m, s, f)
         IN  /\ Touches(m, n, s) /\ Queues(n) /\ n.flow = m.flow /\ n.inFlight = m.inFlight
             /\ n.store[s] = [m.store[s] EXCEPT !.pending = Append(@, f)]
<1> DEFINE r == [m.store[s] EXCEPT !.pending = Append(@, f)]
           k == [m EXCEPT !.store[s].pending = Append(@, f)]
<1>1. m.store[s] \in Streams BY StreamTyped
<1>2. Append(m.store[s].pending, f) \in Seq(SendFrames) BY <1>1, BytesAppend DEF Streams
<1>3. r \in Streams BY <1>1, <1>2 DEF Streams
<1>4. m.flow \in Flows BY DEF Locked
<1>5. k = Put(m, s, r, m.flow, m.inFlight)
  BY DEF Locked, Put
<1>6. r.counted = m.store[s].counted /\ r.refs = m.store[s].refs
  BY <1>1 DEF Streams
<1> HIDE DEF r, k
<1>7. /\ k \in Locked /\ Touches(m, k, s) /\ Queues(k) /\ Slab(k) = Slab(m)
      /\ k.store[s] = r /\ k.flow = m.flow /\ k.inFlight = m.inFlight
  BY <1>3, <1>4, <1>5, <1>6, PutTouches
<1> DEFINE n == ScheduleSend(k, s)
<1>8. /\ Touches(k, n, s) /\ n.store = k.store /\ n.flow = k.flow /\ n.inFlight = k.inFlight
  BY <1>7, ScheduleSendTouches
<1>9. QueueFrame(m, s, f) = n BY DEF QueueFrame, k
<1> HIDE DEF n
<1>10. Touches(m, n, s) BY <1>7, <1>8, TouchesTwice
<1>11. Queues(n) BY <1>7, <1>10 DEF Touches, SameSlots, Queues
<1>12. QED BY <1>7, <1>8, <1>9, <1>10, <1>11 DEF r

\* A change of one stream keeps the queues.
LEMMA TouchesQueues ==
  ASSUME NEW m, Queues(m), NEW n, NEW s, Touches(m, n, s)
  PROVE  n \in Locked /\ Queues(n) /\ Slab(n) = Slab(m)
BY DEF Touches, SameSlots, Queues

\* Who holds how much of the connection's window.
Availables(m) == [s \in Slab(m) |-> m.store[s].flow.available]

\* It can be summed.
LEMMA AvailablesSummable ==
  ASSUME NEW m \in Locked
  PROVE  /\ IsFiniteSet(Slab(m)) /\ IsSummable(Availables(m)) /\ DOMAIN Availables(m) = Slab(m)
         /\ HandedOut(m) = SumFunction(Availables(m)) /\ HandedOut(m) \in Int
<1>1. IsFiniteSet(Slab(m)) BY IdsNat, StoreTyped, FS_Subset DEF Locked, Slab
<1>2. \A s \in Slab(m) : m.store[s].flow.available \in Int
  BY StreamTyped DEF Streams, Flows
<1>3. IsSummable(Availables(m)) /\ DOMAIN Availables(m) = Slab(m)
  BY <1>1, <1>2 DEF IsSummable, Availables
<1>4. HandedOut(m) = SumFunction(Availables(m)) BY DEF HandedOut, Availables
<1>5. QED BY <1>1, <1>3, <1>4, SumIsInt

\* What a stream takes is handed out more.
LEMMA HandedOutChange ==
  ASSUME NEW m \in Locked, NEW n \in Locked, NEW s \in Slab(m), Slab(n) = Slab(m),
         \A t \in Slab(m) : t # s => n.store[t].flow.available = m.store[t].flow.available
  PROVE  HandedOut(n) = HandedOut(m) + (n.store[s].flow.available - m.store[s].flow.available)
<1>1. n.store[s].flow.available \in Int BY StreamTyped DEF Streams, Flows
<1>2. /\ Availables(m)[s] = m.store[s].flow.available /\ Availables(n)[s] = n.store[s].flow.available
      /\ \A t \in Slab(m) : t # s => Availables(n)[t] = Availables(m)[t]
  BY DEF Availables
<1>3. QED BY <1>1, <1>2, AvailablesSummable, SumChange

\* What the connection, one stream and the operation that runs hold between
\* them stays the same.
Moves(F, G, f, g, d, e) ==
  Prudent => /\ G.available >= 0
             /\ G.window - G.available - g.available - e = F.window - F.available - f.available - d

\* The arithmetic of the balance.
LEMMA BalanceAdds ==
  ASSUME NEW a \in Int, NEW b \in Int, NEW v \in Int, NEW w \in Int, NEW f \in Int, NEW g \in Int,
         NEW h \in Int, NEW d \in Int, NEW e \in Int, NEW i, i = h + (b - a),
         v = f + h + d, w - g - b - e = v - f - a - d
  PROVE  w = g + i + e
OBVIOUS

\* A step of one stream keeps the invariant if it keeps the stream's part, and
\* if what it moves between the stream, the connection and `d` adds up.
LEMMA TouchMoves ==
  ASSUME NEW m, NEW d \in Int, NEW rest, Sound(m, d, rest), NEW s \in Slab(m),
         NEW n, Touches(m, n, s), NEW left, left.codec = rest.codec,
         \A t \in Slab(m) : t # s => Held(n, left, t) = Held(m, rest, t),
         StreamFine(n.store[s], Held(n, left, s)),
         Queued(m.ids, s) \/ StreamClosed(n, s),
         Queued(n.pendingSend, s) \/ Queued(m.pendingOpen, s) => Busy(n.store[s]),
         NEW e \in Int,
         Moves(m.flow, n.flow, m.store[s].flow, n.store[s].flow, d, e)
  PROVE  Sound(n, e, left)
<1>1. /\ m \in Locked /\ Queues(m) /\ Findable(m) /\ Working(m) /\ Slots(m) /\ Fine(m, rest)
      /\ Returnable(m, rest) /\ Balanced(m, d) /\ Trusty(m)
  BY DEF Sound
<1>2. n \in Locked /\ Queues(n) /\ Slab(n) = Slab(m) BY <1>1, TouchesQueues
<1>3. \A t \in Slab(m) : t # s => n.store[t] = m.store[t] BY DEF Touches
<1>4. Findable(n)
  BY <1>1, <1>2, <1>3 DEF Findable, Touches, SameSlots, StreamClosed
<1>5. Slots(n)
  <2>1. Counted(n) = Counted(m) BY <1>2, <1>3 DEF Counted, Touches
  <2>2. QED BY <1>1, <2>1 DEF Slots, Touches, SameSlots
<1>6. Fine(n, left)
  <2>1. QED BY <1>1, <1>2, <1>3 DEF Fine
<1>7. Balanced(n, e)
  <2>1. HandedOut(n) = HandedOut(m) + (n.store[s].flow.available - m.store[s].flow.available)
    BY <1>1, <1>2, <1>3, HandedOutChange
  <2>2. HandedOut(m) \in Int /\ HandedOut(n) \in Int BY <1>1, <1>2, AvailablesSummable
  <2>3. m.store[s].flow \in Flows /\ n.store[s].flow \in Flows /\ m.flow \in Flows /\ n.flow \in Flows
    BY <1>1, <1>2, StreamTyped DEF Streams, Locked
  <2>4. SUFFICES ASSUME Prudent PROVE Balanced(n, e) BY DEF Balanced
  <2>5. /\ m.store[s].flow.available \in Int /\ n.store[s].flow.available \in Int
        /\ m.flow.available \in Int /\ m.flow.window \in Int
        /\ n.flow.available \in Int /\ n.flow.window \in Int
    BY <2>3 DEF Flows
  <2>6. m.flow.window = m.flow.available + HandedOut(m) + d
    BY <1>1, <2>4 DEF Balanced
  <2>7. /\ n.flow.available >= 0
        /\ n.flow.window - n.flow.available - n.store[s].flow.available - e
             = m.flow.window - m.flow.available - m.store[s].flow.available - d
    BY <2>4 DEF Moves
  <2>8. n.flow.window = n.flow.available + HandedOut(n) + e
    <3> DEFINE a == m.store[s].flow.available
               b == n.store[s].flow.available
               v == m.flow.window
               w == n.flow.window
               f == m.flow.available
               g == n.flow.available
               h == HandedOut(m)
               i == HandedOut(n)
    <3>1. a \in Int /\ b \in Int /\ v \in Int /\ w \in Int /\ f \in Int /\ g \in Int /\ h \in Int /\ i \in Int
      BY <2>2, <2>5
    <3>2. i = h + (b - a) /\ v = f + h + d /\ w - g - b - e = v - f - a - d
      BY <2>1, <2>6, <2>7
    <3> HIDE DEF a, b, v, w, f, g, h, i
    <3>3. w = g + i + e
      <4>1. d \in Int /\ e \in Int OBVIOUS
      <4>2. QED BY ONLY <3>1, <3>2, <4>1, BalanceAdds
    <3>4. QED BY <3>3 DEF w, g, i
  <2>9. QED BY <2>7, <2>8 DEF Balanced
<1>8. Working(n)
  BY <1>1, <1>2, <1>3 DEF Working, Touches, SameSlots
<1>9. Returnable(n, left) /\ Trusty(n)
  <2>1. Dropped \notin Ids BY IdsNat
  <2>2. QED BY <1>1, <1>2, <2>1 DEF Returnable, Trusty, Touches, SameSlots, Harmless
<1>10. QED BY <1>2, <1>4, <1>5, <1>6, <1>7, <1>8, <1>9 DEF Sound

\* The same when what is in no queue stays as it was.
LEMMA TouchSound ==
  ASSUME NEW m, NEW d \in Int, NEW rest \in Loose, Sound(m, d, rest), NEW s \in Slab(m),
         NEW n, Touches(m, n, s),
         StreamFine(n.store[s], Held(n, rest, s)),
         Queued(m.ids, s) \/ StreamClosed(n, s),
         Queued(n.pendingSend, s) \/ Queued(m.pendingOpen, s) => Busy(n.store[s]),
         NEW e \in Int,
         Moves(m.flow, n.flow, m.store[s].flow, n.store[s].flow, d, e)
  PROVE  Sound(n, e, rest)
<1>1. \A t \in Slab(m) : t # s => Held(n, rest, t) = Held(m, rest, t)
  BY IdsNat, StreamTyped DEF Held, Touches, Sound
<1>2. QED BY <1>1, TouchMoves

\* The smaller of two.
LEMMA MinOfTwo ==
  ASSUME NEW a \in Int, NEW b \in Int
  PROVE  Min({a, b}) = IF a <= b THEN a ELSE b
<1> DEFINE S == {a, b}
           c == IF a <= b THEN a ELSE b
<1>1. c \in S /\ \A x \in S : c <= x /\ (x # c => ~(x <= c)) OBVIOUS
<1> HIDE DEF c
<1>2. \A x \in S : (\A y \in S : x <= y) => x = c BY <1>1
<1> HIDE DEF S
<1>3. Min(S) = c BY <1>1, <1>2 DEF Min
<1>4. QED BY <1>3 DEF S, c

\* The smallest of three is one of them and not above any.
LEMMA MinOfThree ==
  ASSUME NEW a \in Nat, NEW b \in Nat, NEW c \in Nat
  PROVE  /\ Min({a, b, c}) \in Nat /\ Min({a, b, c}) \in {a, b, c}
         /\ Min({a, b, c}) <= a /\ Min({a, b, c}) <= b /\ Min({a, b, c}) <= c
<1> DEFINE S == {a, b, c}
           k == IF a <= b THEN (IF a <= c THEN a ELSE c) ELSE IF b <= c THEN b ELSE c
<1>1. k \in S /\ \A x \in S : k <= x OBVIOUS
<1> HIDE DEF k
<1>2. Min(S) \in S /\ \A x \in S : Min(S) <= x
  <2> HIDE DEF S
  <2> QED BY <1>1 DEF Min
<1>3. QED BY <1>2

\* as_size is a natural number, and the identity on those.
LEMMA AsSizeNat ==
  ASSUME NEW a \in Int PROVE AsSize(a) \in Nat /\ a <= AsSize(a) /\ (a >= 0 => AsSize(a) = a)
BY DEF AsSize

\* Assertions and wakers are kept apart from everything else.
Agree(m, n) ==
  /\ n \in Locked /\ n.store = m.store /\ SameSlots(m, n)
  /\ n.pendingSend = m.pendingSend /\ n.pendingCapacity = m.pendingCapacity
  /\ n.flow = m.flow /\ n.inFlight = m.inFlight /\ Harmless(m, n)

\* An assertion that holds changes nothing.
LEMMA CheckAgrees ==
  ASSUME NEW m \in Locked, NEW holds \in BOOLEAN, NEW name \in Asserts,
         Careful /\ m.failed = {} => holds
  PROVE  Agree(m, Check(m, holds, name))
BY DEF Agree, Check, Locked, SameSlots, Harmless

\* Waking the task changes nothing else.
LEMMA WakeAgrees ==
  ASSUME NEW m \in Locked
  PROVE  Agree(m, Wake(m))
BY DEF Agree, Wake, Locked, SameSlots, Harmless

\* Neither does putting back the assertions that failed.
LEMMA FailedAgrees ==
  ASSUME NEW m \in Locked, NEW F \in SUBSET Asserts, Careful /\ m.failed = {} => F = {}
  PROVE  Agree(m, [m EXCEPT !.failed = F])
BY DEF Agree, Locked, SameSlots, Harmless

\* A change of one stream stays one when only assertions and wakers follow.
LEMMA AgreeTouches ==
  ASSUME NEW m, NEW k, NEW n, NEW s, Touches(m, k, s), Agree(k, n)
  PROVE  Touches(m, n, s)
BY DEF Touches, SameSlots, Agree, Slab, Harmless

\* Assertions and wakers keep the invariant.
LEMMA AgreeSound ==
  ASSUME NEW m, NEW d, NEW rest, Sound(m, d, rest), NEW n, Agree(m, n)
  PROVE  Sound(n, d, rest) /\ Slab(n) = Slab(m)
<1>1. n \in Locked /\ Slab(n) = Slab(m) /\ HandedOut(n) = HandedOut(m)
  BY DEF Agree, Slab, HandedOut
<1>2. Queues(n) /\ Findable(n) BY <1>1 DEF Sound, Queues, Findable, Agree, SameSlots, StreamClosed
<1>3. Slots(n) BY <1>1 DEF Sound, Slots, Counted, Agree, SameSlots
<1>4. Fine(n, rest) BY <1>1 DEF Sound, Fine, Held, Agree
<1>5. Balanced(n, d) BY <1>1 DEF Sound, Balanced, Agree
<1>6. Working(n) BY <1>1 DEF Sound, Working, Agree, SameSlots
<1>7. Returnable(n, rest) /\ Trusty(n) BY <1>1 DEF Sound, Returnable, Trusty, Harmless, Agree, SameSlots
<1>8. QED BY <1>1, <1>2, <1>3, <1>4, <1>5, <1>6, <1>7 DEF Sound

-----------------------------------------------------------------------------
(* Capacity.                                                                 *)

\* What try_assign_capacity moves is free on the connection, wanted by the
\* stream and inside its window.
Assigns(m, n, s, share) ==
  /\ n.store[s] = [m.store[s] EXCEPT !.flow = AssignCapacity(@, share)]
  /\ n.flow = ClaimCapacity(m.flow, share)
  /\ share <= AsSize(m.flow.available)
  /\ m.store[s].flow.available + share <= m.store[s].requested
  /\ m.store[s].flow.available + share <= AsSize(m.store[s].flow.window)

\* try_assign_capacity touches its stream, queues it only if it has data, and
\* moves a share to it.
LEMMA TryAssignTouches ==
  ASSUME NEW m \in Locked, Queues(m), NEW s \in Slab(m),
         m.store[s].requested >= 0,
         m.store[s].flow.available <= m.store[s].requested,
         m.store[s].flow.available <= AsSize(m.store[s].flow.window),
         IsSendStreaming(m.store[s].state) \/ m.store[s].buffered > 0
  PROVE  LET n == TryAssignCapacity(m, s)
         IN  /\ Touches(m, n, s) /\ n.inFlight = m.inFlight
             /\ Len(n.pendingCapacity) >= Len(m.pendingCapacity)
             /\ Queued(n.pendingSend, s) => Queued(m.pendingSend, s) \/ m.store[s].buffered > 0
             /\ \E share \in Nat : Assigns(m, n, s, share)
<1> DEFINE st == m.store[s]
           handed == AsSize(st.flow.available)
           additional == Min({st.requested - handed, AsSize(st.flow.window) - handed})
           share == Min({AsSize(m.flow.available), additional})
           assigned ==
             IF share > 0
             THEN [m EXCEPT !.store[s].flow = AssignCapacity(@, share),
                            !.flow = ClaimCapacity(@, share)]
             ELSE m
           flow == assigned.store[s].flow
           short == flow.available < st.requested /\ HasUnavailable(flow)
           sendable == st.buffered > 0 /\ IsSendReady(m, s)
           queued ==
             [assigned EXCEPT
                !.pendingCapacity = IF short THEN PushOnce(@, s) ELSE @,
                !.pendingSend = IF sendable THEN PushOnce(@, s) ELSE @]
           checked == Check(m, st.requested >= handed /\ AsSize(st.flow.window) >= handed,
                            "try_assign_capacity: requested and window cover available")
           final == Check([queued EXCEPT !.failed = checked.failed],
                          IsSendStreaming(st.state) \/ st.buffered > 0,
                          "try_assign_capacity: stream can send")
<1>1. TryAssignCapacity(m, s) = IF additional = 0 THEN checked ELSE final
  BY DEF TryAssignCapacity
<1>2. /\ st \in Streams /\ s \in Ids /\ st.flow \in Flows /\ m.flow \in Flows
      /\ st.flow.available \in Int /\ st.flow.window \in Int /\ st.requested \in Int
      /\ m.flow.available \in Int
  BY StreamTyped DEF Streams, Flows, Locked
<1>3. handed \in Nat /\ st.flow.available <= handed /\ (st.flow.available >= 0 => handed = st.flow.available)
      /\ AsSize(st.flow.window) \in Nat /\ AsSize(m.flow.available) \in Nat
  BY <1>2, AsSizeNat
<1>4. handed <= st.requested /\ handed <= AsSize(st.flow.window)
  BY <1>2, <1>3 DEF AsSize
<1>5. additional \in Nat /\ additional <= st.requested - handed /\ additional <= AsSize(st.flow.window) - handed
  <2> HIDE DEF handed
  <2>1. st.requested - handed \in Int /\ AsSize(st.flow.window) - handed \in Int BY <1>2, <1>3
  <2>2. QED BY <2>1, <1>2, <1>3, <1>4, MinOfTwo
<1>6. share \in Nat /\ share <= AsSize(m.flow.available) /\ share <= additional
  <2> HIDE DEF additional
  <2>1. QED BY <1>3, <1>5, MinOfTwo
<1> HIDE DEF additional, share
<1> DEFINE r == [st EXCEPT !.flow = AssignCapacity(@, share)]
           F == ClaimCapacity(m.flow, share)
<1>7. /\ r \in Streams /\ r.counted = st.counted /\ r.refs = st.refs /\ F \in Flows
      /\ r.flow.available = st.flow.available + share /\ r.flow.window = st.flow.window
  <2>1. AssignCapacity(st.flow, share) \in Flows /\ F \in Flows
    BY <1>2, <1>6 DEF Flows, AssignCapacity, ClaimCapacity
  <2>2. /\ AssignCapacity(st.flow, share).available = st.flow.available + share
        /\ AssignCapacity(st.flow, share).window = st.flow.window
    BY <1>2 DEF Flows, AssignCapacity
  <2> HIDE DEF F
  <2>3. QED BY <1>2, <2>1, <2>2 DEF Streams
<1>8. /\ st.flow.available + share <= st.requested
      /\ st.flow.available + share <= AsSize(st.flow.window)
  <2> HIDE DEF handed
  <2> QED BY <1>2, <1>3, <1>5, <1>6
<1>9. /\ checked \in Locked /\ Agree(m, checked) /\ checked.failed \in SUBSET Asserts
      /\ checked.pendingSend = m.pendingSend /\ Harmless(m, checked)
  <2> DEFINE holds == st.requested >= handed /\ AsSize(st.flow.window) >= handed
             name == "try_assign_capacity: requested and window cover available"
  <2>1. holds /\ holds \in BOOLEAN
    <3> HIDE DEF handed
    <3> QED BY <1>2, <1>3, <1>4
  <2>2. name \in Asserts BY DEF Asserts
  <2>3. Agree(m, checked)
    <3> HIDE DEF holds, name
    <3>1. Agree(m, Check(m, holds, name)) BY <2>1, <2>2, CheckAgrees
    <3>2. QED BY <3>1 DEF holds, name
  <2>4. QED BY <2>3 DEF Agree, Locked
<1>10. CASE additional = 0
  <2>1. Touches(m, checked, s) /\ checked.inFlight = m.inFlight
    BY <1>9, TouchesNothing, AgreeTouches DEF Agree
  <2>2. Len(checked.pendingCapacity) >= Len(m.pendingCapacity)
    <3>1. checked.pendingCapacity = m.pendingCapacity /\ m.pendingCapacity \in Seq(Ids)
      BY <1>9 DEF Agree, Locked
    <3> HIDE DEF checked
    <3>2. QED BY <3>1
  <2>3. Assigns(m, checked, s, 0)
    <3>1. checked.store[s] = st /\ checked.flow = m.flow BY <1>9 DEF Agree
    <3>2. [st EXCEPT !.flow = AssignCapacity(@, 0)] = st
      BY <1>2 DEF Streams, Flows, AssignCapacity
    <3>3. ClaimCapacity(m.flow, 0) = m.flow BY <1>2 DEF Flows, ClaimCapacity
    <3>4. st.flow.available + 0 = st.flow.available BY <1>2
    <3> HIDE DEF handed, checked
    <3>5. 0 <= AsSize(m.flow.available) BY <1>3
    <3>6. QED BY <3>1, <3>2, <3>3, <3>4, <3>5 DEF Assigns
  <2>4. checked.pendingSend = m.pendingSend BY <1>9
  <2> HIDE DEF checked
  <2>5. QED BY <1>1, <1>10, <2>1, <2>2, <2>3, <2>4
<1>11. CASE additional # 0
  <2>1. assigned = Put(m, s, r, F, m.inFlight)
    <3>1. CASE share > 0 BY <3>1 DEF Locked, Put
    <3>2. CASE ~(share > 0)
      <4>1. share = 0 BY <3>2, <1>6
      <4>2. AssignCapacity(st.flow, 0) = st.flow BY <1>2 DEF Streams, Flows, AssignCapacity
      <4>3. r = st BY <1>2, <4>1, <4>2 DEF Streams
      <4>4. F = m.flow BY <1>2, <4>1 DEF Flows, ClaimCapacity
      <4>5. m = Put(m, s, st, m.flow, m.inFlight)
        <5>1. m.store = [m.store EXCEPT ![s] = m.store[s]] BY StoreTyped DEF Locked, Slab
        <5>2. QED BY <5>1 DEF Put, Locked
      <4> HIDE DEF r, F
      <4>6. QED BY <3>2, <4>3, <4>4, <4>5
    <3>3. QED BY <3>1, <3>2
  <2> HIDE DEF assigned, r, F
  <2>2. /\ assigned \in Locked /\ Touches(m, assigned, s) /\ Queues(assigned) /\ Slab(assigned) = Slab(m)
        /\ assigned.store[s] = r /\ assigned.flow = F /\ assigned.inFlight = m.inFlight
        /\ assigned.pendingSend = m.pendingSend /\ assigned.pendingCapacity = m.pendingCapacity
        /\ assigned.failed = m.failed
    BY <1>7, <2>1, PutTouches
  <2> DEFINE short2 == short
             cap == IF short THEN PushOnce(assigned.pendingCapacity, s) ELSE assigned.pendingCapacity
             snd == IF sendable THEN PushOnce(assigned.pendingSend, s) ELSE assigned.pendingSend
  <2>3. sendable => st.buffered > 0 /\ ~Queued(m.pendingOpen, s) BY DEF IsSendReady
  <2> HIDE DEF short, sendable
  <2>4. IsQueue(cap, Slab(m)) /\ IsQueue(snd, Slab(m))
    BY <2>2, QueuePush DEF Queues
  <2>5. /\ Queued(snd, s) => Queued(m.pendingSend, s) \/ st.buffered > 0
        /\ \A t : Queued(snd, t) => Queued(m.pendingSend, t) \/ (t = s /\ ~Queued(m.pendingOpen, t))
    BY <2>2, <2>3, QueuePush DEF Queues
  <2>6. cap \in Seq(Ids) /\ snd \in Seq(Ids) /\ Len(cap) >= Len(m.pendingCapacity)
    <3>1. Slab(m) \subseteq Ids BY StreamTyped
    <3>2. cap \in Seq(Ids) /\ snd \in Seq(Ids) BY <2>4, <3>1, QueueWiden DEF IsQueue
    <3>3. m.pendingCapacity \in Seq(Ids) BY DEF Locked
    <3>4. Len(PushOnce(m.pendingCapacity, s)) >= Len(m.pendingCapacity)
      BY <1>2, <3>3 DEF PushOnce
    <3>5. Len(m.pendingCapacity) >= Len(m.pendingCapacity) BY <3>3
    <3>6. QED BY <2>2, <3>2, <3>4, <3>5
  <2> HIDE DEF cap, snd
  <2>7. queued = [assigned EXCEPT !.pendingCapacity = cap, !.pendingSend = snd] BY DEF cap, snd
  <2>8. /\ queued \in Locked /\ queued.store = assigned.store /\ queued.flow = F
        /\ queued.inFlight = m.inFlight /\ queued.pendingCapacity = cap /\ queued.pendingSend = snd
        /\ SameSlots(assigned, queued) /\ queued.failed = assigned.failed
    BY <2>2, <2>6, <2>7 DEF Locked, SameSlots
  <2> HIDE DEF queued
  <2>9. Touches(m, queued, s)
    BY <2>2, <2>4, <2>8, <2>5 DEF Touches, SameSlots, Slab, Harmless
  <2> DEFINE k == [queued EXCEPT !.failed = checked.failed]
  <2>10. Agree(queued, k)
    <3>1. Careful /\ queued.failed = {} => checked.failed = {} BY <1>9, <2>2, <2>8 DEF Harmless
    <3> HIDE DEF checked
    <3>2. QED BY <2>8, <1>9, <3>1, FailedAgrees
  <2>11. k \in Locked BY <2>10 DEF Agree
  <2>12. Agree(k, final)
    <3> DEFINE holds == IsSendStreaming(st.state) \/ st.buffered > 0
               name == "try_assign_capacity: stream can send"
    <3>1. holds /\ holds \in BOOLEAN BY DEF IsSendStreaming
    <3>2. name \in Asserts BY DEF Asserts
    <3> HIDE DEF k, holds, name
    <3>3. Agree(k, Check(k, holds, name)) BY <2>11, <3>1, <3>2, CheckAgrees
    <3>4. QED BY <3>3 DEF k, holds, name
  <2> HIDE DEF k, final
  <2>13. Touches(m, final, s) BY <2>9, <2>10, <2>12, AgreeTouches
  <2>14. final.inFlight = m.inFlight /\ final.pendingCapacity = cap /\ final.store[s] = r /\ final.flow = F
    BY <2>2, <2>8, <2>10, <2>12 DEF Agree
  <2>15. Assigns(m, final, s, share)
    BY <1>6, <1>8, <2>14 DEF Assigns, r, F
  <2>16. final.pendingSend = snd BY <2>8, <2>10, <2>12 DEF Agree
  <2> HIDE DEF checked
  <2>17. QED BY <1>1, <1>6, <1>11, <2>6, <2>13, <2>14, <2>15, <2>5, <2>16
<1>12. QED BY <1>10, <1>11

\* Only the queues of those who want to send have changed.
Requeues(m, n) ==
  /\ n \in Locked /\ n.store = m.store /\ SameSlots(m, n)
  /\ IsQueue(n.pendingSend, Slab(m)) /\ IsQueue(n.pendingCapacity, Slab(m))
  /\ \A t \in Slab(m) : Queued(n.pendingSend, t) =>
       Queued(m.pendingSend, t) \/ (Busy(m.store[t]) /\ ~Queued(m.pendingOpen, t))
  /\ n.flow = m.flow /\ n.inFlight = m.inFlight /\ Harmless(m, n)

\* Queueing those who have something to send keeps the invariant.
LEMMA RequeueSound ==
  ASSUME NEW m, NEW d, NEW rest, Sound(m, d, rest), NEW n, Requeues(m, n)
  PROVE  Sound(n, d, rest) /\ Slab(n) = Slab(m)
<1>1. n \in Locked /\ Slab(n) = Slab(m) /\ HandedOut(n) = HandedOut(m)
  BY DEF Requeues, Slab, HandedOut
<1>2. Queues(n) /\ Findable(n) BY <1>1 DEF Sound, Queues, Findable, Requeues, SameSlots, StreamClosed
<1>3. Slots(n) BY <1>1 DEF Sound, Slots, Counted, Requeues, SameSlots
<1>4. Fine(n, rest) BY <1>1 DEF Sound, Fine, Held, Requeues
<1>5. Balanced(n, d) BY <1>1 DEF Sound, Balanced, Requeues
<1>6. Working(n) BY <1>1 DEF Sound, Working, Requeues, SameSlots
<1>7. Returnable(n, rest) /\ Trusty(n) BY <1>1 DEF Sound, Returnable, Trusty, Harmless, Requeues, SameSlots
<1>8. QED BY <1>1, <1>2, <1>3, <1>4, <1>5, <1>6, <1>7 DEF Sound

\* What the invariant says of one stream.
LEMMA StreamFacts ==
  ASSUME NEW m, NEW d, NEW rest \in Loose, Sound(m, d, rest), NEW s \in Slab(m)
  PROVE  /\ m \in Locked /\ Queues(m) /\ s \in Ids /\ m.store[s] \in Streams
         /\ StreamFine(m.store[s], Held(m, rest, s)) /\ Held(m, rest, s) \in Nat
         /\ Bytes(m.store[s].pending) \in Nat
         /\ m.store[s].buffered \in Nat /\ m.store[s].requested \in Nat
         /\ m.store[s].flow \in Flows /\ m.flow \in Flows
         /\ m.store[s].flow.available \in Int /\ m.store[s].flow.window \in Int
         /\ m.flow.available \in Int /\ m.flow.window \in Int
<1>1. m \in Locked /\ Queues(m) /\ s \in Ids /\ m.store[s] \in Streams
  BY StreamTyped DEF Sound
<1>2. StreamFine(m.store[s], Held(m, rest, s)) /\ Held(m, rest, s) \in Nat
  BY <1>1 DEF Sound, Fine, Held, Loose
<1>3. Bytes(m.store[s].pending) \in Nat BY <1>1, BytesNat DEF Streams
<1>4. m.store[s].buffered \in Int /\ m.store[s].requested \in Int BY <1>1 DEF Streams
<1>5. m.store[s].buffered \in Nat /\ m.store[s].requested \in Nat
  BY <1>2, <1>3, <1>4 DEF StreamFine
<1>6. m.store[s].flow \in Flows /\ m.flow \in Flows BY <1>1 DEF Streams, Locked
<1>7. QED BY <1>1, <1>2, <1>3, <1>5, <1>6 DEF Flows

\* Handing out capacity changes nothing but who has how much of it, and who
\* waits for more.
Assigned(m, n) ==
  /\ n \in Locked /\ Slab(n) = Slab(m) /\ SameSlots(m, n)
  /\ n.inFlight = m.inFlight /\ n.flow.window = m.flow.window
  /\ \A t \in Slab(m) : /\ n.store[t] = [m.store[t] EXCEPT !.flow = n.store[t].flow]
                         /\ n.store[t].flow.window = m.store[t].flow.window

\* Handing out capacity twice is handing it out.
LEMMA AssignedTwice ==
  ASSUME NEW m \in Locked, NEW n, NEW o, Assigned(m, n), Assigned(n, o)
  PROVE  Assigned(m, o)
<1>1. ASSUME NEW t \in Slab(m)
      PROVE  /\ o.store[t] = [m.store[t] EXCEPT !.flow = o.store[t].flow]
             /\ o.store[t].flow.window = m.store[t].flow.window
  <2>1. m.store[t] \in Streams BY StreamTyped
  <2>2. /\ n.store[t] = [m.store[t] EXCEPT !.flow = n.store[t].flow]
        /\ o.store[t] = [n.store[t] EXCEPT !.flow = o.store[t].flow]
        /\ n.store[t].flow.window = m.store[t].flow.window
        /\ o.store[t].flow.window = n.store[t].flow.window
    BY DEF Assigned
  <2>3. QED BY <2>1, <2>2 DEF Streams
<1>2. QED BY <1>1 DEF Assigned, SameSlots

\* Queueing alone hands out nothing.
LEMMA AssignedNothing ==
  ASSUME NEW m \in Locked, NEW n, Requeues(m, n)
  PROVE  Assigned(m, n)
<1>1. ASSUME NEW t \in Slab(m) PROVE m.store[t] = [m.store[t] EXCEPT !.flow = m.store[t].flow]
  BY StreamTyped DEF Streams
<1>2. QED BY <1>1 DEF Requeues, Assigned, Slab

\* try_assign_capacity keeps the invariant.
LEMMA TryAssignSound ==
  ASSUME NEW m, NEW d \in Int, NEW rest \in Loose, Sound(m, d, rest), NEW s \in Slab(m),
         IsSendStreaming(m.store[s].state) \/ m.store[s].buffered > 0
  PROVE  LET n == TryAssignCapacity(m, s)
         IN  /\ Sound(n, d, rest) /\ Assigned(m, n) /\ Touches(m, n, s)
             /\ Len(n.pendingCapacity) >= Len(m.pendingCapacity)
<1> DEFINE n == TryAssignCapacity(m, s)
           st == m.store[s]
<1>1. /\ m \in Locked /\ Queues(m) /\ st \in Streams
      /\ StreamFine(st, Held(m, rest, s)) /\ Held(m, rest, s) \in Nat
      /\ st.buffered \in Nat /\ st.requested \in Nat
      /\ st.flow \in Flows /\ m.flow \in Flows
      /\ st.flow.available \in Int /\ st.flow.window \in Int
      /\ m.flow.available \in Int /\ m.flow.window \in Int
  BY StreamFacts
<1>2. /\ Touches(m, n, s) /\ n.inFlight = m.inFlight
      /\ Len(n.pendingCapacity) >= Len(m.pendingCapacity)
      /\ Queued(n.pendingSend, s) => Queued(m.pendingSend, s) \/ st.buffered > 0
      /\ \E share \in Nat : Assigns(m, n, s, share)
  BY <1>1, TryAssignTouches DEF StreamFine
<1> HIDE DEF n
<1>3. PICK share \in Nat : Assigns(m, n, s, share) BY <1>2
<1>4. /\ n.store[s] = [st EXCEPT !.flow = AssignCapacity(@, share)]
      /\ n.flow = ClaimCapacity(m.flow, share)
      /\ share <= AsSize(m.flow.available)
      /\ st.flow.available + share <= st.requested
      /\ st.flow.available + share <= AsSize(st.flow.window)
  BY <1>3 DEF Assigns
<1>5. /\ n.flow.window = m.flow.window /\ n.flow.available = m.flow.available - share
      /\ AssignCapacity(st.flow, share).window = st.flow.window
      /\ AssignCapacity(st.flow, share).available = st.flow.available + share
  BY <1>1, <1>4 DEF ClaimCapacity, AssignCapacity, Flows
<1>6. /\ n.store[s].flow.window = st.flow.window
      /\ n.store[s].flow.available = st.flow.available + share
      /\ n.store[s].state = st.state /\ n.store[s].pending = st.pending
      /\ n.store[s].buffered = st.buffered /\ n.store[s].requested = st.requested
  BY <1>1, <1>4, <1>5 DEF Streams
<1>7. StreamFine(n.store[s], Held(n, rest, s))
  BY <1>1, <1>2, <1>4, <1>6 DEF StreamFine, Held
<1>8. Queued(m.ids, s) \/ StreamClosed(n, s)
  BY <1>6 DEF Sound, Findable, StreamClosed
<1>9. Moves(m.flow, n.flow, st.flow, n.store[s].flow, d, d)
  <2>1. SUFFICES ASSUME Prudent PROVE n.flow.available >= 0
    BY <1>1, <1>5, <1>6 DEF Moves
  <2>2. m.flow.available >= 0 BY <2>1 DEF Sound, Balanced
  <2>3. QED BY <1>1, <1>4, <1>5, <2>2 DEF AsSize
<1>10. Queued(n.pendingSend, s) \/ Queued(m.pendingOpen, s) => Busy(n.store[s])
  BY <1>2, <1>6 DEF Sound, Working, Busy
<1>11. Sound(n, d, rest)
  BY <1>2, <1>7, <1>8, <1>9, <1>10, TouchSound
<1>12. Assigned(m, n)
  <2>1. ASSUME NEW t \in Slab(m)
        PROVE  /\ n.store[t] = [m.store[t] EXCEPT !.flow = n.store[t].flow]
               /\ n.store[t].flow.window = m.store[t].flow.window
    <3>1. CASE t = s BY <3>1, <1>1, <1>4, <1>6 DEF Streams
    <3>2. CASE t # s
      <4>1. n.store[t] = m.store[t] /\ m.store[t] \in Streams
        BY <3>2, <1>1, <1>2, StreamTyped DEF Touches
      <4>2. QED BY <4>1 DEF Streams
    <3>3. QED BY <3>1, <3>2
  <2>2. QED BY <1>2, <1>5, <2>1 DEF Assigned, Touches
<1>13. QED BY <1>2, <1>11, <1>12 DEF n

\* The states of a client's stream are states, a closed one is among them, and
\* in every other it can send or has ended what it sends.
LEMMA ClientTyped ==
  /\ ClientStates \subseteq States
  /\ \A x \in States : IsClosed(x) => x \in ClientStates
  /\ \A x \in ClientStates : IsSendClosed(x) \/ IsSendStreaming(x)
BY DEF ClientStates, States, Peers, Causes, IsClosed, IsSendClosed, IsSendStreaming, Open, HalfClosedLocal,
       HalfClosedRemote, Closed, Idle, ReservedLocal, ReservedRemote

\* A transition that does not close the stream tidies up nothing.
LEMMA TransitionIdle ==
  ASSUME NEW m, NEW s, NEW wasReset, ~StreamClosed(m, s)
  PROVE  TransitionAfter(m, s, wasReset) = m
BY DEF TransitionAfter, IsReleased

\* A stream that can send is not closed.
LEMMA StreamingIsOpen ==
  ASSUME NEW st, IsSendStreaming(st)
  PROVE  ~IsClosed(st) /\ ~IsSendClosed(st) /\ st.inner \in {"Open", "HalfClosedRemote"}
BY DEF IsSendStreaming, IsClosed, IsSendClosed, Open, HalfClosedRemote

\* One round of assign_connection_capacity keeps the invariant.
LEMMA ServeSound ==
  ASSUME NEW m, NEW rest \in Loose, Sound(m, 0, rest), NEW s \in Slab(m), m.pendingCapacity # <<>>
  PROVE  LET n == ServeWaiting(m, s)
         IN  /\ Sound(n, 0, rest) /\ Assigned(m, n)
             /\ Len(n.pendingCapacity) >= Len(m.pendingCapacity) - 1
<1> DEFINE popped == [m EXCEPT !.pendingCapacity = Tail(@)]
           st == m.store[s]
<1>1. /\ m \in Locked /\ Queues(m) /\ m.pendingCapacity \in Seq(Ids) BY DEF Sound, Locked
<1>2. Requeues(m, popped)
  <2>1. IsQueue(Tail(m.pendingCapacity), Slab(m)) BY <1>1, QueueTail DEF Queues
  <2>2. Tail(m.pendingCapacity) \in Seq(Ids) BY <1>1
  <2>3. popped \in Locked BY <1>1, <2>2 DEF Locked
  <2>4. QED BY <1>1, <2>1, <2>3 DEF Requeues, SameSlots, Queues, Locked, Harmless
<1>3. /\ Sound(popped, 0, rest) /\ Slab(popped) = Slab(m) /\ Assigned(m, popped)
      /\ popped.store = m.store
  BY <1>1, <1>2, RequeueSound, AssignedNothing DEF Requeues
<1>4. Len(popped.pendingCapacity) = Len(m.pendingCapacity) - 1 /\ Len(m.pendingCapacity) \in Nat
  BY <1>1 DEF Locked
<1> HIDE DEF popped
<1>5. CASE m.flow.available <= 0
  <2>1. Requeues(m, m) BY <1>1 DEF Requeues, SameSlots, Queues, Harmless
  <2>2. ServeWaiting(m, s) = m BY <1>5 DEF ServeWaiting
  <2>3. QED BY <1>1, <1>4, <2>1, <2>2, AssignedNothing
<1>6. CASE ~(m.flow.available <= 0) /\ ~(IsSendStreaming(st.state) \/ st.buffered > 0)
  <2>1. ServeWaiting(m, s) = popped BY <1>6 DEF ServeWaiting, popped
  <2>2. QED BY <1>3, <1>4, <2>1
<1>7. CASE ~(m.flow.available <= 0) /\ (IsSendStreaming(st.state) \/ st.buffered > 0)
  <2> DEFINE n == TryAssignCapacity(popped, s)
  <2>1. ServeWaiting(m, s) = TransitionAfter(n, s, Queued(popped.pendingReset, s))
    BY <1>7 DEF ServeWaiting, popped, Transition
  <2>2. /\ Sound(n, 0, rest) /\ Assigned(popped, n)
        /\ Len(n.pendingCapacity) >= Len(popped.pendingCapacity)
    BY <1>3, <1>7, TryAssignSound
  <2> HIDE DEF n
  <2>3. ~StreamClosed(n, s)
    <3>1. st.buffered \in Nat /\ st \in Streams BY StreamFacts
    <3>2. n.store[s] = [st EXCEPT !.flow = n.store[s].flow]
      BY <1>3, <2>2 DEF Assigned
    <3>3. n.store[s].state = st.state /\ n.store[s].buffered = st.buffered
      BY <3>1, <3>2 DEF Streams
    <3>4. QED BY <1>7, <3>1, <3>3, StreamingIsOpen DEF StreamClosed
  <2>4. ServeWaiting(m, s) = n BY <2>1, <2>3, TransitionIdle
  <2>5. n.pendingCapacity \in Seq(Ids) BY <2>2 DEF Sound, Locked
  <2>6. QED BY <1>1, <1>3, <1>4, <2>2, <2>4, <2>5, AssignedTwice
<1>8. QED BY <1>5, <1>6, <1>7

\* Moving bytes between the connection's free window and the operation that
\* runs keeps the invariant.
LEMMA FlowSound ==
  ASSUME NEW m, NEW d \in Int, NEW rest, Sound(m, d, rest), NEW F \in Flows, NEW e \in Int,
         Prudent => /\ F.available >= 0
                    /\ F.window - F.available - e = m.flow.window - m.flow.available - d,
         NEW n, n = [m EXCEPT !.flow = F]
  PROVE  /\ Sound(n, e, rest) /\ n.flow = F /\ n.store = m.store /\ SameSlots(m, n) /\ n.inFlight = m.inFlight
         /\ n.pendingSend = m.pendingSend /\ n.pendingCapacity = m.pendingCapacity
<1>1. m \in Locked BY DEF Sound
<1>2. /\ n \in Locked /\ n.flow = F /\ n.store = m.store /\ SameSlots(m, n) /\ n.inFlight = m.inFlight
      /\ n.pendingSend = m.pendingSend /\ n.pendingCapacity = m.pendingCapacity
  BY <1>1 DEF Locked, SameSlots
<1>3. Slab(n) = Slab(m) /\ HandedOut(n) = HandedOut(m) /\ HandedOut(m) \in Int
  BY <1>1, <1>2, AvailablesSummable DEF Slab, HandedOut
<1>4. Queues(n) /\ Findable(n) BY <1>2, <1>3 DEF Sound, Queues, Findable, SameSlots, StreamClosed
<1>5. Slots(n) BY <1>2, <1>3 DEF Sound, Slots, Counted, SameSlots
<1>6. Fine(n, rest) BY <1>2, <1>3 DEF Sound, Fine, Held
<1>7. Balanced(n, e)
  <2>1. SUFFICES ASSUME Prudent PROVE Balanced(n, e) BY DEF Balanced
  <2>2. /\ m.flow.available \in Int /\ m.flow.window \in Int
        /\ F.available \in Int /\ F.window \in Int
    BY <1>1 DEF Locked, Flows
  <2>3. m.flow.window = m.flow.available + HandedOut(m) + d BY <2>1 DEF Sound, Balanced
  <2>4. F.window = F.available + HandedOut(n) + e BY <1>3, <2>1, <2>2, <2>3
  <2>5. QED BY <1>2, <2>1, <2>4 DEF Balanced
<1>8. Working(n) BY <1>2, <1>3 DEF Sound, Working, SameSlots
<1>9. Returnable(n, rest) /\ Trusty(n)
  <2>1. n.failed = m.failed BY <1>1 DEF Locked
  <2>2. QED BY <1>2, <1>3, <2>1 DEF Sound, Returnable, Trusty
<1>10. QED BY <1>2, <1>4, <1>5, <1>6, <1>7, <1>8, <1>9 DEF Sound

\* assign_connection_capacity hands out what it is given and keeps the
\* invariant.
LEMMA AssignConnectionSound ==
  ASSUME NEW m, NEW inc \in Nat, NEW rest \in Loose, Sound(m, inc, rest)
  PROVE  LET n == AssignConnectionCapacity(m, inc)
         IN  Sound(n, 0, rest) /\ Assigned(m, n)
<1> DEFINE F == AssignCapacity(m.flow, inc)
           funded == [m EXCEPT !.flow = AssignCapacity(@, inc)]
           q == m.pendingCapacity
           n == Len(q)
           Body(h) == [i \in 0 .. n |-> IF i = 0 THEN funded ELSE ServeWaiting(h[i - 1], q[i])]
           W == {p \in (0 .. n) \X Locked :
                   /\ Sound(p[2], 0, rest) /\ Assigned(m, p[2])
                   /\ Len(p[2].pendingCapacity) >= n - p[1]}
           g == [p \in (1 .. n) \X Locked |-> ServeWaiting(p[2], q[p[1]])]
<1>1. /\ m \in Locked /\ Queues(m) /\ q \in Seq(Ids) /\ n \in Nat
      /\ m.flow \in Flows /\ m.flow.available \in Int /\ m.flow.window \in Int
  BY DEF Sound, Locked, Flows
<1>2. F \in Flows /\ F.window = m.flow.window /\ F.available = m.flow.available + inc
  BY <1>1 DEF Flows, AssignCapacity
<1>3. /\ Sound(funded, 0, rest) /\ funded.flow = F /\ funded.store = m.store
      /\ SameSlots(m, funded) /\ funded.inFlight = m.inFlight /\ funded.pendingCapacity = q
  <2>1. Prudent => m.flow.available >= 0 BY DEF Sound, Balanced
  <2> DEFINE e == 0
  <2> HIDE DEF F
  <2>2. Prudent => /\ F.available >= 0
                   /\ F.window - F.available - e = m.flow.window - m.flow.available - inc
    BY <1>1, <1>2, <2>1
  <2>3. funded = [m EXCEPT !.flow = F] BY DEF F
  <2>4. inc \in Int /\ e \in Int OBVIOUS
  <2> HIDE DEF funded, e
  <2>5. /\ Sound(funded, e, rest) /\ funded.flow = F /\ funded.store = m.store
        /\ SameSlots(m, funded) /\ funded.inFlight = m.inFlight
        /\ funded.pendingCapacity = m.pendingCapacity
    BY <1>2, <2>2, <2>3, <2>4, FlowSound
  <2>6. QED BY <2>5 DEF e
<1>4. Assigned(m, funded)
  <2>1. ASSUME NEW t \in Slab(m) PROVE m.store[t] = [m.store[t] EXCEPT !.flow = m.store[t].flow]
    BY <1>1, StreamTyped DEF Streams
  <2> HIDE DEF funded, F
  <2>2. QED BY <1>2, <1>3, <2>1 DEF Assigned, Sound, Slab
<1> HIDE DEF funded, F
<1>5. <<0, funded>> \in W
  BY <1>1, <1>3, <1>4 DEF Sound
<1>6. ASSUME NEW k \in 1 .. n, NEW v, <<k - 1, v>> \in W
      PROVE  v \in Locked /\ <<k, ServeWaiting(v, q[k])>> \in W
  <2>1. /\ v \in Locked /\ Sound(v, 0, rest) /\ Assigned(m, v) /\ v.pendingCapacity \in Seq(Ids)
        /\ Len(v.pendingCapacity) >= n - (k - 1)
    BY <1>6 DEF Locked
  <2>2. q[k] \in Slab(v) BY <1>1, <2>1 DEF Queues, IsQueue, Assigned
  <2>3. v.pendingCapacity # <<>> BY <1>1, <2>1
  <2> DEFINE o == ServeWaiting(v, q[k])
  <2>4. Sound(o, 0, rest) /\ Assigned(v, o) /\ Len(o.pendingCapacity) >= Len(v.pendingCapacity) - 1
    BY <2>1, <2>2, <2>3, ServeSound
  <2> HIDE DEF o
  <2>5. Assigned(m, o) /\ o \in Locked /\ o.pendingCapacity \in Seq(Ids)
    <3>1. Assigned(m, o) BY <1>1, <2>1, <2>4, AssignedTwice
    <3>2. o \in Locked BY <2>4 DEF Assigned
    <3>3. QED BY <3>1, <3>2 DEF Locked
  <2>6. Len(o.pendingCapacity) >= n - k BY <1>1, <2>1, <2>4, <2>5
  <2>7. QED BY <2>1, <2>4, <2>5, <2>6 DEF o
<1>7. \A k \in 1 .. n : \A v : <<k - 1, v>> \in W => <<k, g[<<k, v>>]>> \in W
  <2> HIDE DEF W
  <2>1. QED BY <1>6
<1> HIDE DEF W, g
<1>8. PICK f : Loops(n, funded, g, f) /\ \A k \in 0 .. n : <<k, f[k]>> \in W
  <2>1. CanLoop(n, W, funded, g) BY <1>1, <1>5, <1>7 DEF CanLoop
  <2>2. QED BY <2>1, LoopRecursion
<1>9. f = Body(f)
  <2>1. \A k \in 1 .. n : k - 1 \in 0 .. n /\ <<k - 1, f[k - 1]>> \in W BY <1>1, <1>8
  <2>2. \A k \in 1 .. n : f[k - 1] \in Locked BY <1>6, <2>1
  <2>3. \A k \in 1 .. n : g[<<k, f[k - 1]>>] = ServeWaiting(f[k - 1], q[k]) BY <2>2 DEF g
  <2>4. f = [k \in 0 .. n |-> IF k = 0 THEN funded ELSE g[<<k, f[k - 1]>>]] BY <1>8 DEF Loops
  <2>5. \A k \in 0 .. n : k # 0 => k \in 1 .. n BY <1>1
  <2>6. QED BY <2>3, <2>4, <2>5
<1> DEFINE after == CHOOSE h : h = Body(h)
<1>10. after = Body(after)
  <2> HIDE DEF Body
  <2> QED BY <1>9
<1>11. AssignConnectionCapacity(m, inc) = after[n]
  BY DEF AssignConnectionCapacity, Each, funded
<1>12. /\ after[0] = funded
       /\ \A k \in 1 .. n : after[k] = ServeWaiting(after[k - 1], q[k])
  <2> HIDE DEF after
  <2>1. \A k \in 0 .. n : after[k] = IF k = 0 THEN funded ELSE ServeWaiting(after[k - 1], q[k])
    BY <1>10
  <2>2. QED BY <1>1, <2>1
<1> HIDE DEF after
<1>13. <<n, after[n]>> \in W
  <2>1. \A k \in 1 .. n : <<k - 1, after[k - 1]>> \in W => <<k, after[k]>> \in W
    BY <1>6, <1>12
  <2>2. <<0, after[0]>> \in W BY <1>5, <1>12
  <2> HIDE DEF n
  <2>3. QED BY <1>1, <2>1, <2>2, LoopHolds
<1>14. QED BY <1>11, <1>13 DEF W

-----------------------------------------------------------------------------
(* What every operation leaves alone.                                        *)

\* No stream comes or changes its references, one goes only when nothing
\* refers to it, and what an id finds was found before.
Keeps(m, n) ==
  /\ n \in Locked /\ Slab(n) \subseteq Slab(m) /\ n.nextId = m.nextId
  /\ \A t \in Slab(m) : t \in Slab(n) \/ m.store[t].refs = 0
  /\ \A t \in Slab(n) :
       /\ n.store[t].refs = m.store[t].refs
       /\ Queued(n.ids, t) => Queued(m.ids, t)
  /\ n.inFlight = m.inFlight \/ (m.inFlight \in Ids /\ n.inFlight = Dropped)

\* No window has changed, and outside of E nothing the peer may still say has.
Calm(m, n, E) ==
  /\ n.flow.window = m.flow.window
  /\ \A t \in Slab(n) : /\ n.store[t].flow.window = m.store[t].flow.window
                        /\ PeerEnded(n.store[t].state) => t \in E \/ PeerEnded(m.store[t].state)

\* An operation that is not the end of any stream.
Steady(m, n) == Keeps(m, n) /\ Slab(n) = Slab(m) /\ SameSlots(m, n)

\* Doing nothing leaves everything alone.
LEMMA KeepsNothing ==
  ASSUME NEW m \in Locked
  PROVE  Steady(m, m) /\ Calm(m, m, {})
BY DEF Keeps, Calm, Steady, SameSlots

\* Two operations leave alone what each of them does.
LEMMA KeepsTwice ==
  ASSUME NEW m, NEW n, NEW o, Keeps(m, n), Keeps(n, o)
  PROVE  Keeps(m, o) /\ (\A E : Calm(m, n, E) /\ Calm(n, o, E) => Calm(m, o, E))
<1>1. \A t \in Slab(m) : t \in Slab(o) \/ m.store[t].refs = 0
  BY DEF Keeps
<1>2. \A t \in Slab(o) :
         /\ o.store[t].refs = m.store[t].refs
         /\ Queued(o.ids, t) => Queued(m.ids, t)
  BY DEF Keeps
<1>3. o.inFlight = m.inFlight \/ (m.inFlight \in Ids /\ o.inFlight = Dropped)
  BY IdsNat DEF Keeps
<1>4. ASSUME NEW E, Calm(m, n, E), Calm(n, o, E) PROVE Calm(m, o, E)
  <2>1. Slab(o) \subseteq Slab(n) BY DEF Keeps
  <2>2. ASSUME NEW t \in Slab(o)
        PROVE  /\ o.store[t].flow.window = m.store[t].flow.window
               /\ PeerEnded(o.store[t].state) => t \in E \/ PeerEnded(m.store[t].state)
    <3>1. t \in Slab(n) BY <2>1
    <3>2. /\ n.store[t].flow.window = m.store[t].flow.window
          /\ PeerEnded(n.store[t].state) => t \in E \/ PeerEnded(m.store[t].state)
      BY <1>4, <3>1 DEF Calm
    <3>3. /\ o.store[t].flow.window = n.store[t].flow.window
          /\ PeerEnded(o.store[t].state) => t \in E \/ PeerEnded(n.store[t].state)
      BY <1>4 DEF Calm
    <3>4. QED BY <3>2, <3>3
  <2>3. o.flow.window = m.flow.window BY <1>4 DEF Calm
  <2>4. QED BY <2>2, <2>3 DEF Calm
<1>5. QED BY <1>1, <1>2, <1>3, <1>4 DEF Keeps

\* Two operations that end no stream end none.
LEMMA SteadyTwice ==
  ASSUME NEW m, NEW n, NEW o, Steady(m, n), Steady(n, o)
  PROVE  Steady(m, o) /\ (\A E : Calm(m, n, E) /\ Calm(n, o, E) => Calm(m, o, E))
BY KeepsTwice DEF Steady, SameSlots

\* What is calm without exceptions is calm with them.
LEMMA CalmMore ==
  ASSUME NEW m, NEW n, Calm(m, n, {}), NEW E
  PROVE  Calm(m, n, E)
BY DEF Calm

\* Handing out capacity ends no stream.
LEMMA AssignedSteady ==
  ASSUME NEW m \in Locked, NEW n, Assigned(m, n)
  PROVE  Steady(m, n) /\ Calm(m, n, {})
<1>1. \A t \in Slab(m) : n.store[t].refs = m.store[t].refs /\ n.store[t].state = m.store[t].state
  BY StreamTyped DEF Assigned, Streams
<1>2. Calm(m, n, {}) BY <1>1 DEF Assigned, Calm
<1>3. QED BY <1>1, <1>2 DEF Assigned, Steady, Keeps, SameSlots

\* Neither does a change of one stream that keeps its slots.
LEMMA TouchesSteady ==
  ASSUME NEW m \in Locked, NEW n, NEW s \in Slab(m), Touches(m, n, s)
  PROVE  /\ Steady(m, n)
         /\ \A E : /\ n.flow.window = m.flow.window /\ n.store[s].flow.window = m.store[s].flow.window
                   /\ PeerEnded(n.store[s].state) => s \in E \/ PeerEnded(m.store[s].state)
                   => Calm(m, n, E)
<1>1. s \in Ids BY StreamTyped
<1>2. \A t \in Slab(m) : t # s => n.store[t] = m.store[t] BY DEF Touches
<1>3. \A E : /\ n.flow.window = m.flow.window /\ n.store[s].flow.window = m.store[s].flow.window
             /\ PeerEnded(n.store[s].state) => s \in E \/ PeerEnded(m.store[s].state)
             => Calm(m, n, E)
  BY <1>2 DEF Calm, Touches
<1>4. Keeps(m, n) BY <1>1, <1>2 DEF Touches, Keeps, SameSlots
<1>5. QED BY <1>2, <1>3, <1>4 DEF Touches, Steady

\* Neither does queueing.
LEMMA RequeuesSteady ==
  ASSUME NEW m \in Locked, NEW n, Requeues(m, n)
  PROVE  Steady(m, n) /\ Calm(m, n, {})
BY AssignedNothing, AssignedSteady

\* Neither do assertions and wakers.
LEMMA AgreeSteady ==
  ASSUME NEW m \in Locked, NEW n, Agree(m, n)
  PROVE  Steady(m, n) /\ Calm(m, n, {})
BY DEF Agree, Steady, Keeps, Calm, SameSlots, Slab

\* Taking capacity from a stream puts it on its way.
LEMMA MovesBack ==
  ASSUME NEW F, NEW f, NEW g, NEW x \in Int, F.window \in Int, F.available \in Int, f.available \in Int,
         g.available = f.available - x, Prudent => F.available >= 0
  PROVE  Moves(F, F, f, g, 0, x)
<1> DEFINE a == F.window
           b == F.available
           c == f.available
           d == g.available
<1>1. a \in Int /\ b \in Int /\ c \in Int /\ d = c - x OBVIOUS
<1>2. a - b - d - x = a - b - c - 0
  <2> HIDE DEF a, b, c, d
  <2>1. QED BY <1>1
<1>3. QED BY <1>2 DEF Moves

\* One record of the store is replaced.
LEMMA PutSound ==
  ASSUME NEW m, NEW d \in Int, NEW rest \in Loose, Sound(m, d, rest), NEW s \in Slab(m),
         NEW r \in Streams, r.counted = m.store[s].counted, r.refs = m.store[s].refs,
         NEW F \in Flows, NEW e \in Int,
         StreamFine(r, Held(m, rest, s)),
         Queued(m.ids, s) \/ (IsClosed(r.state) /\ r.pending = <<>> /\ r.buffered = 0),
         Busy(m.store[s]) => Busy(r),
         Moves(m.flow, F, m.store[s].flow, r.flow, d, e),
         NEW n, n = Put(m, s, r, F, m.inFlight)
  PROVE  /\ Sound(n, e, rest) /\ Touches(m, n, s)
         /\ n.store[s] = r /\ n.flow = F /\ n.inFlight = m.inFlight
<1>1. m \in Locked /\ Queues(m) BY DEF Sound
<1>2. /\ n \in Locked /\ Touches(m, n, s) /\ Slab(n) = Slab(m)
      /\ n.store[s] = r /\ n.flow = F /\ n.inFlight = m.inFlight /\ n.pendingSend = m.pendingSend
  BY <1>1, PutTouches
<1>3. Held(n, rest, s) = Held(m, rest, s) BY <1>2 DEF Held
<1>4. Queued(m.ids, s) \/ StreamClosed(n, s) BY <1>2 DEF StreamClosed
<1>5. Queued(n.pendingSend, s) \/ Queued(m.pendingOpen, s) => Busy(n.store[s])
  BY <1>2 DEF Sound, Working
<1>6. Sound(n, e, rest) BY <1>2, <1>3, <1>4, <1>5, TouchSound
<1>7. QED BY <1>2, <1>6

-----------------------------------------------------------------------------
(* Emptying a stream's queue.                                                *)

\* What the stream held goes to the others once nothing of it is queued.
LEMMA EmptiedSound ==
  ASSUME NEW m, NEW rest \in Loose, Sound(m, 0, rest), NEW s \in Slab(m), rest.new[s] = 0,
         NEW k, Touches(m, k, s), Queues(k), k.flow = m.flow, k.inFlight # s,
         NEW r \in Streams, k.store[s] = r, r.counted = m.store[s].counted, r.refs = m.store[s].refs,
         r.flow = m.store[s].flow, r.buffered = 0, r.requested = 0,
         r.state \in ClientStates, IsClosed(r.state), Bytes(r.pending) = 0,
         Queued(m.ids, s) \/ r.pending = <<>>,
         NEW E, PeerEnded(r.state) => s \in E \/ PeerEnded(m.store[s].state)
  PROVE  LET n == ReclaimAllCapacity(k, s)
         IN  /\ Sound(n, 0, rest) /\ Steady(m, n) /\ Calm(m, n, E)
             /\ n.store[s].state = r.state /\ n.store[s].pending = r.pending
<1> DEFINE available == AsSize(r.flow.available)
           F == ClaimCapacity(r.flow, available)
           q == [r EXCEPT !.flow = F]
           o == [k EXCEPT !.store[s].flow = ClaimCapacity(@, available)]
           n == AssignConnectionCapacity(o, available)
<1>1. /\ m \in Locked /\ k \in Locked /\ Slab(k) = Slab(m) /\ s \in Ids
      /\ r.flow \in Flows /\ r.flow.available \in Int /\ r.flow.window \in Int
      /\ m.flow \in Flows /\ m.flow.available \in Int /\ m.flow.window \in Int
  BY StreamFacts DEF Touches
<1>2. available \in Nat /\ r.flow.available <= available
  BY <1>1, AsSizeNat
<1>3. F \in Flows /\ F.window = r.flow.window /\ F.available = r.flow.available - available
  BY <1>1, <1>2 DEF Flows, ClaimCapacity
<1> HIDE DEF F
<1>4. /\ q \in Streams /\ q.counted = r.counted /\ q.refs = r.refs /\ q.flow = F /\ q.state = r.state
      /\ q.pending = r.pending /\ q.buffered = 0 /\ q.requested = 0
  BY <1>3 DEF Streams
<1>5. o = Put(k, s, q, k.flow, k.inFlight)
  BY <1>1 DEF Put, Locked, F
<1> HIDE DEF available, q, o
<1>6. /\ o \in Locked /\ Touches(k, o, s) /\ Slab(o) = Slab(k)
      /\ o.store[s] = q /\ o.flow = k.flow /\ o.inFlight = k.inFlight
  BY <1>1, <1>4, <1>5, PutTouches
<1>7. Touches(m, o, s) BY <1>6, TouchesTwice
<1>8. StreamFine(q, Held(o, rest, s))
  <2>1. Held(o, rest, s) = 0 BY <1>6 DEF Held
  <2>2. F.available <= 0 BY <1>1, <1>2, <1>3
  <2>3. Prudent => F.available = 0
    <3>1. Prudent => r.flow.available >= 0 BY StreamFacts DEF StreamFine
    <3>2. QED BY <1>1, <1>2, <1>3, <3>1, AsSizeNat DEF available
  <2>4. AsSize(q.flow.window) >= 0 BY <1>1, <1>3, <1>4, AsSizeNat
  <2>5. F.available \in Int /\ AsSize(q.flow.window) \in Int
    BY <1>1, <1>3, <1>4, AsSizeNat DEF Flows
  <2>6. QED BY <1>4, <2>1, <2>2, <2>3, <2>4, <2>5 DEF StreamFine, IsClosed
<1>9. Queued(m.ids, s) \/ StreamClosed(o, s)
  BY <1>4, <1>6 DEF StreamClosed
<1>10. Moves(m.flow, o.flow, m.store[s].flow, o.store[s].flow, 0, available)
  <2>1. Prudent => m.flow.available >= 0 BY DEF Sound, Balanced
  <2>2. /\ o.flow = m.flow /\ o.store[s].flow.available = r.flow.available - available
        /\ m.store[s].flow.available = r.flow.available
    BY <1>3, <1>4, <1>6
  <2> HIDE DEF available
  <2>3. available \in Int /\ m.store[s].flow.available \in Int BY <1>1, <1>2
  <2>4. QED BY <1>1, <2>1, <2>2, <2>3, MovesBack
<1>11. available \in Int /\ 0 \in Int BY <1>2
<1>12. Sound(o, available, rest)
  BY <1>4, <1>6, <1>7, <1>8, <1>9, <1>10, <1>11, TouchSound DEF Busy
<1>13. Sound(n, 0, rest) /\ Assigned(o, n)
  BY <1>2, <1>12, AssignConnectionSound
<1> HIDE DEF n
<1>14. Steady(o, n) /\ Calm(o, n, E) BY <1>6, <1>13, AssignedSteady, CalmMore
<1>15. Steady(m, o) /\ Calm(m, o, E)
  <2>1. o.store[s].state = r.state BY <1>4, <1>6
  <2>2. o.flow.window = m.flow.window /\ o.store[s].flow.window = m.store[s].flow.window
    BY <1>3, <1>4, <1>6
  <2>3. QED BY <1>1, <1>7, <2>1, <2>2, TouchesSteady
<1>16. n.store[s].state = r.state /\ n.store[s].pending = r.pending
  <2>1. n.store[s] = [q EXCEPT !.flow = n.store[s].flow]
    BY <1>1, <1>6, <1>13 DEF Assigned
  <2>2. QED BY <1>4, <2>1 DEF Streams
<1>17. ReclaimAllCapacity(k, s) = n
  BY DEF ReclaimAllCapacity, n, o, available
<1>18. Steady(m, n) /\ Calm(m, n, E) BY <1>14, <1>15, SteadyTwice
<1>19. QED BY <1>13, <1>16, <1>17, <1>18

\* The empty queue is one, without bytes.
LEMMA NoFrames == <<>> \in Seq(SendFrames) /\ Bytes(<<>>) = 0
BY BytesNone

\* A stream with new state, frames and counters is a stream.
LEMMA StreamPut ==
  ASSUME NEW w \in Streams, NEW x \in States, NEW p \in Seq(SendFrames), NEW b \in Int,
         NEW q \in Int, NEW f \in Flows,
         NEW r, r = [w EXCEPT !.state = x, !.pending = p, !.buffered = b, !.requested = q, !.flow = f]
  PROVE  /\ r \in Streams /\ r.counted = w.counted /\ r.refs = w.refs /\ r.state = x /\ r.pending = p
         /\ r.buffered = b /\ r.requested = q /\ r.flow = f
BY DEF Streams

\* The stream w in state x with nothing but the frames p.
Emptied(w, x, p) == [w EXCEPT !.state = x, !.pending = p, !.buffered = 0, !.requested = 0]

IsEmptied(r, w, x, p) ==
  /\ r \in Streams /\ r.counted = w.counted /\ r.refs = w.refs /\ r.state = x /\ r.pending = p
  /\ r.buffered = 0 /\ r.requested = 0 /\ r.flow = w.flow

\* An emptied stream is one.
LEMMA StreamEmptied ==
  ASSUME NEW w \in Streams, NEW x \in States, NEW p \in Seq(SendFrames)
  PROVE  IsEmptied(Emptied(w, x, p), w, x, p)
<1> DEFINE z == 0
           r == [w EXCEPT !.state = x, !.pending = p, !.buffered = z, !.requested = z]
<1>1. z \in Int OBVIOUS
<1>2. Emptied(w, x, p) = r BY DEF z, Emptied
<1> HIDE DEF z
<1>3. /\ r \in Streams /\ r.counted = w.counted /\ r.refs = w.refs /\ r.state = x /\ r.pending = p
      /\ r.buffered = z /\ r.requested = z /\ r.flow = w.flow
  BY <1>1, <1>2 DEF Streams
<1> HIDE DEF r
<1>4. QED BY <1>2, <1>3 DEF z, IsEmptied

\* RST_STREAM is a frame without bytes.
LEMMA RstFrame ==
  /\ Frame("RST_STREAM", 0, FALSE) \in SendFrames
  /\ Bytes(Append(<<>>, Frame("RST_STREAM", 0, FALSE))) = 0
<1> DEFINE f == Frame("RST_STREAM", 0, FALSE)
<1>1. f \in SendFrames /\ f.len = 0 BY SendAssumption DEF Frame, SendFrames, FrameTypes
<1> HIDE DEF f
<1>2. Bytes(Append(<<>>, f)) = Bytes(<<>>) + f.len BY <1>1, NoFrames, BytesAppend
<1>3. Bytes(Append(<<>>, f)) = 0
  <2>1. Bytes(Append(<<>>, f)) = 0 + 0 BY <1>1, <1>2, NoFrames
  <2>2. QED BY <2>1
<1>4. QED BY <1>1, <1>3 DEF f

\* clear_queue empties one stream's queue and disowns what the codec holds of
\* it.
LEMMA ClearTouches ==
  ASSUME NEW m, m \in Locked, Queues(m), NEW s \in Slab(m), NEW x \in States
  PROVE  LET n == ClearQueue([m EXCEPT !.store[s].state = x], s)
         IN  /\ Touches(m, n, s) /\ Queues(n) /\ n.flow = m.flow /\ n.inFlight # s
             /\ n.store[s] = Emptied(m.store[s], x, <<>>)
<1> DEFINE a == [m.store[s] EXCEPT !.state = x]
           r == [a EXCEPT !.pending = <<>>, !.buffered = 0, !.requested = 0]
           i == IF m.inFlight = s THEN Dropped ELSE m.inFlight
           k == [m EXCEPT !.store[s].state = x]
           n == ClearQueue(k, s)
<1>1. m.store[s] \in Streams /\ s \in Ids BY StreamTyped
<1>2. r = Emptied(m.store[s], x, <<>>) BY <1>1 DEF Streams, Emptied
<1>3. k.store = [m.store EXCEPT ![s] = a] /\ k.inFlight = m.inFlight /\ k.flow = m.flow
  BY DEF Locked
<1>4. k.store[s] = a BY <1>1, <1>3 DEF Locked, Slab
<1>5. n = [k EXCEPT !.store = [m.store EXCEPT ![s] = r], !.inFlight = i]
  <2> HIDE DEF a, k
  <2>1. [k.store EXCEPT ![s] = r] = [m.store EXCEPT ![s] = r] BY <1>3
  <2> HIDE DEF r
  <2>2. QED BY <1>3, <1>4, <2>1 DEF ClearQueue, r
<1> HIDE DEF a, r, n
<1>6. n = Put(m, s, Emptied(m.store[s], x, <<>>), m.flow, i)
  BY <1>2, <1>5 DEF Put, Locked
<1> DEFINE e == Emptied(m.store[s], x, <<>>)
<1>7. e \in Streams /\ e.counted = m.store[s].counted /\ e.refs = m.store[s].refs
  BY <1>1, NoFrames, StreamEmptied DEF IsEmptied
<1>8. (i = m.inFlight \/ (m.inFlight = s /\ i = Dropped)) /\ i # s
  BY <1>1, IdsNat
<1>9. m.flow \in Flows BY DEF Locked
<1> HIDE DEF e, i
<1>10. /\ n \in Locked /\ Touches(m, n, s) /\ Queues(n) /\ n.store[s] = e /\ n.flow = m.flow /\ n.inFlight = i
  BY <1>6, <1>7, <1>8, <1>9, PutTouches DEF e
<1>11. QED BY <1>8, <1>10 DEF e, n

\* A stream that ends with an error, whatever it was in the middle of.
LEMMA FailSound ==
  ASSUME NEW m, NEW rest \in Loose, Sound(m, 0, rest), NEW s \in Slab(m), rest.new[s] = 0,
         NEW x \in States, IsClosed(x),
         NEW E, PeerEnded(x) => s \in E \/ PeerEnded(m.store[s].state)
  PROVE  LET n == SendRecvErr([m EXCEPT !.store[s].state = x], s)
         IN  Sound(n, 0, rest) /\ Steady(m, n) /\ Calm(m, n, E)
<1> DEFINE k == ClearQueue([m EXCEPT !.store[s].state = x], s)
           r == Emptied(m.store[s], x, <<>>)
<1>1. m \in Locked /\ Queues(m) /\ m.store[s] \in Streams BY StreamFacts
<1>2. /\ Touches(m, k, s) /\ Queues(k) /\ k.flow = m.flow /\ k.inFlight # s /\ k.store[s] = r
  BY <1>1, ClearTouches
<1>3. /\ r \in Streams /\ r.counted = m.store[s].counted /\ r.refs = m.store[s].refs
      /\ r.flow = m.store[s].flow /\ r.buffered = 0 /\ r.requested = 0 /\ r.state = x /\ r.pending = <<>>
  <2>1. IsEmptied(r, m.store[s], x, <<>>) BY <1>1, NoFrames, StreamEmptied
  <2> HIDE DEF r
  <2>2. QED BY <2>1 DEF IsEmptied
<1>4. SendRecvErr([m EXCEPT !.store[s].state = x], s) = ReclaimAllCapacity(k, s)
  BY DEF SendRecvErr
<1> HIDE DEF k, r
<1>5. x \in ClientStates BY ClientTyped
<1>6. QED BY <1>2, <1>3, <1>4, <1>5, BytesNone, EmptiedSound

\* Every way to end a stream ends in a closed state.
LEMMA StatesTyped ==
  ASSUME NEW x \in States
  PROVE  /\ SetReset(x) \in States /\ IsClosed(SetReset(x))
         /\ SetScheduledReset(x) \in States /\ IsClosed(SetScheduledReset(x))
         /\ \A c \in Causes : RecvErr(x, c) \in States /\ IsClosed(RecvErr(x, c))
         /\ \A queued \in BOOLEAN : RecvReset(x, queued) \in States /\ IsClosed(RecvReset(x, queued))
BY DEF States, Causes, SetReset, SetScheduledReset, RecvErr, RecvReset, IsClosed, Closed

\* Send::send_reset keeps the invariant, in each of its three cases.
LEMMA SendResetSound ==
  ASSUME NEW m, NEW rest \in Loose, Sound(m, 0, rest), NEW s \in Slab(m), rest.new[s] = 0
  PROVE  LET n == SendReset(m, s)
         IN  /\ Sound(n, 0, rest) /\ Steady(m, n) /\ Calm(m, n, {})
<1> DEFINE st == m.store[s]
           x == SetReset(st.state)
           reset == [m EXCEPT !.store[s].state = SetReset(@)]
           k == ClearQueue(reset, s)
           f == Frame("RST_STREAM", 0, FALSE)
           queued == QueueFrame(k, s, f)
           n == SendReset(m, s)
<1>1. /\ m \in Locked /\ Queues(m) /\ st \in Streams /\ st.state \in States
      /\ StreamFine(st, Held(m, rest, s))
  BY StreamFacts DEF Streams
<1>2. x \in States /\ IsClosed(x) /\ x \in ClientStates /\ ~PeerEnded(x)
  BY <1>1, StatesTyped, ClientTyped DEF PeerEnded, SetReset, IsLocalReset, Closed
<1>3. reset = [m EXCEPT !.store[s].state = x] BY DEF Locked
<1> HIDE DEF x
<1>4. CASE IsReset(st.state)
  <2>1. n = m BY <1>4 DEF SendReset
  <2>2. QED BY <1>1, <2>1, KeepsNothing
<1>5. CASE ~IsReset(st.state) /\ IsClosed(st.state) /\ st.pending = <<>>
  <2> DEFINE r == [st EXCEPT !.state = x]
  <2>1. n = reset BY <1>5 DEF SendReset
  <2>2. /\ r \in Streams /\ r.counted = st.counted /\ r.refs = st.refs /\ r.flow = st.flow
        /\ r.buffered = st.buffered /\ r.requested = st.requested /\ r.pending = st.pending /\ r.state = x
    BY <1>1, <1>2 DEF Streams
  <2>3. reset = Put(m, s, r, m.flow, m.inFlight) BY <1>3 DEF Put, Locked
  <2> HIDE DEF r, reset
  <2>4. StreamFine(r, Held(m, rest, s))
    BY <1>1, <1>2, <1>5, <2>2 DEF StreamFine, IsClosed, IsSendClosed
  <2>5. Queued(m.ids, s) \/ (IsClosed(r.state) /\ r.pending = <<>> /\ r.buffered = 0)
    BY <1>2, <2>2 DEF Sound, Findable, StreamClosed
  <2>6. Moves(m.flow, m.flow, st.flow, r.flow, 0, 0)
    BY <2>2 DEF Moves, Sound, Balanced
  <2>7. m.flow \in Flows /\ 0 \in Int /\ (Busy(m.store[s]) => Busy(r))
    BY <1>1, <1>2, <2>2 DEF Locked, Busy
  <2>8. Sound(reset, 0, rest) /\ Touches(m, reset, s) /\ reset.store[s] = r /\ reset.flow = m.flow
    BY <1>2, <2>2, <2>3, <2>4, <2>5, <2>6, <2>7, PutSound
  <2>9. Steady(m, reset) /\ Calm(m, reset, {})
    <3>1. ~PeerEnded(reset.store[s].state) BY <1>2, <2>2, <2>8
    <3>2. reset.store[s].flow.window = m.store[s].flow.window BY <2>2, <2>8
    <3>3. QED BY <1>1, <2>8, <3>1, <3>2, TouchesSteady
  <2>10. QED BY <2>1, <2>8, <2>9 DEF n
<1>6. CASE ~IsReset(st.state) /\ ~(IsClosed(st.state) /\ st.pending = <<>>)
  <2> DEFINE r == Emptied(st, x, Append(<<>>, f))
  <2>1. n = ReclaimAllCapacity(queued, s) BY <1>6 DEF SendReset
  <2>2. /\ Touches(m, k, s) /\ Queues(k) /\ k.flow = m.flow /\ k.inFlight # s
        /\ k.store[s] = Emptied(st, x, <<>>)
    BY <1>1, <1>2, <1>3, ClearTouches
  <2> HIDE DEF k, f
  <2>3. f \in SendFrames /\ Bytes(Append(<<>>, f)) = 0 BY RstFrame DEF f
  <2>4. k \in Locked /\ s \in Slab(k) BY <2>2 DEF Touches
  <2>5. /\ Touches(k, queued, s) /\ Queues(queued) /\ queued.flow = k.flow /\ queued.inFlight = k.inFlight
        /\ queued.store[s] = [k.store[s] EXCEPT !.pending = Append(@, f)]
    BY <2>2, <2>3, <2>4, QueueFrameTouches
  <2> HIDE DEF queued
  <2>6. Touches(m, queued, s) BY <2>2, <2>5, TouchesTwice
  <2>7. queued.store[s] = r
    <3>1. [Emptied(st, x, <<>>) EXCEPT !.pending = Append(@, f)] = Emptied(st, x, Append(<<>>, f))
      BY <1>1 DEF Streams, Emptied
    <3>2. QED BY <2>2, <2>5, <3>1
  <2>8. Append(<<>>, f) \in Seq(SendFrames) BY <2>3
  <2>9. /\ r \in Streams /\ r.counted = st.counted /\ r.refs = st.refs /\ r.flow = st.flow
        /\ r.buffered = 0 /\ r.requested = 0 /\ r.state = x /\ r.pending = Append(<<>>, f)
    <3>1. IsEmptied(r, st, x, Append(<<>>, f)) BY <1>1, <1>2, <2>8, StreamEmptied
    <3> HIDE DEF r
    <3>2. QED BY <3>1 DEF IsEmptied
  <2>10. Queued(m.ids, s) BY <1>6 DEF Sound, Findable, StreamClosed
  <2> HIDE DEF r
  <2>11. QED BY <1>2, <2>1, <2>2, <2>3, <2>5, <2>6, <2>7, <2>9, <2>10, EmptiedSound
<1>7. QED BY <1>4, <1>5, <1>6

-----------------------------------------------------------------------------
(* Reserving and releasing capacity.                                         *)

\* A stream in state x that asks for `cap`.
Asking(w, x, cap) == [w EXCEPT !.state = x, !.requested = cap]

\* A stream that asks for something else is a stream.
LEMMA StreamAsking ==
  ASSUME NEW w \in Streams, NEW x \in States, NEW cap \in Int
  PROVE  /\ Asking(w, x, cap) \in Streams
         /\ Asking(w, x, cap).counted = w.counted /\ Asking(w, x, cap).refs = w.refs
         /\ Asking(w, x, cap).state = x /\ Asking(w, x, cap).requested = cap
         /\ Asking(w, x, cap).pending = w.pending /\ Asking(w, x, cap).buffered = w.buffered
         /\ Asking(w, x, cap).flow = w.flow
BY DEF Streams, Asking

\* States a stream of the slab may go to.
Follows(x, y) ==
  /\ x \in ClientStates /\ x \in States
  /\ PeerEnded(x) => PeerEnded(y)
  /\ IsClosed(y) => IsClosed(x)

\* What a stream has to spare goes to the others.
Release(k, s, surplus) ==
  IF surplus > 0
  THEN AssignConnectionCapacity([k EXCEPT !.store[s].flow = ClaimCapacity(@, surplus)], surplus)
  ELSE k

\* What a stream may do with less: end, or go on.
CanLower(m, s, x, cap) ==
  /\ Follows(x, m.store[s].state)
  /\ Queued(m.ids, s) \/ (IsClosed(x) /\ m.store[s].pending = <<>> /\ m.store[s].buffered = 0)
  /\ cap \in Nat /\ m.store[s].buffered <= cap /\ cap <= m.store[s].requested
  /\ Prudent /\ (IsSendClosed(x) \/ ReserveSizes = {}) => cap = m.store[s].buffered

\* The stream s in state x, asking for `cap`, without what it held beyond that.
Lowered(m, s, x, cap) ==
  Release(Put(m, s, Asking(m.store[s], x, cap), m.flow, m.inFlight), s,
          AsSize(m.store[s].flow.available) - cap)

\* A stream asks for less: what it holds beyond that goes to the others.
LEMMA LowerSound ==
  ASSUME NEW m, NEW rest \in Loose, Sound(m, 0, rest), NEW s \in Slab(m),
         NEW x, NEW cap, CanLower(m, s, x, cap)
  PROVE  LET n == Lowered(m, s, x, cap)
         IN  /\ Sound(n, 0, rest) /\ Steady(m, n) /\ Calm(m, n, {}) /\ n.inFlight = m.inFlight
             /\ n.store[s] = [Asking(m.store[s], x, cap) EXCEPT !.flow = n.store[s].flow]
<1> DEFINE st == m.store[s]
           surplus == AsSize(st.flow.available) - cap
           r == Asking(st, x, cap)
           k == Put(m, s, Asking(st, x, cap), m.flow, m.inFlight)
           excess == IF surplus > 0 THEN surplus ELSE 0
           F == ClaimCapacity(st.flow, excess)
           q == [r EXCEPT !.flow = F]
           o == Put(m, s, q, m.flow, m.inFlight)
           n == Lowered(m, s, x, cap)
<1>1. /\ Follows(x, st.state)
      /\ Queued(m.ids, s) \/ (IsClosed(x) /\ st.pending = <<>> /\ st.buffered = 0)
      /\ cap \in Nat /\ st.buffered <= cap /\ cap <= st.requested
      /\ Prudent /\ (IsSendClosed(x) \/ ReserveSizes = {}) => cap = st.buffered
  BY DEF CanLower
<1>2. /\ m \in Locked /\ Queues(m) /\ st \in Streams /\ StreamFine(st, Held(m, rest, s))
      /\ st.buffered \in Nat /\ st.requested \in Nat /\ st.flow \in Flows /\ m.flow \in Flows
      /\ st.flow.available \in Int /\ st.flow.window \in Int
      /\ m.flow.available \in Int /\ m.flow.window \in Int
  BY StreamFacts
<1>3. /\ r \in Streams /\ r.counted = st.counted /\ r.refs = st.refs /\ r.state = x /\ r.requested = cap
      /\ r.pending = st.pending /\ r.buffered = st.buffered /\ r.flow = st.flow
  <2>1. x \in States /\ cap \in Int BY <1>1 DEF Follows
  <2>2. st \in Streams BY <1>2
  <2> HIDE DEF st
  <2>3. QED BY ONLY <2>1, <2>2, StreamAsking
<1>4. /\ AsSize(st.flow.available) \in Nat /\ st.flow.available <= AsSize(st.flow.available)
      /\ st.flow.available >= 0 => AsSize(st.flow.available) = st.flow.available
      /\ st.flow.available < 0 => AsSize(st.flow.available) = 0
  BY <1>2, AsSizeNat DEF AsSize
<1>5. excess \in Nat /\ surplus \in Int BY <1>1, <1>4
<1>6. F \in Flows /\ F.window = st.flow.window /\ F.available = st.flow.available - excess
  BY <1>2, <1>5 DEF Flows, ClaimCapacity
<1> HIDE DEF r, F
<1>7. /\ q \in Streams /\ q.counted = st.counted /\ q.refs = st.refs /\ q.state = x /\ q.requested = cap
      /\ q.pending = st.pending /\ q.buffered = st.buffered /\ q.flow = F
  BY <1>3, <1>6 DEF Streams
<1>8. StreamFine(q, Held(m, rest, s))
  <2>1. F.available <= cap BY <1>1, <1>2, <1>4, <1>5, <1>6
  <2>2. F.available <= st.flow.available BY <1>2, <1>5, <1>6
  <2>3. F.available <= AsSize(st.flow.window)
    BY <1>2, <1>5, <1>6, <2>2, AsSizeNat DEF StreamFine, Flows
  <2>4. st.flow.available >= 0 => F.available >= 0 BY <1>1, <1>2, <1>4, <1>5, <1>6
  <2>5. st.buffered = Bytes(st.pending) + Held(m, rest, s) /\ (Prudent => st.flow.available >= 0)
    BY <1>2 DEF StreamFine
  <2>6. Prudent => (IsSendClosed(x) \/ ReserveSizes = {} => cap = st.buffered)
    BY <1>1
  <2>7. st.buffered <= cap /\ Follows(x, st.state) BY <1>1
  <2> HIDE DEF q, st, excess
  <2>8. QED BY <1>6, <1>7, <2>1, <2>3, <2>4, <2>5, <2>6, <2>7 DEF StreamFine, Follows
<1>9. Moves(m.flow, m.flow, st.flow, q.flow, 0, excess)
  <2>1. Prudent => m.flow.available >= 0 BY DEF Sound, Balanced
  <2>2. q.flow.available = st.flow.available - excess BY <1>6, <1>7
  <2> HIDE DEF q, excess, st
  <2>3. QED BY <1>2, <1>5, <2>1, <2>2, MovesBack
<1> HIDE DEF excess, q, o, surplus
<1>10. /\ Sound(o, excess, rest) /\ Touches(m, o, s) /\ o.store[s] = q /\ o.flow = m.flow
       /\ o.inFlight = m.inFlight
  <2>1. Busy(st) => Busy(q) BY <1>1, <1>7 DEF Follows, Busy
  <2>2. QED BY <1>1, <1>2, <1>5, <1>7, <1>8, <1>9, <2>1, PutSound DEF o
<1>11. Steady(m, o) /\ Calm(m, o, {})
  <2>1. PeerEnded(o.store[s].state) => PeerEnded(st.state)
    BY <1>1, <1>7, <1>10 DEF Follows
  <2>2. o.flow.window = m.flow.window /\ o.store[s].flow.window = st.flow.window
    BY <1>6, <1>7, <1>10
  <2>3. QED BY <1>2, <1>10, <2>1, <2>2, TouchesSteady
<1>12. n = Release(k, s, surplus) BY DEF Lowered, surplus
<1>13. CASE ~(surplus > 0)
  <2>1. n = k /\ excess = 0 BY <1>13, <1>12 DEF excess, Release
  <2>2. F = st.flow BY <1>2, <2>1 DEF F, ClaimCapacity, Flows
  <2>3. q = r BY <1>3, <2>2 DEF q, Streams
  <2>4. o = k BY <2>3 DEF o, r
  <2>5. n.store[s] = [r EXCEPT !.flow = n.store[s].flow]
    <3>1. n.store[s] = r BY <1>10, <2>1, <2>3, <2>4
    <3>2. [r EXCEPT !.flow = r.flow] = r BY <1>3 DEF Streams
    <3>3. QED BY <3>1, <3>2
  <2> HIDE DEF n
  <2>6. QED BY <1>10, <1>11, <2>1, <2>4, <2>5 DEF r, n
<1>14. CASE surplus > 0
  <2> DEFINE a == [k EXCEPT !.store[s].flow = ClaimCapacity(@, surplus)]
  <2>1. excess = surplus /\ surplus \in Nat BY <1>5, <1>14 DEF excess
  <2>2. a = o
    <3>1. k = [m EXCEPT !.store = [m.store EXCEPT ![s] = r]] BY DEF Put, r, Locked
    <3>2. ClaimCapacity(r.flow, surplus) = F BY <1>3, <2>1 DEF F
    <3>3. o = [m EXCEPT !.store = [m.store EXCEPT ![s] = q]] BY DEF Put, o, Locked
    <3>4. k.store[s] = r /\ k.store = [m.store EXCEPT ![s] = r]
      BY <1>2, <3>1 DEF Locked, Slab
    <3>5. a = [k EXCEPT !.store = [k.store EXCEPT ![s] = [r EXCEPT !.flow = F]]]
      BY <3>2, <3>4
    <3>6. [k.store EXCEPT ![s] = q] = [m.store EXCEPT ![s] = q]
      BY <3>4
    <3>7. a = [k EXCEPT !.store = [m.store EXCEPT ![s] = q]] BY <3>5, <3>6 DEF q
    <3> HIDE DEF a
    <3>8. QED BY <1>2, <3>1, <3>3, <3>7 DEF Locked
  <2>3. n = AssignConnectionCapacity(o, surplus) BY <1>14, <1>12, <2>2 DEF Release
  <2> HIDE DEF n
  <2>4. Sound(o, surplus, rest) BY <1>10, <2>1
  <2>5. Sound(n, 0, rest) /\ Assigned(o, n) BY <2>1, <2>3, <2>4, AssignConnectionSound
  <2>6. Steady(m, n) /\ Calm(m, n, {})
    <3>1. o \in Locked BY <1>10 DEF Touches
    <3>2. QED BY <1>11, <2>5, <3>1, AssignedSteady, SteadyTwice
  <2>7. n.inFlight = m.inFlight BY <1>10, <2>5 DEF Assigned
  <2>8. n.store[s] = [r EXCEPT !.flow = n.store[s].flow]
    <3>1. n.store[s] = [q EXCEPT !.flow = n.store[s].flow]
      BY <1>10, <2>5 DEF Assigned, Touches
    <3>2. QED BY <1>3, <3>1 DEF q, Streams
  <2>9. QED BY <2>5, <2>6, <2>7, <2>8 DEF n, r
<1>15. QED BY <1>13, <1>14

\* The three cases of reserve_capacity.
LEMMA ReserveCases ==
  ASSUME NEW m, NEW s, NEW extra, NEW cap \in Int, cap = extra + m.store[s].buffered,
         m.store[s].requested \in Int
  PROVE  LET asked == [m EXCEPT !.store[s].requested = cap]
             surplus == AsSize(m.store[s].flow.available) - cap
             n == ReserveCapacity(m, s, extra)
         IN  /\ cap = m.store[s].requested => n = m
             /\ cap < m.store[s].requested => n = Release(asked, s, surplus)
             /\ cap > m.store[s].requested =>
                  n = IF IsSendClosed(m.store[s].state) THEN m ELSE TryAssignCapacity(asked, s)
BY DEF ReserveCapacity, Release

\* send_close ends what the stream sends.
LEMMA StreamingCloses ==
  ASSUME NEW y \in States, IsSendStreaming(y)
  PROVE  Follows(SendClose(y), y) /\ IsSendClosed(SendClose(y))
<1>1. /\ SendClose(y) \in ClientStates /\ IsSendClosed(SendClose(y)) /\ ~IsClosed(y)
      /\ PeerEnded(SendClose(y)) => PeerEnded(y)
  BY DEF IsSendStreaming, SendClose, ClientStates, IsSendClosed, Peers, Causes, Open, HalfClosedRemote,
         HalfClosedLocal, Closed, PeerEnded, IsClosed, IsLocalReset
<1>2. QED BY <1>1, ClientTyped DEF Follows

\* The end of what the application sends gives back what it reserved and has
\* not used.
LEMMA CloseSound ==
  ASSUME NEW m, NEW rest \in Loose, Sound(m, 0, rest), NEW s \in Slab(m),
         IsSendStreaming(m.store[s].state)
  PROVE  LET n == ReserveCapacity([m EXCEPT !.store[s].state = SendClose(@)], s, 0)
         IN  /\ Sound(n, 0, rest) /\ Steady(m, n) /\ Calm(m, n, {}) /\ n.inFlight = m.inFlight
             /\ \E F \in Flows, q \in Int :
                  n.store[s] = [m.store[s] EXCEPT !.state = SendClose(@), !.requested = q, !.flow = F]
<1> DEFINE st == m.store[s]
           x == SendClose(st.state)
           cap == st.buffered
           a == [st EXCEPT !.state = x]
           k == [m EXCEPT !.store[s].state = SendClose(@)]
           surplus == AsSize(st.flow.available) - cap
           asked == [k EXCEPT !.store[s].requested = cap]
           lowered == Put(m, s, Asking(st, x, cap), m.flow, m.inFlight)
           n == ReserveCapacity(k, s, 0)
<1>1. /\ m \in Locked /\ st \in Streams /\ StreamFine(st, Held(m, rest, s))
      /\ st.buffered \in Nat /\ st.requested \in Nat /\ st.state \in States
      /\ st.flow.available \in Int
  BY StreamFacts DEF Streams
<1>2. Follows(x, st.state) /\ IsSendClosed(x) BY <1>1, StreamingCloses
<1>3. Queued(m.ids, s) BY StreamingIsOpen DEF Sound, Findable, StreamClosed
<1> HIDE DEF x
<1>4. k = [m EXCEPT !.store = [m.store EXCEPT ![s] = a]] BY DEF x, Locked
<1>5. k.store = [m.store EXCEPT ![s] = a] /\ k.store[s] = a
  BY <1>1, <1>4 DEF Locked, Slab
<1>6. a.buffered = cap /\ a.requested = st.requested /\ a.flow = st.flow
  BY <1>1 DEF Streams
<1>7. asked = lowered
  <2>1. [a EXCEPT !.requested = cap] = Asking(st, x, cap) BY <1>1 DEF Streams, Asking
  <2>2. [k.store EXCEPT ![s] = Asking(st, x, cap)] = [m.store EXCEPT ![s] = Asking(st, x, cap)]
    BY <1>5
  <2>3. asked = [k EXCEPT !.store = [k.store EXCEPT ![s] = [a EXCEPT !.requested = cap]]]
    BY <1>5
  <2> HIDE DEF k, cap, a, asked
  <2>4. QED BY <1>4, <2>1, <2>2, <2>3 DEF Put, Locked
<1>8. cap = st.requested => k = lowered
  <2>1. SUFFICES ASSUME cap = st.requested PROVE k = lowered OBVIOUS
  <2>2. a = Asking(st, x, cap) BY <1>1, <2>1 DEF Streams, Asking
  <2>3. QED BY <1>4, <2>2 DEF Put, Locked
<1>9. cap \in Nat /\ st.buffered <= cap /\ cap <= st.requested
  BY <1>1 DEF StreamFine
<1> DEFINE o == Release(lowered, s, surplus)
<1>10. n = o
  <2>1. 0 + k.store[s].buffered = cap /\ k.store[s].requested = st.requested
        /\ k.store[s].flow = st.flow
    BY <1>1, <1>5, <1>6
  <2>2. cap = st.requested => ~(surplus > 0)
    <3>1. st.flow.available <= st.requested BY <1>1 DEF StreamFine
    <3>2. QED BY <1>1, <3>1 DEF AsSize
  <2>3. cap = st.requested \/ cap < st.requested BY <1>1, <1>9
  <2> DEFINE z == 0
  <2>4. cap \in Int /\ k.store[s].requested \in Int /\ cap = z + k.store[s].buffered /\ n = ReserveCapacity(k, s, z)
    BY <1>1, <1>9, <2>1
  <2> HIDE DEF k, cap, n, z
  <2>5. /\ cap = st.requested => n = k
        /\ cap < st.requested => n = Release(asked, s, surplus)
    BY <2>1, <2>4, ReserveCases
  <2> HIDE DEF k, cap, n, asked, lowered, surplus
  <2>6. QED BY <1>7, <1>8, <2>2, <2>3, <2>5 DEF Release
<1> HIDE DEF n
<1>11. /\ Sound(o, 0, rest) /\ Steady(m, o) /\ Calm(m, o, {}) /\ o.inFlight = m.inFlight
       /\ o.store[s] = [Asking(st, x, cap) EXCEPT !.flow = o.store[s].flow]
  <2>1. CanLower(m, s, x, cap) BY <1>2, <1>3, <1>9 DEF CanLower
  <2>2. o = Lowered(m, s, x, cap) BY DEF Lowered
  <2> HIDE DEF lowered, cap, surplus, o
  <2>3. QED BY <2>1, <2>2, LowerSound
<1> HIDE DEF o
<1>12. s \in Slab(n) /\ n \in Locked BY <1>10, <1>11 DEF Sound, Steady
<1>13. n.store[s].flow \in Flows BY <1>12, StreamTyped DEF Streams
<1>14. n.store[s] = [st EXCEPT !.state = SendClose(@), !.requested = cap, !.flow = n.store[s].flow]
  <2>1. n.store[s] = [Asking(st, x, cap) EXCEPT !.flow = n.store[s].flow] BY <1>10, <1>11
  <2>2. QED BY <1>1, <2>1 DEF Asking, x, Streams
<1>15. cap \in Int BY <1>9
<1>16. QED BY <1>10, <1>11, <1>13, <1>14, <1>15 DEF n

\* reserve_capacity keeps the invariant, whatever is asked for.
LEMMA ReserveSound ==
  ASSUME NEW m, NEW rest \in Loose, Sound(m, 0, rest), NEW s \in Slab(m), NEW extra \in ReserveSizes
  PROVE  LET n == ReserveCapacity(m, s, extra)
         IN  Sound(n, 0, rest) /\ Steady(m, n) /\ Calm(m, n, {})
<1> DEFINE st == m.store[s]
           cap == extra + st.buffered
           asked == [m EXCEPT !.store[s].requested = cap]
           r == Asking(st, st.state, cap)
           surplus == AsSize(st.flow.available) - cap
           n == ReserveCapacity(m, s, extra)
<1>1. /\ m \in Locked /\ Queues(m) /\ st \in Streams /\ StreamFine(st, Held(m, rest, s))
      /\ Held(m, rest, s) \in Nat
      /\ st.buffered \in Nat /\ st.requested \in Nat /\ st.state \in States
      /\ st.flow \in Flows /\ m.flow \in Flows /\ st.flow.available \in Int
  BY StreamFacts DEF Streams
<1>2. extra \in Nat /\ ReserveSizes # {} BY SendAssumption
<1>3. cap \in Nat /\ st.buffered <= cap BY <1>1, <1>2
<1>4. asked = Put(m, s, r, m.flow, m.inFlight)
  <2>1. [st EXCEPT !.requested = cap] = r BY <1>1 DEF Streams, Asking
  <2> HIDE DEF cap, r
  <2>2. asked = [m EXCEPT !.store = [m.store EXCEPT ![s] = r]] BY <2>1
  <2>3. QED BY <2>2 DEF Put, Locked
<1>5. /\ cap = st.requested => n = m
      /\ cap < st.requested => n = Release(asked, s, surplus)
      /\ cap > st.requested => n = IF IsSendClosed(st.state) THEN m ELSE TryAssignCapacity(asked, s)
  BY <1>1, <1>3, ReserveCases
<1>6. Queued(m.ids, s) \/ (IsClosed(st.state) /\ st.pending = <<>> /\ st.buffered = 0)
  BY DEF Sound, Findable, StreamClosed
<1>7. CASE n = m
  BY <1>1, <1>7, KeepsNothing
<1>8. CASE cap < st.requested
  <2>1. Follows(st.state, st.state) BY <1>1 DEF Follows, StreamFine
  <2>2. ~(Prudent /\ (IsSendClosed(st.state) \/ ReserveSizes = {}))
    BY <1>1, <1>2, <1>3, <1>8 DEF StreamFine
  <2>3. n = Release(asked, s, surplus) BY <1>5, <1>8
  <2> HIDE DEF n, asked, cap
  <2>4. CanLower(m, s, st.state, cap) BY <1>1, <1>3, <1>6, <1>8, <2>1, <2>2 DEF CanLower
  <2>5. n = Lowered(m, s, st.state, cap) BY <1>4, <2>3 DEF Lowered
  <2>6. Sound(n, 0, rest) /\ Steady(m, n) /\ Calm(m, n, {}) BY <2>4, <2>5, LowerSound
  <2>7. QED BY <2>6 DEF n
<1>9. CASE cap > st.requested /\ ~IsSendClosed(st.state)
  <2>1. n = TryAssignCapacity(asked, s) BY <1>5, <1>9
  <2> HIDE DEF asked, cap
  <2>2. /\ r \in Streams /\ r.counted = st.counted /\ r.refs = st.refs /\ r.state = st.state
        /\ r.requested = cap /\ r.pending = st.pending /\ r.buffered = st.buffered /\ r.flow = st.flow
    <3>1. cap \in Int BY <1>3
    <3> HIDE DEF st
    <3>2. QED BY <1>1, <3>1, StreamAsking
  <2> HIDE DEF r
  <2>3. StreamFine(r, Held(m, rest, s))
    <3>1. st.flow.available <= cap BY <1>1, <1>3, <1>9 DEF StreamFine
    <3>2. QED BY <1>1, <1>2, <1>3, <1>9, <2>2, <3>1 DEF StreamFine
  <2>4. Moves(m.flow, m.flow, st.flow, r.flow, 0, 0)
    BY <2>2 DEF Moves, Sound, Balanced
  <2>5. Sound(asked, 0, rest) /\ Touches(m, asked, s) /\ asked.store[s] = r /\ asked.flow = m.flow
    <3>1. Queued(m.ids, s) \/ (IsClosed(r.state) /\ r.pending = <<>> /\ r.buffered = 0)
      BY <1>6, <2>2
    <3>2. Busy(st) => Busy(r) BY <2>2 DEF Busy
    <3> DEFINE z == 0
    <3>3. Sound(m, z, rest) /\ z \in Int /\ Moves(m.flow, m.flow, st.flow, r.flow, z, z) BY <2>4
    <3>4. m.flow \in Flows BY <1>1
    <3> HIDE DEF z
    <3>5. Sound(asked, z, rest) /\ Touches(m, asked, s) /\ asked.store[s] = r /\ asked.flow = m.flow
      BY <1>4, <2>2, <2>3, <3>1, <3>2, <3>3, <3>4, PutSound
    <3>6. QED BY <3>5 DEF z
  <2>6. Steady(m, asked) /\ Calm(m, asked, {})
    BY <1>1, <2>2, <2>5, TouchesSteady
  <2>7. s \in Slab(asked) /\ asked \in Locked BY <2>5 DEF Touches
  <2>8. IsSendStreaming(asked.store[s].state)
    BY <1>1, <1>9, <2>2, <2>5, ClientTyped DEF StreamFine
  <2> DEFINE z == 0
  <2>9. z \in Int /\ Sound(asked, z, rest) BY <2>5
  <2>10. IsSendStreaming(asked.store[s].state) \/ asked.store[s].buffered > 0 BY <2>8
  <2> HIDE DEF z
  <2>11. LET p == TryAssignCapacity(asked, s) IN Sound(p, z, rest) /\ Assigned(asked, p)
    BY <2>7, <2>9, <2>10, TryAssignSound
  <2>12. Sound(n, 0, rest) /\ Assigned(asked, n) BY <2>1, <2>11 DEF z
  <2> HIDE DEF n
  <2>13. QED BY <2>6, <2>7, <2>12, AssignedSteady, SteadyTwice DEF n
<1>10. n = m \/ cap < st.requested \/ (cap > st.requested /\ ~IsSendClosed(st.state))
  BY <1>1, <1>3, <1>5
<1>11. QED BY <1>7, <1>8, <1>9, <1>10

\* A stream without references is reset before it is forgotten.
LEMMA ImplicitResetSound ==
  ASSUME NEW m, NEW rest \in Loose, Sound(m, 0, rest), NEW s \in Slab(m),
         Prudent => ReserveSizes = {}
  PROVE  LET n == ScheduleImplicitReset(m, s)
         IN  Sound(n, 0, rest) /\ Steady(m, n) /\ Calm(m, n, {})
<1> DEFINE st == m.store[s]
           x == SetScheduledReset(st.state)
           k == [m EXCEPT !.store[s].state = SetScheduledReset(@)]
           reserved == st.requested - st.buffered
           excess == IF reserved > 0 THEN reserved ELSE 0
           F == ClaimCapacity(st.flow, excess)
           r == [st EXCEPT !.state = x, !.flow = F]
           o == Put(m, s, r, m.flow, m.inFlight)
           p == ReclaimReservedCapacity(k, s)
           n == ScheduleImplicitReset(m, s)
<1>1. /\ m \in Locked /\ Queues(m) /\ st \in Streams /\ StreamFine(st, Held(m, rest, s))
      /\ Held(m, rest, s) \in Nat
      /\ st.buffered \in Nat /\ st.requested \in Nat /\ st.state \in States
      /\ st.flow \in Flows /\ m.flow \in Flows /\ st.flow.available \in Int /\ st.flow.window \in Int
      /\ m.flow.available \in Int /\ m.flow.window \in Int
  BY StreamFacts DEF Streams
<1>2. CASE IsClosed(st.state)
  BY <1>1, <1>2, KeepsNothing DEF ScheduleImplicitReset
<1>3. CASE ~IsClosed(st.state)
  <2>1. Queued(m.ids, s) BY <1>3 DEF Sound, Findable, StreamClosed
  <2>2. x \in States /\ IsClosed(x) /\ x \in ClientStates /\ ~PeerEnded(x)
    BY <1>1, StatesTyped, ClientTyped DEF PeerEnded, SetScheduledReset, IsLocalReset, Closed
  <2>3. reserved \in Nat /\ excess \in Nat /\ (Prudent => reserved = 0)
    BY <1>1 DEF StreamFine
  <2>4. excess = reserved BY <2>3
  <2> HIDE DEF x, excess
  <2>5. F \in Flows /\ F.window = st.flow.window /\ F.available = st.flow.available - excess
    BY <1>1, <2>3 DEF Flows, ClaimCapacity
  <2> HIDE DEF F
  <2>6. /\ r \in Streams /\ r.counted = st.counted /\ r.refs = st.refs /\ r.state = x /\ r.requested = st.requested
        /\ r.pending = st.pending /\ r.buffered = st.buffered /\ r.flow = F
    BY <1>1, <2>2, <2>5 DEF Streams
  <2> HIDE DEF r
  <2>7. StreamFine(r, Held(m, rest, s))
    <3>1. F.available <= st.flow.available BY <1>1, <2>3, <2>5
    <3>2. Prudent => F.available = st.flow.available BY <1>1, <2>3, <2>4, <2>5
    <3>3. F.available <= AsSize(F.window) /\ F.available <= st.requested
      BY <1>1, <2>5, <3>1, AsSizeNat DEF StreamFine, Flows
    <3>4. Prudent => st.requested = st.buffered BY <1>1, <2>3
    <3>5. r.state \in ClientStates BY <2>2, <2>6
    <3> HIDE DEF st, reserved
    <3>6. QED BY <1>1, <2>6, <3>2, <3>3, <3>4, <3>5 DEF StreamFine
  <2>8. Moves(m.flow, m.flow, st.flow, r.flow, 0, excess)
    <3>1. Prudent => m.flow.available >= 0 BY DEF Sound, Balanced
    <3>2. Prudent => r.flow = st.flow
      <4>1. Prudent => excess = 0 BY <2>3, <2>4
      <4>2. ClaimCapacity(st.flow, 0) = st.flow BY <1>1 DEF Flows, ClaimCapacity
      <4>3. QED BY <2>6, <4>1, <4>2 DEF F
    <3>3. Prudent => excess = 0 BY <2>3, <2>4
    <3> HIDE DEF st, reserved
    <3>4. QED BY <3>1, <3>2, <3>3 DEF Moves
  <2> HIDE DEF o
  <2>9. /\ Sound(o, excess, rest) /\ Touches(m, o, s) /\ o.store[s] = r /\ o.flow = m.flow
    <3>1. Busy(r) BY <2>2, <2>6 DEF Busy
    <3>2. QED BY <1>1, <2>1, <2>3, <2>6, <2>7, <2>8, <3>1, PutSound DEF o
  <2>10. Steady(m, o) /\ Calm(m, o, {})
    <3>1. ~PeerEnded(o.store[s].state) BY <2>2, <2>6, <2>9
    <3>2. QED BY <1>1, <2>5, <2>6, <2>9, <3>1, TouchesSteady
  <2>11. p = IF reserved > 0 THEN AssignConnectionCapacity(o, reserved) ELSE o
    <3> DEFINE a == [st EXCEPT !.state = x]
    <3>1. k = [m EXCEPT !.store = [m.store EXCEPT ![s] = a]] BY DEF x, Locked
    <3>2. k.store[s] = a /\ k.store = [m.store EXCEPT ![s] = a] BY <1>1, <3>1 DEF Locked, Slab
    <3>3. a.requested = st.requested /\ a.buffered = st.buffered /\ a.flow = st.flow
      BY <1>1 DEF Streams
    <3>4. CASE reserved > 0
      <4>1. [k EXCEPT !.store[s].flow = ClaimCapacity(@, reserved)] = o
        <5>1. [k EXCEPT !.store[s].flow = ClaimCapacity(@, reserved)]
                = [k EXCEPT !.store = [k.store EXCEPT ![s] = [a EXCEPT !.flow = F]]]
          BY <2>4, <3>2, <3>3 DEF F
        <5>2. [a EXCEPT !.flow = F] = r BY <1>1 DEF Streams, r
        <5>3. [k.store EXCEPT ![s] = r] = [m.store EXCEPT ![s] = r] BY <3>2
        <5> HIDE DEF k, a
        <5>4. QED BY <3>1, <5>1, <5>2, <5>3 DEF Put, Locked, o
      <4> HIDE DEF k, a
      <4>2. p = AssignConnectionCapacity(o, reserved)
        BY <3>2, <3>3, <3>4, <4>1 DEF ReclaimReservedCapacity
      <4>3. QED BY <3>4, <4>2
    <3>5. CASE ~(reserved > 0)
      <4>1. reserved = 0 BY <2>3, <3>5
      <4>2. F = st.flow BY <1>1, <2>4, <4>1 DEF F, Flows, ClaimCapacity
      <4>3. a = r BY <1>1, <4>2 DEF Streams, r
      <4>4. o = k BY <3>1, <4>3 DEF Put, Locked, o
      <4> HIDE DEF k, a
      <4>5. p = k BY <3>2, <3>3, <3>5 DEF ReclaimReservedCapacity
      <4>6. QED BY <3>5, <4>4, <4>5
    <3>6. QED BY <3>4, <3>5
  <2>12. o \in Locked /\ Slab(o) = Slab(m) BY <2>9 DEF Touches
  <2>13. Sound(p, 0, rest) /\ Assigned(o, p)
    <3>1. CASE reserved > 0
      <4>1. Sound(o, reserved, rest) /\ p = AssignConnectionCapacity(o, reserved)
        BY <2>4, <2>9, <2>11, <3>1
      <4> HIDE DEF reserved, p
      <4>2. QED BY <2>3, <4>1, AssignConnectionSound
    <3>2. CASE ~(reserved > 0)
      <4>1. excess = 0 /\ p = o BY <2>3, <2>4, <2>11, <3>2
      <4>2. Requeues(o, o) BY <2>9 DEF Requeues, SameSlots, Sound, Queues, Harmless
      <4> HIDE DEF p
      <4>3. QED BY <2>9, <2>12, <4>1, <4>2, AssignedNothing
    <3>3. QED BY <3>1, <3>2
  <2> HIDE DEF p
  <2>14. Steady(m, p) /\ Calm(m, p, {}) BY <2>10, <2>12, <2>13, AssignedSteady, SteadyTwice
  <2>15. p \in Locked /\ Queues(p) /\ s \in Slab(p) BY <2>13, <2>14 DEF Sound, Steady
  <2>16. n = ScheduleSend(p, s) BY <1>3 DEF ScheduleImplicitReset, p
  <2> HIDE DEF n
  <2>17. IsClosed(p.store[s].state)
    <3>1. p.store[s] = [o.store[s] EXCEPT !.flow = p.store[s].flow] /\ o.store[s] \in Streams
      BY <2>6, <2>9, <2>12, <2>13 DEF Assigned
    <3>2. p.store[s].state = x BY <2>6, <2>9, <3>1 DEF Streams
    <3>3. QED BY <2>2, <3>2
  <2>18. Requeues(p, n)
    <3>1. Touches(p, n, s) /\ n.store = p.store /\ n.flow = p.flow /\ n.inFlight = p.inFlight
      BY <2>15, <2>16, ScheduleSendTouches
    <3>2. Busy(p.store[s]) BY <2>17 DEF Busy
    <3>3. QED BY <3>1, <3>2 DEF Touches, Requeues
  <2>19. Sound(n, 0, rest) BY <2>13, <2>18, RequeueSound
  <2>20. QED BY <2>14, <2>15, <2>18, <2>19, RequeuesSteady, SteadyTwice DEF n
<1>4. QED BY <1>2, <1>3

-----------------------------------------------------------------------------
(* The end of a stream.                                                      *)

\* n differs from m in how the stream s is found and counted.
Retires(m, n, s) ==
  /\ n \in Locked /\ Slab(n) = Slab(m)
  /\ \A t \in Slab(m) : n.store[t] = [m.store[t] EXCEPT !.counted = n.store[t].counted]
  /\ IsQueue(n.ids, Slab(m))
  /\ \A t : /\ Queued(n.ids, t) => Queued(m.ids, t)
            /\ Queued(m.ids, t) /\ t # s => Queued(n.ids, t)
  /\ n.pendingSend = m.pendingSend /\ n.pendingCapacity = m.pendingCapacity
  /\ n.pendingOpen = m.pendingOpen /\ n.pendingReset = m.pendingReset
  /\ n.flow = m.flow /\ n.inFlight = m.inFlight /\ n.nextId = m.nextId
  /\ n.initWindow = m.initWindow /\ Harmless(m, n)

\* Two streams that agree in every field are one.
LEMMA SameStream ==
  ASSUME NEW st \in Streams
  PROVE  st = [st EXCEPT !.counted = st.counted]
BY DEF Streams

\* Taking the mark of one stream takes it from the counted.
LEMMA CountedApart ==
  ASSUME NEW st \in Streams, NEW c \in BOOLEAN, NEW r, r = [st EXCEPT !.counted = c]
  PROVE  /\ r \in Streams /\ r.counted = c /\ r.refs = st.refs /\ r.state = st.state /\ r.flow = st.flow
         /\ r.pending = st.pending /\ r.buffered = st.buffered /\ r.requested = st.requested
BY DEF Streams

\* Tidying up after a stream leaves the others alone.
LEMMA RetiresApart ==
  ASSUME NEW m \in Locked, NEW n, NEW s, Retires(m, n, s), NEW t \in Slab(m)
  PROVE  /\ n.store[t].refs = m.store[t].refs /\ n.store[t].state = m.store[t].state
         /\ n.store[t].flow = m.store[t].flow /\ n.store[t].pending = m.store[t].pending
         /\ n.store[t].buffered = m.store[t].buffered /\ n.store[t].requested = m.store[t].requested
<1>1. m.store[t] \in Streams BY StreamTyped
<1> DEFINE c == n.store[t].counted
           w == m.store[t]
           r == n.store[t]
<1>2. c \in BOOLEAN
  <2>1. n \in Locked /\ t \in Slab(n) BY DEF Retires
  <2>2. QED BY <2>1, StreamTyped DEF Streams
<1>3. r = [w EXCEPT !.counted = c] BY DEF Retires
<1>4. w \in Streams BY <1>1
<1> HIDE DEF c, w, r
<1>5. /\ r.refs = w.refs /\ r.state = w.state /\ r.flow = w.flow
      /\ r.pending = w.pending /\ r.buffered = w.buffered /\ r.requested = w.requested
  BY <1>2, <1>3, <1>4, CountedApart
<1>6. QED BY <1>5 DEF r, w

\* Doing nothing tidies up.
LEMMA RetiresNothing ==
  ASSUME NEW m \in Locked, Queues(m), NEW s
  PROVE  Retires(m, m, s)
BY StreamTyped, SameStream DEF Retires, Queues, Harmless

\* Tidying up twice is tidying up.
LEMMA RetiresTwice ==
  ASSUME NEW m \in Locked, NEW n, NEW o, NEW s, Retires(m, n, s), Retires(n, o, s)
  PROVE  Retires(m, o, s)
<1>1. ASSUME NEW t \in Slab(m)
      PROVE  o.store[t] = [m.store[t] EXCEPT !.counted = o.store[t].counted]
  <2>1. /\ n.store[t] = [m.store[t] EXCEPT !.counted = n.store[t].counted]
        /\ o.store[t] = [n.store[t] EXCEPT !.counted = o.store[t].counted]
    BY DEF Retires
  <2>2. QED BY <2>1, StreamTyped DEF Streams
<1>2. QED BY <1>1 DEF Retires, Harmless

\* Tidying up keeps the invariant if the counters agree after it.
LEMMA RetireSound ==
  ASSUME NEW m, NEW d, NEW rest, Sound(m, d, rest), NEW s \in Slab(m), StreamClosed(m, s),
         NEW n, Retires(m, n, s), Slots(n)
  PROVE  /\ Sound(n, d, rest) /\ Slab(n) = Slab(m) /\ StreamClosed(n, s)
         /\ Keeps(m, n) /\ Calm(m, n, {})
<1>1. m \in Locked /\ n \in Locked /\ Slab(n) = Slab(m) BY DEF Sound, Retires
<1>2. \A t \in Slab(m) :
        /\ n.store[t].refs = m.store[t].refs /\ n.store[t].state = m.store[t].state
        /\ n.store[t].flow = m.store[t].flow /\ n.store[t].pending = m.store[t].pending
        /\ n.store[t].buffered = m.store[t].buffered /\ n.store[t].requested = m.store[t].requested
  BY <1>1, RetiresApart
<1>3. \A t \in Slab(m) : StreamClosed(n, t) <=> StreamClosed(m, t)
  BY <1>2 DEF StreamClosed
<1>4. Queues(n) BY <1>1 DEF Queues, Retires, Sound
<1>5. Findable(n) BY <1>1, <1>3 DEF Findable, Retires, Sound
<1>6. Working(n) BY <1>1, <1>2 DEF Working, Busy, Retires, Sound
<1>7. Fine(n, rest) BY <1>1, <1>2 DEF Sound, Fine, StreamFine, Held, Retires
<1>8. HandedOut(n) = HandedOut(m)
  <2>1. Availables(n) = Availables(m) BY <1>1, <1>2 DEF Availables
  <2>2. QED BY <2>1 DEF HandedOut, Availables
<1>9. Returnable(n, rest) /\ Trusty(n) /\ Balanced(n, d)
  BY <1>1, <1>8 DEF Sound, Returnable, Trusty, Balanced, Retires, Harmless
<1>10. Sound(n, d, rest) BY <1>1, <1>4, <1>5, <1>6, <1>7, <1>9 DEF Sound
<1>11. Calm(m, n, {}) BY <1>1, <1>2 DEF Calm, Retires
<1>12. Keeps(m, n) BY <1>1, <1>2 DEF Keeps, Retires
<1>13. QED BY <1>1, <1>3, <1>10, <1>11, <1>12

\* The counted streams are finitely many.
LEMMA CountedFinite ==
  ASSUME NEW m \in Locked
  PROVE  IsFiniteSet(Counted(m)) /\ Cardinality(Counted(m)) \in Nat
<1>1. Counted(m) \subseteq Slab(m) /\ IsFiniteSet(Slab(m)) BY AvailablesSummable DEF Counted
<1>2. QED BY <1>1, FS_Subset, FS_CardinalityType

\* Unlinking a closed stream is tidying up.
LEMMA UnlinkRetires ==
  ASSUME NEW m \in Locked, Queues(m), NEW s \in Slab(m)
  PROVE  LET n == Unlink(m, s)
         IN  /\ Retires(m, n, s) /\ ~Queued(n.ids, s) /\ n.store = m.store
             /\ n.numSend = m.numSend /\ n.numReset = m.numReset
<1>1. CASE ~Queued(m.ids, s)
  <2>1. Unlink(m, s) = m BY <1>1 DEF Unlink, Queued
  <2>2. QED BY <1>1, <2>1, RetiresNothing
<1>2. CASE Queued(m.ids, s)
  <2> DEFINE last == Last(m.ids)
             moved == [i \in 1 .. Len(m.ids) |-> IF m.ids[i] = s THEN last ELSE m.ids[i]]
             n == [m EXCEPT !.ids = Front(moved)]
  <2>1. Unlink(m, s) = n BY <1>2 DEF Unlink, Queued
  <2>2. /\ IsQueue(Front(moved), Slab(m))
        /\ \A t : Queued(Front(moved), t) <=> Queued(m.ids, t) /\ t # s
    BY <1>2, UnlinkQueue DEF Queues
  <2> DEFINE ids == Front(moved)
  <2>3. n = [m EXCEPT !.ids = ids] OBVIOUS
  <2> HIDE DEF moved, n, ids
  <2>4. ids \in Seq(Ids)
    <3>1. IsQueue(ids, Ids) BY <2>2, StoreTyped, QueueWiden DEF ids, Locked, Slab
    <3>2. QED BY <3>1 DEF IsQueue
  <2>5. /\ n \in Locked /\ n.ids = ids /\ n.store = m.store /\ n.failed = m.failed
        /\ n.pendingSend = m.pendingSend /\ n.pendingCapacity = m.pendingCapacity
        /\ n.pendingOpen = m.pendingOpen /\ n.pendingReset = m.pendingReset
        /\ n.flow = m.flow /\ n.inFlight = m.inFlight /\ n.nextId = m.nextId
        /\ n.initWindow = m.initWindow
        /\ n.numSend = m.numSend /\ n.numReset = m.numReset
    BY <2>3, <2>4 DEF Locked
  <2>6. \A t \in Slab(m) : n.store[t] = [m.store[t] EXCEPT !.counted = n.store[t].counted]
    BY <2>5, StreamTyped, SameStream
  <2>7. IsQueue(n.ids, Slab(m)) /\ \A t : Queued(n.ids, t) <=> Queued(m.ids, t) /\ t # s
    BY <2>2, <2>5 DEF ids
  <2>8. Retires(m, n, s) BY <2>5, <2>6, <2>7 DEF Retires, Slab, Harmless
  <2>9. QED BY <2>1, <2>5, <2>7, <2>8
<1>3. QED BY <1>1, <1>2

\* So is giving back its reset slot, which it must have.
LEMMA DecNumResetRetires ==
  ASSUME NEW m \in Locked, Queues(m), NEW s, Slots(m), Len(m.pendingReset) < m.numReset
  PROVE  LET n == DecNumReset(m)
         IN  Retires(m, n, s) /\ Slots(n) /\ n.ids = m.ids /\ n.store = m.store
<1> DEFINE c == m.numReset - 1
           k == [m EXCEPT !.numReset = c]
           holds == m.numReset > 0
           name == "dec_num_reset_streams"
           n == Check(k, holds, name)
<1>1. Len(m.pendingReset) \in Nat /\ m.numReset \in Int /\ MaxReset \in Nat BY SendAssumption DEF Locked
<1>2. DecNumReset(m) = n BY DEF DecNumReset
<1>3. c \in Int BY <1>1
<1> HIDE DEF c
<1>4. /\ k \in Locked /\ k.store = m.store /\ k.failed = m.failed /\ k.ids = m.ids
      /\ k.pendingSend = m.pendingSend /\ k.pendingCapacity = m.pendingCapacity
      /\ k.pendingOpen = m.pendingOpen /\ k.pendingReset = m.pendingReset
      /\ k.flow = m.flow /\ k.inFlight = m.inFlight /\ k.nextId = m.nextId
      /\ k.initWindow = m.initWindow
      /\ k.numSend = m.numSend /\ k.numReset = c
  BY <1>3 DEF Locked
<1>5. /\ k \in Locked /\ k.store = m.store /\ k.failed = m.failed /\ k.ids = m.ids
      /\ k.pendingSend = m.pendingSend /\ k.pendingCapacity = m.pendingCapacity
      /\ k.pendingOpen = m.pendingOpen /\ k.pendingReset = m.pendingReset
      /\ k.flow = m.flow /\ k.inFlight = m.inFlight /\ k.nextId = m.nextId
      /\ k.initWindow = m.initWindow
      /\ k.numSend = m.numSend /\ k.numReset = m.numReset - 1
  BY <1>4 DEF c
<1>6. name \in Asserts BY DEF Asserts
<1>7. holds /\ holds \in BOOLEAN BY <1>1
<1> HIDE DEF k, holds, name, n
<1>8. Agree(k, n) BY <1>5, <1>6, <1>7, CheckAgrees DEF n
<1>9. Slots(n)
  <2>1. Counted(n) = Counted(m) BY <1>5, <1>8 DEF Agree, Counted, Slab
  <2>2. QED BY <1>1, <1>5, <1>8, <2>1 DEF Slots, Agree, SameSlots
<1>10. \A t \in Slab(m) : n.store[t] = [m.store[t] EXCEPT !.counted = n.store[t].counted]
  BY <1>5, <1>8, StreamTyped, SameStream DEF Agree
<1>11. Retires(m, n, s)
  BY <1>5, <1>8, <1>10 DEF Retires, Agree, SameSlots, Harmless, Slab, Queues
<1>12. QED BY <1>2, <1>5, <1>8, <1>9, <1>11 DEF Agree, SameSlots

\* So is giving back its slot, which it must have.
LEMMA DecNumSendRetires ==
  ASSUME NEW m \in Locked, Queues(m), Slots(m), NEW s \in Slab(m), m.store[s].counted
  PROVE  LET n == DecNumSend(m, s)
         IN  Retires(m, n, s) /\ Slots(n) /\ n.ids = m.ids /\ ~n.store[s].counted
<1> DEFINE r == [m.store[s] EXCEPT !.counted = FALSE]
           new == [m.store EXCEPT ![s] = r]
           c == m.numSend - 1
           k == [m EXCEPT !.numSend = c, !.store = new]
           holds == m.numSend > 0
           name == "dec_num_streams"
           n == Check(k, holds, name)
<1>1. DecNumSend(m, s) = n
  <2>1. [m EXCEPT !.numSend = @ - 1, !.store[s].counted = FALSE] = k BY DEF Locked
  <2>2. QED BY <2>1 DEF DecNumSend
<1>2. r \in Streams /\ m.store[s] \in Streams BY StreamTyped, CountedApart
<1>3. /\ new \in Stores /\ DOMAIN new = DOMAIN m.store /\ new[s] = r
      /\ \A t \in DOMAIN m.store : t # s => new[t] = m.store[t]
  BY <1>2, StorePut DEF Slab, Locked
<1>4. m.numSend \in Int /\ c \in Int BY DEF Locked
<1>5. c = m.numSend - 1 OBVIOUS
<1> HIDE DEF new, c
<1>6. /\ k \in Locked /\ k.store = new /\ k.failed = m.failed /\ k.ids = m.ids
      /\ k.pendingSend = m.pendingSend /\ k.pendingCapacity = m.pendingCapacity
      /\ k.pendingOpen = m.pendingOpen /\ k.pendingReset = m.pendingReset
      /\ k.flow = m.flow /\ k.inFlight = m.inFlight /\ k.nextId = m.nextId
      /\ k.initWindow = m.initWindow
      /\ k.numSend = m.numSend - 1 /\ k.numReset = m.numReset
  <2>1. /\ k \in Locked /\ k.store = new /\ k.failed = m.failed /\ k.ids = m.ids
        /\ k.pendingSend = m.pendingSend /\ k.pendingCapacity = m.pendingCapacity
        /\ k.pendingOpen = m.pendingOpen /\ k.pendingReset = m.pendingReset
        /\ k.flow = m.flow /\ k.inFlight = m.inFlight /\ k.nextId = m.nextId
        /\ k.initWindow = m.initWindow
        /\ k.numSend = c /\ k.numReset = m.numReset
    BY <1>3, <1>4 DEF Locked
  <2>2. QED BY <1>5, <2>1
<1> HIDE DEF k
<1>7. s \in Counted(m) /\ Counted(k) = Counted(m) \ {s}
  BY <1>2, <1>3, <1>6 DEF Counted, Slab, Streams
<1>8. m.numSend = Cardinality(Counted(m)) /\ IsFiniteSet(Counted(m)) BY CountedFinite DEF Slots
<1>9. Cardinality(Counted(k)) = m.numSend - 1 /\ m.numSend > 0
  <2>1. Cardinality(Counted(k)) = Cardinality(Counted(m)) - 1
    BY <1>7, <1>8, FS_RemoveElement
  <2>2. Cardinality(Counted(k)) \in Nat BY <1>6, CountedFinite
  <2>3. QED BY <1>4, <1>8, <2>1, <2>2
<1>10. name \in Asserts BY DEF Asserts
<1>11. holds /\ holds \in BOOLEAN BY <1>9
<1> HIDE DEF holds, name, n
<1>12. Agree(k, n) BY <1>6, <1>10, <1>11, CheckAgrees DEF n
<1>13. Slots(n)
  <2>1. Counted(n) = Counted(k) BY <1>12 DEF Agree, Counted, Slab
  <2>2. QED BY <1>6, <1>7, <1>9, <1>12, <2>1 DEF Slots, Agree, SameSlots
<1>14. \A t \in Slab(m) : n.store[t] = [m.store[t] EXCEPT !.counted = n.store[t].counted]
  <2>1. n.store = new BY <1>6, <1>12 DEF Agree
  <2>2. new[s] = [m.store[s] EXCEPT !.counted = new[s].counted]
    BY <1>2, <1>3, CountedApart
  <2>3. QED BY <1>3, <2>1, <2>2, StreamTyped, SameStream DEF Slab
<1>15. Retires(m, n, s)
  BY <1>3, <1>6, <1>12, <1>14 DEF Retires, Agree, SameSlots, Harmless, Slab, Queues
<1>16. ~n.store[s].counted
  <2>1. n.store[s] = r BY <1>3, <1>6, <1>12 DEF Agree
  <2>2. r.counted = FALSE BY <1>2, CountedApart
  <2>3. QED BY <2>1, <2>2
<1>17. QED BY <1>1, <1>6, <1>12, <1>13, <1>15, <1>16 DEF Agree, SameSlots

\* n is m after the tidying up at the end of an operation on s.
Settles(m, n, s) ==
  /\ n \in Locked /\ Slab(n) \in {Slab(m), Slab(m) \ {s}}
  /\ \A t \in Slab(n) :
       /\ n.store[t].refs = m.store[t].refs /\ n.store[t].state = m.store[t].state
       /\ n.store[t].flow = m.store[t].flow /\ n.store[t].pending = m.store[t].pending
       /\ n.store[t].buffered = m.store[t].buffered /\ n.store[t].requested = m.store[t].requested
  /\ n.pendingSend = m.pendingSend /\ n.pendingCapacity = m.pendingCapacity
  /\ n.pendingOpen = m.pendingOpen /\ n.pendingReset = m.pendingReset
  /\ n.flow = m.flow /\ n.inFlight = m.inFlight /\ n.nextId = m.nextId
  /\ n.initWindow = m.initWindow /\ Harmless(m, n)

\* Removing a stream that nothing refers to keeps the invariant.
LEMMA RemoveSound ==
  ASSUME NEW m, NEW rest \in Loose, Sound(m, 0, rest), NEW s \in Slab(m), StreamClosed(m, s),
         ~m.store[s].counted, m.store[s].refs = 0, ~Queued(m.ids, s),
         ~Queued(m.pendingSend, s), ~Queued(m.pendingCapacity, s),
         ~Queued(m.pendingOpen, s), ~Queued(m.pendingReset, s)
  PROVE  LET n == RemoveFromSlab(m, s)
         IN  Sound(n, 0, rest) /\ Settles(m, n, s) /\ Slab(n) = Slab(m) \ {s} /\ n.ids = m.ids
<1> DEFINE new == Restrict(m.store, DOMAIN m.store \ {s})
           n == [m EXCEPT !.store = new]
           S == Slab(m) \ {s}
<1>1. RemoveFromSlab(m, s) = n BY DEF RemoveFromSlab
<1>2. m \in Locked /\ Queues(m) BY DEF Sound
<1>3. /\ DOMAIN new = S /\ \A t \in S : new[t] = m.store[t]
      /\ new \in Stores
  <2>1. new = [t \in S |-> m.store[t]] BY DEF Restrict, Slab
  <2>2. DOMAIN m.store \subseteq Ids /\ m.store \in [DOMAIN m.store -> Streams]
    BY <1>2, StoreTyped DEF Locked
  <2>3. DOMAIN new \subseteq Ids /\ new \in [DOMAIN new -> Streams]
    BY <2>1, <2>2 DEF Slab
  <2> HIDE DEF new
  <2>4. new \in Stores BY <2>3, StoreTyped
  <2>5. QED BY <2>1, <2>4
<1> HIDE DEF new
<1>4. /\ n \in Locked /\ n.store = new /\ n.failed = m.failed /\ n.ids = m.ids
      /\ n.pendingSend = m.pendingSend /\ n.pendingCapacity = m.pendingCapacity
      /\ n.pendingOpen = m.pendingOpen /\ n.pendingReset = m.pendingReset
      /\ n.flow = m.flow /\ n.inFlight = m.inFlight /\ n.nextId = m.nextId
      /\ n.initWindow = m.initWindow /\ n.numSend = m.numSend /\ n.numReset = m.numReset
  BY <1>2, <1>3 DEF Locked
<1> HIDE DEF n
<1>5. Slab(n) = S /\ \A t \in S : t \in Slab(m) /\ n.store[t] = m.store[t]
  BY <1>3, <1>4 DEF Slab
<1>6. Queues(n)
  <2>1. /\ IsQueue(m.ids, S) /\ IsQueue(m.pendingSend, S) /\ IsQueue(m.pendingCapacity, S)
        /\ IsQueue(m.pendingOpen, S) /\ IsQueue(m.pendingReset, S)
    BY <1>2, QueueForget DEF Queues
  <2>2. QED BY <1>2, <1>4, <1>5, <2>1 DEF Queues
<1>7. Findable(n) /\ Working(n)
  BY <1>4, <1>5 DEF Sound, Findable, Working, StreamClosed
<1>8. Slots(n)
  <2>1. Counted(n) = Counted(m) BY <1>5 DEF Counted
  <2>2. QED BY <1>4, <2>1 DEF Sound, Slots
<1>9. Fine(n, rest)
  <2>1. \A t \in S : Held(n, rest, t) = Held(m, rest, t) BY <1>4 DEF Held
  <2>2. QED BY <1>5, <2>1 DEF Fine, Sound
<1>10. /\ Held(m, rest, s) = 0
       /\ Prudent => m.store[s].flow.available = 0
  <2>1. m.store[s].pending = <<>> /\ m.store[s].buffered = 0 /\ IsSendClosed(m.store[s].state)
    BY DEF StreamClosed, IsSendClosed, IsClosed
  <2>2. Bytes(m.store[s].pending) = 0 BY <2>1, BytesNone
  <2>3. QED BY <2>1, <2>2, StreamFacts DEF StreamFine
<1>11. Returnable(n, rest)
  <2>1. rest.codec \in Nat /\ rest.new[s] \in Nat BY StreamTyped, <1>2 DEF Loose
  <2>2. m.inFlight = s => rest.codec = 0 BY <1>10, <2>1 DEF Held
  <2>3. QED BY <1>4, <1>5, <2>2 DEF Sound, Returnable
<1>12. Balanced(n, 0)
  <2>1. SUFFICES ASSUME Prudent PROVE n.flow.available >= 0 /\ n.flow.window = n.flow.available + HandedOut(n) + 0
    BY DEF Balanced
  <2>2. HandedOut(m) = m.store[s].flow.available + HandedOut(n)
    <3>1. /\ IsSummable(Availables(m)) /\ DOMAIN Availables(m) = Slab(m)
          /\ HandedOut(m) = SumFunction(Availables(m))
      BY <1>2, AvailablesSummable
    <3>2. DOMAIN Availables(n) = S /\ HandedOut(n) = SumFunction(Availables(n))
      BY <1>4, <1>5, AvailablesSummable
    <3>3. \A t \in S : Availables(n)[t] = Availables(m)[t]
      BY <1>5 DEF Availables
    <3>4. SumFunction(Availables(m)) = Availables(m)[s] + SumFunction(Availables(n))
      BY <3>1, <3>2, <3>3, SumDrop
    <3>5. QED BY <3>1, <3>2, <3>4 DEF Availables
  <2>3. HandedOut(n) \in Int /\ HandedOut(m) = HandedOut(n)
    BY <1>4, <1>10, <2>1, <2>2, AvailablesSummable
  <2>4. QED BY <1>4, <2>1, <2>3 DEF Sound, Balanced
<1>13. Trusty(n) /\ Harmless(m, n) BY <1>4 DEF Sound, Trusty, Harmless
<1>14. Settles(m, n, s) BY <1>4, <1>5, <1>13 DEF Settles
<1>15. QED BY <1>1, <1>4, <1>5, <1>6, <1>7, <1>8, <1>9, <1>11, <1>12, <1>13, <1>14 DEF Sound

\* Tidying up settles.
LEMMA RetiresSettles ==
  ASSUME NEW m \in Locked, NEW n, NEW s, Retires(m, n, s)
  PROVE  Settles(m, n, s)
BY RetiresApart DEF Retires, Settles

\* So do assertions and wakers.
LEMMA AgreeSettles ==
  ASSUME NEW m \in Locked, NEW n, NEW s, Agree(m, n)
  PROVE  Settles(m, n, s)
BY DEF Agree, Settles, SameSlots, Slab

\* Settling twice is settling.
LEMMA SettlesTwice ==
  ASSUME NEW m \in Locked, NEW n, NEW o, NEW s, Settles(m, n, s), Settles(n, o, s)
  PROVE  Settles(m, o, s)
<1>1. Slab(o) \in {Slab(m), Slab(m) \ {s}} /\ Slab(o) \subseteq Slab(n) /\ Slab(n) \subseteq Slab(m)
  BY DEF Settles
<1>2. QED BY <1>1 DEF Settles, Harmless

\* A released stream is closed, unreferenced and in no queue.
LEMMA ReleasedNowhere ==
  ASSUME NEW m \in Locked, Queues(m), NEW s
  PROVE  IsReleased(m, s) <=>
           /\ StreamClosed(m, s) /\ m.store[s].refs = 0
           /\ ~Queued(m.pendingSend, s) /\ ~Queued(m.pendingCapacity, s)
           /\ ~Queued(m.pendingOpen, s) /\ ~Queued(m.pendingReset, s)
<1> DEFINE S == Slab(m)
           a == m.pendingSend
           b == m.pendingCapacity
           c == m.pendingOpen
           e == m.pendingReset
<1>1. a \in Seq(S) /\ b \in Seq(S) /\ c \in Seq(S) /\ e \in Seq(S) BY DEF Queues, IsQueue
<1> HIDE DEF a, b, c, e, S
<1>2. Queued(((a \o b) \o c) \o e, s) <=> Queued(a, s) \/ Queued(b, s) \/ Queued(c, s) \/ Queued(e, s)
  <2>1. a \o b \in Seq(S) /\ (Queued(a \o b, s) <=> Queued(a, s) \/ Queued(b, s)) BY <1>1, QueuedConcat
  <2>2. (a \o b) \o c \in Seq(S) /\ (Queued((a \o b) \o c, s) <=> Queued(a \o b, s) \/ Queued(c, s))
    BY <1>1, <2>1, QueuedConcat
  <2>3. Queued(((a \o b) \o c) \o e, s) <=> Queued((a \o b) \o c, s) \/ Queued(e, s)
    BY <1>1, <2>2, QueuedConcat
  <2>4. QED BY <2>1, <2>2, <2>3
<1>3. QED BY <1>2 DEF IsReleased, a, b, c, e

\* Queued is the library's Contains.
LEMMA QueuedOrNot ==
  ASSUME NEW q, NEW s
  PROVE  Queued(q, s) = Contains(q, s)
BY DEF Queued

\* The end of an operation on s: a closed stream gives back its slots, and one
\* that nothing refers to leaves the slab.
LEMMA TransitionSound ==
  ASSUME NEW m, NEW rest \in Loose, Sound(m, 0, rest), NEW s \in Slab(m), NEW wasReset \in BOOLEAN,
         wasReset /\ ~Queued(m.pendingReset, s) => Len(m.pendingReset) < m.numReset
  PROVE  LET n == TransitionAfter(m, s, wasReset)
         IN  Sound(n, 0, rest) /\ Settles(m, n, s) /\ Keeps(m, n) /\ Calm(m, n, {})
<1>1. m \in Locked /\ Queues(m) /\ Slots(m) BY DEF Sound
<1>2. CASE ~StreamClosed(m, s)
  <2>1. TransitionAfter(m, s, wasReset) = m BY <1>2, TransitionIdle
  <2>2. Retires(m, m, s) BY <1>1, RetiresNothing
  <2>3. QED BY <1>1, <2>1, <2>2, RetiresSettles, KeepsNothing DEF Steady
<1>3. CASE StreamClosed(m, s)
  <2> DEFINE unlinked ==
               IF StreamClosed(m, s) /\ ~Queued(m.pendingReset, s)
               THEN IF wasReset THEN DecNumReset(Unlink(m, s)) ELSE Unlink(m, s)
               ELSE m
             u == IF StreamClosed(m, s) /\ m.store[s].counted THEN DecNumSend(unlinked, s) ELSE unlinked
             c == Check(u, ~Contains(u.ids, s), "remove")
  <2>1. TransitionAfter(m, s, wasReset) = IF IsReleased(m, s) THEN RemoveFromSlab(c, s) ELSE u
    BY DEF TransitionAfter
  <2>2. /\ Retires(m, unlinked, s) /\ Slots(unlinked) /\ unlinked.store = m.store
        /\ ~Queued(m.pendingReset, s) => ~Queued(unlinked.ids, s)
    <3>1. CASE Queued(m.pendingReset, s)
      BY <1>1, <3>1, RetiresNothing
    <3>2. CASE ~Queued(m.pendingReset, s)
      <4> DEFINE k == Unlink(m, s)
      <4>1. /\ Retires(m, k, s) /\ ~Queued(k.ids, s) /\ k.store = m.store
            /\ k.numSend = m.numSend /\ k.numReset = m.numReset
        BY <1>1, UnlinkRetires
      <4>2. unlinked = IF wasReset THEN DecNumReset(k) ELSE k BY <1>3, <3>2
      <4> HIDE DEF unlinked, k
      <4>3. k \in Locked /\ Queues(k) BY <1>1, <4>1 DEF Retires, Queues
      <4>4. Slots(k)
        <5>1. Counted(k) = Counted(m) BY <4>1 DEF Counted, Slab
        <5>2. QED BY <1>1, <4>1, <5>1 DEF Slots, Retires
      <4>5. CASE wasReset
        <5>1. Len(k.pendingReset) < k.numReset BY <3>2, <4>1, <4>5 DEF Retires
        <5>2. LET n == DecNumReset(k)
              IN  Retires(k, n, s) /\ Slots(n) /\ n.ids = k.ids /\ n.store = k.store
          BY <4>3, <4>4, <5>1, DecNumResetRetires
        <5>3. unlinked = DecNumReset(k) BY <4>2, <4>5
        <5>4. Retires(m, unlinked, s) BY <1>1, <4>1, <5>2, <5>3, RetiresTwice
        <5>5. QED BY <4>1, <5>2, <5>3, <5>4
      <4>6. CASE ~wasReset BY <4>1, <4>2, <4>4, <4>6
      <4>7. QED BY <4>5, <4>6
    <3>3. QED BY <3>1, <3>2
  <2> HIDE DEF unlinked
  <2>3. unlinked \in Locked /\ Queues(unlinked) /\ Slab(unlinked) = Slab(m)
    BY <1>1, <2>2 DEF Retires, Queues
  <2>4. Retires(m, u, s) /\ Slots(u) /\ u.ids = unlinked.ids /\ ~u.store[s].counted
    <3>1. m.store[s].counted \in BOOLEAN BY <1>1, StreamTyped DEF Streams
    <3>2. CASE m.store[s].counted
      <4>1. LET n == DecNumSend(unlinked, s)
            IN  Retires(unlinked, n, s) /\ Slots(n) /\ n.ids = unlinked.ids /\ ~n.store[s].counted
        BY <2>2, <2>3, <3>2, DecNumSendRetires
      <4>2. u = DecNumSend(unlinked, s) BY <1>3, <3>2
      <4>3. Retires(m, u, s) BY <1>1, <2>2, <4>1, <4>2, RetiresTwice
      <4>4. QED BY <4>1, <4>2, <4>3
    <3>3. CASE ~m.store[s].counted
      <4>1. u = unlinked BY <3>3
      <4>2. QED BY <2>2, <3>3, <4>1
    <3>4. QED BY <3>1, <3>2, <3>3
  <2> HIDE DEF u
  <2>5. /\ Sound(u, 0, rest) /\ Slab(u) = Slab(m) /\ StreamClosed(u, s)
        /\ Keeps(m, u) /\ Calm(m, u, {}) /\ Settles(m, u, s)
    BY <1>1, <1>3, <2>4, RetireSound, RetiresSettles
  <2>6. CASE ~IsReleased(m, s) BY <2>1, <2>5, <2>6
  <2>7. CASE IsReleased(m, s)
    <3>1. /\ m.store[s].refs = 0 /\ ~Queued(m.pendingSend, s) /\ ~Queued(m.pendingCapacity, s)
          /\ ~Queued(m.pendingOpen, s) /\ ~Queued(m.pendingReset, s)
      BY <1>1, <2>7, ReleasedNowhere
    <3> DEFINE holds == ~Contains(u.ids, s)
               name == "remove"
    <3>2. holds /\ holds \in BOOLEAN BY <2>2, <2>4, <3>1 DEF Queued
    <3>3. name \in Asserts BY DEF Asserts
    <3>4. c = Check(u, holds, name) OBVIOUS
    <3> HIDE DEF holds, name, c
    <3>5. Agree(u, c) BY <2>5, <3>2, <3>3, <3>4, CheckAgrees DEF Sound
    <3>6. Sound(c, 0, rest) /\ Slab(c) = Slab(u) BY <2>5, <3>5, AgreeSound
    <3>7. /\ StreamClosed(c, s) /\ c.store[s].refs = 0 /\ ~c.store[s].counted
          /\ ~Queued(c.ids, s) /\ ~Queued(c.pendingSend, s) /\ ~Queued(c.pendingCapacity, s)
          /\ ~Queued(c.pendingOpen, s) /\ ~Queued(c.pendingReset, s)
      BY <1>1, <2>2, <2>4, <2>5, <3>1, <3>5 DEF Agree, SameSlots, StreamClosed, Retires, Keeps
    <3> DEFINE n == RemoveFromSlab(c, s)
    <3>8. Sound(n, 0, rest) /\ Settles(c, n, s) /\ Slab(n) = Slab(c) \ {s} /\ n.ids = c.ids
      BY <2>5, <3>6, <3>7, RemoveSound
    <3>9. TransitionAfter(m, s, wasReset) = n BY <2>1, <2>7
    <3> HIDE DEF n
    <3>10. c \in Locked /\ u \in Locked BY <2>5, <3>6 DEF Sound
    <3>11. Settles(m, n, s)
      <4>1. Settles(u, c, s) BY <3>5, <3>10, AgreeSettles
      <4>2. Settles(m, c, s) BY <1>1, <2>5, <4>1, SettlesTwice
      <4>3. QED BY <1>1, <3>8, <4>2, SettlesTwice
    <3>12. Keeps(m, n)
      <4>1. n.ids = u.ids BY <3>5, <3>8 DEF Agree, SameSlots
      <4>2. QED BY <2>4, <2>5, <3>1, <3>6, <3>8, <3>11, <4>1 DEF Settles, Keeps
    <3>13. Calm(m, n, {}) BY <2>5, <3>6, <3>8, <3>11 DEF Settles, Calm
    <3>14. QED BY <3>8, <3>9, <3>11, <3>12, <3>13
  <2>8. QED BY <2>6, <2>7
<1>4. QED BY <1>2, <1>3

\* The end of an operation that counted nothing and let no stream go.
LEMMA SteadyEnds ==
  ASSUME NEW m, NEW rest \in Loose, NEW s \in Slab(m), m \in Locked,
         NEW k, Sound(k, 0, rest), Steady(m, k), NEW E, Calm(m, k, E)
  PROVE  LET n == TransitionAfter(k, s, Queued(m.pendingReset, s))
         IN  /\ Sound(n, 0, rest) /\ Keeps(m, n) /\ Calm(m, n, E) /\ Settles(k, n, s)
<1> DEFINE was == Queued(m.pendingReset, s)
           n == TransitionAfter(k, s, was)
<1>1. s \in Slab(k) /\ k.pendingReset = m.pendingReset BY DEF Steady, SameSlots
<1>2. was \in BOOLEAN BY DEF Queued, Contains
<1>3. was => Queued(k.pendingReset, s) BY <1>1
<1> HIDE DEF was
<1>4. Sound(n, 0, rest) /\ Settles(k, n, s) /\ Keeps(k, n) /\ Calm(k, n, {})
  BY <1>1, <1>2, <1>3, TransitionSound
<1> HIDE DEF n
<1>5. Keeps(m, n) /\ Calm(m, n, E)
  BY <1>4, KeepsTwice, CalmMore DEF Steady
<1>6. QED BY <1>4, <1>5 DEF n, was

\* Popping pending_reset_expired keeps the invariant, and the slot of the
\* stream is still counted.
LEMMA PopResetSound ==
  ASSUME NEW m, NEW rest, Sound(m, 0, rest), m.pendingReset # <<>>
  PROVE  LET n == [m EXCEPT !.pendingReset = Tail(@)]
         IN  /\ Sound(n, 0, rest) /\ Len(n.pendingReset) < n.numReset
             /\ Head(m.pendingReset) \in Slab(n) /\ ~Queued(n.pendingReset, Head(m.pendingReset))
             /\ n.store = m.store /\ n.pendingReset = Tail(m.pendingReset) /\ n.ids = m.ids
             /\ n.pendingSend = m.pendingSend /\ n.pendingCapacity = m.pendingCapacity
             /\ n.pendingOpen = m.pendingOpen /\ n.flow = m.flow /\ n.inFlight = m.inFlight
             /\ n.nextId = m.nextId /\ n.initWindow = m.initWindow /\ n.failed = m.failed
             /\ n.numReset = m.numReset
<1> DEFINE q == Tail(m.pendingReset)
           n == [m EXCEPT !.pendingReset = q]
<1>1. /\ Head(m.pendingReset) \in Slab(m) /\ Len(q) = Len(m.pendingReset) - 1
      /\ IsQueue(q, Slab(m)) /\ ~Queued(q, Head(m.pendingReset))
  BY QueueTail DEF Sound, Queues
<1>2. q \in Seq(Ids)
  <2>1. IsQueue(q, Ids) BY <1>1, StoreTyped, QueueWiden DEF Sound, Locked, Slab
  <2>2. QED BY <2>1 DEF IsQueue
<1>3. [m EXCEPT !.pendingReset = Tail(@)] = n OBVIOUS
<1>4. Len(m.pendingReset) \in Nat /\ m.numReset \in Int /\ Len(m.pendingReset) <= m.numReset
  BY DEF Sound, Slots, Locked
<1> HIDE DEF q
<1>5. /\ n \in Locked /\ n.store = m.store /\ n.pendingReset = q /\ n.ids = m.ids
      /\ n.pendingSend = m.pendingSend /\ n.pendingCapacity = m.pendingCapacity
      /\ n.pendingOpen = m.pendingOpen /\ n.flow = m.flow /\ n.inFlight = m.inFlight
      /\ n.nextId = m.nextId /\ n.initWindow = m.initWindow /\ n.failed = m.failed
      /\ n.numSend = m.numSend /\ n.numReset = m.numReset
  BY <1>2 DEF Sound, Locked
<1> HIDE DEF n
<1>6. Queues(n) /\ Findable(n) /\ Working(n)
  BY <1>1, <1>5 DEF Sound, Queues, Findable, Working, Slab, StreamClosed
<1>7. Slots(n)
  <2>1. Counted(n) = Counted(m) BY <1>5 DEF Counted, Slab
  <2>2. Len(q) <= m.numReset BY <1>1, <1>4
  <2>3. QED BY <1>5, <2>1, <2>2 DEF Sound, Slots
<1>8. Fine(n, rest) /\ Returnable(n, rest) /\ Trusty(n)
  BY <1>5 DEF Sound, Fine, Held, Slab, Returnable, Trusty
<1>9. Balanced(n, 0)
  <2>1. HandedOut(n) = HandedOut(m) BY <1>5 DEF HandedOut, Slab
  <2>2. QED BY <1>5, <2>1 DEF Sound, Balanced
<1>10. Sound(n, 0, rest) BY <1>5, <1>6, <1>7, <1>8, <1>9 DEF Sound
<1>11. Len(n.pendingReset) < n.numReset BY <1>1, <1>4, <1>5
<1>12. QED BY <1>1, <1>3, <1>5, <1>10, <1>11 DEF Slab, q

\* A stream that was kept for late frames is forgotten.
LEMMA ExpireSound ==
  ASSUME NEW m, NEW rest \in Loose, Sound(m, 0, rest), m.pendingReset # <<>>
  PROVE  LET s == Head(m.pendingReset)
             n == TransitionAfter([m EXCEPT !.pendingReset = Tail(@)], s, TRUE)
         IN  /\ Sound(n, 0, rest) /\ Keeps(m, n) /\ Calm(m, n, {})
             /\ s \in Slab(m) /\ Slab(m) \ {s} \subseteq Slab(n) /\ n.pendingReset = Tail(m.pendingReset)
             /\ \A t \in Slab(n) : n.store[t].state = m.store[t].state
<1> DEFINE s == Head(m.pendingReset)
           k == [m EXCEPT !.pendingReset = Tail(@)]
           n == TransitionAfter(k, s, TRUE)
<1>1. /\ Sound(k, 0, rest) /\ Len(k.pendingReset) < k.numReset /\ s \in Slab(k)
      /\ k.store = m.store /\ k.pendingReset = Tail(m.pendingReset) /\ k.ids = m.ids
      /\ k.flow = m.flow /\ k.inFlight = m.inFlight
      /\ k.nextId = m.nextId
  BY PopResetSound
<1> HIDE DEF s, k
<1>2. Sound(n, 0, rest) /\ Settles(k, n, s) /\ Keeps(k, n) /\ Calm(k, n, {})
  BY <1>1, TransitionSound
<1> HIDE DEF n
<1>3. Keeps(m, n) BY <1>1, <1>2 DEF Keeps, Slab
<1>4. Calm(m, n, {}) BY <1>1, <1>2 DEF Calm
<1>5. Slab(k) = Slab(m) BY <1>1 DEF Slab
<1>6. QED BY <1>1, <1>2, <1>3, <1>4, <1>5 DEF s, k, n, Settles

\* Keeping a reset stream takes a slot and keeps the invariant.
LEMMA PushResetSound ==
  ASSUME NEW m, NEW rest, Sound(m, 0, rest), NEW s \in Slab(m), ~Queued(m.pendingReset, s),
         CanIncNumReset(m)
  PROVE  LET n == [m EXCEPT !.numReset = @ + 1, !.pendingReset = Append(@, s)]
         IN  Sound(n, 0, rest) /\ Keeps(m, n) /\ Calm(m, n, {}) /\ Slab(n) = Slab(m)
<1> DEFINE q == Append(m.pendingReset, s)
           c == m.numReset + 1
           n == [m EXCEPT !.numReset = c, !.pendingReset = q]
<1>1. IsQueue(q, Slab(m)) /\ Len(q) = Len(m.pendingReset) + 1
  BY QueueAppend DEF Sound, Queues
<1>2. q \in Seq(Ids)
  <2>1. IsQueue(q, Ids) BY <1>1, StoreTyped, QueueWiden DEF Sound, Locked, Slab
  <2>2. QED BY <2>1 DEF IsQueue
<1>3. [m EXCEPT !.numReset = @ + 1, !.pendingReset = Append(@, s)] = n OBVIOUS
<1>4. /\ Len(m.pendingReset) \in Nat /\ m.numReset \in Int /\ Len(m.pendingReset) <= m.numReset
      /\ MaxReset \in Nat /\ m.numReset < MaxReset
  BY SendAssumption DEF Sound, Slots, Locked, CanIncNumReset
<1>5. c \in Int /\ Len(q) <= c /\ c <= MaxReset BY <1>1, <1>4
<1> HIDE DEF q, c
<1>6. /\ n \in Locked /\ n.store = m.store /\ n.pendingReset = q /\ n.ids = m.ids
      /\ n.pendingSend = m.pendingSend /\ n.pendingCapacity = m.pendingCapacity
      /\ n.pendingOpen = m.pendingOpen /\ n.flow = m.flow /\ n.inFlight = m.inFlight
      /\ n.nextId = m.nextId /\ n.failed = m.failed
      /\ n.numSend = m.numSend /\ n.numReset = c
  BY <1>2, <1>5 DEF Sound, Locked
<1> HIDE DEF n
<1>7. Queues(n) /\ Findable(n) /\ Working(n)
  BY <1>1, <1>6 DEF Sound, Queues, Findable, Working, Slab, StreamClosed
<1>8. Slots(n)
  <2>1. Counted(n) = Counted(m) BY <1>6 DEF Counted, Slab
  <2>2. QED BY <1>5, <1>6, <2>1 DEF Sound, Slots
<1>9. Fine(n, rest) /\ Returnable(n, rest) /\ Trusty(n)
  BY <1>6 DEF Sound, Fine, Held, Slab, Returnable, Trusty
<1>10. Balanced(n, 0)
  <2>1. HandedOut(n) = HandedOut(m) BY <1>6 DEF HandedOut, Slab
  <2>2. QED BY <1>6, <2>1 DEF Sound, Balanced
<1>11. Keeps(m, n) /\ Calm(m, n, {}) BY <1>6 DEF Keeps, Calm, Slab
<1>12. Sound(n, 0, rest) BY <1>6, <1>7, <1>8, <1>9, <1>10 DEF Sound
<1>13. QED BY <1>3, <1>6, <1>11, <1>12 DEF Slab

\* enqueue_reset_expiration keeps the invariant, with or without evicting the
\* oldest stream.
LEMMA EnqueueSound ==
  ASSUME NEW m, NEW rest \in Loose, Sound(m, 0, rest), NEW s \in Slab(m)
  PROVE  LET n == EnqueueResetExpiration(m, s)
         IN  /\ Sound(n, 0, rest) /\ Keeps(m, n) /\ Calm(m, n, {}) /\ s \in Slab(n)
             /\ Queued(m.pendingReset, s) => n = m
<1> DEFINE oldest == Head(m.pendingReset)
           e == IF ~CanIncNumReset(m) /\ m.pendingReset # <<>>
                THEN TransitionAfter([m EXCEPT !.pendingReset = Tail(@)], oldest, TRUE)
                ELSE m
           n == EnqueueResetExpiration(m, s)
<1>1. n = IF ~IsLocalReset(m.store[s].state) \/ Queued(m.pendingReset, s) THEN m
          ELSE IF CanIncNumReset(e)
               THEN [e EXCEPT !.numReset = @ + 1, !.pendingReset = Append(@, s)]
               ELSE e
  BY DEF EnqueueResetExpiration
<1>2. m \in Locked /\ Keeps(m, m) /\ Calm(m, m, {}) BY KeepsNothing DEF Sound, Steady
<1>3. CASE ~IsLocalReset(m.store[s].state) \/ Queued(m.pendingReset, s)
  BY <1>1, <1>2, <1>3
<1>4. CASE IsLocalReset(m.store[s].state) /\ ~Queued(m.pendingReset, s)
  <2>1. /\ Sound(e, 0, rest) /\ Keeps(m, e) /\ Calm(m, e, {}) /\ s \in Slab(e)
        /\ ~Queued(e.pendingReset, s)
    <3>1. CASE ~CanIncNumReset(m) /\ m.pendingReset # <<>>
      <4>1. e = TransitionAfter([m EXCEPT !.pendingReset = Tail(@)], oldest, TRUE) BY <3>1
      <4>2. /\ Queued(m.pendingReset, oldest)
            /\ \A t : Queued(Tail(m.pendingReset), t) => Queued(m.pendingReset, t)
        BY <3>1, QueueTail DEF Sound, Queues
      <4>3. /\ Sound(e, 0, rest) /\ Keeps(m, e) /\ Calm(m, e, {})
            /\ Slab(m) \ {oldest} \subseteq Slab(e) /\ e.pendingReset = Tail(m.pendingReset)
        BY <3>1, <4>1, ExpireSound
      <4>4. QED BY <1>4, <4>2, <4>3
    <3>2. CASE ~(~CanIncNumReset(m) /\ m.pendingReset # <<>>)
      <4>1. e = m BY <3>2
      <4>2. QED BY <1>2, <1>4, <4>1
    <3>3. QED BY <3>1, <3>2
  <2> HIDE DEF e
  <2>2. CASE ~CanIncNumReset(e) BY <1>1, <1>4, <2>1, <2>2
  <2>3. CASE CanIncNumReset(e)
    <3>1. n = [e EXCEPT !.numReset = @ + 1, !.pendingReset = Append(@, s)] BY <1>1, <1>4, <2>3
    <3> HIDE DEF n
    <3>2. Sound(n, 0, rest) /\ Keeps(e, n) /\ Calm(e, n, {}) /\ Slab(n) = Slab(e)
      BY <2>1, <2>3, <3>1, PushResetSound
    <3>3. Keeps(m, n) /\ Calm(m, n, {}) BY <2>1, <3>2, KeepsTwice
    <3>4. QED BY <1>4, <2>1, <3>2, <3>3 DEF n
  <2>4. QED BY <2>2, <2>3
<1>5. QED BY <1>3, <1>4

\* The end of an operation that may have kept s for late frames.
LEMMA KeptEnds ==
  ASSUME NEW m \in Locked, NEW rest \in Loose, NEW s \in Slab(m),
         NEW k, Sound(k, 0, rest), Keeps(m, k), NEW E, Calm(m, k, E), s \in Slab(k),
         Queued(m.pendingReset, s) => Queued(k.pendingReset, s)
  PROVE  LET n == TransitionAfter(k, s, Queued(m.pendingReset, s))
         IN  Sound(n, 0, rest) /\ Keeps(m, n) /\ Calm(m, n, E)
<1> DEFINE was == Queued(m.pendingReset, s)
           n == TransitionAfter(k, s, was)
<1>1. was \in BOOLEAN /\ (was => Queued(k.pendingReset, s)) BY DEF Queued, Contains
<1> HIDE DEF was
<1>2. Sound(n, 0, rest) /\ Keeps(k, n) /\ Calm(k, n, {}) BY <1>1, TransitionSound
<1> HIDE DEF n
<1>3. Keeps(m, n) /\ Calm(m, n, E) BY <1>2, KeepsTwice, CalmMore
<1>4. QED BY <1>2, <1>3 DEF n, was

\* Actions::send_reset keeps the invariant.
LEMMA ActionsSendResetSound ==
  ASSUME NEW m, NEW rest \in Loose, Sound(m, 0, rest), NEW s \in Slab(m), rest.new[s] = 0
  PROVE  LET n == ActionsSendReset(m, s)
         IN  Sound(n, 0, rest) /\ Keeps(m, n) /\ Calm(m, n, {})
<1> DEFINE k == SendReset(m, s)
           e == EnqueueResetExpiration(k, s)
           n == TransitionAfter(e, s, Queued(m.pendingReset, s))
<1>1. ActionsSendReset(m, s) = n BY DEF ActionsSendReset, Transition
<1>2. Sound(k, 0, rest) /\ Steady(m, k) /\ Calm(m, k, {}) BY SendResetSound
<1> HIDE DEF k
<1>3. s \in Slab(k) /\ k.pendingReset = m.pendingReset /\ Keeps(m, k) BY <1>2 DEF Steady, SameSlots
<1>4. /\ Sound(e, 0, rest) /\ Keeps(k, e) /\ Calm(k, e, {}) /\ s \in Slab(e)
      /\ Queued(k.pendingReset, s) => e = k
  BY <1>2, <1>3, EnqueueSound
<1> HIDE DEF e
<1>5. Keeps(m, e) /\ Calm(m, e, {}) BY <1>2, <1>3, <1>4, KeepsTwice
<1>6. Queued(m.pendingReset, s) => Queued(e.pendingReset, s) BY <1>3, <1>4
<1>7. m \in Locked BY DEF Sound
<1>8. QED BY <1>1, <1>4, <1>5, <1>6, <1>7, KeptEnds

\* maybe_cancel keeps the invariant when what the stream reserved is
\* accounted for.
LEMMA MaybeCancelSound ==
  ASSUME NEW m, NEW rest \in Loose, Sound(m, 0, rest), NEW s \in Slab(m),
         Prudent => ReserveSizes = {} \/ m.store[s].refs # 0
  PROVE  LET n == MaybeCancel(m, s)
         IN  /\ Sound(n, 0, rest) /\ Keeps(m, n) /\ Calm(m, n, {}) /\ s \in Slab(n)
             /\ Queued(m.pendingReset, s) => Queued(n.pendingReset, s)
<1> DEFINE k == ScheduleImplicitReset(m, s)
           e == EnqueueResetExpiration(k, s)
           n == MaybeCancel(m, s)
<1>1. m \in Locked BY DEF Sound
<1>2. CASE m.store[s].refs = 0 /\ ~IsClosed(m.store[s].state)
  <2>1. n = e BY <1>2 DEF MaybeCancel
  <2>2. Sound(k, 0, rest) /\ Steady(m, k) /\ Calm(m, k, {}) BY <1>2, ImplicitResetSound
  <2> HIDE DEF k, n
  <2>3. s \in Slab(k) /\ k.pendingReset = m.pendingReset /\ Keeps(m, k) BY <2>2 DEF Steady, SameSlots
  <2>4. /\ Sound(e, 0, rest) /\ Keeps(k, e) /\ Calm(k, e, {}) /\ s \in Slab(e)
        /\ Queued(k.pendingReset, s) => e = k
    BY <2>2, <2>3, EnqueueSound
  <2> HIDE DEF e
  <2>5. Keeps(m, e) /\ Calm(m, e, {}) BY <2>2, <2>3, <2>4, KeepsTwice
  <2>6. QED BY <2>1, <2>3, <2>4, <2>5 DEF n
<1>3. CASE ~(m.store[s].refs = 0 /\ ~IsClosed(m.store[s].state))
  <2>1. n = m BY <1>3 DEF MaybeCancel
  <2>2. QED BY <1>1, <2>1, KeepsNothing DEF Steady
<1>4. QED BY <1>2, <1>3

\* One reference to s fewer, and the stream perhaps with it.
Releases(m, n, s) ==
  /\ n \in Locked /\ Slab(n) \subseteq Slab(m) /\ n.nextId = m.nextId
  /\ \A t \in Slab(m) : t \in Slab(n) \/ m.store[t].refs = (IF t = s THEN 1 ELSE 0)
  /\ \A t \in Slab(n) :
       /\ n.store[t].refs = m.store[t].refs - (IF t = s THEN 1 ELSE 0)
       /\ Queued(n.ids, t) => Queued(m.ids, t)
  /\ n.inFlight = m.inFlight \/ (m.inFlight \in Ids /\ n.inFlight = Dropped)

\* A stream with other references is a stream.
LEMMA RefsPut ==
  ASSUME NEW w \in Streams, NEW c \in Int, NEW r, r = [w EXCEPT !.refs = c]
  PROVE  /\ r \in Streams /\ r.refs = c /\ r.counted = w.counted /\ r.state = w.state
         /\ r.pending = w.pending /\ r.buffered = w.buffered /\ r.requested = w.requested
         /\ r.flow = w.flow
BY DEF Streams

\* The invariant does not depend on how many references a stream has.
LEMMA RefsSound ==
  ASSUME NEW m, NEW rest, Sound(m, 0, rest), NEW s \in Slab(m), NEW c \in Int
  PROVE  LET r == [m.store[s] EXCEPT !.refs = c]
             n == [m EXCEPT !.store = [m.store EXCEPT ![s] = r]]
         IN  /\ Sound(n, 0, rest) /\ Slab(n) = Slab(m) /\ n.ids = m.ids /\ n.flow = m.flow
             /\ n.store[s] = r /\ \A t \in Slab(m) : t # s => n.store[t] = m.store[t]
             /\ n.nextId = m.nextId /\ n.inFlight = m.inFlight /\ n.pendingReset = m.pendingReset
             /\ n.pendingOpen = m.pendingOpen /\ n.pendingSend = m.pendingSend
             /\ n.pendingCapacity = m.pendingCapacity /\ n.failed = m.failed
             /\ n.numSend = m.numSend /\ n.numReset = m.numReset /\ n.initWindow = m.initWindow
             /\ n.maxSend = m.maxSend
<1> DEFINE w == m.store[s]
           r == [m.store[s] EXCEPT !.refs = c]
           new == [m.store EXCEPT ![s] = r]
           n == [m EXCEPT !.store = new]
<1>1. m \in Locked /\ w \in Streams BY StreamTyped DEF Sound
<1>2. /\ r \in Streams /\ r.refs = c /\ r.counted = w.counted /\ r.state = w.state
      /\ r.pending = w.pending /\ r.buffered = w.buffered /\ r.requested = w.requested
      /\ r.flow = w.flow
  BY <1>1, RefsPut
<1> HIDE DEF r
<1>3. /\ new \in Stores /\ DOMAIN new = DOMAIN m.store /\ new[s] = r
      /\ \A t \in DOMAIN m.store : t # s => new[t] = m.store[t]
  BY <1>1, <1>2, StorePut DEF Slab, Locked
<1> HIDE DEF new
<1>4. /\ n \in Locked /\ n.store = new /\ n.failed = m.failed /\ n.ids = m.ids
      /\ n.pendingSend = m.pendingSend /\ n.pendingCapacity = m.pendingCapacity
      /\ n.pendingOpen = m.pendingOpen /\ n.pendingReset = m.pendingReset
      /\ n.flow = m.flow /\ n.inFlight = m.inFlight /\ n.nextId = m.nextId
      /\ n.initWindow = m.initWindow /\ n.numSend = m.numSend /\ n.numReset = m.numReset
      /\ n.maxSend = m.maxSend
  BY <1>1, <1>3 DEF Locked
<1> HIDE DEF n
<1>5. Slab(n) = Slab(m) /\ n.store[s] = r /\ \A t \in Slab(m) : t # s => n.store[t] = m.store[t]
  BY <1>3, <1>4 DEF Slab
<1>6. \A t \in Slab(m) :
        /\ n.store[t].counted = m.store[t].counted /\ n.store[t].state = m.store[t].state
        /\ n.store[t].flow = m.store[t].flow /\ n.store[t].pending = m.store[t].pending
        /\ n.store[t].buffered = m.store[t].buffered /\ n.store[t].requested = m.store[t].requested
  BY <1>2, <1>5
<1>7. Queues(n) /\ Findable(n) /\ Working(n)
  BY <1>4, <1>5, <1>6 DEF Sound, Queues, Findable, Working, Busy, StreamClosed
<1>8. Slots(n)
  <2>1. Counted(n) = Counted(m) BY <1>5, <1>6 DEF Counted
  <2>2. QED BY <1>4, <2>1 DEF Sound, Slots
<1>9. Fine(n, rest) /\ Returnable(n, rest) /\ Trusty(n)
  BY <1>4, <1>5, <1>6 DEF Sound, Fine, StreamFine, Held, Returnable, Trusty
<1>10. Balanced(n, 0)
  <2>1. Availables(n) = Availables(m) BY <1>5, <1>6 DEF Availables
  <2>2. HandedOut(n) = HandedOut(m) BY <2>1 DEF HandedOut, Availables
  <2>3. QED BY <1>4, <2>2 DEF Sound, Balanced
<1>11. Sound(n, 0, rest) BY <1>4, <1>7, <1>8, <1>9, <1>10 DEF Sound
<1>12. QED BY <1>4, <1>5, <1>11 DEF r, n, new

\* drop_stream_ref keeps the invariant, and perhaps forgets the stream.
LEMMA DropStreamRefSound ==
  ASSUME NEW m, NEW rest \in Loose, Sound(m, 0, rest), NEW s \in Slab(m),
         Prudent => ReserveSizes = {} \/ m.store[s].refs # 1
  PROVE  LET n == DropStreamRef(m, s)
         IN  Sound(n, 0, rest) /\ Releases(m, n, s) /\ Calm(m, n, {})
<1> DEFINE c == m.store[s].refs - 1
           r == [m.store[s] EXCEPT !.refs = c]
           k == [m EXCEPT !.store = [m.store EXCEPT ![s] = r]]
           w == IF k.store[s].refs = 0 /\ StreamClosed(m, s) THEN Wake(k) ELSE k
           e == MaybeCancel(w, s)
           n == TransitionAfter(e, s, Queued(w.pendingReset, s))
<1>1. m \in Locked /\ m.store[s] \in Streams BY StreamTyped DEF Sound
<1>2. DropStreamRef(m, s) = n
  <2>1. [m EXCEPT !.store[s].refs = @ - 1] = k BY <1>1 DEF Locked
  <2>2. QED BY <2>1 DEF DropStreamRef, Transition
<1>3. c \in Int BY <1>1 DEF Streams
<1> HIDE DEF c
<1>4. r.refs = c /\ r.flow = m.store[s].flow /\ r.state = m.store[s].state BY <1>1, <1>3, RefsPut
<1>5. /\ Sound(k, 0, rest) /\ Slab(k) = Slab(m) /\ k.ids = m.ids /\ k.flow = m.flow
      /\ k.store[s] = r /\ \A t \in Slab(m) : t # s => k.store[t] = m.store[t]
      /\ k.nextId = m.nextId /\ k.inFlight = m.inFlight
  BY <1>3, RefsSound
<1> HIDE DEF k, r
<1>6. Sound(w, 0, rest) /\ Slab(w) = Slab(k) /\ Agree(k, w)
  <2>1. k \in Locked BY <1>5 DEF Sound
  <2>2. Agree(k, k) BY <2>1 DEF Agree, SameSlots, Harmless
  <2>3. Agree(k, Wake(k)) BY <2>1, WakeAgrees
  <2>4. QED BY <1>5, <2>2, <2>3, AgreeSound
<1> HIDE DEF w
<1>7. w.store = k.store /\ w.ids = k.ids /\ w.flow = k.flow /\ w.nextId = k.nextId /\ w.inFlight = k.inFlight
  BY <1>6 DEF Agree, SameSlots
<1>8. Prudent => ReserveSizes = {} \/ w.store[s].refs # 0
  <2>1. m.store[s].refs # 1 => c # 0
    <3>1. m.store[s].refs \in Int BY <1>1 DEF Streams
    <3>2. QED BY <3>1 DEF c
  <2>2. QED BY <1>4, <1>5, <1>7, <2>1
<1>9. /\ Sound(e, 0, rest) /\ Keeps(w, e) /\ Calm(w, e, {}) /\ s \in Slab(e)
      /\ Queued(w.pendingReset, s) => Queued(e.pendingReset, s)
  BY <1>5, <1>6, <1>8, MaybeCancelSound
<1> HIDE DEF e
<1>10. Sound(n, 0, rest) /\ Keeps(w, n) /\ Calm(w, n, {})
  <2>1. w \in Locked BY <1>6 DEF Sound
  <2>2. QED BY <1>5, <1>6, <1>9, <2>1, KeptEnds
<1> HIDE DEF n
<1>11. Calm(m, n, {})
  <2>1. \A t \in Slab(m) : w.store[t].flow = m.store[t].flow /\ w.store[t].state = m.store[t].state
    BY <1>4, <1>5, <1>7
  <2>2. QED BY <1>5, <1>6, <1>7, <1>10, <2>1 DEF Calm, Keeps
<1>12. Releases(m, n, s)
  <2>1. \A t \in Slab(m) : w.store[t].refs = IF t = s THEN c ELSE m.store[t].refs
    BY <1>4, <1>5, <1>7
  <2>2. \A t \in Slab(m) : m.store[t].refs \in Int BY <1>1, StreamTyped DEF Streams
  <2>3. \A t \in Slab(m) : w.store[t].refs = m.store[t].refs - (IF t = s THEN 1 ELSE 0)
    BY <2>1, <2>2 DEF c
  <2>4. Slab(w) = Slab(m) /\ w.nextId = m.nextId /\ w.inFlight = m.inFlight /\ w.ids = m.ids
    BY <1>5, <1>6, <1>7
  <2>5. \A t \in Slab(m) : t \in Slab(n) \/ w.store[t].refs = 0 BY <1>10, <2>4 DEF Keeps
  <2>6. \A t \in Slab(m) : w.store[t].refs = 0 => m.store[t].refs = (IF t = s THEN 1 ELSE 0)
    BY <2>2, <2>3
  <2>7. \A t \in Slab(n) : n.store[t].refs = w.store[t].refs BY <1>10 DEF Keeps
  <2>8. QED BY <1>10, <2>3, <2>4, <2>5, <2>6, <2>7 DEF Keeps, Releases
<1>13. QED BY <1>2, <1>10, <1>11, <1>12

-----------------------------------------------------------------------------
(* Sending.                                                                  *)

\* A frame at the end of its stream's queue, whose bytes were counted before.
LEMMA AppendSound ==
  ASSUME NEW m, NEW rest \in Loose, Sound(m, 0, rest), NEW s \in Slab(m), Queued(m.ids, s),
         NEW f \in SendFrames, NEW left \in Loose, left.codec = rest.codec,
         \A t \in Ids : t # s => left.new[t] = rest.new[t], left.new[s] + f.len = rest.new[s],
         NEW n, Touches(m, n, s), n.flow = m.flow, n.inFlight = m.inFlight,
         n.store[s] = [m.store[s] EXCEPT !.pending = Append(@, f)]
  PROVE  Sound(n, 0, left) /\ Steady(m, n) /\ Calm(m, n, {})
<1> DEFINE st == m.store[s]
           r == n.store[s]
           p == Append(st.pending, f)
<1>1. /\ m \in Locked /\ Queues(m) /\ s \in Ids /\ st \in Streams
      /\ StreamFine(st, Held(m, rest, s)) /\ Held(m, rest, s) \in Nat
      /\ Bytes(st.pending) \in Nat /\ m.flow \in Flows /\ st.flow \in Flows
      /\ st.buffered \in Nat
  BY StreamFacts
<1>2. st.pending \in Seq(SendFrames) BY <1>1 DEF Streams
<1>3. p \in Seq(SendFrames) /\ Bytes(p) = Bytes(st.pending) + f.len /\ p # <<>> BY <1>2, BytesAppend
<1>4. r = [st EXCEPT !.pending = p] OBVIOUS
<1> HIDE DEF p
<1>5. /\ r.pending = p /\ r.state = st.state /\ r.flow = st.flow /\ r.buffered = st.buffered
      /\ r.requested = st.requested
  BY <1>1, <1>4 DEF Streams
<1>6. Held(n, left, s) + f.len = Held(m, rest, s) /\ Held(n, left, s) \in Nat
  <2>1. rest.codec \in Nat /\ left.new[s] \in Nat /\ f.len \in Nat BY <1>1, FrameLen DEF Loose
  <2>2. QED BY <2>1 DEF Held
<1>7. StreamFine(r, Held(n, left, s))
  <2>1. st.buffered = Bytes(p) + Held(n, left, s)
    <3>1. f.len \in Nat BY FrameLen
    <3>2. st.buffered = Bytes(st.pending) + Held(m, rest, s) BY <1>1 DEF StreamFine
    <3>3. QED BY <1>1, <1>3, <1>6, <3>1, <3>2
  <2>2. QED BY <1>1, <1>5, <2>1 DEF StreamFine
<1>8. Busy(r) BY <1>3, <1>5 DEF Busy
<1>9. Moves(m.flow, n.flow, st.flow, r.flow, 0, 0)
  BY <1>1, <1>5 DEF Moves, Sound, Balanced
<1>10. \A t \in Slab(m) : t # s => Held(n, left, t) = Held(m, rest, t)
  BY <1>1, StreamTyped DEF Held
<1>11. Sound(n, 0, left)
  <2> DEFINE z == 0
  <2>1. z \in Int /\ Sound(m, z, rest) /\ Moves(m.flow, n.flow, st.flow, r.flow, z, z) BY <1>9
  <2> HIDE DEF z
  <2>2. Queued(m.ids, s) \/ StreamClosed(n, s) OBVIOUS
  <2>3. Queued(n.pendingSend, s) \/ Queued(m.pendingOpen, s) => Busy(n.store[s]) BY <1>8
  <2>4. Sound(n, z, left) BY <1>7, <1>10, <2>1, <2>2, <2>3, TouchMoves
  <2>5. QED BY <2>4 DEF z
<1>12. Steady(m, n) /\ Calm(m, n, {}) BY <1>1, <1>5, TouchesSteady
<1>13. QED BY <1>11, <1>12

\* A stream that can send is still linked.
LEMMA StreamingIsFound ==
  ASSUME NEW m, Findable(m), NEW s \in Slab(m), IsSendStreaming(m.store[s].state)
  PROVE  Queued(m.ids, s)
BY StreamingIsOpen DEF Findable, StreamClosed

\* send_trailers, between the lookup of the stream and the end of the call.
LEMMA TrailersSound ==
  ASSUME NEW m, NEW rest \in Loose, Sound(m, 0, rest), NEW s \in Slab(m),
         IsSendStreaming(m.store[s].state)
  PROVE  LET n == ReserveCapacity(
                    QueueFrame([m EXCEPT !.store[s].state = SendClose(@)], s,
                               Frame("TRAILERS", 0, TRUE)), s, 0)
         IN  Sound(n, 0, rest) /\ Steady(m, n) /\ Calm(m, n, {})
<1> DEFINE f == Frame("TRAILERS", 0, TRUE)
           k == QueueFrame(m, s, f)
           c == QueueFrame([m EXCEPT !.store[s].state = SendClose(@)], s, f)
           n == ReserveCapacity(c, s, 0)
<1>1. m \in Locked /\ Queues(m) /\ m.store[s] \in Streams /\ s \in Ids BY StreamTyped DEF Sound
<1>2. f \in SendFrames /\ f.len = 0
  BY SendAssumption DEF Frame, SendFrames, FrameTypes
<1>3. /\ Touches(m, k, s) /\ k.flow = m.flow /\ k.inFlight = m.inFlight
      /\ k.store[s] = [m.store[s] EXCEPT !.pending = Append(@, f)]
  BY <1>1, <1>2, QueueFrameTouches
<1>4. c = [k EXCEPT !.store[s].state = SendClose(@)]
  <2> DEFINE x == SendClose(m.store[s].state)
             p == Append(m.store[s].pending, f)
             a == [m.store[s] EXCEPT !.state = x]
             b == [m.store[s] EXCEPT !.pending = p]
             q == PushOnce(m.pendingSend, s)
             ma == [m EXCEPT !.store = [m.store EXCEPT ![s] = a]]
             mb == [m EXCEPT !.store = [m.store EXCEPT ![s] = b]]
             both == [m EXCEPT !.store = [m.store EXCEPT ![s] = [a EXCEPT !.pending = p]]]
  <2>1. [m EXCEPT !.store[s].state = SendClose(@)] = ma BY <1>1 DEF Locked
  <2>2. /\ a \in [state : {x}, counted : BOOLEAN, refs : Int, flow : Flows,
                  requested : Int, buffered : Int, pending : Seq(SendFrames)]
        /\ a.pending = m.store[s].pending /\ b.state = m.store[s].state
        /\ [a EXCEPT !.pending = p] = [b EXCEPT !.state = x]
    BY <1>1 DEF Streams
  <2>3. ma.store[s] = a /\ mb.store[s] = b /\ ma.pendingOpen = m.pendingOpen /\ ma.pendingSend = m.pendingSend
        /\ mb.pendingOpen = m.pendingOpen /\ mb.pendingSend = m.pendingSend
    BY <1>1 DEF Locked, Slab
  <2>4. [ma EXCEPT !.store[s].pending = Append(@, f)] = both
    <3>1. [ma EXCEPT !.store[s].pending = Append(@, f)] = [ma EXCEPT !.store = [ma.store EXCEPT ![s] = [a EXCEPT !.pending = p]]]
      BY <1>1, <2>2, <2>3 DEF Locked
    <3>2. ma.store = [m.store EXCEPT ![s] = a] BY <1>1 DEF Locked
    <3> DEFINE ab == [a EXCEPT !.pending = p]
    <3>3. both = [m EXCEPT !.store = [m.store EXCEPT ![s] = ab]] OBVIOUS
    <3> HIDE DEF a, p, ab, both
    <3>4. [ma EXCEPT !.store = [ma.store EXCEPT ![s] = ab]] = [m EXCEPT !.store = [m.store EXCEPT ![s] = ab]]
      BY <1>1, <3>2 DEF Locked
    <3>5. QED BY <3>1, <3>3, <3>4 DEF ab
  <2>5. [m EXCEPT !.store[s].pending = Append(@, f)] = mb BY <1>1 DEF Locked
  <2>6. c = ScheduleSend(both, s) /\ k = ScheduleSend(mb, s)
    BY <2>1, <2>4, <2>5 DEF QueueFrame
  <2>7. both = [mb EXCEPT !.store[s].state = SendClose(@)]
    <3>1. [mb EXCEPT !.store[s].state = SendClose(@)] = [mb EXCEPT !.store = [mb.store EXCEPT ![s] = [b EXCEPT !.state = x]]]
      BY <1>1, <2>2, <2>3 DEF Locked
    <3>2. mb.store = [m.store EXCEPT ![s] = b] BY <1>1 DEF Locked
    <3>3. [a EXCEPT !.pending = p] = [b EXCEPT !.state = x] BY <2>2
    <3> DEFINE ab == [b EXCEPT !.state = x]
    <3>4. both = [m EXCEPT !.store = [m.store EXCEPT ![s] = ab]] BY <3>3
    <3> HIDE DEF a, b, p, x, ab
    <3>5. [mb EXCEPT !.store = [mb.store EXCEPT ![s] = ab]] = [m EXCEPT !.store = [m.store EXCEPT ![s] = ab]]
      BY <1>1, <3>2 DEF Locked
    <3>6. QED BY <3>1, <3>4, <3>5 DEF ab
  <2>8. DOMAIN mb = DOMAIN m /\ mb = [i \in DOMAIN m |-> mb[i]] /\ IsSendReady(mb, s) = IsSendReady(both, s)
    BY <1>1, <2>3, <2>7 DEF IsSendReady, Locked
  <2>9. ScheduleSend(both, s) = [ScheduleSend(mb, s) EXCEPT !.store[s].state = SendClose(@)]
    <3>1. mb \in Locked
      <4>1. p \in Seq(SendFrames) BY <1>1, <1>2, BytesAppend DEF Streams
      <4>2. b \in Streams BY <1>1, <4>1 DEF Streams
      <4>3. [m.store EXCEPT ![s] = b] \in Stores BY <1>1, <4>2, StorePut DEF Locked, Slab
      <4>4. QED BY <1>1, <4>3 DEF Locked
    <3> HIDE DEF mb
    <3>2. QED BY <2>7, <2>8, <3>1 DEF ScheduleSend, Wake, Locked, PushOnce
  <2>10. QED BY <2>6, <2>9
<1> HIDE DEF k, c, f
<1>5. Queued(m.ids, s) BY StreamingIsFound DEF Sound
<1>6. Sound(k, 0, rest) /\ Steady(m, k) /\ Calm(m, k, {})
  <2>1. rest.new[s] \in Nat BY <1>1 DEF Loose
  <2>2. rest.new[s] + f.len = rest.new[s] BY <1>2, <2>1
  <2>3. QED BY <1>2, <1>3, <1>5, <2>2, AppendSound
<1>7. s \in Slab(k) /\ k.store[s].state = m.store[s].state BY <1>1, <1>3, <1>6 DEF Steady, Streams
<1>8. LET o == ReserveCapacity([k EXCEPT !.store[s].state = SendClose(@)], s, 0)
      IN  Sound(o, 0, rest) /\ Steady(k, o) /\ Calm(k, o, {})
  BY <1>6, <1>7, CloseSound
<1>9. Sound(n, 0, rest) /\ Steady(k, n) /\ Calm(k, n, {}) BY <1>4, <1>8
<1> HIDE DEF n
<1>10. Steady(m, n) /\ Calm(m, n, {}) BY <1>6, <1>9, SteadyTwice
<1>11. QED BY <1>9, <1>10 DEF n, c, f

\* What send_data queues next: sz bytes of the stream s.
With(rest, s, sz) == [rest EXCEPT !.new = [rest.new EXCEPT ![s] = sz]]

\* With is what it says.
LEMMA WithLoose ==
  ASSUME NEW rest \in Loose, NEW s \in Ids, NEW sz \in Nat
  PROVE  /\ With(rest, s, sz) \in Loose /\ With(rest, s, sz).codec = rest.codec
         /\ With(rest, s, sz).new[s] = sz
         /\ \A t \in Ids : t # s => With(rest, s, sz).new[t] = rest.new[t]
BY DEF Loose, With

\* sz bytes more in the stream w: b of them, and q asked for.
Counts(w, sz, b, q) ==
  b = w.buffered + sz /\ q = (IF w.requested < b THEN b ELSE w.requested)

\* The stream w with b bytes buffered and q asked for.
Counting(w, b, q) == [w EXCEPT !.buffered = b, !.requested = q]

\* The bytes are counted and asked for.
LEMMA CountSound ==
  ASSUME NEW m, NEW rest \in Loose, Sound(m, 0, rest), NEW s \in Slab(m), rest.new[s] = 0,
         IsSendStreaming(m.store[s].state), NEW sz \in Nat,
         NEW b \in Nat, NEW q \in Int, Counts(m.store[s], sz, b, q),
         NEW n, n = Put(m, s, Counting(m.store[s], b, q), m.flow, m.inFlight)
  PROVE  /\ Sound(n, 0, With(rest, s, sz)) /\ Steady(m, n) /\ Calm(m, n, {}) /\ n.inFlight = m.inFlight
         /\ n.store[s] = Counting(m.store[s], b, q)
<1> DEFINE st == m.store[s]
           r == [st EXCEPT !.buffered = b, !.requested = q]
           left == With(rest, s, sz)
<1>1. /\ m \in Locked /\ Queues(m) /\ s \in Ids /\ st \in Streams
      /\ StreamFine(st, Held(m, rest, s)) /\ Held(m, rest, s) \in Nat
      /\ Bytes(st.pending) \in Nat /\ m.flow \in Flows /\ st.flow \in Flows
      /\ st.flow.available \in Int /\ m.flow.available \in Int /\ m.flow.window \in Int
      /\ st.buffered \in Nat /\ st.requested \in Nat
  BY StreamFacts
<1>2. b \in Nat /\ b <= q /\ st.requested <= q
  BY <1>1 DEF Counts
<1>3. /\ left \in Loose /\ left.codec = rest.codec /\ left.new[s] = sz
      /\ \A t \in Ids : t # s => left.new[t] = rest.new[t]
  <2>1. s \in Ids BY <1>1
  <2>2. QED BY <2>1, WithLoose, Zenon
<1>4. b = st.buffered + sz /\ q = IF st.requested < b THEN b ELSE st.requested BY DEF Counts
<1> HIDE DEF left
<1>5. /\ r \in Streams /\ r.counted = st.counted /\ r.refs = st.refs /\ r.state = st.state
      /\ r.pending = st.pending /\ r.buffered = b /\ r.requested = q /\ r.flow = st.flow
  <2>1. b \in Int /\ q \in Int /\ st \in Streams BY <1>1, <1>2
  <2>2. r = [st EXCEPT !.buffered = b, !.requested = q] OBVIOUS
  <2> HIDE DEF r, st
  <2>3. QED BY <2>1, <2>2 DEF Streams
<1>6. n = Put(m, s, r, m.flow, m.inFlight) BY DEF Counting
<1> HIDE DEF r
<1>7. /\ n \in Locked /\ Touches(m, n, s) /\ Slab(n) = Slab(m)
      /\ n.store[s] = r /\ n.flow = m.flow /\ n.inFlight = m.inFlight
      /\ n.pendingSend = m.pendingSend
  BY <1>1, <1>5, <1>6, PutTouches
<1>8. Held(n, left, s) = Held(m, rest, s) + sz
  <2>1. rest.codec \in Nat BY DEF Loose
  <2>2. QED BY <1>3, <1>7, <2>1 DEF Held
<1>9. StreamFine(r, Held(n, left, s))
  <2>1. b = Bytes(st.pending) + Held(n, left, s)
    <3>1. st.buffered = Bytes(st.pending) + Held(m, rest, s) BY <1>1 DEF StreamFine
    <3>2. QED BY <1>1, <1>8, <1>4, <3>1
  <2>2. ~IsSendClosed(st.state) BY StreamingIsOpen
  <2>3. Prudent /\ ReserveSizes = {} => q = b
    <3>1. Prudent /\ ReserveSizes = {} => st.requested = st.buffered BY <1>1 DEF StreamFine
    <3>2. QED BY <1>1, <1>4, <3>1
  <2>4. st.flow.available <= q BY <1>1, <1>2 DEF StreamFine
  <2>5. QED BY <1>1, <1>2, <1>5, <2>1, <2>2, <2>3, <2>4 DEF StreamFine
<1>10. Queued(m.ids, s) BY StreamingIsFound DEF Sound
<1>11. Busy(st) => Busy(r)
  <2>1. st.buffered > 0 => b > 0 BY <1>1, <1>4
  <2>2. QED BY <1>5, <2>1 DEF Busy
<1>12. Queued(n.pendingSend, s) \/ Queued(m.pendingOpen, s) => Busy(n.store[s])
  BY <1>7, <1>11 DEF Sound, Working
<1>13. \A t \in Slab(m) : t # s => Held(n, left, t) = Held(m, rest, t)
  BY <1>1, <1>3, <1>7, StreamTyped DEF Held
<1>14. Sound(n, 0, left)
  <2> DEFINE z == 0
  <2>1. m.flow.available >= 0 \/ ~Prudent BY DEF Sound, Balanced
  <2>2. z \in Int /\ Sound(m, z, rest) /\ Moves(m.flow, n.flow, st.flow, r.flow, z, z)
    BY <1>1, <1>5, <1>7, <2>1 DEF Moves
  <2> HIDE DEF z
  <2>3. Sound(n, z, left) BY <1>3, <1>7, <1>9, <1>10, <1>12, <1>13, <2>2, TouchMoves
  <2>4. QED BY <2>3 DEF z
<1>15. Steady(m, n) /\ Calm(m, n, {}) BY <1>1, <1>5, <1>7, TouchesSteady
<1>16. QED BY <1>7, <1>14, <1>15 DEF r, left, Counting

\* send_data, between the lookup of the stream and the end of the call.
LEMMA PrioritizeDataSound ==
  ASSUME NEW m, NEW rest \in Loose, Sound(m, 0, rest), NEW s \in Slab(m), rest.new[s] = 0,
         IsSendStreaming(m.store[s].state), NEW sz \in DataSizes, sz <= MaxData, NEW eos \in BOOLEAN
  PROVE  LET n == PrioritizeData(m, s, sz, eos)
         IN  Sound(n, 0, rest) /\ Steady(m, n) /\ Calm(m, n, {})
<1> DEFINE st == m.store[s]
           b == st.buffered + sz
           q == IF st.requested < b THEN b ELSE st.requested
           left == With(rest, s, sz)
           counted == [m EXCEPT !.store[s].buffered = b]
           k == Put(m, s, Counting(st, b, q), m.flow, m.inFlight)
           funded == IF st.requested < b
                     THEN TryAssignCapacity([counted EXCEPT !.store[s].requested = b], s)
                     ELSE counted
           closed == IF eos
                     THEN ReserveCapacity([funded EXCEPT !.store[s].state = SendClose(@)], s, 0)
                     ELSE funded
           f == Frame("DATA", sz, eos)
           n == IF closed.store[s].flow.available > 0 \/ closed.store[s].buffered = 0
                THEN QueueFrame(closed, s, f)
                ELSE [closed EXCEPT !.store[s].pending = Append(@, f)]
<1>1. sz \in Nat /\ MaxData \in Nat BY SendAssumption
<1>2. /\ m \in Locked /\ s \in Ids /\ st \in Streams /\ st.buffered \in Nat /\ st.requested \in Nat
  BY StreamFacts
<1>3. PrioritizeData(m, s, sz, eos) = n BY DEF PrioritizeData
<1>4. b \in Nat /\ q \in Int BY <1>1, <1>2
<1>5. /\ left \in Loose /\ left.codec = rest.codec /\ left.new[s] = sz
      /\ \A t \in Ids : t # s => left.new[t] = rest.new[t]
  <2>1. s \in Ids BY <1>2
  <2>2. QED BY <1>1, <2>1, WithLoose, Zenon
<1>6. /\ Sound(k, 0, left) /\ Steady(m, k) /\ Calm(m, k, {}) /\ k.inFlight = m.inFlight
      /\ k.store[s] = Counting(st, b, q)
  <2>1. Counts(m.store[s], sz, b, q) BY DEF Counts
  <2>2. sz \in Nat /\ q \in Int /\ b \in Nat BY <1>1, <1>4
  <2>3. k = Put(m, s, Counting(m.store[s], b, q), m.flow, m.inFlight) OBVIOUS
  <2>4. k.store[s] = Counting(st, b, q) BY <1>2 DEF Put, Locked, Slab
  <2> HIDE DEF b, q, k
  <2>5. Sound(k, 0, With(rest, s, sz)) /\ Steady(m, k) /\ Calm(m, k, {})
    BY <2>1, <2>2, <2>3, CountSound, Zenon
  <2>6. k.inFlight = m.inFlight BY <1>2, <2>3 DEF Put, Locked
  <2>7. QED BY <2>4, <2>5, <2>6
<1>7. IF st.requested < b THEN k = [counted EXCEPT !.store[s].requested = b] ELSE k = counted
  <2>1. counted = [m EXCEPT !.store = [m.store EXCEPT ![s] = [st EXCEPT !.buffered = b]]]
    BY <1>2 DEF Locked
  <2> DEFINE a == [st EXCEPT !.buffered = b]
             c == [a EXCEPT !.requested = b]
  <2>2. /\ st.requested < b => Counting(st, b, q) = c
        /\ ~(st.requested < b) => Counting(st, b, q) = a
    BY <1>2 DEF Streams, Counting
  <2>3. counted.store = [m.store EXCEPT ![s] = a] /\ counted.store[s] = a
    BY <1>2, <2>1 DEF Locked, Slab
  <2>4. [counted EXCEPT !.store[s].requested = b] = [counted EXCEPT !.store = [counted.store EXCEPT ![s] = c]]
    BY <1>2, <2>3 DEF Locked
  <2> HIDE DEF a, c
  <2>5. [counted.store EXCEPT ![s] = c] = [m.store EXCEPT ![s] = c] BY <1>2, <2>3 DEF Locked
  <2> DEFINE sc == [m.store EXCEPT ![s] = c]
             sa == [m.store EXCEPT ![s] = a]
  <2>6. counted = [m EXCEPT !.store = sa] BY <2>1 DEF a
  <2>7. [counted EXCEPT !.store[s].requested = b] = [counted EXCEPT !.store = sc] BY <2>4, <2>5
  <2>8. /\ st.requested < b => k = [m EXCEPT !.store = sc, !.flow = m.flow, !.inFlight = m.inFlight]
        /\ ~(st.requested < b) => k = [m EXCEPT !.store = sa, !.flow = m.flow, !.inFlight = m.inFlight]
    BY <2>2 DEF Put
  <2> HIDE DEF k, counted, sa, sc, b, q
  <2>9. /\ [m EXCEPT !.store = sa, !.flow = m.flow, !.inFlight = m.inFlight] = [m EXCEPT !.store = sa]
        /\ [m EXCEPT !.store = sc, !.flow = m.flow, !.inFlight = m.inFlight] = [counted EXCEPT !.store = sc]
    BY <1>2, <2>6 DEF Locked
  <2>10. QED BY <2>6, <2>7, <2>8, <2>9
<1>8. s \in Slab(k) /\ k \in Locked BY <1>6 DEF Steady, Sound
<1>9. /\ k.store[s].state = st.state /\ k.store[s].buffered = b /\ k.store[s].pending = st.pending
  <2> HIDE DEF b, q
  <2>1. QED BY <1>2, <1>4, <1>6 DEF Streams, Counting
<1>10. /\ Sound(funded, 0, left) /\ Steady(k, funded) /\ Calm(k, funded, {}) /\ funded.inFlight = k.inFlight
       /\ funded.store[s].state = st.state /\ funded.store[s].buffered = b
  <2>1. CASE st.requested < b
    <3>1. funded = TryAssignCapacity(k, s) BY <1>7, <2>1
    <3>2. Sound(funded, 0, left) /\ Assigned(k, funded)
      <4>1. IsSendStreaming(k.store[s].state) BY <1>9
      <4> DEFINE z == 0
      <4>2. z \in Int /\ Sound(k, z, left) BY <1>6
      <4> HIDE DEF z, k, funded
      <4>3. LET o == TryAssignCapacity(k, s) IN Sound(o, z, left) /\ Assigned(k, o)
        BY <1>5, <1>8, <4>1, <4>2, TryAssignSound
      <4>4. QED BY <3>1, <4>3 DEF z
    <3>3. funded.store[s] = [k.store[s] EXCEPT !.flow = funded.store[s].flow] /\ funded.inFlight = k.inFlight
      BY <1>8, <3>2 DEF Assigned
    <3>4. k.store[s] \in Streams BY <1>8, StreamTyped
    <3> HIDE DEF k, funded, b
    <3>5. QED BY <1>8, <1>9, <3>2, <3>3, <3>4, AssignedSteady DEF Streams
  <2>2. CASE ~(st.requested < b)
    <3>1. funded = k BY <1>7, <2>2
    <3> HIDE DEF funded, k
    <3>2. QED BY <1>6, <1>8, <1>9, <3>1, KeepsNothing
  <2>3. QED BY <2>1, <2>2
<1> HIDE DEF funded
<1>11. s \in Slab(funded) /\ funded \in Locked BY <1>8, <1>10 DEF Steady, Sound
<1>12. /\ Sound(closed, 0, left) /\ Steady(funded, closed) /\ Calm(funded, closed, {})
       /\ closed.inFlight = funded.inFlight
  <2>1. CASE eos
    <3>1. closed = ReserveCapacity([funded EXCEPT !.store[s].state = SendClose(@)], s, 0) BY <2>1
    <3>2. IsSendStreaming(funded.store[s].state) BY <1>10
    <3>3. left \in Loose /\ Sound(funded, 0, left) BY <1>5, <1>10
    <3> HIDE DEF closed, left
    <3>4. LET o == ReserveCapacity([funded EXCEPT !.store[s].state = SendClose(@)], s, 0)
          IN  /\ Sound(o, 0, left) /\ Steady(funded, o) /\ Calm(funded, o, {}) /\ o.inFlight = funded.inFlight
      BY <1>11, <3>2, <3>3, CloseSound
    <3>5. QED BY <3>1, <3>4
  <2>2. CASE ~eos
    <3>1. closed = funded BY <2>2
    <3>2. QED BY <1>10, <1>11, <3>1, KeepsNothing
  <2>3. QED BY <2>1, <2>2
<1> HIDE DEF closed, k
<1>13. Steady(m, closed) /\ Calm(m, closed, {}) BY <1>6, <1>10, <1>12, SteadyTwice
<1>14. f \in SendFrames /\ f.len = sz
  <2>1. Careful => sz # 0 BY DEF Careful
  <2>2. QED BY <1>1, <2>1 DEF Frame, SendFrames, FrameTypes
<1> HIDE DEF f
<1>15. closed \in Locked /\ Queues(closed) /\ s \in Slab(closed) BY <1>12, <1>13 DEF Sound, Steady
<1>16. Queued(closed.ids, s)
  <2>1. Queued(m.ids, s) BY StreamingIsFound DEF Sound
  <2>2. QED BY <1>13, <2>1 DEF Steady, SameSlots
<1>17. /\ Touches(closed, n, s) /\ n.flow = closed.flow /\ n.inFlight = closed.inFlight
       /\ n.store[s] = [closed.store[s] EXCEPT !.pending = Append(@, f)]
  <2>1. CASE closed.store[s].flow.available > 0 \/ closed.store[s].buffered = 0
    <3>1. n = QueueFrame(closed, s, f) BY <2>1
    <3> HIDE DEF n
    <3>2. QED BY <1>14, <1>15, <3>1, QueueFrameTouches
  <2>2. CASE ~(closed.store[s].flow.available > 0 \/ closed.store[s].buffered = 0)
    <3> DEFINE r == [closed.store[s] EXCEPT !.pending = Append(@, f)]
    <3>1. n = [closed EXCEPT !.store[s].pending = Append(@, f)] BY <2>2
    <3>2. closed.store[s] \in Streams BY <1>15, StreamTyped
    <3>3. Append(closed.store[s].pending, f) \in Seq(SendFrames) BY <1>14, <3>2, BytesAppend DEF Streams
    <3>4. r \in Streams /\ r.counted = closed.store[s].counted /\ r.refs = closed.store[s].refs
      BY <3>2, <3>3 DEF Streams
    <3>5. closed.flow \in Flows BY <1>15 DEF Locked
    <3>6. n = Put(closed, s, r, closed.flow, closed.inFlight) BY <1>15, <3>1 DEF Locked, Put
    <3> HIDE DEF r, n
    <3>7. /\ Touches(closed, n, s) /\ n.store[s] = r /\ n.flow = closed.flow /\ n.inFlight = closed.inFlight
      BY <1>15, <3>4, <3>5, <3>6, PutTouches
    <3>8. QED BY <3>7 DEF r
  <2>3. QED BY <2>1, <2>2
<1> HIDE DEF n
<1>18. Sound(n, 0, rest) /\ Steady(closed, n) /\ Calm(closed, n, {})
  <2>1. rest.codec = left.codec /\ \A t \in Ids : t # s => rest.new[t] = left.new[t] BY <1>5
  <2>2. rest.new[s] + f.len = left.new[s] BY <1>1, <1>5, <1>14
  <2> HIDE DEF left
  <2>3. left \in Loose BY <1>5
  <2>4. QED BY <1>12, <1>14, <1>15, <1>16, <1>17, <2>1, <2>2, <2>3, AppendSound
<1>19. Steady(m, n) /\ Calm(m, n, {}) BY <1>13, <1>18, SteadyTwice
<1>20. QED BY <1>3, <1>18, <1>19 DEF n

-----------------------------------------------------------------------------
(* Windows that change.                                                      *)

\* Only the windows of the streams in S may have grown, by at most inc.
Widens(m, n, S, inc) ==
  /\ Steady(m, n) /\ n.flow.window = m.flow.window
  /\ \A t \in Slab(n) :
       /\ n.store[t].flow.window <= m.store[t].flow.window + (IF t \in S THEN inc ELSE 0)
       /\ PeerEnded(n.store[t].state) => PeerEnded(m.store[t].state)

\* A calm operation widens nothing.
LEMMA CalmWidens ==
  ASSUME NEW m \in Locked, NEW n, Steady(m, n), Calm(m, n, {}), NEW S, NEW inc \in Nat
  PROVE  Widens(m, n, S, inc)
<1>1. n \in Locked /\ Slab(n) = Slab(m) BY DEF Steady, Keeps
<1>2. \A t \in Slab(m) : m.store[t].flow.window \in Int BY StreamTyped DEF Streams, Flows
<1>3. QED BY <1>1, <1>2 DEF Calm, Widens

\* Widening one stream after others widens all of them.
LEMMA WidensTwice ==
  ASSUME NEW m \in Locked, NEW n \in Locked, NEW o \in Locked, NEW S, NEW s, s \notin S, NEW inc \in Nat,
         Widens(m, n, S, inc), Widens(n, o, {s}, inc)
  PROVE  Widens(m, o, S \cup {s}, inc)
<1>1. Steady(m, o) BY SteadyTwice DEF Widens
<1>2. Slab(n) = Slab(m) /\ Slab(o) = Slab(m) BY DEF Widens, Steady
<1>3. \A t \in Slab(m) : /\ m.store[t].flow.window \in Int /\ n.store[t].flow.window \in Int
                          /\ o.store[t].flow.window \in Int
  BY <1>2, StreamTyped DEF Streams, Flows
<1>4. ASSUME NEW t \in Slab(m)
      PROVE  o.store[t].flow.window <= m.store[t].flow.window + (IF t \in S \cup {s} THEN inc ELSE 0)
  <2>1. /\ n.store[t].flow.window <= m.store[t].flow.window + (IF t \in S THEN inc ELSE 0)
        /\ o.store[t].flow.window <= n.store[t].flow.window + (IF t \in {s} THEN inc ELSE 0)
    BY <1>2 DEF Widens
  <2>2. QED BY <1>3, <2>1
<1>5. QED BY <1>1, <1>2, <1>4 DEF Widens

\* recv_stream_window_update keeps the invariant, also when the window
\* overflows and the stream is reset.
LEMMA RecvStreamWindowUpdateSound ==
  ASSUME NEW m, NEW rest \in Loose, Sound(m, 0, rest), NEW s \in Slab(m), rest.new[s] = 0, NEW inc \in Nat
  PROVE  LET n == RecvStreamWindowUpdate(m, s, inc)
         IN  Sound(n, 0, rest) /\ Widens(m, n, {s}, inc)
<1> DEFINE st == m.store[s]
           f == IncWindow(st.flow, inc)
           r == [st EXCEPT !.flow = f]
           k == [m EXCEPT !.store[s].flow = IncWindow(@, inc)]
           n == RecvStreamWindowUpdate(m, s, inc)
<1>1. /\ m \in Locked /\ Queues(m) /\ s \in Ids /\ st \in Streams
      /\ StreamFine(st, Held(m, rest, s)) /\ Held(m, rest, s) \in Nat
      /\ m.flow \in Flows /\ st.flow \in Flows
      /\ st.flow.available \in Int /\ st.flow.window \in Int
      /\ m.flow.available \in Int /\ m.flow.window \in Int
      /\ st.buffered \in Nat
  BY StreamFacts
<1>2. CASE IsSendClosed(st.state) /\ st.buffered = 0
  <2>1. n = m BY <1>2 DEF RecvStreamWindowUpdate
  <2>2. QED BY <1>1, <2>1, KeepsNothing, CalmWidens
<1>3. CASE ~(IsSendClosed(st.state) /\ st.buffered = 0) /\ ~CanIncWindow(st.flow, inc)
  <2>1. n = SendReset(m, s) BY <1>3 DEF RecvStreamWindowUpdate
  <2>2. LET o == SendReset(m, s) IN Sound(o, 0, rest) /\ Steady(m, o) /\ Calm(m, o, {})
    BY SendResetSound
  <2> HIDE DEF n
  <2>3. QED BY <1>1, <2>1, <2>2, CalmWidens DEF n
<1>4. CASE ~(IsSendClosed(st.state) /\ st.buffered = 0) /\ CanIncWindow(st.flow, inc)
  <2>1. n = TryAssignCapacity(k, s) BY <1>4 DEF RecvStreamWindowUpdate
  <2> HIDE DEF n
  <2>2. f \in Flows /\ f.window = st.flow.window + inc /\ f.available = st.flow.available
    BY <1>1 DEF Flows, IncWindow
  <2>3. k = Put(m, s, r, m.flow, m.inFlight) BY <1>1 DEF Locked, Put
  <2> HIDE DEF k, f
  <2>4. /\ r \in Streams /\ r.counted = st.counted /\ r.refs = st.refs /\ r.state = st.state
        /\ r.pending = st.pending /\ r.buffered = st.buffered /\ r.requested = st.requested /\ r.flow = f
    BY <1>1, <2>2 DEF Streams
  <2> HIDE DEF r
  <2>5. StreamFine(r, Held(m, rest, s))
    <3>1. AsSize(st.flow.window) <= AsSize(f.window) BY <1>1, <2>2 DEF AsSize
    <3>2. AsSize(st.flow.window) \in Nat /\ AsSize(f.window) \in Nat BY <1>1, <2>2, AsSizeNat
    <3>3. st.flow.available <= AsSize(f.window) BY <1>1, <3>1, <3>2 DEF StreamFine
    <3>4. QED BY <1>1, <2>2, <2>4, <3>3 DEF StreamFine
  <2>6. Queued(m.ids, s) \/ (IsClosed(r.state) /\ r.pending = <<>> /\ r.buffered = 0)
    BY <2>4 DEF Sound, Findable, StreamClosed
  <2>7. Busy(st) => Busy(r) BY <2>4 DEF Busy
  <2>8. /\ Sound(k, 0, rest) /\ Touches(m, k, s) /\ k.store[s] = r /\ k.flow = m.flow
    <3> DEFINE z == 0
    <3>1. z \in Int /\ Sound(m, z, rest) /\ Moves(m.flow, m.flow, st.flow, r.flow, z, z)
      BY <1>1, <2>2, <2>4 DEF Moves, Sound, Balanced
    <3> HIDE DEF z
    <3>2. Sound(k, z, rest) /\ Touches(m, k, s) /\ k.store[s] = r /\ k.flow = m.flow
      BY <1>1, <2>3, <2>4, <2>5, <2>6, <2>7, <3>1, PutSound
    <3>3. QED BY <3>2 DEF z
  <2>9. s \in Slab(k) /\ k \in Locked BY <2>8 DEF Touches
  <2>10. IsSendStreaming(k.store[s].state) \/ k.store[s].buffered > 0
    <3>1. st.state \in ClientStates BY <1>1 DEF StreamFine
    <3>2. QED BY <1>1, <1>4, <2>4, <2>8, <3>1, ClientTyped
  <2>11. Sound(n, 0, rest) /\ Assigned(k, n)
    <3> DEFINE z == 0
    <3>1. z \in Int /\ Sound(k, z, rest) BY <2>8
    <3> HIDE DEF z
    <3>2. LET o == TryAssignCapacity(k, s) IN Sound(o, z, rest) /\ Assigned(k, o)
      BY <2>9, <2>10, <3>1, TryAssignSound
    <3>3. QED BY <2>1, <3>2 DEF z
  <2>12. Steady(k, n) /\ Calm(k, n, {}) BY <2>9, <2>11, AssignedSteady
  <2>13. Steady(m, k) BY <1>1, <2>8, TouchesSteady
  <2>14. Steady(m, n) BY <2>12, <2>13, SteadyTwice
  <2>15. \A t \in Slab(m) :
           /\ k.store[t].flow.window <= m.store[t].flow.window + (IF t \in {s} THEN inc ELSE 0)
           /\ k.store[t].state = m.store[t].state
    <3>1. ASSUME NEW t \in Slab(m)
          PROVE /\ k.store[t].flow.window <= m.store[t].flow.window + (IF t \in {s} THEN inc ELSE 0)
                /\ k.store[t].state = m.store[t].state
      <4>1. CASE t = s BY <1>1, <2>2, <2>4, <2>8, <4>1
      <4>2. CASE t # s
        <5>1. k.store[t] = m.store[t] BY <2>8, <4>2 DEF Touches
        <5>2. m.store[t].flow.window \in Int BY <1>1, StreamTyped DEF Streams, Flows
        <5>3. QED BY <4>2, <5>1, <5>2
      <4>3. QED BY <4>1, <4>2
    <3>2. QED BY <3>1
  <2>16. Slab(n) = Slab(m) /\ Slab(k) = Slab(m) BY <2>13, <2>14 DEF Steady
  <2>17. Widens(m, n, {s}, inc) BY <2>8, <2>12, <2>14, <2>15, <2>16 DEF Widens, Calm
  <2>18. QED BY <2>11, <2>17 DEF n
<1>5. QED BY <1>2, <1>3, <1>4

\* A stream that a queue names once is not among those before it.
LEMMA NotBefore ==
  ASSUME NEW S, NEW q, IsQueue(q, S), NEW k \in 1 .. Len(q)
  PROVE  q[k] \in S /\ q[k] \notin {q[i] : i \in 1 .. k - 1}
BY DEF IsQueue, IsInjective

\* After one more round, one stream more was visited.
LEMMA BeforeNext ==
  ASSUME NEW S, NEW q, IsQueue(q, S), NEW k \in 1 .. Len(q)
  PROVE  {q[i] : i \in 1 .. k - 1} \cup {q[k]} = {q[i] : i \in 1 .. k}
<1>1. q \in Seq(S) /\ Len(q) \in Nat BY DEF IsQueue
<1>2. \A i \in 1 .. k : i = k \/ i \in 1 .. k - 1 BY <1>1
<1>3. \A i \in 1 .. k - 1 : i \in 1 .. k BY <1>1
<1>4. k \in 1 .. k BY <1>1
<1>5. QED BY <1>2, <1>3, <1>4

\* Every window grows.
LEMMA GrowSound ==
  ASSUME NEW m, NEW rest \in Loose, Sound(m, 0, rest), \A t \in Ids : rest.new[t] = 0, NEW inc \in Nat
  PROVE  LET Grow(n, s) == RecvStreamWindowUpdate(n, s, inc)
             o == ForEach(m, Grow)
         IN  Sound(o, 0, rest) /\ \E S \in SUBSET Slab(m) : Widens(m, o, S, inc)
<1> DEFINE q == m.ids
           n == Len(q)
           Grow(v, s) == RecvStreamWindowUpdate(v, s, inc)
           Before(k) == {q[i] : i \in 1 .. k}
           W == {p \in (0 .. n) \X Locked : Sound(p[2], 0, rest) /\ Widens(m, p[2], Before(p[1]), inc)}
           Body(h) == [i \in 0 .. n |-> IF i = 0 THEN m ELSE RecvStreamWindowUpdate(h[i - 1], q[i], inc)]
           g == [p \in (1 .. n) \X Locked |-> RecvStreamWindowUpdate(p[2], q[p[1]], inc)]
<1>1. m \in Locked /\ IsQueue(q, Slab(m)) /\ n \in Nat /\ Slab(m) \subseteq Ids
  BY StreamTyped DEF Sound, Queues, IsQueue
<1>2. <<0, m>> \in W
  <2>1. Steady(m, m) /\ Calm(m, m, {}) BY <1>1, KeepsNothing
  <2>2. Widens(m, m, Before(0), inc) BY <1>1, <2>1, CalmWidens
  <2> DEFINE z == 0
  <2>3. z \in 0 .. n /\ Widens(m, m, Before(z), inc) BY <1>1, <2>2
  <2> HIDE DEF Before, z
  <2>4. <<z, m>> \in W BY <1>1, <2>3
  <2>5. QED BY <2>4 DEF z
<1>3. ASSUME NEW k \in 1 .. n, NEW v, <<k - 1, v>> \in W
      PROVE  v \in Locked /\ <<k, RecvStreamWindowUpdate(v, q[k], inc)>> \in W
  <2>1. v \in Locked /\ Sound(v, 0, rest) /\ Widens(m, v, Before(k - 1), inc) BY <1>3
  <2>2. q[k] \in Slab(m) /\ q[k] \notin Before(k - 1) BY <1>1, NotBefore
  <2>3. q[k] \in Slab(v) /\ rest.new[q[k]] = 0 BY <1>1, <2>1, <2>2 DEF Widens, Steady
  <2> DEFINE o == RecvStreamWindowUpdate(v, q[k], inc)
  <2>4. Sound(o, 0, rest) /\ Widens(v, o, {q[k]}, inc) BY <2>1, <2>3, RecvStreamWindowUpdateSound
  <2> HIDE DEF o
  <2>5. o \in Locked BY <2>4 DEF Sound
  <2>6. Before(k - 1) \cup {q[k]} = Before(k) BY <1>1, BeforeNext
  <2> HIDE DEF Before
  <2>7. Widens(m, o, Before(k - 1) \cup {q[k]}, inc) BY <1>1, <2>1, <2>2, <2>4, <2>5, WidensTwice
  <2>8. Widens(m, o, Before(k), inc) BY <2>6, <2>7
  <2>9. k \in 0 .. n BY <1>1
  <2>10. QED BY <2>1, <2>4, <2>5, <2>8, <2>9 DEF o
<1>4. \A k \in 1 .. n : \A v : <<k - 1, v>> \in W => <<k, g[<<k, v>>]>> \in W
  <2> HIDE DEF W
  <2>1. QED BY <1>3
<1> HIDE DEF W, g
<1>5. PICK f : Loops(n, m, g, f) /\ \A k \in 0 .. n : <<k, f[k]>> \in W
  <2>1. CanLoop(n, W, m, g) BY <1>1, <1>2, <1>4 DEF CanLoop
  <2>2. QED BY <2>1, LoopRecursion
<1>6. f = Body(f)
  <2>1. \A k \in 1 .. n : k - 1 \in 0 .. n /\ <<k - 1, f[k - 1]>> \in W BY <1>1, <1>5
  <2>2. \A k \in 1 .. n : f[k - 1] \in Locked BY <1>3, <2>1
  <2>3. \A k \in 1 .. n : g[<<k, f[k - 1]>>] = RecvStreamWindowUpdate(f[k - 1], q[k], inc) BY <2>2 DEF g
  <2>4. f = [k \in 0 .. n |-> IF k = 0 THEN m ELSE g[<<k, f[k - 1]>>]] BY <1>5 DEF Loops
  <2>5. \A k \in 0 .. n : k # 0 => k \in 1 .. n BY <1>1
  <2>6. QED BY <2>3, <2>4, <2>5
<1> DEFINE after == CHOOSE h : h = Body(h)
<1>7. after = Body(after)
  <2> HIDE DEF Body
  <2> QED BY <1>6
<1>8. ForEach(m, Grow) = after[n]
  BY DEF ForEach, Each
<1>9. /\ after[0] = m
      /\ \A k \in 1 .. n : after[k] = RecvStreamWindowUpdate(after[k - 1], q[k], inc)
  <2> HIDE DEF after
  <2>1. \A k \in 0 .. n : after[k] = IF k = 0 THEN m ELSE RecvStreamWindowUpdate(after[k - 1], q[k], inc)
    BY <1>7
  <2>2. QED BY <1>1, <2>1
<1> HIDE DEF after
<1>10. <<n, after[n]>> \in W
  <2>1. \A k \in 1 .. n : <<k - 1, after[k - 1]>> \in W => <<k, after[k]>> \in W
    BY <1>3, <1>9
  <2>2. <<0, after[0]>> \in W BY <1>2, <1>9
  <2> HIDE DEF n
  <2>3. QED BY <1>1, <2>1, <2>2, LoopHolds
<1>11. Before(n) \in SUBSET Slab(m) BY <1>1 DEF IsQueue
<1>12. QED BY <1>8, <1>10, <1>11 DEF W

\* The windows of the streams in S have shrunk by dec.
Narrows(m, n, S, dec) ==
  /\ Steady(m, n) /\ n.flow.window = m.flow.window
  /\ \A t \in Slab(n) :
       /\ n.store[t].flow.window = m.store[t].flow.window - (IF t \in S THEN dec ELSE 0)
       /\ PeerEnded(n.store[t].state) => PeerEnded(m.store[t].state)

\* Before the first round nothing has shrunk.
LEMMA NarrowsNothing ==
  ASSUME NEW m \in Locked, NEW dec \in Nat
  PROVE  Narrows(m, m, {}, dec)
<1>1. \A t \in Slab(m) : m.store[t].flow.window \in Int BY StreamTyped DEF Streams, Flows
<1>2. QED BY <1>1, KeepsNothing DEF Narrows

\* Shrinking one stream after others shrinks all of them.
LEMMA NarrowsTwice ==
  ASSUME NEW m \in Locked, NEW n \in Locked, NEW o \in Locked, NEW S, NEW s, s \notin S, NEW dec \in Nat,
         Narrows(m, n, S, dec), Narrows(n, o, {s}, dec)
  PROVE  Narrows(m, o, S \cup {s}, dec)
<1>1. Steady(m, o) BY SteadyTwice DEF Narrows
<1>2. Slab(n) = Slab(m) /\ Slab(o) = Slab(m) BY DEF Narrows, Steady
<1>3. \A t \in Slab(m) : /\ m.store[t].flow.window \in Int /\ n.store[t].flow.window \in Int
                          /\ o.store[t].flow.window \in Int
  BY <1>2, StreamTyped DEF Streams, Flows
<1>4. ASSUME NEW t \in Slab(m)
      PROVE  o.store[t].flow.window = m.store[t].flow.window - (IF t \in S \cup {s} THEN dec ELSE 0)
  <2>1. /\ n.store[t].flow.window = m.store[t].flow.window - (IF t \in S THEN dec ELSE 0)
        /\ o.store[t].flow.window = n.store[t].flow.window - (IF t \in {s} THEN dec ELSE 0)
    BY <1>2 DEF Narrows
  <2>2. QED BY <1>3, <2>1
<1>5. QED BY <1>1, <1>2, <1>4 DEF Narrows

\* A stream's window shrinks: what it holds beyond that is set aside.
LEMMA ShrinkOneSound ==
  ASSUME NEW m, NEW d \in Nat, NEW rest \in Loose, Sound(m, d, rest), NEW s \in Slab(m), NEW dec \in Nat,
         NEW acc, acc = [me |-> m, total |-> d]
  PROVE  LET n == ShrinkWindow(acc, s, dec)
         IN  /\ n = [me |-> n.me, total |-> n.total] /\ n.total \in Nat
             /\ Sound(n.me, n.total, rest) /\ Narrows(m, n.me, {s}, dec)
<1> DEFINE st == m.store[s]
           w == st.flow.window - dec
           x == AsSize(AsSize(st.flow.available) - AsSize(w))
           f == ClaimCapacity(DecSendWindow(st.flow, dec), x)
           r == [st EXCEPT !.flow = f]
           k == Put(m, s, r, m.flow, m.inFlight)
           e == d + x
           n == ShrinkWindow(acc, s, dec)
<1>1. /\ m \in Locked /\ Queues(m) /\ s \in Ids /\ st \in Streams
      /\ StreamFine(st, Held(m, rest, s)) /\ Held(m, rest, s) \in Nat
      /\ m.flow \in Flows /\ st.flow \in Flows
      /\ st.flow.available \in Int /\ st.flow.window \in Int
      /\ m.flow.available \in Int /\ m.flow.window \in Int
  BY StreamFacts
<1>2. /\ w \in Int /\ AsSize(w) \in Nat /\ AsSize(st.flow.available) \in Nat /\ x \in Nat /\ e \in Nat
  <2>1. w \in Int BY <1>1
  <2>2. AsSize(w) \in Nat /\ AsSize(st.flow.available) \in Nat BY <1>1, <2>1, AsSizeNat
  <2>3. AsSize(st.flow.available) - AsSize(w) \in Int BY <2>2
  <2>4. x \in Nat BY <2>3, AsSizeNat
  <2>5. QED BY <2>1, <2>2, <2>4
<1>3. n = [me |-> k, total |-> e]
  <2>1. acc.me = m /\ acc.total = d OBVIOUS
  <2>2. [m EXCEPT !.store[s].flow = ClaimCapacity(DecSendWindow(@, dec), x)] = k BY <1>1 DEF Locked, Put
  <2>3. QED BY <2>1, <2>2 DEF ShrinkWindow
<1>4. f \in Flows /\ f.window = w /\ f.available = st.flow.available - x
  <2> DEFINE g == DecSendWindow(st.flow, dec)
  <2>1. g \in Flows /\ g.window = w /\ g.available = st.flow.available
    BY <1>1, <1>2 DEF Flows, DecSendWindow
  <2> HIDE DEF x, w, g
  <2>2. st.flow.available - x \in Int BY <1>1, <1>2
  <2>3. QED BY <2>1, <2>2 DEF Flows, ClaimCapacity, g
<1>5. /\ f.available <= AsSize(w) /\ f.available <= st.flow.available
      /\ st.flow.available >= 0 => f.available >= 0
  <2> DEFINE a == st.flow.available
  <2>1. a \in Int /\ w \in Int /\ f.available = a - x BY <1>1, <1>2, <1>4
  <2>2. x = AsSize(AsSize(a) - AsSize(w)) OBVIOUS
  <2> HIDE DEF a, w, x, f
  <2>3. f.available <= AsSize(w) /\ f.available <= a /\ (a >= 0 => f.available >= 0)
    BY <2>1, <2>2 DEF AsSize
  <2>4. QED BY <2>3 DEF a
<1> HIDE DEF f
<1>6. /\ r \in Streams /\ r.counted = st.counted /\ r.refs = st.refs /\ r.state = st.state
      /\ r.pending = st.pending /\ r.buffered = st.buffered /\ r.requested = st.requested /\ r.flow = f
  BY <1>1, <1>4 DEF Streams
<1> HIDE DEF r
<1>7. StreamFine(r, Held(m, rest, s))
  <2>1. f.available \in Int /\ st.requested \in Int BY <1>1, <1>4 DEF Flows, Streams
  <2>2. f.available <= st.requested BY <1>1, <1>5, <2>1 DEF StreamFine
  <2> HIDE DEF w, x
  <2>3. QED BY <1>1, <1>4, <1>5, <1>6, <2>2 DEF StreamFine
<1>8. Queued(m.ids, s) \/ (IsClosed(r.state) /\ r.pending = <<>> /\ r.buffered = 0)
  BY <1>6 DEF Sound, Findable, StreamClosed
<1>9. Busy(st) => Busy(r) BY <1>6 DEF Busy
<1>10. Moves(m.flow, m.flow, st.flow, r.flow, d, e)
  <2>1. e = d + x OBVIOUS
  <2> HIDE DEF e, x, w
  <2>2. QED BY <1>1, <1>2, <1>4, <1>6, <2>1 DEF Moves, Sound, Balanced
<1>11. e \in Int /\ d \in Int BY <1>2
<1>12. k = Put(m, s, r, m.flow, m.inFlight) BY DEF r
<1> HIDE DEF k, e
<1>13. /\ Sound(k, e, rest) /\ Touches(m, k, s) /\ k.store[s] = r /\ k.flow = m.flow
  BY <1>1, <1>6, <1>7, <1>8, <1>9, <1>10, <1>11, <1>12, PutSound
<1>14. Steady(m, k) BY <1>1, <1>13, TouchesSteady
<1>15. Narrows(m, k, {s}, dec)
  <2>1. Slab(k) = Slab(m) BY <1>14 DEF Steady
  <2>2. ASSUME NEW t \in Slab(m)
        PROVE  /\ k.store[t].flow.window = m.store[t].flow.window - (IF t \in {s} THEN dec ELSE 0)
               /\ k.store[t].state = m.store[t].state
    <3>1. CASE t = s BY <1>4, <1>6, <1>13, <3>1
    <3>2. CASE t # s
      <4>1. k.store[t] = m.store[t] BY <1>13, <3>2 DEF Touches
      <4>2. m.store[t].flow.window \in Int BY <1>1, StreamTyped DEF Streams, Flows
      <4>3. QED BY <3>2, <4>1, <4>2
    <3>3. QED BY <3>1, <3>2
  <2>3. QED BY <1>13, <1>14, <2>1, <2>2 DEF Narrows
<1> HIDE DEF n
<1>16. n.me = k /\ n.total = e BY <1>3
<1>17. QED BY <1>2, <1>3, <1>13, <1>15, <1>16 DEF n

\* Every window shrinks.
LEMMA ShrinkSound ==
  ASSUME NEW m, NEW rest \in Loose, Sound(m, 0, rest), NEW dec \in Nat
  PROVE  LET Shrink(acc, s) == ShrinkWindow(acc, s, dec)
             o == Each(Shrink, [me |-> m, total |-> 0], m.ids)
         IN  /\ o.total \in Nat /\ Sound(o.me, o.total, rest)
             /\ \E S : Narrows(m, o.me, S, dec) /\ \A t \in Slab(m) : Queued(m.ids, t) => t \in S
<1> DEFINE q == m.ids
           n == Len(q)
           start == [me |-> m, total |-> 0]
           Shrink(acc, s) == ShrinkWindow(acc, s, dec)
           Before(k) == {q[i] : i \in 1 .. k}
           W == {p \in (0 .. n) \X [me : Locked, total : Nat] :
                   Sound(p[2].me, p[2].total, rest) /\ Narrows(m, p[2].me, Before(p[1]), dec)}
           Body(h) == [i \in 0 .. n |-> IF i = 0 THEN start ELSE ShrinkWindow(h[i - 1], q[i], dec)]
           g == [p \in (1 .. n) \X [me : Locked, total : Nat] |-> ShrinkWindow(p[2], q[p[1]], dec)]
<1>1. m \in Locked /\ IsQueue(q, Slab(m)) /\ n \in Nat /\ Slab(m) \subseteq Ids
  BY StreamTyped DEF Sound, Queues, IsQueue
<1>2. <<0, start>> \in W
  <2> DEFINE z == 0
  <2>1. Before(z) = {} OBVIOUS
  <2>2. Narrows(m, m, {}, dec) BY <1>1, NarrowsNothing
  <2>3. z \in 0 .. n /\ Narrows(m, m, Before(z), dec)
    <3>1. z \in 0 .. n BY <1>1
    <3> HIDE DEF Before, z
    <3>2. QED BY <2>1, <2>2, <3>1
  <2>4. Sound(m, z, rest) /\ z \in Nat OBVIOUS
  <2>5. start = [me |-> m, total |-> z] OBVIOUS
  <2> HIDE DEF Before, z, start
  <2>6. <<z, start>> \in W BY <1>1, <2>3, <2>4, <2>5
  <2>7. QED BY <2>6 DEF z
<1> HIDE DEF start
<1>3. ASSUME NEW k \in 1 .. n, NEW v, <<k - 1, v>> \in W
      PROVE  v \in [me : Locked, total : Nat] /\ <<k, ShrinkWindow(v, q[k], dec)>> \in W
  <2>1. /\ v \in [me : Locked, total : Nat] /\ Sound(v.me, v.total, rest)
        /\ Narrows(m, v.me, Before(k - 1), dec)
    BY <1>3
  <2>2. q[k] \in Slab(m) /\ q[k] \notin Before(k - 1) BY <1>1, NotBefore
  <2>3. q[k] \in Slab(v.me) BY <2>1, <2>2 DEF Narrows, Steady
  <2>4. v = [me |-> v.me, total |-> v.total] /\ v.total \in Nat /\ v.me \in Locked BY <2>1
  <2> DEFINE o == ShrinkWindow(v, q[k], dec)
  <2>5. /\ o = [me |-> o.me, total |-> o.total] /\ o.total \in Nat
        /\ Sound(o.me, o.total, rest) /\ Narrows(v.me, o.me, {q[k]}, dec)
    BY <2>1, <2>3, <2>4, ShrinkOneSound
  <2> HIDE DEF o
  <2>6. o.me \in Locked BY <2>5 DEF Sound
  <2>7. Before(k - 1) \cup {q[k]} = Before(k) BY <1>1, BeforeNext
  <2> HIDE DEF Before
  <2>8. Narrows(m, o.me, Before(k - 1) \cup {q[k]}, dec)
    BY <1>1, <2>1, <2>2, <2>4, <2>5, <2>6, NarrowsTwice
  <2>9. Narrows(m, o.me, Before(k), dec) BY <2>7, <2>8
  <2>10. k \in 0 .. n /\ o \in [me : Locked, total : Nat] BY <1>1, <2>5, <2>6
  <2>11. QED BY <2>1, <2>5, <2>9, <2>10 DEF o
<1>4. \A k \in 1 .. n : \A v : <<k - 1, v>> \in W => <<k, g[<<k, v>>]>> \in W
  <2> HIDE DEF W
  <2>1. QED BY <1>3
<1> HIDE DEF W, g
<1>5. PICK f : Loops(n, start, g, f) /\ \A k \in 0 .. n : <<k, f[k]>> \in W
  <2>1. CanLoop(n, W, start, g) BY <1>1, <1>2, <1>4 DEF CanLoop
  <2>2. QED BY <2>1, LoopRecursion
<1>6. f = Body(f)
  <2>1. \A k \in 1 .. n : k - 1 \in 0 .. n /\ <<k - 1, f[k - 1]>> \in W BY <1>1, <1>5
  <2>2. \A k \in 1 .. n : f[k - 1] \in [me : Locked, total : Nat] BY <1>3, <2>1
  <2>3. \A k \in 1 .. n : g[<<k, f[k - 1]>>] = ShrinkWindow(f[k - 1], q[k], dec) BY <2>2 DEF g
  <2>4. f = [k \in 0 .. n |-> IF k = 0 THEN start ELSE g[<<k, f[k - 1]>>]] BY <1>5 DEF Loops
  <2>5. \A k \in 0 .. n : k # 0 => k \in 1 .. n BY <1>1
  <2>6. QED BY <2>3, <2>4, <2>5
<1> DEFINE after == CHOOSE h : h = Body(h)
<1>7. after = Body(after)
  <2> HIDE DEF Body
  <2> QED BY <1>6
<1>8. Each(Shrink, [me |-> m, total |-> 0], m.ids) = after[n]
  BY DEF Each, start
<1>9. /\ after[0] = start
      /\ \A k \in 1 .. n : after[k] = ShrinkWindow(after[k - 1], q[k], dec)
  <2> HIDE DEF after
  <2>1. \A k \in 0 .. n : after[k] = IF k = 0 THEN start ELSE ShrinkWindow(after[k - 1], q[k], dec)
    BY <1>7
  <2>2. QED BY <1>1, <2>1
<1> HIDE DEF after
<1>10. <<n, after[n]>> \in W
  <2>1. \A k \in 1 .. n : <<k - 1, after[k - 1]>> \in W => <<k, after[k]>> \in W
    BY <1>3, <1>9
  <2>2. <<0, after[0]>> \in W BY <1>2, <1>9
  <2> HIDE DEF n
  <2>3. QED BY <1>1, <2>1, <2>2, LoopHolds
<1>11. \A t \in Slab(m) : Queued(m.ids, t) => t \in Before(n) BY DEF Queued, Contains
<1> HIDE DEF Before
<1>12. QED BY <1>8, <1>10, <1>11 DEF W

\* What no stream and no queue depends on.
Aside(m, n) ==
  /\ n \in Locked /\ n.store = m.store /\ n.ids = m.ids
  /\ n.pendingSend = m.pendingSend /\ n.pendingCapacity = m.pendingCapacity
  /\ n.pendingOpen = m.pendingOpen /\ n.pendingReset = m.pendingReset
  /\ n.flow = m.flow /\ n.inFlight = m.inFlight /\ n.nextId = m.nextId
  /\ n.numSend = m.numSend /\ n.numReset = m.numReset /\ n.failed = m.failed

\* What no stream depends on may change.
LEMMA AsideSound ==
  ASSUME NEW m, NEW d, NEW rest, Sound(m, d, rest), NEW n, Aside(m, n)
  PROVE  Sound(n, d, rest) /\ Slab(n) = Slab(m) /\ Keeps(m, n) /\ Calm(m, n, {})
<1>1. Slab(n) = Slab(m) BY DEF Aside, Slab
<1>2. Queues(n) /\ Findable(n) /\ Working(n)
  BY <1>1 DEF Aside, Sound, Queues, Findable, Working, StreamClosed
<1>3. Slots(n)
  <2>1. Counted(n) = Counted(m) BY <1>1 DEF Aside, Counted
  <2>2. QED BY <2>1 DEF Aside, Sound, Slots
<1>4. Fine(n, rest) /\ Returnable(n, rest) /\ Trusty(n)
  BY <1>1 DEF Aside, Sound, Fine, Held, Returnable, Trusty
<1>5. Balanced(n, d)
  <2>1. HandedOut(n) = HandedOut(m) BY DEF Aside, HandedOut, Slab
  <2>2. QED BY <2>1 DEF Aside, Sound, Balanced
<1>6. Keeps(m, n) /\ Calm(m, n, {}) BY <1>1 DEF Aside, Keeps, Calm
<1>7. QED BY <1>1, <1>2, <1>3, <1>4, <1>5, <1>6 DEF Aside, Sound

\* Every stream an id finds follows the change of the setting.
Rewindows(m, n, change) ==
  /\ Keeps(m, n) /\ n.flow.window = m.flow.window
  /\ \A t \in Slab(n) :
       /\ Queued(n.ids, t) => n.store[t].flow.window <= m.store[t].flow.window + change
       /\ PeerEnded(n.store[t].state) => PeerEnded(m.store[t].state)

\* The two directions a window setting may change.
LEMMA WindowCases ==
  ASSUME NEW m, NEW val \in Int, m.initWindow \in Int
  PROVE  LET change == val - m.initWindow
             noted == [m EXCEPT !.initWindow = val]
             Shrink(acc, s) == ShrinkWindow(acc, s, -change)
             shrunk == Each(Shrink, [me |-> noted, total |-> 0], m.ids)
             Grow(n, s) == RecvStreamWindowUpdate(n, s, change)
             n == ApplyWindowSetting(m, val)
         IN  /\ change < 0 => n = AssignConnectionCapacity(shrunk.me, shrunk.total)
             /\ change > 0 => n = ForEach(noted, Grow)
             /\ change = 0 => n = m
<1> DEFINE change == val - m.initWindow
             noted == [m EXCEPT !.initWindow = val]
             Shrink(acc, s) == ShrinkWindow(acc, s, -change)
             shrunk == Each(Shrink, [me |-> noted, total |-> 0], m.ids)
             Grow(n, s) == RecvStreamWindowUpdate(n, s, change)
             n == ApplyWindowSetting(m, val)
             a == AssignConnectionCapacity(shrunk.me, shrunk.total)
             b == ForEach(noted, Grow)
<1>1. n = CASE change < 0 -> a [] change > 0 -> b [] OTHER -> m
  BY DEF ApplyWindowSetting
<1> HIDE DEF a, b, n
<1>2. (change < 0 => n = a) /\ (change > 0 => n = b) /\ (change = 0 => n = m)
  BY <1>1
<1>3. QED BY <1>2 DEF a, b, n

\* A new SETTINGS_INITIAL_WINDOW_SIZE, larger or smaller, keeps the
\* invariant.
LEMMA ApplyWindowSettingSound ==
  ASSUME NEW m, NEW rest \in Loose, Sound(m, 0, rest), \A t \in Ids : rest.new[t] = 0, NEW val \in Nat
  PROVE  LET n == ApplyWindowSetting(m, val)
         IN  Sound(n, 0, rest) /\ Rewindows(m, n, val - m.initWindow)
<1> DEFINE change == val - m.initWindow
           noted == [m EXCEPT !.initWindow = val]
           n == ApplyWindowSetting(m, val)
<1>1. m \in Locked /\ m.initWindow \in Nat BY DEF Sound, Locked
<1>2. change \in Int /\ val \in Int /\ m.initWindow \in Int BY <1>1
<1> DEFINE Shrink(acc, s) == ShrinkWindow(acc, s, -change)
           shrunk == Each(Shrink, [me |-> noted, total |-> 0], m.ids)
           Grow(v, s) == RecvStreamWindowUpdate(v, s, change)
           shorter == AssignConnectionCapacity(shrunk.me, shrunk.total)
           wider == ForEach(noted, Grow)
<1>3. /\ change < 0 => n = shorter
      /\ change > 0 => n = wider
      /\ change = 0 => n = m
  BY <1>2, WindowCases, Zenon
<1>4. Aside(m, noted) BY <1>1 DEF Aside, Locked
<1>5. /\ Sound(noted, 0, rest) /\ Slab(noted) = Slab(m) /\ Keeps(m, noted) /\ noted.ids = m.ids
      /\ noted.store = m.store /\ noted.flow = m.flow /\ noted \in Locked
  BY <1>4, AsideSound DEF Aside
<1>6. \A t \in Slab(m) : m.store[t].flow.window \in Int BY <1>1, StreamTyped DEF Streams, Flows
<1>7. CASE change < 0
  <2> DEFINE dec == -change
             start == [me |-> noted, total |-> 0]
             o == Each(Shrink, start, noted.ids)
  <2>1. n = AssignConnectionCapacity(o.me, o.total)
    <3>1. n = AssignConnectionCapacity(Each(Shrink, start, m.ids).me, Each(Shrink, start, m.ids).total)
      BY <1>7, <1>3, Zenon
    <3>2. QED BY <1>5, <3>1
  <2>2. dec \in Nat BY <1>2, <1>7
  <2>3. /\ o.total \in Nat /\ Sound(o.me, o.total, rest)
        /\ \E S : Narrows(noted, o.me, S, dec) /\ \A t \in Slab(noted) : Queued(noted.ids, t) => t \in S
    BY <1>5, <2>2, ShrinkSound
  <2> HIDE DEF o, n
  <2>4. PICK S : Narrows(noted, o.me, S, dec) /\ \A t \in Slab(m) : Queued(m.ids, t) => t \in S
    BY <1>5, <2>3
  <2>5. o.me \in Locked BY <2>3 DEF Sound
  <2>6. Sound(n, 0, rest) /\ Assigned(o.me, n) BY <2>1, <2>3, AssignConnectionSound
  <2>7. Steady(o.me, n) /\ Calm(o.me, n, {}) BY <2>5, <2>6, AssignedSteady
  <2>8. Steady(noted, n) BY <2>4, <2>7, SteadyTwice DEF Narrows
  <2>9. Keeps(m, n) /\ Slab(n) = Slab(m) /\ n.ids = m.ids
    BY <1>5, <2>8, KeepsTwice DEF Steady, SameSlots
  <2>10. Slab(o.me) = Slab(m) BY <1>5, <2>4 DEF Narrows, Steady
  <2>11. ASSUME NEW t \in Slab(n), Queued(n.ids, t)
         PROVE  n.store[t].flow.window <= m.store[t].flow.window + change
    <3>1. t \in S /\ t \in Slab(m) BY <2>4, <2>9, <2>11
    <3>2. o.me.store[t].flow.window = m.store[t].flow.window - dec BY <1>5, <2>4, <2>10, <3>1 DEF Narrows
    <3>3. n.store[t].flow.window = o.me.store[t].flow.window BY <2>7 DEF Calm
    <3>4. m.store[t].flow.window \in Int BY <1>6, <3>1
    <3> HIDE DEF noted
    <3>5. QED BY <1>2, <3>2, <3>3, <3>4
  <2>12. ASSUME NEW t \in Slab(n), PeerEnded(n.store[t].state)
         PROVE  PeerEnded(m.store[t].state)
    BY <1>5, <2>4, <2>7, <2>9, <2>10, <2>12 DEF Narrows, Calm
  <2>13. n.flow.window = m.flow.window BY <1>5, <2>4, <2>7 DEF Narrows, Calm
  <2>14. QED BY <2>6, <2>9, <2>11, <2>12, <2>13 DEF Rewindows, n
<1>8. CASE change > 0
  <2> DEFINE o == ForEach(noted, Grow)
  <2>1. n = o BY <1>8, <1>3, Zenon
  <2>2. change \in Nat BY <1>2, <1>8
  <2>3. Sound(o, 0, rest) /\ \E S \in SUBSET Slab(noted) : Widens(noted, o, S, change)
    <3> DEFINE inc == change
    <3>1. inc \in Nat BY <2>2
    <3>2. o = ForEach(noted, LAMBDA v, s : RecvStreamWindowUpdate(v, s, inc)) BY DEF ForEach, Each
    <3> HIDE DEF change
    <3>3. QED BY <1>5, <2>2, GrowSound
  <2> HIDE DEF o, n
  <2>4. PICK S : Widens(noted, n, S, change) BY <2>1, <2>3
  <2>5. Keeps(m, n) /\ Slab(n) = Slab(m) BY <1>5, <2>4, KeepsTwice DEF Widens, Steady
  <2>6. \A t \in Slab(m) : n.store[t].flow.window <= m.store[t].flow.window + change
    <3>1. ASSUME NEW t \in Slab(m) PROVE n.store[t].flow.window <= m.store[t].flow.window + change
      <4>1. n.store[t].flow.window <= m.store[t].flow.window + (IF t \in S THEN change ELSE 0)
        BY <1>5, <2>4, <2>5 DEF Widens
      <4>2. m.store[t].flow.window \in Int /\ n.store[t].flow.window \in Int
        <5>1. n \in Locked BY <2>1, <2>3 DEF Sound
        <5>2. QED BY <1>6, <2>5, <5>1, StreamTyped DEF Streams, Flows
      <4> HIDE DEF noted, change
      <4>3. QED BY <2>2, <4>1, <4>2
    <3>2. QED BY <3>1
  <2>7. QED BY <1>5, <2>1, <2>3, <2>4, <2>5, <2>6 DEF Rewindows, Widens, n
<1>9. CASE change = 0
  <2>1. n = m BY <1>9, <1>3, Zenon
  <2>2. Steady(m, m) BY <1>1, KeepsNothing
  <2>3. \A t \in Slab(m) : m.store[t].flow.window <= m.store[t].flow.window + change BY <1>6, <1>9
  <2> HIDE DEF n
  <2>4. QED BY <2>1, <2>2, <2>3 DEF Rewindows, Steady, n
<1>10. QED BY <1>2, <1>7, <1>8, <1>9

=============================================================================
