--------------------------- MODULE RecvStreamsProofs ---------------------------
(* The invariant of RecvStreams holds, for every number of streams, every    *)
(* limit, window and length: the steps of HEADERS, PUSH_PROMISE and          *)
(* SETTINGS, of handles that are dropped, of the writing task and of the end *)
(* of the connection, and then the theorems.                                 *)
EXTENDS RecvStreamsLemmas

-----------------------------------------------------------------------------
(* Trailers.                                                                 *)

\* An entry that is set and then put is put.
LEMMA SetsIs ==
  ASSUME NEW c \in Contexts, NEW b \in Locked(c.i), NEW s \in Slab(b), NEW h \in Streams
  PROVE  LET x == Sets(b, s, h)
         IN  /\ x \in Locked(c.i) /\ s \in Slab(x) /\ x.store[s] = h /\ x.expiring = b.expiring
             /\ \A r, P, t : Put(x, s, r, P, t) = Put(b, s, r, P, t)
<1> DEFINE x == Sets(b, s, h)
<1>1. x.store[s] = h BY StoredTwice
<1>2. Stored(b, s, h) \in Stores(c.i) /\ DOMAIN Stored(b, s, h) = Slab(b)
  BY StorePut DEF Stored, Locked, Slab
<1>3. x = [b EXCEPT !.store = Stored(b, s, h)] BY DEF Sets
<1>4. x \in Locked(c.i) /\ x.store = Stored(b, s, h) /\ x.expiring = b.expiring BY <1>2, <1>3 DEF Locked
<1>5. x.accept = b.accept /\ x.updates = b.updates /\ x.sending = b.sending BY <1>3 DEF Locked
<1>6. b.store \in [Slab(b) -> Streams] BY StoreTyped DEF Locked, Slab
<1> HIDE DEF x
<1>7. ASSUME NEW r, NEW P, NEW t
      PROVE  Put(x, s, r, P, t) = Put(b, s, r, P, t)
  <2> DEFINE f == [b.store EXCEPT ![s] = r]
             p1 == Push(b.accept, s, "accept" \in P)
             p2 == Push(b.updates, s, "updates" \in P)
             p3 == Push(b.sending, s, "sending" \in P)
  <2>1. [x.store EXCEPT ![s] = r] = f BY <1>4, <1>6 DEF Stored
  <2>2. Put(x, s, r, P, t) = [x EXCEPT !.store = f, !.accept = p1, !.updates = p2, !.sending = p3, !.woken = t]
    BY <1>5, <2>1 DEF Put
  <2>3. Put(b, s, r, P, t) = [b EXCEPT !.store = f, !.accept = p1, !.updates = p2, !.sending = p3, !.woken = t]
    BY DEF Put
  <2> DEFINE g == Stored(b, s, h)
  <2>4. x = [b EXCEPT !.store = g] BY <1>3
  <2> HIDE DEF f, p1, p2, p3, g
  <2>5. [x EXCEPT !.store = f, !.accept = p1, !.updates = p2, !.sending = p3, !.woken = t]
          = [b EXCEPT !.store = f, !.accept = p1, !.updates = p2, !.sending = p3, !.woken = t]
    BY ONLY <2>4, b \in Locked(c.i) DEF Locked
  <2>6. QED BY <2>2, <2>3, <2>5
<1>8. QED BY <1>1, <1>2, <1>4, <1>7 DEF x, Slab

\* A stream error of a stream of which the state has just been set.
LEMMA ErrorEnds ==
  ASSUME NEW c \in Contexts, NEW m \in Locked(c.i), NEW s \in Slab(m), NEW y \in States, ~IsReset(y)
  PROVE  EndsOne(m, SendReset(Sets(m, s, [m.store[s] EXCEPT !.state = y]), s), s, LocalResets)
<1> DEFINE st == m.store[s]
           h == [st EXCEPT !.state = y]
           x == Sets(m, s, h)
           n == SendReset(x, s)
<1>1. st \in Streams BY StreamTyped
<1>2. h \in Streams /\ h.state = y BY <1>1 DEF Streams
<1>3. \A r \in Streams : Shut(h, r) /\ r.state \in LocalResets => Shut(st, r)
  <2> SUFFICES ASSUME NEW r \in Streams, Shut(h, r), r.state \in LocalResets
               PROVE  Shut(st, r)
    OBVIOUS
  <2> DEFINE a == r.state
             o == r.out
             t == r.task
  <2>1. r = [h EXCEPT !.state = a, !.out = o, !.task = t] BY DEF Shut
  <2>2. r.state \in Ends BY DEF LocalResets, Ends, Causes
  <2> HIDE DEF a, o, t
  <2>3. r = [st EXCEPT !.state = a, !.out = o, !.task = t] BY <1>1, <2>1 DEF Streams
  <2>4. QED BY <2>2, <2>3 DEF Shut, a, o, t
<1> HIDE DEF h, st
<1>4. /\ x \in Locked(c.i) /\ s \in Slab(x) /\ x.store[s] = h
      /\ \A r, P, t : Put(x, s, r, P, t) = Put(m, s, r, P, t)
  BY <1>2, SetsIs
<1> HIDE DEF x
<1>5. EndsOne(x, n, s, LocalResets) BY <1>2, <1>4, SendResetEnds
<1> HIDE DEF n
<1>6. PICK r \in Streams, P \in {NoQueue, SendQueue}, t \in BOOLEAN :
        Shut(h, r) /\ r.state \in LocalResets /\ n = Put(x, s, r, P, t)
  BY <1>4, <1>5 DEF EndsOne
<1>7. Shut(st, r) /\ n = Put(m, s, r, P, t) BY <1>3, <1>4, <1>6
<1>8. EndsOne(m, n, s, LocalResets) BY <1>6, <1>7 DEF EndsOne, st
<1>9. QED BY <1>8 DEF n, x, h, st

\* The entry when its trailers have been delivered.
Trailed(st) ==
  [st EXCEPT !.state = RecvClose(@), !.events = Append(@, Event("trailers", 0)), !.task = "none"]

\* Trailers end what is received.
LEMMA TrailedFine ==
  ASSUME NEW c \in Contexts, NEW init \in 0 .. MaxWindow, NEW k, NEW st \in Streams, NEW w,
         Fine(c, init, k, st, w), IsRecvStreaming(st.state)
  PROVE  LET r == Trailed(st)
         IN  /\ r \in Streams /\ r.state = RecvClose(st.state) /\ r.promises = st.promises
             /\ r.counted = st.counted /\ r.inFlight = st.inFlight
             /\ Fine(c, init, k, r, w) /\ (Ready(c, st, w) => Ready(c, r, w))
<1> DEFINE r == Trailed(st)
           x == Event("trailers", 0)
<1>1. st.state \in RoleStates(c.i) BY DEF Fine
<1>2. /\ RecvClose(st.state) \in States /\ RecvClose(st.state) \in RoleStates(c.i)
      /\ RecvClose(st.state) \notin {Idle, ReservedRemote} /\ ~IsRecvStreaming(RecvClose(st.state))
      /\ ~IsClosed(st.state) /\ ~IsReset(st.state) /\ st.state # Idle
  BY <1>1, StreamingStates
<1>3. x \in Events /\ st.events \in Seq(Events) BY DEF Event, Events, Streams
<1> HIDE DEF x
<1>4. /\ r \in Streams /\ r.state = RecvClose(st.state) /\ r.flow = st.flow /\ r.inFlight = st.inFlight
      /\ r.events = Append(st.events, x) /\ r.handles = st.handles
      /\ r.promises = st.promises /\ r.counted = st.counted /\ r.out = st.out
  <2>1. r = [st EXCEPT !.state = RecvClose(st.state), !.events = Append(st.events, x), !.task = "none"]
    BY DEF Trailed, x
  <2>2. Append(st.events, x) \in Seq(Events) BY <1>3
  <2> DEFINE y == RecvClose(st.state)
             e == Append(st.events, x)
  <2> HIDE DEF y, e, r
  <2>3. y \in States /\ e \in Seq(Events) BY <1>2, <2>2 DEF y, e
  <2>4. r = [st EXCEPT !.state = y, !.events = e, !.task = "none"] BY <2>1 DEF y, e
  <2>5. r \in Streams /\ r.state = y /\ r.events = e BY <2>3, <2>4 DEF Streams
  <2>6. /\ r.flow = st.flow /\ r.inFlight = st.inFlight /\ r.handles = st.handles
        /\ r.promises = st.promises /\ r.counted = st.counted /\ r.out = st.out
    BY <2>4 DEF Streams
  <2>7. QED BY <2>5, <2>6 DEF y, e
<1> HIDE DEF r
<1>5. Live(st) BY <1>2 DEF Live
<1>6. {"current", "alone"} \subseteq w /\ st.flow.available + st.inFlight = init /\ st.flow.window <= init
      /\ "expiring" \notin w /\ k \in Nat
  BY <1>2, <1>5 DEF Fine
<1>7. HeadersFirst(st) => HeadersFirst(r) BY <1>3, <1>4, AwaitsMore
<1>8. (Awaits(st, 1) => Awaits(r, 1)) /\ (Awaits(st, 2) => Awaits(r, 2)) BY <1>3, <1>4, AwaitsMore
<1>9. Fine(c, init, k, r, w) BY <1>2, <1>4, <1>6, <1>7, <1>8 DEF Fine
<1>10. Ready(c, st, w) => Ready(c, r, w) BY <1>2, <1>4 DEF Ready, Owned, Keeps
<1>11. QED BY <1>4, <1>9, <1>10 DEF r

\* What is known when a frame of headers has been read.
Heard(c, m, o, s, eos) ==
  /\ Sound(c, o, {}, 0)
  /\ ~o.err =>
       /\ \E more \in {0, 1} :
            /\ Steady(c, Bump(m, more), o, {s})
            /\ more = 1 => Linked(m, s) /\ m.store[m.ids[s]].state \in {Idle, ReservedRemote}
       /\ Linked(o, s) => Outcome(o.store[o.ids[s]], m.initWindow, eos)

\* No slot, no change.
LEMMA BumpNothing ==
  ASSUME NEW c \in Contexts, NEW m \in Locked(c.i)
  PROVE  Bump(m, 0) = m
BY DEF Bump, Locked

\* What is read of an entry that an id finds.
LEMMA HeardOne ==
  ASSUME NEW c \in Contexts, NEW m, Sound(c, m, {}, 0), NEW s, Linked(m, s), NEW o, Sound(c, o, {}, 0),
         NEW more \in {0, 1}, more = 1 => m.store[m.ids[s]].state \in {Idle, ReservedRemote},
         Steady(c, Bump(m, more), o, {s}), NEW eos,
         \A t \in DOMAIN o.ids : t \in DOMAIN m.ids /\ o.ids[t] = m.ids[t],
         m.ids[s] \in Slab(o) => Outcome(o.store[m.ids[s]], m.initWindow, eos)
  PROVE  Heard(c, m, o, s, eos)
<1>1. Linked(o, s) => o.ids[s] = m.ids[s] /\ m.ids[s] \in Slab(o) BY DEF Sound, Linking, Linked
<1>2. QED BY <1>1 DEF Heard

\* Trailers for a stream that an id finds.
LEMMA TrailersHeard ==
  ASSUME NEW c \in Contexts, NEW m, Sound(c, m, {}, 0), NEW s, Linked(m, s), NEW k, k = m.ids[s],
         ~CanRecvClose(m.store[k].state) \/ IsRecvStreaming(m.store[k].state)
  PROVE  Heard(c, m, TransitionAfter(RecvTrailers(m, k), k, Queued(m.expiring, k)), s, TRUE)
<1> DEFINE st == m.store[k]
           q == Queued(m.expiring, k)
           n == RecvTrailers(m, k)
           o == TransitionAfter(n, k, q)
           y == RecvClose(st.state)
           h == [st EXCEPT !.state = y]
           ended == [m EXCEPT !.store[k].state = RecvClose(@)]
           none == {}
           z == 0
           w == Marks(m, k)
           init == m.initWindow
           yes == TRUE
           ids == {s}
<1>1. /\ k \in Slab(m) /\ IdOf(k) = s /\ Ready(c, st, w) /\ Fine(c, init, k, st, w)
      /\ m \in Locked(c.i) /\ init \in 0 .. MaxWindow /\ none \subseteq {k} /\ z \in Int /\ ~(z = 1)
      /\ Sound(c, m, none, z)
  BY ReadyFit DEF Sound, Linking, Linked, Locked
<1>2. st \in Streams BY <1>1, StreamTyped
<1>3. Bump(m, z) = m BY <1>1, BumpNothing
<1>4. CASE ~CanRecvClose(st.state)
  <2>1. n = ConnError(m) BY <1>4 DEF RecvTrailers
  <2>2. Sound(c, o, {}, 0) /\ o.err BY <1>1, <2>1, ErrorPassed
  <2>3. QED BY <2>2 DEF Heard
<1>5. CASE CanRecvClose(st.state) /\ IsRecvStreaming(st.state)
  <2>1. /\ y \in States /\ ~IsRecvHeaders(y) /\ ~IsRecvStreaming(y) /\ ~IsReset(y)
    <3>1. st.state \in RoleStates(c.i) BY <1>1 DEF Fine
    <3>2. ~IsReset(y) BY DEF IsReset, RecvClose, IsClosed, HalfClosedRemote, Closed
    <3>3. QED BY <1>5, <3>1, <3>2, StreamingStates
  <2>2. ended = Sets(m, k, h) BY DEF Sets, Stored
  <2>3. CASE st.length > 0
    <3> DEFINE D == LocalResets
    <3>1. n = SendReset(ended, k) BY <1>5, <2>3 DEF RecvTrailers
    <3>2. EndsOne(m, n, k, LocalResets) BY <1>1, <2>1, <2>2, <3>1, ErrorEnds
    <3> HIDE DEF n, none, z, q, y, h, ended, o, st, w
    <3>3. Fit(c, m.store[k], Marks(m, k)) BY <1>1, ReadyFit DEF st, w
    <3>4. Ended(c, m, n, k, none, z, LocalResets) BY <1>1, <3>2, EndsOneSound
    <3>5. Finishes(c, m, o, k, z, LocalResets) BY <1>1, <3>3, <3>4, EndedFinishes DEF o, q
    <3>6. Heard(c, m, o, s, yes)
      <4>1. /\ Sound(c, o, {}, 0) /\ Steady(c, Bump(m, z), o, {s}) /\ z \in {0, 1}
            /\ \A t \in DOMAIN o.ids : t \in DOMAIN m.ids /\ o.ids[t] = m.ids[t]
        BY <1>1, <1>3, <3>5 DEF Finishes, z
      <4>2. k \in Slab(o) => Outcome(o.store[k], m.initWindow, yes)
        BY <3>5 DEF Finishes, Outcome, LocalResets, IsReset, IsClosed, Closed
      <4> HIDE DEF yes
      <4>3. QED BY <1>1, <4>1, <4>2, HeardOne
    <3>7. QED BY <3>6 DEF o, n, q, yes, st
  <2>4. CASE ~(st.length > 0)
    <3> DEFINE r == Trailed(st)
               f == NoQueue
    <3>1. /\ r \in Streams /\ r.state = y /\ r.promises = st.promises
          /\ r.counted = st.counted /\ r.inFlight = st.inFlight
          /\ Fine(c, init, k, r, w) /\ Ready(c, r, w)
      BY <1>1, <1>2, <1>5, TrailedFine
    <3>2. n = Put(m, k, r, f, m.woken)
      <4> DEFINE a1 == [ended EXCEPT !.store[k].events = Append(@, Event("trailers", 0))]
                 r1 == [h EXCEPT !.events = Append(h.events, Event("trailers", 0))]
      <4>1. n = Notify(a1, k) BY <1>5, <2>4 DEF RecvTrailers, Deliver
      <4>2. h \in Streams /\ ended.store[k] = h
        <5>1. h \in Streams
          <6> HIDE DEF y, st
          <6>1. QED BY <1>2, <2>1 DEF Streams
        <5> HIDE DEF h, ended
        <5>2. QED BY <1>1, <2>2, <5>1, StoredTwice
      <4>3. a1 = Sets(ended, k, r1) BY <4>2 DEF Sets, Stored
      <4> HIDE DEF h, ended, r1
      <4>4. a1 = Sets(m, k, r1) BY <1>1, <2>2, <4>3, StoredTwice
      <4> HIDE DEF a1
      <4> DEFINE r2 == [r1 EXCEPT !.task = "none"]
      <4>5. a1.store[k] = r1 BY <1>1, <4>4, StoredTwice
      <4>6. n = Sets(a1, k, r2) BY <4>1, <4>5 DEF Notify, Sets, Stored
      <4> HIDE DEF r2
      <4>7. n = Sets(m, k, r2) BY <1>1, <4>4, <4>6, StoredTwice
      <4>8. r2 = r BY <1>2 DEF r2, r1, h, Trailed, Streams
      <4> HIDE DEF r, n
      <4>9. Sets(m, k, r) = Put(m, k, r, f, m.woken) BY <1>1, StorePuts
      <4>10. QED BY <4>7, <4>8, <4>9
    <3>3. w \cup f = w /\ f \in SUBSET Pushable /\ m.woken \in BOOLEAN BY <1>1 DEF NoQueue, Locked
    <3> HIDE DEF r, f, n, none, z, q, y, h, ended, o
    <3>4. PutTo(c, m, n, k, r, f, none, z)
      <4> DEFINE v == m.woken
      <4>1. n = Put(m, k, r, f, v) /\ v \in BOOLEAN BY <3>2, <3>3
      <4> HIDE DEF v
      <4>2. Fine(c, m.initWindow, k, r, Marks(m, k) \cup f) BY <3>1, <3>3
      <4>3. QED BY <1>1, <3>1, <3>3, <4>1, <4>2, PutSteady
    <3>5. Ready(c, r, Marks(m, k) \cup f) BY <3>1, <3>3
    <3>6. Closes(c, m, n, o, k, r, z) BY <1>1, <3>4, <3>5, PutSettles DEF o, q
    <3>7. k \in Slab(o) => Outcome(o.store[k], m.initWindow, yes)
      <4>1. k \in Slab(o) => SameBut(r, o.store[k]) BY <3>6 DEF Closes
      <4>2. k \in Slab(o) => o.store[k].state = y BY <3>1, <4>1 DEF SameBut, Streams
      <4>3. QED BY <2>1, <4>2 DEF Outcome
    <3>8. /\ Sound(c, o, {}, 0) /\ Steady(c, Bump(m, z), o, {s}) /\ z \in {0, 1}
          /\ \A t \in DOMAIN o.ids : t \in DOMAIN m.ids /\ o.ids[t] = m.ids[t]
      BY <1>1, <1>3, <3>6 DEF Closes, z
    <3> HIDE DEF yes
    <3>9. Heard(c, m, o, s, yes) BY <1>1, <3>7, <3>8, HeardOne
    <3>10. QED BY <3>9 DEF o, n, q, yes
  <2>5. QED BY <2>3, <2>4
<1>6. QED BY <1>4, <1>5

\* A message for a stream of a client that awaits one.
LEMMA HeadHeard ==
  ASSUME NEW c \in Contexts, c.i = instance, c.i \notin Servers, NEW m, Sound(c, m, {}, 0), NEW s, Linked(m, s),
         NEW k, k = m.ids[s], IsRecvHeaders(m.store[k].state), m.store[k].flow.window = m.initWindow,
         Room(c, m, m.store[k]), NEW eos \in BOOLEAN, NEW len \in Int, NEW how
  PROVE  Heard(c, m, TransitionAfter(RecvMessage(m, k, eos, len, how), k, Queued(m.expiring, k)), s, eos)
<1> DEFINE st == m.store[k]
           o == TransitionAfter(RecvMessage(m, k, eos, len, how), k, Queued(m.expiring, k))
           w == Marks(m, k)
           init == m.initWindow
           none == {}
           more == Slot(st)
<1>1. /\ k \in Slab(m) /\ IdOf(k) = s /\ Ready(c, st, w) /\ Fine(c, init, k, st, w) /\ none \subseteq {k}
      /\ Sound(c, m, none, 0)
  BY ReadyFit DEF Sound, Linking, Linked
<1>2. Headed(c, init, k, st, w)
  <2>1. st.state \in {ReservedRemote, HalfClosedLocal("AwaitingHeaders")}
    <3> DEFINE y == st.state
    <3>1. y \in RoleStates(c.i) /\ y # Idle /\ IsRecvHeaders(y) BY <1>1 DEF Fine, Ready
    <3> HIDE DEF y
    <3>2. y \in ClientStates BY <3>1 DEF RoleStates
    <3>3. y.inner # "Closed" BY <3>1 DEF IsRecvHeaders, Idle, ReservedRemote, HalfClosedLocal, Open
    <3>4. y # HalfClosedLocal("Streaming")
      BY <3>1 DEF IsRecvHeaders, Idle, ReservedRemote, HalfClosedLocal, Open
    <3>5. y \in {ReservedRemote, HalfClosedLocal("AwaitingHeaders")}
      <4>1. \A x : Closed(x).inner = "Closed" BY DEF Closed
      <4>2. QED BY <3>2, <3>3, <3>4, <4>1 DEF ClientStates, Peers
    <3>6. QED BY <3>5 DEF y
  <2>2. QED BY <1>1, <2>1 DEF Headed, Awaited
<1>3. Opened(c, m, o, k, eos)
  <2> HIDE DEF none, o
  <2>1. Headed(c, m.initWindow, k, m.store[k], Marks(m, k)) BY <1>2
  <2>2. QED BY <1>1, <2>1, MessageSound DEF o
<1> HIDE DEF o
<1>4. /\ Sound(c, o, {}, 0) /\ Steady(c, Bump(m, more), o, {s})
      /\ k \in Slab(o) => Outcome(o.store[k], m.initWindow, eos)
      /\ \A t \in DOMAIN o.ids : t \in DOMAIN m.ids /\ o.ids[t] = m.ids[t]
  BY <1>1, <1>3 DEF Opened
<1>5. more \in {0, 1} /\ (more = 1 => m.store[m.ids[s]].state \in {Idle, ReservedRemote})
  BY DEF Slot, IsInitial
<1> HIDE DEF more
<1>6. Heard(c, m, o, s, eos) BY <1>4, <1>5, HeardOne
<1>7. QED BY <1>6 DEF o

\* What this end has reset is left alone.
LEMMA SameHeard ==
  ASSUME NEW c \in Contexts, NEW m, Sound(c, m, {}, 0), NEW s, Linked(m, s), IsLocalReset(m.store[m.ids[s]].state),
         NEW eos
  PROVE  Heard(c, m, m, s, eos)
<1> DEFINE z == 0
<1>1. z \in {0, 1} /\ ~(z = 1) OBVIOUS
<1>2. m \in Locked(c.i) BY DEF Sound
<1>3. Bump(m, z) = m /\ Steady(c, m, m, {s}) BY <1>2, BumpNothing, SteadySelf
<1>4. Outcome(m.store[m.ids[s]], m.initWindow, eos)
  BY DEF Outcome, IsLocalReset, IsReset, IsClosed, Closed
<1> HIDE DEF z
<1>5. QED BY <1>1, <1>3, <1>4, HeardOne

\* An error of the stream.
LEMMA ResetHeard ==
  ASSUME NEW c \in Contexts, NEW m, Sound(c, m, {}, 0), NEW s, Linked(m, s) \/ MayInsert(c, m, s),
         Linked(m, s) => m.store[m.ids[s]].promises = <<>>, NEW eos
  PROVE  Heard(c, m, ActionsSendReset(m, s), s, eos)
<1> DEFINE z == 0
           o == ActionsSendReset(m, s)
<1>1. z \in {0, 1} /\ ~(z = 1) /\ z \in Int /\ Sound(c, m, {}, z) OBVIOUS
<1>2. Bump(m, z) = m BY BumpNothing DEF Sound
<1> HIDE DEF z
<1>3. Resets(c, m, o, s, z) BY <1>1, ResetSound
<1> HIDE DEF o
<1>4. Sound(c, o, {}, 0) BY <1>3 DEF Resets, z
<1>5. Steady(c, Bump(m, z), o, {s}) BY <1>2, <1>3 DEF Resets
<1>6. Linked(o, s) => Outcome(o.store[o.ids[s]], m.initWindow, eos) BY <1>3 DEF Resets, Outcome
<1>7. Heard(c, m, o, s, eos) BY <1>1, <1>4, <1>5, <1>6 DEF Heard
<1>8. QED BY <1>7 DEF o

\* HEADERS for a stream that is not new.
LEMMA HeadersHeard ==
  ASSUME NEW c \in Contexts, c.i = instance, NEW m, Sound(c, m, {}, 0), m.refused = NoId, NEW s \in Int,
         Linked(m, s) \/ MayInsert(c, m, s), NEW eos \in BOOLEAN,
         LET st == m.store[m.ids[s]]
         IN  Linked(m, s) => /\ IsRecvHeaders(st.state) => st.flow.window = m.initWindow /\ Room(c, m, st)
                             /\ ~eos => st.promises = <<>> \/ IsRecvHeaders(st.state) \/ IsLocalReset(st.state),
         NEW len \in Int, NEW how, NEW y \in BOOLEAN, eos => y,
         Linked(m, s) /\ y => eos \/ ~IsRecvHeaders(m.store[m.ids[s]].state)
  PROVE  Heard(c, m, RecvHeadersFrame(m, s, eos, len, how), s, y)
<1> DEFINE k == m.ids[s]
           st == m.store[k]
           q == Queued(m.expiring, k)
           o == RecvHeadersFrame(m, s, eos, len, how)
<1>1. IsServer <=> c.i \in Servers BY DEF IsServer
<1>2. CASE ~Linked(m, s)
  <2>1. s < m.nextId /\ MayInsert(c, m, s) BY <1>2 DEF MayInsert
  <2>2. CASE ~IsServer
    <3>1. o = ActionsSendReset(m, s) BY <1>2, <2>1, <2>2 DEF RecvHeadersFrame, MayHaveForgotten
    <3>2. QED BY <1>2, <2>1, <3>1, ResetHeard
  <2>3. CASE IsServer
    <3>1. RecvOpenId(m, s, FALSE) = ConnError(m) BY <2>1, <2>3 DEF RecvOpenId, Check
    <3>2. ~Linked(ConnError(m), s) BY <1>2 DEF ConnError, Linked
    <3>3. o = ConnError(m) BY <1>2, <2>3, <3>1, <3>2 DEF RecvHeadersFrame
    <3>4. Sound(c, ConnError(m), {}, 0) /\ ConnError(m).err BY ErrorSound
    <3>5. QED BY <3>3, <3>4 DEF Heard
  <2>4. QED BY <2>2, <2>3
<1>3. CASE Linked(m, s)
  <2>1. k \in Slab(m) /\ Ready(c, st, Marks(m, k)) /\ st.state \in RoleStates(c.i)
    BY <1>3, ReadyFit DEF Sound, Linking, Linked, Fine
  <2>2. /\ IsLocalReset(st.state) => o = m
        /\ ~IsLocalReset(st.state) /\ ~IsRecvHeaders(st.state) /\ ~eos => o = ActionsSendReset(m, s)
        /\ ~IsLocalReset(st.state) /\ ~IsRecvHeaders(st.state) /\ eos => o = TransitionAfter(RecvTrailers(m, k), k, q)
        /\ ~IsLocalReset(st.state) /\ IsRecvHeaders(st.state) =>
             o = TransitionAfter(RecvMessage(m, k, eos, len, how), k, q)
    BY <1>3 DEF RecvHeadersFrame, Transition
  <2> HIDE DEF o
  <2>3. CASE IsLocalReset(st.state) BY <1>3, <2>2, <2>3, SameHeard DEF o
  <2>4. CASE ~IsLocalReset(st.state) /\ IsRecvHeaders(st.state)
    <3>1. c.i \notin Servers
      BY <2>1, <2>4 DEF RoleStates, ServerStates, Ready, IsRecvHeaders, Closed, HalfClosedLocal, HalfClosedRemote,
                        Open, Idle, ReservedRemote, Peers
    <3>2. st.flow.window = m.initWindow /\ Room(c, m, st) BY <1>3, <2>4
    <3>3. y = eos BY <1>3, <2>4
    <3>4. QED BY <1>3, <2>2, <2>4, <3>1, <3>2, <3>3, HeadHeard DEF o
  <2>5. CASE ~IsLocalReset(st.state) /\ ~IsRecvHeaders(st.state) /\ ~eos BY <1>3, <2>2, <2>5, ResetHeard DEF o
  <2>6. CASE ~IsLocalReset(st.state) /\ ~IsRecvHeaders(st.state) /\ eos
    <3>1. ~CanRecvClose(st.state) \/ IsRecvStreaming(st.state)
      BY <2>1, <2>6 DEF RoleStates, ServerStates, ClientStates, Ready, IsRecvHeaders, IsRecvStreaming, CanRecvClose,
                        Closed, HalfClosedLocal, HalfClosedRemote, Open, Idle, ReservedRemote, Peers
    <3>2. y = TRUE BY <2>6
    <3>3. QED BY <1>3, <2>2, <2>6, <3>1, <3>2, TrailersHeard DEF o
  <2>7. QED BY <2>3, <2>4, <2>5, <2>6
<1>4. QED BY <1>2, <1>3

\* What the peer knows of a stream on which it has sent a frame of headers.
LEMMA OutcomeTold ==
  ASSUME NEW i, NEW init, NEW p, NEW st, NEW eos \in BOOLEAN, Outcome(st, init, eos),
         p.said \in {"open", "ended"}, ~eos => p.said = "open" /\ p.credit = init,
         eos => p.said = "ended" \/ i \in Servers
  PROVE  Told(i, init, p, st)
<1>1. CASE IsReset(st.state)
  BY <1>1 DEF Told, IsReset, IsClosed, IsRecvStreaming, IsRecvHeaders, Idle, ReservedRemote, HalfClosedLocal, Open
<1>2. CASE ~IsReset(st.state)
  <2>1. ~IsRecvHeaders(st.state) /\ st.state # ReservedRemote BY <1>2 DEF Outcome, IsRecvHeaders
  <2>2. IsRecvStreaming(st.state) => ~eos /\ st.flow.window = init BY <1>2 DEF Outcome
  <2>3. st.state = Closed("EndStream") => eos BY <1>2 DEF Outcome
  <2>4. QED BY <2>1, <2>2, <2>3 DEF Told
<1>3. QED BY <1>1, <1>2

\* The peer has begun a stream, for which a slot may have been taken.
LEMMA BumpAgree ==
  ASSUME NEW c \in Contexts, NEW m \in Locked(c.i), NEW n \in Locked(c.i), NEW q, NEW p, NEW s,
         Agree(c.i, m, q), NEW more \in {0, 1}, Steady(c, Bump(m, more), n, {s}), Spoken(c.i, q, p, s),
         p.stream[s].said \notin {"nothing", "promised"}, s < m.nextId, m.refused = NoId,
         c.i \notin Servers /\ more = 1 => s \in Pending(c.i, q),
         s \in DOMAIN n.ids => Told(c.i, n.initWindow, p.stream[s], n.store[n.ids[s]])
  PROVE  Agree(c.i, n, p)
<1> DEFINE b == Bump(m, more)
<1>1. /\ b \in Locked(c.i) /\ b.store = m.store /\ b.ids = m.ids /\ b.numRecv = m.numRecv + more
      /\ b.flow = m.flow /\ b.err = m.err /\ b.refused = m.refused
      /\ b.initWindow = m.initWindow /\ b.nextId = m.nextId
  BY BumpIs
<1> HIDE DEF b
<1>2. Steady(c, b, n, {s}) BY DEF b
<1>3. /\ n.nextId = m.nextId /\ n.numRecv <= m.numRecv + more /\ n.refused = NoId
  BY <1>1, <1>2 DEF Steady
<1>4. AgreeBut(c.i, b, q, s) BY <1>1 DEF Agree, AgreeBut
<1>5. Ordered(c.i, n.nextId, p)
  <2>1. \A t \in IdsOf(c.i) : p.stream[t].said # "nothing" => t < n.nextId
    BY <1>3 DEF Agree, Ordered, Spoken
  <2>2. n.nextId > 1 => n.nextId - 1 \in PeerIds[c.i] /\ p.stream[n.nextId - 1].said # "nothing"
    BY <1>3 DEF Agree, Ordered, Spoken, IdsOf
  <2>3. QED BY <2>1, <2>2 DEF Ordered
<1>6. Roomy(c.i, n.numRecv, p)
  <2>1. CASE c.i \in Servers BY <2>1 DEF Roomy
  <2>2. CASE c.i \notin Servers
    <3> DEFINE before == Pending(c.i, q)
               after == Pending(c.i, p)
    <3>1. after = before \ {s} BY DEF Pending, Spoken, IdsOf
    <3>2. c.i \in Instances BY DEF Contexts
    <3>3. IsFiniteSet(before)
      <4>1. before \subseteq PeerIds[c.i] BY DEF Pending
      <4>2. IsFiniteSet(PeerIds[c.i]) BY <3>2, RecvAssumption
      <4>3. QED BY <4>1, <4>2, FS_Subset
    <3>4. more = 1 => s \in before BY <2>2
    <3> HIDE DEF before, after
    <3>5. /\ Cardinality(before) \in Nat /\ Cardinality(after) \in Nat
          /\ Cardinality(after) + more <= Cardinality(before)
      <4>1. /\ Cardinality(after) = IF s \in before THEN Cardinality(before) - 1 ELSE Cardinality(before)
            /\ IsFiniteSet(after)
        BY <3>1, <3>3, FS_RemoveElement
      <4>2. Cardinality(before) \in Nat /\ Cardinality(after) \in Nat BY <3>3, <4>1, FS_CardinalityType
      <4>3. QED BY <3>4, <4>1, <4>2
    <3>6. m.numRecv + Cardinality(before) <= MaxRecv[c.i] BY <2>2 DEF Agree, Roomy, before
    <3>7. MaxRecv[c.i] \in Nat BY <3>2, RecvAssumption
    <3>8. m.numRecv \in Int /\ n.numRecv \in Int BY DEF Locked
    <3>9. n.numRecv + Cardinality(after) <= MaxRecv[c.i] BY <1>3, <3>5, <3>6, <3>7, <3>8
    <3>10. QED BY <3>9 DEF Roomy, after
  <2>3. QED BY <2>1, <2>2
<1>7. QED BY <1>1, <1>2, <1>3, <1>4, <1>5, <1>6, AgreeOne

\* What has been read of a stream that is not new agrees with what the peer
\* says then.
LEMMA HeardStep ==
  ASSUME IInv, end = "open", me.refused = NoId, NEW s \in Ids, NEW o, NEW eos \in BOOLEAN,
         Heard(Context, me, o, s, eos), Applied(o), peer' \in Peer, Spoken(instance, peer, peer', s),
         Said(s) # "nothing" \/ s < me.nextId, Said(s) = "promised" => s # Parent,
         peer'.stream[s].said \in {"open", "ended"},
         ~eos => peer'.stream[s].said = "open" /\ peer'.stream[s].credit = me.initWindow,
         eos => peer'.stream[s].said = "ended" \/ IsServer
  PROVE  IInv'
<1> DEFINE c == Context
           m == me
           p == peer'
           q == peer
<1>1. /\ c \in Contexts /\ c.i = instance /\ Sound(c, m, {}, 0) /\ m \in Locked(c.i) /\ Agree(c.i, m, q)
      /\ s \in IdsOf(c.i) /\ (IsServer <=> c.i \in Servers) /\ Spoken(c.i, q, p, s)
  BY Before
<1>2. s < m.nextId
  <2>1. CASE Said(s) # "nothing" BY <2>1, SpokenKnown
  <2>2. QED BY <2>1
<1>3. CASE o.err BY <1>3, AppliedError DEF Heard
<1>4. CASE ~o.err
  <2>1. Sound(c, o, {}, 0) /\ o \in Locked(c.i) BY DEF Heard, Sound
  <2>2. PICK more \in {0, 1} :
          /\ Steady(c, Bump(m, more), o, {s})
          /\ more = 1 => Linked(m, s) /\ m.store[m.ids[s]].state \in {Idle, ReservedRemote}
    BY <1>4 DEF Heard
  <2>3. c.i \notin Servers /\ more = 1 => s \in Pending(c.i, q)
    <3> SUFFICES ASSUME c.i \notin Servers, more = 1
                 PROVE  s \in Pending(c.i, q)
      OBVIOUS
    <3> DEFINE k == m.ids[s]
    <3>1. Linked(m, s) /\ m.store[k].state \in {Idle, ReservedRemote} BY <2>2
    <3>2. k \in Slab(m) /\ m.store[k].state # Idle BY <1>1, <3>1 DEF Sound, Linking, Linked, Settled, Ready
    <3>3. Told(c.i, m.initWindow, q.stream[s], m.store[k]) BY <1>1, <3>1 DEF Agree, Linked
    <3>4. q.stream[s].said = "promised" BY <3>1, <3>2, <3>3 DEF Told
    <3>5. s # Parent BY <3>4 DEF Said
    <3>6. QED BY <1>1, <3>4, <3>5 DEF Pending, IdsOf
  <2>4. o.initWindow = m.initWindow
    <3>1. more \in Int OBVIOUS
    <3>2. Bump(m, more).initWindow = m.initWindow BY <1>1, <3>1, BumpIs
    <3>3. QED BY <2>2, <3>2 DEF Steady
  <2>5. s \in DOMAIN o.ids => Told(c.i, o.initWindow, p.stream[s], o.store[o.ids[s]])
    <3> DEFINE st == o.store[o.ids[s]]
               init == m.initWindow
               e == p.stream[s]
               i == c.i
    <3>1. s \in DOMAIN o.ids => Outcome(st, init, eos) BY <1>4 DEF Heard, Linked
    <3>2. /\ e.said \in {"open", "ended"} /\ (~eos => e.said = "open" /\ e.credit = init)
          /\ eos => e.said = "ended" \/ i \in Servers
      BY <1>1
    <3> HIDE DEF st, init, e, i
    <3>3. s \in DOMAIN o.ids => Told(i, init, e, st) BY <3>1, <3>2, OutcomeTold
    <3>4. QED BY <2>4, <3>3 DEF st, init, e, i
  <2>6. p.stream[s].said \notin {"nothing", "promised"} OBVIOUS
  <2>7. Agree(c.i, o, p)
    <3>1. m.refused = NoId OBVIOUS
    <3> HIDE DEF c, m, p, q
    <3>2. QED BY ONLY <1>1, <1>2, <2>1, <2>2, <2>3, <2>5, <2>6, <3>1, BumpAgree
  <2>8. Agree(instance, o, peer') BY <1>1, <2>7
  <2>9. QED BY <1>4, <2>1, <2>8, AppliedSpoken
<1>5. QED BY <1>3, <1>4

-----------------------------------------------------------------------------
(* The steps of frames of headers.                                           *)

\* A server has no stream that awaits its message.
LEMMA NoServerHead ==
  ASSUME NEW i \in Servers, NEW x \in RoleStates(i), x # Idle
  PROVE  ~IsRecvHeaders(x)
BY DEF RoleStates, ServerStates, IsRecvHeaders, Closed, HalfClosedLocal, HalfClosedRemote,
       Open, Idle, ReservedRemote, Peers

\* What is known of the entry that the id s finds.
LEMMA LinkedIs ==
  ASSUME IInv, end = "open", NEW s, Linked(me, s)
  PROVE  LET k == me.ids[s]
             st == me.store[k]
         IN  /\ k \in Slab(me) /\ IdOf(k) = s /\ s \in Ids /\ st \in Streams /\ st.state # Idle
             /\ Fine(Context, me.initWindow, k, st, Marks(me, k)) /\ Settled(Context, st, Marks(me, k))
             /\ Told(instance, me.initWindow, peer.stream[s], st)
             /\ IsServer => ~IsRecvHeaders(st.state) /\ st.promises = <<>>
             /\ st.promises # <<>> => s = Parent
<1> DEFINE k == me.ids[s]
           st == me.store[k]
           c == Context
<1>1. /\ c \in Contexts /\ c.i = instance /\ Sound(c, me, {}, 0) /\ me \in Locked(c.i) /\ Agree(instance, me, peer)
      /\ (IsServer <=> c.i \in Servers) /\ Ids = IdsOf(instance)
  BY Before
<1>2. k \in Slab(me) /\ IdOf(k) = s BY <1>1 DEF Sound, Linking, Linked
<1>3. s \in Ids BY <1>1 DEF Linked, Locked, Index
<1>4. st \in Streams BY <1>1, <1>2, StreamTyped
<1>5. Fine(c, me.initWindow, k, st, Marks(me, k)) /\ Settled(c, st, Marks(me, k)) BY <1>1, <1>2 DEF Sound
<1>6. Told(instance, me.initWindow, peer.stream[s], st) BY <1>1 DEF Agree, Linked
<1> HIDE DEF c, k, st
<1>7. st.state # Idle BY <1>5 DEF Settled, Ready
<1>8. IsServer => ~IsRecvHeaders(st.state) /\ st.promises = <<>>
  <2>1. st.state \in RoleStates(c.i) BY <1>5 DEF Fine
  <2>2. IsServer => ~IsRecvHeaders(st.state) BY <1>1, <1>7, <2>1, NoServerHead
  <2>3. QED BY <1>1, <1>5, <2>2 DEF Fine
<1>9. st.promises # <<>> => s = Parent BY <1>2, <1>5 DEF Fine, Parent, IdOf
<1>10. QED BY <1>2, <1>3, <1>4, <1>5, <1>6, <1>7, <1>8, <1>9 DEF c, k, st

\* The codec keeps a second entry of an id free.
LEMMA EntryFree ==
  ASSUME IInv, end = "open", NEW s \in Ids, SecondEntry(s), s < me.nextId
  PROVE  Linked(me, s) \/ MayInsert(Context, me, s)
BY Before DEF MayInsert, SecondEntry

\* A HEADERS frame with trailers.
LEMMA PeerTrailersStep ==
  ASSUME IInv, Careful, NEW s \in Ids, NEW eos \in BOOLEAN, eos \/ "violate" \in Moves[instance],
         PeerTrailers(s, eos)
  PROVE  IInv'
<1> DEFINE c == Context
           how == "ok"
           o == RecvHeadersFrame(me, s, eos, Omitted, how)
           y == TRUE
           said == IF eos THEN "ended" ELSE "open"
<1>1. /\ end = "open" /\ me.refused = NoId /\ SecondEntry(s) /\ Said(s) = "open" /\ Applied(o)
      /\ PeerSays(s, said)
  BY DEF PeerTrailers, Reads, TaskRuns
<1>2. /\ c \in Contexts /\ c.i = instance /\ Sound(c, me, {}, 0) /\ instance \in Instances
      /\ (IsServer <=> instance \in Servers)
  BY Before
<1>3. eos \/ IsServer BY <1>2 DEF Careful, CarefulIn
<1>4. s < me.nextId BY <1>1, SpokenKnown
<1>5. s \in Int /\ Omitted \in Int
  <2>1. s \in IdsOf(instance) /\ IdsOf(instance) \subseteq Nat BY <1>2, Before, IdsAre
  <2>2. QED BY <2>1 DEF Omitted
<1>6. y \in BOOLEAN /\ y OBVIOUS
<1> HIDE DEF y, how, o
<1>7. ASSUME Linked(me, s)
      PROVE  LET st == me.store[me.ids[s]]
             IN  /\ IsRecvHeaders(st.state) => st.flow.window = me.initWindow /\ Room(c, me, st)
                 /\ ~eos => st.promises = <<>> /\ ~IsRecvHeaders(st.state)
  <2> DEFINE st == me.store[me.ids[s]]
  <2>1. /\ st.state # Idle /\ Told(instance, me.initWindow, peer.stream[s], st)
        /\ IsServer => ~IsRecvHeaders(st.state) /\ st.promises = <<>>
    BY <1>1, <1>7, LinkedIs
  <2>2. IsRecvHeaders(st.state) => st.flow.window = me.initWindow /\ st.state # ReservedRemote
    BY <1>1, <1>2, <2>1 DEF Told, Said
  <2>3. IsRecvHeaders(st.state) => Room(c, me, st) BY <2>1, <2>2 DEF Room, IsInitial
  <2>4. QED BY <1>3, <2>1, <2>2, <2>3
<1>8. Heard(c, me, o, s, y)
  <2> DEFINE m == me
             none == {}
  <2>1. Linked(m, s) \/ MayInsert(c, m, s) BY <1>1, <1>4, EntryFree
  <2>2. /\ c \in Contexts /\ c.i = instance /\ Sound(c, m, {}, 0) /\ m.refused = NoId /\ s \in Int
        /\ eos \in BOOLEAN /\ Omitted \in Int /\ y \in BOOLEAN /\ (eos => y)
    BY <1>1, <1>2, <1>5, <1>6
  <2>3. LET st == m.store[m.ids[s]]
        IN  Linked(m, s) => /\ IsRecvHeaders(st.state) => st.flow.window = m.initWindow /\ Room(c, m, st)
                            /\ ~eos => st.promises = <<>> \/ IsRecvHeaders(st.state) \/ IsLocalReset(st.state)
    BY <1>7
  <2>4. Linked(m, s) /\ y => eos \/ ~IsRecvHeaders(m.store[m.ids[s]].state) BY <1>7
  <2> HIDE DEF m, c
  <2>5. Heard(c, m, RecvHeadersFrame(m, s, eos, Omitted, how), s, y)
    BY ONLY <2>1, <2>2, <2>3, <2>4, HeadersHeard
  <2>6. QED BY <2>5 DEF m, o
<1>9. peer' \in Peer /\ Spoken(instance, peer, peer', s) /\ peer'.stream[s].said = said
  <2>1. said \in {"nothing", "promised", "open", "ended", "reset"} OBVIOUS
  <2> HIDE DEF said
  <2>2. QED BY <1>1, <2>1, SaidIs
<1>10. /\ peer'.stream[s].said \in {"open", "ended"} /\ (~y => peer'.stream[s].said = "open" /\ peer'.stream[s].credit = me.initWindow)
       /\ y => peer'.stream[s].said = "ended" \/ IsServer
  BY <1>3, <1>6, <1>9
<1>11. Said(s) # "nothing" /\ Said(s) # "promised" BY <1>1
<1>12. QED BY <1>1, <1>6, <1>8, <1>9, <1>10, <1>11, HeardStep

\* A frame that the codec rejects for its stream alone.
LEMMA StreamErrorStep ==
  ASSUME IInv, Careful, NEW s \in Ids, "streamError" \in Moves[instance], StreamError(s)
  PROVE  IInv'
<1> DEFINE c == Context
           o == ActionsSendReset(me, s)
           y == TRUE
           m == me
<1>1. /\ end = "open" /\ me.refused = NoId /\ SecondEntry(s) /\ Said(s) \in {"open", "ended"} /\ Applied(o)
      /\ peer' = peer
  BY DEF StreamError, Reads, TaskRuns
<1>2. /\ c \in Contexts /\ c.i = instance /\ Sound(c, me, {}, 0) /\ instance \in Instances /\ peer \in Peer
      /\ (IsServer <=> instance \in Servers) /\ s \in IdsOf(instance)
  BY Before
<1>3. IsServer BY <1>2 DEF Careful, CarefulIn
<1>4. s < me.nextId BY <1>1, SpokenKnown
<1>5. Linked(me, s) \/ MayInsert(c, me, s) BY <1>1, <1>4, EntryFree
<1>6. Linked(me, s) => me.store[me.ids[s]].promises = <<>> BY <1>1, <1>3, LinkedIs
<1>7. y \in BOOLEAN /\ y OBVIOUS
<1> HIDE DEF y
<1>8. Heard(c, m, ActionsSendReset(m, s), s, y)
  <2> HIDE DEF c
  <2>1. c \in Contexts /\ Sound(c, m, {}, 0) BY <1>2
  <2>2. Linked(m, s) \/ MayInsert(c, m, s) BY <1>5
  <2>3. Linked(m, s) => m.store[m.ids[s]].promises = <<>> BY <1>6
  <2> HIDE DEF m
  <2>4. QED BY <2>1, <2>2, <2>3, ResetHeard
<1>9. peer' \in Peer' /\ peer' \in Peer /\ Spoken(instance, peer, peer', s) /\ peer'.stream[s].said = Said(s)
  <2>1. Spoken(instance, peer, peer', s) BY <1>1, <1>2 DEF Spoken
  <2>2. peer' \in Peer BY <1>1, <1>2
  <2>3. instance' = instance BY <1>1 DEF Applied
  <2>4. Peer' = Peer BY <2>3 DEF Peer, Ids
  <2>5. QED BY <1>1, <2>1, <2>2, <2>4 DEF Said
<1>10. /\ peer'.stream[s].said \in {"open", "ended"} /\ (~y => peer'.stream[s].said = "open" /\ peer'.stream[s].credit = me.initWindow)
       /\ y => peer'.stream[s].said = "ended" \/ IsServer
  BY <1>1, <1>3, <1>7, <1>9
<1>11. Said(s) # "nothing" /\ Said(s) # "promised" BY <1>1
<1> HIDE DEF o
<1>12. Heard(Context, me, o, s, y) BY <1>8 DEF o
<1>13. QED BY <1>1, <1>7, <1>9, <1>10, <1>11, <1>12, HeardStep

-----------------------------------------------------------------------------
(* HEADERS that begin a stream.                                              *)

\* What the peer knows when it has sent them.
Begins(s, eos, len) ==
  [peer.stream[s] EXCEPT !.said = IF eos THEN "ended" ELSE "open", !.credit = me.initWindow,
                         !.length = IF eos THEN Omitted ELSE len]
\* What the peer has said with such a frame.
LEMMA BeginsIs ==
  ASSUME IInv, NEW s \in Ids, NEW eos \in BOOLEAN, NEW len \in Int, NEW how, PeerHeaders(s, eos, len, how)
  PROVE  LET said == IF eos THEN "ended" ELSE "open"
         IN  /\ peer' \in Peer /\ Spoken(instance, peer, peer', s) /\ peer'.stream[s].said = said
             /\ peer'.stream[s].credit = me.initWindow
<1> DEFINE r == Begins(s, eos, len)
           said == IF eos THEN "ended" ELSE "open"
           p == peer'
<1>1. peer.stream[s] \in Knows BY KnownIs
<1>2. me.initWindow \in Int BY Before DEF Locked
<1>3. r \in Knows /\ r.said = said /\ r.credit = me.initWindow
  <2> DEFINE k == peer.stream[s]
             len2 == IF eos THEN Omitted ELSE len
             init == me.initWindow
             says == {"nothing", "promised", "open", "ended", "reset"}
  <2>1. r = [k EXCEPT !.said = said, !.credit = init, !.length = len2] BY DEF Begins
  <2>2. len2 \in Int BY DEF Omitted
  <2>3. said \in says OBVIOUS
  <2>4. k \in [said : says, sent : Nat, credit : Int, length : Int] BY <1>1 DEF Knows
  <2> HIDE DEF r, said, len2, k, init, says
  <2>5. init \in Int BY <1>2 DEF init
  <2>6. r \in [said : says, sent : Nat, credit : Int, length : Int] BY <2>1, <2>2, <2>3, <2>4, <2>5
  <2>7. r.said = said /\ r.credit = init BY <2>1, <2>4
  <2>8. QED BY <2>6, <2>7 DEF Knows, says, init
<1>4. p = [peer EXCEPT !.stream[s] = r]
  <2>1. peer \in Peer BY Before
  <2>2. QED BY <2>1 DEF PeerHeaders, Peer, Begins
<1> HIDE DEF r, p
<1>5. p \in Peer /\ Spoken(instance, peer, p, s) /\ p.stream[s] = r BY <1>3, <1>4, KnownIs
<1>6. QED BY <1>3, <1>5 DEF p

\* A slot is free for a stream that the peer has promised.
LEMMA RoomPromised ==
  ASSUME NEW i \in Instances, i \notin Servers, NEW n \in Int, NEW q, Roomy(i, n, q), NEW s \in Pending(i, q)
  PROVE  n < MaxRecv[i]
<1>1. IsFiniteSet(Pending(i, q))
  <2>1. IsFiniteSet(PeerIds[i]) BY RecvAssumption
  <2>2. Pending(i, q) \subseteq PeerIds[i] BY DEF Pending
  <2>3. QED BY <2>1, <2>2, FS_Subset
<1>2. Cardinality(Pending(i, q)) \in Nat /\ Cardinality(Pending(i, q)) # 0
  BY <1>1, FS_CardinalityType, FS_EmptySet
<1>3. MaxRecv[i] \in Nat BY RecvAssumption
<1>4. n + Cardinality(Pending(i, q)) <= MaxRecv[i] BY DEF Roomy
<1>5. QED BY <1>2, <1>3, <1>4

\* The peer of a client answers its request, or a stream it has promised.
LEMMA AnswersStep ==
  ASSUME IInv, NEW s \in Ids, NEW eos \in BOOLEAN, NEW len \in Int, NEW how,
         PeerHeaders(s, eos, len, how), Answers(s)
  PROVE  IInv'
<1> DEFINE c == Context
           o == RecvHeadersFrame(me, s, eos, len, how)
           said == IF eos THEN "ended" ELSE "open"
<1>1. end = "open" /\ me.refused = NoId /\ SecondEntry(s) /\ Applied(o) BY DEF PeerHeaders, Reads, TaskRuns
<1>2. /\ c \in Contexts /\ c.i = instance /\ Sound(c, me, {}, 0) /\ instance \in Instances /\ me \in Locked(instance)
      /\ Agree(instance, me, peer) /\ ~IsServer /\ instance \notin Servers
      /\ s \in IdsOf(instance) /\ s \in Int /\ Ids = IdsOf(instance)
  BY <1>1, Before, IdsAre DEF Answers
<1>3. Said(s) = IF s = Parent THEN "nothing" ELSE "promised" BY <1>2 DEF Answers
<1>4. s < me.nextId
  <2>1. CASE s = Parent
    <3>1. me.nextId \in Nat \ {0} BY <1>2 DEF Locked
    <3>2. QED BY <2>1, <3>1 DEF Parent
  <2>2. CASE s # Parent BY <1>1, <1>3, <2>2, SpokenKnown
  <2>3. QED BY <2>1, <2>2
<1> HIDE DEF o
<1>5. ASSUME Linked(me, s)
      PROVE  LET st == me.store[me.ids[s]]
             IN  /\ IsRecvHeaders(st.state) => st.flow.window = me.initWindow /\ Room(c, me, st)
                 /\ ~eos => st.promises = <<>> \/ IsRecvHeaders(st.state) \/ IsLocalReset(st.state)
  <2> DEFINE st == me.store[me.ids[s]]
             w == Marks(me, me.ids[s])
  <2>1. /\ Told(instance, me.initWindow, peer.stream[s], st) /\ st.state # Idle
        /\ Fine(c, me.initWindow, me.ids[s], st, w) /\ (st.promises # <<>> => s = Parent)
    BY <1>1, <1>5, LinkedIs
  <2> HIDE DEF st, w
  <2>2. IsRecvHeaders(st.state) => st.flow.window = me.initWindow BY <1>2, <2>1 DEF Told
  <2>3. IsRecvHeaders(st.state) => Room(c, me, st)
    <3>1. SUFFICES ASSUME st.state = ReservedRemote PROVE me.numRecv < MaxRecv[c.i] /\ ~st.counted
      BY <2>1 DEF Room, IsInitial
    <3>2. peer.stream[s].said = "promised" BY <1>2, <2>1, <3>1 DEF Told
    <3>3. s \in PeerIds[instance] BY <1>2, <1>3, <3>2 DEF Said, IdsOf
    <3>4. s \in Pending(instance, peer) BY <3>2, <3>3 DEF Pending
    <3>5. Roomy(instance, me.numRecv, peer) BY <1>2 DEF Agree
    <3>6. me.numRecv \in Int BY <1>2 DEF Locked
    <3>7. me.numRecv < MaxRecv[instance] BY <1>2, <3>4, <3>5, <3>6, RoomPromised
    <3>8. ~st.counted BY <2>1, <3>1 DEF Fine
    <3>9. QED BY <1>2, <3>7, <3>8
  <2>4. st.promises = <<>> \/ IsRecvHeaders(st.state) \/ IsLocalReset(st.state)
    BY <1>2, <1>3, <2>1 DEF Told, Said
  <2>5. QED BY <2>2, <2>3, <2>4 DEF st
<1>6. Heard(c, me, o, s, eos)
  <2> DEFINE m == me
             st == m.store[m.ids[s]]
  <2>1. /\ c \in Contexts /\ c.i = instance /\ Sound(c, m, {}, 0) /\ m.refused = NoId /\ s \in Int
        /\ eos \in BOOLEAN /\ len \in Int /\ (eos => eos)
    BY <1>1, <1>2
  <2>2. Linked(m, s) \/ MayInsert(c, m, s) BY <1>1, <1>4, EntryFree
  <2>3. LET a == m.store[m.ids[s]]
        IN  Linked(m, s) => /\ IsRecvHeaders(a.state) => a.flow.window = m.initWindow /\ Room(c, m, a)
                            /\ ~eos => a.promises = <<>> \/ IsRecvHeaders(a.state) \/ IsLocalReset(a.state)
    BY <1>5
  <2>4. Linked(m, s) /\ eos => eos \/ ~IsRecvHeaders(m.store[m.ids[s]].state) OBVIOUS
  <2>5. o = RecvHeadersFrame(m, s, eos, len, how) BY DEF o
  <2> HIDE DEF m, c
  <2>6. Heard(c, m, RecvHeadersFrame(m, s, eos, len, how), s, eos)
    BY ONLY <2>1, <2>2, <2>3, <2>4, HeadersHeard
  <2>7. QED BY <2>5, <2>6 DEF m
<1>7. /\ peer' \in Peer /\ Spoken(instance, peer, peer', s) /\ peer'.stream[s].said = said
      /\ peer'.stream[s].credit = me.initWindow
  BY BeginsIs
<1>8. /\ peer'.stream[s].said \in {"open", "ended"}
      /\ ~eos => peer'.stream[s].said = "open" /\ peer'.stream[s].credit = me.initWindow
      /\ eos => peer'.stream[s].said = "ended" \/ IsServer
  BY <1>7
<1>9. Said(s) = "promised" => s # Parent BY <1>3
<1>10. QED BY <1>1, <1>4, <1>6, <1>7, <1>8, <1>9, HeardStep

\* The peer has used an id that is above all the others.
Numbered(m, s) == [m EXCEPT !.nextId = s + 1]
\* next_stream_id moves on.
LEMMA NumberedIs ==
  ASSUME NEW c \in Contexts, NEW m, Sound(c, m, {}, 0), NEW s \in PeerIds[c.i], s >= m.nextId
  PROVE  LET n == Numbered(m, s)
         IN  /\ n \in Locked(c.i) /\ Sound(c, n, {}, 0) /\ n.nextId = s + 1 /\ n.err = m.err
             /\ n.ids = m.ids /\ n.store = m.store /\ n.flow = m.flow /\ n.refused = m.refused
             /\ n.numRecv = m.numRecv /\ n.initWindow = m.initWindow /\ n.expiring = m.expiring
             /\ s \in IdsOf(c.i) /\ s \in Nat /\ s # Parent
             /\ ~Linked(m, s) /\ \A k \in Slab(m) : IdOf(k) # s
             /\ MayInsert(c, n, s) /\ FreeKey(n, s) = s
<1> DEFINE n == Numbered(m, s)
           zero == 0
           none == {}
<1>1. c.i \in Instances /\ m \in Locked(c.i) BY DEF Sound, Contexts
<1>2. s \in Nat /\ s # Parent /\ s \in IdsOf(c.i)
  <2>1. PeerIds[c.i] = 1 .. Cardinality(PeerIds[c.i]) /\ IsFiniteSet(PeerIds[c.i])
    BY <1>1, RecvAssumption
  <2>2. Cardinality(PeerIds[c.i]) \in Nat BY <2>1, FS_CardinalityType
  <2>3. s \in 1 .. Cardinality(PeerIds[c.i]) BY <2>1
  <2>4. QED BY <2>2, <2>3 DEF Parent, IdsOf
<1>3. /\ n \in Locked(c.i) /\ n.nextId = s + 1 /\ n.err = m.err
      /\ n.ids = m.ids /\ n.store = m.store /\ n.flow = m.flow /\ n.refused = m.refused
      /\ n.numRecv = m.numRecv /\ n.initWindow = m.initWindow /\ n.expiring = m.expiring
      /\ n.inFlight = m.inFlight /\ n.local = m.local /\ n.accept = m.accept /\ n.updates = m.updates
      /\ n.sending = m.sending /\ n.numReset = m.numReset /\ n.lost = m.lost
  <2> DEFINE y == s + 1
  <2>1. y \in Nat \ {0} BY <1>2
  <2>2. n = [m EXCEPT !.nextId = y] BY DEF Numbered
  <2> HIDE DEF y, n
  <2>3. n \in Locked(c.i) BY <1>1, <2>1, <2>2 DEF Locked
  <2>4. /\ n.nextId = y /\ n.err = m.err
        /\ n.ids = m.ids /\ n.store = m.store /\ n.flow = m.flow /\ n.refused = m.refused
        /\ n.numRecv = m.numRecv /\ n.initWindow = m.initWindow /\ n.expiring = m.expiring
        /\ n.inFlight = m.inFlight /\ n.local = m.local /\ n.accept = m.accept /\ n.updates = m.updates
        /\ n.sending = m.sending /\ n.numReset = m.numReset /\ n.lost = m.lost
    BY <1>1, <2>2 DEF Locked
  <2>5. QED BY <2>3, <2>4 DEF y
<1>4. m.nextId \in Nat /\ m.inFlight \in Int BY <1>1 DEF Locked
<1> HIDE DEF n
<1>5. Aside(m, n) BY <1>2, <1>3, <1>4 DEF Aside
<1>6. zero \in Int /\ Sound(c, m, none, zero) OBVIOUS
<1>7. Sound(c, n, none, zero)
  <2>1. n.inFlight = m.inFlight + (zero - zero) BY <1>3, <1>4
  <2>2. /\ n.flow.window \in 0 .. MaxWindow /\ n.flow.available + n.inFlight \in 0 .. MaxWindow
        /\ MaxChanges[c.i] = 0 => n.local = NoId
    BY <1>3 DEF Sound, Window
  <2> HIDE DEF zero, none
  <2>3. QED BY <1>3, <1>5, <1>6, <2>1, <2>2, AsideSound
<1>8. ~Linked(m, s) /\ \A k \in Slab(m) : IdOf(k) # s
  <2>1. \A k \in Slab(m) : IdOf(k) < m.nextId BY DEF Sound, Linking
  <2>2. \A k \in Slab(m) : IdOf(k) # s BY <1>2, <1>4, <2>1
  <2>3. \A t \in DOMAIN m.ids : m.ids[t] \in Slab(m) /\ IdOf(m.ids[t]) = t BY DEF Sound, Linking
  <2>4. QED BY <2>2, <2>3 DEF Linked
<1>9. MayInsert(c, n, s) /\ FreeKey(n, s) = s
  <2>1. IdOf(s) = s /\ IdOf(Second(s)) = s BY <1>1, <1>2, IdsAre
  <2>2. s \notin Slab(n) /\ Second(s) \notin Slab(n) BY <1>3, <1>8, <2>1 DEF Slab
  <2>3. ~Linked(n, s) BY <1>3, <1>8 DEF Linked
  <2>4. s < n.nextId BY <1>2, <1>3
  <2>5. QED BY <1>2, <2>2, <2>3, <2>4 DEF MayInsert, FreeKey
<1>10. QED BY <1>2, <1>3, <1>7, <1>8, <1>9 DEF n, zero, none

\* Recv::open, for a stream the peer may open.
Opener(c, m, s, o) ==
  /\ Inserted(c, Numbered(m, s), o, s, s, NewStream(m.initWindow), {}, 0)
  /\ o.refused = NoId /\ o.nextId = s + 1 /\ o.numRecv = m.numRecv /\ o.initWindow = m.initWindow
  /\ m.numRecv < MaxRecv[c.i]
Refuser(m, s) == [Numbered(m, s) EXCEPT !.refused = s]
\* Recv::open finds a slot, or refuses the stream.
LEMMA OpenIdSound ==
  ASSUME NEW c \in Contexts, c.i = instance, NEW m, Sound(c, m, {}, 0), NEW s \in PeerIds[c.i], s >= m.nextId,
         m.refused = NoId, NEW push \in BOOLEAN, push # IsServer
  PROVE  LET o == RecvOpenId(m, s, push)
         IN  /\ CanIncNumRecv(m) => Opener(c, m, s, o)
             /\ ~CanIncNumRecv(m) => o = Refuser(m, s)
<1> DEFINE o == RecvOpenId(m, s, push)
           n == Numbered(m, s)
           stream == NewStream(m.initWindow)
<1>1. /\ n \in Locked(c.i) /\ Sound(c, n, {}, 0) /\ n.nextId = s + 1
      /\ n.refused = NoId /\ n.numRecv = m.numRecv /\ n.initWindow = m.initWindow
      /\ s \in IdsOf(c.i) /\ s \in Nat /\ MayInsert(c, n, s) /\ FreeKey(n, s) = s
  BY NumberedIs
<1>2. m \in Locked(c.i) /\ m.nextId \in Nat /\ m.numRecv \in Int /\ c.i \in Instances
  <2>1. m \in Locked(c.i) /\ c.i \in Instances BY DEF Sound, Contexts
  <2>2. QED BY <2>1 DEF Locked
<1>3. MaxRecv[c.i] \in Nat BY <1>2, RecvAssumption
<1>4. ~(push = IsServer \/ s < m.nextId) BY <1>1, <1>2
<1>5. CASE CanIncNumRecv(m)
  <2>1. o = Insert(n, s, stream) BY <1>4, <1>5 DEF RecvOpenId, Check, Numbered
  <2>2. IsFresh(stream, n.initWindow) BY <1>1 DEF IsFresh
  <2>3. Inserted(c, n, Insert(n, s, stream), s, s, stream, {}, 0)
    <3> HIDE DEF n, stream
    <3>1. QED BY <1>1, <2>2, InsertSound
  <2>4. Inserted(c, n, o, s, s, stream, {}, 0) BY <2>1, <2>3
  <2>5. m.numRecv < MaxRecv[c.i] BY <1>2, <1>3, <1>5 DEF CanIncNumRecv
  <2> HIDE DEF o, n, stream
  <2>6. Steady(c, n, o, {s}) /\ o.refused = n.refused /\ o.numRecv = n.numRecv
    BY <2>4 DEF Inserted
  <2>7. o.nextId = s + 1 /\ o.initWindow = m.initWindow BY <1>1, <2>6 DEF Steady
  <2>8. QED BY <1>1, <1>5, <2>4, <2>5, <2>6, <2>7 DEF Opener, o, n, stream
<1>6. CASE ~CanIncNumRecv(m)
  <2>1. o = Refuser(m, s) BY <1>4, <1>6 DEF RecvOpenId, Check, Numbered, Refuser
  <2>2. QED BY <1>6, <2>1
<1>7. QED BY <1>5, <1>6

\* Above the limit only the id is used up.
LEMMA RefuserSound ==
  ASSUME NEW c \in Contexts, NEW m, Sound(c, m, {}, 0), NEW s \in PeerIds[c.i], s >= m.nextId
  PROVE  LET n == Refuser(m, s)
         IN  /\ Sound(c, n, {}, 0) /\ n.nextId = s + 1 /\ n.refused = s /\ n.err = m.err /\ n.ids = m.ids
             /\ n.store = m.store /\ n.flow = m.flow /\ n.numRecv = m.numRecv /\ n.initWindow = m.initWindow
             /\ ~Linked(n, s)
<1> DEFINE o == Numbered(m, s)
           n == Refuser(m, s)
           zero == 0
           none == {}
<1>1. /\ o \in Locked(c.i) /\ Sound(c, o, none, zero) /\ o.nextId = s + 1 /\ o.err = m.err
      /\ o.ids = m.ids /\ o.store = m.store /\ o.flow = m.flow
      /\ o.numRecv = m.numRecv /\ o.initWindow = m.initWindow /\ s \in IdsOf(c.i) /\ ~Linked(m, s) /\ s \in Nat
  BY NumberedIs
<1>2. n = [o EXCEPT !.refused = s] BY DEF Refuser
<1> HIDE DEF o, n
<1>3. /\ n \in Locked(c.i) /\ n.nextId = o.nextId /\ n.refused = s /\ n.err = o.err /\ n.ids = o.ids
      /\ n.store = o.store /\ n.flow = o.flow /\ n.numRecv = o.numRecv /\ n.initWindow = o.initWindow
      /\ n.inFlight = o.inFlight /\ n.local = o.local
  BY <1>1, <1>2 DEF Locked
<1>4. Aside(o, n)
  <2>1. /\ n.accept = o.accept /\ n.updates = o.updates /\ n.expiring = o.expiring /\ n.sending = o.sending
        /\ n.numReset = o.numReset /\ n.lost = o.lost
    BY <1>1, <1>2 DEF Locked
  <2>2. n.nextId >= o.nextId BY <1>1, <1>3
  <2>3. QED BY <1>3, <2>1, <2>2 DEF Aside
<1>5. Sound(c, n, none, zero)
  <2>1. o.inFlight \in Int BY <1>1 DEF Locked
  <2>2. zero \in Int /\ n.inFlight = o.inFlight + (zero - zero) BY <1>3, <2>1
  <2>3. /\ n.flow.window \in 0 .. MaxWindow /\ n.flow.available + n.inFlight \in 0 .. MaxWindow
        /\ MaxChanges[c.i] = 0 => n.local = NoId
    BY <1>1, <1>3 DEF Sound, Window
  <2> HIDE DEF zero, none
  <2>4. QED BY <1>1, <1>3, <1>4, <2>2, <2>3, AsideSound
<1>6. QED BY <1>1, <1>3, <1>5 DEF n, zero, none, Linked

\* A new request, with transition_after.
Requested(c, m, o, s, eos) ==
  /\ Sound(c, o, {}, 0) /\ Steady(c, Bump(Numbered(m, s), 1), o, {s})
  /\ Linked(o, s) => Outcome(o.store[o.ids[s]], m.initWindow, eos)
\* A request that found a slot.
LEMMA RequestSound ==
  ASSUME NEW c \in Contexts, c.i = instance, c.i \in Servers, NEW m, Sound(c, m, {}, 0), NEW s \in PeerIds[c.i],
         s >= m.nextId, NEW n, Opener(c, m, s, n), NEW eos \in BOOLEAN, NEW len \in Int, NEW how
  PROVE  Requested(c, m, TransitionAfter(RecvMessage(n, s, eos, len, how), s, Queued(n.expiring, s)), s, eos)
<1> DEFINE o == TransitionAfter(RecvMessage(n, s, eos, len, how), s, Queued(n.expiring, s))
           b == Numbered(m, s)
           st == NewStream(m.initWindow)
           one == {s}
           bumped == Bump(b, 1)
<1>1. /\ b \in Locked(c.i) /\ b.numRecv = m.numRecv /\ b.initWindow = m.initWindow /\ s \in Nat /\ s # Parent
      /\ s \in IdsOf(c.i) /\ \A k \in Slab(m) : IdOf(k) # s
      /\ b.store = m.store
  BY NumberedIs
<1>2. /\ Inserted(c, b, n, s, s, st, {}, 0) /\ n.numRecv = m.numRecv /\ n.initWindow = m.initWindow
      /\ m.numRecv < MaxRecv[c.i]
  BY DEF Opener
<1>3. m.initWindow \in 0 .. MaxWindow BY <1>1 DEF Locked
<1>4. /\ st.state = Idle /\ ~st.counted /\ st.handles = {} /\ st.inFlight = 0 /\ st.events = <<>> /\ st.promises = <<>>
      /\ st.flow.window = m.initWindow /\ st.flow.available = m.initWindow
  BY DEF NewStream, Flow
<1> HIDE DEF st, b
<1>5. /\ Sound(c, n, one, 0) /\ s \in Slab(n) /\ n.store[s] = st /\ n.ids[s] = s /\ Steady(c, b, n, {s})
      /\ "current" \in Marks(n, s) /\ Slab(n) = Slab(b) \cup {s} /\ IdOf(s) = s
  BY <1>2 DEF Inserted
<1>6. "alone" \in Marks(n, s)
  <2>1. Alone(n, s) BY <1>1, <1>5 DEF Alone, Slab
  <2>2. QED BY <2>1, MarksAre
<1>7. Headed(c, n.initWindow, s, n.store[s], Marks(n, s))
  <2>1. st.flow.available + st.inFlight = m.initWindow BY <1>3, <1>4
  <2>2. Opening(c, n.initWindow, s, n.store[s], Marks(n, s))
    BY <1>1, <1>2, <1>4, <1>5, <1>6, <2>1 DEF Opening
  <2>3. QED BY <2>2 DEF Headed
<1>8. Room(c, n, n.store[s]) /\ n.store[s].flow.window = n.initWindow /\ Slot(n.store[s]) = 1
  BY <1>2, <1>4, <1>5 DEF Room, Slot, IsInitial
<1>9. Opened(c, n, o, s, eos)
  <2>1. one \subseteq {s} OBVIOUS
  <2> HIDE DEF one
  <2>2. QED BY <1>5, <1>7, <1>8, <2>1, MessageSound
<1> HIDE DEF o
<1>10. Sound(c, o, {}, 0) /\ o \in Locked(c.i) /\ n \in Locked(c.i) BY <1>5, <1>9 DEF Opened, Sound
<1>11. Steady(c, bumped, o, {s})
  <2> DEFINE y == Bump(n, 1)
             i == 1
  <2>1. i \in Int OBVIOUS
  <2>2. Steady(c, y, o, {s}) BY <1>5, <1>8, <1>9 DEF Opened
  <2>3. bumped = Bump(b, i) /\ y = Bump(n, i) OBVIOUS
  <2> HIDE DEF i, bumped, y
  <2>4. /\ bumped \in Locked(c.i) /\ bumped.store = b.store /\ bumped.ids = b.ids /\ bumped.numRecv = b.numRecv + i
        /\ bumped.flow = b.flow /\ bumped.err = b.err /\ bumped.refused = b.refused
        /\ bumped.initWindow = b.initWindow /\ bumped.nextId = b.nextId
    BY <1>1, <2>1, <2>3, BumpIs
  <2>5. /\ y \in Locked(c.i) /\ y.store = n.store /\ y.ids = n.ids /\ y.numRecv = n.numRecv + i
        /\ y.flow = n.flow /\ y.err = n.err /\ y.refused = n.refused
        /\ y.initWindow = n.initWindow /\ y.nextId = n.nextId
    BY <1>10, <2>1, <2>3, BumpIs
  <2>6. b.numRecv \in Int /\ n.numRecv = b.numRecv BY <1>1, <1>2 DEF Locked
  <2>7. y.numRecv <= bumped.numRecv BY <2>1, <2>4, <2>5, <2>6
  <2>8. Steady(c, bumped, y, {s}) BY <1>5, <2>4, <2>5, <2>7 DEF Steady
  <2>9. QED BY <1>10, <2>2, <2>4, <2>5, <2>8, SteadyTwice
<1>12. Linked(o, s) => Outcome(o.store[o.ids[s]], m.initWindow, eos)
  <2>1. ASSUME Linked(o, s) PROVE o.ids[s] = s /\ s \in Slab(o)
    <3>1. o.ids[s] = n.ids[s] BY <1>9, <2>1 DEF Opened, Linked
    <3>2. o.ids[s] \in Slab(o) BY <1>10, <2>1 DEF Sound, Linking, Linked
    <3>3. QED BY <1>5, <3>1, <3>2
  <2>2. s \in Slab(o) => Outcome(o.store[s], n.initWindow, eos) BY <1>9 DEF Opened
  <2>3. QED BY <1>2, <2>1, <2>2
<1>13. QED BY <1>10, <1>11, <1>12 DEF Requested, o, b

\* What the peer says on a stream that it opens is in order.
LEMMA OpensOrdered ==
  ASSUME NEW i \in Instances, NEW next \in Nat \ {0}, NEW q, Ordered(i, next, q), NEW s \in PeerIds[i],
         \A t \in PeerIds[i] : t >= s => q.stream[t].said = "nothing"
  PROVE  /\ s >= next
         /\ \A p : Spoken(i, q, p, s) /\ p.stream[s].said # "nothing" => Ordered(i, s + 1, p)
<1>1. s \in Nat /\ PeerIds[i] \subseteq Nat
  <2>1. PeerIds[i] = 1 .. Cardinality(PeerIds[i]) /\ IsFiniteSet(PeerIds[i]) BY RecvAssumption
  <2>2. Cardinality(PeerIds[i]) \in Nat BY <2>1, FS_CardinalityType
  <2>3. QED BY <2>1, <2>2
<1>2. s >= 1
  <2>1. PeerIds[i] = 1 .. Cardinality(PeerIds[i]) /\ IsFiniteSet(PeerIds[i]) BY RecvAssumption
  <2>2. Cardinality(PeerIds[i]) \in Nat BY <2>1, FS_CardinalityType
  <2>3. QED BY <2>1, <2>2
<1>3. s >= next
  <2>1. CASE next > 1
    <3>1. next - 1 \in PeerIds[i] /\ q.stream[next - 1].said # "nothing" BY <2>1 DEF Ordered
    <3>2. ~(next - 1 >= s) BY <3>1
    <3>3. QED BY <1>1, <3>2
  <2>2. CASE ~(next > 1) BY <1>1, <1>2, <2>2
  <2>3. QED BY <2>1, <2>2
<1>4. ASSUME NEW p, Spoken(i, q, p, s), p.stream[s].said # "nothing"
      PROVE  Ordered(i, s + 1, p)
  <2>1. ASSUME NEW t \in IdsOf(i), p.stream[t].said # "nothing" PROVE t < s + 1
    <3>1. CASE t = s BY <1>1, <3>1
    <3>2. CASE t # s
      <4>1. q.stream[t].said # "nothing" BY <1>4, <2>1, <3>2 DEF Spoken
      <4>2. t < next BY <2>1, <4>1 DEF Ordered
      <4>3. t \in Nat BY <2>1, IdsAre
      <4>4. t = Parent \/ t \in PeerIds[i] BY <2>1 DEF IdsOf
      <4>5. t \in PeerIds[i] => ~(t >= s) BY <4>1
      <4>6. QED BY <1>1, <4>3, <4>4, <4>5 DEF Parent
    <3>3. QED BY <3>1, <3>2
  <2>2. (s + 1) - 1 = s BY <1>1
  <2>3. QED BY <1>4, <2>1, <2>2 DEF Ordered
<1>5. QED BY <1>3, <1>4

\* The peer of a server opens a stream.
LEMMA OpensStep ==
  ASSUME IInv, NEW s \in Ids, NEW eos \in BOOLEAN, NEW len \in Int, NEW how,
         PeerHeaders(s, eos, len, how), Opens(s)
  PROVE  IInv'
<1> DEFINE c == Context
           m == me
           q == peer
           p == peer'
           says == IF eos THEN "ended" ELSE "open"
           o == RecvHeadersFrame(me, s, eos, len, how)
           no == FALSE
           n == RecvOpenId(m, s, no)
<1>1. end = "open" /\ m.refused = NoId /\ Applied(o) BY DEF PeerHeaders, Reads, TaskRuns
<1>2. /\ c \in Contexts /\ c.i = instance /\ Sound(c, m, {}, 0) /\ instance \in Instances /\ m \in Locked(c.i)
      /\ Agree(c.i, m, q) /\ IsServer /\ c.i \in Servers /\ m.nextId \in Nat \ {0}
      /\ s \in PeerIds[c.i]
  <2>1. /\ c \in Contexts /\ c.i = instance /\ Sound(c, m, {}, 0) /\ instance \in Instances /\ m \in Locked(c.i)
        /\ Agree(c.i, m, q) /\ s \in IdsOf(c.i) /\ (IsServer <=> c.i \in Servers)
    BY <1>1, Before
  <2>2. IsServer /\ s # Parent BY DEF Opens
  <2>3. m.nextId \in Nat \ {0} BY <2>1 DEF Locked
  <2>4. QED BY <2>1, <2>2, <2>3 DEF IdsOf
<1>3. /\ p \in Peer /\ Spoken(c.i, q, p, s) /\ p.stream[s].said = says /\ p.stream[s].credit = m.initWindow
  BY <1>2, BeginsIs
<1>4. s >= m.nextId /\ Ordered(c.i, s + 1, p)
  <2>1. \A t \in PeerIds[c.i] : t >= s => q.stream[t].said = "nothing" BY <1>2 DEF Opens, Said
  <2>2. Ordered(c.i, m.nextId, q) BY <1>2 DEF Agree
  <2>3. p.stream[s].said # "nothing" BY <1>3
  <2> HIDE DEF c, m, q, p
  <2>4. QED BY <1>2, <1>3, <2>1, <2>2, <2>3, OpensOrdered
<1>5. ~Linked(m, s) BY <1>2, <1>4, NumberedIs
<1>6. no \in BOOLEAN /\ no # IsServer BY <1>2
<1>7. /\ CanIncNumRecv(m) => Opener(c, m, s, n)
      /\ ~CanIncNumRecv(m) => n = Refuser(m, s)
  <2> HIDE DEF c, m, no
  <2>1. QED BY <1>1, <1>2, <1>4, <1>6, OpenIdSound
<1>8. o = IF ~Linked(n, s) \/ IsLocalReset(n.store[n.ids[s]].state) THEN n
          ELSE IF ~IsRecvHeaders(n.store[n.ids[s]].state) /\ ~eos THEN ActionsSendReset(n, s)
          ELSE IF IsRecvHeaders(n.store[n.ids[s]].state)
          THEN TransitionAfter(RecvMessage(n, n.ids[s], eos, len, how), n.ids[s], Queued(n.expiring, n.ids[s]))
          ELSE TransitionAfter(RecvTrailers(n, n.ids[s]), n.ids[s], Queued(n.expiring, n.ids[s]))
  BY <1>2, <1>5 DEF RecvHeadersFrame, Transition
<1> HIDE DEF o, n
<1>9. Roomy(c.i, o.numRecv, p) BY <1>2 DEF Roomy
<1>10. CASE CanIncNumRecv(m)
  <2>1. /\ Inserted(c, Numbered(m, s), n, s, s, NewStream(m.initWindow), {}, 0)
    BY <1>7, <1>10 DEF Opener
  <2>2. Linked(n, s) /\ n.ids[s] = s /\ n.store[s].state = Idle BY <2>1 DEF Inserted, NewStream
  <2>3. ~IsLocalReset(Idle) /\ IsRecvHeaders(Idle)
    BY DEF Idle, IsLocalReset, IsRecvHeaders, Closed
  <2>4. o = TransitionAfter(RecvMessage(n, s, eos, len, how), s, Queued(n.expiring, s))
    BY <1>8, <2>2, <2>3
  <2>5. Requested(c, m, o, s, eos)
    <3>1. Opener(c, m, s, n) BY <1>7, <1>10
    <3> HIDE DEF c, m
    <3>2. QED BY <1>2, <1>4, <2>4, <3>1, RequestSound
  <2> DEFINE b == Bump(Numbered(m, s), 1)
  <2>6. /\ b \in Locked(c.i) /\ b.store = m.store /\ b.ids = m.ids /\ b.flow = m.flow /\ b.err = m.err
        /\ b.refused = m.refused /\ b.initWindow = m.initWindow /\ b.nextId = s + 1
    <3> DEFINE x == Numbered(m, s)
               i == 1
    <3>1. /\ x \in Locked(c.i) /\ x.nextId = s + 1 /\ x.err = m.err /\ x.ids = m.ids /\ x.store = m.store
          /\ x.flow = m.flow /\ x.refused = m.refused /\ x.initWindow = m.initWindow
      <4> HIDE DEF m, c
      <4>1. QED BY <1>2, <1>4, NumberedIs
    <3>2. i \in Int OBVIOUS
    <3> HIDE DEF x, i
    <3>3. LET y == Bump(x, i)
          IN  /\ y \in Locked(c.i) /\ y.store = x.store /\ y.ids = x.ids
              /\ y.flow = x.flow /\ y.err = x.err /\ y.refused = x.refused
              /\ y.initWindow = x.initWindow /\ y.nextId = x.nextId
      BY <1>2, <3>1, <3>2, BumpIs
    <3>4. QED BY <3>1, <3>3 DEF x, i
  <2> HIDE DEF b
  <2>7. Sound(c, o, {}, 0) /\ o \in Locked(c.i) /\ Steady(c, b, o, {s}) BY <2>5 DEF Requested, Sound, b
  <2>8. /\ o.nextId = s + 1 /\ o.initWindow = m.initWindow /\ o.err = m.err /\ o.refused = NoId
    BY <1>1, <2>6, <2>7 DEF Steady
  <2>9. AgreeBut(c.i, b, q, s) BY <1>2, <2>6 DEF Agree, AgreeBut
  <2>10. s \in DOMAIN o.ids => Told(c.i, o.initWindow, p.stream[s], o.store[o.ids[s]])
    <3> DEFINE st == o.store[o.ids[s]]
               init == m.initWindow
               e == p.stream[s]
               i == c.i
    <3>1. s \in DOMAIN o.ids => Outcome(st, init, eos) BY <2>5 DEF Requested, Linked
    <3>2. /\ e.said \in {"open", "ended"} /\ (~eos => e.said = "open" /\ e.credit = init)
          /\ eos => e.said = "ended" \/ i \in Servers
      BY <1>3
    <3> HIDE DEF st, init, e, i
    <3>3. s \in DOMAIN o.ids => Told(i, init, e, st) BY <3>1, <3>2, OutcomeTold
    <3>4. QED BY <2>8, <3>3 DEF st, init, e, i
  <2>11. Ordered(c.i, o.nextId, p) BY <1>4, <2>8
  <2>12. Agree(c.i, o, p)
    <3> HIDE DEF c, m, p, q
    <3>1. QED BY <1>2, <1>3, <1>9, <2>6, <2>7, <2>8, <2>9, <2>10, <2>11, AgreeOne
  <2>13. ~o.err BY <2>12 DEF Agree
  <2>14. QED BY <1>1, <1>2, <1>3, <2>7, <2>12, <2>13, AppliedSpoken
<1>11. CASE ~CanIncNumRecv(m)
  <2>1. n = Refuser(m, s) BY <1>7, <1>11
  <2>2. /\ Sound(c, n, {}, 0) /\ n.nextId = s + 1 /\ n.refused = s /\ n.err = m.err /\ n.ids = m.ids
        /\ n.store = m.store /\ n.flow = m.flow /\ n.numRecv = m.numRecv /\ n.initWindow = m.initWindow
        /\ ~Linked(n, s)
    <3> HIDE DEF c, m
    <3>1. QED BY <1>2, <1>4, <2>1, RefuserSound
  <2>3. o = n BY <1>8, <2>2
  <2>4. s \in Int
    <3>1. s \in IdsOf(c.i) /\ IdsOf(c.i) \subseteq Nat BY <1>2, IdsAre DEF IdsOf
    <3>2. QED BY <3>1
  <2>5. Agree(c.i, n, p)
    <3>1. ~n.err /\ n.flow.window = p.conn BY <1>2, <1>3, <2>2 DEF Agree, Spoken
    <3>2. Roomy(c.i, n.numRecv, p) /\ Ordered(c.i, n.nextId, p) BY <1>2, <1>4, <2>2 DEF Roomy
    <3>3. n.refused \notin DOMAIN n.ids /\ n.refused < n.nextId BY <2>2, <2>4 DEF Linked
    <3>4. ASSUME NEW t \in DOMAIN n.ids PROVE Told(c.i, n.initWindow, p.stream[t], n.store[n.ids[t]])
      <4>1. t # s /\ t \in DOMAIN m.ids BY <2>2, <3>4 DEF Linked
      <4>2. t \in IdsOf(c.i) BY <1>2, <4>1 DEF Locked, Index
      <4>3. p.stream[t] = q.stream[t] BY <1>3, <4>1, <4>2 DEF Spoken
      <4>4. Told(c.i, m.initWindow, q.stream[t], m.store[m.ids[t]]) BY <1>2, <4>1 DEF Agree
      <4>5. QED BY <2>2, <4>3, <4>4
    <3>5. QED BY <3>1, <3>2, <3>3, <3>4 DEF Agree
  <2>6. ~n.err BY <2>5 DEF Agree
  <2>7. QED BY <1>1, <1>2, <1>3, <2>2, <2>3, <2>5, <2>6, AppliedSpoken
<1>12. QED BY <1>10, <1>11

\* A HEADERS frame that begins a message.
LEMMA PeerHeadersStep ==
  ASSUME IInv, NEW s \in Ids, NEW eos \in BOOLEAN, NEW len \in Int, NEW how, PeerHeaders(s, eos, len, how)
  PROVE  IInv'
<1>1. Opens(s) \/ Answers(s) BY DEF PeerHeaders
<1>2. QED BY <1>1, OpensStep, AnswersStep

-----------------------------------------------------------------------------
(* The streams that a server has promised, until the application claims them. *)

\* The request whose promises are q, and who is named there.
Promising(m, q) == Sets(m, Parent, [m.store[Parent] EXCEPT !.promises = q])
Pledge(w, y) == IF y THEN w \cup {"pledged"} ELSE w \ {"pledged"}
Promisable(k, st) == k \in Nat \ {Parent} /\ st.handles = {} /\ HeadersFirst(st) /\ Awaits(st, 2)

\* An entry that comes to the promises or leaves them.
LEMMA PledgeFine ==
  ASSUME NEW c, NEW init, NEW k, NEW st, NEW w, Fine(c, init, k, st, w), c.i \notin Servers,
         NEW y \in BOOLEAN, y => Promisable(k, st)
  PROVE  /\ Fine(c, init, k, st, Pledge(w, y))
         /\ Settled(c, st, w) /\ ("pledged" \in w => y) => Settled(c, st, Pledge(w, y))
<1> DEFINE v == Pledge(w, y)
<1>1. /\ "pledged" \in v <=> y
      /\ \A x : x # "pledged" => (x \in v <=> x \in w)
  BY DEF Pledge
<1> HIDE DEF v
<1>2. Fine(c, init, k, st, v)
  BY <1>1 DEF Fine, Promisable
<1>3. ASSUME Settled(c, st, w), "pledged" \in w => y PROVE Settled(c, st, v)
  <2>1. Ready(c, st, v) BY <1>1, <1>3 DEF Settled, Ready, Owned, Keeps
  <2>2. ~Released(st, v) BY <1>1, <1>3 DEF Settled, Released
  <2>3. QED BY <2>1, <2>2 DEF Settled
<1>4. QED BY <1>2, <1>3 DEF v

\* The request itself, which nobody has promised.
LEMMA ParentFine ==
  ASSUME NEW c, NEW init, NEW st, NEW w, Fine(c, init, Parent, st, w), c.i \notin Servers, NEW r,
         r.state = st.state, r.counted = st.counted, r.handles = st.handles, r.flow = st.flow,
         r.inFlight = st.inFlight, r.events = st.events, r.out = st.out
  PROVE  /\ Fine(c, init, Parent, r, w) /\ "pledged" \notin w
         /\ Settled(c, st, w) /\ Keeps(r, w) => Settled(c, r, w)
<1>1. "pledged" \notin w BY DEF Fine
<1>2. Live(r) <=> Live(st) BY DEF Live
<1>3. /\ HeadersFirst(r) <=> HeadersFirst(st)
      /\ \A n : Awaits(r, n) <=> Awaits(st, n)
  BY DEF HeadersFirst, Awaits
<1>4. Fine(c, init, Parent, r, w) BY <1>1, <1>2, <1>3 DEF Fine
<1>5. ASSUME Settled(c, st, w), Keeps(r, w) PROVE Settled(c, r, w)
  BY <1>5 DEF Settled, Ready, Owned, Released
<1>6. QED BY <1>1, <1>4, <1>5

\* The record after the promises have become q.
Lost(m, q) == {k \in Slab(m) : Pledged(m, k) /\ ~Queued(q, k)}
Promise(c, m, n, q, X, loose) ==
  /\ Sound(c, n, X \cup Lost(m, q), loose) /\ Slab(n) = Slab(m)
  /\ n.store[Parent] = [m.store[Parent] EXCEPT !.promises = q]
  /\ \A k \in Slab(m) : k # Parent => n.store[k] = m.store[k]
  /\ \A k \in Slab(m) : Marks(n, k) = Pledge(Marks(m, k), Queued(q, k))
  /\ Steady(c, m, n, {}) /\ n.expiring = m.expiring /\ n.sending = m.sending /\ n.refused = m.refused
  /\ n.ids = m.ids
\* The promises of the request are replaced.
LEMMA PromiseIs ==
  ASSUME NEW c \in Contexts, NEW m \in Locked(c.i), Queues(m), Linking(m), Parent \in Slab(m), NEW q, IsQueue(q, Slab(m))
  PROVE  LET n == Promising(m, q)
             r == [m.store[Parent] EXCEPT !.promises = q]
         IN  /\ n \in Locked(c.i) /\ r \in Streams /\ n.store[Parent] = r /\ Slab(n) = Slab(m)
             /\ \A k \in Slab(m) : k # Parent => n.store[k] = m.store[k]
             /\ n.accept = m.accept /\ n.updates = m.updates /\ n.expiring = m.expiring /\ n.sending = m.sending
             /\ n.ids = m.ids /\ n.initWindow = m.initWindow /\ n.nextId = m.nextId /\ n.local = m.local
             /\ n.numReset = m.numReset /\ n.lost = m.lost /\ n.numRecv = m.numRecv /\ n.flow = m.flow
             /\ n.inFlight = m.inFlight /\ n.err = m.err /\ n.refused = m.refused
             /\ r.state = m.store[Parent].state /\ r.counted = m.store[Parent].counted
             /\ r.handles = m.store[Parent].handles /\ r.flow = m.store[Parent].flow
             /\ r.inFlight = m.store[Parent].inFlight /\ r.events = m.store[Parent].events
             /\ r.out = m.store[Parent].out /\ r.promises = q
<1> DEFINE n == Promising(m, q)
           st == m.store[Parent]
           r == [st EXCEPT !.promises = q]
           f == [m.store EXCEPT ![Parent] = r]
<1>1. st \in Streams /\ m.store \in Stores(c.i) BY StreamTyped DEF Locked
<1>2. q \in Seq(Int)
  <2>1. q \in Seq(Slab(m)) BY DEF IsQueue
  <2>2. Slab(m) \subseteq Int BY StreamTyped
  <2>3. QED BY <2>1, <2>2
<1>3. r \in Streams /\ r.promises = q BY <1>1, <1>2 DEF Streams
<1>4. /\ r.state = st.state /\ r.counted = st.counted /\ r.handles = st.handles /\ r.flow = st.flow
      /\ r.inFlight = st.inFlight /\ r.events = st.events /\ r.out = st.out
  BY <1>1 DEF Streams
<1>5. n = [m EXCEPT !.store = f] BY DEF Promising, Sets, Stored
<1> HIDE DEF r, n
<1>6. /\ f \in Stores(c.i) /\ DOMAIN f = DOMAIN m.store /\ f[Parent] = r
      /\ \A t \in DOMAIN m.store : t # Parent => f[t] = m.store[t]
  BY <1>1, <1>3, StorePut DEF Slab
<1> HIDE DEF f
<1>7. n \in Locked(c.i) /\ n.store = f BY <1>5, <1>6 DEF Locked
<1>8. /\ n.accept = m.accept /\ n.updates = m.updates /\ n.expiring = m.expiring /\ n.sending = m.sending
      /\ n.ids = m.ids /\ n.initWindow = m.initWindow /\ n.nextId = m.nextId /\ n.local = m.local
      /\ n.numReset = m.numReset /\ n.lost = m.lost /\ n.numRecv = m.numRecv /\ n.flow = m.flow
      /\ n.inFlight = m.inFlight /\ n.err = m.err /\ n.refused = m.refused
  BY <1>5 DEF Locked
<1>9. QED BY <1>3, <1>4, <1>6, <1>7, <1>8 DEF r, n, st, Slab

\* Only the mark of a promise changes.
LEMMA PromiseMarks ==
  ASSUME NEW c \in Contexts, NEW m, NEW X, NEW loose, Sound(c, m, X, loose),
         Parent \in Slab(m), NEW q, IsQueue(q, Slab(m))
  PROVE  LET n == Promising(m, q)
         IN  /\ Queues(n) /\ Linking(n)
             /\ \A k \in Slab(m) : Marks(n, k) = Pledge(Marks(m, k), Queued(q, k))
<1> DEFINE n == Promising(m, q)
           r == [m.store[Parent] EXCEPT !.promises = q]
<1>1. m \in Locked(c.i) /\ Queues(m) /\ Linking(m) BY DEF Sound
<1>2. /\ n.store[Parent] = r /\ r.promises = q /\ Slab(n) = Slab(m)
      /\ \A k \in Slab(m) : k # Parent => n.store[k] = m.store[k]
      /\ n.accept = m.accept /\ n.updates = m.updates /\ n.expiring = m.expiring /\ n.sending = m.sending
      /\ n.ids = m.ids /\ n.nextId = m.nextId
  BY <1>1, PromiseIs
<1> HIDE DEF n, r
<1>3. Queues(n) BY <1>1, <1>2 DEF Queues
<1>4. Linking(n) BY <1>1, <1>2 DEF Linking
<1>5. \A k \in Slab(m) : m.store[k].promises # <<>> => k = Parent BY DEF Sound, Fine
<1>6. \A k : ~Queued(<<>>, k) BY DEF Queued, Contains
<1>7. \A k \in Slab(m) : Pledged(n, k) <=> Queued(q, k)
  <2>1. \A p \in Slab(m) : p # Parent => n.store[p].promises = <<>> BY <1>2, <1>5
  <2>2. QED BY <1>2, <1>6, <2>1 DEF Pledged
<1>8. \A k \in Slab(m) : (Current(n, k) <=> Current(m, k)) /\ (Alone(n, k) <=> Alone(m, k))
  BY <1>2 DEF Current, Alone
<1>9. ASSUME NEW k \in Slab(m) PROVE Marks(n, k) = Pledge(Marks(m, k), Queued(q, k))
  <2> DEFINE one == {"pledged"}
             none == {}
  <2>1. one \subseteq MarkNames /\ none \subseteq MarkNames /\ one \cap none = {} /\ none \cap one = {}
        /\ \A x : (x \in one <=> x = "pledged") /\ x \notin none
    BY DEF MarkNames
  <2> HIDE DEF one, none
  <2>2. CASE Queued(q, k)
    <3>1. Remarked(m, n, k, none, one) BY <1>2, <1>7, <1>8, <2>1, <2>2 DEF Remarked
    <3>2. Marks(n, k) = (Marks(m, k) \ none) \cup one BY <3>1, MarksChange
    <3>3. QED BY <2>2, <3>2 DEF Pledge, none, one
  <2>3. CASE ~Queued(q, k)
    <3>1. Remarked(m, n, k, one, none) BY <1>2, <1>7, <1>8, <2>1, <2>3 DEF Remarked
    <3>2. Marks(n, k) = (Marks(m, k) \ one) \cup none BY <3>1, MarksChange
    <3>3. QED BY <2>3, <3>2 DEF Pledge, none, one
  <2>4. QED BY <2>2, <2>3
<1>10. QED BY <1>3, <1>4, <1>9 DEF n

\* The record stays sound if what is promised can be claimed and somebody is
\* there to claim it.
LEMMA PromiseSound ==
  ASSUME NEW c \in Contexts, c.i \notin Servers, NEW m, NEW X, NEW loose, Sound(c, m, X, loose),
         Parent \in Slab(m), NEW q, IsQueue(q, Slab(m)),
         \A k \in Slab(m) : Queued(q, k) => Pledged(m, k) \/ Promisable(k, m.store[k]),
         \/ q = <<>> \/ Parent \in X
         \/ m.store[Parent].handles # {} /\ ~Queued(m.expiring, Parent)
  PROVE  Promise(c, m, Promising(m, q), q, X, loose)
<1> DEFINE n == Promising(m, q)
           st == m.store[Parent]
           r == [st EXCEPT !.promises = q]
           Y == X \cup Lost(m, q)
<1>1. /\ m \in Locked(c.i) /\ Queues(m) /\ Linking(m) /\ Slots(c, m) /\ Window(c, m, loose)
      /\ \A k \in Slab(m) : Fine(c, m.initWindow, k, m.store[k], Marks(m, k))
      /\ \A k \in Slab(m) \ X : Settled(c, m.store[k], Marks(m, k))
  BY DEF Sound
<1>2. /\ n \in Locked(c.i) /\ r \in Streams /\ n.store[Parent] = r /\ Slab(n) = Slab(m)
      /\ \A k \in Slab(m) : k # Parent => n.store[k] = m.store[k]
      /\ n.accept = m.accept /\ n.updates = m.updates /\ n.expiring = m.expiring /\ n.sending = m.sending
      /\ n.ids = m.ids /\ n.initWindow = m.initWindow /\ n.nextId = m.nextId /\ n.local = m.local
      /\ n.numReset = m.numReset /\ n.lost = m.lost /\ n.numRecv = m.numRecv /\ n.flow = m.flow
      /\ n.inFlight = m.inFlight /\ n.err = m.err /\ n.refused = m.refused
      /\ r.state = st.state /\ r.counted = st.counted /\ r.handles = st.handles /\ r.flow = st.flow
      /\ r.inFlight = st.inFlight /\ r.events = st.events /\ r.out = st.out /\ r.promises = q
  BY <1>1, PromiseIs
<1>3. /\ Queues(n) /\ Linking(n)
      /\ \A k \in Slab(m) : Marks(n, k) = Pledge(Marks(m, k), Queued(q, k))
  BY PromiseMarks
<1> HIDE DEF n, r
<1>4. \A k \in Slab(m) : n.store[k].counted = m.store[k].counted /\ n.store[k].inFlight = m.store[k].inFlight
  BY <1>2
<1>5. Slots(c, n)
  <2>1. Counted(n) = Counted(m) BY <1>2, <1>4 DEF Counted
  <2>2. QED BY <1>1, <1>2, <2>1 DEF Slots
<1>6. Window(c, n, loose)
  <2>1. InFlight(n) = InFlight(m) BY <1>2, <1>4 DEF InFlight
  <2>2. QED BY <1>1, <1>2, <2>1 DEF Window
<1>7. \A k \in Slab(m) : "pledged" \in Marks(m, k) <=> Pledged(m, k) BY MarksAre
<1>8. ASSUME NEW k \in Slab(m)
      PROVE  /\ Fine(c, m.initWindow, k, n.store[k], Marks(n, k))
             /\ k \notin Y => Settled(c, n.store[k], Marks(n, k))
  <2> DEFINE init == m.initWindow
             w == Marks(m, k)
             a == m.store[k]
             y == Queued(q, k)
  <2>1. y \in BOOLEAN BY DEF Queued, Contains
  <2>2. Fine(c, init, k, a, w) /\ (k \notin X => Settled(c, a, w)) BY <1>1
  <2>3. y => Promisable(k, a)
    <3>1. Pledged(m, k) => Promisable(k, a) BY <1>7, <2>2 DEF Fine, Promisable
    <3>2. QED BY <3>1
  <2>4. k \notin Y => k \notin X /\ ("pledged" \in w => y) BY <1>7 DEF Lost
  <2>5. Marks(n, k) = Pledge(w, y) BY <1>3
  <2> HIDE DEF w, a, y, init, Y, st
  <2>6. /\ Fine(c, init, k, a, Pledge(w, y))
        /\ k \notin Y => Settled(c, a, Pledge(w, y))
    BY <2>1, <2>2, <2>3, <2>4, PledgeFine
  <2>7. CASE k # Parent
    <3>1. n.store[k] = a BY <1>2, <2>7 DEF a
    <3>2. QED BY <2>5, <2>6, <3>1 DEF init
  <2>8. CASE k = Parent
    <3>1. a = st /\ n.store[k] = r BY <1>2, <2>8 DEF a, st
    <3>2. k \notin Y => Keeps(r, w)
      <4>1. ASSUME k \notin Y, q # <<>> PROVE r.handles # {} /\ "expiring" \notin w
        <5>1. m.store[Parent].handles # {} /\ ~Queued(m.expiring, Parent) BY <2>4, <2>8, <4>1
        <5>2. r.handles # {} BY <1>2, <5>1 DEF st
        <5>3. "expiring" \notin w BY <2>8, <5>1, MarksAre DEF w
        <5>4. QED BY <5>2, <5>3
      <4>2. QED BY <1>2, <4>1 DEF Keeps
    <3>3. /\ Fine(c, init, Parent, st, w) /\ r.state = st.state /\ r.counted = st.counted /\ r.handles = st.handles
          /\ r.flow = st.flow /\ r.inFlight = st.inFlight /\ r.events = st.events /\ r.out = st.out
      BY <1>2, <2>2, <2>8, <3>1
    <3>4. /\ Fine(c, init, Parent, r, w) /\ "pledged" \notin w
          /\ Settled(c, st, w) /\ Keeps(r, w) => Settled(c, r, w)
      BY ONLY c.i \notin Servers, <3>3, ParentFine
    <3>5. ~y BY <2>3, <2>8 DEF Promisable
    <3>6. Pledge(w, y) = w
      <4>1. Pledge(w, y) = w \ {"pledged"} BY <3>5 DEF Pledge
      <4>2. QED BY <3>4, <4>1
    <3>7. k \notin Y => Settled(c, r, w) BY <2>2, <2>4, <3>1, <3>2, <3>4
    <3>8. QED BY <2>5, <2>8, <3>1, <3>4, <3>6, <3>7 DEF init
  <2>9. QED BY <2>7, <2>8
<1>9. Sound(c, n, Y, loose) BY <1>2, <1>3, <1>5, <1>6, <1>8 DEF Sound
<1>10. Steady(c, m, n, {})
  <2>1. ASSUME NEW t \in DOMAIN n.ids
        PROVE  t \in DOMAIN m.ids /\ n.ids[t] = m.ids[t] /\ Follows(c, m.store[n.ids[t]], n.store[n.ids[t]])
    <3>1. n.ids[t] \in Slab(m) BY <1>2, <1>3, <2>1 DEF Linking
    <3>2. n.store[n.ids[t]].state = m.store[n.ids[t]].state /\ n.store[n.ids[t]].flow = m.store[n.ids[t]].flow
      BY <1>2, <3>1
    <3>3. QED BY <1>2, <2>1, <3>2 DEF Follows
  <2>2. n.numRecv <= m.numRecv BY <1>1, <1>2 DEF Locked
  <2>3. QED BY <1>2, <2>1, <2>2 DEF Steady
<1>11. QED BY <1>2, <1>3, <1>9, <1>10 DEF Promise, n, r, st, Y

\* The first of the promises leaves them.
LEMMA ClaimSound ==
  ASSUME NEW c \in Contexts, c.i \notin Servers, NEW m, NEW X, NEW loose, Sound(c, m, X, loose),
         Parent \in Slab(m), m.store[Parent].promises # <<>>,
         \/ Parent \in X
         \/ m.store[Parent].handles # {} /\ ~Queued(m.expiring, Parent)
  PROVE  LET q == Tail(m.store[Parent].promises)
             k == Head(m.store[Parent].promises)
         IN  /\ Promise(c, m, Promising(m, q), q, X, loose)
             /\ Sound(c, Promising(m, q), X \cup {k}, loose)
             /\ k \in Slab(m) /\ k # Parent /\ Pledged(m, k) /\ Promisable(k, m.store[k]) /\ ~Queued(q, k)
             /\ IsQueue(q, Slab(m))
<1> DEFINE p == m.store[Parent].promises
           q == Tail(p)
           k == Head(p)
           S == Slab(m)
<1>1. m \in Locked(c.i) /\ IsQueue(p, S) BY DEF Sound, Queues
<1> HIDE DEF p
<1>2. /\ k \in S /\ IsQueue(q, S)
      /\ \A t : Queued(q, t) <=> Queued(p, t) /\ t # k
      /\ Queued(p, k)
  <2>1. p # <<>> BY DEF p
  <2> HIDE DEF S
  <2>2. QED BY <1>1, <2>1, QueueTail
<1> HIDE DEF q, k
<1>3. Pledged(m, k) BY <1>2 DEF Pledged, p
<1>4. "pledged" \in Marks(m, k) BY <1>3, MarksAre
<1>5. Promisable(k, m.store[k]) BY <1>2, <1>4 DEF Sound, Fine, Promisable
<1>6. k # Parent BY <1>5 DEF Promisable
<1>7. \A j \in S : Queued(q, j) => Pledged(m, j) BY <1>2 DEF Pledged, p
<1>8. Promise(c, m, Promising(m, q), q, X, loose) BY <1>2, <1>7, PromiseSound
<1>9. Lost(m, q) \subseteq {k}
  <2>1. \A j \in S : m.store[j].promises # <<>> => j = Parent BY DEF Sound, Fine
  <2>2. \A j : ~Queued(<<>>, j) BY DEF Queued, Contains
  <2>3. \A j : Pledged(m, j) => Queued(p, j) BY <2>1, <2>2 DEF Pledged, p
  <2>4. QED BY <1>2, <2>3 DEF Lost
<1>10. Sound(c, Promising(m, q), X \cup {k}, loose)
  <2>1. Sound(c, Promising(m, q), X \cup Lost(m, q), loose) BY <1>8 DEF Promise
  <2>2. X \cup Lost(m, q) \subseteq X \cup {k} BY <1>9
  <2>3. QED BY <2>1, <2>2, SoundMore
<1>11. QED BY <1>2, <1>3, <1>5, <1>6, <1>8, <1>10 DEF p, q, k

\* A promise that is claimed has a handle of its own, and its request has been
\* read.
Claimed(a) == [a EXCEPT !.handles = {"other"}, !.events = Tail(@)]
\* A promise that was claimed is a stream with a handle.
LEMMA ClaimedFine ==
  ASSUME NEW c, NEW init, NEW k, NEW a \in Streams, NEW w, Fine(c, init, k, a, w), c.i \notin Servers,
         Promisable(k, a), "pledged" \notin w, a.state # Idle
  PROVE  LET r == Claimed(a)
         IN  /\ r \in Streams /\ Fine(c, init, k, r, w) /\ Settled(c, r, w) /\ Follows(c, a, r)
             /\ r.promises = a.promises /\ r.counted = a.counted /\ r.inFlight = a.inFlight
<1> DEFINE r == Claimed(a)
           e == a.events
           d == Tail(e)
           h == {"other"}
<1>1. e \in Seq(Events) /\ e # <<>> /\ d \in Seq(Events) /\ Len(d) = Len(e) - 1 /\ Len(e) \in Nat
      /\ (Len(d) >= 1 => d[1] = e[2])
  BY DEF Promisable, HeadersFirst, Streams
<1>2. h \subseteq {"other"} /\ h \in SUBSET {"body", "emptied", "other"} /\ h # {} OBVIOUS
<1>3. r = [a EXCEPT !.handles = h, !.events = d] BY DEF Claimed
<1> HIDE DEF r, d, h
<1>4. /\ r \in Streams /\ r.state = a.state /\ r.counted = a.counted /\ r.handles = h /\ r.flow = a.flow
      /\ r.inFlight = a.inFlight /\ r.events = d /\ r.out = a.out /\ r.promises = a.promises
  BY <1>1, <1>2, <1>3 DEF Streams
<1>5. Awaits(r, 1)
  <2>1. Awaits(a, 2) BY DEF Promisable
  <2>2. Len(e) < 2 <=> Len(d) < 1 BY <1>1
  <2>3. QED BY <1>1, <1>4, <2>1, <2>2 DEF Awaits
<1>6. Live(r) <=> Live(a) BY <1>4 DEF Live
<1>7. a.promises = <<>> BY DEF Fine, Promisable
<1>8. "accept" \notin w BY DEF Fine
<1>9. Fine(c, init, k, r, w) BY <1>2, <1>4, <1>5, <1>6, <1>8 DEF Fine
<1>10. Settled(c, r, w) BY <1>2, <1>4, <1>7 DEF Settled, Ready, Owned, Keeps, Released
<1>11. Follows(c, a, r) BY <1>4 DEF Follows
<1>12. QED BY <1>4, <1>9, <1>10, <1>11 DEF r

\* PushPromises::poll_push_promise.
LEMMA PollPushedStep ==
  ASSUME IInv, PollPushed
  PROVE  IInv'
<1> DEFINE c == Context
           m == me
           st == m.store[Parent]
           q == Tail(st.promises)
           k == Head(st.promises)
           o == Promising(m, q)
           r == Claimed(m.store[k])
           n == Sets(o, k, r)
<1>1. /\ c \in Contexts /\ c.i = instance /\ Sound(c, m, {}, 0) /\ m \in Locked(c.i) /\ (IsServer <=> c.i \in Servers)
  BY Before
<1>2. c.i \notin Servers /\ Parent \in Slab(m) /\ st.handles # {} /\ app' = app
  BY <1>1 DEF PollPushed, Held
<1>3. CASE st.promises # <<>>
  <2>1. Asked(Check([m EXCEPT !.store[Parent].promises = Tail(@),
                              !.store[k].handles = {"other"},
                              !.store[k].events = Tail(@)],
                    m.store[k].events # <<>>, "poll_pushed"))
    BY <1>3 DEF PollPushed
  <2>2. ~Queued(m.expiring, Parent)
    <3>1. Keeps(st, Marks(m, Parent)) BY <1>1, <1>2 DEF Sound, Settled, Ready
    <3>2. "expiring" \notin Marks(m, Parent) BY <1>3, <3>1 DEF Keeps
    <3>3. QED BY <3>2, MarksAre
  <2> DEFINE X == {}
             loose == 0
  <2>3. Sound(c, m, X, loose) BY <1>1
  <2>4. /\ Promise(c, m, o, q, X, loose) /\ Sound(c, o, X \cup {k}, loose)
        /\ k \in Slab(m) /\ k # Parent /\ Promisable(k, m.store[k]) /\ ~Queued(q, k)
    <3>1. /\ c \in Contexts /\ c.i \notin Servers /\ Sound(c, m, X, loose) /\ Parent \in Slab(m)
          /\ m.store[Parent].promises # <<>>
          /\ Parent \in X \/ (m.store[Parent].handles # {} /\ ~Queued(m.expiring, Parent))
      BY <1>1, <1>2, <1>3, <2>2, <2>3
    <3>2. o = Promising(m, Tail(m.store[Parent].promises)) OBVIOUS
    <3> HIDE DEF c, m, X, loose, o
    <3>3. QED BY ONLY <3>1, <3>2, ClaimSound
  <2>5. m.store[k].events # <<>> BY <2>4 DEF Promisable, HeadersFirst
  <2>6. Asked(n)
    <3> DEFINE a == [st EXCEPT !.promises = q]
               f == [m.store EXCEPT ![Parent] = a]
    <3>1. m.store \in [Slab(m) -> Streams] BY <1>1, StoreTyped DEF Locked, Slab
    <3>2. Check([m EXCEPT !.store[Parent].promises = Tail(@), !.store[k].handles = {"other"},
                          !.store[k].events = Tail(@)], m.store[k].events # <<>>, "poll_pushed")
            = [m EXCEPT !.store = [f EXCEPT ![k] = [m.store[k] EXCEPT !.handles = {"other"}, !.events = Tail(m.store[k].events)]]]
      BY <1>1, <1>2, <2>4, <2>5, <3>1 DEF Check, Locked
    <3>3. o = [m EXCEPT !.store = f] BY DEF Promising, Sets, Stored
    <3>4. r = [m.store[k] EXCEPT !.handles = {"other"}, !.events = Tail(m.store[k].events)] BY DEF Claimed
    <3> HIDE DEF f, r, o
    <3>5. n = [m EXCEPT !.store = [f EXCEPT ![k] = r]] BY <1>1, <3>3 DEF Sets, Stored, Locked
    <3>6. QED BY <2>1, <3>2, <3>4, <3>5
  <2>7. /\ Slab(o) = Slab(m) /\ o.store[k] = m.store[k] /\ Marks(o, k) = Pledge(Marks(m, k), Queued(q, k))
        /\ Steady(c, m, o, {})
    BY <2>4 DEF Promise
  <2>8. "pledged" \notin Marks(o, k) BY <2>4, <2>7 DEF Pledge
  <2>9. m.store[k].state # Idle BY <1>1, <2>4 DEF Sound, Settled, Ready
  <2>10. Fine(c, o.initWindow, k, m.store[k], Marks(o, k)) BY <2>4, <2>7 DEF Sound
  <2>11. m.store[k] \in Streams BY <1>1, <2>4, StreamTyped
  <2>12. /\ r \in Streams /\ Fine(c, o.initWindow, k, r, Marks(o, k)) /\ Settled(c, r, Marks(o, k))
         /\ Follows(c, m.store[k], r)
         /\ r.promises = m.store[k].promises /\ r.counted = m.store[k].counted /\ r.inFlight = m.store[k].inFlight
    <3> HIDE DEF c, m, k, o, q
    <3>1. QED BY <1>2, <2>4, <2>8, <2>9, <2>10, <2>11, ClaimedFine
  <2>13. Sound(c, n, X, loose) /\ Steady(c, o, n, {}) /\ n \in Locked(c.i) /\ o \in Locked(c.i)
    <3> DEFINE Y == X \cup {k}
               w == o.woken
               y == Put(o, k, r, NoQueue, w)
               P == NoQueue
    <3>1. o \in Locked(c.i) /\ Sound(c, o, Y, loose) BY <2>4 DEF Sound
    <3>2. n = y BY <1>1, <3>1, StorePuts
    <3>3. w \in BOOLEAN BY <3>1 DEF Locked
    <3>4. P \in SUBSET Pushable /\ Marks(o, k) \cup P = Marks(o, k) BY DEF NoQueue
    <3>5. loose \in Int OBVIOUS
    <3>6. Fine(c, o.initWindow, k, r, Marks(o, k) \cup P) BY <2>12, <3>4
    <3> HIDE DEF c, m, k, o, r, w, Y, loose, P
    <3>7. PutTo(c, o, Put(o, k, r, P, w), k, r, P, Y, loose)
      BY <1>1, <2>4, <2>7, <2>12, <3>1, <3>3, <3>4, <3>5, <3>6, PutSteady
    <3>8. PutTo(c, o, y, k, r, P, Y, loose) BY <3>7 DEF P
    <3> HIDE DEF y
    <3>9. Sound(c, y, Y \ {k}, loose) /\ Steady(c, o, y, {}) BY <2>7, <2>12, <3>4, <3>8 DEF PutTo
    <3>10. Y \ {k} = X BY DEF Y
    <3>11. QED BY <3>1, <3>2, <3>9, <3>10 DEF Sound
  <2>14. Steady(c, m, n, {})
    <3> HIDE DEF c, m, n, o
    <3>1. QED BY <1>1, <2>7, <2>13, SteadyTwice
  <2> HIDE DEF n, o
  <2>15. QED BY <1>2, <2>6, <2>13, <2>14, AskedQuiet
<1>4. CASE st.promises = <<>>
  <2> DEFINE says == "pushes"
             x == [m EXCEPT !.store[Parent].task = says]
  <2>1. Asked(x) BY <1>4 DEF PollPushed, Waits
  <2>2. says \in {"none", "message", "pushes"} OBVIOUS
  <2> HIDE DEF says
  <2>3. Sound(c, x, {}, 0) /\ Steady(c, m, x, {}) BY <1>1, <1>2, <2>2, TaskQuiet
  <2> HIDE DEF x
  <2>4. QED BY <1>2, <2>1, <2>3, AskedQuiet
<1>5. QED BY <1>3, <1>4

-----------------------------------------------------------------------------
(* PUSH_PROMISE.                                                             *)

\* What is known when a promise has been read.
Vowed(c, m, o, s) ==
  /\ Sound(c, o, {}, 0) /\ Steady(c, Numbered(m, s), o, {s})
  /\ Linked(o, s) => LET st == o.store[o.ids[s]]
                     IN  \/ IsLocalReset(st.state)
                         \/ st.state = ReservedRemote /\ st.flow.window = m.initWindow
\* A promise that is not for a request of its own is reset at once.
LEMMA BrokenPromise ==
  ASSUME NEW c \in Contexts, c.i \notin Servers, NEW m, Sound(c, m, {}, 0), NEW s \in PeerIds[c.i], s >= m.nextId,
         NEW n, Opener(c, m, s, n)
  PROVE  LET reserved == [n EXCEPT !.store[s].state = ReservedRemote]
         IN  Vowed(c, m, TransitionAfter(SendReset(reserved, s), s, Queued(n.expiring, s)), s)
<1> DEFINE b == Numbered(m, s)
           y == ReservedRemote
           x == Sets(n, s, [n.store[s] EXCEPT !.state = y])
           e == SendReset(x, s)
           o == TransitionAfter(e, s, Queued(n.expiring, s))
           one == {s}
           none == {}
           stream == NewStream(m.initWindow)
<1>1. Inserted(c, b, n, s, s, stream, none, 0) /\ b \in Locked(c.i)
  BY NumberedIs DEF Opener
<1>2. /\ Sound(c, n, none \cup one, 0) /\ s \in Slab(n) /\ n.ids[s] = s /\ IdOf(s) = s
      /\ n.store[s] = stream /\ Fit(c, stream, Marks(n, s)) /\ Steady(c, b, n, one)
  BY <1>1 DEF Inserted
<1>3. n \in Locked(c.i) BY <1>2 DEF Sound
<1>4. y \in States /\ ~IsReset(y)
  <2>1. y \in States BY DEF States
  <2>2. y.inner # "Closed" BY DEF ReservedRemote
  <2>3. \A r : Closed(r).inner = "Closed" BY DEF Closed
  <2> HIDE DEF y
  <2>4. ~IsReset(y) BY <2>2, <2>3 DEF IsReset, IsClosed
  <2>5. QED BY <2>1, <2>4
<1> HIDE DEF y, b, stream
<1>5. EndsOne(n, e, s, LocalResets) BY <1>2, <1>3, <1>4, ErrorEnds
<1> HIDE DEF e, x
<1> DEFINE X == none \cup one
           Done == LocalResets
           zero == 0
<1>6. zero \in Int /\ X \subseteq {s} OBVIOUS
<1>7. Sound(c, n, X, zero) BY <1>2
<1>8. EndsOne(n, e, s, Done) BY <1>5
<1> HIDE DEF X, Done, zero
<1>9. Ended(c, n, e, s, X, zero, Done) BY <1>2, <1>6, <1>7, <1>8, EndsOneSound
<1>10. Fit(c, n.store[s], Marks(n, s)) BY <1>2
<1>11. Finishes(c, n, o, s, zero, Done)
  BY <1>2, <1>6, <1>7, <1>9, <1>10, EndedFinishes
<1> HIDE DEF o
<1>12. /\ Sound(c, o, {}, 0) /\ Steady(c, n, o, one) /\ (s \in Slab(o) => o.store[s].state \in LocalResets)
       /\ \A t \in DOMAIN o.ids : t \in DOMAIN n.ids /\ o.ids[t] = n.ids[t]
  BY <1>2, <1>11 DEF Finishes, zero, Done
<1>13. o \in Locked(c.i) /\ Linking(o) BY <1>12 DEF Sound
<1>14. Steady(c, b, o, one)
  <2> HIDE DEF one
  <2>1. QED BY <1>1, <1>2, <1>3, <1>12, <1>13, SteadyTwice DEF b
<1>15. Linked(o, s) => IsLocalReset(o.store[o.ids[s]].state)
  <2>1. ASSUME Linked(o, s) PROVE IsLocalReset(o.store[o.ids[s]].state)
    <3>1. o.ids[s] = s BY <1>2, <1>12, <2>1 DEF Linked
    <3>2. s \in Slab(o) BY <1>13, <2>1, <3>1 DEF Linking, Linked
    <3>3. QED BY <1>12, <3>1, <3>2 DEF LocalResets, IsLocalReset
  <2>2. QED BY <2>1
<1>16. Vowed(c, m, o, s) BY <1>12, <1>14, <1>15 DEF Vowed, b
<1>17. [n EXCEPT !.store[s].state = ReservedRemote] = x BY <1>3 DEF x, Sets, Stored, y, Locked
<1>18. QED BY <1>16, <1>17 DEF o, e

\* A promise on the request: the stream is reserved, and its request can be
\* read.
Reservation(init) == [NewStream(init) EXCEPT !.state = ReservedRemote, !.events = <<Event("headers", 0)>>]
\* A stream that was promised.
LEMMA ReservationIs ==
  ASSUME NEW init \in 0 .. MaxWindow
  PROVE  LET r == Reservation(init)
         IN  /\ r \in Streams /\ r.state = ReservedRemote /\ ~r.counted /\ r.handles = {} /\ r.inFlight = 0
             /\ r.out = <<>> /\ r.promises = <<>> /\ r.flow.window = init /\ r.flow.available = init
             /\ HeadersFirst(r) /\ Awaits(r, 1) /\ Awaits(r, 2)
<1> DEFINE r == Reservation(init)
           a == NewStream(init)
           y == ReservedRemote
           e == <<Event("headers", 0)>>
<1>1. /\ a \in Streams /\ a.counted = FALSE /\ a.handles = {} /\ a.inFlight = 0 /\ a.out = <<>> /\ a.promises = <<>>
      /\ a.flow = Flow(init, init)
  BY FreshIs DEF IsFresh, NewStream
<1>2. y \in States BY DEF States
<1>3. e \in Seq(Events) /\ Len(e) = 1 /\ e[1].kind = "headers" /\ e # <<>>
  <2>1. Event("headers", 0) \in Events BY DEF Event, Events
  <2>2. Event("headers", 0).kind = "headers" BY DEF Event
  <2>3. QED BY <2>1, <2>2
<1>4. r = [a EXCEPT !.state = y, !.events = e] BY DEF Reservation
<1>5. ~IsRecvStreaming(y)
  BY DEF IsRecvStreaming, ReservedRemote, Open, HalfClosedLocal
<1> HIDE DEF r, a, e, y
<1>6. r \in Streams BY <1>1, <1>2, <1>3, <1>4 DEF Streams
<1>7. /\ r.state = y /\ r.counted = a.counted /\ r.handles = a.handles /\ r.inFlight = a.inFlight /\ r.out = a.out
      /\ r.promises = a.promises /\ r.flow = a.flow /\ r.events = e
  BY <1>1, <1>4 DEF Streams
<1>8. HeadersFirst(r) /\ Awaits(r, 1) /\ Awaits(r, 2)
  <2>1. HeadersFirst(r) BY <1>3, <1>7 DEF HeadersFirst
  <2>2. ~(Len(r.events) < 1) /\ Len(r.events) < 2
    <3>1. Len(r.events) = 1 BY <1>3, <1>7
    <3>2. QED BY <3>1
  <2>3. r.events[1].kind = "headers" BY <1>3, <1>7
  <2>4. ~IsRecvStreaming(r.state) BY <1>5, <1>7
  <2>5. QED BY <2>1, <2>2, <2>3, <2>4 DEF Awaits
<1>9. r.flow.window = init /\ r.flow.available = init BY <1>1, <1>7 DEF Flow
<1>10. QED BY <1>1, <1>6, <1>7, <1>8, <1>9 DEF r, y
\* It is fine, and can be promised.
LEMMA ReservationFine ==
  ASSUME NEW c \in Contexts, c.i \notin Servers, NEW init \in 0 .. MaxWindow, NEW k \in Nat \ {Parent}, NEW w,
         {"current", "alone"} \subseteq w, w \cap Places = {}
  PROVE  /\ Fine(c, init, k, Reservation(init), w) /\ Promisable(k, Reservation(init))
         /\ Settled(c, Reservation(init), w \cup {"pledged"})
<1> DEFINE r == Reservation(init)
           y == ReservedRemote
<1>1. /\ r \in Streams /\ r.state = y /\ ~r.counted /\ r.handles = {} /\ r.inFlight = 0
      /\ r.out = <<>> /\ r.promises = <<>> /\ r.flow.window = init /\ r.flow.available = init
      /\ HeadersFirst(r) /\ Awaits(r, 1) /\ Awaits(r, 2)
  BY ReservationIs
<1>2. y \in RoleStates(c.i) BY DEF RoleStates, ClientStates
<1>3. y # Idle /\ ~IsClosed(y) BY DEF ReservedRemote, Idle, IsClosed
<1> HIDE DEF r, y
<1>4. init \in Int /\ init >= 0 /\ k \in Nat BY MaxWindowAssumption
<1>5. r.flow.available + r.inFlight = init BY <1>1, <1>4
<1>6. /\ "accept" \notin w /\ "sending" \notin w /\ "pledged" \notin w /\ "expiring" \notin w BY DEF Places
<1>7. /\ r.state \in RoleStates(c.i)
      /\ Live(r) => {"current", "alone"} \subseteq w /\ r.flow.available + r.inFlight = init
      /\ "current" \in w => /\ r.flow.window <= init
                            /\ 0 \in DataSizes[c.i] => r.flow.window >= 0
      /\ r.state \in {Idle, ReservedRemote} => ~r.counted
      /\ k \in c.await => Awaits(r, 1) /\ r.handles \subseteq {"other"}
  BY <1>1, <1>2, <1>4, <1>5
<1>8. Fine(c, init, k, r, w) BY <1>1, <1>4, <1>6, <1>7 DEF Fine
<1>9. Promisable(k, r) BY <1>1 DEF Promisable
<1>10. Settled(c, r, w \cup {"pledged"}) BY <1>1, <1>3 DEF Settled, Ready, Owned, Keeps, Released
<1>11. QED BY <1>8, <1>9, <1>10 DEF r
\* An entry that is not closed stays as it is.
LEMMA OpenStays ==
  ASSUME NEW m, NEW s, ~IsClosed(m.store[s].state), NEW y
  PROVE  TransitionAfter(m, s, y) = m
BY DEF TransitionAfter, StreamClosed, IsReleased
\* It is what recv_push_promise makes of a new stream.
LEMMA ReservedForm ==
  ASSUME NEW c \in Contexts, NEW n \in Locked(c.i), NEW s \in Slab(n), NEW init \in 0 .. MaxWindow,
         n.store[s] = NewStream(init), NEW y
  PROVE  LET reserved == [n EXCEPT !.store[s].state = ReservedRemote]
         IN  TransitionAfter(Deliver(reserved, s, Event("headers", 0)), s, y) = Sets(n, s, Reservation(init))
<1> DEFINE a == NewStream(init)
           x == ReservedRemote
           e == Event("headers", 0)
           a1 == [a EXCEPT !.state = x]
           a2 == [a1 EXCEPT !.events = Append(@, e)]
           a3 == [a2 EXCEPT !.task = "none"]
           b1 == [n EXCEPT !.store[s].state = x]
           b2 == [b1 EXCEPT !.store[s].events = Append(@, e)]
           b3 == [b2 EXCEPT !.store[s].task = "none"]
<1>1. a \in Streams /\ a.events = <<>> /\ a.task = "none" BY FreshIs DEF IsFresh, NewStream
<1>2. a3 = Reservation(init)
  <2>1. Reservation(init) = [a EXCEPT !.state = x, !.events = <<e>>] BY DEF Reservation
  <2>2. Append(<<>>, e) = <<e>> OBVIOUS
  <2> HIDE DEF a, x, e
  <2>3. a3 = [a EXCEPT !.state = x, !.events = <<e>>] BY <1>1, <2>2 DEF Streams
  <2>4. QED BY <2>1, <2>3
<1>3. n.store[s] = a OBVIOUS
<1> HIDE DEF a, x, e
<1>4. b1 = Sets(n, s, a1) BY <1>3 DEF Sets, Stored, Locked
<1>5. b1.store[s] = a1
  <2> HIDE DEF b1, a1
  <2>1. QED BY <1>4, StoredTwice
<1>6. b2 = Sets(b1, s, a2)
  <2> HIDE DEF a1
  <2>1. b1.store = Stored(n, s, a1) BY <1>4 DEF Sets, Locked
  <2>2. QED BY <1>5 DEF Sets, Stored
<1>7. b2 = Sets(n, s, a2) BY <1>4, <1>6, StoredTwice
<1> HIDE DEF b1, b2, a2
<1>8. b2.store[s] = a2 BY <1>7, StoredTwice
<1>9. b3 = Sets(b2, s, a3) BY <1>8 DEF Sets, Stored
<1>10. b3 = Sets(n, s, a3) BY <1>7, <1>9, StoredTwice
<1> HIDE DEF b3, a3
<1>11. b3.store[s].state = ReservedRemote
  <2>1. b3.store[s] = a3 BY <1>10, StoredTwice
  <2>2. QED BY <1>2, <2>1, ReservationIs
<1>12. ~IsClosed(b3.store[s].state) BY <1>11 DEF IsClosed, ReservedRemote
<1>13. TransitionAfter(b3, s, y) = b3 BY <1>12, OpenStays
<1>14. QED BY <1>2, <1>10, <1>13 DEF b3, b2, b1, Deliver, Notify, x, e

\* It is promised on the request, whose reader is told.
LEMMA MadePromise ==
  ASSUME NEW c \in Contexts, c.i \notin Servers, NEW m, Sound(c, m, {}, 0), NEW s \in PeerIds[c.i], s >= m.nextId,
         NEW n, Opener(c, m, s, n), Parent \in Slab(m), m.store[Parent].handles # {}, ~Queued(m.expiring, Parent)
  PROVE  LET reserved == [n EXCEPT !.store[s].state = ReservedRemote]
             made == TransitionAfter(Deliver(reserved, s, Event("headers", 0)), s, Queued(n.expiring, s))
             q == PushOnce(made.store[Parent].promises, s)
         IN  Vowed(c, m, Notify([made EXCEPT !.store[Parent].promises = q], Parent), s)
<1> DEFINE b == Numbered(m, s)
           init == m.initWindow
           r == Reservation(init)
           x == Sets(n, s, r)
           q == PushOnce(x.store[Parent].promises, s)
           e == Promising(x, q)
           says == "none"
           o == [e EXCEPT !.store[Parent].task = says]
           one == {s}
           stream == NewStream(m.initWindow)
<1>1. /\ Inserted(c, b, n, s, s, stream, {}, 0) /\ b \in Locked(c.i) /\ n.initWindow = init
      /\ s \in Nat \ {Parent} /\ b.store = m.store /\ Slab(b) = Slab(m) /\ b.expiring = m.expiring
      /\ \A k \in Slab(m) : IdOf(k) # s
  BY NumberedIs DEF Opener, Slab
<1>2. /\ Sound(c, n, one, 0) /\ s \in Slab(n) /\ s \notin Slab(m) /\ n.ids[s] = s /\ IdOf(s) = s
      /\ n.store[s] = stream /\ Steady(c, b, n, one) /\ Marks(n, s) \cap Places = {} /\ "current" \in Marks(n, s)
      /\ Slab(n) = Slab(m) \cup {s} /\ n.expiring = m.expiring
      /\ \A j \in Slab(m) : n.store[j] = m.store[j]
      /\ DOMAIN n.ids = DOMAIN b.ids \cup {s}
  BY <1>1 DEF Inserted
<1>3. n \in Locked(c.i) BY <1>2 DEF Sound
<1>4. init \in 0 .. MaxWindow BY <1>1, <1>3 DEF Locked
<1>5. "alone" \in Marks(n, s)
  <2>1. Alone(n, s) BY <1>1, <1>2 DEF Alone
  <2>2. QED BY <2>1, MarksAre
<1>6. r \in Streams /\ Fine(c, init, s, r, Marks(n, s)) /\ Promisable(s, r)
      /\ Settled(c, r, Marks(n, s) \cup {"pledged"})
  <2> DEFINE w == Marks(n, s)
  <2>1. {"current", "alone"} \subseteq w /\ w \cap Places = {} BY <1>2, <1>5
  <2>2. s \in Nat \ {Parent} BY <1>1
  <2> HIDE DEF w, init
  <2>3. Fine(c, init, s, Reservation(init), w) /\ Promisable(s, Reservation(init))
        /\ Settled(c, Reservation(init), w \cup {"pledged"})
    BY <1>4, <2>1, <2>2, ReservationFine
  <2>4. Reservation(init) \in Streams BY <1>4, ReservationIs
  <2>5. QED BY <2>3, <2>4 DEF w
<1>7. /\ r.promises = stream.promises /\ r.counted = stream.counted /\ r.inFlight = stream.inFlight
      /\ r.state = ReservedRemote /\ r.flow.window = init
  <2>1. stream.promises = <<>> /\ stream.counted = FALSE /\ stream.inFlight = 0 BY DEF NewStream
  <2>2. /\ r.promises = <<>> /\ ~r.counted /\ r.inFlight = 0 /\ r.state = ReservedRemote /\ r.flow.window = init
    BY <1>4, ReservationIs
  <2> HIDE DEF r, stream
  <2>3. r.counted \in BOOLEAN BY <1>6 DEF Streams
  <2>4. QED BY <2>1, <2>2, <2>3
<1>8. Sound(c, x, one, 0) /\ Slab(x) = Slab(n) /\ x.store[s] = r /\ Marks(x, s) = Marks(n, s)
      /\ (\A k \in Slab(n) : k # s => x.store[k] = n.store[k])
      /\ Steady(c, n, x, one) /\ x.expiring = n.expiring /\ x.ids = n.ids
  <2> DEFINE P == NoQueue
             w == n.woken
             z == 0
             y == Put(n, s, r, NoQueue, w)
  <2>1. P \in SUBSET Pushable /\ Marks(n, s) \cup P = Marks(n, s) BY DEF NoQueue
  <2>2. z \in Int /\ w \in BOOLEAN BY <1>3 DEF Locked
  <2>3. x = y BY <1>2, <1>3, StorePuts
  <2>4. Fine(c, n.initWindow, s, r, Marks(n, s) \cup P) BY <1>1, <1>6, <2>1
  <2>5. Sound(c, n, one, z) BY <1>2
  <2> HIDE DEF P, z, w, r, stream, one, init
  <2>6. PutTo(c, n, Put(n, s, r, P, w), s, r, P, one, z)
    BY <1>2, <1>6, <1>7, <2>1, <2>2, <2>4, <2>5, PutSteady
  <2>7. PutTo(c, n, x, s, r, P, one, z) BY <2>3, <2>6 DEF P
  <2> HIDE DEF x, y
  <2>8. one \cup {s} = one BY DEF one
  <2>9. QED BY <1>2, <2>1, <2>7, <2>8 DEF PutTo, z, one
<1> HIDE DEF x, r, stream, b
<1>9. x \in Locked(c.i) /\ Queues(x) BY <1>8 DEF Sound
<1>10. /\ Parent \in Slab(x) /\ x.store[Parent] = m.store[Parent] /\ ~Queued(x.expiring, Parent)
       /\ x.store[Parent].handles # {}
  BY <1>1, <1>2, <1>8
<1>11. IsQueue(q, Slab(x)) /\ \A k : Queued(q, k) <=> Queued(x.store[Parent].promises, k) \/ k = s
  <2> DEFINE p == x.store[Parent].promises
             yes == TRUE
             S == Slab(x)
  <2>1. IsQueue(p, S) BY <1>9, <1>10 DEF Queues
  <2>2. yes \in BOOLEAN /\ s \in S BY <1>2, <1>8
  <2> HIDE DEF p, yes, S
  <2>3. IsQueue(Push(p, s, yes), S) /\ \A k : Queued(Push(p, s, yes), k) <=> Queued(p, k) \/ (yes /\ k = s)
    BY <2>1, <2>2, PushQueue
  <2>4. QED BY <2>3 DEF Push, p, yes, S
<1>12. \A k \in Slab(x) : Queued(q, k) => Pledged(x, k) \/ Promisable(k, x.store[k])
  BY <1>6, <1>8, <1>10, <1>11 DEF Pledged
<1>13. Promise(c, x, e, q, one, 0)
  <2> DEFINE z == 0
             E == Promising(x, q)
  <2>1. /\ c \in Contexts /\ c.i \notin Servers /\ Sound(c, x, one, z) /\ Parent \in Slab(x) /\ IsQueue(q, Slab(x))
        /\ \A k \in Slab(x) : Queued(q, k) => Pledged(x, k) \/ Promisable(k, x.store[k])
        /\ \/ q = <<>> \/ Parent \in one
           \/ x.store[Parent].handles # {} /\ ~Queued(x.expiring, Parent)
    BY <1>8, <1>10, <1>11, <1>12
  <2> HIDE DEF q, one, z
  <2>2. Promise(c, x, Promising(x, q), q, one, z) BY ONLY <2>1, PromiseSound
  <2>3. QED BY <2>2 DEF z
<1> HIDE DEF e, q
<1>14. Sound(c, e, {}, 0) /\ Slab(e) = Slab(x) /\ e.store[s] = r /\ Steady(c, x, e, {}) /\ e.ids = x.ids
  <2>1. \A k \in Slab(x) : Pledged(x, k) => Queued(q, k)
    <3>1. ASSUME NEW k \in Slab(x), Pledged(x, k) PROVE Queued(q, k)
      <4>1. PICK p \in Slab(x) : Queued(x.store[p].promises, k) BY <3>1 DEF Pledged
      <4>2. x.store[p].promises # <<>> BY <4>1 DEF Queued, Contains
      <4>3. Fine(c, x.initWindow, p, x.store[p], Marks(x, p)) BY <1>8 DEF Sound
      <4>4. p = Parent BY <4>2, <4>3 DEF Fine
      <4>5. QED BY <1>11, <4>1, <4>4
    <3>2. QED BY <3>1
  <2>2. one \cup Lost(x, q) = one BY <2>1 DEF Lost
  <2>3. Sound(c, e, one, 0) /\ Slab(e) = Slab(x) /\ Steady(c, x, e, {}) /\ e.ids = x.ids
        /\ (\A k \in Slab(x) : k # Parent => e.store[k] = x.store[k])
        /\ \A k \in Slab(x) : Marks(e, k) = Pledge(Marks(x, k), Queued(q, k))
    BY <1>13, <2>2 DEF Promise
  <2>4. e.store[s] = r BY <1>1, <1>2, <1>8, <2>3
  <2>5. Marks(e, s) = Marks(n, s) \cup {"pledged"}
    <3>1. Queued(q, s) BY <1>11
    <3>2. QED BY <1>2, <1>8, <2>3, <3>1 DEF Pledge
  <2>6. Settled(c, e.store[s], Marks(e, s)) BY <1>6, <2>4, <2>5
  <2> DEFINE z == 0
  <2>7. Sound(c, e, one, z) BY <2>3
  <2>8. one \ {s} = {} OBVIOUS
  <2> HIDE DEF z, one
  <2>9. Sound(c, e, one \ {s}, z) BY <2>6, <2>7, SoundLess
  <2>10. QED BY <2>3, <2>4, <2>8, <2>9 DEF z
<1>15. e \in Locked(c.i) BY <1>14 DEF Sound
<1>16. Hears(c, e, o, Parent, {}, 0)
  <2> DEFINE X == {}
             z == 0
  <2>1. Sound(c, e, X, z) /\ z \in Int /\ Parent \in Slab(e) /\ says \in {"none", "message", "pushes"}
    BY <1>10, <1>14
  <2> HIDE DEF X, z, says
  <2>2. Hears(c, e, [e EXCEPT !.store[Parent].task = says], Parent, X, z) BY <2>1, TaskSound
  <2>3. QED BY <2>2 DEF X, z
<1> HIDE DEF o
<1>17. Sound(c, o, {}, 0) /\ o \in Locked(c.i) /\ Steady(c, e, o, {}) /\ o.store[s] = r
  <2>1. Sound(c, o, {}, 0) /\ Steady(c, e, o, {}) BY <1>16 DEF Hears
  <2>2. s \in Slab(e) /\ s # Parent BY <1>1, <1>2, <1>8, <1>14
  <2>3. o.store[s] = e.store[s] BY <1>16, <2>2 DEF Hears
  <2>4. QED BY <1>14, <2>1, <2>3 DEF Sound
<1>18. Steady(c, b, o, one)
  <2> DEFINE X == {}
  <2>1. Steady(c, x, e, X) /\ Steady(c, e, o, X) /\ X \subseteq one BY <1>14, <1>17
  <2> HIDE DEF X, one
  <2>2. Steady(c, x, e, one) /\ Steady(c, e, o, one) BY <2>1, SteadyMore
  <2>3. Steady(c, b, x, one) BY <1>1, <1>2, <1>3, <1>8, <1>9, SteadyTwice
  <2>4. Steady(c, b, e, one) BY <1>1, <1>9, <1>15, <2>2, <2>3, SteadyTwice
  <2>5. QED BY <1>1, <1>15, <1>17, <2>2, <2>4, SteadyTwice
<1>19. Linked(o, s) => o.ids[s] = s
  <2>1. e.ids[s] = s BY <1>2, <1>8, <1>14
  <2>2. Linked(o, s) => o.ids[s] = e.ids[s] BY <1>17 DEF Linked, Steady
  <2>3. QED BY <2>1, <2>2
<1>20. Vowed(c, m, o, s) BY <1>7, <1>17, <1>18, <1>19 DEF Vowed, b
<1>21. LET reserved == [n EXCEPT !.store[s].state = ReservedRemote]
       IN  TransitionAfter(Deliver(reserved, s, Event("headers", 0)), s, Queued(n.expiring, s)) = x
  BY <1>2, <1>3, <1>4, ReservedForm DEF x, r, stream
<1>22. Notify([x EXCEPT !.store[Parent].promises = PushOnce(x.store[Parent].promises, s)], Parent) = o
  <2>1. [x EXCEPT !.store[Parent].promises = PushOnce(x.store[Parent].promises, s)] = e
    BY <1>9 DEF e, q, Promising, Sets, Stored, Locked
  <2>2. QED BY <2>1 DEF Notify, o, says
<1>23. QED BY <1>20, <1>21, <1>22
\* The request is under way, so that its handles are held.
LEMMA RequestHeld ==
  ASSUME IInv, end = "open", ~IsServer, Linked(me, Parent), Said(Parent) \in {"nothing", "open"},
         EnsureRecvOpen(me.store[me.ids[Parent]].state) # "error"
  PROVE  /\ me.ids[Parent] = Parent /\ Parent \in Slab(me) /\ me.store[Parent].handles # {}
         /\ ~Queued(me.expiring, Parent)
<1> DEFINE k == me.ids[Parent]
           st == me.store[k]
           c == Context
           w == Marks(me, k)
<1>1. /\ k \in Slab(me) /\ IdOf(k) = Parent /\ st \in Streams /\ st.state # Idle
      /\ Fine(c, me.initWindow, k, st, w) /\ Settled(c, st, w)
      /\ Told(instance, me.initWindow, peer.stream[Parent], st)
  BY LinkedIs
<1>2. instance \notin Servers /\ c \in Contexts /\ c.i = instance /\ me \in Locked(c.i) BY Before
<1>3. ~IsReset(st.state)
  <2> HIDE DEF st
  <2>1. QED BY DEF EnsureRecvOpen, st
<1>4. ~IsClosed(st.state)
  <2>1. peer.stream[Parent].said \in {"nothing", "open"} BY DEF Said
  <2>2. st.state # Closed("EndStream") BY <1>1, <1>2, <2>1 DEF Told
  <2>3. QED BY <1>3, <2>2 DEF IsReset
<1>5. k = Parent
  <2>1. k \in Nat BY <1>1, <1>3 DEF Fine
  <2>2. k \in KeysOf(c.i) BY <1>1, <1>2, StreamTyped
  <2>3. IdOf(k) = k BY <1>2, <2>1, <2>2, IdsAre DEF Contexts
  <2>4. QED BY <1>1, <2>3
<1>6. "expiring" \notin w BY <1>1, <1>4 DEF Fine
<1>7. st.handles # {}
  <2>1. "accept" \notin w /\ "pledged" \notin w
    <3> HIDE DEF st, w, k, c
    <3>1. QED BY <1>1, <1>2, <1>5 DEF Fine
  <2>2. Owned(c, st, w) BY <1>1 DEF Settled, Ready
  <2>3. QED BY <1>4, <2>1, <2>2 DEF Owned
<1>8. QED BY <1>1, <1>5, <1>6, <1>7, MarksAre
\* One more promise within the limit.
LEMMA RoomOneMore ==
  ASSUME NEW i \in Instances, i \notin Servers, NEW n \in Int, NEW q, NEW p, NEW s \in PeerIds[i],
         n + Cardinality(Pending(i, q)) < MaxRecv[i], Spoken(i, q, p, s), q.stream[s].said = "nothing",
         p.stream[s].said = "promised"
  PROVE  n < MaxRecv[i] /\ \A o \in Int : o <= n => Roomy(i, o, p)
<1> DEFINE P == Pending(i, q)
           Q == Pending(i, p)
<1>1. IsFiniteSet(PeerIds[i]) /\ MaxRecv[i] \in Nat BY RecvAssumption
<1>2. IsFiniteSet(P) BY <1>1, FS_Subset DEF Pending
<1>3. Q = P \cup {s}
  <2>1. ASSUME NEW t \in PeerIds[i], t # s PROVE p.stream[t] = q.stream[t] BY <2>1 DEF Spoken, IdsOf
  <2>2. QED BY <2>1 DEF Pending
<1>4. s \notin P BY DEF Pending
<1> HIDE DEF P, Q
<1>5. Cardinality(Q) = Cardinality(P) + 1 /\ Cardinality(P) \in Nat
  BY <1>2, <1>3, <1>4, FS_AddElement, FS_CardinalityType
<1>6. n + Cardinality(P) < MaxRecv[i] BY DEF P
<1>7. n < MaxRecv[i] BY <1>1, <1>5, <1>6
<1>8. \A o \in Int : o <= n => o + Cardinality(Q) <= MaxRecv[i] BY <1>1, <1>5, <1>6
<1>9. QED BY <1>7, <1>8 DEF Roomy, Q
\* What the peer knows of it.
LEMMA VowedTold ==
  ASSUME NEW i, i \notin Servers, NEW p, p.said = "promised", NEW st, NEW init,
         IsLocalReset(st.state) \/ (st.state = ReservedRemote /\ st.flow.window = init)
  PROVE  Told(i, init, p, st)
<1>1. CASE IsLocalReset(st.state)
  <2> DEFINE y == st.state
  <2>1. y \in {Closed("LocallyReset"), Closed("Scheduled")} BY <1>1 DEF IsLocalReset
  <2>2. \A x : Closed(x).inner = "Closed" BY DEF Closed
  <2>3. Closed("LocallyReset") # Closed("EndStream") /\ Closed("Scheduled") # Closed("EndStream") BY DEF Closed
  <2> HIDE DEF y
  <2>4. y.inner = "Closed" /\ y # Closed("EndStream") BY <2>1, <2>2, <2>3
  <2>5. ~IsRecvStreaming(y) BY <2>4 DEF IsRecvStreaming, Open, HalfClosedLocal
  <2>6. ~IsRecvHeaders(y) BY <2>4 DEF IsRecvHeaders, Open, HalfClosedLocal, Idle, ReservedRemote
  <2>7. y # ReservedRemote BY <2>4 DEF ReservedRemote
  <2>8. QED BY <2>4, <2>5, <2>6, <2>7 DEF Told, y
<1>2. CASE st.state = ReservedRemote /\ st.flow.window = init
  <2> DEFINE y == ReservedRemote
  <2>1. ~IsRecvStreaming(y) BY DEF IsRecvStreaming, Open, HalfClosedLocal, ReservedRemote
  <2>2. y # Closed("EndStream") BY DEF ReservedRemote, Closed
  <2> HIDE DEF y
  <2>3. st.state = y BY <1>2 DEF y
  <2>4. QED BY <1>2, <2>1, <2>2, <2>3 DEF Told
<1>3. QED BY <1>1, <1>2
\* A PUSH_PROMISE frame.
LEMMA PeerPromiseStep ==
  ASSUME IInv, Careful, NEW s \in Ids, s # Parent, NEW how, PeerPromise(s, how)
  PROVE  IInv'
<1> DEFINE c == Context
           m == me
           q == peer
           p == peer'
           o == RecvPushPromiseFrame(me, s, how)
           yes == TRUE
           n == RecvOpenId(m, s, yes)
           k == m.ids[Parent]
           said == "promised"
<1>1. /\ end = "open" /\ m.refused = NoId /\ Applied(o) /\ ~IsServer /\ Said(Parent) \in {"nothing", "open"}
      /\ PeerSays(s, said)
  BY DEF PeerPromise, Reads, TaskRuns
<1>2. /\ c \in Contexts /\ c.i = instance /\ Sound(c, m, {}, 0) /\ instance \in Instances /\ m \in Locked(c.i)
      /\ Agree(c.i, m, q) /\ c.i \notin Servers /\ m.nextId \in Nat \ {0} /\ m.numRecv \in Int
      /\ s \in PeerIds[c.i]
  <2>1. /\ c \in Contexts /\ c.i = instance /\ Sound(c, m, {}, 0) /\ instance \in Instances /\ m \in Locked(c.i)
        /\ Agree(c.i, m, q) /\ s \in IdsOf(c.i) /\ (IsServer <=> c.i \in Servers)
    BY <1>1, Before
  <2>2. m.nextId \in Nat \ {0} /\ m.numRecv \in Int BY <2>1 DEF Locked
  <2>3. QED BY <1>1, <2>1, <2>2 DEF IdsOf
<1>3. p \in Peer /\ Spoken(c.i, q, p, s) /\ p.stream[s].said = said
  <2>1. said \in {"nothing", "promised", "open", "ended", "reset"} OBVIOUS
  <2> HIDE DEF said
  <2>2. QED BY <1>1, <1>2, <2>1, SaidIs
<1>4. s >= m.nextId /\ Ordered(c.i, s + 1, p) /\ q.stream[s].said = "nothing"
  <2>1. \A t \in PeerIds[c.i] : t >= s => q.stream[t].said = "nothing" BY <1>2 DEF PeerPromise, Said
  <2>2. Ordered(c.i, m.nextId, q) BY <1>2 DEF Agree
  <2>3. p.stream[s].said # "nothing" BY <1>3
  <2>4. s >= s
    <3>1. s \in Int
      <4>1. s \in IdsOf(c.i) /\ IdsOf(c.i) \subseteq Nat BY <1>2, IdsAre DEF IdsOf
      <4>2. QED BY <4>1
    <3>2. QED BY <3>1
  <2>5. q.stream[s].said = "nothing" BY <1>2, <2>1, <2>4
  <2> HIDE DEF c, m, q, p
  <2>6. QED BY <1>2, <1>3, <2>1, <2>2, <2>3, <2>5, OpensOrdered
<1>5. m.numRecv < MaxRecv[c.i] /\ \A x \in Int : x <= m.numRecv => Roomy(c.i, x, p)
  <2>1. "overPromise" \notin Moves[instance] BY <1>2 DEF Careful, CarefulIn
  <2>2. m.numRecv + Cardinality(Promised) < MaxRecv[instance] BY <2>1 DEF PeerPromise
  <2>3. Promised = Pending(c.i, q) BY <1>2 DEF Promised, Pending, Said
  <2>4. m.numRecv + Cardinality(Pending(c.i, q)) < MaxRecv[c.i] BY <1>2, <2>2, <2>3
  <2>5. c.i \in Instances BY <1>2
  <2> HIDE DEF c, m, q, p
  <2>6. QED BY <1>2, <1>3, <1>4, <2>4, <2>5, RoomOneMore
<1>6. Opener(c, m, s, n)
  <2>1. CanIncNumRecv(m)
    <3>1. MaxRecv[c.i] \in Nat BY <1>2, RecvAssumption
    <3>2. QED BY <1>2, <1>5, <3>1 DEF CanIncNumRecv
  <2>2. yes \in BOOLEAN /\ yes # IsServer BY <1>1
  <2> HIDE DEF c, m, yes, n
  <2>3. CanIncNumRecv(m) => Opener(c, m, s, RecvOpenId(m, s, yes)) BY <1>1, <1>2, <1>4, <2>2, OpenIdSound
  <2>4. QED BY <2>1, <2>3 DEF n
<1>7. ~Linked(m, s) BY <1>2, <1>4, NumberedIs
<1>8. /\ n.ids[s] = s /\ Linked(n, s) BY <1>6 DEF Opener, Inserted
<1>9. CASE ~Linked(m, Parent) \/ EnsureRecvOpen(m.store[k].state) = "error"
  <2>1. o = ConnError(m) BY <1>9 DEF RecvPushPromiseFrame
  <2> DEFINE X == {}
             z == 0
  <2>2. z \in Int /\ Sound(c, m, X, z) BY <1>2
  <2> HIDE DEF X, z, o
  <2>3. Sound(c, o, X, z) /\ o.err BY <1>2, <2>1, <2>2, ErrorSound
  <2>4. QED BY <1>1, <1>3, <2>3, AppliedError DEF X, z
<1>10. CASE ~(~Linked(m, Parent) \/ EnsureRecvOpen(m.store[k].state) = "error")
  <2>1. /\ k = Parent /\ Parent \in Slab(m) /\ m.store[Parent].handles # {} /\ ~Queued(m.expiring, Parent)
    BY <1>1, <1>10, RequestHeld
  <2>2. Check(m, ~Linked(m, s), "insert") = m BY <1>7 DEF Check
  <2> DEFINE reserved == [n EXCEPT !.store[s].state = ReservedRemote]
             made == TransitionAfter(Deliver(reserved, s, Event("headers", 0)), s, Queued(n.expiring, s))
             broken == TransitionAfter(SendReset(reserved, s), s, Queued(n.expiring, s))
             t == PushOnce(made.store[Parent].promises, s)
             vow == Notify([made EXCEPT !.store[Parent].promises = t], Parent)
  <2>3. o = IF how # "ok" THEN broken ELSE vow
    <3>1. o = LET promised == TransitionAfter(IF how = "ok" THEN Deliver(reserved, s, Event("headers", 0))
                                                          ELSE SendReset(reserved, s), s, Queued(n.expiring, s))
              IN  IF how # "ok" THEN promised
                  ELSE Notify([promised EXCEPT !.store[Parent].promises = PushOnce(@, s)], Parent)
      <4> HIDE DEF n
      <4>1. RecvOpenId(Check(m, ~Linked(m, s), "insert"), s, TRUE) = n BY <2>2 DEF n
      <4>2. QED BY <1>8, <1>10, <2>1, <4>1 DEF RecvPushPromiseFrame, Transition
    <3>2. CASE how # "ok" BY <3>1, <3>2
    <3>3. CASE how = "ok"
      <4> HIDE DEF made
      <4>1. o = Notify([made EXCEPT !.store[Parent].promises = PushOnce(@, s)], Parent) BY <3>1, <3>3 DEF made
      <4>2. QED BY <3>3, <4>1
    <3>4. QED BY <3>2, <3>3
  <2>4. Vowed(c, m, broken, s)
    <3> HIDE DEF c, m, n
    <3>1. QED BY <1>2, <1>4, <1>6, BrokenPromise
  <2>5. Vowed(c, m, vow, s)
    <3> HIDE DEF c, m, n
    <3>1. QED BY <1>2, <1>4, <1>6, <2>1, MadePromise
  <2> HIDE DEF broken, vow, o
  <2>6. Vowed(c, m, o, s) BY <2>3, <2>4, <2>5
  <2> DEFINE b == Numbered(m, s)
  <2>7. /\ b \in Locked(c.i) /\ b.nextId = s + 1 /\ b.err = m.err /\ b.ids = m.ids /\ b.store = m.store
        /\ b.flow = m.flow /\ b.refused = m.refused /\ b.initWindow = m.initWindow /\ b.numRecv = m.numRecv
    <3> HIDE DEF m, c
    <3>1. QED BY <1>2, <1>4, NumberedIs
  <2> HIDE DEF b
  <2>8. Sound(c, o, {}, 0) /\ o \in Locked(c.i) /\ Steady(c, b, o, {s}) BY <2>6 DEF Vowed, Sound, b
  <2>9. /\ o.nextId = s + 1 /\ o.initWindow = m.initWindow /\ o.err = m.err /\ o.refused = NoId /\ o.numRecv <= m.numRecv
    BY <1>1, <2>7, <2>8 DEF Steady
  <2>10. AgreeBut(c.i, b, q, s) BY <1>2, <2>7 DEF Agree, AgreeBut
  <2>11. s \in DOMAIN o.ids => Told(c.i, o.initWindow, p.stream[s], o.store[o.ids[s]])
    <3> DEFINE st == o.store[o.ids[s]]
               init == m.initWindow
               e == p.stream[s]
               i == c.i
    <3>1. s \in DOMAIN o.ids => IsLocalReset(st.state) \/ (st.state = ReservedRemote /\ st.flow.window = init)
      BY <2>6 DEF Vowed, Linked
    <3>2. e.said = "promised" /\ i \notin Servers BY <1>2, <1>3
    <3> HIDE DEF st, init, e, i
    <3>3. s \in DOMAIN o.ids => Told(i, init, e, st) BY <3>1, <3>2, VowedTold
    <3>4. QED BY <2>9, <3>3 DEF st, init, e, i
  <2>12. Ordered(c.i, o.nextId, p) BY <1>4, <2>9
  <2>13. Roomy(c.i, o.numRecv, p)
    <3>1. o.numRecv \in Int BY <2>8 DEF Locked
    <3>2. QED BY <1>5, <2>9, <3>1
  <2>14. Agree(c.i, o, p)
    <3> HIDE DEF c, m, p, q
    <3>1. QED BY <1>2, <1>3, <2>7, <2>8, <2>9, <2>10, <2>11, <2>12, <2>13, AgreeOne
  <2>15. ~o.err BY <2>14 DEF Agree
  <2>16. QED BY <1>1, <1>2, <1>3, <2>8, <2>14, <2>15, AppliedSpoken
<1>11. QED BY <1>9, <1>10

-----------------------------------------------------------------------------
(* SETTINGS that the peer has acknowledged.                                  *)

\* The window of every stream that its id finds moves by the same amount.
Shift(st, d) == [st EXCEPT !.flow = DecRecvWindow(@, -d)]
Shifted(m, d) == [k \in Slab(m) |-> IF Current(m, k) THEN Shift(m.store[k], d) ELSE m.store[k]]
Shifts(m, val) == [m EXCEPT !.initWindow = val, !.local = NoId, !.store = Shifted(m, val - m.initWindow)]
\* Both windows of an entry are shifted.
LEMMA ShiftIs ==
  ASSUME NEW a \in Streams, NEW d \in Int
  PROVE  LET b == Shift(a, d)
         IN  /\ b \in Streams /\ b.flow.window = a.flow.window + d /\ b.flow.available = a.flow.available + d
             /\ b.state = a.state /\ b.counted = a.counted /\ b.handles = a.handles /\ b.inFlight = a.inFlight
             /\ b.events = a.events /\ b.out = a.out /\ b.promises = a.promises
<1> DEFINE b == Shift(a, d)
           f == DecRecvWindow(a.flow, -d)
<1>1. a.flow \in Flows /\ a.flow.window \in Int /\ a.flow.available \in Int BY DEF Streams, Flows
<1>2. f \in Flows /\ f.window = a.flow.window + d /\ f.available = a.flow.available + d
  BY <1>1 DEF DecRecvWindow, Flow, Flows
<1>3. b = [a EXCEPT !.flow = f] BY DEF Shift
<1> HIDE DEF b, f
<1>4. b \in Streams BY <1>2, <1>3 DEF Streams
<1>5. /\ b.flow = f /\ b.state = a.state /\ b.counted = a.counted /\ b.handles = a.handles /\ b.inFlight = a.inFlight
      /\ b.events = a.events /\ b.out = a.out /\ b.promises = a.promises
  BY <1>3 DEF Streams
<1>6. QED BY <1>2, <1>4, <1>5 DEF b
\* An entry is fine with the shifted window.
LEMMA ShiftFine ==
  ASSUME NEW c \in Contexts, NEW init \in Int, NEW val \in Int, NEW k, NEW a \in Streams, NEW w, Fine(c, init, k, a, w),
         0 \notin DataSizes[c.i]
  PROVE  LET b == IF "current" \in w THEN Shift(a, val - init) ELSE a
         IN  Fine(c, val, k, b, w) /\ (Settled(c, a, w) => Settled(c, b, w))
<1>1. CASE "current" \in w
  <2> DEFINE d == val - init
             b == Shift(a, d)
  <2>1. d \in Int OBVIOUS
  <2>2. /\ a.flow.window \in Int /\ a.flow.available \in Int /\ a.inFlight \in Int BY DEF Streams, Flows
  <2> HIDE DEF d
  <2>3. /\ b \in Streams /\ b.flow.window = a.flow.window + d /\ b.flow.available = a.flow.available + d
        /\ b.state = a.state /\ b.counted = a.counted /\ b.handles = a.handles /\ b.inFlight = a.inFlight
        /\ b.events = a.events /\ b.out = a.out /\ b.promises = a.promises
    BY <2>1, ShiftIs
  <2> HIDE DEF b
  <2>4. b.flow.window <= val
    <3>1. a.flow.window <= init BY <1>1 DEF Fine
    <3>2. QED BY <2>2, <2>3, <3>1 DEF d
  <2>5. Live(b) => b.flow.available + b.inFlight = val
    <3>1. Live(b) => a.flow.available + a.inFlight = init BY <2>3 DEF Fine, Live
    <3>2. QED BY <2>2, <2>3, <3>1 DEF d
  <2>6. Awaits(b, 1) = Awaits(a, 1) /\ Awaits(b, 2) = Awaits(a, 2) /\ HeadersFirst(b) = HeadersFirst(a)
    BY <2>3 DEF Awaits, HeadersFirst
  <2>7. Fine(c, val, k, b, w) BY <1>1, <2>3, <2>4, <2>5, <2>6 DEF Fine, Live
  <2>8. Settled(c, a, w) => Settled(c, b, w) BY <2>3 DEF Settled, Ready, Owned, Keeps, Released
  <2>9. QED BY <1>1, <2>7, <2>8 DEF b, d
<1>2. CASE "current" \notin w
  <2>1. ~Live(a) BY <1>2 DEF Fine
  <2>2. Fine(c, val, k, a, w) BY <1>2, <2>1 DEF Fine
  <2>3. QED BY <1>2, <2>2
<1>3. QED BY <1>1, <1>2
\* All entries that an id finds are shifted.
LEMMA ShiftsIs ==
  ASSUME NEW c \in Contexts, NEW m \in Locked(c.i), Linking(m), NEW val \in 0 .. MaxWindow
  PROVE  LET n == Shifts(m, val)
         IN  /\ n \in Locked(c.i) /\ Slab(n) = Slab(m)
             /\ \A k \in Slab(m) : /\ Marks(n, k) = Marks(m, k)
                                   /\ n.store[k] = IF "current" \in Marks(m, k)
                                                   THEN Shift(m.store[k], val - m.initWindow) ELSE m.store[k]
                                   /\ n.store[k].counted = m.store[k].counted /\ n.store[k].inFlight = m.store[k].inFlight
                                   /\ n.store[k].promises = m.store[k].promises
             /\ n.accept = m.accept /\ n.updates = m.updates /\ n.expiring = m.expiring /\ n.sending = m.sending
             /\ n.ids = m.ids /\ n.initWindow = val /\ n.nextId = m.nextId /\ n.local = NoId
             /\ n.numReset = m.numReset /\ n.lost = m.lost /\ n.numRecv = m.numRecv /\ n.flow = m.flow
             /\ n.inFlight = m.inFlight /\ n.err = m.err /\ n.refused = m.refused
<1> DEFINE d == val - m.initWindow
           f == Shifted(m, d)
           n == Shifts(m, val)
<1>1. m.initWindow \in 0 .. MaxWindow BY DEF Locked
<1>2. d \in Int BY <1>1, MaxWindowAssumption
<1>3. DOMAIN f = Slab(m) BY DEF Shifted
<1>4. \A k \in Slab(m) : f[k] = IF Current(m, k) THEN Shift(m.store[k], d) ELSE m.store[k] BY DEF Shifted
<1> HIDE DEF f, d
<1>5. \A k \in Slab(m) : /\ f[k] \in Streams /\ f[k].counted = m.store[k].counted /\ f[k].inFlight = m.store[k].inFlight
                         /\ f[k].promises = m.store[k].promises
  <2>1. ASSUME NEW k \in Slab(m)
        PROVE  /\ f[k] \in Streams /\ f[k].counted = m.store[k].counted /\ f[k].inFlight = m.store[k].inFlight
               /\ f[k].promises = m.store[k].promises
    <3>1. m.store[k] \in Streams BY StreamTyped
    <3>2. QED BY <1>2, <1>4, <3>1, ShiftIs
  <2>2. QED BY <2>1
<1>6. f \in Stores(c.i)
  <2>1. m.store \in Stores(c.i) BY DEF Locked
  <2>2. Slab(m) \subseteq KeysOf(c.i) BY <2>1, StoreTyped DEF Slab
  <2>3. f = [k \in Slab(m) |-> f[k]] BY DEF f, Shifted
  <2>4. f \in [Slab(m) -> Streams] BY <1>5, <2>3
  <2>5. QED BY <1>3, <2>2, <2>4, StoreTyped
<1>7. n = [m EXCEPT !.initWindow = val, !.local = NoId, !.store = f] BY DEF Shifts, f, d
<1> HIDE DEF n
<1>8. n \in Locked(c.i) BY <1>6, <1>7 DEF Locked
<1>9. /\ n.store = f /\ n.accept = m.accept /\ n.updates = m.updates /\ n.expiring = m.expiring /\ n.sending = m.sending
      /\ n.ids = m.ids /\ n.initWindow = val /\ n.nextId = m.nextId /\ n.local = NoId
      /\ n.numReset = m.numReset /\ n.lost = m.lost /\ n.numRecv = m.numRecv /\ n.flow = m.flow
      /\ n.inFlight = m.inFlight /\ n.err = m.err /\ n.refused = m.refused
  BY <1>7 DEF Locked
<1>10. Slab(n) = Slab(m) BY <1>3, <1>9 DEF Slab
<1>11. \A k \in Slab(m) : Marks(n, k) = Marks(m, k)
  <2>1. ASSUME NEW k \in Slab(m) PROVE Marks(n, k) = Marks(m, k)
    <3>1. Current(n, k) = Current(m, k) /\ Alone(n, k) = Alone(m, k) BY <1>9, <1>10 DEF Current, Alone
    <3>2. Pledged(n, k) = Pledged(m, k)
      <4>1. \A p \in Slab(m) : n.store[p].promises = m.store[p].promises BY <1>5, <1>9
      <4>2. QED BY <1>10, <4>1 DEF Pledged
    <3>3. QED BY <1>9, <3>1, <3>2 DEF Marks
  <2>2. QED BY <2>1
<1>12. \A k \in Slab(m) : n.store[k] = IF "current" \in Marks(m, k) THEN Shift(m.store[k], d) ELSE m.store[k]
  BY <1>4, <1>9, MarksAre
<1>13. QED BY <1>5, <1>8, <1>9, <1>10, <1>11, <1>12 DEF n, d

\* The record stays sound.
LEMMA ShiftsSound ==
  ASSUME NEW c \in Contexts, NEW m, Sound(c, m, {}, 0), NEW val \in 0 .. MaxWindow, 0 \notin DataSizes[c.i]
  PROVE  Sound(c, Shifts(m, val), {}, 0)
<1> DEFINE n == Shifts(m, val)
           init == m.initWindow
           b(k) == IF "current" \in Marks(m, k) THEN Shift(m.store[k], val - init) ELSE m.store[k]
<1>1. m \in Locked(c.i) /\ Linking(m) BY DEF Sound
<1>2. /\ n \in Locked(c.i) /\ Slab(n) = Slab(m)
      /\ \A k \in Slab(m) : /\ Marks(n, k) = Marks(m, k)
                            /\ n.store[k] = b(k)
                            /\ n.store[k].counted = m.store[k].counted /\ n.store[k].inFlight = m.store[k].inFlight
                            /\ n.store[k].promises = m.store[k].promises
      /\ n.accept = m.accept /\ n.updates = m.updates /\ n.expiring = m.expiring /\ n.sending = m.sending
      /\ n.ids = m.ids /\ n.initWindow = val /\ n.nextId = m.nextId /\ n.local = NoId
      /\ n.numReset = m.numReset /\ n.lost = m.lost /\ n.numRecv = m.numRecv /\ n.flow = m.flow
      /\ n.inFlight = m.inFlight
  BY <1>1, ShiftsIs
<1> HIDE DEF n
<1>3. \A k \in Slab(m) : Fine(c, n.initWindow, k, n.store[k], Marks(n, k)) /\ Settled(c, n.store[k], Marks(n, k))
  <2>1. ASSUME NEW k \in Slab(m)
        PROVE  Fine(c, n.initWindow, k, n.store[k], Marks(n, k)) /\ Settled(c, n.store[k], Marks(n, k))
    <3> DEFINE a == m.store[k]
               w == Marks(m, k)
    <3>1. a \in Streams /\ Fine(c, init, k, a, w) /\ Settled(c, a, w) BY <1>1, StreamTyped DEF Sound
    <3>2. init \in Int /\ val \in Int BY <1>1, MaxWindowAssumption DEF Locked
    <3>3. n.store[k] = b(k) /\ Marks(n, k) = w /\ n.initWindow = val BY <1>2
    <3> HIDE DEF a, w, init
    <3>4. LET x == IF "current" \in w THEN Shift(a, val - init) ELSE a
          IN  Fine(c, val, k, x, w) /\ (Settled(c, a, w) => Settled(c, x, w))
      BY <3>1, <3>2, ShiftFine
    <3>5. QED BY <3>1, <3>3, <3>4 DEF a, w, init
  <2>2. QED BY <2>1
<1>4. Queues(n) BY <1>2 DEF Sound, Queues
<1>5. Linking(n) BY <1>2 DEF Sound, Linking
<1>6. Slots(c, n)
  <2>1. Counted(n) = Counted(m) BY <1>2 DEF Counted
  <2>2. QED BY <1>2, <2>1 DEF Sound, Slots
<1>7. Window(c, n, 0)
  <2>1. InFlight(n) = InFlight(m) BY <1>2 DEF InFlight
  <2>2. QED BY <1>2, <2>1 DEF Sound, Window
<1>8. QED BY <1>2, <1>3, <1>4, <1>5, <1>6, <1>7 DEF Sound, n
\* apply_local_settings does that.
LEMMA AckedForm ==
  ASSUME NEW c \in Contexts, NEW m, Sound(c, m, {}, 0), NEW val \in 0 .. MaxWindow
  PROVE  ApplyLocalSettings(m, val) = Shifts(m, val)
<1> DEFINE d == val - m.initWindow
<1>1. /\ m \in Locked(c.i) /\ Linking(m) /\ m.initWindow \in 0 .. MaxWindow BY DEF Sound, Locked
<1>2. \A k \in Slab(m) : k \in Range(m.ids) <=> Current(m, k)
  <2>1. ASSUME NEW k \in Slab(m), k \in Range(m.ids) PROVE Current(m, k)
    <3>1. PICK s \in DOMAIN m.ids : k = m.ids[s] BY <2>1 DEF Range
    <3>2. IdOf(k) = s BY <1>1, <3>1 DEF Linking
    <3>3. QED BY <3>1, <3>2 DEF Current
  <2>2. QED BY <2>1 DEF Current, Range
<1>3. \A k \in Range(m.ids) : CanIncWindow(m.store[k].flow, d)
  <2>1. ASSUME NEW k \in Range(m.ids) PROVE CanIncWindow(m.store[k].flow, d)
    <3>1. k \in Slab(m) BY <1>1, <2>1 DEF Range, Linking
    <3>2. "current" \in Marks(m, k) BY <1>2, <2>1, <3>1, MarksAre
    <3>3. Fine(c, m.initWindow, k, m.store[k], Marks(m, k)) /\ m.store[k] \in Streams BY <1>1, <3>1, StreamTyped DEF Sound
    <3>4. m.store[k].flow.window <= m.initWindow /\ m.store[k].flow.window \in Int BY <3>2, <3>3 DEF Fine, Streams, Flows
    <3>5. QED BY <1>1, <3>4, MaxWindowAssumption DEF CanIncWindow
  <2>2. QED BY <2>1
<1>4. Shifted(m, d) = [k \in DOMAIN m.store |-> IF k \in Range(m.ids) THEN Shift(m.store[k], d) ELSE m.store[k]]
  BY <1>2 DEF Shifted, Slab
<1> DEFINE fits == \A k \in Range(m.ids) : CanIncWindow(m.store[k].flow, val - m.initWindow)
           x == Check(m, fits, "inc_window: initial window")
<1>5. x = m BY <1>3 DEF Check
<1>6. ApplyLocalSettings(m, val) =
        [x EXCEPT !.initWindow = val, !.local = NoId,
                  !.store = [k \in DOMAIN x.store |-> IF k \in Range(m.ids) THEN Shift(x.store[k], d) ELSE x.store[k]]]
  BY DEF ApplyLocalSettings, Shift
<1> HIDE DEF x, d
<1>7. ApplyLocalSettings(m, val) = [m EXCEPT !.initWindow = val, !.local = NoId, !.store = Shifted(m, d)]
  BY <1>4, <1>5, <1>6
<1>8. QED BY <1>7 DEF Shifts, d
\* What the peer knows then.
LEMMA ToldShift ==
  ASSUME NEW i, NEW init \in Int, NEW val \in Int, NEW p, NEW a \in Streams, Told(i, init, p, a), p.credit \in Int,
         NEW r, r.said = p.said, r.credit = p.credit + val - init
  PROVE  Told(i, val, r, Shift(a, val - init))
<1> DEFINE d == val - init
           b == Shift(a, d)
<1>1. d \in Int /\ a.flow.window \in Int BY DEF Streams, Flows
<1>2. val = init + d /\ r.credit = p.credit + d OBVIOUS
<1> HIDE DEF d
<1>3. b.state = a.state /\ b.flow.window = a.flow.window + d BY <1>1, ShiftIs
<1> HIDE DEF b
<1>4. /\ a.flow.window = p.credit => b.flow.window = r.credit
      /\ a.flow.window = init => b.flow.window = val
  BY <1>1, <1>2, <1>3
<1>5. Told(i, val, r, b) BY <1>3, <1>4 DEF Told
<1>6. QED BY <1>5 DEF b, d
\* The ACK of this end's SETTINGS.
LEMMA SettingsAckStep ==
  ASSUME IInv, Careful, SettingsAck
  PROVE  IInv'
<1> DEFINE c == Context
           m == me
           q == peer
           p == peer'
           val == me.local
           init == me.initWindow
           n == Shifts(m, val)
<1>1. /\ end = "open" /\ m.refused = NoId /\ val # NoId /\ Applied(ApplyLocalSettings(m, val))
      /\ p = [q EXCEPT !.stream = [s \in Ids |-> [q.stream[s] EXCEPT !.credit = @ + val - init]]]
  BY DEF SettingsAck, Reads, TaskRuns
<1>2. /\ c \in Contexts /\ c.i = instance /\ Sound(c, m, {}, 0) /\ instance \in Instances /\ m \in Locked(c.i)
      /\ Agree(c.i, m, q) /\ q \in Peer /\ Ids = IdsOf(c.i) /\ Linking(m)
  BY <1>1, Before DEF Sound
<1>3. init \in 0 .. MaxWindow /\ val \in 0 .. MaxWindow
  <2>1. val \in Windows \cup {NoId} /\ init \in 0 .. MaxWindow BY <1>2 DEF Locked
  <2>2. QED BY <1>1, <2>1, RecvAssumption
<1>4. 0 \notin DataSizes[c.i]
  <2>1. MaxChanges[c.i] = 0 => m.local = NoId BY <1>2 DEF Sound, Window
  <2>2. 0 \in DataSizes[c.i] => MaxChanges[c.i] = 0 BY <1>2 DEF Careful, CarefulIn
  <2>3. QED BY <1>1, <2>1, <2>2
<1>5. init \in Int /\ val \in Int BY <1>3, MaxWindowAssumption
<1>6. Sound(c, n, {}, 0) /\ Applied(n)
  <2> DEFINE zero == 0
  <2>1. ApplyLocalSettings(m, val) = n
    <3> HIDE DEF c, m, val
    <3>1. QED BY <1>2, <1>3, AckedForm
  <2>2. Sound(c, n, {}, 0)
    <3> HIDE DEF c, m, val
    <3>1. QED BY <1>2, <1>3, <1>4, ShiftsSound
  <2> HIDE DEF n
  <2>3. QED BY <1>1, <2>1, <2>2
<1>7. /\ n \in Locked(c.i) /\ Slab(n) = Slab(m)
      /\ \A k \in Slab(m) : n.store[k] = IF "current" \in Marks(m, k) THEN Shift(m.store[k], val - init) ELSE m.store[k]
      /\ n.ids = m.ids /\ n.initWindow = val /\ n.nextId = m.nextId /\ n.numRecv = m.numRecv /\ n.flow = m.flow
      /\ n.err = m.err /\ n.refused = m.refused
  <2> HIDE DEF c, val
  <2>1. QED BY <1>2, <1>3, ShiftsIs
<1> HIDE DEF n
<1>8. q.stream \in [Ids -> Knows] /\ q.conn \in Int /\ DOMAIN q = {"conn", "stream"}
  BY <1>2 DEF Peer, Knows
<1>9. /\ p.conn = q.conn /\ p.stream \in [Ids -> Knows]
      /\ \A s \in Ids : p.stream[s].said = q.stream[s].said /\ p.stream[s].credit = q.stream[s].credit + val - init
  <2> DEFINE f == [s \in Ids |-> [q.stream[s] EXCEPT !.credit = @ + val - init]]
  <2>1. p.stream = f /\ p.conn = q.conn BY <1>1, <1>2 DEF Peer
  <2>2. \A s \in Ids : f[s] \in Knows /\ f[s].said = q.stream[s].said /\ f[s].credit = q.stream[s].credit + val - init
    <3>1. ASSUME NEW s \in Ids
          PROVE  f[s] \in Knows /\ f[s].said = q.stream[s].said /\ f[s].credit = q.stream[s].credit + val - init
      <4> DEFINE a == q.stream[s]
                 x == a.credit + val - init
                 b == [a EXCEPT !.credit = x]
      <4>1. a \in Knows BY <1>8, <3>1
      <4>2. x \in Int BY <1>5, <4>1 DEF Knows
      <4>3. f[s] = b OBVIOUS
      <4> HIDE DEF a, x, f
      <4>4. b \in Knows /\ b.said = a.said /\ b.credit = x BY <4>1, <4>2 DEF Knows
      <4>5. QED BY <4>3, <4>4 DEF a, x
    <3>2. QED BY <3>1
  <2>3. f \in [Ids -> Knows]
    <3>1. DOMAIN f = Ids OBVIOUS
    <3>2. f = [s \in Ids |-> f[s]] OBVIOUS
    <3> HIDE DEF f
    <3>3. QED BY <2>2, <3>1, <3>2
  <2> HIDE DEF f
  <2>4. QED BY <2>1, <2>2, <2>3
<1>10. p \in Peer'
  <2>1. Ids' = Ids BY <1>6 DEF Applied, Ids
  <2>2. p = [conn |-> p.conn, stream |-> p.stream] BY <1>1, <1>2 DEF Peer
  <2> HIDE DEF p
  <2>3. p \in [conn : Int, stream : [Ids -> Knows]] BY <1>8, <1>9, <2>2
  <2>4. [conn : Int, stream : [Ids -> Knows]] = Peer BY DEF Peer, Knows
  <2>5. QED BY <2>1, <2>3, <2>4 DEF Peer
<1>11. Agree(c.i, n, p)
  <2>1. ~n.err /\ n.flow.window = p.conn BY <1>2, <1>7, <1>9 DEF Agree
  <2>2. Roomy(c.i, n.numRecv, p)
    <3>1. PeerIds[c.i] \subseteq Ids BY <1>2 DEF IdsOf
    <3>2. Pending(c.i, p) = Pending(c.i, q) BY <1>9, <3>1 DEF Pending
    <3>3. QED BY <1>2, <1>7, <3>2 DEF Agree, Roomy
  <2>3. Ordered(c.i, n.nextId, p)
    <3>1. Ordered(c.i, m.nextId, q) BY <1>2 DEF Agree
    <3>2. \A s \in IdsOf(c.i) : p.stream[s].said = q.stream[s].said BY <1>2, <1>9
    <3>3. PeerIds[c.i] \subseteq IdsOf(c.i) BY DEF IdsOf
    <3> HIDE DEF p, q, c, m
    <3>4. QED BY <1>7, <3>1, <3>2, <3>3 DEF Ordered
  <2>4. ASSUME NEW t \in DOMAIN n.ids PROVE Told(c.i, n.initWindow, p.stream[t], n.store[n.ids[t]])
    <3> DEFINE k == m.ids[t]
               a == m.store[k]
               r == p.stream[t]
               x == q.stream[t]
    <3>1. t \in DOMAIN m.ids /\ n.ids[t] = k BY <1>7, <2>4
    <3>2. k \in Slab(m) /\ Current(m, k) BY <1>2, <3>1 DEF Linking, Current
    <3>3. t \in Ids BY <1>2, <3>1 DEF Locked, Index
    <3>4. "current" \in Marks(m, k) BY <3>2, MarksAre
    <3>5. n.store[k] = Shift(a, val - init) BY <1>7, <3>2, <3>4
    <3>6. a \in Streams BY <1>2, <3>2, StreamTyped
    <3>7. Told(c.i, init, x, a) BY <1>2, <3>1 DEF Agree
    <3>8. x.credit \in Int BY <1>8, <3>3 DEF Knows
    <3>9. r.said = x.said /\ r.credit = x.credit + val - init BY <1>9, <3>3
    <3> HIDE DEF k, a, r, x, val, init, c
    <3>10. Told(c.i, val, r, Shift(a, val - init)) BY <1>5, <3>6, <3>7, <3>8, <3>9, ToldShift
    <3>11. QED BY <1>7, <3>1, <3>5, <3>10 DEF r
  <2>5. n.refused = NoId BY <1>1, <1>7
  <2>6. QED BY <2>1, <2>2, <2>3, <2>4, <2>5 DEF Agree
<1>12. ~n.err BY <1>11 DEF Agree
<1>13. p \in Peer
  <2>1. Ids' = Ids BY <1>6 DEF Applied, Ids
  <2>2. QED BY <1>10, <2>1 DEF Peer
<1>14. QED BY <1>1, <1>2, <1>6, <1>11, <1>12, <1>13, AppliedSpoken

-----------------------------------------------------------------------------
(* The last handle of a stream is dropped.                                   *)

\* maybe_cancel: nobody reads the stream s any more, whose handles are gone.
Cancels(c, m, n, s, X, loose) ==
  /\ Sound(c, n, X \cup {s}, loose) /\ Steady(c, m, n, {}) /\ s \in Slab(n) /\ IsClosed(n.store[s].state)
  /\ n.store[s].promises = m.store[s].promises /\ n.store[s].handles = m.store[s].handles
  /\ n.store[s].inFlight = m.store[s].inFlight
  /\ \A x \in {"accept", "pledged"} : x \in Marks(n, s) <=> x \in Marks(m, s)
  /\ Queued(m.expiring, s) => Queued(n.expiring, s)
  /\ \A k \in Slab(m) : Queued(m.sending, k) => k \in Slab(n) /\ Queued(n.sending, k)
  /\ \A k \in Slab(n) : k # s => /\ k \in Slab(m) /\ SameBut(m.store[k], n.store[k])
                                 /\ Queued(n.expiring, k) => Queued(m.expiring, k)
  /\ \A k \in Slab(m) \ Slab(n) : Queued(m.expiring, k)
  /\ IF IsClosed(m.store[s].state) THEN n = m ELSE Queued(n.sending, s)
\* maybe_cancel resets a stream without handles.
LEMMA CancelSound ==
  ASSUME NEW c \in Contexts, NEW m, NEW X, NEW loose \in Int, Sound(c, m, X, loose), NEW s \in Slab(m),
         m.store[s].handles = {}, \A k \in X : Queued(m.expiring, k) => k = s \/ Queued(m.sending, k)
  PROVE  Cancels(c, m, MaybeCancel(m, s), s, X, loose)
<1> DEFINE n == MaybeCancel(m, s)
           Y == X \cup {s}
<1>1. m \in Locked(c.i) /\ Linking(m) BY DEF Sound
<1>2. CASE IsClosed(m.store[s].state)
  <2>1. n = m BY <1>2 DEF MaybeCancel
  <2>2. X \subseteq Y OBVIOUS
  <2>3. Sound(c, m, Y, loose)
    <3> HIDE DEF Y
    <3>1. QED BY <2>2, SoundMore
  <2> DEFINE none == {}
  <2>4. Steady(c, m, m, none)
    <3> HIDE DEF none
    <3>1. QED BY <1>1, SteadySelf
  <2>5. \A k \in Slab(m) : SameBut(m.store[k], m.store[k]) BY DEF SameBut
  <2> HIDE DEF n, Y
  <2>6. QED BY <1>2, <2>1, <2>3, <2>4, <2>5 DEF Cancels, n, Y
<1>3. CASE ~IsClosed(m.store[s].state)
  <2> DEFINE r == [m.store[s] EXCEPT !.state = Closed("Scheduled")]
             n1 == ScheduleImplicitReset(m, s)
             P == SendQueue
             yes == TRUE
  <2>1. n = EnqueueResetExpiration(n1, s) BY <1>3 DEF MaybeCancel
  <2>2. n1 = Put(m, s, r, P, yes) /\ r \in Streams /\ Shut(m.store[s], r) /\ r.state = Closed("Scheduled")
    BY <1>1, <1>3, ImplicitResetEnds
  <2>3. /\ r.promises = m.store[s].promises /\ r.handles = m.store[s].handles /\ r.inFlight = m.store[s].inFlight
    BY <1>1, StreamTyped DEF Streams
  <2>4. P \subseteq {"sending"} /\ yes \in BOOLEAN /\ P = {"sending"} BY DEF SendQueue
  <2> HIDE DEF P, yes, r
  <2>5. PutTo(c, m, Put(m, s, r, P, yes), s, r, P, X, loose) /\ IsClosed(r.state)
        /\ (IsLocalReset(r.state) => Follows(c, m.store[s], r))
    BY <2>2, <2>4, ShutSound
  <2>6. PutTo(c, m, n1, s, r, P, X, loose) BY <2>2, <2>5
  <2> HIDE DEF n1
  <2>7. IsLocalReset(r.state) BY <2>2 DEF IsLocalReset
  <2>8. /\ Sound(c, n1, Y, loose) /\ Slab(n1) = Slab(m) /\ n1.store[s] = r /\ Steady(c, m, n1, {})
        /\ n1.expiring = m.expiring /\ Marks(n1, s) = Marks(m, s) \cup {"sending"}
        /\ \A k \in Slab(m) : k # s => n1.store[k] = m.store[k] /\ Marks(n1, k) = Marks(m, k)
    BY <2>4, <2>5, <2>6, <2>7 DEF PutTo
  <2>9. \A k \in Slab(m) : Queued(m.sending, k) => Queued(n1.sending, k)
    <3>1. ASSUME NEW k \in Slab(m), Queued(m.sending, k) PROVE Queued(n1.sending, k)
      <4>1. "sending" \in Marks(m, k) BY <3>1, MarksAre
      <4>2. "sending" \in Marks(n1, k) BY <2>8, <4>1
      <4>3. QED BY <4>2, MarksAre
    <3>2. QED BY <3>1
  <2>10. Queued(n1.sending, s)
    <3>1. "sending" \in Marks(n1, s) BY <2>8
    <3>2. QED BY <3>1, MarksAre
  <2>11. \A k \in Y : Queued(n1.expiring, k) => k = s \/ Queued(n1.sending, k)
    <3>1. ASSUME NEW k \in Y, Queued(n1.expiring, k), k # s PROVE Queued(n1.sending, k)
      <4>1. k \in X /\ Queued(m.sending, k) BY <2>8, <3>1
      <4>2. k \in Slab(m)
        <5>1. IsQueue(m.sending, Slab(m)) BY DEF Sound, Queues
        <5>2. QED BY <4>1, <5>1, QueuedIn
      <4>3. QED BY <2>9, <4>1, <4>2
    <3>2. QED BY <3>1
  <2>12. /\ Sound(c, n, Y \cup {s}, loose) /\ Evicts(n1, n, s) /\ Steady(c, n1, n, {})
         /\ s \in Slab(n) /\ n.store[s] = n1.store[s]
         /\ Queued(n1.expiring, s) => Queued(n.expiring, s)
    <3> HIDE DEF n, Y
    <3>1. QED BY <2>1, <2>8, <2>11, EnqueueReady
  <2>13. Y \cup {s} = Y OBVIOUS
  <2> HIDE DEF n, Y
  <2>14. Sound(c, n, Y, loose) /\ n1 \in Locked(c.i) /\ n \in Locked(c.i) BY <2>8, <2>12, <2>13 DEF Sound
  <2>15. Steady(c, m, n, {}) BY <1>1, <2>8, <2>12, <2>14, SteadyTwice
  <2>16. \A k \in Slab(n1) : Queued(n1.sending, k) => k \in Slab(n) /\ Queued(n.sending, k)
    BY <2>12 DEF Evicts
  <2>17. \A k \in Slab(n) : k # s => /\ k \in Slab(n1) /\ SameBut(n1.store[k], n.store[k])
                                     /\ Queued(n.expiring, k) => Queued(n1.expiring, k)
    BY <2>12, MarksAre DEF Evicts
  <2>18. \A k \in Slab(n1) \ Slab(n) : Queued(n1.expiring, k) BY <2>12 DEF Evicts
  <2>19. Queued(n.sending, s) BY <2>8, <2>10, <2>16
  <2>20. /\ \A k \in Slab(m) : Queued(m.sending, k) => k \in Slab(n) /\ Queued(n.sending, k)
         /\ \A k \in Slab(n) : k # s => /\ k \in Slab(m) /\ SameBut(m.store[k], n.store[k])
                                        /\ Queued(n.expiring, k) => Queued(m.expiring, k)
         /\ \A k \in Slab(m) \ Slab(n) : Queued(m.expiring, k)
    BY <2>8, <2>9, <2>16, <2>17, <2>18
  <2>23. \A x \in {"accept", "pledged"} : x \in Marks(n, s) <=> x \in Marks(m, s)
    <3>1. Marks(n, s) \cap Firm = Marks(n1, s) \cap Firm BY <2>12 DEF Evicts
    <3>2. \A x \in {"accept", "pledged"} : x \in Firm /\ x # "sending" BY DEF Firm
    <3>3. QED BY <2>8, <3>1, <3>2
  <2>21. IsClosed(n.store[s].state) BY <2>5, <2>8, <2>12
  <2>22. QED BY <1>3, <2>3, <2>8, <2>12, <2>14, <2>15, <2>19, <2>20, <2>21, <2>23 DEF Cancels, n, Y
<1>4. QED BY <1>2, <1>3

\* An entry that has ended, of which nothing is left to be claimed.
LEMMA ReadyNow ==
  ASSUME NEW c, NEW st, NEW w, IsClosed(st.state), Strict(c) => st.inFlight = 0, st.promises = <<>>
  PROVE  Ready(c, st, w)
<1>1. st.state # Idle BY DEF IsClosed, Idle
<1>2. QED BY <1>1 DEF Ready, Owned, Keeps
\* release_closed_capacity: the bytes that nobody will read are given back.
Drains(c, m, n, s, X) ==
  /\ Sound(c, n, X \cup {s}, 0) /\ Steady(c, m, n, {}) /\ Slab(n) = Slab(m)
  /\ n.store[s].state = m.store[s].state /\ n.store[s].promises = m.store[s].promises
  /\ n.store[s].handles = m.store[s].handles /\ n.store[s].inFlight = 0
  /\ \A k \in Slab(m) : Marks(n, k) = Marks(m, k)
  /\ n.expiring = m.expiring
\* What is in flight leaves with the events.
Emptied(st) == [st EXCEPT !.inFlight = 0, !.events = <<>>]
\* A closed entry without its bytes and events.
LEMMA EmptiedFine ==
  ASSUME NEW c \in Contexts, NEW init, NEW k, NEW st \in Streams, NEW w, Fine(c, init, k, st, w), IsClosed(st.state),
         w \cap {"accept", "pledged"} = {}
  PROVE  LET r == Emptied(st)
         IN  /\ r \in Streams /\ Fine(c, init, k, r, w) /\ Follows(c, st, r)
             /\ r.state = st.state /\ r.promises = st.promises /\ r.handles = st.handles /\ r.inFlight = 0
             /\ r.counted = st.counted
<1> DEFINE r == Emptied(st)
<1>1. /\ r \in Streams /\ r.state = st.state /\ r.promises = st.promises /\ r.handles = st.handles /\ r.inFlight = 0
      /\ r.counted = st.counted /\ r.flow = st.flow /\ r.out = st.out /\ r.events = <<>>
  <2> DEFINE e == <<>>
             z == 0
  <2>1. e \in Seq(Events) /\ z \in Nat OBVIOUS
  <2>2. r = [st EXCEPT !.inFlight = z, !.events = e] BY DEF Emptied
  <2> HIDE DEF r, e, z
  <2>3. r \in Streams BY <2>1, <2>2 DEF Streams
  <2>4. /\ r.state = st.state /\ r.promises = st.promises /\ r.handles = st.handles /\ r.inFlight = z
        /\ r.counted = st.counted /\ r.flow = st.flow /\ r.out = st.out /\ r.events = e
    BY <2>2 DEF Streams
  <2>5. QED BY <2>3, <2>4 DEF z, e
<1> HIDE DEF r
<1>2. ~Live(r) BY <1>1 DEF Live
<1>3. ~IsRecvStreaming(r.state)
  BY <1>1 DEF IsRecvStreaming, IsClosed, Open, HalfClosedLocal
<1>4. Awaits(r, 1)
  <2>1. Len(r.events) < 1 BY <1>1
  <2>2. QED BY <1>3, <2>1 DEF Awaits
<1>5. Fine(c, init, k, r, w) BY <1>1, <1>2, <1>4 DEF Fine
<1>6. Follows(c, st, r) BY <1>1 DEF Follows
<1>7. QED BY <1>1, <1>5, <1>6 DEF r
\* release_closed_capacity gives the bytes of a closed stream back.
LEMMA DrainSound ==
  ASSUME NEW c \in Contexts, NEW m, NEW X, Sound(c, m, X, 0), NEW s \in Slab(m),
         IsClosed(m.store[s].state), Marks(m, s) \cap {"accept", "pledged"} = {}
  PROVE  Drains(c, m, ReleaseClosedCapacity(m, s), s, X)
<1> DEFINE o == ReleaseClosedCapacity(m, s)
           st == m.store[s]
           n == st.inFlight
           Y == X \cup {s}
<1>1. m \in Locked(c.i) /\ Linking(m) /\ st \in Streams /\ n \in Nat /\ n <= m.inFlight /\ m.inFlight \in Int
  <2> DEFINE z == 0
  <2>1. z \in Nat /\ Sound(c, m, X, z) OBVIOUS
  <2> HIDE DEF z
  <2>2. m.inFlight \in Int /\ m.store[s].inFlight \in Nat /\ m.store[s].inFlight <= m.inFlight BY <2>1, BytesFit
  <2>3. m \in Locked(c.i) /\ Linking(m) BY DEF Sound
  <2>4. QED BY <2>2, <2>3, StreamTyped
<1>2. CASE n = 0
  <2>1. o = m BY <1>2 DEF ReleaseClosedCapacity
  <2> DEFINE none == {}
             z == 0
  <2>2. Steady(c, m, m, none)
    <3> HIDE DEF none
    <3>1. QED BY <1>1, SteadySelf
  <2>3. Sound(c, m, Y, 0)
    <3>1. X \subseteq Y /\ Sound(c, m, X, z) OBVIOUS
    <3> HIDE DEF Y, z
    <3>2. Sound(c, m, Y, z) BY <3>1, SoundMore
    <3>3. QED BY <3>2 DEF z
  <2> HIDE DEF o, Y
  <2>4. QED BY <1>2, <2>1, <2>2, <2>3 DEF Drains, Y, o
<1>3. CASE n # 0
  <2> DEFINE yes == TRUE
             x == ReleaseConnection(m, n, yes)
             f == AssignCapacity(m.flow, n)
             z == 0
             l == z - n
             r == Emptied(st)
  <2>1. z \in Int /\ yes \in BOOLEAN /\ Sound(c, m, X, z) /\ m.inFlight >= n BY <1>1
  <2>2. Moved(c, m, x, f, X, z - n)
    <3> HIDE DEF z, yes, n
    <3>1. QED BY <1>1, <2>1, ReleaseConnectionSound
  <2>3. Moved(c, m, x, f, X, l) /\ l \in Int
    <3>1. l \in Int BY <1>1, <2>1
    <3>2. Moved(c, m, x, f, X, l) BY <2>2
    <3> HIDE DEF l, x, f
    <3>3. QED BY <3>1, <3>2
  <2>4. f.window = m.flow.window
    <3>1. m.flow \in Flows BY <1>1 DEF Locked
    <3>2. QED BY <3>1 DEF AssignCapacity, Flows
  <2> HIDE DEF x, f, l
  <2>5. /\ Sound(c, x, X, l) /\ x.store = m.store /\ x.ids = m.ids /\ Slab(x) = Slab(m) /\ x.expiring = m.expiring
        /\ x.initWindow = m.initWindow
        /\ (\A k : Marks(x, k) = Marks(m, k)) /\ (\A S : Steady(c, m, x, S))
    BY <2>3, <2>4 DEF Moved
  <2>6. o = [x EXCEPT !.store[s].inFlight = 0, !.store[s].events = <<>>] BY <1>3 DEF ReleaseClosedCapacity, x, yes
  <2>7. x \in Locked(c.i) BY <2>5 DEF Sound
  <2>8. o = Sets(x, s, r)
    <3> DEFINE a == [st EXCEPT !.inFlight = 0]
               x1 == Sets(x, s, a)
    <3>1. x1 = [x EXCEPT !.store[s].inFlight = 0] BY <2>5 DEF Sets, Stored
    <3>2. o = [x1 EXCEPT !.store[s].events = <<>>] BY <2>6, <3>1
    <3>3. x1.store[s] = a
      <4> HIDE DEF a
      <4>1. QED BY <2>5, <2>7, StoredTwice
    <3>4. r = [a EXCEPT !.events = <<>>] BY DEF Emptied
    <3> HIDE DEF a, x1, r, o
    <3>5. o = Sets(x1, s, r) BY <3>2, <3>3, <3>4 DEF Sets, Stored
    <3>6. QED BY <2>5, <2>7, <3>5, StoredTwice DEF x1
  <2>9. /\ r \in Streams /\ Fine(c, x.initWindow, s, r, Marks(x, s)) /\ Follows(c, st, r)
        /\ r.state = st.state /\ r.promises = st.promises /\ r.handles = st.handles /\ r.inFlight = 0
        /\ r.counted = st.counted
    <3>1. Fine(c, m.initWindow, s, st, Marks(m, s)) BY DEF Sound
    <3> HIDE DEF r, st
    <3>2. /\ Emptied(st) \in Streams /\ Fine(c, m.initWindow, s, Emptied(st), Marks(m, s)) /\ Follows(c, st, Emptied(st))
          /\ Emptied(st).state = st.state /\ Emptied(st).promises = st.promises /\ Emptied(st).handles = st.handles
          /\ Emptied(st).inFlight = 0 /\ Emptied(st).counted = st.counted
      BY <1>1, <3>1, EmptiedFine DEF st
    <3>3. QED BY <2>5, <3>2 DEF r
  <2>10. PutTo(c, x, o, s, r, NoQueue, X, z)
    <3> DEFINE P == NoQueue
               w == x.woken
    <3>1. P \in SUBSET Pushable /\ Marks(x, s) \cup P = Marks(x, s) BY DEF NoQueue
    <3>2. w \in BOOLEAN BY <2>7 DEF Locked
    <3>3. z = l + (x.store[s].inFlight - r.inFlight) BY <1>1, <2>5, <2>9 DEF l
    <3>4. o = Put(x, s, r, NoQueue, w) BY <2>5, <2>7, <2>8, StorePuts
    <3>5. Fine(c, x.initWindow, s, r, Marks(x, s) \cup P) BY <2>9, <3>1
    <3>6. r.promises = x.store[s].promises /\ r.counted = x.store[s].counted BY <2>5, <2>9
    <3> HIDE DEF P, w, z, r, o
    <3>7. PutTo(c, x, Put(x, s, r, P, w), s, r, P, X, z) BY <2>3, <2>5, <2>9, <3>1, <3>2, <3>3, <3>5, <3>6, PutBytes
    <3>8. QED BY <3>4, <3>7 DEF P
  <2> HIDE DEF o, r
  <2>11. /\ Sound(c, o, Y, 0) /\ Slab(o) = Slab(x) /\ o.store[s] = r /\ Steady(c, x, o, {}) /\ o.expiring = x.expiring
         /\ \A k \in Slab(x) : k # s => Marks(o, k) = Marks(x, k)
         /\ Marks(o, s) = Marks(x, s) \cup NoQueue
    BY <2>5, <2>9, <2>10 DEF PutTo
  <2>12. o \in Locked(c.i) BY <2>11 DEF Sound
  <2>13. Steady(c, m, x, {}) BY <2>5
  <2>14. Steady(c, m, o, {}) BY <1>1, <2>7, <2>11, <2>12, <2>13, SteadyTwice
  <2>15. \A k \in Slab(m) : Marks(o, k) = Marks(m, k) BY <2>5, <2>11 DEF NoQueue
  <2> HIDE DEF Y, st
  <2>16. QED BY <2>5, <2>9, <2>11, <2>14, <2>15 DEF Drains, Y, o, st
<1>4. QED BY <1>2, <1>3


-----------------------------------------------------------------------------
(* A handle is dropped.                                                      *)

\* An entry with fewer handles.
Freed(st, h) == [st EXCEPT !.handles = h]

\* A handle fewer, nothing else.
LEMMA FreedFine ==
  ASSUME NEW c \in Contexts, NEW init, NEW k, NEW st \in Streams, NEW w, Fine(c, init, k, st, w), st.handles # {},
         NEW h, h \subseteq st.handles
  PROVE  LET r == Freed(st, h)
         IN  /\ r \in Streams /\ Fine(c, init, k, r, w) /\ Follows(c, st, r) /\ w \cap {"accept", "pledged"} = {}
             /\ r.state = st.state /\ r.promises = st.promises /\ r.counted = st.counted /\ r.inFlight = st.inFlight
             /\ r.handles = h
             /\ h # {} /\ Settled(c, st, w) => Ready(c, r, w)
<1> DEFINE r == Freed(st, h)
<1>1. /\ r \in Streams /\ r.state = st.state /\ r.promises = st.promises /\ r.counted = st.counted
      /\ r.inFlight = st.inFlight /\ r.handles = h /\ r.events = st.events /\ r.flow = st.flow /\ r.out = st.out
  <2>1. h \in SUBSET {"body", "emptied", "other"} BY DEF Streams
  <2>2. QED BY <2>1 DEF Streams, Freed
<1> HIDE DEF r
<1>2. "accept" \notin w /\ "pledged" \notin w BY DEF Fine
<1>3. \A n : Awaits(r, n) <=> Awaits(st, n) BY <1>1 DEF Awaits
<1>4. Live(r) <=> Live(st) BY <1>1 DEF Live
<1>5. Fine(c, init, k, r, w) BY <1>1, <1>2, <1>3, <1>4 DEF Fine
<1>6. Follows(c, st, r) BY <1>1 DEF Follows
<1>7. ASSUME h # {}, Settled(c, st, w) PROVE Ready(c, r, w)
  BY <1>1, <1>7 DEF Settled, Ready, Owned, Keeps
<1>8. QED BY <1>1, <1>2, <1>5, <1>6, <1>7 DEF r

\* It has other handles left.
Lessened(m, s, h) == Sets(m, s, Freed(m.store[s], h))

\* That is all, if there is another handle.
LEMMA FewerSound ==
  ASSUME NEW c \in Contexts, NEW m, Sound(c, m, {}, 0), NEW s \in Slab(m), NEW h, h # {}, h \subseteq m.store[s].handles
  PROVE  LET o == TransitionAfter(Lessened(m, s, h), s, Queued(m.expiring, s))
         IN  Sound(c, o, {}, 0) /\ Steady(c, m, o, {})
<1> DEFINE st == m.store[s]
           r == Freed(st, h)
           n == Lessened(m, s, h)
           o == TransitionAfter(n, s, Queued(m.expiring, s))
           P == NoQueue
           w == m.woken
           z == 0
           none == {}
<1>1. m \in Locked(c.i) /\ z \in Int /\ Sound(c, m, none, z) /\ w \in BOOLEAN /\ P \in SUBSET Pushable /\ none \subseteq {s}
  BY DEF Sound, Locked, NoQueue
<1>2. st \in Streams /\ Fine(c, m.initWindow, s, st, Marks(m, s)) /\ Settled(c, st, Marks(m, s)) /\ st.handles # {}
  BY <1>1, StreamTyped DEF Sound
<1> HIDE DEF st
<1>3. /\ r \in Streams /\ Fine(c, m.initWindow, s, r, Marks(m, s)) /\ Follows(c, st, r)
      /\ r.state = st.state /\ r.promises = st.promises /\ r.counted = st.counted /\ r.inFlight = st.inFlight
      /\ Ready(c, r, Marks(m, s))
  <2> DEFINE i == m.initWindow
             v == Marks(m, s)
  <2>1. st \in Streams /\ Fine(c, i, s, st, v) /\ st.handles # {} /\ h \subseteq st.handles BY <1>2 DEF st
  <2> HIDE DEF r, i, v
  <2>2. LET x == Freed(st, h)
        IN  /\ x \in Streams /\ Fine(c, i, s, x, v) /\ Follows(c, st, x) /\ v \cap {"accept", "pledged"} = {}
            /\ x.state = st.state /\ x.promises = st.promises /\ x.counted = st.counted /\ x.inFlight = st.inFlight
            /\ x.handles = h
            /\ h # {} /\ Settled(c, st, v) => Ready(c, x, v)
    BY ONLY <2>1, FreedFine
  <2>3. QED BY <1>2, <2>2 DEF r, i, v
<1>4. Marks(m, s) \cup P = Marks(m, s) BY DEF NoQueue
<1>5. n = Put(m, s, r, P, w)
  <2>1. Sets(m, s, r) = Put(m, s, r, NoQueue, m.woken) BY <1>1, StorePuts
  <2>2. QED BY <2>1 DEF Lessened, st
<1> HIDE DEF r, P, w, z, none
<1>6. PutTo(c, m, Put(m, s, r, P, w), s, r, P, none, z) BY <1>1, <1>3, <1>4, PutSteady DEF st
<1> HIDE DEF n
<1>7. PutTo(c, m, n, s, r, P, none, z) /\ Ready(c, r, Marks(m, s) \cup P) BY <1>3, <1>4, <1>5, <1>6
<1>8. Closes(c, m, n, o, s, r, z)
  <2> HIDE DEF o
  <2>1. Closes(c, m, n, TransitionAfter(n, s, Queued(m.expiring, s)), s, r, z) BY <1>1, <1>7, PutSettles
  <2>2. QED BY <2>1 DEF o
<1> HIDE DEF o
<1>9. Sound(c, o, {}, 0) /\ Steady(c, m, o, {}) BY <1>3, <1>8 DEF Closes, z, st
<1>10. QED BY <1>9 DEF o, n

-----------------------------------------------------------------------------
(* The promises of a request nobody holds any more are dropped with it.      *)

DropOne(v, s, t) ==
  LET x == [v EXCEPT !.store[s].promises = Tail(@)]
      next == TransitionAfter(MaybeCancel(x, t), t, Queued(x.expiring, t))
  IN  IF s \in Slab(v) THEN Check(next, s \in Slab(next), "dangling store key") ELSE v

\* What is known between two of them: the promises q are left.
Unclaimed(c, v, q) ==
  /\ Sound(c, v, {Parent}, 0) /\ Parent \in Slab(v) /\ IsClosed(v.store[Parent].state)
  /\ v.store[Parent].handles = {} /\ v.store[Parent].promises = q
  /\ Queued(v.expiring, Parent) => Queued(v.sending, Parent)

\* One promise is dropped: its stream is reset.
LEMMA DropOneSound ==
  ASSUME NEW c \in Contexts, c.i \notin Servers, NEW v, NEW q, Unclaimed(c, v, q), q # <<>>
  PROVE  LET o == DropOne(v, Parent, Head(q))
         IN  Unclaimed(c, o, Tail(q)) /\ Steady(c, v, o, {})
<1> DEFINE X == {Parent}
           t == Head(q)
           d == Tail(q)
           n == Promising(v, d)
           Y == X \cup {t}
           z == 0
<1>1. /\ Sound(c, v, X, z) /\ z \in Int /\ Parent \in Slab(v) /\ v.store[Parent].promises # <<>>
      /\ Parent \in X /\ v.store[Parent].promises = q
  BY DEF Unclaimed
<1>2. /\ Promise(c, v, n, d, X, z) /\ Sound(c, n, Y, z) /\ t \in Slab(v) /\ t # Parent /\ Pledged(v, t)
      /\ Promisable(t, v.store[t])
  <2> HIDE DEF X, z
  <2>1. LET u == Tail(v.store[Parent].promises)
            k == Head(v.store[Parent].promises)
        IN  /\ Promise(c, v, Promising(v, u), u, X, z) /\ Sound(c, Promising(v, u), X \cup {k}, z)
            /\ k \in Slab(v) /\ k # Parent /\ Pledged(v, k) /\ Promisable(k, v.store[k]) /\ ~Queued(u, k)
            /\ IsQueue(u, Slab(v))
    BY <1>1, ClaimSound
  <2>2. QED BY <1>1, <2>1
<1>3. n = [v EXCEPT !.store[Parent].promises = Tail(@)]
  BY <1>1 DEF Promising, Sets, Stored
<1> HIDE DEF n, t, d
<1>4. /\ Slab(n) = Slab(v) /\ n.store[Parent] = [v.store[Parent] EXCEPT !.promises = d]
      /\ n.store[t] = v.store[t] /\ n.expiring = v.expiring /\ n.sending = v.sending /\ Steady(c, v, n, {})
  BY <1>2 DEF Promise
<1>5. v \in Locked(c.i) /\ n \in Locked(c.i) /\ v.store[Parent] \in Streams /\ d \in Seq(Int)
  <2>1. v \in Locked(c.i) /\ n \in Locked(c.i) BY <1>1, <1>2 DEF Sound
  <2>2. n.store[Parent] \in Streams /\ v.store[Parent] \in Streams BY <1>1, <1>4, <2>1, StreamTyped
  <2>3. q \in Seq(Int) BY <1>1, <2>2 DEF Streams
  <2>4. d \in Seq(Int) BY <2>3 DEF d
  <2>5. QED BY <2>1, <2>2, <2>4
<1>6. /\ n.store[Parent].promises = d /\ n.store[Parent].handles = {} /\ IsClosed(n.store[Parent].state)
      /\ n.store[Parent] \in Streams
  <2>1. v.store[Parent].handles = {} /\ IsClosed(v.store[Parent].state) BY DEF Unclaimed
  <2> DEFINE a == v.store[Parent]
             b == n.store[Parent]
  <2>2. a \in Streams /\ b = [a EXCEPT !.promises = d] BY <1>4, <1>5
  <2>3. b.promises = d /\ b.handles = a.handles /\ b.state = a.state
    <3> HIDE DEF a, b
    <3>1. QED BY <2>2 DEF Streams
  <2>4. b \in Streams BY <1>1, <1>4, <1>5, StreamTyped
  <2>5. QED BY <2>1, <2>3, <2>4
<1>7. n.store[t].handles = {} BY <1>2, <1>4 DEF Promisable
<1>8. Queued(n.expiring, Parent) => Queued(n.sending, Parent) BY <1>4 DEF Unclaimed
<1> DEFINE u == MaybeCancel(n, t)
<1>9. Cancels(c, n, u, t, Y, z)
  <2>1. \A k \in Y : Queued(n.expiring, k) => k = t \/ Queued(n.sending, k) BY <1>8
  <2>2. t \in Slab(n) BY <1>2, <1>4
  <2> HIDE DEF Y, z, u
  <2>3. Cancels(c, n, MaybeCancel(n, t), t, Y, z) BY <1>1, <1>2, <1>7, <2>1, <2>2, CancelSound
  <2>4. QED BY <2>3 DEF u
<1> HIDE DEF u
<1>10. /\ Sound(c, u, Y, z) /\ Steady(c, n, u, {}) /\ t \in Slab(u) /\ IsClosed(u.store[t].state)
       /\ u.store[t].promises = n.store[t].promises /\ (Queued(n.expiring, t) => Queued(u.expiring, t))
  <2>1. Y \cup {t} = Y OBVIOUS
  <2>2. QED BY <1>9, <2>1 DEF Cancels
<1>11. /\ Parent \in Slab(u) /\ SameBut(n.store[Parent], u.store[Parent])
       /\ Queued(u.expiring, Parent) => Queued(u.sending, Parent)
  <2>1. Parent \in Slab(n) BY <1>1, <1>4
  <2>2. Parent \in Slab(u) BY <1>8, <1>9, <2>1 DEF Cancels
  <2>3. QED BY <1>2, <1>8, <1>9, <2>1, <2>2 DEF Cancels
<1>12. Ready(c, u.store[t], Marks(u, t))
  <2>1. n.store[t].promises = <<>>
    <3>1. Fine(c, n.initWindow, t, n.store[t], Marks(n, t)) BY <1>2, <1>4 DEF Sound
    <3>2. QED BY <1>2, <3>1 DEF Fine
  <2>2. ~Strict(c) BY DEF Strict
  <2>3. QED BY <1>10, <2>1, <2>2, ReadyNow
<1> DEFINE y == Queued(n.expiring, t)
           next == TransitionAfter(u, t, y)
<1>13. Settles(c, u, next, t, Y, z)
  <2>1. y \in BOOLEAN /\ MayExpire(u, t, y) BY <1>10 DEF Queued, Contains, MayExpire
  <2> HIDE DEF y, next, Y, z
  <2>2. Settles(c, u, TransitionAfter(u, t, y), t, Y, z) BY <1>10, <1>12, <2>1, TransitionSettles
  <2>3. QED BY <2>2 DEF next
<1> HIDE DEF next
<1>14. /\ Sound(c, next, X, z) /\ Steady(c, u, next, {}) /\ next.expiring = u.expiring /\ next.sending = u.sending
       /\ Slab(next) = Slab(u) \ Gone(u, t) /\ \A k \in Slab(next) : k # t => next.store[k] = u.store[k]
  <2>1. Y \ {t} = X BY <1>2
  <2>2. QED BY <1>13, <2>1 DEF Settles, Thins
<1>15. Parent \in Slab(next) /\ next.store[Parent] = u.store[Parent]
  <2>1. Gone(u, t) \subseteq {t} BY DEF Gone
  <2>2. QED BY <1>2, <1>11, <1>14, <2>1
<1>16. DropOne(v, Parent, t) = next BY <1>1, <1>3, <1>15 DEF DropOne, Check, next, u
<1>17. /\ next.store[Parent].promises = d /\ next.store[Parent].handles = {} /\ IsClosed(next.store[Parent].state)
  <2> DEFINE a == n.store[Parent]
             b == next.store[Parent]
  <2>1. SameBut(a, b) /\ a \in Streams BY <1>6, <1>11, <1>15
  <2>2. a.promises = d /\ a.handles = {} /\ IsClosed(a.state) BY <1>6
  <2> HIDE DEF a, b
  <2>3. b.promises = a.promises /\ b.handles = a.handles /\ b.state = a.state BY <2>1 DEF SameBut, Streams
  <2>4. QED BY <2>2, <2>3 DEF a, b
<1>18. Unclaimed(c, next, d) BY <1>11, <1>14, <1>15, <1>17 DEF Unclaimed
<1>19. Steady(c, v, next, {})
  <2>1. u \in Locked(c.i) /\ next \in Locked(c.i) BY <1>10, <1>14 DEF Sound
  <2>2. Steady(c, v, u, {}) BY <1>4, <1>5, <1>10, <2>1, SteadyTwice
  <2>3. QED BY <1>5, <1>14, <2>1, <2>2, SteadyTwice
<1>20. QED BY <1>16, <1>18, <1>19 DEF t, d

\* What is left of a queue.
Rest(q, k) == SubSeq(q, k + 1, Len(q))

\* What is left of a queue after k rounds.
LEMMA RestIs ==
  ASSUME NEW q \in Seq(Int)
  PROVE  /\ Rest(q, 0) = q /\ Rest(q, Len(q)) = <<>>
         /\ \A k \in 1 .. Len(q) : /\ Rest(q, k - 1) # <<>> /\ Head(Rest(q, k - 1)) = q[k]
                                  /\ Tail(Rest(q, k - 1)) = Rest(q, k)
<1> DEFINE n == Len(q)
<1>1. n \in Nat OBVIOUS
<1>2. Rest(q, 0) = q BY DEF Rest
<1>3. Rest(q, n) = <<>> BY DEF Rest
<1>4. \A k \in 1 .. n : /\ Rest(q, k - 1) # <<>> /\ Head(Rest(q, k - 1)) = q[k]
                           /\ Tail(Rest(q, k - 1)) = Rest(q, k)
  <2>1. SUFFICES ASSUME NEW k \in 1 .. n
                 PROVE  Rest(q, k - 1) # <<>> /\ Head(Rest(q, k - 1)) = q[k] /\ Tail(Rest(q, k - 1)) = Rest(q, k)
    OBVIOUS
  <2>2. Rest(q, k - 1) = SubSeq(q, k, n) BY <1>1 DEF Rest
  <2> DEFINE r == Rest(q, k - 1)
             d == Rest(q, k)
  <2>3. r \in Seq(Int) /\ Len(r) = n - k + 1 /\ \A i \in 1 .. n - k + 1 : r[i] = q[k + i - 1]
    BY <1>1, <2>2 DEF Rest
  <2>4. d \in Seq(Int) /\ Len(d) = n - k /\ \A i \in 1 .. n - k : d[i] = q[k + i] BY <1>1 DEF Rest
  <2> HIDE DEF r, d
  <2>5. r # <<>> /\ Head(r) = q[k] BY <1>1, <2>3
  <2>6. Tail(r) \in Seq(Int) /\ Len(Tail(r)) = n - k /\ \A i \in 1 .. n - k : Tail(r)[i] = r[i + 1]
    BY <1>1, <2>3, <2>5
  <2> DEFINE l == Tail(r)
  <2>7. \A i \in 1 .. n - k : l[i] = d[i]
    <3>1. SUFFICES ASSUME NEW i \in 1 .. n - k PROVE l[i] = d[i] OBVIOUS
    <3>2. i + 1 \in 1 .. n - k + 1 /\ k + (i + 1) - 1 = k + i BY <1>1
    <3>3. l[i] = r[i + 1] /\ d[i] = q[k + i] BY <2>4, <2>6
    <3>4. r[i + 1] = q[k + (i + 1) - 1] BY <2>3, <3>2
    <3>5. QED BY <3>2, <3>3, <3>4
  <2> DEFINE e == n - k
  <2>10. l \in Seq(Int) /\ d \in Seq(Int) /\ Len(l) = e /\ Len(d) = e /\ \A i \in 1 .. e : l[i] = d[i]
    BY <2>4, <2>6, <2>7
  <2> HIDE DEF l, e
  <2>8. Tail(r) = d BY <2>10 DEF l
  <2>9. QED BY <2>5, <2>8 DEF r, d
<1>5. QED BY <1>2, <1>3, <1>4

\* They are q.
Drops(m, s, q) == LET Drop(n, t) == DropOne(n, s, t) IN Each(Drop, m, q)

\* All are dropped.
LEMMA DropPromisesSound ==
  ASSUME NEW c \in Contexts, c.i \notin Servers, NEW m, NEW q, Unclaimed(c, m, q)
  PROVE  LET o == Drops(m, Parent, q)
         IN  Unclaimed(c, o, <<>>) /\ Steady(c, m, o, {})
<1> DEFINE n == Len(q)
           W == {p \in (0 .. n) \X Locked(c.i) : Unclaimed(c, p[2], Rest(q, p[1])) /\ Steady(c, m, p[2], {})}
           Round(v, k) == DropOne(v, Parent, q[k])
           Body(h) == [i \in 0 .. n |-> IF i = 0 THEN m ELSE Round(h[i - 1], i)]
           g == [p \in (1 .. n) \X Locked(c.i) |-> Round(p[2], p[1])]
<1>1. m \in Locked(c.i) /\ Sound(c, m, {Parent}, 0) BY DEF Unclaimed, Sound
<1>2. q \in Seq(Int) /\ n \in Nat
  <2>1. Parent \in Slab(m) /\ m.store[Parent].promises = q BY DEF Unclaimed
  <2>2. m.store[Parent] \in Streams BY <1>1, <2>1, StreamTyped
  <2>3. QED BY <2>1, <2>2 DEF Streams
<1>3. \A k \in 1 .. n : Rest(q, k - 1) # <<>> /\ Head(Rest(q, k - 1)) = q[k] /\ Tail(Rest(q, k - 1)) = Rest(q, k)
  BY <1>2, RestIs
<1>4. Rest(q, 0) = q BY <1>2, RestIs
<1>5. Rest(q, n) = <<>> BY <1>2, RestIs
<1>6. <<0, m>> \in W
  <2> DEFINE z == 0
             none == {}
  <2>1. z \in 0 .. n BY <1>2
  <2>2. Steady(c, m, m, none)
    <3> HIDE DEF none
    <3>1. QED BY <1>1, SteadySelf
  <2>3. Unclaimed(c, m, Rest(q, z)) BY <1>4
  <2> HIDE DEF z
  <2>4. <<z, m>> \in W BY <1>1, <2>1, <2>2, <2>3
  <2>5. QED BY <2>4 DEF z
<1>7. ASSUME NEW k \in 1 .. n, NEW v, <<k - 1, v>> \in W
      PROVE  v \in Locked(c.i) /\ <<k, Round(v, k)>> \in W
  <2>1. v \in Locked(c.i) /\ Unclaimed(c, v, Rest(q, k - 1)) /\ Steady(c, m, v, {}) BY <1>7
  <2> DEFINE r == Rest(q, k - 1)
             o == DropOne(v, Parent, Head(r))
  <2>2. r # <<>> /\ Head(r) = q[k] /\ Tail(r) = Rest(q, k) /\ k \in 0 .. n BY <1>2, <1>3
  <2> HIDE DEF r
  <2>3. Unclaimed(c, v, r) BY <2>1 DEF r
  <2>4. Unclaimed(c, o, Tail(r)) /\ Steady(c, v, o, {}) BY <2>2, <2>3, DropOneSound
  <2> HIDE DEF o
  <2>5. o \in Locked(c.i) BY <2>4 DEF Unclaimed, Sound
  <2>6. Steady(c, m, o, {}) BY <1>1, <2>1, <2>4, <2>5, SteadyTwice
  <2>7. <<k, o>> \in W BY <2>2, <2>4, <2>5, <2>6
  <2>8. QED BY <2>1, <2>2, <2>7 DEF o
<1>8. \A k \in 1 .. n : \A v : <<k - 1, v>> \in W => <<k, g[<<k, v>>]>> \in W
  <2> HIDE DEF W
  <2>1. QED BY <1>7
<1> HIDE DEF W, g
<1>9. PICK f : Loops(n, m, g, f) /\ \A k \in 0 .. n : <<k, f[k]>> \in W
  <2>1. CanLoop(n, W, m, g) BY <1>2, <1>6, <1>8 DEF CanLoop
  <2>2. QED BY <2>1, LoopRecursion
<1>10. f = Body(f)
  <2>1. \A k \in 1 .. n : k - 1 \in 0 .. n /\ <<k - 1, f[k - 1]>> \in W BY <1>2, <1>9
  <2>2. \A k \in 1 .. n : f[k - 1] \in Locked(c.i) BY <1>7, <2>1
  <2>3. \A k \in 1 .. n : g[<<k, f[k - 1]>>] = Round(f[k - 1], k) BY <2>2 DEF g
  <2>4. f = [k \in 0 .. n |-> IF k = 0 THEN m ELSE g[<<k, f[k - 1]>>]] BY <1>9 DEF Loops
  <2>5. \A k \in 0 .. n : k # 0 => k \in 1 .. n BY <1>2
  <2>6. QED BY <2>3, <2>4, <2>5
<1> DEFINE after == CHOOSE h : h = Body(h)
<1>11. after = Body(after)
  <2> HIDE DEF Body
  <2> QED BY <1>10
<1>12. Drops(m, Parent, q) = after[n] BY DEF Drops, Each
<1>13. /\ after[0] = m
       /\ \A k \in 1 .. n : after[k] = Round(after[k - 1], k)
  <2> HIDE DEF after
  <2>1. \A k \in 0 .. n : after[k] = IF k = 0 THEN m ELSE Round(after[k - 1], k) BY <1>11
  <2>2. QED BY <1>2, <2>1
<1> HIDE DEF after
<1>14. <<n, after[n]>> \in W
  <2>1. \A k \in 1 .. n : <<k - 1, after[k - 1]>> \in W => <<k, after[k]>> \in W BY <1>7, <1>13
  <2>2. <<0, after[0]>> \in W BY <1>6, <1>13
  <2> HIDE DEF n
  <2>3. QED BY <1>2, <2>1, <2>2, LoopHolds
<1>15. Unclaimed(c, after[n], <<>>) /\ Steady(c, m, after[n], {}) BY <1>5, <1>14 DEF W
<1>16. QED BY <1>12, <1>15

\* There is none.
LEMMA NoPromises ==
  ASSUME NEW m, NEW s, NEW q, q = <<>>
  PROVE  Drops(m, s, q) = m
<1> DEFINE Body(h) == [i \in 0 .. Len(q) |-> IF i = 0 THEN m ELSE DropOne(h[i - 1], s, q[i])]
           f == [i \in 0 .. Len(q) |-> m]
           after == CHOOSE h : h = Body(h)
<1>1. Len(q) = 0 OBVIOUS
<1>2. \A i \in 0 .. Len(q) : i = 0 BY <1>1
<1>3. f = Body(f) BY <1>2
<1>4. after = Body(after)
  <2> HIDE DEF Body, f
  <2>1. QED BY <1>3
<1>5. Drops(m, s, q) = after[Len(q)] BY DEF Drops, Each
<1> HIDE DEF after
<1>6. 0 \in 0 .. Len(q) BY <1>1
<1>7. after[0] = m BY <1>4, <1>6
<1>8. QED BY <1>1, <1>5, <1>7

\* The bytes of a stream without readers are given back, and it has ended.
Ending(c, m, n, s) ==
  /\ Sound(c, n, {s}, 0) /\ Steady(c, m, n, {}) /\ s \in Slab(n) /\ IsClosed(n.store[s].state)
  /\ n.store[s].handles = {} /\ n.store[s].promises = m.store[s].promises /\ n.store[s].inFlight = 0
  /\ Queued(m.expiring, s) => Queued(n.expiring, s)
  /\ Queued(n.expiring, s) => Queued(m.expiring, s) \/ Queued(n.sending, s)

\* The last handle: the stream is reset and its bytes are given back.
LEMMA EndingSound ==
  ASSUME NEW c \in Contexts, NEW m, Sound(c, m, {}, 0), NEW s \in Slab(m), m.store[s].handles # {},
         NEW w \in BOOLEAN, NEW x, x = WithStore(m, Stored(m, s, Freed(m.store[s], {})), w)
  PROVE  Ending(c, m, ReleaseClosedCapacity(MaybeCancel(x, s), s), s)
<1> DEFINE st == m.store[s]
           none == {}
           one == {s}
           r == Freed(st, none)
           P == NoQueue
           z == 0
<1>1. m \in Locked(c.i) /\ z \in Int /\ Sound(c, m, none, z) /\ P \in SUBSET Pushable /\ none \cup one = one
      /\ one \cup one = one /\ none \subseteq st.handles
  BY DEF Sound, NoQueue
<1>2. st \in Streams /\ Fine(c, m.initWindow, s, st, Marks(m, s)) /\ st.handles # {}
  BY <1>1, StreamTyped DEF Sound
<1>3. /\ r \in Streams /\ Fine(c, m.initWindow, s, r, Marks(m, s)) /\ Follows(c, st, r)
      /\ Marks(m, s) \cap {"accept", "pledged"} = {}
      /\ r.state = st.state /\ r.promises = st.promises /\ r.counted = st.counted /\ r.inFlight = st.inFlight
      /\ r.handles = {}
  <2> DEFINE i == m.initWindow
             v == Marks(m, s)
  <2>1. st \in Streams /\ Fine(c, i, s, st, v) /\ st.handles # {} /\ none \subseteq st.handles BY <1>1, <1>2
  <2> HIDE DEF r, i, v, none, st
  <2>2. LET y == Freed(st, none)
        IN  /\ y \in Streams /\ Fine(c, i, s, y, v) /\ Follows(c, st, y) /\ v \cap {"accept", "pledged"} = {}
            /\ y.state = st.state /\ y.promises = st.promises /\ y.counted = st.counted /\ y.inFlight = st.inFlight
            /\ y.handles = none
            /\ none # {} /\ Settled(c, st, v) => Ready(c, y, v)
    BY ONLY <2>1, FreedFine
  <2>3. QED BY <2>2 DEF r, i, v, none
<1>4. Marks(m, s) \cup P = Marks(m, s) BY DEF NoQueue
<1>5. x = Put(m, s, r, P, w)
  <2>1. Put(m, s, r, NoQueue, w) = WithStore(m, Stored(m, s, r), w) BY <1>1, PutForms
  <2>2. QED BY <2>1
<1> HIDE DEF st, r, P, z, none
<1>6. PutTo(c, m, Put(m, s, r, P, w), s, r, P, none, z) BY <1>1, <1>3, <1>4, PutSteady DEF st
<1>7. PutTo(c, m, x, s, r, P, none, z) BY <1>5, <1>6
<1>8. /\ Sound(c, x, one, z) /\ Slab(x) = Slab(m) /\ x.store[s] = r /\ Marks(x, s) = Marks(m, s)
      /\ x.expiring = m.expiring /\ Steady(c, m, x, {})
  BY <1>1, <1>3, <1>4, <1>7 DEF PutTo, st
<1> DEFINE u == MaybeCancel(x, s)
<1>9. Cancels(c, x, u, s, one, z)
  <2>1. \A k \in one : Queued(x.expiring, k) => k = s \/ Queued(x.sending, k) OBVIOUS
  <2>2. x.store[s].handles = {} /\ s \in Slab(x) BY <1>3, <1>8
  <2> HIDE DEF one, z, u
  <2>3. Cancels(c, x, MaybeCancel(x, s), s, one, z) BY <1>1, <1>8, <2>1, <2>2, CancelSound
  <2>4. QED BY <2>3 DEF u
<1> HIDE DEF u
<1>10. /\ Sound(c, u, one, z) /\ Steady(c, x, u, {}) /\ s \in Slab(u) /\ IsClosed(u.store[s].state)
       /\ u.store[s].promises = r.promises /\ u.store[s].handles = {}
       /\ Queued(x.expiring, s) => Queued(u.expiring, s)
       /\ u = x \/ Queued(u.sending, s)
       /\ \A y \in {"accept", "pledged"} : y \in Marks(u, s) <=> y \in Marks(x, s)
  BY <1>1, <1>3, <1>8, <1>9 DEF Cancels
<1>11. Marks(u, s) \cap {"accept", "pledged"} = {} BY <1>3, <1>8, <1>10
<1> DEFINE n == ReleaseClosedCapacity(u, s)
<1>12. Drains(c, u, n, s, one)
  <2>1. Sound(c, u, one, 0) BY <1>10 DEF z
  <2> HIDE DEF one, n
  <2>2. Drains(c, u, ReleaseClosedCapacity(u, s), s, one) BY <1>10, <1>11, <2>1, DrainSound
  <2>3. QED BY <2>2 DEF n
<1> HIDE DEF n
<1>13. /\ Sound(c, n, {s}, 0) /\ Steady(c, u, n, {}) /\ Slab(n) = Slab(u)
       /\ n.store[s].state = u.store[s].state /\ n.store[s].promises = u.store[s].promises
       /\ n.store[s].handles = u.store[s].handles /\ n.store[s].inFlight = 0
       /\ Marks(n, s) = Marks(u, s) /\ n.expiring = u.expiring
  BY <1>1, <1>10, <1>12 DEF Drains
<1>14. Queued(u.sending, s) => Queued(n.sending, s) BY <1>13, MarksAre
<1>15. Steady(c, m, n, {})
  <2>1. x \in Locked(c.i) /\ u \in Locked(c.i) /\ n \in Locked(c.i) BY <1>8, <1>10, <1>13 DEF Sound
  <2>2. Steady(c, m, u, {}) BY <1>1, <1>8, <1>10, <2>1, SteadyTwice
  <2>3. QED BY <1>1, <1>13, <2>1, <2>2, SteadyTwice
<1>16. Queued(n.expiring, s) => Queued(m.expiring, s) \/ Queued(n.sending, s) BY <1>8, <1>10, <1>13, <1>14
<1>17. n.store[s].promises = m.store[s].promises BY <1>3, <1>10, <1>13 DEF st
<1>18. Queued(m.expiring, s) => Queued(n.expiring, s) BY <1>8, <1>10, <1>13
<1>19. s \in Slab(n) /\ IsClosed(n.store[s].state) /\ n.store[s].handles = {} BY <1>10, <1>13
<1>20. QED BY <1>13, <1>15, <1>16, <1>17, <1>18, <1>19 DEF Ending, n, u

\* drop_stream_ref, for the last handle.
LEMMA LastSound ==
  ASSUME NEW c \in Contexts, NEW m, Sound(c, m, {}, 0), NEW s \in Slab(m), NEW handle \in m.store[s].handles,
         m.store[s].handles \ {handle} = {}
  PROVE  LET o == DropStreamRef(m, s, handle)
         IN  Sound(c, o, {}, 0) /\ Steady(c, m, o, {})
<1> DEFINE st == m.store[s]
           r == Freed(st, {})
           w == IF StreamClosed(m, s) THEN TRUE ELSE m.woken
           x == WithStore(m, Stored(m, s, r), w)
           v == ReleaseClosedCapacity(MaybeCancel(x, s), s)
           q == st.promises
           a == Drops(v, s, q)
           y == Queued(m.expiring, s)
           o == TransitionAfter(a, s, y)
<1>1. m \in Locked(c.i) /\ st \in Streams BY StreamTyped DEF Sound
<1>2. w \in BOOLEAN
  <2>1. m.woken \in BOOLEAN BY <1>1 DEF Locked
  <2>2. QED BY <2>1
<1>3. x.store[s].promises = q
  <2>1. x.store = [m.store EXCEPT ![s] = r] BY <1>1 DEF WithStore, Stored, Locked
  <2>2. m.store \in [Slab(m) -> Streams] BY <1>1, StoreTyped DEF Locked, Slab
  <2>3. x.store[s] = r BY <2>1, <2>2
  <2>4. r.promises = q BY <1>1 DEF Freed, Streams
  <2>5. QED BY <2>3, <2>4
<1>4. Ending(c, m, v, s)
  <2>1. st.handles # {} OBVIOUS
  <2> HIDE DEF v, w
  <2>2. Ending(c, m, ReleaseClosedCapacity(MaybeCancel(x, s), s), s) BY <1>2, <2>1, EndingSound
  <2>3. QED BY <2>2 DEF v
<1>5. DropStreamRef(m, s, handle) = IF s \in Slab(a) THEN o ELSE a
  <2> DEFINE d == [m EXCEPT !.store[s].handles = @ \ {handle}]
             last == d.store[s].handles = {}
             woken == IF last /\ StreamClosed(m, s) THEN Wake(d) ELSE d
  <2>1. d = Sets(m, s, r)
    <3> DEFINE e == st.handles \ {handle}
    <3>1. d = Sets(m, s, Freed(st, e)) BY DEF Sets, Stored, Freed
    <3>2. e = {} OBVIOUS
    <3> HIDE DEF e, d
    <3>3. QED BY <3>1, <3>2
  <2>2. last
    <3>1. m.store \in [Slab(m) -> Streams] BY <1>1, StoreTyped DEF Locked, Slab
    <3>2. d.store[s] = r
      <4> HIDE DEF d, r
      <4>1. QED BY <1>1, <2>1, StoredTwice
    <3>3. r.handles = {} BY <1>1 DEF Freed, Streams
    <3>4. QED BY <3>2, <3>3
  <2>3. woken = x
    <3>1. CASE StreamClosed(m, s)
      <4>1. x = WithStore(m, Stored(m, s, r), TRUE) BY <3>1
      <4>2. woken = [Sets(m, s, r) EXCEPT !.woken = TRUE] BY <2>1, <2>2, <3>1 DEF Wake
      <4> HIDE DEF x, woken, r
      <4>3. QED BY <1>1, <4>1, <4>2 DEF WithStore, Sets, Locked
    <3>2. CASE ~StreamClosed(m, s)
      <4>1. x = WithStore(m, Stored(m, s, r), m.woken) BY <3>2
      <4>2. woken = Sets(m, s, r) BY <2>1, <2>2, <3>2
      <4> HIDE DEF x, woken, r
      <4>3. QED BY <1>1, <4>1, <4>2 DEF WithStore, Sets, Locked
    <3>3. QED BY <3>1, <3>2
  <2> DEFINE Dropped(n, t) ==
               LET next == Transition([n EXCEPT !.store[s].promises = Tail(@)], t, MaybeCancel)
               IN  IF s \in Slab(n) THEN Check(next, s \in Slab(next), "dangling store key") ELSE n
             after == IF last THEN Each(Dropped, ReleaseClosedCapacity(MaybeCancel(woken, s), s), woken.store[s].promises)
                      ELSE MaybeCancel(woken, s)
  <2>4. DropStreamRef(m, s, handle) = IF s \in Slab(after) THEN TransitionAfter(after, s, Queued(m.expiring, s)) ELSE after
    BY DEF DropStreamRef
  <2>5. Each(Dropped, v, q) = a BY DEF Transition, DropOne, Drops
  <2>6. after = Each(Dropped, v, q)
    <3> HIDE DEF last, woken, x, Dropped
    <3>1. after = Each(Dropped, ReleaseClosedCapacity(MaybeCancel(x, s), s), x.store[s].promises) BY <2>2, <2>3
    <3>2. QED BY <1>3, <3>1
  <2> HIDE DEF a, after
  <2>7. QED BY <2>4, <2>5, <2>6
<1> HIDE DEF v, x, r, w
<1>6. /\ Sound(c, a, {s}, 0) /\ Steady(c, m, a, {}) /\ s \in Slab(a) /\ IsClosed(a.store[s].state)
      /\ a.store[s].promises = <<>> /\ (Strict(c) => a.store[s].inFlight = 0)
      /\ y => Queued(a.expiring, s)
  <2>1. CASE q = <<>>
    <3> HIDE DEF q
    <3>1. a = v BY <2>1, NoPromises
    <3> HIDE DEF a
    <3>2. QED BY <1>4, <2>1, <3>1 DEF Ending, q
  <2>2. CASE q # <<>>
    <3>1. Fine(c, m.initWindow, s, st, Marks(m, s)) /\ Settled(c, st, Marks(m, s)) BY DEF Sound
    <3>2. s = Parent /\ c.i \notin Servers BY <2>2, <3>1 DEF Fine
    <3>3. ~y
      <4>1. "expiring" \notin Marks(m, s) BY <2>2, <3>1 DEF Settled, Ready, Keeps
      <4>2. QED BY <4>1, MarksAre
    <3>4. Unclaimed(c, v, q) BY <1>4, <3>2, <3>3 DEF Ending, Unclaimed
    <3> DEFINE b == Drops(v, Parent, q)
    <3> HIDE DEF q, y
    <3>5. Unclaimed(c, b, <<>>) /\ Steady(c, v, b, {}) BY <3>2, <3>4, DropPromisesSound
    <3>6. b = a BY <3>2
    <3> HIDE DEF a, b
    <3>7. v \in Locked(c.i) /\ a \in Locked(c.i) /\ Steady(c, m, v, {}) BY <1>4, <3>5, <3>6 DEF Ending, Unclaimed, Sound
    <3>8. Steady(c, m, a, {}) BY <1>1, <3>5, <3>6, <3>7, SteadyTwice
    <3>9. ~Strict(c) BY <3>2 DEF Strict
    <3>10. QED BY <3>2, <3>3, <3>5, <3>6, <3>8, <3>9 DEF Unclaimed
  <2>3. QED BY <2>1, <2>2
<1> HIDE DEF a
<1>7. Ready(c, a.store[s], Marks(a, s)) BY <1>6, ReadyNow
<1>8. Sound(c, o, {}, 0) /\ Steady(c, a, o, {})
  <2> DEFINE one == {s}
             z == 0
  <2>1. one \ {s} = {} /\ Sound(c, a, one, z) /\ s \in Slab(a) BY <1>6
  <2>2. y \in BOOLEAN /\ MayExpire(a, s, y) BY <1>6 DEF Queued, Contains, MayExpire
  <2> HIDE DEF one, z, y, o
  <2>3. Settles(c, a, TransitionAfter(a, s, y), s, one, z) BY <1>7, <2>1, <2>2, TransitionSettles
  <2>4. QED BY <2>1, <2>3 DEF Settles, o, z
<1> HIDE DEF o
<1>9. a \in Locked(c.i) /\ o \in Locked(c.i) BY <1>6, <1>8 DEF Sound
<1>10. Steady(c, m, o, {}) BY <1>1, <1>6, <1>8, <1>9, SteadyTwice
<1>11. DropStreamRef(m, s, handle) = o BY <1>5, <1>6
<1>12. QED BY <1>8, <1>10, <1>11

\* drop_stream_ref, for every handle.
LEMMA DropSound ==
  ASSUME NEW c \in Contexts, NEW m, Sound(c, m, {}, 0), NEW s \in Slab(m), NEW handle \in m.store[s].handles
  PROVE  LET o == DropStreamRef(m, s, handle)
         IN  Sound(c, o, {}, 0) /\ Steady(c, m, o, {})
<1> DEFINE h == m.store[s].handles \ {handle}
           n == Lessened(m, s, h)
           y == Queued(m.expiring, s)
           o == TransitionAfter(n, s, y)
<1>1. CASE h = {} BY <1>1, LastSound
<1>2. CASE h # {}
  <2>1. h \subseteq m.store[s].handles /\ m \in Locked(c.i) BY DEF Sound
  <2>2. Sound(c, o, {}, 0) /\ Steady(c, m, o, {})
    <3> HIDE DEF h
    <3>1. QED BY <1>2, <2>1, FewerSound
  <2>3. n = [m EXCEPT !.store[s].handles = @ \ {handle}] BY DEF Lessened, Freed, Sets, Stored
  <2>4. n.store[s].handles = h /\ s \in Slab(n)
    <3> DEFINE r == Freed(m.store[s], h)
    <3>1. n.store = Stored(m, s, r) /\ n.store[s] = r
      <4> HIDE DEF r, h
      <4>1. n = Sets(m, s, r) BY DEF Lessened, r
      <4>2. n.store[s] = r BY <2>1, <4>1, StoredTwice
      <4>3. n.store = Stored(m, s, r) BY <2>1, <4>1 DEF Sets, Locked
      <4>4. QED BY <4>2, <4>3
    <3>2. r.handles = h
      <4>1. m.store[s] \in Streams BY <2>1, StreamTyped
      <4> HIDE DEF h
      <4>2. QED BY <4>1 DEF Freed, Streams
    <3>3. Slab(n) = Slab(m) BY <3>1 DEF Slab, Stored
    <3>4. QED BY <3>1, <3>2, <3>3
  <2> DEFINE d == [m EXCEPT !.store[s].handles = @ \ {handle}]
             last == d.store[s].handles = {}
             woken == IF last /\ StreamClosed(m, s) THEN Wake(d) ELSE d
             Dropped(v, t) ==
               LET next == Transition([v EXCEPT !.store[s].promises = Tail(@)], t, MaybeCancel)
               IN  IF s \in Slab(v) THEN Check(next, s \in Slab(next), "dangling store key") ELSE v
             after == IF last THEN Each(Dropped, ReleaseClosedCapacity(MaybeCancel(woken, s), s), woken.store[s].promises)
                      ELSE MaybeCancel(woken, s)
  <2>5. DropStreamRef(m, s, handle) = IF s \in Slab(after) THEN TransitionAfter(after, s, y) ELSE after
    BY DEF DropStreamRef
  <2>6. after = n
    <3> HIDE DEF n, Dropped
    <3>1. d = n BY <2>3
    <3> HIDE DEF d
    <3>2. ~last
      <4> HIDE DEF h
      <4>1. QED BY <1>2, <2>4, <3>1
    <3>3. woken = n BY <3>1, <3>2
    <3> HIDE DEF last, woken
    <3>4. after = MaybeCancel(n, s) BY <3>2, <3>3
    <3> HIDE DEF h
    <3>5. QED BY <1>2, <2>4, <3>4 DEF MaybeCancel
  <2> HIDE DEF after, n, y
  <2>7. DropStreamRef(m, s, handle) = o BY <2>4, <2>5, <2>6
  <2> HIDE DEF o
  <2>8. QED BY <2>2, <2>7
<1>3. QED BY <1>1, <1>2

\* A handle is dropped.
LEMMA DropHandleStep ==
  ASSUME IInv, NEW k \in Ids, NEW handle, DropHandle(k, handle)
  PROVE  IInv'
<1> DEFINE o == DropStreamRef(me, k, handle)
<1>1. /\ k \in Slab(me) /\ handle \in me.store[k].handles /\ Asked(o) /\ UNCHANGED app
  BY DEF DropHandle, Held
<1>2. Context \in Contexts /\ Sound(Context, me, {}, 0) BY Before
<1>3. Sound(Context, o, {}, 0) /\ Steady(Context, me, o, {}) BY <1>1, <1>2, DropSound
<1> HIDE DEF o
<1>4. QED BY <1>1, <1>3, AskedQuiet

-----------------------------------------------------------------------------
(* The task writes a frame, or finds none.                                   *)

\* The first stream that has frames to send, and the first that is not yet
\* accepted.
LEMMA SendingPops ==
  ASSUME NEW c \in Contexts, NEW m, NEW X, NEW loose, Sound(c, m, X, loose), m.sending # <<>>
  PROVE  LET o == [m EXCEPT !.sending = Tail(@)]
         IN  /\ Pops(c, m, o, Head(m.sending), {"sending"}, X, loose)
             /\ o.expiring = m.expiring /\ o.accept = m.accept /\ o.updates = m.updates
             /\ o.sending = Tail(m.sending)
<1> DEFINE P == {"sending"}
           k == Head(m.sending)
           o == [m EXCEPT !.sending = Tail(@)]
<1>1. m \in Locked(c.i) BY DEF Sound
<1>2. m.sending \in Seq(Int) BY <1>1 DEF Locked
<1>3. Tail(m.sending) \in Seq(Int) BY <1>2
<1>4. o \in Locked(c.i) BY <1>1, <1>3 DEF Locked
<1>5. /\ o.store = m.store /\ o.ids = m.ids /\ o.sending = Tail(m.sending) /\ o.accept = m.accept
      /\ o.expiring = m.expiring /\ o.updates = m.updates /\ o.initWindow = m.initWindow
      /\ o.numRecv = m.numRecv /\ o.numReset = m.numReset /\ o.lost = m.lost /\ o.nextId = m.nextId
      /\ o.flow = m.flow /\ o.inFlight = m.inFlight /\ o.local = m.local /\ o.err = m.err
      /\ o.refused = m.refused
  BY <1>1 DEF Locked
<1>6. "sending" \in P /\ "accept" \notin P /\ "expiring" \notin P /\ "updates" \notin P
      /\ P \subseteq {"accept", "sending", "expiring", "updates"}
  OBVIOUS
<1> HIDE DEF P, o, k
<1>7. Takes(m, o, k, P) BY <1>5, <1>6 DEF Takes, First, Pop, k
<1>8. Pops(c, m, o, k, P, X, loose) BY <1>4, <1>5, <1>6, <1>7, TakesPops
<1>9. QED BY <1>5, <1>8 DEF P, o, k

\* The first request leaves those to accept.
LEMMA AcceptPops ==
  ASSUME NEW c \in Contexts, NEW m, NEW X, NEW loose, Sound(c, m, X, loose), m.accept # <<>>
  PROVE  LET o == [m EXCEPT !.accept = Tail(@)]
         IN  /\ Pops(c, m, o, Head(m.accept), {"accept"}, X, loose)
             /\ o.expiring = m.expiring /\ o.updates = m.updates /\ o.sending = m.sending
             /\ o.accept = Tail(m.accept)
<1> DEFINE P == {"accept"}
           k == Head(m.accept)
           o == [m EXCEPT !.accept = Tail(@)]
<1>1. m \in Locked(c.i) BY DEF Sound
<1>2. m.accept \in Seq(Int) BY <1>1 DEF Locked
<1>3. Tail(m.accept) \in Seq(Int) BY <1>2
<1>4. o \in Locked(c.i) BY <1>1, <1>3 DEF Locked
<1>5. /\ o.store = m.store /\ o.ids = m.ids /\ o.accept = Tail(m.accept) /\ o.updates = m.updates
      /\ o.expiring = m.expiring /\ o.sending = m.sending /\ o.initWindow = m.initWindow
      /\ o.numRecv = m.numRecv /\ o.numReset = m.numReset /\ o.lost = m.lost /\ o.nextId = m.nextId
      /\ o.flow = m.flow /\ o.inFlight = m.inFlight /\ o.local = m.local /\ o.err = m.err
      /\ o.refused = m.refused
  BY <1>1 DEF Locked
<1>6. "accept" \in P /\ "updates" \notin P /\ "expiring" \notin P /\ "sending" \notin P
      /\ P \subseteq {"updates", "accept", "expiring", "sending"}
  OBVIOUS
<1> HIDE DEF P, o, k
<1>7. Takes(m, o, k, P) BY <1>5, <1>6 DEF Takes, First, Pop, k
<1>8. Pops(c, m, o, k, P, X, loose) BY <1>4, <1>5, <1>6, <1>7, TakesPops
<1>9. QED BY <1>5, <1>8 DEF P, o, k

\* Who has frames left, or a reset, comes back to the queue.
More(r) == r.out # <<>> \/ IsScheduledReset(r.state)
Comes(r) == IF More(r) THEN SendQueue ELSE NoQueue

\* A stream with more to send is queued again.
LEMMA RequeueSound ==
  ASSUME NEW c \in Contexts, NEW o, NEW k \in Slab(o), Sound(c, o, {k}, 0), NEW r \in Streams,
         r.promises = o.store[k].promises, r.counted = o.store[k].counted, r.inFlight = o.store[k].inFlight,
         Follows(c, o.store[k], r), Fine(c, o.initWindow, k, r, Marks(o, k) \cup Comes(r)),
         Ready(c, r, Marks(o, k) \cup Comes(r))
  PROVE  LET n == Requeue(Sets(o, k, r), k, Queued(o.expiring, k))
         IN  Sound(c, n, {}, 0) /\ Steady(c, o, n, {})
<1> DEFINE one == {k}
           z == 0
           P == Comes(r)
           w == o.woken
           x == Sets(o, k, r)
           n == Put(o, k, r, P, w)
           y == Queued(o.expiring, k)
           a == TransitionAfter(n, k, y)
<1>1. o \in Locked(c.i) /\ z \in Int /\ Sound(c, o, one, z) /\ P \in SUBSET Pushable /\ one \cup {k} = one
      /\ one \subseteq {k}
  BY DEF Sound, Comes, SendQueue, NoQueue, Pushable
<1>2. w \in BOOLEAN BY <1>1 DEF Locked
<1>3. Requeue(x, k, y) = a
  <2> DEFINE more == x.store[k].out # <<>> \/ IsScheduledReset(x.store[k].state)
             d == [x EXCEPT !.sending = IF more THEN PushOnce(@, k) ELSE @]
  <2>1. x.store[k] = r
    <3> HIDE DEF x
    <3>1. QED BY <1>1, StoredTwice DEF x
  <2>2. more <=> More(r) BY <2>1 DEF More
  <2>3. d = n
    <3>1. CASE More(r)
      <4>1. P = SendQueue BY <3>1 DEF Comes
      <4>2. n = ToSend(o, Stored(o, k, r), k, o.woken) BY <1>1, <4>1, PutForms
      <4>3. d = [x EXCEPT !.sending = PushOnce(@, k)] BY <2>2, <3>1
      <4> HIDE DEF n, d
      <4>4. QED BY <1>1, <4>2, <4>3 DEF ToSend, Sets, Locked
    <3>2. CASE ~More(r)
      <4>1. P = NoQueue BY <3>2 DEF Comes
      <4>2. n = x BY <1>1, <4>1, StorePuts
      <4>3. d = [x EXCEPT !.sending = @] BY <2>2, <3>2
      <4> HIDE DEF n, d
      <4>4. QED BY <1>1, <4>2, <4>3 DEF Sets, Locked
    <3>3. QED BY <3>1, <3>2
  <2> HIDE DEF n, x, y
  <2>4. Requeue(x, k, y) = TransitionAfter(d, k, y) BY DEF Requeue
  <2> HIDE DEF d
  <2>5. QED BY <2>3, <2>4
<1> HIDE DEF one, z, P, w, x
<1>4. PutTo(c, o, n, k, r, P, one, z)
  <2> HIDE DEF n
  <2>1. Fine(c, o.initWindow, k, r, Marks(o, k) \cup P) BY DEF P
  <2>2. PutTo(c, o, Put(o, k, r, P, w), k, r, P, one, z) BY <1>1, <1>2, <2>1, PutSteady
  <2>3. QED BY <2>2 DEF n
<1> HIDE DEF n
<1>5. Closes(c, o, n, a, k, r, z)
  <2>1. Ready(c, r, Marks(o, k) \cup P) BY DEF P
  <2> HIDE DEF a
  <2>2. Closes(c, o, n, TransitionAfter(n, k, Queued(o.expiring, k)), k, r, z) BY <1>1, <1>4, <2>1, PutSettles
  <2>3. QED BY <2>2 DEF a
<1> HIDE DEF a, y
<1>6. Sound(c, a, {}, 0) /\ Steady(c, o, a, {}) BY <1>5 DEF Closes, z
<1>7. QED BY <1>3, <1>6 DEF x, y

\* What one that writes a frame becomes.
Lighter(st) == [st EXCEPT !.out = Tail(@)]
Dead(st) == [st EXCEPT !.state = SetReset(@)]
WasSent(st, r) == \/ st.out # <<>> /\ r = Lighter(st)
                  \/ IsScheduledReset(st.state) /\ r = Dead(st)

\* What is left of an entry of which a frame, or the reset, was sent.
LEMMA SentFine ==
  ASSUME NEW c \in Contexts, NEW init, NEW k, NEW st \in Streams, NEW w, Fine(c, init, k, st, w), "sending" \notin w,
         Ready(c, st, w), NEW r, WasSent(st, r)
  PROVE  /\ r \in Streams /\ r.promises = st.promises /\ r.counted = st.counted /\ r.inFlight = st.inFlight
         /\ Follows(c, st, r) /\ Fine(c, init, k, r, w \cup Comes(r)) /\ Ready(c, r, w \cup Comes(r))
<1> DEFINE v == w \cup Comes(r)
<1>1. \A x : x # "sending" => (x \in v <=> x \in w) BY DEF Comes, SendQueue, NoQueue
<1>2. CASE st.out # <<>> /\ r = Lighter(st)
  <2>1. Tail(st.out) \in Seq(OutFrames) BY <1>2 DEF Streams
  <2>2. /\ r \in Streams /\ r.promises = st.promises /\ r.counted = st.counted /\ r.inFlight = st.inFlight
        /\ r.state = st.state /\ r.handles = st.handles /\ r.events = st.events /\ r.flow = st.flow
    BY <1>2, <2>1 DEF Streams, Lighter
  <2>3. \A n : Awaits(r, n) <=> Awaits(st, n) BY <2>2 DEF Awaits
  <2>4. Live(r) <=> Live(st) BY <2>2 DEF Live
  <2>5. HeadersFirst(r) <=> HeadersFirst(st) BY <2>2 DEF HeadersFirst
  <2>6. "sending" \in v => r.out # <<>> \/ IsClosed(r.state)
    BY DEF Comes, NoQueue, More, IsScheduledReset, IsClosed, Closed
  <2> HIDE DEF v
  <2>7. Fine(c, init, k, r, v) BY <1>1, <2>2, <2>3, <2>4, <2>5, <2>6 DEF Fine
  <2>8. Follows(c, st, r) BY <2>2 DEF Follows
  <2>9. Ready(c, r, v) BY <1>1, <2>2 DEF Ready, Owned, Keeps
  <2>10. QED BY <2>2, <2>7, <2>8, <2>9 DEF v
<1>3. CASE IsScheduledReset(st.state) /\ r = Dead(st)
  <2>1. /\ r \in Streams /\ r.promises = st.promises /\ r.counted = st.counted /\ r.inFlight = st.inFlight
        /\ r.state = Closed("LocallyReset") /\ r.handles = st.handles /\ r.out = st.out /\ r.task = st.task
        /\ r = [st EXCEPT !.state = r.state]
    <3>1. Closed("LocallyReset") \in States BY DEF States, Causes
    <3>2. r = [st EXCEPT !.state = Closed("LocallyReset")] BY <1>3 DEF Dead, SetReset
    <3>3. r.state = Closed("LocallyReset") BY <3>2 DEF Streams
    <3>4. r \in Streams BY <3>1, <3>2 DEF Streams
    <3>5. QED BY <3>2, <3>3, <3>4 DEF Streams
  <2>2. r.state \in Ends /\ IsClosed(r.state) /\ r.state # Idle /\ IsLocalReset(r.state)
    BY <2>1 DEF Ends, Causes, IsClosed, Closed, Idle, IsLocalReset
  <2>3. Shut(st, r)
    <3> DEFINE y == r.state
    <3>1. r = [st EXCEPT !.state = y] /\ y \in Ends BY <2>1, <2>2
    <3> HIDE DEF y
    <3>2. [st EXCEPT !.state = y] = [st EXCEPT !.state = y, !.out = st.out, !.task = st.task] BY DEF Streams
    <3>3. r = [st EXCEPT !.state = y, !.out = r.out, !.task = r.task] BY <2>1, <3>1, <3>2
    <3>4. QED BY <2>2, <3>3 DEF Shut, y
  <2>4. Comes(r) \subseteq {"sending"} BY DEF Comes, SendQueue, NoQueue
  <2>5. Fine(c, init, k, r, v) BY <2>3, <2>4, FineShut
  <2>6. Follows(c, st, r) BY <2>2, <2>3, ShutFollows
  <2>7. Ready(c, r, v)
    <3> HIDE DEF v
    <3>1. QED BY <1>1, <2>1, <2>2 DEF Ready, Owned, Keeps
  <2>8. QED BY <2>1, <2>5, <2>6, <2>7
<1>4. QED BY <1>2, <1>3 DEF WasSent

\* One round of pop_frame.
PopRound(acc, k) ==
  LET n == [acc.me EXCEPT !.sending = Tail(@)]
      wasReset == Queued(n.expiring, k)
  IN  IF acc.frame THEN acc
      ELSE IF n.store[k].out # <<>>
      THEN Popped(Requeue([n EXCEPT !.store[k].out = Tail(@)], k, wasReset), TRUE)
      ELSE IF IsScheduledReset(n.store[k].state)
      THEN Popped(Requeue([n EXCEPT !.store[k].state = SetReset(@)], k, wasReset), TRUE)
      ELSE Popped(TransitionAfter(Check(n, IsClosed(n.store[k].state), "dangling stream"),
                                  k, wasReset), FALSE)

\* Before a frame is found the queue is what is left of it, q.
Popping(c, m, acc, q) ==
  /\ acc \in [me : Locked(c.i), frame : BOOLEAN] /\ Sound(c, acc.me, {}, 0) /\ Steady(c, m, acc.me, {})
  /\ acc.frame \/ acc.me.sending = q

\* One round of Prioritize::pop_frame.
LEMMA PopRoundSound ==
  ASSUME NEW c \in Contexts, NEW m \in Locked(c.i), NEW acc, NEW q, q # <<>>, Popping(c, m, acc, q)
  PROVE  Popping(c, m, PopRound(acc, Head(q)), Tail(q))
<1> DEFINE v == acc.me
           k == Head(q)
           z == 0
           none == {}
           one == {k}
           P == {"sending"}
           o == [v EXCEPT !.sending = Tail(@)]
           st == v.store[k]
           y == Queued(o.expiring, k)
<1>1. CASE acc.frame BY <1>1 DEF PopRound, Popping
<1>2. CASE ~acc.frame
  <2>1. Sound(c, v, none, z) /\ v.sending = q /\ v.sending # <<>> /\ Steady(c, m, v, {}) /\ v \in Locked(c.i)
    BY <1>2 DEF Popping, Sound
  <2>2. /\ Pops(c, v, o, k, P, none, z)
        /\ o.expiring = v.expiring /\ o.accept = v.accept /\ o.updates = v.updates /\ o.sending = Tail(q)
    <3> HIDE DEF v, none, z
    <3>1. LET x == [v EXCEPT !.sending = Tail(@)]
          IN  /\ Pops(c, v, x, Head(v.sending), {"sending"}, none, z)
              /\ x.expiring = v.expiring /\ x.accept = v.accept /\ x.updates = v.updates
              /\ x.sending = Tail(v.sending)
      BY <2>1, SendingPops
    <3>2. QED BY <2>1, <3>1
  <2> HIDE DEF v, o
  <2>3. /\ k \in Slab(v) /\ Sound(c, o, one, z) /\ Slab(o) = Slab(v) /\ Marks(o, k) = Marks(v, k) \ P
        /\ o \in Locked(c.i) /\ Steady(c, v, o, {}) /\ o.store = v.store /\ o.initWindow = v.initWindow
        /\ Took(c, v, o, none, k, P, z) /\ none \cup one = one
    BY <2>2 DEF Pops, Took
  <2>4. st \in Streams /\ Ready(c, st, Marks(o, k)) /\ Fine(c, v.initWindow, k, st, Marks(v, k)) /\ "sending" \notin Marks(o, k)
        /\ Fine(c, o.initWindow, k, st, Marks(o, k))
    <3>1. st \in Streams BY <2>1, <2>3, StreamTyped
    <3>2. Settled(c, v.store[k], Marks(v, k)) /\ Fine(c, v.initWindow, k, v.store[k], Marks(v, k))
      BY <2>1, <2>3 DEF Sound
    <3>3. Ready(c, v.store[k], Marks(v, k)) BY <3>2 DEF Settled
    <3>4. P \subseteq {"updates", "sending", "expiring"} OBVIOUS
    <3>5. Ready(c, o.store[k], Marks(o, k))
      <4> HIDE DEF P, none, z, k
      <4>1. QED BY <2>3, <3>3, <3>4, TookReady
    <3>6. Fine(c, o.initWindow, k, o.store[k], Marks(o, k)) BY <2>3 DEF Sound
    <3>7. QED BY <2>3, <3>1, <3>2, <3>5, <3>6
  <2>5. "sending" \in Marks(v, k)
    <3>1. v.sending \in Seq(Int) BY <2>1 DEF Locked
    <3>2. Queued(v.sending, k) BY <2>1, <3>1 DEF Queued, Contains
    <3>3. QED BY <3>2, MarksAre
  <2>6. ASSUME NEW r, WasSent(st, r), NEW x, x = Sets(o, k, r)
        PROVE  Popping(c, m, Popped(Requeue(x, k, y), TRUE), Tail(q))
    <3>1. /\ r \in Streams /\ r.promises = st.promises /\ r.counted = st.counted /\ r.inFlight = st.inFlight
          /\ Follows(c, st, r) /\ Fine(c, o.initWindow, k, r, Marks(o, k) \cup Comes(r))
          /\ Ready(c, r, Marks(o, k) \cup Comes(r))
      <4> HIDE DEF st, k
      <4>1. QED BY <2>4, <2>6, SentFine
    <3> DEFINE n == Requeue(Sets(o, k, r), k, y)
    <3>2. /\ k \in Slab(o) /\ Sound(c, o, {k}, 0) /\ r.promises = o.store[k].promises /\ r.counted = o.store[k].counted
          /\ r.inFlight = o.store[k].inFlight /\ Follows(c, o.store[k], r)
      BY <2>3, <3>1
    <3>3. Sound(c, n, {}, 0) /\ Steady(c, o, n, {})
      <4> HIDE DEF k
      <4>1. QED BY <3>1, <3>2, RequeueSound
    <3> HIDE DEF n
    <3>4. n \in Locked(c.i) BY <3>3 DEF Sound
    <3>5. Steady(c, m, o, {}) BY <2>1, <2>3, SteadyTwice
    <3>6. Steady(c, m, n, {}) BY <2>3, <3>3, <3>4, <3>5, SteadyTwice
    <3>7. Popped(n, TRUE).me = n /\ Popped(n, TRUE).frame = TRUE BY DEF Popped
    <3>10. Popped(n, TRUE) \in [me : Locked(c.i), frame : BOOLEAN] BY <3>4 DEF Popped
    <3>8. Popping(c, m, Popped(n, TRUE), Tail(q)) BY <3>3, <3>6, <3>7, <3>10 DEF Popping
    <3>9. QED BY <2>6, <3>8 DEF n
  <2>7. CASE st.out # <<>>
    <3> DEFINE r == Lighter(st)
               x == Sets(o, k, r)
    <3>1. WasSent(st, r) BY <2>7 DEF WasSent
    <3>2. x = [o EXCEPT !.store[k].out = Tail(@)] BY <2>3 DEF Sets, Stored, Lighter
    <3>3. PopRound(acc, k) = Popped(Requeue(x, k, y), TRUE)
      <4> HIDE DEF x
      <4>1. o = [acc.me EXCEPT !.sending = Tail(@)] BY DEF o, v
      <4>2. o.store[k].out # <<>> BY <2>3, <2>7
      <4>3. QED BY <1>2, <3>2, <4>1, <4>2 DEF PopRound
    <3> HIDE DEF x
    <3>4. QED BY <2>6, <3>1, <3>3 DEF x
  <2>8. CASE st.out = <<>> /\ IsScheduledReset(st.state)
    <3> DEFINE r == Dead(st)
               x == Sets(o, k, r)
    <3>1. WasSent(st, r) BY <2>8 DEF WasSent
    <3>2. x = [o EXCEPT !.store[k].state = SetReset(@)] BY <2>3 DEF Sets, Stored, Dead
    <3>3. PopRound(acc, k) = Popped(Requeue(x, k, y), TRUE)
      <4> HIDE DEF x
      <4>1. o = [acc.me EXCEPT !.sending = Tail(@)] BY DEF o, v
      <4>2. o.store[k].out = <<>> /\ IsScheduledReset(o.store[k].state) BY <2>3, <2>8
      <4>3. QED BY <1>2, <3>2, <4>1, <4>2 DEF PopRound
    <3> HIDE DEF x
    <3>4. QED BY <2>6, <3>1, <3>3 DEF x
  <2>9. CASE st.out = <<>> /\ ~IsScheduledReset(st.state)
    <3> DEFINE n == TransitionAfter(o, k, y)
    <3>1. IsClosed(st.state) BY <2>4, <2>5, <2>9 DEF Fine
    <3>2. PopRound(acc, k) = Popped(n, FALSE)
      <4>1. o = [acc.me EXCEPT !.sending = Tail(@)] BY DEF o, v
      <4>2. o.store[k].out = <<>> /\ ~IsScheduledReset(o.store[k].state) /\ IsClosed(o.store[k].state) BY <2>3, <2>9, <3>1
      <4>3. Check(o, IsClosed(o.store[k].state), "dangling stream") = o BY <4>2 DEF Check
      <4>4. QED BY <1>2, <4>1, <4>2, <4>3 DEF PopRound
    <3>3. Settles(c, o, n, k, one, z)
      <4>1. y \in BOOLEAN /\ MayExpire(o, k, y) BY DEF Queued, Contains, MayExpire
      <4>2. k \in Slab(o) /\ Ready(c, o.store[k], Marks(o, k)) BY <2>3, <2>4
      <4> HIDE DEF y, one, z, n, k
      <4>3. Settles(c, o, TransitionAfter(o, k, y), k, one, z) BY <2>3, <4>1, <4>2, TransitionSettles
      <4>4. QED BY <4>3 DEF n
    <3> HIDE DEF n
    <3>4. Sound(c, n, {}, 0) /\ Steady(c, o, n, {}) /\ n.sending = o.sending
      <4>1. one \ {k} = {} OBVIOUS
      <4>2. QED BY <3>3, <4>1 DEF Settles, Thins
    <3>5. n \in Locked(c.i) BY <3>4 DEF Sound
    <3>6. Steady(c, m, o, {}) BY <2>1, <2>3, SteadyTwice
    <3>7. Steady(c, m, n, {}) BY <2>3, <3>4, <3>5, <3>6, SteadyTwice
    <3>8. Popped(n, FALSE).me = n /\ Popped(n, FALSE).frame = FALSE BY DEF Popped
    <3>11. Popped(n, FALSE) \in [me : Locked(c.i), frame : BOOLEAN] BY <3>5 DEF Popped
    <3>9. Popping(c, m, Popped(n, FALSE), Tail(q)) BY <2>2, <3>4, <3>7, <3>8, <3>11 DEF Popping
    <3>10. QED BY <3>2, <3>9
  <2>10. QED BY <2>7, <2>8, <2>9
<1>3. QED BY <1>1, <1>2

\* pop_frame keeps the record sound, and the peer sees nothing of it.
LEMMA PopFrameSound ==
  ASSUME NEW c \in Contexts, NEW m, Sound(c, m, {}, 0)
  PROVE  LET acc == PopFrame(m)
         IN  Sound(c, acc.me, {}, 0) /\ Steady(c, m, acc.me, {})
<1> DEFINE q == m.sending
           n == Len(q)
           base == Popped(m, FALSE)
           Accs == [me : Locked(c.i), frame : BOOLEAN]
           W == {p \in (0 .. n) \X Accs : Popping(c, m, p[2], Rest(q, p[1]))}
           Round(v, k) == PopRound(v, q[k])
           Body(h) == [i \in 0 .. n |-> IF i = 0 THEN base ELSE Round(h[i - 1], i)]
           g == [p \in (1 .. n) \X Accs |-> Round(p[2], p[1])]
<1>1. m \in Locked(c.i) BY DEF Sound
<1>2. q \in Seq(Int) /\ n \in Nat BY <1>1 DEF Locked
<1>3. \A k \in 1 .. n : Rest(q, k - 1) # <<>> /\ Head(Rest(q, k - 1)) = q[k] /\ Tail(Rest(q, k - 1)) = Rest(q, k)
  BY <1>2, RestIs
<1>4. Rest(q, 0) = q BY <1>2, RestIs
<1>5. <<0, base>> \in W
  <2> DEFINE z == 0
             none == {}
  <2>1. z \in 0 .. n /\ base \in Accs /\ base.me = m BY <1>1, <1>2 DEF Popped
  <2>2. Steady(c, m, m, none)
    <3> HIDE DEF none
    <3>1. QED BY <1>1, SteadySelf
  <2>3. Rest(q, z) = q BY <1>4
  <2> HIDE DEF z
  <2>4. Popping(c, m, base, Rest(q, z))
    <3> HIDE DEF base
    <3>1. QED BY <2>1, <2>2, <2>3 DEF Popping
  <2> HIDE DEF base
  <2>5. <<z, base>> \in W BY <2>1, <2>4
  <2>6. QED BY <2>5 DEF z
<1> HIDE DEF base, q
<1>6. ASSUME NEW k \in 1 .. n, NEW v, <<k - 1, v>> \in W
      PROVE  v \in Accs /\ <<k, Round(v, k)>> \in W
  <2>1. v \in Accs /\ Popping(c, m, v, Rest(q, k - 1)) BY <1>6
  <2> DEFINE r == Rest(q, k - 1)
             o == PopRound(v, Head(r))
  <2>2. r # <<>> /\ Head(r) = q[k] /\ Tail(r) = Rest(q, k) /\ k \in 0 .. n BY <1>2, <1>3
  <2> HIDE DEF r
  <2>3. Popping(c, m, v, r) BY <2>1 DEF r
  <2>4. Popping(c, m, o, Tail(r)) BY <1>1, <2>2, <2>3, PopRoundSound
  <2> HIDE DEF o
  <2>5. o \in Accs BY <2>4 DEF Popping
  <2>6. <<k, o>> \in W BY <2>2, <2>4, <2>5
  <2>7. QED BY <2>1, <2>2, <2>6 DEF o
<1>7. \A k \in 1 .. n : \A v : <<k - 1, v>> \in W => <<k, g[<<k, v>>]>> \in W
  <2> HIDE DEF W, Accs
  <2>1. QED BY <1>6
<1> HIDE DEF W, g, Accs
<1>8. PICK f : Loops(n, base, g, f) /\ \A k \in 0 .. n : <<k, f[k]>> \in W
  <2>1. CanLoop(n, W, base, g) BY <1>2, <1>5, <1>7 DEF CanLoop
  <2>2. QED BY <2>1, LoopRecursion
<1>9. f = Body(f)
  <2>1. \A k \in 1 .. n : k - 1 \in 0 .. n /\ <<k - 1, f[k - 1]>> \in W BY <1>2, <1>8
  <2>2. \A k \in 1 .. n : f[k - 1] \in Accs BY <1>6, <2>1
  <2>3. \A k \in 1 .. n : g[<<k, f[k - 1]>>] = Round(f[k - 1], k) BY <2>2 DEF g
  <2>4. f = [k \in 0 .. n |-> IF k = 0 THEN base ELSE g[<<k, f[k - 1]>>]] BY <1>8 DEF Loops
  <2>5. \A k \in 0 .. n : k # 0 => k \in 1 .. n BY <1>2
  <2>6. QED BY <2>3, <2>4, <2>5
<1> DEFINE after == CHOOSE h : h = Body(h)
<1>10. after = Body(after)
  <2> HIDE DEF Body
  <2> QED BY <1>9
<1>11. PopFrame(m) = after[n] BY DEF PopFrame, Each, PopRound, base, q
<1>12. /\ after[0] = base
       /\ \A k \in 1 .. n : after[k] = Round(after[k - 1], k)
  <2> HIDE DEF after
  <2>1. \A k \in 0 .. n : after[k] = IF k = 0 THEN base ELSE Round(after[k - 1], k) BY <1>10
  <2>2. QED BY <1>2, <2>1
<1> HIDE DEF after
<1>13. <<n, after[n]>> \in W
  <2>1. \A k \in 1 .. n : <<k - 1, after[k - 1]>> \in W => <<k, after[k]>> \in W BY <1>6, <1>12
  <2>2. <<0, after[0]>> \in W BY <1>5, <1>12
  <2> HIDE DEF n
  <2>3. QED BY <1>2, <2>1, <2>2, LoopHolds
<1>14. Sound(c, after[n].me, {}, 0) /\ Steady(c, m, after[n].me, {}) BY <1>13 DEF W, Popping
<1>15. QED BY <1>11, <1>14

\* A frame is written.
LEMMA WriteFrameStep ==
  ASSUME IInv, WriteFrame
  PROVE  IInv'
<1> DEFINE n == PopFrame(me).me
<1>1. me' = n /\ UNCHANGED <<instance, end, peer, app, changes>> BY DEF WriteFrame, Wrote
<1>2. Context \in Contexts /\ Sound(Context, me, {}, 0) BY Before
<1>3. Sound(Context, n, {}, 0) /\ Steady(Context, me, n, {}) BY <1>2, PopFrameSound
<1>4. changes' \in 0 .. MaxChanges[instance] BY <1>1 DEF IInv
<1> HIDE DEF n
<1>5. QED BY <1>1, <1>3, <1>4, QuietStep

\* There is none, and the task parks.
LEMMA ParkStep ==
  ASSUME IInv, Park
  PROVE  IInv'
<1> DEFINE n == PopFrame(me).me
           c == Context
           no == FALSE
           z == 0
           none == {}
           o == [n EXCEPT !.woken = no]
<1>1. me' = o /\ UNCHANGED <<instance, end, peer, app, changes>> BY DEF Park, Wrote
<1>2. c \in Contexts /\ Sound(c, me, {}, 0) BY Before
<1>3. Sound(c, n, none, z) /\ Steady(c, me, n, {}) /\ z \in Int /\ no \in BOOLEAN BY <1>2, PopFrameSound
<1>4. changes' \in 0 .. MaxChanges[instance] BY <1>1 DEF IInv
<1> HIDE DEF n, z, none, no, c
<1>5. Moved(c, n, o, n.flow, none, z) BY <1>2, <1>3, WakeSound
<1> HIDE DEF o
<1>6. Sound(c, o, {}, 0) /\ Steady(c, n, o, {}) BY <1>5 DEF Moved, none, z
<1>7. Steady(c, me, o, {})
  <2>1. me \in Locked(c.i) /\ n \in Locked(c.i) /\ o \in Locked(c.i) BY <1>2, <1>3, <1>6 DEF Sound
  <2>2. QED BY <1>3, <1>6, <2>1, SteadyTwice
<1>8. Sound(Context, o, {}, 0) /\ Steady(Context, me, o, {}) BY <1>6, <1>7 DEF c
<1> HIDE DEF o
<1>9. QED BY <1>1, <1>4, <1>8, QuietStep

-----------------------------------------------------------------------------
(* The connection is over: its queues are emptied.                           *)

\* All streams have ended.
AllOver(c, m) == Sound(c, m, {}, 0) /\ \A k \in Slab(m) : IsClosed(m.store[k].state)

\* n is m when one stream has been looked at.
Onward(c, m, n) ==
  /\ AllOver(c, n) /\ n.accept = m.accept /\ n.updates = m.updates /\ n.expiring = m.expiring
  /\ n.sending = m.sending

\* What only loses ids, slots and entries stays over.
LEMMA ThinsOver ==
  ASSUME NEW c \in Contexts, NEW m \in Locked(c.i), NEW n, NEW gone, Thins(m, n, gone), Sound(c, n, {}, 0),
         \A k \in Slab(m) : IsClosed(m.store[k].state)
  PROVE  Onward(c, m, n)
<1>1. ASSUME NEW k \in Slab(n) PROVE IsClosed(n.store[k].state)
  <2> DEFINE a == m.store[k]
             b == n.store[k]
  <2>1. k \in Slab(m) /\ SameBut(a, b) BY DEF Thins
  <2>2. a \in Streams /\ IsClosed(a.state) BY <2>1, StreamTyped
  <2> HIDE DEF a, b
  <2>3. b.state = a.state BY <2>1, <2>2 DEF SameBut, Streams
  <2>4. QED BY <2>2, <2>3 DEF b
<1>2. QED BY <1>1 DEF Onward, AllOver, Thins

\* transition_after of a stream that has ended.
LEMMA PassedOver ==
  ASSUME NEW c \in Contexts, NEW m, NEW k \in Slab(m), Sound(c, m, {k}, 0), NEW y \in BOOLEAN, MayExpire(m, k, y),
         \A j \in Slab(m) : IsClosed(m.store[j].state), Ready(c, m.store[k], Marks(m, k))
  PROVE  Onward(c, m, TransitionAfter(m, k, y))
<1> DEFINE one == {k}
           z == 0
           n == TransitionAfter(m, k, y)
<1>1. Sound(c, m, one, z) /\ one \ {k} = {} /\ m \in Locked(c.i) BY DEF Sound
<1> HIDE DEF one, z, n
<1>2. Settles(c, m, n, k, one, z)
  <2>1. Settles(c, m, TransitionAfter(m, k, y), k, one, z) BY <1>1, TransitionSettles
  <2>2. QED BY <2>1 DEF n
<1>3. Sound(c, n, {}, 0) /\ Thins(m, n, Gone(m, k)) BY <1>1, <1>2 DEF Settles, z
<1>4. Onward(c, m, n) BY <1>1, <1>3, ThinsOver
<1>5. QED BY <1>4 DEF n

UpdateDropped(n, t) ==
  LET o == [n EXCEPT !.updates = Tail(@)] IN TransitionAfter(o, t, Queued(o.expiring, t))
SendingDropped(n, t) ==
  LET o == [n EXCEPT !.sending = Tail(@)] IN TransitionAfter(o, t, Queued(o.expiring, t))
ExpiringDropped(n, t) == TransitionAfter([n EXCEPT !.expiring = Tail(@)], t, TRUE)
AcceptDropped(n, t) == TransitionAfter([n EXCEPT !.accept = Tail(@)], t, FALSE)

\* clear_stream_window_update_queue takes one stream.
LEMMA UpdateDrops ==
  ASSUME NEW c \in Contexts, NEW m, AllOver(c, m), NEW q, q # <<>>, m.updates = q
  PROVE  LET n == UpdateDropped(m, Head(q)) IN AllOver(c, n) /\ n.updates = Tail(q)
<1> DEFINE o == [m EXCEPT !.updates = Tail(@)]
           k == Head(q)
           y == Queued(o.expiring, k)
           n == TransitionAfter(o, k, y)
           P == {"updates"}
           none == {}
           z == 0
<1>1. Sound(c, m, none, z) /\ m.updates # <<>> /\ \A j \in Slab(m) : IsClosed(m.store[j].state) BY DEF AllOver
<1>2. Pops(c, m, o, k, P, none, z) /\ o.updates = Tail(q)
  <2> HIDE DEF none, z
  <2>1. LET x == [m EXCEPT !.updates = Tail(@)]
        IN  /\ Pops(c, m, x, Head(m.updates), {"updates"}, none, z)
            /\ x.expiring = m.expiring /\ x.accept = m.accept /\ x.sending = m.sending
            /\ x.updates = Tail(m.updates)
    BY <1>1, UpdatePops
  <2>2. QED BY <2>1
<1> HIDE DEF o
<1>3. /\ k \in Slab(m) /\ Sound(c, o, none \cup {k}, z) /\ Slab(o) = Slab(m) /\ o.store = m.store
      /\ Took(c, m, o, none, k, P, z)
  BY <1>2 DEF Pops, Took
<1>4. Ready(c, o.store[k], Marks(o, k))
  <2>1. Ready(c, m.store[k], Marks(m, k)) BY <1>1, <1>3 DEF Sound, Settled
  <2>2. P \subseteq {"updates", "sending", "expiring"} OBVIOUS
  <2> HIDE DEF P, none, z, k
  <2>3. QED BY <1>3, <2>1, <2>2, TookReady
<1>5. Onward(c, o, n)
  <2>1. k \in Slab(o) /\ Sound(c, o, {k}, 0) /\ \A j \in Slab(o) : IsClosed(o.store[j].state) BY <1>1, <1>3
  <2>2. y \in BOOLEAN /\ MayExpire(o, k, y) BY DEF Queued, Contains, MayExpire
  <2> HIDE DEF k, y, n
  <2>3. Onward(c, o, TransitionAfter(o, k, y)) BY <1>4, <2>1, <2>2, PassedOver
  <2>4. QED BY <2>3 DEF n
<1>6. n = UpdateDropped(m, k) BY DEF UpdateDropped, o
<1> HIDE DEF n
<1>7. QED BY <1>2, <1>5, <1>6 DEF Onward

\* Prioritize::clear_pending_send takes one stream.
LEMMA SendingDrops ==
  ASSUME NEW c \in Contexts, NEW m, AllOver(c, m), NEW q, q # <<>>, m.sending = q
  PROVE  LET n == SendingDropped(m, Head(q)) IN AllOver(c, n) /\ n.sending = Tail(q)
<1> DEFINE o == [m EXCEPT !.sending = Tail(@)]
           k == Head(q)
           y == Queued(o.expiring, k)
           n == TransitionAfter(o, k, y)
           P == {"sending"}
           none == {}
           z == 0
<1>1. Sound(c, m, none, z) /\ m.sending # <<>> /\ \A j \in Slab(m) : IsClosed(m.store[j].state) BY DEF AllOver
<1>2. Pops(c, m, o, k, P, none, z) /\ o.sending = Tail(q)
  <2> HIDE DEF none, z
  <2>1. LET x == [m EXCEPT !.sending = Tail(@)]
        IN  /\ Pops(c, m, x, Head(m.sending), {"sending"}, none, z)
            /\ x.expiring = m.expiring /\ x.accept = m.accept /\ x.updates = m.updates
            /\ x.sending = Tail(m.sending)
    BY <1>1, SendingPops
  <2>2. QED BY <2>1
<1> HIDE DEF o
<1>3. /\ k \in Slab(m) /\ Sound(c, o, none \cup {k}, z) /\ Slab(o) = Slab(m) /\ o.store = m.store
      /\ Took(c, m, o, none, k, P, z)
  BY <1>2 DEF Pops, Took
<1>4. Ready(c, o.store[k], Marks(o, k))
  <2>1. Ready(c, m.store[k], Marks(m, k)) BY <1>1, <1>3 DEF Sound, Settled
  <2>2. P \subseteq {"updates", "sending", "expiring"} OBVIOUS
  <2> HIDE DEF P, none, z, k
  <2>3. QED BY <1>3, <2>1, <2>2, TookReady
<1>5. Onward(c, o, n)
  <2>1. k \in Slab(o) /\ Sound(c, o, {k}, 0) /\ \A j \in Slab(o) : IsClosed(o.store[j].state) BY <1>1, <1>3
  <2>2. y \in BOOLEAN /\ MayExpire(o, k, y) BY DEF Queued, Contains, MayExpire
  <2> HIDE DEF k, y, n
  <2>3. Onward(c, o, TransitionAfter(o, k, y)) BY <1>4, <2>1, <2>2, PassedOver
  <2>4. QED BY <2>3 DEF n
<1>6. n = SendingDropped(m, k) BY DEF SendingDropped, o
<1> HIDE DEF n
<1>7. QED BY <1>2, <1>5, <1>6 DEF Onward

\* Of what is not yet accepted nobody knows any more.
LEMMA AcceptDrops ==
  ASSUME NEW c \in Contexts, ~Strict(c), NEW m, AllOver(c, m), NEW q, q # <<>>, m.accept = q
  PROVE  LET n == AcceptDropped(m, Head(q)) IN AllOver(c, n) /\ n.accept = Tail(q)
<1> DEFINE o == [m EXCEPT !.accept = Tail(@)]
           k == Head(q)
           y == FALSE
           n == TransitionAfter(o, k, y)
           P == {"accept"}
           none == {}
           z == 0
<1>1. Sound(c, m, none, z) /\ m.accept # <<>> /\ \A j \in Slab(m) : IsClosed(m.store[j].state) BY DEF AllOver
<1>2. Pops(c, m, o, k, P, none, z) /\ o.accept = Tail(q)
  <2> HIDE DEF none, z
  <2>1. LET x == [m EXCEPT !.accept = Tail(@)]
        IN  /\ Pops(c, m, x, Head(m.accept), {"accept"}, none, z)
            /\ x.expiring = m.expiring /\ x.updates = m.updates /\ x.sending = m.sending
            /\ x.accept = Tail(m.accept)
    BY <1>1, AcceptPops
  <2>2. QED BY <2>1
<1> HIDE DEF o
<1>3. /\ k \in Slab(m) /\ Sound(c, o, none \cup {k}, z) /\ Slab(o) = Slab(m) /\ o.store = m.store
      /\ Took(c, m, o, none, k, P, z)
  BY <1>2 DEF Pops, Took
<1>4. Ready(c, o.store[k], Marks(o, k))
  <2>1. Ready(c, m.store[k], Marks(m, k)) /\ IsClosed(m.store[k].state) BY <1>1, <1>3 DEF Sound, Settled
  <2>2. Marks(o, k) = Marks(m, k) \ P BY <1>3 DEF Took
  <2>3. "expiring" \in Marks(o, k) => "expiring" \in Marks(m, k) BY <2>2
  <2> HIDE DEF P, k
  <2>4. QED BY <1>3, <2>1, <2>3 DEF Ready, Owned, Keeps
<1>5. Onward(c, o, n)
  <2>1. k \in Slab(o) /\ Sound(c, o, {k}, 0) /\ \A j \in Slab(o) : IsClosed(o.store[j].state) BY <1>1, <1>3
  <2>2. y \in BOOLEAN /\ MayExpire(o, k, y) BY DEF MayExpire
  <2> HIDE DEF k, y, n
  <2>3. Onward(c, o, TransitionAfter(o, k, y)) BY <1>4, <2>1, <2>2, PassedOver
  <2>4. QED BY <2>3 DEF n
<1>6. n = AcceptDropped(m, k) BY DEF AcceptDropped, o
<1> HIDE DEF n
<1>7. QED BY <1>2, <1>5, <1>6 DEF Onward

\* clear_all_reset_streams takes one stream.
LEMMA ExpiringDrops ==
  ASSUME NEW c \in Contexts, NEW m, AllOver(c, m), NEW q, q # <<>>, m.expiring = q
  PROVE  LET n == ExpiringDropped(m, Head(q)) IN AllOver(c, n) /\ n.expiring = Tail(q)
<1> DEFINE o == [m EXCEPT !.expiring = Tail(@)]
           k == Head(q)
           n == ExpiringDropped(m, k)
           none == {}
           z == 0
<1>1. Sound(c, m, none, z) /\ Oldest(m, o, k) /\ k \notin none /\ \A j \in Slab(m) : IsClosed(m.store[j].state)
  BY DEF AllOver, Oldest
<1>2. Left(c, m, o, n, k, none, z)
  <2> HIDE DEF o, k, none, z, n
  <2>1. TransitionAfter(o, k, TRUE) = n BY <1>1 DEF n, o, ExpiringDropped
  <2>2. Left(c, m, o, TransitionAfter(o, k, TRUE), k, none, z) BY <1>1, OldestSound
  <2>3. QED BY <2>1, <2>2
<1> HIDE DEF n
<1>3. /\ o \in Locked(c.i) /\ o.store = m.store /\ Thins(o, n, Gone(o, k)) /\ Sound(c, n, none, z)
  BY <1>2 DEF Left, Takes
<1>4. o.expiring = Tail(q)
  <2>1. Takes(m, o, k, {"expiring"}) BY <1>2 DEF Left
  <2>2. QED BY <2>1 DEF Takes, Pop
<1>5. \A j \in Slab(o) : IsClosed(o.store[j].state) BY <1>1, <1>3 DEF Slab
<1> HIDE DEF o
<1>6. Onward(c, o, n) BY <1>3, <1>5, ThinsOver
<1>7. QED BY <1>4, <1>6 DEF Onward, n

\* So the queues are emptied.

\* It takes all, ...
LEMMA UpdatesOver ==
  ASSUME NEW c \in Contexts, NEW m, AllOver(c, m), NEW q, m.updates = q
  PROVE  AllOver(c, Each(UpdateDropped, m, q))
<1> DEFINE n == Len(q)
           W == {p \in (0 .. n) \X Locked(c.i) : AllOver(c, p[2]) /\ p[2].updates = Rest(q, p[1])}
           Round(v, k) == UpdateDropped(v, q[k])
           Body(h) == [i \in 0 .. n |-> IF i = 0 THEN m ELSE Round(h[i - 1], i)]
           g == [p \in (1 .. n) \X Locked(c.i) |-> Round(p[2], p[1])]
<1>1. m \in Locked(c.i) BY DEF AllOver, Sound
<1>2. q \in Seq(Int) /\ n \in Nat BY <1>1 DEF Locked
<1>3. \A k \in 1 .. n : Rest(q, k - 1) # <<>> /\ Head(Rest(q, k - 1)) = q[k] /\ Tail(Rest(q, k - 1)) = Rest(q, k)
  BY <1>2, RestIs
<1>4. <<0, m>> \in W
  <2>1. Rest(q, 0) = q BY <1>2, RestIs
  <2>2. QED BY <1>1, <1>2, <2>1
<1>5. ASSUME NEW k \in 1 .. n, NEW v, <<k - 1, v>> \in W
      PROVE  v \in Locked(c.i) /\ <<k, Round(v, k)>> \in W
  <2> DEFINE r == Rest(q, k - 1)
             o == UpdateDropped(v, Head(r))
  <2>1. v \in Locked(c.i) /\ AllOver(c, v) /\ v.updates = r BY <1>5
  <2>2. r # <<>> /\ Head(r) = q[k] /\ Tail(r) = Rest(q, k) /\ k \in 0 .. n BY <1>2, <1>3
  <2> HIDE DEF r
  <2>3. AllOver(c, o) /\ o.updates = Tail(r) BY <2>1, <2>2, UpdateDrops
  <2> HIDE DEF o
  <2>4. o \in Locked(c.i) BY <2>3 DEF AllOver, Sound
  <2>5. <<k, o>> \in W BY <2>2, <2>3, <2>4
  <2>6. QED BY <2>1, <2>2, <2>5 DEF o
<1>6. \A k \in 1 .. n : \A v : <<k - 1, v>> \in W => <<k, g[<<k, v>>]>> \in W
  <2> HIDE DEF W
  <2>1. QED BY <1>5
<1> HIDE DEF W, g
<1>7. PICK f : Loops(n, m, g, f) /\ \A k \in 0 .. n : <<k, f[k]>> \in W
  <2>1. CanLoop(n, W, m, g) BY <1>2, <1>4, <1>6 DEF CanLoop
  <2>2. QED BY <2>1, LoopRecursion
<1>8. f = Body(f)
  <2>1. \A k \in 1 .. n : k - 1 \in 0 .. n /\ <<k - 1, f[k - 1]>> \in W BY <1>2, <1>7
  <2>2. \A k \in 1 .. n : f[k - 1] \in Locked(c.i) BY <1>5, <2>1
  <2>3. \A k \in 1 .. n : g[<<k, f[k - 1]>>] = Round(f[k - 1], k) BY <2>2 DEF g
  <2>4. f = [k \in 0 .. n |-> IF k = 0 THEN m ELSE g[<<k, f[k - 1]>>]] BY <1>7 DEF Loops
  <2>5. \A k \in 0 .. n : k # 0 => k \in 1 .. n BY <1>2
  <2>6. QED BY <2>3, <2>4, <2>5
<1> DEFINE after == CHOOSE h : h = Body(h)
<1>9. after = Body(after)
  <2> HIDE DEF Body
  <2> QED BY <1>8
<1>10. Each(UpdateDropped, m, q) = after[n] BY DEF Each
<1>11. after[0] = m /\ \A k \in 1 .. n : after[k] = Round(after[k - 1], k)
  <2> HIDE DEF after
  <2>1. \A k \in 0 .. n : after[k] = IF k = 0 THEN m ELSE Round(after[k - 1], k) BY <1>9
  <2>2. QED BY <1>2, <2>1
<1> HIDE DEF after
<1>12. <<n, after[n]>> \in W
  <2>1. \A k \in 1 .. n : <<k - 1, after[k - 1]>> \in W => <<k, after[k]>> \in W BY <1>5, <1>11
  <2>2. <<0, after[0]>> \in W BY <1>4, <1>11
  <2> HIDE DEF n
  <2>3. QED BY <1>2, <2>1, <2>2, LoopHolds
<1>13. AllOver(c, after[n]) BY <1>12 DEF W
<1>14. QED BY <1>10, <1>13

\* ... so does clear_all_reset_streams, ...
LEMMA ExpiringOver ==
  ASSUME NEW c \in Contexts, NEW m, AllOver(c, m), NEW q, m.expiring = q
  PROVE  AllOver(c, Each(ExpiringDropped, m, q))
<1> DEFINE n == Len(q)
           W == {p \in (0 .. n) \X Locked(c.i) : AllOver(c, p[2]) /\ p[2].expiring = Rest(q, p[1])}
           Round(v, k) == ExpiringDropped(v, q[k])
           Body(h) == [i \in 0 .. n |-> IF i = 0 THEN m ELSE Round(h[i - 1], i)]
           g == [p \in (1 .. n) \X Locked(c.i) |-> Round(p[2], p[1])]
<1>1. m \in Locked(c.i) BY DEF AllOver, Sound
<1>2. q \in Seq(Int) /\ n \in Nat BY <1>1 DEF Locked
<1>3. \A k \in 1 .. n : Rest(q, k - 1) # <<>> /\ Head(Rest(q, k - 1)) = q[k] /\ Tail(Rest(q, k - 1)) = Rest(q, k)
  BY <1>2, RestIs
<1>4. <<0, m>> \in W
  <2>1. Rest(q, 0) = q BY <1>2, RestIs
  <2>2. QED BY <1>1, <1>2, <2>1
<1>5. ASSUME NEW k \in 1 .. n, NEW v, <<k - 1, v>> \in W
      PROVE  v \in Locked(c.i) /\ <<k, Round(v, k)>> \in W
  <2> DEFINE r == Rest(q, k - 1)
             o == ExpiringDropped(v, Head(r))
  <2>1. v \in Locked(c.i) /\ AllOver(c, v) /\ v.expiring = r BY <1>5
  <2>2. r # <<>> /\ Head(r) = q[k] /\ Tail(r) = Rest(q, k) /\ k \in 0 .. n BY <1>2, <1>3
  <2> HIDE DEF r
  <2>3. AllOver(c, o) /\ o.expiring = Tail(r) BY <2>1, <2>2, ExpiringDrops
  <2> HIDE DEF o
  <2>4. o \in Locked(c.i) BY <2>3 DEF AllOver, Sound
  <2>5. <<k, o>> \in W BY <2>2, <2>3, <2>4
  <2>6. QED BY <2>1, <2>2, <2>5 DEF o
<1>6. \A k \in 1 .. n : \A v : <<k - 1, v>> \in W => <<k, g[<<k, v>>]>> \in W
  <2> HIDE DEF W
  <2>1. QED BY <1>5
<1> HIDE DEF W, g
<1>7. PICK f : Loops(n, m, g, f) /\ \A k \in 0 .. n : <<k, f[k]>> \in W
  <2>1. CanLoop(n, W, m, g) BY <1>2, <1>4, <1>6 DEF CanLoop
  <2>2. QED BY <2>1, LoopRecursion
<1>8. f = Body(f)
  <2>1. \A k \in 1 .. n : k - 1 \in 0 .. n /\ <<k - 1, f[k - 1]>> \in W BY <1>2, <1>7
  <2>2. \A k \in 1 .. n : f[k - 1] \in Locked(c.i) BY <1>5, <2>1
  <2>3. \A k \in 1 .. n : g[<<k, f[k - 1]>>] = Round(f[k - 1], k) BY <2>2 DEF g
  <2>4. f = [k \in 0 .. n |-> IF k = 0 THEN m ELSE g[<<k, f[k - 1]>>]] BY <1>7 DEF Loops
  <2>5. \A k \in 0 .. n : k # 0 => k \in 1 .. n BY <1>2
  <2>6. QED BY <2>3, <2>4, <2>5
<1> DEFINE after == CHOOSE h : h = Body(h)
<1>9. after = Body(after)
  <2> HIDE DEF Body
  <2> QED BY <1>8
<1>10. Each(ExpiringDropped, m, q) = after[n] BY DEF Each
<1>11. after[0] = m /\ \A k \in 1 .. n : after[k] = Round(after[k - 1], k)
  <2> HIDE DEF after
  <2>1. \A k \in 0 .. n : after[k] = IF k = 0 THEN m ELSE Round(after[k - 1], k) BY <1>9
  <2>2. QED BY <1>2, <2>1
<1> HIDE DEF after
<1>12. <<n, after[n]>> \in W
  <2>1. \A k \in 1 .. n : <<k - 1, after[k - 1]>> \in W => <<k, after[k]>> \in W BY <1>5, <1>11
  <2>2. <<0, after[0]>> \in W BY <1>4, <1>11
  <2> HIDE DEF n
  <2>3. QED BY <1>2, <2>1, <2>2, LoopHolds
<1>13. AllOver(c, after[n]) BY <1>12 DEF W
<1>14. QED BY <1>10, <1>13

\* ... clear_all_pending_accept ...
LEMMA AcceptOver ==
  ASSUME NEW c \in Contexts, ~Strict(c), NEW m, AllOver(c, m), NEW q, m.accept = q
  PROVE  AllOver(c, Each(AcceptDropped, m, q))
<1> DEFINE n == Len(q)
           W == {p \in (0 .. n) \X Locked(c.i) : AllOver(c, p[2]) /\ p[2].accept = Rest(q, p[1])}
           Round(v, k) == AcceptDropped(v, q[k])
           Body(h) == [i \in 0 .. n |-> IF i = 0 THEN m ELSE Round(h[i - 1], i)]
           g == [p \in (1 .. n) \X Locked(c.i) |-> Round(p[2], p[1])]
<1>1. m \in Locked(c.i) BY DEF AllOver, Sound
<1>2. q \in Seq(Int) /\ n \in Nat BY <1>1 DEF Locked
<1>3. \A k \in 1 .. n : Rest(q, k - 1) # <<>> /\ Head(Rest(q, k - 1)) = q[k] /\ Tail(Rest(q, k - 1)) = Rest(q, k)
  BY <1>2, RestIs
<1>4. <<0, m>> \in W
  <2>1. Rest(q, 0) = q BY <1>2, RestIs
  <2>2. QED BY <1>1, <1>2, <2>1
<1>5. ASSUME NEW k \in 1 .. n, NEW v, <<k - 1, v>> \in W
      PROVE  v \in Locked(c.i) /\ <<k, Round(v, k)>> \in W
  <2> DEFINE r == Rest(q, k - 1)
             o == AcceptDropped(v, Head(r))
  <2>1. v \in Locked(c.i) /\ AllOver(c, v) /\ v.accept = r BY <1>5
  <2>2. r # <<>> /\ Head(r) = q[k] /\ Tail(r) = Rest(q, k) /\ k \in 0 .. n BY <1>2, <1>3
  <2> HIDE DEF r
  <2>3. AllOver(c, o) /\ o.accept = Tail(r) BY <2>1, <2>2, AcceptDrops
  <2> HIDE DEF o
  <2>4. o \in Locked(c.i) BY <2>3 DEF AllOver, Sound
  <2>5. <<k, o>> \in W BY <2>2, <2>3, <2>4
  <2>6. QED BY <2>1, <2>2, <2>5 DEF o
<1>6. \A k \in 1 .. n : \A v : <<k - 1, v>> \in W => <<k, g[<<k, v>>]>> \in W
  <2> HIDE DEF W
  <2>1. QED BY <1>5
<1> HIDE DEF W, g
<1>7. PICK f : Loops(n, m, g, f) /\ \A k \in 0 .. n : <<k, f[k]>> \in W
  <2>1. CanLoop(n, W, m, g) BY <1>2, <1>4, <1>6 DEF CanLoop
  <2>2. QED BY <2>1, LoopRecursion
<1>8. f = Body(f)
  <2>1. \A k \in 1 .. n : k - 1 \in 0 .. n /\ <<k - 1, f[k - 1]>> \in W BY <1>2, <1>7
  <2>2. \A k \in 1 .. n : f[k - 1] \in Locked(c.i) BY <1>5, <2>1
  <2>3. \A k \in 1 .. n : g[<<k, f[k - 1]>>] = Round(f[k - 1], k) BY <2>2 DEF g
  <2>4. f = [k \in 0 .. n |-> IF k = 0 THEN m ELSE g[<<k, f[k - 1]>>]] BY <1>7 DEF Loops
  <2>5. \A k \in 0 .. n : k # 0 => k \in 1 .. n BY <1>2
  <2>6. QED BY <2>3, <2>4, <2>5
<1> DEFINE after == CHOOSE h : h = Body(h)
<1>9. after = Body(after)
  <2> HIDE DEF Body
  <2> QED BY <1>8
<1>10. Each(AcceptDropped, m, q) = after[n] BY DEF Each
<1>11. after[0] = m /\ \A k \in 1 .. n : after[k] = Round(after[k - 1], k)
  <2> HIDE DEF after
  <2>1. \A k \in 0 .. n : after[k] = IF k = 0 THEN m ELSE Round(after[k - 1], k) BY <1>9
  <2>2. QED BY <1>2, <2>1
<1> HIDE DEF after
<1>12. <<n, after[n]>> \in W
  <2>1. \A k \in 1 .. n : <<k - 1, after[k - 1]>> \in W => <<k, after[k]>> \in W BY <1>5, <1>11
  <2>2. <<0, after[0]>> \in W BY <1>4, <1>11
  <2> HIDE DEF n
  <2>3. QED BY <1>2, <2>1, <2>2, LoopHolds
<1>13. AllOver(c, after[n]) BY <1>12 DEF W
<1>14. QED BY <1>10, <1>13

\* ... and clear_pending_send.
LEMMA SendingOver ==
  ASSUME NEW c \in Contexts, NEW m, AllOver(c, m), NEW q, m.sending = q
  PROVE  AllOver(c, Each(SendingDropped, m, q))
<1> DEFINE n == Len(q)
           W == {p \in (0 .. n) \X Locked(c.i) : AllOver(c, p[2]) /\ p[2].sending = Rest(q, p[1])}
           Round(v, k) == SendingDropped(v, q[k])
           Body(h) == [i \in 0 .. n |-> IF i = 0 THEN m ELSE Round(h[i - 1], i)]
           g == [p \in (1 .. n) \X Locked(c.i) |-> Round(p[2], p[1])]
<1>1. m \in Locked(c.i) BY DEF AllOver, Sound
<1>2. q \in Seq(Int) /\ n \in Nat BY <1>1 DEF Locked
<1>3. \A k \in 1 .. n : Rest(q, k - 1) # <<>> /\ Head(Rest(q, k - 1)) = q[k] /\ Tail(Rest(q, k - 1)) = Rest(q, k)
  BY <1>2, RestIs
<1>4. <<0, m>> \in W
  <2>1. Rest(q, 0) = q BY <1>2, RestIs
  <2>2. QED BY <1>1, <1>2, <2>1
<1>5. ASSUME NEW k \in 1 .. n, NEW v, <<k - 1, v>> \in W
      PROVE  v \in Locked(c.i) /\ <<k, Round(v, k)>> \in W
  <2> DEFINE r == Rest(q, k - 1)
             o == SendingDropped(v, Head(r))
  <2>1. v \in Locked(c.i) /\ AllOver(c, v) /\ v.sending = r BY <1>5
  <2>2. r # <<>> /\ Head(r) = q[k] /\ Tail(r) = Rest(q, k) /\ k \in 0 .. n BY <1>2, <1>3
  <2> HIDE DEF r
  <2>3. AllOver(c, o) /\ o.sending = Tail(r) BY <2>1, <2>2, SendingDrops
  <2> HIDE DEF o
  <2>4. o \in Locked(c.i) BY <2>3 DEF AllOver, Sound
  <2>5. <<k, o>> \in W BY <2>2, <2>3, <2>4
  <2>6. QED BY <2>1, <2>2, <2>5 DEF o
<1>6. \A k \in 1 .. n : \A v : <<k - 1, v>> \in W => <<k, g[<<k, v>>]>> \in W
  <2> HIDE DEF W
  <2>1. QED BY <1>5
<1> HIDE DEF W, g
<1>7. PICK f : Loops(n, m, g, f) /\ \A k \in 0 .. n : <<k, f[k]>> \in W
  <2>1. CanLoop(n, W, m, g) BY <1>2, <1>4, <1>6 DEF CanLoop
  <2>2. QED BY <2>1, LoopRecursion
<1>8. f = Body(f)
  <2>1. \A k \in 1 .. n : k - 1 \in 0 .. n /\ <<k - 1, f[k - 1]>> \in W BY <1>2, <1>7
  <2>2. \A k \in 1 .. n : f[k - 1] \in Locked(c.i) BY <1>5, <2>1
  <2>3. \A k \in 1 .. n : g[<<k, f[k - 1]>>] = Round(f[k - 1], k) BY <2>2 DEF g
  <2>4. f = [k \in 0 .. n |-> IF k = 0 THEN m ELSE g[<<k, f[k - 1]>>]] BY <1>7 DEF Loops
  <2>5. \A k \in 0 .. n : k # 0 => k \in 1 .. n BY <1>2
  <2>6. QED BY <2>3, <2>4, <2>5
<1> DEFINE after == CHOOSE h : h = Body(h)
<1>9. after = Body(after)
  <2> HIDE DEF Body
  <2> QED BY <1>8
<1>10. Each(SendingDropped, m, q) = after[n] BY DEF Each
<1>11. after[0] = m /\ \A k \in 1 .. n : after[k] = Round(after[k - 1], k)
  <2> HIDE DEF after
  <2>1. \A k \in 0 .. n : after[k] = IF k = 0 THEN m ELSE Round(after[k - 1], k) BY <1>9
  <2>2. QED BY <1>2, <2>1
<1> HIDE DEF after
<1>12. <<n, after[n]>> \in W
  <2>1. \A k \in 1 .. n : <<k - 1, after[k - 1]>> \in W => <<k, after[k]>> \in W BY <1>5, <1>11
  <2>2. <<0, after[0]>> \in W BY <1>4, <1>11
  <2> HIDE DEF n
  <2>3. QED BY <1>2, <2>1, <2>2, LoopHolds
<1>13. AllOver(c, after[n]) BY <1>12 DEF W
<1>14. QED BY <1>10, <1>13

\* recv_eof, and the queues emptied after it, keep the record sound.
LEMMA EofSound ==
  ASSUME NEW c \in Contexts, NEW m, Sound(c, m, {}, 0), NEW clear \in BOOLEAN, clear => ~Strict(c)
  PROVE  Sound(c, Eof(m, clear), {}, 0)
<1> DEFINE m1 == Fail(m, "Io")
           m2 == Each(UpdateDropped, m1, m1.updates)
           m3 == Each(ExpiringDropped, m2, m2.expiring)
           m4 == IF clear THEN Each(AcceptDropped, m3, m3.accept) ELSE m3
           m5 == Each(SendingDropped, m4, m4.sending)
<1>1. Eof(m, clear) = m5 BY DEF Eof, Transition, UpdateDropped, ExpiringDropped, AcceptDropped, SendingDropped
<1>2. AllOver(c, m1)
  <2> DEFINE cause == "Io"
  <2>1. cause \in FailCauses BY DEF FailCauses
  <2> HIDE DEF cause
  <2>2. AllOver(c, Fail(m, cause)) BY <2>1, FailSound DEF AllOver
  <2>3. QED BY <2>2 DEF cause
<1> HIDE DEF m1
<1>3. AllOver(c, m2) BY <1>2, UpdatesOver
<1> HIDE DEF m2
<1>4. AllOver(c, m3) BY <1>3, ExpiringOver
<1> HIDE DEF m3
<1>5. CASE clear
  <2>1. AllOver(c, Each(AcceptDropped, m3, m3.accept)) BY <1>4, <1>5, AcceptOver
  <2>2. AllOver(c, m4) BY <1>5, <2>1
  <2> HIDE DEF m4
  <2>3. AllOver(c, m5) BY <2>2, SendingOver
  <2> HIDE DEF m5
  <2>4. QED BY <1>1, <2>3 DEF AllOver
<1>6. CASE ~clear
  <2>1. AllOver(c, m4) BY <1>4, <1>6
  <2> HIDE DEF m4
  <2>2. AllOver(c, m5) BY <2>1, SendingOver
  <2> HIDE DEF m5
  <2>3. QED BY <1>1, <2>2 DEF AllOver
<1>7. QED BY <1>5, <1>6

\* A step that ends the connection.
LEMMA EndStep ==
  ASSUME IInv, NEW clear \in BOOLEAN, me' = Eof(me, clear), end' \in {"eof", "dropped"},
         end = "dropped" => end' = "dropped", clear => end' = "dropped",
         UNCHANGED <<instance, peer, app, changes>>
  PROVE  IInv'
<1> DEFINE n == Eof(me, clear)
<1>1. Context \in Contexts /\ Sound(Context, me, {}, 0) /\ peer \in Peer /\ app \in Apps BY Before
<1>3. Context' \in Contexts /\ Context'.i = instance /\ Context'.await = Context.await BY <1>1 DEF Contexts, Context, Ids
<1>4. Later(Context, Context')
  <2>1. Strict(Context') => Strict(Context) BY DEF Strict, Context
  <2>2. Context.i = instance BY DEF Context
  <2>3. QED BY <1>1, <1>3, <2>1, <2>2 DEF Later
<1>5. Sound(Context', me, {}, 0)
  <2> DEFINE a == Context
             d == Context'
             none == {}
             z == 0
  <2>1. Later(a, d) /\ Sound(a, me, none, z) BY <1>1, <1>4
  <2> HIDE DEF a, d, none, z
  <2>2. Sound(d, me, none, z) BY <2>1, LaterSound
  <2>3. QED BY <2>2 DEF d, none, z
<1>6. clear => ~Strict(Context') BY DEF Strict, Context
<1>7. Sound(Context', n, {}, 0)
  <2> DEFINE d == Context'
  <2> HIDE DEF d
  <2>1. d \in Contexts /\ Sound(d, me, {}, 0) /\ (clear => ~Strict(d)) BY <1>3, <1>5, <1>6 DEF d
  <2>2. Sound(d, Eof(me, clear), {}, 0) BY <2>1, EofSound
  <2>3. QED BY <2>2 DEF d
<1>8. peer' \in Peer' /\ app' \in Apps' BY <1>1 DEF Peer, Apps, Ids
<1>9. changes' \in 0 .. MaxChanges[instance] BY DEF IInv
<1>10. me' = n OBVIOUS
<1> HIDE DEF n
<1>11. QED BY <1>4, <1>7, <1>8, <1>9, <1>10, Afterwards

\* The transport ends.
LEMMA RecvEofStep ==
  ASSUME IInv, RecvEof
  PROVE  IInv'
<1> DEFINE no == FALSE
<1>1. me' = Eof(me, no) /\ end = "open" /\ end' = "eof" /\ no \in BOOLEAN /\ UNCHANGED <<instance, peer, app, changes>>
      /\ ~no
  BY DEF RecvEof, Reads, TaskRuns
<1> HIDE DEF no
<1>2. QED BY <1>1, EndStep

\* The Connection is dropped.
LEMMA DropConnectionStep ==
  ASSUME IInv, DropConnection
  PROVE  IInv'
<1> DEFINE yes == TRUE
<1>1. me' = Eof(me, yes) /\ end' = "dropped" /\ yes \in BOOLEAN /\ UNCHANGED <<instance, peer, app, changes>>
  BY DEF DropConnection
<1> HIDE DEF yes
<1>2. QED BY <1>1, EndStep

-----------------------------------------------------------------------------
(* The invariant holds.                                                      *)

\* The client's request, before anything has been heard of it.
IsRequest(st, init) ==
  /\ st \in Streams /\ st.state = HalfClosedLocal("AwaitingHeaders") /\ ~st.counted
  /\ st.handles = {"other"} /\ st.inFlight = 0 /\ st.events = <<>> /\ st.promises = <<>>
  /\ st.flow = Flow(init, init)

\* The entry of a client's request, as its HEADERS leave it.
LEMMA RequestIs ==
  ASSUME StreamWindow[instance] \in 0 .. MaxWindow
  PROVE  IsRequest(Request, StreamWindow[instance])
<1> DEFINE w == StreamWindow[instance]
           fresh == NewStream(w)
           state == HalfClosedLocal("AwaitingHeaders")
           held == {"other"}
<1>1. w \in Int BY MaxWindowAssumption
<1>2. fresh \in Streams /\ ~fresh.counted /\ fresh.inFlight = 0 /\ fresh.events = <<>> /\ fresh.promises = <<>>
  <2>1. IsFresh(fresh, w) BY DEF IsFresh
  <2> HIDE DEF fresh, w
  <2>2. QED BY <2>1, FreshIs DEF w
<1>3. fresh.flow = Flow(w, w) BY DEF NewStream
<1>4. state \in States /\ held \in SUBSET {"body", "emptied", "other"} BY DEF States, Peers
<1>5. Request = [fresh EXCEPT !.state = state, !.handles = held] BY DEF Request
<1> HIDE DEF fresh, state, held, w
<1>6. Request \in Streams BY <1>2, <1>4, <1>5 DEF Streams
<1>7. /\ Request.state = state /\ Request.counted = fresh.counted /\ Request.handles = held
      /\ Request.inFlight = fresh.inFlight /\ Request.events = fresh.events
      /\ Request.promises = fresh.promises /\ Request.flow = fresh.flow
  BY <1>2, <1>5 DEF Streams
<1>8. QED BY <1>2, <1>3, <1>6, <1>7 DEF IsRequest, state, held, w

\* The locked record of the start.
Starts(i, m) ==
  /\ Slab(m) = (IF i \in Servers THEN {} ELSE {Parent}) /\ DOMAIN m.ids = Slab(m)
  /\ \A s \in Slab(m) : m.ids[s] = s /\ IsRequest(m.store[s], m.initWindow)
  /\ m.accept = <<>> /\ m.updates = <<>> /\ m.expiring = <<>> /\ m.sending = <<>>
  /\ m.flow = Flow(ConnWindow, ConnWindow) /\ m.inFlight = 0 /\ m.initWindow = StreamWindow[i]
  /\ m.local = NoId /\ m.nextId = 1 /\ m.refused = NoId /\ m.numRecv = 0 /\ m.numReset = 0
  /\ m.lost = 0 /\ ~m.err /\ m \in Locked(i)

\* Init puts the lock over at most one entry, the client's request.
LEMMA InitStarts ==
  ASSUME Init PROVE Starts(instance, me)
<1> DEFINE i == instance
           store == [s \in Requests |-> Request]
           ids == [s \in Requests |-> s]
           flow == Flow(ConnWindow, ConnWindow)
           init == StreamWindow[instance]
<1>1. i \in Instances BY DEF Init
<1>2. Requests = (IF i \in Servers THEN {} ELSE {Parent}) BY DEF Requests, IsServer
<1>3. init \in 0 .. MaxWindow /\ ConnWindow \in 0 .. MaxWindow BY <1>1, RecvAssumption
<1>4. IsRequest(Request, init) BY <1>3, RequestIs
<1>5. Requests \subseteq IdsOf(i) /\ Requests \subseteq KeysOf(i) BY <1>2 DEF IdsOf, KeysOf
<1>6. store \in Stores(i)
  <2>1. DOMAIN store = Requests /\ store \in [Requests -> Streams] BY <1>4 DEF IsRequest
  <2> HIDE DEF store
  <2>2. QED BY <1>5, <2>1, StoreTyped
<1>7. ids \in Index(i) BY <1>5 DEF Index
<1>8. flow \in Flows /\ ConnWindow \in Int BY <1>3, MaxWindowAssumption DEF Flow, Flows
<1>9. me = [store |-> store, ids |-> ids, accept |-> <<>>, updates |-> <<>>, expiring |-> <<>>, sending |-> <<>>,
            flow |-> flow, inFlight |-> 0, initWindow |-> init, local |-> NoId, nextId |-> 1, refused |-> NoId,
            numRecv |-> 0, numReset |-> 0, lost |-> 0, err |-> FALSE, woken |-> TRUE, failed |-> {}]
  BY DEF Init
<1>10. \A s \in Requests : store[s] = Request /\ ids[s] = s OBVIOUS
<1>11. DOMAIN store = Requests /\ DOMAIN ids = Requests OBVIOUS
<1> HIDE DEF store, ids, flow, init
<1>12. me \in Locked(i)
  BY <1>3, <1>6, <1>7, <1>8, <1>9 DEF Locked
<1>13. /\ me.store = store /\ me.ids = ids /\ me.accept = <<>> /\ me.updates = <<>> /\ me.expiring = <<>>
       /\ me.sending = <<>> /\ me.flow = flow /\ me.inFlight = 0 /\ me.initWindow = init /\ me.local = NoId
       /\ me.nextId = 1 /\ me.refused = NoId /\ me.numRecv = 0 /\ me.numReset = 0 /\ me.lost = 0 /\ ~me.err
  BY <1>9
<1>14. Slab(me) = Requests BY <1>11, <1>13 DEF Slab
<1>15. QED BY <1>2, <1>4, <1>10, <1>11, <1>12, <1>13, <1>14 DEF Starts, flow, init

\* No queue names anything.
LEMMA StartMarks ==
  ASSUME NEW c \in Contexts, NEW m, Starts(c.i, m), NEW k \in Slab(m)
  PROVE  Marks(m, k) = {"current", "alone"} /\ k = Parent /\ c.i \notin Servers
<1>1. k = Parent /\ c.i \notin Servers /\ Slab(m) = {Parent} BY DEF Starts
<1>2. IdOf(Parent) = Parent BY DEF IdOf, Parent
<1>3. Current(m, k) BY <1>1, <1>2 DEF Current, Starts
<1>4. Alone(m, k) BY <1>1 DEF Alone
<1>5. ~Queued(m.accept, k) /\ ~Queued(m.updates, k) /\ ~Queued(m.expiring, k) /\ ~Queued(m.sending, k)
  BY DEF Starts, Queued, Contains
<1>6. ~Pledged(m, k) BY DEF Pledged, Starts, IsRequest, Queued, Contains
<1>7. QED BY <1>1, <1>3, <1>4, <1>5, <1>6 DEF Marks, Mark

\* A locked record that starts is sound.
LEMMA StartSound ==
  ASSUME NEW c \in Contexts, NEW m, Starts(c.i, m)
  PROVE  Sound(c, m, {}, 0)
<1>1. c.i \in Instances BY DEF Contexts
<1>2. /\ StreamWindow[c.i] \in 0 .. MaxWindow /\ ConnWindow \in 0 .. MaxWindow /\ MaxRecv[c.i] \in Nat
      /\ MaxReset \in Nat /\ MaxWindow \in Nat
  BY <1>1, RecvAssumption, MaxWindowAssumption
<1>3. m \in Locked(c.i) BY DEF Starts
<1>4. Queues(m)
  <2>1. \A S : IsQueue(<<>>, S) BY EmptyQueue
  <2>2. QED BY <2>1 DEF Queues, Starts, IsRequest
<1>5. Linking(m)
  BY DEF Linking, Starts, IdOf, Parent
<1>6. Slots(c, m)
  <2>1. Counted(m) = {} BY DEF Counted, Starts, IsRequest
  <2>2. Cardinality({}) = 0 BY FS_EmptySet
  <2>3. QED BY <1>2, <2>1, <2>2 DEF Slots, Starts
<1>7. Window(c, m, 0)
  <2>1. SumFunction(InFlight(m)) = 0
    <3> DEFINE a == InFlight(m)
    <3>1. IsSummable(a) /\ DOMAIN a = Slab(m) BY <1>3, SlabFinite
    <3>2. \A y \in Slab(m) : a[y] = 0 BY <1>3, SlabFinite DEF Starts, IsRequest
    <3> HIDE DEF a
    <3>3. SumFunction(a) = 0 BY <3>1, <3>2, SumZero
    <3>4. QED BY <3>3 DEF a
  <2>2. QED BY <1>2, <2>1 DEF Window, Starts, Flow
<1>8. ASSUME NEW k \in Slab(m)
      PROVE  Fine(c, m.initWindow, k, m.store[k], Marks(m, k)) /\ Settled(c, m.store[k], Marks(m, k))
  <2> DEFINE st == m.store[k]
             w == {"current", "alone"}
             init == m.initWindow
  <2>1. Marks(m, k) = w /\ k = Parent /\ c.i \notin Servers BY StartMarks
  <2>2. IsRequest(st, init) BY DEF Starts
  <2>3. init \in 0 .. MaxWindow /\ init \in Int BY <1>2 DEF Starts
  <2> HIDE DEF st, init
  <2>4. st.state = HalfClosedLocal("AwaitingHeaders") /\ st.state \in RoleStates(c.i) /\ ~IsClosed(st.state)
        /\ st.state \notin {Idle, ReservedRemote} /\ ~IsRecvStreaming(st.state)
    BY <2>1, <2>2 DEF IsRequest, RoleStates, ClientStates, Peers, IsClosed, HalfClosedLocal, Idle, ReservedRemote,
         IsRecvStreaming, Open
  <2>5. st.flow.window = init /\ st.flow.available + st.inFlight = init BY <2>2, <2>3 DEF IsRequest, Flow
  <2>6. Awaits(st, 1)
    BY <2>2, <2>4 DEF Awaits, IsRequest
  <2>7. k \in Nat BY <2>1 DEF Parent
  <2>8. Fine(c, init, k, st, w)
    BY <2>2, <2>3, <2>4, <2>5, <2>6, <2>7 DEF Fine, IsRequest
  <2>9. Settled(c, st, w)
    BY <2>2, <2>4 DEF Settled, Ready, Owned, Keeps, Released, IsRequest
  <2>10. QED BY <2>1, <2>8, <2>9 DEF st, init
<1>9. QED BY <1>3, <1>4, <1>5, <1>6, <1>7, <1>8 DEF Sound

\* And it agrees with a peer that has said nothing.
LEMMA StartAgree ==
  ASSUME NEW i \in Instances, NEW m, Starts(i, m), NEW q, q.conn = ConnWindow,
         \A s \in IdsOf(i) : q.stream[s] = SilentPeer("nothing", StreamWindow[i])
  PROVE  Agree(i, m, q)
<1>1. MaxRecv[i] \in Nat BY RecvAssumption
<1>2. \A s \in IdsOf(i) : q.stream[s].said = "nothing" BY DEF SilentPeer
<1>3. Pending(i, q) = {} BY <1>2 DEF Pending, IdsOf
<1>4. Roomy(i, m.numRecv, q)
  <2>1. Cardinality({}) = 0 BY FS_EmptySet
  <2>2. QED BY <1>1, <1>3, <2>1 DEF Roomy, Starts
<1>5. Ordered(i, m.nextId, q) BY <1>2 DEF Ordered, Starts
<1>6. ASSUME NEW s \in DOMAIN m.ids PROVE Told(i, m.initWindow, q.stream[s], m.store[m.ids[s]])
  <2>1. s \in Slab(m) /\ m.ids[s] = s /\ IsRequest(m.store[s], m.initWindow) BY DEF Starts
  <2>2. s \in IdsOf(i) BY <2>1 DEF Starts, IdsOf
  <2>3. m.initWindow \in Int BY MaxWindowAssumption, RecvAssumption DEF Starts
  <2> DEFINE st == m.store[s]
             init == m.initWindow
             p == q.stream[s]
  <2>4. p.said = "nothing" BY <1>2, <2>2
  <2>5. IsRequest(st, init) BY <2>1
  <2> HIDE DEF st, init, p
  <2>6. /\ ~IsRecvStreaming(st.state) /\ IsRecvHeaders(st.state) /\ st.state # ReservedRemote
        /\ st.state # Closed("EndStream") /\ st.flow.window = init
    BY <2>5 DEF IsRequest, HalfClosedLocal, IsRecvStreaming, IsRecvHeaders, ReservedRemote, Closed, Open, Peers, Flow
  <2>7. Told(i, init, p, st) BY <2>4, <2>6 DEF Told
  <2>8. QED BY <2>1, <2>7 DEF st, init, p
<1>7. QED BY <1>4, <1>5, <1>6 DEF Agree, Starts, Flow

\* The start of the system satisfies the invariant.
LEMMA InitHolds ==
  ASSUME Init PROVE IInv
<1>1. instance \in Instances BY DEF Init
<1>2. Ids = IdsOf(instance) /\ Ids \subseteq Nat BY <1>1, IdsAre DEF Ids, IdsOf
<1>3. Context \in Contexts /\ Context.i = instance
  BY <1>1, <1>2 DEF Context, Contexts, Init
<1>4. Starts(instance, me) BY InitStarts
<1>5. Sound(Context, me, {}, 0)
  <2> DEFINE c == Context
             m == me
  <2>1. c \in Contexts /\ Starts(c.i, m) BY <1>3, <1>4
  <2> HIDE DEF c, m
  <2>2. Sound(c, m, {}, 0) BY <2>1, StartSound
  <2>3. QED BY <2>2 DEF c, m
<1>6. /\ peer = [conn |-> ConnWindow, stream |-> [s \in Ids |-> SilentPeer("nothing", StreamWindow[instance])]]
      /\ app = [s \in Ids |-> Unread] /\ changes = 0 /\ end = "open"
  BY DEF Init
<1>7. MaxChanges[instance] \in Nat /\ StreamWindow[instance] \in Int /\ ConnWindow \in Int
  BY <1>1, RecvAssumption, MaxWindowAssumption
<1>8. peer \in Peer BY <1>6, <1>7 DEF Peer, SilentPeer, Omitted
<1>9. app \in Apps BY <1>6 DEF Apps, Unread
<1>10. changes \in 0 .. MaxChanges[instance] BY <1>6, <1>7
<1>11. Agree(instance, me, peer)
  <2> DEFINE i == instance
             m == me
             q == peer
  <2>1. /\ i \in Instances /\ Starts(i, m) /\ q.conn = ConnWindow
        /\ \A s \in IdsOf(i) : q.stream[s] = SilentPeer("nothing", StreamWindow[i])
    BY <1>1, <1>2, <1>4, <1>6
  <2> HIDE DEF i, m, q
  <2>2. Agree(i, m, q) BY <2>1, StartAgree
  <2>3. QED BY <2>2 DEF i, m, q
<1>12. QED BY <1>3, <1>5, <1>8, <1>9, <1>10, <1>11 DEF IInv

\* Every step of the connection task that reads keeps the invariant.
LEMMA ReadingKeeps ==
  ASSUME IInv, Careful, Reading PROVE IInv'
<1>0. instance \in Instances BY Before
<1>1. Lengths[instance] \cup {Omitted} \subseteq Int BY <1>0, RecvAssumption DEF Omitted
<1>2. ASSUME NEW s \in Ids, NEW eos \in BOOLEAN, NEW len \in Lengths[instance] \cup {Omitted},
             PeerHeaders(s, eos, len, "ok")
      PROVE  IInv'
  <2>1. len \in Int BY <1>1
  <2>2. QED BY <1>2, <2>1, PeerHeadersStep
<1>3. ASSUME NEW s \in Ids, NEW how \in {"malformed", "oversize"} \cap Moves[instance], NEW eos \in BOOLEAN,
             PeerHeaders(s, eos, Omitted, how)
      PROVE  IInv'
  <2>1. Omitted \in Int BY DEF Omitted
  <2>2. QED BY <1>3, <2>1, PeerHeadersStep
<1>4. ASSUME NEW s \in Ids, NEW eos \in IF "violate" \in Moves[instance] THEN BOOLEAN ELSE {TRUE},
             PeerTrailers(s, eos)
      PROVE  IInv'
  <2>1. eos \in BOOLEAN /\ (eos \/ "violate" \in Moves[instance]) OBVIOUS
  <2>2. QED BY <1>4, <2>1, PeerTrailersStep
<1>5. ASSUME NEW s \in Ids, NEW n \in DataSizes[instance], NEW eos \in BOOLEAN, PeerData(s, n, eos) PROVE IInv'
  BY <1>5, PeerDataStep
<1>6. ASSUME NEW s \in Ids, PeerReset(s) PROVE IInv'
  BY <1>6, PeerResetStep
<1>7. ASSUME NEW s \in Ids, NEW how, s # Parent, PeerPromise(s, how) PROVE IInv'
  BY <1>7, PeerPromiseStep
<1>8. ASSUME NEW s \in Ids, "streamError" \in Moves[instance], StreamError(s) PROVE IInv'
  BY <1>8, StreamErrorStep
<1>9. SettingsAck => IInv' BY SettingsAckStep
<1>10. ResetExpires => IInv' BY ResetExpiresStep
<1>11. RecvEof => IInv' BY RecvEofStep
<1>12. QED BY <1>2, <1>3, <1>4, <1>5, <1>6, <1>7, <1>8, <1>9, <1>10, <1>11 DEF Reading

\* So does every step that writes, ...
LEMMA WritingKeeps ==
  ASSUME IInv, Writing PROVE IInv'
<1>1. WriteRefusal => IInv' BY WriteRefusalStep
<1>2. WriteConnUpdate => IInv' BY WriteConnUpdateStep
<1>3. WriteStreamUpdate => IInv' BY WriteStreamUpdateStep
<1>4. WriteFrame => IInv' BY WriteFrameStep
<1>5. Park => IInv' BY ParkStep
<1>6. QED BY <1>1, <1>2, <1>3, <1>4, <1>5 DEF Writing

\* ... and every call of the application.
LEMMA ApplicationKeeps ==
  ASSUME IInv, Careful, Application PROVE IInv'
<1>1. Accept => IInv' BY AcceptStep
<1>2. PollPushed => IInv' BY PollPushedStep
<1>3. ASSUME NEW k \in Ids, PollResponse(k) PROVE IInv' BY <1>3, PollResponseStep
<1>4. ASSUME NEW k \in Ids, PollData(k) PROVE IInv' BY <1>4, PollDataStep
<1>5. ASSUME NEW k \in Ids, PollTrailers(k) PROVE IInv' BY <1>5, PollTrailersStep
<1>6. ASSUME NEW k \in Ids, NEW n \in 1 .. MaxBytes[instance], Release(k, n) PROVE IInv'
  BY <1>6, ReleaseStep
<1>7. ASSUME NEW k \in Ids, DropRecvStream(k) PROVE IInv' BY <1>7, DropRecvStreamStep
<1>8. ASSUME NEW k \in Ids, NEW handle, DropHandle(k, handle) PROVE IInv' BY <1>8, DropHandleStep
<1>9. ASSUME NEW k \in Ids, NEW eos \in BOOLEAN, SendResponse(k, eos) PROVE IInv'
  BY <1>9, SendResponseStep
<1>10. ASSUME NEW k \in Ids, SendEnd(k) PROVE IInv' BY <1>10, SendEndStep
<1>11. ASSUME NEW k \in Ids, k \in Resettable[instance], ResetByUser(k) PROVE IInv'
  BY <1>11, ResetByUserStep
<1>12. ASSUME NEW target \in Targets, SetTargetWindow(target) PROVE IInv'
  BY <1>12, SetTargetWindowStep
<1>13. ASSUME NEW val \in Windows, SetInitialWindow(val) PROVE IInv'
  BY <1>13, SetInitialWindowStep
<1>14. DropConnection => IInv' BY DropConnectionStep
<1>15. QED
  BY <1>1, <1>2, <1>3, <1>4, <1>5, <1>6, <1>7, <1>8, <1>9, <1>10, <1>11, <1>12, <1>13, <1>14 DEF Application

\* Every step keeps the invariant.
LEMMA NextKeeps ==
  ASSUME IInv, Careful, [Next]_vars PROVE IInv'
<1>1. CASE Next BY <1>1, ReadingKeeps, WritingKeeps, ApplicationKeeps DEF Next
<1>2. CASE UNCHANGED vars
  <2>1. IInv' = IInv BY <1>2 DEF vars, IInv, Context, Peer, Apps, Ids
  <2>2. QED BY <2>1
<1>3. QED BY <1>1, <1>2

\* The inductive invariant of RecvStreams: the slab, its queues, the windows and
\* the counters fit together after every step, and the peer knows as much of the
\* windows as this end.
THEOREM RecvInvariant == Careful => (Spec => []IInv)
<1> SUFFICES ASSUME Careful PROVE Spec => []IInv OBVIOUS
<1>1. Init => IInv BY InitHolds
<1>2. IInv /\ [Next]_vars => IInv' BY NextKeeps
<1>3. QED BY <1>1, <1>2, PTL DEF Spec

\* No assertion, panic or unsigned subtraction of recv.rs, counts.rs, store.rs
\* and streams.rs that the receiving half reaches fails.
THEOREM RecvNeverFails == Careful => (Spec => []NoAssertFails)
<1> SUFFICES ASSUME Careful PROVE Spec => []NoAssertFails OBVIOUS
<1>1. IInv => NoAssertFails
  <2>1. SUFFICES ASSUME IInv PROVE me.failed = {} BY DEF NoAssertFails
  <2>2. QED BY <2>1, Before DEF Alive
<1>2. Spec => []IInv BY RecvInvariant
<1>3. QED BY <1>1, <1>2, PTL

\* Every byte the connection's window has taken is in flight on exactly one
\* stream of the slab until it is given back, and what this end thinks the peer
\* may send is what the peer thinks.
THEOREM RecvBytesAccounted == Careful => (Spec => []BytesAccounted)
<1> SUFFICES ASSUME Careful PROVE Spec => []BytesAccounted OBVIOUS
<1>1. ASSUME IInv, end = "open" PROVE BytesAccounted
  <2>1. /\ Sound(Context, me, {}, 0) /\ Context \in Contexts /\ Context.i = instance /\ Context.end = end
        /\ (IsServer <=> instance \in Servers) /\ Agree(instance, me, peer)
    BY <1>1, Before
  <2>2. me.inFlight = SumFunction(InFlight(me)) + me.lost
    <3>1. me \in Locked(Context.i) /\ Window(Context, me, 0) BY <2>1 DEF Sound
    <3>2. SumFunction(InFlight(me)) \in Int BY <2>1, <3>1, SlabFinite, SumIsInt
    <3>3. me.lost \in Int BY <3>1 DEF Locked
    <3>4. QED BY <3>1, <3>2, <3>3 DEF Window
  <2>3. me.lost > 0 => ~IsServer BY <1>1, <2>1 DEF Sound, Window, Strict
  <2>4. me.flow.window = peer.conn BY <2>1 DEF Agree
  <2>5. ASSUME NEW s \in DOMAIN me.ids, IsRecvStreaming(me.store[me.ids[s]].state)
        PROVE  /\ me.store[me.ids[s]].flow.window = peer.stream[s].credit
               /\ me.store[me.ids[s]].flow.available + me.store[me.ids[s]].inFlight = me.initWindow
    <3> DEFINE k == me.ids[s]
               st == me.store[k]
               w == Marks(me, k)
    <3>1. Told(instance, me.initWindow, peer.stream[s], st) BY <2>1 DEF Agree
    <3>2. k \in Slab(me) BY <2>1 DEF Sound, Linking
    <3>3. Fine(Context, me.initWindow, k, st, w) BY <2>1, <3>2 DEF Sound
    <3> HIDE DEF k
    <3>4. IsRecvStreaming(st.state) BY <2>5 DEF k
    <3> HIDE DEF st, w
    <3>5. Live(st)
      BY <3>4 DEF Live, IsRecvStreaming, IsClosed, Open, HalfClosedLocal, Idle
    <3>6. st.flow.window = peer.stream[s].credit BY <3>1, <3>4 DEF Told
    <3>7. st.flow.available + st.inFlight = me.initWindow BY <3>3, <3>5 DEF Fine
    <3>8. QED BY <3>6, <3>7 DEF st, k
  <2>6. QED BY <2>2, <2>3, <2>4, <2>5 DEF BytesAccounted
<1>2. IInv => BytesAccounted BY <1>1 DEF BytesAccounted
<1>3. Spec => []IInv BY RecvInvariant
<1>4. QED BY <1>2, <1>3, PTL

\* The slots of the peer's streams are counted, never above the limit, and no
\* stream that nothing refers to is left in the slab.
THEOREM RecvSlotsAccounted == Careful => (Spec => []SlotsAccounted)
<1> SUFFICES ASSUME Careful PROVE Spec => []SlotsAccounted OBVIOUS
<1>1. ASSUME IInv PROVE SlotsAccounted
  <2>1. Sound(Context, me, {}, 0) /\ Context \in Contexts /\ Context.i = instance BY <1>1, Before
  <2>2. Slots(Context, me) /\ Queues(me) /\ me \in Locked(Context.i) BY <2>1 DEF Sound
  <2>3. ASSUME NEW k \in Slab(me) PROVE ~IsReleased(me, k)
    <3>1. Settled(Context, me.store[k], Marks(me, k)) BY <2>1 DEF Sound
    <3>2. QED BY <2>1, <2>2, <3>1, ReleasedIs DEF Settled
  <2>4. QED BY <2>1, <2>2, <2>3 DEF SlotsAccounted, Slots, Counted
<1>2. IInv => SlotsAccounted BY <1>1
<1>3. Spec => []IInv BY RecvInvariant
<1>4. QED BY <1>2, <1>3, PTL
=============================================================================
