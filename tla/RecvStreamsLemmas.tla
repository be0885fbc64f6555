--------------------------- MODULE RecvStreamsLemmas ---------------------------
(* Towards the invariant of RecvStreams.  It has two parts: Sound, about the *)
(* locked record alone, and Agree, which relates it to what the peer has     *)
(* done.  Operations work on one stream at a time, so what is known of an    *)
(* entry of the slab is a predicate, Fine and Settled, of the entry and of   *)
(* its marks: the places of the record that name it.                         *)
(*                                                                           *)
(* Here are the invariant, the operations that many entry points share, the  *)
(* steps that need no more (windows, polls, answers, resets and DATA), and   *)
(* what the head of a message does.                                          *)
EXTENDS RecvStreams, QueueLemmas

-----------------------------------------------------------------------------
(* The inductive invariant.                                                  *)

\* What the proofs assume of an instance: a client's request is not reset by
\* this end (by the user, for what the peer sends or for what the codec finds),
\* the peer promises no more than the limit, and windows that change, which a
\* SETTINGS frame may make negative, meet no empty DATA.  Otherwise an assertion
\* may fail (see the README).
CarefulIn(i) ==
  /\ i \notin Servers => /\ Parent \notin Resettable[i]
                         /\ Moves[i] \cap {"violate", "streamError", "overPromise"} = {}
  /\ 0 \in DataSizes[i] => MaxChanges[i] = 0
Careful == \A i \in Instances : CarefulIn(i)

\* The ids of an instance, and the keys of their entries.
IdsOf(i) == {Parent} \cup PeerIds[i]
KeysOf(i) == IdsOf(i) \cup {Second(s) : s \in IdsOf(i)}

\* What the operations on the locked record leave alone: the instance, how the
\* connection ended, and the streams of which the application waits for the
\* message.
Contexts ==
  [i : Instances, end : {"open", "error", "eof", "dropped"}, await : SUBSET Nat]
In(c) == c \in Contexts /\ c.i = instance

\* The states a stream may be in, by the role of this end.
ServerStates ==
  {Open(l, "Streaming") : l \in Peers} \cup {HalfClosedLocal("Streaming")}
    \cup {HalfClosedRemote(p) : p \in Peers} \cup {Closed(x) : x \in Causes}
ClientStates ==
  {ReservedRemote} \cup {HalfClosedLocal(p) : p \in Peers} \cup {Closed(x) : x \in Causes}
RoleStates(i) == {Idle} \cup (IF i \in Servers THEN ServerStates ELSE ClientStates)

\* One stream, and a store of them.
Events == [kind : {"headers", "data", "trailers"}, n : Int]
OutFrames == {"HEADERS", "DATA", "RST_STREAM"}
Streams ==
  [state : States, counted : BOOLEAN, handles : SUBSET {"body", "emptied", "other"},
   flow : Flows, inFlight : Nat, events : Seq(Events), out : Seq(OutFrames), length : Int,
   promises : Seq(Int), task : {"none", "message", "pushes"}]
Stores(i) == UNION {[K -> Streams] : K \in SUBSET KeysOf(i)}
Index(i) == UNION {[S -> KeysOf(i)] : S \in SUBSET IdsOf(i)}

\* The type of the locked record.
Locked(i) ==
  [store : Stores(i), ids : Index(i), accept : Seq(Int), updates : Seq(Int),
   expiring : Seq(Int), sending : Seq(Int), flow : Flows, inFlight : Int,
   initWindow : 0 .. MaxWindow, local : Windows \cup {NoId}, nextId : Nat \ {0},
   refused : IdsOf(i) \cup {NoId}, numRecv : Int, numReset : Int, lost : Nat,
   err : BOOLEAN, woken : BOOLEAN, failed : {{}}]

\* Every queue names entries of the slab, each once.
Queues(m) ==
  /\ IsQueue(m.accept, Slab(m)) /\ IsQueue(m.updates, Slab(m))
  /\ IsQueue(m.expiring, Slab(m)) /\ IsQueue(m.sending, Slab(m))
  /\ \A k \in Slab(m) : IsQueue(m.store[k].promises, Slab(m))

\* An id finds an entry of its own, and ids are never used twice.
Linking(m) ==
  /\ \A s \in DOMAIN m.ids : m.ids[s] \in Slab(m) /\ IdOf(m.ids[s]) = s
  /\ \A k \in Slab(m) : IdOf(k) < m.nextId

\* The streams that hold a slot, and the counters.
Counted(m) == {k \in Slab(m) : m.store[k].counted}
Slots(c, m) ==
  /\ m.numRecv = Cardinality(Counted(m)) /\ m.numRecv <= MaxRecv[c.i]
  /\ Len(m.expiring) <= m.numReset /\ m.numReset <= MaxReset

\* The connection's window: of `loose` bytes it is not decided yet whose they
\* are.
Strict(c) == c.i \in Servers /\ c.end # "dropped"
Window(c, m, loose) ==
  /\ m.inFlight = SumFunction(InFlight(m)) + m.lost + loose
  /\ Strict(c) => m.lost = 0
  /\ m.flow.window \in 0 .. MaxWindow /\ m.flow.available + m.inFlight \in 0 .. MaxWindow
  /\ MaxChanges[c.i] = 0 => m.local = NoId

\* Where a record names an entry: `current` if its id finds it, `alone` if no
\* other entry has its id, and the queues it is in.
Current(m, k) == IdOf(k) \in DOMAIN m.ids /\ m.ids[IdOf(k)] = k
Alone(m, k) == \A j \in Slab(m) : IdOf(j) = IdOf(k) => j = k
Pledged(m, k) == \E p \in Slab(m) : Queued(m.store[p].promises, k)
Mark(x, holds) == IF holds THEN {x} ELSE {}
Marks(m, k) ==
  Mark("current", Current(m, k)) \cup Mark("alone", Alone(m, k))
    \cup Mark("accept", Queued(m.accept, k)) \cup Mark("updates", Queued(m.updates, k))
    \cup Mark("expiring", Queued(m.expiring, k)) \cup Mark("sending", Queued(m.sending, k))
    \cup Mark("pledged", Pledged(m, k))

Live(st) == st.state # Idle /\ ~IsClosed(st.state)

\* The n-th event is a message, or there are fewer and none is being received.
Awaits(st, n) ==
  IF Len(st.events) < n THEN ~IsRecvStreaming(st.state) ELSE st.events[n].kind = "headers"
HeadersFirst(st) == st.events # <<>> /\ st.events[1].kind = "headers"

\* What is known of the entry `st` with the key k and the marks w.
Fine(c, init, k, st, w) ==
  /\ st.state \in RoleStates(c.i)
  /\ Live(st) => {"current", "alone"} \subseteq w /\ st.flow.available + st.inFlight = init
  /\ "current" \in w => /\ st.flow.window <= init
                        /\ 0 \in DataSizes[c.i] => st.flow.window >= 0
  /\ "sending" \in w => st.out # <<>> \/ IsClosed(st.state)
  /\ "accept" \in w => c.i \in Servers /\ k \in Nat /\ st.handles = {} /\ HeadersFirst(st)
  /\ "pledged" \in w => /\ c.i \notin Servers /\ k \in Nat \ {Parent} /\ st.handles = {}
                        /\ HeadersFirst(st) /\ Awaits(st, 2)
  /\ st.state \in {Idle, ReservedRemote} => ~st.counted
  /\ k \in c.await => Awaits(st, 1) /\ st.handles \subseteq {"other"}
  /\ st.promises # <<>> => k = Parent /\ c.i \notin Servers
  /\ k \notin Nat => st.state = Idle \/ IsReset(st.state)
  /\ "expiring" \in w => IsClosed(st.state)

\* Nobody will use the entry any more.
Released(st, w) ==
  /\ IsClosed(st.state) /\ st.out = <<>> /\ st.handles = {}
  /\ w \cap {"accept", "pledged", "sending", "updates", "expiring"} = {}

\* What an operation may break while it works on the entry: a stream nobody
\* can take is closed and, on a server, holds no bytes, and who has promises
\* stays until they are claimed.
Owned(c, st, w) ==
  st.handles = {} /\ w \cap {"accept", "pledged"} = {} =>
    IsClosed(st.state) /\ (Strict(c) => st.inFlight = 0)
Keeps(st, w) == st.promises # <<>> => st.handles # {} /\ "expiring" \notin w
Ready(c, st, w) == st.state # Idle /\ Owned(c, st, w) /\ Keeps(st, w)
Settled(c, st, w) == Ready(c, st, w) /\ ~Released(st, w)

\* What holds between two steps of an operation on the entries X, while it is
\* open whose the `loose` bytes are.
Sound(c, m, X, loose) ==
  /\ m \in Locked(c.i) /\ Queues(m) /\ Linking(m) /\ Slots(c, m) /\ Window(c, m, loose)
  /\ \A k \in Slab(m) : Fine(c, m.initWindow, k, m.store[k], Marks(m, k))
  /\ \A k \in Slab(m) \ X : Settled(c, m.store[k], Marks(m, k))

-----------------------------------------------------------------------------
(* What the peer has been told.                                              *)

\* What an entry that its id finds has to do with what the peer has said, p.
Told(i, init, p, st) ==
  /\ IsRecvStreaming(st.state) => st.flow.window = p.credit /\ p.said = "open"
  /\ i \notin Servers => /\ IsRecvHeaders(st.state) => st.flow.window = init
                         /\ st.state = ReservedRemote => p.said = "promised"
                         /\ st.state = Closed("EndStream") => p.said \notin {"nothing", "open"}
                         /\ p.said = "nothing" => IsRecvHeaders(st.state) \/ IsLocalReset(st.state)

\* The peer opens streams in the order of their ids.
Ordered(i, next, q) ==
  /\ \A s \in IdsOf(i) : q.stream[s].said # "nothing" => s < next
  /\ next > 1 => next - 1 \in PeerIds[i] /\ q.stream[next - 1].said # "nothing"

\* A peer that keeps to the limit finds a slot for every stream it promised.
Pending(i, q) == {s \in PeerIds[i] : q.stream[s].said = "promised"}
Roomy(i, n, q) == i \in Servers \/ n + Cardinality(Pending(i, q)) <= MaxRecv[i]

Agree(i, m, q) ==
  /\ ~m.err /\ m.flow.window = q.conn /\ Roomy(i, m.numRecv, q) /\ Ordered(i, m.nextId, q)
  /\ m.refused # NoId => m.refused \notin DOMAIN m.ids /\ m.refused < m.nextId
  /\ \A s \in DOMAIN m.ids : Told(i, m.initWindow, q.stream[s], m.store[m.ids[s]])

Peer ==
  [conn : Int, stream : [Ids -> [said : {"nothing", "promised", "open", "ended", "reset"},
                                 sent : Nat, credit : Int, length : Int]]]
Apps == [Ids -> [message : BOOLEAN, read : Int, saw : {"nothing", "end", "error"}]]
Context == [i |-> instance, end |-> end, await |-> {k \in Ids : ~app[k].message}]

IInv ==
  /\ Context \in Contexts /\ peer \in Peer /\ app \in Apps
  /\ changes \in 0 .. MaxChanges[instance]
  /\ Sound(Context, me, {}, 0) /\ (end = "open" => Agree(instance, me, peer))
-----------------------------------------------------------------------------
(* Keys, marks and stores.                                                   *)

\* The ids of an instance are numbers, and so are their keys.
LEMMA IdsAre ==
  ASSUME NEW i \in Instances
  PROVE  /\ IsFiniteSet(KeysOf(i)) /\ IdsOf(i) \subseteq Nat /\ KeysOf(i) \subseteq Int
         /\ IdsOf(i) \subseteq KeysOf(i) /\ Parent \in IdsOf(i)
         /\ \A s \in IdsOf(i) : IdOf(s) = s /\ IdOf(Second(s)) = s
         /\ \A k \in KeysOf(i) : /\ IdOf(k) \in IdsOf(i) /\ k \in {IdOf(k), Second(IdOf(k))}
                                 /\ k \in Nat => IdOf(k) = k
<1>1. PeerIds[i] = 1 .. Cardinality(PeerIds[i]) /\ Cardinality(PeerIds[i]) \in Nat /\ IsFiniteSet(PeerIds[i])
  BY RecvAssumption, FS_CardinalityType
<1>2. IdsOf(i) \subseteq Nat /\ Parent \in IdsOf(i)
  BY <1>1 DEF IdsOf, Parent
<1> DEFINE n == Cardinality(PeerIds[i])
<1>3. KeysOf(i) \subseteq (-1 - n) .. n
  BY <1>1 DEF KeysOf, IdsOf, Second, Parent
<1>4. IsFiniteSet((-1 - n) .. n)
  BY <1>1, FS_Interval
<1>5. IsFiniteSet(KeysOf(i))
  BY <1>3, <1>4, FS_Subset
<1>6. QED BY <1>2, <1>5 DEF KeysOf, IdOf, Second

\* What each mark says.
LEMMA MarksAre ==
  ASSUME NEW m, NEW k
  PROVE  /\ "current" \in Marks(m, k) <=> Current(m, k)
         /\ "alone" \in Marks(m, k) <=> Alone(m, k)
         /\ "accept" \in Marks(m, k) <=> Queued(m.accept, k)
         /\ "updates" \in Marks(m, k) <=> Queued(m.updates, k)
         /\ "expiring" \in Marks(m, k) <=> Queued(m.expiring, k)
         /\ "sending" \in Marks(m, k) <=> Queued(m.sending, k)
         /\ "pledged" \in Marks(m, k) <=> Pledged(m, k)
         /\ Marks(m, k) \subseteq
              {"current", "alone", "accept", "updates", "expiring", "sending", "pledged"}
BY DEF Marks, Mark

\* The names of the marks.
MarkNames == {"current", "alone", "accept", "updates", "expiring", "sending", "pledged"}

\* Sets of marks with the same members are equal.
LEMMA MarksEqual ==
  ASSUME NEW v \in SUBSET MarkNames, NEW w \in SUBSET MarkNames, \A x \in MarkNames : x \in v <=> x \in w
  PROVE  v = w
OBVIOUS

\* The marks of k in n are those in m, but for `less`, and `more`.
Remarked(m, n, k, less, more) ==
  /\ more \subseteq MarkNames /\ more \cap less = {}
  /\ Current(n, k) <=> (Current(m, k) /\ "current" \notin less) \/ "current" \in more
  /\ Alone(n, k) <=> (Alone(m, k) /\ "alone" \notin less) \/ "alone" \in more
  /\ Queued(n.accept, k) <=> (Queued(m.accept, k) /\ "accept" \notin less) \/ "accept" \in more
  /\ Queued(n.updates, k) <=> (Queued(m.updates, k) /\ "updates" \notin less) \/ "updates" \in more
  /\ Queued(n.expiring, k) <=> (Queued(m.expiring, k) /\ "expiring" \notin less) \/ "expiring" \in more
  /\ Queued(n.sending, k) <=> (Queued(m.sending, k) /\ "sending" \notin less) \/ "sending" \in more
  /\ Pledged(n, k) <=> (Pledged(m, k) /\ "pledged" \notin less) \/ "pledged" \in more

\* The marks of one record, from those of another.
LEMMA MarksChange ==
  ASSUME NEW m, NEW n, NEW k, NEW less, NEW more, Remarked(m, n, k, less, more)
  PROVE  Marks(n, k) = (Marks(m, k) \ less) \cup more
<1>1. Marks(n, k) \in SUBSET MarkNames /\ Marks(m, k) \in SUBSET MarkNames
  BY MarksAre DEF MarkNames
<1>0. more \subseteq MarkNames BY DEF Remarked
<1>2. ASSUME NEW x \in MarkNames PROVE x \in Marks(n, k) <=> (x \in Marks(m, k) /\ x \notin less) \/ x \in more
  <2>1. CASE x = "current" BY <2>1, MarksAre DEF Remarked
  <2>2. CASE x = "alone" BY <2>2, MarksAre DEF Remarked
  <2>3. CASE x = "accept" BY <2>3, MarksAre DEF Remarked
  <2>4. CASE x = "updates" BY <2>4, MarksAre DEF Remarked
  <2>5. CASE x = "expiring" BY <2>5, MarksAre DEF Remarked
  <2>6. CASE x = "sending" BY <2>6, MarksAre DEF Remarked
  <2>7. CASE x = "pledged" BY <2>7, MarksAre DEF Remarked
  <2>8. QED BY <2>1, <2>2, <2>3, <2>4, <2>5, <2>6, <2>7 DEF MarkNames
<1>3. QED BY <1>0, <1>1, <1>2

\* A store maps some of the keys to streams.
LEMMA StoreTyped ==
  ASSUME NEW i, NEW st
  PROVE  st \in Stores(i) <=> DOMAIN st \subseteq KeysOf(i) /\ st \in [DOMAIN st -> Streams]
BY DEF Stores

\* Replacing one stream of a store leaves the others alone.
LEMMA StorePut ==
  ASSUME NEW i, NEW st \in Stores(i), NEW s \in DOMAIN st, NEW r \in Streams
  PROVE  /\ [st EXCEPT ![s] = r] \in Stores(i) /\ DOMAIN [st EXCEPT ![s] = r] = DOMAIN st
         /\ [st EXCEPT ![s] = r][s] = r
         /\ \A t \in DOMAIN st : t # s => [st EXCEPT ![s] = r][t] = st[t]
<1>1. DOMAIN st \subseteq KeysOf(i) /\ st \in [DOMAIN st -> Streams] BY StoreTyped
<1> DEFINE new == [st EXCEPT ![s] = r]
<1>2. DOMAIN new = DOMAIN st /\ new \in [DOMAIN st -> Streams] BY <1>1
<1>3. new \in Stores(i) BY <1>1, <1>2, StoreTyped
<1>4. QED BY <1>1, <1>3

\* The entries of the slab are typed, and their keys are numbers.
LEMMA StreamTyped ==
  ASSUME NEW c \in Contexts, NEW m \in Locked(c.i), NEW k \in Slab(m)
  PROVE  k \in KeysOf(c.i) /\ k \in Int /\ m.store[k] \in Streams
<1>1. m.store \in Stores(c.i) /\ c.i \in Instances BY DEF Locked, Contexts
<1>2. QED BY <1>1, StoreTyped, IdsAre DEF Slab

\* The slab is finite, and its bytes can be summed.
LEMMA SlabFinite ==
  ASSUME NEW c \in Contexts, NEW m \in Locked(c.i)
  PROVE  /\ IsFiniteSet(Slab(m)) /\ IsFiniteSet(Counted(m))
         /\ DOMAIN InFlight(m) = Slab(m) /\ IsSummable(InFlight(m))
         /\ \A k \in Slab(m) : InFlight(m)[k] = m.store[k].inFlight /\ InFlight(m)[k] \in Nat
<1>1. m.store \in Stores(c.i) /\ c.i \in Instances BY DEF Locked, Contexts
<1>2. Slab(m) \subseteq KeysOf(c.i) BY <1>1, StoreTyped DEF Slab
<1>3. IsFiniteSet(Slab(m)) BY <1>1, <1>2, IdsAre, FS_Subset
<1>4. \A k \in Slab(m) : m.store[k].inFlight \in Nat BY StreamTyped DEF Streams
<1>5. Counted(m) \subseteq Slab(m) BY DEF Counted
<1>6. IsFiniteSet(Counted(m)) BY <1>3, <1>5, FS_Subset
<1>7. QED BY <1>3, <1>4, <1>6 DEF InFlight, IsSummable

-----------------------------------------------------------------------------
(* Operations that change one entry.                                         *)

\* Queue::push for the entry s, if it is asked for.
Push(q, s, asked) == IF asked THEN PushOnce(q, s) ELSE q

\* n is m with the record r for the entry s, which is pushed to the queues P;
\* of the rest only the counters of the connection may differ.
Replaces(m, n, s, r, P) ==
  /\ P \subseteq {"accept", "updates", "sending"}
  /\ n.store = [m.store EXCEPT ![s] = r]
  /\ n.accept = Push(m.accept, s, "accept" \in P)
  /\ n.updates = Push(m.updates, s, "updates" \in P)
  /\ n.sending = Push(m.sending, s, "sending" \in P)
  /\ n.ids = m.ids /\ n.expiring = m.expiring /\ n.initWindow = m.initWindow
  /\ n.nextId = m.nextId /\ n.local = m.local /\ n.numReset = m.numReset /\ n.lost = m.lost

\* What is typed for Push is typed after it.
LEMMA PushQueue ==
  ASSUME NEW S, NEW q, IsQueue(q, S), NEW s \in S, NEW asked \in BOOLEAN
  PROVE  /\ IsQueue(Push(q, s, asked), S)
         /\ \A t : Queued(Push(q, s, asked), t) <=> Queued(q, t) \/ (asked /\ t = s)
BY QueuePush DEF Push

\* Pushes are of keys.
LEMMA PushTyped ==
  ASSUME NEW c \in Contexts, NEW m \in Locked(c.i), Queues(m), NEW s \in Slab(m), NEW r \in Streams
  PROVE  /\ [m.store EXCEPT ![s] = r] \in Stores(c.i)
         /\ PushOnce(m.accept, s) \in Seq(Int) /\ PushOnce(m.updates, s) \in Seq(Int)
         /\ PushOnce(m.sending, s) \in Seq(Int)
<1>1. m.store \in Stores(c.i) /\ m.accept \in Seq(Int) /\ m.updates \in Seq(Int) /\ m.sending \in Seq(Int)
  BY DEF Locked
<1>2. s \in Int BY StreamTyped
<1>3. [m.store EXCEPT ![s] = r] \in Stores(c.i) BY <1>1, StorePut DEF Slab
<1>4. QED BY <1>1, <1>2, <1>3 DEF PushOnce

\* Who is named where after such a change.
LEMMA ReplacesMarks ==
  ASSUME NEW c \in Contexts, NEW m \in Locked(c.i), Queues(m), NEW s \in Slab(m),
         NEW r \in Streams, r.promises = m.store[s].promises, NEW n, NEW P, Replaces(m, n, s, r, P)
  PROVE  /\ Slab(n) = Slab(m) /\ n.store[s] = r
         /\ \A k \in Slab(m) : k # s => n.store[k] = m.store[k]
         /\ Queues(n)
         /\ Marks(n, s) = Marks(m, s) \cup P
         /\ \A k \in Slab(m) : k # s => Marks(n, k) = Marks(m, k)
<1>1. /\ Slab(n) = Slab(m) /\ n.store[s] = r
      /\ \A k \in Slab(m) : k # s => n.store[k] = m.store[k]
  <2>1. m.store \in Stores(c.i) BY DEF Locked
  <2>2. QED BY <2>1, StorePut DEF Replaces, Slab
<1>2. /\ IsQueue(n.accept, Slab(m)) /\ IsQueue(n.updates, Slab(m)) /\ IsQueue(n.sending, Slab(m))
      /\ \A t : Queued(n.accept, t) <=> Queued(m.accept, t) \/ ("accept" \in P /\ t = s)
      /\ \A t : Queued(n.updates, t) <=> Queued(m.updates, t) \/ ("updates" \in P /\ t = s)
      /\ \A t : Queued(n.sending, t) <=> Queued(m.sending, t) \/ ("sending" \in P /\ t = s)
  <2> DEFINE S == Slab(m)
             a == "accept" \in P
             b == "updates" \in P
             d == "sending" \in P
  <2>1. a \in BOOLEAN /\ b \in BOOLEAN /\ d \in BOOLEAN OBVIOUS
  <2>2. IsQueue(m.accept, S) /\ IsQueue(m.updates, S) /\ IsQueue(m.sending, S) /\ s \in S
    BY DEF Queues
  <2>3. /\ n.accept = Push(m.accept, s, a) /\ n.updates = Push(m.updates, s, b)
        /\ n.sending = Push(m.sending, s, d)
    BY DEF Replaces
  <2> HIDE DEF S, a, b, d
  <2>4. IsQueue(n.accept, S) /\ \A t : Queued(n.accept, t) <=> Queued(m.accept, t) \/ (a /\ t = s)
    BY <2>1, <2>2, <2>3, PushQueue
  <2>5. IsQueue(n.updates, S) /\ \A t : Queued(n.updates, t) <=> Queued(m.updates, t) \/ (b /\ t = s)
    BY <2>1, <2>2, <2>3, PushQueue
  <2>6. IsQueue(n.sending, S) /\ \A t : Queued(n.sending, t) <=> Queued(m.sending, t) \/ (d /\ t = s)
    BY <2>1, <2>2, <2>3, PushQueue
  <2>7. QED BY <2>4, <2>5, <2>6 DEF S, a, b, d
<1>3. \A k \in Slab(m) : n.store[k].promises = m.store[k].promises
  BY <1>1
<1>4. Queues(n)
  BY <1>1, <1>2, <1>3 DEF Replaces, Queues
<1>5. \A k : Pledged(n, k) <=> Pledged(m, k)
  BY <1>1, <1>3 DEF Pledged
<1>6. \A k : (Current(n, k) <=> Current(m, k)) /\ (Alone(n, k) <=> Alone(m, k))
  BY <1>1 DEF Current, Alone, Replaces
<1>7. \A k : Queued(n.expiring, k) <=> Queued(m.expiring, k)
  BY DEF Replaces
<1>8. P \subseteq {"accept", "updates", "sending"}
  BY DEF Replaces
<1> DEFINE e == {}
<1>9. e \in SUBSET MarkNames /\ P \in SUBSET MarkNames /\ P \cap e = {} /\ \A x : x \notin e
  BY <1>8 DEF MarkNames
<1>10. Marks(n, s) = (Marks(m, s) \ e) \cup P
  <2> HIDE DEF e
  <2>1. Remarked(m, n, s, e, P) BY <1>2, <1>5, <1>6, <1>7, <1>8, <1>9 DEF Remarked
  <2>2. QED BY <2>1, MarksChange
<1>11. ASSUME NEW k \in Slab(m), k # s PROVE Marks(n, k) = (Marks(m, k) \ e) \cup e
  <2>1. e \cap e = {} OBVIOUS
  <2> HIDE DEF e
  <2>2. Remarked(m, n, k, e, e) BY <1>2, <1>5, <1>6, <1>7, <1>9, <1>11, <2>1 DEF Remarked
  <2>3. QED BY <2>2, MarksChange
<1>12. QED BY <1>1, <1>4, <1>10, <1>11

\* The bytes of all streams change with those of one.
LEMMA ReplacesBytes ==
  ASSUME NEW c \in Contexts, NEW m \in Locked(c.i), NEW n \in Locked(c.i), NEW s \in Slab(m),
         Slab(n) = Slab(m), \A k \in Slab(m) : k # s => n.store[k] = m.store[k]
  PROVE  SumFunction(InFlight(n)) = SumFunction(InFlight(m)) + (n.store[s].inFlight - m.store[s].inFlight)
<1>1. /\ DOMAIN InFlight(m) = Slab(m) /\ IsSummable(InFlight(m))
      /\ \A k \in Slab(m) : InFlight(m)[k] = m.store[k].inFlight
      /\ DOMAIN InFlight(n) = Slab(m) /\ \A k \in Slab(m) : InFlight(n)[k] = n.store[k].inFlight
      /\ InFlight(n)[s] \in Int
  BY SlabFinite
<1>2. \A k \in Slab(m) : k # s => InFlight(n)[k] = InFlight(m)[k]
  BY <1>1
<1>3. QED BY <1>1, <1>2, SumChange

\* What changes of the connection fits what changes of the entry.
Balances(c, m, n, was, r, loose, left) ==
  /\ n.inFlight = m.inFlight + (r.inFlight - was.inFlight) + (left - loose)
  /\ n.flow.window \in 0 .. MaxWindow /\ n.flow.available + n.inFlight \in 0 .. MaxWindow

\* A slot is taken for the entry, or the slots stay as they are.
Counts(c, m, n, a, b) ==
  \/ b.counted = a.counted /\ n.numRecv = m.numRecv
  \/ b.counted /\ ~a.counted /\ n.numRecv = m.numRecv + 1 /\ m.numRecv < MaxRecv[c.i]

\* The slots still fit the counter when one entry has changed.
LEMMA CountsSlots ==
  ASSUME NEW c \in Contexts, NEW m \in Locked(c.i), NEW n \in Locked(c.i), Slots(c, m), NEW s \in Slab(m),
         Slab(n) = Slab(m), \A k \in Slab(m) : k # s => n.store[k] = m.store[k],
         n.expiring = m.expiring, n.numReset = m.numReset, Counts(c, m, n, m.store[s], n.store[s])
  PROVE  Slots(c, n)
<1>1. IsFiniteSet(Counted(m)) /\ m.numRecv \in Int /\ n.numRecv \in Int BY SlabFinite DEF Locked
<1>2. c.i \in Instances BY DEF Contexts
<1>3. MaxRecv[c.i] \in Nat BY <1>2, RecvAssumption
<1>4. CASE n.store[s].counted = m.store[s].counted /\ n.numRecv = m.numRecv
  <2>1. Counted(n) = Counted(m) BY <1>4 DEF Counted
  <2>2. QED BY <1>4, <2>1 DEF Slots
<1>5. CASE /\ n.store[s].counted /\ ~m.store[s].counted /\ n.numRecv = m.numRecv + 1
           /\ m.numRecv < MaxRecv[c.i]
  <2>1. Counted(n) = Counted(m) \cup {s} /\ s \notin Counted(m) BY <1>5 DEF Counted
  <2>2. Cardinality(Counted(n)) = Cardinality(Counted(m)) + 1 BY <1>1, <2>1, FS_AddElement
  <2>3. n.numRecv <= MaxRecv[c.i] BY <1>1, <1>3, <1>5
  <2>4. QED BY <1>5, <2>2, <2>3 DEF Slots
<1>6. QED BY <1>4, <1>5 DEF Counts

\* Such a change keeps what is known, if it keeps it of the entry.
LEMMA PutSound ==
  ASSUME NEW c \in Contexts, NEW m, NEW X, NEW loose \in Int, Sound(c, m, X, loose),
         NEW s \in Slab(m), NEW r \in Streams, r.promises = m.store[s].promises,
         NEW n \in Locked(c.i), NEW P, Replaces(m, n, s, r, P), NEW left \in Int,
         Balances(c, m, n, m.store[s], r, loose, left),
         Counts(c, m, n, m.store[s], r),
         Fine(c, m.initWindow, s, r, Marks(m, s) \cup P)
  PROVE  /\ Sound(c, n, X \cup {s}, left) /\ Slab(n) = Slab(m) /\ n.store[s] = r
         /\ \A k \in Slab(m) : k # s => n.store[k] = m.store[k] /\ Marks(n, k) = Marks(m, k)
         /\ Marks(n, s) = Marks(m, s) \cup P
         /\ Settled(c, r, Marks(m, s) \cup P) => Sound(c, n, X \ {s}, left)
<1>1. /\ m \in Locked(c.i) /\ Queues(m) /\ Linking(m) /\ Slots(c, m) /\ Window(c, m, loose)
      /\ \A k \in Slab(m) : Fine(c, m.initWindow, k, m.store[k], Marks(m, k))
      /\ \A k \in Slab(m) \ X : Settled(c, m.store[k], Marks(m, k))
  BY DEF Sound
<1>2. /\ Slab(n) = Slab(m) /\ n.store[s] = r
      /\ \A k \in Slab(m) : k # s => n.store[k] = m.store[k]
      /\ Queues(n)
      /\ Marks(n, s) = Marks(m, s) \cup P
      /\ \A k \in Slab(m) : k # s => Marks(n, k) = Marks(m, k)
  BY <1>1, ReplacesMarks
<1>3. Linking(n)
  BY <1>1, <1>2 DEF Linking, Replaces
<1>4. Slots(c, n)
  <2>1. n.expiring = m.expiring /\ n.numReset = m.numReset BY DEF Replaces
  <2>2. Counts(c, m, n, m.store[s], n.store[s]) BY <1>2
  <2>3. QED BY <1>1, <1>2, <2>1, <2>2, CountsSlots
<1>5. Window(c, n, left)
  <2>1. SumFunction(InFlight(n)) = SumFunction(InFlight(m)) + (r.inFlight - m.store[s].inFlight)
    BY <1>1, <1>2, ReplacesBytes
  <2>2. SumFunction(InFlight(m)) \in Int /\ m.inFlight \in Int /\ n.inFlight \in Int /\ m.lost \in Int
    <3>1. IsSummable(InFlight(m)) BY <1>1, SlabFinite
    <3>2. m.inFlight \in Int /\ n.inFlight \in Int /\ m.lost \in Int BY <1>1 DEF Locked
    <3>3. QED BY <3>1, <3>2, SumIsInt
  <2>3. m.store[s].inFlight \in Int /\ r.inFlight \in Int
    BY <1>1, StreamTyped DEF Streams
  <2>4. n.lost = m.lost /\ n.local = m.local BY DEF Replaces
  <2>5. m.inFlight = SumFunction(InFlight(m)) + m.lost + loose BY <1>1 DEF Window
  <2>6. n.inFlight = m.inFlight + (r.inFlight - m.store[s].inFlight) + (left - loose)
    BY DEF Balances
  <2>7. n.inFlight = SumFunction(InFlight(n)) + n.lost + left
    BY ONLY <2>1, <2>2, <2>3, <2>4, <2>5, <2>6, loose \in Int, left \in Int
  <2>8. QED BY <1>1, <2>4, <2>7 DEF Window, Balances
<1>6. \A k \in Slab(n) : Fine(c, n.initWindow, k, n.store[k], Marks(n, k))
  <2>1. n.initWindow = m.initWindow BY DEF Replaces
  <2>2. QED BY <1>1, <1>2, <2>1
<1>7. \A k \in Slab(n) \ (X \cup {s}) : Settled(c, n.store[k], Marks(n, k))
  BY <1>1, <1>2
<1>8. Settled(c, r, Marks(m, s) \cup P) => \A k \in Slab(n) \ (X \ {s}) : Settled(c, n.store[k], Marks(n, k))
  BY <1>2, <1>7
<1>9. QED BY <1>2, <1>3, <1>4, <1>5, <1>6, <1>7, <1>8 DEF Sound
-----------------------------------------------------------------------------
(* Counts::transition_after.                                                 *)

\* The marks that keep an entry in the slab.
Places == {"accept", "pledged", "sending", "updates", "expiring"}

\* What is pending is accepted or pledged, and what is released is nowhere.
LEMMA ReleasedIs ==
  ASSUME NEW c \in Contexts, NEW m \in Locked(c.i), NEW s \in Slab(m)
  PROVE  /\ IsReleased(m, s) <=> Released(m.store[s], Marks(m, s))
         /\ IsPendingAccept(m, s) <=> "accept" \in Marks(m, s) \/ "pledged" \in Marks(m, s)
<1>1. m.sending \in Seq(Int) /\ m.updates \in Seq(Int) /\ m.expiring \in Seq(Int)
  BY DEF Locked
<1> DEFINE a == m.sending \o m.updates
<1>2. a \in Seq(Int) /\ (Queued(a, s) <=> Queued(m.sending, s) \/ Queued(m.updates, s))
  BY <1>1, QueuedConcat
<1> HIDE DEF a
<1>3. Queued(a \o m.expiring, s) <=> Queued(a, s) \/ Queued(m.expiring, s)
  BY <1>1, <1>2, QueuedConcat
<1>4. Queued(m.sending \o m.updates \o m.expiring, s) <=>
        Queued(m.sending, s) \/ Queued(m.updates, s) \/ Queued(m.expiring, s)
  BY <1>2, <1>3 DEF a
<1>5. IsPendingAccept(m, s) <=> Queued(m.accept, s) \/ Pledged(m, s)
  BY DEF IsPendingAccept, Pledged
<1> DEFINE w == Marks(m, s)
<1>6. /\ "accept" \in w <=> Queued(m.accept, s)
      /\ "updates" \in w <=> Queued(m.updates, s)
      /\ "expiring" \in w <=> Queued(m.expiring, s)
      /\ "sending" \in w <=> Queued(m.sending, s)
      /\ "pledged" \in w <=> Pledged(m, s)
  BY MarksAre
<1> HIDE DEF w
<1>7. w \cap {"accept", "pledged", "sending", "updates", "expiring"} = {} <=>
        /\ "accept" \notin w /\ "pledged" \notin w /\ "sending" \notin w
        /\ "updates" \notin w /\ "expiring" \notin w
  OBVIOUS
<1>8. QED BY <1>4, <1>5, <1>6, <1>7 DEF IsReleased, StreamClosed, Released, w

\* An entry is as it was, but that it may hold no slot any more.
SameBut(a, b) == b = a \/ b = [a EXCEPT !.counted = FALSE]

\* n is m, but that ids may find less and entries may have lost their slot;
\* `gone` have left the slab.
Thins(m, n, gone) ==
  /\ Slab(n) = Slab(m) \ gone
  /\ \A k \in Slab(n) : SameBut(m.store[k], n.store[k])
  /\ \A k \in Slab(n) : Marks(n, k) \cap Places = Marks(m, k) \cap Places
  /\ \A k \in Slab(n) : "current" \in Marks(n, k) => "current" \in Marks(m, k)
  /\ \A k \in Slab(n) : Live(m.store[k]) => {"current", "alone"} \subseteq Marks(n, k)
  /\ DOMAIN n.ids \subseteq DOMAIN m.ids /\ \A s \in DOMAIN n.ids : n.ids[s] = m.ids[s]
  /\ n.accept = m.accept /\ n.updates = m.updates /\ n.expiring = m.expiring
  /\ n.sending = m.sending /\ n.initWindow = m.initWindow /\ n.nextId = m.nextId
  /\ n.flow = m.flow /\ n.inFlight = m.inFlight /\ n.local = m.local /\ n.err = m.err
  /\ n.refused = m.refused /\ n.woken = m.woken /\ n.numRecv <= m.numRecv

\* Nothing thins nothing.
LEMMA ThinsNothing ==
  ASSUME NEW c \in Contexts, NEW m, NEW X, NEW loose, Sound(c, m, X, loose), NEW gone, gone = {}
  PROVE  Thins(m, m, gone)
<1>1. /\ m \in Locked(c.i)
      /\ \A k \in Slab(m) : Fine(c, m.initWindow, k, m.store[k], Marks(m, k))
  BY DEF Sound
<1>2. m.numRecv \in Int BY <1>1 DEF Locked
<1>3. \A k \in Slab(m) : Live(m.store[k]) => {"current", "alone"} \subseteq Marks(m, k)
  BY <1>1 DEF Fine
<1>4. QED BY <1>2, <1>3 DEF Thins, SameBut

\* What is settled does not depend on `current`, `alone` and the slot.
LEMMA SameSettled ==
  ASSUME NEW c, NEW a \in Streams, NEW b, SameBut(a, b), NEW v, NEW w, v \cap Places = w \cap Places
  PROVE  /\ b \in Streams /\ b.promises = a.promises /\ b.inFlight = a.inFlight
         /\ Settled(c, a, v) => Settled(c, b, w)
         /\ Ready(c, a, v) => Ready(c, b, w)
         /\ Released(a, v) <=> Released(b, w)
<1>1. /\ b.state = a.state /\ b.out = a.out /\ b.handles = a.handles /\ b.promises = a.promises
      /\ b.inFlight = a.inFlight /\ b \in Streams
  BY DEF SameBut, Streams
<1>2. \A x \in Places : x \in v <=> x \in w
  OBVIOUS
<1>3. v \cap {"accept", "pledged"} = w \cap {"accept", "pledged"} /\ ("expiring" \in v <=> "expiring" \in w)
  BY <1>2 DEF Places
<1>4. Places = {"accept", "pledged", "sending", "updates", "expiring"}
  BY DEF Places
<1>5. Released(a, v) <=> Released(b, w)
  BY <1>1, <1>4 DEF Released
<1>6. Ready(c, a, v) <=> Ready(c, b, w)
  BY <1>1, <1>3 DEF Ready, Owned, Keeps
<1>7. QED BY <1>1, <1>5, <1>6 DEF Settled

\* What is fine stays fine with less.
LEMMA SameFine ==
  ASSUME NEW c, NEW init, NEW k, NEW a \in Streams, NEW b, SameBut(a, b), NEW v, NEW w,
         v \cap Places = w \cap Places, "current" \in w => "current" \in v,
         Live(a) => {"current", "alone"} \subseteq w, Fine(c, init, k, a, v)
  PROVE  Fine(c, init, k, b, w)
<1>1. /\ b.state = a.state /\ b.out = a.out /\ b.handles = a.handles /\ b.promises = a.promises
      /\ b.inFlight = a.inFlight /\ b.events = a.events /\ b.flow = a.flow
      /\ ~a.counted => ~b.counted
  BY DEF SameBut, Streams
<1>2. /\ ("accept" \in w => "accept" \in v) /\ ("sending" \in w => "sending" \in v)
      /\ ("pledged" \in w => "pledged" \in v) /\ ("expiring" \in w => "expiring" \in v)
  BY DEF Places
<1>3. QED BY <1>1, <1>2 DEF Fine, Live, Awaits, HeadersFirst

\* So the entries that are left stay fine and settled.
LEMMA ThinFine ==
  ASSUME NEW c \in Contexts, NEW m, NEW X, NEW loose, Sound(c, m, X, loose), NEW n, NEW gone, Thins(m, n, gone)
  PROVE  /\ \A k \in Slab(n) : Fine(c, n.initWindow, k, n.store[k], Marks(n, k))
         /\ \A k \in Slab(n) \ X : Settled(c, n.store[k], Marks(n, k))
<1>1. /\ m \in Locked(c.i)
      /\ \A k \in Slab(m) : Fine(c, m.initWindow, k, m.store[k], Marks(m, k))
      /\ \A k \in Slab(m) \ X : Settled(c, m.store[k], Marks(m, k))
  BY DEF Sound
<1>2. ASSUME NEW k \in Slab(n)
      PROVE  /\ k \in Slab(m) /\ m.store[k] \in Streams /\ SameBut(m.store[k], n.store[k])
             /\ Marks(m, k) \cap Places = Marks(n, k) \cap Places
             /\ "current" \in Marks(n, k) => "current" \in Marks(m, k)
             /\ Live(m.store[k]) => {"current", "alone"} \subseteq Marks(n, k)
             /\ n.initWindow = m.initWindow
  <2>1. k \in Slab(m) BY DEF Thins
  <2>2. m.store[k] \in Streams BY <1>1, <2>1, StreamTyped
  <2>3. QED BY <2>1, <2>2 DEF Thins
<1>3. ASSUME NEW k \in Slab(n) PROVE Fine(c, n.initWindow, k, n.store[k], Marks(n, k))
  <2>1. Fine(c, m.initWindow, k, m.store[k], Marks(m, k)) BY <1>1, <1>2
  <2>2. QED BY <1>2, <2>1, SameFine
<1>4. ASSUME NEW k \in Slab(n) \ X PROVE Settled(c, n.store[k], Marks(n, k))
  <2>1. Settled(c, m.store[k], Marks(m, k)) BY <1>1, <1>2
  <2>2. QED BY <1>2, <2>1, SameSettled
<1>5. QED BY <1>3, <1>4

\* One thinning after the other.
LEMMA ThinsTwice ==
  ASSUME NEW c \in Contexts, NEW m \in Locked(c.i), NEW n \in Locked(c.i), NEW o \in Locked(c.i),
         NEW a, NEW b, Thins(m, n, a), Thins(n, o, b)
  PROVE  Thins(m, o, a \cup b)
<1>1. Slab(o) = Slab(m) \ (a \cup b) /\ Slab(o) \subseteq Slab(n) /\ Slab(n) \subseteq Slab(m)
  BY DEF Thins
<1>2. ASSUME NEW k \in Slab(o)
      PROVE  /\ SameBut(m.store[k], o.store[k]) /\ Marks(o, k) \cap Places = Marks(m, k) \cap Places
             /\ "current" \in Marks(o, k) => "current" \in Marks(m, k)
             /\ Live(m.store[k]) => {"current", "alone"} \subseteq Marks(o, k)
  <2>1. SameBut(m.store[k], n.store[k]) /\ SameBut(n.store[k], o.store[k]) /\ m.store[k] \in Streams
    BY <1>1, StreamTyped DEF Thins
  <2>2. SameBut(m.store[k], o.store[k]) /\ (Live(m.store[k]) => Live(n.store[k]))
    BY <2>1 DEF SameBut, Streams, Live
  <2>3. QED BY <1>1, <2>2 DEF Thins
<1>3. m.numRecv \in Int /\ n.numRecv \in Int /\ o.numRecv \in Int BY DEF Locked
<1>4. DOMAIN o.ids \subseteq DOMAIN m.ids /\ \A s \in DOMAIN o.ids : o.ids[s] = m.ids[s]
  BY DEF Thins
<1>5. /\ o.accept = m.accept /\ o.updates = m.updates /\ o.expiring = m.expiring
      /\ o.sending = m.sending /\ o.initWindow = m.initWindow /\ o.nextId = m.nextId
      /\ o.flow = m.flow /\ o.inFlight = m.inFlight /\ o.local = m.local /\ o.err = m.err
      /\ o.refused = m.refused /\ o.woken = m.woken /\ o.numRecv <= m.numRecv
  BY <1>3 DEF Thins
<1>6. QED BY <1>1, <1>2, <1>4, <1>5 DEF Thins

\* Without an id the index is still one.
LEMMA IndexLess ==
  ASSUME NEW i, NEW f \in Index(i), NEW s
  PROVE  /\ Restrict(f, DOMAIN f \ {s}) \in Index(i)
         /\ DOMAIN Restrict(f, DOMAIN f \ {s}) = DOMAIN f \ {s}
         /\ \A t \in DOMAIN f \ {s} : Restrict(f, DOMAIN f \ {s})[t] = f[t]
<1>1. f \in [DOMAIN f -> KeysOf(i)] /\ DOMAIN f \subseteq IdsOf(i) BY DEF Index
<1> DEFINE D == DOMAIN f \ {s}
           g == Restrict(f, D)
<1>2. g = [t \in D |-> f[t]] BY DEF Restrict
<1>3. g \in [D -> KeysOf(i)] /\ D \subseteq IdsOf(i) BY <1>1, <1>2
<1>4. g \in Index(i)
  <2> HIDE DEF g, D
  <2> QED BY <1>3 DEF Index
<1>5. QED BY <1>2, <1>4

\* A stream that is closed and does not expire is unlinked.
Unlinked(m, s, wasReset) ==
  IF StreamClosed(m, s) /\ ~Queued(m.expiring, s)
  THEN [(IF wasReset THEN DecNumReset(m) ELSE m) EXCEPT !.ids = Restrict(@, DOMAIN @ \ {IdOf(s)})]
  ELSE m

\* It was counted as reset only if it still is, or if its place is free again.
MayExpire(m, s, wasReset) ==
  wasReset => Queued(m.expiring, s) \/ m.numReset >= Len(m.expiring) + 1

\* Store::unlink keeps the record sound.
LEMMA UnlinkedSound ==
  ASSUME NEW c \in Contexts, NEW m, NEW X, NEW loose, Sound(c, m, X, loose), NEW s \in Slab(m),
         NEW wasReset \in BOOLEAN, MayExpire(m, s, wasReset), NEW gone, gone = {}
  PROVE  LET u == Unlinked(m, s, wasReset)
         IN  /\ Sound(c, u, X, loose) /\ Thins(m, u, gone) /\ u.store = m.store
             /\ StreamClosed(m, s) /\ ~Queued(m.expiring, s) => ~Current(u, s)
<1> DEFINE u == Unlinked(m, s, wasReset)
           ids == Restrict(m.ids, DOMAIN m.ids \ {IdOf(s)})
<1>1. /\ m \in Locked(c.i) /\ Queues(m) /\ Linking(m) /\ Slots(c, m) /\ Window(c, m, loose)
      /\ \A k \in Slab(m) : Fine(c, m.initWindow, k, m.store[k], Marks(m, k))
  BY DEF Sound
<1>2. CASE ~(StreamClosed(m, s) /\ ~Queued(m.expiring, s))
  BY <1>2, ThinsNothing DEF Unlinked
<1>3. CASE StreamClosed(m, s) /\ ~Queued(m.expiring, s)
  <2>1. m.numReset \in Int /\ Len(m.expiring) \in Nat /\ m.numRecv \in Int BY <1>1 DEF Locked
  <2>2. wasReset => m.numReset >= Len(m.expiring) + 1 BY <1>3 DEF MayExpire
  <2>3. ids \in Index(c.i) /\ DOMAIN ids = DOMAIN m.ids \ {IdOf(s)} /\ \A t \in DOMAIN ids : ids[t] = m.ids[t]
    <3>1. m.ids \in Index(c.i) BY <1>1 DEF Locked
    <3>2. QED BY <3>1, IndexLess
  <2> DEFINE count == IF wasReset THEN m.numReset - 1 ELSE m.numReset
  <2>4. u = [m EXCEPT !.ids = ids, !.numReset = count]
    <3>1. wasReset => m.numReset > 0 BY <2>1, <2>2
    <3> HIDE DEF ids
    <3>2. u = [(IF wasReset THEN [m EXCEPT !.numReset = m.numReset - 1] ELSE m) EXCEPT !.ids = ids]
      <4>1. u = [(IF wasReset THEN DecNumReset(m) ELSE m) EXCEPT !.ids = Restrict(@, DOMAIN @ \ {IdOf(s)})]
        BY <1>3 DEF Unlinked
      <4>2. DecNumReset(m) = IF m.numReset > 0 THEN [m EXCEPT !.numReset = m.numReset - 1]
                             ELSE [[m EXCEPT !.numReset = m.numReset - 1] EXCEPT !.failed = @ \cup {"dec_num_reset_streams"}]
        BY DEF DecNumReset, Check
      <4>3. CASE wasReset
        <5>1. DecNumReset(m) = [m EXCEPT !.numReset = m.numReset - 1] BY <3>1, <4>2, <4>3
        <5>2. DecNumReset(m).ids = m.ids BY <1>1, <5>1 DEF Locked
        <5>3. QED BY <4>1, <4>3, <5>1, <5>2 DEF ids
      <4>4. CASE ~wasReset BY <4>1, <4>4 DEF ids
      <4>5. QED BY <4>3, <4>4
    <3>3. QED BY <1>1, <3>2 DEF Locked
  <2>5. count \in Int /\ Len(m.expiring) <= count /\ count <= m.numReset BY <2>1, <2>2, <1>1 DEF Slots
  <2> HIDE DEF u, ids, count
  <2>6. u \in Locked(c.i) BY <1>1, <2>3, <2>4, <2>5 DEF Locked
  <2>7. /\ u.store = m.store /\ u.ids = ids /\ u.numReset = count
        /\ u.accept = m.accept /\ u.updates = m.updates /\ u.expiring = m.expiring
        /\ u.sending = m.sending /\ u.initWindow = m.initWindow /\ u.nextId = m.nextId
        /\ u.flow = m.flow /\ u.inFlight = m.inFlight /\ u.local = m.local /\ u.err = m.err
        /\ u.refused = m.refused /\ u.woken = m.woken /\ u.numRecv = m.numRecv /\ u.lost = m.lost
    BY <1>1, <2>4 DEF Locked
  <2>8. Slab(u) = Slab(m) BY <2>7 DEF Slab
  <2>9. ASSUME NEW k \in Slab(m)
        PROVE  /\ Marks(u, k) \cap Places = Marks(m, k) \cap Places
               /\ "current" \in Marks(u, k) => "current" \in Marks(m, k)
               /\ Live(m.store[k]) => {"current", "alone"} \subseteq Marks(u, k)
    <3>1. /\ Alone(u, k) <=> Alone(m, k)
          /\ Pledged(u, k) <=> Pledged(m, k)
          /\ Current(u, k) <=> Current(m, k) /\ IdOf(k) # IdOf(s)
      BY <2>3, <2>7, <2>8 DEF Alone, Pledged, Current
    <3>2. \A x \in MarkNames \ {"current"} : x \in Marks(u, k) <=> x \in Marks(m, k)
      BY <2>7, <3>1, MarksAre DEF MarkNames
    <3>3. Places \subseteq MarkNames \ {"current"} BY DEF Places, MarkNames
    <3>4. ASSUME Live(m.store[k]) PROVE {"current", "alone"} \subseteq Marks(u, k)
      <4>1. {"current", "alone"} \subseteq Marks(m, k) BY <1>1, <3>4 DEF Fine
      <4>2. k # s BY <1>3, <3>4 DEF Live, StreamClosed
      <4>3. IdOf(k) # IdOf(s) BY <4>1, <4>2, MarksAre DEF Alone
      <4>4. QED BY <3>1, <4>1, <4>3, MarksAre
    <3>5. QED BY <3>1, <3>2, <3>3, <3>4, MarksAre
  <2>10. Thins(m, u, gone)
    <3>1. \A k \in Slab(m) : SameBut(m.store[k], u.store[k]) BY <2>7 DEF SameBut
    <3>2. u.numRecv <= m.numRecv BY <2>1, <2>7
    <3>3. DOMAIN u.ids \subseteq DOMAIN m.ids /\ \A t \in DOMAIN u.ids : u.ids[t] = m.ids[t]
      BY <2>3, <2>7
    <3>4. QED BY <2>7, <2>8, <2>9, <3>1, <3>2, <3>3 DEF Thins
  <2>11. Queues(u) BY <1>1, <2>7, <2>8 DEF Queues
  <2>12. Linking(u) BY <1>1, <2>3, <2>7, <2>8 DEF Linking
  <2>13. Slots(c, u)
    <3>1. Counted(u) = Counted(m) BY <2>7, <2>8 DEF Counted
    <3>2. count <= MaxReset
      <4>1. MaxReset \in Nat /\ m.numReset <= MaxReset BY <1>1, RecvAssumption DEF Slots
      <4>2. QED BY <2>1, <2>5, <4>1
    <3>3. QED BY <1>1, <2>5, <2>7, <3>1, <3>2 DEF Slots
  <2>14. Window(c, u, loose)
    <3>1. InFlight(u) = InFlight(m) BY <2>7, <2>8 DEF InFlight
    <3>2. QED BY <1>1, <2>7, <3>1 DEF Window
  <2>15. Sound(c, u, X, loose)
    BY <2>6, <2>10, <2>11, <2>12, <2>13, <2>14, ThinFine DEF Sound
  <2>16. ~Current(u, s) BY <2>3, <2>7 DEF Current
  <2>17. QED BY <2>7, <2>10, <2>15, <2>16 DEF u
<1>4. QED BY <1>2, <1>3

\* A counted stream that is closed gives its slot back.
LEMMA UncountSound ==
  ASSUME NEW c \in Contexts, NEW m, NEW X, NEW loose, Sound(c, m, X, loose), NEW s \in Slab(m),
         m.store[s].counted, NEW gone, gone = {}
  PROVE  LET u == DecNumRecv(m, s)
         IN  /\ Sound(c, u, X, loose) /\ Thins(m, u, gone) /\ u.ids = m.ids
             /\ u.store[s] = [m.store[s] EXCEPT !.counted = FALSE]
             /\ \A k \in Slab(m) : k # s => u.store[k] = m.store[k]
<1> DEFINE u == DecNumRecv(m, s)
           r == [m.store[s] EXCEPT !.counted = FALSE]
           new == [m.store EXCEPT ![s] = r]
<1>1. /\ m \in Locked(c.i) /\ Queues(m) /\ Linking(m) /\ Slots(c, m) /\ Window(c, m, loose)
      /\ \A k \in Slab(m) : Fine(c, m.initWindow, k, m.store[k], Marks(m, k))
  BY DEF Sound
<1>2. m.store[s] \in Streams /\ m.numRecv \in Int /\ m.store \in Stores(c.i)
  BY <1>1, StreamTyped DEF Locked
<1>3. r \in Streams /\ r.inFlight = m.store[s].inFlight /\ r.promises = m.store[s].promises /\ ~r.counted
  BY <1>2 DEF Streams
<1> HIDE DEF r
<1>4. /\ new \in Stores(c.i) /\ DOMAIN new = DOMAIN m.store /\ new[s] = r
      /\ \A k \in Slab(m) : k # s => new[k] = m.store[k]
  <2>1. s \in DOMAIN m.store BY DEF Slab
  <2>2. QED BY <1>2, <1>3, <2>1, StorePut DEF Slab
<1>5. s \in Counted(m) /\ IsFiniteSet(Counted(m)) /\ Cardinality(Counted(m)) \in Nat
  BY <1>1, SlabFinite, FS_CardinalityType DEF Counted
<1>6. m.numRecv > 0
  <2>1. Cardinality(Counted(m)) # 0 BY <1>5, FS_EmptySet
  <2>2. QED BY <1>1, <1>5, <2>1 DEF Slots
<1> HIDE DEF new
<1>7. u = [m EXCEPT !.numRecv = m.numRecv - 1, !.store = new]
  <2>1. u = [m EXCEPT !.numRecv = @ - 1, !.store[s].counted = FALSE]
    BY <1>6 DEF DecNumRecv, Check
  <2>2. QED BY <1>1, <2>1 DEF new, r, Locked
<1> HIDE DEF u
<1>8. u \in Locked(c.i)
  <2>1. m.numRecv - 1 \in Int /\ new \in Stores(c.i) BY <1>2, <1>4
  <2>2. QED BY <1>1, <1>7, <2>1 DEF Locked
<1>9. /\ u.store = new /\ u.ids = m.ids /\ u.numReset = m.numReset
      /\ u.accept = m.accept /\ u.updates = m.updates /\ u.expiring = m.expiring
      /\ u.sending = m.sending /\ u.initWindow = m.initWindow /\ u.nextId = m.nextId
      /\ u.flow = m.flow /\ u.inFlight = m.inFlight /\ u.local = m.local /\ u.err = m.err
      /\ u.refused = m.refused /\ u.woken = m.woken /\ u.numRecv = m.numRecv - 1 /\ u.lost = m.lost
  BY <1>1, <1>7 DEF Locked
<1>10. Slab(u) = Slab(m) BY <1>4, <1>9 DEF Slab
<1>11. \A k \in Slab(m) : u.store[k].promises = m.store[k].promises
  BY <1>3, <1>4, <1>9
<1>12. ASSUME NEW k \in Slab(m) PROVE Marks(u, k) = Marks(m, k)
  <2>1. /\ Alone(u, k) <=> Alone(m, k)
        /\ Pledged(u, k) <=> Pledged(m, k)
        /\ Current(u, k) <=> Current(m, k)
    BY <1>9, <1>10, <1>11 DEF Alone, Pledged, Current
  <2>2. \A x \in MarkNames : x \in Marks(u, k) <=> x \in Marks(m, k)
    BY <1>9, <2>1, MarksAre DEF MarkNames
  <2>3. Marks(u, k) \in SUBSET MarkNames /\ Marks(m, k) \in SUBSET MarkNames
    BY MarksAre DEF MarkNames
  <2>4. QED BY <2>2, <2>3, MarksEqual
<1>13. Thins(m, u, gone)
  <2>1. \A k \in Slab(m) : SameBut(m.store[k], u.store[k]) BY <1>4, <1>9 DEF SameBut, r
  <2>2. u.numRecv <= m.numRecv BY <1>2, <1>9
  <2>3. \A k \in Slab(m) : Live(m.store[k]) => {"current", "alone"} \subseteq Marks(u, k)
    BY <1>1, <1>12 DEF Fine
  <2>4. QED BY <1>9, <1>10, <1>12, <2>1, <2>2, <2>3 DEF Thins
<1>14. Queues(u) BY <1>1, <1>9, <1>10, <1>11 DEF Queues
<1>15. Linking(u) BY <1>1, <1>9, <1>10 DEF Linking
<1>16. Slots(c, u)
  <2>1. Counted(u) = Counted(m) \ {s} BY <1>3, <1>4, <1>9, <1>10 DEF Counted
  <2>2. Cardinality(Counted(u)) = Cardinality(Counted(m)) - 1 BY <1>5, <2>1, FS_RemoveElement
  <2>3. MaxRecv[c.i] \in Nat BY RecvAssumption DEF Contexts
  <2>4. QED BY <1>1, <1>2, <1>9, <2>2, <2>3 DEF Slots
<1>17. Window(c, u, loose)
  <2>1. InFlight(u) = InFlight(m) BY <1>3, <1>4, <1>9, <1>10 DEF InFlight
  <2>2. QED BY <1>1, <1>9, <2>1 DEF Window
<1>18. Sound(c, u, X, loose)
  BY <1>8, <1>13, <1>14, <1>15, <1>16, <1>17, ThinFine DEF Sound
<1>19. QED BY <1>4, <1>9, <1>13, <1>18 DEF u, r

\* A stream that is released leaves the slab.
LEMMA RemoveSound ==
  ASSUME NEW c \in Contexts, NEW m, NEW X, NEW loose, Sound(c, m, X, loose), NEW s \in Slab(m),
         Released(m.store[s], Marks(m, s)), Ready(c, m.store[s], Marks(m, s)),
         ~m.store[s].counted, ~Current(m, s), NEW gone, gone = {s}
  PROVE  LET u == RemoveFromSlab(m, s)
         IN  /\ Sound(c, u, X \ {s}, loose) /\ Thins(m, u, gone)
             /\ \A k \in Slab(m) : k # s => u.store[k] = m.store[k]
<1> DEFINE u == RemoveFromSlab(m, s)
           D == Slab(m) \ {s}
           new == Restrict(m.store, D)
           n == m.lost + m.store[s].inFlight
<1>1. /\ m \in Locked(c.i) /\ Queues(m) /\ Linking(m) /\ Slots(c, m) /\ Window(c, m, loose)
      /\ \A k \in Slab(m) : Fine(c, m.initWindow, k, m.store[k], Marks(m, k))
  BY DEF Sound
<1>2. /\ m.store[s] \in Streams /\ m.store[s].inFlight \in Nat /\ m.lost \in Nat /\ m.store \in Stores(c.i)
      /\ m.numRecv \in Int
  <2>1. m.store[s] \in Streams /\ m.lost \in Nat /\ m.store \in Stores(c.i) /\ m.numRecv \in Int
    BY <1>1, StreamTyped DEF Locked
  <2>2. QED BY <2>1 DEF Streams
<1>3. /\ new \in Stores(c.i) /\ DOMAIN new = D /\ \A k \in D : new[k] = m.store[k]
  <2>1. m.store \in [Slab(m) -> Streams] /\ Slab(m) \subseteq KeysOf(c.i) BY <1>2, StoreTyped DEF Slab
  <2>2. new = [k \in D |-> m.store[k]] BY DEF Restrict
  <2>3. new \in [D -> Streams] /\ D \subseteq KeysOf(c.i) /\ DOMAIN new = D /\ \A k \in D : new[k] = m.store[k]
    BY <2>1, <2>2
  <2> HIDE DEF new
  <2>4. QED BY <2>3, StoreTyped
<1> HIDE DEF new
<1>4. u = [m EXCEPT !.store = new, !.lost = n]
  BY <1>1 DEF RemoveFromSlab, new, Locked, Slab
<1>5. n \in Nat BY <1>2
<1> HIDE DEF u, n
<1>6. u \in Locked(c.i) BY <1>1, <1>3, <1>4, <1>5 DEF Locked
<1>7. /\ u.store = new /\ u.ids = m.ids /\ u.numReset = m.numReset
      /\ u.accept = m.accept /\ u.updates = m.updates /\ u.expiring = m.expiring
      /\ u.sending = m.sending /\ u.initWindow = m.initWindow /\ u.nextId = m.nextId
      /\ u.flow = m.flow /\ u.inFlight = m.inFlight /\ u.local = m.local /\ u.err = m.err
      /\ u.refused = m.refused /\ u.woken = m.woken /\ u.numRecv = m.numRecv /\ u.lost = n
  BY <1>1, <1>4 DEF Locked
<1>8. Slab(u) = D BY <1>3, <1>7 DEF Slab
<1>9. /\ ~Queued(m.accept, s) /\ ~Queued(m.updates, s) /\ ~Queued(m.expiring, s)
      /\ ~Queued(m.sending, s) /\ ~Pledged(m, s)
  <2>1. \A x \in Places : x \notin Marks(m, s) BY DEF Released, Places
  <2>2. QED BY <2>1, MarksAre DEF Places
<1>10. m.store[s].promises = <<>>
  BY DEF Released, Ready, Keeps
<1>11. ASSUME NEW k \in D
       PROVE  /\ Marks(u, k) \cap Places = Marks(m, k) \cap Places
              /\ "current" \in Marks(u, k) => "current" \in Marks(m, k)
              /\ Live(m.store[k]) => {"current", "alone"} \subseteq Marks(u, k)
  <2>1. ~Queued(m.store[s].promises, k) BY <1>10, EmptyQueue
  <2>2. Pledged(u, k) <=> Pledged(m, k)
    BY <1>3, <1>7, <1>8, <2>1 DEF Pledged
  <2>3. (Current(u, k) <=> Current(m, k)) /\ (Alone(m, k) => Alone(u, k))
    BY <1>7, <1>8 DEF Current, Alone
  <2>4. \A x \in Places : x \in Marks(u, k) <=> x \in Marks(m, k)
    BY <1>7, <2>2, MarksAre DEF Places
  <2>5. Live(m.store[k]) => {"current", "alone"} \subseteq Marks(m, k) BY <1>1 DEF Fine
  <2>6. QED BY <2>3, <2>4, <2>5, MarksAre
<1>12. Thins(m, u, gone)
  <2>1. \A k \in D : SameBut(m.store[k], u.store[k]) BY <1>3, <1>7 DEF SameBut
  <2>2. u.numRecv <= m.numRecv BY <1>2, <1>7
  <2>3. QED BY <1>7, <1>8, <1>11, <2>1, <2>2 DEF Thins
<1>13. Queues(u)
  <2>1. /\ IsQueue(m.accept, D) /\ IsQueue(m.updates, D) /\ IsQueue(m.expiring, D) /\ IsQueue(m.sending, D)
    BY <1>1, <1>9, QueueForget DEF Queues
  <2>2. ASSUME NEW k \in D PROVE IsQueue(u.store[k].promises, D)
    <3>1. u.store[k] = m.store[k] /\ ~Queued(m.store[k].promises, s) BY <1>3, <1>7, <1>9 DEF Pledged
    <3>2. IsQueue(m.store[k].promises, Slab(m)) BY <1>1 DEF Queues
    <3>3. QED BY <3>1, <3>2, QueueForget
  <2>3. QED BY <1>7, <1>8, <2>1, <2>2 DEF Queues
<1>14. Linking(u) BY <1>1, <1>7, <1>8 DEF Linking, Current
<1>15. Slots(c, u)
  <2>1. Counted(u) = Counted(m) BY <1>3, <1>7, <1>8 DEF Counted
  <2>2. QED BY <1>1, <1>7, <2>1 DEF Slots
<1>16. Window(c, u, loose)
  <2>1. /\ DOMAIN InFlight(m) = Slab(m) /\ IsSummable(InFlight(m)) /\ InFlight(m)[s] = m.store[s].inFlight
        /\ DOMAIN InFlight(u) = D /\ \A k \in D : InFlight(u)[k] = InFlight(m)[k]
    BY <1>1, <1>3, <1>7, <1>8, SlabFinite DEF InFlight
  <2>2. SumFunction(InFlight(m)) = m.store[s].inFlight + SumFunction(InFlight(u))
    BY <2>1, SumDrop
  <2>3. IsSummable(InFlight(u)) BY <1>6, SlabFinite
  <2>4. SumFunction(InFlight(u)) \in Int BY <2>3, SumIsInt
  <2>5. SumFunction(InFlight(m)) + m.lost = SumFunction(InFlight(u)) + n
    BY <1>2, <2>2, <2>4 DEF n
  <2>6. Strict(c) => n = 0
    <3>1. Strict(c) => m.lost = 0 BY <1>1 DEF Window
    <3>2. Strict(c) => m.store[s].inFlight = 0
      <4>1. Marks(m, s) \cap {"accept", "pledged"} = {} BY DEF Released
      <4>2. QED BY <4>1 DEF Ready, Owned, Released
    <3>3. QED BY <1>2, <3>1, <3>2 DEF n
  <2>7. u.inFlight = SumFunction(InFlight(u)) + u.lost + loose BY <1>1, <1>7, <2>5 DEF Window
  <2>8. QED BY <1>1, <1>7, <2>6, <2>7 DEF Window
<1>17. Sound(c, u, X \ {s}, loose)
  <2>1. \A k \in Slab(u) \ X : Settled(c, u.store[k], Marks(u, k)) BY <1>12, ThinFine
  <2>2. \A k \in Slab(u) \ (X \ {s}) : Settled(c, u.store[k], Marks(u, k)) BY <1>8, <2>1
  <2>3. QED BY <1>6, <1>12, <1>13, <1>14, <1>15, <1>16, <2>2, ThinFine DEF Sound
<1>18. QED BY <1>3, <1>7, <1>12, <1>17 DEF u

\* What is sound on fewer entries is sound on more.
LEMMA SoundMore ==
  ASSUME NEW c, NEW m, NEW X, NEW Y, NEW loose, Sound(c, m, X, loose), X \subseteq Y
  PROVE  Sound(c, m, Y, loose)
BY DEF Sound

\* Whose entry is settled need not be excepted.
LEMMA SoundLess ==
  ASSUME NEW c, NEW m, NEW X, NEW loose, Sound(c, m, X, loose), NEW s,
         s \in Slab(m) => Settled(c, m.store[s], Marks(m, s))
  PROVE  Sound(c, m, X \ {s}, loose)
BY DEF Sound

\* A stream that is closed gives its slot back, if it holds one.
Uncounted(m, u, s) == IF StreamClosed(m, s) /\ m.store[s].counted THEN DecNumRecv(u, s) ELSE u

\* So does giving the slot back.
LEMMA UncountedSound ==
  ASSUME NEW c \in Contexts, NEW m, NEW X, NEW loose, NEW u, Sound(c, u, X, loose), NEW s \in Slab(u),
         u.store = m.store, NEW gone, gone = {}
  PROVE  LET n == Uncounted(m, u, s)
         IN  /\ Sound(c, n, X, loose) /\ Thins(u, n, gone) /\ n.ids = u.ids
             /\ StreamClosed(m, s) => ~n.store[s].counted
             /\ \A k \in Slab(u) : k # s => n.store[k] = u.store[k]
<1>1. u.store[s] \in Streams BY StreamTyped DEF Sound
<1>2. CASE StreamClosed(m, s) /\ m.store[s].counted
  <2>1. u.store[s].counted BY <1>2
  <2> DEFINE r == [u.store[s] EXCEPT !.counted = FALSE]
  <2>2. ~r.counted BY <1>1 DEF Streams
  <2> HIDE DEF r
  <2>3. LET n == DecNumRecv(u, s)
        IN  /\ Sound(c, n, X, loose) /\ Thins(u, n, gone) /\ n.ids = u.ids
            /\ n.store[s] = r
            /\ \A k \in Slab(u) : k # s => n.store[k] = u.store[k]
    BY <2>1, UncountSound DEF r
  <2>4. QED BY <1>2, <2>2, <2>3 DEF Uncounted
<1>3. CASE ~(StreamClosed(m, s) /\ m.store[s].counted)
  <2>1. Thins(u, u, gone) BY ThinsNothing
  <2>2. QED BY <1>3, <2>1 DEF Uncounted
<1>4. QED BY <1>2, <1>3

\* Who leaves the slab when the operation on s is over.
Gone(m, s) == IF IsReleased(m, s) THEN {s} ELSE {}

\* transition_after: the entry is settled, or it is no longer there.
Passed(c, m, n, s, X, loose) ==
  /\ Thins(m, n, Gone(m, s)) /\ Sound(c, n, X, loose)
  /\ Ready(c, m.store[s], Marks(m, s)) => Sound(c, n, X \ {s}, loose)
  /\ \A k \in Slab(n) : k # s => n.store[k] = m.store[k]

\* transition_after keeps the record sound but for the entry itself.
LEMMA TransitionSound ==
  ASSUME NEW c \in Contexts, NEW m, NEW X, NEW loose, Sound(c, m, X, loose), NEW s \in Slab(m),
         NEW wasReset \in BOOLEAN, MayExpire(m, s, wasReset),
         IsReleased(m, s) => Ready(c, m.store[s], Marks(m, s))
  PROVE  Passed(c, m, TransitionAfter(m, s, wasReset), s, X, loose)
<1> DEFINE none == {}
           u == Unlinked(m, s, wasReset)
           v == Uncounted(m, u, s)
           n == TransitionAfter(m, s, wasReset)
<1>1. n = IF IsReleased(m, s) THEN RemoveFromSlab(v, s) ELSE v
  BY DEF TransitionAfter, Unlinked, Uncounted
<1>2. none = {} OBVIOUS
<1> HIDE DEF n, none
<1>3. /\ Sound(c, u, X, loose) /\ Thins(m, u, none) /\ u.store = m.store
      /\ StreamClosed(m, s) /\ ~Queued(m.expiring, s) => ~Current(u, s)
  BY <1>2, UnlinkedSound
<1> HIDE DEF u
<1>4. Slab(u) = Slab(m) BY <1>3 DEF Slab
<1>5. /\ Sound(c, v, X, loose) /\ Thins(u, v, none) /\ v.ids = u.ids
      /\ StreamClosed(m, s) => ~v.store[s].counted
      /\ \A k \in Slab(u) : k # s => v.store[k] = u.store[k]
  BY <1>2, <1>3, <1>4, UncountedSound
<1> HIDE DEF v
<1>6. m \in Locked(c.i) /\ u \in Locked(c.i) /\ v \in Locked(c.i) BY <1>3, <1>5 DEF Sound
<1>7. Thins(m, v, none)
  <2>1. Thins(m, v, none \cup none) BY <1>3, <1>5, <1>6, ThinsTwice
  <2>2. none \cup none = none OBVIOUS
  <2>3. QED BY <2>1, <2>2
<1>8. s \in Slab(v) /\ Slab(v) = Slab(m) BY <1>2, <1>7 DEF Thins
<1>9. /\ v.store[s] \in Streams
      /\ Settled(c, m.store[s], Marks(m, s)) => Settled(c, v.store[s], Marks(v, s))
      /\ Ready(c, m.store[s], Marks(m, s)) => Ready(c, v.store[s], Marks(v, s))
      /\ IsReleased(m, s) <=> Released(v.store[s], Marks(v, s))
      /\ IsReleased(m, s) <=> Released(m.store[s], Marks(m, s))
  <2>1. m.store[s] \in Streams /\ (IsReleased(m, s) <=> Released(m.store[s], Marks(m, s)))
    BY <1>6, StreamTyped, ReleasedIs
  <2>2. SameBut(m.store[s], v.store[s]) /\ Marks(m, s) \cap Places = Marks(v, s) \cap Places
    BY <1>7, <1>8 DEF Thins
  <2>3. QED BY <2>1, <2>2, SameSettled
<1>10. CASE IsReleased(m, s)
  <2> DEFINE one == {s}
  <2>1. one = {s} /\ Gone(m, s) = one /\ none \cup one = one BY <1>2, <1>10 DEF Gone
  <2>2. n = RemoveFromSlab(v, s) BY <1>1, <1>10
  <2>3. StreamClosed(m, s) /\ ~Queued(m.expiring, s)
    <3>1. "expiring" \notin Marks(m, s) BY <1>9, <1>10 DEF Released
    <3>2. QED BY <1>10, <3>1, MarksAre DEF IsReleased
  <2>4. ~v.store[s].counted /\ ~Current(v, s)
    BY <1>3, <1>5, <2>3 DEF Current
  <2> HIDE DEF one
  <2>5. /\ Sound(c, n, X \ {s}, loose) /\ Thins(v, n, one)
        /\ \A k \in Slab(v) : k # s => n.store[k] = v.store[k]
    BY <1>5, <1>8, <1>9, <1>10, <2>1, <2>2, <2>4, RemoveSound
  <2>6. n \in Locked(c.i) BY <2>5 DEF Sound
  <2>7. Thins(m, n, one)
    <3>1. Thins(m, n, none \cup one) BY <1>6, <1>7, <2>5, <2>6, ThinsTwice
    <3>2. QED BY <2>1, <3>1
  <2>8. Sound(c, n, X, loose)
    <3>1. X \ {s} \subseteq X OBVIOUS
    <3>2. QED BY <2>5, <3>1, SoundMore
  <2>9. Slab(n) \subseteq Slab(v) BY <2>5 DEF Thins
  <2>10. QED BY <1>3, <1>4, <1>5, <1>8, <2>1, <2>5, <2>7, <2>8, <2>9 DEF n, Passed
<1>11. CASE ~IsReleased(m, s)
  <2>1. n = v /\ Gone(m, s) = none BY <1>1, <1>2, <1>11 DEF Gone
  <2>2. Ready(c, m.store[s], Marks(m, s)) => Sound(c, n, X \ {s}, loose)
    <3>1. Ready(c, m.store[s], Marks(m, s)) => Settled(c, v.store[s], Marks(v, s))
      BY <1>9, <1>11 DEF Settled
    <3>2. QED BY <1>5, <2>1, <3>1, SoundLess
  <2>3. QED BY <1>3, <1>4, <1>5, <1>7, <1>8, <2>1, <2>2 DEF n, Passed
<1>12. QED BY <1>10, <1>11

-----------------------------------------------------------------------------
(* Leaving a queue, and what changes no entry.                               *)

\* What is fine stays fine when a queue names the entry no more.
LEMMA FineLess ==
  ASSUME NEW c, NEW init, NEW k, NEW st, NEW v, NEW w, Fine(c, init, k, st, v),
         \A x \in {"accept", "sending", "pledged", "current"} : x \in w => x \in v,
         "current" \in v => "current" \in w, "alone" \in v => "alone" \in w,
         "expiring" \in w => "expiring" \in v \/ IsClosed(st.state)
  PROVE  Fine(c, init, k, st, w)
BY DEF Fine

\* What a stream needs to be ready it still has.
LEMMA ReadyStays ==
  ASSUME NEW c, NEW a, NEW b, NEW v, NEW w, Ready(c, a, v), b.handles = a.handles,
         b.promises = a.promises, b.state # Idle, IsClosed(a.state) => IsClosed(b.state),
         b.inFlight = a.inFlight, "accept" \in v => "accept" \in w, "pledged" \in v => "pledged" \in w,
         ("expiring" \in w => "expiring" \in v) \/ b.promises = <<>>
  PROVE  Ready(c, b, w)
<1>1. w \cap {"accept", "pledged"} = {} => v \cap {"accept", "pledged"} = {}
  OBVIOUS
<1>2. QED BY <1>1 DEF Ready, Owned, Keeps

\* n is m, but for what concerns the connection alone.
Aside(m, n) ==
  /\ n.store = m.store /\ n.ids = m.ids /\ n.accept = m.accept /\ n.updates = m.updates
  /\ n.expiring = m.expiring /\ n.sending = m.sending /\ n.initWindow = m.initWindow
  /\ n.numRecv = m.numRecv /\ n.numReset = m.numReset /\ n.lost = m.lost /\ n.nextId >= m.nextId

\* Marks are of the store, the ids and the queues alone.
LEMMA AsideMarks ==
  ASSUME NEW m, NEW n, n.store = m.store, n.ids = m.ids, n.accept = m.accept, n.updates = m.updates,
         n.expiring = m.expiring, n.sending = m.sending, NEW k
  PROVE  Marks(n, k) = Marks(m, k)
<1>1. Slab(n) = Slab(m) BY DEF Slab
<1>2. /\ Alone(n, k) <=> Alone(m, k)
      /\ Pledged(n, k) <=> Pledged(m, k)
      /\ Current(n, k) <=> Current(m, k)
  BY <1>1 DEF Alone, Pledged, Current
<1>3. \A x \in MarkNames : x \in Marks(n, k) <=> x \in Marks(m, k)
  BY <1>2, MarksAre DEF MarkNames
<1>4. Marks(n, k) \in SUBSET MarkNames /\ Marks(m, k) \in SUBSET MarkNames
  BY MarksAre DEF MarkNames
<1>5. QED BY <1>3, <1>4, MarksEqual

\* What changes no entry keeps the record sound if the windows still add up.
LEMMA AsideSound ==
  ASSUME NEW c \in Contexts, NEW m, NEW X, NEW loose \in Int, Sound(c, m, X, loose),
         NEW n \in Locked(c.i), Aside(m, n), NEW left \in Int,
         n.inFlight = m.inFlight + (left - loose), n.flow.window \in 0 .. MaxWindow,
         n.flow.available + n.inFlight \in 0 .. MaxWindow, MaxChanges[c.i] = 0 => n.local = NoId
  PROVE  /\ Sound(c, n, X, left) /\ Slab(n) = Slab(m)
         /\ \A k : Marks(n, k) = Marks(m, k)
<1>1. /\ m \in Locked(c.i) /\ Queues(m) /\ Linking(m) /\ Slots(c, m) /\ Window(c, m, loose)
      /\ \A k \in Slab(m) : Fine(c, m.initWindow, k, m.store[k], Marks(m, k))
      /\ \A k \in Slab(m) \ X : Settled(c, m.store[k], Marks(m, k))
  BY DEF Sound
<1>2. Slab(n) = Slab(m) /\ \A k : Marks(n, k) = Marks(m, k)
  BY AsideMarks DEF Aside, Slab
<1>3. Queues(n) BY <1>1, <1>2 DEF Queues, Aside
<1>4. Linking(n)
  <2>1. c.i \in Instances BY DEF Contexts
  <2>2. \A k \in Slab(m) : IdOf(k) \in Nat
    <3>1. \A k \in Slab(m) : IdOf(k) \in IdsOf(c.i) BY <1>1, <2>1, StreamTyped, IdsAre
    <3>2. QED BY <2>1, <3>1, IdsAre
  <2>3. m.nextId \in Nat /\ n.nextId \in Nat BY <1>1 DEF Locked
  <2>4. n.nextId >= m.nextId /\ n.store = m.store /\ n.ids = m.ids BY DEF Aside
  <2>5. \A k \in Slab(m) : IdOf(k) < m.nextId BY <1>1 DEF Linking
  <2>6. \A k \in Slab(m) : IdOf(k) < n.nextId BY ONLY <2>2, <2>3, <2>4, <2>5
  <2>7. QED BY <1>1, <1>2, <2>4, <2>6 DEF Linking
<1>5. Slots(c, n)
  <2>1. Counted(n) = Counted(m) BY <1>2 DEF Counted, Aside
  <2>2. QED BY <1>1, <2>1 DEF Slots, Aside
<1>6. Window(c, n, left)
  <2>1. InFlight(n) = InFlight(m) BY <1>2 DEF InFlight, Aside
  <2>2. SumFunction(InFlight(m)) \in Int
    <3>1. IsSummable(InFlight(m)) BY <1>1, SlabFinite
    <3>2. QED BY <3>1, SumIsInt
  <2>3. m.lost \in Int /\ n.lost = m.lost /\ m.inFlight \in Int BY <1>1 DEF Locked, Aside
  <2>4. m.inFlight = SumFunction(InFlight(m)) + m.lost + loose BY <1>1 DEF Window
  <2>5. n.inFlight = SumFunction(InFlight(n)) + n.lost + left
    BY <2>1, <2>2, <2>3, <2>4
  <2>6. QED BY <1>1, <2>3, <2>5 DEF Window
<1>7. QED BY <1>1, <1>2, <1>3, <1>4, <1>5, <1>6 DEF Sound, Aside

\* Queue::pop for the entry s, if it is asked for.
Pop(q, asked) == IF asked THEN Tail(q) ELSE q
First(q, s, asked) == asked => q # <<>> /\ Head(q) = s

\* n is m, but that s, the first of the queues P, has left them.
Takes(m, n, s, P) ==
  /\ P \subseteq {"accept", "updates", "expiring", "sending"}
  /\ First(m.accept, s, "accept" \in P) /\ n.accept = Pop(m.accept, "accept" \in P)
  /\ First(m.updates, s, "updates" \in P) /\ n.updates = Pop(m.updates, "updates" \in P)
  /\ First(m.expiring, s, "expiring" \in P) /\ n.expiring = Pop(m.expiring, "expiring" \in P)
  /\ First(m.sending, s, "sending" \in P) /\ n.sending = Pop(m.sending, "sending" \in P)
  /\ n.store = m.store /\ n.ids = m.ids /\ n.initWindow = m.initWindow /\ n.numRecv = m.numRecv
  /\ n.numReset = m.numReset /\ n.lost = m.lost /\ n.nextId = m.nextId /\ n.flow = m.flow
  /\ n.inFlight = m.inFlight /\ n.local = m.local

\* A queue without its head.
LEMMA PopQueue ==
  ASSUME NEW S, NEW q, IsQueue(q, S), NEW s, NEW asked \in BOOLEAN, First(q, s, asked)
  PROVE  /\ IsQueue(Pop(q, asked), S) /\ Len(Pop(q, asked)) <= Len(q)
         /\ asked => s \in S /\ Len(Pop(q, asked)) + 1 = Len(q)
         /\ \A t : Queued(Pop(q, asked), t) <=> Queued(q, t) /\ ~(asked /\ t = s)
<1>1. Len(q) \in Nat BY DEF IsQueue
<1>2. CASE asked
  <2>1. q # <<>> /\ Head(q) = s /\ Pop(q, asked) = Tail(q) BY <1>2 DEF First, Pop
  <2>2. /\ Head(q) \in S /\ Len(Tail(q)) = Len(q) - 1 /\ IsQueue(Tail(q), S)
        /\ \A t : Queued(Tail(q), t) <=> Queued(q, t) /\ t # Head(q)
    BY <2>1, QueueTail
  <2> DEFINE r == Pop(q, asked)
  <2> HIDE DEF r
  <2>3. s \in S /\ Len(r) = Len(q) - 1 /\ IsQueue(r, S) /\ \A t : Queued(r, t) <=> Queued(q, t) /\ t # s
    BY <2>1, <2>2 DEF r
  <2>4. Len(r) <= Len(q) /\ Len(r) + 1 = Len(q) BY <1>1, <2>3
  <2>5. QED BY <1>2, <2>3, <2>4 DEF r
<1>3. CASE ~asked BY <1>1, <1>3 DEF Pop
<1>4. QED BY <1>2, <1>3

\* What is known then.
Took(c, m, n, X, s, P, loose) ==
  /\ s \in Slab(m) /\ Sound(c, n, X \cup {s}, loose) /\ Slab(n) = Slab(m)
  /\ Marks(n, s) = Marks(m, s) \ P
  /\ \A k \in Slab(m) : k # s => Marks(n, k) = Marks(m, k)
  /\ "expiring" \in P => n.numReset >= Len(n.expiring) + 1

\* Taking an entry from the head of queues keeps the record sound.
LEMMA TakesSound ==
  ASSUME NEW c \in Contexts, NEW m, NEW X, NEW loose, Sound(c, m, X, loose), NEW s,
         NEW n \in Locked(c.i), NEW P, Takes(m, n, s, P), NEW p \in P
  PROVE  Took(c, m, n, X, s, P, loose)
<1>1. /\ m \in Locked(c.i) /\ Queues(m) /\ Linking(m) /\ Slots(c, m) /\ Window(c, m, loose)
      /\ \A k \in Slab(m) : Fine(c, m.initWindow, k, m.store[k], Marks(m, k))
      /\ \A k \in Slab(m) \ X : Settled(c, m.store[k], Marks(m, k))
  BY DEF Sound
<1>2. Slab(n) = Slab(m) BY DEF Slab, Takes
<1> DEFINE S == Slab(m)
           a == "accept" \in P
           b == "updates" \in P
           d == "expiring" \in P
           e == "sending" \in P
<1>3. a \in BOOLEAN /\ b \in BOOLEAN /\ d \in BOOLEAN /\ e \in BOOLEAN /\ (a \/ b \/ d \/ e)
  <2>1. P \subseteq {"accept", "updates", "expiring", "sending"} BY DEF Takes
  <2>2. QED BY <2>1
<1>4. IsQueue(m.accept, S) /\ IsQueue(m.updates, S) /\ IsQueue(m.expiring, S) /\ IsQueue(m.sending, S)
  BY <1>1 DEF Queues
<1>5. /\ First(m.accept, s, a) /\ n.accept = Pop(m.accept, a)
      /\ First(m.updates, s, b) /\ n.updates = Pop(m.updates, b)
      /\ First(m.expiring, s, d) /\ n.expiring = Pop(m.expiring, d)
      /\ First(m.sending, s, e) /\ n.sending = Pop(m.sending, e)
  BY DEF Takes
<1>6. /\ IsQueue(n.accept, S) /\ IsQueue(n.updates, S) /\ IsQueue(n.expiring, S) /\ IsQueue(n.sending, S)
      /\ s \in S /\ Len(n.expiring) <= Len(m.expiring) /\ (d => Len(n.expiring) + 1 = Len(m.expiring))
      /\ \A t : Queued(n.accept, t) <=> Queued(m.accept, t) /\ ~(a /\ t = s)
      /\ \A t : Queued(n.updates, t) <=> Queued(m.updates, t) /\ ~(b /\ t = s)
      /\ \A t : Queued(n.expiring, t) <=> Queued(m.expiring, t) /\ ~(d /\ t = s)
      /\ \A t : Queued(n.sending, t) <=> Queued(m.sending, t) /\ ~(e /\ t = s)
  <2> HIDE DEF S, a, b, d, e
  <2>1. IsQueue(n.accept, S) /\ \A t : Queued(n.accept, t) <=> Queued(m.accept, t) /\ ~(a /\ t = s)
    BY <1>3, <1>4, <1>5, PopQueue
  <2>2. IsQueue(n.updates, S) /\ \A t : Queued(n.updates, t) <=> Queued(m.updates, t) /\ ~(b /\ t = s)
    BY <1>3, <1>4, <1>5, PopQueue
  <2>3. /\ IsQueue(n.expiring, S) /\ \A t : Queued(n.expiring, t) <=> Queued(m.expiring, t) /\ ~(d /\ t = s)
        /\ Len(n.expiring) <= Len(m.expiring) /\ (d => Len(n.expiring) + 1 = Len(m.expiring))
    BY <1>3, <1>4, <1>5, PopQueue
  <2>4. IsQueue(n.sending, S) /\ \A t : Queued(n.sending, t) <=> Queued(m.sending, t) /\ ~(e /\ t = s)
    BY <1>3, <1>4, <1>5, PopQueue
  <2>5. s \in S BY <1>3, <1>4, <1>5, PopQueue
  <2>6. QED BY <2>1, <2>2, <2>3, <2>4, <2>5
<1>7. \A k : /\ Alone(n, k) <=> Alone(m, k)
             /\ Pledged(n, k) <=> Pledged(m, k)
             /\ Current(n, k) <=> Current(m, k)
  BY <1>2 DEF Alone, Pledged, Current, Takes
<1> DEFINE none == {}
<1>8. /\ none \in SUBSET MarkNames /\ P \in SUBSET MarkNames /\ none \cap P = {} /\ none \cap none = {}
      /\ \A x : x \notin none
      /\ "current" \notin P /\ "alone" \notin P /\ "pledged" \notin P
  BY DEF MarkNames, Takes
<1>9. Marks(n, s) = (Marks(m, s) \ P) \cup none
  <2> HIDE DEF none
  <2>1. Remarked(m, n, s, P, none) BY <1>6, <1>7, <1>8 DEF Remarked
  <2>2. QED BY <2>1, MarksChange
<1>10. ASSUME NEW k \in S, k # s PROVE Marks(n, k) = (Marks(m, k) \ none) \cup none
  <2> HIDE DEF none
  <2>1. Remarked(m, n, k, none, none) BY <1>6, <1>7, <1>8, <1>10 DEF Remarked
  <2>2. QED BY <2>1, MarksChange
<1>11. Marks(n, s) = Marks(m, s) \ P /\ \A k \in S : k # s => Marks(n, k) = Marks(m, k)
  BY <1>9, <1>10
<1>12. n.store = m.store /\ n.initWindow = m.initWindow BY DEF Takes
<1>13. ASSUME NEW k \in S PROVE Fine(c, n.initWindow, k, n.store[k], Marks(n, k))
  <2>1. Fine(c, m.initWindow, k, m.store[k], Marks(m, k)) BY <1>1
  <2>2. CASE k = s
    <3>1. Marks(n, k) = Marks(m, k) \ P /\ "current" \notin P /\ "alone" \notin P BY <1>8, <1>11, <2>2
    <3>2. QED BY <1>12, <2>1, <3>1, FineLess
  <2>3. CASE k # s BY <1>11, <1>12, <2>1, <2>3
  <2>4. QED BY <2>2, <2>3
<1>14. Queues(n) BY <1>1, <1>2, <1>6, <1>12 DEF Queues
<1>15. Linking(n) BY <1>1, <1>2 DEF Linking, Takes
<1>16. Slots(c, n) /\ ("expiring" \in P => n.numReset >= Len(n.expiring) + 1)
  <2>1. Counted(n) = Counted(m) BY <1>2 DEF Counted, Takes
  <2>2. /\ Len(n.expiring) \in Nat /\ Len(m.expiring) \in Nat /\ m.numReset \in Int
        /\ n.numReset = m.numReset /\ n.numRecv = m.numRecv
    BY <1>1 DEF Locked, Takes
  <2>3. Len(m.expiring) <= m.numReset BY <1>1 DEF Slots
  <2>4. Len(n.expiring) <= n.numReset /\ ("expiring" \in P => n.numReset >= Len(n.expiring) + 1)
    BY <1>6, <2>2, <2>3
  <2>5. QED BY <1>1, <2>1, <2>2, <2>4 DEF Slots
<1>17. Window(c, n, loose)
  <2>1. InFlight(n) = InFlight(m) BY <1>2 DEF InFlight, Takes
  <2>2. QED BY <1>1, <2>1 DEF Window, Takes
<1>18. \A k \in Slab(n) \ (X \cup {s}) : Settled(c, n.store[k], Marks(n, k))
  BY <1>1, <1>2, <1>11, <1>12
<1>19. QED BY <1>2, <1>6, <1>11, <1>13, <1>14, <1>15, <1>16, <1>17, <1>18 DEF Sound, Took

-----------------------------------------------------------------------------
(* Recv::enqueue_reset_expiration.                                           *)

\* n is m after s came to the queue of the streams that expire, where the
\* oldest one may have made room.
Firm == {"accept", "pledged", "sending", "updates"}
Evicts(m, n, s) ==
  /\ Slab(n) \subseteq Slab(m) /\ s \in Slab(n) /\ n.store[s] = m.store[s]
  /\ \A k \in Slab(m) \ Slab(n) : Queued(m.expiring, k) /\ ~Queued(m.sending, k)
  /\ \A k \in Slab(n) : SameBut(m.store[k], n.store[k]) /\ Marks(n, k) \cap Firm = Marks(m, k) \cap Firm
  /\ \A k \in Slab(n) : k # s /\ "expiring" \in Marks(n, k) => "expiring" \in Marks(m, k)
  /\ "expiring" \in Marks(m, s) => "expiring" \in Marks(n, s)
  /\ DOMAIN n.ids \subseteq DOMAIN m.ids /\ \A t \in DOMAIN n.ids : n.ids[t] = m.ids[t]
  /\ n.accept = m.accept /\ n.updates = m.updates /\ n.sending = m.sending
  /\ n.initWindow = m.initWindow /\ n.nextId = m.nextId /\ n.flow = m.flow
  /\ n.inFlight = m.inFlight /\ n.local = m.local /\ n.err = m.err /\ n.refused = m.refused
  /\ n.woken = m.woken /\ n.numRecv <= m.numRecv

\* The oldest one, h, leaves.
Oldest(m, o, h) == m.expiring # <<>> /\ h = Head(m.expiring) /\ o = [m EXCEPT !.expiring = Tail(@)]
Left(c, m, o, n, h, X, loose) ==
  /\ h \in Slab(m) /\ Queued(m.expiring, h)
  /\ o \in Locked(c.i) /\ Takes(m, o, h, {"expiring"})
  /\ Thins(o, n, Gone(o, h)) /\ Sound(c, n, X, loose)
  /\ \A k \in Slab(n) : k # h => n.store[k] = m.store[k]
  /\ Queued(m.sending, h) => h \in Slab(n)

\* The stream that was reset first leaves, to make room for another.
LEMMA OldestSound ==
  ASSUME NEW c \in Contexts, NEW m, NEW X, NEW loose, Sound(c, m, X, loose), NEW h, NEW o,
         Oldest(m, o, h), h \in X => Queued(m.sending, h)
  PROVE  Left(c, m, o, TransitionAfter(o, h, TRUE), h, X, loose)
<1> DEFINE P == {"expiring"}
           n == TransitionAfter(o, h, TRUE)
<1>1. m \in Locked(c.i) /\ m.expiring \in Seq(Int) BY DEF Sound, Locked
<1>2. o \in Locked(c.i) /\ Takes(m, o, h, P)
  <2>1. Tail(m.expiring) \in Seq(Int) BY <1>1 DEF Oldest
  <2>2. o \in Locked(c.i) BY <1>1, <2>1 DEF Locked, Oldest
  <2>3. QED BY <1>1, <2>2 DEF Takes, First, Pop, Locked, Oldest
<1> DEFINE p == "expiring"
<1>3. p \in P /\ "expiring" \in P /\ \A x : x \in P => x = "expiring" OBVIOUS
<1> HIDE DEF P, p
<1>4. /\ h \in Slab(m) /\ Sound(c, o, X \cup {h}, loose) /\ Slab(o) = Slab(m)
      /\ Marks(o, h) = Marks(m, h) \ P
      /\ o.numReset >= Len(o.expiring) + 1
  <2>1. Took(c, m, o, X, h, P, loose) BY <1>2, <1>3, TakesSound
  <2>2. QED BY <1>3, <2>1 DEF Took
<1>5. MayExpire(o, h, TRUE) BY <1>4 DEF MayExpire
<1>6. o.store = m.store /\ o.sending = m.sending BY <1>1 DEF Oldest, Locked
<1>7. h \notin X => Ready(c, o.store[h], Marks(o, h))
  <2>1. SUFFICES ASSUME h \notin X PROVE Ready(c, o.store[h], Marks(o, h)) OBVIOUS
  <2>2. Ready(c, m.store[h], Marks(m, h)) BY <1>4, <2>1 DEF Sound, Settled
  <2>3. m.store[h].state # Idle BY <2>2 DEF Ready
  <2>4. \A x : x # "expiring" /\ x \in Marks(m, h) => x \in Marks(o, h) BY <1>3, <1>4
  <2>5. Marks(o, h) \subseteq Marks(m, h) BY <1>4
  <2>6. QED BY <1>6, <2>2, <2>3, <2>4, <2>5, ReadyStays
<1>8. Queued(m.sending, h) => ~IsReleased(o, h)
  <2>1. SUFFICES ASSUME Queued(m.sending, h), IsReleased(o, h) PROVE FALSE OBVIOUS
  <2>2. "sending" \in Marks(o, h) BY <1>6, <2>1, MarksAre
  <2>3. Released(o.store[h], Marks(o, h)) BY <1>2, <1>4, <2>1, ReleasedIs
  <2>4. QED BY <2>2, <2>3 DEF Released
<1> HIDE DEF n
<1>9. /\ Thins(o, n, Gone(o, h)) /\ Sound(c, n, X \cup {h}, loose)
      /\ Ready(c, o.store[h], Marks(o, h)) => Sound(c, n, (X \cup {h}) \ {h}, loose)
      /\ \A k \in Slab(n) : k # h => n.store[k] = o.store[k]
  <2> DEFINE yes == TRUE
  <2>1. yes \in BOOLEAN /\ n = TransitionAfter(o, h, yes) /\ MayExpire(o, h, yes)
    BY <1>5 DEF n
  <2>2. IsReleased(o, h) => Ready(c, o.store[h], Marks(o, h)) BY <1>7, <1>8
  <2> DEFINE Y == X \cup {h}
  <2>3. Sound(c, o, Y, loose) /\ h \in Slab(o) BY <1>4
  <2> HIDE DEF yes, Y
  <2>4. Passed(c, o, n, h, Y, loose) BY <2>1, <2>2, <2>3, TransitionSound
  <2>5. QED BY <2>4 DEF Passed, Y
<1>10. Sound(c, n, X, loose)
  <2>1. CASE h \in X
    <3>1. X \cup {h} = X BY <2>1
    <3>2. QED BY <1>9, <3>1
  <2>2. CASE h \notin X
    <3>1. (X \cup {h}) \ {h} = X BY <2>2
    <3>2. QED BY <1>7, <1>9, <2>2, <3>1
  <2>3. QED BY <2>1, <2>2
<1>11. Queued(m.expiring, h)
  <2>1. IsQueue(m.expiring, Slab(m)) BY DEF Sound, Queues
  <2>2. QED BY <2>1, QueueTail DEF Oldest
<1>12. Queued(m.sending, h) => h \in Slab(n)
  <2>1. Slab(n) = Slab(o) \ Gone(o, h) BY <1>9 DEF Thins
  <2>2. QED BY <1>4, <1>8, <2>1 DEF Gone
<1>13. QED BY <1>2, <1>4, <1>6, <1>9, <1>10, <1>11, <1>12 DEF n, P, Left

\* Room is made for a stream that is not yet in the queue.
LEMMA EvictSound ==
  ASSUME NEW c \in Contexts, NEW m, NEW X, NEW loose, Sound(c, m, X, loose), NEW s \in Slab(m),
         ~Queued(m.expiring, s), \A k \in X : Queued(m.expiring, k) => k = s \/ Queued(m.sending, k),
         NEW n, n = IF ~CanIncNumReset(m) /\ m.expiring # <<>>
                    THEN TransitionAfter([m EXCEPT !.expiring = Tail(@)], Head(m.expiring), TRUE)
                    ELSE m
  PROVE  /\ Sound(c, n, X, loose) /\ Evicts(m, n, s) /\ ~Queued(n.expiring, s)
<1> DEFINE none == {}
<1>1. CASE n = m
  <2>1. none = {} OBVIOUS
  <2> HIDE DEF none
  <2>2. Thins(m, m, none) BY <2>1, ThinsNothing
  <2>3. QED BY <1>1, <2>1, <2>2 DEF Evicts, Thins
<1>2. CASE /\ m.expiring # <<>>
           /\ n = TransitionAfter([m EXCEPT !.expiring = Tail(@)], Head(m.expiring), TRUE)
  <2> DEFINE o == [m EXCEPT !.expiring = Tail(@)]
             h == Head(m.expiring)
             P == {"expiring"}
  <2>0. n = TransitionAfter(o, h, TRUE) BY <1>2
  <2>1. Queued(m.expiring, h)
    <3>1. IsQueue(m.expiring, Slab(m)) BY DEF Sound, Queues
    <3>2. QED BY <1>2, <3>1, QueueTail
  <2>2. h # s BY <2>1
  <2>3. h \in X => Queued(m.sending, h) BY <2>1, <2>2
  <2>4. Oldest(m, o, h) /\ P = {"expiring"} BY <1>2 DEF Oldest
  <2> HIDE DEF o, h, P
  <2>5. /\ h \in Slab(m) /\ o \in Locked(c.i) /\ Takes(m, o, h, P)
        /\ Thins(o, n, Gone(o, h)) /\ Sound(c, n, X, loose)
        /\ \A k \in Slab(n) : k # h => n.store[k] = m.store[k]
        /\ Queued(m.sending, h) => h \in Slab(n)
    <3>1. Left(c, m, o, n, h, X, loose) BY <2>0, <2>3, <2>4, OldestSound
    <3>2. QED BY <2>4, <3>1 DEF Left
  <2> DEFINE p == "expiring"
  <2>6. p \in P BY <2>4
  <2> HIDE DEF p
  <2>7. /\ Slab(o) = Slab(m) /\ Marks(o, h) = Marks(m, h) \ P
        /\ \A k \in Slab(m) : k # h => Marks(o, k) = Marks(m, k)
    <3>1. Took(c, m, o, X, h, P, loose) BY <2>5, <2>6, TakesSound
    <3>2. QED BY <3>1 DEF Took
  <2>8. o.store = m.store BY <2>5 DEF Takes
  <2>9. Slab(n) = Slab(m) \ Gone(o, h) /\ Gone(o, h) \subseteq {h} /\ s \in Slab(n)
    <3>1. Slab(n) = Slab(o) \ Gone(o, h) BY <2>5 DEF Thins
    <3>2. Gone(o, h) \subseteq {h} BY DEF Gone
    <3>3. QED BY <2>2, <2>7, <3>1, <3>2
  <2>10. ASSUME NEW k \in Slab(n)
         PROVE  /\ SameBut(m.store[k], n.store[k]) /\ Marks(n, k) \cap Firm = Marks(m, k) \cap Firm
                /\ "expiring" \in Marks(n, k) => "expiring" \in Marks(m, k)
    <3>1. SameBut(o.store[k], n.store[k]) /\ Marks(n, k) \cap Places = Marks(o, k) \cap Places
      BY <2>5 DEF Thins
    <3>2. Marks(o, k) \subseteq Marks(m, k) /\ \A x \in Firm : x \in Marks(o, k) <=> x \in Marks(m, k)
      <4>1. P \cap Firm = {} BY <2>4 DEF Firm
      <4>2. QED BY <2>7, <2>9, <4>1
    <3>3. Firm \subseteq Places /\ "expiring" \in Places BY DEF Firm, Places
    <3>4. QED BY <2>8, <3>1, <3>2, <3>3
  <2>11. ~Queued(n.expiring, s)
    <3>1. n.expiring = o.expiring BY <2>5 DEF Thins
    <3>2. "expiring" \notin Marks(o, s) BY <2>2, <2>7, MarksAre
    <3>3. QED BY <3>1, <3>2, MarksAre
  <2>12. \A k \in Slab(m) \ Slab(n) : Queued(m.expiring, k) /\ ~Queued(m.sending, k)
    BY <2>1, <2>5, <2>9
  <2>13. /\ n.accept = m.accept /\ n.updates = m.updates /\ n.sending = m.sending
         /\ n.initWindow = m.initWindow /\ n.nextId = m.nextId /\ n.flow = m.flow
         /\ n.inFlight = m.inFlight /\ n.local = m.local /\ n.err = m.err /\ n.refused = m.refused
         /\ n.woken = m.woken /\ n.numRecv <= m.numRecv
         /\ DOMAIN n.ids \subseteq DOMAIN m.ids /\ \A t \in DOMAIN n.ids : n.ids[t] = m.ids[t]
    <3>1. m \in Locked(c.i) BY DEF Sound
    <3>2. /\ o.accept = m.accept /\ o.updates = m.updates /\ o.sending = m.sending
          /\ o.initWindow = m.initWindow /\ o.nextId = m.nextId /\ o.flow = m.flow
          /\ o.inFlight = m.inFlight /\ o.local = m.local /\ o.err = m.err /\ o.refused = m.refused
          /\ o.woken = m.woken /\ o.numRecv = m.numRecv /\ o.ids = m.ids
      BY <2>4, <3>1 DEF Locked, Oldest
    <3>3. QED BY <2>5, <3>2 DEF Thins
  <2>14. n.store[s] = m.store[s] BY <2>2, <2>5, <2>9
  <2>15. "expiring" \notin Marks(m, s) BY MarksAre
  <2>16. QED BY <2>5, <2>9, <2>10, <2>11, <2>12, <2>13, <2>14, <2>15 DEF Evicts
<1>3. QED BY <1>1, <1>2

\* The stream is appended.
Expires(m, s) == [m EXCEPT !.numReset = @ + 1, !.expiring = Append(@, s)]
Joined(c, m, n, s, X, loose) ==
  /\ Sound(c, n, X \cup {s}, loose) /\ Slab(n) = Slab(m) /\ n.store = m.store
  /\ Marks(n, s) = Marks(m, s) \cup {"expiring"}
  /\ \A k \in Slab(m) : k # s => Marks(n, k) = Marks(m, k)

\* A stream joins those that expire.
LEMMA AppendSound ==
  ASSUME NEW c \in Contexts, NEW m, NEW X, NEW loose, Sound(c, m, X, loose), NEW s \in Slab(m),
         ~Queued(m.expiring, s), CanIncNumReset(m), IsClosed(m.store[s].state)
  PROVE  Joined(c, m, Expires(m, s), s, X, loose)
<1> DEFINE n == Expires(m, s)
<1>1. /\ m \in Locked(c.i) /\ Queues(m) /\ Linking(m) /\ Slots(c, m) /\ Window(c, m, loose)
      /\ \A k \in Slab(m) : Fine(c, m.initWindow, k, m.store[k], Marks(m, k))
      /\ \A k \in Slab(m) \ X : Settled(c, m.store[k], Marks(m, k))
  BY DEF Sound
<1>2. IsQueue(m.expiring, Slab(m)) BY <1>1 DEF Queues
<1>3. /\ IsQueue(Append(m.expiring, s), Slab(m)) /\ Len(Append(m.expiring, s)) = Len(m.expiring) + 1
      /\ \A t : Queued(Append(m.expiring, s), t) <=> Queued(m.expiring, t) \/ t = s
  BY <1>2, QueueAppend
<1>4. n = [m EXCEPT !.numReset = m.numReset + 1, !.expiring = Append(m.expiring, s)]
  BY <1>1 DEF Locked, Expires
<1> HIDE DEF n
<1>5. n \in Locked(c.i)
  <2>1. m.numReset + 1 \in Int /\ Append(m.expiring, s) \in Seq(Int)
    <3>1. s \in Int /\ m.numReset \in Int /\ m.expiring \in Seq(Int) BY <1>1, StreamTyped DEF Locked
    <3>2. QED BY <3>1
  <2>2. QED BY <1>1, <1>4, <2>1 DEF Locked
<1>6. /\ n.store = m.store /\ n.ids = m.ids /\ n.numReset = m.numReset + 1
      /\ n.accept = m.accept /\ n.updates = m.updates /\ n.expiring = Append(m.expiring, s)
      /\ n.sending = m.sending /\ n.initWindow = m.initWindow /\ n.nextId = m.nextId
      /\ n.flow = m.flow /\ n.inFlight = m.inFlight /\ n.local = m.local
      /\ n.numRecv = m.numRecv /\ n.lost = m.lost
  BY <1>1, <1>4 DEF Locked
<1>7. Slab(n) = Slab(m) BY <1>6 DEF Slab
<1>8. \A k : /\ Alone(n, k) <=> Alone(m, k)
             /\ Pledged(n, k) <=> Pledged(m, k)
             /\ Current(n, k) <=> Current(m, k)
  BY <1>6, <1>7 DEF Alone, Pledged, Current
<1> DEFINE none == {}
           P == {"expiring"}
<1>9. /\ none \in SUBSET MarkNames /\ P \in SUBSET MarkNames /\ none \cap P = {} /\ none \cap none = {}
      /\ P \cap none = {} /\ (\A x : x \notin none) /\ \A x : x \in P <=> x = "expiring"
  BY DEF MarkNames
<1> HIDE DEF none, P
<1>10. Marks(n, s) = (Marks(m, s) \ none) \cup P
  <2>1. Remarked(m, n, s, none, P) BY <1>3, <1>6, <1>8, <1>9 DEF Remarked
  <2>2. QED BY <2>1, MarksChange
<1>11. ASSUME NEW k \in Slab(m), k # s PROVE Marks(n, k) = (Marks(m, k) \ none) \cup none
  <2>1. Remarked(m, n, k, none, none) BY <1>3, <1>6, <1>8, <1>9, <1>11 DEF Remarked
  <2>2. QED BY <2>1, MarksChange
<1>12. Marks(n, s) = Marks(m, s) \cup P /\ \A k \in Slab(m) : k # s => Marks(n, k) = Marks(m, k)
  BY <1>9, <1>10, <1>11
<1>13. ASSUME NEW k \in Slab(m) PROVE Fine(c, n.initWindow, k, n.store[k], Marks(n, k))
  <2>1. Fine(c, m.initWindow, k, m.store[k], Marks(m, k)) BY <1>1
  <2>2. \A x : x # "expiring" => (x \in Marks(n, k) <=> x \in Marks(m, k)) BY <1>9, <1>12
  <2>3. "expiring" \in Marks(n, k) => "expiring" \in Marks(m, k) \/ IsClosed(m.store[k].state)
    BY <1>9, <1>12
  <2>4. QED BY <1>6, <2>1, <2>2, <2>3, FineLess
<1>14. Queues(n) BY <1>1, <1>3, <1>6, <1>7 DEF Queues
<1>15. Linking(n) BY <1>1, <1>6, <1>7 DEF Linking
<1>16. Slots(c, n)
  <2>1. Counted(n) = Counted(m) BY <1>6, <1>7 DEF Counted
  <2>2. MaxReset \in Nat /\ m.numReset \in Int /\ Len(m.expiring) \in Nat BY <1>1, RecvAssumption DEF Locked
  <2>3. Len(n.expiring) <= n.numReset /\ n.numReset <= MaxReset
    BY <1>1, <1>3, <1>6, <2>2 DEF Slots, CanIncNumReset
  <2>4. QED BY <1>1, <1>6, <2>1, <2>3 DEF Slots
<1>17. Window(c, n, loose)
  <2>1. InFlight(n) = InFlight(m) BY <1>6, <1>7 DEF InFlight
  <2>2. QED BY <1>1, <1>6, <2>1 DEF Window
<1>18. \A k \in Slab(n) \ (X \cup {s}) : Settled(c, n.store[k], Marks(n, k))
  BY <1>1, <1>6, <1>7, <1>12
<1>19. QED BY <1>5, <1>6, <1>7, <1>12, <1>13, <1>14, <1>15, <1>16, <1>17, <1>18 DEF Sound, P, Joined, n

\* Recv::enqueue_reset_expiration, which evicts the oldest if the queue is
\* full, keeps the record sound.
LEMMA EnqueueSound ==
  ASSUME NEW c \in Contexts, NEW m, NEW X, NEW loose, Sound(c, m, X, loose), NEW s \in Slab(m),
         \A k \in X : Queued(m.expiring, k) => k = s \/ Queued(m.sending, k)
  PROVE  LET n == EnqueueResetExpiration(m, s)
         IN  Sound(c, n, X \cup {s}, loose) /\ Evicts(m, n, s)
<1> DEFINE n == EnqueueResetExpiration(m, s)
           none == {}
           o == IF ~CanIncNumReset(m) /\ m.expiring # <<>>
                THEN TransitionAfter([m EXCEPT !.expiring = Tail(@)], Head(m.expiring), TRUE)
                ELSE m
           q == Expires(o, s)
<1>1. X \subseteq X \cup {s} OBVIOUS
<1>2. CASE ~IsLocalReset(m.store[s].state) \/ Queued(m.expiring, s)
  <2>1. n = m BY <1>2 DEF EnqueueResetExpiration
  <2>2. none = {} OBVIOUS
  <2> HIDE DEF n, none
  <2>3. Thins(m, m, none) BY <2>2, ThinsNothing
  <2>4. Evicts(m, m, s) BY <2>2, <2>3 DEF Evicts, Thins
  <2>5. QED BY <1>1, <2>1, <2>4, SoundMore DEF n
<1>3. CASE ~(~IsLocalReset(m.store[s].state) \/ Queued(m.expiring, s))
  <2>1. n = IF CanIncNumReset(o) THEN q ELSE o
    BY <1>3 DEF EnqueueResetExpiration, Expires
  <2> HIDE DEF n
  <2>2. Sound(c, o, X, loose) /\ Evicts(m, o, s) /\ ~Queued(o.expiring, s)
    BY <1>3, EvictSound
  <2> HIDE DEF o
  <2>3. s \in Slab(o) BY <2>2 DEF Evicts
  <2>4. CASE CanIncNumReset(o)
    <3>1. n = q BY <2>1, <2>4
    <3>2. /\ Sound(c, n, X \cup {s}, loose) /\ Slab(n) = Slab(o) /\ n.store = o.store
          /\ Marks(n, s) = Marks(o, s) \cup {"expiring"}
          /\ \A k \in Slab(o) : k # s => Marks(n, k) = Marks(o, k)
      <4>1. IsClosed(o.store[s].state)
        BY <1>3, <2>2 DEF Evicts, IsLocalReset, IsClosed, Closed
      <4>2. Joined(c, o, n, s, X, loose) BY <2>2, <2>3, <2>4, <3>1, <4>1, AppendSound
      <4>3. QED BY <4>2 DEF Joined
    <3>3. o \in Locked(c.i) BY <2>2 DEF Sound
    <3>4. /\ n.accept = o.accept /\ n.updates = o.updates /\ n.sending = o.sending
          /\ n.initWindow = o.initWindow /\ n.nextId = o.nextId /\ n.flow = o.flow
          /\ n.inFlight = o.inFlight /\ n.local = o.local /\ n.err = o.err /\ n.refused = o.refused
          /\ n.woken = o.woken /\ n.numRecv = o.numRecv /\ n.ids = o.ids
      BY <3>1, <3>3 DEF Locked, Expires
    <3>5. Marks(n, s) \cap Firm = Marks(o, s) \cap Firm BY <3>2 DEF Firm
    <3>6. Evicts(m, n, s)
      BY <2>2, <3>2, <3>4, <3>5 DEF Evicts
    <3>7. QED BY <3>2, <3>6 DEF n
  <2>5. CASE ~CanIncNumReset(o)
    <3>1. n = o BY <2>1, <2>5
    <3>2. QED BY <1>1, <2>2, <3>1, SoundMore DEF n
  <2>6. QED BY <2>4, <2>5
<1>4. QED BY <1>2, <1>3

-----------------------------------------------------------------------------
(* What the peer sees of an operation.                                       *)

\* For the peer the entry b is as a was, or this end has reset it.
Follows(c, a, b) ==
  /\ IsRecvHeaders(b.state) \/ IsRecvStreaming(b.state) =>
       /\ IsRecvHeaders(b.state) <=> IsRecvHeaders(a.state)
       /\ IsRecvStreaming(b.state) <=> IsRecvStreaming(a.state)
       /\ b.flow.window = a.flow.window
  /\ b.state = ReservedRemote => a.state = ReservedRemote
  /\ c.i \notin Servers =>
       /\ b.state = Closed("EndStream") => a.state = Closed("EndStream")
       /\ IsRecvHeaders(a.state) \/ IsLocalReset(a.state) =>
            IsRecvHeaders(b.state) \/ IsLocalReset(b.state)

\* So it is with all streams but S, and with the connection.
Steady(c, m, n, S) ==
  /\ n.initWindow = m.initWindow /\ n.nextId = m.nextId /\ n.numRecv <= m.numRecv
  /\ n.flow.window = m.flow.window /\ n.err = m.err /\ (n.refused = m.refused \/ n.refused = NoId)
  /\ \A s \in DOMAIN n.ids : s \notin S =>
       s \in DOMAIN m.ids /\ n.ids[s] = m.ids[s] /\ Follows(c, m.store[n.ids[s]], n.store[n.ids[s]])

\* One after the other.
LEMMA FollowsTwice ==
  ASSUME NEW c, NEW x, NEW y, NEW z, Follows(c, x, y), Follows(c, y, z)
  PROVE  Follows(c, x, z)
BY DEF Follows

\* The peer sees as little of two operations as of each.
LEMMA SteadyTwice ==
  ASSUME NEW c, NEW m \in Locked(c.i), NEW n \in Locked(c.i), NEW o \in Locked(c.i), NEW S,
         Steady(c, m, n, S), Steady(c, n, o, S)
  PROVE  Steady(c, m, o, S)
<1>1. /\ o.initWindow = m.initWindow /\ o.nextId = m.nextId /\ o.numRecv <= m.numRecv
      /\ o.flow.window = m.flow.window /\ o.err = m.err /\ (o.refused = m.refused \/ o.refused = NoId)
  <2>1. m.numRecv \in Int /\ n.numRecv \in Int /\ o.numRecv \in Int BY DEF Locked
  <2>2. QED BY <2>1 DEF Steady
<1>2. ASSUME NEW s \in DOMAIN o.ids, s \notin S
      PROVE  s \in DOMAIN m.ids /\ o.ids[s] = m.ids[s] /\ Follows(c, m.store[o.ids[s]], o.store[o.ids[s]])
  <2>1. s \in DOMAIN n.ids /\ o.ids[s] = n.ids[s] /\ Follows(c, n.store[o.ids[s]], o.store[o.ids[s]])
    BY <1>2 DEF Steady
  <2>2. s \in DOMAIN m.ids /\ n.ids[s] = m.ids[s] /\ Follows(c, m.store[n.ids[s]], n.store[n.ids[s]])
    BY <1>2, <2>1 DEF Steady
  <2>3. QED BY <2>1, <2>2, FollowsTwice
<1>3. QED BY <1>1, <1>2 DEF Steady

\* What leaves more streams out of sight says less.
LEMMA SteadyMore ==
  ASSUME NEW c, NEW m, NEW n, NEW S, NEW T, Steady(c, m, n, S), S \subseteq T
  PROVE  Steady(c, m, n, T)
BY DEF Steady

\* Nothing changes.
LEMMA SteadySelf ==
  ASSUME NEW c \in Contexts, NEW m \in Locked(c.i), NEW S
  PROVE  Steady(c, m, m, S)
BY DEF Steady, Follows, Locked

\* What only loses ids and slots.
LEMMA SameSteady ==
  ASSUME NEW c \in Contexts, NEW m \in Locked(c.i), NEW n \in Locked(c.i), Linking(m), Linking(n), NEW S,
         DOMAIN n.ids \subseteq DOMAIN m.ids, \A t \in DOMAIN n.ids : n.ids[t] = m.ids[t],
         \A k \in Slab(n) : k \in Slab(m) /\ SameBut(m.store[k], n.store[k]),
         n.initWindow = m.initWindow, n.nextId = m.nextId, n.flow = m.flow, n.err = m.err,
         n.numRecv <= m.numRecv, n.refused = m.refused
  PROVE  Steady(c, m, n, S)
<1>1. ASSUME NEW s \in DOMAIN n.ids
      PROVE  s \in DOMAIN m.ids /\ n.ids[s] = m.ids[s] /\ Follows(c, m.store[n.ids[s]], n.store[n.ids[s]])
  <2> DEFINE k == n.ids[s]
  <2>1. k \in Slab(n) /\ k \in Slab(m) /\ SameBut(m.store[k], n.store[k]) BY DEF Linking
  <2>2. m.store[k] \in Streams BY <2>1, StreamTyped
  <2>3. n.store[k].state = m.store[k].state /\ n.store[k].flow = m.store[k].flow
    BY <2>1, <2>2 DEF SameBut, Streams
  <2>4. QED BY <2>3 DEF Follows
<1>2. QED BY <1>1 DEF Steady

\* transition_after, for an entry that is ready for it.
Settles(c, m, n, s, X, loose) ==
  /\ Sound(c, n, X \ {s}, loose) /\ Steady(c, m, n, {}) /\ Thins(m, n, Gone(m, s))
  /\ \A k \in Slab(n) : k # s => n.store[k] = m.store[k]

\* After transition_after the entry is settled or gone.
LEMMA TransitionSettles ==
  ASSUME NEW c \in Contexts, NEW m, NEW X, NEW loose, Sound(c, m, X, loose), NEW s \in Slab(m),
         NEW wasReset \in BOOLEAN, MayExpire(m, s, wasReset), Ready(c, m.store[s], Marks(m, s))
  PROVE  Settles(c, m, TransitionAfter(m, s, wasReset), s, X, loose)
<1> DEFINE n == TransitionAfter(m, s, wasReset)
           none == {}
<1> HIDE DEF n, none
<1>1. Passed(c, m, n, s, X, loose) BY TransitionSound DEF n
<1>2. Thins(m, n, Gone(m, s)) /\ Sound(c, n, X \ {s}, loose) /\ \A k \in Slab(n) : k # s => n.store[k] = m.store[k]
  BY <1>1 DEF Passed
<1>3. m \in Locked(c.i) /\ n \in Locked(c.i) /\ Linking(m) /\ Linking(n) BY <1>2 DEF Sound
<1>4. /\ \A k \in Slab(n) : k \in Slab(m) /\ SameBut(m.store[k], n.store[k])
      /\ DOMAIN n.ids \subseteq DOMAIN m.ids /\ \A t \in DOMAIN n.ids : n.ids[t] = m.ids[t]
      /\ n.initWindow = m.initWindow /\ n.nextId = m.nextId /\ n.flow = m.flow /\ n.err = m.err
      /\ n.numRecv <= m.numRecv /\ n.refused = m.refused
  BY <1>2 DEF Thins
<1>5. Steady(c, m, n, none) BY <1>3, <1>4, SameSteady
<1>6. QED BY <1>2, <1>5 DEF Settles, n, none

-----------------------------------------------------------------------------
(* One entry is replaced.                                                    *)

\* The record r for the entry s, which is pushed to the queues P.
Put(m, s, r, P, w) ==
  [m EXCEPT !.store = [m.store EXCEPT ![s] = r], !.accept = Push(@, s, "accept" \in P),
            !.updates = Push(@, s, "updates" \in P), !.sending = Push(@, s, "sending" \in P),
            !.woken = w]
Pushable == {"accept", "updates", "sending"}

\* What a replaced entry does to the record.
LEMMA PutIs ==
  ASSUME NEW c \in Contexts, NEW m \in Locked(c.i), Queues(m), NEW s \in Slab(m), NEW r \in Streams,
         NEW P \in SUBSET Pushable, NEW w \in BOOLEAN
  PROVE  LET n == Put(m, s, r, P, w)
         IN  /\ n \in Locked(c.i) /\ Replaces(m, n, s, r, P)
             /\ n.flow = m.flow /\ n.inFlight = m.inFlight /\ n.numRecv = m.numRecv /\ n.err = m.err
             /\ n.refused = m.refused
<1>1. /\ [m.store EXCEPT ![s] = r] \in Stores(c.i)
      /\ PushOnce(m.accept, s) \in Seq(Int) /\ PushOnce(m.updates, s) \in Seq(Int)
      /\ PushOnce(m.sending, s) \in Seq(Int)
  BY PushTyped
<1> DEFINE a == Push(m.accept, s, "accept" \in P)
           b == Push(m.updates, s, "updates" \in P)
           d == Push(m.sending, s, "sending" \in P)
           f == [m.store EXCEPT ![s] = r]
           n == Put(m, s, r, P, w)
<1>2. a \in Seq(Int) /\ b \in Seq(Int) /\ d \in Seq(Int)
  BY <1>1 DEF Push, Locked
<1>3. f \in Stores(c.i) BY <1>1
<1>4. n = [m EXCEPT !.store = f, !.accept = a, !.updates = b, !.sending = d, !.woken = w]
  BY DEF Put
<1>5. P \subseteq {"accept", "updates", "sending"} /\ f = [m.store EXCEPT ![s] = r] BY DEF Pushable
<1>6. a = Push(m.accept, s, "accept" \in P) /\ b = Push(m.updates, s, "updates" \in P) /\ d = Push(m.sending, s, "sending" \in P)
  OBVIOUS
<1> HIDE DEF a, b, d, f, n
<1>7. n \in Locked(c.i) BY <1>2, <1>3, <1>4 DEF Locked
<1>8. /\ n.store = f /\ n.accept = a /\ n.updates = b /\ n.sending = d
      /\ n.ids = m.ids /\ n.expiring = m.expiring /\ n.initWindow = m.initWindow
      /\ n.nextId = m.nextId /\ n.local = m.local /\ n.numReset = m.numReset /\ n.lost = m.lost
      /\ n.flow = m.flow /\ n.inFlight = m.inFlight /\ n.numRecv = m.numRecv /\ n.err = m.err
      /\ n.refused = m.refused
  BY <1>4 DEF Locked
<1>9. Replaces(m, n, s, r, P) BY <1>5, <1>6, <1>8 DEF Replaces
<1>10. QED BY <1>7, <1>8, <1>9 DEF n

\* What the peer sees of such a change.
LEMMA ReplacesSteady ==
  ASSUME NEW c \in Contexts, NEW m \in Locked(c.i), Linking(m), NEW s \in Slab(m), NEW n, NEW r, NEW P,
         Replaces(m, n, s, r, P), n.flow.window = m.flow.window, n.err = m.err, n.numRecv <= m.numRecv,
         n.refused = m.refused, NEW S, IdOf(s) \in S \/ Follows(c, m.store[s], r)
  PROVE  Steady(c, m, n, S)
<1>1. m.store \in Stores(c.i) BY DEF Locked
<1>2. n.store = [m.store EXCEPT ![s] = r] BY DEF Replaces
<1>3. n.store[s] = r /\ \A k \in Slab(m) : k # s => n.store[k] = m.store[k]
  BY <1>1, <1>2, StoreTyped DEF Slab
<1>4. ASSUME NEW t \in DOMAIN n.ids, t \notin S
      PROVE  t \in DOMAIN m.ids /\ n.ids[t] = m.ids[t] /\ Follows(c, m.store[n.ids[t]], n.store[n.ids[t]])
  <2>1. n.ids = m.ids BY DEF Replaces
  <2>2. n.ids[t] \in Slab(m) /\ IdOf(n.ids[t]) = t BY <2>1 DEF Linking
  <2>3. CASE n.ids[t] = s BY <1>3, <1>4, <2>1, <2>2, <2>3
  <2>4. CASE n.ids[t] # s
    <3>1. n.store[n.ids[t]] = m.store[n.ids[t]] BY <1>3, <2>2, <2>4
    <3>2. QED BY <2>1, <3>1 DEF Follows
  <2>5. QED BY <2>3, <2>4
<1>5. QED BY <1>4 DEF Steady, Replaces

\* The entry changes, the connection's windows do not.
PutTo(c, m, n, s, r, P, X, loose) ==
  /\ Sound(c, n, X \cup {s}, loose) /\ Slab(n) = Slab(m) /\ n.store[s] = r
  /\ \A k \in Slab(m) : k # s => n.store[k] = m.store[k] /\ Marks(n, k) = Marks(m, k)
  /\ Marks(n, s) = Marks(m, s) \cup P
  /\ Settled(c, r, Marks(m, s) \cup P) => Sound(c, n, X \ {s}, loose)
  /\ Follows(c, m.store[s], r) => Steady(c, m, n, {})
  /\ Steady(c, m, n, {IdOf(s)})
  /\ n.expiring = m.expiring /\ n.refused = m.refused /\ n.ids = m.ids

\* Bytes that leave or enter the entry are loose until it is decided whose they
\* are.
LEMMA PutBytes ==
  ASSUME NEW c \in Contexts, NEW m, NEW X, NEW loose \in Int, Sound(c, m, X, loose),
         NEW s \in Slab(m), NEW r \in Streams, NEW P \in SUBSET Pushable, NEW w \in BOOLEAN,
         r.promises = m.store[s].promises, r.counted = m.store[s].counted,
         Fine(c, m.initWindow, s, r, Marks(m, s) \cup P),
         NEW left, left = loose + (m.store[s].inFlight - r.inFlight)
  PROVE  PutTo(c, m, Put(m, s, r, P, w), s, r, P, X, left)
<1> DEFINE n == Put(m, s, r, P, w)
           none == {}
           one == {IdOf(s)}
<1>1. m \in Locked(c.i) /\ Queues(m) /\ Linking(m) /\ Window(c, m, loose) BY DEF Sound
<1>2. /\ n \in Locked(c.i) /\ Replaces(m, n, s, r, P)
      /\ n.flow = m.flow /\ n.inFlight = m.inFlight /\ n.numRecv = m.numRecv /\ n.err = m.err
      /\ n.refused = m.refused
  BY <1>1, PutIs
<1> HIDE DEF n
<1>3. Balances(c, m, n, m.store[s], r, loose, left) /\ left \in Int
  <2>0. m.store[s] \in Streams BY <1>1, StreamTyped
  <2>1. r.inFlight \in Int /\ m.inFlight \in Int /\ m.store[s].inFlight \in Int BY <1>1, <2>0 DEF Streams, Locked
  <2>2. QED BY <1>1, <1>2, <2>1 DEF Balances, Window
<1>4. /\ Sound(c, n, X \cup {s}, left) /\ Slab(n) = Slab(m) /\ n.store[s] = r
      /\ \A k \in Slab(m) : k # s => n.store[k] = m.store[k] /\ Marks(n, k) = Marks(m, k)
      /\ Marks(n, s) = Marks(m, s) \cup P
      /\ Settled(c, r, Marks(m, s) \cup P) => Sound(c, n, X \ {s}, left)
  <2>1. /\ Sound(c, m, X, loose) /\ n \in Locked(c.i) /\ Replaces(m, n, s, r, P)
        /\ Balances(c, m, n, m.store[s], r, loose, left) /\ left \in Int
        /\ Counts(c, m, n, m.store[s], r)
        /\ Fine(c, m.initWindow, s, r, Marks(m, s) \cup P)
        /\ r.promises = m.store[s].promises
    BY <1>2, <1>3 DEF Counts
  <2>2. c \in Contexts /\ loose \in Int /\ s \in Slab(m) /\ r \in Streams OBVIOUS
  <2>3. QED BY ONLY <2>1, <2>2, PutSound
<1>5. IdOf(s) \in one OBVIOUS
<1> HIDE DEF none, one
<1>6. Steady(c, m, n, one) /\ (Follows(c, m.store[s], r) => Steady(c, m, n, none))
  <2>1. n.numRecv <= m.numRecv BY <1>1, <1>2 DEF Locked
  <2>2. QED BY <1>1, <1>2, <1>5, <2>1, ReplacesSteady
<1>7. n.expiring = m.expiring /\ n.ids = m.ids BY <1>2 DEF Replaces
<1>8. QED BY <1>2, <1>4, <1>6, <1>7 DEF PutTo, n, none, one

\* The entry is replaced by one with the same bytes.
LEMMA PutSteady ==
  ASSUME NEW c \in Contexts, NEW m, NEW X, NEW loose \in Int, Sound(c, m, X, loose),
         NEW s \in Slab(m), NEW r \in Streams, NEW P \in SUBSET Pushable, NEW w \in BOOLEAN,
         r.promises = m.store[s].promises, r.counted = m.store[s].counted,
         r.inFlight = m.store[s].inFlight, Fine(c, m.initWindow, s, r, Marks(m, s) \cup P)
  PROVE  PutTo(c, m, Put(m, s, r, P, w), s, r, P, X, loose)
<1>1. r.inFlight \in Int BY DEF Streams
<1>2. loose = loose + (m.store[s].inFlight - r.inFlight) BY <1>1
<1>3. QED BY <1>2, PutBytes

-----------------------------------------------------------------------------
(* A stream ends.                                                            *)

\* b is a when it has ended, with other frames to be sent and nobody told.
Ends == {Closed(x) : x \in Causes \ {"EndStream"}}
Shut(a, b) ==
  /\ b = [a EXCEPT !.state = b.state, !.out = b.out, !.task = b.task]
  /\ (b.state = a.state /\ IsClosed(a.state)) \/ b.state \in Ends

\* All that Ready asks for but the end.
Fit(c, st, w) ==
  /\ st.handles = {} /\ w \cap {"accept", "pledged"} = {} /\ Strict(c) => st.inFlight = 0
  /\ Keeps(st, w)

\* Ready, and what is as much for an entry that is to be closed.
LEMMA ReadyFit ==
  ASSUME NEW c, NEW st, NEW w
  PROVE  /\ Ready(c, st, w) => Fit(c, st, w)
         /\ IsClosed(st.state) /\ Fit(c, st, w) => Ready(c, st, w)
         /\ Settled(c, st, w) => Ready(c, st, w)
BY DEF Ready, Fit, Owned, Settled, IsClosed, Idle

\* An entry stays fit when it loses no place and holds the same.
LEMMA FitMore ==
  ASSUME NEW c, NEW a, NEW b, NEW v, NEW w, Fit(c, a, v), b.handles = a.handles, b.promises = a.promises,
         b.inFlight = a.inFlight, "accept" \in v => "accept" \in w, "pledged" \in v => "pledged" \in w,
         ("expiring" \in w => "expiring" \in v) \/ b.promises = <<>>
  PROVE  Fit(c, b, w)
<1>1. w \cap {"accept", "pledged"} = {} => v \cap {"accept", "pledged"} = {}
  OBVIOUS
<1>2. QED BY <1>1 DEF Fit, Keeps

\* What is fine stays fine.
LEMMA FineShut ==
  ASSUME NEW c, NEW init, NEW k, NEW a \in Streams, NEW b, Shut(a, b), NEW w, NEW P, P \subseteq {"sending"},
         Fine(c, init, k, a, w)
  PROVE  Fine(c, init, k, b, w \cup P)
<1>1. /\ b.handles = a.handles /\ b.events = a.events /\ b.flow = a.flow /\ b.counted = a.counted
      /\ b.promises = a.promises /\ b.inFlight = a.inFlight
  BY DEF Shut, Streams
<1>2. IsClosed(b.state) /\ b.state \in RoleStates(c.i) /\ (IsReset(b.state) \/ b.state = a.state)
  <2>1. CASE b.state = a.state /\ IsClosed(a.state)
    BY <2>1 DEF Fine
  <2>2. CASE b.state \in Ends
    <3>1. PICK x \in Causes \ {"EndStream"} : b.state = Closed(x) BY <2>2 DEF Ends
    <3>2. Closed(x) # Closed("EndStream") /\ IsClosed(Closed(x)) BY <3>1 DEF Closed, IsClosed
    <3>3. QED BY <3>1, <3>2 DEF IsReset, RoleStates, ServerStates, ClientStates
  <2>3. QED BY <2>1, <2>2 DEF Shut
<1>3. ~Live(b) /\ b.state \notin {Idle, ReservedRemote} /\ ~IsRecvStreaming(b.state)
  BY <1>2 DEF Live, IsClosed, Idle, ReservedRemote, IsRecvStreaming, Open, HalfClosedLocal
<1>4. \A x : x # "sending" => (x \in w \cup P <=> x \in w) OBVIOUS
<1>5. \A j : Awaits(a, j) => Awaits(b, j) BY <1>1, <1>3 DEF Awaits
<1>6. HeadersFirst(a) => HeadersFirst(b) BY <1>1 DEF HeadersFirst
<1>7. IsClosed(a.state) => a.state # Idle BY DEF IsClosed, Idle
<1>8. QED BY <1>1, <1>2, <1>3, <1>4, <1>5, <1>6, <1>7 DEF Fine

\* The peer sees no more of it than the end.
LEMMA ShutFollows ==
  ASSUME NEW c, NEW a \in Streams, NEW b, Shut(a, b), IsLocalReset(b.state) \/ b.state = a.state
  PROVE  Follows(c, a, b)
<1>1. b.flow = a.flow BY DEF Shut, Streams
<1>2. CASE b.state = a.state BY <1>1, <1>2 DEF Follows
<1>3. CASE IsLocalReset(b.state)
  BY <1>3 DEF Follows, IsLocalReset, IsRecvHeaders, IsRecvStreaming, Closed, Open, HalfClosedLocal,
     Idle, ReservedRemote
<1>4. QED BY <1>2, <1>3

\* Closing a stream keeps the record sound and leaves the entry ready.
LEMMA ShutSound ==
  ASSUME NEW c \in Contexts, NEW m, NEW X, NEW loose \in Int, Sound(c, m, X, loose),
         NEW s \in Slab(m), NEW r \in Streams, Shut(m.store[s], r), NEW P, P \subseteq {"sending"},
         NEW w \in BOOLEAN
  PROVE  /\ PutTo(c, m, Put(m, s, r, P, w), s, r, P, X, loose)
         /\ IsClosed(r.state)
         /\ Fit(c, m.store[s], Marks(m, s)) => Ready(c, r, Marks(m, s) \cup P)
         /\ IsLocalReset(r.state) \/ r.state = m.store[s].state => Follows(c, m.store[s], r)
<1>1. m.store[s] \in Streams /\ Fine(c, m.initWindow, s, m.store[s], Marks(m, s)) BY StreamTyped DEF Sound
<1>2. /\ r.handles = m.store[s].handles /\ r.promises = m.store[s].promises
      /\ r.inFlight = m.store[s].inFlight /\ r.counted = m.store[s].counted
  BY <1>1 DEF Shut, Streams
<1>3. Fine(c, m.initWindow, s, r, Marks(m, s) \cup P) BY <1>1, FineShut
<1>4. P \in SUBSET Pushable BY DEF Pushable
<1>5. PutTo(c, m, Put(m, s, r, P, w), s, r, P, X, loose) BY <1>2, <1>3, <1>4, PutSteady
<1>6. IsClosed(r.state) BY DEF Shut, Ends, IsClosed, Closed
<1>7. Fit(c, m.store[s], Marks(m, s)) => Ready(c, r, Marks(m, s) \cup P)
  <2> DEFINE v == Marks(m, s) \cup P
  <2>1. \A x : x # "sending" => (x \in v <=> x \in Marks(m, s)) OBVIOUS
  <2>2. \A x : x \in Marks(m, s) => x \in v OBVIOUS
  <2> HIDE DEF v
  <2>3. Fit(c, m.store[s], Marks(m, s)) => Fit(c, r, v) BY <1>2, <2>1, <2>2, FitMore
  <2>4. QED BY <1>6, <2>3, ReadyFit DEF v
<1>8. QED BY <1>1, <1>5, <1>6, <1>7, ShutFollows

\* Forms of such a change.
NoQueue == {}
SendQueue == {"sending"}
UpdateQueue == {"updates"}
AcceptQueue == {"accept"}
Stored(m, s, r) == [m.store EXCEPT ![s] = r]
Sets(m, s, r) == [m EXCEPT !.store = Stored(m, s, r)]
WithStore(m, f, w) == [m EXCEPT !.store = f, !.woken = w]
ToSend(m, f, s, w) == [m EXCEPT !.store = f, !.sending = PushOnce(@, s), !.woken = w]
ToUpdate(m, f, s, w) == [m EXCEPT !.store = f, !.updates = PushOnce(@, s), !.woken = w]
ToAccept(m, f, s, w) == [m EXCEPT !.store = f, !.accept = PushOnce(@, s), !.woken = w]

\* Put in the forms that the operations of the model take.
LEMMA PutForms ==
  ASSUME NEW c \in Contexts, NEW m \in Locked(c.i), NEW s, NEW r, NEW w
  PROVE  /\ Put(m, s, r, NoQueue, w) = WithStore(m, Stored(m, s, r), w)
         /\ Put(m, s, r, SendQueue, w) = ToSend(m, Stored(m, s, r), s, w)
         /\ Put(m, s, r, UpdateQueue, w) = ToUpdate(m, Stored(m, s, r), s, w)
         /\ Put(m, s, r, AcceptQueue, w) = ToAccept(m, Stored(m, s, r), s, w)
<1> DEFINE f == Stored(m, s, r)
<1>1. f = [m.store EXCEPT ![s] = r] BY DEF Stored
<1> HIDE DEF f
<1>2. Put(m, s, r, NoQueue, w) = WithStore(m, f, w)
  BY <1>1 DEF Put, Push, Locked, NoQueue, WithStore
<1>3. Put(m, s, r, SendQueue, w) = ToSend(m, f, s, w)
  BY <1>1 DEF Put, Push, Locked, SendQueue, ToSend
<1>4. Put(m, s, r, UpdateQueue, w) = ToUpdate(m, f, s, w)
  BY <1>1 DEF Put, Push, Locked, UpdateQueue, ToUpdate
<1>5. Put(m, s, r, AcceptQueue, w) = ToAccept(m, f, s, w)
  BY <1>1 DEF Put, Push, Locked, AcceptQueue, ToAccept
<1>6. QED BY <1>2, <1>3, <1>4, <1>5 DEF f

\* Replacing an entry by itself changes nothing.
LEMMA PutSelf ==
  ASSUME NEW c \in Contexts, NEW m \in Locked(c.i), NEW s \in Slab(m)
  PROVE  m = Put(m, s, m.store[s], NoQueue, m.woken)
<1>1. m.store = Stored(m, s, m.store[s])
  BY StoreTyped DEF Locked, Stored
<1>2. m = WithStore(m, m.store, m.woken) BY DEF Locked, WithStore
<1>3. QED BY <1>1, <1>2, PutForms

\* One stream ends.
EndsOne(m, n, s, Done) ==
  \E r \in Streams, P \in {NoQueue, SendQueue}, w \in BOOLEAN :
    Shut(m.store[s], r) /\ r.state \in Done /\ n = Put(m, s, r, P, w)
LocalResets == {Closed("LocallyReset"), Closed("Scheduled")}

\* Setting the entry alone.
LEMMA StorePuts ==
  ASSUME NEW c \in Contexts, NEW m \in Locked(c.i), NEW s, NEW r
  PROVE  Sets(m, s, r) = Put(m, s, r, NoQueue, m.woken)
<1> DEFINE f == Stored(m, s, r)
<1> HIDE DEF f
<1>1. [m EXCEPT !.store = f] = WithStore(m, f, m.woken) BY DEF Locked, WithStore
<1>2. QED BY <1>1, PutForms DEF f, Sets

\* notify_recv is such a change.
LEMMA NotifyPut ==
  ASSUME NEW c \in Contexts, NEW m \in Locked(c.i), NEW s \in Slab(m)
  PROVE  Notify(m, s) = Put(m, s, [m.store[s] EXCEPT !.task = "none"], NoQueue, m.woken)
<1> DEFINE r == [m.store[s] EXCEPT !.task = "none"]
<1>1. Notify(m, s) = Sets(m, s, r) BY DEF Notify, Stored, Sets
<1> HIDE DEF r
<1>2. QED BY <1>1, StorePuts DEF r

\* Prioritize::queue_frame, for a stream of which state and frames are set.
LEMMA SchedulePut ==
  ASSUME NEW c \in Contexts, NEW m \in Locked(c.i), NEW s \in Slab(m), NEW r
  PROVE  ScheduleSend(Sets(m, s, r), s) = Put(m, s, r, SendQueue, TRUE)
<1> DEFINE f == Stored(m, s, r)
           n == [m EXCEPT !.store = f]
           yes == TRUE
<1> HIDE DEF f
<1>1. ScheduleSend(n, s) = ToSend(m, f, s, yes)
  BY DEF ScheduleSend, Wake, Locked, ToSend
<1> HIDE DEF yes
<1>2. ScheduleSend(n, s) = Put(m, s, r, SendQueue, yes) BY <1>1, PutForms DEF f
<1>3. QED BY <1>2 DEF yes, f, Sets

\* One change of an entry after the other.
LEMMA StoredTwice ==
  ASSUME NEW c \in Contexts, NEW m \in Locked(c.i), NEW s \in Slab(m), NEW q, NEW r
  PROVE  Sets(m, s, q).store[s] = q /\ Sets(Sets(m, s, q), s, r) = Sets(m, s, r)
<1> DEFINE n == Sets(m, s, q)
           f == Stored(m, s, r)
           g == Stored(m, s, q)
<1>1. m.store \in [Slab(m) -> Streams] BY StoreTyped DEF Locked, Slab
<1>2. n.store = g BY DEF Locked, Sets
<1>3. g[s] = q /\ [g EXCEPT ![s] = r] = f BY <1>1 DEF Stored
<1>4. n = [m EXCEPT !.store = g] BY DEF Sets
<1>5. Stored(n, s, r) = f BY <1>2, <1>3 DEF Stored
<1> HIDE DEF f, g, n
<1>6. [n EXCEPT !.store = f] = [m EXCEPT !.store = f] BY <1>4 DEF Locked
<1>7. Sets(n, s, r) = Sets(m, s, r) BY <1>5, <1>6 DEF Sets, f
<1>8. QED BY <1>2, <1>3, <1>7 DEF n

\* Send::send_reset ends the stream.
LEMMA SendResetEnds ==
  ASSUME NEW c \in Contexts, NEW m \in Locked(c.i), NEW s \in Slab(m)
  PROVE  /\ EndsOne(m, SendReset(m, s), s, Ends)
         /\ ~IsReset(m.store[s].state) => EndsOne(m, SendReset(m, s), s, LocalResets)
         /\ IsReset(m.store[s].state) => SendReset(m, s) = m
<1> DEFINE st == m.store[s]
           l == Closed("LocallyReset")
<1>1. st \in Streams /\ m.woken \in BOOLEAN BY StreamTyped DEF Locked
<1>2. l \in Ends /\ l \in States /\ l \in LocalResets BY DEF Ends, States, Causes, LocalResets
<1>3. CASE IsReset(st.state)
  <2>1. SendReset(m, s) = m BY <1>3 DEF SendReset
  <2>2. Shut(st, st) /\ st.state \in Ends
    <3>1. st.state \in States BY <1>1 DEF Streams
    <3>2. st.state \in Ends
      BY <1>3, <3>1 DEF IsReset, IsClosed, States, Ends, Closed, Idle, ReservedLocal, ReservedRemote, Open,
         HalfClosedLocal, HalfClosedRemote
    <3>3. st = [st EXCEPT !.state = st.state, !.out = st.out, !.task = st.task] BY <1>1 DEF Streams
    <3>4. QED BY <3>2, <3>3 DEF Shut
  <2>3. EndsOne(m, SendReset(m, s), s, Ends) BY <1>1, <2>1, <2>2, PutSelf DEF EndsOne
  <2>4. QED BY <1>3, <2>1, <2>3
<1>4. CASE ~IsReset(st.state) /\ IsClosed(st.state) /\ st.out = <<>>
  <2> DEFINE r == [st EXCEPT !.state = l]
  <2>1. SendReset(m, s) = Sets(m, s, r) BY <1>4 DEF SendReset, SetReset, Stored, Sets
  <2>2. r \in Streams /\ Shut(st, r) /\ r.state = l BY <1>1, <1>2 DEF Streams, Shut
  <2> HIDE DEF r
  <2>3. SendReset(m, s) = Put(m, s, r, NoQueue, m.woken) BY <2>1, StorePuts
  <2>4. QED BY <1>1, <1>2, <1>4, <2>2, <2>3 DEF EndsOne
<1>5. CASE ~IsReset(st.state) /\ ~(IsClosed(st.state) /\ st.out = <<>>)
  <2> DEFINE q == [st EXCEPT !.state = l, !.out = <<>>]
             r == [st EXCEPT !.state = l, !.out = <<"RST_STREAM">>]
  <2>1. SendReset(m, s) = ScheduleSend(Sets(m, s, r), s)
    <3> DEFINE p == [st EXCEPT !.state = l]
               g == Sets(m, s, p)
               h == Sets(m, s, q)
               x == [g EXCEPT !.store[s].out = <<>>]
    <3>1. SendReset(m, s) = QueueFrame(x, s, "RST_STREAM")
      BY <1>5 DEF SendReset, SetReset, Stored, Sets
    <3>2. x = Sets(g, s, [g.store[s] EXCEPT !.out = <<>>]) BY DEF Stored, Sets
    <3>3. [p EXCEPT !.out = <<>>] = q BY <1>1 DEF Streams
    <3> HIDE DEF p, x, q
    <3>4. g.store[s] = p /\ Sets(g, s, q) = h BY StoredTwice
    <3>5. x = h BY <3>2, <3>3, <3>4
    <3>6. [h EXCEPT !.store[s].out = Append(@, "RST_STREAM")]
            = Sets(h, s, [h.store[s] EXCEPT !.out = Append(@, "RST_STREAM")])
      BY DEF Stored, Sets
    <3>7. [q EXCEPT !.out = Append(@, "RST_STREAM")] = r
      <4>1. q.out = <<>> BY <1>1 DEF Streams, q
      <4>2. Append(q.out, "RST_STREAM") = <<"RST_STREAM">> BY <4>1
      <4>3. QED BY <1>1, <4>2 DEF Streams, q
    <3> HIDE DEF r
    <3>8. h.store[s] = q /\ Sets(h, s, r) = Sets(m, s, r) BY StoredTwice
    <3>9. [h EXCEPT !.store[s].out = Append(@, "RST_STREAM")] = Sets(m, s, r) BY <3>6, <3>7, <3>8
    <3> HIDE DEF h
    <3>10. QED BY <3>1, <3>5, <3>9 DEF QueueFrame
  <2>2. r \in Streams /\ Shut(st, r) /\ r.state = l
    <3>1. <<"RST_STREAM">> \in Seq(OutFrames) BY DEF OutFrames
    <3>2. r.out = <<"RST_STREAM">> /\ r.state = l /\ r.task = st.task BY <1>1 DEF Streams
    <3>3. r = [st EXCEPT !.state = r.state, !.out = r.out, !.task = r.task] BY <1>1 DEF Streams
    <3>4. r \in Streams BY <1>1, <1>2, <3>1 DEF Streams
    <3>5. QED BY <1>2, <3>2, <3>3, <3>4 DEF Shut
  <2> HIDE DEF r
  <2>3. SendReset(m, s) = Put(m, s, r, SendQueue, TRUE) BY <2>1, SchedulePut
  <2>4. QED BY <1>1, <1>2, <1>5, <2>2, <2>3 DEF EndsOne
<1>6. QED BY <1>3, <1>4, <1>5

\* schedule_implicit_reset ends it, and its reset is to be sent.
LEMMA ImplicitResetEnds ==
  ASSUME NEW c \in Contexts, NEW m \in Locked(c.i), NEW s \in Slab(m), ~IsClosed(m.store[s].state)
  PROVE  LET r == [m.store[s] EXCEPT !.state = Closed("Scheduled")]
         IN  /\ ScheduleImplicitReset(m, s) = Put(m, s, r, SendQueue, TRUE)
             /\ r \in Streams /\ Shut(m.store[s], r) /\ r.state = Closed("Scheduled")
<1> DEFINE st == m.store[s]
           r == [st EXCEPT !.state = Closed("Scheduled")]
<1>1. st \in Streams BY StreamTyped
<1>2. ScheduleImplicitReset(m, s) = ScheduleSend(Sets(m, s, r), s)
  BY DEF ScheduleImplicitReset, SetScheduledReset, Stored, Sets
<1>3. Closed("Scheduled") \in Ends /\ Closed("Scheduled") \in States BY DEF Ends, States, Causes
<1>4. r \in Streams /\ Shut(st, r) /\ r.state = Closed("Scheduled") BY <1>1, <1>3 DEF Streams, Shut
<1> HIDE DEF r
<1>5. ScheduleImplicitReset(m, s) = Put(m, s, r, SendQueue, TRUE) BY <1>2, SchedulePut
<1>6. QED BY <1>4, <1>5 DEF r

\* One stream has ended, another way than by its own frames if Done says so.
Ended(c, m, n, s, X, loose, Done) ==
  /\ Sound(c, n, X \cup {s}, loose) /\ Slab(n) = Slab(m)
  /\ IsClosed(n.store[s].state) /\ n.store[s].state \in Done
  /\ n.store[s].promises = m.store[s].promises /\ n.store[s].handles = m.store[s].handles
  /\ n.store[s].inFlight = m.store[s].inFlight
  /\ \A k \in Slab(m) : k # s => n.store[k] = m.store[k] /\ Marks(n, k) = Marks(m, k)
  /\ \A x : x # "sending" => (x \in Marks(n, s) <=> x \in Marks(m, s))
  /\ Fit(c, m.store[s], Marks(m, s)) => Ready(c, n.store[s], Marks(n, s))
  /\ Done \subseteq LocalResets => Steady(c, m, n, {})
  /\ Steady(c, m, n, {IdOf(s)})
  /\ n.expiring = m.expiring /\ n.refused = m.refused /\ n.ids = m.ids

\* The record stays sound when a stream ends.
LEMMA EndsOneSound ==
  ASSUME NEW c \in Contexts, NEW m, NEW X, NEW loose \in Int, Sound(c, m, X, loose),
         NEW s \in Slab(m), NEW n, NEW Done, EndsOne(m, n, s, Done)
  PROVE  Ended(c, m, n, s, X, loose, Done)
<1>1. PICK r \in Streams, P \in {NoQueue, SendQueue}, w \in BOOLEAN :
        Shut(m.store[s], r) /\ r.state \in Done /\ n = Put(m, s, r, P, w)
  BY DEF EndsOne
<1>2. P \subseteq {"sending"} /\ (\A x : x \in P => x = "sending") BY DEF NoQueue, SendQueue
<1>3. /\ PutTo(c, m, n, s, r, P, X, loose) /\ IsClosed(r.state)
      /\ Fit(c, m.store[s], Marks(m, s)) => Ready(c, r, Marks(m, s) \cup P)
      /\ IsLocalReset(r.state) \/ r.state = m.store[s].state => Follows(c, m.store[s], r)
  BY <1>1, <1>2, ShutSound
<1>4. /\ Sound(c, n, X \cup {s}, loose) /\ Slab(n) = Slab(m) /\ n.store[s] = r
      /\ \A k \in Slab(m) : k # s => n.store[k] = m.store[k] /\ Marks(n, k) = Marks(m, k)
      /\ Marks(n, s) = Marks(m, s) \cup P
      /\ Follows(c, m.store[s], r) => Steady(c, m, n, {})
      /\ Steady(c, m, n, {IdOf(s)})
      /\ n.expiring = m.expiring /\ n.refused = m.refused /\ n.ids = m.ids
  BY <1>3 DEF PutTo
<1>5. m.store[s] \in Streams BY StreamTyped DEF Sound
<1>6. r.promises = m.store[s].promises /\ r.handles = m.store[s].handles /\ r.inFlight = m.store[s].inFlight
  BY <1>1, <1>5 DEF Shut, Streams
<1>7. Done \subseteq LocalResets => IsLocalReset(r.state) BY <1>1 DEF LocalResets, IsLocalReset
<1>8. \A x : x # "sending" => (x \in Marks(n, s) <=> x \in Marks(m, s)) BY <1>2, <1>4
<1>9. QED BY <1>1, <1>3, <1>4, <1>6, <1>7, <1>8 DEF Ended

\* Eviction leaves the stream as it is.
LEMMA EvictsSteady ==
  ASSUME NEW c \in Contexts, NEW m \in Locked(c.i), NEW n \in Locked(c.i), Linking(m), Linking(n), NEW s,
         Evicts(m, n, s), NEW S
  PROVE  /\ Steady(c, m, n, S) /\ s \in Slab(n) /\ n.store[s] = m.store[s]
         /\ Queued(m.expiring, s) => Queued(n.expiring, s)
         /\ \A x \in Firm : x \in Marks(n, s) <=> x \in Marks(m, s)
<1>1. /\ DOMAIN n.ids \subseteq DOMAIN m.ids /\ \A t \in DOMAIN n.ids : n.ids[t] = m.ids[t]
      /\ \A k \in Slab(n) : k \in Slab(m) /\ SameBut(m.store[k], n.store[k])
      /\ n.initWindow = m.initWindow /\ n.nextId = m.nextId /\ n.flow = m.flow /\ n.err = m.err
      /\ n.numRecv <= m.numRecv /\ n.refused = m.refused
  BY DEF Evicts
<1>2. Steady(c, m, n, S) BY <1>1, SameSteady
<1>3. s \in Slab(n) /\ n.store[s] = m.store[s] BY DEF Evicts
<1>4. Queued(m.expiring, s) => Queued(n.expiring, s)
  <2>1. "expiring" \in Marks(m, s) => "expiring" \in Marks(n, s) BY DEF Evicts
  <2>2. QED BY <2>1, MarksAre
<1>5. \A x \in Firm : x \in Marks(n, s) <=> x \in Marks(m, s) BY <1>3 DEF Evicts
<1>6. QED BY <1>2, <1>3, <1>4, <1>5

\* A stream that has ended comes to the queue of those that expire.
LEMMA EnqueueReady ==
  ASSUME NEW c \in Contexts, NEW m, NEW X, NEW loose, Sound(c, m, X, loose), NEW s \in Slab(m),
         \A k \in X : Queued(m.expiring, k) => k = s \/ Queued(m.sending, k)
  PROVE  LET n == EnqueueResetExpiration(m, s)
         IN  /\ Sound(c, n, X \cup {s}, loose) /\ Evicts(m, n, s) /\ Steady(c, m, n, {})
             /\ s \in Slab(n) /\ n.store[s] = m.store[s]
             /\ Queued(m.expiring, s) => Queued(n.expiring, s)
             /\ Fit(c, m.store[s], Marks(m, s)) /\ m.store[s].promises = <<>> => Fit(c, n.store[s], Marks(n, s))
<1> DEFINE n == EnqueueResetExpiration(m, s)
           none == {}
<1>1. Sound(c, n, X \cup {s}, loose) /\ Evicts(m, n, s) BY EnqueueSound
<1> HIDE DEF n, none
<1>2. m \in Locked(c.i) /\ n \in Locked(c.i) /\ Linking(m) /\ Linking(n) BY <1>1 DEF Sound
<1>3. /\ Steady(c, m, n, none) /\ s \in Slab(n) /\ n.store[s] = m.store[s]
      /\ Queued(m.expiring, s) => Queued(n.expiring, s)
      /\ \A x \in Firm : x \in Marks(n, s) <=> x \in Marks(m, s)
  BY <1>1, <1>2, EvictsSteady
<1>4. "accept" \in Firm /\ "pledged" \in Firm BY DEF Firm
<1>5. Fit(c, m.store[s], Marks(m, s)) /\ m.store[s].promises = <<>> => Fit(c, n.store[s], Marks(n, s))
  BY <1>3, <1>4, FitMore
<1>6. QED BY <1>1, <1>3, <1>5 DEF n, none

-----------------------------------------------------------------------------
(* A stream is told, and it is reset.                                        *)

\* Who waits for an entry is nothing that is known of it.
SameTask(a, b) == \E x \in {"none", "message", "pushes"} : b = [a EXCEPT !.task = x]

\* So all of it still holds.
LEMMA SameTaskFine ==
  ASSUME NEW a \in Streams, NEW b, SameTask(a, b)
  PROVE  /\ b \in Streams /\ b.state = a.state /\ b.promises = a.promises /\ b.counted = a.counted
         /\ b.inFlight = a.inFlight /\ b.handles = a.handles /\ b.out = a.out
         /\ \A c, init, k, w : Fine(c, init, k, a, w) => Fine(c, init, k, b, w)
         /\ \A c, w : (Ready(c, a, w) => Ready(c, b, w)) /\ (Settled(c, a, w) => Settled(c, b, w))
         /\ \A c : Follows(c, a, b)
<1>1. /\ b \in Streams /\ b.state = a.state /\ b.promises = a.promises /\ b.counted = a.counted
      /\ b.inFlight = a.inFlight /\ b.handles = a.handles /\ b.events = a.events /\ b.out = a.out
      /\ b.flow = a.flow
  BY DEF SameTask, Streams
<1>2. \A c, init, k, w : Fine(c, init, k, a, w) => Fine(c, init, k, b, w)
  BY <1>1 DEF Fine, Live, Awaits, HeadersFirst
<1>3. \A c, w : (Ready(c, a, w) => Ready(c, b, w)) /\ (Settled(c, a, w) => Settled(c, b, w))
  BY <1>1 DEF Settled, Ready, Released, Owned, Keeps
<1>4. \A c : Follows(c, a, b) BY <1>1 DEF Follows
<1>5. QED BY <1>1, <1>2, <1>3, <1>4

Hears(c, m, n, s, X, loose) ==
  /\ Sound(c, n, X, loose) /\ Steady(c, m, n, {}) /\ Slab(n) = Slab(m) /\ SameTask(m.store[s], n.store[s])
  /\ \A k \in Slab(m) : (k # s => n.store[k] = m.store[k]) /\ Marks(n, k) = Marks(m, k)
  /\ n.expiring = m.expiring /\ n.refused = m.refused

\* Waiting, or being told, keeps the record sound.
LEMMA TaskSound ==
  ASSUME NEW c \in Contexts, NEW m, NEW X, NEW loose \in Int, Sound(c, m, X, loose), NEW s \in Slab(m),
         NEW x \in {"none", "message", "pushes"}
  PROVE  Hears(c, m, [m EXCEPT !.store[s].task = x], s, X, loose)
<1> DEFINE st == m.store[s]
           r == [st EXCEPT !.task = x]
           n == Put(m, s, r, NoQueue, m.woken)
<1>1. [m EXCEPT !.store[s].task = x] = Sets(m, s, r) BY DEF Sets, Stored
<1>2. m \in Locked(c.i) /\ st \in Streams /\ m.woken \in BOOLEAN BY StreamTyped DEF Sound, Locked
<1>3. SameTask(st, r) BY DEF SameTask
<1> HIDE DEF r
<1>4. Sets(m, s, r) = n BY <1>2, StorePuts
<1>5. /\ r \in Streams /\ r.promises = st.promises /\ r.counted = st.counted /\ r.inFlight = st.inFlight
      /\ Fine(c, m.initWindow, s, r, Marks(m, s)) /\ Follows(c, st, r)
      /\ Settled(c, st, Marks(m, s)) => Settled(c, r, Marks(m, s))
  <2>1. Fine(c, m.initWindow, s, st, Marks(m, s)) BY DEF Sound
  <2>2. QED BY <1>2, <1>3, <2>1, SameTaskFine
<1>6. Marks(m, s) \cup NoQueue = Marks(m, s) /\ NoQueue \in SUBSET Pushable BY DEF NoQueue
<1>7. PutTo(c, m, n, s, r, NoQueue, X, loose) BY <1>2, <1>5, <1>6, PutSteady
<1> HIDE DEF n
<1>8. /\ Sound(c, n, X \cup {s}, loose) /\ Slab(n) = Slab(m) /\ n.store[s] = r
      /\ \A k \in Slab(m) : k # s => n.store[k] = m.store[k] /\ Marks(n, k) = Marks(m, k)
      /\ Marks(n, s) = Marks(m, s)
      /\ Settled(c, r, Marks(m, s)) => Sound(c, n, X \ {s}, loose)
      /\ Steady(c, m, n, {}) /\ n.expiring = m.expiring /\ n.refused = m.refused
  BY <1>5, <1>6, <1>7 DEF PutTo
<1>9. Sound(c, n, X, loose)
  <2>1. CASE s \in X
    <3>1. X \cup {s} = X BY <2>1
    <3>2. QED BY <1>8, <3>1
  <2>2. CASE s \notin X
    <3>1. X \ {s} = X BY <2>2
    <3>2. Settled(c, st, Marks(m, s)) BY <2>2 DEF Sound
    <3>3. QED BY <1>5, <1>8, <3>1, <3>2
  <2>3. QED BY <2>1, <2>2
<1>10. QED BY <1>1, <1>3, <1>4, <1>8, <1>9 DEF Hears

\* The reset of one stream, by the user or by an error of the peer's.
Hang(m, s) == Notify(EnqueueResetExpiration(SendReset(m, s), s), s)
Hung(c, m, n, s, loose) ==
  /\ Sound(c, n, {s}, loose) /\ s \in Slab(n) /\ Ready(c, n.store[s], Marks(n, s))
  /\ Steady(c, m, n, {}) /\ (Queued(m.expiring, s) => Queued(n.expiring, s))
  /\ IsReset(n.store[s].state) /\ (~IsReset(m.store[s].state) => IsLocalReset(n.store[s].state))

\* The reset of a stream keeps the record sound but for its entry, ...
LEMMA HangSound ==
  ASSUME NEW c \in Contexts, NEW m, NEW X, NEW loose \in Int, Sound(c, m, X, loose), NEW s \in Slab(m),
         X \subseteq {s}, m.store[s].promises = <<>>, Fit(c, m.store[s], Marks(m, s))
  PROVE  Hung(c, m, Hang(m, s), s, loose)
<1> DEFINE one == {s}
           none == {}
           n1 == SendReset(m, s)
           n2 == EnqueueResetExpiration(n1, s)
           n3 == Notify(n2, s)
<1>1. Sound(c, m, one, loose) BY SoundMore
<1>2. one \cup one = one /\ one \cup {s} = one /\ one \subseteq {s} /\ s \in one OBVIOUS
<1>3. m \in Locked(c.i) BY DEF Sound
<1> HIDE DEF one, none, n1, n2, n3
<1>4. /\ Sound(c, n1, one, loose) /\ s \in Slab(n1) /\ IsClosed(n1.store[s].state)
      /\ n1.store[s].promises = <<>> /\ Fit(c, n1.store[s], Marks(n1, s)) /\ Steady(c, m, n1, none)
      /\ n1.expiring = m.expiring /\ (~IsReset(m.store[s].state) => n1.store[s].state \in LocalResets)
      /\ IsReset(n1.store[s].state)
  <2>1. CASE IsReset(m.store[s].state)
    <3>1. n1 = m BY <1>3, <2>1, SendResetEnds DEF n1
    <3>2. Steady(c, m, m, none) BY <1>3, SteadySelf
    <3>3. IsClosed(m.store[s].state) BY <2>1 DEF IsReset
    <3>4. QED BY <1>1, <2>1, <3>1, <3>2, <3>3
  <2>2. CASE ~IsReset(m.store[s].state)
    <3>1. EndsOne(m, n1, s, LocalResets) BY <1>3, <2>2, SendResetEnds DEF n1
    <3>2. Ended(c, m, n1, s, one, loose, LocalResets) BY <1>1, <3>1, EndsOneSound
    <3>3. Ready(c, n1.store[s], Marks(n1, s)) BY <3>2 DEF Ended
    <3>4. Fit(c, n1.store[s], Marks(n1, s)) BY <3>3, ReadyFit
    <3>5. IsReset(n1.store[s].state) BY <3>2 DEF Ended, LocalResets, IsReset, IsClosed, Closed
    <3>6. QED BY <1>2, <3>2, <3>4, <3>5 DEF Ended, none
  <2>3. QED BY <2>1, <2>2
<1>5. /\ Sound(c, n2, one, loose) /\ s \in Slab(n2) /\ n2.store[s] = n1.store[s] /\ Steady(c, n1, n2, none)
      /\ Queued(n1.expiring, s) => Queued(n2.expiring, s)
      /\ Fit(c, n2.store[s], Marks(n2, s))
  <2>1. \A k \in one : Queued(n1.expiring, k) => k = s \/ Queued(n1.sending, k) BY DEF one
  <2>2. /\ Sound(c, n2, one \cup {s}, loose) /\ s \in Slab(n2) /\ n2.store[s] = n1.store[s]
        /\ Steady(c, n1, n2, {})
        /\ Queued(n1.expiring, s) => Queued(n2.expiring, s)
        /\ Fit(c, n1.store[s], Marks(n1, s)) /\ n1.store[s].promises = <<>> => Fit(c, n2.store[s], Marks(n2, s))
    BY <1>4, <2>1, EnqueueReady DEF n2
  <2>3. QED BY <1>2, <1>4, <2>2 DEF none
<1>6. /\ Sound(c, n3, one, loose) /\ s \in Slab(n3) /\ SameTask(n2.store[s], n3.store[s])
      /\ Steady(c, n2, n3, none) /\ n3.expiring = n2.expiring /\ Marks(n3, s) = Marks(n2, s)
  <2>1. Hears(c, n2, n3, s, one, loose) BY <1>5, TaskSound DEF n3, Notify
  <2>2. QED BY <1>5, <2>1 DEF Hears, none
<1>7. Ready(c, n3.store[s], Marks(n3, s))
  <2>1. Ready(c, n2.store[s], Marks(n2, s)) BY <1>4, <1>5, ReadyFit
  <2>2. n2 \in Locked(c.i) BY <1>5 DEF Sound
  <2>3. n2.store[s] \in Streams BY <1>5, <2>2, StreamTyped
  <2>4. QED BY <1>6, <2>1, <2>3, SameTaskFine
<1>8. Steady(c, m, n3, none)
  <2>1. n1 \in Locked(c.i) /\ n2 \in Locked(c.i) /\ n3 \in Locked(c.i) BY <1>4, <1>5, <1>6 DEF Sound
  <2>2. Steady(c, m, n2, none) BY <1>3, <1>4, <1>5, <2>1, SteadyTwice
  <2>3. QED BY <1>3, <1>6, <2>1, <2>2, SteadyTwice
<1>9. Hung(c, m, n3, s, loose)
  <2>1. n3.store[s].state = n1.store[s].state
    <3>1. n2.store[s] \in Streams BY <1>5, StreamTyped DEF Sound
    <3>2. n3.store[s].state = n2.store[s].state BY <1>6, <3>1, SameTaskFine
    <3>3. QED BY <1>5, <3>2
  <2>2. ~IsReset(m.store[s].state) => IsLocalReset(n3.store[s].state)
    BY <1>4, <2>1 DEF LocalResets, IsLocalReset
  <2>4. IsReset(n3.store[s].state) BY <1>4, <2>1
  <2>3. QED BY <2>4,  <1>4, <1>5, <1>6, <1>7, <1>8, <2>2 DEF Hung, one, none
<1>10. QED BY <1>9 DEF Hang, n1, n2, n3

\* ... and transition_after settles that.
LEMMA HangSettles ==
  ASSUME NEW c \in Contexts, NEW m, NEW X, NEW loose \in Int, Sound(c, m, X, loose), NEW s \in Slab(m),
         X \subseteq {s}, m.store[s].promises = <<>>, Fit(c, m.store[s], Marks(m, s))
  PROVE  LET n == TransitionAfter(Hang(m, s), s, Queued(m.expiring, s))
         IN  /\ Sound(c, n, {}, loose) /\ Steady(c, m, n, {})
             /\ s \in Slab(n) /\ ~IsReset(m.store[s].state) => IsLocalReset(n.store[s].state)
             /\ s \in Slab(n) => IsReset(n.store[s].state)
<1> DEFINE h == Hang(m, s)
           q == Queued(m.expiring, s)
           n == TransitionAfter(h, s, q)
           one == {s}
           none == {}
<1>1. Hung(c, m, h, s, loose) BY HangSound
<1>2. q \in BOOLEAN BY DEF Queued, Contains
<1>3. MayExpire(h, s, q) BY <1>1 DEF Hung, MayExpire
<1>4. Sound(c, h, one, loose) /\ s \in Slab(h) /\ Ready(c, h.store[s], Marks(h, s)) /\ Steady(c, m, h, none)
  BY <1>1 DEF Hung
<1> HIDE DEF h, q, one
<1>5. Settles(c, h, n, s, one, loose) BY <1>2, <1>3, <1>4, TransitionSettles
<1> HIDE DEF n
<1>6. Sound(c, n, one \ {s}, loose) /\ Steady(c, h, n, none) BY <1>5 DEF Settles
<1>7. one \ {s} = none BY DEF one
<1>8. m \in Locked(c.i) /\ h \in Locked(c.i) /\ n \in Locked(c.i) BY <1>4, <1>6 DEF Sound
<1> HIDE DEF none
<1>9. Steady(c, m, n, none) BY <1>4, <1>6, <1>8, SteadyTwice
<1>10. /\ s \in Slab(n) /\ ~IsReset(m.store[s].state) => IsLocalReset(n.store[s].state)
       /\ s \in Slab(n) => IsReset(n.store[s].state)
  <2>1. IsReset(h.store[s].state) /\ (~IsReset(m.store[s].state) => IsLocalReset(h.store[s].state)) BY <1>1 DEF Hung
  <2>2. s \in Slab(n) => SameBut(h.store[s], n.store[s]) BY <1>5 DEF Settles, Thins
  <2>3. h.store[s] \in Streams BY <1>4, <1>8, StreamTyped
  <2>4. s \in Slab(n) => n.store[s].state = h.store[s].state BY <2>2, <2>3 DEF SameBut, Streams
  <2>5. QED BY <2>1, <2>4
<1>11. QED BY <1>6, <1>7, <1>9, <1>10 DEF n, h, q, none

-----------------------------------------------------------------------------
(* A stream is inserted.                                                     *)

\* g is f with y for x, which f does not map.
Maps(f, D, R, x, y, g) ==
  g \in [D \cup {x} -> R] /\ DOMAIN g = D \cup {x} /\ g[x] = y /\ \A d \in D : g[d] = f[d]

\* The store and the ids are extended so.
LEMMA Extended ==
  ASSUME NEW D, NEW R, NEW f \in [D -> R], NEW x, x \notin D, NEW y \in R
  PROVE  Maps(f, D, R, x, y, With(f, x, y))
<1> DEFINE g == With(f, x, y)
<1>1. g = [d \in D \cup {x} |-> IF d = x THEN y ELSE f[d]]
  BY DEF With
<1> HIDE DEF g
<1>2. g \in [D \cup {x} -> R] /\ DOMAIN g = D \cup {x} BY <1>1
<1>3. g[x] = y BY <1>1
<1>4. \A d \in D : g[d] = f[d] BY <1>1
<1>5. QED BY <1>2, <1>3, <1>4 DEF g, Maps

\* There is room for an entry of s, and s has none that its id finds.
MayInsert(c, m, s) ==
  /\ s \in IdsOf(c.i) /\ ~Linked(m, s) /\ Second(s) \notin Slab(m) /\ s < m.nextId
IsFresh(stream, init) == stream \in {NewStream(0), NewStream(init)}

\* The new entry k is ready for what comes.
Inserted(c, m, n, s, k, stream, X, loose) ==
  /\ Sound(c, n, X \cup {k}, loose) /\ k \in Slab(n) /\ k \notin Slab(m) /\ n.store[k] = stream
  /\ IdOf(k) = s /\ Linked(n, s) /\ n.ids[s] = k
  /\ stream.promises = <<>> /\ Fit(c, stream, Marks(n, k)) /\ Marks(n, k) \cap Places = {}
  /\ {"current"} \subseteq Marks(n, k)
  /\ (k \in Nat => k = s)
  /\ Steady(c, m, n, {s}) /\ n.expiring = m.expiring /\ n.refused = m.refused
  /\ n.numRecv = m.numRecv /\ Slab(n) = Slab(m) \cup {k}
  /\ DOMAIN n.ids = DOMAIN m.ids \cup {s}
  /\ \A j \in Slab(m) : n.store[j] = m.store[j]
  /\ \A t \in DOMAIN m.ids : n.ids[t] = m.ids[t]

\* What a fresh stream is.
LEMMA FreshIs ==
  ASSUME NEW init \in 0 .. MaxWindow, NEW stream, IsFresh(stream, init)
  PROVE  /\ stream \in Streams /\ stream.state = Idle /\ ~stream.counted /\ stream.handles = {}
         /\ stream.inFlight = 0 /\ stream.events = <<>> /\ stream.out = <<>> /\ stream.promises = <<>>
         /\ stream.flow.window <= init /\ stream.flow.window >= 0
         /\ stream.length = Omitted
<1>1. PICK w \in {0, init} : stream = NewStream(w) BY DEF IsFresh
<1>2. w \in Int /\ w >= 0 /\ w <= init BY MaxWindowAssumption
<1>3. Flow(w, w) \in Flows /\ Flow(w, w).window = w BY <1>2 DEF Flow, Flows
<1>4. Idle \in States BY DEF States
<1>5. <<>> \in Seq(Events) /\ <<>> \in Seq(OutFrames) /\ <<>> \in Seq(Int) OBVIOUS
<1>6. -1 \in Int OBVIOUS
<1>7. stream \in Streams BY <1>1, <1>3, <1>4, <1>5, <1>6 DEF NewStream, Streams, Omitted
<1>8. stream.flow.window = w BY <1>1, <1>3 DEF NewStream
<1>9. QED BY <1>1, <1>2, <1>7, <1>8 DEF NewStream

\* Store::insert, when no second entry of the id is there.
LEMMA InsertSound ==
  ASSUME NEW c \in Contexts, NEW m, NEW X, NEW loose, Sound(c, m, X, loose), NEW s, MayInsert(c, m, s),
         NEW stream, IsFresh(stream, m.initWindow)
  PROVE  Inserted(c, m, Insert(m, s, stream), s, FreeKey(m, s), stream, X, loose)
<1> DEFINE n == Insert(m, s, stream)
           k == FreeKey(m, s)
           new == With(m.store, k, stream)
           idx == With(m.ids, s, k)
<1>1. /\ m \in Locked(c.i) /\ Queues(m) /\ Linking(m) /\ Slots(c, m) /\ Window(c, m, loose)
      /\ \A j \in Slab(m) : Fine(c, m.initWindow, j, m.store[j], Marks(m, j))
      /\ \A j \in Slab(m) \ X : Settled(c, m.store[j], Marks(m, j))
  BY DEF Sound
<1>2. /\ m.initWindow \in 0 .. MaxWindow /\ m.store \in Stores(c.i) /\ c.i \in Instances /\ m.ids \in Index(c.i)
      /\ m.numRecv \in Int
  BY <1>1 DEF Locked, Contexts
<1>3. /\ stream \in Streams /\ stream.state = Idle /\ ~stream.counted /\ stream.handles = {}
      /\ stream.inFlight = 0 /\ stream.events = <<>> /\ stream.out = <<>> /\ stream.promises = <<>>
      /\ stream.flow.window <= m.initWindow /\ stream.flow.window >= 0
  BY <1>2, FreshIs
<1>4. s \in IdsOf(c.i) /\ s \notin DOMAIN m.ids /\ Second(s) \notin Slab(m) /\ s < m.nextId /\ s \in Nat
  BY <1>2, IdsAre DEF MayInsert, Linked
<1>5. k \in KeysOf(c.i) /\ k \notin Slab(m) /\ IdOf(k) = s /\ (k \in Nat => k = s)
  <2>1. s \in KeysOf(c.i) /\ Second(s) \in KeysOf(c.i) /\ IdOf(s) = s /\ IdOf(Second(s)) = s
    BY <1>2, <1>4, IdsAre DEF KeysOf
  <2>2. Second(s) \notin Nat BY <1>4 DEF Second
  <2>3. QED BY <1>4, <2>1, <2>2 DEF FreeKey
<1>6. n = [m EXCEPT !.store = new, !.ids = idx] BY DEF Insert
<1>7. /\ new \in Stores(c.i) /\ DOMAIN new = Slab(m) \cup {k} /\ new[k] = stream
      /\ \A j \in Slab(m) : new[j] = m.store[j]
  <2>1. m.store \in [Slab(m) -> Streams] /\ Slab(m) \subseteq KeysOf(c.i) BY <1>2, StoreTyped DEF Slab
  <2> HIDE DEF k
  <2>2. /\ new \in [Slab(m) \cup {k} -> Streams] /\ DOMAIN new = Slab(m) \cup {k} /\ new[k] = stream
        /\ \A j \in Slab(m) : new[j] = m.store[j]
    <3>1. Maps(m.store, Slab(m), Streams, k, stream, With(m.store, k, stream))
      BY <1>3, <1>5, <2>1, Extended
    <3>2. QED BY <3>1 DEF Maps
  <2> HIDE DEF new
  <2>3. new \in Stores(c.i) BY <1>5, <2>1, <2>2, StoreTyped
  <2>4. QED BY <2>2, <2>3
<1>8. /\ idx \in Index(c.i) /\ DOMAIN idx = DOMAIN m.ids \cup {s} /\ idx[s] = k
      /\ \A t \in DOMAIN m.ids : idx[t] = m.ids[t]
  <2> DEFINE I == DOMAIN m.ids
             R == KeysOf(c.i)
  <2>1. m.ids \in [I -> R] /\ I \in SUBSET IdsOf(c.i) BY <1>2 DEF Index
  <2> HIDE DEF k, I, R
  <2>2. k \in R BY <1>5 DEF R
  <2>3. s \notin I BY <1>4 DEF I
  <2>4. /\ idx \in [I \cup {s} -> R] /\ DOMAIN idx = I \cup {s} /\ idx[s] = k
        /\ \A t \in I : idx[t] = m.ids[t]
    <3>1. Maps(m.ids, I, R, s, k, With(m.ids, s, k)) BY <2>1, <2>2, <2>3, Extended
    <3>2. QED BY <3>1 DEF Maps
  <2>5. I \cup {s} \in SUBSET IdsOf(c.i) BY <1>4, <2>1
  <2> HIDE DEF idx
  <2>6. idx \in Index(c.i) BY <2>4, <2>5 DEF Index, R
  <2>7. QED BY <2>4, <2>6 DEF I
<1> HIDE DEF k, new, idx, n
<1>9. n \in Locked(c.i) BY <1>1, <1>6, <1>7, <1>8 DEF Locked
<1>10. /\ n.store = new /\ n.ids = idx /\ n.numReset = m.numReset
       /\ n.accept = m.accept /\ n.updates = m.updates /\ n.expiring = m.expiring
       /\ n.sending = m.sending /\ n.initWindow = m.initWindow /\ n.nextId = m.nextId
       /\ n.flow = m.flow /\ n.inFlight = m.inFlight /\ n.local = m.local /\ n.err = m.err
       /\ n.refused = m.refused /\ n.woken = m.woken /\ n.numRecv = m.numRecv /\ n.lost = m.lost
  BY <1>1, <1>6 DEF Locked
<1>11. Slab(n) = Slab(m) \cup {k} /\ n.store[k] = stream /\ \A j \in Slab(m) : n.store[j] = m.store[j]
  BY <1>7, <1>10 DEF Slab
<1>12. ~Queued(<<>>, k) /\ \A j : ~Queued(<<>>, j) BY EmptyQueue
<1>13. ASSUME NEW j \in Slab(m)
       PROVE  /\ Marks(n, j) \cap Places = Marks(m, j) \cap Places
              /\ "current" \in Marks(n, j) <=> "current" \in Marks(m, j)
              /\ Live(m.store[j]) => {"current", "alone"} \subseteq Marks(n, j)
  <2>1. ~Queued(n.store[k].promises, j) BY <1>3, <1>11, <1>12
  <2>2. Pledged(n, j) <=> Pledged(m, j)
    BY <1>5, <1>11, <2>1 DEF Pledged
  <2>3. j # k BY <1>5
  <2>4. Current(n, j) <=> Current(m, j)
    BY <1>4, <1>8, <1>10, <2>3 DEF Current
  <2>5. \A x \in Places : x \in Marks(n, j) <=> x \in Marks(m, j)
    BY <1>10, <2>2, MarksAre DEF Places
  <2>6. ASSUME Live(m.store[j]) PROVE {"current", "alone"} \subseteq Marks(n, j)
    <3>1. "current" \in Marks(m, j) /\ "alone" \in Marks(m, j) BY <1>1, <2>6 DEF Fine
    <3>2. Current(m, j) /\ Alone(m, j) BY <3>1, MarksAre
    <3>3. IdOf(j) # s BY <1>4, <3>2 DEF Current
    <3>4. Alone(n, j) BY <1>5, <1>11, <3>2, <3>3 DEF Alone
    <3>5. QED BY <2>4, <3>2, <3>4, MarksAre
  <2>7. QED BY <2>4, <2>5, <2>6, MarksAre
<1>14. ASSUME NEW x \in Places PROVE x \notin Marks(n, k)
  <2>1. ~Queued(m.accept, k) /\ ~Queued(m.updates, k) /\ ~Queued(m.expiring, k) /\ ~Queued(m.sending, k)
    BY <1>1, <1>5, QueuedIn DEF Queues
  <2>2. ~Pledged(n, k)
    <3>1. \A j \in Slab(m) : ~Queued(m.store[j].promises, k) BY <1>1, <1>5, QueuedIn DEF Queues
    <3>2. QED BY <1>3, <1>11, <1>12, <3>1 DEF Pledged
  <2>3. QED BY <1>10, <2>1, <2>2, MarksAre DEF Places
<1>15. Queues(n)
  <2>1. Slab(m) \subseteq Slab(n) BY <1>11
  <2>2. /\ IsQueue(n.accept, Slab(n)) /\ IsQueue(n.updates, Slab(n))
        /\ IsQueue(n.expiring, Slab(n)) /\ IsQueue(n.sending, Slab(n))
    BY <1>1, <1>10, <2>1, QueueWiden DEF Queues
  <2>3. ASSUME NEW j \in Slab(n) PROVE IsQueue(n.store[j].promises, Slab(n))
    <3>1. CASE j = k BY <1>3, <1>11, <3>1, EmptyQueue
    <3>2. CASE j \in Slab(m) BY <1>1, <1>11, <2>1, <3>2, QueueWiden DEF Queues
    <3>3. QED BY <1>11, <3>1, <3>2
  <2>4. QED BY <2>2, <2>3 DEF Queues
<1>16. Linking(n)
  <2>1. \A t \in DOMAIN n.ids : n.ids[t] \in Slab(n) /\ IdOf(n.ids[t]) = t
    BY <1>1, <1>5, <1>8, <1>10, <1>11 DEF Linking
  <2>2. \A j \in Slab(n) : IdOf(j) < n.nextId BY <1>1, <1>4, <1>5, <1>10, <1>11 DEF Linking
  <2>3. QED BY <2>1, <2>2 DEF Linking
<1>17. Slots(c, n)
  <2>1. Counted(n) = Counted(m) BY <1>3, <1>11 DEF Counted
  <2>2. QED BY <1>1, <1>10, <2>1 DEF Slots
<1>18. Window(c, n, loose)
  <2>1. /\ DOMAIN InFlight(n) = Slab(n) /\ IsSummable(InFlight(n)) /\ DOMAIN InFlight(m) = Slab(m)
        /\ \A j \in Slab(n) : InFlight(n)[j] = n.store[j].inFlight
        /\ \A j \in Slab(m) : InFlight(m)[j] = m.store[j].inFlight
    BY <1>1, <1>9, SlabFinite
  <2>2. k \in DOMAIN InFlight(n) /\ DOMAIN InFlight(m) = DOMAIN InFlight(n) \ {k}
    BY <1>5, <1>11, <2>1
  <2>3. \A y \in DOMAIN InFlight(m) : InFlight(m)[y] = InFlight(n)[y]
    BY <1>11, <2>1
  <2>4. SumFunction(InFlight(n)) = InFlight(n)[k] + SumFunction(InFlight(m)) BY <2>1, <2>2, <2>3, SumDrop
  <2>5. InFlight(n)[k] = 0 BY <1>3, <1>11, <2>1, <2>2
  <2>6. SumFunction(InFlight(m)) \in Int BY <1>1, SlabFinite, SumIsInt
  <2>7. SumFunction(InFlight(n)) = SumFunction(InFlight(m)) BY <2>4, <2>5, <2>6
  <2>8. QED BY <1>1, <1>10, <2>7 DEF Window
<1>19. Fine(c, n.initWindow, k, stream, Marks(n, k))
  <2>1. \A x \in Places : x \notin Marks(n, k) BY <1>14
  <2>2. /\ "accept" \notin Marks(n, k) /\ "sending" \notin Marks(n, k)
        /\ "pledged" \notin Marks(n, k) /\ "expiring" \notin Marks(n, k)
    BY <2>1 DEF Places
  <2>3. stream.state \in RoleStates(c.i) /\ ~Live(stream) /\ ~IsRecvStreaming(stream.state)
    <3>1. Idle \in RoleStates(c.i) BY DEF RoleStates
    <3>2. ~IsRecvStreaming(Idle) BY DEF IsRecvStreaming, Idle, Open, HalfClosedLocal
    <3>3. QED BY <1>3, <3>1, <3>2 DEF Live
  <2>4. Awaits(stream, 1)
    <3>1. Len(stream.events) < 1 BY <1>3
    <3>2. QED BY <2>3, <3>1 DEF Awaits
  <2>5. QED BY <1>2, <1>3, <1>10, <2>2, <2>3, <2>4 DEF Fine
<1>20. /\ \A j \in Slab(n) : Fine(c, n.initWindow, j, n.store[j], Marks(n, j))
       /\ \A j \in Slab(n) \ (X \cup {k}) : Settled(c, n.store[j], Marks(n, j))
  <2>1. ASSUME NEW j \in Slab(m)
        PROVE  /\ Fine(c, n.initWindow, j, n.store[j], Marks(n, j))
               /\ j \notin X => Settled(c, n.store[j], Marks(n, j))
    <3>1. m.store[j] \in Streams /\ n.store[j] = m.store[j] BY <1>1, <1>11, StreamTyped
    <3>2. SameBut(m.store[j], n.store[j]) BY <3>1 DEF SameBut
    <3>3. Fine(c, m.initWindow, j, m.store[j], Marks(m, j)) /\ (j \notin X => Settled(c, m.store[j], Marks(m, j)))
      BY <1>1
    <3>4. Fine(c, m.initWindow, j, n.store[j], Marks(n, j)) BY <1>13, <3>1, <3>2, <3>3, SameFine
    <3>5. j \notin X => Settled(c, n.store[j], Marks(n, j)) BY <1>13, <3>1, <3>2, <3>3, SameSettled
    <3>6. QED BY <1>10, <3>4, <3>5
  <2>2. QED BY <1>11, <1>19, <2>1
<1>21. Sound(c, n, X \cup {k}, loose)
  BY <1>9, <1>15, <1>16, <1>17, <1>18, <1>20 DEF Sound
<1>22. Steady(c, m, n, {s})
  <2>1. ASSUME NEW t \in DOMAIN n.ids, t \notin {s}
        PROVE  t \in DOMAIN m.ids /\ n.ids[t] = m.ids[t] /\ Follows(c, m.store[n.ids[t]], n.store[n.ids[t]])
    <3>1. t \in DOMAIN m.ids /\ n.ids[t] = m.ids[t] /\ m.ids[t] \in Slab(m) BY <1>1, <1>8, <1>10, <2>1 DEF Linking
    <3>2. n.store[n.ids[t]] = m.store[n.ids[t]] BY <1>11, <3>1
    <3>3. QED BY <3>1, <3>2 DEF Follows
  <2>2. n.numRecv <= m.numRecv BY <1>2, <1>10
  <2>3. QED BY <1>10, <2>1, <2>2 DEF Steady
<1>23. Fit(c, stream, Marks(n, k)) /\ Marks(n, k) \cap Places = {}
  <2>1. Marks(n, k) \cap Places = {} BY <1>14
  <2>2. QED BY <1>3, <2>1 DEF Fit, Keeps
<1>24. "current" \in Marks(n, k) /\ Linked(n, s)
  BY <1>5, <1>8, <1>10, MarksAre DEF Current, Linked
<1>25. Inserted(c, m, n, s, k, stream, X, loose)
  BY <1>3, <1>5, <1>8, <1>10, <1>11, <1>21, <1>22, <1>23, <1>24 DEF Inserted
<1>26. QED BY <1>25 DEF n, k

\* Actions::send_reset.
Resets(c, m, n, s, loose) ==
  /\ Sound(c, n, {}, loose) /\ Steady(c, m, n, {s})
  /\ Linked(m, s) => Steady(c, m, n, {})
  /\ ~Linked(m, s) /\ Linked(n, s) => IsLocalReset(n.store[n.ids[s]].state)
  /\ Linked(n, s) => IsReset(n.store[n.ids[s]].state)

\* Actions::send_reset keeps the record sound, also for a stream nobody knows.
LEMMA ResetSound ==
  ASSUME NEW c \in Contexts, NEW m, NEW loose \in Int, Sound(c, m, {}, loose), NEW s,
         Linked(m, s) \/ MayInsert(c, m, s),
         Linked(m, s) => m.store[m.ids[s]].promises = <<>>
  PROVE  Resets(c, m, ActionsSendReset(m, s), s, loose)
<1> DEFINE none == {}
           one == {s}
           T(n, k) == TransitionAfter(Hang(n, k), k, Queued(n.expiring, k))
           fresh == NewStream(0)
<1>1. ActionsSendReset(m, s) = IF Linked(m, s) THEN T(m, m.ids[s])
                               ELSE T(Insert(m, s, fresh), Insert(m, s, fresh).ids[s])
  BY DEF ActionsSendReset, Transition, Hang
<1>2. Sound(c, m, none, loose) /\ m \in Locked(c.i) BY DEF Sound
<1>3. CASE Linked(m, s)
  <2> DEFINE k == m.ids[s]
             n == T(m, k)
  <2>1. k \in Slab(m) BY <1>2, <1>3 DEF Sound, Linking, Linked
  <2>2. Fit(c, m.store[k], Marks(m, k))
    <3>1. Settled(c, m.store[k], Marks(m, k)) BY <2>1 DEF Sound
    <3>2. QED BY <3>1, ReadyFit
  <2>3. m.store[k].promises = <<>> /\ none \subseteq {k} BY <1>3
  <2> HIDE DEF k, none
  <2>4. Sound(c, n, {}, loose) /\ Steady(c, m, n, {}) /\ (k \in Slab(n) => IsReset(n.store[k].state)) BY <1>2, <2>1, <2>2, <2>3, HangSettles
  <2>5. ActionsSendReset(m, s) = n BY <1>1, <1>3 DEF k
  <2> HIDE DEF n, T
  <2>6. Steady(c, m, n, {s}) BY <2>4, SteadyMore
  <2>9. Linked(n, s) => IsReset(n.store[n.ids[s]].state)
    <3>1. Linked(n, s) => n.ids[s] = k /\ n.ids[s] \in Slab(n)
      BY <2>4 DEF Steady, Linked, Sound, Linking, k
    <3>2. QED BY <2>4, <3>1
  <2>7. Resets(c, m, n, s, loose) BY <1>3, <2>4, <2>6, <2>9 DEF Resets
  <2>8. QED BY <2>5, <2>7
<1>4. CASE ~Linked(m, s)
  <2> DEFINE o == Insert(m, s, fresh)
             k == FreeKey(m, s)
             n == T(o, k)
             new == none \cup {k}
  <2>1. IsFresh(fresh, m.initWindow) BY DEF IsFresh
  <2>2. MayInsert(c, m, s) BY <1>4
  <2> HIDE DEF fresh, T, none
  <2>3. Inserted(c, m, o, s, k, fresh, none, loose) BY <1>2, <2>1, <2>2, InsertSound
  <2>4. /\ Sound(c, o, new, loose) /\ k \in Slab(o) /\ o.store[k] = fresh /\ o.ids[s] = k /\ Linked(o, s)
        /\ fresh.promises = <<>> /\ Fit(c, fresh, Marks(o, k)) /\ Steady(c, m, o, one)
    BY <2>3 DEF Inserted
  <2>5. ActionsSendReset(m, s) = n BY <1>1, <1>4, <2>4
  <2>6. new \subseteq {k} BY DEF none
  <2>7. ~IsReset(fresh.state)
    <3>1. m.initWindow \in 0 .. MaxWindow BY <1>2 DEF Locked
    <3>2. fresh.state = Idle BY <2>1, <3>1, FreshIs
    <3>3. QED BY <3>2 DEF IsReset, IsClosed, Idle
  <2> HIDE DEF o, k, new, one
  <2>8. /\ Sound(c, n, {}, loose) /\ Steady(c, o, n, {})
        /\ k \in Slab(n) => IsLocalReset(n.store[k].state) /\ IsReset(n.store[k].state)
    BY <2>4, <2>6, <2>7, HangSettles DEF T
  <2> HIDE DEF n
  <2>9. Steady(c, m, n, one)
    <3>1. Steady(c, o, n, one) BY <2>8, SteadyMore
    <3>2. o \in Locked(c.i) /\ n \in Locked(c.i) BY <2>4, <2>8 DEF Sound
    <3>3. QED BY <1>2, <2>4, <3>1, <3>2, SteadyTwice
  <2>10. Linked(n, s) => IsLocalReset(n.store[n.ids[s]].state) /\ IsReset(n.store[n.ids[s]].state)
    <3>1. Linked(n, s) => n.ids[s] = o.ids[s] /\ n.ids[s] \in Slab(n)
      BY <2>8 DEF Steady, Linked, Sound, Linking
    <3>2. QED BY <2>4, <2>8, <3>1
  <2>11. Resets(c, m, n, s, loose) BY <1>4, <2>8, <2>9, <2>10 DEF Resets, one
  <2>12. QED BY <2>5, <2>11
<1>5. QED BY <1>3, <1>4

-----------------------------------------------------------------------------
(* The connection's window.                                                  *)

\* The counters of the connection.
Ledger(m, f, n, w) == [m EXCEPT !.flow = f, !.inFlight = n, !.woken = w]

\* They are aside of the streams.
LEMMA LedgerIs ==
  ASSUME NEW c \in Contexts, NEW m \in Locked(c.i), NEW f \in Flows, NEW n \in Int, NEW w \in BOOLEAN
  PROVE  LET o == Ledger(m, f, n, w)
         IN  /\ o \in Locked(c.i) /\ Aside(m, o) /\ o.flow = f /\ o.inFlight = n /\ o.local = m.local
             /\ o.nextId = m.nextId /\ o.refused = m.refused /\ o.err = m.err
<1> DEFINE o == Ledger(m, f, n, w)
<1>1. o = [m EXCEPT !.flow = f, !.inFlight = n, !.woken = w] BY DEF Ledger
<1>2. m.nextId \in Nat BY DEF Locked
<1> HIDE DEF o
<1>3. o \in Locked(c.i) BY <1>1 DEF Locked
<1>4. /\ o.store = m.store /\ o.ids = m.ids /\ o.accept = m.accept /\ o.updates = m.updates
      /\ o.expiring = m.expiring /\ o.sending = m.sending /\ o.initWindow = m.initWindow
      /\ o.numRecv = m.numRecv /\ o.numReset = m.numReset /\ o.lost = m.lost /\ o.nextId = m.nextId
      /\ o.flow = f /\ o.inFlight = n /\ o.local = m.local /\ o.refused = m.refused /\ o.err = m.err
  BY <1>1 DEF Locked
<1>5. Aside(m, o) BY <1>2, <1>4 DEF Aside
<1>6. QED BY <1>3, <1>4, <1>5 DEF o

\* What moves on the connection's window leaves the streams alone.
Moved(c, m, o, f, X, left) ==
  /\ Sound(c, o, X, left) /\ o.store = m.store /\ o.ids = m.ids /\ Slab(o) = Slab(m) /\ o.flow = f
  /\ o.initWindow = m.initWindow /\ o.nextId = m.nextId /\ o.numRecv = m.numRecv /\ o.err = m.err
  /\ o.expiring = m.expiring /\ o.sending = m.sending /\ o.accept = m.accept /\ o.updates = m.updates
  /\ o.refused = m.refused /\ o.local = m.local
  /\ \A k : Marks(o, k) = Marks(m, k)
  /\ f.window = m.flow.window => \A S : Steady(c, m, o, S)

\* The counters may move if they move together.
LEMMA LedgerMoves ==
  ASSUME NEW c \in Contexts, NEW m, NEW X, NEW loose \in Int, Sound(c, m, X, loose),
         NEW f \in Flows, NEW n \in Int, NEW w \in BOOLEAN, f.window \in 0 .. MaxWindow,
         f.available + n = m.flow.available + m.inFlight,
         NEW left \in Int, n = m.inFlight + (left - loose)
  PROVE  Moved(c, m, Ledger(m, f, n, w), f, X, left)
<1> DEFINE o == Ledger(m, f, n, w)
<1>1. m \in Locked(c.i) /\ Window(c, m, loose) /\ Linking(m) BY DEF Sound
<1>2. /\ o \in Locked(c.i) /\ Aside(m, o) /\ o.flow = f /\ o.inFlight = n /\ o.local = m.local
      /\ o.nextId = m.nextId /\ o.refused = m.refused /\ o.err = m.err
  BY <1>1, LedgerIs
<1> HIDE DEF o
<1>3. /\ o.flow.window \in 0 .. MaxWindow /\ o.flow.available + o.inFlight \in 0 .. MaxWindow
      /\ MaxChanges[c.i] = 0 => o.local = NoId
  BY <1>1, <1>2 DEF Window
<1>4. Sound(c, o, X, left) /\ Slab(o) = Slab(m) /\ \A k : Marks(o, k) = Marks(m, k)
  BY <1>2, <1>3, AsideSound
<1>5. o.store = m.store /\ o.ids = m.ids /\ o.initWindow = m.initWindow /\ o.numRecv = m.numRecv
      /\ o.expiring = m.expiring /\ o.sending = m.sending /\ o.accept = m.accept /\ o.updates = m.updates
  BY <1>2 DEF Aside
<1>6. ASSUME f.window = m.flow.window, NEW S PROVE Steady(c, m, o, S)
  <2>1. o.numRecv <= m.numRecv BY <1>1, <1>5 DEF Locked
  <2>2. \A s \in DOMAIN o.ids : Follows(c, m.store[o.ids[s]], o.store[o.ids[s]]) BY <1>5 DEF Follows
  <2>3. QED BY <1>2, <1>5, <1>6, <2>1, <2>2 DEF Steady
<1>7. QED BY <1>2, <1>4, <1>5, <1>6 DEF Moved, o

\* Recv::release_connection_capacity.
LEMMA ReleaseConnectionSound ==
  ASSUME NEW c \in Contexts, NEW m, NEW X, NEW loose \in Int, Sound(c, m, X, loose),
         NEW n \in Nat, m.inFlight >= n, NEW task \in BOOLEAN
  PROVE  LET f == AssignCapacity(m.flow, n)
         IN  Moved(c, m, ReleaseConnection(m, n, task), f, X, loose - n)
<1> DEFINE f == AssignCapacity(m.flow, n)
           o == ReleaseConnection(m, n, task)
           i == m.inFlight - n
           r == [m EXCEPT !.inFlight = @ - n, !.flow = AssignCapacity(@, n)]
<1>1. m \in Locked(c.i) /\ Window(c, m, loose) BY DEF Sound
<1>2. m.flow \in Flows /\ m.inFlight \in Int /\ m.woken \in BOOLEAN BY <1>1 DEF Locked
<1>3. f \in Flows /\ f.window = m.flow.window /\ f.available = m.flow.available + n
  BY <1>2 DEF Flows, AssignCapacity
<1>4. m.flow.available \in Int /\ i \in Int /\ loose - n \in Int BY <1>2 DEF Flows
<1>5. f.available + i = m.flow.available + m.inFlight BY <1>2, <1>3, <1>4
<1>6. i = m.inFlight + ((loose - n) - loose) BY <1>2
<1>7. r = [m EXCEPT !.inFlight = i, !.flow = f] BY <1>1 DEF Locked
<1> HIDE DEF f, i, r
<1>8. r = Ledger(m, f, i, m.woken) /\ Wake(r) = Ledger(m, f, i, TRUE)
  BY <1>1, <1>7 DEF Ledger, Wake, Locked
<1>9. o = IF task /\ UnclaimedCapacity(r.flow) > 0 THEN Wake(r) ELSE r
  BY DEF ReleaseConnection, Check, r
<1>10. \E w \in BOOLEAN : o = Ledger(m, f, i, w) BY <1>2, <1>8, <1>9
<1> HIDE DEF o
<1>11. f.window \in 0 .. MaxWindow BY <1>1, <1>3 DEF Window
<1>12. Moved(c, m, o, f, X, loose - n) BY <1>3, <1>4, <1>5, <1>6, <1>10, <1>11, LedgerMoves
<1>13. QED BY <1>12 DEF o, f

\* Recv::consume_connection_window.
Consumes(c, m, o, n, X, loose) ==
  /\ AsSize(m.flow.window) < n => o = ConnError(m)
  /\ AsSize(m.flow.window) >= n => /\ Moved(c, m, o, o.flow, X, loose + n) /\ o.err = m.err
                                   /\ o.flow.window = m.flow.window - n

\* DATA beyond the window is an error of the connection; other DATA leaves its
\* bytes loose.
LEMMA ConsumeSound ==
  ASSUME NEW c \in Contexts, NEW m, NEW X, NEW loose \in Int, Sound(c, m, X, loose), NEW n \in Nat
  PROVE  Consumes(c, m, ConsumeConnectionWindow(m, n), n, X, loose)
<1> DEFINE o == ConsumeConnectionWindow(m, n)
           f == SendDataOn(m.flow, n)
           i == m.inFlight + n
<1>1. m \in Locked(c.i) /\ Window(c, m, loose) BY DEF Sound
<1>2. m.flow \in Flows /\ m.inFlight \in Int /\ m.woken \in BOOLEAN BY <1>1 DEF Locked
<1>3. m.flow.available \in Int /\ m.flow.window \in Int /\ m.flow.window >= 0 /\ m.flow.window <= MaxWindow
  BY <1>1, <1>2, MaxWindowAssumption DEF Flows, Window
<1>4. f \in Flows /\ f.window = m.flow.window - n /\ f.available = m.flow.available - n
  BY <1>3 DEF Flows, SendDataOn, Flow
<1>5. AsSize(m.flow.window) = m.flow.window BY <1>3 DEF AsSize
<1>6. CASE AsSize(m.flow.window) < n
  <2>1. ~(AsSize(m.flow.window) >= n) BY <1>3, <1>5, <1>6
  <2>2. o = ConnError(m) BY <1>6 DEF ConsumeConnectionWindow
  <2>3. QED BY <2>1, <2>2 DEF Consumes
<1>7. CASE ~(AsSize(m.flow.window) < n)
  <2>1. n <= m.flow.window BY <1>3, <1>5, <1>7
  <2>2. MaySendData(m.flow, n) BY <1>3, <2>1 DEF MaySendData, SizeLeq
  <2>3. o = [m EXCEPT !.flow = f, !.inFlight = i]
    BY <1>1, <1>7, <2>2 DEF ConsumeConnectionWindow, Check, Locked
  <2>4. /\ i \in Int /\ f.window \in 0 .. MaxWindow /\ f.available + i = m.flow.available + m.inFlight
        /\ i = m.inFlight + ((loose + n) - loose) /\ loose + n \in Int
    BY <1>2, <1>3, <1>4, <2>1, MaxWindowAssumption
  <2> HIDE DEF f, i, o
  <2>5. o = Ledger(m, f, i, m.woken) BY <1>1, <2>3 DEF Ledger, Locked
  <2>6. Moved(c, m, o, f, X, loose + n) BY <1>2, <1>4, <2>4, <2>5, LedgerMoves
  <2>7. o.flow = f /\ o.err = m.err BY <2>6 DEF Moved
  <2>8. QED BY <1>4, <1>7, <2>6, <2>7 DEF Consumes, o
<1>8. QED BY <1>6, <1>7

\* A connection error changes nothing else.
LEMMA ErrorSound ==
  ASSUME NEW c \in Contexts, NEW m, NEW X, NEW loose \in Int, Sound(c, m, X, loose)
  PROVE  Sound(c, ConnError(m), X, loose) /\ ConnError(m).err /\ Slab(ConnError(m)) = Slab(m)
         /\ \A k : Marks(ConnError(m), k) = Marks(m, k)
<1> DEFINE o == ConnError(m)
<1>1. m \in Locked(c.i) /\ Window(c, m, loose) BY DEF Sound
<1>2. o = [m EXCEPT !.err = TRUE] BY DEF ConnError
<1> HIDE DEF o
<1>3. m.nextId \in Nat /\ m.inFlight \in Int BY <1>1 DEF Locked
<1>4. o \in Locked(c.i) BY <1>1, <1>2 DEF Locked
<1>5. /\ o.store = m.store /\ o.ids = m.ids /\ o.accept = m.accept /\ o.updates = m.updates
      /\ o.expiring = m.expiring /\ o.sending = m.sending /\ o.initWindow = m.initWindow
      /\ o.numRecv = m.numRecv /\ o.numReset = m.numReset /\ o.lost = m.lost /\ o.nextId = m.nextId
      /\ o.flow = m.flow /\ o.inFlight = m.inFlight /\ o.local = m.local /\ o.err
  BY <1>1, <1>2 DEF Locked
<1>6. Aside(m, o) BY <1>3, <1>5 DEF Aside
<1>7. /\ o.flow.window \in 0 .. MaxWindow /\ o.flow.available + o.inFlight \in 0 .. MaxWindow
      /\ MaxChanges[c.i] = 0 => o.local = NoId /\ o.inFlight = m.inFlight + (loose - loose)
  BY <1>1, <1>3, <1>5 DEF Window
<1>8. o.inFlight = m.inFlight + (loose - loose) /\ (MaxChanges[c.i] = 0 => o.local = NoId)
  BY <1>1, <1>3, <1>5 DEF Window
<1>9. Sound(c, o, X, loose) /\ Slab(o) = Slab(m) /\ \A k : Marks(o, k) = Marks(m, k)
  BY <1>4, <1>6, <1>7, <1>8, AsideSound
<1>10. QED BY <1>5, <1>9 DEF o

\* One move after the other.
LEMMA MovedTwice ==
  ASSUME NEW c \in Contexts, NEW m \in Locked(c.i), NEW n, NEW o, NEW f, NEW g, NEW X, NEW a, NEW b,
         Moved(c, m, n, f, X, a), Moved(c, n, o, g, X, b)
  PROVE  Moved(c, m, o, g, X, b)
<1>1. /\ n.store = m.store /\ n.ids = m.ids /\ Slab(n) = Slab(m)
      /\ n.initWindow = m.initWindow /\ n.nextId = m.nextId /\ n.numRecv = m.numRecv /\ n.err = m.err
      /\ n.expiring = m.expiring /\ n.sending = m.sending /\ n.accept = m.accept /\ n.updates = m.updates
      /\ n.refused = m.refused /\ n.local = m.local
      /\ \A k : Marks(n, k) = Marks(m, k)
  BY DEF Moved
<1>2. /\ o.store = n.store /\ o.ids = n.ids /\ Slab(o) = Slab(n) /\ o.flow = g
      /\ o.initWindow = n.initWindow /\ o.nextId = n.nextId /\ o.numRecv = n.numRecv /\ o.err = n.err
      /\ o.expiring = n.expiring /\ o.sending = n.sending /\ o.accept = n.accept /\ o.updates = n.updates
      /\ o.refused = n.refused /\ o.local = n.local
      /\ \A k : Marks(o, k) = Marks(n, k)
      /\ Sound(c, o, X, b)
  BY DEF Moved
<1>3. ASSUME g.window = m.flow.window, NEW S PROVE Steady(c, m, o, S)
  <2>1. o.numRecv <= m.numRecv
    <3>1. m.numRecv \in Int BY DEF Locked
    <3>2. QED BY <1>1, <1>2, <3>1
  <2>2. \A s \in DOMAIN o.ids : Follows(c, m.store[o.ids[s]], o.store[o.ids[s]]) BY <1>1, <1>2 DEF Follows
  <2>3. o.store = m.store /\ o.ids = m.ids /\ o.flow.window = m.flow.window /\ o.initWindow = m.initWindow
        /\ o.nextId = m.nextId /\ o.err = m.err /\ o.refused = m.refused
    BY <1>1, <1>2, <1>3
  <2>4. QED BY <2>1, <2>2, <2>3 DEF Steady
<1>4. QED BY <1>1, <1>2, <1>3 DEF Moved

\* No stream has more bytes in flight than the connection.
LEMMA BytesFit ==
  ASSUME NEW c \in Contexts, NEW m, NEW X, NEW loose \in Nat, Sound(c, m, X, loose)
  PROVE  /\ m.inFlight \in Int /\ loose <= m.inFlight
         /\ \A s \in Slab(m) : m.store[s].inFlight \in Nat /\ m.store[s].inFlight <= m.inFlight
<1> DEFINE a == InFlight(m)
           t == SumFunction(a)
<1>1. m \in Locked(c.i) /\ m.inFlight = t + m.lost + loose BY DEF Sound, Window
<1>2. m.inFlight \in Int /\ m.lost \in Nat BY <1>1 DEF Locked
<1>3. /\ IsSummable(a) /\ DOMAIN a = Slab(m)
      /\ \A s \in Slab(m) : a[s] = m.store[s].inFlight /\ a[s] \in Nat
  BY <1>1, SlabFinite
<1> HIDE DEF a
<1>4. \A y \in DOMAIN a : a[y] >= 0 BY <1>3
<1>5. t \in Int /\ t >= 0 /\ \A s \in DOMAIN a : a[s] <= t BY <1>3, <1>4, SumIsInt, SumPart
<1> HIDE DEF t
<1>6. loose <= m.inFlight BY <1>1, <1>2, <1>5
<1>7. ASSUME NEW s \in Slab(m) PROVE m.store[s].inFlight \in Nat /\ m.store[s].inFlight <= m.inFlight
  <2>1. a[s] \in Nat /\ a[s] <= t /\ a[s] = m.store[s].inFlight BY <1>3, <1>5
  <2>2. QED BY <1>1, <1>2, <1>5, <2>1
<1>8. QED BY <1>2, <1>6, <1>7

\* The bytes of frames for streams nobody reads are given back at once.
Ignores(c, m, o, n, X, loose) ==
  /\ AsSize(m.flow.window) < n => o = ConnError(m)
  /\ AsSize(m.flow.window) >= n => /\ Moved(c, m, o, o.flow, X, loose) /\ ~o.err
                                   /\ o.flow.window = m.flow.window - n

\* Recv::ignore_data leaves no bytes loose.
LEMMA IgnoreSound ==
  ASSUME NEW c \in Contexts, NEW m, NEW X, NEW loose \in Nat, Sound(c, m, X, loose), NEW n \in Nat, ~m.err
  PROVE  /\ Ignores(c, m, IgnoreData(m, n), n, X, loose)
         /\ AsSize(m.flow.window) \in Nat
<1> DEFINE o == ConsumeConnectionWindow(m, n)
           p == IgnoreData(m, n)
           l == loose + n
           f == AssignCapacity(o.flow, n)
           no == FALSE
<1>1. m \in Locked(c.i) /\ Window(c, m, loose) BY DEF Sound
<1>2. AsSize(m.flow.window) \in Nat
  <2>1. m.flow.window \in Int /\ m.flow.window >= 0 BY <1>1, MaxWindowAssumption DEF Window
  <2>2. QED BY <2>1 DEF AsSize
<1>3. Consumes(c, m, o, n, X, loose) BY ConsumeSound
<1>4. p = IF o.err THEN o ELSE ReleaseConnection(o, n, no) BY DEF IgnoreData
<1> HIDE DEF o, p, no
<1>5. CASE AsSize(m.flow.window) < n
  <2>1. o = ConnError(m) BY <1>3, <1>5 DEF Consumes
  <2>2. o.err BY <1>1, <2>1 DEF ConnError, Locked
  <2>3. ~(AsSize(m.flow.window) >= n) BY <1>2, <1>5
  <2>4. QED BY <1>2, <1>4, <2>1, <2>2, <2>3 DEF Ignores, p
<1>6. CASE ~(AsSize(m.flow.window) < n)
  <2>1. AsSize(m.flow.window) >= n BY <1>2, <1>6
  <2>2. Moved(c, m, o, o.flow, X, l) /\ ~o.err /\ o.flow.window = m.flow.window - n
    BY <1>3, <2>1 DEF Consumes
  <2>3. l \in Nat /\ n <= l /\ l \in Int BY DEF l
  <2> HIDE DEF l, f
  <2>4. Sound(c, o, X, l) /\ o \in Locked(c.i) BY <2>2 DEF Moved, Sound
  <2>5. o.inFlight >= n
    <3>1. o.inFlight \in Int /\ l <= o.inFlight BY <2>3, <2>4, BytesFit
    <3>2. QED BY <2>3, <3>1
  <2>6. no \in BOOLEAN BY DEF no
  <2>7. Moved(c, o, p, f, X, l - n)
    BY <1>4, <2>2, <2>3, <2>4, <2>5, <2>6, ReleaseConnectionSound DEF f
  <2>8. l - n = loose BY DEF l
  <2>9. Moved(c, m, p, f, X, loose) BY <1>1, <2>2, <2>7, <2>8, MovedTwice
  <2>10. p.flow = f /\ p.err = o.err BY <2>7 DEF Moved
  <2>11. f.window = o.flow.window
    <3>1. o.flow \in Flows BY <2>4 DEF Locked
    <3>2. QED BY <3>1 DEF f, AssignCapacity, Flows
  <2>12. QED BY <1>2, <1>6, <2>2, <2>9, <2>10, <2>11 DEF Ignores, p
<1>7. QED BY <1>5, <1>6

-----------------------------------------------------------------------------
(* Bytes are given back.                                                     *)

\* The windows of an entry change, and an update may be queued.
LEMMA FlowFine ==
  ASSUME NEW c, NEW init, NEW k, NEW a \in Streams, NEW b, NEW w, NEW P, P \subseteq {"updates"},
         Fine(c, init, k, a, w), b.state = a.state, b.out = a.out, b.handles = a.handles,
         b.events = a.events, b.promises = a.promises, b.counted = a.counted,
         b.flow.window = a.flow.window, Live(a) => b.flow.available + b.inFlight = init
  PROVE  Fine(c, init, k, b, w \cup P)
<1>1. \A x : x # "updates" => (x \in w \cup P <=> x \in w) OBVIOUS
<1> DEFINE v == w \cup P
<1>2. \A x : x # "updates" => (x \in v <=> x \in w) BY <1>1
<1> HIDE DEF v
<1>3. /\ "current" \in v <=> "current" \in w
      /\ "alone" \in v <=> "alone" \in w
      /\ "accept" \in v <=> "accept" \in w
      /\ "pledged" \in v <=> "pledged" \in w
      /\ "sending" \in v <=> "sending" \in w
      /\ "expiring" \in v <=> "expiring" \in w
  BY <1>2
<1>4. Fine(c, init, k, b, v) BY <1>3 DEF Fine, Live, Awaits, HeadersFirst
<1>5. QED BY <1>4 DEF v

\* FlowControl::release_capacity.
LEMMA ReleaseCapacitySound ==
  ASSUME NEW c \in Contexts, NEW m, Sound(c, m, {}, 0), NEW s \in Slab(m), NEW n \in Nat,
         n <= m.store[s].inFlight, m.store[s].handles # {}
  PROVE  Sound(c, ReleaseCapacity(m, s, n), {}, 0) /\ Steady(c, m, ReleaseCapacity(m, s, n), {})
<1> DEFINE z == 0
           none == {}
           yes == TRUE
           st == m.store[s]
           o == ReleaseConnection(m, n, yes)
           i == st.inFlight - n
           g == AssignCapacity(st.flow, n)
           r == [st EXCEPT !.inFlight = i, !.flow = g]
           q == [o EXCEPT !.store[s].inFlight = @ - n, !.store[s].flow = AssignCapacity(@, n)]
           d == z - n
           res == ReleaseCapacity(m, s, n)
           w == Marks(m, s)
<1>1. /\ m \in Locked(c.i) /\ st \in Streams /\ Fine(c, m.initWindow, s, st, w)
      /\ Settled(c, st, w) /\ Sound(c, m, none, z) /\ z \in Nat /\ yes \in BOOLEAN
  BY StreamTyped DEF Sound
<1>2. n <= m.inFlight
  <2>1. st.inFlight <= m.inFlight /\ m.inFlight \in Int /\ st.inFlight \in Int BY <1>1, BytesFit
  <2>2. QED BY <2>1
<1>3. Moved(c, m, o, AssignCapacity(m.flow, n), none, d)
  <2>1. m.inFlight \in Int /\ m.inFlight >= n BY <1>1, <1>2 DEF Locked
  <2>2. z \in Int BY <1>1
  <2> HIDE DEF z, none, yes
  <2>3. QED BY <1>1, <2>1, <2>2, ReleaseConnectionSound
<1>4. /\ Sound(c, o, none, d) /\ o.store = m.store /\ Slab(o) = Slab(m) /\ o.initWindow = m.initWindow
      /\ Marks(o, s) = w /\ Steady(c, m, o, none)
  <2>1. AssignCapacity(m.flow, n).window = m.flow.window
    <3>1. m.flow \in Flows BY <1>1 DEF Locked
    <3>2. QED BY <3>1 DEF AssignCapacity, Flows
  <2>2. QED BY <1>3, <2>1 DEF Moved
<1>5. o \in Locked(c.i) /\ o.woken \in BOOLEAN BY <1>4 DEF Sound, Locked
<1>6. /\ st.flow \in Flows /\ st.inFlight \in Nat /\ i \in Nat /\ g \in Flows
      /\ g.window = st.flow.window /\ g.available = st.flow.available + n
  <2>1. st.flow \in Flows /\ st.inFlight \in Nat BY <1>1 DEF Streams
  <2>2. st.flow.available \in Int BY <2>1 DEF Flows
  <2>3. i \in Nat BY <2>1
  <2>4. g \in Flows /\ g.window = st.flow.window /\ g.available = st.flow.available + n
    <3>1. st.flow.available + n \in Int BY <2>2
    <3>2. QED BY <2>1, <3>1 DEF Flows, AssignCapacity
  <2>5. QED BY <2>1, <2>3, <2>4
<1> HIDE DEF i, g
<1>7. /\ r \in Streams /\ r.inFlight = i /\ r.flow = g /\ r.state = st.state /\ r.out = st.out
      /\ r.handles = st.handles /\ r.events = st.events /\ r.promises = st.promises
      /\ r.counted = st.counted
  BY <1>1, <1>6 DEF Streams
<1>8. q = Sets(o, s, r)
  <2>1. q = Sets(o, s, [o.store[s] EXCEPT !.inFlight = @ - n, !.flow = AssignCapacity(@, n)])
    <3>1. o.store \in [Slab(m) -> Streams] BY <1>4, <1>5, StoreTyped DEF Locked, Slab
    <3>2. QED BY <1>5, <3>1 DEF Sets, Stored, Locked
  <2>2. [st EXCEPT !.inFlight = @ - n, !.flow = AssignCapacity(@, n)] = r BY <1>1 DEF Streams, i, g
  <2>3. QED BY <1>4, <2>1, <2>2
<1>9. res = IF UnclaimedCapacity(q.store[s].flow) > 0 THEN Wake([q EXCEPT !.updates = PushOnce(@, s)]) ELSE q
  BY DEF ReleaseCapacity
<1> HIDE DEF r, q, o, res
<1>10. Sets(o, s, r) = Put(o, s, r, NoQueue, o.woken) BY <1>5, StorePuts
<1>11. Wake([q EXCEPT !.updates = PushOnce(@, s)]) = Put(o, s, r, UpdateQueue, yes)
  <2> DEFINE f == Stored(o, s, r)
  <2>1. q = [o EXCEPT !.store = f] BY <1>8 DEF Sets
  <2> HIDE DEF f
  <2>2. Wake([q EXCEPT !.updates = PushOnce(@, s)]) = ToUpdate(o, f, s, yes)
    BY <1>5, <2>1 DEF Wake, Locked, ToUpdate
  <2> HIDE DEF yes
  <2>3. QED BY <1>5, <2>2, PutForms DEF f
<1>12. PICK P \in {NoQueue, UpdateQueue}, b \in BOOLEAN : res = Put(o, s, r, P, b)
  BY <1>1, <1>5, <1>8, <1>9, <1>10, <1>11
<1>13. P \subseteq {"updates"} /\ P \in SUBSET Pushable BY DEF NoQueue, UpdateQueue, Pushable
<1>14. Fine(c, o.initWindow, s, r, w \cup P)
  <2>1. Live(st) => r.flow.available + r.inFlight = m.initWindow
    <3>1. Live(st) => st.flow.available + st.inFlight = m.initWindow BY <1>1 DEF Fine
    <3>2. st.flow.available \in Int /\ m.initWindow \in Int BY <1>1, <1>6, MaxWindowAssumption DEF Flows, Locked
    <3>3. QED BY <1>6, <1>7, <3>1, <3>2 DEF i
  <2> HIDE DEF st
  <2>2. QED BY <1>1, <1>4, <1>6, <1>7, <1>13, <2>1, FlowFine
<1>15. Settled(c, r, w \cup P)
  <2>1. r.handles # {} BY <1>7
  <2>2. "expiring" \in w \cup P => "expiring" \in w BY <1>13
  <2>3. QED BY <1>1, <1>7, <2>1, <2>2 DEF Settled, Ready, Owned, Keeps, Released
<1>16. PutTo(c, o, res, s, r, P, none, z)
  <2>1. d \in Int /\ z = d + (st.inFlight - r.inFlight) BY <1>6, <1>7 DEF d, z, i
  <2>2. o.store[s] = st /\ s \in Slab(o) BY <1>4
  <2> HIDE DEF d, z, none, st, w
  <2>3. QED BY <1>4, <1>7, <1>12, <1>13, <1>14, <2>1, <2>2, PutBytes
<1>17. Follows(c, st, r) BY <1>6, <1>7 DEF Follows
<1>18. Sound(c, res, none \ {s}, z) /\ Steady(c, o, res, none)
  <2>1. o.store[s] = st BY <1>4
  <2>2. QED BY <1>4, <1>15, <1>16, <1>17, <2>1 DEF PutTo
<1>19. none \ {s} = none OBVIOUS
<1>20. res \in Locked(c.i) BY <1>18 DEF Sound
<1> HIDE DEF none
<1>21. Steady(c, m, res, none) BY <1>1, <1>4, <1>5, <1>18, <1>20, SteadyTwice
<1>22. QED BY <1>18, <1>19, <1>21 DEF res, none, z

-----------------------------------------------------------------------------
(* From operations to steps.                                                 *)

\* The application waits for fewer messages, or the connection has been
\* dropped.
Later(c, d) ==
  /\ c \in Contexts /\ d \in Contexts /\ d.i = c.i /\ d.await \subseteq c.await
  /\ Strict(d) => Strict(c)

\* Less waits, so less is asked of an entry, ...
LEMMA LaterFine ==
  ASSUME NEW c, NEW d, Later(c, d), NEW init, NEW k, NEW st, NEW w, Fine(c, init, k, st, w)
  PROVE  Fine(d, init, k, st, w)
BY DEF Later, Fine, RoleStates

\* ... of who may use it, ...
LEMMA LaterSettled ==
  ASSUME NEW c, NEW d, Later(c, d), NEW st, NEW w
  PROVE  /\ Settled(c, st, w) => Settled(d, st, w)
         /\ Ready(c, st, w) => Ready(d, st, w)
BY DEF Later, Settled, Ready, Owned

\* ... and of the record.
LEMMA LaterSound ==
  ASSUME NEW c, NEW d, Later(c, d), NEW m, NEW X, NEW loose, Sound(c, m, X, loose)
  PROVE  Sound(d, m, X, loose)
<1>1. d.i = c.i /\ (Strict(d) => Strict(c)) BY DEF Later
<1>2. /\ m \in Locked(c.i) /\ Queues(m) /\ Linking(m) /\ Slots(c, m) /\ Window(c, m, loose)
      /\ \A k \in Slab(m) : Fine(c, m.initWindow, k, m.store[k], Marks(m, k))
      /\ \A k \in Slab(m) \ X : Settled(c, m.store[k], Marks(m, k))
  BY DEF Sound
<1>3. Slots(d, m) /\ Window(d, m, loose) BY <1>1, <1>2 DEF Slots, Window
<1>4. /\ \A k \in Slab(m) : Fine(d, m.initWindow, k, m.store[k], Marks(m, k))
      /\ \A k \in Slab(m) \ X : Settled(d, m.store[k], Marks(m, k))
  BY <1>2, LaterFine, LaterSettled
<1>5. QED BY <1>1, <1>2, <1>3, <1>4 DEF Sound

\* The task of the connection is woken.
LEMMA WakeSound ==
  ASSUME NEW c \in Contexts, NEW m, NEW X, NEW loose \in Int, Sound(c, m, X, loose), NEW w \in BOOLEAN
  PROVE  Moved(c, m, [m EXCEPT !.woken = w], m.flow, X, loose)
<1>1. m \in Locked(c.i) /\ Window(c, m, loose) BY DEF Sound
<1>2. [m EXCEPT !.woken = w] = Ledger(m, m.flow, m.inFlight, w) BY <1>1 DEF Ledger, Locked
<1>3. m.flow \in Flows /\ m.inFlight \in Int /\ m.flow.window \in 0 .. MaxWindow BY <1>1 DEF Locked, Window
<1>4. m.inFlight = m.inFlight + (loose - loose) BY <1>3
<1>5. QED BY <1>2, <1>3, <1>4, LedgerMoves

\* What the peer sees of an operation that keeps to what it knows.
LEMMA ToldFollows ==
  ASSUME NEW c \in Contexts, NEW init, NEW p, NEW a, NEW b, Told(c.i, init, p, a), Follows(c, a, b)
  PROVE  Told(c.i, init, p, b)
BY DEF Told, Follows

\* The peer still agrees with a record of which it sees nothing new.
LEMMA SteadyAgree ==
  ASSUME NEW c \in Contexts, NEW m \in Locked(c.i), NEW n \in Locked(c.i), NEW q,
         Steady(c, m, n, {}), Agree(c.i, m, q)
  PROVE  Agree(c.i, n, q)
<1>1. /\ n.initWindow = m.initWindow /\ n.nextId = m.nextId /\ n.numRecv <= m.numRecv
      /\ n.flow.window = m.flow.window /\ n.err = m.err
  BY DEF Steady
<1>2. Roomy(c.i, n.numRecv, q)
  <2>1. CASE c.i \in Servers BY <2>1 DEF Roomy
  <2>2. CASE c.i \notin Servers
    <3>1. IsFiniteSet(Pending(c.i, q))
      <4>1. Pending(c.i, q) \subseteq PeerIds[c.i] /\ IsFiniteSet(PeerIds[c.i])
        BY RecvAssumption DEF Pending, Contexts
      <4>2. QED BY <4>1, FS_Subset
    <3>2. Cardinality(Pending(c.i, q)) \in Nat BY <3>1, FS_CardinalityType
    <3>3. m.numRecv \in Int /\ n.numRecv \in Int /\ MaxRecv[c.i] \in Int
      <4>1. c.i \in Instances BY DEF Contexts
      <4>2. MaxRecv[c.i] \in Nat BY <4>1, RecvAssumption
      <4>3. QED BY <4>2 DEF Locked
    <3>4. m.numRecv + Cardinality(Pending(c.i, q)) <= MaxRecv[c.i] BY <2>2 DEF Agree, Roomy
    <3>5. n.numRecv + Cardinality(Pending(c.i, q)) <= MaxRecv[c.i] BY <1>1, <3>2, <3>3, <3>4
    <3>6. QED BY <3>5 DEF Roomy
  <2>3. QED BY <2>1, <2>2
<1>3. ASSUME NEW s \in DOMAIN n.ids PROVE Told(c.i, n.initWindow, q.stream[s], n.store[n.ids[s]])
  <2>1. s \in DOMAIN m.ids /\ n.ids[s] = m.ids[s] /\ Follows(c, m.store[n.ids[s]], n.store[n.ids[s]])
    BY DEF Steady
  <2>2. Told(c.i, m.initWindow, q.stream[s], m.store[n.ids[s]]) BY <2>1 DEF Agree
  <2>3. QED BY <1>1, <2>1, <2>2, ToldFollows
<1>4. n.refused # NoId => n.refused \notin DOMAIN n.ids /\ n.refused < n.nextId
  <2>1. n.refused # NoId => n.refused \notin DOMAIN m.ids /\ n.refused < m.nextId BY DEF Steady, Agree
  <2>2. \A s \in DOMAIN n.ids : s \in DOMAIN m.ids BY DEF Steady
  <2>3. QED BY <1>1, <2>1, <2>2
<1>5. QED BY <1>1, <1>2, <1>3, <1>4 DEF Agree

\* What every step starts from and has to lead to.
LEMMA Before ==
  ASSUME IInv
  PROVE  /\ Context \in Contexts /\ Context.i = instance /\ Context.end = end
         /\ Context.await = {k \in Ids : ~app[k].message}
         /\ Sound(Context, me, {}, 0) /\ me \in Locked(instance) /\ Alive
         /\ Ids = IdsOf(instance) /\ instance \in Instances
         /\ (IsServer <=> instance \in Servers)
         /\ peer \in Peer /\ app \in Apps
         /\ end = "open" => Agree(instance, me, peer)
<1>1. Context.i = instance /\ Context.end = end /\ Context.await = {k \in Ids : ~app[k].message}
  BY DEF Context
<1>2. me \in Locked(Context.i) BY DEF IInv, Sound
<1>3. QED BY <1>1, <1>2 DEF IInv, Locked, Alive, Ids, IdsOf, Contexts, IsServer

\* What is enough for the invariant after a step.
LEMMA Afterwards ==
  ASSUME NEW n, me' = n, instance' = instance, Later(Context, Context'), Sound(Context', n, {}, 0),
         peer' \in Peer', app' \in Apps', changes' \in 0 .. MaxChanges[instance],
         end' = "open" => Agree(instance, n, peer')
  PROVE  IInv'
<1>1. Context' \in Contexts BY DEF Later
<1>2. QED BY <1>1 DEF IInv

\* A step that neither the peer nor the application sees.
LEMMA QuietStep ==
  ASSUME IInv, NEW n, me' = n, Sound(Context, n, {}, 0), Steady(Context, me, n, {}),
         UNCHANGED <<instance, end, peer, app>>, changes' \in 0 .. MaxChanges[instance]
  PROVE  IInv'
<1>1. Context' = Context BY DEF Context, Ids
<1>2. Later(Context, Context') BY <1>1, Before DEF Later
<1>3. peer' \in Peer' /\ app' \in Apps' BY Before DEF Peer, Apps, Ids
<1>4. me \in Locked(Context.i) /\ n \in Locked(Context.i) BY Before DEF Sound
<1>5. end = "open" => Agree(instance, n, peer) BY <1>4, Before, SteadyAgree
<1>6. QED BY <1>1, <1>2, <1>3, <1>5, Afterwards

\* What was read is applied: without an error only the task is woken.
LEMMA AppliedQuiet ==
  ASSUME IInv, end = "open", NEW n, Sound(Context, n, {}, 0), Steady(Context, me, n, {}), Applied(n),
         UNCHANGED peer
  PROVE  IInv'
<1> DEFINE o == Wake(n)
           none == {}
           z == 0
           yes == TRUE
<1>1. ~n.err BY Before DEF Agree, Steady
<1>2. me' = o /\ end' = end /\ UNCHANGED <<instance, app, changes>> BY <1>1 DEF Applied
<1>3. Moved(Context, n, o, n.flow, none, z)
  <2>1. o = [n EXCEPT !.woken = yes] BY DEF Wake
  <2>2. z \in Int /\ yes \in BOOLEAN OBVIOUS
  <2> HIDE DEF o, z, yes, none
  <2>3. Sound(Context, n, none, z) BY DEF none, z
  <2>4. QED BY <2>1, <2>2, <2>3, Before, WakeSound
<1>4. Sound(Context, o, none, z) /\ Steady(Context, n, o, none) BY <1>3 DEF Moved
<1>5. me \in Locked(Context.i) /\ n \in Locked(Context.i) /\ o \in Locked(Context.i)
  BY <1>4, Before DEF Sound
<1> HIDE DEF o, none, z
<1>6. Steady(Context, me, o, none) BY <1>4, <1>5, SteadyTwice DEF none
<1>7. changes' \in 0 .. MaxChanges[instance] BY <1>2 DEF IInv
<1>8. QED BY <1>2, <1>4, <1>6, <1>7, QuietStep DEF none, z

\* clear_expired_reset_streams.
LEMMA ExpiresSteady ==
  ASSUME NEW c \in Contexts, NEW m, Sound(c, m, {}, 0), m.expiring # <<>>
  PROVE  LET n == TransitionAfter([m EXCEPT !.expiring = Tail(@)], Head(m.expiring), TRUE)
         IN  Sound(c, n, {}, 0) /\ Steady(c, m, n, {})
<1> DEFINE o == [m EXCEPT !.expiring = Tail(@)]
           h == Head(m.expiring)
           n == TransitionAfter(o, h, TRUE)
           none == {}
           z == 0
<1>1. Oldest(m, o, h) BY DEF Oldest
<1>2. o.err = m.err /\ o.refused = m.refused BY DEF Sound, Locked
<1>3. m \in Locked(c.i) /\ Sound(c, m, none, z) BY DEF Sound
<1>4. h \notin none OBVIOUS
<1> HIDE DEF o, h, none, z
<1>5. Left(c, m, o, n, h, none, z) BY <1>1, <1>3, <1>4, OldestSound
<1> HIDE DEF n
<1>6. /\ Takes(m, o, h, {"expiring"}) /\ Thins(o, n, Gone(o, h)) /\ Sound(c, n, none, z) /\ o \in Locked(c.i)
  BY <1>5 DEF Left
<1>7. n \in Locked(c.i) /\ Linking(n) /\ Linking(m) BY <1>3, <1>6 DEF Sound
<1>8. /\ o.store = m.store /\ o.ids = m.ids /\ o.initWindow = m.initWindow /\ o.nextId = m.nextId
      /\ o.flow = m.flow /\ o.numRecv = m.numRecv
  BY <1>6 DEF Takes
<1>9. /\ DOMAIN n.ids \subseteq DOMAIN m.ids /\ \A t \in DOMAIN n.ids : n.ids[t] = m.ids[t]
      /\ \A k \in Slab(n) : k \in Slab(m) /\ SameBut(m.store[k], n.store[k])
      /\ n.initWindow = m.initWindow /\ n.nextId = m.nextId /\ n.flow = m.flow /\ n.err = m.err
      /\ n.numRecv <= m.numRecv /\ n.refused = m.refused
  BY <1>2, <1>6, <1>8 DEF Thins, Slab
<1>10. Steady(c, m, n, none) BY <1>3, <1>7, <1>9, SameSteady
<1>11. QED BY <1>6, <1>10 DEF n, o, h, none, z

\* clear_expired_reset_streams.
LEMMA ResetExpiresStep ==
  ASSUME IInv, ResetExpires
  PROVE  IInv'
<1> DEFINE n == TransitionAfter([me EXCEPT !.expiring = Tail(@)], Head(me.expiring), TRUE)
<1>1. end = "open" /\ me.expiring # <<>> /\ Applied(n) /\ UNCHANGED peer BY DEF ResetExpires, TaskRuns
<1>2. Sound(Context, n, {}, 0) /\ Steady(Context, me, n, {}) BY <1>1, Before, ExpiresSteady
<1> HIDE DEF n
<1>3. QED BY <1>1, <1>2, AppliedQuiet

\* Only what concerns the connection changes.
LEMMA AsideQuiet ==
  ASSUME NEW c \in Contexts, NEW m, Sound(c, m, {}, 0), NEW n \in Locked(c.i), Aside(m, n),
         n.inFlight = m.inFlight, n.flow.window \in 0 .. MaxWindow,
         n.flow.available + n.inFlight \in 0 .. MaxWindow, MaxChanges[c.i] = 0 => n.local = NoId
  PROVE  /\ Sound(c, n, {}, 0)
         /\ n.err = m.err /\ n.nextId = m.nextId /\ n.flow.window = m.flow.window
              /\ (n.refused = m.refused \/ n.refused = NoId) => Steady(c, m, n, {})
<1> DEFINE z == 0
           none == {}
<1>1. Sound(c, m, none, z) /\ z \in Int /\ m \in Locked(c.i) BY DEF Sound
<1>2. n.inFlight = m.inFlight + (z - z)
  <2>1. m.inFlight \in Int BY <1>1 DEF Locked
  <2>2. QED BY <2>1
<1> HIDE DEF z, none
<1>3. Sound(c, n, none, z) BY <1>1, <1>2, AsideSound
<1>4. ASSUME n.err = m.err, n.nextId = m.nextId, n.flow.window = m.flow.window, n.refused = m.refused \/ n.refused = NoId PROVE Steady(c, m, n, none)
  <2>1. n.store = m.store /\ n.ids = m.ids /\ n.initWindow = m.initWindow /\ n.numRecv = m.numRecv BY DEF Aside
  <2>2. n.numRecv <= m.numRecv BY <1>1, <2>1 DEF Locked
  <2>3. \A s \in DOMAIN n.ids : Follows(c, m.store[n.ids[s]], n.store[n.ids[s]]) BY <2>1 DEF Follows
  <2>4. QED BY <1>4, <2>1, <2>2, <2>3 DEF Steady
<1>5. QED BY <1>3, <1>4 DEF z, none

\* send_pending_refusal.
RefusalWritten(m) == [m EXCEPT !.refused = NoId]

\* A refusal that was written is forgotten.
LEMMA RefusalQuiet ==
  ASSUME NEW c \in Contexts, NEW m, Sound(c, m, {}, 0)
  PROVE  Sound(c, RefusalWritten(m), {}, 0) /\ Steady(c, m, RefusalWritten(m), {})
<1> DEFINE n == RefusalWritten(m)
<1>1. m \in Locked(c.i) /\ Window(c, m, 0) BY DEF Sound
<1>2. n = [m EXCEPT !.refused = NoId] BY DEF RefusalWritten
<1> HIDE DEF n
<1>3. n \in Locked(c.i) BY <1>1, <1>2 DEF Locked
<1>4. /\ n.store = m.store /\ n.ids = m.ids /\ n.accept = m.accept /\ n.updates = m.updates
      /\ n.expiring = m.expiring /\ n.sending = m.sending /\ n.initWindow = m.initWindow
      /\ n.numRecv = m.numRecv /\ n.numReset = m.numReset /\ n.lost = m.lost /\ n.nextId = m.nextId
      /\ n.flow = m.flow /\ n.inFlight = m.inFlight /\ n.local = m.local /\ n.err = m.err
      /\ n.refused = NoId
  BY <1>1, <1>2 DEF Locked
<1>5. m.nextId \in Nat BY <1>1 DEF Locked
<1>6. Aside(m, n) BY <1>4, <1>5 DEF Aside
<1>7. /\ n.flow.window \in 0 .. MaxWindow /\ n.flow.available + n.inFlight \in 0 .. MaxWindow
      /\ MaxChanges[c.i] = 0 => n.local = NoId
  BY <1>1, <1>4 DEF Window
<1>8. Sound(c, n, {}, 0) /\ Steady(c, m, n, {}) BY <1>3, <1>4, <1>6, <1>7, AsideQuiet
<1>9. QED BY <1>8 DEF n

\* All that the peer knows but for one stream.
AgreeBut(i, m, q, s) ==
  /\ ~m.err /\ m.flow.window = q.conn
  /\ \A t \in DOMAIN m.ids \ {s} : Told(i, m.initWindow, q.stream[t], m.store[m.ids[t]])

\* What the peer has said on that stream.
Spoken(i, q, p, s) ==
  /\ s \in IdsOf(i) /\ p.conn = q.conn
  /\ \A t \in IdsOf(i) : t # s => p.stream[t] = q.stream[t]

\* The peer agrees when it does on that stream.
LEMMA AgreeOne ==
  ASSUME NEW c \in Contexts, NEW m \in Locked(c.i), NEW n \in Locked(c.i), NEW q, NEW p, NEW s,
         AgreeBut(c.i, m, q, s), Steady(c, m, n, {s}), Spoken(c.i, q, p, s),
         Ordered(c.i, n.nextId, p), Roomy(c.i, n.numRecv, p),
         n.refused # NoId => n.refused \notin DOMAIN n.ids /\ n.refused < n.nextId,
         s \in DOMAIN n.ids => Told(c.i, n.initWindow, p.stream[s], n.store[n.ids[s]])
  PROVE  Agree(c.i, n, p)
<1>1. /\ n.initWindow = m.initWindow /\ n.flow.window = m.flow.window /\ n.err = m.err
  BY DEF Steady
<1>2. ASSUME NEW t \in DOMAIN n.ids PROVE Told(c.i, n.initWindow, p.stream[t], n.store[n.ids[t]])
  <2>1. CASE t = s BY <2>1, <1>2
  <2>2. CASE t # s
    <3>1. t \in DOMAIN m.ids /\ n.ids[t] = m.ids[t] /\ Follows(c, m.store[n.ids[t]], n.store[n.ids[t]])
      BY <1>2, <2>2 DEF Steady
    <3>2. m.ids \in Index(c.i) BY DEF Locked
    <3>3. t \in IdsOf(c.i) BY <3>1, <3>2 DEF Index
    <3>4. p.stream[t] = q.stream[t] BY <2>2, <3>3 DEF Spoken
    <3>5. Told(c.i, m.initWindow, q.stream[t], m.store[n.ids[t]]) BY <2>2, <3>1 DEF AgreeBut
    <3>6. QED BY <1>1, <3>1, <3>4, <3>5, ToldFollows
  <2>3. QED BY <2>1, <2>2
<1>3. QED BY <1>1, <1>2 DEF Agree, AgreeBut, Spoken

\* The peer has said more on a stream it had opened, or opened one it had
\* promised.
LEMMA SpokenAgree ==
  ASSUME NEW c \in Contexts, NEW m \in Locked(c.i), NEW n \in Locked(c.i), NEW q, NEW p, NEW s,
         Agree(c.i, m, q), Steady(c, m, n, {s}), Spoken(c.i, q, p, s),
         p.stream[s].said # "nothing", s < m.nextId,
         p.stream[s].said = "promised" => q.stream[s].said = "promised",
         m.refused = NoId \/ (s \in DOMAIN n.ids => s \in DOMAIN m.ids),
         s \in DOMAIN n.ids => Told(c.i, n.initWindow, p.stream[s], n.store[n.ids[s]])
  PROVE  Agree(c.i, n, p)
<1>1. /\ n.nextId = m.nextId /\ n.numRecv <= m.numRecv /\ (n.refused = m.refused \/ n.refused = NoId)
  BY DEF Steady
<1>2. AgreeBut(c.i, m, q, s) BY DEF Agree, AgreeBut
<1>3. Ordered(c.i, n.nextId, p)
  <2>1. \A t \in IdsOf(c.i) : p.stream[t].said # "nothing" => t < n.nextId
    BY <1>1 DEF Agree, Ordered, Spoken
  <2>2. n.nextId > 1 => n.nextId - 1 \in PeerIds[c.i] /\ p.stream[n.nextId - 1].said # "nothing"
    BY <1>1 DEF Agree, Ordered, Spoken, IdsOf
  <2>3. QED BY <2>1, <2>2 DEF Ordered
<1>4. Roomy(c.i, n.numRecv, p)
  <2>1. CASE c.i \in Servers BY <2>1 DEF Roomy
  <2>2. CASE c.i \notin Servers
    <3>1. Pending(c.i, p) \subseteq Pending(c.i, q)
      BY DEF Pending, Spoken, IdsOf
    <3>2. c.i \in Instances BY DEF Contexts
    <3>3. IsFiniteSet(Pending(c.i, q))
      <4>1. Pending(c.i, q) \subseteq PeerIds[c.i] BY DEF Pending
      <4>2. IsFiniteSet(PeerIds[c.i]) BY <3>2, RecvAssumption
      <4>3. QED BY <4>1, <4>2, FS_Subset
    <3>4. /\ Cardinality(Pending(c.i, p)) <= Cardinality(Pending(c.i, q))
          /\ Cardinality(Pending(c.i, q)) \in Nat /\ Cardinality(Pending(c.i, p)) \in Nat
      <4>1. IsFiniteSet(Pending(c.i, p)) BY <3>1, <3>3, FS_Subset
      <4>2. QED BY <3>1, <3>3, <4>1, FS_Subset, FS_CardinalityType
    <3>5. m.numRecv + Cardinality(Pending(c.i, q)) <= MaxRecv[c.i] BY <2>2 DEF Agree, Roomy
    <3>6. MaxRecv[c.i] \in Nat BY <3>2, RecvAssumption
    <3>7. m.numRecv \in Int /\ n.numRecv \in Int BY DEF Locked
    <3>8. n.numRecv + Cardinality(Pending(c.i, p)) <= MaxRecv[c.i] BY <1>1, <3>4, <3>5, <3>6, <3>7
    <3>9. QED BY <3>8 DEF Roomy
  <2>3. QED BY <2>1, <2>2
<1>5. n.refused # NoId => n.refused \notin DOMAIN n.ids /\ n.refused < n.nextId
  <2>1. n.refused # NoId => n.refused \notin DOMAIN m.ids /\ n.refused < m.nextId BY <1>1 DEF Agree
  <2>2. n.refused # NoId => \A t \in DOMAIN n.ids : t \in DOMAIN m.ids BY <1>1 DEF Steady
  <2>3. QED BY <1>1, <2>1, <2>2
<1>6. QED BY <1>2, <1>3, <1>4, <1>5, AgreeOne

\* The connection's windows move on both sides.
LEMMA MovedAgree ==
  ASSUME NEW c \in Contexts, NEW m, NEW n, NEW q, NEW p, NEW f, NEW X, NEW l, Moved(c, m, n, f, X, l),
         Agree(c.i, m, q), f.window = p.conn, p.stream = q.stream
  PROVE  Agree(c.i, n, p)
BY DEF Moved, Agree, Roomy, Ordered, Pending

\* What the peer's records are after it has spoken.
LEMMA PeerSpoken ==
  ASSUME NEW i \in Instances, NEW q, NEW D, q.stream \in [IdsOf(i) -> D], NEW s \in IdsOf(i),
         NEW p, NEW r, p.conn = q.conn, p.stream = [q.stream EXCEPT ![s] = r]
  PROVE  Spoken(i, q, p, s) /\ p.stream[s] = r
BY DEF Spoken

\* send_pending_refusal.
LEMMA WriteRefusalStep ==
  ASSUME IInv, WriteRefusal
  PROVE  IInv'
<1> DEFINE n == RefusalWritten(me)
           s == me.refused
           p == peer'
           r == [peer.stream[s] EXCEPT !.said = "reset"]
<1>1. /\ end = "open" /\ s # NoId /\ me' = n /\ UNCHANGED <<instance, end, app, changes>>
      /\ peer' = [peer EXCEPT !.stream[s].said = "reset"]
  BY DEF WriteRefusal, TaskRuns, Wrote, PeerSays, RefusalWritten
<1>2. Sound(Context, n, {}, 0) /\ Steady(Context, me, n, {}) BY Before, RefusalQuiet
<1>3. /\ Agree(instance, me, peer) /\ s \in IdsOf(instance) /\ s \notin DOMAIN me.ids /\ s < me.nextId
  BY <1>1, Before DEF Agree, Locked
<1>4. /\ p.conn = peer.conn /\ p.stream = [peer.stream EXCEPT ![s] = r] /\ r.said = "reset"
      /\ p \in Peer' /\ Spoken(instance, peer, p, s) /\ p.stream[s] = r
  <2>1. peer \in Peer /\ Ids' = Ids /\ Ids = IdsOf(instance) /\ instance \in Instances BY <1>1, Before DEF Ids
  <2>2. peer.stream[s] \in [said : {"nothing", "promised", "open", "ended", "reset"},
                            sent : Nat, credit : Int, length : Int]
    BY <1>3, <2>1 DEF Peer
  <2>3. r \in [said : {"nothing", "promised", "open", "ended", "reset"}, sent : Nat, credit : Int, length : Int]
        /\ r.said = "reset"
    BY <2>2
  <2>4. p.conn = peer.conn /\ p.stream = [peer.stream EXCEPT ![s] = r] BY <1>1, <2>1 DEF Peer
  <2> HIDE DEF r
  <2>5. p \in Peer' BY <1>1, <1>3, <2>1, <2>3, <2>4 DEF Peer
  <2>6. Spoken(instance, peer, p, s) /\ p.stream[s] = r
    <3>1. peer.stream \in [IdsOf(instance) -> [said : {"nothing", "promised", "open", "ended", "reset"},
                            sent : Nat, credit : Int, length : Int]]
      BY <2>1 DEF Peer
    <3>2. QED BY <1>3, <2>1, <2>4, <3>1, PeerSpoken
  <2>7. QED BY <2>3, <2>4, <2>5, <2>6
<1> HIDE DEF n, r
<1>5. me \in Locked(Context.i) /\ n \in Locked(Context.i) BY <1>2, Before DEF Sound
<1>6. s \notin DOMAIN n.ids
  <2>1. \A t \in DOMAIN n.ids : t \in DOMAIN me.ids BY <1>2 DEF Steady
  <2>2. QED BY <1>3, <2>1
<1>7. Agree(instance, n, p)
  <2>1. Steady(Context, me, n, {s}) BY <1>2, SteadyMore
  <2>2. p.stream[s].said = "reset" BY <1>4
  <2> DEFINE c == Context
             m == me
             q == peer
  <2>3. /\ c \in Contexts /\ c.i = instance /\ m \in Locked(c.i) /\ n \in Locked(c.i)
        /\ Agree(c.i, m, q) /\ Steady(c, m, n, {s}) /\ Spoken(c.i, q, p, s) /\ s < m.nextId
    BY <1>3, <1>4, <1>5, <2>1, Before
  <2>4. p.stream[s].said # "nothing" /\ p.stream[s].said # "promised" BY <2>2
  <2>5. s \notin DOMAIN n.ids BY <1>6
  <2> HIDE DEF p, s, c, m, q
  <2>6. Agree(c.i, n, p) BY ONLY <2>3, <2>4, <2>5, SpokenAgree
  <2>7. QED BY <2>3, <2>6
<1>8. Later(Context, Context') /\ Context' = Context
  <2>1. Context' = Context BY <1>1 DEF Context, Ids
  <2>2. QED BY <2>1, Before DEF Later
<1>9. app' \in Apps' /\ changes' \in 0 .. MaxChanges[instance]
  BY <1>1, Before DEF Apps, Ids, IInv
<1>10. QED BY <1>1, <1>2, <1>4, <1>7, <1>8, <1>9, Afterwards DEF p

-----------------------------------------------------------------------------
(* Windows, resets and bytes given back: steps of one operation.             *)

\* send_connection_window_update: what is unclaimed is added to the window.
LEMMA AnnounceSound ==
  ASSUME NEW c \in Contexts, NEW m, NEW X, Sound(c, m, X, 0)
  PROVE  LET u == UnclaimedCapacity(m.flow)
         IN  u \in Int /\ Moved(c, m, Announce(m), Announced(m.flow), X, 0)
             /\ Announced(m.flow).window = m.flow.window + u
<1> DEFINE u == UnclaimedCapacity(m.flow)
           f == Announced(m.flow)
           z == 0
<1>1. m \in Locked(c.i) /\ Window(c, m, z) /\ z \in Int BY DEF Sound
<1>2. m.flow \in Flows /\ m.inFlight \in Int /\ m.woken \in BOOLEAN BY <1>1 DEF Locked
<1>3. m.flow.available \in Int /\ m.flow.window \in Int /\ m.flow.window >= 0 /\ m.flow.window <= MaxWindow
  BY <1>1, <1>2, MaxWindowAssumption DEF Flows, Window
<1>4. m.inFlight >= 0
  <2>1. z \in Nat /\ Sound(c, m, X, z) OBVIOUS
  <2> HIDE DEF z
  <2>2. z <= m.inFlight BY <2>1, BytesFit
  <2>3. QED BY <2>2 DEF z
<1>5. m.flow.available <= MaxWindow BY <1>1, <1>2, <1>3, <1>4, MaxWindowAssumption DEF Window
<1>6. u \in Int /\ m.flow.window + u \in 0 .. MaxWindow
  BY <1>3, <1>5, MaxWindowAssumption DEF UnclaimedCapacity
<1>7. f \in Flows /\ f.window = m.flow.window + u /\ f.available = m.flow.available
  BY <1>2, <1>3, <1>6 DEF Flows, Announced, IncWindow
<1>8. CanIncWindow(m.flow, u) BY <1>6, MaxWindowAssumption DEF CanIncWindow
<1>9. Announce(m) = Ledger(m, f, m.inFlight, m.woken)
  <2>1. Announce(m) = [m EXCEPT !.flow = f] BY <1>8 DEF Announce, Check
  <2> HIDE DEF f
  <2>2. [m EXCEPT !.flow = f] = Ledger(m, f, m.inFlight, m.woken) BY <1>1 DEF Ledger, Locked
  <2>3. QED BY <2>1, <2>2
<1>10. Moved(c, m, Announce(m), f, X, z)
  <2>1. m.inFlight = m.inFlight + (z - z) BY <1>2
  <2>2. f.window \in 0 .. MaxWindow BY <1>6, <1>7
  <2> HIDE DEF f, z
  <2>3. QED BY <1>1, <1>2, <1>7, <1>9, <2>1, <2>2, LedgerMoves DEF z
<1>11. QED BY <1>6, <1>7, <1>10

\* send_connection_window_update.
LEMMA WriteConnUpdateStep ==
  ASSUME IInv, WriteConnUpdate
  PROVE  IInv'
<1> DEFINE u == UnclaimedCapacity(me.flow)
           n == Announce(me)
           f == Announced(me.flow)
           p == peer'
<1>1. /\ me' = n /\ UNCHANGED <<instance, end, app, changes>> /\ end = "open"
      /\ p = [peer EXCEPT !.conn = @ + u]
  BY DEF WriteConnUpdate, Writes, TaskRuns, Wrote
<1>2. u \in Int /\ Moved(Context, me, n, f, {}, 0) /\ f.window = me.flow.window + u
  BY Before, AnnounceSound
<1>3. p \in Peer' /\ p.conn = peer.conn + u /\ p.stream = peer.stream
  BY <1>1, <1>2, Before DEF Peer, Ids
<1> HIDE DEF u, n, f, p
<1>4. Agree(Context.i, me, peer) /\ f.window = p.conn BY <1>1, <1>2, <1>3, Before DEF Agree
<1>5. Agree(Context.i, n, p) BY <1>2, <1>3, <1>4, Before, MovedAgree
<1>6. Context' = Context BY <1>1 DEF Context, Ids
<1>7. Later(Context, Context') BY <1>6, Before DEF Later
<1>8. app' \in Apps' /\ changes' \in 0 .. MaxChanges[instance] BY <1>1, Before DEF Apps, Ids, IInv
<1>9. Sound(Context', n, {}, 0) BY <1>2, <1>6 DEF Moved
<1>10. QED BY <1>1, <1>3, <1>5, <1>7, <1>8, <1>9, Before, Afterwards DEF p

\* set_target_window_size.
LEMMA TargetSound ==
  ASSUME NEW c \in Contexts, NEW m, Sound(c, m, {}, 0), NEW target \in 0 .. MaxWindow
  PROVE  Sound(c, SetTarget(m, target), {}, 0) /\ Steady(c, m, SetTarget(m, target), {})
<1> DEFINE current == m.flow.available + m.inFlight
           f == [m.flow EXCEPT !.available = target - m.inFlight]
           o == [m EXCEPT !.flow = f]
           n == SetTarget(m, target)
           z == 0
<1>1. m \in Locked(c.i) /\ Window(c, m, z) BY DEF Sound
<1>2. /\ m.flow \in Flows /\ m.inFlight \in Int /\ m.woken \in BOOLEAN /\ target \in Int
      /\ m.flow.available \in Int /\ m.flow.window \in Int /\ target >= 0 /\ target <= MaxWindow
  BY <1>1, MaxWindowAssumption DEF Locked, Flows
<1>3. current >= 0 /\ current \in Int BY <1>1, <1>2, MaxWindowAssumption DEF Window
<1>4. f \in Flows /\ f.window = m.flow.window /\ f.available = target - m.inFlight
  BY <1>2 DEF Flows
<1>5. /\ AssignCapacity(m.flow, target - current) = f
      /\ ClaimCapacity(m.flow, current - target) = f
  <2>1. /\ m.flow.available + (target - current) = target - m.inFlight
        /\ m.flow.available - (current - target) = target - m.inFlight
    BY <1>2
  <2>2. QED BY <1>2, <2>1 DEF AssignCapacity, ClaimCapacity, Flows
<1>6. n = IF UnclaimedCapacity(o.flow) > 0 THEN Wake(o) ELSE o
  <2> DEFINE g == IF target > current THEN AssignCapacity(m.flow, target - current)
                                      ELSE ClaimCapacity(m.flow, current - target)
             p == [Check(m, current >= 0, "checked_size") EXCEPT
                    !.flow = IF target > current THEN AssignCapacity(@, target - current)
                             ELSE ClaimCapacity(@, current - target)]
  <2>1. Check(m, current >= 0, "checked_size") = m BY <1>3 DEF Check
  <2>2. p = [m EXCEPT !.flow = g] BY <1>1, <2>1 DEF Locked
  <2>3. g = f BY <1>5
  <2>4. p = o BY <2>2, <2>3
  <2>5. n = IF UnclaimedCapacity(p.flow) > 0 THEN Wake(p) ELSE p BY DEF SetTarget
  <2>6. QED BY <2>4, <2>5
<1> HIDE DEF f, n
<1>7. o = Ledger(m, f, m.inFlight, m.woken) /\ Wake(o) = Ledger(m, f, m.inFlight, TRUE)
  BY <1>1 DEF Ledger, Wake, Locked
<1> HIDE DEF o
<1>8. PICK w \in BOOLEAN : n = Ledger(m, f, m.inFlight, w) BY <1>2, <1>6, <1>7
<1>9. /\ n \in Locked(c.i) /\ Aside(m, n) /\ n.flow = f /\ n.inFlight = m.inFlight /\ n.local = m.local
      /\ n.nextId = m.nextId /\ n.refused = m.refused /\ n.err = m.err
  BY <1>1, <1>2, <1>4, <1>8, LedgerIs
<1>10. /\ n.flow.window \in 0 .. MaxWindow /\ n.flow.available + n.inFlight \in 0 .. MaxWindow
       /\ n.flow.window = m.flow.window
  <2>1. f.available + m.inFlight = target BY <1>2, <1>4
  <2>2. QED BY <1>1, <1>2, <1>4, <1>9, <2>1 DEF Window
<1>11. MaxChanges[c.i] = 0 => n.local = NoId BY <1>1, <1>9 DEF Window
<1>12. QED BY <1>9, <1>10, <1>11, AsideQuiet DEF n

\* set_target_connection_window.
LEMMA SetTargetWindowStep ==
  ASSUME IInv, NEW target \in Targets, SetTargetWindow(target)
  PROVE  IInv'
<1> DEFINE n == SetTarget(me, target)
<1>1. target \in 0 .. MaxWindow BY RecvAssumption
<1>2. Sound(Context, n, {}, 0) /\ Steady(Context, me, n, {}) BY <1>1, Before, TargetSound
<1> HIDE DEF n
<1>3. changes' \in 0 .. MaxChanges[instance]
  <2>1. MaxChanges[instance] \in Nat BY Before, RecvAssumption
  <2>2. changes \in 0 .. MaxChanges[instance] /\ changes < MaxChanges[instance] /\ changes' = changes + 1
    BY DEF IInv, SetTargetWindow
  <2>3. QED BY <2>1, <2>2
<1>4. me' = n /\ UNCHANGED <<instance, end, peer, app>> BY DEF SetTargetWindow, n
<1>5. QED BY <1>2, <1>3, <1>4, QuietStep

\* A new initial window is sent to the peer, and nothing changes before its
\* ACK.
LEMMA SetInitialWindowStep ==
  ASSUME IInv, NEW val \in Windows, SetInitialWindow(val)
  PROVE  IInv'
<1> DEFINE n == [me EXCEPT !.local = val]
<1>1. /\ MaxChanges[instance] \in Nat /\ changes \in 0 .. MaxChanges[instance]
      /\ changes < MaxChanges[instance] /\ changes' = changes + 1
      /\ me' = n /\ UNCHANGED <<instance, end, peer, app>>
  BY Before, RecvAssumption DEF IInv, SetInitialWindow
<1>2. changes' \in 0 .. MaxChanges[instance] /\ MaxChanges[instance] # 0 BY <1>1
<1>3. me \in Locked(Context.i) /\ Window(Context, me, 0) /\ Context.i = instance BY Before DEF Sound
<1>4. n \in Locked(Context.i) BY <1>3 DEF Locked
<1>5. /\ n.store = me.store /\ n.ids = me.ids /\ n.accept = me.accept /\ n.updates = me.updates
      /\ n.expiring = me.expiring /\ n.sending = me.sending /\ n.initWindow = me.initWindow
      /\ n.numRecv = me.numRecv /\ n.numReset = me.numReset /\ n.lost = me.lost /\ n.nextId = me.nextId
      /\ n.flow = me.flow /\ n.inFlight = me.inFlight /\ n.err = me.err /\ n.refused = me.refused
  BY <1>3 DEF Locked
<1>6. me.nextId \in Nat BY <1>3 DEF Locked
<1>7. Aside(me, n) BY <1>5, <1>6 DEF Aside
<1>8. /\ n.flow.window \in 0 .. MaxWindow /\ n.flow.available + n.inFlight \in 0 .. MaxWindow
      /\ MaxChanges[Context.i] = 0 => n.local = NoId
  BY <1>2, <1>3, <1>5 DEF Window
<1> HIDE DEF n
<1>9. Sound(Context, n, {}, 0) /\ Steady(Context, me, n, {})
  BY <1>4, <1>5, <1>7, <1>8, Before, AsideQuiet
<1>10. QED BY <1>1, <1>2, <1>9, QuietStep

\* What the application asks for that it sees nothing of.
LEMMA AskedQuiet ==
  ASSUME IInv, NEW n, Asked(n), UNCHANGED app, Sound(Context, n, {}, 0), Steady(Context, me, n, {})
  PROVE  IInv'
<1>1. me' = n /\ UNCHANGED <<instance, end, peer, app>> /\ changes' = changes BY DEF Asked
<1>2. changes' \in 0 .. MaxChanges[instance] BY <1>1 DEF IInv
<1>3. QED BY <1>1, <1>2, QuietStep

\* FlowControl::release_capacity.
LEMMA ReleaseStep ==
  ASSUME IInv, NEW k \in Ids, NEW n \in 1 .. MaxBytes[instance], Release(k, n)
  PROVE  IInv'
<1> DEFINE o == ReleaseCapacity(me, k, n)
<1>1. MaxBytes[instance] \in Nat BY Before, RecvAssumption
<1>2. n \in Nat BY <1>1
<1>3. k \in Slab(me) /\ me.store[k].handles # {} /\ n <= me.store[k].inFlight /\ Asked(o) /\ UNCHANGED app
  BY DEF Release
<1>4. Sound(Context, o, {}, 0) /\ Steady(Context, me, o, {}) BY <1>2, <1>3, Before, ReleaseCapacitySound
<1> HIDE DEF o
<1>5. QED BY <1>3, <1>4, AskedQuiet

\* StreamRef::send_reset.
LEMMA ResetByUserStep ==
  ASSUME IInv, Careful, NEW k \in Ids, k \in Resettable[instance], ResetByUser(k)
  PROVE  IInv'
<1> DEFINE n == TransitionAfter(Hang(me, k), k, Queued(me.expiring, k))
           none == {}
           z == 0
<1>1. k \in Slab(me) /\ Asked(n) /\ UNCHANGED app BY DEF ResetByUser, Held, Transition, Hang
<1>2. Sound(Context, me, none, z) /\ z \in Int /\ none \subseteq {k} BY Before
<1>3. Fine(Context, me.initWindow, k, me.store[k], Marks(me, k)) /\ Settled(Context, me.store[k], Marks(me, k))
  BY <1>1, Before DEF Sound
<1>4. Fit(Context, me.store[k], Marks(me, k)) BY <1>3, ReadyFit
<1>5. me.store[k].promises = <<>>
  <2>1. me.store[k].promises # <<>> => k = Parent /\ instance \notin Servers BY <1>3, Before DEF Fine
  <2>2. instance \notin Servers => Parent \notin Resettable[instance] BY Before DEF Careful, CarefulIn
  <2>3. QED BY <2>1, <2>2
<1> HIDE DEF none, z
<1>6. Sound(Context, n, {}, z) /\ Steady(Context, me, n, {}) BY <1>1, <1>2, <1>4, <1>5, Before, HangSettles
<1> HIDE DEF n
<1>7. QED BY <1>1, <1>6, AskedQuiet DEF z

-----------------------------------------------------------------------------
(* The application reads.                                                    *)

\* What the application has seen may change, and what it waits for.
LEMMA AppStep ==
  ASSUME IInv, NEW n, Asked(n), Context' \in Contexts, Sound(Context', n, {}, 0),
         Steady(Context, me, n, {}), app' \in Apps, \A k \in Ids : app[k].message => app'[k].message
  PROVE  IInv'
<1>1. me' = n /\ UNCHANGED <<instance, end, peer>> /\ changes' = changes BY DEF Asked
<1>2. Ids' = Ids /\ Context'.i = instance /\ Context.i = instance /\ Context'.end = end /\ Context.end = end
  BY <1>1 DEF Ids, Context
<1>3. Context'.await \subseteq Context.await
  <2>1. Context'.await = {k \in Ids : ~app'[k].message} BY <1>2 DEF Context
  <2>2. QED BY <2>1, Before
<1>4. Later(Context, Context') BY <1>2, <1>3, Before DEF Later, Strict
<1>5. peer' \in Peer' /\ app' \in Apps' BY <1>1, <1>2, Before DEF Peer, Apps
<1>6. me \in Locked(Context.i) /\ n \in Locked(Context.i) BY <1>2, Before DEF Sound
<1>7. end' = "open" => Agree(instance, n, peer') BY <1>1, <1>6, Before, SteadyAgree
<1>8. changes' \in 0 .. MaxChanges[instance] BY <1>1 DEF IInv
<1>9. QED BY <1>1, <1>4, <1>5, <1>7, <1>8, Afterwards

\* In such a step the context is one that knows less.
LEMMA AppContext ==
  ASSUME IInv, NEW n, Asked(n), app' \in Apps, \A k \in Ids : app[k].message => app'[k].message
  PROVE  /\ Context' \in Contexts /\ Context'.i = instance /\ Later(Context, Context')
         /\ Sound(Context', me, {}, 0) /\ Context'.await = {k \in Ids : ~app'[k].message}
<1>1. UNCHANGED <<instance, end>> BY DEF Asked
<1>2. /\ Ids' = Ids /\ Context' = [i |-> instance, end |-> end, await |-> {k \in Ids : ~app'[k].message}]
      /\ Context = [i |-> instance, end |-> end, await |-> {k \in Ids : ~app[k].message}]
  BY <1>1 DEF Ids, Context
<1>3. Context'.await \subseteq Context.await BY <1>2
<1>4. Context' \in Contexts
  <2>1. Context \in Contexts BY Before
  <2>2. {k \in Ids : ~app'[k].message} \subseteq Nat BY <1>2, <1>3, <2>1 DEF Contexts
  <2>3. QED BY <1>2, <2>1, <2>2 DEF Contexts
<1>5. Later(Context, Context') BY <1>2, <1>3, <1>4, Before DEF Later, Strict
<1>6. QED BY <1>2, <1>4, <1>5, Before, LaterSound

\* One entry changes, and only the application sees it.
LEMMA EntrySound ==
  ASSUME NEW c \in Contexts, NEW m, Sound(c, m, {}, 0), NEW s \in Slab(m), NEW r \in Streams,
         r.promises = m.store[s].promises, r.counted = m.store[s].counted,
         r.inFlight = m.store[s].inFlight, Fine(c, m.initWindow, s, r, Marks(m, s)),
         Settled(c, r, Marks(m, s)), Follows(c, m.store[s], r)
  PROVE  Sound(c, Sets(m, s, r), {}, 0) /\ Steady(c, m, Sets(m, s, r), {})
<1> DEFINE n == Put(m, s, r, NoQueue, m.woken)
           none == {}
           z == 0
<1>1. m \in Locked(c.i) /\ m.woken \in BOOLEAN /\ Sound(c, m, none, z) /\ z \in Int BY DEF Sound, Locked
<1>2. Marks(m, s) \cup NoQueue = Marks(m, s) /\ NoQueue \in SUBSET Pushable BY DEF NoQueue
<1>3. Sets(m, s, r) = n BY <1>1, StorePuts
<1> HIDE DEF none, z
<1>4. PutTo(c, m, n, s, r, NoQueue, none, z) BY <1>1, <1>2, PutSteady
<1> HIDE DEF n
<1>5. none \ {s} = none BY DEF none
<1>6. QED BY <1>2, <1>3, <1>4, <1>5 DEF PutTo, none, z

\* A reader takes events from the entry it holds, or a handle more.
Drawn(a, b) == b \in Streams /\ b.handles # {} /\ b = [a EXCEPT !.events = b.events, !.handles = b.handles]

\* The entry of a handle from which something was taken.
LEMMA DrawnFine ==
  ASSUME NEW c, NEW init, NEW k, NEW w, NEW a \in Streams, NEW b, Drawn(a, b), k \notin c.await,
         Fine(c, init, k, a, w), w \cap {"accept", "pledged"} = {}
  PROVE  /\ Fine(c, init, k, b, w) /\ Follows(c, a, b)
         /\ (Keeps(a, w) /\ a.state # Idle => Settled(c, b, w))
         /\ b.promises = a.promises /\ b.counted = a.counted /\ b.inFlight = a.inFlight
<1>1. /\ b.state = a.state /\ b.flow = a.flow /\ b.counted = a.counted /\ b.out = a.out
      /\ b.promises = a.promises /\ b.inFlight = a.inFlight /\ b.handles # {}
  BY DEF Drawn, Streams
<1>2. "accept" \notin w /\ "pledged" \notin w OBVIOUS
<1>3. Fine(c, init, k, b, w) BY <1>1, <1>2 DEF Fine, Live
<1>4. Follows(c, a, b) BY <1>1 DEF Follows
<1>5. Keeps(a, w) /\ a.state # Idle => Settled(c, b, w) BY <1>1 DEF Settled, Ready, Owned, Keeps, Released
<1>6. QED BY <1>1, <1>3, <1>4, <1>5

\* Taking it keeps the record sound.
LEMMA DrawnSound ==
  ASSUME NEW c \in Contexts, NEW m, Sound(c, m, {}, 0), NEW s \in Slab(m), s \notin c.await,
         m.store[s].handles # {}, NEW r, Drawn(m.store[s], r)
  PROVE  Sound(c, Sets(m, s, r), {}, 0) /\ Steady(c, m, Sets(m, s, r), {})
<1> DEFINE st == m.store[s]
           w == Marks(m, s)
<1>1. st \in Streams /\ Fine(c, m.initWindow, s, st, w) /\ Settled(c, st, w) BY StreamTyped DEF Sound
<1>2. w \cap {"accept", "pledged"} = {} BY <1>1 DEF Fine
<1>3. Keeps(st, w) /\ st.state # Idle /\ r \in Streams BY <1>1 DEF Settled, Ready, Drawn
<1> HIDE DEF w
<1>4. /\ Fine(c, m.initWindow, s, r, w) /\ Follows(c, st, r) /\ Settled(c, r, w)
      /\ r.promises = st.promises /\ r.counted = st.counted /\ r.inFlight = st.inFlight
  BY <1>1, <1>2, <1>3, DrawnFine
<1>5. QED BY <1>3, <1>4, EntrySound DEF w

\* Fewer events, from an entry whose body is read.
LEMMA BodyDrawn ==
  ASSUME NEW c \in Contexts, NEW m, Sound(c, m, {}, 0), NEW s \in Slab(m), "body" \in m.store[s].handles,
         NEW e \in Seq(Events), NEW h \in SUBSET {"body", "emptied", "other"}, h # {}
  PROVE  LET n == Sets(m, s, [m.store[s] EXCEPT !.events = e, !.handles = h])
         IN  Sound(c, n, {}, 0) /\ Steady(c, m, n, {})
<1> DEFINE st == m.store[s]
           r == [st EXCEPT !.events = e, !.handles = h]
<1>1. st \in Streams /\ Fine(c, m.initWindow, s, st, Marks(m, s)) BY StreamTyped DEF Sound
<1>2. s \notin c.await BY <1>1 DEF Fine
<1>3. r \in Streams /\ r.events = e /\ r.handles = h BY <1>1 DEF Streams
<1>4. Drawn(st, r) BY <1>1, <1>3 DEF Drawn, Streams
<1> HIDE DEF r
<1>5. st.handles # {} OBVIOUS
<1>6. QED BY <1>2, <1>4, <1>5, DrawnSound DEF r

\* The record of an event queue that loses its first event.
LEMMA TailDrawn ==
  ASSUME NEW c \in Contexts, NEW m \in Locked(c.i), NEW s \in Slab(m), m.store[s].events # <<>>
  PROVE  LET st == m.store[s]
         IN  /\ [m EXCEPT !.store[s].events = Tail(@)]
                  = Sets(m, s, [st EXCEPT !.events = Tail(st.events), !.handles = st.handles])
             /\ Tail(st.events) \in Seq(Events) /\ st.handles \in SUBSET {"body", "emptied", "other"}
             /\ Head(st.events) \in Events /\ Head(st.events) = st.events[1]
<1> DEFINE st == m.store[s]
<1>1. st \in Streams BY StreamTyped
<1>2. st.events \in Seq(Events) /\ st.handles \in SUBSET {"body", "emptied", "other"} BY <1>1 DEF Streams
<1>3. [m EXCEPT !.store[s].events = Tail(@)] = Sets(m, s, [st EXCEPT !.events = Tail(@)])
  BY DEF Sets, Stored
<1>4. [st EXCEPT !.events = Tail(@)] = [st EXCEPT !.events = Tail(st.events), !.handles = st.handles]
  BY <1>1 DEF Streams
<1>5. Tail(st.events) \in Seq(Events) /\ Head(st.events) \in Events /\ Head(st.events) = st.events[1]
  BY <1>2
<1>6. QED BY <1>2, <1>3, <1>4, <1>5

\* Somebody waits, or has been told.
LEMMA TaskQuiet ==
  ASSUME NEW c \in Contexts, NEW m, Sound(c, m, {}, 0), NEW s \in Slab(m),
         NEW x \in {"none", "message", "pushes"}
  PROVE  LET n == [m EXCEPT !.store[s].task = x]
         IN  Sound(c, n, {}, 0) /\ Steady(c, m, n, {})
<1> DEFINE none == {}
           z == 0
           n == [m EXCEPT !.store[s].task = x]
<1>1. Sound(c, m, none, z) /\ z \in Int OBVIOUS
<1> HIDE DEF none, z, n
<1>2. Hears(c, m, n, s, none, z) BY <1>1, TaskSound DEF n
<1>3. QED BY <1>2 DEF Hears, none, z, n

\* An operation that changes nothing.
LEMMA SameQuiet ==
  ASSUME NEW c \in Contexts, NEW m, Sound(c, m, {}, 0)
  PROVE  Steady(c, m, m, {})
BY SteadySelf DEF Sound

\* What is read of one stream.
LEMMA SeenStep ==
  ASSUME IInv, NEW n, Asked(n), Sound(Context, n, {}, 0), Steady(Context, me, n, {}), NEW k \in Ids,
         NEW r \in [message : BOOLEAN, read : Int, saw : {"nothing", "end", "error"}],
         r.message = app[k].message, app' = [app EXCEPT ![k] = r]
  PROVE  IInv'
<1>1. app' \in Apps /\ \A j \in Ids : app'[j].message = app[j].message BY Before DEF Apps
<1>2. Later(Context, Context') /\ Context' \in Contexts BY <1>1, AppContext DEF Later
<1>3. Sound(Context', n, {}, 0) BY <1>2, LaterSound
<1>4. QED BY <1>1, <1>2, <1>3, AppStep

\* RecvStream::poll_data.
LEMMA PollDataStep ==
  ASSUME IInv, NEW k \in Ids, PollData(k)
  PROVE  IInv'
<1> DEFINE st == me.store[k]
           tail == [me EXCEPT !.store[k].events = Tail(@)]
<1>1. k \in Slab(me) /\ "body" \in st.handles BY DEF PollData, Held
<1>2. /\ me \in Locked(Context.i) /\ Sound(Context, me, {}, 0) /\ Context \in Contexts
      /\ app \in Apps
  BY Before DEF Sound
<1>3. app[k] \in [message : BOOLEAN, read : Int, saw : {"nothing", "end", "error"}] BY <1>2 DEF Apps
<1>4. ASSUME NEW what \in {"nothing", "end", "error"}, NEW n, Asked(n), Saw(k, what),
             Sound(Context, n, {}, 0), Steady(Context, me, n, {})
      PROVE  IInv'
  <2> DEFINE r == [app[k] EXCEPT !.saw = what]
  <2>1. /\ r \in [message : BOOLEAN, read : Int, saw : {"nothing", "end", "error"}]
        /\ r.message = app[k].message
    BY <1>3
  <2>2. app' = [app EXCEPT ![k] = r] BY <1>4 DEF Saw
  <2> HIDE DEF r
  <2>3. QED BY <1>4, <2>1, <2>2, SeenStep
<1>5. CASE st.events # <<>> /\ Head(st.events).kind = "data"
  <2> DEFINE r == [app[k] EXCEPT !.read = @ + Head(st.events).n]
             e == Tail(st.events)
             h == st.handles
             n == Sets(me, k, [st EXCEPT !.events = e, !.handles = h])
  <2>1. Asked(tail) /\ app' = [app EXCEPT ![k] = r] BY <1>5 DEF PollData
  <2>2. tail = n /\ e \in Seq(Events) /\ h \in SUBSET {"body", "emptied", "other"} /\ Head(st.events) \in Events
    BY <1>1, <1>2, <1>5, TailDrawn
  <2>3. Head(st.events).n \in Int BY <2>2 DEF Events
  <2>4. /\ r \in [message : BOOLEAN, read : Int, saw : {"nothing", "end", "error"}]
        /\ r.message = app[k].message
    BY <1>3, <2>3
  <2>5. h # {} BY <1>1
  <2> HIDE DEF r, e, h
  <2>6. Sound(Context, n, {}, 0) /\ Steady(Context, me, n, {}) BY <1>1, <1>2, <2>2, <2>5, BodyDrawn
  <2> HIDE DEF n
  <2>7. QED BY <2>1, <2>2, <2>4, <2>6, SeenStep
<1>6. CASE st.events # <<>> /\ Head(st.events).kind # "data"
  <2> DEFINE n == Notify(me, k)
  <2>1. Asked(n) /\ Saw(k, "end") BY <1>6 DEF PollData
  <2>2. Sound(Context, n, {}, 0) /\ Steady(Context, me, n, {}) BY <1>1, <1>2, TaskQuiet DEF Notify
  <2> HIDE DEF n
  <2>3. QED BY <1>4, <2>1, <2>2
<1>7. CASE st.events = <<>> /\ EnsureRecvOpen(st.state) = "open"
  <2> DEFINE n == Waits(me, k, "message")
  <2>1. Asked(n) /\ UNCHANGED app BY <1>7 DEF PollData
  <2>2. Sound(Context, n, {}, 0) /\ Steady(Context, me, n, {}) BY <1>1, <1>2, TaskQuiet DEF Waits
  <2> HIDE DEF n
  <2>3. QED BY <2>1, <2>2, AskedQuiet
<1>8. CASE st.events = <<>> /\ EnsureRecvOpen(st.state) # "open"
  <2>1. Asked(me) /\ (Saw(k, "error") \/ Saw(k, "end")) BY <1>8 DEF PollData
  <2>2. Steady(Context, me, me, {}) BY <1>2, SameQuiet
  <2>3. QED BY <1>2, <1>4, <2>1, <2>2
<1>9. QED BY <1>5, <1>6, <1>7, <1>8

\* RecvStream::poll_trailers.
LEMMA PollTrailersStep ==
  ASSUME IInv, NEW k \in Ids, PollTrailers(k)
  PROVE  IInv'
<1> DEFINE st == me.store[k]
           tail == [me EXCEPT !.store[k].events = Tail(@)]
           e == Tail(st.events)
           h == st.handles
           n == Sets(me, k, [st EXCEPT !.events = e, !.handles = h])
<1>1. /\ k \in Slab(me) /\ "body" \in st.handles /\ st.events # <<>> /\ Asked(tail) /\ UNCHANGED app
  BY DEF PollTrailers, Held
<1>2. me \in Locked(Context.i) /\ Sound(Context, me, {}, 0) /\ Context \in Contexts BY Before DEF Sound
<1>3. tail = n /\ e \in Seq(Events) /\ h \in SUBSET {"body", "emptied", "other"}
  BY <1>1, <1>2, TailDrawn
<1>4. h # {} BY <1>1
<1> HIDE DEF e, h, tail
<1>5. Sound(Context, n, {}, 0) /\ Steady(Context, me, n, {}) BY <1>1, <1>2, <1>3, <1>4, BodyDrawn
<1> HIDE DEF n
<1>6. QED BY <1>1, <1>3, <1>5, AskedQuiet

\* A RecvStream that is dropped clears its buffer first.
LEMMA DropRecvStreamStep ==
  ASSUME IInv, NEW k \in Ids, DropRecvStream(k)
  PROVE  IInv'
<1> DEFINE st == me.store[k]
           e == <<>>
           h == (st.handles \ {"body"}) \cup {"emptied"}
           n == Sets(me, k, [st EXCEPT !.events = e, !.handles = h])
           o == [me EXCEPT !.store[k].events = <<>>, !.store[k].handles = (@ \ {"body"}) \cup {"emptied"}]
<1>1. k \in Slab(me) /\ "body" \in st.handles /\ Asked(o) /\ UNCHANGED app BY DEF DropRecvStream, Held
<1>2. me \in Locked(Context.i) /\ Sound(Context, me, {}, 0) /\ Context \in Contexts BY Before DEF Sound
<1>3. st \in Streams BY <1>1, <1>2, StreamTyped
<1>4. e \in Seq(Events) /\ h \in SUBSET {"body", "emptied", "other"} /\ h # {} BY <1>3 DEF Streams
<1>5. o = n
  <2>1. me.store \in [Slab(me) -> Streams] BY <1>2, StoreTyped DEF Locked, Slab
  <2>2. QED BY <1>1, <1>2, <2>1 DEF Sets, Stored, Locked, Streams
<1> HIDE DEF e, h, o
<1>6. Sound(Context, n, {}, 0) /\ Steady(Context, me, n, {}) BY <1>1, <1>2, <1>4, BodyDrawn
<1> HIDE DEF n
<1>7. QED BY <1>1, <1>5, <1>6, AskedQuiet

\* What is waited for comes: the message of the entry s is read.
MessageRead(s) == [app EXCEPT ![s].message = TRUE]

\* Once a message is read, the application does not wait for it.
LEMMA MessageContext ==
  ASSUME IInv, NEW n, Asked(n), NEW k \in Ids, app' = MessageRead(k)
  PROVE  /\ Context' \in Contexts /\ Context'.i = instance /\ Sound(Context', me, {}, 0)
         /\ k \notin Context'.await /\ app' \in Apps /\ \A j \in Ids : app[j].message => app'[j].message
<1>1. app \in Apps BY Before
<1>2. /\ app' \in Apps /\ app'[k].message /\ \A j \in Ids : app[j].message => app'[j].message
  BY <1>1 DEF Apps, MessageRead
<1>3. /\ Context' \in Contexts /\ Context'.i = instance /\ Sound(Context', me, {}, 0)
      /\ Context'.await = {j \in Ids : ~app'[j].message}
  BY <1>2, AppContext
<1>4. k \notin Context'.await BY <1>2, <1>3
<1>5. QED BY <1>2, <1>3, <1>4

\* ResponseFuture::poll.
LEMMA PollResponseStep ==
  ASSUME IInv, NEW k \in Ids, PollResponse(k)
  PROVE  IInv'
<1> DEFINE st == me.store[k]
           e == Tail(st.events)
           h == st.handles \cup {"body"}
           r == [st EXCEPT !.events = e, !.handles = h]
           n == Sets(me, k, r)
           o == [me EXCEPT !.store[k].events = Tail(@), !.store[k].handles = @ \cup {"body"}]
<1>1. k \in Slab(me) /\ "other" \in st.handles /\ ~app[k].message BY DEF PollResponse, Held
<1>2. me \in Locked(Context.i) /\ Sound(Context, me, {}, 0) /\ Context \in Contexts /\ app \in Apps
  BY Before DEF Sound
<1>3. st \in Streams /\ Fine(Context, me.initWindow, k, st, Marks(me, k))
  BY <1>1, <1>2, StreamTyped DEF Sound
<1>4. CASE st.events # <<>>
  <2>1. Asked(Check(o, Head(st.events).kind = "headers", "poll_response")) /\ app' = MessageRead(k)
    BY <1>4 DEF PollResponse, MessageRead
  <2>2. Head(st.events).kind = "headers"
    <3>1. k \in Context.await BY <1>1, Before
    <3>2. Awaits(st, 1) BY <1>3, <3>1 DEF Fine
    <3>3. st.events \in Seq(Events) BY <1>3 DEF Streams
    <3>4. ~(Len(st.events) < 1) BY <1>4, <3>3
    <3>5. Head(st.events) = st.events[1] BY <1>4, <3>3
    <3>6. QED BY <3>2, <3>4, <3>5 DEF Awaits
  <2>3. Asked(o) BY <2>1, <2>2 DEF Check
  <2>4. /\ Context' \in Contexts /\ Context'.i = instance /\ Sound(Context', me, {}, 0)
        /\ k \notin Context'.await /\ app' \in Apps /\ \A j \in Ids : app[j].message => app'[j].message
    BY <2>1, <2>3, MessageContext
  <2>5. e \in Seq(Events) /\ h \in SUBSET {"body", "emptied", "other"} /\ h # {}
    <3>1. st.events \in Seq(Events) /\ st.handles \in SUBSET {"body", "emptied", "other"} BY <1>3 DEF Streams
    <3>2. QED BY <1>4, <3>1
  <2>6. o = n
    <3>1. me.store \in [Slab(me) -> Streams] BY <1>2, StoreTyped DEF Locked, Slab
    <3>2. QED BY <1>1, <1>2, <3>1 DEF Sets, Stored, Locked, Streams
  <2> HIDE DEF e, h, o
  <2>7. Drawn(st, r)
    <3>1. r \in Streams /\ r.events = e /\ r.handles = h BY <1>3, <2>5 DEF Streams
    <3>2. QED BY <1>3, <2>5, <3>1 DEF Drawn, Streams
  <2>8. st.handles # {} BY <1>1
  <2> HIDE DEF r
  <2>9. Sound(Context', n, {}, 0) /\ Steady(Context', me, n, {})
    BY <1>1, <2>4, <2>7, <2>8, DrawnSound
  <2>10. Steady(Context, me, n, {}) BY <2>4, <2>9, Before DEF Steady, Follows
  <2> HIDE DEF n
  <2>11. QED BY <2>3, <2>4, <2>6, <2>9, <2>10, AppStep
<1>5. CASE st.events = <<>> /\ EnsureRecvOpen(st.state) = "error"
  <2> DEFINE a == [app[k] EXCEPT !.saw = "error"]
  <2>1. Asked(me) /\ app' = [app EXCEPT ![k] = a] BY <1>5 DEF PollResponse, Saw
  <2>2. app[k] \in [message : BOOLEAN, read : Int, saw : {"nothing", "end", "error"}] BY <1>2 DEF Apps
  <2>3. a \in [message : BOOLEAN, read : Int, saw : {"nothing", "end", "error"}] /\ a.message = app[k].message
    BY <2>2
  <2> HIDE DEF a
  <2>4. Steady(Context, me, me, {}) BY <1>2, SameQuiet
  <2>5. QED BY <1>2, <2>1, <2>3, <2>4, SeenStep
<1>6. CASE st.events = <<>> /\ EnsureRecvOpen(st.state) # "error"
  <2> DEFINE m == Waits(me, k, "message")
  <2>1. Asked(m) /\ UNCHANGED app BY <1>6 DEF PollResponse
  <2>2. Sound(Context, m, {}, 0) /\ Steady(Context, me, m, {}) BY <1>1, <1>2, TaskQuiet DEF Waits
  <2> HIDE DEF m
  <2>3. QED BY <2>1, <2>2, AskedQuiet
<1>7. QED BY <1>4, <1>5, <1>6

\* poll_accept: the first of the requests is taken and gets its handles.
Accepted(m, o, k, r) ==
  /\ m.accept # <<>> /\ k = Head(m.accept) /\ o = [m EXCEPT !.accept = Tail(@)]
  /\ r = [m.store[k] EXCEPT !.handles = {"body", "other"}, !.events = Tail(@)]

\* The request at the head of those to accept.
LEMMA AcceptIs ==
  ASSUME NEW c \in Contexts, NEW m, Sound(c, m, {}, 0), NEW o, NEW k, NEW r, Accepted(m, o, k, r)
  PROVE  /\ k \in Slab(m) /\ k \in IdsOf(c.i) /\ HeadersFirst(m.store[k]) /\ m.store[k].handles = {}
         /\ Took(c, m, o, {}, k, {"accept"}, 0) /\ o.store = m.store /\ o.initWindow = m.initWindow
         /\ Steady(c, m, o, {}) /\ o.woken = m.woken /\ o \in Locked(c.i)
<1> DEFINE P == {"accept"}
           none == {}
           z == 0
<1>1. m \in Locked(c.i) /\ Queues(m) /\ Sound(c, m, none, z) BY DEF Sound
<1>2. m.accept \in Seq(Int) /\ m.nextId \in Nat BY <1>1 DEF Locked
<1>3. Tail(m.accept) \in Seq(Int) BY <1>2 DEF Accepted
<1>4. o \in Locked(c.i) BY <1>1, <1>3 DEF Locked, Accepted
<1>5. /\ o.store = m.store /\ o.ids = m.ids /\ o.accept = Tail(m.accept) /\ o.updates = m.updates
      /\ o.expiring = m.expiring /\ o.sending = m.sending /\ o.initWindow = m.initWindow
      /\ o.numRecv = m.numRecv /\ o.numReset = m.numReset /\ o.lost = m.lost /\ o.nextId = m.nextId
      /\ o.flow = m.flow /\ o.inFlight = m.inFlight /\ o.local = m.local /\ o.err = m.err
      /\ o.refused = m.refused /\ o.woken = m.woken
  BY <1>1 DEF Locked, Accepted
<1>6. m.accept # <<>> /\ Head(m.accept) = k BY DEF Accepted
<1>7. "accept" \in P /\ "updates" \notin P /\ "expiring" \notin P /\ "sending" \notin P
      /\ P \subseteq {"accept", "updates", "expiring", "sending"}
  OBVIOUS
<1> HIDE DEF P, none, z
<1>8. Takes(m, o, k, P) BY <1>5, <1>6, <1>7 DEF Takes, First, Pop
<1>9. Took(c, m, o, none, k, P, z) BY <1>1, <1>4, <1>7, <1>8, TakesSound
<1>10. k \in Slab(m) BY <1>9 DEF Took
<1>11. "accept" \in Marks(m, k)
  <2>1. Queued(m.accept, k)
    <3>1. IsQueue(m.accept, Slab(m)) BY <1>1 DEF Queues
    <3>2. QED BY <1>6, <3>1, QueueTail
  <2>2. QED BY <2>1, MarksAre
<1>12. Fine(c, m.initWindow, k, m.store[k], Marks(m, k)) BY <1>10 DEF Sound
<1>13. HeadersFirst(m.store[k]) /\ m.store[k].handles = {} /\ k \in Nat BY <1>11, <1>12 DEF Fine
<1>14. k \in IdsOf(c.i)
  <2>1. k \in KeysOf(c.i) BY <1>1, <1>10, StreamTyped
  <2>2. c.i \in Instances BY DEF Contexts
  <2>3. QED BY <1>13, <2>1, <2>2, IdsAre
<1>15. Steady(c, m, o, none)
  <2>1. Linking(m) /\ Linking(o) BY <1>9 DEF Took, Sound
  <2>2. /\ DOMAIN o.ids \subseteq DOMAIN m.ids /\ \A t \in DOMAIN o.ids : o.ids[t] = m.ids[t]
        /\ \A j \in Slab(o) : j \in Slab(m) /\ SameBut(m.store[j], o.store[j])
    BY <1>5 DEF SameBut, Slab
  <2>3. o.numRecv <= m.numRecv BY <1>1, <1>5 DEF Locked
  <2>4. QED BY <1>1, <1>4, <1>5, <2>1, <2>2, <2>3, SameSteady
<1>16. QED BY <1>4, <1>5, <1>9, <1>10, <1>13, <1>14, <1>15 DEF P, none, z

\* It gets its handles, and its message is taken.
LEMMA AcceptSound ==
  ASSUME NEW c \in Contexts, NEW m, Sound(c, m, {}, 0), NEW o, NEW k, NEW r, Accepted(m, o, k, r),
         k \notin c.await
  PROVE  Sound(c, Sets(o, k, r), {}, 0) /\ Steady(c, m, Sets(o, k, r), {})
<1> DEFINE none == {}
           z == 0
           st == m.store[k]
           n == Put(o, k, r, NoQueue, o.woken)
           w == Marks(o, k)
           one == none \cup {k}
<1>1. /\ k \in Slab(m) /\ HeadersFirst(st) /\ st.handles = {}
      /\ Took(c, m, o, none, k, {"accept"}, z) /\ o.store = m.store /\ o.initWindow = m.initWindow
      /\ Steady(c, m, o, none) /\ o.woken = m.woken /\ o \in Locked(c.i)
  BY AcceptIs
<1>2. m \in Locked(c.i) /\ z \in Int /\ o.woken \in BOOLEAN BY <1>1 DEF Sound, Locked
<1>3. /\ Sound(c, o, one, z) /\ k \in Slab(o) /\ w = Marks(m, k) \ {"accept"}
  BY <1>1 DEF Took
<1>4. st \in Streams /\ o.store[k] = st BY <1>1, <1>2, StreamTyped
<1>5. st.events \in Seq(Events) /\ st.events # <<>> BY <1>1, <1>4 DEF Streams, HeadersFirst
<1>6. /\ r \in Streams /\ r.handles = {"body", "other"} /\ r.state = st.state /\ r.counted = st.counted
      /\ r.promises = st.promises /\ r.inFlight = st.inFlight /\ r.flow = st.flow
      /\ r = [st EXCEPT !.events = r.events, !.handles = r.handles]
  <2> DEFINE e == Tail(st.events)
             h == {"body", "other"}
  <2>1. e \in Seq(Events) /\ h \in SUBSET {"body", "emptied", "other"} BY <1>5
  <2>2. r = [st EXCEPT !.handles = h, !.events = e] BY DEF Accepted
  <2>3. h = {"body", "other"} OBVIOUS
  <2> HIDE DEF e, h
  <2>4. QED BY <1>4, <2>1, <2>2, <2>3 DEF Streams
<1>7. Drawn(st, r) BY <1>6 DEF Drawn
<1>8. Fine(c, m.initWindow, k, st, w) /\ Fine(c, m.initWindow, k, st, Marks(m, k))
  BY <1>1, <1>3, <1>4 DEF Sound
<1>9. w \cap {"accept", "pledged"} = {}
  <2>1. "accept" \in Marks(m, k)
    <3>1. IsQueue(m.accept, Slab(m)) /\ m.accept # <<>> /\ k = Head(m.accept) BY DEF Sound, Queues, Accepted
    <3>2. Queued(m.accept, k) BY <3>1, QueueTail
    <3>3. QED BY <3>2, MarksAre
  <2>2. c.i \in Servers BY <1>8, <2>1 DEF Fine
  <2>3. "pledged" \notin w BY <1>8, <2>2 DEF Fine
  <2>4. QED BY <1>3, <2>3
<1>10. Settled(c, st, Marks(m, k)) BY <1>1 DEF Sound
<1>11. Keeps(st, w) /\ st.state # Idle BY <1>1, <1>3, <1>10 DEF Settled, Ready, Keeps
<1> HIDE DEF w
<1>12. Fine(c, m.initWindow, k, r, w) /\ Follows(c, st, r) /\ Settled(c, r, w)
  BY <1>4, <1>7, <1>8, <1>9, <1>11, DrawnFine
<1>13. Sets(o, k, r) = n BY <1>1, StorePuts
<1>14. w \cup NoQueue = w /\ NoQueue \in SUBSET Pushable BY DEF NoQueue
<1> HIDE DEF none, z, st, one
<1>15. PutTo(c, o, n, k, r, NoQueue, one, z)
  <2>1. Fine(c, o.initWindow, k, r, w \cup NoQueue) BY <1>1, <1>12, <1>14
  <2>2. r.promises = o.store[k].promises /\ r.counted = o.store[k].counted /\ r.inFlight = o.store[k].inFlight
    BY <1>4, <1>6
  <2>3. QED BY <1>2, <1>3, <1>6, <1>14, <2>1, <2>2, PutSteady DEF w
<1> HIDE DEF n
<1>16. one \ {k} = none BY DEF one, none
<1>17. Sound(c, n, none, z) /\ Steady(c, o, n, none)
  BY <1>4, <1>12, <1>14, <1>15, <1>16 DEF PutTo, w, none
<1>18. n \in Locked(c.i) BY <1>17 DEF Sound
<1>19. Steady(c, m, n, none) BY <1>1, <1>2, <1>17, <1>18, SteadyTwice
<1>20. QED BY <1>13, <1>17, <1>19 DEF none, z

\* Connection::poll_accept.
LEMMA AcceptStep ==
  ASSUME IInv, Accept
  PROVE  IInv'
<1> DEFINE k == Head(me.accept)
           st == me.store[k]
           o == [me EXCEPT !.accept = Tail(@)]
           r == [st EXCEPT !.handles = {"body", "other"}, !.events = Tail(@)]
           n == Sets(o, k, r)
           q == [me EXCEPT !.accept = Tail(@), !.store[k].handles = {"body", "other"},
                           !.store[k].events = Tail(@)]
<1>1. /\ me.accept # <<>> /\ app' = MessageRead(k)
      /\ Asked(Check(q, st.events # <<>> /\ Head(st.events).kind = "headers", "take_request"))
  BY DEF Accept, MessageRead
<1>2. Accepted(me, o, k, r) BY <1>1 DEF Accepted
<1>3. me \in Locked(Context.i) /\ Sound(Context, me, {}, 0) /\ Context \in Contexts BY Before DEF Sound
<1>4. k \in Slab(me) /\ k \in IdsOf(instance) /\ HeadersFirst(st)
  <2> HIDE DEF k, o, r
  <2>1. k \in Slab(me) /\ k \in IdsOf(Context.i) /\ HeadersFirst(me.store[k]) BY <1>2, <1>3, AcceptIs
  <2>2. QED BY <2>1, Before
<1>5. st \in Streams BY <1>3, <1>4, StreamTyped
<1>6. st.events # <<>> /\ Head(st.events).kind = "headers"
  BY <1>4, <1>5 DEF HeadersFirst, Streams
<1>7. q = n
  <2> DEFINE h == {"body", "other"}
             a == [o.store[k] EXCEPT !.handles = h]
             x == [o EXCEPT !.store[k].handles = h]
             y == [x EXCEPT !.store[k].events = Tail(@)]
             b == [a EXCEPT !.events = Tail(@)]
  <2>1. o.store = me.store /\ Slab(o) = Slab(me) /\ o \in Locked(Context.i)
    <3>1. Tail(me.accept) \in Seq(Int) BY <1>1, <1>3 DEF Locked
    <3>2. QED BY <1>3, <3>1 DEF Slab, Locked
  <2>2. q = y OBVIOUS
  <2>3. b = r BY <2>1
  <2>4. x = Sets(o, k, a) BY DEF Sets, Stored
  <2>5. y = Sets(x, k, [x.store[k] EXCEPT !.events = Tail(@)]) BY DEF Sets, Stored
  <2> HIDE DEF o, k, a, x, h
  <2>6. x.store[k] = a /\ Sets(x, k, b) = Sets(o, k, b) BY <1>3, <1>4, <2>1, <2>4, StoredTwice
  <2>7. QED BY <2>2, <2>3, <2>5, <2>6
<1>8. Asked(n) BY <1>1, <1>6, <1>7 DEF Check
<1> HIDE DEF k, o, r, q, n
<1>9. k \in Ids BY <1>4, Before
<1>10. /\ Context' \in Contexts /\ Context'.i = instance /\ Sound(Context', me, {}, 0)
       /\ k \notin Context'.await /\ app' \in Apps /\ \A j \in Ids : app[j].message => app'[j].message
  BY <1>1, <1>8, <1>9, MessageContext
<1>11. Sound(Context', n, {}, 0) /\ Steady(Context', me, n, {}) BY <1>2, <1>10, AcceptSound DEF n
<1>12. Steady(Context, me, n, {}) BY <1>10, <1>11, Before DEF Steady, Follows
<1>13. QED BY <1>8, <1>10, <1>11, <1>12, AppStep

-----------------------------------------------------------------------------
(* The application answers.                                                  *)

\* A change of one entry, and transition_after.
Closes(c, m, n, o, s, r, loose) ==
  /\ Settles(c, n, o, s, {s}, loose) /\ Sound(c, o, {}, loose)
  /\ Follows(c, m.store[s], r) => Steady(c, m, o, {})
  /\ Steady(c, m, o, {IdOf(s)})
  /\ s \in Slab(o) => SameBut(r, o.store[s])
  /\ \A t \in DOMAIN o.ids : t \in DOMAIN m.ids /\ o.ids[t] = m.ids[t]

\* An entry is replaced and transition_after follows.
LEMMA PutSettles ==
  ASSUME NEW c \in Contexts, NEW m \in Locked(c.i), NEW n, NEW s \in Slab(m), NEW r, NEW P, NEW X, NEW loose,
         PutTo(c, m, n, s, r, P, X, loose), X \subseteq {s}, Ready(c, r, Marks(m, s) \cup P)
  PROVE  Closes(c, m, n, TransitionAfter(n, s, Queued(m.expiring, s)), s, r, loose)
<1> DEFINE q == Queued(m.expiring, s)
           o == TransitionAfter(n, s, q)
           one == {s}
           none == {}
           w == Marks(m, s) \cup P
           ids == {IdOf(s)}
<1>1. X \cup {s} = one OBVIOUS
<1>2. /\ Sound(c, n, one, loose) /\ s \in Slab(n) /\ n.store[s] = r /\ Marks(n, s) = w
      /\ n.expiring = m.expiring /\ n.ids = m.ids
      /\ Follows(c, m.store[s], r) => Steady(c, m, n, none)
      /\ Steady(c, m, n, ids)
  BY <1>1 DEF PutTo
<1>3. q \in BOOLEAN /\ Queued(n.expiring, s) = q BY <1>2 DEF Queued, Contains
<1>4. MayExpire(n, s, q) BY <1>3 DEF MayExpire
<1>5. one \ {s} = none /\ none \subseteq ids OBVIOUS
<1>6. Ready(c, n.store[s], Marks(n, s)) BY <1>2
<1> HIDE DEF q, one, none, w, ids
<1>7. Settles(c, n, o, s, one, loose) BY <1>2, <1>3, <1>4, <1>6, TransitionSettles
<1> HIDE DEF o
<1>8. Sound(c, o, none, loose) /\ Steady(c, n, o, none) /\ Thins(n, o, Gone(n, s)) BY <1>5, <1>7 DEF Settles, none
<1>9. n \in Locked(c.i) /\ o \in Locked(c.i) BY <1>2, <1>8 DEF Sound
<1>10. Follows(c, m.store[s], r) => Steady(c, m, o, none) BY <1>2, <1>8, <1>9, SteadyTwice
<1>11. Steady(c, m, o, ids)
  <2>1. Steady(c, n, o, ids) BY <1>5, <1>8, SteadyMore
  <2>2. QED BY <1>2, <1>9, <2>1, SteadyTwice
<1>12. s \in Slab(o) => SameBut(r, o.store[s]) BY <1>2, <1>8 DEF Thins
<1>13. \A t \in DOMAIN o.ids : t \in DOMAIN m.ids /\ o.ids[t] = m.ids[t] BY <1>2, <1>8 DEF Thins
<1>14. QED BY <1>7, <1>8, <1>10, <1>11, <1>12, <1>13 DEF Closes, o, q, one, none, ids

\* The states in which a server's stream may be answered, and those after it.
LEMMA AnsweredStates ==
  ASSUME NEW i \in Servers, NEW x \in RoleStates(i), x # Idle, NEW eos \in BOOLEAN, NEW y,
         \/ CanSendOpen(x) /\ y = SendOpen(x, eos)
         \/ IsSendStreaming(x) /\ y = SendClose(x)
  PROVE  /\ ~IsClosed(x) /\ y \in RoleStates(i) /\ y \in States /\ y \notin {Idle, ReservedRemote}
         /\ ~IsReset(x) /\ (IsRecvStreaming(y) <=> IsRecvStreaming(x))
         /\ ~IsRecvHeaders(x) /\ ~IsRecvHeaders(y)
<1>1. /\ CanSendOpen(x) => x \in {HalfClosedRemote("AwaitingHeaders"), Open("AwaitingHeaders", "Streaming")}
      /\ IsSendStreaming(x) => x \in {HalfClosedRemote("Streaming"), Open("Streaming", "Streaming")}
  BY DEF CanSendOpen, IsSendStreaming, RoleStates, ServerStates, Peers, Causes, Open, HalfClosedLocal,
     HalfClosedRemote, Closed, Idle, ReservedLocal
<1>2. y \in {Closed("EndStream"), HalfClosedRemote("Streaming"), HalfClosedLocal("Streaming"),
             Open("Streaming", "Streaming")}
  BY <1>1 DEF SendOpen, SendClose, Open, HalfClosedLocal, HalfClosedRemote
<1>3. ~IsClosed(x) /\ ~IsReset(x) /\ ~IsRecvHeaders(x)
  BY <1>1 DEF IsClosed, IsReset, IsRecvHeaders, Open, HalfClosedLocal, HalfClosedRemote, Idle, ReservedRemote,
     Peers
<1>4. y \in RoleStates(i) /\ y \in States /\ y \notin {Idle, ReservedRemote} /\ ~IsRecvHeaders(y)
  BY <1>2 DEF RoleStates, ServerStates, States, Peers, Causes, IsRecvHeaders, Open, HalfClosedLocal,
     HalfClosedRemote, Closed, Idle, ReservedRemote
<1>5. IsRecvStreaming(y) <=> IsRecvStreaming(x)
  BY <1>1 DEF IsRecvStreaming, SendOpen, SendClose, Peers, Open, HalfClosedLocal, HalfClosedRemote, Closed
<1>6. QED BY <1>3, <1>4, <1>5

\* A frame of the answer is queued, with what it does to the state.
LEMMA AnswerSound ==
  ASSUME NEW c \in Contexts, c.i \in Servers, NEW m, Sound(c, m, {}, 0), NEW s \in Slab(m),
         m.store[s].handles # {}, NEW y, NEW eos \in BOOLEAN, NEW f \in OutFrames,
         \/ CanSendOpen(m.store[s].state) /\ y = SendOpen(m.store[s].state, eos)
         \/ IsSendStreaming(m.store[s].state) /\ y = SendClose(m.store[s].state)
  PROVE  LET n == TransitionAfter(QueueFrame([m EXCEPT !.store[s].state = y], s, f), s,
                                  Queued(m.expiring, s))
         IN  Sound(c, n, {}, 0) /\ Steady(c, m, n, {})
<1> DEFINE st == m.store[s]
           w == Marks(m, s)
           a == [st EXCEPT !.state = y]
           r == [st EXCEPT !.state = y, !.out = Append(st.out, f)]
           h == Sets(m, s, a)
           q == QueueFrame([m EXCEPT !.store[s].state = y], s, f)
           n == Put(m, s, r, SendQueue, TRUE)
           none == {}
           z == 0
           v == w \cup SendQueue
<1>1. /\ m \in Locked(c.i) /\ st \in Streams /\ Fine(c, m.initWindow, s, st, w) /\ Settled(c, st, w)
      /\ Sound(c, m, none, z) /\ z \in Int
  BY StreamTyped DEF Sound
<1>2. st.state \in RoleStates(c.i) /\ st.state # Idle BY <1>1 DEF Fine, Settled, Ready
<1>3. /\ ~IsClosed(st.state) /\ y \in RoleStates(c.i) /\ y \in States /\ y \notin {Idle, ReservedRemote}
      /\ ~IsReset(st.state) /\ (IsRecvStreaming(y) <=> IsRecvStreaming(st.state))
      /\ ~IsRecvHeaders(st.state) /\ ~IsRecvHeaders(y)
  BY <1>2, AnsweredStates
<1>4. /\ Append(st.out, f) \in Seq(OutFrames) /\ Append(st.out, f) # <<>>
  <2> DEFINE o == st.out
  <2>1. o \in Seq(OutFrames) BY <1>1 DEF Streams
  <2> HIDE DEF o, st
  <2>2. Append(o, f) \in Seq(OutFrames) /\ Len(Append(o, f)) = Len(o) + 1 BY <2>1
  <2>3. Len(o) \in Nat BY <2>1
  <2>4. Append(o, f) # <<>> BY <2>2, <2>3
  <2>5. QED BY <2>2, <2>4 DEF o
<1>5. /\ r \in Streams /\ r.state = y /\ r.out # <<>> /\ r.counted = st.counted /\ r.handles = st.handles
      /\ r.flow = st.flow /\ r.inFlight = st.inFlight /\ r.events = st.events /\ r.promises = st.promises
  <2> DEFINE x == Append(st.out, f)
  <2>1. r = [st EXCEPT !.state = y, !.out = x] OBVIOUS
  <2> HIDE DEF x, r
  <2>2. QED BY <1>1, <1>3, <1>4, <2>1 DEF Streams, x
<1>6. q = n
  <2>1. [m EXCEPT !.store[s].state = y] = h BY DEF Sets, Stored
  <2>2. h.store[s] = a /\ Sets(h, s, r) = Sets(m, s, r) BY <1>1, StoredTwice
  <2>3. [a EXCEPT !.out = Append(@, f)] = r
    <3>1. a.out = st.out BY <1>1 DEF Streams
    <3>2. QED BY <1>1, <3>1 DEF Streams
  <2>4. [h EXCEPT !.store[s].out = Append(@, f)] = Sets(h, s, [h.store[s] EXCEPT !.out = Append(@, f)])
    BY DEF Sets, Stored
  <2>5. q = ScheduleSend([h EXCEPT !.store[s].out = Append(@, f)], s) BY <2>1 DEF QueueFrame
  <2> HIDE DEF h, a, r
  <2>6. q = ScheduleSend(Sets(m, s, r), s) BY <2>2, <2>3, <2>4, <2>5
  <2>7. QED BY <1>1, <2>6, SchedulePut
<1> HIDE DEF r, q
<1>7. /\ SendQueue \in SUBSET Pushable
      /\ \A x : x # "sending" => (x \in v <=> x \in w)
  BY DEF SendQueue, Pushable
<1>8. /\ "current" \in v <=> "current" \in w
      /\ "alone" \in v <=> "alone" \in w
      /\ "accept" \in v <=> "accept" \in w
      /\ "pledged" \in v <=> "pledged" \in w
      /\ "expiring" \in v <=> "expiring" \in w
  BY <1>7
<1> HIDE DEF v, st, w
<1>9. "expiring" \notin w /\ s \in Nat BY <1>1, <1>2, <1>3 DEF Fine
<1>10. Fine(c, m.initWindow, s, r, v)
  <2>1. Live(st) BY <1>2, <1>3 DEF Live
  <2>2. QED BY <1>1, <1>3, <1>5, <1>8, <1>9, <2>1 DEF Fine, Live, Awaits, HeadersFirst
<1>11. Ready(c, r, v)
  <2>1. st.promises = <<>> BY <1>1 DEF Fine
  <2>2. r.handles # {} /\ r.state # Idle BY <1>3, <1>5 DEF st
  <2>3. QED BY <1>5, <2>1, <2>2 DEF Ready, Owned, Keeps
<1>12. Follows(c, st, r) BY <1>3, <1>5 DEF Follows
<1> HIDE DEF none, z
<1>13. PutTo(c, m, n, s, r, SendQueue, none, z)
  BY <1>1, <1>5, <1>7, <1>10, PutSteady DEF st, v, w
<1>14. none \subseteq {s} BY DEF none
<1> HIDE DEF n
<1>15. Closes(c, m, n, TransitionAfter(n, s, Queued(m.expiring, s)), s, r, z)
  BY <1>1, <1>11, <1>13, <1>14, PutSettles DEF v, w
<1>16. QED BY <1>6, <1>12, <1>15 DEF Closes, st, z, q

\* SendResponse::send_response.
LEMMA SendResponseStep ==
  ASSUME IInv, NEW k \in Ids, NEW eos \in BOOLEAN, SendResponse(k, eos)
  PROVE  IInv'
<1> DEFINE y == SendOpen(me.store[k].state, eos)
           n == TransitionAfter(QueueFrame([me EXCEPT !.store[k].state = y], k, "HEADERS"), k,
                                Queued(me.expiring, k))
<1>1. /\ IsServer /\ k \in Slab(me) /\ me.store[k].handles # {} /\ CanSendOpen(me.store[k].state)
      /\ Asked(n) /\ UNCHANGED app
  BY DEF SendResponse, Held, Transition
<1>2. "HEADERS" \in OutFrames BY DEF OutFrames
<1>3. Context \in Contexts /\ Context.i \in Servers /\ Sound(Context, me, {}, 0) BY <1>1, Before
<1>4. Sound(Context, n, {}, 0) /\ Steady(Context, me, n, {}) BY <1>1, <1>2, <1>3, AnswerSound
<1> HIDE DEF n
<1>5. QED BY <1>1, <1>4, AskedQuiet

\* SendStream::send_data with END_STREAM.
LEMMA SendEndStep ==
  ASSUME IInv, NEW k \in Ids, SendEnd(k)
  PROVE  IInv'
<1> DEFINE y == SendClose(me.store[k].state)
           n == TransitionAfter(QueueFrame([me EXCEPT !.store[k].state = y], k, "DATA"), k,
                                Queued(me.expiring, k))
<1>1. /\ IsServer /\ k \in Slab(me) /\ me.store[k].handles # {} /\ IsSendStreaming(me.store[k].state)
      /\ Asked(n) /\ UNCHANGED app
  BY DEF SendEnd, Held, Transition
<1>2. "DATA" \in OutFrames BY DEF OutFrames
<1>3. Context \in Contexts /\ Context.i \in Servers /\ Sound(Context, me, {}, 0) BY <1>1, Before
<1>4. Sound(Context, n, {}, 0) /\ Steady(Context, me, n, {}) BY <1>1, <1>2, <1>3, AnswerSound
<1> HIDE DEF n
<1>5. QED BY <1>1, <1>4, AskedQuiet

-----------------------------------------------------------------------------
(* A stream leaves the head of a queue.                                      *)

\* The peer sees nothing of it.
Pops(c, m, o, s, P, X, loose) ==
  /\ Took(c, m, o, X, s, P, loose) /\ o \in Locked(c.i) /\ \A S : Steady(c, m, o, S)
  /\ o.store = m.store /\ o.ids = m.ids /\ o.initWindow = m.initWindow

\* Leaving a queue, with what the peer sees of it.
LEMMA TakesPops ==
  ASSUME NEW c \in Contexts, NEW m, NEW X, NEW loose, Sound(c, m, X, loose), NEW s,
         NEW o \in Locked(c.i), NEW P, Takes(m, o, s, P), NEW p \in P, o.err = m.err, o.refused = m.refused
  PROVE  Pops(c, m, o, s, P, X, loose)
<1>1. Took(c, m, o, X, s, P, loose) BY TakesSound
<1>2. m \in Locked(c.i) /\ Linking(m) /\ Linking(o) BY <1>1 DEF Took, Sound
<1>3. /\ o.store = m.store /\ o.ids = m.ids /\ o.initWindow = m.initWindow /\ o.nextId = m.nextId
      /\ o.flow = m.flow /\ o.numRecv = m.numRecv
  BY DEF Takes
<1>4. /\ DOMAIN o.ids \subseteq DOMAIN m.ids /\ \A t \in DOMAIN o.ids : o.ids[t] = m.ids[t]
      /\ \A j \in Slab(o) : j \in Slab(m) /\ SameBut(m.store[j], o.store[j])
  BY <1>3 DEF SameBut, Slab
<1>5. o.numRecv <= m.numRecv BY <1>2, <1>3 DEF Locked
<1>6. ASSUME NEW S PROVE Steady(c, m, o, S) BY <1>2, <1>3, <1>4, <1>5, SameSteady
<1>7. QED BY <1>1, <1>3, <1>6 DEF Pops

\* What it is ready for does not depend on these queues.
LEMMA TookReady ==
  ASSUME NEW c, NEW m, NEW o, NEW X, NEW s, NEW P, NEW loose, Took(c, m, o, X, s, P, loose),
         o.store = m.store, P \subseteq {"updates", "sending", "expiring"},
         Ready(c, m.store[s], Marks(m, s))
  PROVE  Ready(c, o.store[s], Marks(o, s))
<1> DEFINE v == Marks(m, s)
           w == v \ P
           st == m.store[s]
<1>1. Marks(o, s) = w BY DEF Took
<1>2. "accept" \in v => "accept" \in w BY DEF Took
<1>3. "pledged" \in v => "pledged" \in w BY DEF Took
<1>4. "expiring" \in w => "expiring" \in v BY DEF Took
<1>5. Ready(c, st, v) /\ st.state # Idle BY DEF Ready
<1> HIDE DEF v, w, st
<1>6. Ready(c, st, w) BY <1>2, <1>3, <1>4, <1>5 DEF Ready, Owned, Keeps
<1>7. QED BY <1>1, <1>6 DEF st

\* The first stream that waits for a window update.
LEMMA UpdatePops ==
  ASSUME NEW c \in Contexts, NEW m, NEW X, NEW loose, Sound(c, m, X, loose), m.updates # <<>>
  PROVE  LET o == [m EXCEPT !.updates = Tail(@)]
         IN  /\ Pops(c, m, o, Head(m.updates), {"updates"}, X, loose)
             /\ o.expiring = m.expiring /\ o.accept = m.accept /\ o.sending = m.sending
             /\ o.updates = Tail(m.updates)
<1> DEFINE P == {"updates"}
           k == Head(m.updates)
           o == [m EXCEPT !.updates = Tail(@)]
<1>1. m \in Locked(c.i) BY DEF Sound
<1>2. m.updates \in Seq(Int) BY <1>1 DEF Locked
<1>3. Tail(m.updates) \in Seq(Int) BY <1>2
<1>4. o \in Locked(c.i) BY <1>1, <1>3 DEF Locked
<1>5. /\ o.store = m.store /\ o.ids = m.ids /\ o.updates = Tail(m.updates) /\ o.accept = m.accept
      /\ o.expiring = m.expiring /\ o.sending = m.sending /\ o.initWindow = m.initWindow
      /\ o.numRecv = m.numRecv /\ o.numReset = m.numReset /\ o.lost = m.lost /\ o.nextId = m.nextId
      /\ o.flow = m.flow /\ o.inFlight = m.inFlight /\ o.local = m.local /\ o.err = m.err
      /\ o.refused = m.refused
  BY <1>1 DEF Locked
<1>6. "updates" \in P /\ "accept" \notin P /\ "expiring" \notin P /\ "sending" \notin P
      /\ P \subseteq {"accept", "updates", "expiring", "sending"}
  OBVIOUS
<1> HIDE DEF P, o, k
<1>7. Takes(m, o, k, P) BY <1>5, <1>6 DEF Takes, First, Pop, k
<1>8. Pops(c, m, o, k, P, X, loose) BY <1>4, <1>5, <1>6, <1>7, TakesPops
<1>9. QED BY <1>5, <1>8 DEF P, o, k

\* The window of a stream that is streaming grows by what is unclaimed.
Grown(st) == [st EXCEPT !.flow = Announced(@)]

\* The window of a stream whose body is being received grows within its bounds.
LEMMA GrownFine ==
  ASSUME NEW c \in Contexts, NEW init \in 0 .. MaxWindow, NEW k, NEW st \in Streams, NEW w,
         Fine(c, init, k, st, w), IsRecvStreaming(st.state), st.state \in RoleStates(c.i)
  PROVE  /\ Grown(st) \in Streams /\ Fine(c, init, k, Grown(st), w)
         /\ UnclaimedCapacity(st.flow) \in Int
         /\ CanIncWindow(st.flow, UnclaimedCapacity(st.flow))
         /\ Grown(st).flow.window = st.flow.window + UnclaimedCapacity(st.flow)
         /\ Grown(st).state = st.state /\ Grown(st).promises = st.promises
         /\ Grown(st).counted = st.counted /\ Grown(st).inFlight = st.inFlight
         /\ Grown(st).handles = st.handles
<1> DEFINE u == UnclaimedCapacity(st.flow)
           f == Announced(st.flow)
           r == [st EXCEPT !.flow = f]
<1>1. st.flow \in Flows /\ st.inFlight \in Nat /\ init \in Int /\ init <= MaxWindow /\ MaxWindow \in Int
  BY MaxWindowAssumption DEF Streams
<1>2. st.flow.available \in Int /\ st.flow.window \in Int BY <1>1 DEF Flows
<1>3. Live(st)
  BY DEF Live, IsRecvStreaming, Idle, IsClosed, Open, HalfClosedLocal
<1>4. st.flow.available + st.inFlight = init /\ st.flow.window <= init /\ {"current", "alone"} \subseteq w
  BY <1>3 DEF Fine
<1>5. u \in Int /\ u >= 0 /\ st.flow.window + u <= init
  BY <1>1, <1>2, <1>4 DEF UnclaimedCapacity
<1>6. CanIncWindow(st.flow, u) BY <1>1, <1>2, <1>5 DEF CanIncWindow
<1>7. f \in Flows /\ f.window = st.flow.window + u /\ f.available = st.flow.available
  BY <1>1, <1>2, <1>5 DEF Flows, Announced, IncWindow
<1> HIDE DEF f, u
<1>8. /\ r \in Streams /\ r.state = st.state /\ r.promises = st.promises /\ r.counted = st.counted
      /\ r.inFlight = st.inFlight /\ r.flow = f /\ r.out = st.out /\ r.handles = st.handles
      /\ r.events = st.events
  BY <1>7 DEF Streams
<1>9. f.window <= init /\ (st.flow.window >= 0 => f.window >= 0) BY <1>1, <1>2, <1>5, <1>7
<1>10. Grown(st) = r BY DEF Grown, f
<1> HIDE DEF r
<1>11. Fine(c, init, k, r, w)
  BY <1>4, <1>7, <1>8, <1>9 DEF Fine, Live, Awaits, HeadersFirst
<1>12. QED BY <1>5, <1>6, <1>7, <1>8, <1>10, <1>11 DEF u

\* One stream's update, and transition_after.
Updates(c, m, n, k) ==
  /\ k \in Slab(m) /\ Sound(c, n, {}, 0) /\ Steady(c, m, n, {IdOf(k)})
  /\ ~IsRecvStreaming(m.store[k].state) => Steady(c, m, n, {})
  /\ IsRecvStreaming(m.store[k].state) =>
       /\ UnclaimedCapacity(m.store[k].flow) \in Int
       /\ IdOf(k) \in DOMAIN m.ids /\ m.ids[IdOf(k)] = k
       /\ k \in Slab(n) => SameBut(Grown(m.store[k]), n.store[k])
       /\ \A t \in DOMAIN n.ids : t \in DOMAIN m.ids /\ n.ids[t] = m.ids[t]
       /\ Grown(m.store[k]).flow.window = m.store[k].flow.window + UnclaimedCapacity(m.store[k].flow)
       /\ Grown(m.store[k]).state = m.store[k].state /\ Grown(m.store[k]) \in Streams

\* One round of send_stream_window_updates keeps the record sound.
LEMMA UpdateSound ==
  ASSUME NEW c \in Contexts, NEW m, Sound(c, m, {}, 0), m.updates # <<>>
  PROVE  Updates(c, m, StreamUpdate(m, Head(m.updates)), Head(m.updates))
<1> DEFINE k == Head(m.updates)
           o == [m EXCEPT !.updates = Tail(@)]
           P == {"updates"}
           none == {}
           z == 0
           st == m.store[k]
           r == Grown(st)
           e == Queued(o.expiring, k)
           S(n) == TransitionAfter(n, k, e)
           n == StreamUpdate(m, k)
           ids == {IdOf(k)}
           one == none \cup {k}
<1>1. Pops(c, m, o, k, P, none, z) /\ o.expiring = m.expiring /\ z \in Int BY UpdatePops
<1>2. /\ k \in Slab(m) /\ Sound(c, o, one, z) /\ Slab(o) = Slab(m) /\ o.store = m.store /\ o \in Locked(c.i)
      /\ o.ids = m.ids /\ Steady(c, m, o, none) /\ Steady(c, m, o, ids) /\ Took(c, m, o, none, k, P, z)
  BY <1>1 DEF Pops, Took
<1>3. m \in Locked(c.i) /\ Settled(c, m.store[k], Marks(m, k)) BY <1>2 DEF Sound
<1>4. Ready(c, o.store[k], Marks(o, k))
  <2>1. Ready(c, m.store[k], Marks(m, k)) BY <1>3, ReadyFit
  <2>2. P \subseteq {"updates", "sending", "expiring"} OBVIOUS
  <2> HIDE DEF P, o, k, none, z
  <2>3. QED BY <1>2, <2>1, <2>2, TookReady
<1>5. n = S(IF IsRecvStreaming(o.store[k].state)
            THEN Check([o EXCEPT !.store[k].flow = Announced(@)],
                   CanIncWindow(o.store[k].flow, UnclaimedCapacity(o.store[k].flow)), "inc_window: stream")
            ELSE o)
  BY DEF StreamUpdate, Transition
<1>6. one = {k} /\ one \subseteq {k} /\ one \ {k} = none /\ none \subseteq ids OBVIOUS
<1> HIDE DEF n, ids, one, z, none, o, P, k
<1>7. CASE ~IsRecvStreaming(st.state)
  <2>1. n = S(o) BY <1>2, <1>5, <1>7
  <2>2. e \in BOOLEAN /\ MayExpire(o, k, e)
    <3>1. e \in BOOLEAN BY DEF Queued, Contains
    <3>2. QED BY <3>1 DEF MayExpire
  <2> HIDE DEF e
  <2>3. Settles(c, o, S(o), k, one, z) BY <1>2, <1>4, <2>2, TransitionSettles
  <2> HIDE DEF S
  <2>4. Sound(c, n, none, z) /\ Steady(c, o, n, none) BY <1>6, <2>1, <2>3 DEF Settles, none
  <2>5. n \in Locked(c.i) BY <2>4 DEF Sound
  <2>6. Steady(c, m, n, none) BY <1>2, <1>3, <2>4, <2>5, SteadyTwice
  <2>7. Steady(c, m, n, ids) BY <1>6, <2>6, SteadyMore
  <2>8. QED BY <1>2, <1>7, <2>4, <2>6, <2>7 DEF Updates, n, k, none, z, ids
<1>8. CASE IsRecvStreaming(st.state)
  <2> DEFINE w == Marks(o, k)
             q == Sets(o, k, r)
             nq == NoQueue
             yes == o.woken
  <2>1. /\ Fine(c, o.initWindow, k, o.store[k], w) /\ o.store[k] = st /\ k \in Slab(o) /\ st \in Streams
        /\ o.initWindow \in 0 .. MaxWindow /\ st.state \in RoleStates(c.i)
    <3>1. Fine(c, o.initWindow, k, o.store[k], w) /\ o.store[k] = st BY <1>2 DEF Sound
    <3>2. st \in Streams BY <1>2, <1>3, StreamTyped
    <3>3. o.initWindow \in 0 .. MaxWindow BY <1>2 DEF Locked
    <3>4. QED BY <1>2, <3>1, <3>2, <3>3 DEF Fine
  <2> HIDE DEF w, r, st
  <2>2. /\ r \in Streams /\ Fine(c, o.initWindow, k, r, w)
        /\ UnclaimedCapacity(st.flow) \in Int
        /\ CanIncWindow(st.flow, UnclaimedCapacity(st.flow))
        /\ r.flow.window = st.flow.window + UnclaimedCapacity(st.flow)
        /\ r.state = st.state /\ r.promises = st.promises
        /\ r.counted = st.counted /\ r.inFlight = st.inFlight /\ r.handles = st.handles
    BY <1>8, <2>1, GrownFine DEF r
  <2>3. n = S(q)
    <3>1. [o EXCEPT !.store[k].flow = Announced(@)] = Sets(o, k, [o.store[k] EXCEPT !.flow = Announced(@)])
      BY DEF Sets, Stored
    <3>2. [o EXCEPT !.store[k].flow = Announced(@)] = q BY <2>1, <3>1 DEF r, Grown
    <3> HIDE DEF S, q
    <3>3. QED BY <1>5, <1>8, <2>1, <2>2, <3>2 DEF Check
  <2>4. q = Put(o, k, r, nq, yes) BY <1>2, StorePuts
  <2>5. PutTo(c, o, q, k, r, nq, one, z)
    <3>1. yes \in BOOLEAN BY <1>2 DEF Locked
    <3>2. nq \in SUBSET Pushable /\ w \cup nq = w BY DEF NoQueue
    <3>3. Fine(c, o.initWindow, k, r, Marks(o, k) \cup nq) BY <2>2, <3>2 DEF w
    <3> HIDE DEF q, yes, nq
    <3>4. QED BY <1>1, <1>2, <2>1, <2>2, <2>4, <3>1, <3>2, <3>3, PutSteady
  <2>6. Ready(c, r, Marks(o, k) \cup nq)
    <3>1. Marks(o, k) \cup nq = Marks(o, k) BY DEF NoQueue
    <3>2. QED BY <1>4, <2>1, <2>2, <3>1 DEF Ready, Owned, Keeps
  <2> HIDE DEF q, nq
  <2>7. Closes(c, o, q, S(q), k, r, z) BY <1>2, <1>6, <2>1, <2>5, <2>6, PutSettles
  <2> HIDE DEF S
  <2>8. Sound(c, n, none, z) /\ Steady(c, o, n, ids) /\ (k \in Slab(n) => SameBut(r, n.store[k]))
    BY <2>3, <2>7 DEF Closes, ids, none
  <2>12. \A t \in DOMAIN n.ids : t \in DOMAIN m.ids /\ n.ids[t] = m.ids[t] BY <1>2, <2>3, <2>7 DEF Closes
  <2>9. Steady(c, m, n, ids)
    <3>1. n \in Locked(c.i) BY <2>8 DEF Sound
    <3>2. QED BY <1>2, <1>3, <2>8, <3>1, SteadyTwice
  <2>10. IdOf(k) \in DOMAIN m.ids /\ m.ids[IdOf(k)] = k
    <3>1. Live(st) BY <1>8 DEF Live, IsRecvStreaming, Idle, IsClosed, Open, HalfClosedLocal
    <3>2. "current" \in w BY <2>1, <3>1 DEF Fine
    <3>3. Current(o, k) BY <3>2, MarksAre DEF w
    <3>4. QED BY <1>2, <3>3 DEF Current
  <2>13. QED BY <1>2, <1>8, <2>2, <2>8, <2>9, <2>10, <2>12 DEF Updates, n, k, none, z, ids, r, st
<1>9. QED BY <1>7, <1>8

\* send_stream_window_updates.
LEMMA WriteStreamUpdateStep ==
  ASSUME IInv, WriteStreamUpdate
  PROVE  IInv'
<1> DEFINE k == Head(me.updates)
           n == StreamUpdate(me, k)
           s == IdOf(k)
           u == UnclaimedCapacity(me.store[k].flow)
           p == peer'
<1>1. /\ me' = n /\ UNCHANGED <<instance, end, app, changes>> /\ end = "open"
      /\ p = IF IsRecvStreaming(me.store[k].state) THEN [peer EXCEPT !.stream[IdOf(k)].credit = @ + u] ELSE peer
      /\ me.updates # <<>>
  BY DEF WriteStreamUpdate, Writes, TaskRuns, Wrote
<1>2. Updates(Context, me, n, k) BY <1>1, Before, UpdateSound
<1> HIDE DEF n, k, u
<1>3. k \in Slab(me) /\ Sound(Context, n, {}, 0) /\ Steady(Context, me, n, {s}) BY <1>2 DEF Updates
<1>4. Context' = Context /\ Later(Context, Context')
  <2>1. Context' = Context BY <1>1 DEF Context, Ids
  <2>2. QED BY <2>1, Before DEF Later
<1>5. app' \in Apps' /\ changes' \in 0 .. MaxChanges[instance]
  BY <1>1, Before DEF Apps, Ids, IInv
<1>6. CASE ~IsRecvStreaming(me.store[k].state)
  <2>1. Steady(Context, me, n, {}) BY <1>2, <1>6 DEF Updates
  <2>2. UNCHANGED <<instance, end, peer, app>> BY <1>1, <1>6
  <2>3. QED BY <1>1, <1>3, <1>5, <2>1, <2>2, QuietStep
<1>7. CASE IsRecvStreaming(me.store[k].state)
  <2> DEFINE r == [peer.stream[s] EXCEPT !.credit = @ + u]
             D == [said : {"nothing", "promised", "open", "ended", "reset"},
                   sent : Nat, credit : Int, length : Int]
  <2>1. /\ u \in Int /\ s \in DOMAIN me.ids /\ me.ids[s] = k
        /\ k \in Slab(n) => SameBut(Grown(me.store[k]), n.store[k])
        /\ Grown(me.store[k]).flow.window = me.store[k].flow.window + u
        /\ Grown(me.store[k]).state = me.store[k].state /\ Grown(me.store[k]) \in Streams
        /\ \A t \in DOMAIN n.ids : t \in DOMAIN me.ids /\ n.ids[t] = me.ids[t]
    BY <1>2, <1>7 DEF Updates, u
  <2>2. s \in IdsOf(instance)
    <3>1. k \in KeysOf(instance) BY <1>3, Before, StreamTyped
    <3>2. QED BY <3>1, Before, IdsAre
  <2>3. /\ peer \in Peer /\ Ids' = Ids /\ Ids = IdsOf(instance) /\ instance \in Instances
        /\ peer.stream \in [IdsOf(instance) -> D] /\ peer.stream[s] \in D
    <3>1. peer \in Peer /\ Ids' = Ids /\ Ids = IdsOf(instance) /\ instance \in Instances
      BY <1>1, Before DEF Ids
    <3>2. QED BY <2>2, <3>1 DEF Peer
  <2>4. r \in D /\ r.said = peer.stream[s].said /\ r.credit = peer.stream[s].credit + u
    BY <2>1, <2>3
  <2>5. p.conn = peer.conn /\ p.stream = [peer.stream EXCEPT ![s] = r] BY <1>1, <1>7, <2>3 DEF Peer
  <2> HIDE DEF r
  <2>6. p \in Peer' BY <1>1, <1>7, <2>2, <2>3, <2>4, <2>5 DEF Peer
  <2> HIDE DEF D, p, s
  <2>7. Spoken(instance, peer, p, s) /\ p.stream[s] = r BY <2>2, <2>3, <2>5, PeerSpoken
  <2>8. Agree(instance, me, peer) BY <1>1, Before
  <2>9. Told(instance, me.initWindow, peer.stream[s], me.store[k]) BY <2>1, <2>8 DEF Agree
  <2>10. p.stream[s].said = "open" BY <1>7, <2>4, <2>7, <2>9 DEF Told
  <2>11. s < me.nextId BY <2>2, <2>4, <2>7, <2>8, <2>10 DEF Agree, Ordered
  <2>12. s \in DOMAIN n.ids => Told(instance, n.initWindow, p.stream[s], n.store[n.ids[s]])
    <3>1. SUFFICES ASSUME s \in DOMAIN n.ids PROVE Told(instance, n.initWindow, p.stream[s], n.store[n.ids[s]])
      OBVIOUS
    <3>2. n.ids[s] = k /\ k \in Slab(n) BY <1>3, <2>1, <3>1 DEF Sound, Linking
    <3>3. SameBut(Grown(me.store[k]), n.store[k]) /\ n.initWindow = me.initWindow
      BY <1>3, <2>1, <3>2 DEF Steady
    <3>4. /\ n.store[k].state = me.store[k].state
          /\ n.store[k].flow.window = me.store[k].flow.window + u
      <4> DEFINE a == Grown(me.store[k])
                 b == n.store[k]
      <4>1. a \in Streams /\ SameBut(a, b) BY <2>1, <3>3
      <4> HIDE DEF a, b
      <4>2. b.state = a.state /\ b.flow = a.flow BY <4>1 DEF SameBut, Streams
      <4>3. QED BY <2>1, <4>2 DEF a, b
    <3>5. ~IsRecvHeaders(n.store[k].state) /\ n.store[k].state # ReservedRemote /\ n.store[k].state # Closed("EndStream")
      BY <1>7, <3>4 DEF IsRecvHeaders, IsRecvStreaming, Idle, ReservedRemote, Open, HalfClosedLocal, Closed, Peers
    <3>6. QED BY <1>7, <2>4, <2>7, <2>9, <2>10, <3>2, <3>4, <3>5 DEF Told
  <2>13. Agree(instance, n, p)
    <3> DEFINE c == Context
               m == me
               q == peer
    <3>1. /\ c \in Contexts /\ c.i = instance /\ m \in Locked(c.i) /\ n \in Locked(c.i)
          /\ Agree(c.i, m, q) /\ Steady(c, m, n, {s}) /\ Spoken(c.i, q, p, s) /\ s < m.nextId
      BY <1>3, <2>7, <2>8, <2>11, Before DEF Sound
    <3>2. p.stream[s].said # "nothing" /\ p.stream[s].said # "promised" BY <2>10
    <3>3. /\ s \in DOMAIN n.ids => s \in DOMAIN m.ids
          /\ s \in DOMAIN n.ids => Told(c.i, n.initWindow, p.stream[s], n.store[n.ids[s]])
      BY <2>1, <2>12, <3>1
    <3> HIDE DEF c, m, q
    <3>4. Agree(c.i, n, p) BY ONLY <3>1, <3>2, <3>3, SpokenAgree
    <3>5. QED BY <3>1, <3>4
  <2>14. QED BY <1>1, <1>3, <1>4, <1>5, <2>6, <2>13, Afterwards DEF p
<1>8. QED BY <1>6, <1>7

-----------------------------------------------------------------------------
(* A stream is broken: its state is set, and what was queued is cleared.     *)

Broken(m, k, y) == ClearOut(Notify([m EXCEPT !.store[k].state = y], k), k)

\* A broken stream has ended.
LEMMA BrokenEnds ==
  ASSUME NEW c \in Contexts, NEW m \in Locked(c.i), NEW k \in Slab(m), NEW y,
         (y = m.store[k].state /\ IsClosed(y)) \/ y \in Ends, NEW Done, Done = {y}
  PROVE  EndsOne(m, Broken(m, k, y), k, Done)
<1> DEFINE st == m.store[k]
           a == [st EXCEPT !.state = y]
           b == [a EXCEPT !.task = "none"]
           r == [b EXCEPT !.out = <<>>]
           n == Broken(m, k, y)
<1>1. st \in Streams BY StreamTyped
<1>2. y \in States
  <2>1. \A x \in Ends : x \in States BY DEF Ends, States
  <2>2. QED BY <1>1, <2>1 DEF Streams
<1>3. a \in Streams BY <1>1, <1>2 DEF Streams
<1>4. r = [st EXCEPT !.state = y, !.task = "none", !.out = <<>>] BY <1>1 DEF Streams
<1>5. n = Sets(m, k, r)
  <2> DEFINE h == Sets(m, k, a)
             h2 == Sets(h, k, b)
  <2>1. [m EXCEPT !.store[k].state = y] = h BY DEF Sets, Stored
  <2>2. h.store[k] = a /\ h2 = Sets(m, k, b) /\ h2.store[k] = b
    BY <1>1, StoredTwice
  <2>3. Notify(h, k) = Sets(h, k, [h.store[k] EXCEPT !.task = "none"]) BY DEF Notify, Sets, Stored
  <2>4. Notify(h, k) = h2
    <3> HIDE DEF h, a
    <3> QED BY <2>2, <2>3
  <2>5. ClearOut(h2, k) = Sets(h2, k, [h2.store[k] EXCEPT !.out = <<>>]) BY DEF ClearOut, Sets, Stored
  <2>6. ClearOut(h2, k) = Sets(h2, k, r)
    <3> HIDE DEF h, h2, b
    <3> QED BY <2>2, <2>5
  <2>7. Sets(Sets(m, k, b), k, r) = Sets(m, k, r) BY <1>1, StoredTwice
  <2> HIDE DEF h, h2, a, b, r
  <2>8. QED BY <2>1, <2>2, <2>4, <2>6, <2>7 DEF Broken
<1> HIDE DEF n, a, b
<1>6. /\ r \in Streams /\ r.state = y /\ Shut(st, r)
  <2>1. <<>> \in Seq(OutFrames) OBVIOUS
  <2> DEFINE e == <<>>
  <2> HIDE DEF e
  <2>2. r = [st EXCEPT !.state = y, !.task = "none", !.out = e] BY <1>4 DEF e
  <2> HIDE DEF r, st
  <2>3. r \in Streams /\ r.state = y BY <1>1, <1>2, <2>1, <2>2 DEF Streams, e
  <2>4. r = [st EXCEPT !.state = r.state, !.out = r.out, !.task = r.task]
    BY <1>1, <2>2 DEF Streams
  <2>5. (r.state = st.state /\ IsClosed(st.state)) \/ r.state \in Ends BY <2>3 DEF st
  <2>6. QED BY <2>3, <2>4, <2>5 DEF Shut
<1>7. n = Put(m, k, r, NoQueue, m.woken) BY <1>5, StorePuts
<1>8. m.woken \in BOOLEAN BY DEF Locked
<1> HIDE DEF r, st
<1>9. QED BY <1>6, <1>7, <1>8 DEF EndsOne, st, n

\* A stream that has ended, and transition_after.
Finishes(c, m, o, s, loose, Done) ==
  /\ Sound(c, o, {}, loose) /\ Steady(c, m, o, {IdOf(s)})
  /\ Done \subseteq LocalResets => Steady(c, m, o, {})
  /\ s \in Slab(o) => o.store[s].state \in Done
  /\ Slab(o) \subseteq Slab(m) /\ Slab(m) \ {s} \subseteq Slab(o)
  /\ \A k \in Slab(o) : k # s => o.store[k] = m.store[k]
  /\ \A t \in DOMAIN o.ids : t \in DOMAIN m.ids /\ o.ids[t] = m.ids[t]

\* transition_after finishes a stream that has ended.
LEMMA EndedFinishes ==
  ASSUME NEW c \in Contexts, NEW m, NEW loose \in Int, NEW X, Sound(c, m, X, loose),
         NEW s \in Slab(m), NEW n, NEW Done, Ended(c, m, n, s, X, loose, Done), X \subseteq {s},
         Fit(c, m.store[s], Marks(m, s))
  PROVE  Finishes(c, m, TransitionAfter(n, s, Queued(m.expiring, s)), s, loose, Done)
<1> DEFINE q == Queued(m.expiring, s)
           o == TransitionAfter(n, s, q)
           one == {s}
           none == {}
           ids == {IdOf(s)}
<1>1. X \cup {s} = one OBVIOUS
<1>2. /\ Sound(c, n, one, loose) /\ Slab(n) = Slab(m) /\ n.store[s].state \in Done
      /\ n.expiring = m.expiring /\ n.ids = m.ids /\ Steady(c, m, n, ids)
      /\ Done \subseteq LocalResets => Steady(c, m, n, none)
      /\ \A k \in Slab(m) : k # s => n.store[k] = m.store[k]
      /\ Ready(c, n.store[s], Marks(n, s))
  BY <1>1 DEF Ended
<1>3. q \in BOOLEAN /\ MayExpire(n, s, q)
  <2>1. q \in BOOLEAN BY DEF Queued, Contains
  <2>2. QED BY <1>2, <2>1 DEF MayExpire
<1>4. one \ {s} = none /\ none \subseteq ids OBVIOUS
<1> HIDE DEF q, one, none, ids
<1>5. Settles(c, n, o, s, one, loose) BY <1>2, <1>3, TransitionSettles
<1> HIDE DEF o
<1>6. Sound(c, o, none, loose) /\ Steady(c, n, o, none) /\ Thins(n, o, Gone(n, s)) BY <1>4, <1>5 DEF Settles, none
<1>7. m \in Locked(c.i) /\ n \in Locked(c.i) /\ o \in Locked(c.i) BY <1>2, <1>6 DEF Sound
<1>8. Steady(c, m, o, ids)
  <2>1. Steady(c, n, o, ids) BY <1>4, <1>6, SteadyMore
  <2>2. QED BY <1>2, <1>7, <2>1, SteadyTwice
<1>9. Done \subseteq LocalResets => Steady(c, m, o, none) BY <1>2, <1>6, <1>7, SteadyTwice
<1>10. s \in Slab(o) => o.store[s].state \in Done
  <2>1. s \in Slab(o) => SameBut(n.store[s], o.store[s]) BY <1>6 DEF Thins
  <2>2. n.store[s] \in Streams BY <1>2, <1>7, StreamTyped
  <2>3. QED BY <1>2, <2>1, <2>2 DEF SameBut, Streams
<1>11. /\ Slab(o) \subseteq Slab(m) /\ Slab(m) \ {s} \subseteq Slab(o)
       /\ \A k \in Slab(o) : k # s => o.store[k] = m.store[k]
       /\ \A t \in DOMAIN o.ids : t \in DOMAIN m.ids /\ o.ids[t] = m.ids[t]
  <2>1. Slab(o) = Slab(n) \ Gone(n, s) BY <1>6 DEF Thins
  <2>2. Gone(n, s) \subseteq {s} BY DEF Gone
  <2>3. \A k \in Slab(o) : k # s => o.store[k] = m.store[k] BY <1>2, <1>5, <2>1 DEF Settles
  <2>4. \A t \in DOMAIN o.ids : t \in DOMAIN m.ids /\ o.ids[t] = m.ids[t] BY <1>2, <1>6 DEF Thins
  <2>5. QED BY <1>2, <2>1, <2>2, <2>3, <2>4
<1>12. QED BY <1>6, <1>8, <1>9, <1>10, <1>11 DEF Finishes, o, q, none, ids

\* Breaking a stream that is settled.
LEMMA BrokenFinishes ==
  ASSUME NEW c \in Contexts, NEW m, NEW loose \in Int, Sound(c, m, {}, loose), NEW s \in Slab(m), NEW y,
         (y = m.store[s].state /\ IsClosed(y)) \/ y \in Ends, NEW Done, Done = {y}
  PROVE  Finishes(c, m, TransitionAfter(Broken(m, s, y), s, Queued(m.expiring, s)), s, loose, Done)
<1> DEFINE n == Broken(m, s, y)
           none == {}
<1>1. m \in Locked(c.i) /\ Settled(c, m.store[s], Marks(m, s)) /\ Sound(c, m, none, loose) BY DEF Sound
<1>2. Fit(c, m.store[s], Marks(m, s)) BY <1>1, ReadyFit
<1>3. EndsOne(m, n, s, Done) BY <1>1, BrokenEnds
<1>4. none \subseteq {s} OBVIOUS
<1> HIDE DEF n, none
<1>5. Ended(c, m, n, s, none, loose, Done) BY <1>1, <1>3, EndsOneSound
<1>6. QED BY <1>1, <1>2, <1>4, <1>5, EndedFinishes DEF n

-----------------------------------------------------------------------------
(* All streams that an id finds fail: recv_err and recv_eof.                 *)

FailOne(v, t, cause) ==
  TransitionAfter(Broken(v, t, RecvErr(v.store[t].state, cause)), t, Queued(v.expiring, t))
FailCauses == {"LocallyReset", "Io"}

\* One stream fails, ...
LEMMA FailOneSound ==
  ASSUME NEW c \in Contexts, NEW v, Sound(c, v, {}, 0), NEW t \in Slab(v), NEW cause \in FailCauses
  PROVE  LET o == FailOne(v, t, cause)
         IN  /\ Sound(c, o, {}, 0) /\ Slab(v) \ {t} \subseteq Slab(o) /\ Slab(o) \subseteq Slab(v)
             /\ \A k \in Slab(o) : k # t => o.store[k] = v.store[k]
             /\ t \in Slab(o) => IsClosed(o.store[t].state)
<1> DEFINE y == RecvErr(v.store[t].state, cause)
           z == 0
           one == {y}
           o == FailOne(v, t, cause)
<1>1. v \in Locked(c.i) /\ z \in Int /\ Sound(c, v, {}, z) BY DEF Sound
<1>2. (y = v.store[t].state /\ IsClosed(y)) \/ y \in Ends BY DEF RecvErr, FailCauses, Ends, Causes
<1> HIDE DEF y, one, z
<1>3. IsClosed(y) BY <1>2 DEF Ends, IsClosed, Closed
<1>4. one = {y} BY DEF one
<1>5. Finishes(c, v, o, t, z, one) BY <1>1, <1>2, <1>4, BrokenFinishes DEF FailOne, y
<1> HIDE DEF o
<1>6. QED BY <1>3, <1>4, <1>5 DEF Finishes, o, z

\* ... and then all that an id finds.
LEMMA FailSound ==
  ASSUME NEW c \in Contexts, NEW m, Sound(c, m, {}, 0), NEW cause \in FailCauses
  PROVE  LET n == Fail(m, cause)
         IN  Sound(c, n, {}, 0) /\ \A k \in Slab(n) : IsClosed(n.store[k].state)
<1> DEFINE S == Range(m.ids)
           q == SetToSeq(S)
           n == Len(q)
           Ahead(k) == {q[i] : i \in k + 1 .. n}
           Done(v, k) == \A t \in Slab(v) : IsClosed(v.store[t].state) \/ t \in Ahead(k)
           W == {p \in (0 .. n) \X Locked(c.i) :
                   Sound(c, p[2], {}, 0) /\ Ahead(p[1]) \subseteq Slab(p[2]) /\ Done(p[2], p[1])}
           Round(v, k) == FailOne(v, q[k], cause)
           Body(h) == [i \in 0 .. n |-> IF i = 0 THEN m ELSE Round(h[i - 1], i)]
           g == [p \in (1 .. n) \X Locked(c.i) |-> Round(p[2], p[1])]
<1>1. m \in Locked(c.i) /\ Linking(m) /\ IsFiniteSet(Slab(m)) BY SlabFinite DEF Sound
<1>2. S \subseteq Slab(m) /\ IsFiniteSet(S)
  <2>1. S \subseteq Slab(m) BY <1>1 DEF Linking, Range
  <2>2. QED BY <1>1, <2>1, FS_Subset
<1> HIDE DEF S
<1>3. IsQueue(q, S) /\ n \in Nat /\ \A x \in S : \E i \in 1 .. n : q[i] = x
  <2>1. IsQueue(q, S) /\ \A x \in S : \E i \in 1 .. n : q[i] = x BY <1>2, SetToSeqIs
  <2>2. QED BY <2>1 DEF IsQueue
<1> HIDE DEF q
<1>4. <<0, m>> \in W
  <2> DEFINE z == 0
  <2>1. z \in 0 .. n BY <1>3
  <2>2. Ahead(z) = S BY <1>3 DEF IsQueue
  <2>3. Done(m, z)
    <3>1. SUFFICES ASSUME NEW t \in Slab(m), ~IsClosed(m.store[t].state) PROVE t \in S
      BY <2>2
    <3>2. Fine(c, m.initWindow, t, m.store[t], Marks(m, t)) /\ Settled(c, m.store[t], Marks(m, t)) BY DEF Sound
    <3>3. Live(m.store[t]) BY <3>1, <3>2 DEF Live, Settled, Ready
    <3>4. "current" \in Marks(m, t) BY <3>2, <3>3 DEF Fine
    <3>5. Current(m, t) BY <3>4, MarksAre
    <3>6. QED BY <3>5 DEF Current, S, Range
  <2> HIDE DEF Ahead, Done
  <2>4. Sound(c, m, {}, 0) /\ Ahead(z) \subseteq Slab(m) BY <1>2, <2>2
  <2> HIDE DEF z
  <2>5. <<z, m>> \in W BY <1>1, <2>1, <2>3, <2>4
  <2>6. QED BY <2>5 DEF z
<1>5. ASSUME NEW k \in 1 .. n, NEW v, <<k - 1, v>> \in W
      PROVE  v \in Locked(c.i) /\ <<k, Round(v, k)>> \in W
  <2>1. v \in Locked(c.i) /\ Sound(c, v, {}, 0) /\ Ahead(k - 1) \subseteq Slab(v) /\ Done(v, k - 1)
    BY <1>5
  <2>2. q[k] \in Ahead(k - 1) /\ Ahead(k - 1) = Ahead(k) \cup {q[k]} /\ q[k] \notin Ahead(k)
    BY <1>3 DEF IsQueue, IsInjective
  <2>3. q[k] \in Slab(v) /\ k \in 0 .. n BY <1>3, <2>1, <2>2
  <2> DEFINE o == FailOne(v, q[k], cause)
  <2>4. /\ Sound(c, o, {}, 0) /\ Slab(v) \ {q[k]} \subseteq Slab(o) /\ Slab(o) \subseteq Slab(v)
        /\ \A j \in Slab(o) : j # q[k] => o.store[j] = v.store[j]
        /\ q[k] \in Slab(o) => IsClosed(o.store[q[k]].state)
    BY <2>1, <2>3, FailOneSound
  <2> HIDE DEF Ahead, o
  <2>5. Done(o, k) BY <2>1, <2>2, <2>4
  <2>6. o \in Locked(c.i) /\ Ahead(k) \subseteq Slab(o)
    <3>1. o \in Locked(c.i) BY <2>4 DEF Sound
    <3>2. QED BY <2>1, <2>2, <2>4, <3>1
  <2> HIDE DEF Done
  <2>7. <<k, o>> \in W BY <2>3, <2>4, <2>5, <2>6
  <2>8. QED BY <2>1, <2>7 DEF o
<1>6. \A k \in 1 .. n : \A v : <<k - 1, v>> \in W => <<k, g[<<k, v>>]>> \in W
  <2> HIDE DEF W
  <2>1. QED BY <1>5
<1> HIDE DEF W, g
<1>7. PICK f : Loops(n, m, g, f) /\ \A k \in 0 .. n : <<k, f[k]>> \in W
  <2>1. CanLoop(n, W, m, g) BY <1>3, <1>4, <1>6 DEF CanLoop
  <2>2. QED BY <2>1, LoopRecursion
<1>8. f = Body(f)
  <2>1. \A k \in 1 .. n : k - 1 \in 0 .. n /\ <<k - 1, f[k - 1]>> \in W BY <1>3, <1>7
  <2>2. \A k \in 1 .. n : f[k - 1] \in Locked(c.i) BY <1>5, <2>1
  <2>3. \A k \in 1 .. n : g[<<k, f[k - 1]>>] = Round(f[k - 1], k) BY <2>2 DEF g
  <2>4. f = [k \in 0 .. n |-> IF k = 0 THEN m ELSE g[<<k, f[k - 1]>>]] BY <1>7 DEF Loops
  <2>5. \A k \in 0 .. n : k # 0 => k \in 1 .. n BY <1>3
  <2>6. QED BY <2>3, <2>4, <2>5
<1> DEFINE after == CHOOSE h : h = Body(h)
<1>9. after = Body(after)
  <2> HIDE DEF Body
  <2> QED BY <1>8
<1>10. Fail(m, cause) = after[n]
  BY DEF Fail, ForEachLinked, Each, FailOne, Transition, Broken, q, S
<1>11. /\ after[0] = m
       /\ \A k \in 1 .. n : after[k] = Round(after[k - 1], k)
  <2> HIDE DEF after
  <2>1. \A k \in 0 .. n : after[k] = IF k = 0 THEN m ELSE Round(after[k - 1], k)
    BY <1>9
  <2>2. QED BY <1>3, <2>1
<1> HIDE DEF after
<1>12. <<n, after[n]>> \in W
  <2>1. \A k \in 1 .. n : <<k - 1, after[k - 1]>> \in W => <<k, after[k]>> \in W
    BY <1>5, <1>11
  <2>2. <<0, after[0]>> \in W BY <1>4, <1>11
  <2> HIDE DEF n
  <2>3. QED BY <1>3, <2>1, <2>2, LoopHolds
<1>13. Ahead(n) = {} BY <1>3
<1>14. QED BY <1>10, <1>12, <1>13 DEF W

-----------------------------------------------------------------------------
(* What was read is applied.                                                 *)

\* Without an error: what the peer has said agrees with what is known.
LEMMA AppliedSpoken ==
  ASSUME IInv, end = "open", NEW n, Sound(Context, n, {}, 0), Applied(n), ~n.err,
         peer' \in Peer, Agree(instance, n, peer')
  PROVE  IInv'
<1> DEFINE o == Wake(n)
           none == {}
           z == 0
           yes == TRUE
           p == peer'
<1>1. me' = o /\ end' = end /\ UNCHANGED <<instance, app, changes>> BY DEF Applied
<1>2. Moved(Context, n, o, n.flow, none, z)
  <2>1. o = [n EXCEPT !.woken = yes] BY DEF Wake
  <2>2. z \in Int /\ yes \in BOOLEAN OBVIOUS
  <2> HIDE DEF o, z, yes, none
  <2>3. Sound(Context, n, none, z) BY DEF none, z
  <2>4. QED BY <2>1, <2>2, <2>3, Before, WakeSound
<1> HIDE DEF o, none, z, p
<1>3. Sound(Context, o, none, z) BY <1>2 DEF Moved
<1>4. Agree(instance, o, p)
  <2> DEFINE c == Context
             f == n.flow
             i == instance
  <2>1. c \in Contexts /\ c.i = i /\ Moved(c, n, o, f, none, z) BY <1>2, Before
  <2>2. Agree(c.i, n, p) BY <2>1 DEF p
  <2>3. f.window = p.conn /\ p.stream = p.stream BY <2>2 DEF Agree
  <2> HIDE DEF c, f
  <2>4. Agree(c.i, o, p) BY ONLY <2>1, <2>2, <2>3, MovedAgree
  <2>5. QED BY <2>1, <2>4
<1>5. Context' = Context BY <1>1 DEF Context, Ids
<1>6. Later(Context, Context') BY <1>5, Before DEF Later
<1>7. app' \in Apps' /\ changes' \in 0 .. MaxChanges[instance] /\ p \in Peer'
  BY <1>1, Before DEF Apps, Ids, IInv, Peer, p
<1>8. Sound(Context', o, {}, 0) BY <1>3, <1>5 DEF none, z
<1>9. QED BY <1>1, <1>4, <1>6, <1>7, <1>8, Afterwards DEF p

\* With an error: the connection is over, and the peer is not heard any more.
LEMMA AppliedError ==
  ASSUME IInv, end = "open", NEW n, Sound(Context, n, {}, 0), Applied(n), n.err, peer' \in Peer
  PROVE  IInv'
<1> DEFINE o == Fail(n, "LocallyReset")
<1>1. me' = o /\ end' = "error" /\ UNCHANGED <<instance, app, changes>> BY DEF Applied
<1>2. Sound(Context, o, {}, 0) BY Before, FailSound DEF FailCauses
<1> HIDE DEF o
<1>3. /\ Context \in Contexts /\ Context.i = instance /\ Context.end = "open"
      /\ Context'.i = Context.i /\ Context'.end = "error" /\ Context'.await = Context.await
      /\ Context' \in Contexts
  <2>1. Context \in Contexts /\ Context.i = instance /\ Context.end = "open" BY Before
  <2>2. Ids' = Ids BY <1>1 DEF Ids
  <2>3. Context'.i = Context.i /\ Context'.await = Context.await BY <1>1, <2>2 DEF Context
  <2>4. Context'.end = "error" BY <1>1 DEF Context
  <2>5. Context' = [i |-> Context'.i, end |-> Context'.end, await |-> Context'.await] BY DEF Context
  <2>6. Context.i \in Instances /\ Context.await \in SUBSET Nat BY <2>1 DEF Contexts
  <2> DEFINE d == Context'
  <2> HIDE DEF d
  <2>7. d.i \in Instances /\ d.await \in SUBSET Nat /\ d.end = "error" BY <2>3, <2>4, <2>6 DEF d
  <2>8. d = [i |-> d.i, end |-> d.end, await |-> d.await] BY <2>5 DEF d
  <2>9. d \in Contexts BY <2>7, <2>8 DEF Contexts
  <2>10. QED BY <2>1, <2>3, <2>4, <2>9 DEF d
<1>4. Later(Context, Context') BY <1>3 DEF Later, Strict
<1>5. app' \in Apps' /\ changes' \in 0 .. MaxChanges[instance] /\ peer' \in Peer'
  BY <1>1, Before DEF Apps, Ids, IInv, Peer
<1>6. Sound(Context', o, {}, 0) BY <1>2, <1>4, LaterSound
<1>7. QED BY <1>1, <1>4, <1>5, <1>6, Afterwards

-----------------------------------------------------------------------------
(* Frames of one stream.                                                     *)

\* What the peer knows of a stream.
Knows == [said : {"nothing", "promised", "open", "ended", "reset"},
          sent : Nat, credit : Int, length : Int]

\* The peer's record of one stream.
LEMMA KnownIs ==
  ASSUME IInv, NEW s \in Ids
  PROVE  /\ peer.stream[s] \in Knows /\ peer.conn \in Int
         /\ \A r \in Knows : LET p == [peer EXCEPT !.stream[s] = r]
                             IN  p \in Peer /\ Spoken(instance, peer, p, s) /\ p.stream[s] = r
<1>1. peer \in Peer /\ Ids = IdsOf(instance) /\ instance \in Instances BY Before
<1>2. peer.stream \in [IdsOf(instance) -> Knows] /\ peer.conn \in Int BY <1>1 DEF Peer, Knows
<1>3. ASSUME NEW r \in Knows
      PROVE  LET p == [peer EXCEPT !.stream[s] = r]
             IN  p \in Peer /\ Spoken(instance, peer, p, s) /\ p.stream[s] = r
  <2> DEFINE p == [peer EXCEPT !.stream[s] = r]
  <2>1. p.conn = peer.conn /\ p.stream = [peer.stream EXCEPT ![s] = r] BY <1>1 DEF Peer
  <2>2. p \in Peer BY <1>1, <1>2, <2>1 DEF Peer, Knows
  <2> HIDE DEF p
  <2>3. Spoken(instance, peer, p, s) /\ p.stream[s] = r BY <1>1, <1>2, <2>1, PeerSpoken
  <2>4. QED BY <2>2, <2>3 DEF p
<1>4. QED BY <1>1, <1>2, <1>3

\* The peer says nothing of the windows.
LEMMA SaidIs ==
  ASSUME IInv, NEW s \in Ids, NEW said \in {"nothing", "promised", "open", "ended", "reset"},
         PeerSays(s, said)
  PROVE  /\ peer' \in Peer /\ Spoken(instance, peer, peer', s) /\ peer'.stream[s].said = said
         /\ peer'.stream[s].credit = peer.stream[s].credit
<1> DEFINE r == [peer.stream[s] EXCEPT !.said = said]
           p == peer'
<1>1. peer.stream[s] \in Knows BY KnownIs
<1>2. r \in Knows /\ r.said = said /\ r.credit = peer.stream[s].credit BY <1>1 DEF Knows
<1>3. p = [peer EXCEPT !.stream[s] = r]
  <2>1. peer \in Peer BY Before
  <2>2. QED BY <2>1 DEF PeerSays, Peer
<1> HIDE DEF r, p
<1>4. p \in Peer /\ Spoken(instance, peer, p, s) /\ p.stream[s] = r BY <1>2, <1>3, KnownIs
<1>5. QED BY <1>2, <1>4 DEF p

\* A stream the peer has spoken on is one it may have been told to forget.
LEMMA SpokenKnown ==
  ASSUME IInv, end = "open", NEW s \in Ids, Said(s) # "nothing"
  PROVE  s < me.nextId /\ MayHaveForgotten(me, s)
BY Before DEF Agree, Ordered, Said, MayHaveForgotten

\* Of a stream that is closed the peer knows nothing.
LEMMA ToldClosed ==
  ASSUME NEW i, NEW init, NEW p, NEW st, IsClosed(st.state), p.said \notin {"nothing", "open"}
  PROVE  Told(i, init, p, st)
BY DEF Told, IsClosed, IsRecvStreaming, IsRecvHeaders, Open, HalfClosedLocal, Idle, ReservedRemote

\* RST_STREAM.
LEMMA ResetFrameSound ==
  ASSUME NEW c \in Contexts, NEW m, Sound(c, m, {}, 0), NEW s, Linked(m, s) \/ MayHaveForgotten(m, s)
  PROVE  LET n == RecvResetFrame(m, s)
         IN  /\ Sound(c, n, {}, 0) /\ Steady(c, m, n, {s})
             /\ Linked(n, s) => Linked(m, s) /\ IsClosed(n.store[n.ids[s]].state)
<1> DEFINE n == RecvResetFrame(m, s)
<1>1. m \in Locked(c.i) BY DEF Sound
<1>2. CASE ~Linked(m, s)
  <2>1. n = m BY <1>2 DEF RecvResetFrame
  <2>2. Steady(c, m, m, {s}) BY <1>1, SteadySelf
  <2>3. QED BY <1>2, <2>1, <2>2
<1>3. CASE Linked(m, s)
  <2> DEFINE k == m.ids[s]
             y == RecvReset(m.store[k].state, Queued(m.sending, k))
             o == TransitionAfter(Broken(m, k, y), k, Queued(m.expiring, k))
             one == {y}
             z == 0
             ids == {s}
  <2>1. n = o BY <1>3 DEF RecvResetFrame, Transition, Broken
  <2>2. k \in Slab(m) /\ IdOf(k) = s BY <1>3 DEF Sound, Linking, Linked
  <2>3. (y = m.store[k].state /\ IsClosed(y)) \/ y \in Ends BY DEF RecvReset, Ends, Causes
  <2>4. z \in Int OBVIOUS
  <2> HIDE DEF y, one, z, n, k
  <2>5. IsClosed(y) BY <2>3 DEF Ends, IsClosed, Closed
  <2>6. one = {y} /\ Sound(c, m, {}, z) BY DEF one, z
  <2>7. Finishes(c, m, o, k, z, one) BY <2>2, <2>3, <2>4, <2>6, BrokenFinishes
  <2> HIDE DEF o
  <2>8. /\ Sound(c, n, {}, z) /\ Steady(c, m, n, ids) /\ (k \in Slab(n) => n.store[k].state \in one)
        /\ \A t \in DOMAIN n.ids : t \in DOMAIN m.ids /\ n.ids[t] = m.ids[t]
    BY <2>1, <2>2, <2>7 DEF Finishes
  <2>9. Linked(n, s) => n.ids[s] = k /\ k \in Slab(n) BY <2>8 DEF Linked, Sound, Linking, k
  <2>10. Linked(n, s) => IsClosed(n.store[n.ids[s]].state) BY <2>5, <2>6, <2>8, <2>9
  <2>11. QED BY <1>3, <2>8, <2>10 DEF z, n
<1>4. QED BY <1>2, <1>3

\* A RST_STREAM frame.
LEMMA PeerResetStep ==
  ASSUME IInv, NEW s \in Ids, PeerReset(s)
  PROVE  IInv'
<1> DEFINE n == RecvResetFrame(me, s)
           p == peer'
           says == "reset"
<1>1. end = "open" /\ Applied(n) /\ PeerSays(s, says) /\ Said(s) \in {"open", "ended", "promised"}
  BY DEF PeerReset, Reads, TaskRuns
<1>2. says \in {"nothing", "promised", "open", "ended", "reset"} OBVIOUS
<1> HIDE DEF says
<1>3. p \in Peer /\ Spoken(instance, peer, p, s) /\ p.stream[s].said = says BY <1>1, <1>2, SaidIs
<1>4. s < me.nextId /\ MayHaveForgotten(me, s) BY <1>1, SpokenKnown
<1>5. Agree(instance, me, peer) BY <1>1, Before
<1>6. /\ Sound(Context, n, {}, 0) /\ Steady(Context, me, n, {s})
      /\ Linked(n, s) => Linked(me, s) /\ IsClosed(n.store[n.ids[s]].state)
  BY <1>4, Before, ResetFrameSound
<1> HIDE DEF n, p
<1>7. Agree(instance, n, p)
  <2> DEFINE c == Context
             m == me
             q == peer
  <2>1. /\ c \in Contexts /\ c.i = instance /\ m \in Locked(c.i) /\ n \in Locked(c.i)
        /\ Agree(c.i, m, q) /\ Steady(c, m, n, {s}) /\ Spoken(c.i, q, p, s) /\ s < m.nextId
    BY <1>3, <1>4, <1>5, <1>6, Before DEF Sound
  <2>2. p.stream[s].said \notin {"nothing", "open"} /\ p.stream[s].said # "promised" BY <1>3 DEF says
  <2>3. /\ s \in DOMAIN n.ids => s \in DOMAIN m.ids
        /\ s \in DOMAIN n.ids => Told(c.i, n.initWindow, p.stream[s], n.store[n.ids[s]])
    BY <1>6, <2>2, ToldClosed DEF Linked
  <2> HIDE DEF c, m, q
  <2>4. Agree(c.i, n, p) BY ONLY <2>1, <2>2, <2>3, SpokenAgree
  <2>5. QED BY <2>1, <2>4
<1>8. ~n.err BY <1>7 DEF Agree
<1>9. QED BY <1>1, <1>3, <1>6, <1>7, <1>8, AppliedSpoken DEF p

-----------------------------------------------------------------------------
(* DATA.                                                                     *)

\* The peer ends a stream that is streaming.
LEMMA StreamingStates ==
  ASSUME NEW i, NEW x \in RoleStates(i), IsRecvStreaming(x)
  PROVE  /\ ~IsClosed(x) /\ x \notin {Idle, ReservedRemote} /\ ~IsReset(x) /\ ~IsLocalReset(x)
         /\ ~IsRecvHeaders(x)
         /\ RecvClose(x) \in RoleStates(i) /\ RecvClose(x) \in States
         /\ RecvClose(x) \notin {Idle, ReservedRemote} /\ ~IsRecvStreaming(RecvClose(x))
         /\ ~IsRecvHeaders(RecvClose(x))
<1>1. /\ i \in Servers => x \in {Open(l, "Streaming") : l \in Peers} \cup {HalfClosedLocal("Streaming")}
      /\ i \notin Servers => x = HalfClosedLocal("Streaming")
  BY DEF RoleStates, ServerStates, ClientStates, IsRecvStreaming, Idle, Open, HalfClosedLocal, HalfClosedRemote,
     Closed, ReservedRemote
<1>2. ~IsClosed(x) /\ x \notin {Idle, ReservedRemote} /\ ~IsReset(x) /\ ~IsLocalReset(x) /\ ~IsRecvHeaders(x)
  BY DEF IsRecvStreaming, IsClosed, IsReset, IsLocalReset, IsRecvHeaders, Idle, ReservedRemote, Open, HalfClosedLocal,
     Closed, Peers
<1>3. RecvClose(x) \in RoleStates(i)
  <2>1. CASE i \in Servers
    <3>1. RecvClose(x) \in {HalfClosedRemote(p) : p \in Peers} \cup {Closed("EndStream")}
      BY <1>1, <2>1 DEF RecvClose, Open, HalfClosedLocal
    <3>2. Closed("EndStream") \in {Closed(e) : e \in Causes} BY DEF Causes
    <3>3. QED BY <2>1, <3>1, <3>2 DEF RoleStates, ServerStates
  <2>2. CASE i \notin Servers
    <3>1. RecvClose(x) = Closed("EndStream") BY <1>1, <2>2 DEF RecvClose, HalfClosedLocal
    <3>2. Closed("EndStream") \in {Closed(e) : e \in Causes} BY DEF Causes
    <3>3. QED BY <2>2, <3>1, <3>2 DEF RoleStates, ClientStates
  <2>3. QED BY <2>1, <2>2
<1>4. /\ RecvClose(x) \in {HalfClosedRemote(p) : p \in Peers} \cup {Closed("EndStream")}
      /\ RecvClose(x) \in States
  BY <1>1 DEF RecvClose, Open, HalfClosedLocal, States, Causes
<1>5. /\ RecvClose(x) \notin {Idle, ReservedRemote} /\ ~IsRecvStreaming(RecvClose(x))
      /\ ~IsRecvHeaders(RecvClose(x))
  BY <1>4 DEF Idle, ReservedRemote, IsRecvStreaming, IsRecvHeaders, Open, HalfClosedLocal, HalfClosedRemote, Closed
<1>6. QED BY <1>2, <1>3, <1>4, <1>5

\* What the entry is when it has taken the frame.
Left2(st, n) == IF st.length = Omitted THEN Omitted ELSE st.length - n
Fed(st, n, eos) ==
  [st EXCEPT !.flow = SendDataOn(@, n), !.inFlight = @ + n, !.length = Left2(st, n),
             !.state = IF eos THEN RecvClose(@) ELSE @, !.events = Append(@, Event("data", n)),
             !.task = "none"]

\* The entry with n more bytes in flight.
LEMMA FedIs ==
  ASSUME NEW i, NEW st \in Streams, st.state \in RoleStates(i), IsRecvStreaming(st.state), NEW n \in Nat,
         NEW eos \in BOOLEAN
  PROVE  LET r == Fed(st, n, eos)
         IN  /\ r \in Streams /\ r.state = (IF eos THEN RecvClose(st.state) ELSE st.state)
             /\ r.flow.window = st.flow.window - n /\ r.flow.available = st.flow.available - n
             /\ r.inFlight = st.inFlight + n
             /\ r.events = Append(st.events, Event("data", n)) /\ r.handles = st.handles
             /\ r.promises = st.promises /\ r.counted = st.counted /\ r.out = st.out
<1> DEFINE f == SendDataOn(st.flow, n)
           j == st.inFlight + n
           l == Left2(st, n)
           y == IF eos THEN RecvClose(st.state) ELSE st.state
           e == Append(st.events, Event("data", n))
           r == [st EXCEPT !.flow = f, !.inFlight = j, !.length = l, !.state = y, !.events = e, !.task = "none"]
<1>1. st.flow \in Flows /\ st.inFlight \in Nat /\ st.length \in Int /\ st.state \in States
      /\ st.events \in Seq(Events)
  BY DEF Streams
<1>2. f \in Flows /\ f.window = st.flow.window - n /\ f.available = st.flow.available - n
  BY <1>1 DEF Flows, SendDataOn, Flow
<1>3. j \in Nat BY <1>1
<1>4. l \in Int BY <1>1 DEF Left2, Omitted
<1>5. y \in States BY <1>1, StreamingStates
<1>6. e \in Seq(Events)
  <2>1. Event("data", n) \in Events BY DEF Event, Events
  <2> HIDE DEF Events
  <2>2. QED BY <1>1, <2>1
<1>7. Fed(st, n, eos) = r BY DEF Fed
<1> HIDE DEF f, j, l, y, e
<1>8. /\ r \in Streams /\ r.flow = f /\ r.inFlight = j /\ r.state = y /\ r.events = e /\ r.handles = st.handles
      /\ r.promises = st.promises /\ r.counted = st.counted /\ r.out = st.out
  BY <1>2, <1>3, <1>4, <1>5, <1>6 DEF Streams
<1> HIDE DEF r
<1>9. QED BY <1>2, <1>7, <1>8 DEF j, y, e

\* The first events of a longer queue are the same.
LEMMA AwaitsMore ==
  ASSUME NEW a, NEW b, a.events \in Seq(Events), NEW x \in Events, b.events = Append(a.events, x),
         IsRecvStreaming(a.state)
  PROVE  /\ HeadersFirst(a) => HeadersFirst(b)
         /\ \A n \in {1, 2} : Awaits(a, n) => Awaits(b, n)
<1> DEFINE e == a.events
           d == b.events
<1>1. d \in Seq(Events) /\ Len(d) = Len(e) + 1 /\ \A i \in 1 .. Len(e) : d[i] = e[i] BY DEF Events
<1>2. Len(e) \in Nat OBVIOUS
<1> HIDE DEF e, d
<1>3. ASSUME HeadersFirst(a) PROVE HeadersFirst(b)
  <2>1. e # <<>> /\ e[1].kind = "headers" BY <1>3 DEF HeadersFirst, e
  <2>2. Len(e) >= 1
    <3>1. e \in Seq(Events) BY DEF e
    <3>2. QED BY <2>1, <3>1
  <2>3. 1 \in 1 .. Len(e) BY <1>2, <2>2
  <2>4. d[1] = e[1] BY <1>1, <2>3
  <2>5. d # <<>> BY <1>1, <1>2
  <2>6. QED BY <2>1, <2>4, <2>5 DEF HeadersFirst, d
<1>4. ASSUME NEW n \in {1, 2}, Awaits(a, n) PROVE Awaits(b, n)
  <2>1. ~(Len(e) < n) /\ e[n].kind = "headers" BY <1>4 DEF Awaits, e
  <2>2. n \in 1 .. Len(e) BY <1>2, <2>1
  <2>3. d[n] = e[n] /\ ~(Len(d) < n) BY <1>1, <1>2, <2>1, <2>2
  <2>4. QED BY <2>1, <2>3 DEF Awaits, d
<1>5. QED BY <1>3, <1>4

\* It is fine, if the stream's window had room.
LEMMA FedFine ==
  ASSUME NEW c \in Contexts, NEW init \in 0 .. MaxWindow, NEW k, NEW st \in Streams, NEW w,
         Fine(c, init, k, st, w), IsRecvStreaming(st.state), NEW n \in Nat, MaySendData(st.flow, n),
         NEW eos \in BOOLEAN
  PROVE  /\ Fine(c, init, k, Fed(st, n, eos), w)
         /\ Ready(c, st, w) => Ready(c, Fed(st, n, eos), w)
<1> DEFINE r == Fed(st, n, eos)
<1>1. st.state \in RoleStates(c.i) BY DEF Fine
<1>2. /\ r \in Streams /\ r.state = (IF eos THEN RecvClose(st.state) ELSE st.state)
      /\ r.flow.window = st.flow.window - n /\ r.flow.available = st.flow.available - n
      /\ r.inFlight = st.inFlight + n
      /\ r.events = Append(st.events, Event("data", n)) /\ r.handles = st.handles
      /\ r.promises = st.promises /\ r.counted = st.counted /\ r.out = st.out
  BY <1>1, FedIs
<1>3. /\ st.flow.window \in Int /\ st.flow.available \in Int /\ st.inFlight \in Int /\ init \in Int
      /\ st.events \in Seq(Events) /\ Event("data", n) \in Events
  BY MaxWindowAssumption DEF Streams, Flows, Event, Events
<1> HIDE DEF r
<1>4. /\ r.state \in RoleStates(c.i) /\ r.state \notin {Idle, ReservedRemote}
      /\ ~IsClosed(st.state) /\ ~IsReset(st.state) /\ st.state # Idle
      /\ (IsRecvStreaming(r.state) => IsRecvStreaming(st.state))
  BY <1>1, <1>2, StreamingStates
<1>5. Live(st) BY <1>4 DEF Live
<1>6. {"current", "alone"} \subseteq w /\ st.flow.available + st.inFlight = init /\ st.flow.window <= init
      /\ "expiring" \notin w /\ k \in Nat
  BY <1>4, <1>5 DEF Fine
<1>7. /\ r.flow.available + r.inFlight = init /\ r.flow.window <= init /\ r.flow.window >= 0
  BY <1>2, <1>3, <1>6 DEF MaySendData, SizeLeq
<1>8. HeadersFirst(st) => HeadersFirst(r) BY <1>2, <1>3, AwaitsMore
<1>9. (Awaits(st, 1) => Awaits(r, 1)) /\ (Awaits(st, 2) => Awaits(r, 2)) BY <1>2, <1>3, AwaitsMore
<1>10. Fine(c, init, k, r, w) BY <1>2, <1>4, <1>6, <1>7, <1>8, <1>9 DEF Fine
<1>11. Ready(c, st, w) => Ready(c, r, w) BY <1>2, <1>4 DEF Ready, Owned, Keeps
<1>12. QED BY <1>10, <1>11 DEF r

\* A frame that fits the stream's window and the length of its message.
TakesData(o, s, n, eos) ==
  AsSize(o.store[s].flow.window) >= n /\ LengthFits(o.store[s].length, n, eos)

\* Recv::recv_data does that.
LEMMA TakenIs ==
  ASSUME NEW c \in Contexts, NEW o \in Locked(c.i), NEW s \in Slab(o), NEW n, NEW eos \in BOOLEAN,
         MaySendData(o.store[s].flow, n), TakesData(o, s, n, eos), AsSize(o.store[s].flow.window) \in Int,
         n \in Int
  PROVE  StreamData(o, s, n, eos) = Sets(o, s, Fed(o.store[s], n, eos))
<1> DEFINE st == o.store[s]
           a1 == [o EXCEPT !.store[s].flow = SendDataOn(st.flow, n)]
           a2 == [a1 EXCEPT !.store[s].inFlight = st.inFlight + n]
           a3 == [a2 EXCEPT !.store[s].length = Left2(st, n)]
           a4 == [a3 EXCEPT !.store[s].state = IF eos THEN RecvClose(st.state) ELSE st.state]
           a5 == [a4 EXCEPT !.store[s].events = Append(@, Event("data", n))]
           a6 == [a5 EXCEPT !.store[s].task = "none"]
           r1 == [st EXCEPT !.flow = SendDataOn(st.flow, n)]
           r2 == [r1 EXCEPT !.inFlight = st.inFlight + n]
           r3 == [r2 EXCEPT !.length = Left2(st, n)]
           r4 == [r3 EXCEPT !.state = IF eos THEN RecvClose(st.state) ELSE st.state]
           r5 == [r4 EXCEPT !.events = Append(@, Event("data", n))]
           r6 == [r5 EXCEPT !.task = "none"]
<1>1. ~(AsSize(st.flow.window) < n \/ ~LengthFits(st.length, n, eos)) BY DEF TakesData
<1>2. StreamData(o, s, n, eos) = Check(a6, MaySendData(st.flow, n), "send_data: stream window")
  <2> DEFINE bad == AsSize(st.flow.window) < n \/ ~LengthFits(st.length, n, eos)
             d == Deliver(a4, s, Event("data", n))
             good == Check(d, MaySendData(st.flow, n), "send_data: stream window")
  <2>1. StreamData(o, s, n, eos) = IF bad THEN DataError(o, s, n) ELSE good BY DEF StreamData, Left2
  <2>2. d = a6 BY DEF Deliver, Notify
  <2> HIDE DEF d, good
  <2>3. StreamData(o, s, n, eos) = good
    <3> HIDE DEF bad
    <3>1. ~bad BY <1>1 DEF bad
    <3>2. QED BY <2>1, <3>1
  <2> HIDE DEF a6
  <2>4. QED BY <2>2, <2>3 DEF good
<1>3. Check(a6, MaySendData(st.flow, n), "send_data: stream window") = a6 BY DEF Check
<1>4. Fed(st, n, eos) = r6
  <2>1. st \in Streams BY StreamTyped
  <2>2. QED BY <2>1 DEF Fed, Streams
<1>5. a1 = Sets(o, s, r1) BY DEF Sets, Stored
<1> HIDE DEF a1, r1
<1>6. a2 = Sets(o, s, r2)
  <2>1. a1.store[s] = r1 /\ Sets(a1, s, r2) = Sets(o, s, r2) BY <1>5, StoredTwice
  <2>2. a2 = Sets(a1, s, r2) BY <2>1 DEF Sets, Stored
  <2>3. QED BY <2>1, <2>2
<1> HIDE DEF a2, r2
<1>7. a3 = Sets(o, s, r3)
  <2>1. a2.store[s] = r2 /\ Sets(a2, s, r3) = Sets(o, s, r3) BY <1>6, StoredTwice
  <2>2. a3 = Sets(a2, s, r3) BY <2>1 DEF Sets, Stored
  <2>3. QED BY <2>1, <2>2
<1> HIDE DEF a3, r3
<1>8. a4 = Sets(o, s, r4)
  <2>1. a3.store[s] = r3 /\ Sets(a3, s, r4) = Sets(o, s, r4) BY <1>7, StoredTwice
  <2>2. a4 = Sets(a3, s, r4) BY <2>1 DEF Sets, Stored
  <2>3. QED BY <2>1, <2>2
<1> HIDE DEF a4, r4
<1>9. a5 = Sets(o, s, r5)
  <2>1. a4.store[s] = r4 /\ Sets(a4, s, r5) = Sets(o, s, r5) BY <1>8, StoredTwice
  <2>2. a5 = Sets(a4, s, r5) BY <2>1 DEF Sets, Stored
  <2>3. QED BY <2>1, <2>2
<1> HIDE DEF a5, r5
<1>10. a6 = Sets(o, s, r6)
  <2>1. a5.store[s] = r5 /\ Sets(a5, s, r6) = Sets(o, s, r6) BY <1>9, StoredTwice
  <2>2. a6 = Sets(a5, s, r6) BY <2>1 DEF Sets, Stored
  <2>3. QED BY <2>1, <2>2
<1>11. QED BY <1>2, <1>3, <1>4, <1>10

\* The window it has to fit: a window below 0 takes not even an empty frame.
LEMMA TakenFits ==
  ASSUME NEW c \in Contexts, NEW init, NEW k, NEW st \in Streams, NEW w, Fine(c, init, k, st, w),
         IsRecvStreaming(st.state), NEW n \in DataSizes[c.i], AsSize(st.flow.window) >= n
  PROVE  MaySendData(st.flow, n) /\ n \in Nat /\ AsSize(st.flow.window) \in Int
<1>1. c.i \in Instances BY DEF Contexts
<1>2. n \in Nat BY <1>1, RecvAssumption
<1>3. st.flow.window \in Int BY DEF Streams, Flows
<1>4. ~IsClosed(st.state) /\ st.state # Idle
  <2>1. st.state \in RoleStates(c.i) BY DEF Fine
  <2>2. QED BY <2>1, StreamingStates
<1>5. Live(st) /\ "current" \in w BY <1>4 DEF Live, Fine
<1>6. CASE n = 0
  <2>1. 0 \in DataSizes[c.i] BY <1>6
  <2>2. st.flow.window >= 0 BY <1>5, <2>1 DEF Fine
  <2>3. QED BY <1>2, <1>3, <1>6, <2>2 DEF MaySendData, SizeLeq, AsSize
<1>7. CASE n # 0 BY <1>2, <1>3, <1>7 DEF MaySendData, SizeLeq, AsSize
<1>8. QED BY <1>6, <1>7

\* The frame is taken: its bytes are the stream's.
LEMMA TakenSound ==
  ASSUME NEW c \in Contexts, NEW o, NEW n \in DataSizes[c.i], Sound(c, o, {}, n), NEW s \in Slab(o),
         IsRecvStreaming(o.store[s].state), NEW eos \in BOOLEAN, TakesData(o, s, n, eos)
  PROVE  LET x == StreamData(o, s, n, eos)
         IN  Closes(c, o, x, TransitionAfter(x, s, Queued(o.expiring, s)), s, Fed(o.store[s], n, eos), 0)
<1> DEFINE st == o.store[s]
           r == Fed(st, n, eos)
           w == Marks(o, s)
           x == StreamData(o, s, n, eos)
           z == 0
           y == o.woken
           none == {}
<1>1. o \in Locked(c.i) /\ Fine(c, o.initWindow, s, st, w) /\ Settled(c, st, w) BY DEF Sound
<1>2. st \in Streams /\ o.initWindow \in 0 .. MaxWindow /\ y \in BOOLEAN /\ st.state \in RoleStates(c.i)
  BY <1>1, StreamTyped DEF Locked, Fine
<1>3. MaySendData(st.flow, n) /\ n \in Nat /\ n \in Int /\ AsSize(st.flow.window) \in Int
  BY <1>1, <1>2, TakenFits DEF TakesData
<1>4. x = Sets(o, s, r) BY <1>1, <1>3, TakenIs
<1>5. /\ r \in Streams /\ r.inFlight = st.inFlight + n /\ r.promises = st.promises /\ r.counted = st.counted
      /\ st.inFlight \in Int
  <2>1. st.inFlight \in Int BY <1>2 DEF Streams
  <2>2. QED BY <1>2, <1>3, <2>1, FedIs
<1>6. Fine(c, o.initWindow, s, r, w) /\ (Ready(c, st, w) => Ready(c, r, w)) BY <1>1, <1>2, <1>3, FedFine
<1>7. Ready(c, r, w) BY <1>1, <1>6 DEF Settled
<1>8. x = Put(o, s, r, NoQueue, y) BY <1>1, <1>4, StorePuts
<1>9. NoQueue \in SUBSET Pushable /\ w \cup NoQueue = w BY DEF NoQueue
<1>10. z = n + (st.inFlight - r.inFlight) BY <1>3, <1>5
<1>11. Sound(c, o, none, n) OBVIOUS
<1> HIDE DEF r, w, x, z, y, none
<1>12. PutTo(c, o, Put(o, s, r, NoQueue, y), s, r, NoQueue, none, z)
  BY <1>2, <1>3, <1>5, <1>6, <1>9, <1>10, <1>11, PutBytes DEF w
<1>13. Ready(c, r, Marks(o, s) \cup NoQueue) BY <1>7, <1>9 DEF w
<1>14. none \subseteq {s} BY DEF none
<1>15. Closes(c, o, x, TransitionAfter(x, s, Queued(o.expiring, s)), s, r, z)
  BY <1>1, <1>8, <1>12, <1>13, <1>14, PutSettles
<1>16. QED BY <1>15 DEF x, r, z

\* A frame that does not fit: its bytes are given back, the stream is reset.
LEMMA DataErrorSound ==
  ASSUME NEW c \in Contexts, NEW o, NEW n \in Nat, Sound(c, o, {}, n), NEW s \in Slab(o),
         IsRecvStreaming(o.store[s].state)
  PROVE  LET y == TransitionAfter(DataError(o, s, n), s, Queued(o.expiring, s))
         IN  /\ Sound(c, y, {}, 0) /\ Steady(c, o, y, {}) /\ (s \in Slab(y) => y.store[s].state \in LocalResets)
             /\ \A t \in DOMAIN y.ids : t \in DOMAIN o.ids /\ y.ids[t] = o.ids[t]
<1> DEFINE no == FALSE
           p == ReleaseConnection(o, n, no)
           f == AssignCapacity(o.flow, n)
           z == 0
           none == {}
           x == SendReset(p, s)
           q == Queued(o.expiring, s)
           y == TransitionAfter(x, s, q)
<1>1. o \in Locked(c.i) /\ Sound(c, o, none, n) /\ n \in Int BY DEF Sound
<1>2. o.inFlight >= n
  <2>1. o.inFlight \in Int /\ n <= o.inFlight BY BytesFit
  <2>2. QED BY <2>1
<1>3. no \in BOOLEAN /\ z = n - n /\ z \in Int OBVIOUS
<1> HIDE DEF none, z, no
<1>4. Moved(c, o, p, f, none, z) BY <1>1, <1>2, <1>3, ReleaseConnectionSound
<1>5. f.window = o.flow.window
  <2>1. o.flow \in Flows BY <1>1 DEF Locked
  <2>2. QED BY <2>1 DEF Flows, AssignCapacity
<1> HIDE DEF p, f
<1>6. /\ Sound(c, p, none, z) /\ p.store = o.store /\ s \in Slab(p) /\ p.expiring = o.expiring
      /\ Steady(c, o, p, none) /\ p \in Locked(c.i) /\ p.ids = o.ids
  BY <1>4, <1>5 DEF Moved, Sound
<1>7. Fine(c, p.initWindow, s, p.store[s], Marks(p, s)) /\ Settled(c, p.store[s], Marks(p, s))
  BY <1>6 DEF Sound, none
<1>8. ~IsReset(p.store[s].state)
  <2>1. p.store[s].state \in RoleStates(c.i) BY <1>7 DEF Fine
  <2>2. QED BY <1>6, <2>1, StreamingStates
<1>9. EndsOne(p, x, s, LocalResets) BY <1>6, <1>8, SendResetEnds
<1> HIDE DEF x
<1>10. Ended(c, p, x, s, none, z, LocalResets) BY <1>3, <1>6, <1>9, EndsOneSound
<1>11. Fit(c, p.store[s], Marks(p, s)) BY <1>7, ReadyFit
<1>12. none \subseteq {s} BY DEF none
<1>13. Finishes(c, p, TransitionAfter(x, s, Queued(p.expiring, s)), s, z, LocalResets)
  BY <1>3, <1>6, <1>10, <1>11, <1>12, EndedFinishes
<1>14. Finishes(c, p, y, s, z, LocalResets) BY <1>6, <1>13
<1> HIDE DEF y
<1>15. /\ Sound(c, y, none, z) /\ Steady(c, p, y, none) /\ (s \in Slab(y) => y.store[s].state \in LocalResets)
       /\ \A t \in DOMAIN y.ids : t \in DOMAIN p.ids /\ y.ids[t] = p.ids[t]
  BY <1>14 DEF Finishes, none
<1>16. y \in Locked(c.i) BY <1>15 DEF Sound
<1>17. Steady(c, o, y, none) BY <1>1, <1>6, <1>15, <1>16, SteadyTwice
<1>18. y = TransitionAfter(DataError(o, s, n), s, q) BY DEF y, x, p, no, DataError
<1>19. QED BY <1>6, <1>15, <1>17, <1>18 DEF none, z

\* What this end has reset is not looked at any more.
LEMMA ToldReset ==
  ASSUME NEW i, NEW init, NEW p, NEW st, IsLocalReset(st.state)
  PROVE  Told(i, init, p, st)
BY DEF Told, IsLocalReset, IsRecvStreaming, IsRecvHeaders, Open, HalfClosedLocal, Idle, ReservedRemote, Closed

\* The operation on the entry k is over, where an error was met.
LEMMA ErrorPassed ==
  ASSUME NEW c \in Contexts, NEW m, Sound(c, m, {}, 0), NEW k \in Slab(m)
  PROVE  LET o == TransitionAfter(ConnError(m), k, Queued(m.expiring, k))
         IN  Sound(c, o, {}, 0) /\ o.err
<1> DEFINE e == ConnError(m)
           q == Queued(m.expiring, k)
           o == TransitionAfter(e, k, q)
           none == {}
           z == 0
<1>1. none \ {k} = none /\ z \in Int /\ Sound(c, m, none, z) OBVIOUS
<1>2. e.expiring = m.expiring /\ e.store = m.store BY DEF ConnError
<1>3. q \in BOOLEAN /\ MayExpire(e, k, q) BY <1>2 DEF MayExpire, Queued, Contains
<1> HIDE DEF none, z, e, q
<1>4. Sound(c, e, none, z) /\ e.err /\ k \in Slab(e) /\ Marks(e, k) = Marks(m, k) BY <1>1, ErrorSound DEF e
<1>5. Ready(c, e.store[k], Marks(e, k)) BY <1>2, <1>4 DEF Sound, Settled, none
<1>6. Settles(c, e, o, k, none, z) BY <1>3, <1>4, <1>5, TransitionSettles
<1> HIDE DEF o
<1>7. Sound(c, o, none, z) /\ o.err = e.err BY <1>1, <1>6 DEF Settles, Steady
<1>8. QED BY <1>4, <1>7 DEF o, e, q, none, z

\* The same where only the connection's windows have moved.
LEMMA MovedPassed ==
  ASSUME NEW c \in Contexts, NEW m, Sound(c, m, {}, 0), NEW k \in Slab(m), NEW e, NEW f, Moved(c, m, e, f, {}, 0)
  PROVE  LET o == TransitionAfter(e, k, Queued(m.expiring, k))
         IN  /\ Sound(c, o, {}, 0) /\ Steady(c, e, o, {})
             /\ k \in Slab(o) => SameBut(m.store[k], o.store[k])
             /\ \A t \in DOMAIN o.ids : t \in DOMAIN m.ids /\ o.ids[t] = m.ids[t]
<1> DEFINE q == Queued(m.expiring, k)
           o == TransitionAfter(e, k, q)
           none == {}
           z == 0
<1>1. none \ {k} = none /\ z \in Int OBVIOUS
<1>2. /\ e.expiring = m.expiring /\ e.store = m.store /\ Sound(c, e, none, z) /\ k \in Slab(e)
      /\ Marks(e, k) = Marks(m, k) /\ e.ids = m.ids
  BY DEF Moved
<1>3. q \in BOOLEAN /\ MayExpire(e, k, q) BY <1>2 DEF MayExpire, Queued, Contains
<1>4. Ready(c, e.store[k], Marks(e, k)) BY <1>2 DEF Sound, Settled
<1> HIDE DEF none, z, q
<1>5. Settles(c, e, o, k, none, z) BY <1>2, <1>3, <1>4, TransitionSettles
<1> HIDE DEF o
<1>6. Sound(c, o, none, z) /\ Steady(c, e, o, {}) /\ Thins(e, o, Gone(e, k)) BY <1>1, <1>5 DEF Settles
<1>7. QED BY <1>2, <1>6 DEF o, q, none, z, Thins

\* What is known of the stream when the frame has been read.
FedOrReset(m, o, s, n, eos) ==
  Linked(o, s) =>
    \/ IsLocalReset(o.store[o.ids[s]].state)
    \/ /\ Linked(m, s) /\ IsRecvStreaming(m.store[m.ids[s]].state)
       /\ SameBut(Fed(m.store[m.ids[s]], n, eos), o.store[o.ids[s]])
DataRead(c, m, o, s, n, eos) ==
  /\ Sound(c, o, {}, 0)
  /\ ~o.err => /\ \E q, l : /\ Moved(c, m, q, q.flow, {}, l) /\ q.flow.window = m.flow.window - n
                            /\ q \in Locked(c.i) /\ Steady(c, q, o, {s})
               /\ FedOrReset(m, o, s, n, eos)

\* A stream that is streaming.
LEMMA StreamRead ==
  ASSUME NEW c \in Contexts, NEW m, Sound(c, m, {}, 0), NEW k \in Slab(m), NEW n \in DataSizes[c.i],
         IsRecvStreaming(m.store[k].state), NEW eos \in BOOLEAN, NEW s, k \in Slab(m), Linked(m, s), m.ids[s] = k,
         NEW q, Moved(c, m, q, q.flow, {}, n), q.flow.window = m.flow.window - n
  PROVE  DataRead(c, m, TransitionAfter(StreamData(q, k, n, eos), k, Queued(m.expiring, k)), s, n, eos)
<1> DEFINE x == StreamData(q, k, n, eos)
           o == TransitionAfter(x, k, Queued(q.expiring, k))
           ids == {s}
<1>1. /\ Sound(c, q, {}, n) /\ q.store = m.store /\ q.ids = m.ids /\ k \in Slab(q) /\ q.expiring = m.expiring
      /\ q \in Locked(c.i) /\ IsRecvStreaming(q.store[k].state)
  BY DEF Moved, Sound
<1>2. IdOf(k) = s /\ n \in Nat
  <2>1. c.i \in Instances BY DEF Contexts
  <2>2. QED BY <2>1, RecvAssumption DEF Sound, Linking, Linked
<1>3. CASE TakesData(q, k, n, eos)
  <2>1. Closes(c, q, x, o, k, Fed(q.store[k], n, eos), 0) BY <1>1, <1>3, TakenSound
  <2> HIDE DEF o
  <2>2. /\ Sound(c, o, {}, 0) /\ Steady(c, q, o, ids) /\ (k \in Slab(o) => SameBut(Fed(m.store[k], n, eos), o.store[k]))
        /\ \A t \in DOMAIN o.ids : t \in DOMAIN q.ids /\ o.ids[t] = q.ids[t]
    BY <1>1, <1>2, <2>1 DEF Closes
  <2>3. FedOrReset(m, o, s, n, eos)
    <3>1. Linked(o, s) => o.ids[s] = k /\ k \in Slab(o) BY <1>1, <2>2 DEF Linked, Sound, Linking
    <3>2. QED BY <2>2, <3>1 DEF FedOrReset
  <2>4. QED BY <1>1, <2>2, <2>3 DEF DataRead, o
<1>4. CASE ~TakesData(q, k, n, eos)
  <2>1. x = DataError(q, k, n)
    <3>1. q.store[k].flow.window \in Int
      <4>1. q.store[k] \in Streams BY <1>1, StreamTyped
      <4>2. QED BY <4>1 DEF Streams, Flows
    <3>2. AsSize(q.store[k].flow.window) \in Int BY <3>1 DEF AsSize
    <3>3. AsSize(q.store[k].flow.window) < n \/ ~LengthFits(q.store[k].length, n, eos)
      BY <1>2, <1>4, <3>2 DEF TakesData
    <3>4. QED BY <3>3 DEF StreamData
  <2>2. /\ Sound(c, o, {}, 0) /\ Steady(c, q, o, {}) /\ (k \in Slab(o) => o.store[k].state \in LocalResets)
        /\ \A t \in DOMAIN o.ids : t \in DOMAIN q.ids /\ o.ids[t] = q.ids[t]
    BY <1>1, <1>2, <2>1, DataErrorSound
  <2> HIDE DEF o
  <2>3. Steady(c, q, o, ids) BY <2>2, SteadyMore
  <2>4. FedOrReset(m, o, s, n, eos)
    <3>1. Linked(o, s) => o.ids[s] = k /\ k \in Slab(o) BY <1>1, <2>2 DEF Linked, Sound, Linking
    <3>2. QED BY <2>2, <3>1 DEF FedOrReset, LocalResets, IsLocalReset
  <2>5. QED BY <1>1, <2>2, <2>3, <2>4 DEF DataRead, o
<1>5. QED BY <1>1, <1>3, <1>4

\* A frame for a stream that an id finds.
LEMMA LinkedRead ==
  ASSUME NEW c \in Contexts, NEW m, Sound(c, m, {}, 0), ~m.err, NEW s, Linked(m, s),
         NEW n \in DataSizes[c.i], NEW eos \in BOOLEAN
  PROVE  DataRead(c, m, RecvDataFrame(m, s, n, eos), s, n, eos)
<1> DEFINE k == m.ids[s]
           st == m.store[k]
           q == Queued(m.expiring, k)
           consumed == ConsumeConnectionWindow(m, n)
           ignored == IgnoreData(m, n)
           body == CASE IsLocalReset(st.state) -> ignored
                     [] IsRecvStreaming(st.state) ->
                          IF consumed.err THEN consumed ELSE StreamData(consumed, k, n, eos)
                     [] OTHER -> ConnError(m)
           o == RecvDataFrame(m, s, n, eos)
           z == 0
           none == {}
           ids == {s}
           e == ConnError(m)
<1>1. o = TransitionAfter(body, k, q) BY DEF RecvDataFrame, Transition
<1>2. n \in Nat
  <2>1. c.i \in Instances BY DEF Contexts
  <2>2. QED BY <2>1, RecvAssumption
<1>3. k \in Slab(m) /\ IdOf(k) = s /\ z \in Int /\ z \in Nat /\ z + n = n BY <1>2 DEF Sound, Linking, Linked
<1>4. ~(IsLocalReset(st.state) /\ IsRecvStreaming(st.state))
  <2>1. st.state \in RoleStates(c.i) BY <1>3 DEF Sound, Fine
  <2>2. QED BY <2>1, StreamingStates
<1>5. m \in Locked(c.i) BY DEF Sound
<1>6. m.flow.window \in Int BY <1>5 DEF Locked, Flows
<1> HIDE DEF consumed, ignored, st, o
<1>13. /\ IsLocalReset(st.state) => body = ignored
       /\ IsRecvStreaming(st.state) => body = IF consumed.err THEN consumed ELSE StreamData(consumed, k, n, eos)
       /\ ~IsLocalReset(st.state) /\ ~IsRecvStreaming(st.state) => body = e
  <2> HIDE DEF k, e
  <2>1. QED BY <1>4 DEF e
<1> HIDE DEF k, q, body
<1>7. e.err /\ Sound(c, TransitionAfter(e, k, q), {}, 0) /\ TransitionAfter(e, k, q).err
  BY <1>3, <1>5, ErrorPassed DEF ConnError, Locked, q
<1> HIDE DEF e
<1>8. ASSUME body = e PROVE DataRead(c, m, RecvDataFrame(m, s, n, eos), s, n, eos)
  BY <1>1, <1>7, <1>8 DEF DataRead, o
<1>9. CASE IsLocalReset(st.state)
  <2> HIDE DEF z, none
  <2>1. Sound(c, m, none, z) BY DEF none, z
  <2> HIDE DEF ignored
  <2>2. Ignores(c, m, ignored, n, none, z) /\ AsSize(m.flow.window) \in Nat BY <1>2, <1>3, <2>1, IgnoreSound DEF ignored
  <2>3. body = ignored BY <1>9, <1>13
  <2>4. CASE AsSize(m.flow.window) < n
    <3>1. ignored = e BY <2>2, <2>4 DEF Ignores, e
    <3>2. QED BY <1>8, <2>3, <3>1
  <2>5. CASE ~(AsSize(m.flow.window) < n)
    <3>1. /\ Moved(c, m, ignored, ignored.flow, none, z) /\ ignored.flow.window = m.flow.window - n
      BY <1>2, <2>2, <2>5 DEF Ignores
    <3> DEFINE p == TransitionAfter(ignored, k, q)
    <3>2. /\ Sound(c, p, none, z) /\ Steady(c, ignored, p, none) /\ (k \in Slab(p) => SameBut(st, p.store[k]))
          /\ \A t \in DOMAIN p.ids : t \in DOMAIN m.ids /\ p.ids[t] = m.ids[t]
      BY <1>3, <3>1, MovedPassed DEF none, z, q, st
    <3>3. o = p BY <1>1, <2>3
    <3> HIDE DEF p
    <3>4. none \subseteq ids BY DEF none
    <3> HIDE DEF ids
    <3>5. Steady(c, ignored, p, ids) BY <3>2, <3>4, SteadyMore
    <3>6. FedOrReset(m, p, s, n, eos)
      <4>1. ASSUME Linked(p, s) PROVE IsLocalReset(p.store[p.ids[s]].state)
        <5>1. p.ids[s] = k /\ k \in Slab(p) BY <3>2, <4>1 DEF Linked, Sound, Linking, k
        <5> DEFINE a == st
                   b == p.store[k]
        <5>2. a \in Streams /\ SameBut(a, b) BY <1>3, <1>5, <3>2, <5>1, StreamTyped DEF st
        <5> HIDE DEF a, b
        <5>3. b.state = a.state BY <5>2 DEF SameBut, Streams
        <5>4. QED BY <1>9, <5>1, <5>3 DEF a, b
      <4>2. QED BY <4>1 DEF FedOrReset
    <3>7. ignored \in Locked(c.i) BY <3>1 DEF Moved, Sound
    <3>8. DataRead(c, m, p, s, n, eos) BY <3>1, <3>2, <3>5, <3>6, <3>7 DEF DataRead, none, z, ids
    <3>9. QED BY <3>3, <3>8 DEF o
  <2>6. QED BY <2>4, <2>5
<1>10. CASE IsRecvStreaming(st.state)
  <2> HIDE DEF z, none
  <2>1. Sound(c, m, none, z) BY DEF none, z
  <2> HIDE DEF consumed
  <2>2. Consumes(c, m, consumed, n, none, z) BY <1>2, <1>3, <2>1, ConsumeSound DEF consumed
  <2>3. body = IF consumed.err THEN consumed ELSE StreamData(consumed, k, n, eos) BY <1>10, <1>13
  <2>4. AsSize(m.flow.window) \in Int BY <1>6 DEF AsSize
  <2>5. CASE AsSize(m.flow.window) < n
    <3>1. consumed = e BY <2>2, <2>5 DEF Consumes, e
    <3>2. body = e BY <1>7, <2>3, <3>1
    <3>3. QED BY <1>8, <3>2
  <2>6. CASE ~(AsSize(m.flow.window) < n)
    <3>1. /\ Moved(c, m, consumed, consumed.flow, none, n) /\ consumed.flow.window = m.flow.window - n
          /\ consumed.err = m.err
      BY <1>2, <1>3, <2>2, <2>4, <2>6 DEF Consumes
    <3>2. body = StreamData(consumed, k, n, eos) BY <2>3, <3>1
    <3>3. DataRead(c, m, TransitionAfter(StreamData(consumed, k, n, eos), k, Queued(m.expiring, k)), s, n, eos)
      BY <1>3, <1>10, <3>1, StreamRead DEF none, k, st
    <3>4. QED BY <1>1, <3>2, <3>3 DEF o, q
  <2>7. QED BY <2>5, <2>6
<1>11. CASE ~IsLocalReset(st.state) /\ ~IsRecvStreaming(st.state)
  <2>1. body = e BY <1>11, <1>13
  <2>2. QED BY <1>8, <2>1
<1>12. QED BY <1>9, <1>10, <1>11 DEF o

\* A frame for a stream that is known no more.
LEMMA UnlinkedRead ==
  ASSUME NEW c \in Contexts, NEW m, Sound(c, m, {}, 0), ~m.err, NEW s, ~Linked(m, s), MayInsert(c, m, s),
         MayHaveForgotten(m, s), NEW n \in DataSizes[c.i], NEW eos \in BOOLEAN
  PROVE  DataRead(c, m, RecvDataFrame(m, s, n, eos), s, n, eos)
<1> DEFINE ignored == IgnoreData(m, n)
           o == RecvDataFrame(m, s, n, eos)
           z == 0
           none == {}
           ids == {s}
           e == ConnError(m)
<1>1. o = IF ignored.err THEN ignored ELSE ActionsSendReset(ignored, s) BY DEF RecvDataFrame
<1>2. n \in Nat
  <2>1. c.i \in Instances BY DEF Contexts
  <2>2. QED BY <2>1, RecvAssumption
<1>3. z \in Nat /\ z \in Int OBVIOUS
<1> HIDE DEF z, none, o, ignored, e
<1>4. Sound(c, m, none, z) BY DEF none, z
<1>5. Ignores(c, m, ignored, n, none, z) /\ AsSize(m.flow.window) \in Nat BY <1>2, <1>3, <1>4, IgnoreSound DEF ignored
<1>6. CASE AsSize(m.flow.window) < n
  <2>1. ignored = e BY <1>5, <1>6 DEF Ignores, e
  <2>2. Sound(c, e, none, z) /\ e.err BY <1>3, <1>4, ErrorSound DEF e
  <2>3. o = e BY <1>1, <2>1, <2>2
  <2>4. QED BY <2>2, <2>3 DEF DataRead, o, none, z
<1>7. CASE ~(AsSize(m.flow.window) < n)
  <2>1. /\ Moved(c, m, ignored, ignored.flow, none, z) /\ ignored.flow.window = m.flow.window - n /\ ~ignored.err
    BY <1>2, <1>5, <1>7 DEF Ignores
  <2>2. o = ActionsSendReset(ignored, s) BY <1>1, <2>1
  <2>3. Sound(c, ignored, none, z) /\ ~Linked(ignored, s) /\ MayInsert(c, ignored, s) /\ ignored \in Locked(c.i)
    BY <2>1 DEF Moved, Linked, MayInsert, Sound
  <2>4. Resets(c, ignored, o, s, z) BY <1>3, <2>2, <2>3, ResetSound DEF none
  <2>5. FedOrReset(m, o, s, n, eos) BY <2>3, <2>4 DEF Resets, FedOrReset
  <2>6. Sound(c, o, none, z) /\ Steady(c, ignored, o, ids) BY <2>4 DEF Resets, none
  <2>7. QED BY <2>1, <2>3, <2>5, <2>6 DEF DataRead, none, z, o
<1>8. QED BY <1>6, <1>7

\* What the peer knows of the stream afterwards.
LEMMA ToldFed ==
  ASSUME NEW i, NEW init, NEW p, NEW st \in Streams, st.state \in RoleStates(i), IsRecvStreaming(st.state),
         NEW n \in Nat, NEW eos \in BOOLEAN, Told(i, init, p, st), NEW b, SameBut(Fed(st, n, eos), b),
         NEW r, r.credit = p.credit - n, r.said = IF eos THEN "ended" ELSE p.said
  PROVE  Told(i, init, r, b)
<1> DEFINE a == Fed(st, n, eos)
<1>1. /\ a \in Streams /\ a.state = (IF eos THEN RecvClose(st.state) ELSE st.state)
      /\ a.flow.window = st.flow.window - n
  BY FedIs
<1> HIDE DEF a
<1>2. b.state = a.state /\ b.flow = a.flow
  <2>1. SameBut(a, b) BY DEF a
  <2>2. QED BY <1>1, <2>1 DEF SameBut, Streams
<1>3. p.said = "open" /\ st.flow.window = p.credit BY DEF Told
<1>4. CASE eos
  <2>1. b.state = RecvClose(st.state) BY <1>1, <1>2, <1>4
  <2>2. ~IsRecvStreaming(b.state) /\ ~IsRecvHeaders(b.state) /\ b.state # ReservedRemote
    BY <2>1, StreamingStates
  <2>3. r.said = "ended" BY <1>4
  <2>4. QED BY <2>2, <2>3 DEF Told
<1>5. CASE ~eos
  <2>1. b.state = st.state BY <1>1, <1>2, <1>5
  <2>2. ~IsClosed(b.state) /\ ~IsRecvHeaders(b.state) /\ b.state # ReservedRemote
    BY <2>1, StreamingStates
  <2>3. b.state # Closed("EndStream") BY <2>2 DEF IsClosed, Closed
  <2>4. r.said = "open" BY <1>3, <1>5
  <2>5. b.flow.window = r.credit BY <1>1, <1>2, <1>3
  <2>6. QED BY <2>2, <2>3, <2>4, <2>5 DEF Told
<1>6. QED BY <1>4, <1>5

\* What the peer knows after it has sent n bytes.
LEMMA SentIs ==
  ASSUME IInv, NEW s \in Ids, NEW n \in Nat, NEW eos \in BOOLEAN,
         LET from == peer.stream[s]
             told == [from EXCEPT !.sent = @ + n, !.credit = @ - n, !.said = IF eos THEN "ended" ELSE @]
         IN  peer' = [conn |-> peer.conn - n, stream |-> [peer.stream EXCEPT ![s] = told]]
  PROVE  LET q == [peer EXCEPT !.conn = @ - n]
         IN  /\ peer' \in Peer /\ Spoken(instance, q, peer', s) /\ q.stream = peer.stream
             /\ q.conn = peer.conn - n /\ peer'.stream[s].credit = peer.stream[s].credit - n
             /\ peer'.stream[s].said = IF eos THEN "ended" ELSE peer.stream[s].said
<1> DEFINE q == [peer EXCEPT !.conn = @ - n]
           p == peer'
           was == peer.stream[s]
           says == IF eos THEN "ended" ELSE was.said
           sent == was.sent + n
           credit == was.credit - n
           r == [was EXCEPT !.sent = sent, !.credit = credit, !.said = says]
<1>1. peer \in Peer /\ Ids = IdsOf(instance) /\ instance \in Instances BY Before
<1>2. peer.stream \in [IdsOf(instance) -> Knows] /\ peer.conn \in Int BY <1>1 DEF Peer, Knows
<1>3. was \in Knows BY <1>1, <1>2
<1> HIDE DEF was
<1>4. /\ r \in Knows /\ r.credit = was.credit - n /\ r.said = says
  <2>1. sent \in Nat /\ credit \in Int /\ says \in {"nothing", "promised", "open", "ended", "reset"}
    BY <1>3 DEF Knows
  <2> HIDE DEF sent, says
  <2>2. QED BY <1>3, <2>1 DEF Knows
<1>5. q.stream = peer.stream /\ q.conn = peer.conn - n BY <1>1 DEF Peer
<1>6. p.stream = [peer.stream EXCEPT ![s] = r] /\ p.conn = peer.conn - n /\ p = [conn |-> p.conn, stream |-> p.stream]
  <2>1. p = [conn |-> peer.conn - n, stream |-> [peer.stream EXCEPT ![s] = r]] BY DEF was
  <2> HIDE DEF r, p
  <2>2. QED BY <2>1
<1> HIDE DEF r
<1> HIDE DEF p, q
<1>7. p.stream \in [IdsOf(instance) -> Knows] /\ p.conn \in Int BY <1>1, <1>2, <1>4, <1>6
<1>8. p \in Peer
  <2>1. p \in [conn : Int, stream : [IdsOf(instance) -> Knows]] BY <1>6, <1>7
  <2>2. QED BY <1>1, <2>1 DEF Peer, Knows
<1>9. Spoken(instance, q, p, s) /\ p.stream[s] = r
  <2>1. p.conn = q.conn /\ p.stream = [q.stream EXCEPT ![s] = r] /\ q.stream \in [IdsOf(instance) -> Knows]
    BY <1>2, <1>5, <1>6
  <2>2. QED BY <1>1, <2>1, PeerSpoken
<1>10. QED BY <1>4, <1>5, <1>8, <1>9 DEF p, q, was

\* A DATA frame.
LEMMA PeerDataStep ==
  ASSUME IInv, NEW s \in Ids, NEW n \in DataSizes[instance], NEW eos \in BOOLEAN, PeerData(s, n, eos)
  PROVE  IInv'
<1> DEFINE o == RecvDataFrame(me, s, n, eos)
           p == peer'
           b == [peer EXCEPT !.conn = @ - n]
           m == me
           c == Context
<1>1. end = "open" /\ m.refused = NoId /\ SecondEntry(s) /\ Said(s) = "open" /\ Applied(o)
  BY DEF PeerData, Reads, TaskRuns, Said
<1>2. n \in Nat /\ c \in Contexts /\ c.i = instance /\ n \in DataSizes[c.i]
  <2>1. instance \in Instances BY Before
  <2>2. QED BY <2>1, Before, RecvAssumption
<1>3. /\ p \in Peer /\ Spoken(instance, b, p, s) /\ b.stream = peer.stream /\ b.conn = peer.conn - n
      /\ p.stream[s].credit = peer.stream[s].credit - n
      /\ p.stream[s].said = IF eos THEN "ended" ELSE peer.stream[s].said
  BY <1>2, SentIs DEF PeerData
<1>4. s < m.nextId /\ MayHaveForgotten(m, s) BY <1>1, SpokenKnown
<1>5. Agree(instance, m, peer) /\ Sound(c, m, {}, 0) /\ m \in Locked(c.i) /\ s \in IdsOf(c.i) BY <1>1, Before
<1>6. DataRead(c, m, o, s, n, eos)
  <2>1. ~m.err BY <1>5 DEF Agree
  <2>2. ~Linked(m, s) => MayInsert(c, m, s) BY <1>1, <1>4, <1>5 DEF MayInsert, SecondEntry
  <2> HIDE DEF m, c
  <2>3. QED BY <1>2, <1>4, <1>5, <2>1, <2>2, LinkedRead, UnlinkedRead DEF m
<1> HIDE DEF o, p, b
<1>7. CASE o.err BY <1>1, <1>3, <1>6, <1>7, AppliedError DEF DataRead, p
<1>8. CASE ~o.err
  <2>1. PICK q, l : /\ Moved(c, m, q, q.flow, {}, l) /\ q.flow.window = m.flow.window - n
                    /\ q \in Locked(c.i) /\ Steady(c, q, o, {s})
    BY <1>6, <1>8 DEF DataRead
  <2>2. Agree(c.i, q, b)
    <3> DEFINE f == q.flow
               none == {}
               g == peer
    <3>1. f.window = b.conn BY <1>3, <1>5, <2>1 DEF Agree
    <3>2. Moved(c, m, q, f, none, l) /\ Agree(c.i, m, g) /\ b.stream = g.stream /\ c \in Contexts
      BY <1>2, <1>3, <1>5, <2>1
    <3> HIDE DEF f, none, g, c, m
    <3>3. QED BY ONLY <3>1, <3>2, MovedAgree
  <2>3. s \in DOMAIN o.ids => Told(c.i, o.initWindow, p.stream[s], o.store[o.ids[s]])
    <3> SUFFICES ASSUME s \in DOMAIN o.ids PROVE Told(c.i, o.initWindow, p.stream[s], o.store[o.ids[s]])
      OBVIOUS
    <3>1. CASE IsLocalReset(o.store[o.ids[s]].state) BY <3>1, ToldReset
    <3>2. CASE ~IsLocalReset(o.store[o.ids[s]].state)
      <4> DEFINE k == m.ids[s]
                 st == m.store[k]
      <4>1. /\ Linked(m, s) /\ IsRecvStreaming(st.state) /\ SameBut(Fed(st, n, eos), o.store[o.ids[s]])
        BY <1>6, <1>8, <3>2 DEF DataRead, FedOrReset, Linked
      <4>2. k \in Slab(m) BY <1>5, <4>1 DEF Sound, Linking, Linked
      <4>3. st \in Streams /\ st.state \in RoleStates(c.i)
        <5>1. st \in Streams BY <1>2, <1>5, <4>2, StreamTyped
        <5>2. Fine(c, m.initWindow, k, m.store[k], Marks(m, k)) BY <1>5, <4>2 DEF Sound
        <5>3. QED BY <5>1, <5>2 DEF Fine
      <4>4. Told(c.i, m.initWindow, peer.stream[s], st) BY <1>2, <1>5, <4>1 DEF Agree, Linked
      <4>5. o.initWindow = m.initWindow BY <2>1 DEF Moved, Steady
      <4> DEFINE e == peer.stream[s]
                 r == p.stream[s]
                 i == c.i
                 x == o.store[o.ids[s]]
                 w == m.initWindow
      <4>6. r.credit = e.credit - n /\ r.said = IF eos THEN "ended" ELSE e.said BY <1>3
      <4>7. /\ st \in Streams /\ st.state \in RoleStates(i) /\ IsRecvStreaming(st.state) /\ Told(i, w, e, st)
            /\ SameBut(Fed(st, n, eos), x)
        BY <4>1, <4>3, <4>4
      <4> HIDE DEF st, e, r, i, x, w
      <4>8. Told(i, w, r, x) BY <1>2, <4>6, <4>7, ToldFed
      <4>9. QED BY <4>5, <4>8 DEF i, w, r, x
    <3>3. QED BY <3>1, <3>2
  <2>4. Sound(c, o, {}, 0) BY <1>6 DEF DataRead
  <2>5. o \in Locked(c.i) BY <2>4 DEF Sound
  <2>6. p.stream[s].said \in {"open", "ended"} BY <1>1, <1>3 DEF Said
  <2>7. p.stream[s].said # "nothing" /\ p.stream[s].said # "promised" BY <2>6
  <2>8. q.refused = NoId /\ s < q.nextId BY <1>1, <1>4, <2>1 DEF Moved
  <2>9. Agree(c.i, o, p)
    <3>1. c \in Contexts /\ Spoken(c.i, b, p, s) BY <1>2, <1>3
    <3> HIDE DEF c, m
    <3>2. QED BY ONLY <2>1, <2>2, <2>3, <2>5, <2>7, <2>8, <3>1, SpokenAgree
  <2>10. Agree(instance, o, p) BY <1>2, <2>9
  <2>11. QED BY <1>1, <1>3, <1>8, <2>4, <2>10, AppliedSpoken DEF p
<1>9. QED BY <1>7, <1>8

-----------------------------------------------------------------------------
(* HEADERS.                                                                  *)

\* The record with `more` slots taken, before it is said for whom.
Bump(m, more) == [m EXCEPT !.numRecv = @ + more]

\* One entry changes, which takes a slot if it is to be counted from now on.
PutMore(c, m, n, s, r, P, X, loose, more) ==
  /\ Sound(c, n, X \cup {s}, loose) /\ Slab(n) = Slab(m) /\ n.store[s] = r
  /\ \A k \in Slab(m) : k # s => n.store[k] = m.store[k] /\ Marks(n, k) = Marks(m, k)
  /\ Marks(n, s) = Marks(m, s) \cup P
  /\ Settled(c, r, Marks(m, s) \cup P) => Sound(c, n, X \ {s}, loose)
  /\ Steady(c, Bump(m, more), n, {IdOf(s)})
  /\ n.expiring = m.expiring /\ n.refused = m.refused /\ n.ids = m.ids
Takes1(c, m, a, b, more) ==
  \/ more = 0 /\ b.counted = a.counted
  \/ more = 1 /\ b.counted /\ ~a.counted /\ m.numRecv < MaxRecv[c.i]

\* The counter of slots alone changes.
LEMMA BumpIs ==
  ASSUME NEW c \in Contexts, NEW m \in Locked(c.i), NEW more \in Int
  PROVE  LET n == Bump(m, more)
         IN  /\ n \in Locked(c.i) /\ n.store = m.store /\ n.ids = m.ids /\ n.numRecv = m.numRecv + more
             /\ Slab(n) = Slab(m) /\ (Queues(m) => Queues(n)) /\ (Linking(m) => Linking(n))
             /\ \A o, s, r, P : Replaces(n, o, s, r, P) => Replaces(m, o, s, r, P)
             /\ n.flow = m.flow /\ n.inFlight = m.inFlight /\ n.err = m.err /\ n.refused = m.refused
             /\ n.initWindow = m.initWindow /\ n.nextId = m.nextId /\ n.woken = m.woken
             /\ n.expiring = m.expiring /\ n.sending = m.sending /\ n.local = m.local
             /\ \A k : Marks(n, k) = Marks(m, k)
<1> DEFINE n == Bump(m, more)
<1>1. m.numRecv + more \in Int BY DEF Locked
<1>2. n \in Locked(c.i) BY <1>1 DEF Locked, Bump
<1>3. /\ n.store = m.store /\ n.ids = m.ids /\ n.numRecv = m.numRecv + more
      /\ n.accept = m.accept /\ n.updates = m.updates /\ n.expiring = m.expiring /\ n.sending = m.sending
      /\ n.initWindow = m.initWindow /\ n.nextId = m.nextId /\ n.local = m.local
      /\ n.numReset = m.numReset /\ n.lost = m.lost /\ n.woken = m.woken
      /\ n.flow = m.flow /\ n.inFlight = m.inFlight /\ n.err = m.err /\ n.refused = m.refused
  BY DEF Locked, Bump
<1> HIDE DEF n
<1>4. \A o, s, r, P : Replaces(n, o, s, r, P) => Replaces(m, o, s, r, P) BY <1>3 DEF Replaces
<1>5. Slab(n) = Slab(m) BY <1>3 DEF Slab
<1>6. (Queues(m) => Queues(n)) /\ (Linking(m) => Linking(n)) BY <1>3, <1>5 DEF Queues, Linking
<1>7. \A k : Marks(n, k) = Marks(m, k) BY <1>3, AsideMarks
<1>8. QED BY <1>2, <1>3, <1>4, <1>5, <1>6, <1>7 DEF n

\* The entry is replaced, and its slot counted.
LEMMA PutCounted ==
  ASSUME NEW c \in Contexts, NEW m, NEW X, NEW loose \in Int, Sound(c, m, X, loose),
         NEW s \in Slab(m), NEW r \in Streams, NEW P \in SUBSET Pushable, NEW w \in BOOLEAN,
         r.promises = m.store[s].promises, r.inFlight = m.store[s].inFlight,
         NEW more \in Int, Takes1(c, m, m.store[s], r, more),
         Fine(c, m.initWindow, s, r, Marks(m, s) \cup P)
  PROVE  PutMore(c, m, Put(Bump(m, more), s, r, P, w), s, r, P, X, loose, more)
<1> DEFINE b == Bump(m, more)
           n == Put(b, s, r, P, w)
           one == {IdOf(s)}
<1>1. m \in Locked(c.i) /\ Queues(m) /\ Linking(m) /\ Window(c, m, loose) BY DEF Sound
<1>2. /\ b \in Locked(c.i) /\ b.store = m.store /\ b.ids = m.ids /\ b.numRecv = m.numRecv + more
      /\ Slab(b) = Slab(m) /\ Queues(b) /\ Linking(b)
      /\ \A o, t, x, Q : Replaces(b, o, t, x, Q) => Replaces(m, o, t, x, Q)
      /\ b.flow = m.flow /\ b.inFlight = m.inFlight /\ b.err = m.err /\ b.refused = m.refused
  BY <1>1, BumpIs
<1> HIDE DEF b
<1>3. /\ n \in Locked(c.i) /\ Replaces(b, n, s, r, P)
      /\ n.flow = b.flow /\ n.inFlight = b.inFlight /\ n.numRecv = b.numRecv /\ n.err = b.err
      /\ n.refused = b.refused
  <2>1. s \in Slab(b) BY <1>2
  <2>2. QED BY <1>2, <2>1, PutIs
<1> HIDE DEF n
<1>4. Replaces(m, n, s, r, P) BY <1>2, <1>3
<1>5. Balances(c, m, n, m.store[s], r, loose, loose)
  <2>1. r.inFlight \in Int /\ m.inFlight \in Int /\ m.store[s].inFlight = r.inFlight BY <1>1 DEF Streams, Locked
  <2>2. QED BY <1>1, <1>2, <1>3, <2>1 DEF Balances, Window
<1>6. Counts(c, m, n, m.store[s], r)
  <2>1. m.numRecv \in Int BY <1>1 DEF Locked
  <2>2. QED BY <1>2, <1>3, <2>1 DEF Counts, Takes1
<1>7. /\ Sound(c, n, X \cup {s}, loose) /\ Slab(n) = Slab(m) /\ n.store[s] = r
      /\ \A k \in Slab(m) : k # s => n.store[k] = m.store[k] /\ Marks(n, k) = Marks(m, k)
      /\ Marks(n, s) = Marks(m, s) \cup P
      /\ Settled(c, r, Marks(m, s) \cup P) => Sound(c, n, X \ {s}, loose)
  <2>1. /\ Sound(c, m, X, loose) /\ n \in Locked(c.i) /\ Replaces(m, n, s, r, P)
        /\ Balances(c, m, n, m.store[s], r, loose, loose) /\ Counts(c, m, n, m.store[s], r)
        /\ Fine(c, m.initWindow, s, r, Marks(m, s) \cup P) /\ r.promises = m.store[s].promises
    BY <1>3, <1>4, <1>5, <1>6
  <2>2. c \in Contexts /\ loose \in Int /\ s \in Slab(m) /\ r \in Streams OBVIOUS
  <2>3. QED BY ONLY <2>1, <2>2, PutSound
<1>8. IdOf(s) \in one OBVIOUS
<1> HIDE DEF one
<1>9. Steady(c, b, n, one)
  <2>1. n.numRecv <= b.numRecv
    <3>1. b.numRecv \in Int BY <1>2 DEF Locked
    <3>2. QED BY <1>3, <3>1
  <2>2. s \in Slab(b) /\ n.flow.window = b.flow.window BY <1>2, <1>3
  <2>3. QED BY <1>2, <1>3, <1>8, <2>1, <2>2, ReplacesSteady
<1>10. n.expiring = m.expiring /\ n.ids = m.ids BY <1>4 DEF Replaces
<1>11. QED BY <1>2, <1>3, <1>7, <1>9, <1>10 DEF PutMore, n, b, one

\* The entry of a request that is new, and one of a message that is awaited.
Opening(c, init, k, st, w) ==
  /\ c.i \in Servers /\ st.state = Idle /\ k \in Nat /\ {"current", "alone"} \subseteq w
  /\ st.flow.window = init /\ st.flow.available + st.inFlight = init /\ st.inFlight = 0
  /\ st.events = <<>> /\ st.handles = {} /\ st.promises = <<>>
Awaited(c, st, w) ==
  /\ c.i \notin Servers /\ st.state \in {ReservedRemote, HalfClosedLocal("AwaitingHeaders")}
  /\ Ready(c, st, w)
Headed(c, init, k, st, w) == Opening(c, init, k, st, w) \/ Awaited(c, st, w)

\* The states that the head of a message leads to.
LEMMA HeadStates ==
  ASSUME NEW c, NEW init, NEW k, NEW st, NEW w, Headed(c, init, k, st, w), NEW eos \in BOOLEAN,
         NEW y, y = RecvOpen(st.state, eos)
  PROVE  /\ y \in RoleStates(c.i) /\ y \in States /\ y \notin {Idle, ReservedRemote} /\ ~IsReset(y)
         /\ IsRecvStreaming(y) <=> ~eos
         /\ ~IsRecvHeaders(y) /\ ~IsClosed(st.state) /\ ~IsRecvStreaming(st.state) /\ IsRecvHeaders(st.state)
         /\ c.i \in Servers => ~IsClosed(y) /\ st.state = Idle
         /\ IsClosed(y) => y = Closed("EndStream") /\ eos
<1>1. CASE c.i \in Servers
  <2>1. st.state = Idle BY <1>1 DEF Headed, Opening, Awaited
  <2>2. y = IF eos THEN HalfClosedRemote("AwaitingHeaders") ELSE Open("AwaitingHeaders", "Streaming")
    BY <2>1 DEF RecvOpen, Idle
  <2>3. CASE eos
    <3>1. y = HalfClosedRemote("AwaitingHeaders") BY <2>2, <2>3
    <3>2. y \in RoleStates(c.i) /\ y \in States BY <1>1, <3>1 DEF RoleStates, ServerStates, States, Peers
    <3>3. y.inner = "HalfClosedRemote" BY <3>1 DEF HalfClosedRemote
    <3>4. ~IsRecvStreaming(y) /\ ~IsRecvHeaders(y) /\ ~IsClosed(y) /\ ~IsReset(y) /\ y \notin {Idle, ReservedRemote}
      BY <3>1 DEF IsReset, IsClosed, IsRecvStreaming, IsRecvHeaders, Idle, ReservedRemote, Open, HalfClosedLocal,
         HalfClosedRemote, Closed, Peers
    <3>5. ~IsClosed(st.state) /\ ~IsRecvStreaming(st.state) /\ IsRecvHeaders(st.state)
      BY <2>1 DEF IsClosed, IsRecvStreaming, IsRecvHeaders, Idle, Open, HalfClosedLocal, Peers
    <3>6. QED BY <2>1, <2>3, <3>2, <3>4, <3>5
  <2>4. CASE ~eos
    BY <1>1, <2>1, <2>2, <2>4 DEF RoleStates, ServerStates, States, Peers, IsReset, IsClosed, IsRecvStreaming,
       IsRecvHeaders, Idle, ReservedRemote, ReservedLocal, Open, HalfClosedLocal, HalfClosedRemote, Closed
  <2>5. QED BY <2>3, <2>4
<1>2. CASE c.i \notin Servers
  <2>1. st.state \in {ReservedRemote, HalfClosedLocal("AwaitingHeaders")} BY <1>2 DEF Headed, Opening, Awaited
  <2>2. y = IF eos THEN Closed("EndStream") ELSE HalfClosedLocal("Streaming")
    BY <2>1 DEF RecvOpen, ReservedRemote, HalfClosedLocal
  <2>3. CASE eos
    BY <1>2, <2>1, <2>2, <2>3 DEF RoleStates, ClientStates, States, Peers, Causes, IsReset, IsClosed, IsRecvStreaming,
       IsRecvHeaders, Idle, ReservedRemote, ReservedLocal, Open, HalfClosedLocal, HalfClosedRemote, Closed
  <2>4. CASE ~eos
    BY <1>2, <2>1, <2>2, <2>4 DEF RoleStates, ClientStates, States, Peers, Causes, IsReset, IsClosed, IsRecvStreaming,
       IsRecvHeaders, Idle, ReservedRemote, ReservedLocal, Open, HalfClosedLocal, HalfClosedRemote, Closed
  <2>5. QED BY <2>3, <2>4
<1>3. QED BY <1>1, <1>2

\* The entry when the message has begun, and when it has been handed out.
Begun(st, eos, len) ==
  [st EXCEPT !.state = RecvOpen(@, eos), !.length = IF len # Omitted THEN len ELSE @,
             !.counted = IF IsInitial(st.state) THEN TRUE ELSE @]
Given(st, eos, len) ==
  [Begun(st, eos, len) EXCEPT !.events = Append(@, Event("headers", 0)), !.task = "none"]

\* The entry when its message has begun, and when it has been delivered.
LEMMA BegunIs ==
  ASSUME NEW c, NEW init, NEW k, NEW st \in Streams, NEW w, Headed(c, init, k, st, w), NEW eos \in BOOLEAN,
         NEW len \in Int
  PROVE  LET b == Begun(st, eos, len)
             g == Given(st, eos, len)
         IN  /\ b \in Streams /\ b.state = RecvOpen(st.state, eos) /\ b.flow = st.flow /\ b.inFlight = st.inFlight
             /\ b.events = st.events /\ b.handles = st.handles /\ b.promises = st.promises /\ b.out = st.out
             /\ b.counted = (IF IsInitial(st.state) THEN TRUE ELSE st.counted)
             /\ b.task = st.task
             /\ g \in Streams /\ g.state = RecvOpen(st.state, eos) /\ g.flow = st.flow /\ g.inFlight = st.inFlight
             /\ g.events = Append(st.events, Event("headers", 0)) /\ g.handles = st.handles
             /\ g.promises = st.promises /\ g.out = st.out
             /\ g.counted = (IF IsInitial(st.state) THEN TRUE ELSE st.counted)
<1> DEFINE y == RecvOpen(st.state, eos)
           e == Append(st.events, Event("headers", 0))
           l == IF len # Omitted THEN len ELSE st.length
           u == IF IsInitial(st.state) THEN TRUE ELSE st.counted
           b == Begun(st, eos, len)
           g == Given(st, eos, len)
<1>1. y \in States BY HeadStates
<1>2. e \in Seq(Events)
  <2>1. Event("headers", 0) \in Events BY DEF Event, Events
  <2>2. QED BY <2>1 DEF Streams
<1>3. l \in Int /\ u \in BOOLEAN BY DEF Streams
<1>4. b = [st EXCEPT !.state = y, !.length = l, !.counted = u] BY DEF Begun, Streams
<1>5. g = [b EXCEPT !.events = Append(b.events, Event("headers", 0)), !.task = "none"] BY DEF Given
<1> HIDE DEF y, l, u, b, g
<1>6. /\ b \in Streams /\ b.state = y /\ b.flow = st.flow /\ b.inFlight = st.inFlight /\ b.events = st.events
      /\ b.handles = st.handles /\ b.promises = st.promises /\ b.out = st.out /\ b.counted = u
      /\ b.task = st.task
  BY <1>1, <1>3, <1>4 DEF Streams
<1>7. g = [b EXCEPT !.events = e, !.task = "none"] BY <1>5, <1>6
<1> HIDE DEF e
<1>8. /\ g \in Streams /\ g.state = y /\ g.flow = st.flow /\ g.inFlight = st.inFlight /\ g.events = e
      /\ g.handles = st.handles /\ g.promises = st.promises /\ g.out = st.out /\ g.counted = u
  BY <1>2, <1>6, <1>7 DEF Streams
<1>9. QED BY <1>6, <1>8 DEF b, g, e, u, y

\* Such an entry keeps what is known of it.
LEMMA AppendedHead ==
  ASSUME NEW a, NEW b, a.events \in Seq(Events), b.events = Append(a.events, Event("headers", 0)),
         ~IsRecvStreaming(a.state)
  PROVE  /\ HeadersFirst(a) => HeadersFirst(b) /\ (Awaits(a, 2) => Awaits(b, 2))
         /\ a.events = <<>> => HeadersFirst(b)
         /\ Awaits(a, 1) => Awaits(b, 1)
<1> DEFINE n == Len(a.events)
           x == Event("headers", 0)
<1>1. /\ n \in Nat /\ Len(b.events) = n + 1 /\ b.events \in Seq(Events) /\ b.events[n + 1] = x
      /\ \A j \in 1 .. n : b.events[j] = a.events[j]
  <2>1. x \in Events BY DEF Event, Events
  <2> HIDE DEF x
  <2>2. QED BY <2>1 DEF x
<1>2. x.kind = "headers" BY DEF Event
<1> HIDE DEF x
<1>3. \/ HeadersFirst(b) /\ Len(b.events) >= 1 /\ b.events[1].kind = "headers"
      \/ ~(a.events = <<>> \/ HeadersFirst(a))
  <2>1. CASE a.events = <<>>
    <3>1. n = 0 BY <2>1
    <3>2. QED BY <1>1, <1>2, <3>1 DEF HeadersFirst
  <2>2. CASE HeadersFirst(a)
    <3>1. n >= 1 BY <1>1, <2>2 DEF HeadersFirst
    <3>2. QED BY <1>1, <2>2, <3>1 DEF HeadersFirst
  <2>3. QED BY <2>1, <2>2
<1>4. ASSUME Awaits(a, 1) PROVE Awaits(b, 1)
  <2>1. CASE n = 0 BY <1>1, <1>2, <2>1 DEF Awaits
  <2>2. CASE n >= 1 BY <1>1, <1>4, <2>2 DEF Awaits
  <2>3. QED BY <1>1, <2>1, <2>2
<1>5. ASSUME HeadersFirst(a), Awaits(a, 2) PROVE Awaits(b, 2)
  <2>1. n >= 1 BY <1>1, <1>5 DEF HeadersFirst
  <2>2. CASE n = 1 BY <1>1, <1>2, <2>2 DEF Awaits
  <2>3. CASE n >= 2
    <3>1. b.events[2] = a.events[2] /\ Len(b.events) >= 2 BY <1>1, <2>3
    <3>2. ~(n < 2) /\ ~(Len(b.events) < 2) BY <1>1, <2>3, <3>1
    <3>3. a.events[2].kind = "headers" BY <1>5, <3>2 DEF Awaits
    <3>4. b.events[2].kind = "headers" BY <3>1, <3>3
    <3> HIDE DEF n
    <3>5. QED BY <3>2, <3>4 DEF Awaits
  <2>4. n \in Nat BY <1>1
  <2> HIDE DEF n
  <2>5. n = 1 \/ n >= 2 BY <2>1, <2>4
  <2>6. QED BY <2>2, <2>3, <2>5
<1>6. QED BY <1>3, <1>4, <1>5

HeadQueue(c) == IF c.i \in Servers THEN AcceptQueue ELSE NoQueue
\* A delivered message leaves the entry fine and ready.
LEMMA GivenFine ==
  ASSUME NEW c \in Contexts, NEW init \in 0 .. MaxWindow, NEW k, NEW st \in Streams, NEW w,
         Fine(c, init, k, st, w), Headed(c, init, k, st, w), NEW eos \in BOOLEAN, NEW len \in Int
  PROVE  LET g == Given(st, eos, len)
             v == w \cup HeadQueue(c)
         IN  Fine(c, init, k, g, v) /\ Ready(c, g, v)
<1> DEFINE g == Given(st, eos, len)
           v == w \cup HeadQueue(c)
           y == RecvOpen(st.state, eos)
<1>1. /\ g \in Streams /\ g.state = y /\ g.flow = st.flow /\ g.inFlight = st.inFlight
      /\ g.events = Append(st.events, Event("headers", 0)) /\ g.handles = st.handles
      /\ g.promises = st.promises /\ g.out = st.out
  BY BegunIs
<1>2. /\ y \in RoleStates(c.i) /\ y \in States /\ y \notin {Idle, ReservedRemote} /\ ~IsReset(y)
      /\ ~IsRecvHeaders(y) /\ ~IsClosed(st.state) /\ ~IsRecvStreaming(st.state)
      /\ c.i \in Servers => ~IsClosed(y) /\ st.state = Idle
      /\ IsClosed(y) => y = Closed("EndStream") /\ eos
  BY HeadStates
<1> HIDE DEF g, y
<1>3. /\ HeadersFirst(st) => HeadersFirst(g) /\ (Awaits(st, 2) => Awaits(g, 2))
      /\ st.events = <<>> => HeadersFirst(g)
      /\ Awaits(st, 1) => Awaits(g, 1)
  <2>1. st.events \in Seq(Events) BY DEF Streams
  <2>2. QED BY <1>1, <1>2, <2>1, AppendedHead
<1>4. \A x : x # "accept" => (x \in v <=> x \in w) BY DEF HeadQueue, AcceptQueue, NoQueue
<1>5. CASE Opening(c, init, k, st, w)
  <2>1. /\ c.i \in Servers /\ st.state = Idle /\ k \in Nat /\ {"current", "alone"} \subseteq w
        /\ st.flow.window = init /\ st.flow.available + st.inFlight = init
        /\ st.events = <<>> /\ st.handles = {} /\ st.promises = <<>>
    BY <1>5 DEF Opening
  <2>2. "accept" \in v BY <2>1 DEF HeadQueue, AcceptQueue
  <2> HIDE DEF v
  <2>3. Fine(c, init, k, g, v)
    <3>1. "pledged" \notin w /\ "expiring" \notin w /\ ("sending" \in w => st.out # <<>>)
      BY <1>2, <2>1 DEF Fine
    <3>2. k \in c.await => Awaits(g, 1) /\ g.handles \subseteq {"other"} BY <1>1, <1>3, <2>1 DEF Fine
    <3>3. {"current", "alone"} \subseteq v BY <1>4, <2>1
    <3>4. "current" \in v => g.flow.window <= init /\ (0 \in DataSizes[c.i] => g.flow.window >= 0)
      BY <1>1, <1>4, <2>1 DEF Fine
    <3>5. QED BY <1>1, <1>2, <1>3, <1>4, <2>1, <3>1, <3>2, <3>3, <3>4 DEF Fine
  <2>4. Ready(c, g, v)
    BY <1>1, <1>2, <2>1, <2>2 DEF Ready, Owned, Keeps
  <2>5. QED BY <2>3, <2>4 DEF g, v, y
<1>6. CASE Awaited(c, st, w)
  <2>1. /\ c.i \notin Servers /\ st.state \in {ReservedRemote, HalfClosedLocal("AwaitingHeaders")}
        /\ Ready(c, st, w)
    BY <1>6 DEF Awaited
  <2>2. v = w BY <2>1 DEF HeadQueue, NoQueue
  <2>3. Live(st) BY <1>2, <2>1 DEF Live, Ready
  <2> HIDE DEF v
  <2>4. Fine(c, init, k, g, w)
    <3>1. k \in Nat
      <4>1. ~IsReset(st.state) /\ st.state # Idle BY <1>2, <2>1 DEF Ready, IsReset
      <4>2. QED BY <4>1 DEF Fine
    <3>2. "expiring" \notin w /\ "accept" \notin w /\ ("sending" \in w => st.out # <<>>) BY <1>2, <2>1 DEF Fine
    <3>3. k \in c.await => Awaits(g, 1) /\ g.handles \subseteq {"other"} BY <1>1, <1>3 DEF Fine
    <3>4. "pledged" \in w => /\ k \in Nat \ {Parent} /\ g.handles = {} /\ HeadersFirst(g) /\ Awaits(g, 2)
      BY <1>1, <1>3 DEF Fine
    <3>5. {"current", "alone"} \subseteq w /\ g.flow.available + g.inFlight = init
      BY <1>1, <2>3 DEF Fine
    <3>6. "current" \in w => g.flow.window <= init /\ (0 \in DataSizes[c.i] => g.flow.window >= 0)
      BY <1>1 DEF Fine
    <3>7. g.promises # <<>> => k = Parent /\ c.i \notin Servers BY <1>1 DEF Fine
    <3>8. QED BY <1>1, <1>2, <2>1, <3>1, <3>2, <3>3, <3>4, <3>5, <3>6, <3>7 DEF Fine
  <2>5. Ready(c, g, w) BY <1>1, <1>2, <2>1 DEF Ready, Owned, Keeps
  <2>6. QED BY <2>2, <2>4, <2>5 DEF g, v, y
<1>7. QED BY <1>5, <1>6 DEF Headed

\* An entry that ends before its message is handed out.
Stopped(c, k, a, b) ==
  /\ b \in Streams /\ b.state \in RoleStates(c.i) /\ IsClosed(b.state) /\ (k \notin Nat => IsReset(b.state))
  /\ b.flow = a.flow /\ b.inFlight = a.inFlight /\ b.events = a.events /\ b.handles = a.handles
  /\ b.promises = a.promises

\* So does one that ends the stream.
LEMMA StoppedFine ==
  ASSUME NEW c, NEW init, NEW k, NEW a \in Streams, NEW b, Stopped(c, k, a, b), NEW w, NEW P,
         P \subseteq {"sending"}, Fine(c, init, k, a, w), ~IsRecvStreaming(a.state)
  PROVE  /\ Fine(c, init, k, b, w \cup P)
         /\ Keeps(a, w) /\ (Strict(c) => a.inFlight = 0) => Ready(c, b, w \cup P)
<1> DEFINE v == w \cup P
<1>1. \A x : x # "sending" => (x \in v <=> x \in w) OBVIOUS
<1> HIDE DEF v
<1>2. b.state \notin {Idle, ReservedRemote} /\ ~IsRecvStreaming(b.state)
  BY DEF Stopped, IsClosed, IsRecvStreaming, Idle, ReservedRemote, Open, HalfClosedLocal, Peers
<1>3. \A n : Awaits(a, n) => Awaits(b, n) BY <1>2 DEF Stopped, Awaits
<1>4. HeadersFirst(a) => HeadersFirst(b) BY DEF Stopped, HeadersFirst
<1>5. Fine(c, init, k, b, v) BY <1>1, <1>2, <1>3, <1>4 DEF Stopped, Fine, Live
<1>6. Keeps(a, w) /\ (Strict(c) => a.inFlight = 0) => Ready(c, b, v)
  BY <1>1, <1>2 DEF Stopped, Ready, Owned, Keeps
<1>7. QED BY <1>5, <1>6 DEF v

\* The operation on the entry s is over.
Over(c, b, n, o, s) ==
  /\ Sound(c, o, {}, 0) /\ Steady(c, b, o, {IdOf(s)}) /\ (s \in Slab(o) => SameBut(n.store[s], o.store[s]))
  /\ \A t \in DOMAIN o.ids : t \in DOMAIN n.ids /\ o.ids[t] = n.ids[t]
\* transition_after, at the end of recv_headers.
LEMMA HeadOver ==
  ASSUME NEW c \in Contexts, NEW b \in Locked(c.i), NEW n, NEW X, Sound(c, n, X, 0), NEW s \in Slab(n),
         X \subseteq {s}, Ready(c, n.store[s], Marks(n, s)), Steady(c, b, n, {IdOf(s)}),
         NEW q \in BOOLEAN, q => Queued(n.expiring, s)
  PROVE  Over(c, b, n, TransitionAfter(n, s, q), s)
<1> DEFINE o == TransitionAfter(n, s, q)
           z == 0
           none == {}
           ids == {IdOf(s)}
<1>1. MayExpire(n, s, q) BY DEF MayExpire
<1>2. X \ {s} = none /\ none \subseteq ids OBVIOUS
<1>3. Steady(c, b, n, ids) OBVIOUS
<1> HIDE DEF z, none, ids
<1>4. Sound(c, n, X, z) BY DEF z
<1>5. Settles(c, n, o, s, X, z) BY <1>1, <1>4, TransitionSettles
<1> HIDE DEF o
<1>6. Sound(c, o, none, z) /\ Steady(c, n, o, none) /\ Thins(n, o, Gone(n, s)) BY <1>2, <1>5 DEF Settles, none
<1>7. n \in Locked(c.i) /\ o \in Locked(c.i) BY <1>4, <1>6 DEF Sound
<1>8. Steady(c, b, o, ids)
  <2>1. Steady(c, n, o, ids) BY <1>2, <1>6, SteadyMore
  <2>2. QED BY <1>3, <1>7, <2>1, SteadyTwice
<1>9. /\ s \in Slab(o) => SameBut(n.store[s], o.store[s])
      /\ \A t \in DOMAIN o.ids : t \in DOMAIN n.ids /\ o.ids[t] = n.ids[t]
  BY <1>6 DEF Thins
<1>10. QED BY <1>6, <1>8, <1>9 DEF Over, o, z, none, ids

\* The slots that the message takes.
Slot(st) == IF IsInitial(st.state) THEN 1 ELSE 0
Room(c, m, st) == IsInitial(st.state) => m.numRecv < MaxRecv[c.i] /\ ~st.counted
\* What is known of the stream then.
Outcome(st, init, eos) ==
  \/ IsReset(st.state)
  \/ /\ ~IsRecvHeaders(st.state) /\ (IsRecvStreaming(st.state) => ~eos /\ st.flow.window = init)
     /\ st.state = Closed("EndStream") => eos
Opened(c, m, o, s, eos) ==
  /\ Sound(c, o, {}, 0) /\ Steady(c, Bump(m, Slot(m.store[s])), o, {IdOf(s)})
  /\ s \in Slab(o) => Outcome(o.store[s], m.initWindow, eos)
  /\ \A t \in DOMAIN o.ids : t \in DOMAIN m.ids /\ o.ids[t] = m.ids[t]

\* What follows from it for the caller.
LEMMA OverOpened ==
  ASSUME NEW c, NEW m, NEW n, NEW o, NEW s, Over(c, Bump(m, Slot(m.store[s])), n, o, s),
         n.store[s] \in Streams, \A t \in DOMAIN n.ids : t \in DOMAIN m.ids /\ n.ids[t] = m.ids[t], NEW eos, Outcome(n.store[s], m.initWindow, eos)
  PROVE  Opened(c, m, o, s, eos)
<1>1. s \in Slab(o) => Outcome(o.store[s], m.initWindow, eos)
  <2> DEFINE a == n.store[s]
             b == o.store[s]
  <2> SUFFICES ASSUME SameBut(a, b), a \in Streams, Outcome(a, m.initWindow, eos)
               PROVE  Outcome(b, m.initWindow, eos)
    BY DEF Over
  <2> HIDE DEF a, b
  <2>1. b.state = a.state /\ b.flow = a.flow BY DEF SameBut, Streams
  <2>2. QED BY <2>1 DEF Outcome
<1>2. QED BY <1>1 DEF Over, Opened

\* The entry of a message that has begun takes its slot.
LEMMA BegunTakes ==
  ASSUME NEW c \in Contexts, NEW m \in Locked(c.i), NEW s, NEW init, NEW st \in Streams, NEW w,
         Headed(c, init, s, st, w), Room(c, m, st), NEW eos \in BOOLEAN, NEW len \in Int
  PROVE  /\ Takes1(c, m, st, Begun(st, eos, len), Slot(st)) /\ Slot(st) \in Int
         /\ Takes1(c, m, st, Given(st, eos, len), Slot(st))
<1> DEFINE b == Begun(st, eos, len)
           g == Given(st, eos, len)
<1>1. /\ b.counted = (IF IsInitial(st.state) THEN TRUE ELSE st.counted)
      /\ g.counted = (IF IsInitial(st.state) THEN TRUE ELSE st.counted)
  BY BegunIs
<1> HIDE DEF b, g
<1>2. CASE IsInitial(st.state) BY <1>1, <1>2 DEF Takes1, Slot, Room, b, g
<1>3. CASE ~IsInitial(st.state) BY <1>1, <1>3 DEF Takes1, Slot, Room, b, g
<1>4. QED BY <1>2, <1>3

\* The slot is counted and the state is set.
OpenedAs(m, s, eos, len) ==
  [m EXCEPT !.store[s].state = RecvOpen(@, eos),
            !.store[s].length = IF len # Omitted THEN len ELSE @]
CountedAs(m, s, eos, len) ==
  IF IsInitial(m.store[s].state) THEN IncNumRecv(OpenedAs(m, s, eos, len), s)
  ELSE OpenedAs(m, s, eos, len)
\* inc_num_recv_streams, when there is a slot.
LEMMA CountedIs ==
  ASSUME NEW c \in Contexts, c.i = instance, NEW m \in Locked(c.i), NEW s \in Slab(m),
         Headed(c, m.initWindow, s, m.store[s], Marks(m, s)), Room(c, m, m.store[s]),
         NEW eos \in BOOLEAN, NEW len \in Int
  PROVE  CountedAs(m, s, eos, len) = Sets(Bump(m, Slot(m.store[s])), s, Begun(m.store[s], eos, len))
<1> DEFINE opened == OpenedAs(m, s, eos, len)
           counted == CountedAs(m, s, eos, len)
           st == m.store[s]
           y == RecvOpen(st.state, eos)
           l == IF len # Omitted THEN len ELSE st.length
           r1 == [st EXCEPT !.state = y]
           r2 == [r1 EXCEPT !.length = l]
           r3 == [r2 EXCEPT !.counted = TRUE]
           a1 == [m EXCEPT !.store[s].state = y]
           a2 == [a1 EXCEPT !.store[s].length = l]
           b == Bump(m, Slot(st))
           g == Begun(st, eos, len)
<1>1. st \in Streams BY StreamTyped
<1>2. opened = a2 BY DEF Locked, OpenedAs
<1>10. counted = IF IsInitial(m.store[s].state) THEN IncNumRecv(opened, s) ELSE opened BY DEF CountedAs
<1> HIDE DEF opened, counted
<1>3. a1 = Sets(m, s, r1) BY DEF Sets, Stored
<1>4. a1.store[s] = r1 /\ Sets(a1, s, r2) = Sets(m, s, r2)
  <2> HIDE DEF a1, r1, r2
  <2>1. QED BY <1>3, StoredTwice
<1>5. a2 = Sets(m, s, r2)
  <2> HIDE DEF a1, r1
  <2>1. a2 = Sets(a1, s, r2) BY <1>4 DEF Sets, Stored
  <2>2. QED BY <1>4, <2>1
<1>6. opened = Sets(m, s, r2) /\ opened.store[s] = r2 /\ opened.numRecv = m.numRecv /\ opened \in Locked(c.i)
  <2>1. y \in States /\ l \in Int
    <3> DEFINE w == Marks(m, s)
               init == m.initWindow
    <3>1. Headed(c, init, s, st, w) OBVIOUS
    <3> HIDE DEF w, init
    <3>2. y \in States BY <3>1, HeadStates
    <3>3. QED BY <1>1, <3>2 DEF Streams
  <2> HIDE DEF y, l
  <2>2. r2 \in Streams BY <1>1, <2>1 DEF Streams
  <2> HIDE DEF a2, r2
  <2>3. opened = Sets(m, s, r2) BY <1>2, <1>5
  <2>4. opened.store[s] = r2
    <3>1. Sets(m, s, r2).store[s] = r2 BY StoredTwice
    <3>2. QED BY <2>3, <3>1
  <2>5. Stored(m, s, r2) \in Stores(c.i) BY <2>2, StorePut DEF Stored, Locked, Slab
  <2>6. opened.numRecv = m.numRecv /\ opened \in Locked(c.i) BY <2>3, <2>5 DEF Sets, Locked
  <2>7. QED BY <2>3, <2>4, <2>6
<1>7. CASE IsInitial(st.state)
  <2>1. ~r2.counted BY <1>1, <1>7 DEF Room, Streams
  <2>2. CanIncNumRecv(opened)
    <3>1. m.numRecv < MaxRecv[instance] BY <1>7 DEF Room
    <3>2. c.i \in Instances BY DEF Contexts
    <3>3. MaxRecv[instance] \in Nat /\ m.numRecv \in Int BY <3>2, RecvAssumption DEF Locked
    <3>4. QED BY <1>6, <3>1, <3>3 DEF CanIncNumRecv
  <2>3. r3 = g BY <1>1, <1>7 DEF Begun, Streams
  <2> HIDE DEF r2, r3, g
  <2>4. counted = [opened EXCEPT !.numRecv = @ + 1, !.store[s].counted = TRUE]
    BY <1>6, <1>7, <1>10, <2>1, <2>2 DEF IncNumRecv, Check
  <2>5. Slot(st) = 1 BY <1>7 DEF Slot
  <2>6. b = [m EXCEPT !.numRecv = m.numRecv + 1] BY <2>5 DEF Bump
  <2>7. counted = [opened EXCEPT !.numRecv = m.numRecv + 1, !.store = Stored(opened, s, r3)]
    <3>1. [opened.store EXCEPT ![s].counted = TRUE] = Stored(opened, s, r3)
      BY <1>6 DEF Stored, r3
    <3>2. QED BY <1>6, <2>4, <3>1 DEF Locked
  <2>8. Stored(opened, s, r3) = Stored(m, s, r3) /\ Stored(b, s, r3) = Stored(m, s, r3)
    <3>1. Sets(opened, s, r3) = Sets(m, s, r3) BY <1>6, StoredTwice
    <3>2. Sets(opened, s, r3).store = Stored(opened, s, r3) /\ Sets(m, s, r3).store = Stored(m, s, r3)
      BY <1>6 DEF Sets, Locked
    <3>3. b.store = m.store BY <2>6 DEF Locked
    <3>4. QED BY <3>1, <3>2, <3>3 DEF Stored
  <2>9. opened = [m EXCEPT !.store = Stored(m, s, r2)] BY <1>6 DEF Sets
  <2>10. counted = [m EXCEPT !.numRecv = m.numRecv + 1, !.store = Stored(m, s, r3)]
    BY <2>7, <2>8, <2>9 DEF Locked
  <2>11. Sets(b, s, r3) = [m EXCEPT !.numRecv = m.numRecv + 1, !.store = Stored(m, s, r3)]
    BY <2>6, <2>8 DEF Sets, Locked
  <2> HIDE DEF b
  <2>12. counted = Sets(b, s, g) BY <2>3, <2>10, <2>11
  <2>13. QED BY <2>12 DEF b, g, counted
<1>8. CASE ~IsInitial(st.state)
  <2>1. r2 = g BY <1>1, <1>8 DEF Begun, Streams
  <2>2. Slot(st) = 0 BY <1>8 DEF Slot
  <2>3. b = m BY <2>2 DEF Bump, Locked
  <2> HIDE DEF r2, g, b
  <2>4. counted = Sets(b, s, g) BY <1>6, <1>8, <1>10, <2>1, <2>3
  <2>5. QED BY <2>4 DEF b, g, counted
<1> HIDE DEF st
<1>9. QED BY <1>7, <1>8 DEF st, counted

\* Recv::recv_headers: what is handed out.
LEMMA GivenForm ==
  ASSUME NEW c \in Contexts, c.i = instance, NEW b \in Locked(c.i), NEW s \in Slab(b), NEW st \in Streams,
         NEW eos, NEW len, NEW x, x = Sets(b, s, Begun(st, eos, len)),
         NEW given, given = Deliver(x, s, Event("headers", 0))
  PROVE  (IF IsServer THEN [given EXCEPT !.accept = PushOnce(@, s)] ELSE given)
           = Put(b, s, Given(st, eos, len), HeadQueue(c), b.woken)
<1> DEFINE h == Begun(st, eos, len)
           e == Event("headers", 0)
           h1 == [h EXCEPT !.events = Append(@, e)]
           g == Given(st, eos, len)
           x1 == [x EXCEPT !.store[s].events = Append(@, e)]
<1>1. g = [h1 EXCEPT !.task = "none"]
  <2>1. h.task = st.task /\ DOMAIN h = DOMAIN st BY DEF Begun
  <2>2. QED BY DEF Given, Begun, Streams
<1>2. given = [x1 EXCEPT !.store[s].task = "none"] BY DEF Deliver, Notify
<1> HIDE DEF h, e, g
<1>3. x.store[s] = h /\ Sets(x, s, h1) = Sets(b, s, h1)
  <2> HIDE DEF h1
  <2>1. x = Sets(b, s, h) BY DEF h
  <2>2. QED BY <2>1, StoredTwice
<1>4. x1 = Sets(b, s, h1)
  <2>1. x1 = Sets(x, s, h1) BY <1>3 DEF Sets, Stored
  <2>2. QED BY <1>3, <2>1
<1> HIDE DEF x1, h1
<1>5. given = Sets(b, s, g)
  <2>1. x1.store[s] = h1 /\ Sets(x1, s, g) = Sets(b, s, g) BY <1>4, StoredTwice
  <2>2. given = Sets(x1, s, [x1.store[s] EXCEPT !.task = "none"]) BY <1>2 DEF Sets, Stored
  <2>3. QED BY <1>1, <2>1, <2>2
<1>6. CASE IsServer
  <2>1. HeadQueue(c) = AcceptQueue BY <1>6 DEF HeadQueue, IsServer
  <2>2. Put(b, s, g, AcceptQueue, b.woken) = ToAccept(b, Stored(b, s, g), s, b.woken) BY PutForms
  <2>3. [given EXCEPT !.accept = PushOnce(@, s)] = ToAccept(b, Stored(b, s, g), s, b.woken)
    BY <1>5 DEF Sets, ToAccept, Locked
  <2>4. QED BY <1>6, <2>1, <2>2, <2>3 DEF g
<1>7. CASE ~IsServer
  <2>1. HeadQueue(c) = NoQueue BY <1>7 DEF HeadQueue, IsServer
  <2>2. given = Put(b, s, g, NoQueue, b.woken) BY <1>5, StorePuts
  <2>3. QED BY <1>7, <2>1, <2>2 DEF g
<1>8. QED BY <1>6, <1>7

\* What was put is settled: the message is over.
LEMMA MoreOver ==
  ASSUME NEW c \in Contexts, NEW m \in Locked(c.i), NEW n, NEW s \in Slab(m), NEW r \in Streams, NEW P, NEW X,
         NEW more \in Int, PutMore(c, m, n, s, r, P, X, 0, more), X \subseteq {s},
         Ready(c, r, Marks(m, s) \cup P)
  PROVE  Over(c, Bump(m, more), n, TransitionAfter(n, s, Queued(m.expiring, s)), s) /\ n.ids = m.ids /\ n.store[s] = r
<1> DEFINE q == Queued(m.expiring, s)
           b == Bump(m, more)
           Y == X \cup {s}
<1>1. /\ Sound(c, n, Y, 0) /\ s \in Slab(n) /\ n.store[s] = r /\ Marks(n, s) = Marks(m, s) \cup P
      /\ Steady(c, b, n, {IdOf(s)}) /\ n.expiring = m.expiring /\ n.ids = m.ids
  BY DEF PutMore
<1>2. b \in Locked(c.i) BY BumpIs
<1>3. q \in BOOLEAN /\ (q => Queued(n.expiring, s)) BY <1>1 DEF Queued, Contains
<1>4. Ready(c, n.store[s], Marks(n, s)) /\ Y \subseteq {s} BY <1>1
<1> HIDE DEF q, b, Y
<1>5. Over(c, b, n, TransitionAfter(n, s, q), s) BY <1>1, <1>2, <1>3, <1>4, HeadOver
<1>6. QED BY <1>1, <1>5 DEF q, b

\* The message is handed out.
LEMMA GivenSound ==
  ASSUME NEW c \in Contexts, c.i = instance, NEW m, NEW X, Sound(c, m, X, 0), NEW s \in Slab(m), X \subseteq {s},
         Headed(c, m.initWindow, s, m.store[s], Marks(m, s)), Room(c, m, m.store[s]),
         m.store[s].flow.window = m.initWindow, NEW eos \in BOOLEAN, NEW len \in Int,
         NEW n, n = Put(Bump(m, Slot(m.store[s])), s, Given(m.store[s], eos, len), HeadQueue(c), m.woken)
  PROVE  Opened(c, m, TransitionAfter(n, s, Queued(m.expiring, s)), s, eos)
<1> DEFINE st == m.store[s]
           w == Marks(m, s)
           g == Given(st, eos, len)
           P == HeadQueue(c)
           more == Slot(st)
           init == m.initWindow
           y == RecvOpen(st.state, eos)
           t == m.woken
           o == TransitionAfter(n, s, Queued(m.expiring, s))
           z == 0
<1>1. m \in Locked(c.i) /\ Fine(c, init, s, st, w) BY DEF Sound
<1>2. st \in Streams /\ init \in 0 .. MaxWindow /\ t \in BOOLEAN BY <1>1, StreamTyped DEF Locked
<1>3. Headed(c, init, s, st, w) /\ n = Put(Bump(m, more), s, g, P, t) OBVIOUS
<1>4. P \in SUBSET Pushable BY DEF HeadQueue, AcceptQueue, NoQueue, Pushable
<1> HIDE DEF init, w, P, t, z, st, more
<1>5. g \in Streams /\ g.promises = st.promises /\ g.inFlight = st.inFlight /\ g.state = y /\ g.flow = st.flow
  BY <1>2, <1>3, BegunIs
<1>6. Takes1(c, m, st, g, more) /\ more \in Int
  <2>1. Room(c, m, st) BY DEF st
  <2>2. QED BY <1>1, <1>2, <1>3, <2>1, BegunTakes DEF more
<1>7. Fine(c, init, s, g, w \cup P) /\ Ready(c, g, w \cup P)
  BY <1>1, <1>2, <1>3, GivenFine DEF P
<1>8. Outcome(g, init, eos)
  <2>1. /\ IsRecvStreaming(y) <=> ~eos
        /\ ~IsRecvHeaders(y)
        /\ IsClosed(y) => y = Closed("EndStream") /\ eos
    BY <1>3, HeadStates
  <2> HIDE DEF g, y
  <2>2. g.flow.window = init BY <1>5 DEF st, init
  <2>3. g.state = Closed("EndStream") => eos BY <1>5, <2>1 DEF IsClosed, Closed
  <2>4. QED BY <1>5, <2>1, <2>2, <2>3 DEF Outcome
<1> HIDE DEF g, y
<1>9. PutMore(c, m, n, s, g, P, X, z, more)
  <2>1. /\ Sound(c, m, X, z) /\ z \in Int /\ g.promises = m.store[s].promises /\ g.inFlight = m.store[s].inFlight
        /\ Takes1(c, m, m.store[s], g, more) /\ Fine(c, m.initWindow, s, g, Marks(m, s) \cup P)
    BY <1>5, <1>6, <1>7 DEF z, st, init, w
  <2>2. QED BY <1>2, <1>3, <1>4, <1>5, <1>6, <2>1, PutCounted
<1>10. Over(c, Bump(m, more), n, o, s) /\ n.ids = m.ids /\ n.store[s] = g
  <2>1. Ready(c, g, Marks(m, s) \cup P) /\ PutMore(c, m, n, s, g, P, X, 0, more) BY <1>7, <1>9 DEF w, z
  <2>2. /\ c \in Contexts /\ m \in Locked(c.i) /\ s \in Slab(m) /\ g \in Streams /\ more \in Int /\ X \subseteq {s}
        /\ PutMore(c, m, n, s, g, P, X, 0, more)
    BY <1>1, <1>5, <1>6, <2>1
  <2>3. QED BY ONLY <2>1, <2>2, MoreOver
<1> HIDE DEF o
<1>11. Opened(c, m, o, s, eos)
  <2>1. Over(c, Bump(m, Slot(m.store[s])), n, o, s) /\ Outcome(n.store[s], m.initWindow, eos) /\ n.store[s] \in Streams
    BY <1>5, <1>8, <1>10 DEF more, st, init
  <2>2. QED BY <1>10, <2>1, OverOpened
<1>12. QED BY <1>11 DEF o

\* The stream is over before its message is handed out.
LEMMA StoppedSound ==
  ASSUME NEW c \in Contexts, c.i = instance, NEW m, NEW X, Sound(c, m, X, 0), NEW s \in Slab(m), X \subseteq {s},
         Headed(c, m.initWindow, s, m.store[s], Marks(m, s)), NEW r, Stopped(c, s, m.store[s], r),
         Takes1(c, m, m.store[s], r, Slot(m.store[s])), NEW P \in {NoQueue, SendQueue}, NEW t \in BOOLEAN,
         NEW n, n = Put(Bump(m, Slot(m.store[s])), s, r, P, t)
  PROVE  PutMore(c, m, n, s, r, P, X, 0, Slot(m.store[s])) /\ Ready(c, r, Marks(m, s) \cup P)
<1> DEFINE st == m.store[s]
           w == Marks(m, s)
           init == m.initWindow
           more == Slot(st)
           z == 0
<1>1. m \in Locked(c.i) /\ Fine(c, init, s, st, w) BY DEF Sound
<1>2. st \in Streams BY <1>1, StreamTyped
<1>3. more \in Int BY DEF Slot
<1>4. P \in SUBSET Pushable /\ P \subseteq {"sending"} BY DEF NoQueue, SendQueue, Pushable
<1>5. ~IsRecvStreaming(st.state)
  <2>1. Headed(c, init, s, st, w) /\ TRUE \in BOOLEAN OBVIOUS
  <2> HIDE DEF st, w, init
  <2> DEFINE eos == TRUE
             y == RecvOpen(st.state, eos)
  <2>2. eos \in BOOLEAN OBVIOUS
  <2> HIDE DEF eos
  <2>3. QED BY <2>1, <2>2, HeadStates
<1>6. Keeps(st, w) /\ (Strict(c) => st.inFlight = 0)
  BY DEF Headed, Opening, Awaited, Ready, Keeps, Strict
<1>7. r \in Streams /\ r.promises = st.promises /\ r.inFlight = st.inFlight BY DEF Stopped
<1> HIDE DEF st, w, init, more, z
<1>8. Fine(c, init, s, r, w \cup P) /\ Ready(c, r, w \cup P)
  <2>1. Stopped(c, s, st, r) BY DEF st
  <2>2. QED BY <1>1, <1>2, <1>4, <1>5, <1>6, <2>1, StoppedFine
<1>9. PutMore(c, m, n, s, r, P, X, z, more)
  <2>1. /\ Sound(c, m, X, z) /\ z \in Int /\ r.promises = m.store[s].promises /\ r.inFlight = m.store[s].inFlight
        /\ Takes1(c, m, m.store[s], r, more) /\ Fine(c, m.initWindow, s, r, Marks(m, s) \cup P)
        /\ n = Put(Bump(m, more), s, r, P, t)
    BY <1>7, <1>8 DEF z, st, init, w, more
  <2>2. QED BY <1>3, <1>4, <1>7, <2>1, PutCounted
<1>10. QED BY <1>8, <1>9 DEF z, st, w, more

\* A stream error of the message.
LEMMA MalformedSound ==
  ASSUME NEW c \in Contexts, c.i = instance, NEW m, NEW X, Sound(c, m, X, 0), NEW s \in Slab(m), X \subseteq {s},
         Headed(c, m.initWindow, s, m.store[s], Marks(m, s)), Room(c, m, m.store[s]),
         NEW eos \in BOOLEAN, NEW len \in Int,
         NEW x, x = Sets(Bump(m, Slot(m.store[s])), s, Begun(m.store[s], eos, len))
  PROVE  Opened(c, m, TransitionAfter(SendReset(x, s), s, Queued(m.expiring, s)), s, eos)
<1> DEFINE st == m.store[s]
           w == Marks(m, s)
           init == m.initWindow
           more == Slot(st)
           b == Bump(m, more)
           h == Begun(st, eos, len)
           n == SendReset(x, s)
           o == TransitionAfter(n, s, Queued(m.expiring, s))
           y == RecvOpen(st.state, eos)
<1>1. m \in Locked(c.i) /\ Fine(c, init, s, st, w) BY DEF Sound
<1>2. st \in Streams BY <1>1, StreamTyped
<1>3. Headed(c, init, s, st, w) /\ x = Sets(b, s, h) OBVIOUS
<1>4. more \in Int BY DEF Slot
<1> HIDE DEF st, w, init, more
<1>5. /\ h \in Streams /\ h.flow = st.flow /\ h.inFlight = st.inFlight /\ h.events = st.events
      /\ h.handles = st.handles /\ h.promises = st.promises /\ h.state = y
  BY <1>2, <1>3, BegunIs
<1>6. ~IsReset(y) BY <1>3, HeadStates
<1>7. b \in Locked(c.i) /\ Slab(b) = Slab(m) /\ b.store = m.store BY <1>1, <1>4, BumpIs
<1>8. Takes1(c, m, st, h, more)
  <2>1. Room(c, m, st) BY DEF st
  <2>2. QED BY <1>1, <1>2, <1>3, <2>1, BegunTakes DEF more
<1> HIDE DEF b, h, y
<1>9. x \in Locked(c.i) /\ s \in Slab(x) /\ x.store[s] = h
  <2>1. s \in Slab(b) BY <1>7
  <2>2. x.store[s] = h BY <1>3, <1>7, <2>1, StoredTwice
  <2>3. /\ Stored(b, s, h) \in Stores(c.i) /\ DOMAIN Stored(b, s, h) = Slab(b)
    BY <1>5, <1>7, <2>1, StorePut DEF Stored, Locked, Slab
  <2>4. x = [b EXCEPT !.store = Stored(b, s, h)] BY <1>3 DEF Sets
  <2>5. x \in Locked(c.i) /\ x.store = Stored(b, s, h) BY <1>7, <2>3, <2>4 DEF Locked
  <2>6. QED BY <2>1, <2>2, <2>3, <2>5 DEF Slab
<1>10. EndsOne(x, n, s, LocalResets)
  <2>1. ~IsReset(x.store[s].state) BY <1>5, <1>6, <1>9
  <2>2. QED BY <1>9, <2>1, SendResetEnds
<1> HIDE DEF n
<1>11. PICK r \in Streams, P \in {NoQueue, SendQueue}, t \in BOOLEAN :
         Shut(h, r) /\ r.state \in LocalResets /\ n = Put(x, s, r, P, t)
  BY <1>9, <1>10 DEF EndsOne
<1>12. n = Put(b, s, r, P, t)
  <2>1. x = [b EXCEPT !.store = [b.store EXCEPT ![s] = h]] BY <1>3 DEF Sets, Stored
  <2>2. b.store \in [Slab(b) -> Streams] BY <1>7, StoreTyped DEF Locked, Slab
  <2>3. [x.store EXCEPT ![s] = r] = [b.store EXCEPT ![s] = r]
    <3>1. x.store = [b.store EXCEPT ![s] = h] BY <1>7, <2>1 DEF Locked
    <3>2. QED BY <2>2, <3>1
  <2>4. /\ x.accept = b.accept /\ x.updates = b.updates /\ x.sending = b.sending BY <1>7, <2>1 DEF Locked
  <2> DEFINE f == [b.store EXCEPT ![s] = r]
             p1 == Push(b.accept, s, "accept" \in P)
             p2 == Push(b.updates, s, "updates" \in P)
             p3 == Push(b.sending, s, "sending" \in P)
  <2>5. n = [x EXCEPT !.store = f, !.accept = p1, !.updates = p2, !.sending = p3, !.woken = t]
    BY <1>11, <2>3, <2>4 DEF Put
  <2>6. Put(b, s, r, P, t) = [b EXCEPT !.store = f, !.accept = p1, !.updates = p2, !.sending = p3, !.woken = t]
    BY DEF Put
  <2> HIDE DEF f, p1, p2, p3
  <2>7. QED BY <1>7, <2>1, <2>5, <2>6 DEF Locked
<1>13. Stopped(c, s, st, r) /\ Takes1(c, m, st, r, more) /\ IsReset(r.state)
  <2>1. /\ r.flow = h.flow /\ r.inFlight = h.inFlight /\ r.events = h.events /\ r.handles = h.handles
        /\ r.promises = h.promises /\ r.counted = h.counted
    BY <1>5, <1>11 DEF Shut, Streams
  <2>2. IsClosed(r.state) /\ IsReset(r.state) /\ r.state \in RoleStates(c.i)
    BY <1>11 DEF LocalResets, IsClosed, IsReset, Closed, RoleStates, ServerStates, ClientStates, Causes
  <2>3. QED BY <1>5, <1>8, <2>1, <2>2 DEF Stopped, Takes1
<1>14. PutMore(c, m, n, s, r, P, X, 0, more) /\ Ready(c, r, Marks(m, s) \cup P)
  <2>1. /\ Stopped(c, s, m.store[s], r) /\ Takes1(c, m, m.store[s], r, Slot(m.store[s]))
        /\ n = Put(Bump(m, Slot(m.store[s])), s, r, P, t)
    BY <1>12, <1>13 DEF st, more, b
  <2>2. PutMore(c, m, n, s, r, P, X, 0, Slot(m.store[s])) /\ Ready(c, r, Marks(m, s) \cup P)
    BY <2>1, StoppedSound
  <2>3. QED BY <2>2 DEF more, st
<1>15. Over(c, Bump(m, more), n, o, s) /\ n.ids = m.ids /\ n.store[s] = r
  <2>1. /\ c \in Contexts /\ m \in Locked(c.i) /\ s \in Slab(m) /\ r \in Streams /\ more \in Int /\ X \subseteq {s}
        /\ PutMore(c, m, n, s, r, P, X, 0, more) /\ Ready(c, r, Marks(m, s) \cup P)
    BY <1>1, <1>4, <1>14
  <2>2. QED BY ONLY <2>1, MoreOver
<1> HIDE DEF o
<1>16. Opened(c, m, o, s, eos)
  <2>1. Outcome(r, m.initWindow, eos) BY <1>13 DEF Outcome
  <2>2. Over(c, Bump(m, Slot(m.store[s])), n, o, s) /\ Outcome(n.store[s], m.initWindow, eos) /\ n.store[s] \in Streams
    BY <1>15, <2>1 DEF more, st
  <2>3. QED BY <1>15, <2>2, OverOpened
<1>17. QED BY <1>16 DEF o, n

\* Doing it twice puts the last entry.
LEMMA PutTwice ==
  ASSUME NEW c \in Contexts, NEW m \in Locked(c.i), Queues(m), NEW s \in Slab(m), NEW q \in Streams, NEW r,
         NEW y \in BOOLEAN
  PROVE  Put(Put(m, s, q, SendQueue, y), s, r, SendQueue, y) = Put(m, s, r, SendQueue, y)
<1> DEFINE n == Put(m, s, q, SendQueue, y)
           f == Stored(m, s, q)
           g == Stored(m, s, r)
           e == PushOnce(m.sending, s)
<1>1. n = ToSend(m, f, s, y) BY PutForms
<1>2. n.store = f /\ n.sending = e BY <1>1 DEF ToSend, Locked
<1>3. m.store \in [Slab(m) -> Streams] BY StoreTyped DEF Locked, Slab
<1>4. Stored(n, s, r) = g BY <1>2, <1>3 DEF Stored
<1>5. PushOnce(e, s) = e
  <2> DEFINE yes == TRUE
  <2>1. yes \in BOOLEAN /\ IsQueue(m.sending, Slab(m)) BY DEF Queues
  <2> HIDE DEF yes
  <2>2. \A t : Queued(Push(m.sending, s, yes), t) <=> Queued(m.sending, t) \/ (yes /\ t = s) BY <2>1, PushQueue
  <2>3. Queued(e, s) BY <2>2 DEF Push, yes
  <2> HIDE DEF e
  <2>4. QED BY <2>3 DEF PushOnce
<1>6. n \in Locked(c.i)
  <2> DEFINE P == SendQueue
  <2>1. P \in SUBSET Pushable BY DEF SendQueue, Pushable
  <2> HIDE DEF P
  <2>2. Put(m, s, q, P, y) \in Locked(c.i) BY <2>1, PutIs
  <2>3. QED BY <2>2 DEF P
<1> HIDE DEF n, f, g, e
<1>7. Put(n, s, r, SendQueue, y) = ToSend(n, Stored(n, s, r), s, y) BY <1>6, PutForms
<1>8. ToSend(n, g, s, y) = ToSend(m, g, s, y)
  <2>1. ToSend(n, g, s, y) = [n EXCEPT !.store = g, !.sending = e, !.woken = y]
    BY <1>2, <1>5, <1>6 DEF ToSend, Locked
  <2>2. ToSend(m, g, s, y) = [m EXCEPT !.store = g, !.sending = e, !.woken = y] BY DEF ToSend, e, Locked
  <2>3. n = [m EXCEPT !.store = f, !.sending = e, !.woken = y] BY <1>1 DEF ToSend, e, Locked
  <2>4. QED BY <2>1, <2>2, <2>3 DEF Locked
<1>9. QED BY <1>4, <1>7, <1>8, PutForms DEF n, g

\* A request whose header list is too large is answered, and its stream is
\* reset if the peer has not ended it.
Refused(st, eos, len) ==
  [Begun(st, eos, len) EXCEPT !.state = IF eos THEN Closed("EndStream") ELSE Closed("Scheduled"),
                              !.out = Append(@, "HEADERS")]
AnsweredAs(x, s) == QueueFrame([x EXCEPT !.store[s].state = SendOpen(@, TRUE)], s, "HEADERS")
\* A request whose headers are too large is answered, and its reset scheduled.
LEMMA RefusedForm ==
  ASSUME NEW c \in Contexts, NEW b \in Locked(c.i), Queues(b), NEW s \in Slab(b), NEW st \in Streams, st.state = Idle,
         NEW eos \in BOOLEAN, NEW len, Begun(st, eos, len) \in Streams
  PROVE  ScheduleImplicitReset(AnsweredAs(Sets(b, s, Begun(st, eos, len)), s), s) = Put(b, s, Refused(st, eos, len), SendQueue, TRUE)
<1> DEFINE x == Sets(b, s, Begun(st, eos, len))
           answered == AnsweredAs(x, s)
           h == Begun(st, eos, len)
           y == IF eos THEN Closed("EndStream") ELSE HalfClosedLocal("Streaming")
           h1 == [h EXCEPT !.state = y]
           h2 == [h1 EXCEPT !.out = Append(@, "HEADERS")]
           r == Refused(st, eos, len)
           x1 == [x EXCEPT !.store[s].state = y]
           x2 == [x1 EXCEPT !.store[s].out = Append(@, "HEADERS")]
<1>1. x.store[s] = h /\ Sets(x, s, h1) = Sets(b, s, h1)
  <2> HIDE DEF h, h1
  <2>1. x = Sets(b, s, h) BY DEF h
  <2>2. QED BY <2>1, StoredTwice
<1>2. SendOpen(h.state, TRUE) = y
  <2>1. h.state = IF eos THEN HalfClosedRemote("AwaitingHeaders") ELSE Open("AwaitingHeaders", "Streaming")
    BY DEF Begun, RecvOpen, Streams, Idle
  <2>2. CASE eos BY <2>1, <2>2 DEF SendOpen, HalfClosedRemote
  <2>3. CASE ~eos BY <2>1, <2>3 DEF SendOpen, Open
  <2>4. QED BY <2>2, <2>3
<1>3. h \in Streams OBVIOUS
<1> HIDE DEF h
<1>4. answered = ScheduleSend(x2, s)
  <2>1. [x EXCEPT !.store[s].state = SendOpen(@, TRUE)] = x1 BY <1>1, <1>2
  <2>2. answered = QueueFrame(x1, s, "HEADERS") BY <2>1 DEF AnsweredAs
  <2> HIDE DEF x1
  <2>3. QED BY <2>2 DEF QueueFrame
<1>5. x1 = Sets(b, s, h1)
  <2>1. x1 = Sets(x, s, h1) BY <1>1 DEF Sets, Stored
  <2>2. QED BY <1>1, <2>1
<1>6. /\ h2 \in Streams /\ h2.state = y
      /\ eos => h2 = r
      /\ ~eos => [h2 EXCEPT !.state = Closed("Scheduled")] = r
  <2>1. y \in States /\ Append(h.out, "HEADERS") \in Seq(OutFrames)
    BY <1>3 DEF States, Causes, Peers, Streams, OutFrames
  <2>2. r = [h EXCEPT !.state = IF eos THEN Closed("EndStream") ELSE Closed("Scheduled"),
                      !.out = Append(h.out, "HEADERS")]
    BY DEF Refused, h
  <2> HIDE DEF r
  <2>3. h2 = [h EXCEPT !.state = y, !.out = Append(h.out, "HEADERS")] BY <1>3 DEF Streams
  <2> DEFINE e == Append(h.out, "HEADERS")
  <2> HIDE DEF e, h2
  <2>4. h2 \in Streams /\ h2.state = y BY <1>3, <2>1, <2>3 DEF Streams, e
  <2>5. eos => h2 = r BY <2>2, <2>3
  <2>6. ~eos => [h2 EXCEPT !.state = Closed("Scheduled")] = r BY <1>3, <2>2, <2>3 DEF Streams, e
  <2>7. QED BY <2>4, <2>5, <2>6
<1> HIDE DEF x1, h1
<1>7. x2 = Sets(b, s, h2)
  <2>1. x1.store[s] = h1 /\ Sets(x1, s, h2) = Sets(b, s, h2) BY <1>5, StoredTwice
  <2>2. x2 = Sets(x1, s, h2) BY <2>1 DEF Sets, Stored
  <2>3. QED BY <2>1, <2>2
<1> HIDE DEF h2, x2, r, y
<1>8. answered = Put(b, s, h2, SendQueue, TRUE)
  <2>1. ScheduleSend(Sets(b, s, h2), s) = Put(b, s, h2, SendQueue, TRUE) BY SchedulePut
  <2>2. QED BY <1>4, <1>7, <2>1
<1>9. answered \in Locked(c.i) /\ answered.store[s] = h2 /\ s \in Slab(answered)
  <2> DEFINE yes == TRUE
             P == SendQueue
             n == Put(b, s, h2, P, yes)
  <2>1. yes \in BOOLEAN /\ P \in SUBSET Pushable BY DEF SendQueue, Pushable
  <2> HIDE DEF yes, P
  <2>2. n \in Locked(c.i) /\ Replaces(b, n, s, h2, P) BY <1>6, <2>1, PutIs
  <2>3. answered = n BY <1>8 DEF yes, P
  <2>4. n.store = [b.store EXCEPT ![s] = h2] BY <2>2 DEF Replaces
  <2>5. b.store \in [Slab(b) -> Streams] BY StoreTyped DEF Locked, Slab
  <2> HIDE DEF n
  <2>6. QED BY <2>2, <2>3, <2>4, <2>5 DEF Slab
<1>10. CASE eos
  <2>1. IsClosed(answered.store[s].state) BY <1>6, <1>9, <1>10 DEF IsClosed, Closed, y
  <2>2. ScheduleImplicitReset(answered, s) = answered BY <2>1 DEF ScheduleImplicitReset
  <2>3. h2 = r BY <1>6, <1>10
  <2>4. QED BY <1>8, <2>2, <2>3 DEF r
<1>11. CASE ~eos
  <2> DEFINE d == [answered.store[s] EXCEPT !.state = Closed("Scheduled")]
  <2>1. ~IsClosed(answered.store[s].state) BY <1>6, <1>9, <1>11 DEF IsClosed, HalfClosedLocal, y
  <2>2. ScheduleImplicitReset(answered, s) = Put(answered, s, d, SendQueue, TRUE) BY <1>9, <2>1, ImplicitResetEnds
  <2>3. d = r BY <1>6, <1>9, <1>11
  <2> HIDE DEF d
  <2> DEFINE yes == TRUE
  <2>4. answered = Put(b, s, h2, SendQueue, yes) /\ yes \in BOOLEAN BY <1>8
  <2> HIDE DEF yes
  <2>5. Put(answered, s, r, SendQueue, yes) = Put(b, s, r, SendQueue, yes) BY <1>6, <2>4, PutTwice
  <2>6. QED BY <2>2, <2>3, <2>5 DEF r, yes
<1>12. QED BY <1>10, <1>11

\* Its entry then.
LEMMA RefusedIs ==
  ASSUME NEW c \in Contexts, NEW init, NEW k, NEW st \in Streams, NEW w, Headed(c, init, k, st, w), c.i \in Servers,
         NEW eos \in BOOLEAN, NEW len \in Int
  PROVE  LET r == Refused(st, eos, len)
         IN  /\ Stopped(c, k, st, r) /\ r.counted = Begun(st, eos, len).counted
             /\ Outcome(r, init, eos)
<1> DEFINE h == Begun(st, eos, len)
           y == IF eos THEN Closed("EndStream") ELSE Closed("Scheduled")
           e == Append(h.out, "HEADERS")
           r == Refused(st, eos, len)
<1>1. /\ h \in Streams /\ h.flow = st.flow /\ h.inFlight = st.inFlight
      /\ h.events = st.events /\ h.handles = st.handles /\ h.promises = st.promises
  BY BegunIs
<1>2. r = [h EXCEPT !.state = y, !.out = e] BY DEF Refused
<1>3. y \in States /\ y \in RoleStates(c.i) /\ IsClosed(y)
  BY DEF States, Causes, RoleStates, ServerStates, IsClosed, Closed
<1>4. e \in Seq(OutFrames) BY <1>1 DEF Streams, OutFrames
<1>5. IsReset(y) \/ (eos /\ y = Closed("EndStream")) BY DEF IsReset, IsClosed, Closed
<1>6. ~IsRecvHeaders(y) /\ ~IsRecvStreaming(y)
  BY <1>3 DEF IsClosed, IsRecvHeaders, IsRecvStreaming, Idle, ReservedRemote, Open, HalfClosedLocal, Peers
<1> HIDE DEF h, y, e, r
<1>7. /\ r \in Streams /\ r.state = y /\ r.flow = h.flow /\ r.inFlight = h.inFlight /\ r.events = h.events
      /\ r.handles = h.handles /\ r.promises = h.promises /\ r.counted = h.counted
  BY <1>1, <1>2, <1>3, <1>4 DEF Streams
<1>8. k \in Nat BY DEF Headed, Opening, Awaited
<1>9. Stopped(c, k, st, r) BY <1>1, <1>3, <1>7, <1>8 DEF Stopped
<1>10. Outcome(r, init, eos) BY <1>5, <1>6, <1>7 DEF Outcome
<1>11. QED BY <1>7, <1>9, <1>10 DEF r, h

\* The record stays sound.
LEMMA RefusedSound ==
  ASSUME NEW c \in Contexts, c.i = instance, c.i \in Servers, NEW m, NEW X, Sound(c, m, X, 0), NEW s \in Slab(m),
         X \subseteq {s}, Headed(c, m.initWindow, s, m.store[s], Marks(m, s)), Room(c, m, m.store[s]),
         NEW eos \in BOOLEAN, NEW len \in Int,
         NEW n, n = Put(Bump(m, Slot(m.store[s])), s, Refused(m.store[s], eos, len), SendQueue, TRUE)
  PROVE  Opened(c, m, TransitionAfter(EnqueueResetExpiration(n, s), s, Queued(m.expiring, s)), s, eos)
<1> DEFINE st == m.store[s]
           w == Marks(m, s)
           init == m.initWindow
           more == Slot(st)
           b == Bump(m, more)
           r == Refused(st, eos, len)
           x == EnqueueResetExpiration(n, s)
           q == Queued(m.expiring, s)
           o == TransitionAfter(x, s, q)
           P == SendQueue
           yes == TRUE
           Y == X \cup {s}
           none == {}
           ids == {IdOf(s)}
           z == 0
<1>1. m \in Locked(c.i) BY DEF Sound
<1>2. st \in Streams BY <1>1, StreamTyped
<1>3. Headed(c, init, s, st, w) /\ n = Put(Bump(m, more), s, r, P, yes) /\ yes \in BOOLEAN /\ P \in {NoQueue, SendQueue}
  OBVIOUS
<1>4. more \in Int BY DEF Slot
<1>5. b \in Locked(c.i) BY <1>1, <1>4, BumpIs
<1>6. Opening(c, init, s, st, w) BY DEF Headed, Awaited
<1>7. Y \subseteq {s} /\ none \subseteq ids OBVIOUS
<1> HIDE DEF st, w, init, more, P, yes, z, Y, none, ids
<1>8. Stopped(c, s, st, r) /\ r.counted = Begun(st, eos, len).counted /\ Outcome(r, init, eos)
  BY <1>2, <1>3, RefusedIs
<1> HIDE DEF r
<1>9. Takes1(c, m, st, r, more)
  <2>1. Room(c, m, st) BY DEF st
  <2>2. Takes1(c, m, st, Begun(st, eos, len), more) BY <1>1, <1>2, <1>3, <2>1, BegunTakes DEF more
  <2>3. QED BY <1>8, <2>2 DEF Takes1
<1>10. PutMore(c, m, n, s, r, P, X, z, more) /\ Ready(c, r, Marks(m, s) \cup P)
  <2>1. /\ Stopped(c, s, m.store[s], r) /\ Takes1(c, m, m.store[s], r, Slot(m.store[s]))
        /\ n = Put(Bump(m, Slot(m.store[s])), s, r, P, yes)
    BY <1>3, <1>8, <1>9 DEF st, more
  <2>2. PutMore(c, m, n, s, r, P, X, 0, Slot(m.store[s])) /\ Ready(c, r, Marks(m, s) \cup P)
    BY <1>3, <2>1, StoppedSound
  <2>3. QED BY <2>2 DEF more, st, z
<1>11. /\ Sound(c, n, Y, z) /\ s \in Slab(n) /\ n.store[s] = r /\ Steady(c, b, n, ids)
       /\ n.expiring = m.expiring /\ n.ids = m.ids /\ Marks(n, s) = Marks(m, s) \cup P
  BY <1>10 DEF PutMore, Y, b, ids
<1>12. \A k \in Y : Queued(n.expiring, k) => k = s \/ Queued(n.sending, k) BY <1>7
<1> HIDE DEF b, x
<1>13. /\ Sound(c, x, Y \cup {s}, z) /\ Evicts(n, x, s) /\ Steady(c, n, x, none)
       /\ s \in Slab(x) /\ x.store[s] = r /\ (Queued(n.expiring, s) => Queued(x.expiring, s))
       /\ Fit(c, n.store[s], Marks(n, s)) /\ n.store[s].promises = <<>> => Fit(c, x.store[s], Marks(x, s))
  <2>1. /\ c \in Contexts /\ Sound(c, n, Y, z) /\ s \in Slab(n)
        /\ \A k \in Y : Queued(n.expiring, k) => k = s \/ Queued(n.sending, k)
    BY <1>11, <1>12
  <2>2. LET v == EnqueueResetExpiration(n, s)
        IN  /\ Sound(c, v, Y \cup {s}, z) /\ Evicts(n, v, s) /\ Steady(c, n, v, {})
            /\ s \in Slab(v) /\ v.store[s] = n.store[s]
            /\ Queued(n.expiring, s) => Queued(v.expiring, s)
            /\ Fit(c, n.store[s], Marks(n, s)) /\ n.store[s].promises = <<>> => Fit(c, v.store[s], Marks(v, s))
    BY ONLY <2>1, EnqueueReady
  <2>3. QED BY <1>11, <2>2 DEF x, none
<1>14. Ready(c, x.store[s], Marks(x, s))
  <2>1. Ready(c, n.store[s], Marks(n, s)) BY <1>10, <1>11
  <2>2. Fit(c, n.store[s], Marks(n, s)) /\ n.store[s].promises = <<>> /\ IsClosed(x.store[s].state)
    <3>1. st.promises = <<>> BY <1>6 DEF Opening
    <3>2. r.promises = <<>> /\ IsClosed(r.state) BY <1>8, <3>1 DEF Stopped
    <3>3. QED BY <1>11, <1>13, <2>1, <3>2, ReadyFit
  <2>3. QED BY <1>13, <2>2, ReadyFit
<1>15. Over(c, b, x, o, s)
  <2>1. Y \cup {s} \subseteq {s} BY <1>7
  <2>2. n \in Locked(c.i) /\ x \in Locked(c.i) BY <1>11, <1>13 DEF Sound
  <2>3. Steady(c, n, x, ids) BY <1>7, <1>13, SteadyMore
  <2>4. Steady(c, b, x, ids) BY <1>5, <1>11, <2>2, <2>3, SteadyTwice
  <2>5. q \in BOOLEAN /\ (q => Queued(x.expiring, s)) BY <1>11, <1>13 DEF Queued, Contains
  <2> DEFINE W == Y \cup {s}
  <2>6. W \subseteq {s} /\ Sound(c, x, W, 0) BY <1>13, <2>1 DEF z
  <2>7. Steady(c, b, x, {IdOf(s)}) BY <2>4 DEF ids
  <2> HIDE DEF W, q
  <2>8. QED BY <1>5, <1>13, <1>14, <2>5, <2>6, <2>7, HeadOver
<1> HIDE DEF o, q
<1>16. Opened(c, m, o, s, eos)
  <2>1. \A t \in DOMAIN x.ids : t \in DOMAIN m.ids /\ x.ids[t] = m.ids[t] BY <1>11, <1>13 DEF Evicts
  <2>2. /\ Over(c, Bump(m, Slot(m.store[s])), x, o, s) /\ Outcome(x.store[s], m.initWindow, eos)
        /\ x.store[s] \in Streams
    BY <1>8, <1>13, <1>15 DEF b, more, st, init, Stopped
  <2>3. QED BY <2>1, <2>2, OverOpened
<1>17. QED BY <1>16 DEF o, x, q
-----------------------------------------------------------------------------
\* Recv::recv_headers and what becomes of its errors, with transition_after.
LEMMA MessageSound ==
  ASSUME NEW c \in Contexts, c.i = instance, NEW m, NEW X, Sound(c, m, X, 0), NEW s \in Slab(m), X \subseteq {s},
         Headed(c, m.initWindow, s, m.store[s], Marks(m, s)), Room(c, m, m.store[s]),
         m.store[s].flow.window = m.initWindow, NEW eos \in BOOLEAN, NEW len \in Int, NEW how
  PROVE  Opened(c, m, TransitionAfter(RecvMessage(m, s, eos, len, how), s, Queued(m.expiring, s)), s, eos)
<1> DEFINE st == m.store[s]
           b == Bump(m, Slot(st))
           initial == IsInitial(st.state)
           opened == [m EXCEPT !.store[s].state = RecvOpen(@, eos),
                               !.store[s].length = IF len # Omitted THEN len ELSE @]
           counted == IF initial THEN IncNumRecv(opened, s) ELSE opened
           answered == QueueFrame([counted EXCEPT !.store[s].state = SendOpen(@, TRUE)], s, "HEADERS")
           given == Deliver(counted, s, Event("headers", 0))
           q == Queued(m.expiring, s)
           r == RecvMessage(m, s, eos, len, how)
           x == Sets(b, s, Begun(st, eos, len))
<1>1. m \in Locked(c.i) /\ st \in Streams /\ Queues(m) BY StreamTyped DEF Sound
<1>2. counted = x
  <2>1. CountedAs(m, s, eos, len) = Sets(Bump(m, Slot(m.store[s])), s, Begun(m.store[s], eos, len))
    BY <1>1, CountedIs
  <2>2. CountedAs(m, s, eos, len) = counted BY DEF CountedAs, OpenedAs
  <2>3. QED BY <2>1, <2>2
<1>3. b \in Locked(c.i) /\ Queues(b) /\ Slab(b) = Slab(m) /\ b.woken = m.woken
  <2>1. Slot(st) \in Int BY DEF Slot
  <2>2. QED BY <1>1, <2>1, BumpIs
<1>4. /\ how = "oversize" /\ IsServer /\ initial => r = EnqueueResetExpiration(ScheduleImplicitReset(answered, s), s)
      /\ how # "ok" /\ ~(how = "oversize" /\ IsServer /\ initial) => r = SendReset(counted, s)
      /\ how = "ok" => r = IF IsServer THEN [given EXCEPT !.accept = PushOnce(@, s)] ELSE given
  BY DEF RecvMessage
<1>5. CASE how = "ok"
  <2> DEFINE n == IF IsServer THEN [given EXCEPT !.accept = PushOnce(@, s)] ELSE given
  <2>1. r = n BY <1>4, <1>5
  <2>2. n = Put(b, s, Given(st, eos, len), HeadQueue(c), m.woken)
    <3>1. given = Deliver(x, s, Event("headers", 0)) BY <1>2
    <3> HIDE DEF given, x, b
    <3>2. x = Sets(b, s, Begun(st, eos, len)) BY DEF x
    <3>3. n = Put(b, s, Given(st, eos, len), HeadQueue(c), b.woken) BY <1>1, <1>3, <3>1, <3>2, GivenForm
    <3>4. QED BY <1>3, <3>3
  <2> HIDE DEF n
  <2>3. n = Put(Bump(m, Slot(m.store[s])), s, Given(m.store[s], eos, len), HeadQueue(c), m.woken) BY <2>2
  <2>4. QED BY <2>1, <2>3, GivenSound
<1>6. CASE how = "oversize" /\ IsServer /\ initial
  <2> DEFINE n == ScheduleImplicitReset(answered, s)
  <2>1. c.i \in Servers BY <1>6 DEF IsServer
  <2>2. Opening(c, m.initWindow, s, st, Marks(m, s)) /\ st.state = Idle BY <2>1 DEF Headed, Awaited, Opening
  <2>3. Begun(st, eos, len) \in Streams BY <1>1, BegunIs
  <2>4. n = Put(b, s, Refused(st, eos, len), SendQueue, TRUE)
    <3>1. answered = AnsweredAs(x, s) BY <1>2 DEF AnsweredAs
    <3> HIDE DEF answered, b, st
    <3>2. st \in Streams /\ st.state = Idle /\ b \in Locked(c.i) /\ Queues(b) /\ s \in Slab(b) BY <1>1, <1>3, <2>2
    <3>3. ScheduleImplicitReset(AnsweredAs(Sets(b, s, Begun(st, eos, len)), s), s)
             = Put(b, s, Refused(st, eos, len), SendQueue, TRUE)
      BY <2>3, <3>2, RefusedForm
    <3>4. QED BY <3>1, <3>3 DEF x
  <2> HIDE DEF n
  <2>5. n = Put(Bump(m, Slot(m.store[s])), s, Refused(m.store[s], eos, len), SendQueue, TRUE) BY <2>4
  <2>6. r = EnqueueResetExpiration(n, s) BY <1>4, <1>6 DEF n
  <2>7. QED BY <2>1, <2>5, <2>6, RefusedSound
<1>7. CASE how # "ok" /\ ~(how = "oversize" /\ IsServer /\ initial)
  <2>1. r = SendReset(x, s) BY <1>2, <1>4, <1>7
  <2> HIDE DEF r, x, b, counted, opened, given, answered
  <2>2. x = Sets(Bump(m, Slot(m.store[s])), s, Begun(m.store[s], eos, len)) BY DEF x, b
  <2>3. Opened(c, m, TransitionAfter(SendReset(x, s), s, Queued(m.expiring, s)), s, eos) BY <2>2, MalformedSound
  <2>4. QED BY <2>1, <2>3 DEF r
<1>8. QED BY <1>5, <1>6, <1>7

=============================================================================
