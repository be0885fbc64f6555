-------------------------- MODULE SendStreamsProofs --------------------------
(* Every step of SendStreams keeps its inductive invariant, and what follows *)
(* from it.  SendStreamsLemmas has the invariant and the helpers; here are   *)
(* the operations made of them: the loops over all streams, opening a        *)
(* stream, pop_frame, and then each action.                                  *)
EXTENDS SendStreamsLemmas

-----------------------------------------------------------------------------
(* Streams that fail together.                                               *)

\* A stream that fails with the connection keeps the invariant.
LEMMA FailStreamSound ==
  ASSUME NEW m, NEW rest \in Loose, Sound(m, 0, rest), NEW s \in Slab(m), rest.new[s] = 0,
         NEW c \in Causes, NEW E, c # "LocallyReset" => s \in E
  PROVE  LET n == FailStream(m, s, c)
         IN  /\ Sound(n, 0, rest) /\ Keeps(m, n) /\ Calm(m, n, E) /\ Slab(m) \ {s} \subseteq Slab(n)
<1> DEFINE x == RecvErr(m.store[s].state, c)
           k == SendRecvErr([m EXCEPT !.store[s].state = x], s)
           n == TransitionAfter(k, s, Queued(m.pendingReset, s))
<1>1. m \in Locked /\ m.store[s].state \in States BY StreamFacts DEF Streams
<1>2. FailStream(m, s, c) = n BY DEF FailStream, Transition
<1>3. x \in States /\ IsClosed(x) BY <1>1, StatesTyped
<1>4. PeerEnded(x) => s \in E \/ PeerEnded(m.store[s].state)
  BY DEF RecvErr, PeerEnded, IsClosed, IsLocalReset, Closed
<1> HIDE DEF x
<1>5. Sound(k, 0, rest) /\ Steady(m, k) /\ Calm(m, k, E) BY <1>3, <1>4, FailSound
<1> HIDE DEF k
<1>6. Sound(n, 0, rest) /\ Keeps(m, n) /\ Calm(m, n, E) /\ Settles(k, n, s) BY <1>1, <1>5, SteadyEnds
<1> HIDE DEF n
<1>7. Slab(m) \ {s} \subseteq Slab(n) BY <1>5, <1>6 DEF Settles, Steady
<1>8. QED BY <1>2, <1>6, <1>7

\* A GOAWAY, or the end of the transport, fails every stream above `last`.
LEMMA FailAboveSound ==
  ASSUME NEW m, NEW rest \in Loose, Sound(m, 0, rest), \A t \in Ids : rest.new[t] = 0,
         NEW last, NEW c \in Causes, NEW E, c # "LocallyReset" => Slab(m) \subseteq E
  PROVE  LET n == FailAbove(m, last, c)
         IN  Sound(n, 0, rest) /\ Keeps(m, n) /\ Calm(m, n, E)
<1> DEFINE q == m.ids
           n == Len(q)
           Fail(v, s) == IF s > last THEN FailStream(v, s, c) ELSE v
           Ahead(k) == {q[i] : i \in k + 1 .. n}
           W == {p \in (0 .. n) \X Locked :
                   /\ Sound(p[2], 0, rest) /\ Keeps(m, p[2]) /\ Calm(m, p[2], E)
                   /\ Ahead(p[1]) \subseteq Slab(p[2])}
           Body(h) == [i \in 0 .. n |-> IF i = 0 THEN m ELSE (IF q[i] > last THEN FailStream(h[i - 1], q[i], c) ELSE h[i - 1])]
           g == [p \in (1 .. n) \X Locked |-> (IF q[p[1]] > last THEN FailStream(p[2], q[p[1]], c) ELSE p[2])]
<1>1. m \in Locked /\ IsQueue(q, Slab(m)) /\ n \in Nat /\ Slab(m) \subseteq Ids
  BY StreamTyped DEF Sound, Queues, IsQueue
<1>2. <<0, m>> \in W
  <2>1. Keeps(m, m) /\ Calm(m, m, E) BY <1>1, KeepsNothing, CalmMore DEF Steady
  <2> DEFINE z == 0
  <2>2. z \in 0 .. n /\ Ahead(z) \subseteq Slab(m) BY <1>1 DEF IsQueue
  <2>3. Sound(m, 0, rest) OBVIOUS
  <2> HIDE DEF Ahead, z
  <2>4. <<z, m>> \in W BY <1>1, <2>1, <2>2, <2>3
  <2>5. QED BY <2>4 DEF z
<1>3. ASSUME NEW k \in 1 .. n, NEW v, <<k - 1, v>> \in W
      PROVE  v \in Locked /\ <<k, (IF q[k] > last THEN FailStream(v, q[k], c) ELSE v)>> \in W
  <2>1. /\ v \in Locked /\ Sound(v, 0, rest) /\ Keeps(m, v) /\ Calm(m, v, E)
        /\ Ahead(k - 1) \subseteq Slab(v)
    BY <1>3
  <2>2. q[k] \in Ahead(k - 1) /\ Ahead(k) \subseteq Ahead(k - 1) /\ q[k] \notin Ahead(k)
    BY <1>1 DEF IsQueue, IsInjective
  <2>3. q[k] \in Slab(v) /\ rest.new[q[k]] = 0 /\ (c # "LocallyReset" => q[k] \in E)
    BY <1>1, <2>1, <2>2 DEF Keeps
  <2>4. k \in 0 .. n BY <1>1
  <2> DEFINE o == FailStream(v, q[k], c)
  <2> HIDE DEF Ahead
  <2>5. CASE ~(q[k] > last) BY <2>1, <2>2, <2>4, <2>5
  <2>6. CASE q[k] > last
    <3>1. Sound(o, 0, rest) /\ Keeps(v, o) /\ Calm(v, o, E) /\ Slab(v) \ {q[k]} \subseteq Slab(o)
      BY <2>1, <2>3, FailStreamSound
    <3> HIDE DEF o
    <3>2. Keeps(m, o) /\ Calm(m, o, E) BY <2>1, <3>1, KeepsTwice
    <3>3. o \in Locked BY <3>1 DEF Sound
    <3>4. Ahead(k) \subseteq Slab(o) BY <2>1, <2>2, <3>1
    <3>5. <<k, o>> \in W BY <2>4, <3>1, <3>2, <3>3, <3>4
    <3>6. QED BY <2>1, <2>6, <3>5 DEF o
  <2>7. QED BY <2>5, <2>6
<1>4. \A k \in 1 .. n : \A v : <<k - 1, v>> \in W => <<k, g[<<k, v>>]>> \in W
  <2> HIDE DEF W
  <2>1. QED BY <1>3
<1> HIDE DEF W, g
<1>5. PICK f : Loops(n, m, g, f) /\ \A k \in 0 .. n : <<k, f[k]>> \in W
  <2>1. CanLoop(n, W, m, g) BY <1>1, <1>2, <1>4 DEF CanLoop
  <2>2. QED BY <2>1, LoopRecursion
<1>6. f = Body(f)
  <2>1. \A k \in 1 .. n : k - 1 \in 0 .. n /\ <<k - 1, f[k - 1]>> \in W BY <1>1, <1>5
  <2>2. \A k \in 1 .. n : f[k - 1] \in Locked BY <1>3, <2>1
  <2>3. \A k \in 1 .. n : g[<<k, f[k - 1]>>] = (IF q[k] > last THEN FailStream(f[k - 1], q[k], c) ELSE f[k - 1]) BY <2>2 DEF g
  <2>4. f = [k \in 0 .. n |-> IF k = 0 THEN m ELSE g[<<k, f[k - 1]>>]] BY <1>5 DEF Loops
  <2>5. \A k \in 0 .. n : k # 0 => k \in 1 .. n BY <1>1
  <2>6. QED BY <2>3, <2>4, <2>5
<1> DEFINE after == CHOOSE h : h = Body(h)
<1>7. after = Body(after)
  <2> HIDE DEF Body
  <2> QED BY <1>6
<1>8. FailAbove(m, last, c) = after[n]
  BY DEF FailAbove, ForEach, Each
<1>9. /\ after[0] = m
      /\ \A k \in 1 .. n : after[k] = (IF q[k] > last THEN FailStream(after[k - 1], q[k], c) ELSE after[k - 1])
  <2> HIDE DEF after
  <2>1. \A k \in 0 .. n : after[k] = IF k = 0 THEN m ELSE (IF q[k] > last THEN FailStream(after[k - 1], q[k], c) ELSE after[k - 1])
    BY <1>7
  <2>2. QED BY <1>1, <2>1
<1> HIDE DEF after
<1>10. <<n, after[n]>> \in W
  <2>1. \A k \in 1 .. n : <<k - 1, after[k - 1]>> \in W => <<k, after[k]>> \in W
    BY <1>3, <1>9
  <2>2. <<0, after[0]>> \in W BY <1>2, <1>9
  <2> HIDE DEF n
  <2>3. QED BY <1>1, <2>1, <2>2, LoopHolds
<1>11. QED BY <1>8, <1>10 DEF W

\* A stream stops waiting for capacity.
LEMMA DropWaitingSound ==
  ASSUME NEW m, NEW rest \in Loose, Sound(m, 0, rest), m.pendingCapacity # <<>>
  PROVE  LET s == Head(m.pendingCapacity)
             n == DropWaiting(m, s)
         IN  Sound(n, 0, rest) /\ Keeps(m, n) /\ Calm(m, n, {}) /\ n.pendingCapacity = Tail(m.pendingCapacity)
<1> DEFINE s == Head(m.pendingCapacity)
           k == [m EXCEPT !.pendingCapacity = Tail(@)]
           n == TransitionAfter(k, s, Queued(k.pendingReset, s))
<1>1. m \in Locked /\ Queues(m) BY DEF Sound
<1>2. DropWaiting(m, s) = n BY DEF DropWaiting, Transition, Same
<1>3. /\ s \in Slab(m) /\ IsQueue(Tail(m.pendingCapacity), Slab(m))
      /\ \A t : Queued(Tail(m.pendingCapacity), t) => Queued(m.pendingCapacity, t)
  BY <1>1, QueueTail DEF Queues
<1>4. Tail(m.pendingCapacity) \in Seq(Ids)
  <2>1. IsQueue(Tail(m.pendingCapacity), Ids) BY <1>1, <1>3, StoreTyped, QueueWiden DEF Locked, Slab
  <2>2. QED BY <2>1 DEF IsQueue
<1>5. Requeues(m, k) /\ k.pendingCapacity = Tail(m.pendingCapacity)
  <2>1. /\ k \in Locked /\ k.store = m.store /\ SameSlots(m, k) /\ k.flow = m.flow
        /\ k.inFlight = m.inFlight /\ k.failed = m.failed /\ k.pendingCapacity = Tail(m.pendingCapacity)
        /\ k.pendingSend = m.pendingSend
    BY <1>1, <1>4 DEF Locked, SameSlots
  <2> HIDE DEF k
  <2>2. QED BY <1>1, <1>3, <2>1 DEF Requeues, Queues, Harmless
<1> HIDE DEF k
<1>6. Sound(k, 0, rest) /\ Slab(k) = Slab(m) /\ Steady(m, k) /\ Calm(m, k, {})
  BY <1>1, <1>5, RequeueSound, RequeuesSteady
<1>7. k \in Locked /\ Steady(k, k) /\ Calm(k, k, {}) BY <1>6, KeepsNothing DEF Sound
<1>8. Sound(n, 0, rest) /\ Keeps(k, n) /\ Calm(k, n, {}) /\ Settles(k, n, s)
  BY <1>3, <1>6, <1>7, SteadyEnds
<1> HIDE DEF n
<1>9. Keeps(m, n) /\ Calm(m, n, {}) BY <1>6, <1>8, KeepsTwice DEF Steady
<1>10. QED BY <1>2, <1>5, <1>8, <1>9 DEF Settles

\* A stream stops waiting to be written.
LEMMA DropSendingSound ==
  ASSUME NEW m, NEW rest \in Loose, Sound(m, 0, rest), m.pendingSend # <<>>
  PROVE  LET s == Head(m.pendingSend)
             n == DropSending(m, s)
         IN  Sound(n, 0, rest) /\ Keeps(m, n) /\ Calm(m, n, {}) /\ n.pendingSend = Tail(m.pendingSend)
<1> DEFINE s == Head(m.pendingSend)
           k == [m EXCEPT !.pendingSend = Tail(@)]
           n == TransitionAfter(k, s, Queued(k.pendingReset, s))
<1>1. m \in Locked /\ Queues(m) BY DEF Sound
<1>2. DropSending(m, s) = n BY DEF DropSending, Transition, Same
<1>3. /\ s \in Slab(m) /\ IsQueue(Tail(m.pendingSend), Slab(m))
      /\ \A t : Queued(Tail(m.pendingSend), t) => Queued(m.pendingSend, t)
  BY <1>1, QueueTail DEF Queues
<1>4. Tail(m.pendingSend) \in Seq(Ids)
  <2>1. IsQueue(Tail(m.pendingSend), Ids) BY <1>1, <1>3, StoreTyped, QueueWiden DEF Locked, Slab
  <2>2. QED BY <2>1 DEF IsQueue
<1>5. Requeues(m, k) /\ k.pendingSend = Tail(m.pendingSend)
  <2>1. /\ k \in Locked /\ k.store = m.store /\ SameSlots(m, k) /\ k.flow = m.flow
        /\ k.inFlight = m.inFlight /\ k.failed = m.failed /\ k.pendingSend = Tail(m.pendingSend)
        /\ k.pendingCapacity = m.pendingCapacity
    BY <1>1, <1>4 DEF Locked, SameSlots
  <2> HIDE DEF k
  <2>2. QED BY <1>1, <1>3, <2>1 DEF Requeues, Queues, Harmless
<1> HIDE DEF k
<1>6. Sound(k, 0, rest) /\ Slab(k) = Slab(m) /\ Steady(m, k) /\ Calm(m, k, {})
  BY <1>1, <1>5, RequeueSound, RequeuesSteady
<1>7. k \in Locked /\ Steady(k, k) /\ Calm(k, k, {}) BY <1>6, KeepsNothing DEF Sound
<1>8. Sound(n, 0, rest) /\ Keeps(k, n) /\ Calm(k, n, {}) /\ Settles(k, n, s)
  BY <1>3, <1>6, <1>7, SteadyEnds
<1> HIDE DEF n
<1>9. Keeps(m, n) /\ Calm(m, n, {}) BY <1>6, <1>8, KeepsTwice DEF Steady
<1>10. QED BY <1>2, <1>5, <1>8, <1>9 DEF Settles

\* Popping pending_open keeps the invariant.
LEMMA PopOpenSound ==
  ASSUME NEW m, NEW rest, Sound(m, 0, rest), m.pendingOpen # <<>>
  PROVE  LET n == [m EXCEPT !.pendingOpen = Tail(@)]
             s == Head(m.pendingOpen)
         IN  /\ Sound(n, 0, rest) /\ Slab(n) = Slab(m) /\ Keeps(m, n) /\ Calm(m, n, {})
             /\ s \in Slab(m) /\ ~Queued(n.pendingOpen, s) /\ n.pendingOpen = Tail(m.pendingOpen)
             /\ n.store = m.store /\ ~m.store[s].counted /\ Busy(m.store[s]) /\ n.maxSend = m.maxSend
<1> DEFINE q == Tail(m.pendingOpen)
           s == Head(m.pendingOpen)
           n == [m EXCEPT !.pendingOpen = q]
<1>1. m \in Locked BY DEF Sound
<1>2. /\ s \in Slab(m) /\ Queued(m.pendingOpen, s) /\ IsQueue(q, Slab(m)) /\ ~Queued(q, s)
      /\ \A t : Queued(q, t) => Queued(m.pendingOpen, t)
  BY QueueTail DEF Sound, Queues
<1>3. q \in Seq(Ids)
  <2>1. IsQueue(q, Ids) BY <1>2, StoreTyped, QueueWiden DEF Sound, Locked, Slab
  <2>2. QED BY <2>1 DEF IsQueue
<1>4. [m EXCEPT !.pendingOpen = Tail(@)] = n OBVIOUS
<1> HIDE DEF q, s
<1>5. /\ n \in Locked /\ n.store = m.store /\ n.pendingOpen = q /\ n.ids = m.ids
      /\ n.pendingSend = m.pendingSend /\ n.pendingCapacity = m.pendingCapacity
      /\ n.pendingReset = m.pendingReset /\ n.flow = m.flow /\ n.inFlight = m.inFlight
      /\ n.nextId = m.nextId /\ n.failed = m.failed /\ n.maxSend = m.maxSend
      /\ n.numSend = m.numSend /\ n.numReset = m.numReset
  BY <1>1, <1>3 DEF Locked
<1> HIDE DEF n
<1>6. Slab(n) = Slab(m) BY <1>5 DEF Slab
<1>7. Queues(n) /\ Findable(n) BY <1>2, <1>5, <1>6 DEF Sound, Queues, Findable, StreamClosed
<1>8. Working(n) BY <1>2, <1>5, <1>6 DEF Sound, Working
<1>9. Slots(n)
  <2>1. Counted(n) = Counted(m) /\ Counted(m) \subseteq Slab(m) BY <1>5, <1>6 DEF Counted
  <2>2. QED BY <1>2, <1>5, <2>1 DEF Sound, Slots
<1>10. Fine(n, rest) /\ Returnable(n, rest) /\ Trusty(n)
  BY <1>2, <1>5, <1>6 DEF Sound, Fine, Held, Returnable, Trusty
<1>11. Balanced(n, 0)
  <2>1. HandedOut(n) = HandedOut(m) BY <1>5, <1>6 DEF HandedOut
  <2>2. QED BY <1>5, <2>1 DEF Sound, Balanced
<1>12. Sound(n, 0, rest) BY <1>5, <1>7, <1>8, <1>9, <1>10, <1>11 DEF Sound
<1>13. Keeps(m, n) /\ Calm(m, n, {}) BY <1>5, <1>6 DEF Keeps, Calm
<1>14. ~m.store[s].counted
  <2>1. s \notin Counted(m) BY <1>2 DEF Sound, Slots
  <2>2. m.store[s].counted \in BOOLEAN BY <1>1, <1>2, StreamTyped DEF Streams
  <2>3. QED BY <1>2, <2>1, <2>2 DEF Counted
<1>15. Busy(m.store[s]) BY <1>2 DEF Sound, Working
<1>16. QED BY <1>2, <1>4, <1>5, <1>6, <1>12, <1>13, <1>14, <1>15 DEF n, s, q

\* A stream stops waiting for a slot.
LEMMA DropOpeningSound ==
  ASSUME NEW m, NEW rest \in Loose, Sound(m, 0, rest), m.pendingOpen # <<>>
  PROVE  LET s == Head(m.pendingOpen)
             n == DropOpening(m, s)
         IN  Sound(n, 0, rest) /\ Keeps(m, n) /\ Calm(m, n, {}) /\ n.pendingOpen = Tail(m.pendingOpen)
<1> DEFINE s == Head(m.pendingOpen)
           k == [m EXCEPT !.pendingOpen = Tail(@)]
           n == TransitionAfter(k, s, Queued(k.pendingReset, s))
<1>1. DropOpening(m, s) = n BY DEF DropOpening, Transition, Same
<1>2. /\ Sound(k, 0, rest) /\ Slab(k) = Slab(m) /\ Keeps(m, k) /\ Calm(m, k, {})
      /\ s \in Slab(m) /\ k.pendingOpen = Tail(m.pendingOpen)
  BY PopOpenSound
<1> HIDE DEF k
<1>3. k \in Locked /\ Steady(k, k) /\ Calm(k, k, {}) BY <1>2, KeepsNothing DEF Sound
<1>4. Sound(n, 0, rest) /\ Keeps(k, n) /\ Calm(k, n, {}) /\ Settles(k, n, s)
  BY <1>2, <1>3, SteadyEnds
<1> HIDE DEF n
<1>5. Keeps(m, n) /\ Calm(m, n, {}) BY <1>2, <1>4, KeepsTwice
<1>6. QED BY <1>1, <1>2, <1>4, <1>5 DEF Settles

\* A stream that was kept for late frames is forgotten.
LEMMA DropExpiringSound ==
  ASSUME NEW m, NEW rest \in Loose, Sound(m, 0, rest), m.pendingReset # <<>>
  PROVE  LET s == Head(m.pendingReset)
             n == DropExpiring(m, s)
         IN  Sound(n, 0, rest) /\ Keeps(m, n) /\ Calm(m, n, {}) /\ n.pendingReset = Tail(m.pendingReset)
BY ExpireSound DEF DropExpiring

\* Every stream kept for late frames is forgotten.
LEMMA DropExpiringAllSound ==
  ASSUME NEW m, NEW rest \in Loose, Sound(m, 0, rest)
  PROVE  LET n == Each(DropExpiring, m, m.pendingReset)
         IN  Sound(n, 0, rest) /\ Keeps(m, n) /\ Calm(m, n, {})
<1> DEFINE q == m.pendingReset
           n == Len(q)
           W == {p \in (0 .. n) \X Locked :
                   /\ Sound(p[2], 0, rest) /\ Keeps(m, p[2]) /\ Calm(m, p[2], {})
                   /\ p[2].pendingReset = After(q, p[1])}
           Body(h) == [i \in 0 .. n |-> IF i = 0 THEN m ELSE DropExpiring(h[i - 1], q[i])]
           g == [p \in (1 .. n) \X Locked |-> DropExpiring(p[2], q[p[1]])]
<1>1. m \in Locked /\ q \in Seq(Ids) /\ n \in Nat
  BY DEF Sound, Locked
<1>2. <<0, m>> \in W
  <2>1. Keeps(m, m) /\ Calm(m, m, {}) BY <1>1, KeepsNothing DEF Steady
  <2>2. 0 \in 0 .. n /\ m.pendingReset = After(q, 0) BY <1>1, AfterNone
  <2>3. QED BY <1>1, <2>1, <2>2
<1>3. ASSUME NEW k \in 1 .. n, NEW v, <<k - 1, v>> \in W
      PROVE  v \in Locked /\ <<k, DropExpiring(v, q[k])>> \in W
  <2>1. /\ v \in Locked /\ Sound(v, 0, rest) /\ Keeps(m, v) /\ Calm(m, v, {})
        /\ v.pendingReset = After(q, k - 1)
    BY <1>3
  <2>2. v.pendingReset # <<>> /\ Head(v.pendingReset) = q[k] /\ Tail(v.pendingReset) = After(q, k)
    BY <1>1, <2>1, AfterOne
  <2> DEFINE o == DropExpiring(v, q[k])
  <2>3. Sound(o, 0, rest) /\ Keeps(v, o) /\ Calm(v, o, {}) /\ o.pendingReset = Tail(v.pendingReset)
    BY <2>1, <2>2, DropExpiringSound
  <2> HIDE DEF o
  <2>4. Keeps(m, o) /\ Calm(m, o, {}) BY <2>1, <2>3, KeepsTwice
  <2>5. o \in Locked /\ k \in 0 .. n BY <1>1, <2>3 DEF Sound
  <2>6. <<k, o>> \in W BY <2>2, <2>3, <2>4, <2>5
  <2>7. QED BY <2>1, <2>6 DEF o
<1>4. \A k \in 1 .. n : \A v : <<k - 1, v>> \in W => <<k, g[<<k, v>>]>> \in W
  <2> HIDE DEF W
  <2>1. QED BY <1>3
<1> HIDE DEF W, g
<1>5. PICK f : Loops(n, m, g, f) /\ \A k \in 0 .. n : <<k, f[k]>> \in W
  <2>1. CanLoop(n, W, m, g) BY <1>1, <1>2, <1>4 DEF CanLoop
  <2>2. QED BY <2>1, LoopRecursion
<1>6. f = Body(f)
  <2>1. \A k \in 1 .. n : k - 1 \in 0 .. n /\ <<k - 1, f[k - 1]>> \in W BY <1>1, <1>5
  <2>2. \A k \in 1 .. n : f[k - 1] \in Locked BY <1>3, <2>1
  <2>3. \A k \in 1 .. n : g[<<k, f[k - 1]>>] = DropExpiring(f[k - 1], q[k]) BY <2>2 DEF g
  <2>4. f = [k \in 0 .. n |-> IF k = 0 THEN m ELSE g[<<k, f[k - 1]>>]] BY <1>5 DEF Loops
  <2>5. \A k \in 0 .. n : k # 0 => k \in 1 .. n BY <1>1
  <2>6. QED BY <2>3, <2>4, <2>5
<1> DEFINE after == CHOOSE h : h = Body(h)
<1>7. after = Body(after)
  <2> HIDE DEF Body
  <2> QED BY <1>6
<1>8. Each(DropExpiring, m, m.pendingReset) = after[n]
  BY DEF Each
<1>9. /\ after[0] = m
      /\ \A k \in 1 .. n : after[k] = DropExpiring(after[k - 1], q[k])
  <2> HIDE DEF after
  <2>1. \A k \in 0 .. n : after[k] = IF k = 0 THEN m ELSE DropExpiring(after[k - 1], q[k])
    BY <1>7
  <2>2. QED BY <1>1, <2>1
<1> HIDE DEF after
<1>10. <<n, after[n]>> \in W
  <2>1. \A k \in 1 .. n : <<k - 1, after[k - 1]>> \in W => <<k, after[k]>> \in W
    BY <1>3, <1>9
  <2>2. <<0, after[0]>> \in W BY <1>2, <1>9
  <2> HIDE DEF n
  <2>3. QED BY <1>1, <2>1, <2>2, LoopHolds
<1>11. QED BY <1>8, <1>10 DEF W

\* No stream waits for capacity any more.
LEMMA DropWaitingAllSound ==
  ASSUME NEW m, NEW rest \in Loose, Sound(m, 0, rest)
  PROVE  LET n == Each(DropWaiting, m, m.pendingCapacity)
         IN  Sound(n, 0, rest) /\ Keeps(m, n) /\ Calm(m, n, {})
<1> DEFINE q == m.pendingCapacity
           n == Len(q)
           W == {p \in (0 .. n) \X Locked :
                   /\ Sound(p[2], 0, rest) /\ Keeps(m, p[2]) /\ Calm(m, p[2], {})
                   /\ p[2].pendingCapacity = After(q, p[1])}
           Body(h) == [i \in 0 .. n |-> IF i = 0 THEN m ELSE DropWaiting(h[i - 1], q[i])]
           g == [p \in (1 .. n) \X Locked |-> DropWaiting(p[2], q[p[1]])]
<1>1. m \in Locked /\ q \in Seq(Ids) /\ n \in Nat
  BY DEF Sound, Locked
<1>2. <<0, m>> \in W
  <2>1. Keeps(m, m) /\ Calm(m, m, {}) BY <1>1, KeepsNothing DEF Steady
  <2>2. 0 \in 0 .. n /\ m.pendingCapacity = After(q, 0) BY <1>1, AfterNone
  <2>3. QED BY <1>1, <2>1, <2>2
<1>3. ASSUME NEW k \in 1 .. n, NEW v, <<k - 1, v>> \in W
      PROVE  v \in Locked /\ <<k, DropWaiting(v, q[k])>> \in W
  <2>1. /\ v \in Locked /\ Sound(v, 0, rest) /\ Keeps(m, v) /\ Calm(m, v, {})
        /\ v.pendingCapacity = After(q, k - 1)
    BY <1>3
  <2>2. v.pendingCapacity # <<>> /\ Head(v.pendingCapacity) = q[k] /\ Tail(v.pendingCapacity) = After(q, k)
    BY <1>1, <2>1, AfterOne
  <2> DEFINE o == DropWaiting(v, q[k])
  <2>3. Sound(o, 0, rest) /\ Keeps(v, o) /\ Calm(v, o, {}) /\ o.pendingCapacity = Tail(v.pendingCapacity)
    BY <2>1, <2>2, DropWaitingSound
  <2> HIDE DEF o
  <2>4. Keeps(m, o) /\ Calm(m, o, {}) BY <2>1, <2>3, KeepsTwice
  <2>5. o \in Locked /\ k \in 0 .. n BY <1>1, <2>3 DEF Sound
  <2>6. <<k, o>> \in W BY <2>2, <2>3, <2>4, <2>5
  <2>7. QED BY <2>1, <2>6 DEF o
<1>4. \A k \in 1 .. n : \A v : <<k - 1, v>> \in W => <<k, g[<<k, v>>]>> \in W
  <2> HIDE DEF W
  <2>1. QED BY <1>3
<1> HIDE DEF W, g
<1>5. PICK f : Loops(n, m, g, f) /\ \A k \in 0 .. n : <<k, f[k]>> \in W
  <2>1. CanLoop(n, W, m, g) BY <1>1, <1>2, <1>4 DEF CanLoop
  <2>2. QED BY <2>1, LoopRecursion
<1>6. f = Body(f)
  <2>1. \A k \in 1 .. n : k - 1 \in 0 .. n /\ <<k - 1, f[k - 1]>> \in W BY <1>1, <1>5
  <2>2. \A k \in 1 .. n : f[k - 1] \in Locked BY <1>3, <2>1
  <2>3. \A k \in 1 .. n : g[<<k, f[k - 1]>>] = DropWaiting(f[k - 1], q[k]) BY <2>2 DEF g
  <2>4. f = [k \in 0 .. n |-> IF k = 0 THEN m ELSE g[<<k, f[k - 1]>>]] BY <1>5 DEF Loops
  <2>5. \A k \in 0 .. n : k # 0 => k \in 1 .. n BY <1>1
  <2>6. QED BY <2>3, <2>4, <2>5
<1> DEFINE after == CHOOSE h : h = Body(h)
<1>7. after = Body(after)
  <2> HIDE DEF Body
  <2> QED BY <1>6
<1>8. Each(DropWaiting, m, m.pendingCapacity) = after[n]
  BY DEF Each
<1>9. /\ after[0] = m
      /\ \A k \in 1 .. n : after[k] = DropWaiting(after[k - 1], q[k])
  <2> HIDE DEF after
  <2>1. \A k \in 0 .. n : after[k] = IF k = 0 THEN m ELSE DropWaiting(after[k - 1], q[k])
    BY <1>7
  <2>2. QED BY <1>1, <2>1
<1> HIDE DEF after
<1>10. <<n, after[n]>> \in W
  <2>1. \A k \in 1 .. n : <<k - 1, after[k - 1]>> \in W => <<k, after[k]>> \in W
    BY <1>3, <1>9
  <2>2. <<0, after[0]>> \in W BY <1>2, <1>9
  <2> HIDE DEF n
  <2>3. QED BY <1>1, <2>1, <2>2, LoopHolds
<1>11. QED BY <1>8, <1>10 DEF W

\* No stream waits to be written any more.
LEMMA DropSendingAllSound ==
  ASSUME NEW m, NEW rest \in Loose, Sound(m, 0, rest)
  PROVE  LET n == Each(DropSending, m, m.pendingSend)
         IN  Sound(n, 0, rest) /\ Keeps(m, n) /\ Calm(m, n, {})
<1> DEFINE q == m.pendingSend
           n == Len(q)
           W == {p \in (0 .. n) \X Locked :
                   /\ Sound(p[2], 0, rest) /\ Keeps(m, p[2]) /\ Calm(m, p[2], {})
                   /\ p[2].pendingSend = After(q, p[1])}
           Body(h) == [i \in 0 .. n |-> IF i = 0 THEN m ELSE DropSending(h[i - 1], q[i])]
           g == [p \in (1 .. n) \X Locked |-> DropSending(p[2], q[p[1]])]
<1>1. m \in Locked /\ q \in Seq(Ids) /\ n \in Nat
  BY DEF Sound, Locked
<1>2. <<0, m>> \in W
  <2>1. Keeps(m, m) /\ Calm(m, m, {}) BY <1>1, KeepsNothing DEF Steady
  <2>2. 0 \in 0 .. n /\ m.pendingSend = After(q, 0) BY <1>1, AfterNone
  <2>3. QED BY <1>1, <2>1, <2>2
<1>3. ASSUME NEW k \in 1 .. n, NEW v, <<k - 1, v>> \in W
      PROVE  v \in Locked /\ <<k, DropSending(v, q[k])>> \in W
  <2>1. /\ v \in Locked /\ Sound(v, 0, rest) /\ Keeps(m, v) /\ Calm(m, v, {})
        /\ v.pendingSend = After(q, k - 1)
    BY <1>3
  <2>2. v.pendingSend # <<>> /\ Head(v.pendingSend) = q[k] /\ Tail(v.pendingSend) = After(q, k)
    BY <1>1, <2>1, AfterOne
  <2> DEFINE o == DropSending(v, q[k])
  <2>3. Sound(o, 0, rest) /\ Keeps(v, o) /\ Calm(v, o, {}) /\ o.pendingSend = Tail(v.pendingSend)
    BY <2>1, <2>2, DropSendingSound
  <2> HIDE DEF o
  <2>4. Keeps(m, o) /\ Calm(m, o, {}) BY <2>1, <2>3, KeepsTwice
  <2>5. o \in Locked /\ k \in 0 .. n BY <1>1, <2>3 DEF Sound
  <2>6. <<k, o>> \in W BY <2>2, <2>3, <2>4, <2>5
  <2>7. QED BY <2>1, <2>6 DEF o
<1>4. \A k \in 1 .. n : \A v : <<k - 1, v>> \in W => <<k, g[<<k, v>>]>> \in W
  <2> HIDE DEF W
  <2>1. QED BY <1>3
<1> HIDE DEF W, g
<1>5. PICK f : Loops(n, m, g, f) /\ \A k \in 0 .. n : <<k, f[k]>> \in W
  <2>1. CanLoop(n, W, m, g) BY <1>1, <1>2, <1>4 DEF CanLoop
  <2>2. QED BY <2>1, LoopRecursion
<1>6. f = Body(f)
  <2>1. \A k \in 1 .. n : k - 1 \in 0 .. n /\ <<k - 1, f[k - 1]>> \in W BY <1>1, <1>5
  <2>2. \A k \in 1 .. n : f[k - 1] \in Locked BY <1>3, <2>1
  <2>3. \A k \in 1 .. n : g[<<k, f[k - 1]>>] = DropSending(f[k - 1], q[k]) BY <2>2 DEF g
  <2>4. f = [k \in 0 .. n |-> IF k = 0 THEN m ELSE g[<<k, f[k - 1]>>]] BY <1>5 DEF Loops
  <2>5. \A k \in 0 .. n : k # 0 => k \in 1 .. n BY <1>1
  <2>6. QED BY <2>3, <2>4, <2>5
<1> DEFINE after == CHOOSE h : h = Body(h)
<1>7. after = Body(after)
  <2> HIDE DEF Body
  <2> QED BY <1>6
<1>8. Each(DropSending, m, m.pendingSend) = after[n]
  BY DEF Each
<1>9. /\ after[0] = m
      /\ \A k \in 1 .. n : after[k] = DropSending(after[k - 1], q[k])
  <2> HIDE DEF after
  <2>1. \A k \in 0 .. n : after[k] = IF k = 0 THEN m ELSE DropSending(after[k - 1], q[k])
    BY <1>7
  <2>2. QED BY <1>1, <2>1
<1> HIDE DEF after
<1>10. <<n, after[n]>> \in W
  <2>1. \A k \in 1 .. n : <<k - 1, after[k - 1]>> \in W => <<k, after[k]>> \in W
    BY <1>3, <1>9
  <2>2. <<0, after[0]>> \in W BY <1>2, <1>9
  <2> HIDE DEF n
  <2>3. QED BY <1>1, <2>1, <2>2, LoopHolds
<1>11. QED BY <1>8, <1>10 DEF W

\* No stream waits for a slot any more.
LEMMA DropOpeningAllSound ==
  ASSUME NEW m, NEW rest \in Loose, Sound(m, 0, rest)
  PROVE  LET n == Each(DropOpening, m, m.pendingOpen)
         IN  Sound(n, 0, rest) /\ Keeps(m, n) /\ Calm(m, n, {})
<1> DEFINE q == m.pendingOpen
           n == Len(q)
           W == {p \in (0 .. n) \X Locked :
                   /\ Sound(p[2], 0, rest) /\ Keeps(m, p[2]) /\ Calm(m, p[2], {})
                   /\ p[2].pendingOpen = After(q, p[1])}
           Body(h) == [i \in 0 .. n |-> IF i = 0 THEN m ELSE DropOpening(h[i - 1], q[i])]
           g == [p \in (1 .. n) \X Locked |-> DropOpening(p[2], q[p[1]])]
<1>1. m \in Locked /\ q \in Seq(Ids) /\ n \in Nat
  BY DEF Sound, Locked
<1>2. <<0, m>> \in W
  <2>1. Keeps(m, m) /\ Calm(m, m, {}) BY <1>1, KeepsNothing DEF Steady
  <2>2. 0 \in 0 .. n /\ m.pendingOpen = After(q, 0) BY <1>1, AfterNone
  <2>3. QED BY <1>1, <2>1, <2>2
<1>3. ASSUME NEW k \in 1 .. n, NEW v, <<k - 1, v>> \in W
      PROVE  v \in Locked /\ <<k, DropOpening(v, q[k])>> \in W
  <2>1. /\ v \in Locked /\ Sound(v, 0, rest) /\ Keeps(m, v) /\ Calm(m, v, {})
        /\ v.pendingOpen = After(q, k - 1)
    BY <1>3
  <2>2. v.pendingOpen # <<>> /\ Head(v.pendingOpen) = q[k] /\ Tail(v.pendingOpen) = After(q, k)
    BY <1>1, <2>1, AfterOne
  <2> DEFINE o == DropOpening(v, q[k])
  <2>3. Sound(o, 0, rest) /\ Keeps(v, o) /\ Calm(v, o, {}) /\ o.pendingOpen = Tail(v.pendingOpen)
    BY <2>1, <2>2, DropOpeningSound
  <2> HIDE DEF o
  <2>4. Keeps(m, o) /\ Calm(m, o, {}) BY <2>1, <2>3, KeepsTwice
  <2>5. o \in Locked /\ k \in 0 .. n BY <1>1, <2>3 DEF Sound
  <2>6. <<k, o>> \in W BY <2>2, <2>3, <2>4, <2>5
  <2>7. QED BY <2>1, <2>6 DEF o
<1>4. \A k \in 1 .. n : \A v : <<k - 1, v>> \in W => <<k, g[<<k, v>>]>> \in W
  <2> HIDE DEF W
  <2>1. QED BY <1>3
<1> HIDE DEF W, g
<1>5. PICK f : Loops(n, m, g, f) /\ \A k \in 0 .. n : <<k, f[k]>> \in W
  <2>1. CanLoop(n, W, m, g) BY <1>1, <1>2, <1>4 DEF CanLoop
  <2>2. QED BY <2>1, LoopRecursion
<1>6. f = Body(f)
  <2>1. \A k \in 1 .. n : k - 1 \in 0 .. n /\ <<k - 1, f[k - 1]>> \in W BY <1>1, <1>5
  <2>2. \A k \in 1 .. n : f[k - 1] \in Locked BY <1>3, <2>1
  <2>3. \A k \in 1 .. n : g[<<k, f[k - 1]>>] = DropOpening(f[k - 1], q[k]) BY <2>2 DEF g
  <2>4. f = [k \in 0 .. n |-> IF k = 0 THEN m ELSE g[<<k, f[k - 1]>>]] BY <1>5 DEF Loops
  <2>5. \A k \in 0 .. n : k # 0 => k \in 1 .. n BY <1>1
  <2>6. QED BY <2>3, <2>4, <2>5
<1> DEFINE after == CHOOSE h : h = Body(h)
<1>7. after = Body(after)
  <2> HIDE DEF Body
  <2> QED BY <1>6
<1>8. Each(DropOpening, m, m.pendingOpen) = after[n]
  BY DEF Each
<1>9. /\ after[0] = m
      /\ \A k \in 1 .. n : after[k] = DropOpening(after[k - 1], q[k])
  <2> HIDE DEF after
  <2>1. \A k \in 0 .. n : after[k] = IF k = 0 THEN m ELSE DropOpening(after[k - 1], q[k])
    BY <1>7
  <2>2. QED BY <1>1, <2>1
<1> HIDE DEF after
<1>10. <<n, after[n]>> \in W
  <2>1. \A k \in 1 .. n : <<k - 1, after[k - 1]>> \in W => <<k, after[k]>> \in W
    BY <1>3, <1>9
  <2>2. <<0, after[0]>> \in W BY <1>2, <1>9
  <2> HIDE DEF n
  <2>3. QED BY <1>1, <2>1, <2>2, LoopHolds
<1>11. QED BY <1>8, <1>10 DEF W

\* The end of the transport empties every queue.
LEMMA ClearQueuesSound ==
  ASSUME NEW m, NEW rest \in Loose, Sound(m, 0, rest)
  PROVE  LET n == ClearQueues(m)
         IN  Sound(n, 0, rest) /\ Keeps(m, n) /\ Calm(m, n, {})
<1> DEFINE m1 == Each(DropExpiring, m, m.pendingReset)
           m2 == Each(DropWaiting, m1, m1.pendingCapacity)
           m3 == Each(DropSending, m2, m2.pendingSend)
           m4 == Each(DropOpening, m3, m3.pendingOpen)
<1>1. ClearQueues(m) = m4 BY DEF ClearQueues
<1>2. Sound(m1, 0, rest) /\ Keeps(m, m1) /\ Calm(m, m1, {}) BY DropExpiringAllSound
<1> HIDE DEF m1
<1>3. Sound(m2, 0, rest) /\ Keeps(m1, m2) /\ Calm(m1, m2, {}) BY <1>2, DropWaitingAllSound
<1> HIDE DEF m2
<1>4. Sound(m3, 0, rest) /\ Keeps(m2, m3) /\ Calm(m2, m3, {}) BY <1>3, DropSendingAllSound
<1> HIDE DEF m3
<1>5. Sound(m4, 0, rest) /\ Keeps(m3, m4) /\ Calm(m3, m4, {}) BY <1>4, DropOpeningAllSound
<1> HIDE DEF m4
<1>6. Keeps(m, m2) /\ Calm(m, m2, {}) BY <1>2, <1>3, KeepsTwice
<1>7. Keeps(m, m3) /\ Calm(m, m3, {}) BY <1>4, <1>6, KeepsTwice
<1>8. Keeps(m, m4) /\ Calm(m, m4, {}) BY <1>5, <1>7, KeepsTwice
<1>9. QED BY <1>1, <1>5, <1>8

-----------------------------------------------------------------------------
(* Slots.                                                                    *)

\* What changes when s takes a slot.
TakesSlot(m, n, s) ==
  /\ n \in Locked /\ Slab(n) = Slab(m) /\ n.numSend = m.numSend + 1
  /\ n.store[s] = [m.store[s] EXCEPT !.counted = TRUE]
  /\ \A t \in Slab(m) : t # s => n.store[t] = m.store[t]
  /\ n.ids = m.ids /\ n.pendingSend = m.pendingSend /\ n.pendingCapacity = m.pendingCapacity
  /\ n.pendingOpen = m.pendingOpen /\ n.pendingReset = m.pendingReset
  /\ n.flow = m.flow /\ n.inFlight = m.inFlight /\ n.nextId = m.nextId /\ n.failed = m.failed
  /\ n.numReset = m.numReset /\ n.maxSend = m.maxSend /\ n.initWindow = m.initWindow

\* Taking a free slot keeps the invariant.
LEMMA IncNumSendSound ==
  ASSUME NEW m, NEW rest, Sound(m, 0, rest), NEW s \in Slab(m), CanIncNumSend(m),
         ~m.store[s].counted, ~Queued(m.pendingOpen, s)
  PROVE  LET n == IncNumSend(m, s)
         IN  Sound(n, 0, rest) /\ TakesSlot(m, n, s) /\ Keeps(m, n) /\ Calm(m, n, {})
<1> DEFINE w == m.store[s]
           r == [m.store[s] EXCEPT !.counted = TRUE]
           new == [m.store EXCEPT ![s] = r]
           c == m.numSend + 1
           n == [m EXCEPT !.numSend = c, !.store = new]
<1>1. m \in Locked /\ w \in Streams BY StreamTyped DEF Sound
<1>2. IncNumSend(m, s) = n
  <2>1. [m EXCEPT !.numSend = @ + 1, !.store[s].counted = TRUE] = n BY <1>1 DEF Locked
  <2>2. QED BY <2>1 DEF IncNumSend, Check
<1>3. /\ r \in Streams /\ r.refs = w.refs /\ r.counted = TRUE /\ r.state = w.state
      /\ r.pending = w.pending /\ r.buffered = w.buffered /\ r.requested = w.requested
      /\ r.flow = w.flow
  BY <1>1 DEF Streams
<1>4. r = [m.store[s] EXCEPT !.counted = TRUE] OBVIOUS
<1> HIDE DEF r
<1>5. /\ new \in Stores /\ DOMAIN new = DOMAIN m.store /\ new[s] = r
      /\ \A t \in DOMAIN m.store : t # s => new[t] = m.store[t]
  BY <1>1, <1>3, StorePut DEF Slab, Locked
<1>6. c \in Int /\ m.numSend \in Int /\ c = m.numSend + 1 BY <1>1 DEF Locked
<1> HIDE DEF new, c
<1>7. /\ n \in Locked /\ n.store = new /\ n.failed = m.failed /\ n.ids = m.ids
      /\ n.pendingSend = m.pendingSend /\ n.pendingCapacity = m.pendingCapacity
      /\ n.pendingOpen = m.pendingOpen /\ n.pendingReset = m.pendingReset
      /\ n.flow = m.flow /\ n.inFlight = m.inFlight /\ n.nextId = m.nextId
      /\ n.initWindow = m.initWindow /\ n.numSend = c /\ n.numReset = m.numReset
      /\ n.maxSend = m.maxSend
  BY <1>1, <1>5, <1>6 DEF Locked
<1> HIDE DEF n
<1>8. Slab(n) = Slab(m) /\ n.store[s] = r /\ \A t \in Slab(m) : t # s => n.store[t] = m.store[t]
  BY <1>5, <1>7 DEF Slab
<1>9. \A t \in Slab(m) :
        /\ n.store[t].refs = m.store[t].refs /\ n.store[t].state = m.store[t].state
        /\ n.store[t].flow = m.store[t].flow /\ n.store[t].pending = m.store[t].pending
        /\ n.store[t].buffered = m.store[t].buffered /\ n.store[t].requested = m.store[t].requested
  BY <1>3, <1>8
<1>10. Queues(n) /\ Findable(n) /\ Working(n)
  BY <1>7, <1>8, <1>9 DEF Sound, Queues, Findable, Working, Busy, StreamClosed
<1>11. Slots(n)
  <2>1. Counted(n) = Counted(m) \cup {s} /\ s \notin Counted(m) /\ IsFiniteSet(Counted(m))
    BY <1>1, <1>3, <1>8, CountedFinite DEF Counted
  <2>2. Cardinality(Counted(n)) = Cardinality(Counted(m)) + 1 BY <2>1, FS_AddElement
  <2>3. n.numSend = Cardinality(Counted(n)) BY <1>6, <1>7, <2>2 DEF Sound, Slots
  <2>4. QED BY <1>7, <2>1, <2>3 DEF Sound, Slots
<1>12. Fine(n, rest) /\ Returnable(n, rest) /\ Trusty(n)
  BY <1>7, <1>8, <1>9 DEF Sound, Fine, StreamFine, Held, Returnable, Trusty
<1>13. Balanced(n, 0)
  <2>1. Availables(n) = Availables(m) BY <1>8, <1>9 DEF Availables
  <2>2. HandedOut(n) = HandedOut(m) BY <2>1 DEF HandedOut, Availables
  <2>3. QED BY <1>7, <2>2 DEF Sound, Balanced
<1>14. Sound(n, 0, rest) BY <1>7, <1>10, <1>11, <1>12, <1>13 DEF Sound
<1>15. Keeps(m, n) /\ Calm(m, n, {}) BY <1>7, <1>8, <1>9 DEF Keeps, Calm
<1>16. TakesSlot(m, n, s) BY <1>4, <1>6, <1>7, <1>8 DEF TakesSlot
<1>17. QED BY <1>2, <1>14, <1>15, <1>16

\* A busy stream becomes ready to be written.
LEMMA PushSendSound ==
  ASSUME NEW m, NEW rest, Sound(m, 0, rest), NEW s \in Slab(m), Busy(m.store[s]),
         ~Queued(m.pendingOpen, s)
  PROVE  LET n == [m EXCEPT !.pendingSend = PushOnce(@, s)]
         IN  /\ Sound(n, 0, rest) /\ Steady(m, n) /\ Calm(m, n, {}) /\ n.store = m.store
             /\ n.inFlight = m.inFlight
<1> DEFINE q == PushOnce(m.pendingSend, s)
           n == [m EXCEPT !.pendingSend = q]
<1>1. m \in Locked /\ Queues(m) BY DEF Sound
<1>2. IsQueue(q, Slab(m)) /\ \A t : Queued(q, t) <=> Queued(m.pendingSend, t) \/ t = s
  BY <1>1, QueuePush DEF Queues
<1>3. q \in Seq(Ids)
  <2>1. IsQueue(q, Ids) BY <1>1, <1>2, StoreTyped, QueueWiden DEF Locked, Slab
  <2>2. QED BY <2>1 DEF IsQueue
<1>4. [m EXCEPT !.pendingSend = PushOnce(@, s)] = n OBVIOUS
<1> HIDE DEF q
<1>5. /\ n \in Locked /\ n.store = m.store /\ SameSlots(m, n) /\ n.flow = m.flow
      /\ n.inFlight = m.inFlight /\ n.failed = m.failed /\ n.pendingSend = q
      /\ n.pendingCapacity = m.pendingCapacity
  BY <1>1, <1>3 DEF Locked, SameSlots
<1> HIDE DEF n
<1>6. Requeues(m, n) BY <1>1, <1>2, <1>5 DEF Requeues, Queues, Harmless
<1>7. Sound(n, 0, rest) /\ Steady(m, n) /\ Calm(m, n, {}) BY <1>1, <1>6, RequeueSound, RequeuesSteady
<1>8. QED BY <1>4, <1>5, <1>7

\* One round of schedule_pending_open keeps the invariant.
LEMMA GrantSlotSound ==
  ASSUME NEW m, NEW rest \in Loose, Sound(m, 0, rest), m.pendingOpen # <<>>
  PROVE  LET s == Head(m.pendingOpen)
             n == GrantSlot(m, s)
         IN  /\ Sound(n, 0, rest) /\ Keeps(m, n) /\ Calm(m, n, {}) /\ Slab(n) = Slab(m)
             /\ n.inFlight = m.inFlight
             /\ IF CanIncNumSend(m) THEN n.pendingOpen = Tail(m.pendingOpen) ELSE n = m
<1> DEFINE s == Head(m.pendingOpen)
           p == [m EXCEPT !.pendingOpen = Tail(@)]
           k == IncNumSend(p, s)
           n == GrantSlot(m, s)
<1>1. m \in Locked BY DEF Sound
<1>2. CASE ~CanIncNumSend(m)
  <2>1. n = m BY <1>2 DEF GrantSlot
  <2>2. Keeps(m, m) /\ Calm(m, m, {}) BY <1>1, KeepsNothing DEF Steady
  <2> HIDE DEF n
  <2>3. QED BY <1>2, <2>1, <2>2 DEF n
<1>3. CASE CanIncNumSend(m)
  <2>1. n = [k EXCEPT !.pendingSend = PushOnce(@, s)] BY <1>3 DEF GrantSlot
  <2>2. /\ Sound(p, 0, rest) /\ Slab(p) = Slab(m) /\ Keeps(m, p) /\ Calm(m, p, {})
        /\ s \in Slab(m) /\ ~Queued(p.pendingOpen, s) /\ p.pendingOpen = Tail(m.pendingOpen)
        /\ p.store = m.store /\ ~m.store[s].counted /\ Busy(m.store[s])
    BY PopOpenSound
  <2>3. CanIncNumSend(p) /\ p.inFlight = m.inFlight BY <1>1, <1>3 DEF CanIncNumSend, Locked
  <2> HIDE DEF p, s, n
  <2>4. Sound(k, 0, rest) /\ TakesSlot(p, k, s) /\ Keeps(p, k) /\ Calm(p, k, {})
    BY <2>2, <2>3, IncNumSendSound
  <2> HIDE DEF k
  <2>5. s \in Slab(k) /\ Slab(k) = Slab(m) BY <2>2, <2>4 DEF TakesSlot
  <2>6. Busy(k.store[s])
    <3>1. k.store[s] = [m.store[s] EXCEPT !.counted = TRUE] /\ m.store[s] \in Streams
      BY <1>1, <2>2, <2>4, StreamTyped DEF TakesSlot
    <3>2. TRUE \in BOOLEAN OBVIOUS
    <3>3. /\ k.store[s].pending = m.store[s].pending /\ k.store[s].buffered = m.store[s].buffered
          /\ k.store[s].state = m.store[s].state
      BY <3>1, <3>2, CountedApart
    <3>4. QED BY <2>2, <3>3 DEF Busy
  <2>7. ~Queued(k.pendingOpen, s) BY <2>2, <2>4 DEF TakesSlot
  <2>8. /\ Sound(n, 0, rest) /\ Steady(k, n) /\ Calm(k, n, {}) /\ n.inFlight = k.inFlight
    BY <2>1, <2>4, <2>5, <2>6, <2>7, PushSendSound
  <2>9. Keeps(m, k) /\ Calm(m, k, {}) BY <2>2, <2>4, KeepsTwice
  <2>10. Keeps(m, n) /\ Calm(m, n, {}) BY <2>8, <2>9, KeepsTwice DEF Steady
  <2>11. n.pendingOpen = Tail(m.pendingOpen) /\ n.inFlight = m.inFlight /\ Slab(n) = Slab(m)
    BY <2>2, <2>3, <2>4, <2>5, <2>8 DEF TakesSlot, Steady, SameSlots
  <2>12. QED BY <1>3, <2>8, <2>10, <2>11 DEF n, s
<1>4. QED BY <1>2, <1>3

\* Slots go to the streams that wait for one, in the order they asked.
LEMMA SchedulePendingOpenSound ==
  ASSUME NEW m, NEW rest \in Loose, Sound(m, 0, rest)
  PROVE  LET n == SchedulePendingOpen(m)
         IN  /\ Sound(n, 0, rest) /\ Keeps(m, n) /\ Calm(m, n, {}) /\ Slab(n) = Slab(m)
             /\ n.inFlight = m.inFlight
<1> DEFINE q == m.pendingOpen
           n == Len(q)
           W == {p \in (0 .. n) \X Locked :
                   /\ Sound(p[2], 0, rest) /\ Keeps(m, p[2]) /\ Calm(m, p[2], {})
                   /\ Slab(p[2]) = Slab(m) /\ p[2].inFlight = m.inFlight
                   /\ CanIncNumSend(p[2]) => p[2].pendingOpen = After(q, p[1])}
           Body(h) == [i \in 0 .. n |-> IF i = 0 THEN m ELSE GrantSlot(h[i - 1], q[i])]
           g == [p \in (1 .. n) \X Locked |-> GrantSlot(p[2], q[p[1]])]
<1>1. m \in Locked /\ q \in Seq(Ids) /\ n \in Nat
  BY DEF Sound, Locked
<1>2. <<0, m>> \in W
  <2>1. Keeps(m, m) /\ Calm(m, m, {}) BY <1>1, KeepsNothing DEF Steady
  <2>2. 0 \in 0 .. n /\ m.pendingOpen = After(q, 0) BY <1>1, AfterNone
  <2>3. QED BY <1>1, <2>1, <2>2
<1>3. ASSUME NEW k \in 1 .. n, NEW v, <<k - 1, v>> \in W
      PROVE  v \in Locked /\ <<k, GrantSlot(v, q[k])>> \in W
  <2>1. /\ v \in Locked /\ Sound(v, 0, rest) /\ Keeps(m, v) /\ Calm(m, v, {})
        /\ Slab(v) = Slab(m) /\ v.inFlight = m.inFlight
        /\ CanIncNumSend(v) => v.pendingOpen = After(q, k - 1)
    BY <1>3
  <2> DEFINE o == GrantSlot(v, q[k])
  <2>2. k \in 0 .. n BY <1>1
  <2>3. CASE ~CanIncNumSend(v)
    <3>1. o = v BY <2>3 DEF GrantSlot
    <3> HIDE DEF o
    <3>2. <<k, v>> \in W BY <2>1, <2>2, <2>3
    <3>3. QED BY <2>1, <3>1, <3>2 DEF o
  <2>4. CASE CanIncNumSend(v)
    <3>1. v.pendingOpen # <<>> /\ Head(v.pendingOpen) = q[k] /\ Tail(v.pendingOpen) = After(q, k)
      BY <1>1, <2>1, <2>4, AfterOne
    <3>2. /\ Sound(o, 0, rest) /\ Keeps(v, o) /\ Calm(v, o, {}) /\ Slab(o) = Slab(v)
          /\ o.inFlight = v.inFlight /\ o.pendingOpen = Tail(v.pendingOpen)
      BY <2>1, <2>4, <3>1, GrantSlotSound
    <3> HIDE DEF o
    <3>3. Keeps(m, o) /\ Calm(m, o, {}) BY <2>1, <3>2, KeepsTwice
    <3>4. o \in Locked BY <3>2 DEF Sound
    <3>5. <<k, o>> \in W BY <2>1, <2>2, <3>1, <3>2, <3>3, <3>4
    <3>6. QED BY <2>1, <3>5 DEF o
  <2>5. QED BY <2>3, <2>4
<1>4. \A k \in 1 .. n : \A v : <<k - 1, v>> \in W => <<k, g[<<k, v>>]>> \in W
  <2> HIDE DEF W
  <2>1. QED BY <1>3
<1> HIDE DEF W, g
<1>5. PICK f : Loops(n, m, g, f) /\ \A k \in 0 .. n : <<k, f[k]>> \in W
  <2>1. CanLoop(n, W, m, g) BY <1>1, <1>2, <1>4 DEF CanLoop
  <2>2. QED BY <2>1, LoopRecursion
<1>6. f = Body(f)
  <2>1. \A k \in 1 .. n : k - 1 \in 0 .. n /\ <<k - 1, f[k - 1]>> \in W BY <1>1, <1>5
  <2>2. \A k \in 1 .. n : f[k - 1] \in Locked BY <1>3, <2>1
  <2>3. \A k \in 1 .. n : g[<<k, f[k - 1]>>] = GrantSlot(f[k - 1], q[k]) BY <2>2 DEF g
  <2>4. f = [k \in 0 .. n |-> IF k = 0 THEN m ELSE g[<<k, f[k - 1]>>]] BY <1>5 DEF Loops
  <2>5. \A k \in 0 .. n : k # 0 => k \in 1 .. n BY <1>1
  <2>6. QED BY <2>3, <2>4, <2>5
<1> DEFINE after == CHOOSE h : h = Body(h)
<1>7. after = Body(after)
  <2> HIDE DEF Body
  <2> QED BY <1>6
<1>8. SchedulePendingOpen(m) = after[n]
  BY DEF SchedulePendingOpen, Each
<1>9. /\ after[0] = m
      /\ \A k \in 1 .. n : after[k] = GrantSlot(after[k - 1], q[k])
  <2> HIDE DEF after
  <2>1. \A k \in 0 .. n : after[k] = IF k = 0 THEN m ELSE GrantSlot(after[k - 1], q[k])
    BY <1>7
  <2>2. QED BY <1>1, <2>1
<1> HIDE DEF after
<1>10. <<n, after[n]>> \in W
  <2>1. \A k \in 1 .. n : <<k - 1, after[k - 1]>> \in W => <<k, after[k]>> \in W
    BY <1>3, <1>9
  <2>2. <<0, after[0]>> \in W BY <1>2, <1>9
  <2> HIDE DEF n
  <2>3. QED BY <1>1, <2>1, <2>2, LoopHolds
<1>11. QED BY <1>8, <1>10 DEF W

\* A busy stream without a slot waits for one.
LEMMA PushOpenSound ==
  ASSUME NEW m, NEW rest, Sound(m, 0, rest), NEW s \in Slab(m), Busy(m.store[s]), ~m.store[s].counted,
         ~Queued(m.pendingSend, s), m.inFlight # s
  PROVE  LET n == [m EXCEPT !.pendingOpen = PushOnce(@, s)]
         IN  /\ Sound(n, 0, rest) /\ n.store = m.store /\ n.ids = m.ids /\ n.nextId = m.nextId
             /\ n.flow = m.flow /\ n.inFlight = m.inFlight
<1> DEFINE q == PushOnce(m.pendingOpen, s)
           n == [m EXCEPT !.pendingOpen = q]
<1>1. m \in Locked BY DEF Sound
<1>2. IsQueue(q, Slab(m)) /\ \A t : Queued(q, t) <=> Queued(m.pendingOpen, t) \/ t = s
  BY QueuePush DEF Sound, Queues
<1>3. q \in Seq(Ids)
  <2>1. IsQueue(q, Ids) BY <1>2, StoreTyped, QueueWiden DEF Sound, Locked, Slab
  <2>2. QED BY <2>1 DEF IsQueue
<1>4. [m EXCEPT !.pendingOpen = PushOnce(@, s)] = n OBVIOUS
<1> HIDE DEF q
<1>5. /\ n \in Locked /\ n.store = m.store /\ n.pendingOpen = q /\ n.ids = m.ids
      /\ n.pendingSend = m.pendingSend /\ n.pendingCapacity = m.pendingCapacity
      /\ n.pendingReset = m.pendingReset /\ n.flow = m.flow /\ n.inFlight = m.inFlight
      /\ n.nextId = m.nextId /\ n.failed = m.failed
      /\ n.numSend = m.numSend /\ n.numReset = m.numReset
  BY <1>1, <1>3 DEF Locked
<1> HIDE DEF n
<1>6. Slab(n) = Slab(m) BY <1>5 DEF Slab
<1>7. Queues(n) /\ Findable(n) BY <1>2, <1>5, <1>6 DEF Sound, Queues, Findable, StreamClosed
<1>8. Working(n) BY <1>2, <1>5, <1>6 DEF Sound, Working
<1>9. Slots(n)
  <2>1. Counted(n) = Counted(m) /\ Counted(m) \subseteq Slab(m) /\ s \notin Counted(m)
    BY <1>5, <1>6 DEF Counted
  <2>2. QED BY <1>2, <1>5, <2>1 DEF Sound, Slots
<1>10. Fine(n, rest) /\ Returnable(n, rest) /\ Trusty(n)
  BY <1>2, <1>5, <1>6 DEF Sound, Fine, Held, Returnable, Trusty
<1>11. Balanced(n, 0)
  <2>1. HandedOut(n) = HandedOut(m) BY <1>5, <1>6 DEF HandedOut
  <2>2. QED BY <1>5, <2>1 DEF Sound, Balanced
<1>12. Sound(n, 0, rest) BY <1>5, <1>7, <1>8, <1>9, <1>10, <1>11 DEF Sound
<1>13. QED BY <1>4, <1>5, <1>12

-----------------------------------------------------------------------------
(* A request.                                                                *)

\* The stream of a request before anything is queued on it.
Opened(m, eos) == [NewStream(m, m.nextId) EXCEPT !.state = SendOpen(@, eos)]

\* The record with the new stream in slab and ids.
Linked(m, eos) ==
  [m EXCEPT !.nextId = m.nextId + 1, !.ids = Append(@, m.nextId),
            !.store = Insert(@, m.nextId, Opened(m, eos))]

\* A stream that was just opened is fine.
LEMMA OpenedFine ==
  ASSUME NEW m \in Locked, NEW eos \in BOOLEAN
  PROVE  LET st == Opened(m, eos)
         IN  /\ st \in Streams /\ st.counted = FALSE /\ st.flow.window = m.initWindow
             /\ st.flow.available = 0 /\ ~PeerEnded(st.state) /\ st.buffered = 0
             /\ ~IsClosed(st.state) /\ st.pending = <<>>
             /\ StreamFine(st, 0)
<1> DEFINE x == SendOpen(Idle, eos)
           f == Flow(m.initWindow, 0)
           st == Opened(m, eos)
<1>1. x \in ClientStates /\ x \in States /\ ~PeerEnded(x) /\ ~IsClosed(x)
  BY ClientTyped DEF SendOpen, Idle, ClientStates, Peers, Open, HalfClosedLocal, PeerEnded, IsClosed
<1>2. f \in Flows /\ f.window = m.initWindow /\ f.available = 0 /\ f.available <= AsSize(f.window)
  BY DEF Locked, Flow, Flows, AsSize
<1>3. <<>> \in Seq(SendFrames) /\ Bytes(<<>>) = 0 BY NoFrames
<1> DEFINE y == NewStream(m, m.nextId)
<1>4. y = [state |-> Idle, counted |-> FALSE, refs |-> 0, flow |-> f,
           requested |-> 0, buffered |-> 0, pending |-> <<>>]
  BY DEF NewStream
<1>5. st = [y EXCEPT !.state = x]
  <2>1. y.state = Idle BY <1>4
  <2>2. st = [y EXCEPT !.state = SendOpen(y.state, eos)] BY DEF Opened
  <2> HIDE DEF y, st
  <2>3. QED BY <2>1, <2>2
<1> HIDE DEF x, f, st, y
<1>6. /\ y \in Streams /\ y.counted = FALSE /\ y.flow = f /\ y.requested = 0
      /\ y.buffered = 0 /\ y.pending = <<>>
  BY <1>2, <1>3, <1>4 DEF Streams, States
<1>7. /\ st \in Streams /\ st.state = x /\ st.counted = FALSE /\ st.flow = f /\ st.requested = 0
      /\ st.buffered = 0 /\ st.pending = <<>>
  BY <1>1, <1>5, <1>6 DEF Streams
<1>8. StreamFine(st, 0) BY <1>1, <1>2, <1>3, <1>7 DEF StreamFine
<1>9. QED BY <1>1, <1>2, <1>7, <1>8 DEF st

\* n is m and a new stream s with `c` references.
Opens(m, n, s, c) ==
  /\ n \in Locked /\ Slab(n) = Slab(m) \cup {s} /\ s \in Ids /\ s \notin Slab(m) /\ n.nextId = s + 1
  /\ n.flow.window = m.flow.window /\ n.inFlight = m.inFlight
  /\ \A t \in Slab(m) : n.store[t] = m.store[t] /\ (Queued(n.ids, t) => Queued(m.ids, t))
  /\ Queued(n.ids, s) /\ n.store[s].refs = c /\ n.store[s].flow.window = m.initWindow
  /\ ~PeerEnded(n.store[s].state)

\* Inserting it keeps the invariant.
LEMMA LinkSound ==
  ASSUME NEW m, NEW rest \in Loose, Sound(m, 0, rest), m.nextId \in Ids, m.inFlight # m.nextId,
         rest.new[m.nextId] = 0, NEW eos \in BOOLEAN
  PROVE  LET s == m.nextId
             n == Linked(m, eos)
         IN  /\ Sound(n, 0, rest) /\ Opens(m, n, s, 0) /\ ~n.store[s].counted
             /\ n.maxSend = m.maxSend /\ n.numSend = m.numSend
             /\ ~Queued(n.pendingOpen, s) /\ ~Queued(n.pendingSend, s)
<1> DEFINE s == m.nextId
           st == Opened(m, eos)
           new == Insert(m.store, s, st)
           ids == Append(m.ids, s)
           S == Slab(m) \cup {s}
           n == Linked(m, eos)
<1>1. m \in Locked /\ Queues(m) /\ s \notin Slab(m) /\ s \in Nat /\ Slab(m) \subseteq Ids
  <2>1. m \in Locked /\ Queues(m) BY DEF Sound
  <2>2. s \in Nat BY IdsNat
  <2>3. s \notin Slab(m) BY <2>1, <2>2 DEF Queues
  <2> QED BY <2>1, <2>2, <2>3, StreamTyped
<1>2. /\ st \in Streams /\ st.counted = FALSE /\ st.flow.window = m.initWindow
      /\ st.flow.available = 0 /\ ~PeerEnded(st.state) /\ st.buffered = 0 /\ ~IsClosed(st.state)
      /\ StreamFine(st, 0)
  BY <1>1, OpenedFine
<1>3. st.refs = 0 BY DEF Opened, NewStream
<1> HIDE DEF st
<1>4. /\ DOMAIN new = S /\ new[s] = st /\ \A t \in Slab(m) : new[t] = m.store[t]
      /\ new \in Stores
  <2>1. new = [t \in S |-> IF t = s THEN st ELSE m.store[t]] BY DEF Slab, Insert
  <2>2. m.store \in [Slab(m) -> Streams] BY <1>1, StoreTyped DEF Locked, Slab
  <2>3. DOMAIN new \subseteq Ids /\ new \in [DOMAIN new -> Streams] BY <1>1, <1>2, <2>1, <2>2
  <2> HIDE DEF new
  <2>4. new \in Stores BY <2>3, StoreTyped
  <2>5. QED BY <1>1, <2>1, <2>4
<1>5. /\ IsQueue(m.ids, S) /\ IsQueue(m.pendingSend, S) /\ IsQueue(m.pendingCapacity, S)
      /\ IsQueue(m.pendingOpen, S) /\ IsQueue(m.pendingReset, S)
  BY <1>1, QueueWiden DEF Queues
<1>6. /\ ~Queued(m.ids, s) /\ ~Queued(m.pendingOpen, s) /\ ~Queued(m.pendingSend, s)
  BY <1>1, QueuedIn DEF Queues
<1>7. IsQueue(ids, S) /\ \A t : Queued(ids, t) <=> Queued(m.ids, t) \/ t = s
  BY <1>5, <1>6, QueueAppend
<1>8. ids \in Seq(Ids) BY <1>1 DEF Locked
<1> DEFINE next == s + 1
<1>9. next \in Nat /\ next = s + 1 BY <1>1
<1>10. n = [m EXCEPT !.nextId = next, !.ids = ids, !.store = new] BY DEF Linked, st
<1> HIDE DEF new, ids, n, next
<1>11. /\ n \in Locked /\ n.store = new /\ n.failed = m.failed /\ n.ids = ids
       /\ n.pendingSend = m.pendingSend /\ n.pendingCapacity = m.pendingCapacity
       /\ n.pendingOpen = m.pendingOpen /\ n.pendingReset = m.pendingReset
       /\ n.flow = m.flow /\ n.inFlight = m.inFlight /\ n.nextId = next
       /\ n.numSend = m.numSend /\ n.numReset = m.numReset /\ n.maxSend = m.maxSend
  BY <1>1, <1>4, <1>8, <1>9, <1>10 DEF Locked
<1>12. Slab(n) = S /\ n.store[s] = st /\ \A t \in Slab(m) : n.store[t] = m.store[t]
  BY <1>4, <1>11 DEF Slab
<1>13. Queues(n)
  <2>1. \A t \in S : t < next
    <3>1. \A t \in Slab(m) : t < s /\ t \in Nat BY <1>1, IdsNat DEF Queues
    <3>2. QED BY <1>1, <1>9, <3>1
  <2>2. QED BY <1>5, <1>7, <1>11, <1>12, <2>1 DEF Queues
<1>14. Findable(n) /\ Working(n)
  BY <1>1, <1>6, <1>7, <1>11, <1>12 DEF Sound, Findable, Working, StreamClosed
<1>15. Slots(n)
  <2>1. Counted(n) = Counted(m) BY <1>1, <1>2, <1>12 DEF Counted
  <2>2. QED BY <1>11, <2>1 DEF Sound, Slots
<1>16. Fine(n, rest)
  <2>1. \A t \in S : Held(n, rest, t) = Held(m, rest, t) BY <1>11 DEF Held
  <2>2. Held(n, rest, s) = 0 BY <1>11 DEF Held
  <2>3. QED BY <1>2, <1>12, <2>1, <2>2 DEF Fine, Sound
<1>17. Returnable(n, rest) /\ Trusty(n) BY <1>11, <1>12 DEF Sound, Returnable, Trusty
<1>18. Balanced(n, 0)
  <2>1. HandedOut(n) = HandedOut(m)
    <3>1. /\ IsSummable(Availables(n)) /\ DOMAIN Availables(n) = S
          /\ HandedOut(n) = SumFunction(Availables(n))
      BY <1>11, <1>12, AvailablesSummable
    <3>2. DOMAIN Availables(m) = Slab(m) /\ HandedOut(m) = SumFunction(Availables(m)) /\ HandedOut(m) \in Int
      BY <1>1, AvailablesSummable
    <3>3. \A t \in Slab(m) : Availables(m)[t] = Availables(n)[t]
      BY <1>12 DEF Availables
    <3>4. Slab(m) = S \ {s} /\ s \in S BY <1>1
    <3>5. SumFunction(Availables(n)) = Availables(n)[s] + SumFunction(Availables(m))
      BY <3>1, <3>2, <3>3, <3>4, SumDrop
    <3>6. Availables(n)[s] = 0 BY <1>2, <1>12 DEF Availables
    <3>7. QED BY <3>1, <3>2, <3>5, <3>6
  <2>2. QED BY <1>11, <2>1 DEF Sound, Balanced
<1>19. Sound(n, 0, rest) BY <1>11, <1>13, <1>14, <1>15, <1>16, <1>17, <1>18 DEF Sound
<1>20. Opens(m, n, s, 0) BY <1>1, <1>2, <1>3, <1>7, <1>9, <1>11, <1>12 DEF Opens
<1>21. QED BY <1>2, <1>6, <1>11, <1>12, <1>19, <1>20 DEF n

\* HEADERS are a frame without bytes.
LEMMA HeadersFrame ==
  ASSUME NEW eos \in BOOLEAN
  PROVE  Frame("HEADERS", 0, eos) \in SendFrames /\ Frame("HEADERS", 0, eos).len = 0
<1>1. MaxData \in Nat BY SendAssumption
<1>2. QED BY <1>1 DEF Frame, SendFrames, FrameTypes

\* The HEADERS of a request, on the stream that was linked for it.
Headed(m, eos) ==
  LET s == m.nextId
      linked == Linked(m, eos)
      counted == IF CanIncNumSend(m) THEN IncNumSend(linked, s) ELSE QueueOpen(linked, s)
  IN  QueueFrame(counted, s, Frame("HEADERS", 0, eos))

\* The record after send_request, before anything is dropped.
Requested(m, eos) ==
  LET queued == Headed(m, eos)
      s == m.nextId
      pending == ~CanIncNumSend(m)
  IN  [queued EXCEPT !.store[s].refs = IF pending THEN 2 ELSE 1]

\* Touching only the new stream, and not its window, state and references.
LEMMA OpensMore ==
  ASSUME NEW m \in Locked, NEW k, NEW n, NEW s, NEW c, Opens(m, k, s, c), Steady(k, n), Calm(k, n, {}),
         \A t \in Slab(m) : n.store[t] = k.store[t], n.inFlight = k.inFlight
  PROVE  Opens(m, n, s, c)
BY DEF Opens, Steady, Keeps, SameSlots, Calm

\* Counting or queueing the new stream and queueing its HEADERS keeps the
\* invariant.
LEMMA HeadedSound ==
  ASSUME NEW m, NEW rest \in Loose, Sound(m, 0, rest), m.nextId \in Ids, m.inFlight # m.nextId,
         rest.new[m.nextId] = 0, NEW eos \in BOOLEAN
  PROVE  LET n == Headed(m, eos)
         IN  Sound(n, 0, rest) /\ Opens(m, n, m.nextId, 0)
<1> DEFINE s == m.nextId
           l == Linked(m, eos)
           f == Frame("HEADERS", 0, eos)
           n == Headed(m, eos)
<1>1. /\ Sound(l, 0, rest) /\ Opens(m, l, s, 0) /\ ~l.store[s].counted
      /\ l.maxSend = m.maxSend /\ l.numSend = m.numSend
      /\ ~Queued(l.pendingOpen, s) /\ ~Queued(l.pendingSend, s)
  BY LinkSound
<1>2. n = QueueFrame(IF CanIncNumSend(m) THEN IncNumSend(l, s) ELSE QueueOpen(l, s), s, f)
  BY DEF Headed
<1>3. f \in SendFrames /\ f.len = 0 BY HeadersFrame
<1> HIDE DEF l, n, f
<1>4. m \in Locked /\ l \in Locked /\ Queues(l) /\ s \in Slab(l) /\ s \notin Slab(m)
  BY <1>1 DEF Sound, Opens
<1>5. rest.new[s] + f.len = rest.new[s] BY <1>3
<1>6. CASE CanIncNumSend(m)
  <2> DEFINE k == IncNumSend(l, s)
  <2>1. n = QueueFrame(k, s, f) BY <1>2, <1>6
  <2>2. Sound(k, 0, rest) /\ TakesSlot(l, k, s) /\ Keeps(l, k) /\ Calm(l, k, {})
    BY <1>1, <1>4, <1>6, IncNumSendSound DEF CanIncNumSend
  <2> HIDE DEF k
  <2>3. k \in Locked /\ Queues(k) /\ s \in Slab(k) BY <1>4, <2>2 DEF Sound, TakesSlot
  <2>4. /\ Touches(k, n, s) /\ n.flow = k.flow /\ n.inFlight = k.inFlight
        /\ n.store[s] = [k.store[s] EXCEPT !.pending = Append(@, f)]
    BY <1>3, <2>1, <2>3, QueueFrameTouches
  <2>5. Queued(k.ids, s) BY <1>1, <2>2 DEF Opens, TakesSlot
  <2>6. Sound(n, 0, rest) /\ Steady(k, n) /\ Calm(k, n, {})
    BY <1>3, <1>5, <2>2, <2>3, <2>4, <2>5, AppendSound
  <2>7. Opens(m, k, s, 0)
    <3>1. k.store[s].refs = l.store[s].refs /\ k.store[s].flow = l.store[s].flow
          /\ k.store[s].state = l.store[s].state
      <4>1. k.store[s] = [l.store[s] EXCEPT !.counted = TRUE] /\ l.store[s] \in Streams
        BY <1>4, <2>2, StreamTyped DEF TakesSlot
      <4>2. QED BY <4>1 DEF Streams
    <3>2. QED BY <1>1, <1>4, <2>2, <3>1 DEF Opens, TakesSlot
  <2>8. \A t \in Slab(m) : n.store[t] = k.store[t] BY <1>4, <2>4, <2>7 DEF Touches, Opens
  <2>9. Opens(m, n, s, 0) BY <1>4, <2>4, <2>6, <2>7, <2>8, OpensMore
  <2>10. QED BY <2>6, <2>9 DEF n
<1>7. CASE ~CanIncNumSend(m)
  <2> DEFINE st == l.store[s]
             p == Append(st.pending, f)
             r == [st EXCEPT !.pending = p]
             k == Put(l, s, r, l.flow, l.inFlight)
  <2>1. st \in Streams /\ st.pending \in Seq(SendFrames) BY <1>4, StreamTyped DEF Streams
  <2>2. p \in Seq(SendFrames) /\ p # <<>> BY <1>3, <2>1
  <2>3. r \in Streams /\ r.counted = st.counted /\ r.refs = st.refs /\ r.pending = p
    BY <2>1, <2>2 DEF Streams
  <2>4. l.flow \in Flows BY <1>4 DEF Locked
  <2>5. r = [st EXCEPT !.pending = Append(@, f)] OBVIOUS
  <2> HIDE DEF r, p
  <2>6. k = Put(l, s, r, l.flow, l.inFlight) OBVIOUS
  <2> DEFINE o == [l EXCEPT !.pendingOpen = PushOnce(@, s)]
  <2>7. n = [k EXCEPT !.pendingOpen = PushOnce(@, s)]
    <3>1. QueueOpen(l, s) = o BY <1>1 DEF QueueOpen, Check
    <3>2. n = ScheduleSend([o EXCEPT !.store[s].pending = Append(@, f)], s)
      BY <1>2, <1>7, <3>1 DEF QueueFrame
    <3>3. [o EXCEPT !.store[s].pending = Append(@, f)] = [k EXCEPT !.pendingOpen = PushOnce(@, s)]
      BY <1>4, <2>5 DEF Locked, Put
    <3> DEFINE e == [k EXCEPT !.pendingOpen = PushOnce(@, s)]
    <3>4. n = ScheduleSend(e, s) BY <3>2, <3>3
    <3>5. Queued(e.pendingOpen, s)
      <4>1. e.pendingOpen = PushOnce(l.pendingOpen, s) BY <1>4 DEF Locked, Put
      <4>2. Queued(PushOnce(l.pendingOpen, s), s) BY <1>4, QueuePush DEF Queues
      <4>3. QED BY <4>1, <4>2
    <3> HIDE DEF e
    <3>6. n = e BY <3>4, <3>5 DEF ScheduleSend, IsSendReady
    <3>7. QED BY <3>6 DEF e
  <2> HIDE DEF k, o
  <2>8. /\ k \in Locked /\ Touches(l, k, s) /\ Slab(k) = Slab(l) /\ k.store[s] = r
        /\ k.flow = l.flow /\ k.inFlight = l.inFlight /\ k.pendingSend = l.pendingSend
    BY <1>4, <2>3, <2>4, <2>6, PutTouches
  <2>9. Sound(k, 0, rest) /\ Steady(l, k) /\ Calm(l, k, {})
    <3>1. Queued(l.ids, s) BY <1>1 DEF Opens
    <3>2. k.store[s] = [l.store[s] EXCEPT !.pending = Append(@, f)] BY <2>5, <2>8
    <3>3. QED BY <1>1, <1>3, <1>4, <1>5, <2>8, <3>1, <3>2, AppendSound
  <2>10. Opens(m, k, s, 0)
    <3>1. \A t \in Slab(m) : k.store[t] = l.store[t] BY <1>1, <1>4, <2>8 DEF Touches, Opens
    <3>2. QED BY <1>1, <1>4, <2>8, <2>9, <3>1, OpensMore
  <2>11. /\ s \in Slab(k) /\ Busy(k.store[s]) /\ ~k.store[s].counted
         /\ ~Queued(k.pendingSend, s) /\ k.inFlight # s
    BY <1>1, <1>4, <2>2, <2>3, <2>8 DEF Busy, Opens
  <2>12. /\ Sound(n, 0, rest) /\ n.store = k.store /\ n.ids = k.ids /\ n.nextId = k.nextId
         /\ n.flow = k.flow /\ n.inFlight = k.inFlight
    BY <2>7, <2>9, <2>11, PushOpenSound
  <2>13. Opens(m, n, s, 0) BY <2>10, <2>12 DEF Opens, Sound, Slab
  <2>14. QED BY <2>12, <2>13 DEF n
<1>8. QED BY <1>6, <1>7

\* send_request opens one stream and keeps the invariant.
LEMMA RequestedSound ==
  ASSUME NEW m, NEW rest \in Loose, Sound(m, 0, rest), m.nextId \in Ids, m.inFlight # m.nextId,
         rest.new[m.nextId] = 0, NEW eos \in BOOLEAN
  PROVE  LET n == Requested(m, eos)
         IN  Sound(n, 0, rest) /\ Opens(m, n, m.nextId, IF CanIncNumSend(m) THEN 1 ELSE 2)
<1> DEFINE s == m.nextId
           k == Headed(m, eos)
           c == IF CanIncNumSend(m) THEN 1 ELSE 2
           r == [k.store[s] EXCEPT !.refs = c]
           n == [k EXCEPT !.store = [k.store EXCEPT ![s] = r]]
<1>1. Sound(k, 0, rest) /\ Opens(m, k, s, 0) BY HeadedSound
<1>2. Requested(m, eos) = [k EXCEPT !.store[s].refs = c] BY DEF Requested
<1> HIDE DEF k
<1>3. c \in Int OBVIOUS
<1> HIDE DEF c
<1>4. k \in Locked /\ s \in Slab(k) /\ k.store[s] \in Streams BY <1>1, StreamTyped DEF Sound, Opens
<1>5. Requested(m, eos) = n BY <1>2, <1>4 DEF Locked
<1>6. /\ Sound(n, 0, rest) /\ Slab(n) = Slab(k) /\ n.ids = k.ids /\ n.flow = k.flow
      /\ n.store[s] = r /\ \A t \in Slab(k) : t # s => n.store[t] = k.store[t]
      /\ n.nextId = k.nextId /\ n.inFlight = k.inFlight
  BY <1>1, <1>3, <1>4, RefsSound
<1>7. r.refs = c /\ r.flow = k.store[s].flow /\ r.state = k.store[s].state BY <1>3, <1>4, RefsPut
<1> HIDE DEF n, r
<1>8. Opens(m, n, s, c) BY <1>1, <1>6, <1>7 DEF Opens, Sound
<1>9. QED BY <1>5, <1>6, <1>8 DEF c

-----------------------------------------------------------------------------
(* What the codec holds.                                                     *)

\* No stream comes or changes its references, whatever the codec holds.
Kept(m, n) ==
  /\ n \in Locked /\ Slab(n) \subseteq Slab(m) /\ n.nextId = m.nextId
  /\ \A t \in Slab(m) : t \in Slab(n) \/ m.store[t].refs = 0
  /\ \A t \in Slab(n) :
       /\ n.store[t].refs = m.store[t].refs
       /\ Queued(n.ids, t) => Queued(m.ids, t)

\* An operation that keeps streams keeps them while frames are written.
LEMMA KeepsKept ==
  ASSUME NEW m, NEW n, Keeps(m, n)
  PROVE  Kept(m, n)
BY DEF Keeps, Kept

\* Two such steps are one.
LEMMA KeptTwice ==
  ASSUME NEW m, NEW n, NEW o, Kept(m, n), Kept(n, o)
  PROVE  Kept(m, o) /\ (\A E : Calm(m, n, E) /\ Calm(n, o, E) => Calm(m, o, E))
BY DEF Kept, Calm

\* The bytes in the codec change hands.
Holds(m, n, i) ==
  /\ n \in Locked /\ n.store = m.store /\ n.inFlight = i /\ SameSlots(m, n)
  /\ n.pendingSend = m.pendingSend /\ n.pendingCapacity = m.pendingCapacity
  /\ n.flow = m.flow /\ n.failed = m.failed

\* Only what is in flight changes.
LEMMA HoldsPut ==
  ASSUME NEW m \in Locked, NEW i \in Ids \cup {Nothing, Dropped}
  PROVE  Holds(m, [m EXCEPT !.inFlight = i], i)
BY DEF Holds, Locked, SameSlots

\* The bytes in the codec may become those of nobody, or of the operation
\* that runs.
LEMMA HoldSound ==
  ASSUME NEW m, NEW rest, Sound(m, 0, rest), NEW i, NEW left, NEW n, Holds(m, n, i),
         \A t \in Slab(m) : Held(n, left, t) = Held(m, rest, t),
         left.codec > 0 /\ i \in Ids => i \in Slab(m) /\ ~Queued(m.pendingOpen, i)
  PROVE  Sound(n, 0, left) /\ Kept(m, n) /\ Calm(m, n, {}) /\ Slab(n) = Slab(m)
<1>1. n \in Locked /\ m \in Locked /\ Slab(n) = Slab(m) /\ HandedOut(n) = HandedOut(m)
  BY DEF Holds, Sound, Slab, HandedOut
<1>2. Queues(n) /\ Findable(n) BY <1>1 DEF Sound, Queues, Findable, Holds, SameSlots, StreamClosed
<1>3. Slots(n) BY <1>1 DEF Sound, Slots, Counted, Holds, SameSlots
<1>4. Fine(n, left) BY <1>1 DEF Sound, Fine, Holds
<1>5. Balanced(n, 0) BY <1>1 DEF Sound, Balanced, Holds
<1>6. Working(n) BY <1>1 DEF Sound, Working, Holds, SameSlots
<1>7. Returnable(n, left) /\ Trusty(n) BY <1>1 DEF Sound, Returnable, Trusty, Holds, SameSlots
<1>8. Kept(m, n) /\ Calm(m, n, {}) BY <1>1 DEF Kept, Calm, Holds, SameSlots
<1>9. QED BY <1>1, <1>2, <1>3, <1>4, <1>5, <1>6, <1>7, <1>8 DEF Sound

\* Left is what it says.
LEMMA LeftLoose ==
  ASSUME NEW r \in Nat
  PROVE  Left(r) \in Loose /\ Left(r).codec = r /\ \A t \in Ids : Left(r).new[t] = 0
BY DEF Left, Loose

\* What the codec did not write of a frame goes back to its stream.
Gives(rest, left, s, c) ==
  /\ left \in Loose /\ left.codec = rest.codec /\ left.new[s] + c = rest.new[s]
  /\ \A t \in Ids : t # s => left.new[t] = rest.new[t]

\* n is m with the frame f in front of the queue of s.
Fronts(m, n, s, f) ==
  /\ Touches(m, n, s) /\ n.flow = m.flow /\ n.inFlight = m.inFlight
  /\ n.store[s] = [m.store[s] EXCEPT !.pending = <<f>> \o @]

\* Putting back what the codec did not write keeps the invariant.
LEMMA PrependSound ==
  ASSUME NEW m, NEW rest \in Loose, Sound(m, 0, rest), NEW s \in Slab(m), Queued(m.ids, s),
         NEW f \in SendFrames, NEW left, Gives(rest, left, s, f.len), NEW n, Fronts(m, n, s, f)
  PROVE  Sound(n, 0, left) /\ Steady(m, n) /\ Calm(m, n, {}) /\ Busy(n.store[s])
<1> DEFINE st == m.store[s]
           r == n.store[s]
           p == <<f>> \o st.pending
<1>1. /\ Touches(m, n, s) /\ n.flow = m.flow /\ n.inFlight = m.inFlight
      /\ r = [st EXCEPT !.pending = p]
      /\ left \in Loose /\ left.codec = rest.codec /\ left.new[s] + f.len = rest.new[s]
      /\ \A t \in Ids : t # s => left.new[t] = rest.new[t]
  BY DEF Gives, Fronts
<1>2. /\ m \in Locked /\ Queues(m) /\ s \in Ids /\ st \in Streams
      /\ StreamFine(st, Held(m, rest, s)) /\ Held(m, rest, s) \in Nat
      /\ Bytes(st.pending) \in Nat /\ m.flow \in Flows /\ st.flow \in Flows
      /\ st.buffered \in Nat
  BY StreamFacts
<1>3. st.pending \in Seq(SendFrames) BY <1>2 DEF Streams
<1>4. p \in Seq(SendFrames) /\ Bytes(p) = Bytes(st.pending) + f.len /\ p # <<>>
  <2>1. p \in Seq(SendFrames) /\ Bytes(p) = f.len + Bytes(st.pending) BY <1>3, BytesInFront
  <2>2. p # <<>> BY <1>3
  <2>3. QED BY <1>2, <2>1, <2>2, FrameLen
<1>5. r = [st EXCEPT !.pending = p] BY <1>1
<1> HIDE DEF p
<1>6. /\ r.pending = p /\ r.state = st.state /\ r.flow = st.flow /\ r.buffered = st.buffered
      /\ r.requested = st.requested
  BY <1>2, <1>5 DEF Streams
<1>7. Held(n, left, s) + f.len = Held(m, rest, s) /\ Held(n, left, s) \in Nat
  <2>1. rest.codec \in Nat /\ left.new[s] \in Nat /\ f.len \in Nat BY <1>1, <1>2, FrameLen DEF Loose
  <2>2. QED BY <1>1, <2>1 DEF Held
<1>8. StreamFine(r, Held(n, left, s))
  <2>1. st.buffered = Bytes(p) + Held(n, left, s)
    <3>1. f.len \in Nat BY FrameLen
    <3>2. st.buffered = Bytes(st.pending) + Held(m, rest, s) BY <1>2 DEF StreamFine
    <3>3. QED BY <1>2, <1>4, <1>7, <3>1, <3>2
  <2>2. QED BY <1>2, <1>6, <2>1 DEF StreamFine
<1>9. Busy(r) BY <1>4, <1>6 DEF Busy
<1>10. Moves(m.flow, n.flow, st.flow, r.flow, 0, 0)
  BY <1>1, <1>2, <1>6 DEF Moves, Sound, Balanced
<1>11. \A t \in Slab(m) : t # s => Held(n, left, t) = Held(m, rest, t)
  BY <1>1, <1>2, StreamTyped DEF Held
<1>12. Sound(n, 0, left)
  <2> DEFINE z == 0
  <2>1. z \in Int /\ Sound(m, z, rest) /\ Moves(m.flow, n.flow, st.flow, r.flow, z, z) BY <1>10
  <2> HIDE DEF z
  <2>2. Queued(m.ids, s) \/ StreamClosed(n, s) OBVIOUS
  <2>3. Queued(n.pendingSend, s) \/ Queued(m.pendingOpen, s) => Busy(n.store[s]) BY <1>9
  <2>4. Sound(n, z, left) BY <1>1, <1>8, <1>11, <2>1, <2>2, <2>3, TouchMoves
  <2>5. QED BY <2>4 DEF z
<1>13. Steady(m, n) /\ Calm(m, n, {}) BY <1>1, <1>2, <1>6, TouchesSteady
<1>14. QED BY <1>9, <1>12, <1>13

\* The frame in the codec is of the stream in flight, unless that was dropped.
FrameKnown(m, frame) ==
  \/ frame = NoFrame /\ m.inFlight = Nothing
  \/ frame \in DataFrames /\ m.inFlight \in {frame.stream, Dropped}

\* The bytes of a frame that are not written.
RestOf(frame) == IF frame = NoFrame THEN 0 ELSE frame.rest

\* The four cases of try_reclaim_frame.
LEMMA ReclaimCases ==
  ASSUME NEW m, NEW frame
  PROVE  LET s == frame.stream
             freed == [m EXCEPT !.inFlight = Nothing]
             back == [freed EXCEPT !.store[s].pending =
                                     <<Frame("DATA", frame.rest, frame.eos)>> \o @]
             known == Check(freed, m.inFlight = s /\ (frame.rest > 0 => s \in Slab(m)),
                            "reclaim_frame")
             n == ReclaimFrame(m, frame)
         IN  /\ frame = NoFrame => n = m
             /\ frame # NoFrame /\ m.inFlight = Dropped => n = freed
             /\ frame # NoFrame /\ m.inFlight # Dropped =>
                  n = IF frame.rest = 0 \/ known.failed # {} THEN known
                      ELSE IF m.store[s].flow.available > 0
                           THEN [back EXCEPT !.pendingSend = PushOnce(@, s)]
                           ELSE back
BY DEF ReclaimFrame

\* What the codec still holds of a frame is taken back.
LEMMA ReclaimFrameSound ==
  ASSUME NEW m, NEW frame, FrameKnown(m, frame), Sound(m, 0, Left(RestOf(frame))), m.failed = {}
  PROVE  LET n == ReclaimFrame(m, frame)
         IN  Sound(n, 0, Left(0)) /\ Kept(m, n) /\ Calm(m, n, {}) /\ n.inFlight = Nothing
<1> DEFINE n == ReclaimFrame(m, frame)
           s == frame.stream
           freed == [m EXCEPT !.inFlight = Nothing]
           f == Frame("DATA", frame.rest, frame.eos)
           back == [freed EXCEPT !.store[s].pending = <<f>> \o @]
           known == Check(freed, m.inFlight = s /\ (frame.rest > 0 => s \in Slab(m)),
                          "reclaim_frame")
<1>1. /\ frame = NoFrame => n = m
      /\ frame # NoFrame /\ m.inFlight = Dropped => n = freed
      /\ frame # NoFrame /\ m.inFlight # Dropped =>
           n = IF frame.rest = 0 \/ known.failed # {} THEN known
               ELSE IF m.store[s].flow.available > 0
                    THEN [back EXCEPT !.pendingSend = PushOnce(@, s)]
                    ELSE back
  BY ReclaimCases
<1> HIDE DEF n
<1>2. m \in Locked /\ Queues(m) BY DEF Sound
<1>3. Nothing \notin Ids /\ Dropped \notin Ids /\ Nothing # Dropped BY IdsNat DEF Nothing, Dropped
<1>4. Holds(m, freed, Nothing) BY <1>2, HoldsPut
<1> HIDE DEF freed
<1>5. CASE frame = NoFrame
  <2>1. RestOf(frame) = 0 /\ m.inFlight = Nothing
    <3>1. NoFrame \notin DataFrames BY DEF NoFrame, DataFrames
    <3>2. QED BY <1>5, <3>1 DEF RestOf, FrameKnown
  <2>2. Kept(m, m) /\ Calm(m, m, {}) BY <1>2, KeepsNothing, KeepsKept DEF Steady
  <2>3. n = m BY <1>1, <1>5
  <2>4. QED BY <2>1, <2>2, <2>3 DEF n
<1>6. CASE frame # NoFrame
  <2>1. /\ frame \in DataFrames /\ m.inFlight \in {s, Dropped} /\ RestOf(frame) = frame.rest
        /\ frame.rest \in Nat /\ s \in Ids /\ frame.rest <= MaxData
        /\ f \in SendFrames \/ frame.rest = 0
        /\ f.len = frame.rest
    <3>1. frame \in DataFrames /\ m.inFlight \in {s, Dropped} BY <1>6 DEF FrameKnown
    <3>2. frame.rest \in 0 .. MaxData /\ s \in Ids /\ frame.eos \in BOOLEAN BY <3>1 DEF DataFrames
    <3>3. f = [kind |-> "DATA", len |-> frame.rest, eos |-> frame.eos] BY DEF Frame
    <3>4. frame.rest > 0 => f \in SendFrames BY <3>2, <3>3 DEF SendFrames, FrameTypes
    <3>5. MaxData \in Nat BY SendAssumption
    <3>6. QED BY <1>6, <3>1, <3>2, <3>3, <3>4, <3>5 DEF RestOf
  <2> DEFINE r == frame.rest
  <2>2. Left(0) \in Loose /\ Left(r) \in Loose /\ Left(0).codec = 0 /\ Left(r).codec = r
        /\ \A t \in Ids : Left(0).new[t] = 0 /\ Left(r).new[t] = 0
    BY <2>1, LeftLoose
  <2>3. Sound(m, 0, Left(r)) BY <2>1
  <2>4. freed.inFlight = Nothing /\ Slab(freed) = Slab(m) /\ freed.failed = m.failed
    BY <1>4 DEF Holds, Slab
  <2>5. CASE m.inFlight = Dropped \/ r = 0
    <3>1. \A t \in Slab(m) : Held(freed, Left(0), t) = Held(m, Left(r), t)
      <4>1. \A t \in Slab(m) : t \in Ids BY <1>2, StreamTyped
      <4>2. QED BY <1>3, <2>2, <2>4, <2>5, <4>1 DEF Held
    <3>2. Left(0).codec > 0 /\ Nothing \in Ids => Nothing \in Slab(m) /\ ~Queued(m.pendingOpen, Nothing)
      BY <1>3
    <3>3. Sound(freed, 0, Left(0)) /\ Kept(m, freed) /\ Calm(m, freed, {})
      BY <1>4, <2>3, <3>1, <3>2, HoldSound
    <3>4. n = freed
      <4>1. CASE m.inFlight = Dropped BY <1>1, <1>6, <4>1
      <4>2. CASE m.inFlight # Dropped
        <5>1. m.inFlight = s /\ r = 0 BY <2>1, <2>5, <4>2
        <5>2. known = freed BY <5>1 DEF Check
        <5> HIDE DEF known
        <5>3. n = known BY <1>1, <1>6, <4>2, <5>1
        <5>4. QED BY <5>2, <5>3
      <4>3. QED BY <4>1, <4>2
    <3>5. QED BY <2>4, <3>3, <3>4 DEF n
  <2>6. CASE m.inFlight # Dropped /\ r # 0
    <3>1. m.inFlight = s /\ r > 0 /\ s \in Slab(m) /\ ~Queued(m.pendingOpen, s)
      <4>1. m.inFlight = s /\ r > 0 BY <2>1, <2>6
      <4>2. QED BY <2>1, <2>2, <2>3, <4>1 DEF Sound, Returnable
    <3>2. known = freed BY <3>1 DEF Check
    <3>3. known.failed = {} BY <2>4, <3>2
    <3> HIDE DEF known
    <3>4. n = IF m.store[s].flow.available > 0
              THEN [back EXCEPT !.pendingSend = PushOnce(@, s)] ELSE back
      BY <1>1, <1>6, <2>6, <3>3
    <3> DEFINE mid == With(Left(0), s, r)
    <3>5. mid \in Loose /\ mid.codec = 0 /\ mid.new[s] = r /\ \A t \in Ids : t # s => mid.new[t] = 0
      <4> DEFINE w == Left(0)
      <4>1. w \in Loose /\ w.codec = 0 /\ (\A t \in Ids : w.new[t] = 0) /\ s \in Ids /\ r \in Nat
        BY <2>1, <2>2
      <4> HIDE DEF w, r, s
      <4>2. /\ With(w, s, r) \in Loose /\ With(w, s, r).codec = w.codec /\ With(w, s, r).new[s] = r
            /\ \A t \in Ids : t # s => With(w, s, r).new[t] = w.new[t]
        BY <4>1, WithLoose
      <4>3. QED BY <4>1, <4>2 DEF w
    <3> HIDE DEF mid
    <3>6. Sound(freed, 0, mid) /\ Kept(m, freed) /\ Calm(m, freed, {})
      <4>1. \A t \in Slab(m) : Held(freed, mid, t) = Held(m, Left(r), t)
        <5>1. \A t \in Slab(m) : t \in Ids BY <1>2, StreamTyped
        <5>2. QED BY <1>3, <2>1, <2>2, <2>4, <3>1, <3>5, <5>1 DEF Held
      <4>2. mid.codec > 0 /\ Nothing \in Ids => Nothing \in Slab(m) /\ ~Queued(m.pendingOpen, Nothing)
        BY <1>3
      <4>3. QED BY <1>4, <2>3, <4>1, <4>2, HoldSound
    <3> DEFINE st == freed.store[s]
               p == <<f>> \o st.pending
               a == [st EXCEPT !.pending = p]
    <3>7. freed \in Locked /\ Queues(freed) /\ s \in Slab(freed) /\ st \in Streams /\ freed.flow \in Flows
      <4>1. freed \in Locked /\ Queues(freed) BY <3>6 DEF Sound
      <4>2. s \in Slab(freed) BY <2>4, <3>1
      <4>3. QED BY <4>1, <4>2, StreamTyped DEF Locked
    <3>8. f \in SendFrames /\ p \in Seq(SendFrames)
      BY <2>1, <3>1, <3>7, BytesInFront DEF Streams
    <3>9. a \in Streams /\ a.counted = st.counted /\ a.refs = st.refs
      <4> HIDE DEF p, st
      <4>1. QED BY <3>7, <3>8 DEF Streams
    <3>10. back = Put(freed, s, a, freed.flow, freed.inFlight)
      <4>1. back = [freed EXCEPT !.store = [freed.store EXCEPT ![s] = a]] BY <3>7 DEF Locked
      <4> HIDE DEF a, back
      <4>2. QED BY <3>7, <4>1 DEF Put, Locked
    <3>11. st.buffered >= r /\ Queued(freed.ids, s)
      <4>1. StreamFine(st, Held(freed, mid, s)) /\ Bytes(st.pending) \in Nat /\ st.buffered \in Nat
        BY <3>5, <3>6, <3>7, StreamFacts
      <4>2. Held(freed, mid, s) = r
        <5>1. freed.inFlight # s BY <1>3, <2>1, <2>4
        <5>2. QED BY <3>5, <5>1 DEF Held
      <4>3. st.buffered >= r BY <2>1, <4>1, <4>2 DEF StreamFine
      <4>4. ~StreamClosed(freed, s) BY <2>1, <3>1, <4>1, <4>3 DEF StreamClosed
      <4>5. QED BY <3>6, <3>7, <4>3, <4>4 DEF Sound, Findable
    <3>12. a.counted = freed.store[s].counted /\ a.refs = freed.store[s].refs BY <3>9
    <3>13. a = [freed.store[s] EXCEPT !.pending = p] /\ p = <<f>> \o freed.store[s].pending OBVIOUS
    <3>14. a = [freed.store[s] EXCEPT !.pending = <<f>> \o @] OBVIOUS
    <3> HIDE DEF a, back, st, p
    <3>15. /\ Touches(freed, back, s) /\ back.store[s] = a /\ back.flow = freed.flow
           /\ back.inFlight = freed.inFlight /\ Slab(back) = Slab(freed)
      BY <3>7, <3>9, <3>10, <3>12, PutTouches
    <3>16. Sound(back, 0, Left(0)) /\ Steady(freed, back) /\ Calm(freed, back, {}) /\ Busy(back.store[s])
      <4> DEFINE w == Left(0)
      <4>1. Gives(mid, w, s, f.len)
        BY <2>1, <2>2, <3>5 DEF Gives
      <4>2. Fronts(freed, back, s, f) BY <3>15, <3>14 DEF Fronts
      <4> HIDE DEF f, w, s
      <4>3. Sound(back, 0, w) /\ Steady(freed, back) /\ Calm(freed, back, {}) /\ Busy(back.store[s])
        BY <3>5, <3>6, <3>7, <3>8, <3>11, <4>1, <4>2, PrependSound
      <4>4. QED BY <4>3 DEF w
    <3>17. Kept(freed, back) /\ Kept(m, back) /\ Calm(m, back, {})
      BY <3>6, <3>16, KeepsKept, KeptTwice DEF Steady
    <3>18. CASE ~(m.store[s].flow.available > 0)
      <4>1. n = back BY <3>4, <3>18
      <4>2. QED BY <2>4, <3>15, <3>16, <3>17, <4>1 DEF n
    <3>19. CASE m.store[s].flow.available > 0
      <4>1. n = [back EXCEPT !.pendingSend = PushOnce(@, s)] BY <3>4, <3>19
      <4>2. s \in Slab(back) /\ ~Queued(back.pendingOpen, s)
        BY <1>4, <3>1, <3>7, <3>15 DEF Holds, Touches, SameSlots
      <4>3. /\ Sound(n, 0, Left(0)) /\ Steady(back, n) /\ Calm(back, n, {})
            /\ n.inFlight = back.inFlight
        BY <3>16, <4>1, <4>2, PushSendSound
      <4>4. Kept(m, n) /\ Calm(m, n, {}) BY <3>17, <4>3, KeepsKept, KeptTwice DEF Steady
      <4>5. QED BY <2>4, <3>15, <4>3, <4>4 DEF n
    <3>20. QED BY <3>18, <3>19
  <2>7. QED BY <2>5, <2>6
<1>7. QED BY <1>5, <1>6

-----------------------------------------------------------------------------
(* Writing.                                                                  *)

\* The next stream to write leaves its queue.
LEMMA PopSendSound ==
  ASSUME NEW m, NEW rest \in Loose, Sound(m, 0, rest), m.pendingSend # <<>>
  PROVE  LET s == Head(m.pendingSend)
             n == [m EXCEPT !.pendingSend = Tail(@)]
         IN  /\ Sound(n, 0, rest) /\ Steady(m, n) /\ Calm(m, n, {}) /\ n.store = m.store
             /\ n.inFlight = m.inFlight /\ n.pendingSend = Tail(m.pendingSend)
             /\ s \in Slab(n) /\ Busy(n.store[s])
             /\ ~Queued(n.pendingSend, s) /\ ~Queued(n.pendingOpen, s)
<1> DEFINE s == Head(m.pendingSend)
           n == [m EXCEPT !.pendingSend = Tail(@)]
<1>1. m \in Locked /\ Queues(m) /\ Working(m) BY DEF Sound
<1>2. /\ s \in Slab(m) /\ Queued(m.pendingSend, s) /\ IsQueue(Tail(m.pendingSend), Slab(m))
      /\ \A t : Queued(Tail(m.pendingSend), t) => Queued(m.pendingSend, t)
      /\ ~Queued(Tail(m.pendingSend), s)
  BY <1>1, QueueTail DEF Queues
<1>3. Tail(m.pendingSend) \in Seq(Ids)
  <2>1. IsQueue(Tail(m.pendingSend), Ids) BY <1>1, <1>2, StoreTyped, QueueWiden DEF Locked, Slab
  <2>2. QED BY <2>1 DEF IsQueue
<1>4. /\ n \in Locked /\ n.store = m.store /\ SameSlots(m, n) /\ n.flow = m.flow
      /\ n.inFlight = m.inFlight /\ n.failed = m.failed /\ n.pendingSend = Tail(m.pendingSend)
      /\ n.pendingCapacity = m.pendingCapacity
  BY <1>1, <1>3 DEF Locked, SameSlots
<1> HIDE DEF n, s
<1>5. Requeues(m, n) BY <1>1, <1>2, <1>4 DEF Requeues, Queues, Harmless
<1>6. Sound(n, 0, rest) /\ Slab(n) = Slab(m) /\ Steady(m, n) /\ Calm(m, n, {})
  BY <1>1, <1>5, RequeueSound, RequeuesSteady
<1>7. Busy(m.store[s]) /\ ~Queued(m.pendingOpen, s) BY <1>1, <1>2 DEF Working
<1>8. s \in Slab(n) /\ Busy(n.store[s]) /\ ~Queued(n.pendingSend, s) /\ ~Queued(n.pendingOpen, s)
  BY <1>2, <1>4, <1>6, <1>7 DEF SameSlots
<1>9. QED BY <1>4, <1>6, <1>8 DEF n, s

\* The end of a frame of s.
LEMMA RequeueEnds ==
  ASSUME NEW k, NEW rest \in Loose, Sound(k, 0, rest), NEW s \in Slab(k), ~Queued(k.pendingOpen, s)
  PROVE  LET n == Requeue(k, s, Queued(k.pendingReset, s))
         IN  Sound(n, 0, rest) /\ Keeps(k, n) /\ Calm(k, n, {})
<1> DEFINE st == k.store[s]
           more == st.pending # <<>> \/ IsScheduledReset(st.state)
           o == [k EXCEPT !.pendingSend = IF more THEN PushOnce(@, s) ELSE @]
           n == Requeue(k, s, Queued(k.pendingReset, s))
<1>1. k \in Locked BY DEF Sound
<1>2. n = TransitionAfter(o, s, Queued(k.pendingReset, s)) BY DEF Requeue
<1> HIDE DEF n
<1>3. Sound(o, 0, rest) /\ Steady(k, o) /\ Calm(k, o, {})
  <2>1. CASE more
    <3>1. o = [k EXCEPT !.pendingSend = PushOnce(@, s)] BY <2>1
    <3>2. Busy(k.store[s]) BY <2>1 DEF Busy, IsScheduledReset, IsClosed, Closed
    <3> HIDE DEF o
    <3>3. QED BY <3>1, <3>2, PushSendSound
  <2>2. CASE ~more
    <3>1. o = [k EXCEPT !.pendingSend = k.pendingSend] BY <2>2
    <3>2. o = k BY <1>1, <3>1 DEF Locked
    <3> HIDE DEF o
    <3>3. QED BY <1>1, <3>2, KeepsNothing
  <2>3. QED BY <2>1, <2>2
<1> HIDE DEF o
<1>4. Sound(n, 0, rest) /\ Keeps(k, n) /\ Calm(k, n, {}) BY <1>1, <1>2, <1>3, SteadyEnds
<1>5. QED BY <1>4 DEF n

\* The connection's window covers what any of its streams holds.
LEMMA ConnectionCovers ==
  ASSUME NEW m, NEW rest, Sound(m, 0, rest), Prudent, NEW s \in Slab(m)
  PROVE  m.store[s].flow.available <= m.flow.window
<1>1. /\ m \in Locked /\ m.flow.available >= 0
      /\ m.flow.window = m.flow.available + HandedOut(m) + 0
  BY DEF Sound, Balanced
<1>2. /\ IsFiniteSet(Slab(m)) /\ IsSummable(Availables(m)) /\ DOMAIN Availables(m) = Slab(m)
      /\ HandedOut(m) = SumFunction(Availables(m)) /\ HandedOut(m) \in Int
  BY <1>1, AvailablesSummable
<1>3. \A t \in Slab(m) : Availables(m)[t] >= 0
  BY DEF Availables, Sound, Fine, StreamFine
<1>4. Availables(m)[s] <= HandedOut(m) BY <1>2, <1>3, SumPart
<1>5. Availables(m)[s] = m.store[s].flow.available BY DEF Availables
<1>6. m.flow.available \in Int /\ m.store[s].flow.available \in Int
  BY <1>1, StreamTyped DEF Locked, Streams, Flows
<1>7. QED BY <1>1, <1>2, <1>4, <1>5, <1>6

\* The frames that are written.
Kinds == {"HEADERS", "DATA", "TRAILERS", "RST_STREAM"}

Written == [kind : Kinds, stream : Ids, len : Nat, rest : Nat, eos : BOOLEAN]

\* The step from m to n took the frame f from its stream and both windows.
Wrote(m, n, f) ==
  /\ Kept(m, n) /\ f \in Written /\ f.stream \in Slab(m)
  /\ n.flow.window = m.flow.window - f.len
  /\ \A t \in Slab(n) :
       /\ n.store[t].flow.window = m.store[t].flow.window - (IF t = f.stream THEN f.len ELSE 0)
       /\ PeerEnded(n.store[t].state) => PeerEnded(m.store[t].state)
  /\ f.len > 0 => /\ Queued(m.ids, f.stream) /\ f.len <= m.store[f.stream].flow.window
                  /\ Prudent => f.len <= m.flow.window
  /\ \/ f.kind # "DATA" /\ f.len = 0 /\ f.rest = 0 /\ n.inFlight = Nothing
     \/ f.kind = "DATA" /\ f \in DataFrames /\ n.inFlight \in {f.stream, Dropped}

\* A frame that is written after a calm step is written by both.
LEMMA WroteAfter ==
  ASSUME NEW m, NEW k, NEW n, NEW f, Kept(m, k), Calm(m, k, {}), Wrote(k, n, f)
  PROVE  Wrote(m, n, f)
<1>1. Kept(m, n) BY KeptTwice DEF Wrote
<1>2. f.stream \in Slab(m) /\ Slab(n) \subseteq Slab(k) BY DEF Wrote, Kept
<1>3. \A t \in Slab(k) : /\ k.store[t].flow.window = m.store[t].flow.window
                         /\ PeerEnded(k.store[t].state) => PeerEnded(m.store[t].state)
                         /\ Queued(k.ids, t) => Queued(m.ids, t)
  BY DEF Calm, Kept
<1>4. k.flow.window = m.flow.window BY DEF Calm
<1>5. QED BY <1>1, <1>2, <1>3, <1>4 DEF Wrote

\* So is one that is written before it.
LEMMA WroteBefore ==
  ASSUME NEW m, NEW k, NEW n, NEW f, Wrote(m, k, f), Keeps(k, n), Calm(k, n, {})
  PROVE  Wrote(m, n, f)
<1>1. Kept(m, n) BY KeepsKept, KeptTwice DEF Wrote
<1>2. Slab(n) \subseteq Slab(k) BY DEF Keeps
<1>3. \A t \in Slab(n) : /\ n.store[t].flow.window = k.store[t].flow.window
                         /\ PeerEnded(n.store[t].state) => PeerEnded(k.store[t].state)
  BY DEF Calm
<1>4. n.flow.window = k.flow.window BY DEF Calm
<1>5. k.inFlight = Nothing => n.inFlight = Nothing
  BY IdsNat DEF Keeps
<1>6. k.inFlight \in {f.stream, Dropped} => n.inFlight \in {f.stream, Dropped}
  BY DEF Keeps
<1>7. QED BY <1>1, <1>2, <1>3, <1>4, <1>5, <1>6 DEF Wrote

\* The stream s was taken from the queue, and the codec is empty.
Poppable(m, s) ==
  /\ Sound(m, 0, Left(0)) /\ m.inFlight = Nothing /\ s \in Slab(m) /\ Busy(m.store[s])
  /\ ~Queued(m.pendingSend, s) /\ ~Queued(m.pendingOpen, s)

\* One round: a frame of some stream, or nothing but a stream the fewer.
Pops(m, p) ==
  /\ p = Popped(p.me, p.frame)
  /\ p.frame = NoFrame =>
       /\ Sound(p.me, 0, Left(0)) /\ Keeps(m, p.me) /\ Calm(m, p.me, {})
       /\ p.me.inFlight = Nothing /\ p.me.pendingSend = m.pendingSend
  /\ p.frame # NoFrame => Sound(p.me, 0, Left(p.frame.rest)) /\ Wrote(m, p.me, p.frame)

\* A frame without data was taken, and the state may be that of a reset.
LEMMA WritesControl ==
  ASSUME NEW m, NEW s, Poppable(m, s), NEW k, Touches(m, k, s), k.inFlight = Nothing,
         Sound(k, 0, Left(0)), Steady(m, k), Calm(m, k, {}),
         NEW kind \in Kinds \ {"DATA"}, NEW eos \in BOOLEAN
  PROVE  Pops(m, Popped(Requeue(k, s, Queued(m.pendingReset, s)),
                        [kind |-> kind, stream |-> s, len |-> 0, rest |-> 0, eos |-> eos]))
<1> DEFINE n == Requeue(k, s, Queued(m.pendingReset, s))
           f == [kind |-> kind, stream |-> s, len |-> 0, rest |-> 0, eos |-> eos]
           p == Popped(n, f)
<1>1. p.me = n /\ p.frame = f /\ p = Popped(p.me, p.frame) BY DEF Popped
<1>2. s \in Slab(k) /\ ~Queued(k.pendingOpen, s) /\ k.pendingReset = m.pendingReset
  BY DEF Poppable, Touches, SameSlots
<1>3. n = Requeue(k, s, Queued(k.pendingReset, s)) BY <1>2
<1>4. Left(0) \in Loose BY LeftLoose
<1>5. Sound(n, 0, Left(0)) /\ Keeps(k, n) /\ Calm(k, n, {})
  BY <1>2, <1>3, <1>4, RequeueEnds
<1>6. /\ f # NoFrame /\ f.rest = 0 /\ f.len = 0 /\ f.kind = kind /\ f.stream = s /\ f.eos = eos
      /\ f \in Written
  <2>1. s \in Ids BY StreamTyped DEF Poppable, Sound
  <2>2. QED BY <2>1 DEF NoFrame, Written
<1> HIDE DEF n, f
<1>7. Kept(m, k) BY KeepsKept DEF Steady
<1>8. Wrote(m, k, f)
  <2>1. s \in Slab(m) /\ m.flow.window \in Int /\ \A t \in Slab(m) : m.store[t].flow.window \in Int
    BY StreamTyped DEF Poppable, Sound, Locked, Flows, Streams
  <2>2. /\ k.flow.window = m.flow.window - f.len
        /\ \A t \in Slab(k) :
             /\ k.store[t].flow.window = m.store[t].flow.window - (IF t = f.stream THEN f.len ELSE 0)
             /\ PeerEnded(k.store[t].state) => PeerEnded(m.store[t].state)
    BY <1>6, <1>7, <2>1 DEF Calm, Kept
  <2>3. QED BY <1>6, <1>7, <2>1, <2>2 DEF Wrote
<1>9. Wrote(m, n, f) BY <1>5, <1>8, WroteBefore
<1> HIDE DEF p
<1>10. Pops(m, p) BY <1>1, <1>5, <1>6, <1>9 DEF Pops
<1>11. QED BY <1>10 DEF p, n, f

\* HEADERS, trailers or RST_STREAM.
LEMMA PopOtherSound ==
  ASSUME NEW m, NEW s, Poppable(m, s), m.store[s].pending # <<>>,
         Head(m.store[s].pending).kind # "DATA"
  PROVE  Pops(m, PopOther(m, s, Queued(m.pendingReset, s)))
<1> DEFINE st == m.store[s]
           head == Head(st.pending)
           r == [st EXCEPT !.pending = Tail(st.pending)]
           k == Put(m, s, r, m.flow, m.inFlight)
           rest == Left(0)
<1>1. rest \in Loose BY LeftLoose
<1>2. /\ m \in Locked /\ Queues(m) /\ s \in Slab(m) /\ s \in Ids /\ st \in Streams
      /\ Sound(m, 0, rest) /\ StreamFine(st, Held(m, rest, s)) /\ m.flow \in Flows
      /\ st.flow \in Flows /\ Bytes(st.pending) \in Nat
  BY <1>1, StreamFacts DEF Poppable
<1>3. st.pending \in Seq(SendFrames) BY <1>2 DEF Streams
<1>4. head \in SendFrames /\ Tail(st.pending) \in Seq(SendFrames)
      /\ Bytes(st.pending) = head.len + Bytes(Tail(st.pending))
  BY <1>3, BytesHead
<1>5. head.len = 0 /\ head.kind \in Kinds \ {"DATA"} /\ head.eos \in BOOLEAN
  BY <1>4 DEF SendFrames, FrameTypes, Kinds
<1>6. Bytes(Tail(st.pending)) = Bytes(st.pending)
  <2>1. Bytes(Tail(st.pending)) \in Nat BY <1>4, BytesNat
  <2>2. QED BY <1>4, <1>5, <2>1
<1>7. PopOther(m, s, Queued(m.pendingReset, s))
        = Popped(Requeue(k, s, Queued(m.pendingReset, s)),
                 [kind |-> head.kind, stream |-> s, len |-> 0, rest |-> 0, eos |-> head.eos])
  <2>1. [m EXCEPT !.store[s].pending = Tail(@)] = k BY <1>2 DEF Put, Locked
  <2> HIDE DEF k
  <2>2. QED BY <2>1 DEF PopOther
<1>8. /\ r \in Streams /\ r.counted = st.counted /\ r.refs = st.refs /\ r.flow = st.flow
      /\ r.state = st.state /\ r.buffered = st.buffered /\ r.requested = st.requested
      /\ r.pending = Tail(st.pending)
  BY <1>2, <1>4 DEF Streams
<1> HIDE DEF r
<1>9. k = Put(m, s, r, m.flow, m.inFlight) OBVIOUS
<1> HIDE DEF k, head
<1>10. /\ Touches(m, k, s) /\ k.store[s] = r /\ k.flow = m.flow /\ k.inFlight = m.inFlight
       /\ k.pendingSend = m.pendingSend /\ k \in Locked
  BY <1>2, <1>8, <1>9, PutTouches
<1>11. Sound(k, 0, rest)
  <2> DEFINE z == 0
  <2>1. z \in Int /\ Sound(m, z, rest) BY <1>2
  <2>2. Moves(m.flow, k.flow, st.flow, k.store[s].flow, z, z)
    BY <1>2, <1>8, <1>10 DEF Moves, Sound, Balanced
  <2>3. Held(k, rest, s) = Held(m, rest, s) /\ \A t \in Slab(m) : t # s => Held(k, rest, t) = Held(m, rest, t)
    BY <1>10 DEF Held
  <2>4. StreamFine(k.store[s], Held(k, rest, s))
    BY <1>2, <1>6, <1>8, <1>10, <2>3 DEF StreamFine
  <2>5. Queued(m.ids, s) BY <1>2 DEF Sound, Findable, StreamClosed
  <2>6. ~Queued(k.pendingSend, s) /\ ~Queued(m.pendingOpen, s) BY <1>10 DEF Poppable
  <2> HIDE DEF z, rest
  <2>7. Sound(k, z, rest) BY <1>1, <1>2, <1>10, <2>1, <2>2, <2>3, <2>4, <2>5, <2>6, TouchMoves
  <2>8. QED BY <2>7 DEF z
<1>12. Steady(m, k) /\ Calm(m, k, {}) BY <1>2, <1>8, <1>10, TouchesSteady
<1>13. k.inFlight = Nothing BY <1>10 DEF Poppable
<1>14. QED BY <1>5, <1>7, <1>10, <1>11, <1>12, <1>13, WritesControl

\* A stream with nothing queued: its reset, or its end.
LEMMA PopEmptySound ==
  ASSUME NEW m, NEW s, Poppable(m, s), m.store[s].pending = <<>>
  PROVE  Pops(m, PopEmpty(m, s, Queued(m.pendingReset, s)))
<1> DEFINE st == m.store[s]
           rest == Left(0)
           w == Queued(m.pendingReset, s)
<1>1. rest \in Loose /\ rest.codec = 0 /\ \A t \in Ids : rest.new[t] = 0 BY LeftLoose
<1>2. /\ m \in Locked /\ Queues(m) /\ s \in Slab(m) /\ s \in Ids /\ st \in Streams
      /\ Sound(m, 0, rest) /\ StreamFine(st, Held(m, rest, s)) /\ m.flow \in Flows
      /\ st.flow \in Flows
  BY <1>1, StreamFacts DEF Poppable
<1>3. st.buffered = 0
  <2>1. Held(m, rest, s) = 0 BY <1>1, <1>2 DEF Held
  <2>2. st.buffered = Bytes(<<>>) + 0 BY <1>2, <2>1 DEF StreamFine
  <2>3. QED BY <2>2, BytesNone
<1>4. IsClosed(st.state) BY <1>3 DEF Poppable, Busy
<1>5. CASE IsScheduledReset(st.state)
  <2> DEFINE x == SetReset(st.state)
             r == [st EXCEPT !.state = x]
             k == Put(m, s, r, m.flow, m.inFlight)
  <2>1. PopEmpty(m, s, w)
          = Popped(Requeue(k, s, w),
                   [kind |-> "RST_STREAM", stream |-> s, len |-> 0, rest |-> 0, eos |-> FALSE])
    <3>1. [m EXCEPT !.store[s].state = SetReset(@)] = k BY <1>2 DEF Put, Locked
    <3> HIDE DEF k, w
    <3>2. QED BY <1>5, <3>1 DEF PopEmpty
  <2>2. x \in States /\ IsClosed(x) /\ x \in ClientStates /\ ~PeerEnded(x) /\ IsSendClosed(x)
    <3>1. st.state \in States BY <1>2 DEF Streams
    <3>2. x \in States /\ IsClosed(x) BY <3>1, StatesTyped
    <3>3. x = Closed("LocallyReset") BY DEF SetReset
    <3>4. ~PeerEnded(x) BY <3>3 DEF PeerEnded, IsLocalReset, Closed
    <3>5. IsSendClosed(x) BY <3>3 DEF IsSendClosed, Closed
    <3>6. QED BY <3>2, <3>4, <3>5, ClientTyped
  <2> HIDE DEF x
  <2>3. /\ r \in Streams /\ r.counted = st.counted /\ r.refs = st.refs /\ r.flow = st.flow
        /\ r.state = x /\ r.buffered = st.buffered /\ r.requested = st.requested
        /\ r.pending = st.pending
    BY <1>2, <2>2 DEF Streams
  <2> HIDE DEF r
  <2>4. k = Put(m, s, r, m.flow, m.inFlight) OBVIOUS
  <2> HIDE DEF k
  <2>5. StreamFine(r, Held(m, rest, s))
    <3>1. IsSendClosed(st.state) BY <1>4 DEF IsSendClosed, IsClosed
    <3>2. QED BY <1>2, <2>2, <2>3, <3>1 DEF StreamFine
  <2>6. Busy(r) BY <2>2, <2>3 DEF Busy
  <2>7. /\ Sound(k, 0, rest) /\ Touches(m, k, s) /\ k.store[s] = r /\ k.flow = m.flow
        /\ k.inFlight = m.inFlight
    <3> DEFINE z == 0
    <3>1. z \in Int /\ Sound(m, z, rest) BY <1>2
    <3>2. Moves(m.flow, m.flow, st.flow, r.flow, z, z)
      BY <1>2, <2>3 DEF Moves, Sound, Balanced
    <3>3. IsClosed(r.state) /\ r.pending = <<>> /\ r.buffered = 0 BY <1>3, <2>2, <2>3
    <3> HIDE DEF z, rest
    <3>4. /\ Sound(k, z, rest) /\ Touches(m, k, s) /\ k.store[s] = r /\ k.flow = m.flow
          /\ k.inFlight = m.inFlight
      BY <1>1, <1>2, <2>3, <2>4, <2>5, <2>6, <3>1, <3>2, <3>3, PutSound
    <3>5. QED BY <3>4 DEF z
  <2>8. Steady(m, k) /\ Calm(m, k, {})
    BY <1>2, <2>2, <2>3, <2>7, TouchesSteady
  <2>9. k.inFlight = Nothing BY <2>7 DEF Poppable
  <2>10. "RST_STREAM" \in Kinds \ {"DATA"} /\ FALSE \in BOOLEAN BY DEF Kinds
  <2>11. QED BY <2>1, <2>7, <2>8, <2>9, <2>10, WritesControl DEF w
<1>6. CASE ~IsScheduledReset(st.state)
  <2> DEFINE n == TransitionAfter(m, s, w)
             p == Popped(n, NoFrame)
  <2>1. PopEmpty(m, s, w) = p
    <3>1. Check(m, IsClosed(m.store[s].state), "dangling stream") = m BY <1>4 DEF Check
    <3> HIDE DEF w
    <3>2. QED BY <1>6, <3>1 DEF PopEmpty
  <2>2. Steady(m, m) /\ Calm(m, m, {}) BY <1>2, KeepsNothing
  <2>3. Sound(n, 0, rest) /\ Keeps(m, n) /\ Calm(m, n, {}) /\ Settles(m, n, s)
    BY <1>1, <1>2, <2>2, SteadyEnds
  <2> HIDE DEF n
  <2>4. p.me = n /\ p.frame = NoFrame /\ p = Popped(p.me, p.frame) BY DEF Popped
  <2>5. n.inFlight = Nothing /\ n.pendingSend = m.pendingSend BY <2>3 DEF Settles, Poppable
  <2> HIDE DEF p
  <2>6. Pops(m, p) BY <2>3, <2>4, <2>5 DEF Pops
  <2>7. QED BY <2>1, <2>6
<1>7. QED BY <1>5, <1>6

\* What may be taken of the first frame of the stream w.
Takes(w, len) ==
  LET data == Head(w.pending)
  IN  /\ len \in Nat /\ len <= data.len /\ len <= AsSize(w.flow.available)
      /\ Careful => len > 0

\* A stream without the part of a frame that was written is fine.
LEMMA SentFine ==
  ASSUME NEW w \in Streams, w.pending # <<>>, Head(w.pending).kind = "DATA",
         StreamFine(w, 0), NEW len, Takes(w, len)
  PROVE  LET r == SentOf(w, len)
             left == Head(w.pending).len - len
         IN  /\ r \in Streams /\ r.counted = w.counted /\ r.refs = w.refs /\ r.state = w.state
             /\ left \in Nat /\ StreamFine(r, left)
             /\ r.flow = SendDataOn(w.flow, len) /\ r.flow.window = w.flow.window - len
             /\ r.flow.available = w.flow.available - len
             /\ Careful => len <= w.flow.window
             /\ len > 0 => len <= w.flow.window /\ len <= w.flow.available
             /\ w.buffered >= len /\ w.requested >= len
<1> DEFINE r == SentOf(w, len)
           data == Head(w.pending)
           left == data.len - len
           F == SendDataOn(w.flow, len)
           b == w.buffered - len
           q == w.requested - len
           p == Tail(w.pending)
<1>1. /\ w.pending \in Seq(SendFrames) /\ w.flow \in Flows /\ w.buffered \in Int /\ w.requested \in Int
      /\ w.flow.window \in Int /\ w.flow.available \in Int
  BY DEF Streams, Flows
<1>2. /\ data \in SendFrames /\ p \in Seq(SendFrames) /\ Bytes(w.pending) = data.len + Bytes(p)
  BY <1>1, BytesHead
<1>3. Bytes(p) \in Nat /\ data.len \in Nat BY <1>2, BytesNat, FrameLen
<1>4. len \in Nat /\ len <= data.len /\ len <= AsSize(w.flow.available) /\ (Careful => len > 0)
  BY DEF Takes
<1>5. left \in Nat BY <1>3, <1>4
<1>6. F \in Flows /\ F.window = w.flow.window - len /\ F.available = w.flow.available - len
  BY <1>1, <1>4 DEF SendDataOn, Flow, Flows
<1>7. b \in Int /\ q \in Int BY <1>1, <1>4
<1>8. r = [w EXCEPT !.flow = F, !.buffered = b, !.requested = q, !.pending = p] BY DEF SentOf
<1> HIDE DEF r, F, b, q, p, data
<1>9. /\ r \in Streams /\ r.counted = w.counted /\ r.refs = w.refs /\ r.state = w.state
      /\ r.flow = F /\ r.buffered = b /\ r.requested = q /\ r.pending = p
  BY <1>2, <1>6, <1>7, <1>8 DEF Streams
<1>10. /\ w.buffered = data.len + Bytes(p) /\ w.buffered <= w.requested
       /\ w.flow.available <= AsSize(w.flow.window) /\ w.flow.available <= w.requested
       /\ w.state \in ClientStates
       /\ Prudent => /\ w.flow.available >= 0
                     /\ IsSendClosed(w.state) \/ ReserveSizes = {} => w.requested = w.buffered
  BY <1>2, <1>3 DEF StreamFine
<1>11. len > 0 => len <= w.flow.window /\ len <= w.flow.available
  BY <1>1, <1>4, <1>10 DEF AsSize
<1>12. w.buffered >= len /\ w.requested >= len
  BY <1>1, <1>3, <1>4, <1>10
<1>13. StreamFine(r, left)
  <2>1. r.buffered = Bytes(r.pending) + left
    BY <1>1, <1>3, <1>4, <1>9, <1>10 DEF b
  <2>2. r.buffered <= r.requested BY <1>1, <1>4, <1>9, <1>10 DEF b, q
  <2>3. F.available <= AsSize(F.window)
    BY <1>1, <1>4, <1>6, <1>10 DEF AsSize
  <2>4. F.available <= q BY <1>1, <1>4, <1>6, <1>10 DEF q
  <2>5. Prudent => F.available >= 0
    BY <1>1, <1>4, <1>6, <1>10 DEF AsSize
  <2>6. Prudent /\ (IsSendClosed(w.state) \/ ReserveSizes = {}) => q = b
    BY <1>10 DEF q, b
  <2>7. QED BY <1>9, <1>10, <2>1, <2>2, <2>3, <2>4, <2>5, <2>6 DEF StreamFine
<1>14. Careful => len <= w.flow.window BY <1>4, <1>11
<1>15. QED BY <1>5, <1>6, <1>9, <1>11, <1>12, <1>13, <1>14 DEF r, F, data

\* How much is taken.
LEMMA TakesLen ==
  ASSUME NEW w \in Streams, w.pending # <<>>, Head(w.pending).kind = "DATA",
         ~(Head(w.pending).len > 0 /\ w.flow.available = 0), StreamFine(w, 0)
  PROVE  Takes(w, Min({Head(w.pending).len, MaxFrame, AsSize(w.flow.available)}))
<1> DEFINE data == Head(w.pending)
           a == AsSize(w.flow.available)
           len == Min({data.len, MaxFrame, a})
<1>1. w.pending \in Seq(SendFrames) /\ w.flow.available \in Int BY DEF Streams, Flows
<1>2. data \in SendFrames BY <1>1, BytesHead
<1>3. data.len \in Nat /\ (Careful => data.len > 0) BY <1>2, FrameLen DEF SendFrames
<1>4. MaxFrame \in Nat /\ MaxFrame # 0 BY SendAssumption
<1>5. a \in Nat BY <1>1 DEF AsSize
<1>6. Careful => a > 0
  <2>1. Careful => w.flow.available > 0
    BY <1>1, <1>3 DEF StreamFine, Careful
  <2>2. QED BY <1>1, <2>1 DEF AsSize
<1> HIDE DEF data, a
<1>7. len \in {data.len, MaxFrame, a} /\ len <= data.len /\ len <= a
  BY <1>3, <1>4, <1>5, MinOfThree
<1> HIDE DEF len
<1>8. QED BY <1>3, <1>4, <1>5, <1>6, <1>7 DEF Takes, len, data, a

\* A DATA frame, cut to what both the frame and the capacity allow.
LEMMA PopDataSound ==
  ASSUME NEW m, NEW s, Poppable(m, s), m.store[s].pending # <<>>,
         Head(m.store[s].pending).kind = "DATA"
  PROVE  Pops(m, PopData(m, s, Queued(m.pendingReset, s)))
<1> DEFINE st == m.store[s]
           data == Head(st.pending)
           len == Min({data.len, MaxFrame, AsSize(st.flow.available)})
           sent == [m EXCEPT !.store[s] = SentOf(@, len),
                             !.flow = SendDataOn(AssignCapacity(@, len), len),
                             !.inFlight = s]
           c1 == Check(sent, MaySendData(m.flow, len), "send_data: connection window")
           c2 == Check(c1, MaySendData(st.flow, len), "send_data: stream window")
           c3 == Check(c2, st.buffered >= len /\ st.requested >= len, "pop_frame: buffered")
           f == [kind |-> "DATA", stream |-> s, len |-> len, rest |-> data.len - len,
                 eos |-> data.eos]
           w == Queued(m.pendingReset, s)
           n == Requeue(c3, s, w)
           rest == Left(0)
<1>1. rest \in Loose /\ rest.codec = 0 /\ \A t \in Ids : rest.new[t] = 0 BY LeftLoose
<1>2. /\ m \in Locked /\ Queues(m) /\ s \in Slab(m) /\ s \in Ids /\ st \in Streams
      /\ Sound(m, 0, rest) /\ StreamFine(st, Held(m, rest, s)) /\ m.flow \in Flows
      /\ st.flow \in Flows /\ st.flow.available \in Int /\ st.flow.window \in Int
      /\ m.flow.available \in Int /\ m.flow.window \in Int
  BY <1>1, StreamFacts DEF Poppable
<1>3. Held(m, rest, s) = 0 BY <1>1, <1>2 DEF Held
<1>4. PopData(m, s, w) = IF data.len > 0 /\ st.flow.available = 0 THEN Popped(m, NoFrame)
                         ELSE Popped(n, f)
  BY DEF PopData
<1> HIDE DEF w, rest
<1>5. CASE data.len > 0 /\ st.flow.available = 0
  <2> DEFINE p == Popped(m, NoFrame)
  <2>1. p.me = m /\ p.frame = NoFrame /\ p = Popped(p.me, p.frame) BY DEF Popped
  <2>2. PopData(m, s, w) = p BY <1>4, <1>5
  <2>3. Keeps(m, m) /\ Calm(m, m, {}) BY <1>2, KeepsNothing DEF Steady
  <2> HIDE DEF p
  <2>4. Pops(m, p) BY <2>1, <2>3 DEF Pops, Poppable
  <2>5. QED BY <2>2, <2>4 DEF w
<1>6. CASE ~(data.len > 0 /\ st.flow.available = 0)
  <2>1. PopData(m, s, w) = Popped(n, f)
    <3> HIDE DEF n, f
    <3>1. QED BY <1>4, <1>6
  <2>2. Takes(st, len)
    <3>1. StreamFine(st, 0) BY <1>2, <1>3
    <3>2. QED BY <1>2, <1>6, <3>1, TakesLen
  <2>3. data \in SendFrames
    <3>1. st.pending \in Seq(SendFrames) BY <1>2 DEF Streams
    <3>2. QED BY <3>1, BytesHead
  <2>4. sent = [Put(m, s, SentOf(st, len), SendDataOn(AssignCapacity(m.flow, len), len), m.inFlight)
                  EXCEPT !.inFlight = s]
    <3> HIDE DEF len
    <3>1. QED BY <1>2 DEF Put, Locked
  <2> HIDE DEF len
  <2> DEFINE r == SentOf(st, len)
             F == SendDataOn(AssignCapacity(m.flow, len), len)
             left == data.len - len
             k == Put(m, s, r, F, m.inFlight)
  <2>5. /\ r \in Streams /\ r.counted = st.counted /\ r.refs = st.refs /\ r.state = st.state
        /\ left \in Nat /\ StreamFine(r, left)
        /\ r.flow = SendDataOn(st.flow, len) /\ r.flow.window = st.flow.window - len
        /\ r.flow.available = st.flow.available - len
        /\ Careful => len <= st.flow.window
        /\ len > 0 => len <= st.flow.window /\ len <= st.flow.available
        /\ st.buffered >= len /\ st.requested >= len
    <3>1. StreamFine(st, 0) BY <1>2, <1>3
    <3>2. QED BY <1>2, <2>2, <3>1, SentFine, Zenon
  <2>6. len \in Nat BY <2>2 DEF Takes
  <2>7. F \in Flows /\ F.window = m.flow.window - len /\ F.available = m.flow.available
    BY <1>2, <2>6 DEF SendDataOn, AssignCapacity, Flow, Flows
  <2>8. sent = [k EXCEPT !.inFlight = s] BY <2>4
  <2>9. k = Put(m, s, r, F, m.inFlight) OBVIOUS
  <2>10. Queued(m.ids, s) BY <1>2 DEF Sound, Findable, StreamClosed
  <2> HIDE DEF r, F, k, sent
  <2>11. /\ Touches(m, k, s) /\ k.store[s] = r /\ k.flow = F /\ k.inFlight = m.inFlight
         /\ k.pendingSend = m.pendingSend /\ k \in Locked /\ k.failed = m.failed
    BY <1>2, <2>5, <2>7, <2>9, PutTouches
  <2> DEFINE mid == With(rest, s, left)
  <2>12. mid \in Loose /\ mid.codec = 0 /\ mid.new[s] = left /\ \A t \in Ids : t # s => mid.new[t] = 0
    BY <1>1, <1>2, <2>5, WithLoose
  <2> HIDE DEF mid, left
  <2>13. m.inFlight = Nothing /\ Nothing \notin Ids BY IdsNat DEF Poppable
  <2>14. Sound(k, 0, mid)
    <3> DEFINE z == 0
    <3>1. z \in Int /\ Sound(m, z, rest) BY <1>2
    <3>2. Moves(m.flow, k.flow, st.flow, k.store[s].flow, z, z)
      <4>1. Prudent => m.flow.available >= 0 BY <1>2 DEF Sound, Balanced
      <4> DEFINE a == m.flow.available
                 b == m.flow.window
                 c == st.flow.available
      <4>2. a \in Int /\ b \in Int /\ c \in Int BY <1>2
      <4>3. k.flow.available = a /\ k.flow.window = b - len /\ k.store[s].flow.available = c - len
        BY <2>5, <2>7, <2>11
      <4> HIDE DEF a, b, c
      <4>4. (b - len) - a - (c - len) - 0 = b - a - c - 0 BY <2>6, <4>2
      <4>5. QED BY <4>1, <4>3, <4>4 DEF Moves, a, b, c
    <3>3. Held(k, mid, s) = left /\ \A t \in Slab(m) : t # s => Held(k, mid, t) = Held(m, rest, t)
      <4>1. \A t \in Slab(m) : t \in Ids BY <1>2, StreamTyped
      <4>2. QED BY <1>1, <1>2, <2>11, <2>12, <2>13, <4>1 DEF Held
    <3>4. StreamFine(k.store[s], Held(k, mid, s)) BY <2>5, <2>11, <3>3
    <3>5. ~Queued(k.pendingSend, s) /\ ~Queued(m.pendingOpen, s) BY <2>11 DEF Poppable
    <3>6. mid.codec = rest.codec BY <1>1, <2>12
    <3> HIDE DEF z
    <3>7. Sound(k, z, mid) BY <1>2, <2>10, <2>11, <3>1, <3>2, <3>3, <3>4, <3>5, <3>6, TouchMoves
    <3>8. QED BY <3>7 DEF z
  <2>15. Steady(m, k) BY <1>2, <2>11, TouchesSteady
  <2>16. Holds(k, sent, s) BY <1>2, <2>8, <2>11, HoldsPut
  <2>17. Sound(sent, 0, Left(left)) /\ Kept(k, sent) /\ Calm(k, sent, {}) /\ Slab(sent) = Slab(k)
    <3>1. Left(left).codec = left /\ \A t \in Ids : Left(left).new[t] = 0 BY <2>5, LeftLoose
    <3>2. \A t \in Slab(k) : Held(sent, Left(left), t) = Held(k, mid, t)
      <4>1. \A t \in Slab(k) : t \in Ids BY <2>11, StreamTyped
      <4>2. k.inFlight = Nothing /\ sent.inFlight = s BY <2>11, <2>13, <2>16 DEF Holds
      <4>3. left \in Nat BY <2>5
      <4>4. QED BY <1>2, <2>12, <2>13, <3>1, <4>1, <4>2, <4>3 DEF Held
    <3>3. s \in Slab(k) /\ ~Queued(k.pendingOpen, s)
      BY <1>2, <2>11 DEF Poppable, Touches, SameSlots
    <3>4. QED BY <2>14, <2>16, <3>2, <3>3, HoldSound
  <2>18. Careful /\ m.failed = {} => MaySendData(m.flow, len) /\ MaySendData(st.flow, len)
    <3>1. SUFFICES ASSUME Careful PROVE MaySendData(m.flow, len) /\ MaySendData(st.flow, len)
      OBVIOUS
    <3>2. Prudent BY <3>1 DEF Careful
    <3>3. st.flow.available <= m.flow.window BY <1>2, <3>2, ConnectionCovers
    <3>4. len > 0 BY <2>2, <3>1 DEF Takes
    <3>5. QED BY <1>2, <2>5, <2>6, <3>3, <3>4 DEF MaySendData, SizeLeq
  <2> DEFINE g == Left(left)
  <2>19. Sound(sent, 0, g) /\ sent \in Locked /\ g \in Loose /\ sent.failed = m.failed
    <3>1. left \in Nat BY <2>5
    <3>2. QED BY <2>11, <2>16, <2>17, <3>1, LeftLoose DEF Sound, Holds
  <2> HIDE DEF g
  <2>20. Agree(sent, c1) /\ Sound(c1, 0, g) /\ c1 \in Locked
    <3>1. "send_data: connection window" \in Asserts BY DEF Asserts
    <3>2. MaySendData(m.flow, len) \in BOOLEAN BY DEF MaySendData, SizeLeq
    <3>3. Agree(sent, c1) BY <2>18, <2>19, <3>1, <3>2, CheckAgrees
    <3>4. QED BY <2>19, <3>3, AgreeSound DEF Agree
  <2> HIDE DEF c1
  <2>21. Agree(c1, c2) /\ Sound(c2, 0, g) /\ c2 \in Locked
    <3>1. "send_data: stream window" \in Asserts BY DEF Asserts
    <3>2. MaySendData(st.flow, len) \in BOOLEAN BY DEF MaySendData, SizeLeq
    <3>3. Careful /\ c1.failed = {} => MaySendData(st.flow, len)
      BY <1>2, <2>2, <2>5, <2>6 DEF Takes, MaySendData, SizeLeq
    <3>4. Agree(c1, c2) BY <2>20, <3>1, <3>2, <3>3, CheckAgrees
    <3>5. QED BY <2>20, <3>4, AgreeSound DEF Agree
  <2> HIDE DEF c2
  <2>22. Agree(c2, c3) /\ Sound(c3, 0, g) /\ c3 \in Locked
    <3>1. "pop_frame: buffered" \in Asserts BY DEF Asserts
    <3> DEFINE ok == st.buffered >= len /\ st.requested >= len
    <3>2. ok \in BOOLEAN /\ ok BY <2>5
    <3>3. c3 = Check(c2, ok, "pop_frame: buffered") OBVIOUS
    <3> HIDE DEF ok, c3
    <3>4. Agree(c2, c3) BY <2>21, <3>1, <3>2, <3>3, CheckAgrees
    <3>5. QED BY <2>21, <3>4, AgreeSound DEF Agree
  <2> HIDE DEF c3
  <2>23. Keeps(sent, c3) /\ Calm(sent, c3, {}) /\ Slab(c3) = Slab(sent) /\ SameSlots(sent, c3)
         /\ c3.inFlight = sent.inFlight
    <3>1. Agree(sent, c3) BY <2>20, <2>21, <2>22 DEF Agree, SameSlots, Harmless
    <3>2. QED BY <2>19, <3>1, AgreeSteady DEF Steady, Agree
  <2>24. s \in Slab(c3) /\ ~Queued(c3.pendingOpen, s) /\ c3.pendingReset = m.pendingReset
    BY <1>2, <2>11, <2>16, <2>17, <2>23 DEF Poppable, Touches, SameSlots, Holds
  <2>25. Sound(n, 0, g) /\ Keeps(c3, n) /\ Calm(c3, n, {})
    <3>1. n = Requeue(c3, s, Queued(c3.pendingReset, s)) BY <2>24 DEF w
    <3>2. QED BY <2>19, <2>22, <2>24, <3>1, RequeueEnds
  <2> HIDE DEF n
  <2>26. /\ f # NoFrame /\ f.kind = "DATA" /\ f.stream = s /\ f.len = len /\ f.rest = left
         /\ f.eos = data.eos /\ f \in DataFrames /\ f \in Written
    <3>1. /\ f.kind = "DATA" /\ f.stream = s /\ f.len = len /\ f.rest = left /\ f.eos = data.eos
      BY DEF left
    <3>2. data.eos \in BOOLEAN /\ data.len \in 0 .. MaxData BY <2>3 DEF SendFrames, FrameTypes
    <3>3. len \in 0 .. MaxData /\ left \in 0 .. MaxData
      <4>1. MaxData \in Nat BY SendAssumption
      <4>2. len \in Nat /\ len <= data.len BY <2>2 DEF Takes
      <4>3. QED BY <3>2, <4>1, <4>2 DEF left
    <3>4. f \in DataFrames BY <1>2, <3>2, <3>3 DEF DataFrames, left
    <3>5. f # NoFrame
      <4>1. NoFrame.kind = "none" BY DEF NoFrame
      <4>2. QED BY <3>1, <4>1
    <3>6. f \in Written BY <1>2, <2>5, <2>6, <3>2 DEF Written, Kinds, left
    <3>7. QED BY <3>1, <3>2, <3>4, <3>5, <3>6
  <2> HIDE DEF f
  <2>27. Wrote(m, sent, f)
    <3>1. Kept(m, sent) BY <2>15, <2>17, KeepsKept, KeptTwice DEF Steady
    <3>2. sent.flow.window = m.flow.window - f.len /\ sent.inFlight = s
      BY <2>7, <2>11, <2>16, <2>26 DEF Holds
    <3>3. ASSUME NEW t \in Slab(sent)
          PROVE  /\ sent.store[t].flow.window = m.store[t].flow.window - (IF t = f.stream THEN f.len ELSE 0)
                 /\ PeerEnded(sent.store[t].state) => PeerEnded(m.store[t].state)
      <4>1. sent.store[t] = k.store[t] /\ t \in Slab(m) BY <2>11, <2>16, <2>17 DEF Holds, Touches
      <4>2. CASE t = s BY <2>5, <2>11, <2>26, <4>1, <4>2
      <4>3. CASE t # s
        <5>1. k.store[t] = m.store[t] BY <2>11, <4>1, <4>3 DEF Touches
        <5>2. m.store[t].flow.window \in Int BY <1>2, <4>1, StreamTyped DEF Streams, Flows
        <5>3. QED BY <2>26, <4>1, <4>3, <5>1, <5>2
      <4>4. QED BY <4>2, <4>3
    <3>4. f.len > 0 => /\ Queued(m.ids, f.stream) /\ f.len <= m.store[f.stream].flow.window
                       /\ Prudent => f.len <= m.flow.window
      <4>1. SUFFICES ASSUME f.len > 0
                     PROVE  /\ Queued(m.ids, s) /\ len <= st.flow.window
                            /\ Prudent => len <= m.flow.window
        BY <2>26
      <4>2. len <= st.flow.window /\ len <= st.flow.available BY <2>5, <2>26, <4>1
      <4>3. Prudent => st.flow.available <= m.flow.window BY <1>2, ConnectionCovers
      <4>4. QED BY <1>2, <2>6, <2>10, <4>2, <4>3
    <3>5. QED BY <1>2, <2>26, <3>1, <3>2, <3>3, <3>4 DEF Wrote
  <2>28. Wrote(m, n, f)
    <3>1. Keeps(sent, n) /\ Calm(sent, n, {}) BY <2>23, <2>25, KeepsTwice
    <3>2. QED BY <2>27, <3>1, WroteBefore
  <2> DEFINE p == Popped(n, f)
  <2>29. p.me = n /\ p.frame = f /\ p = Popped(p.me, p.frame) BY DEF Popped
  <2>30. Sound(n, 0, Left(f.rest)) BY <2>25, <2>26 DEF g
  <2> HIDE DEF p
  <2>31. Pops(m, p) BY <2>26, <2>28, <2>29, <2>30 DEF Pops
  <2>32. QED BY <2>1, <2>31 DEF p, w
<1>7. QED BY <1>5, <1>6

\* A step that has written nothing yet, or the frame it wrote.
Progress(m, p, q) ==
  /\ p \in [me : Locked, frame : Written \cup {NoFrame}]
  /\ p.frame = NoFrame =>
       /\ Sound(p.me, 0, Left(0)) /\ Keeps(m, p.me) /\ Calm(m, p.me, {})
       /\ p.me.inFlight = Nothing /\ p.me.pendingSend = q
  /\ p.frame # NoFrame => Sound(p.me, 0, Left(p.frame.rest)) /\ Wrote(m, p.me, p.frame)

\* A round of pop_frame goes on, or has its frame.
LEMMA PopsProgress ==
  ASSUME NEW m, NEW k, Keeps(m, k), Calm(m, k, {}), NEW p, Pops(k, p)
  PROVE  Progress(m, p, k.pendingSend)
<1>1. p = Popped(p.me, p.frame) BY DEF Pops
<1>2. CASE p.frame = NoFrame
  <2>1. /\ Sound(p.me, 0, Left(0)) /\ Keeps(k, p.me) /\ Calm(k, p.me, {})
        /\ p.me.inFlight = Nothing /\ p.me.pendingSend = k.pendingSend
    BY <1>2 DEF Pops
  <2>2. Keeps(m, p.me) /\ Calm(m, p.me, {}) BY <2>1, KeepsTwice
  <2>3. p.me \in Locked BY <2>1 DEF Sound
  <2>4. p \in [me : Locked, frame : Written \cup {NoFrame}] BY <1>1, <1>2, <2>3 DEF Popped
  <2>5. QED BY <1>2, <2>1, <2>2, <2>4 DEF Progress
<1>3. CASE p.frame # NoFrame
  <2>1. Sound(p.me, 0, Left(p.frame.rest)) /\ Wrote(k, p.me, p.frame) BY <1>3 DEF Pops
  <2>2. Kept(m, k) BY KeepsKept
  <2>3. Wrote(m, p.me, p.frame) BY <2>1, <2>2, WroteAfter
  <2>4. p.me \in Locked /\ p.frame \in Written BY <2>1 DEF Sound, Wrote
  <2>5. p \in [me : Locked, frame : Written \cup {NoFrame}] BY <1>1, <2>4 DEF Popped
  <2>6. QED BY <1>3, <2>1, <2>3, <2>5 DEF Progress
<1>4. QED BY <1>2, <1>3

\* One round of pop_frame.
LEMMA PopNextSound ==
  ASSUME NEW m, NEW acc, Progress(m, acc, acc.me.pendingSend), acc.frame = NoFrame,
         acc.me.pendingSend # <<>>
  PROVE  Progress(m, PopNext(acc, Head(acc.me.pendingSend)), Tail(acc.me.pendingSend))
<1> DEFINE a == acc.me
           s == Head(a.pendingSend)
           n == [a EXCEPT !.pendingSend = Tail(@)]
           w == Queued(n.pendingReset, s)
           p == PopNext(acc, s)
<1>1. Sound(a, 0, Left(0)) /\ Keeps(m, a) /\ Calm(m, a, {}) /\ a.inFlight = Nothing
  BY DEF Progress
<1>2. p = IF n.store[s].pending = <<>> THEN PopEmpty(n, s, w)
          ELSE IF Head(n.store[s].pending).kind = "DATA" THEN PopData(n, s, w)
          ELSE PopOther(n, s, w)
  BY DEF PopNext
<1>3. Left(0) \in Loose BY LeftLoose
<1> HIDE DEF p
<1>4. /\ Sound(n, 0, Left(0)) /\ Steady(a, n) /\ Calm(a, n, {})
      /\ n.inFlight = a.inFlight /\ n.pendingSend = Tail(a.pendingSend)
      /\ s \in Slab(n) /\ Busy(n.store[s])
      /\ ~Queued(n.pendingSend, s) /\ ~Queued(n.pendingOpen, s)
  BY <1>1, <1>3, PopSendSound
<1> HIDE DEF n, s
<1>5. Poppable(n, s) BY <1>1, <1>4 DEF Poppable
<1>6. Pops(n, p)
  <2>1. CASE n.store[s].pending = <<>> BY <1>2, <1>5, <2>1, PopEmptySound
  <2>2. CASE n.store[s].pending # <<>> /\ Head(n.store[s].pending).kind = "DATA"
    BY <1>2, <1>5, <2>2, PopDataSound
  <2>3. CASE n.store[s].pending # <<>> /\ Head(n.store[s].pending).kind # "DATA"
    BY <1>2, <1>5, <2>3, PopOtherSound
  <2>4. QED BY <2>1, <2>2, <2>3
<1>7. Keeps(m, n) /\ Calm(m, n, {}) BY <1>1, <1>4, KeepsTwice DEF Steady
<1>8. Progress(m, p, n.pendingSend) BY <1>6, <1>7, PopsProgress
<1>9. QED BY <1>4, <1>8 DEF p, s

\* pop_frame, for as long as a stream waits to be written.
LEMMA PopFrameSound ==
  ASSUME NEW m, Sound(m, 0, Left(0)), m.inFlight = Nothing
  PROVE  \E q : Progress(m, PopFrame(m), q)
<1> DEFINE q == m.pendingSend
           n == Len(q)
           T == [me : Locked, frame : Written \cup {NoFrame}]
           base == Popped(m, NoFrame)
           W == {p \in (0 .. n) \X T : Progress(m, p[2], After(q, p[1]))}
           Body(h) == [i \in 0 .. n |-> IF i = 0 THEN base ELSE PopNext(h[i - 1], q[i])]
           g == [p \in (1 .. n) \X T |-> PopNext(p[2], q[p[1]])]
<1>1. m \in Locked /\ q \in Seq(Ids) /\ n \in Nat
  BY DEF Sound, Locked
<1>2. <<0, base>> \in W
  <2>1. Keeps(m, m) /\ Calm(m, m, {}) BY <1>1, KeepsNothing DEF Steady
  <2>2. base.me = m /\ base.frame = NoFrame /\ base \in T BY <1>1 DEF Popped
  <2>3. 0 \in 0 .. n /\ q = After(q, 0) BY <1>1, AfterNone
  <2> HIDE DEF base
  <2>4. Progress(m, base, q) BY <2>1, <2>2 DEF Progress
  <2> HIDE DEF T, q
  <2>5. QED BY <2>2, <2>3, <2>4
<1>3. ASSUME NEW k \in 1 .. n, NEW v, <<k - 1, v>> \in W
      PROVE  v \in T /\ <<k, PopNext(v, q[k])>> \in W
  <2>1. v \in T /\ Progress(m, v, After(q, k - 1)) BY <1>3
  <2> DEFINE o == PopNext(v, q[k])
  <2>2. k \in 0 .. n BY <1>1
  <2>3. Progress(m, o, After(q, k))
    <3>1. CASE v.frame # NoFrame
      <4>1. o = v BY <3>1 DEF PopNext
      <4>2. QED BY <2>1, <3>1, <4>1 DEF Progress
    <3>2. CASE v.frame = NoFrame
      <4>1. v.me.pendingSend = After(q, k - 1) BY <2>1, <3>2 DEF Progress
      <4>2. v.me.pendingSend # <<>> /\ Head(v.me.pendingSend) = q[k] /\ Tail(v.me.pendingSend) = After(q, k)
        BY <1>1, <4>1, AfterOne
      <4>3. Progress(m, PopNext(v, Head(v.me.pendingSend)), Tail(v.me.pendingSend))
        BY <2>1, <3>2, <4>1, <4>2, PopNextSound
      <4>4. QED BY <4>2, <4>3
    <3>3. QED BY <3>1, <3>2
  <2> HIDE DEF o
  <2>4. o \in T BY <2>3 DEF Progress
  <2> HIDE DEF T
  <2>5. <<k, o>> \in W BY <2>2, <2>3, <2>4
  <2>6. QED BY <2>1, <2>5 DEF o
<1> HIDE DEF T, base
<1>4. \A k \in 1 .. n : \A v : <<k - 1, v>> \in W => <<k, g[<<k, v>>]>> \in W
  <2> HIDE DEF W
  <2>1. QED BY <1>3
<1> HIDE DEF W, g
<1>5. PICK f : Loops(n, base, g, f) /\ \A k \in 0 .. n : <<k, f[k]>> \in W
  <2>1. CanLoop(n, W, base, g) BY <1>1, <1>2, <1>4 DEF CanLoop
  <2>2. QED BY <2>1, LoopRecursion
<1>6. f = Body(f)
  <2>1. \A k \in 1 .. n : k - 1 \in 0 .. n /\ <<k - 1, f[k - 1]>> \in W BY <1>1, <1>5
  <2>2. \A k \in 1 .. n : f[k - 1] \in T BY <1>3, <2>1
  <2>3. \A k \in 1 .. n : g[<<k, f[k - 1]>>] = PopNext(f[k - 1], q[k]) BY <2>2 DEF g
  <2>4. f = [k \in 0 .. n |-> IF k = 0 THEN base ELSE g[<<k, f[k - 1]>>]] BY <1>5 DEF Loops
  <2>5. \A k \in 0 .. n : k # 0 => k \in 1 .. n BY <1>1
  <2>6. QED BY <2>3, <2>4, <2>5
<1> DEFINE after == CHOOSE h : h = Body(h)
<1>7. after = Body(after)
  <2> HIDE DEF Body
  <2> QED BY <1>6
<1>8. PopFrame(m) = after[n]
  BY DEF PopFrame, Each, base
<1>9. /\ after[0] = base
      /\ \A k \in 1 .. n : after[k] = PopNext(after[k - 1], q[k])
  <2> HIDE DEF after
  <2>1. \A k \in 0 .. n : after[k] = IF k = 0 THEN base ELSE PopNext(after[k - 1], q[k])
    BY <1>7
  <2>2. QED BY <1>1, <2>1
<1> HIDE DEF after
<1>10. <<n, after[n]>> \in W
  <2>1. \A k \in 1 .. n : <<k - 1, after[k - 1]>> \in W => <<k, after[k]>> \in W
    BY <1>3, <1>9
  <2>2. <<0, after[0]>> \in W BY <1>2, <1>9
  <2> HIDE DEF n
  <2>3. QED BY <1>1, <2>1, <2>2, LoopHolds
<1>11. QED BY <1>8, <1>10 DEF W

\* What a poll has written, or that there was nothing to write.
Outcome(m, p) ==
  /\ p.me \in Locked /\ p.frame \in Written \cup {NoFrame}
  /\ p.frame = NoFrame =>
       /\ Sound(p.me, 0, Left(0)) /\ Kept(m, p.me) /\ Calm(m, p.me, {})
       /\ p.me.inFlight = Nothing
  /\ p.frame # NoFrame => Sound(p.me, 0, Left(p.frame.rest)) /\ Wrote(m, p.me, p.frame)

\* A calm step before a poll does not change what the poll may do.
LEMMA OutcomeAfter ==
  ASSUME NEW m, NEW k, NEW p, NEW q, Kept(m, k), Calm(m, k, {}), Progress(k, p, q)
  PROVE  Outcome(m, p)
<1>1. p.me \in Locked /\ p.frame \in Written \cup {NoFrame}  BY DEF Progress
<1>2. CASE p.frame = NoFrame
  <2>1. /\ Sound(p.me, 0, Left(0)) /\ Keeps(k, p.me) /\ Calm(k, p.me, {})
        /\ p.me.inFlight = Nothing
    BY <1>2 DEF Progress
  <2>2. Kept(k, p.me)  BY <2>1, KeepsKept
  <2>3. Kept(m, p.me) /\ Calm(m, p.me, {})
    <3> HIDE DEF Kept, Calm
    <3> QED  BY <2>1, <2>2, KeptTwice
  <2> QED  BY <1>1, <1>2, <2>1, <2>3 DEF Outcome
<1>3. CASE p.frame # NoFrame
  <2>1. Sound(p.me, 0, Left(p.frame.rest)) /\ Wrote(k, p.me, p.frame)  BY <1>3 DEF Progress
  <2>2. Wrote(m, p.me, p.frame)
    <3> HIDE DEF Kept, Calm, Wrote
    <3> QED  BY <2>1, WroteAfter
  <2> QED  BY <1>1, <1>3, <2>1, <2>2 DEF Outcome
<1> QED  BY <1>2, <1>3

\* One poll: the codec's rest is taken back, slots are handed out, and a frame
\* is written if there is one.
LEMMA PolledSound ==
  ASSUME Sound(me, 0, Left(RestOf(codec))), FrameKnown(me, codec), me.failed = {}
  PROVE  Outcome(me, Polled)
<1> DEFINE k1 == ReclaimFrame(me, codec)
           k2 == SchedulePendingOpen(k1)
<1>1. Sound(k1, 0, Left(0)) /\ Kept(me, k1) /\ Calm(me, k1, {}) /\ k1.inFlight = Nothing
  BY ReclaimFrameSound
<1>2. Left(0) \in Loose  BY LeftLoose
<1> HIDE DEF k1
<1>3. /\ Sound(k2, 0, Left(0)) /\ Keeps(k1, k2) /\ Calm(k1, k2, {}) /\ k2.inFlight = k1.inFlight
  BY <1>1, <1>2, SchedulePendingOpenSound
<1> HIDE DEF k2
<1>4. Kept(me, k2) /\ Calm(me, k2, {})  BY <1>1, <1>3, KeepsKept, KeptTwice
<1>5. \E q : Progress(k2, PopFrame(k2), q)  BY <1>1, <1>3, PopFrameSound
<1>6. Outcome(me, PopFrame(k2))  BY <1>4, <1>5, OutcomeAfter
<1> QED  BY <1>6 DEF Polled, k1, k2

-----------------------------------------------------------------------------
(* The frames the connection task reads.                                     *)

\* Only the state of a stream changes.
LEMMA StateSound ==
  ASSUME NEW m, NEW rest \in Loose, Sound(m, 0, rest), NEW s \in Slab(m), Queued(m.ids, s),
         NEW x \in ClientStates, IsSendClosed(x) => IsSendClosed(m.store[s].state),
         IsClosed(m.store[s].state) => IsClosed(x),
         NEW E, PeerEnded(x) => s \in E \/ PeerEnded(m.store[s].state)
  PROVE  LET n == [m EXCEPT !.store[s].state = x]
         IN  Sound(n, 0, rest) /\ Steady(m, n) /\ Calm(m, n, E)
<1> DEFINE w == m.store[s]
           r == [w EXCEPT !.state = x]
           n == Put(m, s, r, m.flow, m.inFlight)
<1>1. /\ m \in Locked /\ Queues(m) /\ w \in Streams /\ StreamFine(w, Held(m, rest, s))
      /\ m.flow \in Flows /\ w.flow \in Flows /\ w.buffered \in Nat /\ w.requested \in Nat
  BY StreamFacts
<1>2. x \in States  BY ClientTyped
<1>3. /\ r \in Streams /\ r.counted = w.counted /\ r.refs = w.refs /\ r.state = x /\ r.flow = w.flow
      /\ r.pending = w.pending /\ r.buffered = w.buffered /\ r.requested = w.requested
  BY <1>1, <1>2 DEF Streams
<1>4. StreamFine(r, Held(m, rest, s))  BY <1>1, <1>3 DEF StreamFine
<1>5. Busy(w) => Busy(r)  BY <1>3 DEF Busy
<1>6. Sound(m, 0, rest) /\ m.flow.available \in Int /\ m.flow.window \in Int /\ w.flow.available \in Int
  BY <1>1 DEF Flows
<1>7. Prudent => m.flow.available >= 0  BY DEF Sound, Balanced
<1>8. Moves(m.flow, m.flow, w.flow, r.flow, 0, 0)  BY <1>3, <1>7 DEF Moves
<1>9. n = [m EXCEPT !.store[s].state = x]  BY <1>1 DEF Put, Locked
<1> HIDE DEF r, n
<1>10. /\ Sound(n, 0, rest) /\ Touches(m, n, s)
       /\ n.store[s] = r /\ n.flow = m.flow /\ n.inFlight = m.inFlight
  <2> DEFINE z == 0
  <2>1. z \in Int /\ z = 0  OBVIOUS
  <2>2. n = Put(m, s, r, m.flow, m.inFlight)  BY DEF n
  <2> HIDE DEF z
  <2>3. Sound(m, z, rest) /\ Moves(m.flow, m.flow, w.flow, r.flow, z, z)  BY <1>8, <2>1
  <2>4. /\ Sound(n, z, rest) /\ Touches(m, n, s)
        /\ n.store[s] = r /\ n.flow = m.flow /\ n.inFlight = m.inFlight
    BY <1>1, <1>3, <1>4, <1>5, <2>1, <2>2, <2>3, PutSound
  <2> QED  BY <2>1, <2>4
<1>11. Steady(m, n) /\ Calm(m, n, E)  BY <1>1, <1>3, <1>10, TouchesSteady
<1> QED  BY <1>9, <1>10, <1>11

\* What a stream may become when its peer starts or ends its answer.
LEMMA AnswerTyped ==
  ASSUME NEW x \in ClientStates, ~PeerEnded(x), ~IsLocalReset(x)
  PROVE  /\ \A eos \in BOOLEAN :
              /\ RecvOpen(x, eos) \in ClientStates
              /\ IsSendClosed(RecvOpen(x, eos)) => IsSendClosed(x)
              /\ PeerEnded(RecvOpen(x, eos)) => eos
         /\ RecvClose(x) \in ClientStates /\ (IsSendClosed(RecvClose(x)) => IsSendClosed(x))
         /\ ~IsClosed(x)
<1>1. CASE \E r \in Peers : x = Open("Streaming", r)
  BY <1>1 DEF ClientStates, RecvOpen, RecvClose, Open, HalfClosedRemote, HalfClosedLocal, Closed, IsSendClosed, IsClosed, Peers, Causes, PeerEnded
<1>2. CASE \E r \in Peers : x = HalfClosedLocal(r)
  BY <1>2 DEF ClientStates, RecvOpen, RecvClose, Open, HalfClosedRemote, HalfClosedLocal, Closed, IsSendClosed, IsClosed, Peers, Causes, PeerEnded
<1>3. x # HalfClosedRemote("Streaming")  BY DEF PeerEnded, HalfClosedRemote
<1>4. \A c \in Causes : x # Closed(c)  BY DEF PeerEnded, Closed, IsClosed
<1> QED  BY <1>1, <1>2, <1>3, <1>4 DEF ClientStates

\* A WINDOW_UPDATE of the connection.
LEMMA ConnectionGrows ==
  ASSUME NEW m, NEW rest \in Loose, Sound(m, 0, rest), NEW inc \in Nat,
         CanIncWindow(m.flow, inc)
  PROVE  LET n == AssignConnectionCapacity([m EXCEPT !.flow = IncWindow(@, inc)], inc)
         IN  /\ Sound(n, 0, rest) /\ Steady(m, n) /\ n.flow.window = m.flow.window + inc
             /\ \A t \in Slab(m) : /\ n.store[t].state = m.store[t].state
                                   /\ n.store[t].flow.window = m.store[t].flow.window
<1> DEFINE F == IncWindow(m.flow, inc)
           k == [m EXCEPT !.flow = F]
           n == AssignConnectionCapacity(k, inc)
<1>1. m \in Locked /\ m.flow \in Flows  BY DEF Sound, Locked
<1>2. /\ F \in Flows /\ F.window = m.flow.window + inc /\ F.available = m.flow.available
      /\ m.flow.window \in Int /\ m.flow.available \in Int
  BY <1>1 DEF Flows, IncWindow, CanIncWindow
<1>3. Prudent => /\ F.available >= 0
                 /\ F.window - F.available - inc = m.flow.window - m.flow.available - 0
  BY <1>2 DEF Sound, Balanced
<1> HIDE DEF F
<1>4. /\ Sound(k, inc, rest) /\ k.flow = F /\ k.store = m.store /\ SameSlots(m, k) /\ k.inFlight = m.inFlight
      /\ k.pendingSend = m.pendingSend /\ k.pendingCapacity = m.pendingCapacity
  <2> DEFINE z == 0
  <2>1. z \in Int /\ z = 0 /\ inc \in Int OBVIOUS
  <2> HIDE DEF z
  <2>2. Prudent => /\ F.available >= 0
                   /\ F.window - F.available - inc = m.flow.window - m.flow.available - z
    BY <1>3, <2>1
  <2>3. Sound(m, z, rest)  BY <2>1
  <2> QED BY <1>2, <2>1, <2>2, <2>3, FlowSound
<1> HIDE DEF k
<1>5. Sound(n, 0, rest) /\ Assigned(k, n)  BY <1>4, AssignConnectionSound
<1>6. n \in Locked /\ k \in Locked  BY <1>4, <1>5 DEF Sound
<1> HIDE DEF n
<1>7. /\ Slab(n) = Slab(m) /\ SameSlots(m, n) /\ n.inFlight = m.inFlight /\ n.flow.window = m.flow.window + inc
      /\ \A t \in Slab(m) : /\ n.store[t] = [m.store[t] EXCEPT !.flow = n.store[t].flow]
                            /\ n.store[t].flow.window = m.store[t].flow.window
  BY <1>2, <1>4, <1>5 DEF Assigned, SameSlots, Slab
<1>8. \A t \in Slab(m) : n.store[t].state = m.store[t].state /\ n.store[t].refs = m.store[t].refs
  <2> TAKE t \in Slab(m)
  <2>1. m.store[t] \in Streams  BY <1>1, StreamTyped
  <2> QED  BY <1>7, <2>1 DEF Streams
<1>9. Steady(m, n)  BY <1>6, <1>7, <1>8 DEF Steady, Keeps, SameSlots
<1> QED  BY <1>5, <1>7, <1>8, <1>9 DEF n, k, F

-----------------------------------------------------------------------------
(* What the variables say of each other.                                     *)

\* The peer has not ended the stream.
MayAnswer(w) == w.peer \in {"silent", "answering"}

\* The codec's frame stays known while nothing is written.
LEMMA CodecStays ==
  ASSUME CodecKnown, codec' = codec, me.nextId \in Nat, me'.nextId \in Nat, me'.nextId >= me.nextId,
         me'.inFlight = me.inFlight \/ (me.inFlight \in Ids /\ me'.inFlight = Dropped)
  PROVE  CodecKnown' /\ InCodec' = InCodec
<1>1. Nothing \notin Ids /\ Ids \subseteq Nat  BY IdsNat
<1>2. InCodec' = InCodec  BY DEF InCodec, Left
<1>3. CASE codec = NoFrame /\ me.inFlight = Nothing  BY <1>1, <1>2, <1>3 DEF CodecKnown
<1>4. CASE codec \in DataFrames /\ me.inFlight \in {codec.stream, Dropped} /\ codec.stream < me.nextId
  <2>1. codec.stream \in Nat  BY <1>1, <1>4 DEF DataFrames
  <2>2. me'.inFlight \in {codec.stream, Dropped}  BY <1>4
  <2>3. codec.stream < me'.nextId  BY <1>4, <2>1
  <2> QED  BY <1>2, <1>4, <2>2, <2>3 DEF CodecKnown
<1> QED  BY <1>3, <1>4 DEF CodecKnown

\* Finitely many handles wait.
LEMMA CardinalityNat ==
  \A s : IsFiniteSet(Waiting(s)) /\ Cardinality(Waiting(s)) \in Nat
<1> TAKE s
<1>1. IsFiniteSet(Handles)  BY SendAssumption
<1>2. Waiting(s) \subseteq Handles  BY DEF Waiting
<1> QED  BY <1>1, <1>2, FS_Subset, FS_CardinalityType

\* A stream some SendRequest waits for has a reference.
LEMMA WaitedFor ==
  ASSUME Referenced, NEW h \in Handles, NEW s \in Slab(me), Waits(h, s), me.store[s].refs \in Int
  PROVE  me.store[s].refs >= (IF Droppable = {} THEN 2 ELSE 1)
<1>1. h \in Waiting(s)  BY DEF Waiting
<1>2. IsFiniteSet(Waiting(s)) /\ Cardinality(Waiting(s)) \in Nat  BY CardinalityNat
<1>3. Cardinality(Waiting(s)) # 0  BY <1>1, <1>2, FS_EmptySet
<1> QED  BY <1>2, <1>3 DEF Referenced

\* Streams that are waited for are kept.
LEMMA RequestStays ==
  ASSUME Referenced, me \in Locked, request' = request, Slab(me') \subseteq Slab(me),
         \A t \in Slab(me) : t \in Slab(me') \/ me.store[t].refs = 0,
         \A t \in Slab(me') : me'.store[t].refs = me.store[t].refs
  PROVE  Referenced'
<1>1. \A s : Waiting(s)' = Waiting(s)  BY DEF Waiting, Waits
<1>2. ASSUME NEW h \in Handles PROVE request'[h] \in Slab(me') \cup {Nothing, Dropped}
  <2>1. CASE request[h] \in {Nothing, Dropped}  BY <2>1
  <2>2. CASE request[h] \in Slab(me)
    <3>1. me.store[request[h]].refs \in Int  BY <2>2, StreamTyped DEF Streams
    <3>2. me.store[request[h]].refs # 0  BY <2>2, <3>1, WaitedFor DEF Waits
    <3> QED  BY <2>2, <3>2
  <2> QED  BY <2>1, <2>2 DEF Referenced
<1>3. ASSUME NEW s \in Slab(me')
      PROVE  me'.store[s].refs >= Cardinality(Waiting(s)') + (IF Droppable = {} THEN 1 ELSE 0)
  BY <1>1 DEF Referenced
<1> QED  BY <1>2, <1>3 DEF Referenced, Slab

\* The peer's view stays right if no stream ends behind its back.
LEMMA PeerStays ==
  ASSUME PeerView, done => done', Slab(me') \subseteq Slab(me), NEW E,
         \A t \in Slab(me') :
           PeerEnded(me'.store[t].state) => t \in E \/ PeerEnded(me.store[t].state),
         ~done' => \A t \in Slab(me') : MayAnswer(wire'[t]) => MayAnswer(wire[t]) /\ t \notin E
  PROVE  PeerView'
<1> SUFFICES ASSUME ~done', NEW t \in Slab(me'), MayAnswer(wire'[t])
             PROVE  ~PeerEnded(me'.store[t].state)
  BY DEF PeerView, MayAnswer, Slab
<1>1. MayAnswer(wire[t]) /\ t \notin E /\ t \in Slab(me) /\ ~done  OBVIOUS
<1>2. ~PeerEnded(me.store[t].state)  BY <1>1 DEF PeerView, MayAnswer
<1> QED  BY <1>1, <1>2

\* Nothing written, nothing counted.
LEMMA BytesStay ==
  ASSUME \A t \in Ids : wire'[t].bytes = wire[t].bytes
  PROVE  BytesWritten' = BytesWritten
<1>1. [t \in Ids |-> wire'[t].bytes] = [t \in Ids |-> wire[t].bytes]  OBVIOUS
<1> QED  BY <1>1 DEF BytesWritten

\* The arithmetic of the connection's window.
LEMMA ConnectionGrants ==
  ASSUME BytesWritten \in Int, granted.conn \in Int, granted'.conn \in Int,
         me.flow.window \in Int, me'.flow.window \in Int,
         me'.flow.window - me.flow.window = granted'.conn - granted.conn,
         me.flow.window = granted.conn - BytesWritten
  PROVE  me'.flow.window = granted'.conn - BytesWritten
OBVIOUS

\* Nothing is written, and windows grow by no more than the peer grants.
LEMMA GrantsStay ==
  ASSUME InGrants, me \in Locked, me' \in Locked, wire \in [Ids -> Marks],
         BytesWritten \in Int, granted.conn \in Int, granted'.conn \in Int,
         granted.stream \in [Ids -> Int], granted'.stream \in [Ids -> Int],
         \A t \in Ids : wire'[t].bytes = wire[t].bytes,
         me'.flow.window - me.flow.window = granted'.conn - granted.conn,
         Slab(me') \subseteq Slab(me),
         \A t \in Slab(me') : Queued(me'.ids, t) =>
           /\ Queued(me.ids, t)
           /\ me'.store[t].flow.window - me.store[t].flow.window <= granted'.stream[t] - granted.stream[t],
         \A t \in Ids : t >= me'.nextId => t >= me.nextId /\ wire'[t] = wire[t]
  PROVE  InGrants'
<1>1. BytesWritten' = BytesWritten  BY BytesStay
<1>2. me.flow.window \in Int /\ me'.flow.window \in Int  BY DEF Locked, Flows
<1>3. me'.flow.window = granted'.conn - BytesWritten'
  <2>1. me.flow.window = granted.conn - BytesWritten  BY DEF InGrants
  <2>2. me'.flow.window = granted'.conn - BytesWritten  BY <1>2, <2>1, ConnectionGrants
  <2> QED  BY <1>1, <2>2
<1>4. ASSUME NEW t \in Slab(me'), Queued(me'.ids, t)
      PROVE  me'.store[t].flow.window <= granted'.stream[t] - wire'[t].bytes
  <2>1. t \in Slab(me) /\ t \in Ids  BY StreamTyped
  <2>2. me.store[t].flow.window \in Int /\ me'.store[t].flow.window \in Int
    BY <2>1, StreamTyped DEF Streams, Flows
  <2>3. wire[t].bytes \in Int /\ wire'[t].bytes = wire[t].bytes  BY <2>1 DEF Marks
  <2>4. me.store[t].flow.window <= granted.stream[t] - wire[t].bytes  BY <1>4, <2>1 DEF InGrants
  <2>5. granted.stream[t] \in Int /\ granted'.stream[t] \in Int  BY <2>1
  <2>6. me'.store[t].flow.window - me.store[t].flow.window <= granted'.stream[t] - granted.stream[t]
    BY <1>4
  <2> QED  BY <2>2, <2>3, <2>4, <2>5, <2>6
<1>5. \A t \in Ids : t >= me'.nextId => wire'[t].bytes = 0 /\ wire'[t].peer = "silent"
  BY DEF InGrants
<1> QED  BY <1>3, <1>4, <1>5 DEF InGrants, Slab

\* Facts every step starts from.
LEMMA Facts ==
  ASSUME IInv
  PROVE  /\ Sound(me, 0, InCodec) /\ InCodec \in Loose /\ \A t \in Ids : InCodec.new[t] = 0
         /\ InCodec = Left(RestOf(codec)) /\ FrameKnown(me, codec)
         /\ me \in Locked /\ me.nextId \in Nat /\ \A t \in Slab(me) : t \in Ids /\ t < me.nextId
         /\ wire \in [Ids -> Marks] /\ BytesWritten \in Int
         /\ granted.conn \in Int /\ granted.stream \in [Ids -> Int]
         /\ codec = NoFrame \/ codec.rest \in Nat
<1>1. Sound(me, 0, InCodec) /\ CodecKnown /\ Histories  BY DEF IInv
<1>2. codec = NoFrame \/ codec.rest \in Nat
  BY <1>1, SendAssumption DEF CodecKnown, DataFrames
<1>3. InCodec = Left(RestOf(codec)) /\ RestOf(codec) \in Nat  BY <1>2 DEF InCodec, RestOf
<1>4. InCodec \in Loose /\ \A t \in Ids : InCodec.new[t] = 0  BY <1>3, LeftLoose
<1>5. FrameKnown(me, codec)  BY <1>1 DEF CodecKnown, FrameKnown
<1>6. me \in Locked /\ Queues(me)  BY <1>1 DEF Sound
<1>7. me.nextId \in Nat /\ \A t \in Slab(me) : t \in Ids /\ t < me.nextId
  BY <1>6, StreamTyped DEF Locked, Queues
<1>8. wire \in [Ids -> Marks] /\ granted.conn \in Int /\ granted.stream \in [Ids -> Int]
  BY <1>1 DEF Histories
<1>9. BytesWritten \in Int
  <2> DEFINE a == [t \in Ids |-> wire[t].bytes]
  <2>1. IsFiniteSet(Ids)  BY IdsNat
  <2>2. \A t \in Ids : a[t] \in Int  BY <1>8 DEF Marks
  <2>3. IsSummable(a)
    <3>1. DOMAIN a = Ids  OBVIOUS
    <3> HIDE DEF a
    <3> QED  BY <2>1, <2>2, <3>1 DEF IsSummable
  <2> QED  BY <2>3, SumIsInt DEF BytesWritten
<1> QED  BY <1>1, <1>2, <1>3, <1>4, <1>5, <1>6, <1>7, <1>8, <1>9

\* No stream comes.
Shrinks(m, n) ==
  /\ n \in Locked /\ Slab(n) \subseteq Slab(m) /\ n.nextId = m.nextId
  /\ \A t \in Slab(n) : Queued(n.ids, t) => Queued(m.ids, t)
  /\ n.inFlight = m.inFlight \/ (m.inFlight \in Ids /\ n.inFlight = Dropped)

\* Nothing is written, and the peer, if it says something, ends the streams in E.
Hears(E) ==
  /\ codec' = codec /\ (done => done')
  /\ \A t \in Ids : /\ wire'[t].bytes = wire[t].bytes
                    /\ t \notin Slab(me) => wire'[t] = wire[t]
  /\ ~done' => \A t \in Slab(me') : MayAnswer(wire'[t]) => MayAnswer(wire[t]) /\ t \notin E

\* Windows grow by no more than the peer grants.
Grants ==
  /\ me'.flow.window - me.flow.window = granted'.conn - granted.conn
  /\ \A t \in Slab(me') : Queued(me'.ids, t) =>
       me'.store[t].flow.window - me.store[t].flow.window <= granted'.stream[t] - granted.stream[t]

\* Only the streams in E are ended by the peer.
Ends(m, n, E) ==
  \A t \in Slab(n) : PeerEnded(n.store[t].state) => t \in E \/ PeerEnded(m.store[t].state)

\* A step that writes nothing keeps the inductive invariant if it keeps what
\* the windows and the peer depend on.
LEMMA StepStays ==
  ASSUME IInv, Sound(me', 0, InCodec), Shrinks(me, me'), Histories', Referenced',
         NEW E, Hears(E), Ends(me, me', E), Grants
  PROVE  IInv'
<1>1. /\ me \in Locked /\ me.nextId \in Nat /\ \A t \in Slab(me) : t \in Ids /\ t < me.nextId
      /\ wire \in [Ids -> Marks] /\ BytesWritten \in Int
      /\ granted.conn \in Int /\ granted.stream \in [Ids -> Int]
  BY Facts
<1>2. /\ me' \in Locked /\ Slab(me') \subseteq Slab(me) /\ me'.nextId = me.nextId
      /\ \A t \in Slab(me') : Queued(me'.ids, t) => Queued(me.ids, t)
      /\ me'.inFlight = me.inFlight \/ (me.inFlight \in Ids /\ me'.inFlight = Dropped)
  BY DEF Shrinks
<1>3. /\ codec' = codec /\ (done => done')
      /\ \A t \in Ids : /\ wire'[t].bytes = wire[t].bytes
                        /\ t \notin Slab(me) => wire'[t] = wire[t]
      /\ ~done' => \A t \in Slab(me') : MayAnswer(wire'[t]) => MayAnswer(wire[t]) /\ t \notin E
  BY DEF Hears
<1>4. CodecKnown' /\ InCodec' = InCodec
  <2>1. CodecKnown /\ me'.nextId \in Nat /\ me'.nextId >= me.nextId  BY <1>1, <1>2 DEF IInv
  <2> QED  BY <1>1, <1>2, <1>3, <2>1, CodecStays
<1>5. PeerView'
  <2>1. PeerView  BY DEF IInv
  <2>2. \A t \in Slab(me') :
          PeerEnded(me'.store[t].state) => t \in E \/ PeerEnded(me.store[t].state)
    BY DEF Ends
  <2> QED  BY <1>2, <1>3, <2>1, <2>2, PeerStays
<1>6. InGrants'
  <2>1. InGrants  BY DEF IInv
  <2>2. granted'.conn \in Int /\ granted'.stream \in [Ids -> Int]  BY DEF Histories
  <2>3. \A t \in Ids : t >= me'.nextId => t >= me.nextId /\ wire'[t] = wire[t]
    <3> SUFFICES ASSUME NEW t \in Ids, t >= me.nextId PROVE wire'[t] = wire[t]
      BY <1>2
    <3>1. t \in Nat  BY IdsNat
    <3>2. t \notin Slab(me)  BY <1>1, <3>1
    <3> QED  BY <1>3, <3>2
  <2>4. me'.flow.window - me.flow.window = granted'.conn - granted.conn  BY DEF Grants
  <2>5. \A t \in Slab(me') : Queued(me'.ids, t) =>
          /\ Queued(me.ids, t)
          /\ me'.store[t].flow.window - me.store[t].flow.window <= granted'.stream[t] - granted.stream[t]
    BY <1>2 DEF Grants
  <2>6. \A t \in Ids : wire'[t].bytes = wire[t].bytes  BY <1>3
  <2> QED  BY <1>1, <1>2, <2>1, <2>2, <2>3, <2>4, <2>5, <2>6, GrantsStay
<1>7. Sound(me', 0, InCodec')  BY <1>4
<1> QED  BY <1>4, <1>5, <1>6, <1>7 DEF IInv

\* A calm step needs no grant.
LEMMA CalmGrants ==
  ASSUME me \in Locked, me' \in Locked, Slab(me') \subseteq Slab(me), NEW E, Calm(me, me', E),
         granted.conn \in Int, granted.stream \in [Ids -> Int],
         granted'.conn = granted.conn, granted'.stream = granted.stream
  PROVE  Grants /\ Ends(me, me', E)
<1>1. me.flow.window \in Int /\ me'.flow.window = me.flow.window  BY DEF Locked, Flows, Calm
<1>2. ASSUME NEW t \in Slab(me')
      PROVE  me'.store[t].flow.window - me.store[t].flow.window <= granted'.stream[t] - granted.stream[t]
  <2>1. me.store[t] \in Streams /\ t \in Ids  BY StreamTyped
  <2>2. me.store[t].flow.window \in Int /\ me'.store[t].flow.window = me.store[t].flow.window
    BY <2>1 DEF Streams, Flows, Calm
  <2>3. granted.stream[t] \in Int  BY <2>1
  <2> QED  BY <2>2, <2>3
<1>3. Ends(me, me', E)  BY DEF Ends, Calm
<1> QED  BY <1>1, <1>2, <1>3 DEF Grants

\* A calm step keeps the inductive invariant.
LEMMA CalmStays ==
  ASSUME IInv, Sound(me', 0, InCodec), Shrinks(me, me'), Histories', Referenced',
         NEW E, Hears(E), Calm(me, me', E),
         granted'.conn = granted.conn, granted'.stream = granted.stream
  PROVE  IInv'
<1>1. me \in Locked /\ granted.conn \in Int /\ granted.stream \in [Ids -> Int]  BY Facts
<1>2. me' \in Locked /\ Slab(me') \subseteq Slab(me)  BY DEF Shrinks
<1>3. Grants /\ Ends(me, me', E)  BY <1>1, <1>2, CalmGrants
<1> QED  BY <1>3, StepStays

\* No stream comes if streams are kept.
LEMMA KeepsShrinks ==
  ASSUME NEW m, NEW n, Keeps(m, n)
  PROVE  Shrinks(m, n)
BY DEF Keeps, Shrinks

\* Kept streams keep what refers to them.
LEMMA KeepsReferenced ==
  ASSUME Referenced, me \in Locked, Keeps(me, me'), request' = request
  PROVE  Referenced'
BY RequestStays DEF Keeps

\* A step of the application or of the connection that lets streams go on as
\* they are, or ends those in E.
LEMMA KeepsStays ==
  ASSUME IInv, Sound(me', 0, InCodec), Keeps(me, me'), Histories', request' = request,
         NEW E, Hears(E), Calm(me, me', E),
         granted'.conn = granted.conn, granted'.stream = granted.stream
  PROVE  IInv'
<1>1. Referenced /\ me \in Locked  BY Facts DEF IInv
<1>2. Referenced'  BY <1>1, KeepsReferenced
<1>3. Shrinks(me, me')  BY KeepsShrinks
<1> QED  BY <1>2, <1>3, CalmStays

-----------------------------------------------------------------------------
(* Every step keeps the inductive invariant.                                 *)

\* A call of the application on one stream.
LEMMA CallStays ==
  ASSUME IInv, NEW n, me' = n, Sound(n, 0, InCodec), Keeps(me, n), Calm(me, n, {}),
         UNCHANGED <<codec, request, done, wire, granted>>, accepted' \in [Ids -> 0 .. MaxData]
  PROVE  IInv'
<1>1. Histories'  BY DEF IInv, Histories
<1>2. Hears({})  BY DEF Hears
<1> QED  BY <1>1, <1>2, KeepsStays

\* What was taken of the application is bounded.
LEMMA AcceptedTyped ==
  ASSUME IInv
  PROVE  accepted \in [Ids -> 0 .. MaxData]
BY DEF IInv, Histories

\* send_data keeps the inductive invariant.
LEMMA SendDataStays ==
  ASSUME IInv, NEW s \in Ids, NEW sz \in DataSizes, NEW eos \in BOOLEAN, SendData(s, sz, eos)
  PROVE  IInv'
<1> DEFINE k == PrioritizeData(me, s, sz, eos)
           n == TransitionAfter(k, s, Queued(me.pendingReset, s))
<1>1. /\ s \in Slab(me) /\ IsSendStreaming(me.store[s].state) /\ accepted[s] + sz <= MaxData
      /\ me' = n /\ accepted' = [accepted EXCEPT ![s] = @ + sz]
      /\ UNCHANGED <<codec, request, done, wire, granted>>
  BY DEF SendData, UserHolds, Transition
<1>2. Sound(me, 0, InCodec) /\ InCodec \in Loose /\ InCodec.new[s] = 0 /\ me \in Locked
  BY Facts
<1>3. sz \in Nat /\ MaxData \in Nat  BY SendAssumption
<1>4. accepted \in [Ids -> 0 .. MaxData]  BY AcceptedTyped
<1>5. accepted[s] \in Nat  BY <1>3, <1>4
<1>6. sz <= MaxData  BY <1>1, <1>3, <1>5
<1>7. Sound(k, 0, InCodec) /\ Steady(me, k) /\ Calm(me, k, {})
  BY <1>1, <1>2, <1>6, PrioritizeDataSound
<1> HIDE DEF k
<1>8. Sound(n, 0, InCodec) /\ Keeps(me, n) /\ Calm(me, n, {})
  BY <1>1, <1>2, <1>7, SteadyEnds
<1>9. accepted' \in [Ids -> 0 .. MaxData]  BY <1>1, <1>3, <1>4, <1>5
<1> HIDE DEF n
<1> QED  BY <1>1, <1>8, <1>9, CallStays

\* send_trailers keeps the inductive invariant.
LEMMA SendTrailersStays ==
  ASSUME IInv, NEW s \in Ids, SendTrailers(s)
  PROVE  IInv'
<1> DEFINE k == ReserveCapacity(
                  QueueFrame([me EXCEPT !.store[s].state = SendClose(@)], s,
                             Frame("TRAILERS", 0, TRUE)), s, 0)
           n == TransitionAfter(k, s, Queued(me.pendingReset, s))
<1>1. /\ s \in Slab(me) /\ IsSendStreaming(me.store[s].state) /\ me' = n
      /\ UNCHANGED <<codec, request, done, wire, granted, accepted>>
  BY DEF SendTrailers, UserHolds, Transition
<1>2. Sound(me, 0, InCodec) /\ InCodec \in Loose /\ me \in Locked  BY Facts
<1>3. Sound(k, 0, InCodec) /\ Steady(me, k) /\ Calm(me, k, {})
  BY <1>1, <1>2, TrailersSound
<1> HIDE DEF k
<1>4. Sound(n, 0, InCodec) /\ Keeps(me, n) /\ Calm(me, n, {})
  BY <1>1, <1>2, <1>3, SteadyEnds
<1> HIDE DEF n
<1> QED  BY <1>1, <1>4, CallStays, AcceptedTyped

\* reserve_capacity keeps the inductive invariant.
LEMMA ReserveStays ==
  ASSUME IInv, NEW s \in Ids, NEW extra \in ReserveSizes, Reserve(s, extra)
  PROVE  IInv'
<1> DEFINE n == ReserveCapacity(me, s, extra)
<1>1. s \in Slab(me) /\ me' = n /\ UNCHANGED <<codec, request, done, wire, granted, accepted>>
  BY DEF Reserve, UserHolds
<1>2. Sound(me, 0, InCodec) /\ InCodec \in Loose  BY Facts
<1>3. Sound(n, 0, InCodec) /\ Steady(me, n) /\ Calm(me, n, {})  BY <1>1, <1>2, ReserveSound
<1>4. Keeps(me, n)  BY <1>3 DEF Steady
<1> HIDE DEF n
<1> QED  BY <1>1, <1>3, <1>4, CallStays, AcceptedTyped

\* send_reset by the application keeps the inductive invariant.
LEMMA ResetByUserStays ==
  ASSUME IInv, NEW s \in Ids, ResetByUser(s)
  PROVE  IInv'
<1> DEFINE n == ActionsSendReset(me, s)
<1>1. s \in Slab(me) /\ me' = n /\ UNCHANGED <<codec, request, done, wire, granted, accepted>>
  BY DEF ResetByUser, UserHolds
<1>2. Sound(me, 0, InCodec) /\ InCodec \in Loose /\ InCodec.new[s] = 0  BY Facts
<1>3. Sound(n, 0, InCodec) /\ Keeps(me, n) /\ Calm(me, n, {})
  BY <1>1, <1>2, ActionsSendResetSound
<1> HIDE DEF n
<1> QED  BY <1>1, <1>3, CallStays, AcceptedTyped

\* A reference to s is given up: by the application, or by what waited for it.
LEMMA ReleasesReferenced ==
  ASSUME Referenced, me \in Locked, request \in [Handles -> Ids \cup {Nothing, Dropped}],
         NEW s \in Slab(me), Releases(me, me', s), Queues(me),
         \/ request' = request /\ me.store[s].refs > Cardinality(Waiting(s)) /\ Droppable # {}
         \/ \E h \in Handles, x \in {Nothing, Dropped} :
              request[h] = s /\ request' = [request EXCEPT ![h] = x]
  PROVE  Referenced'
<1>1. /\ Slab(me') \subseteq Slab(me)
      /\ \A t \in Slab(me) : t \in Slab(me') \/ me.store[t].refs = (IF t = s THEN 1 ELSE 0)
      /\ \A t \in Slab(me') : me'.store[t].refs = me.store[t].refs - (IF t = s THEN 1 ELSE 0)
  BY DEF Releases
<1>2. \A t \in Slab(me) : me.store[t].refs \in Int /\ t \in Ids  BY StreamTyped DEF Streams
<1>3. Nothing \notin Ids /\ Dropped \notin Ids  BY IdsNat
<1>4. \A t : IsFiniteSet(Waiting(t)) /\ Cardinality(Waiting(t)) \in Nat  BY CardinalityNat
<1>5. \A t \in Slab(me) :
        me.store[t].refs >= Cardinality(Waiting(t)) + (IF Droppable = {} THEN 1 ELSE 0)
  BY DEF Referenced
<1>6. \A h \in Handles : request[h] \in Slab(me) \cup {Nothing, Dropped}  BY DEF Referenced
<1>7. CASE request' = request /\ me.store[s].refs > Cardinality(Waiting(s)) /\ Droppable # {}
  <2>1. \A t : Waiting(t)' = Waiting(t)  BY <1>7 DEF Waiting, Waits
  <2>2. ASSUME NEW h \in Handles, request[h] \in Slab(me) PROVE request[h] \in Slab(me')
    <3>1. me.store[request[h]].refs >= 1  BY <1>2, <2>2, WaitedFor DEF Waits
    <3>2. request[h] = s => Cardinality(Waiting(s)) # 0
      <4> SUFFICES ASSUME request[h] = s PROVE Cardinality(Waiting(s)) # 0
        OBVIOUS
      <4>1. h \in Waiting(s)  BY DEF Waiting, Waits
      <4> QED  BY <4>1, <1>4, FS_EmptySet
    <3>3. request[h] = s => me.store[s].refs > 1  BY <3>2, <1>2, <1>4, <1>7
    <3> QED  BY <1>1, <1>2, <2>2, <3>1, <3>3
  <2>3. ASSUME NEW t \in Slab(me')
        PROVE  me'.store[t].refs >= Cardinality(Waiting(t)') + (IF Droppable = {} THEN 1 ELSE 0)
    <3>1. t \in Slab(me) /\ me.store[t].refs \in Int  BY <1>1, <1>2
    <3>2. Cardinality(Waiting(t)) \in Nat  BY <1>4
    <3>3. CASE t = s  BY <1>1, <1>7, <2>1, <3>1, <3>2, <3>3
    <3>4. CASE t # s
      <4>1. me'.store[t].refs = me.store[t].refs  BY <1>1, <3>1, <3>4
      <4> QED  BY <1>5, <2>1, <3>1, <4>1
    <3> QED  BY <3>3, <3>4
  <2> QED  BY <1>6, <1>7, <2>2, <2>3 DEF Referenced, Slab
<1>8. ASSUME NEW h \in Handles, NEW x \in {Nothing, Dropped},
             request[h] = s, request' = [request EXCEPT ![h] = x]
      PROVE  Referenced'
  <2>1. \A g \in Handles : request'[g] = IF g = h THEN x ELSE request[g]  BY <1>8
  <2>2. \A t \in Ids : Waiting(t)' = Waiting(t) \ (IF t = s THEN {h} ELSE {})
    BY <1>3, <1>8, <2>1 DEF Waiting, Waits
  <2>3. h \in Waiting(s)  BY <1>8 DEF Waiting, Waits
  <2>4. Cardinality(Waiting(s) \ {h}) = Cardinality(Waiting(s)) - 1
    BY <1>4, <2>3, FS_RemoveElement
  <2>5. ASSUME NEW g \in Handles, g # h, request[g] \in Slab(me) PROVE request[g] \in Slab(me')
    <3>1. me.store[request[g]].refs >= 1  BY <1>2, <2>5, WaitedFor DEF Waits
    <3>2. CASE request[g] = s
      <4>1. g \in Waiting(s) \ {h}  BY <2>5, <3>2 DEF Waiting, Waits
      <4>2. IsFiniteSet(Waiting(s) \ {h})  BY <1>4, FS_Subset
      <4>3. Cardinality(Waiting(s) \ {h}) # 0  BY <4>1, <4>2, FS_EmptySet
      <4>4. Cardinality(Waiting(s) \ {h}) \in Nat  BY <4>2, FS_CardinalityType
      <4>5. me.store[s].refs >= 2  BY <1>2, <1>4, <1>5, <2>4, <4>3, <4>4
      <4> QED  BY <1>1, <1>2, <3>2, <4>5
    <3>3. CASE request[g] # s  BY <1>1, <2>5, <3>1, <3>3
    <3> QED  BY <3>2, <3>3
  <2>6. ASSUME NEW t \in Slab(me')
        PROVE  me'.store[t].refs >= Cardinality(Waiting(t)') + (IF Droppable = {} THEN 1 ELSE 0)
    <3>1. t \in Slab(me) /\ t \in Ids /\ me.store[t].refs \in Int  BY <1>1, <1>2
    <3>2. Cardinality(Waiting(t)) \in Nat  BY <1>4
    <3>3. CASE t = s
      <4>1. Waiting(s)' = Waiting(s) \ {h}  BY <2>2, <3>1, <3>3
      <4>2. me'.store[s].refs = me.store[s].refs - 1  BY <1>1, <3>3
      <4>3. me.store[s].refs >= Cardinality(Waiting(s)) + (IF Droppable = {} THEN 1 ELSE 0)  BY <1>5
      <4>4. Cardinality(Waiting(s)') = Cardinality(Waiting(s)) - 1  BY <2>4, <4>1
      <4> QED  BY <3>1, <3>2, <3>3, <4>2, <4>3, <4>4
    <3>4. CASE t # s
      <4>1. me'.store[t].refs = me.store[t].refs  BY <1>1, <3>1, <3>4
      <4>2. Waiting(t)' = Waiting(t)  BY <2>2, <3>1, <3>4
      <4> QED  BY <1>5, <3>1, <4>1, <4>2
    <3> QED  BY <3>3, <3>4
  <2> QED  BY <1>6, <2>1, <2>5, <2>6 DEF Referenced, Slab
<1> QED  BY <1>7, <1>8

\* No stream comes when a reference goes.
LEMMA ReleasesShrinks ==
  ASSUME NEW m, NEW n, NEW s, Releases(m, n, s)
  PROVE  Shrinks(m, n)
BY DEF Releases, Shrinks

\* A reference to s is given up, and s is reset if it was the last one.
LEMMA ReleaseStays ==
  ASSUME IInv, NEW s \in Slab(me), me' = DropStreamRef(me, s),
         UNCHANGED <<codec, done, wire, granted, accepted>>,
         \/ request' = request /\ me.store[s].refs > Cardinality(Waiting(s)) /\ Droppable # {}
         \/ \E h \in Handles, x \in {Nothing, Dropped} :
              request[h] = s /\ request' = [request EXCEPT ![h] = x]
  PROVE  IInv'
<1> DEFINE n == DropStreamRef(me, s)
<1>1. Sound(me, 0, InCodec) /\ InCodec \in Loose /\ me \in Locked  BY Facts
<1>2. Referenced /\ Histories /\ Queues(me)  BY DEF IInv, Sound
<1>3. me.store[s].refs \in Int  BY <1>1, StreamTyped DEF Streams
<1>4. Prudent => ReserveSizes = {} \/ me.store[s].refs # 1
  <2> SUFFICES ASSUME Droppable = {} PROVE me.store[s].refs # 1
    BY DEF Prudent
  <2>1. PICK h \in Handles : request[h] = s  OBVIOUS
  <2>2. me.store[s].refs >= 2  BY <1>2, <1>3, <2>1, WaitedFor DEF Waits
  <2> QED  BY <1>3, <2>2
<1>5. Sound(n, 0, InCodec) /\ Releases(me, n, s) /\ Calm(me, n, {})
  BY <1>1, <1>4, DropStreamRefSound
<1>6. me' = n  OBVIOUS
<1> HIDE DEF n
<1>7. request \in [Handles -> Ids \cup {Nothing, Dropped}]  BY <1>2 DEF Histories
<1>8. Releases(me, me', s)  BY <1>5, <1>6
<1>9. Referenced'  BY <1>1, <1>2, <1>7, <1>8, ReleasesReferenced
<1>10. request' \in [Handles -> Ids \cup {Nothing, Dropped}]
  <2>1. CASE request' = request  BY <1>7, <2>1
  <2>2. ASSUME NEW h \in Handles, NEW x \in {Nothing, Dropped}, request' = [request EXCEPT ![h] = x]
        PROVE  request' \in [Handles -> Ids \cup {Nothing, Dropped}]
    BY <1>7, <2>2
  <2> QED  BY <2>1, <2>2
<1>11. Histories'  BY <1>2, <1>10 DEF Histories
<1>12. Hears({})  BY DEF Hears
<1>13. Shrinks(me, me')  BY <1>8, ReleasesShrinks
<1>14. Sound(me', 0, InCodec) /\ Calm(me, me', {})  BY <1>5, <1>6
<1> QED  BY <1>9, <1>11, <1>12, <1>13, <1>14, CalmStays

\* Dropping a handle keeps the inductive invariant.
LEMMA DropHandleStays ==
  ASSUME IInv, NEW s \in Ids, DropHandle(s)
  PROVE  IInv'
<1>1. /\ s \in Slab(me) /\ me.store[s].refs > Cardinality(Waiting(s)) /\ Droppable # {}
      /\ me' = DropStreamRef(me, s)
      /\ UNCHANGED <<codec, request, done, wire, granted, accepted>>
  BY DEF DropHandle, UserHolds, Waiting
<1> QED  BY <1>1, ReleaseStays

\* poll_ready of a SendRequest keeps the inductive invariant.
LEMMA PollReadyStays ==
  ASSUME IInv, NEW h \in Handles, PollReady(h)
  PROVE  IInv'
<1>1. /\ request[h] \in Ids /\ me' = DropStreamRef(me, request[h])
      /\ request' = [request EXCEPT ![h] = Nothing]
      /\ UNCHANGED <<codec, done, wire, granted, accepted>>
  BY DEF PollReady
<1>2. request[h] \in Slab(me)
  BY <1>1, IdsNat DEF IInv, Referenced
<1> QED  BY <1>1, <1>2, ReleaseStays

\* Dropping a SendRequest keeps the inductive invariant.
LEMMA DropSendRequestStays ==
  ASSUME IInv, NEW h \in Handles, DropSendRequest(h)
  PROVE  IInv'
<1>1. /\ me' = IF request[h] \in Ids THEN DropStreamRef(me, request[h]) ELSE me
      /\ request' = [request EXCEPT ![h] = Dropped]
      /\ UNCHANGED <<codec, done, wire, granted, accepted>>
  BY DEF DropSendRequest
<1>2. CASE request[h] \in Ids
  <2>1. request[h] \in Slab(me)
    BY <1>2, IdsNat DEF IInv, Referenced
  <2> QED  BY <1>1, <1>2, <2>1, ReleaseStays
<1>3. CASE request[h] \notin Ids
  <2>1. me' = me  BY <1>1, <1>3
  <2>2. Sound(me, 0, InCodec) /\ me \in Locked /\ Histories /\ Referenced  BY Facts DEF IInv
  <2>3. Keeps(me, me) /\ Calm(me, me, {})  BY <2>2, KeepsNothing DEF Steady
  <2>4. Histories'  BY <1>1, <2>2 DEF Histories
  <2>5. Hears({})  BY <1>1 DEF Hears
  <2>6. Shrinks(me, me)  BY <2>3, KeepsShrinks
  <2>7. \A s \in Slab(me) : Waiting(s)' = Waiting(s)
    <3>1. \A s \in Slab(me) : s \in Ids /\ s # Dropped  BY <2>2, StreamTyped, IdsNat
    <3> QED  BY <1>1, <1>3, <2>2, <3>1 DEF Waiting, Waits, Histories
  <2>8. Referenced'
    BY <1>1, <2>1, <2>2, <2>7 DEF Referenced, Slab, Histories
  <2> QED  BY <1>1, <2>1, <2>2, <2>3, <2>4, <2>5, <2>6, <2>8, CalmStays
<1> QED  BY <1>2, <1>3

\* n is m with a new stream s, and one reference to t0 fewer.
Begins(m, n, s, c, t0) ==
  /\ n \in Locked /\ Slab(n) \subseteq Slab(m) \cup {s} /\ s \in Slab(n) /\ s \notin Slab(m)
  /\ n.nextId = s + 1 /\ n.flow.window = m.flow.window
  /\ n.store[s].refs = c /\ n.store[s].flow.window = m.initWindow /\ ~PeerEnded(n.store[s].state)
  /\ \A t \in Slab(m) : t \in Slab(n) \/ m.store[t].refs = (IF t = t0 THEN 1 ELSE 0)
  /\ \A t \in Slab(n) \ {s} :
       /\ n.store[t].refs = m.store[t].refs - (IF t = t0 THEN 1 ELSE 0)
       /\ n.store[t].flow.window = m.store[t].flow.window
       /\ PeerEnded(n.store[t].state) => PeerEnded(m.store[t].state)
       /\ Queued(n.ids, t) => Queued(m.ids, t)
  /\ n.inFlight = m.inFlight \/ (m.inFlight \in Ids /\ n.inFlight = Dropped)

\* Opening a stream begins it.
LEMMA OpensBegins ==
  ASSUME NEW m \in Locked, NEW n, NEW s, NEW c, Opens(m, n, s, c)
  PROVE  Begins(m, n, s, c, Nothing)
<1>1. \A t \in Slab(m) : t # Nothing /\ m.store[t].refs \in Int  BY StreamTyped, IdsNat DEF Streams
<1> QED  BY <1>1 DEF Opens, Begins

\* So does opening one and forgetting the one that was waited for.
LEMMA OpensReleasesBegins ==
  ASSUME NEW m \in Locked, NEW k, NEW n, NEW s, NEW c \in Nat \ {0}, Opens(m, k, s, c),
         NEW t0 \in Slab(m), Releases(k, n, t0), Calm(k, n, {})
  PROVE  Begins(m, n, s, c, t0)
<1>1. s \notin Slab(m) /\ s # t0  BY DEF Opens
<1>2. Slab(k) = Slab(m) \cup {s} /\ k.store[s].refs = c  BY DEF Opens
<1>3. s \in Slab(n)  BY <1>1, <1>2 DEF Releases
<1>4. /\ n \in Locked /\ Slab(n) \subseteq Slab(m) \cup {s} /\ n.nextId = s + 1
      /\ n.inFlight = m.inFlight \/ (m.inFlight \in Ids /\ n.inFlight = Dropped)
  BY <1>2 DEF Releases, Opens
<1>5. /\ n.flow.window = m.flow.window /\ n.store[s].flow.window = m.initWindow
      /\ ~PeerEnded(n.store[s].state)
  BY <1>3 DEF Calm, Opens
<1>6. n.store[s].refs = c  BY <1>1, <1>2, <1>3 DEF Releases
<1>7. \A t \in Slab(m) : t \in Slab(n) \/ m.store[t].refs = (IF t = t0 THEN 1 ELSE 0)
  BY <1>2 DEF Releases, Opens
<1>8. ASSUME NEW t \in Slab(n) \ {s}
      PROVE  /\ n.store[t].refs = m.store[t].refs - (IF t = t0 THEN 1 ELSE 0)
             /\ n.store[t].flow.window = m.store[t].flow.window
             /\ PeerEnded(n.store[t].state) => PeerEnded(m.store[t].state)
             /\ Queued(n.ids, t) => Queued(m.ids, t)
  <2>1. t \in Slab(m) /\ k.store[t] = m.store[t] /\ (Queued(k.ids, t) => Queued(m.ids, t))
    BY <1>2, <1>4, <1>8 DEF Opens
  <2>2. /\ n.store[t].flow.window = k.store[t].flow.window
        /\ PeerEnded(n.store[t].state) => PeerEnded(k.store[t].state)
    BY <1>8 DEF Calm
  <2>3. /\ n.store[t].refs = k.store[t].refs - (IF t = t0 THEN 1 ELSE 0)
        /\ Queued(n.ids, t) => Queued(k.ids, t)
    BY <1>8 DEF Releases
  <2> QED  BY <2>1, <2>2, <2>3
<1> QED  BY <1>1, <1>3, <1>4, <1>5, <1>6, <1>7, <1>8 DEF Begins

\* A handle more or less that waits.
LEMMA PairCardinality ==
  ASSUME NEW a, NEW b, a # b
  PROVE  IsFiniteSet({a, b}) /\ Cardinality({a, b}) = 2
<1>1. IsFiniteSet({a}) /\ Cardinality({a}) = 1  BY FS_Singleton
<1>2. {a, b} = {a} \cup {b}  OBVIOUS
<1> QED  BY <1>1, <1>2, FS_AddElement

\* The stream a request waits for takes the place of the one it waited for.
Waited(h, s, pending, t0) ==
  /\ request' = IF pending THEN [request EXCEPT ![h] = s] ELSE request
  /\ t0 = IF pending THEN request[h] ELSE Nothing

\* The handle that waits for the new stream refers to it.
LEMMA BeginsReferenced ==
  ASSUME Referenced, me \in Locked, request \in [Handles -> Ids \cup {Nothing, Dropped}],
         NEW h \in Handles, NEW s \in Ids, NEW pending \in BOOLEAN, NEW t0,
         Waited(h, s, pending, t0),
         Begins(me, me', s, IF pending THEN 2 ELSE 1, t0)
  PROVE  Referenced'
<1>1. /\ Slab(me') \subseteq Slab(me) \cup {s} /\ s \in Slab(me') /\ s \notin Slab(me)
      /\ me'.store[s].refs = IF pending THEN 2 ELSE 1
      /\ \A t \in Slab(me) : t \in Slab(me') \/ me.store[t].refs = (IF t = t0 THEN 1 ELSE 0)
      /\ \A t \in Slab(me') \ {s} : me'.store[t].refs = me.store[t].refs - (IF t = t0 THEN 1 ELSE 0)
  BY DEF Begins
<1>2. \A t \in Slab(me) : me.store[t].refs \in Int /\ t \in Ids  BY StreamTyped DEF Streams
<1>3. Nothing \notin Ids /\ Dropped \notin Ids  BY IdsNat
<1>4. \A t : IsFiniteSet(Waiting(t)) /\ Cardinality(Waiting(t)) \in Nat  BY CardinalityNat
<1>5. \A t \in Slab(me) :
        me.store[t].refs >= Cardinality(Waiting(t)) + (IF Droppable = {} THEN 1 ELSE 0)
  BY DEF Referenced
<1>6. \A g \in Handles : request[g] \in Slab(me) \cup {Nothing, Dropped}  BY DEF Referenced
<1>7. \A g \in Handles : request'[g] = IF pending /\ g = h THEN s ELSE request[g]
  BY DEF Waited
<1>8. \A t \in Slab(me) : t = t0 <=> pending /\ t = request[h]
  BY <1>2, <1>3 DEF Waited
<1>9. \A g \in Handles : request[g] # s  BY <1>1, <1>3, <1>6
<1>10. ASSUME NEW g \in Handles, request[g] \in Slab(me), ~(pending /\ g = h)
       PROVE  request[g] \in Slab(me')
  <2>1. me.store[request[g]].refs >= 1  BY <1>2, <1>10, WaitedFor DEF Waits
  <2>2. CASE request[g] = t0
    <3>1. pending /\ request[g] = request[h] /\ g # h  BY <1>8, <1>10, <2>2
    <3>2. {g, h} \subseteq Waiting(t0)  BY <2>2, <3>1 DEF Waiting, Waits
    <3>3. IsFiniteSet({g, h}) /\ Cardinality({g, h}) = 2  BY <3>1, PairCardinality
    <3>4. Cardinality({g, h}) <= Cardinality(Waiting(t0))  BY <1>4, <3>2, FS_Subset
    <3>5. me.store[t0].refs >= 2  BY <1>2, <1>4, <1>5, <1>10, <2>2, <3>3, <3>4
    <3> QED  BY <1>1, <1>2, <1>10, <2>2, <3>5
  <2>3. CASE request[g] # t0  BY <1>1, <1>10, <2>1, <2>3
  <2> QED  BY <2>2, <2>3
<1>11. ASSUME NEW t \in Slab(me')
       PROVE  me'.store[t].refs >= Cardinality(Waiting(t)') + (IF Droppable = {} THEN 1 ELSE 0)
  <2>1. CASE t = s /\ pending
    <3>1. Waiting(s)' = {h}  BY <1>7, <1>9, <2>1 DEF Waiting, Waits
    <3>2. Cardinality(Waiting(s)') = 1  BY <3>1, FS_Singleton
    <3> QED  BY <1>1, <2>1, <3>2
  <2>2. CASE t = s /\ ~pending
    <3>1. Waiting(s)' = {}  BY <1>7, <1>9, <2>2 DEF Waiting, Waits
    <3>2. Cardinality(Waiting(s)') = 0  BY <3>1, FS_EmptySet
    <3> QED  BY <1>1, <2>2, <3>2
  <2>3. CASE t # s
    <3>1. t \in Slab(me) /\ t \in Ids /\ me.store[t].refs \in Int  BY <1>1, <1>2, <2>3
    <3>2. Cardinality(Waiting(t)) \in Nat  BY <1>4
    <3>3. CASE t = t0
      <4>1. pending /\ t = request[h]  BY <1>8, <3>1, <3>3
      <4>2. Waiting(t)' = Waiting(t) \ {h}  BY <1>7, <2>3, <4>1 DEF Waiting, Waits
      <4>3. h \in Waiting(t)  BY <4>1 DEF Waiting, Waits
      <4>4. Cardinality(Waiting(t)') = Cardinality(Waiting(t)) - 1
        BY <1>4, <4>2, <4>3, FS_RemoveElement
      <4>5. me'.store[t].refs = me.store[t].refs - 1  BY <1>1, <2>3, <3>3
      <4>6. me.store[t].refs >= Cardinality(Waiting(t)) + (IF Droppable = {} THEN 1 ELSE 0)
        BY <1>5, <3>1
      <4> QED  BY <3>1, <3>2, <4>4, <4>5, <4>6
    <3>4. CASE t # t0
      <4>1. me'.store[t].refs = me.store[t].refs  BY <1>1, <2>3, <3>1, <3>4
      <4>2. ~(pending /\ t = request[h])  BY <1>8, <3>1, <3>4
      <4>3. Waiting(t)' = Waiting(t)  BY <1>7, <2>3, <4>2 DEF Waiting, Waits
      <4> QED  BY <1>5, <3>1, <4>1, <4>3
    <3> QED  BY <3>3, <3>4
  <2> QED  BY <2>1, <2>2, <2>3
<1>12. ASSUME NEW g \in Handles PROVE request'[g] \in Slab(me') \cup {Nothing, Dropped}
  BY <1>1, <1>6, <1>7, <1>10
<1> QED  BY <1>11, <1>12 DEF Referenced, Slab

\* The end of a request, for a stream that has a slot and for one that waits.
LEMMA SendRequestBegins ==
  ASSUME IInv, NEW h \in Handles, NEW eos \in BOOLEAN, SendRequest(h, eos)
  PROVE  LET s == me.nextId
             pending == ~CanIncNumSend(me)
             t0 == IF pending THEN request[h] ELSE Nothing
         IN  Sound(me', 0, InCodec) /\ Begins(me, me', s, IF pending THEN 2 ELSE 1, t0)
<1> DEFINE s == me.nextId
           pending == ~CanIncNumSend(me)
           t0 == IF pending THEN request[h] ELSE Nothing
           held == Requested(me, eos)
           c == IF CanIncNumSend(me) THEN 1 ELSE 2
<1>1. /\ s \in Ids /\ request[h] # Dropped
      /\ me' = IF pending /\ request[h] # Nothing THEN DropStreamRef(held, request[h]) ELSE held
  BY DEF SendRequest, Requested, Headed, Linked, Opened
<1>2. /\ Sound(me, 0, InCodec) /\ InCodec \in Loose /\ me \in Locked /\ InCodec.new[s] = 0
      /\ me.nextId \in Nat
  BY <1>1, Facts
<1>3. me.inFlight # me.nextId
  <2>1. CodecKnown  BY DEF IInv
  <2>2. Ids \subseteq Nat /\ Nothing \notin Ids /\ Dropped \notin Ids  BY IdsNat
  <2>3. codec \in DataFrames => codec.stream \in Nat  BY <2>2 DEF DataFrames
  <2> QED  BY <1>1, <1>2, <2>1, <2>2, <2>3 DEF CodecKnown
<1>4. Sound(held, 0, InCodec) /\ Opens(me, held, s, c)
  BY <1>1, <1>2, <1>3, RequestedSound
<1> HIDE DEF held
<1>5. c = IF pending THEN 2 ELSE 1  OBVIOUS
<1>6. CASE pending /\ request[h] # Nothing
  <2>1. request[h] \in Slab(me)  BY <1>1, <1>6 DEF IInv, Referenced
  <2>2. me' = DropStreamRef(held, request[h]) /\ t0 = request[h]  BY <1>1, <1>6
  <2>3. held.store[request[h]] = me.store[request[h]] /\ request[h] \in Slab(held)
    BY <1>4, <2>1 DEF Opens
  <2>4. Prudent => ReserveSizes = {} \/ held.store[request[h]].refs # 1
    <3> SUFFICES ASSUME Droppable = {} PROVE me.store[request[h]].refs # 1
      BY <2>3 DEF Prudent
    <3>1. me.store[request[h]].refs \in Int /\ Referenced
      BY <1>2, <2>1, StreamTyped DEF Streams, IInv
    <3>2. me.store[request[h]].refs >= 2  BY <2>1, <3>1, WaitedFor DEF Waits
    <3> QED  BY <3>1, <3>2
  <2>5. Sound(me', 0, InCodec) /\ Releases(held, me', t0) /\ Calm(held, me', {})
    BY <1>2, <1>4, <2>2, <2>3, <2>4, DropStreamRefSound
  <2>6. t0 \in Slab(me) /\ c \in Nat \ {0}  BY <2>1, <2>2
  <2> HIDE DEF t0, c
  <2>7. Begins(me, me', s, c, t0)  BY <1>2, <1>4, <2>5, <2>6, OpensReleasesBegins
  <2> QED  BY <1>5, <2>5, <2>7 DEF t0
<1>7. CASE ~(pending /\ request[h] # Nothing)
  <2>1. me' = held /\ t0 = Nothing  BY <1>1, <1>7
  <2>2. Begins(me, me', s, c, t0)  BY <1>2, <1>4, <2>1, OpensBegins
  <2> HIDE DEF c
  <2> QED  BY <1>4, <1>5, <2>1, <2>2
<1> QED  BY <1>6, <1>7

\* send_request keeps the inductive invariant.
LEMMA SendRequestStays ==
  ASSUME IInv, NEW h \in Handles, NEW eos \in BOOLEAN, SendRequest(h, eos)
  PROVE  IInv'
<1> DEFINE s == me.nextId
           pending == ~CanIncNumSend(me)
           t0 == IF pending THEN request[h] ELSE Nothing
           c == IF pending THEN 2 ELSE 1
<1>1. Sound(me', 0, InCodec) /\ Begins(me, me', s, c, t0)  BY SendRequestBegins
<1>2. /\ s \in Ids
      /\ request' = IF pending THEN [request EXCEPT ![h] = s] ELSE request
      /\ granted' = [granted EXCEPT !.stream[s] = me.initWindow]
      /\ UNCHANGED <<codec, done, wire, accepted>>
  BY DEF SendRequest
<1>3. /\ me \in Locked /\ me.nextId \in Nat /\ \A t \in Slab(me) : t \in Ids /\ t < me.nextId
      /\ wire \in [Ids -> Marks] /\ BytesWritten \in Int
      /\ granted.conn \in Int /\ granted.stream \in [Ids -> Int]
  BY Facts
<1>4. Histories /\ CodecKnown /\ Referenced /\ PeerView /\ InGrants  BY DEF IInv
<1>5. me.initWindow \in Nat  BY <1>3 DEF Locked
<1>6. Waited(h, s, pending, t0) /\ pending \in BOOLEAN  BY <1>2 DEF Waited
<1> HIDE DEF t0
<1>7. Referenced'
  <2>1. request \in [Handles -> Ids \cup {Nothing, Dropped}]  BY <1>4 DEF Histories
  <2> HIDE DEF pending, s
  <2> QED  BY <1>1, <1>2, <1>3, <1>4, <1>6, <2>1, BeginsReferenced
<1>8. /\ me' \in Locked /\ Slab(me') \subseteq Slab(me) \cup {s} /\ s \notin Slab(me)
      /\ me'.nextId = s + 1 /\ me'.flow.window = me.flow.window
      /\ me'.store[s].flow.window = me.initWindow /\ ~PeerEnded(me'.store[s].state)
      /\ \A t \in Slab(me') \ {s} :
           /\ me'.store[t].flow.window = me.store[t].flow.window
           /\ PeerEnded(me'.store[t].state) => PeerEnded(me.store[t].state)
           /\ Queued(me'.ids, t) => Queued(me.ids, t)
      /\ me'.inFlight = me.inFlight \/ (me.inFlight \in Ids /\ me'.inFlight = Dropped)
  BY <1>1 DEF Begins
<1>9. CodecKnown' /\ InCodec' = InCodec
  <2>1. me'.nextId \in Nat /\ me'.nextId >= me.nextId  BY <1>3, <1>8
  <2> QED  BY <1>2, <1>3, <1>4, <1>8, <2>1, CodecStays
<1>10. granted'.conn = granted.conn /\ granted'.stream = [granted.stream EXCEPT ![s] = me.initWindow]
       /\ granted' \in [conn : Int, stream : [Ids -> Int], settings : Nat]
  BY <1>2, <1>4, <1>5 DEF Histories
<1>11. Histories'
  <2>1. request' \in [Handles -> Ids \cup {Nothing, Dropped}]  BY <1>2, <1>4 DEF Histories
  <2> QED  BY <1>2, <1>4, <1>10, <2>1 DEF Histories
<1>12. PeerView'
  <2> SUFFICES ASSUME ~done', NEW t \in Slab(me'), MayAnswer(wire'[t])
               PROVE  ~PeerEnded(me'.store[t].state)
    BY DEF PeerView, MayAnswer, Slab
  <2>1. CASE t = s  BY <1>8, <2>1
  <2>2. CASE t # s
    <3>1. t \in Slab(me)  BY <1>8, <2>2
    <3>2. ~PeerEnded(me.store[t].state)  BY <1>2, <1>4, <3>1 DEF PeerView, MayAnswer
    <3> QED  BY <1>8, <2>2, <3>2
  <2> QED  BY <2>1, <2>2
<1>13. InGrants'
  <2>1. BytesWritten' = BytesWritten  BY <1>2, BytesStay
  <2>2. me'.flow.window = granted'.conn - BytesWritten'  BY <1>4, <1>8, <1>10, <2>1 DEF InGrants
  <2>3. ASSUME NEW t \in Slab(me'), Queued(me'.ids, t)
        PROVE  me'.store[t].flow.window <= granted'.stream[t] - wire'[t].bytes
    <3>1. CASE t = s
      <4>1. wire[s].bytes = 0  BY <1>2, <1>3, <1>4 DEF InGrants
      <4>2. granted'.stream[s] = me.initWindow  BY <1>2, <1>3, <1>10
      <4> QED  BY <1>2, <1>5, <1>8, <3>1, <4>1, <4>2
    <3>2. CASE t # s
      <4>1. t \in Slab(me) /\ Queued(me.ids, t) /\ t \in Ids  BY <1>3, <1>8, <2>3, <3>2
      <4>2. granted'.stream[t] = granted.stream[t]  BY <1>3, <1>10, <3>2, <4>1
      <4>3. me.store[t].flow.window <= granted.stream[t] - wire[t].bytes  BY <1>4, <4>1 DEF InGrants
      <4>4. me'.store[t].flow.window = me.store[t].flow.window  BY <1>8, <3>2
      <4> QED  BY <1>2, <4>2, <4>3, <4>4
    <3> QED  BY <3>1, <3>2
  <2>4. ASSUME NEW t \in Ids, t >= me'.nextId PROVE wire'[t].bytes = 0 /\ wire'[t].peer = "silent"
    <3>1. t \in Nat  BY IdsNat
    <3>2. t >= me.nextId  BY <1>3, <1>8, <2>4, <3>1
    <3> QED  BY <1>2, <1>4, <3>2 DEF InGrants
  <2> QED  BY <2>2, <2>3, <2>4 DEF InGrants, Slab
<1>14. Sound(me', 0, InCodec')  BY <1>1, <1>9
<1> QED  BY <1>7, <1>9, <1>11, <1>12, <1>13, <1>14 DEF IInv

\* What the task does with a frame, and the waker it leaves.
LEMMA AppliedSteps ==
  ASSUME IInv, NEW n, Applied(n), Sound(n, 0, InCodec)
  PROVE  /\ Sound(me', 0, InCodec) /\ Steady(n, me') /\ Calm(n, me', {})
         /\ UNCHANGED <<codec, request, done, accepted>>
         /\ n \in Locked /\ me' = Wake(n)
<1>1. me' = Wake(n) /\ UNCHANGED <<codec, request, done, accepted>>  BY DEF Applied
<1>2. n \in Locked  BY DEF Sound
<1>3. Agree(n, Wake(n))  BY <1>2, WakeAgrees
<1>4. Sound(Wake(n), 0, InCodec)  BY <1>3, AgreeSound
<1>5. Steady(n, Wake(n)) /\ Calm(n, Wake(n), {})  BY <1>2, <1>3, AgreeSteady
<1> QED  BY <1>1, <1>2, <1>4, <1>5

\* So it keeps the inductive invariant if the peer ends only streams in E.
LEMMA AppliedKeeps ==
  ASSUME IInv, NEW n, Applied(n), Sound(n, 0, InCodec), Keeps(me, n), NEW E, Calm(me, n, E)
  PROVE  Keeps(me, me') /\ Calm(me, me', E)
<1>1. Steady(n, me') /\ Calm(n, me', {})  BY AppliedSteps
<1>2. Keeps(n, me')  BY <1>1 DEF Steady
<1>3. Calm(n, me', E)  BY <1>1, CalmMore
<1> HIDE DEF Keeps, Calm
<1> QED  BY <1>2, <1>3, KeepsTwice

\* The histories stay typed if nothing but the wire changes.
LEMMA HistoriesStay ==
  ASSUME IInv, UNCHANGED <<request, accepted>>, wire' \in [Ids -> Marks],
         granted' \in [conn : Int, stream : [Ids -> Int], settings : Nat]
  PROVE  Histories'
BY DEF IInv, Histories

\* What the peer says is typed.
LEMMA WireTyped ==
  ASSUME IInv
  PROVE  wire \in [Ids -> Marks] /\ granted \in [conn : Int, stream : [Ids -> Int], settings : Nat]
BY DEF IInv, Histories

\* The peer ends, with `what`, at most the stream s.
LEMMA SaysStays ==
  ASSUME IInv, NEW n, Applied(n), Sound(n, 0, InCodec), Keeps(me, n),
         NEW s \in Slab(me), NEW E, E \subseteq {s}, Calm(me, n, E),
         NEW what \in {"answering", "ended", "reset"}, PeerSays(s, what),
         MayAnswer(wire[s]), what = "answering" => E = {}
  PROVE  IInv'
<1>1. Sound(me', 0, InCodec) /\ UNCHANGED <<codec, request, done, accepted>>  BY AppliedSteps
<1>2. Keeps(me, me') /\ Calm(me, me', E)  BY AppliedKeeps
<1>3. wire' = [wire EXCEPT ![s].peer = what] /\ granted' = granted  BY DEF PeerSays
<1>4. /\ wire \in [Ids -> Marks] /\ granted \in [conn : Int, stream : [Ids -> Int], settings : Nat]
      /\ s \in Ids
  BY WireTyped, Facts
<1>5. /\ wire' \in [Ids -> Marks] /\ wire'[s].peer = what /\ wire'[s].bytes = wire[s].bytes
      /\ \A t \in Ids : t # s => wire'[t] = wire[t]
  BY <1>3, <1>4 DEF Marks
<1>6. Histories'  BY <1>1, <1>3, <1>4, <1>5, HistoriesStay
<1>7. Hears(E)
  <2>1. \A t \in Ids : /\ wire'[t].bytes = wire[t].bytes
                       /\ t \notin Slab(me) => wire'[t] = wire[t]
    BY <1>5
  <2>2. ASSUME NEW t \in Slab(me'), MayAnswer(wire'[t]) PROVE MayAnswer(wire[t]) /\ t \notin E
    <3>1. t \in Ids  BY <1>2, <1>4, Facts DEF Keeps
    <3>2. CASE t = s  BY <1>5, <2>2, <3>2 DEF MayAnswer
    <3>3. CASE t # s  BY <1>5, <2>2, <3>1, <3>3
    <3> QED  BY <3>2, <3>3
  <2> QED  BY <1>1, <2>1, <2>2 DEF Hears
<1>8. granted'.conn = granted.conn /\ granted'.stream = granted.stream  BY <1>3
<1> QED  BY <1>1, <1>2, <1>6, <1>7, <1>8, KeepsStays

\* A frame after which the peer may still answer what it could answer before.
LEMMA QuietStays ==
  ASSUME IInv, NEW n, Applied(n), Sound(n, 0, InCodec), Keeps(me, n), Calm(me, n, {}), wire' = wire,
         granted' \in [conn : Int, stream : [Ids -> Int], settings : Nat],
         granted'.conn = granted.conn, granted'.stream = granted.stream
  PROVE  IInv'
<1>1. Sound(me', 0, InCodec) /\ UNCHANGED <<codec, request, done, accepted>>  BY AppliedSteps
<1>2. Keeps(me, me') /\ Calm(me, me', {})  BY AppliedKeeps
<1>3. wire \in [Ids -> Marks]  BY WireTyped
<1>4. Histories'  BY <1>1, <1>3, HistoriesStay
<1>5. Hears({})  BY <1>1 DEF Hears
<1> QED  BY <1>1, <1>2, <1>4, <1>5, KeepsStays

\* A stream the peer may answer is found, and its peer has not ended it.
LEMMA Answered ==
  ASSUME IInv, NEW s \in Ids, TaskRuns, PeerMayAnswer(s)
  PROVE  /\ s \in Slab(me) /\ Queued(me.ids, s) /\ MayAnswer(wire[s])
         /\ ~PeerEnded(me.store[s].state) /\ me.store[s].state \in ClientStates
<1>1. Queued(me.ids, s) /\ MayAnswer(wire[s])  BY DEF PeerMayAnswer, Queued, MayAnswer
<1>2. IsQueue(me.ids, Slab(me)) /\ Fine(me, InCodec) /\ PeerView  BY DEF IInv, Sound, Queues
<1>3. s \in Slab(me)  BY <1>1, <1>2, QueuedIn
<1> QED  BY <1>1, <1>2, <1>3 DEF Fine, StreamFine, PeerView, TaskRuns, MayAnswer

\* A frame that only moves a stream the peer may answer to another state.
LEMMA AnswerSound ==
  ASSUME IInv, NEW s \in Slab(me), Queued(me.ids, s), NEW x \in ClientStates,
         IsSendClosed(x) => IsSendClosed(me.store[s].state), ~IsClosed(me.store[s].state),
         NEW E, PeerEnded(x) => s \in E
  PROVE  LET k == [me EXCEPT !.store[s].state = x]
             n == TransitionAfter(k, s, Queued(me.pendingReset, s))
         IN  Sound(n, 0, InCodec) /\ Keeps(me, n) /\ Calm(me, n, E)
<1> DEFINE k == [me EXCEPT !.store[s].state = x]
           n == TransitionAfter(k, s, Queued(me.pendingReset, s))
<1>1. Sound(me, 0, InCodec) /\ InCodec \in Loose /\ me \in Locked  BY Facts
<1>2. Sound(k, 0, InCodec) /\ Steady(me, k) /\ Calm(me, k, E)  BY <1>1, StateSound
<1> HIDE DEF k
<1>3. Sound(n, 0, InCodec) /\ Keeps(me, n) /\ Calm(me, n, E)  BY <1>1, <1>2, SteadyEnds
<1> QED  BY <1>3 DEF k

\* Received HEADERS keep the inductive invariant.
LEMMA RecvHeadersStays ==
  ASSUME IInv, NEW s \in Ids, NEW eos \in BOOLEAN, RecvHeaders(s, eos)
  PROVE  IInv'
<1> DEFINE w == me.store[s]
           x == RecvOpen(w.state, eos)
           k == [me EXCEPT !.store[s].state = x]
           t == TransitionAfter(k, s, Queued(me.pendingReset, s))
           n == IF IsLocalReset(w.state) THEN me ELSE t
           E == IF eos THEN {s} ELSE {}
           what == IF eos THEN "ended" ELSE "answering"
<1>1. TaskRuns /\ PeerMayAnswer(s)  BY DEF RecvHeaders
<1>2. PeerSays(s, what)  BY DEF RecvHeaders
<1>3. Sound(me, 0, InCodec) /\ me \in Locked  BY Facts
<1>4. k = [me EXCEPT !.store[s].state = RecvOpen(@, eos)]  BY <1>3 DEF Locked
<1>5. Applied(n)  BY <1>4 DEF RecvHeaders, Transition
<1>6. /\ s \in Slab(me) /\ Queued(me.ids, s) /\ MayAnswer(wire[s])
      /\ ~PeerEnded(w.state) /\ w.state \in ClientStates
  BY <1>1, Answered
<1>7. Sound(n, 0, InCodec) /\ Keeps(me, n) /\ Calm(me, n, E)
  <2>1. CASE IsLocalReset(w.state)
    <3>1. n = me  BY <2>1
    <3>2. Keeps(me, me) /\ Calm(me, me, {})  BY <1>3, KeepsNothing DEF Steady
    <3>3. Calm(me, me, E)  BY <3>2, CalmMore
    <3> QED  BY <1>3, <3>1, <3>2, <3>3
  <2>2. CASE ~IsLocalReset(w.state)
    <3>1. /\ x \in ClientStates /\ (IsSendClosed(x) => IsSendClosed(w.state))
          /\ PeerEnded(x) => s \in E
          /\ ~IsClosed(w.state)
      BY <1>6, <2>2, AnswerTyped
    <3> HIDE DEF x
    <3>2. Sound(t, 0, InCodec) /\ Keeps(me, t) /\ Calm(me, t, E)  BY <1>6, <3>1, AnswerSound
    <3>3. n = t  BY <2>2
    <3> QED  BY <3>2, <3>3
  <2> QED  BY <2>1, <2>2
<1>8. E \subseteq {s} /\ what \in {"answering", "ended", "reset"} /\ (what = "answering" => E = {})
  OBVIOUS
<1> HIDE DEF n, E, what
<1> QED  BY <1>2, <1>5, <1>6, <1>7, <1>8, SaysStays

\* A received END_STREAM keeps the inductive invariant.
LEMMA RecvEndStreamStays ==
  ASSUME IInv, NEW s \in Ids, RecvEndStream(s)
  PROVE  IInv'
<1> DEFINE w == me.store[s]
           x == RecvClose(w.state)
           k == [me EXCEPT !.store[s].state = x]
           t == TransitionAfter(k, s, Queued(me.pendingReset, s))
           n == IF IsLocalReset(w.state) THEN me ELSE t
<1>1. TaskRuns /\ PeerMayAnswer(s) /\ PeerSays(s, "ended")  BY DEF RecvEndStream
<1>2. Sound(me, 0, InCodec) /\ me \in Locked  BY Facts
<1>3. k = [me EXCEPT !.store[s].state = RecvClose(@)]  BY <1>2 DEF Locked
<1>4. Applied(n)  BY <1>3 DEF RecvEndStream, Transition
<1>5. /\ s \in Slab(me) /\ Queued(me.ids, s) /\ MayAnswer(wire[s])
      /\ ~PeerEnded(w.state) /\ w.state \in ClientStates
  BY <1>1, Answered
<1>6. Sound(n, 0, InCodec) /\ Keeps(me, n) /\ Calm(me, n, {s})
  <2>1. CASE IsLocalReset(w.state)
    <3>1. n = me  BY <2>1
    <3>2. Keeps(me, me) /\ Calm(me, me, {})  BY <1>2, KeepsNothing DEF Steady
    <3>3. Calm(me, me, {s})  BY <3>2, CalmMore
    <3> QED  BY <1>2, <3>1, <3>2, <3>3
  <2>2. CASE ~IsLocalReset(w.state)
    <3>1. /\ x \in ClientStates /\ (IsSendClosed(x) => IsSendClosed(w.state))
          /\ ~IsClosed(w.state)
      <4> HIDE DEF w
      <4>1. w.state \in ClientStates /\ ~PeerEnded(w.state) /\ ~IsLocalReset(w.state)
        BY <1>5, <2>2
      <4> QED  BY <4>1, AnswerTyped
    <3> HIDE DEF x
    <3>2. Sound(t, 0, InCodec) /\ Keeps(me, t) /\ Calm(me, t, {s})  BY <1>5, <3>1, AnswerSound
    <3>3. n = t  BY <2>2
    <3> QED  BY <3>2, <3>3
  <2> QED  BY <2>1, <2>2
<1> HIDE DEF n
<1> QED  BY <1>1, <1>4, <1>5, <1>6, SaysStays

\* Resetting a stream over bad DATA keeps the inductive invariant.
LEMMA RecvBadDataStays ==
  ASSUME IInv, NEW s \in Ids, RecvBadData(s)
  PROVE  IInv'
<1> DEFINE k == SendReset(me, s)
           n == TransitionAfter(k, s, Queued(me.pendingReset, s))
<1>1. TaskRuns /\ PeerMayAnswer(s) /\ Applied(n) /\ UNCHANGED <<wire, granted>>
  BY DEF RecvBadData, Transition
<1>2. /\ Sound(me, 0, InCodec) /\ InCodec \in Loose /\ InCodec.new[s] = 0 /\ me \in Locked
  BY Facts
<1>3. s \in Slab(me)  BY <1>1, Answered
<1>4. Sound(k, 0, InCodec) /\ Steady(me, k) /\ Calm(me, k, {})  BY <1>2, <1>3, SendResetSound
<1> HIDE DEF k
<1>5. Sound(n, 0, InCodec) /\ Keeps(me, n) /\ Calm(me, n, {})  BY <1>2, <1>3, <1>4, SteadyEnds
<1> HIDE DEF n
<1>6. granted \in [conn : Int, stream : [Ids -> Int], settings : Nat]  BY WireTyped
<1> QED  BY <1>1, <1>5, <1>6, QuietStays

\* A received RST_STREAM keeps the inductive invariant.
LEMMA RecvResetFrameStays ==
  ASSUME IInv, NEW s \in Ids, RecvResetFrame(s)
  PROVE  IInv'
<1> DEFINE x == RecvReset(me.store[s].state, Queued(me.pendingSend, s))
           k == SendRecvErr([me EXCEPT !.store[s].state = x], s)
           n == TransitionAfter(k, s, Queued(me.pendingReset, s))
<1>1. TaskRuns /\ PeerMayAnswer(s) /\ PeerSays(s, "reset")  BY DEF RecvResetFrame
<1>2. /\ Sound(me, 0, InCodec) /\ InCodec \in Loose /\ InCodec.new[s] = 0 /\ me \in Locked
  BY Facts
<1>3. [me EXCEPT !.store[s].state = x]
        = [me EXCEPT !.store[s].state = RecvReset(@, Queued(me.pendingSend, s))]
  BY <1>2 DEF Locked
<1>4. Applied(n)  BY <1>3 DEF RecvResetFrame, Transition
<1>5. s \in Slab(me) /\ MayAnswer(wire[s])  BY <1>1, Answered
<1>6. x \in States /\ IsClosed(x)
  <2>1. me.store[s].state \in States  BY <1>2, <1>5, StreamTyped DEF Streams
  <2>2. Queued(me.pendingSend, s) \in BOOLEAN  BY DEF Queued, Contains
  <2> QED  BY <2>1, <2>2, StatesTyped
<1> HIDE DEF x
<1>7. Sound(k, 0, InCodec) /\ Steady(me, k) /\ Calm(me, k, {s})
  <2> DEFINE E == {s}
  <2>1. PeerEnded(x) => s \in E \/ PeerEnded(me.store[s].state)  OBVIOUS
  <2> HIDE DEF E
  <2>2. Sound(k, 0, InCodec) /\ Steady(me, k) /\ Calm(me, k, E)
    BY <1>2, <1>5, <1>6, <2>1, FailSound
  <2> QED  BY <2>2 DEF E
<1> HIDE DEF k
<1>8. Sound(n, 0, InCodec) /\ Keeps(me, n) /\ Calm(me, n, {s})
  BY <1>2, <1>5, <1>7, SteadyEnds
<1> HIDE DEF n
<1> QED  BY <1>1, <1>4, <1>5, <1>8, SaysStays

\* Streams are kept when something else changes after it.
LEMMA KeepsAside ==
  ASSUME NEW m \in Locked, NEW rest, Sound(m, 0, rest), NEW k, Sound(k, 0, rest), Keeps(m, k), NEW E, Calm(m, k, E),
         NEW n, Aside(k, n)
  PROVE  Sound(n, 0, rest) /\ Keeps(m, n) /\ Calm(m, n, E)
<1>1. Sound(n, 0, rest) /\ Keeps(k, n) /\ Calm(k, n, {})
  <2> DEFINE z == 0
  <2>1. z \in Int /\ z = 0  OBVIOUS
  <2> HIDE DEF z
  <2>2. Sound(k, z, rest)  BY <2>1
  <2>3. Sound(n, z, rest) /\ Keeps(k, n) /\ Calm(k, n, {})  BY <2>2, AsideSound
  <2> QED  BY <2>1, <2>3
<1>2. Calm(k, n, E)  BY <1>1, CalmMore
<1> HIDE DEF Keeps, Calm
<1> QED  BY <1>1, <1>2, KeepsTwice

\* A received GOAWAY keeps the inductive invariant.
LEMMA RecvGoAwayStays ==
  ASSUME IInv, NEW last \in 0 .. Cardinality(Ids), RecvGoAway(last)
  PROVE  IInv'
<1> DEFINE k == FailAbove(me, last, "LocallyReset")
           n == [k EXCEPT !.maxId = last, !.connError = TRUE]
<1>1. Applied(n) /\ UNCHANGED <<wire, granted>>  BY DEF RecvGoAway
<1>2. /\ Sound(me, 0, InCodec) /\ InCodec \in Loose /\ me \in Locked
      /\ \A t \in Ids : InCodec.new[t] = 0
  BY Facts
<1>3. "LocallyReset" \in Causes  BY DEF Causes
<1>4. Sound(k, 0, InCodec) /\ Keeps(me, k) /\ Calm(me, k, {})
  BY <1>2, <1>3, FailAboveSound
<1> HIDE DEF k
<1>5. Aside(k, n)
  <2>1. k \in Locked  BY <1>4 DEF Sound
  <2>2. last \in Int  OBVIOUS
  <2> QED  BY <2>1, <2>2 DEF Locked, Aside
<1> HIDE DEF n
<1>6. Sound(n, 0, InCodec) /\ Keeps(me, n) /\ Calm(me, n, {})  BY <1>2, <1>4, <1>5, KeepsAside
<1>7. granted \in [conn : Int, stream : [Ids -> Int], settings : Nat]  BY WireTyped
<1> QED  BY <1>1, <1>6, <1>7, QuietStays

\* A new limit on streams keeps the inductive invariant.
LEMMA RecvStreamsSettingStays ==
  ASSUME IInv, NEW val \in StreamSettings, RecvStreamsSetting(val)
  PROVE  IInv'
<1> DEFINE n == [me EXCEPT !.maxSend = val]
<1>1. /\ Applied(n) /\ wire' = wire
      /\ granted' = [granted EXCEPT !.settings = @ + 1]
  BY DEF RecvStreamsSetting
<1>2. Sound(me, 0, InCodec) /\ me \in Locked  BY Facts
<1>3. val \in Nat  BY SendAssumption
<1>4. Aside(me, n)  BY <1>2, <1>3 DEF Locked, Aside
<1> HIDE DEF n
<1>5. Keeps(me, me) /\ Calm(me, me, {})  BY <1>2, KeepsNothing DEF Steady
<1>6. Sound(n, 0, InCodec) /\ Keeps(me, n) /\ Calm(me, n, {})  BY <1>2, <1>4, <1>5, KeepsAside
<1>7. granted \in [conn : Int, stream : [Ids -> Int], settings : Nat]  BY WireTyped
<1>8. /\ granted' \in [conn : Int, stream : [Ids -> Int], settings : Nat]
      /\ granted'.conn = granted.conn /\ granted'.stream = granted.stream
  BY <1>1, <1>7
<1> QED  BY <1>1, <1>6, <1>8, QuietStays

\* Forgetting a reset stream keeps the inductive invariant.
LEMMA ResetExpiresStays ==
  ASSUME IInv, ResetExpires
  PROVE  IInv'
<1> DEFINE n == TransitionAfter([me EXCEPT !.pendingReset = Tail(@)], Head(me.pendingReset), TRUE)
<1>1. Applied(n) /\ UNCHANGED <<wire, granted>> /\ me.pendingReset # <<>>  BY DEF ResetExpires
<1>2. Sound(me, 0, InCodec) /\ InCodec \in Loose  BY Facts
<1>3. Sound(n, 0, InCodec) /\ Keeps(me, n) /\ Calm(me, n, {})  BY <1>1, <1>2, ExpireSound
<1> HIDE DEF n
<1>4. granted \in [conn : Int, stream : [Ids -> Int], settings : Nat]  BY WireTyped
<1> QED  BY <1>1, <1>3, <1>4, QuietStays

\* The end of the transport keeps the inductive invariant.
LEMMA RecvEofStays ==
  ASSUME IInv, RecvEof
  PROVE  IInv'
<1> DEFINE m == [me EXCEPT !.connError = TRUE]
           k == FailAbove(m, 0, "Io")
           n == ClearQueues(k)
           E == Slab(me)
<1>1. me' = n /\ done' = TRUE /\ UNCHANGED <<codec, request, wire, granted, accepted>>
  BY DEF RecvEof
<1>2. /\ Sound(me, 0, InCodec) /\ InCodec \in Loose /\ me \in Locked
      /\ \A t \in Ids : InCodec.new[t] = 0
  BY Facts
<1>3. Aside(me, m)  BY <1>2 DEF Locked, Aside
<1>4. Keeps(me, me) /\ Calm(me, me, {})  BY <1>2, KeepsNothing DEF Steady
<1> HIDE DEF m
<1>5. Sound(m, 0, InCodec) /\ Keeps(me, m) /\ Calm(me, m, {})  BY <1>2, <1>3, <1>4, KeepsAside
<1>6. Slab(m) \subseteq E /\ m \in Locked  BY <1>5 DEF Keeps
<1>7. Calm(me, m, E)  BY <1>5, CalmMore
<1> HIDE DEF E
<1>8. Sound(k, 0, InCodec) /\ Keeps(m, k) /\ Calm(m, k, E)
  <2>1. "Io" \in Causes  BY DEF Causes
  <2> QED  BY <1>2, <1>5, <1>6, <2>1, FailAboveSound
<1> HIDE DEF k
<1>9. Sound(n, 0, InCodec) /\ Keeps(k, n) /\ Calm(k, n, {})  BY <1>2, <1>8, ClearQueuesSound
<1> HIDE DEF n
<1>10. Calm(k, n, E)  BY <1>9, CalmMore
<1>11. Keeps(me, n) /\ Calm(me, n, E)
  <2> HIDE DEF Keeps, Calm
  <2>1. Keeps(me, k) /\ Calm(me, k, E)  BY <1>5, <1>7, <1>8, KeepsTwice
  <2> QED  BY <1>9, <1>10, <2>1, KeepsTwice
<1>12. Histories'
  <2>1. wire \in [Ids -> Marks] /\ granted \in [conn : Int, stream : [Ids -> Int], settings : Nat]
    BY WireTyped
  <2> QED  BY <1>1, <2>1, HistoriesStay
<1>13. Hears(E)  BY <1>1 DEF Hears
<1> QED  BY <1>1, <1>9, <1>11, <1>12, <1>13, KeepsStays

\* A frame that lets windows grow by no more than the peer grants with it.
LEMMA GrantStays ==
  ASSUME IInv, NEW n, Applied(n), Sound(n, 0, InCodec), Keeps(me, n), wire' = wire,
         granted' \in [conn : Int, stream : [Ids -> Int], settings : Nat],
         n.flow.window - me.flow.window = granted'.conn - granted.conn,
         \A t \in Slab(n) :
           /\ PeerEnded(n.store[t].state) => PeerEnded(me.store[t].state)
           /\ Queued(n.ids, t) => n.store[t].flow.window - me.store[t].flow.window
                                    <= granted'.stream[t] - granted.stream[t]
  PROVE  IInv'
<1>1. /\ Sound(me', 0, InCodec) /\ Steady(n, me') /\ Calm(n, me', {})
      /\ UNCHANGED <<codec, request, done, accepted>>
  BY AppliedSteps
<1>2. Referenced /\ me \in Locked  BY Facts DEF IInv
<1>3. Keeps(n, me') /\ Slab(me') = Slab(n) /\ me'.ids = n.ids  BY <1>1 DEF Steady, SameSlots
<1>4. Keeps(me, me')
  <2> HIDE DEF Keeps, Calm
  <2> QED  BY <1>3, KeepsTwice
<1>5. Referenced'  BY <1>1, <1>2, <1>4, KeepsReferenced
<1>6. Shrinks(me, me')  BY <1>4, KeepsShrinks
<1>7. wire \in [Ids -> Marks]  BY WireTyped
<1>8. Histories'  BY <1>1, <1>7, HistoriesStay
<1>9. Hears({})  BY <1>1 DEF Hears
<1>10. Ends(me, me', {})  BY <1>1, <1>3 DEF Ends, Calm
<1>11. Grants  BY <1>1, <1>3 DEF Grants, Calm
<1> QED  BY <1>1, <1>5, <1>6, <1>8, <1>9, <1>10, <1>11, StepStays

\* A WINDOW_UPDATE of the connection keeps the inductive invariant.
LEMMA RecvConnWindowUpdateStays ==
  ASSUME IInv, NEW inc \in 1 .. MaxGrant, RecvConnWindowUpdate(inc)
  PROVE  IInv'
<1> DEFINE n == AssignConnectionCapacity([me EXCEPT !.flow = IncWindow(@, inc)], inc)
<1>1. /\ CanIncWindow(me.flow, inc) /\ granted' = [granted EXCEPT !.conn = @ + inc]
      /\ wire' = wire /\ Applied(n)
  BY DEF RecvConnWindowUpdate, CanGrantConn
<1>2. Sound(me, 0, InCodec) /\ InCodec \in Loose /\ me \in Locked  BY Facts
<1>3. inc \in Nat  OBVIOUS
<1>4. /\ Sound(n, 0, InCodec) /\ Steady(me, n) /\ n.flow.window = me.flow.window + inc
      /\ \A t \in Slab(me) : /\ n.store[t].state = me.store[t].state
                             /\ n.store[t].flow.window = me.store[t].flow.window
  BY <1>1, <1>2, <1>3, ConnectionGrows
<1> HIDE DEF n
<1>5. granted \in [conn : Int, stream : [Ids -> Int], settings : Nat]  BY WireTyped
<1>6. /\ granted' \in [conn : Int, stream : [Ids -> Int], settings : Nat]
      /\ granted'.conn = granted.conn + inc /\ granted'.stream = granted.stream
  BY <1>1, <1>3, <1>5
<1>7. Keeps(me, n) /\ Slab(n) = Slab(me)  BY <1>4 DEF Steady
<1>8. n.flow.window - me.flow.window = granted'.conn - granted.conn
  BY <1>2, <1>4, <1>5, <1>6 DEF Locked, Flows
<1>9. ASSUME NEW t \in Slab(n)
      PROVE  /\ PeerEnded(n.store[t].state) => PeerEnded(me.store[t].state)
             /\ n.store[t].flow.window - me.store[t].flow.window <= granted'.stream[t] - granted.stream[t]
  <2>1. t \in Ids /\ me.store[t].flow.window \in Int
    BY <1>2, <1>7, StreamTyped DEF Streams, Flows
  <2>2. granted.stream[t] \in Int  BY <1>5, <2>1
  <2> QED  BY <1>4, <1>6, <1>7, <2>1, <2>2
<1> QED  BY <1>1, <1>4, <1>6, <1>7, <1>8, <1>9, GrantStays

\* A WINDOW_UPDATE of a stream keeps the inductive invariant.
LEMMA RecvWindowUpdateStays ==
  ASSUME IInv, NEW s \in Ids, NEW inc \in 1 .. MaxGrant, RecvWindowUpdate(s, inc)
  PROVE  IInv'
<1> DEFINE n == RecvStreamWindowUpdate(me, s, inc)
<1>1. /\ Contains(me.ids, s) /\ granted' = [granted EXCEPT !.stream[s] = @ + inc]
      /\ wire' = wire /\ Applied(n)
  BY DEF RecvWindowUpdate, CanGrant
<1>2. /\ Sound(me, 0, InCodec) /\ InCodec \in Loose /\ me \in Locked /\ InCodec.new[s] = 0
  BY Facts
<1>3. inc \in Nat  OBVIOUS
<1>4. s \in Slab(me)
  <2>1. IsQueue(me.ids, Slab(me)) /\ Queued(me.ids, s)  BY <1>1, <1>2 DEF Sound, Queues, Queued
  <2> QED  BY <2>1, QueuedIn
<1>5. Sound(n, 0, InCodec) /\ Widens(me, n, {s}, inc)
  BY <1>2, <1>3, <1>4, RecvStreamWindowUpdateSound
<1> HIDE DEF n
<1>6. granted \in [conn : Int, stream : [Ids -> Int], settings : Nat]  BY WireTyped
<1>7. /\ granted' \in [conn : Int, stream : [Ids -> Int], settings : Nat]
      /\ granted'.conn = granted.conn
      /\ \A t \in Ids : granted'.stream[t] = granted.stream[t] + (IF t = s THEN inc ELSE 0)
  BY <1>1, <1>3, <1>6
<1>8. Keeps(me, n) /\ Slab(n) = Slab(me) /\ n.flow.window = me.flow.window
  BY <1>5 DEF Widens, Steady
<1>9. n.flow.window - me.flow.window = granted'.conn - granted.conn
  BY <1>2, <1>6, <1>7, <1>8 DEF Locked, Flows
<1>10. ASSUME NEW t \in Slab(n)
       PROVE  /\ PeerEnded(n.store[t].state) => PeerEnded(me.store[t].state)
              /\ n.store[t].flow.window - me.store[t].flow.window <= granted'.stream[t] - granted.stream[t]
  <2>1. t \in Ids /\ me.store[t].flow.window \in Int
    BY <1>2, <1>8, StreamTyped DEF Streams, Flows
  <2>2. n.store[t].flow.window \in Int
    <3>1. n \in Locked  BY <1>5 DEF Sound
    <3> QED  BY <3>1, StreamTyped DEF Streams, Flows
  <2>3. granted.stream[t] \in Int  BY <1>6, <2>1
  <2>4. /\ n.store[t].flow.window <= me.store[t].flow.window + (IF t = s THEN inc ELSE 0)
        /\ PeerEnded(n.store[t].state) => PeerEnded(me.store[t].state)
    BY <1>5 DEF Widens
  <2> QED  BY <1>3, <1>7, <2>1, <2>2, <2>3, <2>4
<1> QED  BY <1>1, <1>5, <1>7, <1>8, <1>9, <1>10, GrantStays

\* A new initial window keeps the inductive invariant.
LEMMA RecvWindowSettingStays ==
  ASSUME IInv, NEW val \in WindowSettings, RecvWindowSetting(val)
  PROVE  IInv'
<1> DEFINE n == ApplyWindowSetting(me, val)
           change == val - me.initWindow
           moved == [s \in Ids |-> granted.stream[s] + IF s < me.nextId THEN change ELSE 0]
<1>1. /\ wire' = wire /\ Applied(n)
      /\ granted' = [granted EXCEPT !.settings = granted.settings + 1, !.stream = moved]
  BY DEF RecvWindowSetting
<1>2. /\ Sound(me, 0, InCodec) /\ InCodec \in Loose /\ me \in Locked
      /\ \A t \in Ids : InCodec.new[t] = 0
      /\ \A t \in Slab(me) : t \in Ids /\ t < me.nextId
  BY Facts
<1>3. val \in Nat  BY SendAssumption, MaxWindowAssumption
<1>4. change \in Int  BY <1>2, <1>3 DEF Locked
<1>5. Sound(n, 0, InCodec) /\ Rewindows(me, n, change)
  BY <1>2, <1>3, ApplyWindowSettingSound
<1> HIDE DEF n, change
<1>6. granted \in [conn : Int, stream : [Ids -> Int], settings : Nat]  BY WireTyped
<1>7. /\ granted' \in [conn : Int, stream : [Ids -> Int], settings : Nat]
      /\ granted'.conn = granted.conn
      /\ \A t \in Ids : granted'.stream[t] = granted.stream[t] + (IF t < me.nextId THEN change ELSE 0)
  <2>1. /\ moved \in [Ids -> Int]
        /\ \A t \in Ids : moved[t] = granted.stream[t] + (IF t < me.nextId THEN change ELSE 0)
    BY <1>4, <1>6
  <2> HIDE DEF moved
  <2>2. granted' = [conn |-> granted.conn, stream |-> moved, settings |-> granted.settings + 1]
    BY <1>1, <1>6
  <2>3. granted.conn \in Int /\ granted.settings + 1 \in Nat  BY <1>6
  <2> QED  BY <2>1, <2>2, <2>3
<1>8. Keeps(me, n) /\ Slab(n) \subseteq Slab(me) /\ n.flow.window = me.flow.window
  BY <1>5 DEF Rewindows, Keeps
<1>9. n.flow.window - me.flow.window = granted'.conn - granted.conn
  BY <1>2, <1>6, <1>7, <1>8 DEF Locked, Flows
<1>10. ASSUME NEW t \in Slab(n)
       PROVE  /\ PeerEnded(n.store[t].state) => PeerEnded(me.store[t].state)
              /\ Queued(n.ids, t) => n.store[t].flow.window - me.store[t].flow.window
                                       <= granted'.stream[t] - granted.stream[t]
  <2>1. t \in Ids /\ t < me.nextId /\ me.store[t].flow.window \in Int
    BY <1>2, <1>8, StreamTyped DEF Streams, Flows
  <2>2. n.store[t].flow.window \in Int
    <3>1. n \in Locked  BY <1>5 DEF Sound
    <3> QED  BY <3>1, StreamTyped DEF Streams, Flows
  <2>3. granted.stream[t] \in Int  BY <1>6, <2>1
  <2>4. /\ Queued(n.ids, t) => n.store[t].flow.window <= me.store[t].flow.window + change
        /\ PeerEnded(n.store[t].state) => PeerEnded(me.store[t].state)
    BY <1>5 DEF Rewindows
  <2> QED  BY <1>4, <1>7, <2>1, <2>2, <2>3, <2>4
<1> QED  BY <1>1, <1>5, <1>7, <1>8, <1>9, <1>10, GrantStays

-----------------------------------------------------------------------------
(* Writing, and the history of it.                                           *)

\* What each kind of frame leaves in the history.
LEMMA WriteCases ==
  ASSUME NEW w, NEW f
  PROVE  /\ f.kind = "HEADERS" => Write(w, f) = [w EXCEPT !.headers = TRUE, !.eos = f.eos]
         /\ f.kind = "DATA" =>
              Write(w, f) = [w EXCEPT !.bytes = w.bytes + f.len, !.eos = f.eos /\ f.rest = 0]
         /\ f.kind = "TRAILERS" => Write(w, f) = [w EXCEPT !.eos = TRUE]
         /\ f.kind = "RST_STREAM" => Write(w, f) = [w EXCEPT !.rst = w.rst + 1]
BY DEF Write

\* The history of one stream, field by field.
Mark(h, b, e, r, p) == [headers |-> h, bytes |-> b, eos |-> e, rst |-> r, peer |-> p]

\* Writing a frame keeps the history typed and counts its bytes.
LEMMA WriteTyped ==
  ASSUME NEW w \in Marks, NEW f \in Written, f.kind # "DATA" => f.len = 0
  PROVE  /\ Write(w, f) \in Marks /\ Write(w, f).bytes = w.bytes + f.len
         /\ Write(w, f).peer = w.peer
<1>1. /\ w.headers \in BOOLEAN /\ w.bytes \in Nat /\ w.eos \in BOOLEAN /\ w.rst \in Nat
      /\ w.peer \in {"silent", "answering", "ended", "reset"}
      /\ f.len \in Nat /\ f.eos \in BOOLEAN /\ f.kind \in Kinds
  BY DEF Marks, Written
<1>2. w = Mark(w.headers, w.bytes, w.eos, w.rst, w.peer)  BY DEF Marks, Mark
<1>3. CASE f.kind = "HEADERS"
  <2>1. Write(w, f) = [w EXCEPT !.headers = TRUE, !.eos = f.eos]  BY <1>3, WriteCases
  <2>2. Write(w, f) = Mark(TRUE, w.bytes, f.eos, w.rst, w.peer)  BY <1>2, <2>1 DEF Mark
  <2>3. f.len = 0  BY <1>3
  <2> QED  BY <1>1, <2>2, <2>3 DEF Mark, Marks
<1>4. CASE f.kind = "DATA"
  <2> DEFINE e == f.eos /\ f.rest = 0
             b == w.bytes + f.len
  <2>1. Write(w, f) = [w EXCEPT !.bytes = b, !.eos = e]  BY <1>4, WriteCases
  <2>2. e \in BOOLEAN /\ b \in Nat  BY <1>1
  <2> HIDE DEF e, b
  <2>3. Write(w, f) = Mark(w.headers, b, e, w.rst, w.peer)  BY <1>2, <2>1 DEF Mark
  <2>4. /\ Write(w, f) \in Marks /\ Write(w, f).bytes = b /\ Write(w, f).peer = w.peer
    BY <1>1, <2>2, <2>3 DEF Mark, Marks
  <2> QED  BY <2>4 DEF b
<1>5. CASE f.kind = "TRAILERS"
  <2>1. Write(w, f) = [w EXCEPT !.eos = TRUE]  BY <1>5, WriteCases
  <2>2. Write(w, f) = Mark(w.headers, w.bytes, TRUE, w.rst, w.peer)  BY <1>2, <2>1 DEF Mark
  <2>3. f.len = 0  BY <1>5
  <2> QED  BY <1>1, <2>2, <2>3 DEF Mark, Marks
<1>6. CASE f.kind = "RST_STREAM"
  <2> DEFINE r == w.rst + 1
  <2>1. Write(w, f) = [w EXCEPT !.rst = r]  BY <1>6, WriteCases
  <2>2. r \in Nat  BY <1>1
  <2> HIDE DEF r
  <2>3. Write(w, f) = Mark(w.headers, w.bytes, w.eos, r, w.peer)  BY <1>2, <2>1 DEF Mark
  <2>4. f.len = 0  BY <1>6
  <2> QED  BY <1>1, <2>2, <2>3, <2>4 DEF Mark, Marks
<1> QED  BY <1>1, <1>3, <1>4, <1>5, <1>6 DEF Kinds

\* Streams that are kept while frames are written keep what refers to them.
LEMMA KeptReferenced ==
  ASSUME Referenced, me \in Locked, Kept(me, me'), request' = request
  PROVE  Referenced'
BY RequestStays DEF Kept

\* A poll that finds nothing to write keeps the inductive invariant.
LEMMA ParkStays ==
  ASSUME IInv, Park
  PROVE  IInv'
<1> DEFINE k == Polled.me
           n == [k EXCEPT !.woken = FALSE]
<1>1. /\ me.failed = {} /\ codec' = NoFrame /\ UNCHANGED <<request, done, wire, granted, accepted>>
      /\ Polled.frame = NoFrame /\ me' = n
  BY DEF Park, CanPoll, TaskRuns, Alive
<1>2. /\ Sound(me, 0, InCodec) /\ me \in Locked /\ InCodec = Left(RestOf(codec)) /\ FrameKnown(me, codec)
  BY Facts
<1>3. Outcome(me, Polled)  BY <1>1, <1>2, PolledSound
<1>4. /\ Sound(k, 0, Left(0)) /\ Kept(me, k) /\ Calm(me, k, {}) /\ k.inFlight = Nothing
  BY <1>1, <1>3 DEF Outcome
<1> HIDE DEF k
<1>5. Aside(k, n)
  <2>1. k \in Locked  BY <1>4 DEF Sound
  <2> QED  BY <2>1 DEF Locked, Aside
<1>6. Sound(n, 0, Left(0)) /\ Keeps(k, n) /\ Calm(k, n, {}) /\ n.inFlight = Nothing
  <2> DEFINE z == 0
  <2>1. z \in Int /\ z = 0  OBVIOUS
  <2>2. n.inFlight = Nothing  BY <1>4, <1>5 DEF Aside
  <2> HIDE DEF z, n
  <2>3. Sound(k, z, Left(z))  BY <1>4, <2>1
  <2>4. Sound(n, z, Left(z)) /\ Keeps(k, n) /\ Calm(k, n, {})  BY <1>5, <2>3, AsideSound
  <2> QED  BY <2>1, <2>2, <2>4
<1> HIDE DEF n
<1>7. Kept(me, me') /\ Calm(me, me', {})
  <2>1. Kept(k, n)  BY <1>6, KeepsKept
  <2> HIDE DEF Kept, Calm
  <2> QED  BY <1>1, <1>4, <1>6, <2>1, KeptTwice
<1>8. Slab(me') \subseteq Slab(me) /\ me' \in Locked /\ me'.nextId = me.nextId
      /\ \A t \in Slab(me') : Queued(me'.ids, t) => Queued(me.ids, t)
  BY <1>7 DEF Kept
<1>9. InCodec' = Left(0) /\ CodecKnown'  BY <1>1, <1>6 DEF InCodec, CodecKnown, Left
<1>10. Histories /\ Referenced /\ PeerView /\ InGrants  BY DEF IInv
<1>11. Histories'  BY <1>1, <1>10 DEF Histories
<1>12. Referenced'  BY <1>1, <1>2, <1>7, <1>10, KeptReferenced
<1>13. PeerView'
  <2>1. \A t \in Slab(me') : PeerEnded(me'.store[t].state) => t \in {} \/ PeerEnded(me.store[t].state)
    BY <1>7 DEF Calm
  <2> QED  BY <1>1, <1>8, <1>10, <2>1, PeerStays
<1>14. InGrants'
  <2>1. /\ wire \in [Ids -> Marks] /\ BytesWritten \in Int
        /\ granted.conn \in Int /\ granted.stream \in [Ids -> Int]
    BY Facts
  <2>2. Grants  BY <1>1, <1>2, <1>7, <1>8, <2>1, CalmGrants
  <2>3. me'.flow.window - me.flow.window = granted'.conn - granted.conn  BY <2>2 DEF Grants
  <2>4. \A t \in Slab(me') : Queued(me'.ids, t) =>
          /\ Queued(me.ids, t)
          /\ me'.store[t].flow.window - me.store[t].flow.window <= granted'.stream[t] - granted.stream[t]
    BY <1>8, <2>2 DEF Grants
  <2>5. \A t \in Ids : t >= me'.nextId => t >= me.nextId /\ wire'[t] = wire[t]  BY <1>1, <1>8
  <2>6. granted'.conn \in Int /\ granted'.stream \in [Ids -> Int]
        /\ \A t \in Ids : wire'[t].bytes = wire[t].bytes
    BY <1>1, <2>1
  <2> QED  BY <1>2, <1>8, <1>10, <2>1, <2>3, <2>4, <2>5, <2>6, GrantsStay
<1>15. Sound(me', 0, InCodec')  BY <1>1, <1>6, <1>9
<1> QED  BY <1>9, <1>11, <1>12, <1>13, <1>14, <1>15 DEF IInv

\* The bytes of one more frame.
LEMMA BytesAdd ==
  ASSUME wire \in [Ids -> Marks], NEW s \in Ids, wire'[s].bytes \in Nat,
         \A t \in Ids : t # s => wire'[t].bytes = wire[t].bytes
  PROVE  BytesWritten' = BytesWritten + (wire'[s].bytes - wire[s].bytes)
<1> DEFINE a == [t \in Ids |-> wire[t].bytes]
           b == [t \in Ids |-> wire'[t].bytes]
<1>1. BytesWritten = SumFunction(a) /\ BytesWritten' = SumFunction(b)  BY DEF BytesWritten
<1>2. /\ DOMAIN a = Ids /\ DOMAIN b = Ids /\ \A t \in Ids : a[t] \in Int
      /\ b[s] = wire'[s].bytes /\ a[s] = wire[s].bytes /\ b[s] \in Int
      /\ \A t \in Ids : t # s => b[t] = a[t]
  BY DEF Marks
<1>3. IsFiniteSet(Ids)  BY IdsNat
<1> HIDE DEF a, b
<1>4. IsSummable(a)  BY <1>2, <1>3 DEF IsSummable
<1>5. SumFunction(b) = SumFunction(a) + (b[s] - a[s])  BY <1>2, <1>4, SumChange
<1> QED  BY <1>1, <1>2, <1>5

\* What a poll that writes a frame does to the windows and to the history.
LEMMA WriteFrameWrote ==
  ASSUME IInv, WriteFrame
  PROVE  \E f \in Written :
           /\ Sound(me', 0, Left(f.rest)) /\ Wrote(me, me', f)
           /\ codec' = (IF f.kind = "DATA" THEN f ELSE NoFrame)
           /\ wire' = [wire EXCEPT ![f.stream] = Write(wire[f.stream], f)]
           /\ UNCHANGED <<request, done, granted, accepted>>
<1> DEFINE f == Polled.frame
<1>1. /\ me.failed = {} /\ f # NoFrame /\ me' = Polled.me
      /\ codec' = (IF f.kind = "DATA" THEN f ELSE NoFrame)
      /\ wire' = [wire EXCEPT ![f.stream] = Write(wire[f.stream], f)]
      /\ UNCHANGED <<request, done, granted, accepted>>
  BY DEF WriteFrame, CanPoll, TaskRuns, Alive
<1>2. /\ Sound(me, 0, InCodec) /\ InCodec = Left(RestOf(codec)) /\ FrameKnown(me, codec)
  BY Facts
<1>3. Outcome(me, Polled)  BY <1>1, <1>2, PolledSound
<1>4. f \in Written /\ Sound(me', 0, Left(f.rest)) /\ Wrote(me, me', f)
  BY <1>1, <1>3 DEF Outcome
<1> HIDE DEF f
<1> QED  BY <1>1, <1>4

\* A poll that writes a frame keeps the inductive invariant.
LEMMA WriteFrameStays ==
  ASSUME IInv, WriteFrame
  PROVE  IInv'
<1>1. PICK f \in Written :
        /\ Sound(me', 0, Left(f.rest)) /\ Wrote(me, me', f)
        /\ codec' = (IF f.kind = "DATA" THEN f ELSE NoFrame)
        /\ wire' = [wire EXCEPT ![f.stream] = Write(wire[f.stream], f)]
        /\ UNCHANGED <<request, done, granted, accepted>>
  BY WriteFrameWrote
<1> DEFINE s == f.stream
<1>2. /\ me \in Locked /\ me.nextId \in Nat /\ \A t \in Slab(me) : t \in Ids /\ t < me.nextId
      /\ wire \in [Ids -> Marks] /\ BytesWritten \in Int
      /\ granted.conn \in Int /\ granted.stream \in [Ids -> Int]
  BY Facts
<1>3. Histories /\ Referenced /\ PeerView /\ InGrants  BY DEF IInv
<1>4. /\ Kept(me, me') /\ s \in Slab(me) /\ me'.flow.window = me.flow.window - f.len
      /\ \A t \in Slab(me') :
           /\ me'.store[t].flow.window = me.store[t].flow.window - (IF t = s THEN f.len ELSE 0)
           /\ PeerEnded(me'.store[t].state) => PeerEnded(me.store[t].state)
      /\ \/ f.kind # "DATA" /\ f.len = 0 /\ f.rest = 0 /\ me'.inFlight = Nothing
         \/ f.kind = "DATA" /\ f \in DataFrames /\ me'.inFlight \in {s, Dropped}
  BY <1>1 DEF Wrote
<1>5. /\ Slab(me') \subseteq Slab(me) /\ me' \in Locked /\ me'.nextId = me.nextId
      /\ \A t \in Slab(me') : Queued(me'.ids, t) => Queued(me.ids, t)
  BY <1>4 DEF Kept
<1>6. f # NoFrame /\ f.len \in Nat /\ s \in Ids  BY DEF Written, NoFrame, Kinds
<1>7. InCodec' = Left(f.rest) /\ CodecKnown'
  <2>1. s < me'.nextId  BY <1>2, <1>4, <1>5
  <2>2. CASE f.kind = "DATA"
    <3>1. codec' = f  BY <1>1, <2>2
    <3> QED  BY <1>4, <1>6, <2>1, <2>2, <3>1 DEF InCodec, CodecKnown, Left
  <2>3. CASE f.kind # "DATA"
    <3>1. codec' = NoFrame  BY <1>1, <2>3
    <3>2. f.rest = 0 /\ me'.inFlight = Nothing  BY <1>4, <2>3
    <3> QED  BY <3>1, <3>2 DEF InCodec, CodecKnown, Left
  <2> QED  BY <2>2, <2>3
<1>8. /\ wire' \in [Ids -> Marks] /\ wire'[s].bytes = wire[s].bytes + f.len
      /\ wire'[s].peer = wire[s].peer /\ \A t \in Ids : t # s => wire'[t] = wire[t]
  <2> DEFINE x == Write(wire[s], f)
  <2>1. x \in Marks /\ x.bytes = wire[s].bytes + f.len /\ x.peer = wire[s].peer
    BY <1>2, <1>4, <1>6, WriteTyped
  <2>2. wire' = [wire EXCEPT ![s] = x]  BY <1>1
  <2> HIDE DEF x, s
  <2> QED  BY <1>2, <1>6, <2>1, <2>2
<1> HIDE DEF s
<1>9. Histories'  BY <1>1, <1>3, <1>8 DEF Histories
<1>10. Referenced'  BY <1>1, <1>2, <1>3, <1>4, KeptReferenced
<1>11. PeerView'
  <2> DEFINE E == {}
  <2>1. ~done' => \A t \in Slab(me') : MayAnswer(wire'[t]) => MayAnswer(wire[t]) /\ t \notin E
    BY <1>2, <1>5, <1>8 DEF MayAnswer
  <2>2. \A t \in Slab(me') : PeerEnded(me'.store[t].state) => t \in E \/ PeerEnded(me.store[t].state)
    BY <1>4
  <2>3. done => done'  BY <1>1
  <2> HIDE DEF E
  <2> QED  BY <1>3, <1>5, <2>1, <2>2, <2>3, PeerStays
<1>12. InGrants'
  <2>1. BytesWritten' = BytesWritten + f.len
    <3>1. wire'[s].bytes \in Nat /\ wire[s].bytes \in Nat  BY <1>2, <1>6, <1>8 DEF Marks
    <3>2. \A t \in Ids : t # s => wire'[t].bytes = wire[t].bytes  BY <1>8
    <3>3. BytesWritten' = BytesWritten + (wire'[s].bytes - wire[s].bytes)
      BY <1>2, <1>6, <3>1, <3>2, BytesAdd
    <3> QED  BY <1>6, <1>8, <3>1, <3>3
  <2>2. me'.flow.window = granted'.conn - BytesWritten'
    <3>1. me.flow.window = granted.conn - BytesWritten  BY <1>3 DEF InGrants
    <3>2. granted'.conn = granted.conn  BY <1>1
    <3> QED  BY <1>2, <1>4, <1>6, <2>1, <3>1, <3>2
  <2>3. ASSUME NEW t \in Slab(me'), Queued(me'.ids, t)
        PROVE  me'.store[t].flow.window <= granted'.stream[t] - wire'[t].bytes
    <3>1. t \in Slab(me) /\ Queued(me.ids, t) /\ t \in Ids  BY <1>2, <1>5, <2>3
    <3>2. me.store[t].flow.window <= granted.stream[t] - wire[t].bytes  BY <1>3, <3>1 DEF InGrants
    <3>3. me.store[t].flow.window \in Int  BY <1>2, <3>1, StreamTyped DEF Streams, Flows
    <3>4. granted.stream[t] \in Int /\ granted' = granted  BY <1>1, <1>2, <3>1
    <3>5. wire[t].bytes \in Int  BY <1>2, <3>1 DEF Marks
    <3>6. wire'[t].bytes = wire[t].bytes + (IF t = s THEN f.len ELSE 0)  BY <1>8, <3>1, <3>5
    <3>7. me'.store[t].flow.window = me.store[t].flow.window - (IF t = s THEN f.len ELSE 0)  BY <1>4
    <3> QED  BY <1>6, <3>2, <3>3, <3>4, <3>5, <3>6, <3>7
  <2>4. ASSUME NEW t \in Ids, t >= me'.nextId PROVE wire'[t].bytes = 0 /\ wire'[t].peer = "silent"
    <3>1. t \in Nat /\ s < me.nextId /\ s \in Nat  BY <1>2, <1>4, <1>6, IdsNat
    <3>2. t >= me.nextId /\ t # s  BY <1>2, <1>5, <2>4, <3>1
    <3> QED  BY <1>3, <1>8, <3>2 DEF InGrants
  <2> QED  BY <2>2, <2>3, <2>4 DEF InGrants, Slab
<1>13. Sound(me', 0, InCodec')  BY <1>1, <1>7
<1> QED  BY <1>7, <1>9, <1>10, <1>11, <1>12, <1>13 DEF IInv

-----------------------------------------------------------------------------
(* The theorems.                                                             *)

\* The first state is typed, with an empty slab.
LEMMA InitLocked ==
  ASSUME Init
  PROVE  me \in Locked /\ Slab(me) = {}
<1>1. <<>> \in Stores /\ DOMAIN <<>> = {}
  <2>1. DOMAIN <<>> = {} /\ <<>> \in [{} -> Streams]  OBVIOUS
  <2> QED  BY <2>1 DEF Stores
<1>2. /\ InitWindow \in Nat /\ InitMaxStreams \in Nat
      /\ Cardinality(Ids) \in Int
  <2>1. Cardinality(Ids) \in Nat  BY IdsNat, FS_CardinalityType
  <2> QED  BY <2>1, SendAssumption, MaxWindowAssumption
<1>3. Flow(InitWindow, InitWindow) \in Flows  BY <1>2 DEF Flow, Flows
<1>4. <<>> \in Seq(Ids)  OBVIOUS
<1>5. /\ me.store = <<>> /\ me = [store |-> <<>>, ids |-> <<>>, pendingSend |-> <<>>,
           pendingCapacity |-> <<>>, pendingOpen |-> <<>>, pendingReset |-> <<>>,
           flow |-> Flow(InitWindow, InitWindow), inFlight |-> Nothing,
           numSend |-> 0, maxSend |-> InitMaxStreams, numReset |-> 0,
           initWindow |-> InitWindow, nextId |-> 1, maxId |-> Cardinality(Ids),
           connError |-> FALSE, woken |-> TRUE, failed |-> {}]
  BY DEF Init
<1>6. me \in Locked  BY <1>1, <1>2, <1>3, <1>4, <1>5 DEF Locked
<1> QED  BY <1>1, <1>5, <1>6 DEF Slab

\* Nothing was written at first.
LEMMA InitBytes ==
  ASSUME Init
  PROVE  wire \in [Ids -> Marks] /\ (\A t \in Ids : wire[t].bytes = 0 /\ wire[t].peer = "silent")
         /\ BytesWritten = 0
<1>1. wire = [s \in Ids |-> [headers |-> FALSE, bytes |-> 0, eos |-> FALSE,
                             rst |-> 0, peer |-> "silent"]]
  BY DEF Init
<1>2. wire \in [Ids -> Marks] /\ (\A t \in Ids : wire[t].bytes = 0 /\ wire[t].peer = "silent")
  BY <1>1 DEF Marks
<1> DEFINE a == [t \in Ids |-> wire[t].bytes]
<1>3. DOMAIN a = Ids /\ (\A t \in Ids : a[t] = 0) /\ BytesWritten = SumFunction(a)
  BY <1>2 DEF BytesWritten
<1>4. IsFiniteSet(Ids)  BY IdsNat
<1> HIDE DEF a
<1>5. IsSummable(a)  BY <1>3, <1>4 DEF IsSummable
<1>6. SumFunction(a) = 0  BY <1>3, <1>5, SumZero
<1> QED  BY <1>2, <1>3, <1>6

\* The first state is sound.
LEMMA InitSound ==
  ASSUME Init
  PROVE  Sound(me, 0, InCodec)
<1>1. me \in Locked /\ Slab(me) = {}  BY InitLocked
<1>2. /\ me.ids = <<>> /\ me.pendingSend = <<>> /\ me.pendingCapacity = <<>>
      /\ me.pendingOpen = <<>> /\ me.pendingReset = <<>>
      /\ me.flow = Flow(InitWindow, InitWindow) /\ me.inFlight = Nothing
      /\ me.numSend = 0 /\ me.numReset = 0 /\ me.failed = {}
  BY DEF Init
<1>3. Queues(me)  BY <1>1, <1>2, EmptyQueue DEF Queues
<1>4. Findable(me) /\ Working(me) /\ Fine(me, InCodec)  BY <1>1 DEF Findable, Working, Fine
<1>5. Slots(me)
  <2>1. Counted(me) = {}  BY <1>1 DEF Counted
  <2>2. Cardinality({}) = 0  BY FS_EmptySet
  <2>3. Len(<<>>) = 0 /\ MaxReset \in Nat  BY SendAssumption
  <2> QED  BY <1>2, <2>1, <2>2, <2>3 DEF Slots
<1>6. Returnable(me, InCodec)  BY <1>2, IdsNat DEF Returnable
<1>7. Balanced(me, 0)
  <2>1. HandedOut(me) = 0
    <3>1. HandedOut(me) = SumFunction(Availables(me)) /\ DOMAIN Availables(me) = {}
      BY <1>1, AvailablesSummable
    <3> QED  BY <3>1, SumEmpty
  <2>2. InitWindow \in Nat  BY SendAssumption, MaxWindowAssumption
  <2>3. me.flow.window = InitWindow /\ me.flow.available = InitWindow  BY <1>2 DEF Flow
  <2> QED  BY <2>1, <2>2, <2>3 DEF Balanced
<1>8. Trusty(me)  BY <1>2 DEF Trusty
<1> QED  BY <1>1, <1>3, <1>4, <1>5, <1>6, <1>7, <1>8 DEF Sound

\* The first state satisfies the inductive invariant.
LEMMA InitHolds ==
  Init => IInv
<1> SUFFICES ASSUME Init PROVE IInv
  OBVIOUS
<1>1. Sound(me, 0, InCodec)  BY InitSound
<1>2. me \in Locked /\ Slab(me) = {}  BY InitLocked
<1>3. /\ wire \in [Ids -> Marks] /\ (\A t \in Ids : wire[t].bytes = 0 /\ wire[t].peer = "silent")
      /\ BytesWritten = 0
  BY InitBytes
<1>4. InitWindow \in Nat /\ MaxData \in Nat  BY SendAssumption, MaxWindowAssumption
<1>5. Histories
  <2>1. granted \in [conn : Int, stream : [Ids -> Int], settings : Nat]  BY <1>4 DEF Init
  <2>2. request \in [Handles -> Ids \cup {Nothing, Dropped}]  BY DEF Init
  <2>3. accepted \in [Ids -> 0 .. MaxData]  BY <1>4 DEF Init
  <2> QED  BY <1>3, <2>1, <2>2, <2>3 DEF Histories
<1>6. CodecKnown  BY DEF Init, CodecKnown
<1>7. Referenced  BY <1>2 DEF Init, Referenced
<1>8. PeerView  BY <1>2 DEF PeerView
<1>9. InGrants
  <2>1. me.flow.window = InitWindow /\ granted.conn = InitWindow  BY DEF Init, Flow
  <2> QED  BY <1>2, <1>3, <1>4, <2>1 DEF InGrants
<1> QED  BY <1>1, <1>5, <1>6, <1>7, <1>8, <1>9 DEF IInv

\* A step that changes nothing keeps the inductive invariant.
LEMMA StutterStays ==
  ASSUME IInv, UNCHANGED vars
  PROVE  IInv'
BY DEF IInv, vars, InCodec, Histories, CodecKnown, Referenced, Waiting, Waits, PeerView, InGrants,
       BytesWritten, Slab

\* Every step keeps the inductive invariant.
LEMMA NextStays ==
  ASSUME IInv, Next
  PROVE  IInv'
<1>1. CASE Application
  <2>1. ASSUME NEW h \in Handles, PollReady(h) PROVE IInv'  BY <2>1, PollReadyStays
  <2>2. ASSUME NEW h \in Handles, DropSendRequest(h) PROVE IInv'  BY <2>2, DropSendRequestStays
  <2>3. ASSUME NEW h \in Handles, NEW eos \in BOOLEAN, SendRequest(h, eos) PROVE IInv'
    BY <2>3, SendRequestStays
  <2>4. ASSUME NEW s \in Ids, NEW sz \in DataSizes, NEW eos \in BOOLEAN, SendData(s, sz, eos)
        PROVE  IInv'
    BY <2>4, SendDataStays
  <2>5. ASSUME NEW s \in Ids, SendTrailers(s) PROVE IInv'  BY <2>5, SendTrailersStays
  <2>6. ASSUME NEW s \in Ids, NEW n \in ReserveSizes, Reserve(s, n) PROVE IInv'  BY <2>6, ReserveStays
  <2>7. ASSUME NEW s \in Ids, ResetByUser(s) PROVE IInv'  BY <2>7, ResetByUserStays
  <2>8. ASSUME NEW s \in Ids, DropHandle(s) PROVE IInv'  BY <2>8, DropHandleStays
  <2> QED  BY <1>1, <2>1, <2>2, <2>3, <2>4, <2>5, <2>6, <2>7, <2>8 DEF Application
<1>2. CASE Reading
  <2>1. ASSUME NEW s \in Ids, NEW eos \in BOOLEAN, RecvHeaders(s, eos) PROVE IInv'
    BY <2>1, RecvHeadersStays
  <2>2. ASSUME NEW s \in Ids, RecvEndStream(s) PROVE IInv'  BY <2>2, RecvEndStreamStays
  <2>3. ASSUME NEW s \in Ids, RecvBadData(s) PROVE IInv'  BY <2>3, RecvBadDataStays
  <2>4. ASSUME NEW s \in Ids, RecvResetFrame(s) PROVE IInv'  BY <2>4, RecvResetFrameStays
  <2>5. ASSUME NEW s \in Ids, NEW inc \in 1 .. MaxGrant, RecvWindowUpdate(s, inc) PROVE IInv'
    BY <2>5, RecvWindowUpdateStays
  <2>6. ASSUME NEW inc \in 1 .. MaxGrant, RecvConnWindowUpdate(inc) PROVE IInv'
    BY <2>6, RecvConnWindowUpdateStays
  <2>7. ASSUME NEW val \in WindowSettings, RecvWindowSetting(val) PROVE IInv'
    BY <2>7, RecvWindowSettingStays
  <2>8. ASSUME NEW val \in StreamSettings, RecvStreamsSetting(val) PROVE IInv'
    BY <2>8, RecvStreamsSettingStays
  <2>9. ASSUME NEW last \in 0 .. Cardinality(Ids), RecvGoAway(last) PROVE IInv'
    BY <2>9, RecvGoAwayStays
  <2>10. ASSUME ResetExpires PROVE IInv'  BY <2>10, ResetExpiresStays
  <2>11. ASSUME RecvEof PROVE IInv'  BY <2>11, RecvEofStays
  <2> QED  BY <1>2, <2>1, <2>2, <2>3, <2>4, <2>5, <2>6, <2>7, <2>8, <2>9, <2>10, <2>11 DEF Reading
<1>3. CASE Writing
  <2>1. ASSUME WriteFrame PROVE IInv'  BY <2>1, WriteFrameStays
  <2>2. ASSUME Park PROVE IInv'  BY <2>2, ParkStays
  <2> QED  BY <1>3, <2>1, <2>2 DEF Writing
<1> QED  BY <1>1, <1>2, <1>3 DEF Next

\* The inductive invariant holds in every reachable state, for any number of
\* streams, any windows and settings, and whatever the application does.
THEOREM InvariantHolds == Spec => []IInv
<1>1. Init => IInv  BY InitHolds
<1>2. IInv /\ [Next]_vars => IInv'  BY NextStays, StutterStays
<1> QED  BY <1>1, <1>2, PTL DEF Spec

\* What the application has taken of the wire's history: no step but one that
\* writes a frame counts bytes.
LEMMA QuietBytes ==
  ASSUME IInv, Next, ~WriteFrame, NEW s \in Ids
  PROVE  wire'[s].bytes = wire[s].bytes
<1>1. wire \in [Ids -> Marks]  BY Facts
<1>2. ASSUME NEW t \in Ids, NEW x, wire' = [wire EXCEPT ![t].peer = x]
      PROVE  wire'[s].bytes = wire[s].bytes
  <2>1. wire[t] \in Marks  BY <1>1
  <2>2. [wire[t] EXCEPT !.peer = x].bytes = wire[t].bytes  BY <2>1 DEF Marks
  <2>3. wire' = [wire EXCEPT ![t] = [wire[t] EXCEPT !.peer = x]]  BY <1>2
  <2> QED  BY <1>1, <2>2, <2>3
<1>3. CASE Application
  <2>1. wire' = wire
    BY <1>3 DEF Application, PollReady, DropSendRequest, SendRequest, SendData, SendTrailers, Reserve,
       ResetByUser, DropHandle
  <2> QED  BY <2>1
<1>4. CASE Reading
  <2>1. ASSUME NEW t \in Ids, NEW eos \in BOOLEAN, RecvHeaders(t, eos) PROVE wire'[s].bytes = wire[s].bytes
    BY <1>2, <2>1 DEF RecvHeaders, PeerSays
  <2>2. ASSUME NEW t \in Ids, RecvEndStream(t) PROVE wire'[s].bytes = wire[s].bytes
    BY <1>2, <2>2 DEF RecvEndStream, PeerSays
  <2>3. ASSUME NEW t \in Ids, RecvResetFrame(t) PROVE wire'[s].bytes = wire[s].bytes
    BY <1>2, <2>3 DEF RecvResetFrame, PeerSays
  <2>4. ASSUME wire' = wire PROVE wire'[s].bytes = wire[s].bytes  BY <2>4
  <2>5. ASSUME NEW t \in Ids, RecvBadData(t) PROVE wire' = wire  BY <2>5 DEF RecvBadData
  <2>6. ASSUME NEW t \in Ids, NEW inc, RecvWindowUpdate(t, inc) PROVE wire' = wire
    BY <2>6 DEF RecvWindowUpdate
  <2>7. ASSUME NEW inc, RecvConnWindowUpdate(inc) PROVE wire' = wire  BY <2>7 DEF RecvConnWindowUpdate
  <2>8. ASSUME NEW val, RecvWindowSetting(val) PROVE wire' = wire  BY <2>8 DEF RecvWindowSetting
  <2>9. ASSUME NEW val, RecvStreamsSetting(val) PROVE wire' = wire  BY <2>9 DEF RecvStreamsSetting
  <2>10. ASSUME NEW last, RecvGoAway(last) PROVE wire' = wire  BY <2>10 DEF RecvGoAway
  <2>11. ASSUME ResetExpires PROVE wire' = wire  BY <2>11 DEF ResetExpires
  <2>12. ASSUME RecvEof PROVE wire' = wire  BY <2>12 DEF RecvEof
  <2> QED
    BY <1>4, <2>1, <2>2, <2>3, <2>4, <2>5, <2>6, <2>7, <2>8, <2>9, <2>10, <2>11, <2>12 DEF Reading
<1>5. CASE Park
  BY <1>5 DEF Park
<1> QED  BY <1>3, <1>4, <1>5 DEF Next, Writing

\* A frame goes out only inside what the peer granted.
LEMMA WriteFrameInGrants ==
  ASSUME IInv, WriteFrame, Prudent, NEW s \in Ids, wire'[s].bytes > wire[s].bytes
  PROVE  wire'[s].bytes <= granted.stream[s] /\ BytesWritten' <= granted.conn
<1>1. PICK f \in Written :
        Wrote(me, me', f) /\ wire' = [wire EXCEPT ![f.stream] = Write(wire[f.stream], f)]
  BY WriteFrameWrote
<1>2. /\ me \in Locked /\ wire \in [Ids -> Marks] /\ BytesWritten \in Int
      /\ granted.conn \in Int /\ granted.stream \in [Ids -> Int]
  BY Facts
<1>3. /\ f.stream \in Slab(me) /\ f.stream \in Ids /\ f.len \in Nat
      /\ f.kind # "DATA" => f.len = 0
      /\ f.len > 0 => /\ Queued(me.ids, f.stream) /\ f.len <= me.store[f.stream].flow.window
                      /\ f.len <= me.flow.window
  BY <1>1 DEF Wrote, Written
<1>4. wire' \in [Ids -> Marks]  BY WriteFrameStays DEF IInv, Histories
<1>5. /\ wire'[f.stream] = Write(wire[f.stream], f)
      /\ \A t \in Ids : t # f.stream => wire'[t] = wire[t]
  BY <1>1, <1>2, <1>3
<1>6. Write(wire[f.stream], f).bytes = wire[f.stream].bytes + f.len
  BY <1>2, <1>3, WriteTyped
<1>7. \A t \in Ids : wire[t].bytes \in Nat /\ wire'[t].bytes \in Nat  BY <1>2, <1>4 DEF Marks
<1>8. s = f.stream /\ f.len > 0
  <2>1. s = f.stream  BY <1>5, <1>7
  <2> QED  BY <1>3, <1>5, <1>6, <1>7, <2>1
<1>9. BytesWritten' = BytesWritten + f.len
  <2>1. \A t \in Ids : t # s => wire'[t].bytes = wire[t].bytes  BY <1>5, <1>8
  <2>2. BytesWritten' = BytesWritten + (wire'[s].bytes - wire[s].bytes)
    BY <1>2, <1>7, <2>1, BytesAdd
  <2> QED  BY <1>2, <1>3, <1>5, <1>6, <1>7, <1>8, <2>2
<1>10. InGrants  BY DEF IInv
<1>11. /\ me.flow.window = granted.conn - BytesWritten
       /\ me.store[s].flow.window <= granted.stream[s] - wire[s].bytes
  BY <1>3, <1>8, <1>10 DEF InGrants
<1>12. me.flow.window \in Int /\ me.store[s].flow.window \in Int /\ granted.stream[s] \in Int
  <2>1. me.store[s] \in Streams  BY <1>2, <1>3, <1>8, StreamTyped
  <2> QED  BY <1>2, <2>1 DEF Locked, Streams, Flows
<1> QED  BY <1>2, <1>3, <1>5, <1>6, <1>7, <1>8, <1>9, <1>11, <1>12

\* No step writes more than the peer granted.
LEMMA StepInGrants ==
  ASSUME Prudent, IInv, [Next]_vars, NEW s \in Ids, wire'[s].bytes > wire[s].bytes
  PROVE  wire'[s].bytes <= granted.stream[s] /\ BytesWritten' <= granted.conn
<1>1. wire[s].bytes \in Nat  BY Facts DEF Marks
<1>2. CASE WriteFrame  BY <1>2, WriteFrameInGrants
<1>3. CASE UNCHANGED vars
  <2>1. wire'[s].bytes = wire[s].bytes  BY <1>3 DEF vars
  <2> QED  BY <1>1, <2>1
<1>4. CASE Next /\ ~WriteFrame
  <2>1. wire'[s].bytes = wire[s].bytes  BY <1>4, QuietBytes
  <2> QED  BY <1>1, <2>1
<1> QED  BY <1>2, <1>3, <1>4

\* DATA is written only inside what the peer granted, on the stream and on
\* the connection, however windows shrink and grow, for an application that
\* does not drop streams with a reservation.
THEOREM GrantsRespected == Prudent => (Spec => WithinGrants)
<1> SUFFICES ASSUME Prudent PROVE Spec => WithinGrants
  OBVIOUS
<1>1. IInv /\ [Next]_vars =>
        [\A s \in Ids : wire'[s].bytes > wire[s].bytes =>
           /\ wire'[s].bytes <= granted.stream[s]
           /\ BytesWritten' <= granted.conn]_vars
  BY StepInGrants
<1>2. Spec => []IInv  BY InvariantHolds
<1> QED  BY <1>1, <1>2, PTL DEF Spec, WithinGrants

\* With an empty DATA frame never sent, no assertion of the code fails.
THEOREM AssertsHold == Careful => (Spec => []NoAssertFails)
<1> SUFFICES ASSUME Careful PROVE Spec => []NoAssertFails
  OBVIOUS
<1>1. IInv => NoAssertFails
  BY DEF IInv, Sound, Trusty, NoAssertFails
<1> QED  BY <1>1, InvariantHolds, PTL

\* Capacity is neither lost nor invented, and nobody holds what it cannot use.
THEOREM CapacityHolds == Prudent => (Spec => []CapacityAccounted)
<1> SUFFICES ASSUME Prudent PROVE Spec => []CapacityAccounted
  OBVIOUS
<1>1. IInv => CapacityConserved
  <2> SUFFICES ASSUME IInv PROVE CapacityConserved
    OBVIOUS
  <2>1. Sound(me, 0, InCodec) /\ me \in Locked  BY Facts
  <2>2. me.flow.window = me.flow.available + HandedOut(me) + 0  BY <2>1 DEF Sound, Balanced
  <2>3. HandedOut(me) \in Int /\ me.flow.available \in Int
    BY <2>1, AvailablesSummable DEF Locked, Flows
  <2> QED  BY <2>2, <2>3 DEF CapacityConserved
<1>2. IInv => CapacityUsable
  BY DEF IInv, Sound, Fine, StreamFine, CapacityUsable
<1>3. IInv => CapacityAccounted  BY <1>1, <1>2 DEF CapacityAccounted
<1> QED  BY <1>3, InvariantHolds, PTL

\* The same without its first half, which needs no care of the application.
THEOREM CapacityStaysUsable == Spec => []CapacityUsable
<1>1. IInv => CapacityUsable
  BY DEF IInv, Sound, Fine, StreamFine, CapacityUsable
<1> QED  BY <1>1, InvariantHolds, PTL

\* A queue names streams of the slab, each once.
LEMMA QueueInSlab ==
  ASSUME NEW S, NEW q, IsQueue(q, S)
  PROVE  ToSet(q) \subseteq S /\ IsInjective(q)
<1>1. q \in Seq(S) /\ IsInjective(q)  BY DEF IsQueue
<1>2. \A i \in DOMAIN q : q[i] \in S  BY <1>1
<1> QED  BY <1>1, <1>2 DEF ToSet

\* The locked state and the histories have their types: in particular no
\* counter is negative and no queue names a stream that left the slab.
THEOREM TypeCorrect == Spec => []TypeOK
<1>1. ASSUME IInv PROVE TypeOK
  <2>1. /\ Sound(me, 0, InCodec) /\ InCodec \in Loose /\ me \in Locked
        /\ me.nextId \in Nat /\ \A t \in Slab(me) : t \in Ids
    BY <1>1, Facts
  <2>2. ASSUME NEW s \in Slab(me)
        PROVE  /\ me.store[s].state \in States
               /\ me.store[s].flow \in Flows
               /\ {me.store[s].refs, me.store[s].requested, me.store[s].buffered} \subseteq Nat
               /\ ToSet(me.store[s].pending) \subseteq
                    [kind : {"HEADERS", "DATA", "TRAILERS", "RST_STREAM"}, len : 0 .. MaxData, eos : BOOLEAN]
    <3>1. me.store[s] \in Streams /\ me.store[s].buffered \in Nat /\ me.store[s].requested \in Nat
      BY <2>1, StreamFacts
    <3>2. me.store[s].refs \in Nat
      <4>1. me.store[s].refs >= Cardinality(Waiting(s)) + (IF Droppable = {} THEN 1 ELSE 0)
        BY <1>1 DEF IInv, Referenced
      <4>2. Cardinality(Waiting(s)) \in Nat
        <5>1. IsFiniteSet(Handles) /\ Waiting(s) \subseteq Handles  BY SendAssumption DEF Waiting
        <5> QED  BY <5>1, FS_Subset, FS_CardinalityType
      <4>3. me.store[s].refs \in Int  BY <3>1 DEF Streams
      <4> QED  BY <4>1, <4>2, <4>3
    <3>3. ToSet(me.store[s].pending) \subseteq FrameTypes
      <4>1. me.store[s].pending \in Seq(SendFrames)  BY <3>1 DEF Streams
      <4>2. \A i \in DOMAIN me.store[s].pending : me.store[s].pending[i] \in SendFrames  BY <4>1
      <4> QED  BY <4>2 DEF ToSet, SendFrames
    <3> QED  BY <3>1, <3>2, <3>3 DEF Streams, FrameTypes
  <2>3. Queues(me)  BY <2>1 DEF Sound
  <2>4. \A q \in {me.pendingSend, me.pendingCapacity, me.pendingOpen, me.pendingReset, me.ids} :
          ToSet(q) \subseteq Slab(me) /\ IsInjective(q)
    <3>1. \A q \in {me.pendingSend, me.pendingCapacity, me.pendingOpen, me.pendingReset, me.ids} :
            IsQueue(q, Slab(me))
      BY <2>3 DEF Queues
    <3> QED  BY <3>1, QueueInSlab
  <2>5. /\ me.flow \in Flows /\ me.inFlight \in Ids \cup {Nothing, Dropped}
        /\ me.maxSend \in Nat /\ me.initWindow \in Nat /\ me.numReset \in Int
    BY <2>1 DEF Locked
  <2>6. me.numSend \in Nat
    <3>1. IsFiniteSet(Counted(me))  BY <2>1, CountedFinite
    <3>2. me.numSend = Cardinality(Counted(me))  BY <2>1 DEF Sound, Slots
    <3> QED  BY <3>1, <3>2, FS_CardinalityType
  <2>7. me.numReset \in Nat
    <3>1. Len(me.pendingReset) <= me.numReset  BY <2>1 DEF Sound, Slots
    <3>2. Len(me.pendingReset) \in Nat  BY <2>3 DEF Queues, IsQueue
    <3> QED  BY <2>5, <3>1, <3>2
  <2> QED  BY <2>1, <2>2, <2>4, <2>5, <2>6, <2>7 DEF TypeOK
<1> QED  BY <1>1, InvariantHolds, PTL

\* buffered_send_data is what the stream's queue and the codec hold of it,
\* through splits, reclaims, resets and failures.
THEOREM BufferedMatches == Spec => []BufferedIsQueued
<1>1. ASSUME IInv PROVE BufferedIsQueued
  <2> SUFFICES ASSUME NEW s \in Slab(me) PROVE me.store[s].buffered = Unsent(s)
    BY DEF BufferedIsQueued
  <2>1. /\ Sound(me, 0, InCodec) /\ InCodec \in Loose /\ s \in Ids
        /\ InCodec.new[s] = 0 /\ InCodec = Left(RestOf(codec))
    BY <1>1, Facts
  <2>2. StreamFine(me.store[s], Held(me, InCodec, s)) /\ Bytes(me.store[s].pending) \in Nat
    BY <2>1, StreamFacts
  <2>3. me.store[s].buffered = Bytes(me.store[s].pending) + Held(me, InCodec, s)
    BY <2>2 DEF StreamFine
  <2>4. CASE me.inFlight = s
    <3>1. codec # NoFrame /\ codec.rest \in Nat
      <4>1. me.inFlight # Nothing  BY <2>1, <2>4, IdsNat
      <4>2. codec \in DataFrames  BY <1>1, <4>1 DEF IInv, CodecKnown
      <4>3. codec.kind = "DATA" /\ codec.rest \in 0 .. MaxData  BY <4>2 DEF DataFrames
      <4>4. codec # NoFrame  BY <4>3 DEF NoFrame
      <4> QED  BY <4>3, <4>4, SendAssumption
    <3>2. InCodec.codec = codec.rest  BY <2>1, <3>1 DEF Left, RestOf
    <3>3. Held(me, InCodec, s) = codec.rest  BY <2>1, <2>4, <3>1, <3>2 DEF Held
    <3> QED  BY <2>3, <2>4, <3>3 DEF Unsent
  <2>5. CASE me.inFlight # s
    <3>1. Held(me, InCodec, s) = 0  BY <2>1, <2>5 DEF Held
    <3> QED  BY <2>3, <2>5, <3>1 DEF Unsent
  <2> QED  BY <2>4, <2>5
<1> QED  BY <1>1, InvariantHolds, PTL

\* num_send_streams counts the streams that hold a slot, and the reset slots
\* cover the streams kept for late frames.
THEOREM SlotsCounted == Spec => []SlotsAccountedFor
<1>1. IInv => SlotsAccountedFor
  BY DEF IInv, Sound, Slots, Counted, SlotsAccountedFor
<1> QED  BY <1>1, InvariantHolds, PTL
=============================================================================
