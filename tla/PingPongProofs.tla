---------------------------- MODULE PingPongProofs ----------------------------
(* The safety of PingPong for every number of PINGs and stray frames.        *)
EXTENDS PingPong, TLAPS

\* A waiting user has a waker registered or has been woken.
WaiterIsKnown == user \in {"registered", "parked"} => pongTask \/ userWoken

\* How many PINGs were asked for, written and answered in each state; the task
\* writes only what was asked for, and stores only what it has just written.
PingsCounted ==
  /\ state \in {"Empty", "PendingPing", "PendingPong", "ReceivedPong"} =>
       asked = IF state = "Empty" THEN delivered ELSE delivered + 1
  /\ state = "Empty" => written = delivered
  /\ state = "PendingPing" =>
       written = IF conn = "store" THEN delivered + 1 ELSE delivered
  /\ state \in {"PendingPong", "ReceivedPong"} => written = delivered + 1
  /\ state = "Closed" => delivered <= written /\ written <= asked /\ asked <= delivered + 1
  /\ conn \in {"write", "store"} => state = "PendingPing"

\* A shutdown PING is pending only after a GOAWAY.
ShutdownAnnounced == pendingPing # "none" => goingAway

\* recv_ping is reached only through send_pending_pong.
PongSentFirst ==
  conn \in {"ping", "register", "write", "store", "read", "wakePong"} => ~pendingPong

\* What makes the task poll again, or lets it see a later PING in time.
WillLook ==
  \/ scheduled \/ blocked \/ pendingPing # "none"
  \/ conn = "read" /\ inbox # <<>>

\* Where the next PING finds the task: with its waker registered, or on its
\* way to the load.  A PING whose sender has yet to wake the task, too.
PingFindsTask ==
  /\ state # "Empty" => taken
  /\ taken /\ state \in {"Empty", "ReceivedPong"} /\ conn \in {"parked", "read"} =>
       pingTask \/ WillLook
  /\ state = "PendingPing" /\ user = "wake" /\ conn \in {"parked", "read"} =>
       pingTask \/ WillLook

\* The inductive invariant.
Inv ==
  /\ TypeOK /\ WaiterIsKnown /\ ParkedUserIsWoken /\ PingsCounted
  /\ ShutdownAnnounced /\ PongSentFirst /\ PingFindsTask /\ PingIsNoticed
-----------------------------------------------------------------------------
\* Every step keeps the types.
LEMMA TypeStep ==
  ASSUME TypeOK, [Next]_vars
  PROVE  TypeOK'
<1> USE DEF TypeOK, Payloads, Frames, connVars, peerVars, counts
<1>1. CASE SendShutdownPing
  BY <1>1 DEF SendShutdownPing
<1>2. CASE WriteUserPing
  BY <1>2 DEF WriteUserPing
<1>3. CASE RecvPing
  BY <1>3 DEF RecvPing, Read
<1>4. CASE RecvShutdownAck
  BY <1>4 DEF RecvShutdownAck, Read
<1>5. CASE RecvUserAck
  BY <1>5 DEF RecvUserAck, Read
<1>6. CASE WakePong
  BY <1>6 DEF WakePong
<1>7. CASE WakeClosed
  BY <1>7 DEF WakeClosed
<1>8. CASE WakePingTask
  BY <1>8 DEF WakePingTask
<1>9. CASE TakePong
  BY <1>9 DEF TakePong
<1>10. CASE SendPing
  BY <1>10 DEF SendPing
<1>11. CASE \E p \in Payloads : Answer(p)
  BY <1>11 DEF Answer, Arrives
<1>12. CASE \E frame \in Frames : Stray(frame)
  BY <1>12 DEF Stray, Arrives
<1>13. CASE TakeUserPings \/ GoAwayGracefully \/ DropConnection \/ Begin \/
           SendPendingPong \/ LoadState \/ RegisterPingTask \/
           StorePendingPong \/ NothingToRead \/ Block \/ Unblock \/
           RegisterPongTask \/ StopWaiting
  BY <1>13 DEF
    TakeUserPings, GoAwayGracefully, DropConnection, Begin, SendPendingPong,
    LoadState, RegisterPingTask, StorePendingPong, NothingToRead, Block,
    Unblock, RegisterPongTask, StopWaiting
<1>14. CASE UNCHANGED vars
  BY <1>14 DEF vars
<1> QED
  BY <1>1, <1>2, <1>3, <1>4, <1>5, <1>6, <1>7, <1>8, <1>9, <1>10, <1>11,
     <1>12, <1>13, <1>14
     DEF Next, Owner, Poll, UserStep, Peer

\* Only a wake takes the waker of a waiting user away.
LEMMA WaiterStep ==
  ASSUME TypeOK, WaiterIsKnown, [Next]_vars
  PROVE  WaiterIsKnown'
<1> USE DEF TypeOK, WaiterIsKnown, connVars, peerVars, counts
<1>1. CASE WakePong
  BY <1>1 DEF WakePong
<1>2. CASE WakeClosed
  BY <1>2 DEF WakeClosed
<1>3. CASE RegisterPongTask
  BY <1>3 DEF RegisterPongTask
<1>4. CASE TakePong
  BY <1>4 DEF TakePong
<1>5. CASE TakeUserPings \/ GoAwayGracefully \/ DropConnection \/ Begin \/
           SendPendingPong \/ SendShutdownPing \/ LoadState \/
           RegisterPingTask \/ WriteUserPing \/ StorePendingPong \/
           NothingToRead \/ RecvPing \/ RecvShutdownAck \/ RecvUserAck \/
           Block \/ Unblock \/ WakePingTask \/ SendPing \/ StopWaiting \/
           (\E p \in Payloads : Answer(p)) \/
           (\E frame \in Frames : Stray(frame))
  BY <1>5 DEF
    TakeUserPings, GoAwayGracefully, DropConnection, Begin, SendPendingPong,
    SendShutdownPing, LoadState, RegisterPingTask, WriteUserPing,
    StorePendingPong, NothingToRead, RecvPing, Read, RecvShutdownAck,
    RecvUserAck, Block, Unblock, WakePingTask, SendPing, StopWaiting, Answer,
    Arrives, Stray
<1>6. CASE UNCHANGED vars
  BY <1>6 DEF vars
<1> QED
  BY <1>1, <1>2, <1>3, <1>4, <1>5, <1>6
     DEF Next, Owner, Poll, UserStep, Peer

\* ParkedUserIsWoken, from the waker of a waiting user.
LEMMA ParkedStep ==
  ASSUME TypeOK, WaiterIsKnown, ParkedUserIsWoken, [Next]_vars
  PROVE  ParkedUserIsWoken'
<1> USE DEF TypeOK, WaiterIsKnown, ParkedUserIsWoken, connVars, peerVars, counts
<1>1. CASE DropConnection
  BY <1>1 DEF DropConnection
<1>2. CASE RecvUserAck
  BY <1>2 DEF RecvUserAck, Read
<1>3. CASE WakePong
  BY <1>3 DEF WakePong
<1>4. CASE WakeClosed
  BY <1>4 DEF WakeClosed
<1>5. CASE RegisterPongTask
  BY <1>5 DEF RegisterPongTask
<1>6. CASE TakePong
  BY <1>6 DEF TakePong
<1>7. CASE TakeUserPings \/ GoAwayGracefully \/ Begin \/ SendPendingPong \/
           SendShutdownPing \/ LoadState \/ RegisterPingTask \/
           WriteUserPing \/ StorePendingPong \/ NothingToRead \/ RecvPing \/
           RecvShutdownAck \/ Block \/ Unblock \/ WakePingTask \/ SendPing \/
           StopWaiting \/ (\E p \in Payloads : Answer(p)) \/
           (\E frame \in Frames : Stray(frame))
  BY <1>7 DEF
    TakeUserPings, GoAwayGracefully, Begin, SendPendingPong, SendShutdownPing,
    LoadState, RegisterPingTask, WriteUserPing, StorePendingPong,
    NothingToRead, RecvPing, Read, RecvShutdownAck, Block, Unblock,
    WakePingTask, SendPing, StopWaiting, Answer, Arrives, Stray
<1>8. CASE UNCHANGED vars
  BY <1>8 DEF vars
<1> QED
  BY <1>1, <1>2, <1>3, <1>4, <1>5, <1>6, <1>7, <1>8
     DEF Next, Owner, Poll, UserStep, Peer

\* The counts follow the state.
LEMMA CountStep ==
  ASSUME TypeOK, PingsCounted, [Next]_vars
  PROVE  PingsCounted'
<1> USE DEF TypeOK, PingsCounted, connVars, peerVars, counts
<1>1. CASE DropConnection
  BY <1>1 DEF DropConnection
<1>2. CASE LoadState
  BY <1>2 DEF LoadState
<1>3. CASE WriteUserPing
  BY <1>3 DEF WriteUserPing
<1>4. CASE StorePendingPong
  BY <1>4 DEF StorePendingPong
<1>5. CASE RecvUserAck
  BY <1>5 DEF RecvUserAck, Read
<1>6. CASE TakePong
  BY <1>6 DEF TakePong
<1>7. CASE SendPing
  BY <1>7 DEF SendPing
<1>8. CASE TakeUserPings \/ GoAwayGracefully \/ Begin \/ SendPendingPong \/
           SendShutdownPing \/ RegisterPingTask \/ NothingToRead \/
           RecvPing \/ RecvShutdownAck \/ WakePong \/ WakeClosed \/ Block \/
           Unblock \/ WakePingTask \/ RegisterPongTask \/ StopWaiting \/
           (\E p \in Payloads : Answer(p)) \/
           (\E frame \in Frames : Stray(frame))
  BY <1>8 DEF
    TakeUserPings, GoAwayGracefully, Begin, SendPendingPong, SendShutdownPing,
    RegisterPingTask, NothingToRead, RecvPing, Read, RecvShutdownAck,
    WakePong, WakeClosed, Block, Unblock, WakePingTask, RegisterPongTask,
    StopWaiting, Answer, Arrives, Stray
<1>9. CASE UNCHANGED vars
  BY <1>9 DEF vars
<1> QED
  BY <1>1, <1>2, <1>3, <1>4, <1>5, <1>6, <1>7, <1>8, <1>9
     DEF Next, Owner, Poll, UserStep, Peer

\* A shutdown PING implies a GOAWAY, and the pong is out before the next read.
LEMMA AssertStep ==
  ASSUME TypeOK, ShutdownAnnounced, PongSentFirst, [Next]_vars
  PROVE  ShutdownAnnounced' /\ PongSentFirst'
<1> USE DEF TypeOK, ShutdownAnnounced, PongSentFirst, connVars, peerVars, counts
<1>1. CASE GoAwayGracefully
  BY <1>1 DEF GoAwayGracefully
<1>2. CASE SendPendingPong
  BY <1>2 DEF SendPendingPong
<1>3. CASE SendShutdownPing
  BY <1>3 DEF SendShutdownPing
<1>4. CASE LoadState
  BY <1>4 DEF LoadState
<1>5. CASE RegisterPingTask
  BY <1>5 DEF RegisterPingTask
<1>6. CASE WriteUserPing
  BY <1>6 DEF WriteUserPing
<1>7. CASE StorePendingPong
  BY <1>7 DEF StorePendingPong
<1>8. CASE RecvPing
  BY <1>8 DEF RecvPing, Read
<1>9. CASE RecvShutdownAck
  BY <1>9 DEF RecvShutdownAck, Read
<1>10. CASE RecvUserAck
  BY <1>10 DEF RecvUserAck, Read
<1>11. CASE WakePong
  BY <1>11 DEF WakePong
<1>12. CASE TakeUserPings \/ DropConnection \/ Begin \/ NothingToRead \/
           WakeClosed \/ Block \/ Unblock \/ WakePingTask \/
           RegisterPongTask \/ TakePong \/ SendPing \/ StopWaiting \/
           (\E p \in Payloads : Answer(p)) \/
           (\E frame \in Frames : Stray(frame))
  BY <1>12 DEF
    TakeUserPings, DropConnection, Begin, NothingToRead, WakeClosed, Block,
    Unblock, WakePingTask, RegisterPongTask, TakePong, SendPing, StopWaiting,
    Answer, Arrives, Stray
<1>13. CASE UNCHANGED vars
  BY <1>13 DEF vars
<1> QED
  BY <1>1, <1>2, <1>3, <1>4, <1>5, <1>6, <1>7, <1>8, <1>9, <1>10, <1>11,
     <1>12, <1>13
     DEF Next, Owner, Poll, UserStep, Peer

\* The next PING finds the task.
LEMMA FindsStep ==
  ASSUME TypeOK, PingsCounted, PingFindsTask, [Next]_vars
  PROVE  PingFindsTask'
<1> USE DEF TypeOK, PingsCounted, PingFindsTask, WillLook, connVars, peerVars, counts
<1>1. CASE TakeUserPings
  BY <1>1 DEF TakeUserPings
<1>2. CASE DropConnection
  BY <1>2 DEF DropConnection
<1>3. CASE Begin
  BY <1>3 DEF Begin
<1>4. CASE LoadState
  BY <1>4 DEF LoadState
<1>5. CASE RegisterPingTask
  BY <1>5 DEF RegisterPingTask
<1>6. CASE StorePendingPong
  BY <1>6 DEF StorePendingPong
<1>7. CASE NothingToRead
  BY <1>7 DEF NothingToRead
<1>8. CASE RecvUserAck
  BY <1>8 DEF RecvUserAck, Read
<1>9. CASE Block
  BY <1>9 DEF Block
<1>10. CASE Unblock
  BY <1>10 DEF Unblock
<1>11. CASE WakePingTask
  BY <1>11 DEF WakePingTask
<1>12. CASE TakePong
  BY <1>12 DEF TakePong
<1>13. CASE SendPing
  BY <1>13 DEF SendPing
<1>14. CASE GoAwayGracefully \/ SendPendingPong \/ SendShutdownPing \/
           WriteUserPing \/ RecvPing \/ RecvShutdownAck \/ WakePong \/
           WakeClosed \/ RegisterPongTask \/ StopWaiting \/
           (\E p \in Payloads : Answer(p)) \/
           (\E frame \in Frames : Stray(frame))
  BY <1>14 DEF
    GoAwayGracefully, SendPendingPong, SendShutdownPing, WriteUserPing,
    RecvPing, Read, RecvShutdownAck, WakePong, WakeClosed, RegisterPongTask,
    StopWaiting, Answer, Arrives, Stray
<1>15. CASE UNCHANGED vars
  BY <1>15 DEF vars
<1> QED
  BY <1>1, <1>2, <1>3, <1>4, <1>5, <1>6, <1>7, <1>8, <1>9, <1>10, <1>11,
     <1>12, <1>13, <1>14, <1>15
     DEF Next, Owner, Poll, UserStep, Peer

\* PingIsNoticed, from where the PING found the task.
LEMMA NoticedStep ==
  ASSUME TypeOK, PingsCounted, PingFindsTask, PingIsNoticed, [Next]_vars
  PROVE  PingIsNoticed'
<1> USE DEF TypeOK, PingsCounted, PingFindsTask, PingIsNoticed, WillLook, connVars, peerVars, counts
<1>1. CASE Begin
  BY <1>1 DEF Begin
<1>2. CASE LoadState
  BY <1>2 DEF LoadState
<1>3. CASE RegisterPingTask
  BY <1>3 DEF RegisterPingTask
<1>4. CASE StorePendingPong
  BY <1>4 DEF StorePendingPong
<1>5. CASE NothingToRead
  BY <1>5 DEF NothingToRead
<1>6. CASE Block
  BY <1>6 DEF Block
<1>7. CASE Unblock
  BY <1>7 DEF Unblock
<1>8. CASE WakePingTask
  BY <1>8 DEF WakePingTask
<1>9. CASE SendPing
  BY <1>9 DEF SendPing
<1>10. CASE TakeUserPings \/ GoAwayGracefully \/ DropConnection \/
           SendPendingPong \/ SendShutdownPing \/ WriteUserPing \/ RecvPing \/
           RecvShutdownAck \/ RecvUserAck \/ WakePong \/ WakeClosed \/
           RegisterPongTask \/ TakePong \/ StopWaiting \/
           (\E p \in Payloads : Answer(p)) \/
           (\E frame \in Frames : Stray(frame))
  BY <1>10 DEF
    TakeUserPings, GoAwayGracefully, DropConnection, SendPendingPong,
    SendShutdownPing, WriteUserPing, RecvPing, Read, RecvShutdownAck,
    RecvUserAck, WakePong, WakeClosed, RegisterPongTask, TakePong,
    StopWaiting, Answer, Arrives, Stray
<1>11. CASE UNCHANGED vars
  BY <1>11 DEF vars
<1> QED
  BY <1>1, <1>2, <1>3, <1>4, <1>5, <1>6, <1>7, <1>8, <1>9, <1>10, <1>11
     DEF Next, Owner, Poll, UserStep, Peer

-----------------------------------------------------------------------------
LEMMA InvInit == Init => Inv
<1> SUFFICES ASSUME Init PROVE Inv
  OBVIOUS
<1>1. TypeOK
  <2>1. <<>> \in Seq(Frames)
    OBVIOUS
  <2>2. [p \in Payloads |-> 0] \in [Payloads -> Nat]
    OBVIOUS
  <2>3. {pingTask, pongTask, scheduled, blocked, taken, pendingPong, goingAway,
         userWoken, missed} \subseteq BOOLEAN
    BY Zenon DEF Init
  <2> QED
    BY <2>1, <2>2, <2>3 DEF Init, TypeOK
<1>2. WaiterIsKnown /\ ParkedUserIsWoken /\ PongSentFirst /\ PingsCounted
  BY DEF Init, WaiterIsKnown, ParkedUserIsWoken, PongSentFirst, PingsCounted
<1>3. PingFindsTask /\ PingIsNoticed /\ ShutdownAnnounced
  BY DEF Init, ShutdownAnnounced, PingFindsTask, PingIsNoticed, WillLook
<1> QED
  BY <1>1, <1>2, <1>3 DEF Inv

LEMMA InvStep == Inv /\ [Next]_vars => Inv'
BY TypeStep, WaiterStep, ParkedStep, CountStep, AssertStep, FindsStep, NoticedStep DEF Inv

LEMMA Invariance == Spec => []Inv
BY InvInit, InvStep, PTL DEF Spec

\* Every variable of PingPong keeps its type.
THEOREM TypeCorrect == Spec => []TypeOK
<1>1. Inv => TypeOK
  BY DEF Inv
<1> QED
  BY <1>1, Invariance, PTL

\* No user that waits in poll_pong misses the wake-up for its pong.
THEOREM NoUserLeftBehind == Spec => []ParkedUserIsWoken
<1>1. Inv => ParkedUserIsWoken
  BY DEF Inv
<1> QED
  BY <1>1, Invariance, PTL

\* A PING is overlooked through the load-register window only.
THEOREM NoPingLeftBehind == Spec => []PingIsNoticed
<1>1. Inv => PingIsNoticed
  BY DEF Inv
<1> QED
  BY <1>1, Invariance, PTL

\* Pongs and PINGs correspond one to one.
THEOREM PongsMatchPings == Spec => []OnePongPerPing
<1>1. Inv => OnePongPerPing
  BY DEF Inv, TypeOK, PingsCounted, OnePongPerPing
<1> QED
  BY <1>1, Invariance, PTL

\* The assertions about shutdown PINGs and pongs hold.
THEOREM AssertionsHold == Spec => []NoAssertFails
<1>1. Inv => NoAssertFails
  BY DEF Inv, PongSentFirst, ShutdownAnnounced, NoAssertFails
<1> QED
  BY <1>1, Invariance, PTL

\* Closed is final: in particular the blind store of send_pending_ping never
\* overwrites it.
THEOREM ClosedForGood == Spec => ClosedIsFinal
<1>1. ASSUME Inv, [Next]_vars PROVE [state = "Closed" => state' = "Closed"]_state
  <2> SUFFICES ASSUME state = "Closed" PROVE state' = "Closed"
    OBVIOUS
  <2>1. conn # "store"
    BY <1>1 DEF Inv, PingsCounted
  <2> QED
    BY <1>1, <2>1 DEF Next, Owner, Poll, UserStep, Peer, TakeUserPings, GoAwayGracefully,
      DropConnection, Begin, SendPendingPong, SendShutdownPing, LoadState, RegisterPingTask,
      WriteUserPing, StorePendingPong, NothingToRead, RecvPing, RecvShutdownAck, RecvUserAck,
      WakePong, WakeClosed, Block, Unblock, WakePingTask, RegisterPongTask, TakePong, SendPing,
      StopWaiting, Answer, Stray, vars
<1> QED
  BY <1>1, Invariance, PTL DEF Spec, ClosedIsFinal
=============================================================================
