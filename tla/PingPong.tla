------------------------------- MODULE PingPong -------------------------------
(* PINGs of the application and of a graceful shutdown: proto/ping_pong.rs.  *)
(* Two threads share `state` and two AtomicWakers without a lock:            *)
(*   - the connection task, in send_pending_pong, send_pending_ping and      *)
(*     recv_ping of one round of Connection::poll2, and in Drop;             *)
(*   - the holder of UserPings, in send_ping and poll_pong.                  *)
(* Every access to a shared atomic is a step of its own.  An AtomicWaker is  *)
(* external: registering replaces the waker, waking takes it.                *)
EXTENDS Integers, Sequences

CONSTANTS
  MaxPings,   \* bound: PINGs the application sends
  MaxStray    \* bound: PINGs and unasked acknowledgements the peer sends

ASSUME PingAssumption == MaxPings \in Nat /\ MaxStray \in Nat

VARIABLES
  state,      \* UserPingsInner::state
  pingTask,   \* a waker of the connection task is registered
  pongTask,   \* a waker of the user's task is registered
  conn,       \* where the connection task is
  scheduled,  \* it has been woken since its last poll began
  blocked,    \* it waits for the codec to accept a frame
  taken,      \* user_pings.is_some()
  pendingPing,\* pending_ping, the PING of a graceful shutdown
  pendingPong,\* pending_pong.is_some()
  goingAway,  \* go_away.is_going_away()
  user,       \* where the user's thread is
  userWoken,  \* its task has been woken since it last polled
  inbox,      \* frames from the peer, not yet read
  unanswered, \* PINGs the peer has not acknowledged, by payload
  strays,     \* history: frames the peer sent unasked
  asked,      \* history: PINGs send_ping accepted
  written,    \* history: PING USER frames written
  delivered,  \* history: pongs poll_pong returned
  missed      \* history: send_ping found no waker while the task registered one

connVars == <<pendingPing, pendingPong, goingAway, taken>>
peerVars == <<inbox, unanswered, strays>>
counts == <<asked, written, delivered>>
vars == <<state, pingTask, pongTask, conn, scheduled, blocked, user, userWoken, missed,
          connVars, peerVars, counts>>

Payloads == {"user", "shutdown"}
Frames == {"ping", "user", "shutdown"}   \* a PING, or the ack of a payload

Init ==
  /\ state = "Empty" /\ pingTask = FALSE /\ pongTask = FALSE
  /\ conn = "parked" /\ scheduled = TRUE /\ blocked = FALSE
  /\ taken = FALSE /\ pendingPing = "none" /\ pendingPong = FALSE /\ goingAway = FALSE
  /\ user = "idle" /\ userWoken = FALSE
  /\ inbox = <<>> /\ unanswered = [p \in Payloads |-> 0] /\ strays = 0
  /\ asked = 0 /\ written = 0 /\ delivered = 0 /\ missed = FALSE

-----------------------------------------------------------------------------
(* The owner of the connection, between two polls.                           *)

\* take_user_pings; the owner, who has the connection at hand, polls it next.
TakeUserPings ==
  /\ conn = "parked" /\ ~taken
  /\ taken' = TRUE /\ scheduled' = TRUE
  /\ UNCHANGED <<state, pingTask, pongTask, conn, blocked, user, userWoken, missed,
                 pendingPing, pendingPong, goingAway, peerVars, counts>>

\* go_away_gracefully and ping_shutdown
GoAwayGracefully ==
  /\ conn = "parked" /\ ~goingAway
  /\ goingAway' = TRUE /\ pendingPing' = "unsent" /\ scheduled' = TRUE
  /\ UNCHANGED <<state, pingTask, pongTask, conn, blocked, user, userWoken, missed,
                 taken, pendingPong, peerVars, counts>>

\* Drop for UserPingsRx: the store, then the wake.
DropConnection ==
  /\ conn = "parked"
  /\ conn' = IF taken THEN "closing" ELSE "dropped"
  /\ state' = IF taken THEN "Closed" ELSE state
  /\ UNCHANGED <<pingTask, pongTask, scheduled, blocked, user, userWoken, missed,
                 connVars, peerVars, counts>>

\* Mutant: the waiting user is not woken.
WakeClosedNot ==
  /\ conn = "closing" /\ conn' = "dropped"
  /\ UNCHANGED <<state, pingTask, pongTask, scheduled, blocked, user, userWoken, missed,
                 connVars, peerVars, counts>>

WakeClosed ==
  /\ conn = "closing" /\ conn' = "dropped"
  /\ userWoken' = (userWoken \/ pongTask) /\ pongTask' = FALSE
  /\ UNCHANGED <<state, pingTask, scheduled, blocked, user, missed,
                 connVars, peerVars, counts>>

-----------------------------------------------------------------------------
(* The connection task: one round of poll2.                                  *)

Begin ==
  /\ conn = "parked" /\ scheduled
  /\ conn' = "pong" /\ scheduled' = FALSE /\ blocked' = FALSE
  /\ UNCHANGED <<state, pingTask, pongTask, user, userWoken, missed,
                 connVars, peerVars, counts>>

SendPendingPong ==
  /\ conn = "pong" /\ conn' = "ping" /\ pendingPong' = FALSE
  /\ UNCHANGED <<state, pingTask, pongTask, scheduled, blocked, user, userWoken, missed,
                 taken, pendingPing, goingAway, peerVars, counts>>

\* send_pending_ping while a shutdown PING is pending: user pings have to wait.
SendShutdownPing ==
  /\ conn = "ping" /\ pendingPing # "none"
  /\ conn' = "read" /\ pendingPing' = "sent"
  /\ unanswered' = IF pendingPing = "unsent"
                   THEN [unanswered EXCEPT !["shutdown"] = @ + 1] ELSE unanswered
  /\ UNCHANGED <<state, pingTask, pongTask, scheduled, blocked, user, userWoken, missed,
                 taken, pendingPong, goingAway, inbox, strays, counts>>

\* The load of send_pending_ping decides what the task does next.
LoadState ==
  /\ conn = "ping" /\ pendingPing = "none"
  /\ conn' = IF ~taken THEN "read"
             ELSE IF state = "PendingPing" THEN "write" ELSE "register"
  /\ missed' = IF taken /\ state = "PendingPing" THEN FALSE ELSE missed
  /\ UNCHANGED <<state, pingTask, pongTask, scheduled, blocked, user, userWoken,
                 connVars, peerVars, counts>>

RegisterPingTask ==
  /\ conn = "register" /\ conn' = "read" /\ pingTask' = TRUE
  /\ UNCHANGED <<state, pongTask, scheduled, blocked, user, userWoken, missed,
                 connVars, peerVars, counts>>

WriteUserPing ==
  /\ conn = "write" /\ conn' = "store"
  /\ written' = written + 1 /\ unanswered' = [unanswered EXCEPT !["user"] = @ + 1]
  /\ UNCHANGED <<state, pingTask, pongTask, scheduled, blocked, user, userWoken, missed,
                 connVars, inbox, strays, asked, delivered>>

StorePendingPong ==
  /\ conn = "store" /\ conn' = "read" /\ state' = "PendingPong"
  /\ UNCHANGED <<pingTask, pongTask, scheduled, blocked, user, userWoken, missed,
                 connVars, peerVars, counts>>

\* The codec does not take a frame: a GOAWAY or the pong, the shutdown PING,
\* the user's PING, or the SETTINGS and RST_STREAM that come before a read.
Block ==
  /\ \/ conn \in {"pong", "write", "read"}
     \/ conn = "ping" /\ pendingPing = "unsent"
  /\ conn' = "parked" /\ blocked' = TRUE
  /\ UNCHANGED <<state, pingTask, pongTask, scheduled, user, userWoken, missed,
                 connVars, peerVars, counts>>

Unblock ==
  /\ blocked /\ conn \notin {"closing", "dropped"} /\ blocked' = FALSE /\ scheduled' = TRUE
  /\ UNCHANGED <<state, pingTask, pongTask, conn, user, userWoken, missed,
                 connVars, peerVars, counts>>

-----------------------------------------------------------------------------
(* recv_ping, for the next frame in the codec.                               *)

Read(frame) == conn = "read" /\ inbox # <<>> /\ Head(inbox) = frame /\ inbox' = Tail(inbox)

NothingToRead ==
  /\ conn = "read" /\ inbox = <<>> /\ conn' = "parked"
  /\ UNCHANGED <<state, pingTask, pongTask, scheduled, blocked, user, userWoken, missed,
                 connVars, peerVars, counts>>

\* Mutant: the task reads on before it has answered.
RecvPingReadsOn ==
  /\ Read("ping") /\ conn' = "read" /\ pendingPong' = TRUE
  /\ UNCHANGED <<state, pingTask, pongTask, scheduled, blocked, user, userWoken, missed,
                 taken, pendingPing, goingAway, unanswered, strays, counts>>

RecvPing ==
  /\ Read("ping") /\ conn' = "pong" /\ pendingPong' = TRUE
  /\ UNCHANGED <<state, pingTask, pongTask, scheduled, blocked, user, userWoken, missed,
                 taken, pendingPing, goingAway, unanswered, strays, counts>>

\* The ack of the shutdown PING lets user pings through again; one that was
\* not asked for is ignored.
RecvShutdownAck ==
  /\ Read("shutdown") /\ conn' = "pong" /\ pendingPing' = "none"
  /\ UNCHANGED <<state, pingTask, pongTask, scheduled, blocked, user, userWoken, missed,
                 taken, pendingPong, goingAway, unanswered, strays, counts>>

\* Mutants: any ping that waits is answered; the user is not woken.
RecvUserAckEarly ==
  /\ Read("user")
  /\ IF taken /\ state \in {"PendingPing", "PendingPong"}
     THEN state' = "ReceivedPong" /\ conn' = "wakePong"
     ELSE state' = state /\ conn' = "pong"
  /\ UNCHANGED <<pingTask, pongTask, scheduled, blocked, user, userWoken, missed,
                 connVars, unanswered, strays, counts>>
RecvUserAckQuiet ==
  /\ Read("user") /\ conn' = "pong"
  /\ state' = IF taken /\ state = "PendingPong" THEN "ReceivedPong" ELSE state
  /\ UNCHANGED <<pingTask, pongTask, scheduled, blocked, user, userWoken, missed,
                 connVars, unanswered, strays, counts>>

\* receive_pong: the compare_exchange, then the wake.
RecvUserAck ==
  /\ Read("user")
  /\ IF taken /\ state = "PendingPong"
     THEN state' = "ReceivedPong" /\ conn' = "wakePong"
     ELSE state' = state /\ conn' = "pong"
  /\ UNCHANGED <<pingTask, pongTask, scheduled, blocked, user, userWoken, missed,
                 connVars, unanswered, strays, counts>>

WakePong ==
  /\ conn = "wakePong" /\ conn' = "pong"
  /\ userWoken' = (userWoken \/ pongTask) /\ pongTask' = FALSE
  /\ UNCHANGED <<state, pingTask, scheduled, blocked, user, missed,
                 connVars, peerVars, counts>>

-----------------------------------------------------------------------------
(* The user's thread.                                                        *)

\* send_ping: the compare_exchange.  In any other state it is an error.
SendPing ==
  /\ user = "idle" /\ taken /\ state = "Empty" /\ asked < MaxPings
  /\ state' = "PendingPing" /\ user' = "wake" /\ asked' = asked + 1
  /\ UNCHANGED <<pingTask, pongTask, conn, scheduled, blocked, userWoken, missed,
                 connVars, peerVars, written, delivered>>

\* Mutant: the connection task is not woken.
WakePingTaskNot ==
  /\ user = "wake" /\ user' = "idle" /\ missed' = (missed \/ (conn = "register" /\ ~pingTask))
  /\ UNCHANGED <<state, pingTask, pongTask, conn, scheduled, blocked, userWoken,
                 connVars, peerVars, counts>>

\* send_ping: ping_task.wake()
WakePingTask ==
  /\ user = "wake" /\ user' = "idle"
  /\ scheduled' = (scheduled \/ pingTask) /\ pingTask' = FALSE
  /\ missed' = (missed \/ (conn = "register" /\ ~pingTask))
  /\ UNCHANGED <<state, pongTask, conn, blocked, userWoken,
                 connVars, peerVars, counts>>

\* poll_pong: pong_task.register()
RegisterPongTask ==
  /\ taken /\ (user = "idle" \/ (user = "parked" /\ userWoken))
  /\ user' = "registered" /\ pongTask' = TRUE /\ userWoken' = FALSE
  /\ UNCHANGED <<state, pingTask, conn, scheduled, blocked, missed,
                 connVars, peerVars, counts>>

\* Mutant: a swap instead of a compare_exchange.
TakePongSwaps ==
  /\ user = "registered"
  /\ user' = IF state \in {"ReceivedPong", "Closed"} THEN "idle" ELSE "parked"
  /\ state' = IF state \in {"ReceivedPong", "Closed"} THEN "Empty" ELSE state
  /\ delivered' = IF state = "ReceivedPong" THEN delivered + 1 ELSE delivered
  /\ UNCHANGED <<pingTask, pongTask, conn, scheduled, blocked, userWoken, missed,
                 connVars, peerVars, asked, written>>

\* poll_pong: the compare_exchange
TakePong ==
  /\ user = "registered"
  /\ user' = IF state \in {"ReceivedPong", "Closed"} THEN "idle" ELSE "parked"
  /\ state' = IF state = "ReceivedPong" THEN "Empty" ELSE state
  /\ delivered' = IF state = "ReceivedPong" THEN delivered + 1 ELSE delivered
  /\ UNCHANGED <<pingTask, pongTask, conn, scheduled, blocked, userWoken, missed,
                 connVars, peerVars, asked, written>>

\* The future that waits for the pong is dropped.
StopWaiting ==
  /\ user = "parked" /\ user' = "idle"
  /\ UNCHANGED <<state, pingTask, pongTask, conn, scheduled, blocked, userWoken, missed,
                 connVars, peerVars, counts>>

-----------------------------------------------------------------------------
(* The peer; what it sends makes the transport readable.                     *)

Arrives(frame) ==
  conn \notin {"closing", "dropped"} /\ inbox' = Append(inbox, frame) /\ scheduled' = TRUE

Answer(p) ==
  /\ unanswered[p] > 0 /\ Arrives(p)
  /\ unanswered' = [unanswered EXCEPT ![p] = @ - 1]
  /\ UNCHANGED <<state, pingTask, pongTask, conn, blocked, user, userWoken, missed,
                 connVars, strays, counts>>

Stray(frame) ==
  /\ strays < MaxStray /\ Arrives(frame) /\ strays' = strays + 1
  /\ UNCHANGED <<state, pingTask, pongTask, conn, blocked, user, userWoken, missed,
                 connVars, unanswered, counts>>

Owner == TakeUserPings \/ GoAwayGracefully \/ DropConnection
Poll ==
  \/ Begin \/ SendPendingPong \/ SendShutdownPing \/ LoadState \/ RegisterPingTask
  \/ WriteUserPing \/ StorePendingPong \/ NothingToRead \/ RecvPing
  \/ RecvShutdownAck \/ RecvUserAck \/ WakePong \/ WakeClosed
UserStep == WakePingTask \/ RegisterPongTask \/ TakePong
Peer == \/ \E p \in Payloads : Answer(p)
        \/ \E frame \in Frames : Stray(frame)

Next == Owner \/ Poll \/ Block \/ Unblock \/ UserStep \/ SendPing \/ StopWaiting \/ Peer

Spec == Init /\ [][Next]_vars

Reading == NothingToRead \/ RecvPing \/ RecvShutdownAck \/ RecvUserAck

\* The runtime polls what was woken and lets the threads run, the transport
\* takes frames again and again, and the peer acknowledges every PING.
Fairness ==
  /\ WF_vars(Poll) /\ WF_vars(Unblock) /\ WF_vars(UserStep)
  /\ SF_vars(SendPendingPong) /\ SF_vars(SendShutdownPing)
  /\ SF_vars(WriteUserPing) /\ SF_vars(Reading)
  /\ \A p \in Payloads : WF_vars(Answer(p))

FairSpec == Spec /\ Fairness

-----------------------------------------------------------------------------
(* Properties.                                                               *)

\* Type correctness.
TypeOK ==
  /\ state \in {"Empty", "PendingPing", "PendingPong", "ReceivedPong", "Closed"}
  /\ conn \in {"parked", "pong", "ping", "register", "write", "store", "read",
               "wakePong", "closing", "dropped"}
  /\ user \in {"idle", "wake", "registered", "parked"}
  /\ pendingPing \in {"none", "unsent", "sent"}
  /\ {pingTask, pongTask, scheduled, blocked, taken, pendingPong, goingAway, userWoken, missed}
       \subseteq BOOLEAN
  /\ inbox \in Seq(Frames) /\ unanswered \in [Payloads -> Nat]
  /\ {strays, asked, written, delivered} \subseteq Nat

\* A user that parked in poll_pong is never left behind: once its pong is in,
\* or the connection is gone, it has been woken or the next step of the
\* connection task wakes it.  (register-then-check in poll_pong)
ParkedUserIsWoken ==
  user = "parked" /\ state \in {"ReceivedPong", "Closed"} =>
    \/ userWoken
    \/ pongTask /\ conn \in {"wakePong", "closing"}

\* A PING that send_ping accepted is never left behind, except through the
\* window between load and register in send_pending_ping: otherwise the task
\* is on its way to the load, will be polled, or waits for a shutdown PING.
PingIsNoticed ==
  state = "PendingPing" /\ user # "wake" /\ ~missed /\ conn \in {"parked", "register", "read"} =>
    \/ scheduled \/ blocked \/ pendingPing # "none"
    \/ conn = "read" /\ inbox # <<>>

\* Every pong the user gets answers one PING that was written for it, whatever
\* acknowledgements the peer makes up, repeats or sends late.
OnePongPerPing ==
  /\ delivered <= written /\ written <= asked /\ asked <= delivered + 1
  /\ state = "ReceivedPong" => delivered < written

\* The assertions of ping_shutdown, of recv_ping and of its caller: no second
\* shutdown PING, none without a GOAWAY, and no pong overwritten unsent.
NoAssertFails ==
  /\ pendingPing # "none" => goingAway
  /\ conn = "read" => ~pendingPong

\* A closed UserPings stays closed: no store or exchange in flight reopens it.
ClosedIsFinal == [][state = "Closed" => state' = "Closed"]_state

\* An accepted PING is eventually written, or the connection closed, unless
\* the window of PingIsNoticed was hit.
PingGoesOut == state = "PendingPing" ~> state # "PendingPing" \/ missed

\* A user that waits for the pong of a written PING is answered.
PongComesBack ==
  user = "parked" /\ state \in {"PendingPong", "ReceivedPong", "Closed"} ~> user # "parked"

\* A user's PING goes out and its answer comes back.
PingIsAnswered == PingGoesOut /\ PongComesBack
=============================================================================
