----------------------------- MODULE StreamState -----------------------------
(* The life cycle of one HTTP/2 stream, as proto/streams/state.rs keeps it:  *)
(* the states of `Inner`, and each transition as an operator from a state to *)
(* a state.  A transition the code may refuse comes with the predicate that  *)
(* tells whether it is accepted; the refused call leaves the state alone.    *)
(*                                                                           *)
(* Reasons (the error codes inside Proto, LocallyReset and Scheduled) are    *)
(* abstracted: no decision of the modelled code depends on which one it is.  *)

Peers == {"AwaitingHeaders", "Streaming"}
Causes == {"EndStream", "Proto", "LocallyReset", "Io", "Scheduled"}

Idle == [inner |-> "Idle"]
ReservedLocal == [inner |-> "ReservedLocal"]
ReservedRemote == [inner |-> "ReservedRemote"]
Open(l, r) == [inner |-> "Open", local |-> l, remote |-> r]
HalfClosedLocal(p) == [inner |-> "HalfClosedLocal", peer |-> p]
HalfClosedRemote(p) == [inner |-> "HalfClosedRemote", peer |-> p]
Closed(c) == [inner |-> "Closed", cause |-> c]

States ==
  {Idle, ReservedLocal, ReservedRemote}
    \cup {Open(l, r) : l \in Peers, r \in Peers}
    \cup {HalfClosedLocal(p) : p \in Peers}
    \cup {HalfClosedRemote(p) : p \in Peers}
    \cup {Closed(c) : c \in Causes}

-----------------------------------------------------------------------------
(* Predicates.                                                               *)

IsClosed(s) == s.inner = "Closed"
IsIdle(s) == s.inner = "Idle"
IsScheduledReset(s) == s = Closed("Scheduled")
IsLocalReset(s) == s \in {Closed("LocallyReset"), Closed("Scheduled")}
IsReset(s) == IsClosed(s) /\ s # Closed("EndStream")

IsSendStreaming(s) ==
  \/ s \in {Open("Streaming", r) : r \in Peers}
  \/ s = HalfClosedRemote("Streaming")

IsRecvHeaders(s) ==
  \/ s \in {Idle, ReservedRemote, HalfClosedLocal("AwaitingHeaders")}
  \/ s \in {Open(l, "AwaitingHeaders") : l \in Peers}

IsRecvStreaming(s) ==
  \/ s \in {Open(l, "Streaming") : l \in Peers}
  \/ s = HalfClosedLocal("Streaming")

IsSendClosed(s) == s.inner \in {"Closed", "HalfClosedLocal", "ReservedRemote"}
IsRecvClosed(s) == s.inner \in {"Closed", "HalfClosedRemote", "ReservedLocal"}

\* ensure_recv_open: "closed" is Ok(false), "open" is Ok(true).
EnsureRecvOpen(s) ==
  IF IsReset(s) THEN "error" ELSE IF IsRecvClosed(s) THEN "closed" ELSE "open"

-----------------------------------------------------------------------------
(* Transitions.                                                              *)

CanSendOpen(s) ==
  \/ s \in {Idle, ReservedLocal, HalfClosedRemote("AwaitingHeaders")}
  \/ s \in {Open("AwaitingHeaders", r) : r \in Peers}

SendOpen(s, eos) ==
  CASE s.inner = "Idle" ->
         IF eos THEN HalfClosedLocal("AwaitingHeaders")
                ELSE Open("Streaming", "AwaitingHeaders")
    [] s.inner = "Open" ->
         IF eos THEN HalfClosedLocal(s.remote) ELSE Open("Streaming", s.remote)
    [] OTHER ->
         IF eos THEN Closed("EndStream") ELSE HalfClosedRemote("Streaming")

CanRecvOpen(s) == IsRecvHeaders(s)

\* The frame that opens the stream, as opposed to the head of a response.
IsInitial(s) == s \in {Idle, ReservedRemote}

RecvOpen(s, eos) ==
  CASE s.inner = "Idle" ->
         IF eos THEN HalfClosedRemote("AwaitingHeaders")
                ELSE Open("AwaitingHeaders", "Streaming")
    [] s.inner = "Open" ->
         IF eos THEN HalfClosedRemote(s.local) ELSE Open(s.local, "Streaming")
    [] OTHER ->
         IF eos THEN Closed("EndStream") ELSE HalfClosedLocal("Streaming")

CanRecvClose(s) == s.inner \in {"Open", "HalfClosedLocal"}

RecvClose(s) ==
  IF s.inner = "Open" THEN HalfClosedRemote(s.local) ELSE Closed("EndStream")

\* send_close panics outside these states.
CanSendClose(s) == s.inner \in {"Open", "HalfClosedRemote"}

SendClose(s) ==
  IF s.inner = "Open" THEN HalfClosedLocal(s.remote) ELSE Closed("EndStream")

CanReserve(s) == s = Idle

\* A reset received for a closed stream counts only while frames are queued.
RecvReset(s, queued) == IF IsClosed(s) /\ ~queued THEN s ELSE Closed("Proto")

\* recv_err (cause "LocallyReset" or "Io") and recv_eof (cause "Io").
RecvErr(s, cause) == IF IsClosed(s) THEN s ELSE Closed(cause)

SetReset(s) == Closed("LocallyReset")
SetScheduledReset(s) == Closed("Scheduled")
=============================================================================
