---------------------------- MODULE FrameChannel ----------------------------
(* What the codec of one direction of a connection promises: the frames come *)
(* out as they were put in, one at a time, each once and in order, and all   *)
(* of them unless the transport breaks or one of them is an error of the     *)
(* connection, which is the last that comes out.                             *)
EXTENDS Naturals, Sequences

CONSTANTS
  Frames,       \* what may be put in
  IsFatal(_)    \* whether a frame is an error of the connection

VARIABLES
  sent,     \* what was put in
  got,      \* what came out
  broken    \* the transport is gone

vars == <<sent, got, broken>>

Init == sent = <<>> /\ got = <<>> /\ broken = FALSE

Put(f) ==
  /\ sent' = Append(sent, f)
  /\ UNCHANGED <<got, broken>>

Over == got # <<>> /\ IsFatal(got[Len(got)])

Take ==
  /\ Len(got) < Len(sent)
  /\ ~Over
  /\ got' = Append(got, sent[Len(got) + 1])
  /\ UNCHANGED <<sent, broken>>

Break ==
  /\ ~broken
  /\ broken' = TRUE
  /\ UNCHANGED <<sent, got>>

Next == (\E f \in Frames : Put(f)) \/ Take \/ Break

Spec == Init /\ [][Next]_vars

\* Again and again all that was put in has come out.
Arrives == []<>(broken \/ Over \/ got = sent)
=============================================================================
