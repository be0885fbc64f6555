-------------------------------- MODULE Queues --------------------------------
(* What both halves of the connection do with the queues of store.rs, which  *)
(* are linked through the streams, and the loops they run over them.         *)
EXTENDS Naturals, Sequences, SequencesExt

\* A stream's pending_* flag says whether it is linked.
Queued(q, s) == Contains(q, s)

\* Queue::push does nothing for a stream that is already queued.
PushOnce(q, s) == IF Queued(q, s) THEN q ELSE Append(q, s)

\* A loop of the code: Op applied to m for every entry of q, in order.
Each(Op(_, _), m, q) ==
  LET after[i \in 0 .. Len(q)] == IF i = 0 THEN m ELSE Op(after[i - 1], q[i])
  IN  after[Len(q)]
=============================================================================
