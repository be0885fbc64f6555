---------------------------- MODULE ChunkedCoding ----------------------------
(* The chunked transfer coding of HTTP/1.1: proto/h1/chunked/encoder.rs and  *)
(* decoder.rs.  A byte is a record: a digit of a chunk's size, CR, LF, a     *)
(* byte of the body, or a trailer field, which is one byte here.  Chunks are *)
(* shorter than sixteen bytes, so that a size is one digit.                  *)
(*                                                                           *)
(* The decoder's poll_read is a loop around reads of the transport.  One     *)
(* round of the loop is one operator, Round; it reads the transport at most  *)
(* once, so that bytes may arrive between any two reads.                     *)
EXTENDS Integers, Sequences

CONSTANTS
  InitialCapacity, \* INITIAL_CAPACITY of the decoder's buffer
  Growth,          \* by which the buffer grows when it is full of unread bytes
  MaxCapacity,     \* MAX_CAPACITY
  UserBuffer       \* length of the buffer a reader of the body offers

ASSUME ChunkedAssumption ==
  {InitialCapacity, Growth, MaxCapacity, UserBuffer} \subseteq Nat \ {0}

Byte(kind, n) == [kind |-> kind, n |-> n]
CR == Byte("cr", 0)
LF == Byte("lf", 0)
Least(a, b) == IF a <= b THEN a ELSE b
Drop(bytes, n) == SubSeq(bytes, n + 1, Len(bytes))
Take(bytes, n) == SubSeq(bytes, 1, n)

-----------------------------------------------------------------------------
(* The encoder.                                                              *)

\* The digits of a size, `{:X}`, and the least k with 16^k >= n.
HexDigits(n) == CHOOSE k \in 1 .. 8 : n < 16 ^ k /\ (k = 1 \/ n >= 16 ^ (k - 1))
CeilLog16(n) == CHOOSE k \in 0 .. 8 : n <= 16 ^ k /\ (k = 0 \/ n > 16 ^ (k - 1))

MaxBytesToRead(len) == len - 4 - CeilLog16(len - 4)

\* What one poll_read puts into the buffer for the bytes it got; none end it.
EncodeChunk(bytes) ==
  <<Byte("size", Len(bytes)), CR, LF>> \o bytes \o <<CR, LF>>

Encode(chunks) ==
  LET wire[i \in 0 .. Len(chunks)] ==
        IF i = 0 THEN <<>> ELSE wire[i - 1] \o EncodeChunk(chunks[i])
  IN  wire[Len(chunks)] \o EncodeChunk(<<>>)

-----------------------------------------------------------------------------
(* The decoder.  `buf` are the bytes buffer[start..end] that are not decoded *)
(* yet.  `polling` is TRUE between two rounds of one poll_read; `full`, for  *)
(* the properties, from when the buffer had no room for a read.              *)

NewDecoder ==
  [state |-> "Init", left |-> 0, buf |-> <<>>, start |-> 0, cap |-> InitialCapacity,
   initial |-> FALSE, polling |-> FALSE, needsRead |-> FALSE, full |-> FALSE]

Step(res, d, out) == [res |-> res, d |-> d, out |-> out]

StartsLike(bytes, kinds) ==
  \A i \in 1 .. Least(Len(bytes), Len(kinds)) : bytes[i].kind = kinds[i]

Consumed(d, n, state) ==
  [d EXCEPT !.buf = Drop(@, n), !.start = @ + n, !.state = state]

\* Mutant: the last chunk ends the body, before its trailer.
DecodeInitEnds(d) ==
  LET size == Head(d.buf).n
  IN  CASE ~StartsLike(d.buf, <<"size", "cr", "lf">>) -> Step("error", d, <<>>)
        [] StartsLike(d.buf, <<"size", "cr", "lf">>) /\ Len(d.buf) < 3 -> Step("none", d, <<>>)
        [] OTHER -> Step("some", [Consumed(d, 3, IF size = 0 THEN "Done" ELSE "Chunk")
                                    EXCEPT !.left = size], <<>>)

\* httparse::parse_chunk_size
DecodeInit(d) ==
  LET size == Head(d.buf).n
  IN  CASE ~StartsLike(d.buf, <<"size", "cr", "lf">>) -> Step("error", d, <<>>)
        [] StartsLike(d.buf, <<"size", "cr", "lf">>) /\ Len(d.buf) < 3 -> Step("none", d, <<>>)
        [] OTHER -> Step("some", [Consumed(d, 3, IF size = 0 THEN "Trailer" ELSE "Chunk")
                                    EXCEPT !.left = size], <<>>)

DecodeChunkEnd(d) ==
  CASE Len(d.buf) < 2 -> Step("none", d, <<>>)
    [] Len(d.buf) >= 2 /\ Take(d.buf, 2) = <<CR, LF>> -> Step("some", Consumed(d, 2, "Init"), <<>>)
    [] OTHER -> Step("error", d, <<>>)

\* httparse::parse_headers for at most one field; the trailers are sent on a
\* channel that has room for them.
TrailerLines == {<<"cr", "lf">>, <<"field", "cr", "lf", "cr", "lf">>}
DecodeTrailer(d) ==
  LET fits == {lines \in TrailerLines : StartsLike(d.buf, lines)}
      whole == {lines \in fits : Len(lines) <= Len(d.buf)}
  IN  CASE fits = {} -> Step("error", d, <<>>)
        [] fits # {} /\ whole = {} -> Step("none", d, <<>>)
        [] OTHER -> Step("some", Consumed(d, Len(CHOOSE lines \in whole : TRUE), "Done"), <<>>)

\* Mutant: the rest of a chunk is not looked at.
TakeChunkGreedy(d) ==
  LET n == Least(UserBuffer, Len(d.buf))
      took == [Consumed(d, n, IF n >= d.left THEN "ChunkEnd" ELSE "Chunk") EXCEPT !.left = @ - n]
  IN  Step("some", IF took.buf = <<>> THEN [took EXCEPT !.start = 0] ELSE took, Take(d.buf, n))

\* poll_read_chunk, from the buffer
TakeChunk(d) ==
  LET n == Least(Least(d.left, UserBuffer), Len(d.buf))
      took == [Consumed(d, n, IF n = d.left THEN "ChunkEnd" ELSE "Chunk") EXCEPT !.left = @ - n]
  IN  Step("some", IF took.buf = <<>> THEN [took EXCEPT !.start = 0] ELSE took, Take(d.buf, n))

\* poll_read_inner, where it does not read the transport itself
DecodeBuffer(d) ==
  CASE d.state = "Init" -> IF d.buf = <<>> THEN Step("none", d, <<>>) ELSE DecodeInit(d)
    [] d.state = "Chunk" -> TakeChunk(d)
    [] d.state = "ChunkEnd" -> DecodeChunkEnd(d)
    [] d.state = "Trailer" -> DecodeTrailer(d)
    [] d.state = "Done" -> Step("some", d, <<>>)

\* What poll_read does before its loop.
Enter(d) ==
  LET begun == [d EXCEPT !.polling = TRUE, !.needsRead = d.state # "Chunk"]
      first == DecodeBuffer(begun)
      more == [first.d EXCEPT !.needsRead = FALSE]
  IN  CASE d.polling -> Step("loop", d, <<>>)
        [] ~d.polling /\ d.state = "Done" -> Step("end", d, <<>>)
        [] ~d.polling /\ d.state # "Done" /\ (d.buf = <<>> \/ ~d.initial) -> Step("loop", begun, <<>>)
        [] OTHER ->
             CASE first.res = "error" -> Step("error", [first.d EXCEPT !.buf = <<>>, !.start = 0], <<>>)
               [] first.res = "none" -> Step("loop", first.d, <<>>)
               [] first.res = "some" /\ (first.out # <<>> \/ more.state = "Done") ->
                    Step(IF first.out = <<>> THEN "end" ELSE "data", [more EXCEPT !.polling = FALSE], first.out)
               [] OTHER -> Step("loop", more, <<>>)

\* The buffer grows when all of it is unread.  That its end is reached before
\* is not looked at: then there is no room, a read returns nothing, and the
\* decoder takes that for the end of the transport.
Grown(d) ==
  IF Len(d.buf) >= d.cap /\ d.cap + Growth <= MaxCapacity THEN [d EXCEPT !.cap = @ + Growth] ELSE d
TooLarge(d) == Len(d.buf) >= d.cap /\ d.cap + Growth > MaxCapacity
Room(d) == Grown(d).cap - (d.start + Len(d.buf))

\* How many bytes the next round asks the transport for, after Enter.
Direct(d) == d.state = "Chunk" /\ d.buf = <<>>
Asks(d) == d.needsRead \/ Direct(d)
Wanted(d) == IF Direct(d) THEN Least(d.left, UserBuffer) ELSE Room(d)

\* A chunk read into the reader's own buffer.
DirectRead(d, got) ==
  LET n == Len(got)
      read == [d EXCEPT !.left = @ - n, !.initial = TRUE, !.polling = FALSE,
                        !.state = IF n = d.left THEN "ChunkEnd" ELSE IF n = 0 THEN "Done" ELSE @]
  IN  Step(IF got = <<>> THEN "end" ELSE "data", read, got)

\* Nothing has arrived: the rest waits in `buf` for the next poll.
Suspend(d) ==
  Step("pending", [Grown(d) EXCEPT !.initial = Direct(d), !.polling = FALSE], <<>>)

\* One round of the loop, with what the transport gave if it was asked.
Round(d, got) ==
  LET read == [Grown(d) EXCEPT !.buf = @ \o got,
                               !.full = @ \/ (d.needsRead /\ Room(d) = 0),
                               !.state = IF d.needsRead /\ got = <<>> THEN "Done" ELSE @]
      step == DecodeBuffer(read)
      next == [step.d EXCEPT !.initial = TRUE]
      done == [next EXCEPT !.polling = FALSE]
  IN  CASE TooLarge(d) -> Step("error", [d EXCEPT !.polling = FALSE], <<>>)
        [] ~TooLarge(d) /\ Direct(d) -> DirectRead(d, got)
        [] OTHER ->
             CASE step.res = "error" -> Step("error", done, <<>>)
               [] step.res = "none" /\ (step.d.start = 0 /\ step.d.buf = <<>>) ->
                    Step("end", [step.d EXCEPT !.initial = FALSE, !.polling = FALSE], <<>>)
               [] step.res = "none" /\ ~(step.d.start = 0 /\ step.d.buf = <<>>) ->
                    Step("again", [step.d EXCEPT !.needsRead = TRUE], <<>>)
               [] step.res = "some" /\ step.out # <<>> -> Step("data", done, step.out)
               [] step.res = "some" /\ step.out = <<>> /\ done.state = "Done" -> Step("end", done, <<>>)
               [] OTHER -> Step("again", [next EXCEPT !.needsRead = FALSE], <<>>)
=============================================================================
