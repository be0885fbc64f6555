----------------------------- MODULE FrameCodec -----------------------------
(* One direction of a connection's codec: FramedWrite of the sending end     *)
(* (codec/framed_write.rs) over HPACK's encoder, the transport, and          *)
(* FramedRead of the receiving end (codec/framed_read.rs over common/codec)  *)
(* with HPACK's decoder.  The transport takes and gives octets as it likes   *)
(* and may end anywhere.                                                     *)
(*                                                                           *)
(* The sending end is this library's, or another's that cuts header blocks   *)
(* where it likes and sends what it likes (Strays).                          *)
EXTENDS Frames

CONSTANTS
  Items,        \* frames each kind of sender writes
  Strays,       \* [raw, gives]: frames of another library and what they come out as
  Senders,      \* subset of {"nephele", "other"}
  FrameSizes,   \* SETTINGS_MAX_FRAME_SIZE the receiving end may ask for
  TableSizes,   \* SETTINGS_HEADER_TABLE_SIZE it may ask for
  MaxRecvFrame, \* the longest frame the receiving end takes
  MaxListSize,  \* max_header_list_size
  ChainThreshold, \* DATA of that length is not copied into the buffer
  MaxFrames,    \* bound: frames each kind of sender writes
  CanBreak      \* whether the transport may be lost

ASSUME CodecAssumption ==
  /\ Senders \subseteq {"nephele", "other"} /\ Senders # {}
  /\ \A n \in FrameSizes : n <= MaxRecvFrame
  /\ \A n \in TableSizes : n <= TableSize

VARIABLES
  sender,   \* who sends
  w,        \* FramedWrite: HPACK, buffer, next, max_frame_size, panicked
  written,  \* bound: frames written so far
  wire,     \* octets in the transport
  closed,   \* the sending half is shut down or lost
  r,        \* FramedRead: buffer, decode state, HPACK, partial, how it ended
  sent,     \* frames buffered, as they are to come out
  got,      \* what poll_next gave
  broken

vars == <<sender, w, written, wire, closed, r, sent, got, broken>>

NoBlockNext == [kind |-> "none", id |-> 0, block |-> Block(<<>>), payload |-> <<>>]
Continuation(id, block) == [NoBlockNext EXCEPT !.kind = "continuation", !.id = id, !.block = block]
DataNext(payload) == [NoBlockNext EXCEPT !.kind = "data", !.payload = payload]

NoPartial == [frame |-> NoFrame, over |-> FALSE, buf |-> <<>>]

Init ==
  /\ sender \in Senders
  /\ w = [enc |-> NewEncoder, buf |-> <<>>, next |-> NoBlockNext, max |-> MaxRecvFrame,
          panicked |-> FALSE]
  /\ written = 0
  /\ wire = <<>> /\ closed = FALSE
  /\ r = [buf |-> <<>>, data |-> -1, readable |-> FALSE, eof |-> FALSE,
          dec |-> NewDecoder, partial |-> NoPartial, end |-> "open"]
  /\ sent = <<>> /\ got = <<>> /\ broken = FALSE

\* What comes out for a frame of which the reader says no more than that.
StreamError(id) == Frame("streamError", id, {}, <<>>)
ConnError(reason) == Frame("connError", 0, {}, <<Octets("reason", 0, reason)>>)
IsFatal(f) == f.kind = "connError"

ListSize(list) == FoldLeft(LAMBDA n, h : n + HeaderLen(h), 0, list)
IsBlockFrame(f) == f.kind \in {"HEADERS", "PUSH_PROMISE"}

\* PUSH_PROMISE's body leads with the promised id.
Promised(f) == IF f.kind = "PUSH_PROMISE" THEN <<f.body[1]>> ELSE <<>>
List(f) == SubSeq(f.body, Len(Promised(f)) + 1, Len(f.body))

\* A list over the limit comes out marked, without its fields: what is left
\* of them is not looked at.
Seen(f, over) ==
  IF over THEN [f EXCEPT !.flags = @ \cup {"over"}, !.body = Promised(f)] ELSE f
ComesOut(f) == IF IsBlockFrame(f) THEN Seen(f, ListSize(List(f)) >= MaxListSize) ELSE f

-----------------------------------------------------------------------------
(* The writer.                                                               *)

HasCapacity(x) == x.next.kind = "none"

\* END_HEADERS is taken back when more is to come.
WithBlock(x, kind, flags, id, lead, e) ==
  LET more == ~IsFull(e.block)
      head == HeadOf(kind, IF more THEN flags ELSE flags \cup {"endHeaders"}, id)
  IN  [x EXCEPT !.enc = e.enc, !.buf = @ \o OnWire(head, lead \o e.out),
                !.next = IF more THEN Continuation(id, e.block) ELSE NoBlockNext]

\* Mutant: the limit of a frame does not count its head.
EncodeBlockShort(x, kind, flags, id, lead, block) ==
  WithBlock(x, kind, flags, id, lead, Encode(x.enc, block, x.max - HeadLen - Len(lead)))

\* EncodingHeaderBlock::encode
EncodeBlock(x, kind, flags, id, lead, block) ==
  WithBlock(x, kind, flags, id, lead, Encode(x.enc, block, x.max - Len(lead)))

\* FramedWrite::buffer
BufferFrame(x, f) ==
  CASE IsBlockFrame(f) ->
         EncodeBlock(x, f.kind, f.flags \cap {"end"}, f.id, Promised(f), Block(List(f)))
    [] f.kind = "DATA" /\ Len(f.body) >= ChainThreshold ->
         [x EXCEPT !.buf = @ \o SubSeq(EncodeData(f), 1, HeadLen), !.next = DataNext(f.body)]
    [] OTHER -> [x EXCEPT !.buf = @ \o EncodeFrame(f)]

IsEmpty(x) == x.buf = <<>> /\ x.next.payload = <<>>

\* Mutant: a CONTINUATION is left in `next` for the next flush.
RefillLater(x) == IF x.next.kind = "data" THEN [x EXCEPT !.next = NoBlockNext] ELSE x

\* The inner loop of flush has written everything: take `next`.
Refill(x) ==
  LET Checked(y) == [y EXCEPT !.panicked = y.next.kind # "none" /\ Len(y.buf) = HeadLen]
  IN  CASE x.next.kind = "none" -> x
        [] x.next.kind = "data" -> [x EXCEPT !.next = NoBlockNext]
        [] x.next.kind = "continuation" ->
             Checked(EncodeBlock(x, "CONTINUATION", {}, x.next.id, <<>>, x.next.block))

\* One poll_write of n octets, from the buffer or else from the chained DATA.
Advance(x, n) ==
  IF x.buf # <<>> THEN [x EXCEPT !.buf = SubSeq(@, n + 1, Len(@))]
  ELSE [x EXCEPT !.next.payload = SubSeq(@, n + 1, Len(@))]

Chunk(x) == IF x.buf # <<>> THEN x.buf ELSE x.next.payload

CountFrame == written < MaxFrames[sender] /\ written' = written + 1

Buffer(f) ==
  /\ sender = "nephele" /\ ~closed /\ ~w.panicked
  /\ HasCapacity(w) /\ CountFrame
  /\ w' = BufferFrame(w, f)
  /\ sent' = Append(sent, ComesOut(f))
  /\ UNCHANGED <<sender, wire, closed, r, got, broken>>

Write(n) ==
  /\ ~closed /\ ~w.panicked
  /\ n \in 1 .. Len(Chunk(w))
  /\ wire' = wire \o SubSeq(Chunk(w), 1, n)
  /\ LET x == Advance(w, n) IN w' = IF IsEmpty(x) THEN Refill(x) ELSE x
  /\ UNCHANGED <<sender, written, closed, r, sent, got, broken>>

\* Settings::poll_send: the ACK is buffered and then the peer's values apply
\* to what is encoded after it.
ApplySettings(table, frame) ==
  /\ sender = "nephele" /\ ~closed /\ ~w.panicked
  /\ HasCapacity(w) /\ CountFrame
  /\ LET ack == Frame("SETTINGS", 0, {"ack"}, <<>>)
         x == BufferFrame(w, ack)
     IN  /\ w' = [x EXCEPT !.enc = UpdateMaxSize(@, table), !.max = frame]
         /\ sent' = Append(sent, ack)
  /\ UNCHANGED <<sender, wire, closed, r, got, broken>>

\* FramedWrite::shutdown flushes first.
Shutdown ==
  /\ ~closed /\ IsEmpty(w) /\ HasCapacity(w)
  /\ closed' = TRUE
  /\ UNCHANGED <<sender, w, written, wire, r, sent, got, broken>>

\* The transport is lost with what the writer still holds; when it holds
\* nothing the loss is no different from a Shutdown.
Break ==
  /\ CanBreak /\ ~closed /\ ~(IsEmpty(w) /\ HasCapacity(w))
  /\ closed' = TRUE /\ broken' = TRUE
  /\ UNCHANGED <<sender, w, written, wire, r, sent, got>>

-----------------------------------------------------------------------------
(* Another library's writer.  It encodes a block as a whole and cuts it, at  *)
(* most twice, anywhere.                                                     *)

Pieces(out, i, j) == << SubSeq(out, 1, i), SubSeq(out, i + 1, j), SubSeq(out, j + 1, Len(out)) >>

CutAt(f, out, i, j) ==
  LET p == Pieces(Promised(f) \o out, i, j)
      n == IF j < Len(Promised(f) \o out) THEN 3 ELSE IF i < j THEN 2 ELSE 1
      Flags(k) == IF k = n THEN {"endHeaders"} ELSE {}
      Piece(k) == OnWire(IF k = 1 THEN HeadOf(f.kind, (f.flags \cap {"end"}) \cup Flags(k), f.id)
                         ELSE HeadOf("CONTINUATION", Flags(k), f.id), p[k])
  IN  FoldLeft(LAMBDA all, k : all \o Piece(k), <<>>, [k \in 1 .. n |-> k])

OtherBuffer(f, i, j) ==
  /\ sender = "other" /\ ~closed /\ CountFrame
  /\ LET e == Encode(w.enc, Block(List(f)), 100)
         len == Len(Promised(f)) + Len(e.out)
     IN  IF IsBlockFrame(f)
         THEN /\ Len(Promised(f)) < i /\ i <= j /\ j <= len
              /\ i <= MaxRecvFrame /\ j - i <= MaxRecvFrame /\ len - j <= MaxRecvFrame
              /\ wire' = wire \o CutAt(f, e.out, i, j)
              /\ w' = [w EXCEPT !.enc = e.enc]
         ELSE i = 0 /\ j = 0 /\ wire' = wire \o EncodeFrame(f) /\ w' = w
  /\ sent' = Append(sent, ComesOut(f))
  /\ UNCHANGED <<sender, closed, r, got, broken>>

OtherStray(x) ==
  /\ sender = "other" /\ ~closed /\ CountFrame
  /\ wire' = wire \o x.raw
  /\ sent' = sent \o x.gives
  /\ UNCHANGED <<sender, w, closed, r, got, broken>>

-----------------------------------------------------------------------------
(* The reader: FramedImpl::poll_next over LengthDelimitedCodec, num_skip 0.  *)

\* poll_read_buf gives n octets, 0 at the end of the stream.
Read(n) ==
  /\ r.end = "open" /\ ~r.readable
  /\ n \in (IF wire = <<>> THEN (IF closed THEN {0} ELSE {}) ELSE 1 .. Len(wire))
  /\ r' = [r EXCEPT !.buf = @ \o SubSeq(wire, 1, n), !.eof = (n = 0), !.readable = TRUE]
  /\ wire' = SubSeq(wire, n + 1, Len(wire))
  /\ UNCHANGED <<sender, w, written, closed, sent, got, broken>>

\* decode_head and decode_data: a frame of which not all is there keeps its
\* length, so that the head is not read twice.
TooLong(x) == x.data < 0 /\ x.buf # <<>> /\ x.buf[1].n > MaxRecvFrame
WithLength(x) == IF x.data < 0 /\ x.buf # <<>>
                 THEN [x EXCEPT !.data = x.buf[1].n + HeadLen] ELSE x
HasFrame(x) == WithLength(x).data >= 0 /\ Len(x.buf) >= WithLength(x).data

\* HeaderBlock::load, given what Decoder::decode made of the octets.  A field
\* counts even when the list is over the limit, but the next frame of the
\* block starts from the size of what was kept.
LoadFields(p, d) ==
  LET old == List(p.frame)
      Has(list, n) == \E i \in DOMAIN list : list[i].name = n
      Bad(acc, h) == \/ h.name = "connection"
                     \/ ~IsField(h) /\ (acc.reg \/ Has(List(acc.frame), h.name))
      Field(acc, h) ==
        LET size == acc.size + HeaderLen(h)
        IN  IF Bad(acc, h) THEN [acc EXCEPT !.malformed = TRUE]
            ELSE [acc EXCEPT !.size = size, !.reg = @ \/ IsField(h),
                             !.frame.body = IF size < MaxListSize THEN Append(@, h) ELSE @,
                             !.over = @ \/ size >= MaxListSize]
      Kept(k) ==
        [partial |-> [frame |-> k.frame, over |-> k.over, buf |-> d.rest], dec |-> d.dec,
         err |-> IF d.err = "" /\ k.malformed THEN "MalformedMessage" ELSE d.err]
  IN  Kept(FoldLeft(Field, [size |-> ListSize(old), frame |-> p.frame, over |-> p.over,
                            reg |-> \E i \in DOMAIN old : IsField(old[i]),
                            malformed |-> FALSE], d.headers))

LoadHpack(p, octets, dec) == LoadFields(p, Decode(dec, octets))

\* What decode_frame gives: the reader after it, and what poll_next returns.
Outcome(x, frames) == [reader |-> x, gives |-> frames]
Fails(x, reason) == Outcome([x EXCEPT !.end = "error"], <<ConnError(reason)>>)

\* The end of a HEADERS, PUSH_PROMISE or CONTINUATION.
Finish(x, l, head) ==
  LET y == [x EXCEPT !.dec = l.dec, !.partial = NoPartial]
      last == "endHeaders" \in head.flags
      frame == [Seen(l.partial.frame, l.partial.over) EXCEPT !.flags = @ \ {"endHeaders"}]
  IN  CASE l.err = "MalformedMessage" -> Outcome(y, <<StreamError(head.id)>>)
        [] l.err # "" /\ l.err # "MalformedMessage" /\ ~(l.err = NeedMore /\ ~last) ->
             Fails(y, "PROTOCOL_ERROR")
        [] l.err = "" /\ last -> Outcome(y, <<frame>>)
        [] OTHER -> Outcome([y EXCEPT !.partial = l.partial], <<>>)

FinishBlock(x, p, octets, head) == Finish(x, LoadHpack(p, octets, x.dec), head)

\* Mutant: what a cut representation left behind is dropped.
ContinueAfresh(x, head, payload) ==
  IF x.partial = NoPartial \/ x.partial.frame.id # head.id THEN Fails(x, "PROTOCOL_ERROR")
  ELSE FinishBlock([x EXCEPT !.partial = NoPartial], x.partial, payload, head)

Continue(x, head, payload) ==
  LET p == x.partial
      octets == IF p.buf = <<>> THEN payload ELSE p.buf \o payload
      y == [x EXCEPT !.partial = NoPartial]
  IN  CASE p = NoPartial \/ p.frame.id # head.id -> Fails(y, "PROTOCOL_ERROR")
        [] p # NoPartial /\ p.frame.id = head.id /\ p.buf # <<>> /\ p.over
             /\ Len(p.buf) + Len(payload) + HeadLen > MaxListSize ->
             Fails(y, "COMPRESSION_ERROR")
        [] OTHER -> FinishBlock(y, p, octets, head)

StartBlock(x, l, head) ==
  CASE l.err = "InvalidDependencyId" -> Outcome(x, <<StreamError(head.id)>>)
    [] l.err \notin {"", "InvalidDependencyId"} -> Fails(x, "PROTOCOL_ERROR")
    [] l.err = "" ->
         FinishBlock(x, [NoPartial EXCEPT !.frame = l.frame], l.block, head)

DecodeFrame(x, bytes) ==
  LET head == bytes[2]
      payload == SubSeq(bytes, HeadLen + 1, Len(bytes))
      kind == KindOf(head)
      l == Load(head, payload)
      isStream == kind = "PRIORITY" /\ head.id # 0 /\ l.err = "InvalidDependencyId"
  IN  CASE x.partial # NoPartial /\ kind # "CONTINUATION" -> Fails(x, "PROTOCOL_ERROR")
        [] kind = "CONTINUATION" -> Continue(x, head, payload)
        [] x.partial = NoPartial /\ kind = "HEADERS" ->
             StartBlock(x, LoadHeaders(head, payload), head)
        [] x.partial = NoPartial /\ kind = "PUSH_PROMISE" ->
             StartBlock(x, LoadPushPromise(head, payload), head)
        [] x.partial = NoPartial /\ kind = "Unknown" -> Outcome(x, <<>>)
        [] OTHER ->
             IF isStream THEN Outcome(x, <<StreamError(head.id)>>)
             ELSE IF l.err # "" \/ (kind = "PRIORITY" /\ head.id = 0)
             THEN Fails(x, "PROTOCOL_ERROR") ELSE Outcome(x, <<l.frame>>)

\* One turn of poll_next over what is buffered.
Poll ==
  /\ r.end = "open" /\ r.readable
  /\ LET x == WithLength(r)
         rest == [x EXCEPT !.buf = SubSeq(@, x.data + 1, Len(@)), !.data = -1]
         Gives(o) == r' = o.reader /\ got' = got \o o.gives
     IN  Gives(CASE TooLong(r) -> Fails(r, "FRAME_SIZE_ERROR")
                 [] ~TooLong(r) /\ HasFrame(r) -> DecodeFrame(rest, SubSeq(x.buf, 1, x.data))
                 [] ~TooLong(r) /\ ~HasFrame(r) /\ r.eof ->
                      Outcome([x EXCEPT !.end = IF x.buf = <<>> THEN "eof" ELSE "io"], <<>>)
                 [] OTHER -> Outcome([x EXCEPT !.readable = FALSE], <<>>))
  /\ UNCHANGED <<sender, w, written, wire, closed, sent, broken>>

-----------------------------------------------------------------------------

Send == \/ \E f \in Items["nephele"] : Buffer(f)
        \/ \E f \in Items["other"] : \E i, j \in 0 .. 8 : OtherBuffer(f, i, j)
        \/ \E x \in Strays : OtherStray(x)
\* The transport takes or gives one octet or all there are; any other number
\* leads where several steps of one octet lead.
Flush == \E n \in {1, Len(Chunk(w))} : Write(n)
Receive == (\E n \in {0, 1, Len(wire)} : Read(n)) \/ Poll

\* Nothing is left to do.
Done == r.end # "open" /\ UNCHANGED vars

Next ==
  \/ Send \/ Flush \/ Shutdown \/ Break \/ Receive \/ Done
  \/ \E t \in TableSizes, n \in FrameSizes : ApplySettings(t, n)

CanFlush == ~closed /\ ~w.panicked /\ Chunk(w) # <<>>
CanReceive == r.end = "open" /\ (r.readable \/ wire # <<>> \/ closed)

\* The connection is polled until the codec is flushed, and until reading it
\* answers Pending; the user need not send anything, and the peer no SETTINGS.
\* This is weak fairness of Flush and of Receive with the conditions that
\* enable them written out.
Fairness ==
  /\ ([]<>~CanFlush) \/ []<><<Flush>>_vars
  /\ ([]<>~CanReceive) \/ []<><<Receive>>_vars

Spec == Init /\ [][Next]_vars /\ Fairness

-----------------------------------------------------------------------------
(* Properties.                                                               *)

Settle == /\ r.end = "open" /\ ~closed
          /\ w.buf = <<>> /\ HasCapacity(w) /\ wire = <<>> /\ r.buf = <<>>

\* Whenever nothing is on its way the two ends' HPACK tables hold the same
\* entries, whatever was evicted, resized, cut into CONTINUATION frames or
\* refused as malformed since: a difference would garble every later list
\* (encoder.rs keeps the Index of a header that did not fit).
TablesAgree == Settle => SameTables(w.enc, r.dec)

\* The index of the encoder's table finds every entry and nothing else
\* (Robin-Hood places, chains of a name, wrapped positions: table.rs).
LookupFindsAll == LookupIsComplete(w.enc.table)

\* The encoder's table is as large as its entries, and within the limit the
\* decoder was told.
TableFits == SizeIsSum(w.enc.table)

\* The encoder's table is what a list of its entries would be, through
\* insertions, evictions and resizes.
TableIsSound == LookupFindsAll /\ TableFits

\* flush never meets its panic "CONTINUATION frame write loop; header value
\* too big to encode" (framed_write.rs:192).
NoWriteLoop == ~w.panicked

\* The frames that may be sent, as they are to come out.
Sendable ==
  {ComesOut(f) : f \in UNION {Items[s] : s \in Senders}}
    \cup {Frame("SETTINGS", 0, {"ack"}, <<>>)}
    \cup {x.gives[1] : x \in {y \in Strays : y.gives # <<>>}}

\* The codec is a channel of frames: whatever way the transport cuts octets,
\* frames come out as they went in, and none after an error.
Channel == INSTANCE FrameChannel WITH Frames <- Sendable
IsChannel == Channel!Spec

\* No frame stays behind in the writer's `next`, in the transport or in the
\* reader's buffer: a reader that answers Pending with a whole frame buffered,
\* or a flush that ends before its CONTINUATION, would leave one there.
AllArrive == Channel!Arrives
=============================================================================
