-------------------------------- MODULE Hpack --------------------------------
(* The two ends of a compressed header list: hpack/encoder.rs over its       *)
(* dynamic table (HpackTable) and hpack/decoder.rs over a plain list.  A     *)
(* block is a sequence of octet groups [t, n, s] that a frame may end        *)
(* between: an integer with its prefix is one group, a string another.       *)
EXTENDS HpackTable

CONSTANTS
  TableSize,  \* SETTINGS_HEADER_TABLE_SIZE both sides start with
  RawNames,   \* names that are written without Huffman code
  LongCoded   \* values that take four times their length in Huffman code

Octets(t, n, s) == [t |-> t, n |-> n, s |-> s]

\* encode_str and what decode_string reads.
Str(s) == Octets(IF s \in RawNames \/ s = "" THEN "raw" ELSE "huff", 0, s)

-----------------------------------------------------------------------------
(* An integer in its octets: what fits the prefix, or the prefix full and    *)
(* the rest in groups of seven bits, the least first.                        *)

MaxIntOctets == 5

\* encode_int; a larger rest panics.
EncodeInt(v, bits) ==
  LET low == 2^bits - 1
      rest == v - low
      k == Min({i \in 1 .. 4 : rest < 128^i})
  IN  IF v < low THEN <<v>>
      ELSE <<low>> \o [i \in 1 .. k |-> ((rest \div 128^(i - 1)) % 128) + (IF i < k THEN 128 ELSE 0)]

\* decode_int: the value, or why there is none.
DecodeInt(octets, bits) ==
  LET mask == 2^bits - 1
      first == octets[1] % 2^bits
      ends == {i \in 2 .. Len(octets) : octets[i] < 128}
      Weight(i) == (octets[i] % 128) * 128^(i - 2)
  IN  CASE octets = <<>> -> "NeedMore"
        [] octets # <<>> /\ first < mask -> first
        [] octets # <<>> /\ first = mask ->
             IF ends # {} /\ Min(ends) <= MaxIntOctets
             THEN FoldLeft(LAMBDA n, i : n + Weight(i), mask, [j \in 1 .. Min(ends) - 1 |-> j + 1])
             ELSE IF Len(octets) >= MaxIntOctets THEN "IntegerOverflow" ELSE "NeedMore"

\* What is written is read back, and no part of it is taken for the whole.
ReadsBack(v, bits) ==
  LET octets == EncodeInt(v, bits)
  IN  /\ DecodeInt(octets, bits) = v
      /\ \A n \in 0 .. Len(octets) - 1 : DecodeInt(SubSeq(octets, 1, n), bits) = "NeedMore"

-----------------------------------------------------------------------------
(* Encoder.  sizeUpdate is <<>>, <<val>> or <<min, max>>.                    *)

NewEncoder == [table |-> NewTable(TableSize), sizeUpdate |-> <<>>]

\* update_max_size: the smallest size since the last block has to be told too.
UpdateMaxSize(e, val) ==
  LET su == e.sizeUpdate
      One == [e EXCEPT !.sizeUpdate = <<val>>]
      Two == [e EXCEPT !.sizeUpdate = <<su[1], val>>]
  IN  CASE Len(su) = 0 -> IF val # e.table.max THEN One ELSE e
        [] Len(su) = 1 -> IF val > su[1] /\ su[1] <= e.table.max THEN Two ELSE One
        [] Len(su) = 2 -> IF val < su[1] THEN One ELSE Two

\* encode_size_updates
TellSizes(e) ==
  [enc |-> [table |-> FoldLeft(Resize, e.table, e.sizeUpdate), sizeUpdate |-> <<>>],
   out |-> [i \in DOMAIN e.sizeUpdate |-> Octets("size", e.sizeUpdate[i], "")]]

\* The room a part of a block takes in a frame.
Width(out) == FoldLeft(LAMBDA n, o : n + (IF o.s \in LongCoded THEN 4 ELSE 1), 0, out)

Literal(h) == IF IsSensitive(h) THEN "never" ELSE "plain"

\* encode_header
Representation(ix) ==
  LET h == ix.header
  IN  CASE ix.kind = "indexed" -> <<Octets("indexed", ix.at, "")>>
        [] ix.kind = "name" -> <<Octets(Literal(h), ix.at, ""), Str(h.value)>>
        [] ix.kind = "inserted" -> <<Octets("inc", 0, ""), Str(h.name), Str(h.value)>>
        [] ix.kind = "insertedValue" -> <<Octets("inc", ix.at, ""), Str(h.value)>>
        [] ix.kind = "notIndexed" -> <<Octets(Literal(h), 0, ""), Str(h.name), Str(h.value)>>

\* encode_header_without_name: a further value of the field written last.
WithoutName(last, h) ==
  IF last.kind = "notIndexed"
  THEN <<Octets(Literal(h), 0, ""), Str(last.header.name), Str(h.value)>>
  ELSE <<Octets(Literal(h), ResolveIndex(last), ""), Str(h.value)>>

\* Iter over a HeaderMap names a field only at its first value.
Unnamed(list, i) == i > 1 /\ IsField(list[i]) /\ list[i].name = list[i - 1].name

NoIndex == Index("none", 0, Header("", ""))

\* What is left to encode: the header that did not fit, as its Index when it
\* was already looked up, and the headers after it.
Block(list) == [list |-> list, at |-> 1, last |-> NoIndex, pending |-> FALSE]
IsFull(b) == b.at > Len(b.list)

\* How far a block is encoded: the encoder, the block, the octets, and
\* whether the frame is full.
Encoded(e, b, out, full) == [enc |-> e, block |-> b, out |-> out, full |-> full]

\* A header that does not fit keeps its Index, and its place in the table.
Fit(e, b, out, room, ix, rep) ==
  IF Width(out) + Width(rep) > room
  THEN Encoded(e, [b EXCEPT !.last = ix, !.pending = TRUE], out, TRUE)
  ELSE Encoded(e, [b EXCEPT !.last = ix, !.pending = FALSE, !.at = @ + 1], out \o rep, FALSE)

\* The next header into at most `room` groups.
EncodeHeader(e, b, out, room) ==
  LET h == b.list[b.at]
      Fresh(r) ==
        Fit([e EXCEPT !.table = r.table], b, out, room, r.index, Representation(r.index))
  IN  IF Unnamed(b.list, b.at) THEN Fit(e, b, out, room, b.last, WithoutName(b.last, h))
      ELSE IF b.pending THEN Fit(e, b, out, room, b.last, Representation(b.last))
      ELSE Fresh(FindOrAdd(e.table, h))

\* Encoder::encode into a frame that has `room` groups left.
Encode(e, b, room) ==
  LET Start(told) == Encoded(told.enc, b, told.out, FALSE)
      Step(c) == IF c.full \/ IsFull(c.block) THEN c
                 ELSE EncodeHeader(c.enc, c.block, c.out, room)
      f[n \in 0 .. Len(b.list)] == IF n = 0 THEN Start(TellSizes(e)) ELSE Step(f[n - 1])
  IN  f[Len(b.list)]

-----------------------------------------------------------------------------
(* Decoder.                                                                  *)

NewDecoder == [entries |-> <<>>, size |-> 0, max |-> TableSize, lastMax |-> TableSize]

TableGet(d, i) ==
  IF i < DynOffset THEN Header(Static[i].name, Static[i].value)
                   ELSE d.entries[i - DynOffset + 1]
TableHas(d, i) == i > 0 /\ i < DynOffset + Len(d.entries)

\* reserve and consolidate: the oldest entries go until `extra` fits as well.
Reserve(d, extra) ==
  FoldLeft(LAMBDA u, h : IF u.size + extra <= u.max THEN u
                         ELSE [u EXCEPT !.size = @ - HeaderLen(Last(u.entries)),
                                        !.entries = Front(@)],
           d, d.entries)

\* Mutant: an entry more stays than fits.
TableInsertLate(d, h) ==
  LET u == Reserve(d, 0)
  IN  [u EXCEPT !.size = @ + HeaderLen(h), !.entries = <<h>> \o @]

TableInsert(d, h) ==
  LET u == Reserve(d, HeaderLen(h))
  IN  IF u.size + HeaderLen(h) <= u.max
      THEN [u EXCEPT !.size = @ + HeaderLen(h), !.entries = <<h>> \o @] ELSE u

SetMaxSize(d, size) == Reserve([d EXCEPT !.max = size], 0)

Representations == {"indexed", "inc", "plain", "never", "size"}
NeedMore == "NeedMore"

\* What decoding the representation at the front of buf gives: the decoder,
\* the header if there is one, the octets left, and an error.  On an error
\* the octets of the representation stay, but for a name read by take(),
\* which cuts the buffer after it at once.
Decoded(d, hs, rest, err) == [dec |-> d, headers |-> hs, rest |-> rest, err |-> err]

DecodeLiteral(d, buf) ==
  LET inc == buf[1].t = "inc"
      i == buf[1].n
      needed == IF i = 0 THEN 3 ELSE 2
      h == IF i = 0 THEN Header(buf[2].s, buf[3].s) ELSE Header(TableGet(d, i).name, buf[2].s)
      cut == IF i = 0 /\ Len(buf) = 2 /\ buf[2].t = "raw" THEN <<>> ELSE buf
  IN  IF i # 0 /\ ~TableHas(d, i) THEN Decoded(d, <<>>, buf, "InvalidTableIndex")
      ELSE IF Len(buf) < needed THEN Decoded(d, <<>>, cut, NeedMore)
      ELSE Decoded(IF inc THEN TableInsert(d, h) ELSE d, <<h>>,
                   SubSeq(buf, needed + 1, Len(buf)), "")

DecodeOne(d, buf, canResize) ==
  LET o == Head(buf)
  IN  CASE o.t \notin Representations -> Decoded(d, <<>>, buf, "InvalidRepresentation")
        [] o.t = "indexed" ->
             IF TableHas(d, o.n) THEN Decoded(d, <<TableGet(d, o.n)>>, Tail(buf), "")
             ELSE Decoded(d, <<>>, buf, "InvalidTableIndex")
        [] o.t = "size" ->
             IF ~canResize \/ o.n > d.lastMax
             THEN Decoded(d, <<>>, buf, "InvalidMaxDynamicSize")
             ELSE Decoded(SetMaxSize(d, o.n), <<>>, Tail(buf), "")
        [] OTHER -> DecodeLiteral(d, buf)

\* Decoder::decode: everything that is there, or up to the first error.
Decode(d, buf) ==
  LET Step(r, s) == IF r.rest = <<>> \/ r.err # "" THEN r
                    ELSE Decoded(s.dec, r.headers \o s.headers, s.rest, s.err)
      Next(r) == Step(r, DecodeOne(r.dec, r.rest, r.headers = <<>>))
      f[n \in 0 .. Len(buf)] == IF n = 0 THEN Decoded(d, <<>>, buf, "") ELSE Next(f[n - 1])
  IN  f[Len(buf)]

\* The two tables hold the same: what the encoder has written, the decoder
\* reads.
SameTables(e, d) ==
  /\ d.entries = [i \in DOMAIN e.table.slots |-> e.table.slots[i].header]
  /\ d.size = e.table.size
=============================================================================
