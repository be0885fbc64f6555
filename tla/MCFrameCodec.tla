---------------------------- MODULE MCFrameCodec ----------------------------
(* Small instances of FrameCodec.                                            *)
EXTENDS FrameCodec

\* HPACK's integers around every length of theirs, the longest included.
ASSUME IntegersReadBack ==
  \A bits \in {4, 5, 6, 7} : \A k \in 0 .. 4 : \A d \in -3 .. 3 :
    LET v == 2^bits - 1 + 128^k + d
    IN  k < 4 \/ d < 0 => ReadsBack(v, bits)

Get == Header(":method", "GET")
Xa == Header("x", "a")
Xb == Header("x", "b")
Ya == Header("y", "a")
ZLong == Header("z", "long")
Secret == Header("y", "secret")
Path == Header(":path", "/p")

Chunk1 == Octets("chunk", 0, "1")
Chunk2 == Octets("chunk", 0, "2")

MCHashOf == [n \in {"x", "y", "z", "vary", "connection"} |-> IF n = "z" THEN 1 ELSE 0]

Request == Frame("HEADERS", 1, {"end"}, <<Get, Xa, Xb>>)

MCItems == [s \in {"nephele", "other"} |->
  IF s = "other" THEN {Request}
  ELSE { Request,
         Frame("PUSH_PROMISE", 1, {}, <<Octets("promised", 2, ""), Get, Path, Xb, Secret, ZLong>>),
         Frame("DATA", 1, {"end"}, <<Chunk1, Chunk2>>) }]

Raw(kind, flags, id, payload) == OnWire(HeadOf(kind, flags, id), payload)

MCMaxFrames == [s \in {"nephele", "other"} |-> IF s = "nephele" THEN 3 ELSE 2]

\* Header blocks of another library that do not touch the table.
Plain(n, v) == <<Octets("plain", 0, ""), Octets("huff", 0, n), Octets("huff", 0, v)>>
Pad(n) == Octets("padding", n, "")
Dependency(id) == Octets("dependency", id, "")
Setting(s, n) == Octets("setting", n, s)
Fatal == <<Frame("connError", 0, {}, <<Octets("reason", 0, "PROTOCOL_ERROR")>>)>>
Stray(raw, gives) == [raw |-> raw, gives |-> gives]
EH == {"endHeaders"}

\* What each of them has to come out as, stated from the protocol and not from
\* the model.
MCStrays == {
  Stray(Raw("ALTSVC", {}, 0, <<Chunk1>>), <<>>),
  Stray(Raw("DATA", {"padded"}, 1, <<Pad(1), Chunk1, Pad(0)>>), <<Frame("DATA", 1, {}, <<Chunk1>>)>>),
  Stray(Raw("DATA", {"padded", "end"}, 1, <<Pad(1), Pad(0)>>), <<Frame("DATA", 1, {"end"}, <<>>)>>),
  Stray(Raw("DATA", {"padded"}, 1, <<Pad(1)>>), Fatal),
  Stray(Raw("DATA", {}, 0, <<Chunk1>>), Fatal),
  Stray(Raw("HEADERS", EH \cup {"padded"}, 3, <<Pad(1)>> \o Plain("y", "a") \o <<Pad(0)>>),
        <<Frame("HEADERS", 3, {}, <<Ya>>)>>),
  Stray(Raw("HEADERS", EH \cup {"priority"}, 3, <<Dependency(1)>> \o Plain("y", "a")),
        <<Frame("HEADERS", 3, {}, <<Ya>>)>>),
  Stray(Raw("HEADERS", EH \cup {"priority"}, 3, <<Dependency(3)>> \o Plain("y", "a")),
        <<StreamError(3)>>),
  Stray(Raw("HEADERS", EH, 3, Plain("connection", "a")), <<StreamError(3)>>),
  Stray(Raw("HEADERS", EH, 3, Plain("y", "a") \o <<Octets("indexed", 1, "")>>), <<StreamError(3)>>),
  Stray(Raw("HEADERS", EH, 3, <<Octets("indexed", 1, ""), Octets("indexed", 1, "")>>), <<StreamError(3)>>),
  Stray(Raw("HEADERS", EH, 3, <<Octets("indexed", 60, "")>>), Fatal),
  Stray(Raw("HEADERS", EH, 3, SubSeq(Plain("y", "a"), 1, 2)), Fatal),
  Stray(Raw("HEADERS", {}, 3, Plain("y", "a")) \o Raw("DATA", {}, 1, <<Chunk1>>), Fatal),
  Stray(Raw("HEADERS", {}, 3, Plain("y", "a")) \o Raw("CONTINUATION", EH, 5, <<>>), Fatal),
  Stray(Raw("CONTINUATION", EH, 3, Plain("y", "a")), Fatal),
  Stray(Raw("PRIORITY", {}, 3, <<Dependency(1)>>), <<Frame("PRIORITY", 3, {}, <<Dependency(1)>>)>>),
  Stray(Raw("PRIORITY", {}, 3, <<Dependency(3)>>), <<StreamError(3)>>),
  Stray(Raw("RST_STREAM", {}, 3, <<>>), Fatal),
  Stray(Raw("WINDOW_UPDATE", {}, 3, <<Octets("increment", 0, "")>>), Fatal),
  Stray(Raw("WINDOW_UPDATE", {}, 3, <<Octets("increment", 2, "")>>),
        <<Frame("WINDOW_UPDATE", 3, {}, <<Octets("increment", 2, "")>>)>>),
  Stray(Raw("GOAWAY", {}, 0, <<Octets("last", 1, ""), Octets("reason", 0, "NO_ERROR"), Chunk1>>),
        <<Frame("GOAWAY", 0, {}, <<Octets("last", 1, ""), Octets("reason", 0, "NO_ERROR")>>)>>),
  Stray(Raw("SETTINGS", {}, 0, <<Setting("InitialWindowSize", 3), Setting("MaxFrameSize", 4),
                                 Setting("InitialWindowSize", 1), Setting("Unheard", 9)>>),
        <<Frame("SETTINGS", 0, {}, <<Setting("InitialWindowSize", 1), Setting("MaxFrameSize", 4)>>)>>),
  Stray(Raw("SETTINGS", {}, 0, <<Setting("InitialWindowSize", 4)>>), Fatal),
  Stray(Raw("SETTINGS", {}, 0, <<Setting("MaxFrameSize", 2)>>), Fatal),
  Stray(Raw("SETTINGS", {}, 0, <<Setting("EnablePush", 2)>>), Fatal),
  Stray(Raw("SETTINGS", {"ack"}, 0, <<Setting("EnablePush", 1)>>), Fatal),
  Stray(Raw("PING", {"ack"}, 0, <<Octets("opaque", 8, "p")>>),
        <<Frame("PING", 0, {"ack"}, <<Octets("opaque", 8, "p")>>)>>),
  Stray(Raw("PING", {}, 1, <<Octets("opaque", 8, "p")>>), Fatal) }
=============================================================================
