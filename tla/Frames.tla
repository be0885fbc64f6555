------------------------------- MODULE Frames -------------------------------
(* The frames of proto/h2/frame: what each type's encode writes after its    *)
(* head and what its load accepts.  A payload is a sequence of octet groups  *)
(* [t, n, s]; a group stands for the octets of one field, so that a payload  *)
(* of the wrong length is one with a field too few or too many.  A frame for *)
(* the connection is [kind, id, flags, body], and a load answers it with an  *)
(* error, "" when there is none.                                             *)
EXTENDS Hpack

CONSTANTS
  MaxWindow,    \* MAX_INITIAL_WINDOW_SIZE
  LeastFrame,   \* DEFAULT_MAX_FRAME_SIZE, the least a peer may ask for
  MostFrame     \* MAX_MAX_FRAME_SIZE

FrameKinds == {"DATA", "HEADERS", "PRIORITY", "RST_STREAM", "SETTINGS", "PUSH_PROMISE",
               "PING", "GOAWAY", "WINDOW_UPDATE", "CONTINUATION"}

Frame(kind, id, flags, body) == [kind |-> kind, id |-> id, flags |-> flags, body |-> body]

\* A frame on the wire: its length, the rest of its head, its payload.
HeadLen == 2
HeadOf(kind, flags, id) == [kind |-> kind, flags |-> flags, id |-> id]
OnWire(head, payload) == <<Octets("len", Len(payload), ""), head>> \o payload

\* Kind::new
KindOf(head) == IF head.kind \in FrameKinds THEN head.kind ELSE "Unknown"

-----------------------------------------------------------------------------
(* Loads.                                                                    *)

Loaded(frame, err) == [frame |-> frame, err |-> err]
NoFrame == Frame("none", 0, {}, <<>>)
Refused(err) == Loaded(NoFrame, err)

Is(payload, types) == [i \in DOMAIN payload |-> payload[i].t] = types

\* strip_padding: the length of the padding leads, the padding trails.
StripPadding(payload) ==
  IF payload = <<>> \/ payload[1].n >= Len(payload) THEN <<FALSE, <<>>>>
  ELSE <<TRUE, SubSeq(payload, 2, Len(payload) - payload[1].n)>>

LoadData(head, payload) ==
  LET stripped == IF "padded" \in head.flags THEN StripPadding(payload) ELSE <<TRUE, payload>>
  IN  CASE head.id = 0 -> Refused("InvalidStreamId")
        [] head.id # 0 /\ ~stripped[1] -> Refused("TooMuchPadding")
        [] OTHER -> Loaded(Frame("DATA", head.id, head.flags \cap {"end"}, stripped[2]), "")

LoadReset(head, payload) ==
  IF ~Is(payload, <<"reason">>) THEN Refused("InvalidPayloadLength")
  ELSE Loaded(Frame("RST_STREAM", head.id, {}, payload), "")

LoadPing(head, payload) ==
  CASE head.id # 0 -> Refused("InvalidStreamId")
    [] head.id = 0 /\ ~Is(payload, <<"opaque">>) -> Refused("BadFrameSize")
    [] OTHER -> Loaded(Frame("PING", 0, head.flags \cap {"ack"}, payload), "")

\* The debug data may be of any length; the stream id of the head is not read.
LoadGoAway(payload) ==
  IF Len(payload) < 2 THEN Refused("BadFrameSize")
  ELSE Loaded(Frame("GOAWAY", 0, {}, SubSeq(payload, 1, 2)), "")

LoadWindowUpdate(head, payload) ==
  CASE ~Is(payload, <<"increment">>) -> Refused("BadFrameSize")
    [] Is(payload, <<"increment">>) /\ payload[1].n = 0 -> Refused("InvalidWindowUpdateValue")
    [] OTHER -> Loaded(Frame("WINDOW_UPDATE", head.id, {}, payload), "")

LoadPriority(head, payload) ==
  CASE ~Is(payload, <<"dependency">>) -> Refused("InvalidPayloadLength")
    [] Is(payload, <<"dependency">>) /\ payload[1].n = head.id -> Refused("InvalidDependencyId")
    [] OTHER -> Loaded(Frame("PRIORITY", head.id, {}, payload), "")

SettingNames == <<"HeaderTableSize", "EnablePush", "MaxConcurrentStreams",
                  "InitialWindowSize", "MaxFrameSize", "MaxHeaderListSize">>

IsBadSetting(o) ==
  \/ o.s = "EnablePush" /\ o.n \notin {0, 1}
  \/ o.s = "InitialWindowSize" /\ o.n > MaxWindow
  \/ o.s = "MaxFrameSize" /\ o.n \notin LeastFrame .. MostFrame

\* The last value of each setting that is known, in the order of for_each.
Settled(payload) ==
  LET Told(name) == SelectSeq(payload, LAMBDA o : o.s = name)
  IN  FoldLeft(LAMBDA out, name :
                 IF Told(name) = <<>> THEN out ELSE Append(out, Last(Told(name))),
               <<>>, SettingNames)

LoadSettings(head, payload) ==
  LET whole == \A i \in DOMAIN payload : payload[i].t = "setting"
  IN  CASE head.id # 0 -> Refused("InvalidStreamId")
        [] head.id = 0 /\ "ack" \in head.flags ->
             IF payload = <<>> THEN Loaded(Frame("SETTINGS", 0, {"ack"}, <<>>), "")
             ELSE Refused("InvalidPayloadLength")
        [] head.id = 0 /\ "ack" \notin head.flags /\ ~whole ->
             Refused("InvalidPayloadAckSettings")
        [] OTHER ->
             IF \E i \in DOMAIN payload : IsBadSetting(payload[i]) THEN Refused("InvalidSettingValue")
             ELSE Loaded(Frame("SETTINGS", 0, {}, Settled(payload)), "")

\* Headers::load and PushPromise::load.  `block` is what is left for HPACK.
LoadBlock(frame, block, err) == [frame |-> frame, block |-> block, err |-> err]
NoBlock(err) == LoadBlock(NoFrame, <<>>, err)

Unpadded(frame, pad, src) ==
  IF pad > Len(src) THEN NoBlock("TooMuchPadding")
  ELSE LoadBlock(frame, SubSeq(src, 1, Len(src) - pad), "")

LoadHeaders(head, payload) ==
  LET padded == "padded" \in head.flags
      prio == "priority" \in head.flags
      pad == IF padded THEN payload[1].n ELSE 0
      src == IF padded THEN Tail(payload) ELSE payload
      frame == Frame("HEADERS", head.id, head.flags \cap {"end", "endHeaders"}, <<>>)
  IN  CASE padded /\ payload = <<>> -> NoBlock("MalformedMessage")
        [] ~(padded /\ payload = <<>>) /\ prio /\ src = <<>> -> NoBlock("MalformedMessage")
        [] ~(padded /\ payload = <<>>) /\ prio /\ src # <<>> ->
             IF src[1].n = head.id THEN NoBlock("InvalidDependencyId")
             ELSE Unpadded(frame, pad, Tail(src))
        [] OTHER -> Unpadded(frame, pad, src)

LoadPushPromise(head, payload) ==
  LET padded == "padded" \in head.flags
      pad == IF padded THEN payload[1].n ELSE 0
      src == IF padded THEN Tail(payload) ELSE payload
      frame == Frame("PUSH_PROMISE", head.id, head.flags \cap {"endHeaders"}, <<src[1]>>)
  IN  IF (padded /\ payload = <<>>) \/ Len(src) < 2 THEN NoBlock("MalformedMessage")
      ELSE Unpadded(frame, pad, Tail(src))

\* All the frames that are not made of a header block.
Load(head, payload) ==
  CASE KindOf(head) = "DATA" -> LoadData(head, payload)
    [] KindOf(head) = "PRIORITY" -> LoadPriority(head, payload)
    [] KindOf(head) = "RST_STREAM" -> LoadReset(head, payload)
    [] KindOf(head) = "SETTINGS" -> LoadSettings(head, payload)
    [] KindOf(head) = "PING" -> LoadPing(head, payload)
    [] KindOf(head) = "GOAWAY" -> LoadGoAway(payload)
    [] KindOf(head) = "WINDOW_UPDATE" -> LoadWindowUpdate(head, payload)

-----------------------------------------------------------------------------
(* Encodes of the frames that are not made of a header block.                *)

EncodeData(f) == OnWire(HeadOf("DATA", f.flags, f.id), f.body)
EncodePing(f) == OnWire(HeadOf("PING", f.flags, 0), f.body)
EncodeReset(f) == OnWire(HeadOf("RST_STREAM", {}, f.id), f.body)
EncodeGoAway(f) == OnWire(HeadOf("GOAWAY", {}, 0), SubSeq(f.body, 1, 2))
EncodeWindowUpdate(f) == OnWire(HeadOf("WINDOW_UPDATE", {}, f.id), f.body)
EncodeSettings(f) == OnWire(HeadOf("SETTINGS", f.flags, 0), Settled(f.body))

EncodeFrame(f) ==
  CASE f.kind = "DATA" -> EncodeData(f)
    [] f.kind = "RST_STREAM" -> EncodeReset(f)
    [] f.kind = "SETTINGS" -> EncodeSettings(f)
    [] f.kind = "PING" -> EncodePing(f)
    [] f.kind = "GOAWAY" -> EncodeGoAway(f)
    [] f.kind = "WINDOW_UPDATE" -> EncodeWindowUpdate(f)
=============================================================================
