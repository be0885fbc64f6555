-------------------------------- MODULE Http1 --------------------------------
(* One HTTP/1.1 connection: client/{mod,encode,decode}.rs, the loop of       *)
(* server/mod.rs with decode.rs, encode.rs, body_reader.rs, and              *)
(* read_notifier.rs.  The two ends are tasks that read and write a transport *)
(* of bounded capacity; the server also spawns, for a request that expects   *)
(* 100-continue, a task that writes to the same transport.  The client's     *)
(* application uses the connection for one request after the other.          *)
(*                                                                           *)
(* A head is two bytes; what it says is looked up by the number of its       *)
(* request.  Lengths of bodies are in `fixed` or `chunked` form.             *)
EXTENDS ChunkedCoding, TLC

CONSTANTS
  Instances,   \* names of the instances a run starts with
  (* What differs between the instances: a function of them each.            *)
  Requests,    \* messages the client may send
  Responses,   \* messages the endpoint may answer with
  MaxRequests, \* bound: requests on the connection
  Capacity,    \* bytes in flight in each direction
  Moves        \* what else may happen: a subset of AllMoves

ReaderCapacity == 4 \* BufferReader's buffer
AllMoves == {"early", "timeout", "fail", "hangup"}

\* expect: "no", "waits" for 100 Continue before the body, or "impatient".
\* field: whether a trailer follows a chunked body, which is not this crate's.
Message(kind, chunks) ==
  [kind |-> kind, chunks |-> chunks, expect |-> "no", close |-> FALSE, field |-> FALSE]

VARIABLES
  instance, \* which of the instances this is
  wire,     \* bytes in flight, to the server and to the client
  client,   \* the task of connect and of what reads its response
  server,   \* the task of accept
  continue, \* the tasks that write 100 Continue
  plan,     \* the requests and responses of the connection
  answers   \* what the client took for the answer to each request

vars == <<instance, wire, client, server, continue, plan, answers>>

None == Message("none", <<>>)
Prefix(p, s) == Len(p) <= Len(s) /\ Take(s, Len(p)) = p

-----------------------------------------------------------------------------
(* Messages on the wire.                                                     *)

RequestHead(r) == <<Byte("line", r), Byte("end", r)>>
ResponseHead(r) == <<Byte("status", r), Byte("end", r)>>
Interim(r) == <<Byte("interim", r), Byte("end", r)>>

\* The length of the first `i` chunks of a message, and its content.
Length(m, i) == LET sum[j \in 0 .. i] == IF j = 0 THEN 0 ELSE sum[j - 1] + m.chunks[j] IN sum[i]
Size(m) == Length(m, Len(m.chunks))
Content(r, m) == [i \in 1 .. Size(m) |-> Byte("data", 10 * r + i)]
ChunkBytes(r, m) ==
  [i \in DOMAIN m.chunks |-> SubSeq(Content(r, m), Length(m, i - 1) + 1, Length(m, i))]

WithField(bytes) == Take(bytes, Len(bytes) - 2) \o <<Byte("field", 0), CR, LF, CR, LF>>
BodyBytes(r, m) ==
  LET encoded == Encode(ChunkBytes(r, m))
  IN  IF m.kind # "chunked" THEN Content(r, m) ELSE IF m.field THEN WithField(encoded) ELSE encoded

\* A head as the peer must have written it, else it is malformed.
IsRequest(head) == Len(head) = 2 /\ head[1].kind = "line"
IsResponse(head) == Len(head) = 2 /\ head[1].kind \in {"status", "interim"}

-----------------------------------------------------------------------------
(* Readers: a BufferReader on the transport, and the reader of a body on it. *)

NewReader == [ahead |-> <<>>, kind |-> "none", left |-> 0, dec |-> NewDecoder]

\* The reader of a body whose head m says so, on what was read ahead.
BodyReader(rd, m) == [rd EXCEPT !.kind = m.kind, !.left = Size(m)]

Outcome(res, rd, rest, out) == [res |-> res, rd |-> rd, rest |-> rest, out |-> out]

\* A read of at most `max` bytes; `bytes` are in flight, `over` if the other
\* end is gone.  An empty buffer is filled with what has arrived.
Filled(rd, bytes) ==
  IF rd.ahead # <<>> \/ bytes = <<>> THEN {Outcome("", rd, bytes, <<>>)}
  ELSE {Outcome("", [rd EXCEPT !.ahead = Take(bytes, n)], Drop(bytes, n), <<>>) :
          n \in 1 .. Least(Len(bytes), ReaderCapacity)}

Reads(rd, bytes, over, max) ==
  IF max = 0 THEN {Outcome("data", rd, bytes, <<>>)}
  ELSE {LET n == Least(max, Len(f.rd.ahead))
        IN  IF f.rd.ahead # <<>>
            THEN Outcome("data", [f.rd EXCEPT !.ahead = Drop(@, n)], f.rest, Take(f.rd.ahead, n))
            ELSE Outcome(IF over THEN "data" ELSE "pending", f.rd, f.rest, <<>>)
        : f \in Filled(rd, bytes)}

\* read_until, up to the end of the head or of what was read ahead.
ReadsHead(rd, bytes, over) ==
  {LET ends == {i \in DOMAIN f.rd.ahead : f.rd.ahead[i].kind = "end"}
       n == IF ends = {} THEN Len(f.rd.ahead) ELSE CHOOSE i \in ends : \A j \in ends : i <= j
       res == IF f.rd.ahead = <<>> THEN (IF over THEN "end" ELSE "pending")
              ELSE IF ends = {} THEN "again" ELSE "data"
   IN  Outcome(res, [f.rd EXCEPT !.ahead = Drop(@, n)], f.rest, Take(f.rd.ahead, n))
   : f \in Filled(rd, bytes)}

\* Take::poll_read and ChunkedDecoder::poll_read, by rounds
ReadsFixed(rd, bytes, over) ==
  IF rd.left = 0 THEN {Outcome("end", rd, bytes, <<>>)}
  ELSE {[o EXCEPT !.rd.left = @ - Len(o.out),
                  !.res = IF @ = "data" /\ o.out = <<>> THEN "end" ELSE @]
        : o \in Reads(rd, bytes, over, Least(rd.left, UserBuffer))}

ReadsChunked(rd, bytes, over) ==
  LET With(o, steps) == {Outcome(step.res, [o.rd EXCEPT !.dec = step.d], o.rest, step.out) : step \in steps}
      here == Outcome("", rd, bytes, <<>>)
      Rounds(d) ==
        IF ~Asks(d) \/ TooLarge(d) THEN With(here, {Round(d, <<>>)})
        ELSE UNION {With(o, {IF o.res = "pending" THEN Suspend(d) ELSE Round(d, o.out)})
                    : o \in Reads(rd, bytes, over, Wanted(d))}
  IN  UNION {IF entered.res = "loop" THEN Rounds(entered.d) ELSE With(here, {entered})
             : entered \in {Enter(rd.dec)}}

ReadsBody(rd, bytes, over) ==
  CASE rd.kind = "none" -> {Outcome("end", rd, bytes, <<>>)}
    [] rd.kind = "fixed" -> ReadsFixed(rd, bytes, over)
    [] rd.kind = "chunked" -> ReadsChunked(rd, bytes, over)

-----------------------------------------------------------------------------
Idle == [at |-> "idle", r |-> 0, out |-> <<>>, head |-> <<>>, rd |-> NewReader,
         read |-> <<>>, whole |-> FALSE, cut |-> FALSE]

Numbers == 1 .. MaxRequests[instance]

Init ==
  /\ instance \in Instances
  /\ wire = [server |-> <<>>, client |-> <<>>]
  /\ client = [interim |-> FALSE] @@ Idle
  /\ server = [lost |-> FALSE] @@ [Idle EXCEPT !.at = "head"]
  /\ continue = [r \in Numbers |-> "none"]
  /\ plan = [r \in Numbers |-> [request |-> None, response |-> None, early |-> FALSE]]
  /\ answers = <<>>

Cap == Capacity[instance]
ClientGone == client.at \in {"closed", "failed"}

\* The transport closes with its last clone; a task may still hold one.
ServerGone ==
  /\ server.at \in {"closed", "malformed", "error"}
  /\ \A r \in Numbers : continue[r] \notin {"asked", "writing"}

\* A poll that changes nothing is not a step.
Moved(o, rd) == o.res # "pending" \/ o.rd # rd

-----------------------------------------------------------------------------
(* The client.                                                               *)

Client(next) == client' = next /\ UNCHANGED <<instance, server, continue>>

\* connect: the whole request is written before the response is read, but for
\* a client that waits for 100 Continue, which is not this crate's.
Connect(m) ==
  LET r == client.r + 1
      body == IF m.expect = "waits" THEN <<>> ELSE BodyBytes(r, m)
  IN  /\ client.at \in {"idle", "done"} /\ r \in Numbers
      /\ client.at = "done" => plan[client.r].request.expect # "waits" \/ client.interim
      /\ Client([interim |-> FALSE] @@
                [Idle EXCEPT !.at = "send", !.r = r, !.out = RequestHead(r) \o body,
                             !.cut = client.cut \/ client.rd.dec.full])
      /\ plan' = [plan EXCEPT ![r].request = m]
      /\ UNCHANGED <<wire, answers>>

\* swap::copy of the encoder; the write fails when the server is gone.
SendRequest ==
  /\ client.at = "send" /\ UNCHANGED <<plan, answers>>
  /\ \/ /\ ~ServerGone /\ Len(wire.server) < Cap
        /\ wire' = [wire EXCEPT !.server = Append(@, Head(client.out))]
        /\ Client([client EXCEPT !.out = Tail(@), !.at = IF Len(client.out) = 1 THEN "head" ELSE @])
     \/ ServerGone /\ Client([client EXCEPT !.at = "failed"]) /\ UNCHANGED wire

\* client::decode.  The end of the transport meets assert!(bytes_read != 0).
ReadResponseHead ==
  /\ client.at = "head" /\ UNCHANGED plan
  /\ \E o \in ReadsHead(client.rd, wire.client, ServerGone) :
       LET head == client.head \o o.out
           request == plan[client.r].request
           interim == head[1].kind = "interim"
           body == IF interim THEN None ELSE plan[head[1].n].response
           got == [client EXCEPT !.rd = o.rd, !.head = head]
       IN  /\ Moved(o, client.rd)
           /\ wire' = [wire EXCEPT !.client = o.rest]
           /\ \/ o.res = "end" /\ Client([got EXCEPT !.at = "failed"]) /\ UNCHANGED answers
              \/ o.res = "again" /\ Client(got) /\ UNCHANGED answers
              \/ /\ o.res = "data" /\ ~IsResponse(head)
                 /\ Client([got EXCEPT !.at = "failed"])
                 /\ answers' = Append(answers, Byte("malformed", client.r))
              \/ /\ o.res = "data" /\ IsResponse(head) /\ interim /\ request.expect = "waits"
                 /\ Client([got EXCEPT !.at = "send", !.head = <<>>, !.interim = TRUE,
                                       !.out = BodyBytes(client.r, request)])
                 /\ UNCHANGED answers
              \/ /\ o.res = "data" /\ IsResponse(head) /\ ~(interim /\ request.expect = "waits")
                 /\ Client([got EXCEPT !.at = "body", !.rd = BodyReader(@, body)])
                 /\ answers' = Append(answers, head[1])

\* The application reads the response to its end.
ReadResponse ==
  /\ client.at = "body" /\ UNCHANGED <<plan, answers>>
  /\ \E o \in ReadsBody(client.rd, wire.client, ServerGone) :
       /\ Moved(o, client.rd)
       /\ wire' = [wire EXCEPT !.client = o.rest]
       /\ Client([client EXCEPT !.rd = o.rd, !.read = @ \o o.out, !.whole = o.res = "end",
                    !.at = CASE o.res = "end" -> "done" [] o.res = "error" -> "failed" [] OTHER -> @])

\* The connection is dropped: after a response, or at any time.  A client that
\* waited for 100 Continue in vain must, for it has not sent its body.
Close ==
  /\ client.at \in {"done", "idle"} \/ ("hangup" \in Moves[instance] /\ ~ClientGone)
  /\ Client([client EXCEPT !.at = "closed"]) /\ UNCHANGED <<wire, plan, answers>>

-----------------------------------------------------------------------------
(* The server: one accept_one after the other.                               *)

Server(next) == server' = next /\ UNCHANGED <<instance, client, answers>>

\* The end of a request: what its reader had read ahead goes with it.
Over(next, at) ==
  [next EXCEPT !.at = at, !.head = <<>>, !.rd = NewReader,
               !.lost = @ \/ (at = "head" /\ next.rd.ahead \o next.rd.dec.buf # <<>>),
               !.cut = @ \/ next.rd.dec.full]

\* Mutant: the Expect header is not looked at.
ExpectsAlways(m) == m.kind # "none"

\* The body's reader holds the sender of the notification.
Expects100(m) == m.expect # "no" /\ m.kind # "none"

\* server::decode
ReadRequestHead ==
  /\ server.at = "head" /\ UNCHANGED plan
  /\ \E o \in ReadsHead(server.rd, wire.server, ClientGone) :
       LET head == server.head \o o.out
           r == head[1].n
           request == plan[r].request
           got == [server EXCEPT !.rd = o.rd, !.head = head]
       IN  /\ Moved(o, server.rd)
           /\ wire' = [wire EXCEPT !.server = o.rest]
           /\ \/ o.res = "end" /\ Server([got EXCEPT !.at = "closed"]) /\ UNCHANGED continue
              \/ o.res = "again" /\ Server(got) /\ UNCHANGED continue
              \/ o.res = "data" /\ ~IsRequest(head) /\ Server([got EXCEPT !.at = "malformed"])
                 /\ UNCHANGED continue
              \/ /\ o.res = "data" /\ IsRequest(head)
                 /\ Server([got EXCEPT !.at = "endpoint", !.r = r, !.rd = BodyReader(@, request),
                                       !.read = <<>>, !.whole = request.kind = "none"])
                 /\ continue' = [continue EXCEPT ![r] =
                      IF Expects100(request) THEN "waiting" ELSE @]

\* Mutant: only the first request has to arrive in time.
FirstHeadersTimeout ==
  /\ "timeout" \in Moves[instance] /\ server.at = "head" /\ server.r = 0
  /\ Server([server EXCEPT !.at = "closed"]) /\ UNCHANGED <<wire, continue, plan>>

HeadersTimeout ==
  /\ "timeout" \in Moves[instance] /\ server.at = "head"
  /\ Server([server EXCEPT !.at = "closed"]) /\ UNCHANGED <<wire, continue, plan>>

\* One poll of the body; ReadNotifier's first one asks for 100 Continue.
PollBody(at) ==
  /\ server.at = at /\ ~server.whole
  /\ \E o \in ReadsBody(server.rd, wire.server, ClientGone) :
       LET got == [server EXCEPT !.rd = o.rd, !.read = @ \o o.out, !.whole = o.res = "end"]
           asks == at = "endpoint" /\ continue[server.r] = "waiting"
       IN  /\ Moved(o, server.rd) \/ asks
           /\ wire' = [wire EXCEPT !.server = o.rest]
           /\ continue' = IF asks THEN [continue EXCEPT ![server.r] = "asked"] ELSE continue
           /\ Server(IF o.res = "error" THEN Over(got, "error") ELSE got)
           /\ UNCHANGED plan

EndpointReads == PollBody("endpoint")

\* The request is dropped, and with it the sender of its notification.
Unasked == [continue EXCEPT ![server.r] = IF @ = "waiting" THEN "done" ELSE @]

Respond(m) ==
  /\ server.at = "endpoint" /\ (server.whole \/ "early" \in Moves[instance])
  /\ Server([server EXCEPT !.at = "respond", !.out = ResponseHead(server.r) \o BodyBytes(server.r, m)])
  /\ plan' = [plan EXCEPT ![server.r].response = m, ![server.r].early = ~server.whole]
  /\ continue' = Unasked /\ UNCHANGED wire

EndpointFails ==
  /\ "fail" \in Moves[instance] /\ server.at = "endpoint"
  /\ Server(Over(server, "error"))
  /\ continue' = Unasked /\ UNCHANGED <<wire, plan>>

SendResponse ==
  /\ server.at = "respond" /\ UNCHANGED <<plan, continue>>
  /\ \/ /\ ~ClientGone /\ Len(wire.client) < Cap
        /\ wire' = [wire EXCEPT !.client = Append(@, Head(server.out))]
        /\ Server([server EXCEPT !.out = Tail(@), !.at = IF Len(server.out) = 1 THEN "drain" ELSE @])
     \/ ClientGone /\ Server(Over(server, "error")) /\ UNCHANGED wire

\* The rest of the body is read to a sink, then the next request.
Drain == PollBody("drain")

Finish ==
  LET now == plan[server.r]
  IN  /\ server.at = "drain" /\ server.whole /\ UNCHANGED <<wire, plan, continue>>
      /\ Server(Over(server, IF now.request.close \/ now.response.close THEN "closed" ELSE "head"))

\* The task that decode spawns for `Expect: 100-continue`.
WriteInterim(r) ==
  /\ continue[r] \in {"asked", "writing"}
  /\ \/ /\ ~ClientGone /\ Len(wire.client) < Cap
        /\ wire' = [wire EXCEPT !.client =
                      Append(@, Interim(r)[IF continue[r] = "asked" THEN 1 ELSE 2])]
        /\ continue' = [continue EXCEPT ![r] = IF @ = "asked" THEN "writing" ELSE "done"]
     \/ ClientGone /\ continue' = [continue EXCEPT ![r] = "done"] /\ UNCHANGED wire
  /\ UNCHANGED <<instance, client, server, plan, answers>>

-----------------------------------------------------------------------------
\* What the tasks and the timer do by themselves.
Progress ==
  \/ HeadersTimeout \/ SendRequest \/ SendResponse \/ Finish
  \/ \E r \in Numbers : WriteInterim(r)
  \/ \E m \in Responses[instance] : Respond(m)
  \/ ReadRequestHead \/ ReadResponseHead \/ EndpointReads \/ Drain \/ ReadResponse

Next ==
  \/ Progress
  \/ \E m \in Requests[instance] : Connect(m)
  \/ Close \/ EndpointFails

Spec == Init /\ [][Next]_vars

\* While a task can run some task does, the endpoint included, and time passes.
\* That is enough: no step undoes another, so that each task runs in the end.
FairSpec == Spec /\ WF_vars(Progress)

-----------------------------------------------------------------------------
(* Properties.                                                               *)

\* A 100 Continue may be written among or after the bytes of the response: for
\* a client that does not wait for it, or an endpoint that does not wait for
\* the body it asked for.
Tangled(r) ==
  \/ plan[r].request.expect = "impatient"
  \/ plan[r].request.expect = "waits" /\ plan[r].early

\* Whatever pieces it arrives in, the body that is read is a prefix of what
\* was sent, and all of it when its end is told without an error: but for a
\* connection that is gone, and for a decoder whose buffer had no room left,
\* which takes that for the end (chunked/decoder.rs:229).
BodiesAreWhole ==
  LET FromTo(reader, r, m, gone) ==
        /\ Prefix(reader.read, Content(r, m))
        /\ reader.whole => reader.read = Content(r, m) \/ gone \/ reader.rd.dec.full
      told == client.head[1].n
  IN  /\ server.at \in {"endpoint", "respond", "drain"} =>
           FromTo(server, server.r, plan[server.r].request, ClientGone)
      /\ client.at \in {"body", "done"} /\ (\A r \in 1 .. client.r : ~Tangled(r)) =>
           FromTo(client, told, plan[told].response, ServerGone)

\* The answer the client takes is the answer to its request, however late the
\* server drains a body, unless a 100 Continue is in the way or the rest of a
\* body that the decoder has cut off.
AnswersMatch ==
  \A i \in DOMAIN answers :
    answers[i] = Byte("status", i) \/ client.cut \/ \E r \in 1 .. i : Tangled(r)

\* No byte of a request is dropped with the reader of the one before it, and
\* no body is taken for a head, unless an endpoint answered before it had read
\* its body, when the client's next request races the drain, the decoder cut
\* a body off, or the client took a 100 Continue for the answer.
NothingLost ==
  server.lost \/ server.at = "malformed" =>
    server.cut \/ \E r \in Numbers : plan[r].early \/ Tangled(r)

\* Who asks is answered or told that the connection is over: but for an early
\* answer (or one to a body that was cut off) and a request that fill the
\* transport against each other.
Asking == client.at \in {"send", "head", "body"}
MutualBlock ==
  /\ client.at = "send" /\ server.at = "respond"
  /\ plan[server.r].early \/ server.rd.dec.full
  /\ Len(wire.server) = Cap /\ Len(wire.client) = Cap
Answered == Asking ~> ~Asking \/ MutualBlock
=============================================================================
