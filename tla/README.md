# A verification project for nephele

nephele is an HTTP library: an HTTP/2 implementation in the style of the `h2`
crate (`src/nephele/src/proto/h2`), a small HTTP/1.1 client and server
(`src/nephele/src/proto/h1`), and the codecs, TLS adapters and HTTP types they
share (`src/nephele/src/common`). This directory holds TLA+ modules of the
parts that carry the protocol's own logic, the TLC configurations that check
them on small instances, and proofs that TLAPS checks for every value of the
constants. Paths below are relative to `src/nephele/src/proto/h2/proto` unless
they start with `src/`.

## 1. The system

| Component | State | Operations | Talks to |
|---|---|---|---|
| stream state machine, `streams/state.rs` | `Inner`: idle, reserved, open, half closed, closed with a cause | `send_open`, `recv_open`, `send_close`, `recv_close`, `set_reset`, `set_scheduled_reset`, `recv_reset`, `recv_err`, predicates | called by send, recv, prioritize under the lock |
| flow-control window, `streams/flow_control.rs` | `window_size` (signed, may be negative), `available` | `assign_capacity`, `claim_capacity`, `inc_window`, `dec_window`, `send_data` | one per stream and one per connection, per direction |
| sending half, `streams/{send,prioritize,counts}.rs` | queues `pending_send`, `pending_capacity`, `pending_open`, `pending_reset_expired`; capacity; concurrency slots; in-flight DATA | every user call on a stream, every frame that concerns sending, `poll_complete` | the user's handles and the connection task, through one mutex |
| receiving half, `streams/recv.rs` | receive windows, in-flight bytes, `pending_accept`, `refused`, `last_processed_id`, event buffer | `recv_headers`, `recv_data`, `release_capacity`, `go_away`, `send_pending_refusal`, window updates | as above |
| stream store and frame buffer, `streams/{store,buffer}.rs` | slab of streams, index map, intrusive FIFO queues, shared frame slab | insert, link, unlink, remove, push, pop, `for_each` | used by both halves |
| connection loop, `connection.rs` | `Open`, `Closing`, `Closed`; the peer's GOAWAY reason | `poll`, `poll2`, `poll_ready`, `go_away*`, `take_error` | all of the above, and the codec |
| go-away, `go_away.rs` | `close_now`, `going_away`, `is_user_initiated`, `pending` | `go_away`, `go_away_now`, `go_away_from_user`, `send_pending_go_away` | connection loop |
| settings, `settings.rs` | local `ToSend`, `WaitingAck`, `Synced`; the remote frame to acknowledge | `recv_settings`, `send_settings`, `poll_send` | connection loop, both halves |
| ping-pong, `ping_pong.rs` | shutdown ping, pong to send, an atomic shared with the user's `UserPings`, two `AtomicWaker`s | `recv_ping`, `send_pending_pong`, `send_pending_ping`, `send_ping`, `poll_pong` | connection loop; a second thread, without a lock |
| framed reader and writer, `src/nephele/src/proto/h2/codec` | the frame being written, buffered bytes, a header block in parts | `has_capacity`, `buffer`, `flush`, `decode_frame` | transport |
| HPACK, `src/nephele/src/proto/h2/hpack` | a dynamic table on each side | encode, decode, resize | framed reader and writer |
| client, server and share APIs | `SendRequest::pending`, handshake futures, handles | requests, responses, bodies, drops | `Streams` |
| HTTP/1.1 server and client | a connection's loop over requests; decoder and encoder states | `accept_one`, decode, encode | transport, executor |
| framed codecs, `src/nephele/src/common/codec` | buffers around a transport | decode, encode | transport |

How they interact: the user's handles and the connection task share one
`Mutex<Inner>`; a call locks it for its whole body. The task alone owns the
codec, the transport, ping-pong, go-away and settings. It runs when polled, and
is polled when something woke it: readable or writable transport, or the waker
it left in `Actions::task`, which user calls take. `UserPings` goes around the
mutex through an atomic and two `AtomicWaker`s.

Hard behaviours, with the properties that make the parts correct, are listed
as `hazards` in `PROJECT.json`, each at its line. In short:

* capacity: each byte of the connection's window is in one place; it moves
  between the streams on every reservation, reset, drop, SETTINGS change and
  WINDOW_UPDATE, in any order (`CapacityAccounted`,
  `WithinGrants`);
* queues: a stream with something to send is on a queue some event serves
  (`NoStrandedData`, `ControlIsWoken`, `DataGoesOut`), and frames of one stream
  leave in order (`FramesInOrder`, `CleanEndIsComplete`);
* slots: concurrency and reset slots are taken and returned on many paths
  (`CountersAgree`, `SlotsAccounted`, `PeerConcurrency`);
* received bytes: each is read, given back or kept for a reader, and the window
  it took is announced again (`BytesAccounted`, `NoStall`); who waits for an
  event is woken (`NobodyForgotten`);
* HPACK: two tables that are never compared must stay equal across evictions,
  resizes and refused blocks (`TablesAgree`, `TableIsSound`), and a codec over
  a transport that cuts anything anywhere is a channel of frames (`IsChannel`,
  `AllArrive`);
* HTTP/1.1: one transport carries message after message, and every byte belongs
  to one of them (`BodiesAreWhole`, `AnswersMatch`, `NothingLost`, `Answered`);
* lost wakeups between threads that share atomics (`ParkedUserIsWoken`,
  `PingIsNoticed`);
* the end of a connection: shutdowns, errors, the peer's GOAWAY and requests
  still arriving overtake each other (`GoAwayNeverGrows`, `ProcessedIsAnnounced`,
  `GracefulLosesNothing`, `ErrorIsTold`, `ClosesWithoutStreams`,
  `GoingAwayEnds`), and so do the two sides' SETTINGS (`SettingsInStep`);
* assertions: `assert!` and `debug_assert!` state what the authors rely on;
  each one on a modelled path is an obligation (`NoAssertFails`).

## 2. The plan and its state

In order; each component's module is written to be proved about.

1. `StreamState`, `FlowControl`, `Queues`: the pure operators, and
   `QueueLemmas` about queues, sums and loops. Done.
2. `SendStreams`: the sending half of a client, and `SendStreamsLemmas`,
   `SendStreamsProofs` over it. Done.
3. `PingPong`, `PingPongProofs`: PINGs, and the first proofs. Done.
4. `Connection`, and `ConnectionProofs` over it: the poll loop with go-away,
   settings and refusals. Done.
5. `RecvStreams`, and `RecvStreamsLemmas`, `RecvStreamsProofs` over it: receive
   windows, bodies, accept and refuse, events, promises. Done.
6. `HpackTable`, `Hpack`, `Frames`, `FrameCodec`: from a header list to octets
   and back. `FrameChannel` is what the codec promises; `FrameCodec` is shown to
   implement it. Done.
7. `ChunkedCoding`, `Http1`, `HttpDate`: HTTP/1.1. Done.
8. `Messages`: what one side sends and the other understands, proved for every
   message in `ConnectionProofs`. `Handshake`, `HandshakeProofs`. Done.

Open: an abstract ledger of capacity that `SendStreams` would implement, the
sending of promised streams by a server, and proofs of who is woken.

`StreamState`, `FlowControl` and `Queues` are extended by `SendStreams` and
`RecvStreams`;
`HpackTable` by `Hpack`, `Hpack` by `Frames`, `Frames` by `FrameCodec`, which
takes `FrameChannel` by `INSTANCE ... WITH`; `ChunkedCoding` by `Http1`. The MC
modules extend one module and give its constants values; `MCConnection` also
extends `Messages` and `MCHttp1` also `HttpDate`, whose formulas TLC evaluates
as assumptions.

## 3. Modules and code

### StreamState
Operators on `streams/state.rs`'s `Inner`, one per transition the client's
streams take. A state is a record of a name and, for open ones, each half's
condition; a closed one has its cause.

### FlowControl
`streams/flow_control.rs` on a record `[window, available]` of integers.
`MaxWindow` stands for 2^31-1 and bounds `CanIncWindow`.

### Queues
`store.rs`'s queues are linked through the streams in them; here a queue is the
sequence of its keys, and the mark in a stream is membership (`Queued`,
`PushOnce`).

### SendStreams
`me` is `Inner` behind the mutex. Because every entry point holds the lock for
its body, each is one action, and so is each frame `poll_complete` writes:
between two frames the codec may be full and the task gives up the lock.

| In the model | In the code |
|---|---|
| `me.store`, `me.ids` | slab and index map of `store.rs`; the map's order matters, `for_each` follows it and `swap_remove` changes it |
| `me.pendingSend` ... `pendingReset` | the four intrusive queues; a `pending_*` mark of a stream is membership |
| `me.flow`, `me.store[s].flow` | `Prioritize::flow`, `Stream::send_flow` |
| `codec`, `me.inFlight` | the DATA frame in `FramedWrite`; `in_flight_data_frame` |
| `request` | `SendRequest::pending` of each clone |
| `me.woken` | the connection task's waker was taken: it will be polled |
| `me.failed` | names of assertions (and unsigned subtractions) that failed |
| `wire`, `granted`, `accepted` | histories: frames written per stream, what the peer allowed, what `send_data` took |

Actions: `SendRequest`, `PollReady`, `DropSendRequest`, `SendData`,
`SendTrailers`, `Reserve`, `ResetByUser`, `DropHandle` are the user's calls.
`RecvHeaders`, `RecvEndStream`, `RecvBadData`, `RecvResetFrame`, `RecvGoAway`,
`RecvConnWindowUpdate`, `RecvWindowUpdate`, `RecvWindowSetting`,
`RecvStreamsSetting`, `ResetExpires`, `RecvEof` are the task applying a frame
or the end of the transport. `WriteFrame` and `Park` are `poll_complete`.

Abstracted: payloads are lengths; a frame the codec takes is on the wire at
once, except that DATA's unsent rest comes back by `ReclaimFrame`; the time in
the expiration of resets is a free choice (`ResetExpires`). `SendRequest`
drops the stream it waited for in the same step as it opens the new one.
Left out: what `RecvStreams` has, push promises, frames for streams the index
map no longer knows, wakers of `poll_capacity` and
`poll_reset`, and window increases above `MaxWindow` through SETTINGS.

### PingPong
Two threads and no lock, so every access to a shared atomic is a step.
`conn` is the program counter of one round of `poll2` (write the pong, look for
a ping, read), `user` that of the holder of `UserPings`. An `AtomicWaker` is a
Boolean: registered or not; waking takes it. The inbox holds PINGs and
acknowledgements; the peer may send some unasked. `Block` is any of the places
where the codec is full and the round ends with a write waker.
`missed` records that `send_ping` woke nobody because the task was between its
load of the state and its registration (`ping_pong.rs:159-171`): the code has
that window, the ping then waits for the next event of the connection, and
`PingIsNoticed` and `PingIsAnswered` say that nothing else delays it.

### Connection
A server's connection: `poll` and `poll2` with `go_away.rs`, `settings.rs`, the
shutdown PING and the requests that come in, each read from HEADERS to answer.

| In the model | In the code |
|---|---|
| `pc` | where one `poll` is: `poll` is `poll2`, `complete` is `poll_complete`, `idle` the check after it, `closing` the arm of `State::Closing`; `parked` between two polls, `done` after `State::Closed` was returned |
| `Due` | the order of `poll_go_away` and `poll_ready` before a frame is read |
| `closing`, `theirs`, `outcome` | `State`'s reason, `Connection::error`, what `poll` returned |
| `goAway`, `ping`, `local`, `remote` | `GoAway`, `PingPong::pending_ping`, the two fields of `Settings` |
| `refused`, `lastProcessed`, `maxId`, `queue` | fields of `Recv` |
| `stream`, `held` | what became of each request; the handles with users |
| `outbox`, `inbox` | the two directions, codec buffers and transport in one queue each |
| `scheduled`, `waiting` | whether the task was woken; where it left its waker |
| `announced`, `erred` | histories: the last GOAWAY written, an error was detected |

Between two polls the owner may call `graceful_shutdown`, `abrupt_shutdown` and
`set_initial_window_size` and take a request from `poll_accept`; the users
answer or drop at any time, in threads of their own; the client opens and resets
requests, sends SETTINGS, goes away, violates the protocol or ends. `Moves`
selects which of these a run has. One frame is one step, so every user call and
client move falls between any two of them. `Block` and its like are a full
codec, free to happen at each place the code asks for capacity.

Abstracted: a request's body and a response before its end; the kinds of error
(`PROTOCOL_ERROR` stands for each one `poll` takes as a connection error); what
SETTINGS change, but for whether they can be applied; the client's window, so
that an answer waits only for the codec. A request's stream counts from HEADERS
to the end of its response, as `Counts` does for a request without a body. Left
out: frames of streams that are no longer known, errors of the transport, the
client's role.

### RecvStreams
The receiving half, in both roles: `instance \in Servers` is a server whose peer
opens streams, otherwise a client with one request (`Parent`) under way whose
peer answers it and promises streams on it. As in `SendStreams`, `me` is `Inner`
and each entry point is one action. What is left of the sending half is a
stream's queue of frames (`out`), none of which waits for a window.

| In the model | In the code |
|---|---|
| `me.store`, `me.ids` | slab and index map; an id may have a second entry, with the key `Second(id)`, while a handle still holds its first |
| `me.flow`, `me.inFlight`, `me.store[k].flow`, `.inFlight` | `Recv::flow`, `in_flight_data`, `Stream::recv_flow`, `in_flight_recv_data` |
| `.events`, `.promises`, `.task` | `pending_recv`, `pending_push_promises`, `recv_task` |
| `me.accept`, `me.updates`, `me.expiring`, `me.sending` | the queues `pending_accept`, `pending_window_updates`, `pending_reset_expired`, `pending_send` |
| `me.refused`, `me.nextId`, `me.numRecv`, `me.numReset` | fields of `Recv` and `Counts` |
| `peer` | what the peer knows: credit, what it sent, whether it ended |
| `app` | what the application read of each stream and how it saw it end |

Frames: HEADERS (first, trailers, malformed, too large), DATA of each size,
RST_STREAM, PUSH_PROMISE, stream errors of the codec, anything that breaks the
stream's state (`violate`). Application: accept, read data and trailers, release
capacity, respond, reset, drop either handle, poll promises, change the target
of the connection's window and the initial window of streams, drop the
connection. The task: WINDOW_UPDATEs of the connection and of streams, refusals,
local SETTINGS and their ack, queued frames, expiration.

Assumed, each where the code would otherwise do what section 5 lists: one task
polls the handles of a stream, a body is read before its trailers, no empty DATA
arrives while a window shrinks, peers keep the limit of promised streams, a
client does not reset a request whose promises are unclaimed, the codec reports
stream errors only for opened ids.

### HpackTable, Hpack
`hpack/table.rs` with its whole index: hashes, probe distances, displacement,
backward shift on removal, the chain of entries of one name, positions that wrap.
`Hpack` has `encoder.rs` over it (queued size updates, repeated names, what is
never indexed) and `decoder.rs` over a plain list (size updates, integers in
continuation octets, truncated strings). A block is a sequence of octet groups: a
group (an integer, a string) is the unit a frame may be cut at.

### Frames, FrameCodec, FrameChannel
`Frames` is what each type of `frame/*.rs` writes after its head and what its
`load` accepts, with the checks on ids, lengths, padding and values.
`FrameCodec` is one direction of a connection: `FramedWrite` with its buffer, the
frame left in `next`, chained DATA and CONTINUATION; the transport, which takes
and gives any number of groups and may break; `FramedRead` over the
length-delimited decoder, with `partial` header blocks. Instead of this library's
writer there may be another's that cuts header blocks elsewhere and sends frames
this library never does (`Strays`); what those must come out as is written from
the protocol in `MCFrameCodec`. SETTINGS that resize the table and the frames
take effect between any two frames.

`FrameChannel` is the abstract specification: put, take, break; frames come out
as they went in, each once and in order, none after a connection error.
`FrameCodec` implements it (`IsChannel`, by `INSTANCE FrameChannel WITH`), where
`sent` is what the user buffered and `got` what `poll_next` returned.

### ChunkedCoding, Http1
`ChunkedCoding` is `h1/chunked`: the encoder's choice of chunk sizes, and the
decoder with its growing buffer, its direct reads into the user's slice and its
states, one round of its loop at a time. `Http1` is a connection: the client's
encode and decode, the loop of `server/mod.rs` with its header timeout, the
spawned task that writes `100 Continue` to the same transport, the endpoint that
may answer before it has read (`early`), the response, and draining. Each
`BufferReader` takes bytes ahead in a buffer of its own, which is dropped with
it. The transport is two bounded sequences of bytes, so that both sides may
block. A head is two bytes; a digit, CR, LF, a byte of a body or a trailer field
is one.

### HttpDate
`h1/date.rs`: seconds since the epoch to fields and back, and the years and days
of the three formats. TLC evaluates `RoundTrips` for 120,000 days before `h1`
starts.

### Messages
Data, no state: which requests, responses, promises and trailers `client.rs`,
`server.rs` and `send.rs` refuse to send, what pseudo headers they become
(`frame/headers.rs`), and what the other side makes of them (`recv.rs`,
`convert_poll_message` of both roles). Fields are the five or six features those
checks look at. `RequestSurvives` and its like state what comes out of what goes
in, with the requests that are sent and then refused named (`Refused`).

### Handshake
`client.rs`'s `handshake2` and `server.rs`'s `Handshake::poll` over two bounded
transports that count octets. The client writes its preface before it reads
anything; the server flushes SETTINGS before it reads the preface.

## 4. Runs

| Run | Module, cfg | Question | Bounds |
|---|---|---|---|
| `slots` | SendStreams, MCSlots | queues, slots, frame order and the end of the connection under drops, resets, errors, GOAWAY and evictions | 2 streams, 1 slot, 1 reset slot, one DATA of 2 bytes in frames of 1, windows 2 |
| `windows` | SendStreams, MCWindows | capacity under reservations, a reset of the peer, window updates and SETTINGS that make windows negative; DATA goes out | 2 streams, 2 slots, window 1, one SETTINGS frame of 0 or 2 (or a limit of 3 streams), grants up to 2 |
| `pings` | PingPong, MCPing | no ping and no waiting user is lost, one pong per ping | 2 pings, 1 unasked frame |
| `endings` | Connection, MCEndings | every way to end overtakes every other, and the connection ends | 1 request, 1 unread frame; both shutdowns, a violation, a late request, GOAWAY and end of the client |
| `requests` | MCConnection, MCRequests | no request is lost and SETTINGS stay in step while a graceful shutdown begins; `Messages` | 2 requests, 1 concurrent, 1 unread frame; good and bad SETTINGS, resets, malformed requests |
| `wire` | MCFrameCodec, MCWire | the codec is a channel, HPACK's tables agree | up to 3 frames of this library or 2 of another's, frames of 3 groups, table of 4, resized to 0 and 2 |
| `recv` | MCRecvStreams, MCRecv | the receiving half, in six instances | 1 or 2 streams, 1 slot, 1 reset slot, windows of 2 (5 for the connection), up to 5 bytes |
| `h1` | MCHttp1, MCHttp1 | bodies, answers and keep-alive of HTTP/1.1, in four instances | 1 or 2 requests, bodies up to 3 bytes, decoder buffer of 10 to 14 |
| `reserve_drop` | SendStreams, MCReserveDrop | finding 1 | a reservation larger than the window, dropped |
| `open_order` | SendStreams, MCOpenOrder | finding 2 | two clones of `SendRequest`, three streams, one slot |
| `slab_leak` | SendStreams, MCSlabLeak | finding 3 | two streams waiting for capacity, reset and dropped |
| `handshake` | Handshake, MCHandshake | finding 4 | a transport larger than the preface |

Two streams are enough for every interaction there is between a stream that
holds something (capacity, a slot, the codec) and one that waits for it, and
for the loops over all streams to meet one that their own step removes; window
sizes of 0 to 2 with frames of 1 give empty, partial and full windows. A stream
id is used once and order matters, so there is no symmetry to use. Deadlock is
not checked where a bounded script may be over; `wire` has a step for its end
and checks it.

For a connection, two requests with a limit of one give a refused, an ignored
and an accepted request in each order with the GOAWAYs, and last ids 0, 1, 2
and the maximum. `MaxUnread` bounds the frames the client has under way before
it starts another; its acknowledgements are not bounded. One frame under way
still lets each client move fall between any two steps of the task. `endings`
has one request and every ending; the proofs of section 6 are for any number.

`recv` starts in one of six instances (`bodies`, `slots`, `errors`, `windows`,
`pushes`, `ends`: see `MCRecvStreams`), each with what its question needs; `h1`
in one of four (`lengths`, `chunks`, `early`, `continue`). In `wire` a table of 4
holds two to four entries, so that every insertion may evict; the headers of an
item share names and hashes; a frame of 3 groups cuts a block of five headers at
least twice.

Each property of a passing run has a mutant in `PROJECT.json`: a plausible bug
in one mapped definition (the definitions marked *Mutant* in the modules) under
which the run finds the property violated.

### Fairness
`windows`: the runtime polls a task that was woken (`Writing`), and the peer
grants window until it has granted its bound. They are written as
`[]<>~enabled \/ []<><<A>>_vars`, which is weak fairness with ENABLED spelt
out. Users are under no fairness: they may stop calling.
`wire`: the connection is polled until the codec is flushed and reading it
answers `Pending`; again weak fairness spelt out.
`pings`: `WF` for the polled task, for the user's thread inside a call, for the
transport becoming writable and for the peer acknowledging pings. A codec that
is full blocks again and again, so what needs it has strong fairness: the
transport takes frames infinitely often, not always.
`endings`: `WF` for the polled task (`Poll`), the transport, the client's
reading, and each user answering or dropping what it holds. `SF` for writing
(`Sending`, `CompleteReady`, `CloseReady`), because a full codec interrupts it
again and again, and for `Accept`: it is enabled only between two polls, and
`poll_accept` takes a request each time its poll has returned `Pending`, so a
server that loops over `accept` takes each one.
`h1`: `WF` for whatever the tasks and the header timer can do (`Progress`): the
executor runs one of the tasks that can run, and the endpoint returns. Nothing
obliges the client's user to send or to close.

## 5. Findings

1. `reserve_drop`: `reclaim_reserved_capacity` (`streams/prioritize.rs:228`)
   gives back `requested - buffered`, of which only a part may have been
   assigned. The connection then hands out capacity it has not got, and
   `send_data`'s assertion on the window fails.
2. `open_order`: a cloned `SendRequest` has no pending stream, so streams may
   be opened on the wire out of order; the assertion that says otherwise is
   behind a condition that is never true.
3. `slab_leak`: `assign_connection_capacity` drops closed streams from
   `pending_capacity` without releasing them.
4. `handshake`: `ReadPreface` compares `PREFACE[pos .. pos + n]` with all 24
   octets of its buffer, so that a preface that comes in two pieces is refused as
   invalid. `HandshakeProofs` has the other side of it: only one read of exactly
   24 octets makes a server ready.

The passing runs keep clear of 1 to 3 by their constants (no drops where
streams reserve); `SlabForgets` and `OpenedInOrder` are checked only there.

### Behaviour the passing runs step around
No document or test contradicts these, or only an assertion on a path a run's
constants avoid; each is excluded by name, in a property, a constant or the
assumptions above, and no wider than that.

*Sending half.* An empty DATA frame skips the wait for capacity
(`streams/prioritize.rs:522`); on a negative window the assertion
`sz <= window_size` (`flow_control.rs:115`) fails for `sz = 0`: `windows` sends
no empty DATA. With fewer slots than streams a stream in `pending_open` may hold
the connection's capacity and return it without waking the task, or keep it from
the stream whose end would free the slot: `ParkedHasNothingToWrite` and
`DataGoesOut` are checked with a slot for each stream.

*Receiving half.* `reset_on_recv_stream_err` (`streams.rs:1207`) does not wake
the stream's reader (excluded from `NobodyForgotten`). Lowering the initial
window to nothing while bytes are unclaimed never queues a WINDOW_UPDATE
(`recv.rs:360`; excluded from `NoStall`). A promise beyond the limit meets an
assertion on the next one (`counts.rs:42`). When a client has reset a request,
dropping its last handle cancels the promises nobody took; each looks for a place
among the reset streams, and with none free evicts the oldest, which may be that
request itself, whose key `drop_stream_ref` uses afterwards
(`recv.rs:654`, `counts.rs:91`). An empty DATA frame meets the assertion of
`flow_control.rs:115` on a window SETTINGS made negative, as on the sending side:
`windows` sends none. Promises dropped with their parent
take their received bytes with them (`streams.rs:1166`; `me.lost`). `poll_trailers`
is `Pending` without a waker while DATA is queued (`recv.rs:846`). HEADERS with
END_STREAM and a content-length above 0 are not checked. A reset stream whose
RST_STREAM is still queued when it expires keeps its reset slot
(`counts.rs:100`). A PUSH_PROMISE that was under way when its stream was reset is
an error of the connection (`streams.rs:396`).

*Codec.* A malformed header block that goes on in a CONTINUATION is reported as a
stream error, and its CONTINUATION then ends the connection
(`codec/framed_read.rs:92`). HEADERS that depend on themselves are refused
without being decoded, which leaves the HPACK tables apart. A literal name
without Huffman code that a frame cuts is lost. A header whose coded value is
larger than the smallest frame panics in `flush` (`codec/framed_write.rs:192`).

*Messages.* CONNECT is always sent with `:path` (`frame/headers.rs:469`) and
refused by the server (`server.rs:606`); so are an authority without a scheme and
OPTIONS without a path. Of several TE fields only the first is looked at, a
malformed content-length only on receipt, and trailers are sent unchecked.

*Connection.* After a GOAWAY of the client the idle check calls
`go_away_now(NO_ERROR)` even if a GOAWAY with `PROTOCOL_ERROR` still waits for a
full codec: that frame is replaced, and the owner's poll ends with `Ok`
(`connection.rs:178`). And that GOAWAY ends every stream above its last id, also
the requests that client started (`streams/streams.rs:343`). `ErrorIsTold` and
`GracefulLosesNothing` are about the connections whose client did not go away.

*HTTP/1.1.* The chunked decoder takes the end of its full buffer for the end of
the body (`chunked/decoder.rs:229`). Bytes of a next request that were read
ahead go with the reader, when the endpoint answers before it has read its body.
`100 Continue` is written by a task of its own, among or after the bytes of an
early response; the client takes one for the response. An early answer and a
large request may fill the transport against each other. These are the
conditions `early`, `cut`, `full` and `Tangled` in `Http1`'s properties.

## 6. Proofs

`PingPongProofs` proves, for every number of pings and of unasked frames
(`PingAssumption`), that `Spec` implies `TypeOK`, `ParkedUserIsWoken`,
`PingIsNoticed`, `OnePongPerPing`, `NoAssertFails` and `ClosedIsFinal`.

None of the properties is inductive alone. `Inv` adds

* `WaiterIsKnown`: a user that waits, or has just registered, is registered or
  woken, which makes the order register-then-compare of `poll_pong` count;
* `PingsCounted`: what is asked, written, unanswered and delivered adds up at
  every step of the two threads, in particular between the write of a ping
  and the store of PENDING_PONG;
* `ShutdownAnnounced`, `PongSentFirst`: a shutdown ping exists only when going
  away, and the pong is empty from its write up to the read;
* `PingFindsTask`: where the task is while a ping waits for its wake.

There is one lemma per conjunct, with one step per action that can disturb it,
then `InvInit`, `InvStep` and `Invariance`; each theorem follows by temporal
logic.

`ConnectionProofs` proves, for every number of requests, every limit and every
choice of `Moves` (`ConnectionAssumption`), that `Spec` implies `TypeOK`,
`NoAssertFails`, `ProcessedIsAnnounced`, `GoAwayNeverGrows`,
`ClosesWithoutStreams` and `ErrorIsTold`: all the safety properties of
`endings`. Its `Inv` adds

* `GoAwayInStep`: the GOAWAY in memory is never above the one written, and
  equal to it unless pending; until the connection closes at once, requests
  are ignored exactly above the last id announced and the reason is NO_ERROR.
  So a frame that is read never finds its own error announced, and `poll`'s
  short cut "already going away" is taken only from the GOAWAY itself;
* `EndsWithoutStreams`: when the connection closes at once, every stream has
  ended, because each call of `go_away_now` follows `recv_err` or a check
  that none is left;
* `ErrorIsKept`: a detected error stays the GOAWAY's reason until the
  connection closes, and is then written and the reason of the end; `theirs`
  comes only from a client that went away.

`TypeOK` itself needs `EndsWithoutStreams`: that a closed connection has a
reason to return is not a matter of types alone. Both modules' `TypeOK` is
proved and not run.

It proves `SettingsInStep` from there, under the same assumption.
The property alone does not say that nothing is on its way when no ack is
expected, and a stray ack would then let the count grow; `InStep` does: the
SETTINGS frames in `outbox` and the acks in `inbox` are together 0 unless an ack
is awaited, and 1 while it is and the client has not ended. They are counted as
places in the two queues, with a lemma for what an append, a read and a change of
queue do to each count.

It proves `GracefulLosesNothing` for connections whose client opens
nothing behind a GOAWAY (`"late" \notin Moves`): that a client that does so is
ignored is the point of the last id. `NothingIsLost` follows the two queues while
nothing else ends the connection (`Calm`):

* `RequestsArrive`: a request the server does not know is in the inbox, and a stream
  fails only by a reset of the client;
* `Farewell`: the GOAWAY goes out before the shutdown PING, so the client has
  read it when it acknowledges the PING, and behind the ack there is no HEADERS;
  the server ignores ids only from the ack on;
* `Settled`: the connection closes only after its second GOAWAY, with no stream
  live and none still to be reset.

The module also proves `RequestsSurvive`, `ResponsesSurvive`,
`PromisesSurvive` and `AllTrailersSurvive` for all sets of schemes, authorities,
paths, statuses and methods that hold the ones the code names
(`MessagesAssumption`). What a sender refuses and what a receiver refuses are
separate code; each proof splits on the sender's checks, has a lemma for the
frame that is left, and then splits on the receiver's. TLC evaluates the same
statements on small sets, and that there are messages of each fate.

`HandshakeProofs` proves, for transports and SETTINGS of any size, that a ready
server has a client of HTTP/2, its SETTINGS written and exactly the preface read,
that `ReadPreface` stays within its slice (`ServerReadyIsExact`), and that the
preface came in one read (`PrefaceInOneRead`). The invariant behind both: while
the server reads, `pos` is 0.

`SendStreamsLemmas` and `SendStreamsProofs` prove, for any number of streams and
handles, any windows, frame sizes, limits and settings (`SendAssumption`,
`MaxWindowAssumption`), that `Spec` implies `IInv`, and from it `TypeOK`,
`BufferedIsQueued`, `SlotsAccountedFor` and `CapacityUsable`. `CapacityAccounted`
and `WithinGrants` need `Prudent`: the application either makes no reservations
or drops no stream, because finding 1 is that both together invent capacity.
`NoAssertFails` needs `Careful`: also no empty DATA frame, for the reason in
section 5. Nothing else is assumed, so each exception of section 5 that these
properties meet is an exception by name.

`IInv` is `Sound(me, 0, InCodec)` with what ties the locked record to the
histories. `Sound(m, d, rest)` holds in the middle of an operation too, which is
where one helper calls another: `d` bytes of capacity are just being moved, and
`rest` bytes of a stream are in the codec or about to be queued. Its parts:

* `Queues`: each queue names streams of the slab, each at most once, so that what
  a loop pops next is still there;
* `Findable`: a stream the index map no longer finds is closed with nothing
  queued, so that no loop over the map misses one that holds something;
* `Working`: a stream in `pendingSend` or `pendingOpen` has something to send or
  is only there to be forgotten, and is never in both: the assertions on
  dangling and on pending streams rest on it;
* `Slots`: the counters count the marks, and no stream holds a slot while it
  waits for one;
* `Fine`: for each stream, buffered bytes are those queued, in the codec and in
  `rest`; they are requested; what is available is within the window and within
  the request, and not negative. A stream that still sends may have requested
  more than it has buffered, a closed one may not: a reset returns just the
  difference (`reclaim_reserved_capacity`);
* `Returnable`: what the codec did not write belongs to a stream that is still in
  the slab and not waiting for a slot;
* `Balanced`: the connection's window is what is free, what the streams hold, and
  `d`.

`CodecKnown` and `Referenced` tie `inFlight` to the codec and reference counts to
the handles, `PeerView` says the peer cannot answer a stream it has ended,
`InGrants` that windows are the grants less the bytes written. Both are needed
for a step of the peer or of the codec to find the stream it is about.

Every lemma about a helper says that it keeps `Sound`, and by `Keeps`, `Steady`
or `Calm` what it leaves alone; a caller needs no more of it. The loops of the
code (`assign_connection_capacity`, `schedule_pending_open`, `pop_frame`,
`for_each`, `clear_queues`) are recursive functions over a queue; an invariant of
a loop is a set of pairs of a round and a state, and all rounds are in it by
induction from the well-foundedness of subset order, which takes no operator
parameter. Sums over finite sets (`HandedOut`, `BytesWritten`, `Bytes`) go the
same way: that a sum does not depend on the order of its terms is a lemma.
Before the proof TLC checked `IInv` on the instances of `slots`, `windows` and
`reserve_drop`.

`RecvStreamsLemmas` and `RecvStreamsProofs` prove, for any number of streams in
both roles, any windows, limits, lengths and sizes of DATA (`RecvAssumption`,
`MaxWindowAssumption`), that `Spec` implies `IInv`, and from it `NoAssertFails`,
`BytesAccounted` and `SlotsAccounted`: no assertion of the receiving half fails,
every received byte is with a stream, given back or named as lost, and no slot
is lost or counted twice. All are under `Careful`, which says what section 5
says: a client's request is not reset by this end (by its user, for what the
peer sends, or for what the codec reports), the peer keeps the limit of promises,
and where windows change no DATA is empty. It constrains servers only by the
last. Each instance of the run `recv` is careful, so the theorems cover it, and
there `NoAssertFails` fails without it. `IInv` has two parts.

`Sound`, about the locked record alone, holds in the middle of an operation as
well, where `X` are the entries being worked on and `loose` the bytes of the
connection's window being moved:

* `Locked`, the types, and `Queues`, as for the sending half;
* `Linking`: the index map finds an entry of the id, and no entry has an id that
  is still to come. So HEADERS that open a stream never meet an entry in the map;
* `Slots`: `numRecv` counts the marked entries, and `numReset` is no less than
  the entries in the queue of reset streams;
* `Window`: the bytes in flight are those of the streams, the `lost` and the
  `loose`; a server that is not dropped loses none; the window is not negative, and
  what is available with what is in flight stays within `MaxWindow`;
* `Fine`, for each entry and its marks, the places that name it: its state is
  one its role can reach; a live one is the only entry of its id, the map finds
  it, and what is available and in flight make the initial window; who is in a queue has what that queue is for; a stream that waits to
  be accepted or taken as a promise has its head first in its events and no
  handle. The `expect`s of `poll_response` and `next_incoming` rest on the last;
* `Settled`, for the entries not worked on: one nobody can take any more has
  ended and holds no bytes, promises stay as long as somebody can claim them,
  and none is left that should have been released.

`Agree` holds while the connection is open and relates the record to the peer:
its view of the windows is this end's (`Told`), a stream it ended or reset is
not one that still receives, ids are opened in order (`Ordered`), and the
promises it has made fit into the limit with the streams counted (`Roomy`), from
which `inc_num_recv_streams` finds its slot. A frame's lemma needs both parts; a
call of the application only the first, since it leaves what the peer was told.

An operation's lemma says which entries it works on, which marks it adds or
removes and that it keeps `Sound`, so that the proof of an entry point composes
the helpers it calls. `Transition`, which most entry points end in, is the one
place where an entry leaves the slab: one lemma shows that this keeps everything
known of the others. Where the code goes through all streams (SETTINGS, the end
of the connection) or empties a queue (`clear_queues`, the promises of a dropped
parent), the induction of `QueueLemmas` applies.

`QueueLemmas` has what both halves need: queues without duplicates, sums over
finite sets, and the induction over the rounds of a loop.

Model-checked only. Of `SendStreams`: `EndReleasesSlots` (in `CountersAgree`),
`ControlIsWoken`, `NoStrandedData`, `ParkedHasNothingToWrite`,
`CleanEndIsComplete`, `PeerConcurrency` and `FramesInOrder`. Of `RecvStreams`:
`NobodyForgotten`, `NoStall` and `CleanEndIsComplete`. They are about who is
woken and what a reader has seen, and each needs histories of its own beside
`IInv`. All of `FrameCodec` and `Http1`; HPACK's and the chunked decoder's
operators are recursive over their data. And all liveness, which needs fairness
and ENABLED.

## 7. Not modelled

* Huffman coding, error types, TLS adapters, most HTTP types, examples: data or
  I/O without protocol state.
* `maybe_close_connection_if_no_streams` and the poll of a client's connection;
  errors of the transport in `Connection`; a server that sends promised streams;
  the wakers of `poll_capacity` and `poll_reset`; vectored writes; header lists
  above `max_header_list_size` cut into CONTINUATION.
* Of HTTP/1.1: upgrade, HEAD, the parsing of heads, an endpoint that keeps the
  request's body after it answered, more than one trailer field, chunk sizes of
  more than one digit.
* The writing half of the framed codecs, and the lines and bytes codecs, which
  the protocols do not use.

`PROJECT.json` has every component with its status and the reason.
