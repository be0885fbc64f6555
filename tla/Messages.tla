------------------------------ MODULE Messages ------------------------------
(* Messages of HTTP/2 and the frames they become: what client.rs, server.rs  *)
(* and send.rs refuse to send, and what the same files of the other side,    *)
(* frame/headers.rs and recv.rs, make of what is sent.  The checks of the    *)
(* two directions are separate code, and have to agree.                      *)
(*                                                                           *)
(* Fields are what those checks tell apart:                                  *)
(*   hop      one of the fields that are about an HTTP/1.1 connection        *)
(*   te       the TE fields: none, "trailers", another value, or first       *)
(*            "trailers" and then another value                              *)
(*   length   content-length: none, zero, some number, or malformed          *)
(*   big      a field, of a message or of its pseudo header, longer than     *)
(*            MAX_HEADER_LENGTH                                              *)
CONSTANTS
  Absent,      \* an optional value that is not there
  Schemes, Authorities, Paths, Statuses,
  Methods

ASSUME MessagesAssumption ==
  /\ Absent \notin Schemes \cup Authorities \cup Paths \cup Statuses \cup Methods \cup {""}
  /\ {"GET", "HEAD", "OPTIONS", "CONNECT"} \subseteq Methods
  /\ "http" \in Schemes /\ "/" \in Paths /\ "" \notin Paths /\ "200" \in Statuses

Uris == [scheme : Schemes \cup {Absent}, authority : Authorities \cup {Absent},
         path : Paths \cup {Absent}]
Fields == [hop : BOOLEAN, te : {"none", "trailers", "other", "trailersFirst"},
           length : {"none", "zero", "some", "malformed"}, big : BOOLEAN]

\* Uri::from_parts of the http crate.
IsUri(u) ==
  IF u.scheme # Absent THEN u.authority # Absent /\ u.path # Absent
  ELSE u.authority = Absent \/ u.path = Absent

Requests == [method : Methods, uri : {u \in Uris : IsUri(u)}, fields : Fields,
             version : {"HTTP/1.1", "HTTP/2.0"}]
Responses == [status : Statuses, fields : Fields]

-----------------------------------------------------------------------------
(* Sending.                                                                  *)

UserError(e) == [kind |-> "userError", error |-> e]
HeadersFrame(pseudo, fields) == [kind |-> "frame", pseudo |-> pseudo, fields |-> fields]

NoPseudo ==
  [method |-> Absent, scheme |-> Absent, authority |-> Absent, path |-> Absent, status |-> Absent]

RequestPseudo(method, uri) ==
  [NoPseudo EXCEPT !.method = method, !.scheme = uri.scheme, !.authority = uri.authority,
     !.path = IF uri.path # Absent THEN uri.path ELSE IF method = "OPTIONS" THEN "" ELSE "/"]

ResponsePseudo(status) == [NoPseudo EXCEPT !.status = status]

\* check_headers: of several TE fields only the first is looked at.
CheckHeaders(f) == ~f.hop /\ f.te \in {"none", "trailers", "trailersFirst"}

SendHeaders(pseudo, f) ==
  IF ~CheckHeaders(f) THEN UserError("MalformedHeaders")
  ELSE IF f.big THEN UserError("HeaderTooBig") ELSE HeadersFrame(pseudo, f)

ClientSends(req) ==
  LET pseudo == RequestPseudo(req.method, req.uri)
      bare == pseudo.scheme = Absent /\ pseudo.authority = Absent
  IN  IF bare /\ req.version = "HTTP/2.0" THEN UserError("MissingUriSchemeAndAuthority")
      ELSE SendHeaders(IF bare THEN [pseudo EXCEPT !.scheme = "http"] ELSE pseudo, req.fields)

ServerSends(res) == SendHeaders(ResponsePseudo(res.status), res.fields)

IsPromisable(method, f) == f.length \in {"none", "zero"} /\ method \in {"GET", "HEAD"}

ServerPromises(req) ==
  IF ~IsPromisable(req.method, req.fields) \/ ~CheckHeaders(req.fields)
  THEN UserError("MalformedHeaders")
  ELSE HeadersFrame(RequestPseudo(req.method, req.uri), req.fields)

\* send_trailers does not check what the fields are.
SendTrailers(f) == IF f.big THEN UserError("HeaderTooBig") ELSE HeadersFrame(NoPseudo, f)

-----------------------------------------------------------------------------
(* Receiving.                                                                *)

StreamError == [kind |-> "streamError"]
ConnectionError == [kind |-> "connError"]
GotRequest(method, uri, f) == [kind |-> "request", method |-> method, uri |-> uri, fields |-> f]
GotResponse(status, f) == [kind |-> "response", status |-> status, fields |-> f]

\* HeaderBlock::load looks at every field.
IsWellFormed(f) == ~f.hop /\ f.te \in {"none", "trailers"}

\* convert_poll_message of the server; the scheme is kept with an authority.
ReadRequest(p, f) ==
  LET connect == p.method = "CONNECT"
      uri == [scheme |-> IF p.authority = Absent THEN Absent ELSE p.scheme,
              authority |-> p.authority, path |-> p.path]
  IN  CASE p.method = Absent -> StreamError
        [] p.method # Absent /\ p.status # Absent -> ConnectionError
        [] OTHER ->
             IF \/ connect /\ (p.scheme # Absent \/ p.path # Absent)
                \/ ~connect /\ p.scheme = Absent
                \/ p.path = ""
                \/ ~IsUri(uri)
             THEN StreamError ELSE GotRequest(p.method, uri, f)

ServerReceives(frame) ==
  IF ~IsWellFormed(frame.fields) \/ frame.fields.length = "malformed" THEN StreamError
  ELSE ReadRequest(frame.pseudo, frame.fields)

\* A response without a status is taken for one with 200.  The length of the
\* response to a HEAD is not read.
ClientReceives(frame, toHead) ==
  IF ~IsWellFormed(frame.fields) \/ (~toHead /\ frame.fields.length = "malformed") THEN StreamError
  ELSE GotResponse(IF frame.pseudo.status = Absent THEN "200" ELSE frame.pseudo.status,
                   frame.fields)

ClientReceivesPromise(frame) ==
  LET got == ReadRequest(frame.pseudo, frame.fields)
  IN  IF ~IsWellFormed(frame.fields) THEN StreamError
      ELSE IF got.kind = "request" /\ ~IsPromisable(got.method, got.fields) THEN StreamError
      ELSE got

ReceivesTrailers(frame) ==
  IF ~IsWellFormed(frame.fields) THEN StreamError
  ELSE [kind |-> "trailers", fields |-> frame.fields]

-----------------------------------------------------------------------------
(* What comes out of what goes in.                                           *)

\* Fields that leave one side and are refused by the other.
Slips(f) == f.te = "trailersFirst" \/ f.length = "malformed"

\* The path a request with none gets.
Normal(uri) == [uri EXCEPT !.path = IF @ = Absent THEN "/" ELSE @]

\* Requests the client sends and the server does not understand: every
\* CONNECT, for it is sent with the path "/" (headers.rs:469) that server.rs:606
\* does not allow; an authority without a scheme (the TODO of client.rs:475);
\* OPTIONS without a path; and the fields above.
Refused(req) ==
  \/ req.method = "CONNECT"
  \/ req.uri.scheme = Absent /\ req.uri.authority # Absent
  \/ req.method = "OPTIONS" /\ req.uri.path = Absent
  \/ Slips(req.fields)

\* A request the client sends is the request the server gets, or one that is
\* refused for a reason above; it never ends the connection.
RequestSurvives(req) ==
  LET sent == ClientSends(req)
  IN  sent.kind = "frame" =>
        ServerReceives(sent) =
          IF Refused(req) THEN StreamError ELSE GotRequest(req.method, Normal(req.uri), req.fields)

ResponseSurvives(res, toHead) ==
  LET sent == ServerSends(res)
  IN  sent.kind = "frame" =>
        ClientReceives(sent, toHead) =
          IF res.fields.te = "trailersFirst" \/ (~toHead /\ res.fields.length = "malformed")
          THEN StreamError ELSE GotResponse(res.status, res.fields)

\* A promise is understood if its request has a scheme: the server checks its
\* promises less than its client's requests.
PromiseSurvives(req) ==
  LET sent == ServerPromises(req)
  IN  sent.kind = "frame" =>
        ClientReceivesPromise(sent) =
          IF req.uri.scheme = Absent \/ req.fields.te = "trailersFirst"
          THEN StreamError ELSE GotRequest(req.method, req.uri, req.fields)

\* Trailers are sent unchecked and refused by the other side.
TrailersSurvive(f) ==
  LET sent == SendTrailers(f)
  IN  sent.kind = "frame" =>
        ReceivesTrailers(sent) =
          IF f.hop \/ f.te \in {"other", "trailersFirst"} THEN StreamError
          ELSE [kind |-> "trailers", fields |-> f]
=============================================================================
