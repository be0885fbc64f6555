----------------------------- MODULE Handshake -----------------------------
(* How a connection of HTTP/2 is set up: the client's handshake2             *)
(* (client.rs) writes the preface and goes on to its SETTINGS, the server's  *)
(* (server.rs) flushes its SETTINGS and then reads the preface.  Each        *)
(* direction of the transport holds up to Room octets, takes and gives them  *)
(* in pieces, and keeps their order; octets are counted.                     *)
EXTENDS Naturals

CONSTANTS
  Room,          \* octets one direction of the transport holds
  SettingsLen    \* octets of a SETTINGS frame

PrefaceLen == 24

VARIABLES
  speaks,   \* what the client's first octets are: "h2" (the preface), "other"
  client,   \* "preface" (in write_all), "open" (the connection runs), "gone"
  server,   \* "flushing", "reading", "ready", "invalid", "eof", "panicked"
  written,  \* octets the client has written,
  read,     \* and the server has read
  pos,      \* ReadPreface::pos
  flushed,  \* octets the server has written,
  taken     \* and the client has read

vars == <<speaks, client, server, written, read, pos, flushed, taken>>

Init ==
  /\ speaks \in {"h2", "other"} /\ client = "preface" /\ server = "flushing"
  /\ written = 0 /\ read = 0 /\ pos = 0 /\ flushed = 0 /\ taken = 0

-----------------------------------------------------------------------------
(* The client.  Nothing is read before the whole preface is written.         *)

WritePreface(n) ==
  /\ client = "preface"
  /\ written + n <= PrefaceLen /\ written + n - read <= Room
  /\ written' = written + n
  /\ client' = IF written' = PrefaceLen THEN "open" ELSE client
  /\ UNCHANGED <<speaks, server, read, pos, flushed, taken>>

\* The codec of the connection: its SETTINGS are buffered when it starts.
WriteSettings(n) ==
  /\ client = "open"
  /\ written + n <= PrefaceLen + SettingsLen /\ written + n - read <= Room
  /\ written' = written + n
  /\ UNCHANGED <<speaks, client, server, read, pos, flushed, taken>>

ClientReads(n) ==
  /\ client = "open" /\ taken + n <= flushed
  /\ taken' = taken + n
  /\ UNCHANGED <<speaks, client, server, written, read, pos, flushed>>

\* The user drops the handshake or the connection; the transport is closed
\* behind what was written.
ClientGoes ==
  /\ client # "gone" /\ client' = "gone"
  /\ UNCHANGED <<speaks, server, written, read, pos, flushed, taken>>

-----------------------------------------------------------------------------
(* The server.                                                               *)

\* Flush; the poll that ends it starts ReadPreface.
FlushSettings(n) ==
  /\ server = "flushing"
  /\ flushed + n <= SettingsLen /\ flushed + n - taken <= Room
  /\ flushed' = flushed + n
  /\ server' = IF flushed' = SettingsLen THEN "reading" ELSE server
  /\ UNCHANGED <<speaks, client, written, read, pos, taken>>

\* PREFACE[pos .. pos + n] != buf, which is always all of the 24 octets of buf:
\* a slice of any other length is different.
Differs(n) == speaks # "h2" \/ pos # 0 \/ n # PrefaceLen

ReadPreface(n) ==
  /\ server = "reading" /\ read + n <= written
  /\ read' = read + n
  /\ \/ /\ pos + n > PrefaceLen
        /\ server' = "panicked" /\ pos' = pos
     \/ /\ pos + n <= PrefaceLen /\ Differs(n)
        /\ server' = "invalid" /\ pos' = pos
     \/ /\ pos + n <= PrefaceLen /\ ~Differs(n)
        /\ pos' = pos + n
        /\ server' = IF pos' = PrefaceLen THEN "ready" ELSE server
  /\ UNCHANGED <<speaks, client, written, flushed, taken>>

ReadEof ==
  /\ server = "reading" /\ client = "gone" /\ read = written
  /\ server' = "eof"
  /\ UNCHANGED <<speaks, client, written, read, pos, flushed, taken>>

Next ==
  \/ \E n \in 1 .. PrefaceLen : WritePreface(n) \/ ReadPreface(n)
  \/ \E n \in 1 .. SettingsLen : WriteSettings(n) \/ ClientReads(n) \/ FlushSettings(n)
  \/ ClientGoes
  \/ ReadEof

Spec == Init /\ [][Next]_vars

-----------------------------------------------------------------------------
(* Properties.                                                               *)

\* A preface is called invalid only when it is: "read_preface: invalid
\* preface" (server.rs:381).
InvalidIsInvalid == server = "invalid" => speaks # "h2"

\* The server is ready only for a client of HTTP/2, with its SETTINGS written,
\* and has taken the preface and no octet of the frames behind it from the
\* transport; the slice of ReadPreface stays within PREFACE.
ReadyIsExact ==
  /\ server # "panicked"
  /\ server = "ready" => speaks = "h2" /\ read = PrefaceLen /\ flushed = SettingsLen
=============================================================================
