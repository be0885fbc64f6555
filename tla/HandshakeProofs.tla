-------------------------- MODULE HandshakeProofs --------------------------
(* The server's half of the handshake, whatever the sizes of the transport   *)
(* and of SETTINGS are and however the octets are cut.  While it reads,      *)
(* nothing was accepted yet (pos = 0): a read either brings the whole        *)
(* preface or is refused.  This keeps the slice PREFACE[pos .. pos + n] in   *)
(* its bounds, and is the reason why a preface in two pieces is refused.     *)
EXTENDS Handshake, TLAPS

Phases == {"flushing", "reading", "ready", "invalid", "eof"}

\* The inductive invariant: nothing is read before SETTINGS are written, and
\* nothing is kept of a read that is not the preface.
IInv ==
  /\ server \in Phases
  /\ server \in {"flushing", "reading"} => read = 0 /\ pos = 0
  /\ server \in {"reading", "ready"} => flushed = SettingsLen
  /\ server = "ready" => speaks = "h2" /\ read = PrefaceLen

\* IInv reads only these.
LEMMA SameServer ==
  ASSUME IInv, UNCHANGED <<speaks, server, read, pos, flushed>>
  PROVE  IInv'
BY DEF IInv

LEMMA InvInit == Init => IInv
<1> SUFFICES ASSUME Init PROVE IInv
  OBVIOUS
<1>1. server = "flushing" /\ read = 0 /\ pos = 0
  BY DEF Init
<1> QED
  BY <1>1 DEF IInv, Phases

LEMMA FlushKeeps ==
  ASSUME IInv, NEW n, FlushSettings(n)
  PROVE  IInv'
<1>1. server = "flushing" /\ read = 0 /\ pos = 0
  BY DEF FlushSettings, IInv
<1>2. read' = 0 /\ pos' = 0
  BY <1>1 DEF FlushSettings
<1>3. CASE flushed' = SettingsLen
  <2>1. server' = "reading"
    BY <1>3 DEF FlushSettings
  <2> QED
    BY <1>2, <1>3, <2>1 DEF IInv, Phases
<1>4. CASE flushed' # SettingsLen
  <2>1. server' = "flushing"
    BY <1>1, <1>4 DEF FlushSettings
  <2> QED
    BY <1>2, <2>1 DEF IInv, Phases
<1> QED
  BY <1>3, <1>4

LEMMA ReadKeeps ==
  ASSUME IInv, NEW n \in 1 .. PrefaceLen, ReadPreface(n)
  PROVE  IInv'
<1>1. /\ server = "reading" /\ read = 0 /\ pos = 0 /\ flushed = SettingsLen
      /\ read' = read + n /\ speaks' = speaks /\ flushed' = flushed
  BY DEF ReadPreface, IInv
<1>2. pos + n <= PrefaceLen /\ ~(pos + n > PrefaceLen) /\ read' = n
  BY <1>1 DEF PrefaceLen
<1>3. CASE Differs(n)
  <2>1. server' = "invalid"
    BY <1>2, <1>3 DEF ReadPreface
  <2> QED
    BY <2>1 DEF IInv, Phases
<1>4. CASE ~Differs(n)
  <2>1. speaks = "h2" /\ n = PrefaceLen
    BY <1>4 DEF Differs
  <2>2. pos' = PrefaceLen /\ server' = "ready"
    <3>1. /\ pos' = pos + n
          /\ server' = IF pos' = PrefaceLen THEN "ready" ELSE server
      BY <1>2, <1>4 DEF ReadPreface
    <3>2. pos' = PrefaceLen
      BY <1>1, <2>1, <3>1 DEF PrefaceLen
    <3> QED
      BY <3>1, <3>2
  <2> QED
    BY <1>1, <1>2, <2>1, <2>2 DEF IInv, Phases
<1> QED
  BY <1>3, <1>4

LEMMA InvNext == IInv /\ [Next]_vars => IInv'
<1> SUFFICES ASSUME IInv, [Next]_vars PROVE IInv'
  OBVIOUS
<1>1. CASE \E n \in 1 .. PrefaceLen : WritePreface(n)
  BY <1>1, SameServer DEF WritePreface
<1>2. CASE \E n \in 1 .. PrefaceLen : ReadPreface(n)
  BY <1>2, ReadKeeps
<1>3. CASE \E n \in 1 .. SettingsLen : WriteSettings(n)
  BY <1>3, SameServer DEF WriteSettings
<1>4. CASE \E n \in 1 .. SettingsLen : ClientReads(n)
  BY <1>4, SameServer DEF ClientReads
<1>5. CASE \E n \in 1 .. SettingsLen : FlushSettings(n)
  BY <1>5, FlushKeeps
<1>6. CASE ClientGoes
  BY <1>6, SameServer DEF ClientGoes
<1>7. CASE ReadEof
  <2>1. server' = "eof"
    BY <1>7 DEF ReadEof
  <2> QED
    BY <2>1 DEF IInv, Phases
<1>8. CASE UNCHANGED vars
  BY <1>8, SameServer DEF vars
<1> QED
  BY <1>1, <1>2, <1>3, <1>4, <1>5, <1>6, <1>7, <1>8 DEF Next

\* The server is ready only after exactly the 24 octets of the preface, with
\* its SETTINGS written, and ReadPreface never leaves the bounds of PREFACE:
\* server.rs:361-388, whose buffer could take more than what is missing.
THEOREM ServerReadyIsExact == Spec => []ReadyIsExact
<1>1. IInv => ReadyIsExact
  BY DEF IInv, ReadyIsExact, Phases
<1> QED
  BY <1>1, InvInit, InvNext, PTL DEF Spec

\* Under this code a read of less than the whole preface ends the handshake:
\* the only step that leads from reading to ready reads all of it at once.
THEOREM PrefaceInOneRead ==
  Spec => [][server = "reading" /\ server' = "ready" => read' = read + PrefaceLen]_vars
<1>1. ASSUME IInv, [Next]_vars, server = "reading", server' = "ready"
      PROVE  read' = read + PrefaceLen
  <2>1. read = 0
    BY <1>1 DEF IInv
  <2>2. IInv'
    BY <1>1, InvNext
  <2>3. read' = PrefaceLen
    BY <1>1, <2>2 DEF IInv
  <2> QED
    BY <2>1, <2>3 DEF PrefaceLen
<1>2. IInv /\ [Next]_vars =>
        [server = "reading" /\ server' = "ready" => read' = read + PrefaceLen]_vars
  BY <1>1
<1> QED
  BY <1>2, InvInit, InvNext, PTL DEF Spec
=============================================================================
