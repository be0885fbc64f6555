------------------------------- MODULE MCHttp1 -------------------------------
(* Http1 on small instances, all explored by one run.                        *)
(*   lengths   two requests with a length, one after the other               *)
(*   chunks    one request and response in chunks, cut anywhere              *)
(*   early     endpoints that answer before they have read, narrow transport *)
(*   continue  requests that expect 100 Continue                             *)
EXTENDS Http1, HttpDate

MCInstances == {"lengths", "chunks", "early", "continue"}
Fixed(n) == Message("fixed", IF n = 0 THEN <<>> ELSE <<n>>)
Chunked(chunks) == Message("chunked", chunks)
Expects(how) == [Fixed(1) EXCEPT !.expect = how]
Closing(m) == [m EXCEPT !.close = TRUE]
Trailing(m) == [m EXCEPT !.field = TRUE]

MCRequests == "lengths" :> {None, Fixed(2), Closing(Fixed(0)), Chunked(<<1>>)}
           @@ "chunks" :> {Chunked(<<2, 1>>), Trailing(Chunked(<<3>>))}
           @@ "early" :> {Fixed(3), Chunked(<<1>>)}
           @@ "continue" :> {Expects("waits"), Expects("impatient")}
MCResponses == "lengths" :> {Fixed(1), Closing(Fixed(0)), Chunked(<<1>>)}
            @@ "chunks" :> {Chunked(<<1, 1>>)} @@ "early" :> {Fixed(2)}
            @@ "continue" :> {Fixed(1)}
MCMaxRequests == [i \in MCInstances |-> IF i = "chunks" THEN 1 ELSE 2]
MCCapacity == [i \in MCInstances |-> IF i = "early" THEN 3 ELSE 4]
MCMoves == "lengths" :> {"timeout", "fail", "hangup"} @@ "chunks" :> {"timeout"}
        @@ "early" :> {"timeout", "early"} @@ "continue" :> {"timeout", "early"}

-----------------------------------------------------------------------------
(* What TLC evaluates of the two conversions before it starts.               *)

\* Dates: the first sixty thousand days (1970 to 2134) and the last (9835 to
\* 9999), which hold every kind of century, with a second of the day each.
SomeSecond(day) == (day % 719) * 120 + (day % 60)
CheckedDays == (0 .. 60000) \cup (Year9999Days - 60001 .. Year9999Days - 1)
ASSUME DatesRoundTrip == \A day \in CheckedDays : RoundTrips(day, SomeSecond(day))

\* The years of the format that writes two digits of them, and asctime's day.
ASSUME ShortForms ==
  /\ {ParsedYear([format |-> "rfc850", year |-> <<y \div 10, y % 10>>]) : y \in 0 .. 99}
       = 1970 .. 2069
  /\ \A day \in 1 .. 9 : Value(<<Blank, day>>) = day

\* A chunk of as many bytes as the encoder reads fits its reader's buffer.
ASSUME ChunksFit ==
  \A n \in 6 .. 5000 : LET most == MaxBytesToRead(n) IN HexDigits(most) + 4 + most <= n
=============================================================================
