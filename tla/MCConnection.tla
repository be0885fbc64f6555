---------------------------- MODULE MCConnection ----------------------------
(* Connection for TLC, and beside it the messages of a connection: TLC       *)
(* evaluates Messages on small sets before it starts.                        *)
EXTENDS Connection, Messages

ASSUME MessagesSurvive ==
  /\ \A req \in Requests : RequestSurvives(req) /\ PromiseSurvives(req)
  /\ \A res \in Responses, toHead \in BOOLEAN : ResponseSurvives(res, toHead)
  /\ \A f \in Fields : TrailersSurvive(f)

\* There are requests and promises of either fate, and each user's error.
ASSUME FatesHappen ==
  /\ \A kind \in {"request", "streamError"} :
       /\ \E req \in Requests : /\ ClientSends(req).kind = "frame"
                                /\ ServerReceives(ClientSends(req)).kind = kind
       /\ \E req \in Requests : /\ ServerPromises(req).kind = "frame"
                                /\ ClientReceivesPromise(ServerPromises(req)).kind = kind
  /\ \A e \in {"MissingUriSchemeAndAuthority", "MalformedHeaders", "HeaderTooBig"} :
       \E req \in Requests : ClientSends(req) = UserError(e)
=============================================================================
