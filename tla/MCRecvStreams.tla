---------------------------- MODULE MCRecvStreams ----------------------------
(* RecvStreams on small instances, all explored by one run.                  *)
(*   bodies   one request, and every rule its body may break                 *)
(*   slots    two requests for one slot and one place for reset streams      *)
(*   errors   two requests of which the codec or the headers may be bad      *)
(*   windows  one request while the user changes a window                    *)
(*   pushes   a client's response and a promised stream                      *)
(*   ends     a request when the connection fails or is dropped              *)
EXTENDS RecvStreams

MCInstances == {"bodies", "slots", "errors", "windows", "pushes", "ends"}
MCServers == MCInstances \ {"pushes"}

Of(default, exceptions) ==
  [i \in MCInstances |-> IF i \in DOMAIN exceptions THEN exceptions[i] ELSE default]

MCStreamWindow == Of(2, [windows |-> 5])
MCMaxRecv == Of(1, <<>>)
MCPeerIds == Of({1}, [slots |-> {1, 2}, errors |-> {1, 2}])
MCDataSizes == Of({2}, [bodies |-> {1, 2}, slots |-> {}, errors |-> {}, windows |-> {1, 4}, pushes |-> {1}])
MCLengths == Of({}, [bodies |-> {2}])
MCResettable == Of({1}, [windows |-> {}])
MCMoves ==
  Of({"expire"},
     [bodies |-> {"trailers", "violate", "reset", "expire"},
      slots |-> {"respond", "reset", "expire"},
      errors |-> {"malformed", "oversize", "streamError", "expire"},
      ends |-> {"reset", "respond", "expire", "eof"},
      windows |-> {}, pushes |-> {"oversize", "expire"}])
MCMaxBytes == Of(2, [bodies |-> 3, windows |-> 5, pushes |-> 1])
MCMaxChanges == Of(0, [windows |-> 1])
=============================================================================
