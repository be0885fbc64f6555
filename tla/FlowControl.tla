----------------------------- MODULE FlowControl -----------------------------
(* The two counters of proto/streams/flow_control.rs.  `window` is what the  *)
(* peer allows, `available` is the part that has been handed out (send side) *)
(* or that the application has given back (receive side).  Both are i32 in   *)
(* the code and may be negative.  MaxWindow stands for 2^31 - 1: inc_window  *)
(* refuses every larger result, which is also exactly when the i32 addition  *)
(* overflows, so no other width has to be modelled.                          *)
EXTENDS Integers

CONSTANT MaxWindow

ASSUME MaxWindowAssumption == MaxWindow \in Nat \ {0}

Flow(w, a) == [window |-> w, available |-> a]
Flows == [window : Int, available : Int]

\* Window::as_size, FlowControl::window_size
AsSize(n) == IF n < 0 THEN 0 ELSE n

\* Ordering of a u32 against a Window: nothing is below a negative Window.
SizeLeq(sz, win) == win >= 0 /\ sz <= win

\* Mutant: the comparison the other way round.
HasUnavailableSwapped(f) == f.window >= 0 /\ f.window < f.available

HasUnavailable(f) == f.window >= 0 /\ f.window > f.available

ClaimCapacity(f, sz) == [f EXCEPT !.available = @ - sz]
AssignCapacity(f, sz) == [f EXCEPT !.available = @ + sz]

CanIncWindow(f, sz) == f.window + sz <= MaxWindow
IncWindow(f, sz) == [f EXCEPT !.window = @ + sz]

DecSendWindow(f, sz) == [f EXCEPT !.window = @ - sz]
DecRecvWindow(f, sz) == Flow(f.window - sz, f.available - sz)

\* assert!(sz <= self.window_size) of send_data
MaySendData(f, sz) == SizeLeq(sz, f.window)
\* Mutant: the window does not shrink.
SendDataOnFree(f, sz) == Flow(f.window, f.available - sz)

SendDataOn(f, sz) == Flow(f.window - sz, f.available - sz)

\* What a WINDOW_UPDATE would announce; 0 when it is not worth a frame.
\* Rust's division truncates toward zero, TLA+'s rounds down.
Half(n) == IF n >= 0 THEN n \div 2 ELSE -((-n) \div 2)

UnclaimedCapacity(f) ==
  IF f.available > f.window /\ f.available - f.window >= Half(f.window)
  THEN f.available - f.window
  ELSE 0
=============================================================================
