--------------------------- MODULE SeatProperties ---------------------------
(* What must hold of the seats, their displays and terminals.               *)
EXTENDS SeatManager, TLC

(* At most one Seat exists for logind's seat, and m_seats and the objects   *)
(* on D-Bus know of it: none is left over, or created twice, by a reply     *)
(* that is late for a change already signalled, or for a seat that went and *)
(* came back.  Once logind has been heard, there is one exactly if logind   *)
(* has a seat that can show graphics.                                       *)
SeatFollowsLogind ==
  exitCode = None =>
    /\ \A s \in SeatIds : Alive(s) <=> s = mseat
    /\ seatObjects = IF mseat = None THEN 0 ELSE 1
    /\ ~listing /\ getCalls = {} /\ bus = <<>>
         => (mseat # None <=> logindSeat = "graphical")

(* "The alternative is a black screen": while there is a seat, the terminal *)
(* in the foreground shows a greeter or a session, or a display is on its   *)
(* way to take it - after a session ends, is reused, or is left for another *)
(* greeter, and when a greeter or its display server fails.                 *)
NeverBlack ==
  mseat # None /\ exitCode = None =>
    \E d \in DisplayIds : active \in ShownBy(display[d]) \/ In(d, {"retrying", "greeting"})
(* Which LogindSeat object is which does not matter to any property.        *)
WatcherSymmetry == Permutations(Watchers)
=============================================================================
