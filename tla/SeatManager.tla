----------------------------- MODULE SeatManager -----------------------------
(***************************************************************************)
(* SeatManager follows one logind seat: a LogindSeat object watches its     *)
(* CanGraphical property, a Seat with displays exists while it is true, and *)
(* DisplayManager shows an object for it on D-Bus.  logind's answers and    *)
(* signals reach the daemon in the order logind sent them.  Qt reads them   *)
(* in a thread of its own and puts them before the objects that wait for    *)
(* them then: what a deleted LogindSeat was sent, no later one reads.       *)
(***************************************************************************)
EXTENDS Seat

CONSTANTS
  Watchers,              \* LogindSeat objects, created and deleted
  MaxBus,                \* bound: messages from logind under way
  LateReading            \* Qt's thread may be slower than the manager, and
                         \* find a LogindSeat that is younger than a signal

ASSUME SeatManagerAssumption ==
  MaxBus \in Nat /\ None \notin Watchers /\ LateReading \in BOOLEAN

VARIABLES
  logindSeat,     \* what logind knows: "absent", "text" or "graphical"
  listing,        \* ListSeats has not been answered
  getCalls,       \* watchers whose Get of CanGraphical is unanswered
  bus,            \* from logind, in order
  systemSeat,     \* the entry of m_systemSeats
  watcher,        \* the LogindSeat objects: m_canGraphical, or "none"
  mseat,          \* the entry of m_seats
  seatObjects     \* DisplayManager's objects for the seat
logindVars == <<logindSeat, listing, getCalls, bus>>
managerVars == <<systemSeat, watcher, mseat, seatObjects>>
vars == <<seatVars, logindVars, managerVars>>

Message == [type : {"Get", "CanGraphical"}, watcher : Watchers, value : BOOLEAN]
             \cup [type : {"Seats"}, value : BOOLEAN]
             \cup [type : {"SeatNew", "SeatRemoved"}]

(* initialize(): ListSeats is called before the signals are subscribed to.  *)
Init ==
  /\ SeatInit
  /\ logindSeat \in {"absent", "text", "graphical"}
  /\ listing = TRUE
  /\ getCalls = {}
  /\ bus = <<>>
  /\ systemSeat = None
  /\ watcher = [w \in Watchers |-> "none"]
  /\ mseat = None
  /\ seatObjects = 0

TypeOK ==
  /\ SeatTypeOK
  /\ logindSeat \in {"absent", "text", "graphical"}
  /\ listing \in BOOLEAN
  /\ getCalls \subseteq Watchers
  /\ bus \in Seq(Message)
  /\ systemSeat \in Watchers \cup {None}
  /\ watcher \in [Watchers -> {"none", "no", "yes"}]
  /\ mseat \in SeatIds \cup {None}
  /\ seatObjects \in Nat

Alive(s) == mdisplays[s] # <<>>
Sends(message) == bus' = Append(bus, message)

-----------------------------------------------------------------------------
(* logind                                                                   *)

LogindLists ==
  /\ listing /\ \A i \in DOMAIN bus : bus[i].type # "Seats"
  /\ Sends([type |-> "Seats", value |-> logindSeat # "absent"])
  /\ UNCHANGED <<seatVars, managerVars, logindSeat, listing, getCalls>>

LogindAnswers(w) ==
  /\ w \in getCalls
  /\ getCalls' = getCalls \ {w}
  /\ IF logindSeat = "absent"
     THEN UNCHANGED bus
     ELSE Sends([type |-> "Get", watcher |-> w, value |-> logindSeat = "graphical"])
  /\ UNCHANGED <<seatVars, managerVars, logindSeat, listing>>

(* A seat appears, changes, or goes; a change is only sent to those that    *)
(* watch the seat.  Assumed: not before ListSeats has been answered, as two *)
(* LogindSeats would then be made for a seat that is listed and announced.  *)
LogindChanges(new) ==
  /\ new # logindSeat
  /\ ~listing
  /\ Len(bus) < MaxBus
  /\ logindSeat' = new
  /\ CASE logindSeat = "absent" -> Sends([type |-> "SeatNew"])
       [] new = "absent" -> Sends([type |-> "SeatRemoved"])
       [] OTHER -> IF systemSeat # None
                   THEN Sends([type |-> "CanGraphical", watcher |-> systemSeat, value |-> new = "graphical"])
                   ELSE UNCHANGED bus
  /\ UNCHANGED <<seatVars, managerVars, listing, getCalls>>

-----------------------------------------------------------------------------
(* SeatManager                                                              *)

CreateSeat ==
  LET s == CHOOSE x \in SeatIds : ~Alive(x)
  IN /\ \E x \in SeatIds : ~Alive(x)   \* bound
     /\ Free(display) # {}             \* bound
     /\ mseat' = s
     /\ CreateDisplay(mdisplays, display, s, defaultServer, active, None)
     /\ seatObjects' = seatObjects + 1
     /\ UNCHANGED <<defaultServer, ttyFailures, exitCode>>

(* The object of the seat is taken off the bus with it.                     *)
RemoveSeat ==
  IF mseat = None
  THEN UNCHANGED <<seatVars, mseat, seatObjects>>
  ELSE /\ SeatGone(mseat)
       /\ mseat' = None
       /\ seatObjects' \in 0..seatObjects - 1

CanGraphicalChanged(value) == IF value THEN CreateSeat ELSE RemoveSeat

LogindSeatAdded ==
  \E w \in Watchers :
    /\ watcher[w] = "none"
    /\ \A i \in DOMAIN bus : bus[i].type \in {"Get", "CanGraphical"} => bus[i].watcher # w
    /\ watcher' = [watcher EXCEPT ![w] = "no"]
    /\ systemSeat' = w
    /\ getCalls' = getCalls \cup {w}
    /\ UNCHANGED <<seatVars, mseat, seatObjects>>

LogindSeatRemoved ==
  /\ systemSeat' = None
  /\ watcher' = IF systemSeat = None THEN watcher ELSE [watcher EXCEPT ![systemSeat] = "none"]
  /\ getCalls' = IF systemSeat = None THEN getCalls ELSE getCalls \ {systemSeat}
  /\ RemoveSeat

(* A mistake: the reply is always told on.                                  *)
CanGraphicalReplyAlways(w, value) ==
  IF watcher[w] # "none"
  THEN /\ watcher' = [watcher EXCEPT ![w] = IF value THEN "yes" ELSE "no"]
       /\ CanGraphicalChanged(value)
  ELSE UNCHANGED <<seatVars, watcher, mseat, seatObjects>>

(* The reply to Get tells of a change only; it is for nobody once its       *)
(* LogindSeat is deleted.                                                   *)
CanGraphicalReply(w, value) ==
  IF watcher[w] # "none" /\ value # (watcher[w] = "yes")
  THEN /\ watcher' = [watcher EXCEPT ![w] = IF value THEN "yes" ELSE "no"]
       /\ CanGraphicalChanged(value)
  ELSE UNCHANGED <<seatVars, watcher, mseat, seatObjects>>

(* PropertiesChanged is told on as it comes.                                *)
PropertiesChanged(w, value) ==
  /\ watcher' = [watcher EXCEPT ![w] = IF value THEN "yes" ELSE "no"]
  /\ CanGraphicalChanged(value)

ReadSeats(m) ==
  /\ m.type = "Seats"
  /\ listing' = FALSE
  /\ IF m.value THEN LogindSeatAdded
     ELSE UNCHANGED <<seatVars, managerVars, getCalls>>

ReadSeatNew(m) ==
  /\ m.type = "SeatNew"
  /\ LogindSeatAdded
  /\ UNCHANGED listing

ReadSeatRemoved(m) ==
  /\ m.type = "SeatRemoved"
  /\ LogindSeatRemoved
  /\ UNCHANGED listing

ReadGet(m) ==
  /\ m.type = "Get"
  /\ CanGraphicalReply(m.watcher, m.value)
  /\ UNCHANGED <<listing, getCalls, systemSeat>>

ReadCanGraphical(m) ==
  /\ m.type = "CanGraphical"
  /\ LET w == IF LateReading THEN systemSeat ELSE m.watcher
     IN IF w = None \/ watcher[w] = "none"
        THEN UNCHANGED <<seatVars, watcher, mseat, seatObjects>>
        ELSE PropertiesChanged(w, m.value)
  /\ UNCHANGED <<listing, getCalls, systemSeat>>

DaemonReads ==
  /\ exitCode = None
  /\ bus # <<>>
  /\ bus' = Tail(bus)
  /\ UNCHANGED logindSeat
  /\ LET m == Head(bus)
     IN \/ ReadSeats(m)
        \/ ReadSeatNew(m)
        \/ ReadSeatRemoved(m)
        \/ ReadGet(m)
        \/ ReadCanGraphical(m)

SeatStep ==
  /\ \/ SeatNext
     \/ exitCode = None /\ mseat # None /\ SwitchToGreeter(mseat)
  /\ UNCHANGED <<logindVars, managerVars>>

LogindStep ==
  /\ exitCode = None
  /\ \/ LogindLists
     \/ \E w \in Watchers : LogindAnswers(w)
     \/ \E new \in {"absent", "text", "graphical"} : LogindChanges(new)

Next == SeatStep \/ LogindStep \/ DaemonReads
Spec == Init /\ [][Next]_vars
=============================================================================
