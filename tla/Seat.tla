-------------------------------- MODULE Seat --------------------------------
(***************************************************************************)
(* The displays of a seat: created, tried again, replaced when they stop   *)
(* and given up, on virtual terminals that the kernel hands out.  A seat   *)
(* may have several, because SwitchToGreeter() adds one and the session of *)
(* the other stays; what must never happen is that the terminal in the     *)
(* foreground shows nothing and nothing will take its place.               *)
(*                                                                         *)
(* A display is reduced to how far it is: what happens inside a login is   *)
(* the module Display.  A stopped display is gone at once (deleteLater).   *)
(***************************************************************************)
EXTENDS Naturals, Sequences, SequencesExt, FiniteSets, FiniteSetsExt

CONSTANTS
  SeatIds,          \* Seat objects; a name may, by a race, get two
  MaxDisplays,      \* bound: displays alive at once
  VTs,              \* the terminals; more than are ever in use
  InitialVt,        \* SDDM_INITIAL_VT
  MaxTtyFailures,   \* 5 in the code
  None,
  MayGiveUp,        \* an X server may fail to start three times in a row
  MayFailBehind,    \* x11-user may fail while another display is alive
  MayStopBehind     \* a display may stop while the last other one, perhaps
                    \* listening for a finger, has a login in progress

ServerTypes == {"x11", "x11-user", "wayland"}
DisplayIds == 1..MaxDisplays

ASSUME SeatAssumption ==
  /\ MaxDisplays \in Nat \ {0} /\ MaxTtyFailures \in Nat /\ SeatIds # {}
  /\ VTs \subseteq Nat \ {0} /\ InitialVt \in VTs
  /\ None \notin ServerTypes /\ None \notin VTs \cup SeatIds \cup {0, 12, 23}
  /\ MayGiveUp \in BOOLEAN /\ MayFailBehind \in BOOLEAN /\ MayStopBehind \in BOOLEAN

VARIABLES
  defaultServer,    \* General.DisplayServer, read again for every display
  mdisplays,        \* m_displays of each Seat
  display,          \* the displays, by id
  ttyFailures,      \* s_ttyFailures
  active,           \* the terminal in the foreground
  exitCode          \* of the daemon, once it has given up
seatVars == <<defaultServer, mdisplays, display, ttyFailures, active, exitCode>>

(* phase: "retrying" and "stranded" have no server; "greeting" is a helper  *)
(* whose compositor is not up; "login" a greeter with a login in progress.  *)
Display == [kind : ServerTypes \cup {None}, vt : VTs \cup {0}, sessionVt : VTs \cup {0},
            phase : {"gone", "retrying", "stranded", "greeting", "greeter", "login", "session"},
            tries : 0..3, broken : BOOLEAN]
Gone == [kind |-> None, vt |-> 0, sessionVt |-> 0, phase |-> "gone", tries |-> 0, broken |-> FALSE]

SeatInit ==
  /\ defaultServer \in ServerTypes
  /\ mdisplays = [s \in SeatIds |-> <<>>]
  /\ display = [d \in DisplayIds |-> Gone]
  /\ ttyFailures = 0
  /\ active = InitialVt
  /\ exitCode = None

SeatTypeOK ==
  /\ defaultServer \in ServerTypes
  /\ mdisplays \in [SeatIds -> Seq(DisplayIds)]
  /\ display \in [DisplayIds -> Display]
  /\ ttyFailures \in 0..MaxTtyFailures + 1
  /\ active \in VTs
  /\ exitCode \in {None, 12, 23}

In(d, phases) == display[d].phase \in phases
Free(D) == {d \in DisplayIds : D[d].phase = "gone"}
SeatOf(d) == CHOOSE s \in SeatIds : \E i \in DOMAIN mdisplays[s] : mdisplays[s][i] = d
PlaceOf(d) == CHOOSE i \in DOMAIN mdisplays[SeatOf(d)] : mdisplays[SeatOf(d)][i] = d

(* The terminals some process holds open: an X server, the compositor of a  *)
(* greeter, a session.  The kernel offers the first that is not; if it has  *)
(* none left, the one in the foreground is taken.                           *)
Holds(r) ==
  CASE r.phase \in {"greeter", "login"} -> {r.vt}
    [] r.phase = "session" -> {r.sessionVt} \cup IF r.kind = "x11" THEN {r.vt} ELSE {}
    [] OTHER -> {}
InUse(D) == UNION {Holds(D[d]) : d \in DisplayIds}
NewVt(D) == IF VTs \subseteq InUse(D) THEN active ELSE Min(VTs \ InUse(D))

(* Display::terminalId(): the session's terminal while a login is active.   *)
TerminalId(r) == IF r.phase \in {"login", "session"} THEN r.sessionVt ELSE r.vt

(* The terminal on which a display shows a greeter or a session.            *)
ShownBy(r) ==
  CASE r.phase \in {"greeter", "login"} -> {r.vt}
    [] r.phase = "session" -> {r.sessionVt}
    [] OTHER -> {}

(* What one attempt to start the display server comes to.  Only rootful X11 *)
(* starts a process here; one that could not be executed leaves `process`   *)
(* set, and every later attempt is refused before it is made.               *)
StartsAs(r, tryNr) ==
  CASE r.kind # "x11" -> {"up"}
    [] r.kind = "x11" /\ r.broken -> {"broken"}
    [] OTHER -> {"up"} \cup IF MayGiveUp THEN {"noDisplayNumber", "broken"}
                            ELSE IF tryNr < 3 THEN {"noDisplayNumber"} ELSE {}

(* Seat::startDisplay() of display d of D: the greeter is up with a rootful *)
(* X server and about to start otherwise; a failure is tried again in 2 s,  *)
(* three times.  jump is where the caller switches to afterwards.           *)
StartDisplay(D, d, tryNr, foreground, jump) ==
  \E o \in StartsAs(D[d], tryNr) :
    LET phase == CASE o = "up" /\ D[d].kind = "x11" -> "greeter"
                   [] o = "up" -> "greeting"
                   [] o # "up" /\ tryNr < 3 -> "retrying"
                   [] OTHER -> "stranded"
    IN /\ display' = [D EXCEPT ![d].phase = phase,
                        ![d].tries = IF phase = "retrying" THEN tryNr ELSE 0, ![d].broken = (o = "broken")]
       /\ active' = IF jump # None THEN jump
                    ELSE IF phase = "greeter" THEN D[d].vt ELSE foreground

(* Display::Display(): every type takes the terminal that is free now.      *)
NewDisplay(D, kind) == [Gone EXCEPT !.kind = kind, !.vt = NewVt(D)]

(* Seat::createDisplay(), where lists M and displays D are what is left.    *)
CreateDisplay(M, D, s, kind, foreground, jump) ==
  LET d == Min(Free(D))
  IN /\ mdisplays' = [M EXCEPT ![s] = Append(@, d)]
     /\ StartDisplay([D EXCEPT ![d] = NewDisplay(D, kind)], d, 1, foreground, jump)

Removed(d) == [mdisplays EXCEPT ![SeatOf(d)] = RemoveAt(@, PlaceOf(d))]
Without(d) == [display EXCEPT ![d] = Gone]

(* A mistake: the foreground is left where it was.                          *)
DisplayStoppedStays(d, nextVt, foreground) ==
  LET s == SeatOf(d)
  IN IF Removed(d)[s] = <<>>
     THEN CreateDisplay(Removed(d), Without(d), s, defaultServer, foreground, nextVt)
     ELSE /\ mdisplays' = Removed(d)
          /\ display' = Without(d)
          /\ active' = IF nextVt # None THEN nextVt ELSE foreground

(* Seat::displayStopped(): a seat without displays gets a new one; one with *)
(* others shows the last of them, unless a reused session is to be shown.   *)
DisplayStopped(d, nextVt, foreground) ==
  LET s == SeatOf(d)
      rest == Removed(d)
      last == display[rest[s][Len(rest[s])]]
  IN IF rest[s] = <<>>
     THEN CreateDisplay(rest, Without(d), s, defaultServer, foreground, nextVt)
     ELSE /\ MayStopBehind \/ nextVt # None \/ TerminalId(last) \in ShownBy(last) \cup {last.vt}
          /\ mdisplays' = rest
          /\ display' = Without(d)
          /\ active' = IF nextVt # None THEN nextVt ELSE TerminalId(last)

RetryStart(d) ==
  /\ In(d, {"retrying"})
  /\ StartDisplay(display, d, display[d].tries + 1, active, None)
  /\ UNCHANGED <<defaultServer, mdisplays, ttyFailures, exitCode>>

(* The greeter's helper takes the terminal and switches to it.              *)
GreeterOpens(d) ==
  /\ In(d, {"greeting"})
  /\ display[d].vt \notin InUse(display)
  /\ display' = [display EXCEPT ![d].phase = "greeter"]
  /\ active' = display[d].vt
  /\ UNCHANGED <<defaultServer, mdisplays, ttyFailures, exitCode>>

(* ... which fails if another process controls it by now.                   *)
TtyFailed(d) ==
  /\ In(d, {"greeting"})
  /\ display[d].vt \in InUse(display)
  /\ ttyFailures' = ttyFailures + 1
  /\ exitCode' = IF ttyFailures' > MaxTtyFailures THEN 23 ELSE exitCode
  /\ DisplayStopped(d, None, InitialVt)
  /\ UNCHANGED defaultServer

(* The compositor of the greeter cannot be executed: its helper has already *)
(* switched to the terminal.  A seat that wanted something else gets an     *)
(* x11-user display instead.                                                *)
DisplayServerFailed(d) ==
  /\ In(d, {"greeter"}) /\ display[d].kind # "x11"
  /\ MayFailBehind \/ display[d].kind = "wayland" \/ Len(mdisplays[SeatOf(d)]) = 1
  /\ IF display[d].kind # "x11-user"
     THEN /\ CreateDisplay(Removed(d), Without(d), SeatOf(d), "x11-user", active, None)
          /\ UNCHANGED exitCode
     ELSE /\ mdisplays' = Removed(d)
          /\ display' = Without(d)
          /\ exitCode' = IF mdisplays'[SeatOf(d)] = <<>> THEN 12 ELSE exitCode
          /\ UNCHANGED active
  /\ UNCHANGED <<defaultServer, ttyFailures>>

(* The greeter, or a compositor that once ran, ends.                        *)
GreeterFails(d) ==
  /\ In(d, {"greeting", "greeter", "login"})
  /\ DisplayStopped(d, None, active)
  /\ UNCHANGED <<defaultServer, ttyFailures, exitCode>>

(* A rootful X server ends, under a greeter or a session.                   *)
DisplayServerStops(d) ==
  /\ In(d, {"greeter", "login", "session"}) /\ display[d].kind = "x11"
  /\ DisplayStopped(d, None, active)
  /\ UNCHANGED <<defaultServer, ttyFailures, exitCode>>

(* Display::startAuth(): an X11 session shares a rootful server's terminal; *)
(* anything else gets the one that is free now, for when PAM has accepted.  *)
StartAuth(d) ==
  /\ In(d, {"greeter"})
  /\ \E shared \in {display[d].kind = "x11", FALSE} :
       display' = [display EXCEPT ![d].phase = "login",
                     ![d].sessionVt = IF shared THEN display[d].vt ELSE NewVt(display)]
  /\ UNCHANGED <<defaultServer, mdisplays, ttyFailures, active, exitCode>>

AuthFails(d) ==
  /\ In(d, {"login"})
  /\ display' = [display EXCEPT ![d].phase = "greeter", ![d].sessionVt = 0]
  /\ UNCHANGED <<defaultServer, mdisplays, ttyFailures, active, exitCode>>

(* The session takes its terminal, and the greeter is stopped; a terminal   *)
(* that is somebody else's by now ends the helper, and so the display.      *)
SessionStarts(d) ==
  /\ In(d, {"login"})
  /\ LET vt == display[d].sessionVt
     IN IF vt \in InUse(display) /\ vt # display[d].vt
        THEN DisplayStopped(d, None, active)
        ELSE /\ display' = [display EXCEPT ![d].phase = "session"]
             /\ active' = vt
             /\ UNCHANGED mdisplays
  /\ UNCHANGED <<defaultServer, ttyFailures, exitCode>>

(* The user's session on another display is activated instead; the display  *)
(* stops, and leaves the foreground to that session.                        *)
SessionReused(d, e) ==
  /\ In(d, {"login"}) /\ In(e, {"session"})
  /\ DisplayStopped(d, display[e].sessionVt, display[e].sessionVt)
  /\ UNCHANGED <<defaultServer, ttyFailures, exitCode>>

SessionEnds(d) ==
  /\ In(d, {"session"})
  /\ DisplayStopped(d, None, active)
  /\ UNCHANGED <<defaultServer, ttyFailures, exitCode>>

(* SwitchToGreeter() on the D-Bus object of the seat.                       *)
SwitchToGreeter(s) ==
  /\ Free(display) # {}   \* bound
  /\ CreateDisplay(mdisplays, display, s, defaultServer, active, None)
  /\ UNCHANGED <<defaultServer, ttyFailures, exitCode>>

SetGreeterDisplayServer(kind) ==
  /\ kind # defaultServer
  /\ defaultServer' = kind
  /\ UNCHANGED <<mdisplays, display, ttyFailures, active, exitCode>>

(* A user may switch between the terminals that show something.             *)
UserSwitches(vt) ==
  /\ vt # active
  /\ \E d \in DisplayIds : vt \in ShownBy(display[d])
  /\ active' = vt
  /\ UNCHANGED <<defaultServer, mdisplays, display, ttyFailures, exitCode>>

DisplayEvent(d) ==
  \/ RetryStart(d)
  \/ GreeterOpens(d)
  \/ TtyFailed(d)
  \/ DisplayServerFailed(d)
  \/ GreeterFails(d)
  \/ DisplayServerStops(d)
  \/ StartAuth(d)
  \/ AuthFails(d)
  \/ SessionStarts(d)
  \/ \E e \in DisplayIds : SessionReused(d, e)
  \/ SessionEnds(d)

SeatNext ==
  /\ exitCode = None
  /\ \/ \E d \in DisplayIds : DisplayEvent(d)
     \/ \E kind \in ServerTypes : SetGreeterDisplayServer(kind)
     \/ \E vt \in VTs : UserSwitches(vt)

(* Seat::~Seat(): its displays stop, and no stopped() reaches it any more.  *)
SeatGone(s) ==
  /\ mdisplays' = [mdisplays EXCEPT ![s] = <<>>]
  /\ display' = [d \in DisplayIds |->
                   IF \E i \in DOMAIN mdisplays[s] : mdisplays[s][i] = d THEN Gone ELSE display[d]]
  /\ UNCHANGED <<defaultServer, ttyFailures, active, exitCode>>
=============================================================================
