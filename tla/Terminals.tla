----------------------------- MODULE Terminals ------------------------------
(* Virtual terminals as the daemon and its helpers switch between them.  A   *)
(* terminal in graphics mode whose switches the kernel makes by itself       *)
(* (VT_AUTO) cannot be left: VT_ACTIVATE does nothing and VT_WAITACTIVE, in  *)
(* the daemon's only thread, would wait for ever.                            *)
CONSTANT Terminal

VARIABLES
  foreground,          \* the terminal that is shown
  terminal,            \* its modes: graphics, and who makes the switches:
                       \* "auto" the kernel, "alive" or "dead" a process
  jump                 \* where the jump under way goes to, if there is one

terminalVars == <<foreground, terminal, jump>>

VtMode(graphics, switcher) == [graphics |-> graphics, switcher |-> switcher]

TerminalInit ==
  /\ foreground = CHOOSE t \in Terminal : TRUE
  /\ terminal = [t \in Terminal |-> VtMode(FALSE, "auto")]
  /\ jump = {}

Stuck(mode) == mode.graphics /\ mode.switcher = "auto"
handleVtSwitches(mode) == [mode EXCEPT !.switcher = "alive"]

(* Mutant: only a caller that makes the switches itself mends the terminal.  *)
fixVtModeOnlyByHand(mode, vtAuto) ==
  IF Stuck(mode) /\ ~vtAuto THEN handleVtSwitches(mode) ELSE mode

(* The controlling process is gone with vtAuto: text mode lets the kernel    *)
(* switch.  Otherwise the caller takes care of the switches itself.          *)
fixVtMode(mode, vtAuto) ==
  IF ~Stuck(mode) THEN mode
  ELSE IF vtAuto THEN [mode EXCEPT !.graphics = FALSE]
  ELSE handleVtSwitches(mode)

(* The target is put into graphics mode first, and it may be the terminal    *)
(* that is shown.                                                            *)
jumpToVt(vt, vtAuto) ==
  /\ jump = {}
  /\ jump' = {vt}
  /\ LET flicker == [terminal EXCEPT ![vt].graphics = TRUE]
         fixed == [flicker EXCEPT ![foreground] = fixVtMode(@, vtAuto)]
     IN  terminal' = IF vtAuto THEN fixed ELSE [fixed EXCEPT ![vt] = handleVtSwitches(@)]
  /\ UNCHANGED foreground

resetVt(vt) ==
  /\ jump = {}
  /\ terminal' = [terminal EXCEPT ![vt] = VtMode(@.graphics /\ foreground # vt, "auto")]
  /\ UNCHANGED <<foreground, jump>>

(* The kernel, asked to leave the terminal that is shown: it waits for the   *)
(* process that makes the switches to agree; one that is dead has its        *)
(* terminal reset.                                                           *)
LeaveFor(vt) ==
  /\ vt # foreground
  /\ ~Stuck(terminal[foreground])
  /\ terminal' = [terminal EXCEPT ![foreground] =
       IF @.switcher = "dead" THEN VtMode(FALSE, "auto") ELSE @]
  /\ foreground' = vt

Activate ==
  /\ \E vt \in jump : LeaveFor(vt)
  /\ UNCHANGED jump

WaitActive ==
  /\ foreground \in jump
  /\ jump' = {}
  /\ UNCHANGED <<foreground, terminal>>

(* The user's keys, a display server that takes its terminal, and its death. *)
UserSwitches ==
  /\ jump = {}
  /\ \E vt \in Terminal : LeaveFor(vt)
  /\ UNCHANGED jump

ServerTakes ==
  /\ \E switcher \in {"auto", "alive"} :
       terminal' = [terminal EXCEPT ![foreground] = VtMode(TRUE, switcher)]
  /\ jump = {}
  /\ UNCHANGED <<foreground, jump>>

SwitcherDies ==
  /\ \E vt \in Terminal :
       /\ terminal[vt].switcher = "alive"
       /\ terminal' = [terminal EXCEPT ![vt].switcher = "dead"]
  /\ UNCHANGED <<foreground, jump>>

TerminalNext ==
  \/ \E vt \in Terminal, vtAuto \in BOOLEAN : jumpToVt(vt, vtAuto)
  \/ \E vt \in Terminal : resetVt(vt)
  \/ Activate
  \/ WaitActive
  \/ UserSwitches
  \/ ServerTakes
  \/ SwitcherDies

(* The process that holds a terminal answers the kernel's request for it.    *)
TerminalFairness == WF_terminalVars(Activate \/ WaitActive)

(* Whatever state display servers, their deaths and earlier jumps left the   *)
(* terminals in, a jump arrives: jumpToVt blocks its caller until then.      *)
JumpArrives == (jump # {}) ~> (jump = {})
=============================================================================
