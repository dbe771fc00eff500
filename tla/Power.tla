------------------------------- MODULE Power --------------------------------
(* Turning the machine off, or to sleep: whoever asks, the daemon has the    *)
(* first of the services it found at its start do it that says it can.  It   *)
(* asks them one by one, waiting for each, and they may change their mind or *)
(* leave the bus meanwhile.                                                  *)
EXTENDS Naturals, Sequences, SequencesExt

CONSTANTS
  PowerAction,         \* some of "PowerOff", "Reboot", "Suspend", "Hibernate"
                       \* and "HybridSleep"
  MaxPowerRequests     \* bounds the requests that wait for the daemon

VARIABLES
  m_backends,          \* the services found, in the order they are asked
  can,                 \* what each would say now that it can do
  testing,             \* --test-mode
  capabilitiesSent,    \* the unread message that tells a greeter what can be done
  capabilities,        \* the greeter's copy
  powerGreeter,        \* "none", "themed" or "neo"
  powerRequests,       \* the actions asked for, in order
  asking,              \* in the request under way: whose turn it is, "asked" or
                       \* "willing"
  ableThroughout,      \* who could do it all the time since it was taken up
  performedBy          \* who did it

powerVars == <<m_backends, can, testing, capabilitiesSent, capabilities, powerGreeter,
               powerRequests, asking, ableThroughout, performedBy>>
daemonSideVars == <<asking, ableThroughout, performedBy>>
greeterSideVars == <<m_backends, can, testing, capabilitiesSent, capabilities, powerGreeter>>

Backend == {"login1", "ConsoleKit2", "UPower"}
NothingSent == {"nothing sent"}
Idle == [index |-> 0, phase |-> "idle"]
Asked(i) == [index |-> i, phase |-> "asked"]
LoopLeft == [index |-> 0, phase |-> "left"]

(* UPower is not asked whether it can power off: a command does it.          *)
ByCommand == {"PowerOff", "Reboot"} \cap PowerAction
CanOf(b) ==
  IF b = "UPower"
  THEN {ByCommand \cup s : s \in SUBSET (PowerAction \cap {"Suspend", "Hibernate"})}
  ELSE SUBSET PowerAction

(* A backend for each service on the bus, in this order.                     *)
BackendsOf(found) ==
  LET registered(b) == IF b \in found THEN <<b>> ELSE <<>>
  IN  registered("login1") \o registered("ConsoleKit2") \o registered("UPower")

PowerInit ==
  /\ \E found \in SUBSET Backend : m_backends = BackendsOf(found)
  /\ can = [b \in Backend |-> CHOOSE s \in CanOf(b) : \A t \in CanOf(b) : t \subseteq s]
  /\ testing \in BOOLEAN
  /\ capabilitiesSent = NothingSent /\ capabilities = {} /\ powerGreeter = "none"
  /\ powerRequests = <<>> /\ asking = Idle /\ ableThroughout = {} /\ performedBy = <<>>

-----------------------------------------------------------------------------
(* A service changes its mind, or is gone: then no question of it is         *)
(* answered.                                                                 *)
BackendChanges(b) ==
  /\ \E s \in CanOf(b) :
       /\ can' = [can EXCEPT ![b] = s]
       /\ ableThroughout' = IF asking # Idle /\ Head(powerRequests) \notin s
                            THEN ableThroughout \ {b} ELSE ableThroughout
  /\ UNCHANGED <<m_backends, testing, capabilitiesSent, capabilities, powerGreeter,
                 powerRequests, asking, performedBy>>

(* Connect is answered once with what all services together can do.          *)
GreeterConnects(kind) ==
  /\ powerGreeter = "none" /\ asking = Idle
  /\ powerGreeter' = kind /\ capabilities' = {}
  /\ capabilitiesSent' = UNION {can[b] : b \in ToSet(m_backends)}
  /\ UNCHANGED <<m_backends, can, testing, powerRequests, daemonSideVars>>

GreeterReads ==
  /\ capabilitiesSent # NothingSent
  /\ capabilities' = capabilitiesSent /\ capabilitiesSent' = NothingSent
  /\ UNCHANGED <<m_backends, can, testing, powerGreeter, powerRequests, daemonSideVars>>

GreeterEnds ==
  /\ powerGreeter # "none"
  /\ powerGreeter' = "none" /\ capabilities' = {} /\ capabilitiesSent' = NothingSent
  /\ UNCHANGED <<m_backends, can, testing, powerRequests, daemonSideVars>>

(* The neo greeter sends what it was told; the themed one leaves that to its *)
(* theme; over the bus the lock screen may ask for all but one.              *)
Request(a) ==
  /\ Len(powerRequests) < MaxPowerRequests
  /\ \/ powerGreeter = "neo" /\ a \in capabilities
     \/ powerGreeter = "themed"
     \/ a # "HybridSleep"
  /\ powerRequests' = Append(powerRequests, a)
  /\ UNCHANGED <<greeterSideVars, daemonSideVars>>

-----------------------------------------------------------------------------
(* Events are taken one at a time, and the calls to the services block.      *)
PowerTaken ==
  /\ powerRequests # <<>> /\ asking = Idle
  /\ asking' = IF testing \/ m_backends = <<>> THEN LoopLeft ELSE Asked(1)
  /\ ableThroughout' = IF testing THEN {}
                       ELSE {b \in ToSet(m_backends) : Head(powerRequests) \in can[b]}
  /\ UNCHANGED <<greeterSideVars, powerRequests, performedBy>>

NextBackend == IF asking.index < Len(m_backends) THEN Asked(asking.index + 1) ELSE LoopLeft

BackendAnswers ==
  /\ asking.phase = "asked"
  /\ asking' = IF Head(powerRequests) \in can[m_backends[asking.index]]
               THEN [asking EXCEPT !.phase = "willing"] ELSE NextBackend
  /\ UNCHANGED <<greeterSideVars, powerRequests, ableThroughout, performedBy>>

(* Mutant: without the break the next service is asked all the same.         *)
LoopAfterwardsGoesOn == NextBackend
LoopAfterwards == LoopLeft

BackendActs ==
  /\ asking.phase = "willing"
  /\ performedBy' = Append(performedBy, asking.index)
  /\ asking' = LoopAfterwards
  /\ UNCHANGED <<greeterSideVars, powerRequests, ableThroughout>>

PowerDone ==
  /\ asking = LoopLeft
  /\ powerRequests' = Tail(powerRequests) /\ asking' = Idle
  /\ ableThroughout' = {} /\ performedBy' = <<>>
  /\ UNCHANGED greeterSideVars

PowerNext ==
  \/ \E b \in ToSet(m_backends) : BackendChanges(b)
  \/ \E kind \in {"themed", "neo"} : GreeterConnects(kind)
  \/ GreeterReads \/ GreeterEnds \/ (\E a \in PowerAction : Request(a))
  \/ PowerTaken \/ BackendAnswers \/ BackendActs \/ PowerDone

-----------------------------------------------------------------------------
(* What was asked for is done at most once, and never in test mode; whatever *)
(* the services say meanwhile, it is done if one of them could do it all the *)
(* time, and then by none that comes after such a one.                       *)
PowerActsOnce ==
  /\ Len(performedBy) <= 1
  /\ testing => performedBy = <<>>
  /\ asking = LoopLeft =>
       \A i \in 1 .. Len(m_backends) :
         m_backends[i] \in ableThroughout => performedBy # <<>> /\ performedBy[1] <= i
=============================================================================
