----------------------------- MODULE DaemonLife -----------------------------
(* The daemon from its start to its end, and what it shows of its sessions   *)
(* on the bus meanwhile: each login attempt has a name of its own, there is  *)
(* an object for it from the verdict until its helper ends, and a signal     *)
(* ends the daemon from wherever it is.                                      *)
EXTENDS Naturals, Sequences, SequencesExt

CONSTANTS
  DisplayId,           \* the displays of all seats
  MaxSessionIds,       \* bounds the names
  MaxSignals,          \* bounds the signals that are not read yet
  MayQuitInSession     \* a signal is read while a display has a name to take back

ASSUME DaemonLifeAssumption == MaxSessionIds \in Nat

VARIABLES
  life,                \* "managers", "signals", "running", "quit" (the loop is left)
                       \* or "gone"
  sigintBytes, sigtermBytes,   \* written by the handlers, not read yet
  lastSessionId,
  displayOf,           \* "none", "greeter", "checking", "accepted", "session" or
                       \* "ending"
  sessionName,         \* m_displayManagerSessionName, and
  reusing,             \* is a running session asked for: it is not new to the bus
  m_sessions,          \* the names of the objects, in order of their creation
  heard,               \* what a client holds that follows the signals
  dangling             \* an object was used after its end

lifeVars == <<life, sigintBytes, sigtermBytes, lastSessionId, displayOf, sessionName, reusing,
              m_sessions, heard, dangling>>
busVars == <<m_sessions, heard, dangling>>
processVars == <<life, sigintBytes, sigtermBytes>>
displayVars == <<lastSessionId, displayOf, sessionName, reusing>>

Unnamed == MaxSessionIds

LifeInit ==
  /\ life = "managers" /\ sigintBytes = 0 /\ sigtermBytes = 0 /\ lastSessionId = 0
  /\ displayOf = [d \in DisplayId |-> "none"] /\ sessionName = [d \in DisplayId |-> Unnamed]
  /\ reusing = [d \in DisplayId |-> FALSE]
  /\ m_sessions = <<>> /\ heard = {} /\ dangling = FALSE

-----------------------------------------------------------------------------
(* Mutant: the counter stands.                                               *)
newSessionIdAgain == lastSessionId' = lastSessionId
newSessionId == lastSessionId' = lastSessionId + 1

AddSession(name) ==
  /\ m_sessions' = Append(m_sessions, name) /\ heard' = heard \cup {name}
  /\ UNCHANGED dangling

(* As the list shrinks while it is walked along, only one object of a name   *)
(* is sure to be found.  The object that keeps the list is the first that    *)
(* the daemon deletes.                                                       *)
RemoveSession(name) ==
  /\ m_sessions' = RemoveFirst(m_sessions, name) /\ heard' = heard \ {name}
  /\ dangling' = (dangling \/ life = "quit")

removeDisplayManagerSession(d) ==
  /\ sessionName' = [sessionName EXCEPT ![d] = Unnamed]
  /\ IF sessionName[d] = Unnamed THEN UNCHANGED busVars ELSE RemoveSession(sessionName[d])

LifeGoes(d, state) == displayOf' = [displayOf EXCEPT ![d] = state]

-----------------------------------------------------------------------------
(* The managers, the signal handler, and only then the seats.                *)
DaemonBegins ==
  /\ life \in {"managers", "signals"}
  /\ life' = IF life = "managers" THEN "signals" ELSE "running"
  /\ UNCHANGED <<sigintBytes, sigtermBytes, displayVars, busVars>>

(* Without a handler a signal ends the process, with one a byte is written.  *)
SignalArrives ==
  /\ life \in {"managers", "signals", "running"}
  /\ sigintBytes + sigtermBytes < MaxSignals
  /\ \/ life = "managers" /\ life' = "gone" /\ UNCHANGED <<sigintBytes, sigtermBytes>>
     \/ life # "managers" /\ sigintBytes' = sigintBytes + 1 /\ UNCHANGED <<life, sigtermBytes>>
     \/ life # "managers" /\ sigtermBytes' = sigtermBytes + 1 /\ UNCHANGED <<life, sigintBytes>>
  /\ UNCHANGED <<displayVars, busVars>>

(* A notifier reads one byte; what is left ends nothing a second time.       *)
HandleSignal ==
  /\ life = "running"
  /\ MayQuitInSession \/ \A d \in DisplayId : sessionName[d] = Unnamed
  /\ \/ sigintBytes > 0 /\ sigintBytes' = sigintBytes - 1 /\ UNCHANGED sigtermBytes
     \/ sigtermBytes > 0 /\ sigtermBytes' = sigtermBytes - 1 /\ UNCHANGED sigintBytes
  /\ life' = "quit"
  /\ UNCHANGED <<displayVars, busVars>>

(* A greeter of a new display takes a name too, which is not shown.          *)
DisplayStarts(d) ==
  /\ life = "running" /\ displayOf[d] = "none" /\ lastSessionId < MaxSessionIds
  /\ LifeGoes(d, "greeter") /\ newSessionId
  /\ UNCHANGED <<processVars, sessionName, reusing, busVars>>

AuthStarts(d) ==
  /\ life = "running" /\ displayOf[d] = "greeter" /\ lastSessionId < MaxSessionIds
  /\ LifeGoes(d, "checking") /\ newSessionId
  /\ sessionName' = [sessionName EXCEPT ![d] = lastSessionId]
  /\ \E reuse \in BOOLEAN : reusing' = [reusing EXCEPT ![d] = reuse]
  /\ UNCHANGED <<processVars, busVars>>

Verdict(d, accepted) ==
  /\ life = "running" /\ displayOf[d] = "checking"
  /\ LifeGoes(d, IF accepted THEN "accepted" ELSE "ending")
  /\ IF accepted /\ ~reusing[d] THEN AddSession(sessionName[d]) ELSE UNCHANGED busVars
  /\ UNCHANGED <<processVars, lastSessionId, sessionName, reusing>>

SessionStarts(d, started) ==
  /\ life = "running" /\ displayOf[d] = "accepted" /\ ~reusing[d]
  /\ IF started THEN LifeGoes(d, "session") /\ UNCHANGED <<sessionName, busVars>>
     ELSE LifeGoes(d, "ending") /\ removeDisplayManagerSession(d)
  /\ UNCHANGED <<processVars, lastSessionId, reusing>>

(* Whenever it ends, its name is taken back; the greeter stays only after a  *)
(* refusal.                                                                  *)
HelperFinishes(d) ==
  /\ life = "running" /\ displayOf[d] \in {"checking", "accepted", "session", "ending"}
  /\ \E left \in {"none"} \cup (IF displayOf[d] = "ending" THEN {"greeter"} ELSE {}) :
       LifeGoes(d, left)
  /\ removeDisplayManagerSession(d)
  /\ UNCHANGED <<processVars, lastSessionId, reusing>>

(* Its seat is removed, or the daemon ends and deletes the seats, after the  *)
(* objects it shows.                                                         *)
DisplayStops(d) ==
  /\ life \in {"running", "quit"} /\ displayOf[d] # "none"
  /\ LifeGoes(d, "none") /\ removeDisplayManagerSession(d)
  /\ UNCHANGED <<processVars, lastSessionId, reusing>>

DaemonEnds ==
  /\ life = "quit" /\ \A d \in DisplayId : displayOf[d] = "none"
  /\ life' = "gone"
  /\ UNCHANGED <<sigintBytes, sigtermBytes, displayVars, busVars>>

LifeNext ==
  \/ DaemonBegins \/ SignalArrives \/ HandleSignal \/ DaemonEnds
  \/ \E d \in DisplayId :
       \/ DisplayStarts(d) \/ AuthStarts(d) \/ HelperFinishes(d) \/ DisplayStops(d)
       \/ \E yes \in BOOLEAN : Verdict(d, yes) \/ SessionStarts(d, yes)

-----------------------------------------------------------------------------
(* A client that follows the signals of the bus holds just the sessions that *)
(* were accepted and whose helper has not ended, on whatever display, and    *)
(* the daemon ends without calling what it has deleted.                      *)
SessionsAreShown ==
  /\ heard = {sessionName[d] : d \in {e \in DisplayId : /\ displayOf[e] \in {"accepted", "session"}
                                                       /\ ~reusing[e]}}
  /\ ToSet(m_sessions) = heard /\ IsInjective(m_sessions)
  /\ ~dangling
=============================================================================
