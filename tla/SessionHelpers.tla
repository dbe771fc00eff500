--------------------------- MODULE SessionHelpers ---------------------------
(* The programs that bring up a greeter's display server inside its session: *)
(* gxdm-helper-start-wayland starts a compositor, waits for its socket and   *)
(* then starts the greeter; gxdm-helper-start-x11user starts X, reads the    *)
(* number of its display and runs the setup script beside the greeter.       *)
(*                                                                           *)
(* The event loop runs from phase "loop" on.  A call of exit() or quit()     *)
(* before that is lost, and so is the result of XOrgUserHelper::start().     *)

CONSTANT Unnoticed     \* failures that may happen and that nobody is told of:
                       \* "exec" the greeter or X cannot be executed,
                       \* "watch" the runtime directory cannot be watched,
                       \* "quiet" X ends with exit code 0

VARIABLES
  program,             \* which of the two runs
  phase,               \* where its main() is
  server,              \* the compositor or the X server
  greeterProcess,
  m_status,            \* WaylandSocketWatcher::m_status
  m_timer,             \* its 15 s are running
  wantsSocket,         \* WaylandHelper is connected to the watcher
  exitWith             \* the exit code

watcherVars == <<m_status, m_timer, wantsSocket>>
starterVars == <<program, phase, server, greeterProcess, watcherVars, exitWith>>

StarterInit ==
  /\ program = "wayland" /\ phase = "main"
  /\ server = "none" /\ greeterProcess = "none"
  /\ m_status = "Stopped" /\ m_timer = FALSE /\ wantsSocket = FALSE
  /\ exitWith = "none"

Quit(code) == phase' = "quitting" /\ exitWith' = code

Main ==
  /\ phase = "main"
  /\ phase' = "server"
  /\ program' \in {"wayland", "x11"}
  /\ UNCHANGED <<server, greeterProcess, watcherVars, exitWith>>

(* The greeter is started in the background: no error of it is waited for.   *)
GreeterStarts ==
  \/ greeterProcess' = "running"
  \/ "exec" \in Unnoticed /\ greeterProcess' = "none"

-----------------------------------------------------------------------------
(* Wayland.  The timer starts even when the directory cannot be watched.     *)
WatcherStart ==
  /\ m_timer' = TRUE
  /\ \/ UNCHANGED m_status
     \/ "watch" \in Unnoticed /\ m_status' = "Failed"

WatcherStop == m_timer' = FALSE /\ m_status' = "Stopped"

startCompositor ==
  /\ phase = "server" /\ program = "wayland"
  /\ WatcherStart
  /\ \/ /\ server' = "running" /\ phase' = "greeter"
        /\ UNCHANGED exitWith
     \/ /\ phase' = "gone" /\ exitWith' = "DISPLAYSERVER_ERROR"
        /\ UNCHANGED server
  /\ UNCHANGED <<program, greeterProcess, wantsSocket>>

(* A watcher that failed already emits failed(): main() would exit, but its  *)
(* event loop does not run yet.                                              *)
startGreeter ==
  /\ phase = "greeter"
  /\ phase' = "loop"
  /\ wantsSocket' = (m_status # "Failed")
  /\ UNCHANGED <<program, server, greeterProcess, m_status, m_timer, exitWith>>

(* A socket of this user's is in the directory - the compositor's, or one    *)
(* that an earlier one left behind.                                          *)
directoryChanged ==
  /\ phase = "loop" /\ wantsSocket /\ m_timer
  /\ WatcherStop
  /\ GreeterStarts
  /\ UNCHANGED <<program, phase, server, wantsSocket, exitWith>>

(* Mutant: nobody listens to the watcher's failed().                         *)
WatcherTimeOutUnheard ==
  /\ phase = "loop" /\ m_timer
  /\ m_timer' = FALSE /\ m_status' = "Failed"
  /\ UNCHANGED <<program, phase, server, greeterProcess, wantsSocket, exitWith>>

WatcherTimeOut ==
  /\ phase = "loop" /\ m_timer
  /\ m_timer' = FALSE /\ m_status' = "Failed"
  /\ IF wantsSocket THEN Quit("SESSION_ERROR") ELSE UNCHANGED <<phase, exitWith>>
  /\ UNCHANGED <<program, server, greeterProcess, wantsSocket>>

-----------------------------------------------------------------------------
(* X11.  A server that cannot be started, or gives no display number, ends   *)
(* start() early, which main() does not look at.                             *)
startServer ==
  /\ phase = "server" /\ program = "x11"
  /\ \/ /\ "exec" \in Unnoticed /\ phase' = "loop"
        /\ UNCHANGED <<server, greeterProcess>>
     \/ /\ server' = "dead" /\ phase' = "loop"
        /\ UNCHANGED greeterProcess
     \/ /\ server' = "running" /\ phase' \in {"scripts", "loop"}
        /\ GreeterStarts
  /\ UNCHANGED <<program, watcherVars, exitWith>>

(* A script that had to be killed reports its crash once the loop runs, and  *)
(* a crash of any of the processes quits.                                    *)
startDisplayCommand ==
  /\ phase = "scripts"
  /\ \/ phase' = "loop" /\ UNCHANGED exitWith
     \/ Quit("SUCCESS")
  /\ UNCHANGED <<program, server, greeterProcess, watcherVars>>

-----------------------------------------------------------------------------
(* What happens to the processes, and what is done when they end.            *)
ServerDies ==
  /\ server = "running" /\ phase # "gone"
  /\ server' = "dead"
  /\ UNCHANGED <<program, phase, greeterProcess, watcherVars, exitWith>>

GreeterDies ==
  /\ greeterProcess = "running" /\ phase # "gone"
  /\ greeterProcess' \in {"exited", "crashed"}
  /\ UNCHANGED <<program, phase, server, watcherVars, exitWith>>

GreeterLosesServer == server # "running" /\ GreeterDies

ServerFinished ==
  /\ phase = "loop" /\ server = "dead"
  /\ server' = "reaped"
  /\ \/ program = "wayland" /\ Quit("SESSION_ERROR")
     \/ program = "x11" /\ Quit("SUCCESS")
     \/ program = "x11" /\ "quiet" \in Unnoticed /\ UNCHANGED <<phase, exitWith>>
  /\ UNCHANGED <<program, greeterProcess, watcherVars>>

GreeterFinished ==
  /\ phase = "loop" /\ greeterProcess \in {"exited", "crashed"}
  /\ greeterProcess' = "reaped"
  /\ Quit(IF program = "wayland" /\ greeterProcess = "crashed" THEN "SESSION_ERROR" ELSE "SUCCESS")
  /\ UNCHANGED <<program, server, watcherVars>>

SigTermReceived ==
  /\ phase = "loop"
  /\ Quit(IF program = "wayland" THEN "SUCCESS" ELSE "terminated")
  /\ UNCHANGED <<program, server, greeterProcess, watcherVars>>

(* aboutToQuit: the greeter goes first, then the compositor with its whole   *)
(* process group, or the X server and its stop script.                       *)
AboutToQuit ==
  /\ phase = "quitting"
  /\ phase' = "gone"
  /\ greeterProcess' = "reaped" /\ server' = "reaped"
  /\ WatcherStop
  /\ UNCHANGED <<program, wantsSocket, exitWith>>

StarterNext ==
  \/ Main
  \/ startCompositor
  \/ startGreeter
  \/ directoryChanged
  \/ WatcherTimeOut
  \/ startServer
  \/ startDisplayCommand
  \/ ServerDies
  \/ GreeterDies
  \/ ServerFinished
  \/ GreeterFinished
  \/ SigTermReceived
  \/ AboutToQuit

(* The programs run, timers fire, the kernel reports the end of a child, and *)
(* a greeter without its server ends.                                        *)
StarterFairness ==
  WF_starterVars(\/ startGreeter \/ WatcherTimeOut \/ startDisplayCommand \/ GreeterLosesServer
                 \/ ServerFinished \/ GreeterFinished \/ AboutToQuit)

(* A helper never lingers without a greeter: gxdm-helper, and with it the    *)
(* daemon, waits for its end before anything else is tried on the seat.      *)
GreeterAwaited == phase \in {"scripts", "loop", "quitting"} /\ greeterProcess # "running"
StarterEnds == GreeterAwaited ~> ~GreeterAwaited
=============================================================================
