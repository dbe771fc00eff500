----------------------------- MODULE LockStyle ------------------------------
(* Which of the two lock programs runs.  gxdm-lock-classic is what everyone  *)
(* starts; it turns itself into gxdm-lock-neo when that is configured.  A    *)
(* locker that runs hears of a change from the daemon, and turns itself into *)
(* the other program once the screen is unlocked: it gives its names on the  *)
(* bus up, and with execv() everything that waits in its event queue.        *)
EXTENDS Naturals, Sequences

CONSTANTS
  NeoInstalled,        \* gxdm-lock-neo is there and executable
  Disturbances         \* what may happen in the middle of a handoff:
                       \* "show" the screen is to be locked,
                       \* "style" the style is changed,
                       \* "exec" the other program cannot be executed

VARIABLES
  gxdmStyle, omgStyle, \* what /etc/gxdm.conf and /etc/gxdm/OMG.conf say
  locker,              \* the lock program of this session
  listening,           \* it owns the names and hears the daemon
  asked,               \* it was not started with --daemon
  visible_,            \* the screen is locked
  handoff_pending_,
  queue                \* its events

lockerVars == <<locker, listening, asked, visible_, handoff_pending_, queue>>
styleVars == <<gxdmStyle, omgStyle, lockerVars>>

Style == {"classic", "modern"}

StyleInit ==
  /\ gxdmStyle = "absent" /\ omgStyle = "absent"
  /\ locker = "none" /\ listening = FALSE /\ asked = FALSE
  /\ visible_ = FALSE /\ handoff_pending_ = FALSE
  /\ queue = <<>>

(* The first file that names a style decides; what is not installed is the   *)
(* classic locker.                                                           *)
Resolve(gxdm, omg) ==
  LET named == IF gxdm \in Style THEN gxdm ELSE IF omg \in Style THEN omg ELSE "modern"
  IN  IF NeoInstalled THEN named ELSE "classic"

ConfiguredStyle == Resolve(gxdmStyle, omgStyle)

MaxQueue == 3                \* bound on the events that wait
HandoffUnderWay == ~listening \/ queue # <<>>
Undisturbed(what) ==
  Len(queue) < MaxQueue /\ (what \in Disturbances \/ locker = "none" \/ ~HandoffUnderWay)

(* An event for the locker; before it listens, or when none runs, it is lost.*)
Posted(events, event) == IF listening THEN Append(events, event) ELSE events

(* The daemon: a style that is not installed is refused, and only a change   *)
(* of what is used is announced.                                             *)
SetLockScreenStyle ==
  /\ Undisturbed("style")
  /\ \E style \in IF NeoInstalled THEN Style ELSE {"classic"} :
       /\ gxdmStyle' = style
       /\ queue' = IF Resolve(style, omgStyle) # ConfiguredStyle
                     THEN Posted(queue, "style") ELSE queue
  /\ UNCHANGED <<omgStyle, locker, listening, asked, visible_, handoff_pending_>>

(* The older switch, which nobody announces, is set up with the system.      *)
OmgWritten ==
  /\ locker = "none" /\ gxdmStyle = "absent"
  /\ omgStyle' \in Style \cup {"absent"}
  /\ UNCHANGED <<gxdmStyle, lockerVars>>

(* main() of a program that was executed: events of the one before are lost, *)
(* and the classic one becomes the modern one if that is configured.         *)
ExecLockScreen(style, show) ==
  /\ locker' = IF style = "classic" THEN ConfiguredStyle ELSE style
  /\ listening' = FALSE /\ asked' = show
  /\ visible_' = FALSE /\ handoff_pending_' = FALSE
  /\ queue' = <<>>

(* gxdm-lock-classic is started by the session, by a shortcut or by hand.  A *)
(* second one asks the first to show itself, and a classic one that finds    *)
(* its names taken gives up.                                                 *)
StartLocker ==
  /\ \E show \in BOOLEAN :
       \/ locker = "none" /\ ExecLockScreen("classic", show)
       \/ /\ locker = ConfiguredStyle /\ show /\ Undisturbed("show")
          /\ queue' = Posted(queue, "show")
          /\ UNCHANGED <<locker, listening, asked, visible_, handoff_pending_>>
  /\ UNCHANGED <<gxdmStyle, omgStyle>>

(* Names, objects and connections are there, and the event loop runs.        *)
Listen ==
  /\ locker # "none" /\ ~listening
  /\ listening' = TRUE
  /\ visible_' = asked
  /\ UNCHANGED <<gxdmStyle, omgStyle, locker, asked, handoff_pending_, queue>>

RequestShow ==
  /\ locker # "none" /\ Undisturbed("show")
  /\ queue' = Posted(queue, "show")
  /\ UNCHANGED <<gxdmStyle, omgStyle, locker, listening, asked, visible_, handoff_pending_>>

(* Mutant: nobody waits for the screen to be unlocked.                       *)
RefreshAtOnce(visible, events) ==
  /\ handoff_pending_' = FALSE
  /\ queue' = IF ConfiguredStyle = locker THEN events ELSE Append(events, "handoff")

(* The request of a handoff is a queued one, behind what waits already.      *)
Refresh(visible, events) ==
  /\ handoff_pending_' = (ConfiguredStyle # locker /\ visible)
  /\ queue' = IF ConfiguredStyle = locker \/ visible THEN events ELSE Append(events, "handoff")

LockScreenStyleChanged ==
  /\ queue # <<>> /\ Head(queue) = "style"
  /\ Refresh(visible_, Tail(queue))
  /\ UNCHANGED <<gxdmStyle, omgStyle, locker, listening, asked, visible_>>

Show ==
  /\ queue # <<>> /\ Head(queue) = "show"
  /\ visible_' = TRUE
  /\ queue' = Tail(queue)
  /\ UNCHANGED <<gxdmStyle, omgStyle, locker, listening, asked, handoff_pending_>>

(* The style may have been changed back while the screen was locked.         *)
Unlocked ==
  /\ visible_ /\ visible_' = FALSE
  /\ "show" \in Disturbances \/ \A i \in DOMAIN queue : queue[i] # "show"
  /\ IF handoff_pending_ THEN Refresh(FALSE, queue) ELSE UNCHANGED <<handoff_pending_, queue>>
  /\ UNCHANGED <<gxdmStyle, omgStyle, locker, listening, asked>>

(* The program that was configured when the handoff was asked for; one that  *)
(* cannot be executed leaves the old one running, with its names taken back. *)
HandoffRequested ==
  /\ queue # <<>> /\ Head(queue) = "handoff"
  /\ \/ ExecLockScreen(IF locker = "classic" THEN "modern" ELSE "classic", FALSE)
     \/ /\ "exec" \in Disturbances
        /\ queue' = Tail(queue)
        /\ UNCHANGED <<locker, listening, asked, visible_, handoff_pending_>>
  /\ UNCHANGED <<gxdmStyle, omgStyle>>

LockerDies ==
  /\ locker # "none"
  /\ locker' = "none" /\ listening' = FALSE /\ asked' = FALSE
  /\ visible_' = FALSE /\ handoff_pending_' = FALSE /\ queue' = <<>>
  /\ UNCHANGED <<gxdmStyle, omgStyle>>

StyleNext ==
  \/ SetLockScreenStyle
  \/ OmgWritten
  \/ StartLocker
  \/ Listen
  \/ RequestShow
  \/ LockScreenStyleChanged
  \/ Show
  \/ Unlocked
  \/ HandoffRequested
  \/ LockerDies

(* The locker that is left alone with an unlocked screen is the configured   *)
(* one, however often the style was changed while the screen was locked; and *)
(* a locked screen never loses the program that holds it to a handoff.       *)
StyleFollows ==
  /\ [](locker # "none" /\ listening /\ queue = <<>> /\ ~visible_ => locker = ConfiguredStyle)
  /\ [][visible_ => locker' \in {locker, "none"}]_styleVars
=============================================================================
