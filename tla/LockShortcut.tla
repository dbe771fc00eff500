---------------------------- MODULE LockShortcut ----------------------------
(* LockShortcutManager: the lock screen's hold on Super+L, which KGlobalAccel*)
(* hands out.  Calls to KGlobalAccel block and see its state at once; its    *)
(* signals, and the news that it has come or gone, wait in the queue of      *)
(* events, so what is read there may be old.                                 *)
EXTENDS Naturals, Sequences

CONSTANT
  Surprises            \* "rebind" the user rebinds Super+L while news of
                       \* KGlobalAccel are waiting,
                       \* "again" a signal is not connected a second time

VARIABLES
  kglobalaccel,        \* it runs
  superL,              \* whose action Super+L is bound to
  ours, active,       \* our action is registered there, and may be pressed
  m_enrollmentRequested, m_registered,
  m_componentPath,     \* the path whose signal we know we are connected to
  subscribed,          \* the bus delivers us the signal
  news                 \* events that wait

accelVars == <<kglobalaccel, superL, ours, active>>
managerVars == <<m_enrollmentRequested, m_registered, m_componentPath, subscribed>>
shortcutVars == <<accelVars, managerVars, news>>

MaxNews == 4                 \* bound on the events that wait

ShortcutInit ==
  /\ kglobalaccel = TRUE /\ superL = "nobody" /\ ours = FALSE /\ active = FALSE
  /\ m_enrollmentRequested = FALSE /\ m_registered = FALSE
  /\ m_componentPath = FALSE /\ subscribed = FALSE
  /\ news = <<>>

(* forget: our action is unregistered; otherwise it is only not active.      *)
Unbind(forget) ==
  IF kglobalaccel
    THEN /\ ours' = (ours /\ ~forget) /\ active' = FALSE
         /\ superL' = IF forget /\ superL = "lock" THEN "nobody" ELSE superL
    ELSE UNCHANGED <<ours, active, superL>>

withdraw(forget) ==
  /\ Unbind(forget)
  /\ subscribed' = (subscribed /\ ~m_componentPath)
  /\ m_componentPath' = FALSE
  /\ m_registered' = FALSE

(* QtDBus knows a connection by the service's name: it may say no to one     *)
(* that a restarted KGlobalAccel left over.                                  *)
Refused == "again" \in Surprises /\ subscribed

(* Mutant: the signal of KGlobalAccel's new component is not connected.      *)
enrollUnconnected ==
  IF ~kglobalaccel
    THEN m_registered' = FALSE /\ UNCHANGED <<superL, ours, active, m_componentPath, subscribed>>
  ELSE IF superL = "other" THEN withdraw(TRUE)
  ELSE /\ ours' = TRUE /\ active' = TRUE /\ superL' = "lock"
       /\ m_registered' = TRUE
       /\ UNCHANGED <<m_componentPath, subscribed>>

(* doRegister; setShortcutKeys, which leaves alone what another action is    *)
(* bound to; getComponent, and the connection to its signal.                 *)
enroll ==
  IF ~kglobalaccel
    THEN m_registered' = FALSE /\ UNCHANGED <<superL, ours, active, m_componentPath, subscribed>>
  ELSE IF superL = "other" THEN withdraw(TRUE)
  ELSE IF Refused
    THEN /\ ours' = FALSE /\ active' = FALSE /\ superL' = "nobody"
         /\ m_registered' = FALSE /\ m_componentPath' = FALSE /\ subscribed' = FALSE
  ELSE /\ ours' = TRUE /\ active' = TRUE /\ superL' = "lock"
       /\ m_componentPath' = TRUE /\ subscribed' = TRUE
       /\ m_registered' = TRUE

(* From the start of the locker, and from anyone on the session bus.         *)
tryEnroll ==
  /\ "rebind" \in Surprises \/ \A i \in DOMAIN news : news[i] \notin {"bound", "unbound"}
  /\ \E enabled \in BOOLEAN :
       /\ m_enrollmentRequested' = enabled
       /\ IF enabled THEN enroll ELSE withdraw(TRUE)
  /\ UNCHANGED <<kglobalaccel, news>>

Next1(event) == news # <<>> /\ Head(news) = event /\ news' = Tail(news)

onShortcutsChanged ==
  /\ \E event \in {"bound", "unbound"} :
       /\ Next1(event)
       /\ m_registered' = IF m_enrollmentRequested THEN event = "bound" ELSE m_registered
  /\ UNCHANGED <<accelVars, m_enrollmentRequested, m_componentPath, subscribed>>

(* The new owner is asked from the event loop.                               *)
onKGlobalAccelOwnerChanged ==
  /\ news # <<>> /\ Head(news) \in {"came", "went"}
  /\ m_componentPath' = FALSE /\ m_registered' = FALSE
  /\ news' = IF m_enrollmentRequested /\ Head(news) = "came"
               THEN Append(Tail(news), "enroll") ELSE Tail(news)
  /\ UNCHANGED <<accelVars, m_enrollmentRequested, subscribed>>

EnrollAgain ==
  /\ Next1("enroll")
  /\ IF m_enrollmentRequested THEN enroll
     ELSE UNCHANGED <<superL, ours, active, m_registered, m_componentPath, subscribed>>
  /\ UNCHANGED <<kglobalaccel, m_enrollmentRequested>>

(* The locker quits, and another one is started.                             *)
Restart ==
  /\ IF m_registered THEN Unbind(FALSE) ELSE UNCHANGED <<superL, ours, active>>
  /\ m_enrollmentRequested' = FALSE /\ m_registered' = FALSE
  /\ m_componentPath' = FALSE /\ subscribed' = FALSE
  /\ news' = <<>>
  /\ UNCHANGED kglobalaccel

(* KGlobalAccel: the user binds Super+L to any action it knows of, and it    *)
(* tells us when that changes our keys.  It keeps the bindings on disk, and  *)
(* no action is active after it was started.                                 *)
UserRebinds ==
  /\ kglobalaccel /\ Len(news) < MaxNews
  /\ "rebind" \in Surprises \/ news = <<>>
  /\ \E to \in {"nobody", "other"} \cup (IF ours THEN {"lock"} ELSE {}) :
       /\ superL' = to
       /\ news' = IF ours /\ (superL = "lock") # (to = "lock")
                    THEN Append(news, IF to = "lock" THEN "bound" ELSE "unbound") ELSE news
  /\ UNCHANGED <<kglobalaccel, ours, active, managerVars>>

KGlobalAccelDies ==
  /\ kglobalaccel /\ Len(news) < MaxNews
  /\ kglobalaccel' = FALSE /\ active' = FALSE
  /\ news' = Append(news, "went")
  /\ UNCHANGED <<superL, ours, managerVars>>

KGlobalAccelStarts ==
  /\ ~kglobalaccel /\ Len(news) < MaxNews
  /\ kglobalaccel' = TRUE
  /\ news' = Append(news, "came")
  /\ UNCHANGED <<superL, ours, active, managerVars>>

ShortcutNext ==
  \/ tryEnroll
  \/ onShortcutsChanged
  \/ onKGlobalAccelOwnerChanged
  \/ EnrollAgain
  \/ Restart
  \/ UserRebinds
  \/ KGlobalAccelDies
  \/ KGlobalAccelStarts

(* Once the news are read, LkScrStat tells the truth: Super+L locks the      *)
(* screen exactly when it says so (onGlobalShortcutPressed goes by the same  *)
(* flag), whatever KGlobalAccel, the user and the callers of TryEnrollLkScr  *)
(* did; a locker that was told to let go holds nothing; and one that was not *)
(* never gives up what is bound to it, least of all by enrolling again.      *)
ShortcutHeld ==
  /\ [](news = <<>> /\ kglobalaccel =>
          /\ m_registered = (superL = "lock" /\ active /\ subscribed)
          /\ ~m_enrollmentRequested => ~m_registered)
  /\ [][superL = "lock" /\ superL' # "lock" /\ m_enrollmentRequested' => UserRebinds]_shortcutVars
=============================================================================
