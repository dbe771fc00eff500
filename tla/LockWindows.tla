----------------------------- MODULE LockWindows -----------------------------
(***************************************************************************)
(* The windows of the QML lock screen: one per output, made and destroyed  *)
(* by src/lock-neo/src/main.cc, each running qml/LockScreen.qml, and the   *)
(* unlock that fades them out before the session lock is given up.         *)
(*                                                                         *)
(* LockScreen EXTENDS this module and decides when the screen is shown and *)
(* when a password or a finger is accepted.                                *)
(*                                                                         *)
(* A handler runs to its end in the one thread of the locker.  A slot Qt   *)
(* has queued (posted) runs before the next message of the compositor, the *)
(* next input and the next frame of a fade are handled, but D-Bus calls    *)
(* and, with SlowQueue, timers and changes of the outputs may come first.  *)
(***************************************************************************)
EXTENDS SessionLock, Naturals, FiniteSets

CONSTANTS
  MayFinish,      \* the compositor may refuse the lock, or end it by itself
  MayLoseScreens, \* outputs may come and go
  SlowQueue,      \* a timer or an output may come before a slot queued earlier
  NoScreen

ASSUME LockWindowsAssumption ==
  /\ IsFiniteSet(Screens)
  /\ Screens # {}
  /\ NoScreen \notin Screens
  /\ {MayFinish, MayLoseScreens, SlowQueue} \subseteq BOOLEAN

VARIABLES
  available,          \* the compositor offers ext-session-lock-v1
  isShow,             \* SessionBaseModel::m_isShow
  screens,            \* the outputs connected: each has a window
  primary,            \* the primary output: its window has the prompt
  passwordStage,      \* that window shows the password, not the clock
  fading,             \* windows whose unlock fade is running
  faded,              \* and those where it has finished ("unlocking" still)
  unlockPending,      \* an unlock waits for the fades, or for 1 s to pass
  pendingUnlockFades,
  lock,               \* the session lock
  posted              \* unlocked() or finished() is queued

windowVars == <<available, isShow, screens, primary, passwordStage, fading, faded,
                unlockPending, pendingUnlockFades, lock, posted>>

WindowsTypeOK ==
  /\ available \in BOOLEAN
  /\ isShow \in BOOLEAN
  /\ screens \subseteq Screens
  /\ primary \in screens \cup {NoScreen}
  /\ passwordStage \in BOOLEAN
  /\ fading \subseteq screens
  /\ faded \subseteq screens
  /\ unlockPending \in BOOLEAN
  /\ pendingUnlockFades \in 0..Cardinality(Screens)
  /\ lock \in Lock
  /\ posted \in BOOLEAN

(* --daemon: waiting, hidden.                                              *)
WindowsInit ==
  /\ available \in BOOLEAN
  /\ isShow = FALSE
  /\ screens \in IF MayLoseScreens THEN SUBSET Screens \ {{}} ELSE {Screens}
  /\ primary \in screens
  /\ passwordStage = FALSE
  /\ fading = {}
  /\ faded = {}
  /\ unlockPending = FALSE
  /\ pendingUnlockFades = 0
  /\ lock = Unlocked
  /\ posted = FALSE

Unlocking(s) == s \in fading \cup faded

-----------------------------------------------------------------------------
(* What the handlers of LockScreen do to the windows.                      *)

(* setIsShow(true): windows that become visible ask for the session lock.  *)
WindowsShown ==
  /\ isShow' = TRUE
  /\ lock' = IF available /\ ~isShow THEN CreateSurfaces(lock, screens) ELSE lock

(* Variant: a window that is hidden remembers its fade.                    *)
WindowsHiddenFaded(l, running, done) ==
  /\ isShow' = FALSE
  /\ lock' = DestroySurfaces(l, screens)
  /\ passwordStage' = (passwordStage /\ ~isShow)
  /\ fading' = running
  /\ faded' = done

(* setIsShow(false), and what each window does when it is hidden; "l" is   *)
(* the lock, "running" and "done" are the fades before that.  The pending  *)
(* unlock is left as it is.                                                *)
WindowsHidden(l, running, done) ==
  /\ isShow' = FALSE
  /\ lock' = DestroySurfaces(l, screens)
  /\ passwordStage' = (passwordStage /\ ~isShow)
  /\ fading' = IF isShow THEN {} ELSE running
  /\ faded' = IF isShow THEN {} ELSE done

(* enterPasswordStage(), which only the window with the prompt does.       *)
MayEnterPasswordStage == primary # NoScreen /\ ~Unlocking(primary)

EnterPasswordStage == passwordStage' = (passwordStage \/ MayEnterPasswordStage)

(* Variant: the unlock stays pending.                                      *)
FinishUnlockAgain(running, done) ==
  /\ UNCHANGED unlockPending
  /\ pendingUnlockFades' = 0
  /\ IF available
       THEN /\ lock' = Unlock(lock)
            /\ posted' = (posted \/ EmitsUnlocked(lock))
            /\ fading' = running
            /\ faded' = done
            /\ UNCHANGED <<isShow, passwordStage>>
       ELSE /\ WindowsHidden(lock, running, done)
            /\ UNCHANGED posted

(* finishUnlock() while an unlock is pending.  Only unlocked() or, without *)
(* a session lock, hiding ends it.                                         *)
FinishUnlock(running, done) ==
  /\ unlockPending' = FALSE
  /\ pendingUnlockFades' = 0
  /\ IF available
       THEN /\ lock' = Unlock(lock)
            /\ posted' = (posted \/ EmitsUnlocked(lock))
            /\ fading' = running
            /\ faded' = done
            /\ UNCHANGED <<isShow, passwordStage>>
       ELSE /\ WindowsHidden(lock, running, done)
            /\ UNCHANGED posted

(* LockBackend::Authenticated: the fades start, one for each window.       *)
Authenticated ==
  /\ UNCHANGED <<available, screens, primary>>
  /\ IF screens = {} /\ ~unlockPending
       THEN FinishUnlock({}, {})
       ELSE /\ unlockPending' = TRUE
            /\ pendingUnlockFades' = IF unlockPending THEN pendingUnlockFades
                                     ELSE Cardinality(screens)
            /\ fading' = screens
            /\ faded' = {}
            /\ UNCHANGED <<isShow, passwordStage, lock, posted>>

(* handleFinished(), with the slot of finished() that is not queued.       *)
SessionLockFinished ==
  /\ ~posted
  /\ lock.events # <<>> /\ Head(lock.events) = "finished"
  /\ WindowsHidden(HandleFinished(lock), fading, faded)
  /\ posted' = TRUE
  /\ UNCHANGED <<available, screens, primary, unlockPending, pendingUnlockFades>>

-----------------------------------------------------------------------------
(* The steps of the windows.                                               *)

(* A fade ends, or 1 s has passed since the first of them began.           *)
FadeFinished(s) ==
  /\ ~posted
  /\ s \in fading
  /\ IF unlockPending /\ pendingUnlockFades <= 1
       THEN FinishUnlock(fading \ {s}, faded \cup {s})
       ELSE /\ fading' = fading \ {s}
            /\ faded' = faded \cup {s}
            /\ pendingUnlockFades' = IF unlockPending THEN pendingUnlockFades - 1
                                     ELSE pendingUnlockFades
            /\ UNCHANGED <<isShow, passwordStage, unlockPending, lock, posted>>
  /\ UNCHANGED <<available, screens, primary>>

UnlockFadeTimesOut ==
  /\ posted => SlowQueue
  /\ unlockPending
  /\ FinishUnlock(fading, faded)
  /\ UNCHANGED <<available, screens, primary>>

BindSurface(s) ==
  /\ lock.surface[s] = "binding"
  /\ posted => SlowQueue
  /\ lock' = BindLockSurface(lock, s)
  /\ UNCHANGED <<available, isShow, screens, primary, passwordStage, fading, faded,
                 unlockPending, pendingUnlockFades, posted>>

SessionLocked ==
  /\ ~posted
  /\ lock.events # <<>> /\ Head(lock.events) = "locked"
  /\ lock' = HandleLocked(lock)
  /\ posted' = lock.unlockPending
  /\ UNCHANGED <<available, isShow, screens, primary, passwordStage, fading, faded,
                 unlockPending, pendingUnlockFades>>

(* The queued slot of unlocked() and finished(): hides, and replaces every *)
(* window, for the role of a surface is for life.                          *)
WindowsRecreated ==
  /\ posted
  /\ posted' = FALSE
  /\ isShow' = FALSE
  /\ passwordStage' = FALSE
  /\ fading' = {}
  /\ faded' = {}
  /\ lock' = DestroySurfaces(lock, screens)
  /\ UNCHANGED <<available, screens, primary, unlockPending, pendingUnlockFades>>

(* Variant: the window of a new output is not shown.                       *)
ScreenAddedHidden(s) ==
  /\ MayLoseScreens
  /\ s \in Screens \ screens
  /\ screens' = screens \cup {s}
  /\ primary' \in {s} \cup (IF primary = NoScreen THEN {} ELSE {primary})
  /\ passwordStage' = (passwordStage /\ primary' = primary)
  /\ UNCHANGED <<available, isShow, fading, faded, unlockPending,
                 pendingUnlockFades, lock, posted>>

(* A new window is shown if the screen is; it does not fade with the rest. *)
(* If its output becomes the primary one, the prompt moves there.          *)
ScreenAdded(s) ==
  /\ MayLoseScreens
  /\ s \in Screens \ screens
  /\ screens' = screens \cup {s}
  /\ primary' \in {s} \cup (IF primary = NoScreen THEN {} ELSE {primary})
  /\ passwordStage' = (passwordStage /\ primary' = primary)
  /\ lock' = IF available /\ isShow THEN CreateSurface(lock, s) ELSE lock
  /\ UNCHANGED <<available, isShow, fading, faded, unlockPending,
                 pendingUnlockFades, posted>>

ScreenRemoved(s) ==
  /\ MayLoseScreens
  /\ s \in screens
  /\ screens' = screens \ {s}
  /\ primary' \in IF primary # s THEN {primary}
                  ELSE IF screens' = {} THEN {NoScreen} ELSE screens'
  /\ passwordStage' = (passwordStage /\ primary' = primary)
  /\ fading' = fading \ {s}
  /\ faded' = faded \ {s}
  /\ lock' = DestroySurfaces(lock, {s})
  /\ UNCHANGED <<available, isShow, unlockPending, pendingUnlockFades, posted>>

PrimaryScreenChanged(s) ==
  /\ MayLoseScreens
  /\ s \in screens \ {primary}
  /\ primary' = s
  /\ passwordStage' = FALSE
  /\ UNCHANGED <<available, isShow, screens, fading, faded, unlockPending,
                 pendingUnlockFades, lock, posted>>

CompositorLocks ==
  /\ lock.session = "locking"
  /\ lock' = Locks(lock)
  /\ UNCHANGED <<available, isShow, screens, primary, passwordStage, fading, faded,
                 unlockPending, pendingUnlockFades, posted>>

CompositorFinishes ==
  /\ MayFinish
  /\ lock.requested /\ ~Finished(lock)
  /\ lock' = Finishes(lock)
  /\ UNCHANGED <<available, isShow, screens, primary, passwordStage, fading, faded,
                 unlockPending, pendingUnlockFades, posted>>

OutputsChange ==
  /\ posted => SlowQueue
  /\ \E s \in Screens : ScreenAdded(s) \/ ScreenRemoved(s) \/ PrimaryScreenChanged(s)
=============================================================================
