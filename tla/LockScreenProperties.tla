------------------------- MODULE LockScreenProperties -------------------------
(* What the lock screen must and must not do.                               *)
EXTENDS LockScreen, TLC

(* The view's picture of the worker is never behind it: it is busy exactly  *)
(* while a password is being checked, refuses passwords exactly during a    *)
(* lockout, shows its minutes and the power action an accepted user will    *)
(* get - after any of the ways a check, a lockout and a request can end.    *)
BackendInStep ==
  /\ authenticating = m_authenticating
  /\ lockedOut = isLock
  /\ lockMinutes = lockNum
  /\ pendingPowerAction = powerAction

(* A hidden locker, waiting for the next lock, leaves the reader to others. *)
ReaderOnlyWhileShown == Reader!Busy(finger) => isShow

(* While the screen is shown and no unlock is under way, the window with    *)
(* the prompt is not left in the fade of an unlock, where it would neither  *)
(* open the password card nor be seen.                                      *)
PromptReachable ==
  isShow /\ primary # NoScreen /\ Unlocking(primary)
    => unlockPending \/ posted \/ lock.unlockPending \/ lock.events # <<>>

(* The compositor is asked to lock the session only by a locker that covers *)
(* every output: each has a window that is shown and that has a surface of  *)
(* the lock, or will have one.  After an unlock the windows are replaced.   *)
LockIsCovered ==
  lock.requested =>
    posted \/ (isShow /\ \A s \in screens : lock.surface[s] # "none")

(* The locker gives up the session - unlocks it, or hides where there is no *)
(* session lock - only if a password or a finger was accepted, for no power *)
(* action, since the screen was last shown.                                 *)
Gives == \/ lock.locked /\ lock.session = "locked" /\ lock'.session = "unlocked" /\ lock'.events = <<>>
         \/ ~available /\ isShow /\ ~isShow'
UnlocksOnlyAdmitted == [][Gives => admitted']_vars

(* An accepted user gets the session, however many windows are there to     *)
(* fade, come or go, and whether or not the compositor has locked yet.      *)
AdmittedUnlocks == unlockPending ~> ~isShow

(* A password being checked is answered.                                    *)
CheckEnds == authenticating ~> ~authenticating

(* A lockout ends by itself.                                                *)
LockoutEnds == isLock ~> ~isLock

(* The outputs are interchangeable.                                         *)
ScreenSymmetry == Permutations(Screens)
=============================================================================
