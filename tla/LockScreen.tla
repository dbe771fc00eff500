----------------------------- MODULE LockScreen -----------------------------
(***************************************************************************)
(* The QML lock screen gxdm-lock-neo: LockWorker                           *)
(* (src/greeter-classic/lock/lockworker.cpp) with its password Auth and    *)
(* FingerprintUnlock, the lockout of User, LockBackend and SessionBaseModel*)
(* between it and the view, and the windows of LockWindows.  It is the     *)
(* second owner of an Auth object, beside the daemon's Display.            *)
(*                                                                         *)
(* Each run of FingerprintUnlock has an Auth of its own whose signals are  *)
(* ignored once it is replaced: what is left of it is that a run may end   *)
(* in any of its ways while the session listens.                           *)
(*                                                                         *)
(* Abstracted: the password, messages, the other users of the list, who    *)
(* are handed to the greeter.  The session's own user is assumed to be in  *)
(* the list.                                                               *)
(***************************************************************************)
EXTENDS Auth, LockWindows

Reader == INSTANCE FingerprintSession

CONSTANTS
  User, NoUser,
  Tries,             \* m_tryNum: rejected passwords before a lockout
  LockNum,           \* m_lockNum: a lockout lasts LockNum - 1 minutes
  PowerActions,      \* that the power menu offers
  None,              \* RequireNormal
  MaxRuns,           \* bound: helpers started
  MayHide,           \* SetActive(false) of org.freedesktop.ScreenSaver
  MayCrash,          \* gxdm-helper may die without a verdict
  ActsOn,            \* the user may go on during an unlock: submit a password
                     \* or touch the reader once more
  LateReaping        \* the user may submit again before the refused helper
                     \* is reaped

ASSUME LockScreenAssumption ==
  /\ User # NoUser
  /\ Tries \in Nat \ {0}
  /\ LockNum \in Nat \ {0, 1}
  /\ None \notin PowerActions
  /\ MaxRuns \in Nat
  /\ {MayHide, MayCrash, ActsOn, LateReaping} \subseteq BOOLEAN

VARIABLES
  m_authenticating,      \* LockWorker: a password is being checked
  authenticating,        \* LockBackend::authenticating_, what the view sees
  tryNum, lockNum, isLock,       \* User
  lockedOut, lockMinutes,        \* LockBackend's copies of the last two
  powerAction,           \* SessionBaseModel: what an accepted user asked for
  pendingPowerAction,    \* LockBackend's copy
  finger,                \* FingerprintUnlock
  admitted               \* history: accepted since the screen was last shown

workerVars == <<m_authenticating, authenticating, tryNum, lockNum, isLock,
                lockedOut, lockMinutes, powerAction, pendingPowerAction, finger>>

vars == <<authVars, windowVars, workerVars, admitted>>

LockTypeOK ==
  /\ AuthTypeOK
  /\ WindowsTypeOK
  /\ {m_authenticating, authenticating, isLock, lockedOut, admitted} \subseteq BOOLEAN
  /\ tryNum \in 0..Tries
  /\ lockNum \in 1..LockNum
  /\ lockMinutes \in 1..LockNum
  /\ {powerAction, pendingPowerAction} \subseteq PowerActions \cup {None}
  /\ finger \in Reader!Session({User, NoUser})

Init ==
  /\ AuthInit
  /\ WindowsInit
  /\ m_authenticating = FALSE /\ authenticating = FALSE
  /\ tryNum = Tries /\ lockNum = LockNum /\ isLock = FALSE
  /\ lockedOut = FALSE /\ lockMinutes = LockNum
  /\ powerAction = None /\ pendingPowerAction = None
  /\ finger = Reader!Idle(NoUser)
  /\ admitted = FALSE

-----------------------------------------------------------------------------
(* Parts of the handlers.                                                  *)

checkVars   == <<m_authenticating, authenticating>>
lockoutVars == <<tryNum, lockNum, isLock, lockedOut, lockMinutes>>
powerVars   == <<powerAction, pendingPowerAction>>
stageVars   == <<available, isShow, screens, primary, fading, faded,
                 unlockPending, pendingUnlockFades, lock, posted>>

Started(f) == Reader!Start(f, User).session
Stopped(f) == Reader!Stop(f).session

(* enterPasswordStage() re-arms the reader when it leaves the clock.       *)
RearmedBy(entered, f) == IF entered /\ ~passwordStage THEN Started(f) ELSE f

(* A message of a helper that was stopped is read before anything else     *)
(* comes in, well before a fade is over.                                   *)
StaleUnread == inbox # <<>> /\ helper = "none"

UpdateLockState ==
  /\ lockedOut' = isLock'
  /\ lockMinutes' = lockNum'

(* Variant: the lockout's end is forgotten.                                *)
LockTimeOutForever ==
  IF lockNum = 1 THEN UNCHANGED <<isLock, tryNum, lockNum>>
                 ELSE lockNum' = lockNum - 1

(* onLockTimeOut(), as startLock() calls it and then every minute.         *)
LockTimeOut ==
  IF lockNum = 1
    THEN isLock' = FALSE /\ tryNum' = Tries /\ lockNum' = LockNum
    ELSE lockNum' = lockNum - 1

(* isLockForNum() and startLock().                                         *)
CountRejection ==
  /\ IF isLock THEN UNCHANGED <<tryNum, isLock, lockNum>>
     ELSE IF tryNum = 1
       THEN tryNum' = 0 /\ isLock' = TRUE /\ lockNum' = lockNum - 1
       ELSE tryNum' = tryNum - 1 /\ UNCHANGED <<isLock, lockNum>>
  /\ UpdateLockState

(* Variant: the view is left busy when a power action was asked for.       *)
FinishUnlockBusy(f) ==
  /\ tryNum' = Tries
  /\ UNCHANGED <<lockNum, isLock, lockedOut, lockMinutes, powerVars>>
  /\ m_authenticating' = FALSE
  /\ IF powerAction = None
       THEN /\ authenticating' = FALSE
            /\ Authenticated
            /\ finger' = Stopped(f)
            /\ admitted' = TRUE
       ELSE /\ UNCHANGED authenticating
            /\ EnterPasswordStage
            /\ UNCHANGED stageVars
            /\ finger' = RearmedBy(MayEnterPasswordStage, Stopped(f))
            /\ UNCHANGED admitted

(* finishUnlock() with what the view makes of it: a power action is handed *)
(* to the daemon and the screen stays locked; otherwise the unlock starts. *)
(* The finger the reader may still be listening for is "f".                *)
FinishUnlockOf(f) ==
  /\ tryNum' = Tries
  /\ UNCHANGED <<lockNum, isLock, lockedOut, lockMinutes, powerVars>>
  /\ m_authenticating' = FALSE
  /\ authenticating' = FALSE
  /\ IF powerAction = None
       THEN /\ Authenticated
            /\ finger' = Stopped(f)
            /\ admitted' = TRUE
       ELSE /\ EnterPasswordStage
            /\ UNCHANGED stageVars
            /\ finger' = RearmedBy(MayEnterPasswordStage, Stopped(f))
            /\ UNCHANGED admitted

(* Variant: the view is not told that the check is over.                   *)
ShowFailureBusy(f) ==
  /\ UNCHANGED authenticating
  /\ EnterPasswordStage
  /\ UNCHANGED stageVars
  /\ finger' = RearmedBy(MayEnterPasswordStage, f)

(* authFinished(false) reaches the view: the card opens and says so.       *)
ShowFailure(f) ==
  /\ authenticating' = FALSE
  /\ EnterPasswordStage
  /\ UNCHANGED stageVars
  /\ finger' = RearmedBy(MayEnterPasswordStage, f)

-----------------------------------------------------------------------------
(* What others ask of the locker on D-Bus.                                 *)

(* Show(), Lock(), SetActive(true) and Super+L: visibleChanged(true) is    *)
(* emitted even when nothing changes.                                      *)
Show ==
  /\ WindowsShown
  /\ finger' = Started(finger)
  /\ admitted' = (admitted /\ isShow)
  /\ UNCHANGED <<authVars, available, screens, primary, passwordStage, fading, faded,
                 unlockPending, pendingUnlockFades, posted, checkVars,
                 lockoutVars, powerVars>>

(* With the user list, which opens the card of the prompt's window.        *)
ShowUserList ==
  /\ WindowsShown
  /\ EnterPasswordStage
  /\ finger' = IF isShow THEN RearmedBy(MayEnterPasswordStage, finger)
               ELSE Started(finger)
  /\ admitted' = (admitted /\ isShow)
  /\ UNCHANGED <<authVars, available, screens, primary, fading, faded,
                 unlockPending, pendingUnlockFades, posted, checkVars,
                 lockoutVars, powerVars>>

Hide ==
  /\ MayHide
  /\ WindowsHidden(lock, fading, faded)
  /\ finger' = Stopped(finger)
  /\ UNCHANGED <<authVars, available, screens, primary, unlockPending,
                 pendingUnlockFades, posted, checkVars, lockoutVars, powerVars,
                 admitted>>

-----------------------------------------------------------------------------
(* What the user does in the window that has the prompt.                   *)

UnlockUnderWay ==
  Unlocking(primary) \/ unlockPending \/ lock.unlockPending \/ posted

Prompting == ~posted /\ ~StaleUnread /\ isShow /\ primary # NoScreen

EnterPassword ==
  /\ Prompting
  /\ ~passwordStage /\ MayEnterPasswordStage
  /\ passwordStage' = TRUE
  /\ finger' = Started(finger)
  /\ UNCHANGED <<authVars, stageVars, checkVars, lockoutVars, powerVars, admitted>>

LeavePassword ==
  /\ Prompting
  /\ passwordStage /\ ~Unlocking(primary) /\ ~authenticating
  /\ passwordStage' = FALSE
  /\ powerAction' = IF pendingPowerAction = None THEN powerAction ELSE None
  /\ pendingPowerAction' = None
  /\ finger' = Started(finger)
  /\ UNCHANGED <<authVars, stageVars, checkVars, lockoutVars, admitted>>

RequestPower(action) ==
  /\ Prompting
  /\ ~authenticating
  /\ powerAction' = action
  /\ pendingPowerAction' = action
  /\ UNCHANGED <<authVars, windowVars, checkVars, lockoutVars, finger, admitted>>

(* QProcess does not start over a process that was not reaped yet.         *)
Submit ==
  /\ Prompting
  /\ passwordStage /\ ~authenticating /\ ~m_authenticating /\ ~lockedOut
  /\ UnlockUnderWay => ActsOn
  /\ run < MaxRuns
  /\ m_authenticating' = TRUE
  /\ authenticating' = TRUE
  /\ IF IsActive THEN LateReaping /\ UNCHANGED authVars ELSE AuthStart(FALSE, FALSE)
  /\ UNCHANGED <<windowVars, lockoutVars, powerVars, finger, admitted>>

-----------------------------------------------------------------------------
(* What the helper of the password tells LockWorker.                       *)

(* Two prompts at most are answered: those for a new password are not.     *)
PasswordAsked ==
  /\ \/ ReceiveRequest("REQUEST", TRUE)
     \/ ReceiveRequest("CHANGE_REQUEST", FALSE)
  /\ UNCHANGED <<windowVars, workerVars, admitted>>

PasswordAccepted ==
  /\ ReceiveAccepted(FALSE)
  /\ FinishUnlockOf(finger)

PasswordRejected ==
  /\ ReceiveRejected
  /\ m_authenticating' = FALSE
  /\ ShowFailure(finger)
  /\ CountRejection
  /\ UNCHANGED <<powerVars, admitted>>

(* Nothing is connected to finished().                                     *)
PasswordHelperReaped ==
  /\ HelperReaped
  /\ UNCHANGED <<windowVars, workerVars, admitted>>

-----------------------------------------------------------------------------
(* FingerprintUnlock, and what its run reports.                            *)

ProbeFinished(found) ==
  /\ finger.state = "probing"
  /\ finger' = Reader!ProbeFinished(finger, User, found).session
  /\ UNCHANGED <<authVars, windowVars, checkVars, lockoutVars, powerVars, admitted>>

(* A finger matches: a password being checked at the same time is stopped. *)
FingerprintMatched ==
  /\ finger.state = "listening"
  /\ UnlockUnderWay => ActsOn
  /\ IF m_authenticating THEN AuthStop ELSE UNCHANGED authVars
  /\ FinishUnlockOf(Reader!RunFinished(finger, TRUE, FALSE).session)

(* A scan does not match.                                                  *)
FingerprintRejected ==
  /\ finger.state = "listening"
  /\ LET after == Reader!RunRejected(finger).session
     IN IF m_authenticating
          THEN finger' = after /\ UNCHANGED <<windowVars, authenticating>>
          ELSE ShowFailure(after)
  /\ UNCHANGED <<authVars, m_authenticating, lockoutVars, powerVars, admitted>>

(* The run ends without a match, or asks for input.                        *)
FingerprintRunEnds ==
  /\ finger.state = "listening"
  /\ \/ \E quick \in BOOLEAN :
          finger' = Reader!RunFinished(finger, FALSE, quick).session
     \/ finger' = Reader!RunUnusable(finger).session
  /\ UNCHANGED <<authVars, windowVars, checkVars, lockoutVars, powerVars, admitted>>

-----------------------------------------------------------------------------
(* The lockout's timer, the windows, the helper.                           *)

LockMinutePasses ==
  /\ isLock
  /\ LockTimeOut
  /\ lockNum # 1 => UNCHANGED <<isLock, tryNum>>
  /\ UpdateLockState
  /\ UNCHANGED <<authVars, windowVars, checkVars, powerVars, finger, admitted>>

(* Variant: it does not.                                                   *)
WindowStepListening(A) ==
  /\ A
  /\ UNCHANGED finger
  /\ UNCHANGED <<authVars, checkVars, lockoutVars, powerVars, admitted>>

(* Hiding the screen stops the reader.                                     *)
WindowStep(A) ==
  /\ A
  /\ finger' = IF isShow /\ ~isShow' THEN Stopped(finger) ELSE finger
  /\ UNCHANGED <<authVars, checkVars, lockoutVars, powerVars, admitted>>

FadeStep ==
  /\ ~StaleUnread
  /\ UnlockFadeTimesOut \/ \E s \in Screens : FadeFinished(s)

LockerRuns ==
  /\ ~StaleUnread
  /\ SessionLocked \/ SessionLockFinished \/ WindowsRecreated

HelperStep(A) ==
  /\ A
  /\ UNCHANGED <<windowVars, workerVars, admitted>>

HelperDies == MayCrash /\ (HelperCrashes \/ HelperFailsToStart)

PamDecides == PamAccepts \/ PamRejects

-----------------------------------------------------------------------------
Requested == Show \/ ShowUserList \/ Hide

UserActs ==
  \/ EnterPassword \/ LeavePassword \/ Submit
  \/ \E action \in PowerActions : RequestPower(action)

PasswordReports ==
  \/ PasswordAsked \/ PasswordAccepted \/ PasswordRejected \/ PasswordHelperReaped

FingerReports ==
  \/ \E found \in BOOLEAN : ProbeFinished(found)
  \/ FingerprintMatched \/ FingerprintRejected \/ FingerprintRunEnds

SurfacesAppear == \E s \in Screens : BindSurface(s)

Next ==
  \/ Requested
  \/ UserActs
  \/ PasswordReports
  \/ FingerReports
  \/ LockMinutePasses
  \/ WindowStep(FadeStep \/ LockerRuns \/ SurfacesAppear \/ (~StaleUnread /\ OutputsChange))
  \/ WindowStep(CompositorLocks \/ CompositorFinishes)
  \/ HelperStep(HelperProgress \/ HelperAsks \/ PamDecides \/ HelperDies)

Spec == Init /\ [][Next]_vars

(* The locker handles what reaches it, its timers fire, the compositor     *)
(* answers, and PAM decides at last.  Nobody has to come to the screen.    *)
FairSpec ==
  /\ Spec
  /\ WF_vars(PasswordReports)
  /\ WF_vars(LockMinutePasses)
  /\ WF_vars(WindowStep(FadeStep))
  /\ WF_vars(WindowStep(LockerRuns))
  /\ WF_vars(WindowStep(CompositorLocks))
  /\ WF_vars(HelperStep(HelperProgress))
  /\ SF_vars(HelperStep(PamDecides))
=============================================================================
