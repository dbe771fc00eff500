------------------------------ MODULE InputBox ------------------------------
(* The box a password is typed into, on the lock screen and in the greeter:  *)
(* which of its parts is shown, what it says, and whether it seems busy,     *)
(* while checks end, fingers match, menus cover it and a user who failed too *)
(* often is kept waiting.                                                    *)
EXTENDS Naturals

CONSTANTS
  Tries,               \* wrong passwords until a user has to wait
  Minutes,             \* the wait is one less
  Mishaps              \* what takes place of "again" (an action is chosen after an
                       \* action), "finger" (one matches during the wait) and
                       \* "elsewhere" (a tip is withdrawn while it is covered)

ASSUME InputBoxAssumption == Tries \in Nat \ {0} /\ Minutes \in Nat \ {0, 1}

VARIABLES
  lockType,            \* the lock screen, or else the greeter
  isNoPasswdGrp,       \* the user may log in without one
  box,                 \* what there is to see, see FreshBox
  pendingAction,       \* what follows when the user is admitted
  submitted,           \* m_authenticating
  fingerListening,     \* the lock screen to the reader, the greeter to the daemon
  handedOver,          \* it is still busy as the machine is to go down
  isLock, tryNum, lockNum

boxVars == <<lockType, isNoPasswdGrp, box, pendingAction, submitted, fingerListening, handedOver,
             isLock, tryNum, lockNum>>
kindVars == <<lockType, isNoPasswdGrp>>
waitVars == <<isLock, tryNum, lockNum>>

NormalAction == "normal"
ModeOf == [shutdown |-> "shutdown", restart |-> "restart"]   \* the actions with a mode
PowerChoices == {"shutdown", "restart", "suspend"}

(* place: "box", "menu" (something covers it) or "off"; alertBeforeHide: the *)
(* message is to be shown as soon as the password field is.                  *)
FreshBox(place) ==
  [place |-> place, parts |-> {}, enabled |-> TRUE, loading |-> FALSE, tip |-> FALSE,
   message |-> "", alertBeforeHide |-> FALSE, mode |-> NormalAction]

(* The parts refreshInputState chooses.                                      *)
PartsNow(locked) ==
  {p \in {"password", "locked", "login"} :
     \/ p = "password" /\ ~(isNoPasswdGrp /\ ~lockType) /\ ~locked
     \/ p = "locked" /\ locked
     \/ p = "login" /\ isNoPasswdGrp /\ ~lockType}

BoxShown(b) == b.place = "box" /\ "password" \in b.parts

hideLoadSlider(b) == [b EXCEPT !.loading = FALSE]
hideAlert(b) == [b EXCEPT !.tip = FALSE]

(* Mutant: a tip is shown over a box that seems busy.                        *)
showAlertOver(b, text) ==
  IF BoxShown(b) THEN [b EXCEPT !.message = text, !.tip = TRUE]
  ELSE [b EXCEPT !.message = text, !.alertBeforeHide = TRUE]
showAlert(b, text) ==
  LET still == [hideLoadSlider(b) EXCEPT !.message = text] IN
  IF BoxShown(b) THEN [still EXCEPT !.tip = TRUE] ELSE [still EXCEPT !.alertBeforeHide = TRUE]

(* A hidden field remembers that it had a tip, and shows it again.           *)
hideEvent(b) == IF BoxShown(b) THEN [hideAlert(b) EXCEPT !.alertBeforeHide = b.tip] ELSE b
showEvent(b) == IF BoxShown(b) /\ b.alertBeforeHide THEN showAlert(b, b.message) ELSE b

Hidden(b, place) == [hideEvent(b) EXCEPT !.place = place]
restoreCenterContent(b) ==
  showEvent([hideLoadSlider(hideEvent(b)) EXCEPT !.place = "box", !.parts = PartsNow(isLock)])

normalMode(b) == hideAlert([b EXCEPT !.mode = NormalAction])
resetAllState(b) == hideLoadSlider(normalMode(b))
ForgetsNothing(b) == "elsewhere" \in Mishaps \/ BoxShown(b) \/ ~b.alertBeforeHide

disablePassword(b, disable) ==
  IF disable
  THEN [hideLoadSlider(hideEvent(b)) EXCEPT !.enabled = FALSE, !.parts = {"locked"}]
  ELSE showEvent([hideEvent(b) EXCEPT !.enabled = TRUE, !.parts = {"password"}])

(* In the greeter the daemon is asked at once for what is chosen.            *)
BoxInit ==
  /\ lockType \in BOOLEAN /\ isNoPasswdGrp \in BOOLEAN
  /\ box = FreshBox(IF lockType THEN "off" ELSE "menu")
  /\ pendingAction = NormalAction /\ submitted = FALSE /\ handedOver = FALSE
  /\ fingerListening = ~lockType
  /\ isLock = FALSE /\ tryNum = Tries /\ lockNum = Minutes

BoxSees(b) == box' = b /\ handedOver' = (handedOver /\ b.loading)

-----------------------------------------------------------------------------
ScreenLocks ==
  /\ box.place = "off" /\ BoxSees([box EXCEPT !.place = "menu"]) /\ fingerListening' = TRUE
  /\ UNCHANGED <<kindVars, pendingAction, submitted, waitVars>>

(* The avatar is clicked, or the menu left with Escape.                      *)
restoreBoxMode ==
  /\ box.place = "menu" /\ BoxSees(restoreCenterContent(box))
  /\ UNCHANGED <<kindVars, pendingAction, submitted, fingerListening, waitVars>>

MenuOpens ==
  /\ box.place = "box" /\ BoxSees(Hidden(box, "menu"))
  /\ UNCHANGED <<kindVars, pendingAction, submitted, fingerListening, waitVars>>

(* shutdownMode and restartMode; for sleep the mode is left as it was.       *)
setPowerAction(a) ==
  /\ lockType /\ box.place = "menu"
  /\ pendingAction = NormalAction \/ "again" \in Mishaps
  /\ pendingAction' = a
  /\ LET chosen == IF a = pendingAction \/ a \notin DOMAIN ModeOf THEN box
                   ELSE showAlert([box EXCEPT !.mode = ModeOf[a]], a)
     IN BoxSees(restoreCenterContent(chosen))
  /\ UNCHANGED <<kindVars, submitted, fingerListening, waitVars>>

(* Escape in the box, or a click beside what covers it.                      *)
abortOperation ==
  /\ box.place \in {"box", "menu"}
  /\ LET restored == IF box.place = "menu" THEN restoreCenterContent(box) ELSE box IN
     /\ pendingAction = NormalAction \/ ForgetsNothing(restored)
     /\ BoxSees(IF pendingAction = NormalAction THEN restored ELSE normalMode(restored))
  /\ pendingAction' = NormalAction
  /\ UNCHANGED <<kindVars, submitted, fingerListening, waitVars>>

ClickInBox ==
  /\ box.place = "box" /\ BoxSees(restoreCenterContent(box))
  /\ UNCHANGED <<kindVars, pendingAction, submitted, fingerListening, waitVars>>

Edits ==
  /\ BoxShown(box) /\ box.enabled /\ BoxSees(hideAlert(box))
  /\ UNCHANGED <<kindVars, pendingAction, submitted, fingerListening, waitVars>>

(* A worker that is checking a password ignores the next; a greeter that has *)
(* lost the daemon says so.                                                  *)
MayAuth == lockType \/ fingerListening

inputDone ==
  /\ BoxShown(box) /\ box.enabled
  /\ submitted' = (submitted \/ MayAuth)
  /\ BoxSees([hideAlert(box) EXCEPT !.loading = submitted \/ MayAuth])
  /\ UNCHANGED <<kindVars, pendingAction, fingerListening, waitVars>>

loginClicked ==
  /\ box.place = "box" /\ "login" \in box.parts
  /\ submitted' = (submitted \/ MayAuth)
  /\ UNCHANGED <<kindVars, box, pendingAction, fingerListening, handedOver, waitVars>>

-----------------------------------------------------------------------------
Admitted ==
  /\ submitted' = FALSE /\ fingerListening' = FALSE
  /\ IF pendingAction = NormalAction
     THEN /\ ForgetsNothing(box)
          /\ box' = Hidden(resetAllState(box), "off") /\ handedOver' = FALSE
     ELSE UNCHANGED box /\ handedOver' = box.loading
  /\ tryNum' = Tries
  /\ UNCHANGED <<kindVars, pendingAction, isLock, lockNum>>

onLockTimeOut ==
  IF lockNum = 1 THEN tryNum' = Tries /\ lockNum' = Minutes /\ isLock' = FALSE
  ELSE tryNum' = tryNum /\ lockNum' = lockNum - 1 /\ isLock' = TRUE

(* Wrong Password; after the last try the wait begins.  A wait in which a    *)
(* finger matched is still counted.                                          *)
WrongPassword ==
  /\ submitted /\ lockType
  /\ submitted' = FALSE
  /\ LET said == showAlert(box, "wrong") IN
     IF isLock \/ tryNum > 1
     THEN /\ tryNum' = (IF isLock THEN tryNum ELSE tryNum - 1) /\ UNCHANGED <<isLock, lockNum>>
          /\ BoxSees(said)
     ELSE /\ tryNum' = 0 /\ isLock' = TRUE /\ lockNum' = lockNum - 1
          /\ BoxSees(disablePassword(said, TRUE))
  /\ UNCHANGED <<kindVars, pendingAction, fingerListening>>

RightPassword == submitted /\ lockType /\ Admitted

LockTimerFires ==
  /\ isLock /\ onLockTimeOut /\ BoxSees(disablePassword(box, tryNum' = 0))
  /\ UNCHANGED <<kindVars, pendingAction, submitted, fingerListening>>

FingerMatches ==
  /\ lockType /\ fingerListening
  /\ ~isLock \/ "finger" \in Mishaps
  /\ Admitted

FingerRejected ==
  /\ lockType /\ fingerListening /\ ~submitted
  /\ BoxSees(showAlert(box, "finger"))
  /\ UNCHANGED <<kindVars, pendingAction, submitted, fingerListening, waitVars>>

(* LoginSucceeded, after which it ends with its daemon's display server,     *)
(* LoginFailed, or a message of PAM's, which ends no check.                  *)
GreeterHears(what) ==
  /\ submitted /\ ~lockType /\ fingerListening
  /\ submitted' = (what = "message")
  /\ BoxSees(CASE what = "succeeded" -> Hidden(resetAllState(box), "gone")
            [] what = "failed" -> showAlert(box, "wrong")
            [] OTHER -> hideLoadSlider(box))
  /\ UNCHANGED <<kindVars, pendingAction, fingerListening, waitVars>>

onSocketLost ==
  /\ ~lockType /\ fingerListening /\ fingerListening' = FALSE
  /\ submitted' = FALSE
  /\ BoxSees(IF submitted THEN hideLoadSlider(box) ELSE box)
  /\ UNCHANGED <<kindVars, pendingAction, waitVars>>

BoxNext ==
  \/ ScreenLocks \/ restoreBoxMode \/ MenuOpens \/ (\E a \in PowerChoices : setPowerAction(a))
  \/ abortOperation \/ ClickInBox \/ Edits \/ inputDone \/ loginClicked
  \/ onSocketLost \/ WrongPassword \/ RightPassword \/ LockTimerFires
  \/ FingerMatches \/ FingerRejected
  \/ \E what \in {"succeeded", "failed", "message"} : GreeterHears(what)

-----------------------------------------------------------------------------
(* Whoever looks at the box sees how things are: the field, the wait or the  *)
(* button, whichever it is for this user now; no field that takes a password *)
(* during the wait, and none that takes none after it; it is busy only while *)
(* a password is checked or the machine goes down; it offers just what will  *)
(* follow; and a screen that locks again has forgotten the last time.        *)
BoxTellsTruth ==
  /\ box.place = "box" =>
       /\ box.parts = PartsNow(isLock)
       /\ box.enabled = ~isLock
       /\ box.mode = (IF pendingAction \in DOMAIN ModeOf THEN pendingAction ELSE NormalAction)
  /\ box.loading => submitted \/ handedOver
  /\ box.tip => BoxShown(box) /\ (box.message \in DOMAIN ModeOf => box.message = pendingAction)
  /\ box.place = "off" => ~box.loading /\ ~box.alertBeforeHide /\ box.mode = NormalAction
=============================================================================
