------------------------------ MODULE LockView ------------------------------
(* What the Neo lock screen tells of the users, the power actions and the    *)
(* buttons: LockBackend and UserListModel keep copies of what SessionBase-   *)
(* Model and the users hold, and the view reads them again only when told.   *)
EXTENDS Naturals, Sequences, FiniteSets, SequencesExt

CONSTANTS
  LockUser,            \* the accounts; the session is one of theirs
  SessionUser,
  LockTries, LockMinutes,
  Hideouts             \* what may hide the session's own user: "prompt", users
                       \* are not to be listed; "unlisted", an account without
                       \* a number of the range of people

ASSUME LockViewAssumption ==
  /\ SessionUser \in LockUser /\ IsFiniteSet(LockUser)
  /\ LockTries \in Nat \ {0} /\ LockMinutes \in Nat \ {0, 1}

NoUser == "nobody"
UiConfig ==
  [showSwitchUserButton : {"always", "ondemand", "never"}, sleep : BOOLEAN, hibernate : BOOLEAN,
   swaps : {<<>>, <<"big">>, <<"big", "small">>},   \* the swap partitions
   loginPromptAvatar : IF "prompt" \in Hideouts THEN BOOLEAN ELSE {TRUE}]

VARIABLES
  uiConfig,            \* the settings the worker reads once
  userList, lockedUser,
  lockAction,         \* of the SessionBaseModel: "" is RequireNormal
  retries,             \* of the session's user: m_isLock, m_lockNum and m_tryNum
  view,                \* the copies of LockBackend, as the view last read them
  rows,                \* the rows of the UserListModel, as the view last read them
  gone                 \* "" or what became of the lock: "unlocked", a power action,
                       \* "greeter" (another user is to log in)

viewVars == <<uiConfig, userList, lockedUser, lockAction, retries, view, rows, gone>>

-----------------------------------------------------------------------------
(* The worker, made before anything is shown.                                *)

(* The own user becomes the current one.  Nobody ever counts as logged in:   *)
(* who is was once told by a daemon that is there no more.                   *)
onUserAdded(names) == IF SessionUser \in ToSet(names) THEN SessionUser ELSE NoUser

initData(config, names) == IF config.loginPromptAvatar THEN names ELSE <<>>

(* Mutant: the last partition of the file decides.                           *)
checkSwapToTheEnd(config) ==
  config.hibernate /\ config.swaps # <<>> /\ Last(config.swaps) = "big"

(* One partition the image fits into.                                        *)
checkSwap(config) == config.hibernate /\ \E i \in DOMAIN config.swaps : config.swaps[i] = "big"

(* Without the users nothing is asked of the machine either.                 *)
canSleep == uiConfig.loginPromptAvatar /\ uiConfig.sleep
hasSwap == uiConfig.loginPromptAvatar /\ checkSwap(uiConfig)
hasVirtualKB == uiConfig.loginPromptAvatar

-----------------------------------------------------------------------------
(* What the backend works out, from the state s of the retries.              *)

updateAvailableActions ==
  {"shutdown", "reboot"} \cup {a \in {"suspend"} : canSleep} \cup {a \in {"hibernate"} : hasSwap}

updateUserSwitchAvailability ==
  \/ uiConfig.showSwitchUserButton = "always"
  \/ uiConfig.showSwitchUserButton = "ondemand" /\ Len(userList) > 1

LockStateOf(s) == [lockedOut |-> lockedUser # NoUser /\ s.isLock,
                   lockMinutes |-> IF lockedUser = NoUser THEN 0 ELSE s.lockNum]

LockRowOf(u, s) == [user |-> u, isCurrent |-> u = lockedUser,
                locked |-> u = SessionUser /\ s.isLock,
                lockMinutes |-> IF u = SessionUser THEN s.lockNum ELSE LockMinutes]

(* The rows, each connected to its user.                                     *)
refresh(s) == [i \in DOMAIN userList |-> LockRowOf(userList[i], s)]

LockViewInit ==
  /\ uiConfig \in UiConfig
  /\ \E listed \in {ls \in SUBSET LockUser : "unlisted" \in Hideouts \/ SessionUser \in ls} :
       userList = initData(uiConfig, SetToSeq(listed))
  /\ lockedUser = onUserAdded(userList)
  /\ lockAction = "" /\ gone = ""
  /\ retries = [isLock |-> FALSE, lockNum |-> LockMinutes, tryNum |-> LockTries]
  /\ view = [lock |-> LockStateOf(retries), authenticating |-> FALSE, pending |-> "",
             actions |-> updateAvailableActions, switch |-> updateUserSwitchAvailability,
             keyboard |-> hasVirtualKB]
  /\ rows = refresh(retries)

-----------------------------------------------------------------------------
(* The connections.                                                          *)

(* Mutant: only the lock state of the card is renewed.                       *)
notifyUserUnconnected(s) == rows

(* The row of the user who changed is read again.                            *)
notifyUserChanged(s) ==
  [i \in DOMAIN rows |-> IF userList[i] = SessionUser THEN LockRowOf(userList[i], s) ELSE rows[i]]

(* lockChanged is emitted after every change of the retries but those of the *)
(* counter.                                                                  *)
lockChanged(s, copies) ==
  /\ retries' = s
  /\ view' = [copies EXCEPT !.lock = LockStateOf(s)]
  /\ rows' = notifyUserChanged(s)

setLockAction(action, copies) ==
  lockAction' = action /\ view' = [copies EXCEPT !.pending = action]

-----------------------------------------------------------------------------
Authenticate ==
  /\ gone = "" /\ lockedUser # NoUser /\ ~view.authenticating /\ ~view.lock.lockedOut
  /\ view' = [view EXCEPT !.authenticating = TRUE]
  /\ UNCHANGED <<uiConfig, userList, lockedUser, lockAction, retries, rows, gone>>

(* The copy of the lock state is renewed before the attempt is counted.      *)
Rejected ==
  LET failed  == [view EXCEPT !.authenticating = FALSE, !.lock = LockStateOf(retries)]
      counted == [retries EXCEPT !.tryNum = @ - 1]
  IN  /\ view.authenticating
      /\ IF counted.tryNum = 0
         THEN lockChanged([counted EXCEPT !.isLock = TRUE, !.lockNum = @ - 1], failed)
         ELSE retries' = counted /\ view' = failed /\ UNCHANGED rows
      /\ UNCHANGED <<uiConfig, userList, lockedUser, lockAction, gone>>

(* What was asked for is done instead of the unlock, and still asked for     *)
(* when the machine is back.                                                 *)
onPowerActionRequested(copies) == [copies EXCEPT !.authenticating = FALSE, !.pending = lockAction]

Accepted ==
  /\ view.authenticating
  /\ retries' = [retries EXCEPT !.tryNum = LockTries]
  /\ view' = IF lockAction # "" THEN onPowerActionRequested(view)
             ELSE [view EXCEPT !.authenticating = FALSE, !.lock = LockStateOf(retries)]
  /\ gone' = IF lockAction # "" THEN lockAction ELSE "unlocked"
  /\ UNCHANGED <<uiConfig, userList, lockedUser, lockAction, rows>>

(* The next lock, the resume, or the machine that did not do what was asked. *)
ComesBack ==
  /\ gone # "" /\ gone' = ""
  /\ UNCHANGED <<uiConfig, userList, lockedUser, lockAction, retries, view, rows>>

LockMinute ==
  /\ retries.isLock
  /\ lockChanged(IF retries.lockNum = 1
                 THEN [isLock |-> FALSE, lockNum |-> LockMinutes, tryNum |-> LockTries]
                 ELSE [retries EXCEPT !.lockNum = @ - 1], view)
  /\ UNCHANGED <<uiConfig, userList, lockedUser, lockAction, gone>>

RequestPower(action) ==
  /\ gone = "" /\ ~view.authenticating /\ action \in view.actions \cup {""}
  /\ setLockAction(action, view)
  /\ UNCHANGED <<uiConfig, userList, lockedUser, retries, rows, gone>>

(* The greeter is asked for, without a name: nobody counts as logged in.     *)
switchToUser == gone' = "greeter"

(* The session's own user is only selected, which changes nothing.           *)
SwitchUser(i) ==
  /\ gone = "" /\ view.switch /\ userList[i] # SessionUser
  /\ switchToUser
  /\ UNCHANGED <<uiConfig, userList, lockedUser, lockAction, retries, view, rows>>

LockViewNext ==
  \/ Authenticate \/ Rejected \/ Accepted \/ ComesBack \/ LockMinute
  \/ \E action \in {"", "shutdown", "reboot", "suspend", "hibernate"} : RequestPower(action)
  \/ \E i \in DOMAIN userList : SwitchUser(i)

-----------------------------------------------------------------------------
(* The lock screen tells the truth: every row is the user's as it is now,    *)
(* the user is told to wait exactly while they must, no password can set off *)
(* a power action that is not shown as asked for, only what the machine can  *)
(* do is offered, a switch only where there is somebody to switch to, and    *)
(* the session's own user is the one to unlock it (lockbackend.cpp,          *)
(* userlistmodel.cpp, lockworker.cpp).                                       *)
LockTellsTruth ==
  /\ rows = [i \in DOMAIN userList |-> LockRowOf(userList[i], retries)]
  /\ view.lock = LockStateOf(retries)
  /\ view.pending = lockAction
  /\ gone \in {"shutdown", "reboot", "suspend", "hibernate"} =>
       gone = view.pending /\ gone \in view.actions
  /\ "hibernate" \in view.actions <=>
       uiConfig.hibernate /\ \E i \in DOMAIN uiConfig.swaps : uiConfig.swaps[i] = "big"
  /\ view.switch /\ uiConfig.showSwitchUserButton = "ondemand" => ToSet(userList) # {SessionUser}
  /\ lockedUser = SessionUser
=============================================================================
