SPECIFICATION FairSpec
CONSTANTS
 Screens = {o1}
 NoScreen = NoScreen
 User = User
 NoUser = NoUser
 None = None
 Tries = 1
 LockNum = 2
 PowerActions = {suspend}
 MaxRuns = 1
 SessionExits = {}
 MayFailToStart = TRUE
 MayAskToChange = TRUE
 LateResults = TRUE
 MayFinish = TRUE
 MayLoseScreens = TRUE
 SlowQueue = TRUE
 MayHide = TRUE
 MayCrash = TRUE
 LateReaping = TRUE
 ActsOn = TRUE
INVARIANTS BackendInStep
PROPERTIES LockoutEnds
CHECK_DEADLOCK FALSE
