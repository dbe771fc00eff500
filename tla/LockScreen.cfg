SPECIFICATION FairSpec
CONSTANTS
 Screens = {o1, o2}
 NoScreen = NoScreen
 User = User
 NoUser = NoUser
 None = None
 Tries = 1
 LockNum = 2
 PowerActions = {}
 MaxRuns = 1
 SessionExits = {}
 MayFailToStart = FALSE
 MayAskToChange = FALSE
 LateResults = TRUE
 MayFinish = FALSE
 MayLoseScreens = TRUE
 SlowQueue = FALSE
 MayHide = FALSE
 MayCrash = FALSE
 LateReaping = FALSE
 ActsOn = FALSE
PROPERTIES AdmittedUnlocks CheckEnds
CHECK_DEADLOCK FALSE
