SPECIFICATION Spec
CONSTANTS
 Screens = {o1, o2}
 NoScreen = NoScreen
 User = User
 NoUser = NoUser
 None = None
 Tries = 2
 LockNum = 3
 PowerActions = {suspend}
 MaxRuns = 1
 SessionExits = {}
 MayFailToStart = FALSE
 MayAskToChange = FALSE
 LateResults = TRUE
 MayFinish = FALSE
 MayLoseScreens = TRUE
 SlowQueue = FALSE
 MayHide = FALSE
 MayCrash = FALSE
 LateReaping = FALSE
 ActsOn = TRUE
INVARIANTS PromptReachable
CHECK_DEADLOCK FALSE
SYMMETRY ScreenSymmetry
