SPECIFICATION Spec
CONSTANTS
 LogindSessions = {s1, s2}
 None = None
 MaxRequests = 2
 ReuseSession = TRUE
 Autologin = FALSE
 RootfulX11 = FALSE
 SessionExits = {"success", "authError"}
 MayFailToStart = TRUE
 MayAskToChange = TRUE
 LateResults = TRUE
SYMMETRY SessionSymmetry
INVARIANTS TypeOK LoginInv CancelledNeverRuns
PROPERTIES ImplementsLoginService OneHelperAtATime
CHECK_DEADLOCK FALSE
