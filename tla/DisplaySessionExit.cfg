SPECIFICATION Spec
CONSTANTS
 LogindSessions = {s1}
 None = None
 MaxRequests = 1
 ReuseSession = FALSE
 Autologin = FALSE
 RootfulX11 = TRUE
 SessionExits = {"success", "authError"}
 MayFailToStart = FALSE
 MayAskToChange = FALSE
 LateResults = FALSE
INVARIANTS NeverStranded
CHECK_DEADLOCK FALSE
