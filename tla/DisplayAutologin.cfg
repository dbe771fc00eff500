SPECIFICATION FairSpec
CONSTANTS
 LogindSessions = {s1, s2}
 None = None
 MaxRequests = 1
 ReuseSession = TRUE
 Autologin = TRUE
 RootfulX11 = FALSE
 SessionExits = {"success", "other"}
 MayFailToStart = FALSE
 MayAskToChange = FALSE
 LateResults = FALSE
PROPERTIES AutologinEnds
CHECK_DEADLOCK FALSE
