SPECIFICATION FairSpec
CONSTANTS
 LogindSessions = {s1}
 None = None
 MaxRequests = 2
 ReuseSession = TRUE
 Autologin = FALSE
 RootfulX11 = TRUE
 SessionExits = {"success", "other"}
 MayFailToStart = FALSE
 MayAskToChange = FALSE
 LateResults = FALSE
INVARIANTS RepliesOnlyAsDue LoginHasHelper NeverStranded
PROPERTIES SuccessOnlyIfAccepted RequestConcluded WaitsEnd
CHECK_DEADLOCK FALSE
