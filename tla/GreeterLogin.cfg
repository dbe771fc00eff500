SPECIFICATION GreeterFairSpec
CONSTANTS
 LogindSessions = {s1}
 None = None
 MaxRequests = 1
 ReuseSession = FALSE
 Autologin = FALSE
 RootfulX11 = TRUE
 SessionExits = {"success"}
 MayFailToStart = FALSE
 MayAskToChange = FALSE
 LateResults = FALSE
 Users = {u1, u2}
 Sessions = {x, unknown}
 KnownSessions = {x}
 MaxInFlight = 2
 PromptProbes = TRUE
 PromptReaping = TRUE
PROPERTIES PasswordAnswered ProbingEnds
CHECK_DEADLOCK FALSE
