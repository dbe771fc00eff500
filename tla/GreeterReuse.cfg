SPECIFICATION GreeterSpec
CONSTANTS
 LogindSessions = {s1}
 None = None
 MaxRequests = 2
 ReuseSession = TRUE
 Autologin = FALSE
 RootfulX11 = TRUE
 SessionExits = {"success"}
 MayFailToStart = FALSE
 MayAskToChange = FALSE
 LateResults = FALSE
 Users = {u1}
 Sessions = {x, y}
 KnownSessions = {x, y}
 MaxInFlight = 2
 PromptProbes = TRUE
 PromptReaping = TRUE
SYMMETRY GreeterSymmetry
INVARIANTS GreeterInStep
 
CHECK_DEADLOCK FALSE
