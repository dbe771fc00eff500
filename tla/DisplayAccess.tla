---------------------------- MODULE DisplayAccess ---------------------------
(* How the clients of an X server get in: which number and which cookie each *)
(* is started with, what is written into whose file and when, while the      *)
(* servers of several seats start, fail, die and take over each other's      *)
(* numbers.                                                                  *)
EXTENDS Integers, FiniteSets

CONSTANTS
  XServer,             \* the displays of type x11, one for each seat
  MaxCookies,          \* bounds the cookies that are made
  Hastes               \* what may happen: "reads", a client of a server of the
                       \* user's reads its file before it is written; "kind", the
                       \* kind of session is changed after a refused password

ASSUME DisplayAccessAssumption ==
  MaxCookies \in Nat /\ IsFiniteSet(XServer) /\ Cardinality(XServer) <= MaxCookies

None == -1
Guest == {"greeter", "session", "script"}
CookieEntry(number, cookie) == [number |-> number, cookie |-> cookie]
NoEntry == CookieEntry(None, 0)
Away == [at |-> "away", number |-> None, cookie |-> 0, file |-> NoEntry, fits |-> TRUE]

VARIABLES
  xprocess,            \* "none", "idle" (made and never run) or "running"
  xstarted,            \* m_started
  m_display,           \* m_display
  cookies,             \* what each XAuth holds,
  authFile,            \* and its file
  listensOn,           \* the number the server itself listens on
  guests,              \* for each server its greeter and its session
  loginEnv,            \* DISPLAY in the environment of the display's Auth
  brought,             \* the server a session or a greeter brings along: its helper
  made                 \* the cookies so far

accessVars == <<xprocess, xstarted, m_display, cookies, authFile, listensOn, guests, loginEnv,
                brought, made>>
xserverVars == <<xprocess, xstarted, m_display, cookies, authFile, listensOn>>

Numbers == 0 .. MaxCookies

AccessInit ==
  LET order == CHOOSE f \in [XServer -> 1 .. Cardinality(XServer)] :
                 \A s, t \in XServer : s # t => f[s] # f[t]
  IN  /\ xprocess = [s \in XServer |-> "none"] /\ xstarted = [s \in XServer |-> FALSE]
      /\ m_display = [s \in XServer |-> None] /\ listensOn = [s \in XServer |-> None]
      /\ cookies = order
      /\ authFile = [s \in XServer |-> NoEntry]
      /\ guests = [s \in XServer |-> [g \in Guest |-> Away]]
      /\ loginEnv = [s \in XServer |-> None]
      /\ brought = [at |-> "off", number |-> None, cookie |-> 0, file |-> NoEntry,
                     guest |-> "away", read |-> NoEntry]
      /\ made = Cardinality(XServer)

-----------------------------------------------------------------------------
(* The files.                                                                *)

(* One entry, for one display: what was there before is gone in any case.    *)
writeCookieToFile(number, cookie, written) ==
  IF written THEN CookieEntry(number, cookie) ELSE NoEntry

(* A server reads its file again when that has changed; with an empty one it *)
(* keeps nobody out.                                                         *)
GetsIn(number, mine, servers) ==
  servers = NoEntry \/ (mine.number = number /\ mine.cookie = servers.cookie)

(* X takes the first number that is free.                                    *)
FreeNumber ==
  LET taken == {listensOn[s] : s \in XServer} \cup {brought.number}
  IN  CHOOSE n \in Numbers : n \notin taken /\ \A m \in Numbers : m < n => m \in taken

-----------------------------------------------------------------------------
(* The servers the daemon runs.                                              *)

(* Mutant: the file keeps the entry it had before the number was known.      *)
ServerFileAsBefore(s, number) == writeCookieToFile(0, cookies[s], TRUE)

(* Written for :0 before the start, and again for any other number.         *)
ServerFile(s, number) == writeCookieToFile(number, cookies[s], TRUE)

(* The scripts of the display run before its greeter, with the server's file.*)
setupDisplay(number, file) == [Away EXCEPT !.at = "inside", !.number = number, !.file = file]

(* With a process left from an attempt that got nowhere there is no other.  *)
startX(s, fate) ==
  /\ ~xstarted[s] /\ xprocess[s] = "none"
  /\ fate = "full" => FreeNumber # 0
  /\ xprocess' = [xprocess EXCEPT ![s] = CASE fate = "up" -> "running"
                                         [] fate \in {"unwritable", "missing"} -> "idle"
                                         [] OTHER -> "none"]
  /\ xstarted' = [xstarted EXCEPT ![s] = fate = "up"]
  /\ m_display' = [m_display EXCEPT ![s] = IF fate \in {"up", "full"} THEN FreeNumber ELSE 0]
  /\ listensOn' = [listensOn EXCEPT ![s] = IF fate = "up" THEN FreeNumber ELSE @]
  /\ authFile' = [authFile EXCEPT ![s] =
       CASE fate = "up" -> ServerFile(s, FreeNumber)
         [] fate \in {"unwritable", "full"} -> writeCookieToFile(0, cookies[s], FALSE)
         [] OTHER -> writeCookieToFile(0, cookies[s], TRUE)]
  /\ guests' = [guests EXCEPT ![s]["script"] =
       IF fate = "up" THEN setupDisplay(FreeNumber, ServerFile(s, FreeNumber)) ELSE @]
  /\ UNCHANGED <<cookies, loginEnv, brought, made>>

ServerStarts(s) ==
  \E fate \in {"up", "unwritable", "missing", "silent", "full"} : startX(s, fate)

(* The server ends without being asked to.                                   *)
XServerDies(s) ==
  /\ listensOn[s] # None
  /\ listensOn' = [listensOn EXCEPT ![s] = None]
  /\ UNCHANGED <<xprocess, xstarted, m_display, cookies, authFile, guests, loginEnv, brought,
                 made>>

(* The display goes with its server, greeter and session before it; the next *)
(* has an XAuth of its own.                                                  *)
Renewed(s) ==
  /\ made < MaxCookies
  /\ xprocess' = [xprocess EXCEPT ![s] = "none"] /\ xstarted' = [xstarted EXCEPT ![s] = FALSE]
  /\ listensOn' = [listensOn EXCEPT ![s] = None] /\ m_display' = [m_display EXCEPT ![s] = None]
  /\ cookies' = [cookies EXCEPT ![s] = made + 1] /\ made' = made + 1
  /\ authFile' = [authFile EXCEPT ![s] = NoEntry]
  /\ guests' = [guests EXCEPT ![s] = [g \in Guest |-> Away]]
  /\ loginEnv' = [loginEnv EXCEPT ![s] = None]
  /\ UNCHANGED brought

finishedX(s) == xprocess[s] = "running" /\ listensOn[s] = None /\ Renewed(s)
stopX(s) == xprocess[s] = "running" /\ listensOn[s] # None /\ Renewed(s)

-----------------------------------------------------------------------------
(* Their clients.                                                            *)

(* Which program shows the greeter, and which one a theme is written for: a  *)
(* greeter of gxde's own shows none and fits all.                            *)
GreeterExecutable(installed, version) ==
  IF "classic" \in installed THEN "classic" ELSE IF version = 5 THEN "qt5" ELSE "qt6"

(* Mutant: the program for the theme is run, whether it is there or not.     *)
greeterProgramUnchecked(installed, version) ==
  [theme |-> version, name |-> GreeterExecutable(installed, version)]

greeterProgram(installed, version) ==
  IF GreeterExecutable(installed, version) \in installed
  THEN [theme |-> version, name |-> GreeterExecutable(installed, version)]
  ELSE [theme |-> 6, name |-> GreeterExecutable(installed, 6)]

Fits(installed, program) ==
  /\ program.name \in installed
  /\ program.name = "classic" \/ program.name = IF program.theme = 5 THEN "qt5" ELSE "qt6"

(* The number and the cookie are those of this moment.                       *)
startGreeterClient(s, installed, version) ==
  /\ xstarted[s] /\ guests[s]["greeter"] = Away /\ guests[s]["session"] = Away
  /\ guests' = [guests EXCEPT ![s]["greeter"] =
       [Away EXCEPT !.at = "starting", !.number = m_display[s], !.cookie = cookies[s],
                    !.fits = Fits(installed, greeterProgram(installed, version))]]
  /\ UNCHANGED <<xserverVars, loginEnv, brought, made>>

(* Without a theme, or with one that is not there, the embedded one is shown.*)
findGreeterTheme(configured) == IF configured = "five" THEN 5 ELSE 6

GreeterClientStarts(s) ==
  \E installed \in {{"qt6"}, {"qt5", "qt6"}, {"classic", "qt6"}},
     configured \in {"missing", "five"} :
    startGreeterClient(s, installed, findGreeterTheme(configured))

(* What a login puts into the environment of the display's Auth is added to  *)
(* what earlier tries put there.                                             *)
insertEnvironment(s, number) == [loginEnv EXCEPT ![s] = number]

(* A login is tried.                                                         *)
startAuth(s, kind) ==
  /\ xstarted[s] /\ guests[s]["greeter"].at = "inside" /\ guests[s]["session"] = Away
  /\ kind = "x11" \/ loginEnv[s] = None \/ "kind" \in Hastes
  /\ loginEnv' = IF kind = "x11" THEN insertEnvironment(s, m_display[s]) ELSE loginEnv
  /\ guests' = [guests EXCEPT ![s]["session"] =
       [Away EXCEPT !.at = IF kind = "x11" THEN "checking" ELSE "checkingWayland"]]
  /\ UNCHANGED <<xserverVars, brought, made>>

LoginAsked(s) == \E kind \in {"x11", "wayland"} : startAuth(s, kind)

(* The verdict.  The helper gets the environment and the cookie with it.     *)
slotAuthenticationFinished(s, success) ==
  LET guest == guests[s]["session"]
      next  == IF guest.at = "checking" THEN "starting" ELSE "onItsOwn"
  IN  /\ guest.at \in {"checking", "checkingWayland"}
      /\ guests' = [guests EXCEPT ![s]["session"] =
           IF success
           THEN [guest EXCEPT !.at = next, !.number = loginEnv[s], !.cookie = cookies[s]]
           ELSE Away]
      /\ UNCHANGED <<xserverVars, loginEnv, brought, made>>

LoginAnswered(s) == \E success \in BOOLEAN : slotAuthenticationFinished(s, success)

(* The helper writes a file for its client alone, and without it starts none.*)
GuestStarts(s, g) ==
  LET guest == guests[s][g]
      file  == writeCookieToFile(guest.number, guest.cookie, TRUE)
  IN  /\ guest.at = "starting"
      /\ \E written \in BOOLEAN :
           guests' = [guests EXCEPT ![s][g] =
             IF written THEN [guest EXCEPT !.at = "inside", !.file = file] ELSE Away]
      /\ UNCHANGED <<xserverVars, loginEnv, brought, made>>

(* The greeter makes room for the session, or fails and is started again.    *)
GreeterStops(s) ==
  /\ guests[s]["greeter"].at = "inside"
  /\ guests' = [guests EXCEPT ![s]["greeter"] = Away]
  /\ UNCHANGED <<xserverVars, loginEnv, brought, made>>

-----------------------------------------------------------------------------
(* The server that runs as the user: its client is started as soon as the    *)
(* number is known, the cookie is written next.                              *)

startOwnServer ==
  /\ brought.at = "off" /\ made < MaxCookies
  /\ brought' = [at |-> "announced", number |-> FreeNumber, cookie |-> made + 1, file |-> NoEntry,
                 guest |-> "started", read |-> NoEntry]
  /\ made' = made + 1
  /\ UNCHANGED <<xserverVars, guests, loginEnv>>

(* When it cannot be written the helper goes on all the same.                *)
addCookie ==
  /\ brought.at = "announced"
  /\ \E written \in BOOLEAN :
       brought' = [brought EXCEPT
         !.at = "up", !.file = writeCookieToFile(brought.number, brought.cookie, written)]
  /\ UNCHANGED <<xserverVars, guests, loginEnv, made>>

OwnGuestReads ==
  /\ brought.guest = "started"
  /\ brought.at = "up" \/ "reads" \in Hastes
  /\ brought' = [brought EXCEPT !.guest = "reading", !.read = brought.file]
  /\ UNCHANGED <<xserverVars, guests, loginEnv, made>>

OwnGuestConnects ==
  /\ brought.guest = "reading"
  /\ brought' = [brought EXCEPT !.guest =
       IF GetsIn(brought.number, brought.read, brought.file) THEN "inside" ELSE "refused"]
  /\ UNCHANGED <<xserverVars, guests, loginEnv, made>>

OwnServerEnds ==
  /\ brought.at = "up" /\ brought.guest \in {"inside", "refused"}
  /\ brought' = [brought EXCEPT !.at = "off", !.number = None, !.cookie = 0, !.file = NoEntry,
                        !.guest = "away", !.read = NoEntry]
  /\ UNCHANGED <<xserverVars, guests, loginEnv, made>>

AccessNext ==
  \/ \E s \in XServer :
       \/ ServerStarts(s) \/ XServerDies(s) \/ finishedX(s) \/ stopX(s)
       \/ GreeterClientStarts(s) \/ GreeterStops(s)
       \/ LoginAsked(s) \/ LoginAnswered(s)
       \/ \E g \in Guest : GuestStarts(s, g)
  \/ startOwnServer \/ addCookie
  \/ OwnGuestReads \/ OwnGuestConnects \/ OwnServerEnds

-----------------------------------------------------------------------------
(* Whoever is started for an X server gets in as long as that server lives:  *)
(* the scripts of the display with the file of the server, greeter and       *)
(* session with one of their own, the client of a server of the user's with  *)
(* the one its helper writes.  No number that was meant for one server leads *)
(* to another one's, a Wayland session is told of none, and the greeter that *)
(* is started is installed and can show its theme (XorgDisplayServer.cpp,    *)
(* Greeter.cpp, UserSession.cpp and xorguserhelper.cpp).                     *)
GuestsGetIn ==
  /\ brought.guest # "refused"
  /\ \A s \in XServer :
    \A g \in Guest :
      LET guest == guests[s][g]
      IN  /\ guest.at = "inside" /\ listensOn[s] # None =>
                /\ guest.number = listensOn[s]
                /\ guest.file # NoEntry /\ GetsIn(guest.number, guest.file, authFile[s])
          /\ guest.at = "onItsOwn" => guest.number = None
          /\ guest.fits
=============================================================================
