--------------------------- MODULE ClassicGreeter ---------------------------
(* The classic greeter: one frame for each screen, all of them views of one  *)
(* model, with the text of their password boxes bound together.  A text is   *)
(* known by the user for whom it was typed.                                  *)
EXTENDS Naturals, SequencesExt

CONSTANTS
  Screen, User,
  MaxUnread,        \* bound: messages the daemon has not read when a power action is chosen
  MaySwitchTyped,   \* with several frames, the user changes while a box holds text
  MaySuspendTwice   \* a power action is chosen twice in a row

VARIABLES
  frames,           \* in the order of their creation, which is that of signals
  contentVisible, loading, m_passwords, \* of each frame
  typed,            \* the text of every box
  currentUser, modeState, powerAction,  \* SessionBaseModel
  m_authenticating, socket,             \* GreeterWorker
  toDaemon, toGreeter

frameVars == <<frames, contentVisible, loading, m_passwords, typed>>
modelVars == <<currentUser, modeState, powerAction>>
workerVars == <<m_authenticating, socket, toDaemon, toGreeter>>
classicVars == <<frameVars, modelVars, workerVars>>

NoText == "no text"
Power == {"RequireSuspend", "RequireShutdown"}
Mode == {"UserMode", "PasswordMode", "PowerMode"}
FirstUser == CHOOSE u \in User : TRUE
StartMode == IF Cardinality(User) > 1 THEN "UserMode" ELSE "PasswordMode"

ClassicInit ==
  /\ frames = <<>>
  /\ contentVisible = {} /\ loading = {}
  /\ m_passwords = [s \in Screen |-> [u \in User |-> NoText]] /\ typed = NoText
  /\ currentUser = FirstUser /\ modeState = StartMode /\ powerAction = "RequireNormal"
  /\ m_authenticating = FALSE /\ socket = "connected"
  /\ toDaemon = <<>> /\ toGreeter = <<>>

Sees(s) == s \in contentVisible

-----------------------------------------------------------------------------
(* MultiScreenManager.  A frame starts without content, and puts the model   *)
(* back into its first mode.                                                 *)
onScreenAdded(s) ==
  /\ ~Contains(frames, s) /\ frames' = Append(frames, s)
  /\ m_passwords' = [m_passwords EXCEPT ![s] = [u \in User |-> NoText]]
  /\ modeState' = StartMode
  /\ UNCHANGED <<contentVisible, loading, typed, currentUser, powerAction, workerVars>>

onScreenRemoved(s) ==
  /\ Contains(frames, s) /\ frames' = Remove(frames, s)
  /\ contentVisible' = contentVisible \ {s} /\ loading' = loading \ {s}
  /\ m_passwords' = [m_passwords EXCEPT ![s] = [u \in User |-> NoText]]
  /\ UNCHANGED <<typed, modelVars, workerVars>>

(* PropertyGroup: the others hide theirs.                                    *)
ShownAlone(s) == {s}

enterEvent(s) ==
  /\ Contains(frames, s) /\ contentVisible' = ShownAlone(s)
  /\ UNCHANGED <<frames, loading, m_passwords, typed, modelVars, workerVars>>

-----------------------------------------------------------------------------
Goes(mode) == modeState' = mode

(* The buttons of the control bar, the background and Escape.                *)
SwitchMode(s) ==
  /\ Sees(s)
  /\ \E mode \in Mode \ {modeState} :
       /\ Goes(mode)
       /\ powerAction' \in {powerAction} \cup
            IF mode = "PasswordMode" THEN {"RequireNormal"} ELSE {}
  /\ UNCHANGED <<frameVars, currentUser, workerVars>>

Escape(s) ==
  /\ Sees(s) /\ modeState = "PasswordMode" /\ powerAction' = "RequireNormal"
  /\ UNCHANGED <<frameVars, currentUser, modeState, workerVars>>

Type(s) ==
  /\ Sees(s) /\ modeState = "PasswordMode"
  /\ typed' \in {NoText, currentUser}
  /\ UNCHANGED <<frames, contentVisible, loading, m_passwords, modelVars, workerVars>>

(* Mutant: the box keeps the text of the last user.                          *)
SetUserKeepingText(boxes, s, user) ==
  [boxes EXCEPT !.kept[s][currentUser] = boxes.text]

(* One frame keeps the text of the last user and shows that of the new one,  *)
(* which every other frame takes over at once.                               *)
SetUser(boxes, s, user) ==
  [kept |-> [boxes.kept EXCEPT ![s][currentUser] = boxes.text], text |-> boxes.kept[s][user]]

Empty == typed = NoText /\ \A s \in ToSet(frames), u \in User : m_passwords[s][u] = NoText

ChooseUser(s) ==
  /\ Sees(s) /\ modeState = "UserMode"
  /\ \E user \in User :
       IF user = currentUser THEN UNCHANGED <<m_passwords, typed, loading, currentUser>>
       ELSE LET set == FoldLeft(LAMBDA boxes, f : SetUser(boxes, f, user),
                                [kept |-> m_passwords, text |-> typed], frames)
            IN  /\ MaySwitchTyped \/ Len(frames) = 1 \/ Empty
                /\ currentUser' = user
                /\ m_passwords' = set.kept /\ typed' = set.text
                /\ loading' = {}
  /\ Goes("PasswordMode")
  /\ UNCHANGED <<frames, contentVisible, powerAction, workerVars>>

SaysToDaemon(message) == toDaemon' = Append(toDaemon, message)

(* inputDone() starts the slider, authUser() may not take the password.      *)
Submit(s) ==
  /\ Sees(s) /\ modeState = "PasswordMode" /\ typed # NoText
  /\ \/ /\ m_authenticating /\ loading' = loading \cup {s}
        /\ UNCHANGED <<m_authenticating, toDaemon>>
     \/ /\ ~m_authenticating /\ socket # "connected" /\ loading' = {}
        /\ UNCHANGED <<m_authenticating, toDaemon>>
     \/ /\ ~m_authenticating /\ socket = "connected" /\ loading' = loading \cup {s}
        /\ m_authenticating' = TRUE
        /\ SaysToDaemon([type |-> "Login", user |-> currentUser, password |-> typed])
  /\ UNCHANGED <<frames, contentVisible, m_passwords, typed, modelVars, socket, toGreeter>>

(* Only a change of the action is forwarded.                                 *)
shutdownAction(s) ==
  /\ Sees(s) /\ modeState = "PowerMode" /\ Len(toDaemon) < MaxUnread
  /\ \E action \in Power :
       /\ MaySuspendTwice \/ action # powerAction
       /\ powerAction' = action
       /\ IF action # powerAction /\ socket = "connected"
          THEN SaysToDaemon([type |-> action]) ELSE UNCHANGED toDaemon
  /\ Goes("PasswordMode")
  /\ UNCHANGED <<frameVars, currentUser, m_authenticating, socket, toGreeter>>

-----------------------------------------------------------------------------
(* The daemon (external) answers each login once, after any other message.   *)
DaemonReads ==
  /\ toDaemon # <<>> /\ socket = "connected"
  /\ LET login == Head(toDaemon).type = "Login" IN
     \/ /\ login /\ toDaemon' = Tail(toDaemon)
        /\ \E reply \in {"LoginSucceeded", "LoginFailed"} : toGreeter' = Append(toGreeter, reply)
     \/ /\ login /\ toGreeter = <<>> /\ toGreeter' = <<"InformationMessage">>
        /\ UNCHANGED toDaemon
     \/ ~login /\ toDaemon' = Tail(toDaemon) /\ UNCHANGED toGreeter
  /\ UNCHANGED <<frameVars, modelVars, m_authenticating, socket>>

(* Every message stops the sliders; the content goes when a session starts.  *)
onReadyRead ==
  /\ toGreeter # <<>> /\ toGreeter' = Tail(toGreeter)
  /\ loading' = {}
  /\ LET message == Head(toGreeter) IN
     /\ m_authenticating' = (m_authenticating /\ message = "InformationMessage")
     /\ IF message = "LoginSucceeded" THEN typed' = NoText /\ contentVisible' = {}
        ELSE UNCHANGED <<typed, contentVisible>>
  /\ UNCHANGED <<frames, m_passwords, modelVars, socket, toDaemon>>

onSocketUnavailable ==
  /\ socket = "connected" /\ toGreeter = <<>> /\ socket' = "lost"
  /\ m_authenticating' = FALSE
  /\ loading' = IF m_authenticating THEN {} ELSE loading
  /\ toDaemon' = <<>>
  /\ UNCHANGED <<frames, contentVisible, m_passwords, typed, modelVars, toGreeter>>

ClassicNext ==
  \/ \E s \in Screen :
       \/ onScreenAdded(s) \/ onScreenRemoved(s) \/ enterEvent(s)
       \/ SwitchMode(s) \/ Escape(s) \/ Type(s) \/ ChooseUser(s) \/ Submit(s) \/ shutdownAction(s)
  \/ DaemonReads \/ onReadyRead \/ onSocketUnavailable

-----------------------------------------------------------------------------
(* A password goes out only with the name of the user it was typed for; no   *)
(* frame waits for a verdict that will not come; one frame at a time takes   *)
(* what is typed; and an action that is chosen is forwarded.                 *)
GreeterSendsWhatIsChosen ==
  /\ [](/\ \A i \in DOMAIN toDaemon :
             toDaemon[i].type = "Login" => toDaemon[i].user = toDaemon[i].password
        /\ loading # {} => m_authenticating
        /\ Cardinality(contentVisible) <= 1)
  /\ [][\A s \in Screen : shutdownAction(s) /\ socket = "connected" =>
          Len(toDaemon') = Len(toDaemon) + 1]_classicVars
=============================================================================
