---------------------------- MODULE Conversation ----------------------------
(* gxdm-helper from the inside: what PAM asks and what it is answered, the   *)
(* verdict, the session that is opened for it, and what is undone when the   *)
(* helper leaves.                                                            *)
(*                                                                           *)
(* PamData keeps one list of prompts.  It guesses what a stack will ask next *)
(* and asks for it ahead (an echoing prompt is taken for the user name, and  *)
(* a password is expected to follow), so an answer may be waiting before its *)
(* question is put.  A prompt is recognised by the words of its text alone.  *)
EXTENDS Naturals, Sequences, SequencesExt

CONSTANTS
  PamMessages,         \* the messages the PAM stack may send
  MaxConversations,    \* conversations of one run
  MaxMessages,         \* messages of one conversation
  MayAnnounceEarly,    \* a password change may be announced before the stack
                       \* asked for everything that was guessed
  MayFailToExec,       \* the session's program may be missing
  MayBeKilled          \* the owner may lose patience and kill the helper

VARIABLES
  step,                \* where HelperApp::setUp and doAuth are
  role,                \* the helper's arguments
  conversation,        \* the messages being handled
  m_currentRequest, m_sent,
  given,               \* what PAM was answered: messages with their answers
  conversations,       \* number of conversations so far
  m_open,              \* PamHandle: a PAM session is open
  process,             \* the session's process
  loggedIn,            \* utmp shows the user as logged in
  exitCode             \* what the helper exits with

conversationVars == <<conversation, m_currentRequest, m_sent, given, conversations>>
sessionVars == <<m_open, process, loggedIn, exitCode>>
helperVars == <<step, role, conversationVars, sessionVars>>

Check == [class |-> "none", type |-> "other", displayServer |-> FALSE]
Role == [class : {"greeter", "user"}, type : {"x11", "wayland", "other"},
         displayServer : BOOLEAN] \cup {Check}
Opens == role # Check        \* --start: there is a session to open

(* PAM messages: how they are shown, and which of the words detectPrompt     *)
(* looks for they contain.                                                   *)
Says(style, words) == [style |-> style, words |-> words]
IsPrompt(msg) == msg.style \in {"ECHO_ON", "ECHO_OFF"}

detectPrompt(msg) ==
  CASE msg.style # "ECHO_OFF" -> "LOGIN_USER"
    [] msg.style = "ECHO_OFF" /\ "password" \notin msg.words -> "UNKNOWN"
    [] OTHER -> CASE "again" \in msg.words -> "CHANGE_REPEAT"
                  [] "again" \notin msg.words /\ "new" \in msg.words -> "CHANGE_NEW"
                  [] "again" \notin msg.words /\ "new" \notin msg.words /\ "old" \in msg.words ->
                       "CHANGE_CURRENT"
                  [] OTHER -> "LOGIN_PASSWORD"

NoAnswer == "nothing"
Unanswered(type) == [type |-> type, response |-> NoAnswer]
loginRequest == <<Unanswered("LOGIN_USER"), Unanswered("LOGIN_PASSWORD")>>
changePassNoOldRequest == <<Unanswered("CHANGE_NEW"), Unanswered("CHANGE_REPEAT")>>
changePassRequest == <<Unanswered("CHANGE_CURRENT")>> \o changePassNoOldRequest
Predicted(type) ==
  CASE type = "LOGIN_USER" -> loginRequest
    [] type = "CHANGE_CURRENT" -> changePassRequest
    [] type = "CHANGE_NEW" -> changePassNoOldRequest
    [] OTHER -> <<Unanswered(type)>>

(* The prompts that are kept, whether they were answered, and whether the    *)
(* last message asks for a new request.                                      *)
Kept(prompts, sent, new) == [prompts |-> prompts, sent |-> sent, new |-> new]
Stored(prompts, type) == SelectInSeq(prompts, LAMBDA p : p.type = type)

(* Mutant: the answers that are left of the last request are kept.           *)
insertPromptKeepingAnswers(k, msg, predict) ==
  LET type == detectPrompt(msg)
  IN  IF Stored(k.prompts, type) # 0 THEN Kept(k.prompts, k.sent, ~k.sent)
      ELSE Kept(IF predict /\ Predicted(type) # <<Unanswered(type)>> THEN Predicted(type)
                ELSE Append(k.prompts, Unanswered(type)),
                k.sent, TRUE)

insertPrompt(k, msg, predict) ==
  LET type == detectPrompt(msg)
      old == IF k.sent THEN <<>> ELSE k.prompts
  IN  IF Stored(k.prompts, type) # 0 THEN Kept(k.prompts, k.sent, ~k.sent)
      ELSE Kept(IF predict /\ Predicted(type) # <<Unanswered(type)>> THEN Predicted(type)
                ELSE Append(old, Unanswered(type)),
                FALSE, TRUE)

handleInfo(k, msg, predict) ==
  IF "changing" \in msg.words /\ predict THEN Kept(changePassRequest, k.sent, k.new) ELSE k

(* Destroys the prompt with that response.                                   *)
getResponse(k, msg) ==
  LET i == Stored(k.prompts, detectPrompt(msg))
      left == IF i = 0 THEN k.prompts ELSE RemoveAt(k.prompts, i)
  IN  [prompts |-> left, sent |-> k.sent /\ left # <<>>,
       given |-> IF i = 0 THEN k.given \cup {<<msg, NoAnswer>>}
                 ELSE k.given \cup {<<msg, k.prompts[i].response>>}]

HelperInit ==
  /\ step = "setUp" /\ role = Check
  /\ conversation = <<>> /\ m_currentRequest = <<>> /\ m_sent = FALSE
  /\ given = {} /\ conversations = 0
  /\ m_open = FALSE /\ process = "none" /\ loggedIn = FALSE /\ exitCode = "none"

(* A session that still runs is terminated, or killed after a minute; what   *)
(* was opened is closed, and who was logged in is logged out.                *)
UserSessionStop == process' = IF process = "running" THEN "ended" ELSE process
closeSession == m_open' = FALSE
utmpLogin == loggedIn' = (role.class # "greeter")
utmpLogout == loggedIn' = FALSE

(* ~HelperApp, whatever made the helper exit.                                *)
Exit(code) ==
  /\ step' = "gone" /\ exitCode' = code
  /\ UserSessionStop /\ closeSession /\ utmpLogout

(* The arguments are wrong, or name what is to be done.                      *)
SetUp ==
  /\ step = "setUp"
  /\ \/ Exit("OTHER_ERROR") /\ UNCHANGED role
     \/ \E r \in Role : role' = r /\ step' = "pamStart" /\ UNCHANGED sessionVars
  /\ UNCHANGED conversationVars

(* The service is chosen by the role; it may be unknown to PAM.              *)
PamStart ==
  /\ step = "pamStart"
  /\ \/ Exit("AUTH_ERROR")
     \/ step' = "authenticate" /\ UNCHANGED sessionVars
  /\ UNCHANGED <<role, conversationVars>>

(* The answers of one conversation go to PAM.                                *)
Respond(messages, prompts, sent) ==
  LET k == FoldLeft(getResponse, [prompts |-> prompts, sent |-> sent, given |-> given], messages)
  IN  /\ m_currentRequest' = k.prompts /\ m_sent' = k.sent /\ given' = k.given
      /\ conversation' = <<>>

(* PAM sends messages: each prompt is put into the list; a new one is asked *)
(* for, together with what is expected to follow.                            *)
Converse ==
  /\ step \in {"authenticate", "change"}
  /\ conversation = <<>>
  /\ conversations < MaxConversations
  /\ \E messages \in SeqOf(PamMessages, MaxMessages) \ {<<>>} :
       LET predict == Len(messages) = 1
           Put(k, msg) == IF IsPrompt(msg) THEN insertPrompt(k, msg, predict)
                          ELSE handleInfo(k, msg, predict)
           kept == FoldLeft(Put, Kept(m_currentRequest, m_sent, FALSE), messages)
       IN  /\ MayAnnounceEarly \/ ~(m_sent /\ \E i \in DOMAIN messages :
                                               "changing" \in messages[i].words)
           /\ IF kept.new /\ ~kept.sent /\ kept.prompts # <<>>
                THEN /\ conversation' = messages
                     /\ m_currentRequest' = kept.prompts /\ m_sent' = kept.sent
                     /\ UNCHANGED given
                ELSE Respond(messages, kept.prompts, kept.sent)
  /\ conversations' = conversations + 1
  /\ UNCHANGED <<step, role, sessionVars>>

(* What the owner of the login answers: one prompt gets the password, two    *)
(* get the user's name and the password, more are never answered.            *)
AnswerTo(i, prompts) == IF Len(prompts) = 2 /\ i = 1 THEN "user" ELSE "password"
Answers(prompts) ==
  [i \in DOMAIN prompts |-> [prompts[i] EXCEPT !.response = AnswerTo(i, prompts)]]

RequestAnswered ==
  /\ step # "gone" /\ conversation # <<>>
  /\ Len(m_currentRequest) \in 1..2
  /\ Respond(conversation, Answers(m_currentRequest), TRUE)
  /\ UNCHANGED <<step, role, conversations, sessionVars>>

(* The socket closes: PAM_CONV_ERR, and nobody hears what PAM makes of it.   *)
RequestNotAnswered ==
  /\ step # "gone" /\ conversation # <<>>
  /\ Exit("AUTH_ERROR")
  /\ conversation' = <<>>
  /\ UNCHANGED <<role, m_currentRequest, m_sent, given, conversations>>

(* PAM refuses: written to btmp, and told to the owner.                      *)
PamRefuses ==
  /\ step \in {"authenticate", "change"} /\ conversation = <<>>
  /\ Exit("AUTH_ERROR")
  /\ UNCHANGED <<role, conversationVars>>

(* PAM accepts; an expired password has to be changed before the account is  *)
(* good.                                                                     *)
AcctMgmt ==
  /\ step \in {"authenticate", "change"} /\ conversation = <<>>
  /\ \/ step = "authenticate" /\ step' = "change" /\ UNCHANGED sessionVars
     \/ Opens /\ step' = "openSession" /\ UNCHANGED sessionVars
     \/ ~Opens /\ Exit("SUCCESS")
  /\ UNCHANGED <<role, conversationVars>>

(* Credentials, items, the environment and pam_open_session.                 *)
OpenSession ==
  /\ step = "openSession" /\ ~m_open
  /\ \/ Exit("SESSION_ERROR")
     \/ m_open' = TRUE /\ UNCHANGED <<step, process, loggedIn, exitCode>>
  /\ UNCHANGED <<role, conversationVars>>

(* UserSession::start.  An X11 session whose server runs already needs a     *)
(* cookie and a file to keep it in; a session of no known type does not      *)
(* start.  A Wayland greeter that does not start is taken to be waiting for  *)
(* its compositor.  A session that started is announced, and written to utmp.*)
IsWaylandGreeter == role.type = "wayland" /\ role.class = "greeter"
NeedsCookie == role.type = "x11" /\ ~role.displayServer
MayFail == NeedsCookie \/ role.type = "other" \/ MayFailToExec

UserSessionStart ==
  \/ /\ MayFail /\ ~IsWaylandGreeter
     /\ Exit("SESSION_ERROR")
  \/ /\ MayFail /\ IsWaylandGreeter
     /\ step' = "session"
     /\ UNCHANGED sessionVars
  \/ /\ role.type # "other"
     /\ step' = "session" /\ process' = "running"
     /\ utmpLogin
     /\ UNCHANGED <<m_open, exitCode>>

StartSession ==
  /\ step = "openSession" /\ m_open
  /\ UserSessionStart
  /\ UNCHANGED <<role, conversationVars>>

(* What the child does before it becomes the session: a session with its own *)
(* display server, or of a Wayland user, takes its terminal; every one       *)
(* enters the namespaces and becomes the user.                               *)
TakesTerminal == role.displayServer \/ (role.type = "wayland" /\ role.class = "user")
NoTerminal ==
  /\ step = "session" /\ process = "running" /\ TakesTerminal
  /\ Exit("TTY_ERROR")
  /\ UNCHANGED <<role, conversationVars>>

CannotBecomeUser ==
  /\ step = "session" /\ process = "running"
  /\ Exit("OTHER_ERROR")
  /\ UNCHANGED <<role, conversationVars>>

SessionFinished ==
  /\ step = "session" /\ process = "running"
  /\ Exit("session's")
  /\ UNCHANGED <<role, conversationVars>>

(* SIGTERM ends the event loop, which runs only while a session does.        *)
SigTerm ==
  /\ step = "session"
  /\ Exit("terminated")
  /\ UNCHANGED <<role, conversationVars>>

(* Auth::stop waits for 5 s, UserSession::stop for 60 s.                     *)
Killed ==
  /\ MayBeKilled /\ step # "gone"
  /\ step' = "gone" /\ exitCode' = "killed"
  /\ UNCHANGED <<role, m_open, process, loggedIn, conversationVars>>

HelperNext ==
  \/ SetUp
  \/ PamStart
  \/ Converse
  \/ RequestAnswered
  \/ RequestNotAnswered
  \/ PamRefuses
  \/ AcctMgmt
  \/ OpenSession
  \/ StartSession
  \/ NoTerminal
  \/ CannotBecomeUser
  \/ SessionFinished
  \/ SigTerm
  \/ Killed

-----------------------------------------------------------------------------
(* Whatever a PAM stack asks, and in whatever order: every prompt is given an *)
(* answer, an echoing one the name and one for the password the password,    *)
(* although PamData keeps answers ahead of their questions; and of a change  *)
(* no new password is confirmed but the one typed, in particular not the name.*)
AnswersMatchPrompts ==
  /\ \A g \in given : IsPrompt(g[1]) =>
       /\ g[2] # NoAnswer
       /\ detectPrompt(g[1]) = "LOGIN_USER" => g[2] = "user"
       /\ detectPrompt(g[1]) = "LOGIN_PASSWORD" => g[2] = "password"
  /\ \A g, h \in given :
       (detectPrompt(g[1]) = "CHANGE_NEW" /\ detectPrompt(h[1]) = "CHANGE_REPEAT" /\ g[2] = h[2])
         => g[2] = "password"
=============================================================================
