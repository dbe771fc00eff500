----------------------------- MODULE GreeterLogin -----------------------------
(***************************************************************************)
(* The neo greeter's GreeterBackend with its DaemonFingerprint             *)
(* (src/greeter-neo/src/greeter_backend.cc), and the Display it talks to   *)
(* through one local socket: two event loops that each act on what they    *)
(* last heard of the other.                                                *)
(*                                                                         *)
(* Each step of Display is one of four here: it reads a message of the     *)
(* greeter, answers a probe, handles what its helper, logind or a timer    *)
(* reports, or is a step of the helper itself; and whatever it tells the   *)
(* greeter is appended to the channel.  The view (MainWindow.qml) may call *)
(* the backend whenever the backend lets it.                               *)
(*                                                                         *)
(* Left to Display's own runs: a greeter or display server that crashes,   *)
(* an autologin, and requests with an invalid session or user.             *)
(***************************************************************************)
EXTENDS Display, SequencesExt

Reader == INSTANCE FingerprintSession

CONSTANTS
  Users,             \* users of the greeter's list
  Sessions,          \* sessions the view may ask for
  KnownSessions,     \* those the greeter can name to the daemon
  MaxInFlight,       \* bound: messages under way when the view calls
  PromptProbes,      \* the view waits for a probe before it asks for another
  PromptReaping      \* the daemon reaps a dead helper before it reads on

ASSUME GreeterAssumption ==
  /\ ~Autologin
  /\ KnownSessions \subseteq Sessions
  /\ None \notin Users \cup Sessions
  /\ MaxInFlight \in Nat
  /\ {PromptProbes, PromptReaping} \subseteq BOOLEAN

VARIABLES
  reader,                 \* fingerprint_, a FingerprintSession
  fingerprintSession,     \* fingerprint_session_
  runActive,              \* run_active_
  unusableQueued,         \* the queued call of RunUnusable()
  authenticating,         \* authenticating_
  loginSucceeded,         \* login_succeeded_
  transitionPending,      \* transition_pending_
  toDaemon, toGreeter,    \* the socket: messages not yet read
  probes,                 \* users ProbeEnrolledFingers() is looking for
  listenedFor             \* whose finger, for which session, Auth was asked

readerVars  == <<reader, fingerprintSession, runActive, unusableQueued>>
backendVars == <<readerVars, authenticating, loginSucceeded, transitionPending>>
greeterVars == <<backendVars, toDaemon, toGreeter, probes, listenedFor>>
allVars     == <<vars, greeterVars>>

ToDaemon ==
       [type : {"EnableTransitions", "Login", "FingerprintCancel", "TransitionReady"}]
  \cup [type : {"FingerprintProbe"}, user : Users]
  \cup [type : {"FingerprintLogin"}, user : Users, session : KnownSessions]

(* "quick" is what the greeter's clock will say of the run that ended.     *)
ToGreeter ==
       [type : {"PrepareTransition", "LoginFailed", "LoginSucceeded", "FingerprintRejected"}]
  \cup [type : {"FingerprintAvailable"}, user : Users, available : BOOLEAN]
  \cup [type : {"FingerprintFinished"}, quick : BOOLEAN]

GreeterTypeOK ==
  /\ reader \in Reader!Session(Users \cup {None})
  /\ fingerprintSession \in Sessions \cup {None}
  /\ {runActive, unusableQueued, authenticating, loginSucceeded, transitionPending}
       \subseteq BOOLEAN
  /\ toDaemon \in Seq(ToDaemon)
  /\ toGreeter \in Seq(ToGreeter)
  /\ probes \in Seq(Users)
  /\ listenedFor \in [user : Users, session : KnownSessions] \cup {None}

GreeterInit ==
  /\ Init
  /\ reader = Reader!Idle(None)
  /\ fingerprintSession = None
  /\ runActive = FALSE
  /\ unusableQueued = FALSE
  /\ authenticating = FALSE
  /\ loginSucceeded = FALSE
  /\ transitionPending = FALSE
  /\ toDaemon = <<>>
  /\ toGreeter = <<>>
  /\ probes = <<>>
  /\ listenedFor = None

-----------------------------------------------------------------------------
(* The greeter starts and connects.                                        *)

GreeterConnects ==
  /\ StartWithGreeter
  /\ toDaemon' = <<[type |-> "EnableTransitions"]>>
  /\ UNCHANGED <<backendVars, toGreeter, probes, listenedFor>>

GreeterUp == phase = "started" /\ greeter = "running"

(* The requests the greeter has made and those that what is under way may  *)
(* still lead to; without room for one more none is provoked.              *)
RoomForRequest ==
  LET asking(m)  == m.type \in {"Login", "FingerprintLogin"}
      leading(m) == \/ m.type = "FingerprintAvailable" /\ m.available
                    \/ m.type = "FingerprintFinished" /\ ~m.quick
  IN  requests + Len(SelectSeq(toDaemon, asking)) + Len(SelectSeq(toGreeter, leading))
        < MaxRequests

(* Variant: a stopped run is not cancelled.                                  *)
SentNoCancel(after, active, session) ==
  LET user == after.session.user
  IN  (IF "Probe" \in after.calls
         THEN <<[type |-> "FingerprintProbe", user |-> user]>> ELSE <<>>)
      \o (IF "StartRun" \in after.calls /\ session \in KnownSessions
            THEN <<[type |-> "FingerprintLogin", user |-> user, session |-> session]>>
            ELSE <<>>)

(* What the overrides of DaemonFingerprint send when a FingerprintSession  *)
(* calls them: a cancel only while a run is active, and a run only for a   *)
(* session the greeter can name.                                           *)
SentBy(after, active, session) ==
  LET user == after.session.user
  IN  (IF "StopRun" \in after.calls /\ active
         THEN <<[type |-> "FingerprintCancel"]>> ELSE <<>>)
      \o (IF "Probe" \in after.calls
            THEN <<[type |-> "FingerprintProbe", user |-> user]>> ELSE <<>>)
      \o (IF "StartRun" \in after.calls /\ session \in KnownSessions
            THEN <<[type |-> "FingerprintLogin", user |-> user, session |-> session]>>
            ELSE <<>>)

(* The reader's part of a step: an operation of FingerprintSession that    *)
(* returned "after", with run_active_ "active" and fingerprint_session_    *)
(* "session" at that point.                                                *)
ReaderBecomes(after, active, session) ==
  LET starts == "StartRun" \in after.calls
  IN  /\ reader' = after.session
      /\ fingerprintSession' = session
      /\ runActive' = IF starts THEN session \in KnownSessions
                      ELSE active /\ "StopRun" \notin after.calls
      /\ unusableQueued' = (unusableQueued \/ (starts /\ session \notin KnownSessions))

-----------------------------------------------------------------------------
(* The view calls the backend.                                             *)

ViewCalls ==
  /\ GreeterUp
  /\ Len(toDaemon) + Len(toGreeter) + Len(probes) < MaxInFlight

(* The answer to a probe for that user is still under way.                 *)
ProbeUnderWay(user) ==
  \/ \E i \in DOMAIN toDaemon :
       toDaemon[i].type = "FingerprintProbe" /\ toDaemon[i].user = user
  \/ \E i \in DOMAIN probes : probes[i] = user
  \/ \E i \in DOMAIN toGreeter :
       toGreeter[i].type = "FingerprintAvailable" /\ toGreeter[i].user = user

(* Variant: another session is not another FingerprintLogin.               *)
StartFingerprintAnySession(user, session) ==
  LET started == Reader!Start(reader, user)
  IN  /\ ViewCalls
      /\ ~authenticating /\ ~loginSucceeded
      /\ PromptProbes => ~ProbeUnderWay(user)
      /\ ReaderBecomes(started, runActive, session)
      /\ toDaemon' = toDaemon \o SentBy(started, runActive, session)
      /\ UNCHANGED <<vars, authenticating, loginSucceeded, transitionPending,
                     toGreeter, probes, listenedFor>>

(* Restarts for another user or session.                                   *)
StartFingerprint(user, session) ==
  LET stopped == IF session = fingerprintSession
                   THEN Reader!Unchanged(reader) ELSE Reader!Stop(reader)
      started == Reader!Start(stopped.session, user)
      after   == [started EXCEPT !.calls = @ \cup stopped.calls]
  IN  /\ ViewCalls
      /\ ~authenticating /\ ~loginSucceeded
      /\ PromptProbes => ~ProbeUnderWay(user)
      /\ ReaderBecomes(after, runActive, session)
      /\ toDaemon' = toDaemon \o SentBy(after, runActive, session)
      /\ UNCHANGED <<vars, authenticating, loginSucceeded, transitionPending,
                     toGreeter, probes, listenedFor>>

StopFingerprint ==
  LET after == Reader!Stop(reader)
  IN  /\ ViewCalls
      /\ ReaderBecomes(after, runActive, fingerprintSession)
      /\ toDaemon' = toDaemon \o SentBy(after, runActive, fingerprintSession)
      /\ UNCHANGED <<vars, authenticating, loginSucceeded, transitionPending,
                     toGreeter, probes, listenedFor>>

(* Login(): the password takes over from the reader.                       *)
SendLogin ==
  LET after == Reader!Stop(reader)
  IN  /\ ViewCalls
      /\ ~authenticating /\ ~loginSucceeded
      /\ RoomForRequest
      /\ ReaderBecomes(after, runActive, fingerprintSession)
      /\ authenticating' = TRUE
      /\ toDaemon' = toDaemon \o SentBy(after, runActive, fingerprintSession)
                              \o <<[type |-> "Login"]>>
      /\ UNCHANGED <<vars, loginSucceeded, transitionPending, toGreeter, probes, listenedFor>>

(* The animation ended: LoginTransition calls TransitionReady().           *)
FinishTransition ==
  /\ GreeterUp
  /\ transitionPending
  /\ transitionPending' = FALSE
  /\ toDaemon' = Append(toDaemon, [type |-> "TransitionReady"])
  /\ UNCHANGED <<vars, readerVars, authenticating, loginSucceeded, toGreeter, probes,
                 listenedFor>>

(* StartRun()'s queued call, for a session the greeter cannot name.        *)
RunUnusable ==
  LET after == Reader!RunUnusable(reader)
  IN  /\ GreeterUp
      /\ unusableQueued
      /\ reader' = after.session
      /\ runActive' = (runActive /\ "StopRun" \notin after.calls)
      /\ unusableQueued' = FALSE
      /\ toDaemon' = toDaemon \o SentBy(after, runActive, fingerprintSession)
      /\ UNCHANGED <<vars, fingerprintSession, authenticating, loginSucceeded,
                     transitionPending, toGreeter, probes, listenedFor>>

View ==
  \/ \E user \in Users, session \in Sessions : StartFingerprint(user, session)
  \/ StopFingerprint
  \/ SendLogin
  \/ FinishTransition

-----------------------------------------------------------------------------
(* ReadMessages(): one message of the daemon.                              *)

GreeterReads(type) ==
  /\ GreeterUp
  /\ toGreeter # <<>>
  /\ Head(toGreeter).type = type
  /\ toGreeter' = Tail(toGreeter)
  /\ UNCHANGED <<vars, probes, listenedFor>>

(* Succeeded(): nothing to cancel any more.                                *)
ReaderSucceeds == ReaderBecomes(Reader!RunFinished(reader, TRUE, FALSE), FALSE, fingerprintSession)

PrepareTransition ==
  /\ GreeterReads("PrepareTransition")
  /\ IF ~authenticating /\ reader.state # "listening"
       THEN UNCHANGED <<readerVars, transitionPending>>
       ELSE /\ transitionPending' = TRUE
            /\ IF authenticating THEN UNCHANGED readerVars ELSE ReaderSucceeds
  /\ UNCHANGED <<authenticating, loginSucceeded, toDaemon>>

ReadLoginFailed ==
  /\ GreeterReads("LoginFailed")
  /\ authenticating' = FALSE
  /\ transitionPending' = FALSE
  /\ UNCHANGED <<readerVars, loginSucceeded, toDaemon>>

ReadLoginSucceeded ==
  /\ GreeterReads("LoginSucceeded")
  /\ transitionPending' = FALSE
  /\ loginSucceeded' = TRUE
  /\ authenticating' = FALSE
  /\ ReaderSucceeds
  /\ UNCHANGED toDaemon

(* An operation of the reader that a message brings about.                 *)
ReaderHandles(after, active) ==
  /\ ReaderBecomes(after, active, fingerprintSession)
  /\ toDaemon' = toDaemon \o SentBy(after, active, fingerprintSession)
  /\ UNCHANGED <<authenticating, loginSucceeded, transitionPending>>

ReadFingerprintAvailable ==
  LET m == Head(toGreeter)
  IN  /\ GreeterReads("FingerprintAvailable")
      /\ ReaderHandles(Reader!ProbeFinished(reader, m.user, m.available), runActive)

ReadFingerprintRejected ==
  /\ GreeterReads("FingerprintRejected")
  /\ ReaderHandles(Reader!RunRejected(reader), runActive)

(* Finished() has cleared run_active_ before StopRun() asks.               *)
ReadFingerprintFinished ==
  LET m == Head(toGreeter)
  IN  /\ GreeterReads("FingerprintFinished")
      /\ ReaderHandles(Reader!RunFinished(reader, FALSE, m.quick), FALSE)

GreeterRuns ==
  \/ RunUnusable
  \/ PrepareTransition
  \/ ReadLoginFailed
  \/ ReadLoginSucceeded
  \/ ReadFingerprintAvailable
  \/ ReadFingerprintRejected
  \/ ReadFingerprintFinished

-----------------------------------------------------------------------------
(* The daemon.                                                             *)

(* What a step of Display told the greeter.                                *)
Answers(quick) ==
  LET results == {outcome'[r] : r \in {q \in RequestId : outcome'[q] # outcome[q]}}
  IN  (IF transitionTimer' /\ ~transitionTimer
         THEN <<[type |-> "PrepareTransition"]>> ELSE <<>>)
      \o (IF "failed" \in results THEN <<[type |-> "LoginFailed"]>> ELSE <<>>)
      \o (IF "succeeded" \in results THEN <<[type |-> "LoginSucceeded"]>> ELSE <<>>)
      \o (IF "finished" \in results
            THEN <<[type |-> "FingerprintFinished", quick |-> quick]>> ELSE <<>>)

GreeterGone ==
  /\ reader' = Reader!Idle(None)
  /\ fingerprintSession' = None
  /\ runActive' = FALSE
  /\ unusableQueued' = FALSE
  /\ authenticating' = FALSE
  /\ loginSucceeded' = FALSE
  /\ transitionPending' = FALSE
  /\ toDaemon' = <<>>
  /\ toGreeter' = <<>>
  /\ probes' = <<>>
  /\ listenedFor' = None

(* The greeter's side of a step of Display that left "unread" of its       *)
(* messages and has Auth listen as "listened" says; one that was stopped   *)
(* is gone, with all it had sent and was sent.                             *)
GreeterHears(unread, listened, quick) ==
  IF greeter' = "running"
    THEN /\ toDaemon' = unread
         /\ toGreeter' = toGreeter \o Answers(quick)
         /\ listenedFor' = listened
         /\ UNCHANGED <<backendVars, probes>>
    ELSE GreeterGone

DaemonReads(type) ==
  /\ GreeterUp
  /\ toDaemon # <<>>
  /\ Head(toDaemon).type = type
  /\ PromptReaping => helper # "exited"

ReadEnableTransitions ==
  /\ DaemonReads("EnableTransitions")
  /\ AnnounceTransitions
  /\ GreeterHears(Tail(toDaemon), listenedFor, TRUE)

ReadLogin ==
  /\ DaemonReads("Login")
  /\ LoginRejected \/ LoginAccepted
  /\ GreeterHears(Tail(toDaemon), listenedFor, TRUE)

ReadFingerprintProbe ==
  /\ DaemonReads("FingerprintProbe")
  /\ probes' = Append(probes, Head(toDaemon).user)
  /\ toDaemon' = Tail(toDaemon)
  /\ UNCHANGED <<vars, backendVars, toGreeter, listenedFor>>

ReadFingerprintLogin ==
  /\ DaemonReads("FingerprintLogin")
  /\ LET m == Head(toDaemon)
     IN  \/ /\ FingerprintAccepted
            /\ GreeterHears(Tail(toDaemon), [user |-> m.user, session |-> m.session], TRUE)
         \/ /\ ~Idle
            /\ FingerprintRefused
            /\ GreeterHears(Tail(toDaemon), listenedFor, TRUE)

ReadFingerprintCancel ==
  /\ DaemonReads("FingerprintCancel")
  /\ IF Listening /\ request # None THEN FingerprintCancel ELSE UNCHANGED vars
  /\ GreeterHears(Tail(toDaemon), listenedFor, TRUE)

ReadTransitionReady ==
  /\ DaemonReads("TransitionReady")
  /\ IF transitionTimer /\ request # None THEN TransitionReady ELSE UNCHANGED vars
  /\ GreeterHears(Tail(toDaemon), listenedFor, TRUE)

DaemonReadsMessage ==
  \/ ReadEnableTransitions
  \/ ReadLogin
  \/ ReadFingerprintProbe
  \/ ReadFingerprintLogin
  \/ ReadFingerprintCancel
  \/ ReadTransitionReady

(* ProbeEnrolledFingers() calls back, with the D-Bus replies in any order. *)
ProbeAnswered ==
  /\ GreeterUp
  /\ \E i \in DOMAIN probes, available \in BOOLEAN :
       /\ available => RoomForRequest
       /\ toGreeter' = Append(toGreeter, [type |-> "FingerprintAvailable",
                                          user |-> probes[i], available |-> available])
       /\ probes' = RemoveAt(probes, i)
  /\ UNCHANGED <<vars, backendVars, toDaemon, listenedFor>>

(* slotAuthError(): pam_fprintd rejects a scan.                            *)
ScanRejected ==
  /\ GreeterUp
  /\ fingerprint /\ helper = "auth" /\ inbox = <<>>
  /\ fingerprintLogin /\ request # None
  /\ toGreeter = <<>>
  /\ toGreeter' = <<[type |-> "FingerprintRejected"]>>
  /\ UNCHANGED <<vars, backendVars, toDaemon, probes, listenedFor>>

(* A step of Display that no message of the greeter causes.                *)
DisplayStep(step) ==
  /\ step
  /\ \E quick \in BOOLEAN : (quick \/ RoomForRequest) /\ GreeterHears(toDaemon, listenedFor, quick)

HelperStep(step) == step /\ UNCHANGED greeterVars

GreeterNext ==
  \/ GreeterConnects
  \/ View
  \/ GreeterRuns
  \/ DaemonReadsMessage
  \/ ProbeAnswered
  \/ ScanRejected
  \/ DisplayStep(Logind)
  \/ DisplayStep(Timers)
  \/ DisplayStep(DeliverFromHelper)
  \/ HelperStep(Helper)

GreeterSpec == GreeterInit /\ [][GreeterNext]_allVars

(***************************************************************************)
(* Fairness: as of Display, both sides read what was sent, and fprintd     *)
(* answers a probe.                                                        *)
(***************************************************************************)
GreeterFairness ==
  /\ WF_allVars(GreeterRuns)
  /\ WF_allVars(DaemonReadsMessage)
  /\ WF_allVars(ProbeAnswered)
  /\ WF_allVars(DisplayStep(DeliverFromHelper))
  /\ WF_allVars(DisplayStep(TransitionTimeout))
  /\ WF_allVars(DisplayStep(ActivationTimeout))
  /\ WF_allVars(DisplayStep(AbortFingerprint))
  /\ WF_allVars(DisplayStep(\E c \in calls : LookupTimeout(c)))
  /\ WF_allVars(HelperStep(HelperRuns))
  /\ SF_allVars(HelperStep(PamDecides))

GreeterFairSpec == GreeterSpec /\ GreeterFairness
=============================================================================
