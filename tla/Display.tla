------------------------------- MODULE Display -------------------------------
(***************************************************************************)
(* One Display of the daemon (src/daemon/Display.cpp) with its Auth: how a *)
(* login that the greeter requests, by password or by fingerprint, or an   *)
(* autologin, is authenticated by a helper and ends in a new session, in   *)
(* an existing logind session brought to the front, or in a failure the    *)
(* greeter hears of.                                                       *)
(*                                                                         *)
(* The daemon is one event loop: each action is one handler it runs, with  *)
(* everything that handler calls.  Between two handlers the helper, logind *)
(* (D-Bus replies), the greeter and the timers move as they like.          *)
(*                                                                         *)
(* Abstracted: user names, passwords, environments, virtual terminals, the *)
(* theme, informational messages, and which of the two transition messages *)
(* is sent.  A request of the greeter is a number; m_socket is the request *)
(* it stands for ("request").  A Display that stopped is deleted           *)
(* (Seat::removeDisplay), so nothing follows.                              *)
(***************************************************************************)
EXTENDS Auth, FiniteSets

CONSTANTS
  LogindSessions,    \* logind sessions that exist beside the one to open
  None,
  MaxRequests,       \* bound: how often the greeter asks for a login
  ReuseSession,      \* logind is available and [Users] ReuseSession is set
  Autologin,         \* an autologin user is configured
  RootfulX11         \* the display server is X11DisplayServerType

ASSUME DisplayAssumption ==
  /\ None \notin Nat /\ None \notin LogindSessions
  /\ MaxRequests \in Nat
  /\ {ReuseSession, Autologin, RootfulX11} \subseteq BOOLEAN

VARIABLES
  phase,                  \* "new", "started" (m_started), "stopped"
  greeter,                \* "none", "running", "dead" (not reaped)
  transitions,            \* its socket has the property "transitions"
  autologin,              \* m_auth->autologin()
  request,                \* m_socket: the request being served, or None
  target,                 \* the request whose user and session Auth holds
  fingerprintLogin,       \* m_fingerprintLogin
  authenticated,          \* m_authenticated
  abortQueued,            \* the zero timer of slotRequestChanged
  reuseLookupPending, reuseLookupGeneration,
  reuseSessionId,
  reuseActivationPending, reuseActivationGeneration,
  reuseActivationTimer,   \* 30 s
  reuseHelperFinished,
  transitionTimer,        \* 800 ms
  calls,                  \* D-Bus calls and lookup timers not yet delivered
  dmSession,              \* m_displayManagerSessionName
  registered,             \* sessions on the DisplayManager D-Bus interface
  logindSessionId,        \* the run whose logind session is remembered
  requests,               \* how many requests the greeter made
  outcome                 \* history: what became of each request

loginVars   == <<request, fingerprintLogin, transitionTimer, outcome>>
lookupVars  == <<reuseLookupPending, reuseLookupGeneration>>
reuseVars   == <<reuseActivationPending, reuseActivationGeneration,
                 reuseActivationTimer, reuseHelperFinished>>
sessionVars == <<dmSession, registered>>
lifeVars    == <<phase, greeter, transitions, autologin>>
restVars    == <<target, authenticated, abortQueued, reuseSessionId, calls,
                 logindSessionId, requests>>
allButCalls ==
  <<authVars, loginVars, lookupVars, reuseVars, sessionVars, lifeVars, target,
    authenticated, abortQueued, reuseSessionId, logindSessionId, requests>>
vars == <<authVars, loginVars, lookupVars, reuseVars, sessionVars, lifeVars, restVars>>

RequestId == 1..MaxRequests

(* "open" while the daemon owes the greeter a result.  The results are     *)
(* loginFailed, loginSucceeded and fingerprintFinished; a cancelled        *)
(* fingerprint login has none, and one whose greeter went away is lost.    *)
Result == {"failed", "succeeded", "finished"}
Outcome == {"none", "open", "cancelled", "lost", "duplicate"} \cup Result

Call == [kind : {"list", "lookupTimer"}, gen : Nat, of : {None}]
   \cup [kind : {"properties", "unlock", "activate"}, gen : Nat, of : LogindSessions]
   \cup [kind : {"sessionByPid", "sessionId"}, gen : Nat, of : {None}]

LoginTypes ==
  /\ request \in RequestId \cup {None}
  /\ target \in RequestId \cup {None}
  /\ requests \in 0..MaxRequests
  /\ outcome \in [RequestId -> Outcome]
  /\ fingerprintLogin \in BOOLEAN
  /\ authenticated \in BOOLEAN
  /\ abortQueued \in BOOLEAN
  /\ transitionTimer \in BOOLEAN

ReuseTypes ==
  /\ reuseLookupPending \in BOOLEAN
  /\ reuseLookupGeneration \in Nat
  /\ reuseSessionId \in LogindSessions \cup {None}
  /\ reuseActivationPending \in BOOLEAN
  /\ reuseActivationGeneration \in Nat
  /\ reuseActivationTimer \in BOOLEAN
  /\ reuseHelperFinished \in BOOLEAN

LifeTypes ==
  /\ phase \in {"new", "started", "stopped"}
  /\ greeter \in {"none", "running", "dead"}
  /\ transitions \in BOOLEAN
  /\ autologin \in BOOLEAN
  /\ dmSession \in Nat \cup {None}
  /\ registered \subseteq Nat
  /\ logindSessionId \in Nat \cup {None}

TypeOK ==
  /\ AuthTypeOK
  /\ LoginTypes
  /\ ReuseTypes
  /\ LifeTypes
  /\ calls \subseteq Call

Init ==
  /\ AuthInit
  /\ phase = "new"
  /\ greeter = "none"
  /\ transitions = FALSE
  /\ autologin = FALSE
  /\ request = None
  /\ target = None
  /\ fingerprintLogin = FALSE
  /\ authenticated = FALSE
  /\ abortQueued = FALSE
  /\ reuseLookupPending = FALSE
  /\ reuseLookupGeneration = 0
  /\ reuseSessionId = None
  /\ reuseActivationPending = FALSE
  /\ reuseActivationGeneration = 0
  /\ reuseActivationTimer = FALSE
  /\ reuseHelperFinished = FALSE
  /\ transitionTimer = FALSE
  /\ calls = {}
  /\ dmSession = None
  /\ registered = {}
  /\ logindSessionId = None
  /\ requests = 0
  /\ outcome = [r \in RequestId |-> "none"]

-----------------------------------------------------------------------------
(* The functions of Display that several handlers call, each over the      *)
(* variables it writes.                                                    *)

(* The outcomes once r is told "result".                                   *)
Told(r, result) ==
  IF r = None THEN outcome
  ELSE [outcome EXCEPT ![r] = IF @ = "open" THEN result ELSE "duplicate"]

(* Variant: the request being served is not forgotten.                     *)
FinishLoginKeepsSocket(success, matched) ==
  /\ transitionTimer' = FALSE
  /\ outcome' = Told(request, IF success THEN "succeeded" ELSE "failed")
  /\ UNCHANGED request
  /\ fingerprintLogin' = FALSE

(* Variant: a rejected password ends like a rejected finger.               *)
FinishLoginAsReader(success, matched) ==
  /\ transitionTimer' = FALSE
  /\ outcome' = Told(request,
       IF success THEN "succeeded" ELSE IF ~matched THEN "finished" ELSE "failed")
  /\ request' = None
  /\ fingerprintLogin' = FALSE

(* finishLogin(success), "matched" being m_authenticated at that point.    *)
FinishLogin(success, matched) ==
  /\ transitionTimer' = FALSE
  /\ outcome' = Told(request,
       IF success THEN "succeeded"
       ELSE IF fingerprintLogin /\ ~matched THEN "finished" ELSE "failed")
  /\ request' = None
  /\ fingerprintLogin' = FALSE

RemoveSession ==
  /\ registered' = registered \ {dmSession}
  /\ dmSession' = None

(* stop() without its finishLogin(false).                                  *)
StopRest ==
  /\ phase' = "stopped"
  /\ greeter' = "none"
  /\ reuseLookupPending' = FALSE
  /\ reuseLookupGeneration' = reuseLookupGeneration + 1
  /\ reuseActivationPending' = FALSE
  /\ reuseActivationGeneration' = reuseActivationGeneration + 1
  /\ reuseActivationTimer' = FALSE
  /\ reuseHelperFinished' = FALSE
  /\ logindSessionId' = None
  /\ calls' = {}
  /\ RemoveSession
  /\ AuthStop
  /\ UNCHANGED <<transitions, autologin, target, authenticated, abortQueued, requests>>

Stop ==
  /\ FinishLogin(FALSE, authenticated)
  /\ StopRest
  /\ UNCHANGED reuseSessionId

(* m_socketServer, m_greeter->start().                                     *)
StartGreeter ==
  /\ greeter' = "running"
  /\ phase' = "started"
  /\ transitions' = FALSE

(* Variant: nothing bounds the wait for logind.                            *)
LookupCallUnbounded(gen) == {[kind |-> "list", gen |-> gen, of |-> None]}

LookupCall(gen) == {[kind |-> "list", gen |-> gen, of |-> None],
                    [kind |-> "lookupTimer", gen |-> gen, of |-> None]}

(* startAuth() past its checks, "gen" being m_reuseLookupGeneration then.  *)
BeginAuth(r, name, gen) ==
  /\ target' = r
  /\ authenticated' = FALSE
  /\ reuseSessionId' = None
  /\ logindSessionId' = None
  /\ reuseActivationPending' = FALSE
  /\ reuseHelperFinished' = FALSE
  /\ reuseActivationGeneration' = reuseActivationGeneration + 1
  /\ reuseActivationTimer' = FALSE
  /\ dmSession' = name
  /\ IF ReuseSession
       THEN /\ reuseLookupPending' = TRUE
            /\ reuseLookupGeneration' = gen + 2
            /\ calls' = calls \cup LookupCall(gen + 2)
       ELSE /\ reuseLookupPending' = FALSE
            /\ reuseLookupGeneration' = gen + 1
            /\ UNCHANGED calls

(* Starts the lookup, or the helper of a display that reuses no session.   *)
StartAuth(r, name, finger, gen) ==
  /\ BeginAuth(r, name, gen)
  /\ IF ReuseSession THEN UNCHANGED authVars ELSE AuthStart(TRUE, finger)

(* finishReusableSessionLookup(): the helper opens no session of its own   *)
(* when there is one to reuse.                                             *)
FinishLookup(session) ==
  /\ reuseLookupPending' = FALSE
  /\ reuseSessionId' = session
  /\ AuthStart(session = None, fingerprintLogin)
  /\ UNCHANGED <<loginVars, reuseLookupGeneration, reuseVars, sessionVars, lifeVars,
                 target, authenticated, abortQueued, logindSessionId, requests>>

(* activateReusableSession(); "kept" are the calls still outstanding.      *)
ActivateReusable(kept) ==
  LET gen == reuseActivationGeneration + 1
  IN  /\ reuseActivationGeneration' = gen
      /\ reuseActivationPending' = TRUE
      /\ reuseActivationTimer' = TRUE
      /\ calls' = kept \cup {[kind |-> "unlock", gen |-> gen, of |-> reuseSessionId]}
      /\ UNCHANGED reuseHelperFinished

(* Variant: a helper that finished first is forgotten.                     *)
FinishActivationNoStop(success, kept) ==
  /\ reuseActivationPending
  /\ FinishLogin(success, authenticated)
  /\ reuseSessionId' = IF success THEN reuseSessionId ELSE None
  /\ reuseActivationPending' = FALSE
  /\ reuseActivationTimer' = FALSE
  /\ calls' = kept
  /\ UNCHANGED <<authVars, lookupVars, reuseActivationGeneration, reuseHelperFinished,
                 sessionVars, lifeVars, target, authenticated, abortQueued,
                 logindSessionId, requests>>

(* finishReusableSessionActivation(); stop() runs once the helper is gone. *)
FinishActivation(success, kept) ==
  /\ reuseActivationPending
  /\ FinishLogin(success, authenticated)
  /\ reuseSessionId' = IF success THEN reuseSessionId ELSE None
  /\ IF reuseHelperFinished
       THEN StopRest
       ELSE /\ reuseActivationPending' = FALSE
            /\ reuseActivationTimer' = FALSE
            /\ calls' = kept
            /\ UNCHANGED <<authVars, lookupVars, reuseActivationGeneration, reuseHelperFinished,
                           sessionVars, lifeVars, target, authenticated, abortQueued,
                           logindSessionId, requests>>

Idle == ~IsActive /\ ~reuseLookupPending /\ request = None
Listening == fingerprintLogin /\ ~authenticated

(* Variant: the reader's helper is left running.                           *)
CancelHelperLeavesIt == UNCHANGED <<authVars, sessionVars>>

(* cancelFingerprintLogin() over the variables of Auth and of the session  *)
(* name; the helper's exit is handled inside it and has no further effect. *)
CancelHelper ==
  /\ LateResults \/ inbox = <<>>
  /\ AuthStop
  /\ IF IsActive THEN RemoveSession ELSE UNCHANGED sessionVars

(* Variant: the pending lookup survives the cancel.                        *)
CancelKeepsLookup(result) ==
  /\ CancelHelper
  /\ fingerprintLogin' = FALSE
  /\ outcome' = Told(request, result)
  /\ request' = None
  /\ UNCHANGED <<lookupVars, transitionTimer, reuseVars, lifeVars, target, authenticated,
                 reuseSessionId, calls, logindSessionId, requests>>

(* A cancel on its own; "result" is what the request ends with.            *)
CancelFingerprintLogin(result) ==
  /\ reuseLookupPending' = FALSE
  /\ reuseLookupGeneration' = reuseLookupGeneration + 1
  /\ CancelHelper
  /\ fingerprintLogin' = FALSE
  /\ outcome' = Told(request, result)
  /\ request' = None
  /\ UNCHANGED <<transitionTimer, reuseVars, lifeVars, target, authenticated,
                 reuseSessionId, calls, logindSessionId, requests>>

-----------------------------------------------------------------------------
(* Display::start() and displayServerStarted(): the greeter, or, when an   *)
(* autologin is due, the autologin - before the display server of a        *)
(* Wayland or x11-user display, after that of rootful X11.  A configured   *)
(* autologin is not due when an earlier display of the daemon had it.      *)

StartWithGreeter ==
  /\ phase = "new"
  /\ StartGreeter
  /\ UNCHANGED <<authVars, loginVars, lookupVars, reuseVars, sessionVars, autologin, restVars>>

StartAutologin ==
  /\ phase = "new"
  /\ Autologin
  /\ autologin' = TRUE
  /\ phase' = "started"
  /\ StartAuth(None, 0, FALSE, reuseLookupGeneration)
  /\ UNCHANGED <<loginVars, greeter, transitions, abortQueued, requests, registered>>

(* attemptAutologin() finds no session to start, or startAuth() refuses.   *)
AutologinImpossible ==
  /\ phase = "new"
  /\ Autologin
  /\ autologin' = FALSE
  /\ StartGreeter
  /\ UNCHANGED <<authVars, loginVars, lookupVars, reuseVars, sessionVars, restVars>>

(* DisplayServer::stopped, from a crash of the display server.             *)
DisplayServerStops ==
  /\ phase = "started"
  /\ Stop

-----------------------------------------------------------------------------
(* The greeter.                                                            *)

NewRequest ==
  /\ phase = "started"
  /\ greeter = "running"
  /\ requests < MaxRequests
  /\ requests' = requests + 1

AnnounceTransitions ==
  /\ phase = "started"
  /\ greeter = "running"
  /\ transitions' = TRUE
  /\ UNCHANGED <<authVars, loginVars, lookupVars, reuseVars, sessionVars, phase,
                 greeter, autologin, restVars>>

(* login(): a request is served unless another one is; a fingerprint login *)
(* that still listens gives way.                                           *)
LoginRejected ==
  /\ NewRequest
  /\ ~Listening
  /\ ~Idle
  /\ outcome' = [outcome EXCEPT ![requests'] = "failed"]
  /\ UNCHANGED <<authVars, request, fingerprintLogin, transitionTimer, lookupVars, reuseVars,
                 sessionVars, lifeVars, target, authenticated, abortQueued, reuseSessionId,
                 calls, logindSessionId>>

(* What login() and the cancel before it leave, the request accepted or    *)
(* not: "superseded" is the fingerprint request that gave way.             *)
Superseded(result) ==
  LET old == IF Listening THEN Told(request, "cancelled") ELSE outcome
  IN  outcome' = [old EXCEPT ![requests'] = result]

(* The cancel, if any, has already stopped the helper when AuthStart runs. *)
LoginAccepted ==
  /\ NewRequest
  /\ Listening \/ Idle
  /\ Listening => LateResults \/ inbox = <<>>
  /\ request' = requests'
  /\ fingerprintLogin' = (fingerprintLogin /\ ~Listening)
  /\ Superseded("open")
  /\ BeginAuth(requests', requests',
               reuseLookupGeneration + (IF Listening THEN 1 ELSE 0))
  /\ IF ~ReuseSession THEN AuthStart(TRUE, FALSE)
     ELSE IF Listening THEN AuthStop
     ELSE UNCHANGED authVars
  /\ registered' = IF Listening /\ IsActive THEN registered \ {dmSession} ELSE registered
  /\ UNCHANGED <<transitionTimer, lifeVars, abortQueued>>

(* login() as the user "gxdm", or with a session that startAuth() refuses. *)
LoginRefused ==
  /\ NewRequest
  /\ Listening \/ Idle
  /\ request' = None
  /\ fingerprintLogin' = (fingerprintLogin /\ ~Listening)
  /\ Superseded("failed")
  /\ IF Listening
       THEN /\ CancelHelper
            /\ reuseLookupPending' = FALSE
            /\ reuseLookupGeneration' = reuseLookupGeneration + 1
       ELSE UNCHANGED <<authVars, lookupVars, sessionVars>>
  /\ \/ UNCHANGED authenticated /\ transitionTimer' = FALSE
     \/ authenticated' = FALSE /\ UNCHANGED transitionTimer
  /\ UNCHANGED <<reuseVars, lifeVars, target, abortQueued, reuseSessionId, calls, logindSessionId>>

FingerprintAccepted ==
  /\ NewRequest
  /\ Idle
  /\ request' = requests'
  /\ fingerprintLogin' = TRUE
  /\ outcome' = [outcome EXCEPT ![requests'] = "open"]
  /\ StartAuth(requests', requests', TRUE, reuseLookupGeneration)
  /\ UNCHANGED <<transitionTimer, lifeVars, abortQueued, registered>>

FingerprintRefused ==
  /\ NewRequest
  /\ outcome' = [outcome EXCEPT ![requests'] = "finished"]
  /\ \/ UNCHANGED <<authenticated, fingerprintLogin>>         \* the first check
     \/ Idle /\ authenticated' = FALSE /\ fingerprintLogin' = FALSE  \* startAuth()
  /\ UNCHANGED <<authVars, request, transitionTimer, lookupVars, reuseVars, sessionVars,
                 lifeVars, target, abortQueued, reuseSessionId, calls, logindSessionId>>

FingerprintCancel ==
  /\ phase = "started"
  /\ greeter = "running"
  /\ Listening
  /\ request # None
  /\ CancelFingerprintLogin("cancelled")
  /\ UNCHANGED abortQueued

(* Variant: whether there is a session to reuse is not asked.              *)
CompleteTransitionUnguarded ==
  /\ transitionTimer' = FALSE
  /\ ActivateReusable(calls)
  /\ Resume(authenticationPending)
  /\ UNCHANGED <<run, helper, opensSession, fingerprint, accepted, exitStatus, inbox,
                 request, fingerprintLogin, outcome, lookupVars, sessionVars, lifeVars,
                 target, authenticated, abortQueued, reuseSessionId, logindSessionId, requests>>

(* completeTransition(): a session to reuse is activated, and the helper   *)
(* gets the reply it has been waiting for.                                 *)
CompleteTransition ==
  /\ transitionTimer' = FALSE
  /\ IF reuseSessionId # None
       THEN ActivateReusable(calls)
       ELSE UNCHANGED <<reuseVars, calls>>
  /\ Resume(authenticationPending)
  /\ UNCHANGED <<run, helper, opensSession, fingerprint, accepted, exitStatus, inbox,
                 request, fingerprintLogin, outcome, lookupVars, sessionVars, lifeVars,
                 target, authenticated, abortQueued, reuseSessionId, logindSessionId, requests>>

TransitionReady ==
  /\ phase = "started"
  /\ greeter = "running"
  /\ transitionTimer
  /\ request # None
  /\ CompleteTransition

TransitionTimeout ==
  /\ phase = "started"
  /\ transitionTimer
  /\ CompleteTransition

(* The greeter dies: its socket is deleted, which clears m_socket.         *)
GreeterDies ==
  /\ phase = "started"
  /\ greeter = "running"
  /\ greeter' = "dead"
  /\ outcome' = Told(request, "lost")
  /\ request' = None
  /\ UNCHANGED <<authVars, fingerprintLogin, transitionTimer, lookupVars, reuseVars,
                 sessionVars, phase, transitions, autologin, restVars>>

(* Greeter::failed.                                                        *)
GreeterFailed ==
  /\ phase = "started"
  /\ greeter = "dead"
  /\ Stop

-----------------------------------------------------------------------------
(* Replies of logind, in any order, and the timers of the reuse lookup.  A *)
(* reply to a call of an earlier generation is dropped.                    *)

Delivered(kind) == phase = "started" /\ kind \in calls

Drop(c) ==
  /\ calls' = calls \ {c}
  /\ UNCHANGED allButCalls

(* Variant: a lookup that has ended is not told from one that has not.     *)
LookupGenerationOnly(c) == reuseLookupGeneration = c.gen

LookupCurrent(c) == reuseLookupPending /\ reuseLookupGeneration = c.gen

ActivationCurrent(c) ==
  reuseActivationPending /\ reuseActivationGeneration = c.gen /\ reuseSessionId = c.of

LookupTimeout(c) ==
  /\ Delivered(c)
  /\ c.kind = "lookupTimer"
  /\ IF LookupCurrent(c)
       THEN FinishLookup(None) /\ calls' = calls \ {c}
       ELSE Drop(c)

(* ListSessions: the sessions of the user are asked for their properties.  *)
ListReply(c) ==
  /\ Delivered(c)
  /\ c.kind = "list"
  /\ IF ~LookupCurrent(c) THEN Drop(c)
     ELSE \E candidates \in SUBSET LogindSessions :
            IF candidates = {}           \* none, or an error
            THEN FinishLookup(None) /\ calls' = calls \ {c}
            ELSE /\ calls' = (calls \ {c}) \cup
                      [kind : {"properties"}, gen : {c.gen}, of : candidates]
                 /\ UNCHANGED allButCalls

(* GetAll: the first reusable session is taken; without one the lookup     *)
(* ends with the last reply ("remaining" are the replies still due).       *)
PropertiesReply(c) ==
  LET remaining == {d \in calls \ {c} : d.kind = "properties" /\ d.gen = c.gen}
  IN  /\ Delivered(c)
      /\ c.kind = "properties"
      /\ IF ~LookupCurrent(c) THEN Drop(c)
         ELSE \/ FinishLookup(c.of) /\ calls' = calls \ {c}
              \/ /\ remaining = {}
                 /\ FinishLookup(None) /\ calls' = calls \ {c}
              \/ remaining # {} /\ Drop(c)

UnlockReply(c) ==
  /\ Delivered(c)
  /\ c.kind = "unlock"
  /\ IF ~ActivationCurrent(c) THEN Drop(c)
     ELSE \/ FinishActivation(FALSE, calls \ {c})
          \/ /\ calls' = (calls \ {c}) \cup {[c EXCEPT !.kind = "activate"]}
             /\ UNCHANGED allButCalls

ActivateReply(c) ==
  /\ Delivered(c)
  /\ c.kind = "activate"
  /\ IF ActivationCurrent(c)
       THEN \E success \in BOOLEAN : FinishActivation(success, calls \ {c})
       ELSE Drop(c)

ActivationTimeout ==
  /\ phase = "started"
  /\ reuseActivationTimer
  /\ FinishActivation(FALSE, calls)

(* resolveLogindSession(), for the helper c.gen: GetSessionByPID, then Id. *)
HelperIs(c) == helper # "none" /\ run = c.gen

SessionByPidReply(c) ==
  /\ Delivered(c)
  /\ c.kind = "sessionByPid"
  /\ \/ Drop(c)                          \* an error, or another helper
     \/ /\ HelperIs(c)
        /\ calls' = (calls \ {c}) \cup {[c EXCEPT !.kind = "sessionId"]}
        /\ UNCHANGED allButCalls

SessionIdReply(c) ==
  /\ Delivered(c)
  /\ c.kind = "sessionId"
  /\ \/ Drop(c)
     \/ /\ HelperIs(c)
        /\ logindSessionId' = c.gen
        /\ calls' = calls \ {c}
        /\ UNCHANGED <<authVars, loginVars, lookupVars, reuseVars, sessionVars, lifeVars,
                       target, authenticated, abortQueued, reuseSessionId, requests>>

-----------------------------------------------------------------------------
(* What the helper tells Auth.                                             *)

(* Variant: a fingerprint login's prompt does not end the login.           *)
RequestOnlyIgnored ==
  /\ phase = "started"
  /\ \E type \in RequestType :
        ReceiveRequest(type, type = "REQUEST" /\ ~fingerprintLogin)
  /\ UNCHANGED <<loginVars, lookupVars, reuseVars, sessionVars, lifeVars, restVars>>

(* slotRequestChanged(): the password answers a prompt, or the second of   *)
(* two; three get no answer.  A prompt of a fingerprint login is never     *)
(* answered; it ends the login a moment later.                             *)
RequestChanged ==
  /\ phase = "started"
  /\ \E type \in RequestType :
        ReceiveRequest(type, type = "REQUEST" /\ ~fingerprintLogin)
  /\ abortQueued' = (abortQueued \/ fingerprintLogin)
  /\ UNCHANGED <<loginVars, lookupVars, reuseVars, sessionVars, lifeVars, target,
                 authenticated, reuseSessionId, calls, logindSessionId, requests>>

AbortFingerprint ==
  /\ phase = "started"
  /\ abortQueued
  /\ abortQueued' = FALSE
  /\ IF Listening
       THEN CancelFingerprintLogin("finished")
       ELSE UNCHANGED <<authVars, loginVars, lookupVars, reuseVars, sessionVars, lifeVars,
                        target, authenticated, reuseSessionId, calls, logindSessionId, requests>>

(* slotAuthenticationFinished(user, true) with beginTransition(): only a   *)
(* greeter that is there and announced transitions is waited for.          *)
AuthenticationSucceeded ==
  LET transition == request # None /\ transitions
  IN  /\ phase = "started"
      /\ ReceiveAccepted(transition)
      /\ authenticated' = TRUE
      /\ transitionTimer' = (transitionTimer \/ transition)
      /\ IF reuseSessionId # None /\ ~transition
           THEN ActivateReusable(calls)
           ELSE UNCHANGED <<reuseVars, calls>>
      /\ registered' = IF reuseSessionId = None /\ dmSession # None
                         THEN registered \cup {dmSession} ELSE registered
      /\ UNCHANGED <<request, fingerprintLogin, outcome, lookupVars, dmSession, lifeVars,
                     target, abortQueued, reuseSessionId, logindSessionId, requests>>

(* Variant: the verdict is not looked at.                                  *)
AuthenticationAlwaysSucceeds ==
  /\ phase = "started"
  /\ ~autologin
  /\ ReceiveRejected
  /\ authenticated' = TRUE
  /\ FinishLogin(TRUE, TRUE)
  /\ UNCHANGED <<lookupVars, reuseVars, sessionVars, lifeVars, target, abortQueued,
                 reuseSessionId, calls, logindSessionId, requests>>

AuthenticationFailed ==
  /\ phase = "started"
  /\ ~autologin
  /\ ReceiveRejected
  /\ authenticated' = FALSE
  /\ FinishLogin(FALSE, FALSE)
  /\ UNCHANGED <<lookupVars, reuseVars, sessionVars, lifeVars, target, abortQueued,
                 reuseSessionId, calls, logindSessionId, requests>>

(* handleAutologinFailure(): the greeter, on a display server that is up   *)
(* (rootful X11) or comes up now.                                          *)
AutologinFailed ==
  /\ phase = "started"
  /\ autologin
  /\ ReceiveRejected
  /\ authenticated' = FALSE
  /\ autologin' = FALSE
  /\ \/ StartGreeter
     \/ ~RootfulX11 /\ phase' = "stopped" /\ UNCHANGED <<greeter, transitions>>
  /\ UNCHANGED <<loginVars, lookupVars, reuseVars, sessionVars, target, abortQueued,
                 reuseSessionId, calls, logindSessionId, requests>>

(* slotSessionStarted()                                                    *)
SessionStarted ==
  /\ phase = "started"
  /\ ReceiveStatus("OPENED")
  /\ FinishLogin(TRUE, authenticated)
  /\ greeter' = "none"
  /\ calls' = IF IsActive
                THEN calls \cup {[kind |-> "sessionByPid", gen |-> run, of |-> None]}
                ELSE calls
  /\ UNCHANGED <<lookupVars, reuseVars, sessionVars, phase, transitions, autologin, target,
                 authenticated, abortQueued, reuseSessionId, logindSessionId, requests>>

SessionNotStarted ==
  /\ phase = "started"
  /\ ReceiveStatus("NOT_OPENED")
  /\ FinishLogin(FALSE, authenticated)
  /\ RemoveSession
  /\ UNCHANGED <<lookupVars, reuseVars, lifeVars, restVars>>

(* Variant: the end of a session is taken for a failed authentication.     *)
HelperFinishedNeverStops ==
  /\ phase = "started"
  /\ HelperReaped
  /\ RemoveSession
  /\ IF request # None THEN FinishLogin(FALSE, authenticated) ELSE UNCHANGED loginVars
  /\ UNCHANGED <<lookupVars, reuseVars, lifeVars, restVars>>

(* slotHelperFinished(): waits for a pending activation; otherwise a       *)
(* request that is still open fails, and unless the helper reports an      *)
(* authentication error the display stops.                                 *)
HelperFinished ==
  /\ phase = "started"
  /\ HelperReaped
  /\ IF reuseActivationPending
       THEN /\ reuseHelperFinished' = TRUE
            /\ RemoveSession
            /\ UNCHANGED <<loginVars, lookupVars, reuseActivationPending,
                           reuseActivationGeneration, reuseActivationTimer, lifeVars, restVars>>
     ELSE IF exitStatus = "authError"
       THEN /\ RemoveSession
            /\ IF request # None THEN FinishLogin(FALSE, authenticated) ELSE UNCHANGED loginVars
            /\ UNCHANGED <<lookupVars, reuseVars, lifeVars, restVars>>
     ELSE Stop

-----------------------------------------------------------------------------
(* The helper moves by itself; a stopped display has none.                 *)
Helper ==
  /\ phase = "started"
  /\ HelperNext
  /\ UNCHANGED <<loginVars, lookupVars, reuseVars, sessionVars, lifeVars, restVars>>

Greeter ==
  \/ AnnounceTransitions
  \/ LoginRejected \/ LoginAccepted \/ LoginRefused
  \/ FingerprintAccepted \/ FingerprintRefused \/ FingerprintCancel
  \/ TransitionReady
  \/ GreeterDies

Logind == \E c \in calls :
  \/ ListReply(c) \/ PropertiesReply(c)
  \/ UnlockReply(c) \/ ActivateReply(c)
  \/ SessionByPidReply(c) \/ SessionIdReply(c)

Timers ==
  \/ TransitionTimeout
  \/ ActivationTimeout
  \/ AbortFingerprint
  \/ \E c \in calls : LookupTimeout(c)

DeliverFromHelper ==
  \/ RequestChanged
  \/ AuthenticationSucceeded \/ AuthenticationFailed \/ AutologinFailed
  \/ SessionStarted \/ SessionNotStarted
  \/ HelperFinished

Start == StartWithGreeter \/ StartAutologin \/ AutologinImpossible

Next ==
  \/ Start
  \/ Greeter
  \/ GreeterFailed
  \/ DisplayServerStops
  \/ Logind
  \/ Timers
  \/ DeliverFromHelper
  \/ Helper

Spec == Init /\ [][Next]_vars

(***************************************************************************)
(* Fairness.  The daemon's event loop delivers what has arrived and its    *)
(* timers fire; a helper that is not waiting runs; PAM gives its verdict   *)
(* in the end, however often it asks first.  Nothing is assumed of logind, *)
(* of the greeter, or of how long a user session lasts.                    *)
(***************************************************************************)
PamDecides ==
  /\ phase = "started"
  /\ PamAccepts \/ PamRejects
  /\ UNCHANGED <<loginVars, lookupVars, reuseVars, sessionVars, lifeVars, restVars>>

HelperRuns ==
  /\ phase = "started"
  /\ HelperProgress
  /\ UNCHANGED <<loginVars, lookupVars, reuseVars, sessionVars, lifeVars, restVars>>

Fairness ==
  /\ WF_vars(DeliverFromHelper)
  /\ WF_vars(GreeterFailed)
  /\ WF_vars(TransitionTimeout)
  /\ WF_vars(ActivationTimeout)
  /\ WF_vars(AbortFingerprint)
  /\ WF_vars(\E c \in calls : LookupTimeout(c))
  /\ WF_vars(HelperRuns)
  /\ SF_vars(PamDecides)

FairSpec == Spec /\ Fairness
=============================================================================
