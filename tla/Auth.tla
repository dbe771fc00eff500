-------------------------------- MODULE Auth --------------------------------
(***************************************************************************)
(* Auth (src/auth/Auth.cpp) and the gxdm-helper process it runs            *)
(* (src/helper/HelperApp.cpp), joined by one local socket.                 *)
(*                                                                         *)
(* The owner of an Auth object - the daemon's Display, the lock screen -   *)
(* EXTENDS this module: it calls AuthStart, AuthStop, Defer and Resume     *)
(* from its own actions, and decides in its own actions what each message  *)
(* at the head of the inbox, and the exit of the helper, mean to it.       *)
(*                                                                         *)
(* Abstracted: what a prompt asks, what a reply carries, the environment,  *)
(* and the number of seconds AuthStop blocks.  AuthStop blocks the owner's *)
(* event loop, so whatever the helper still sends while it is being        *)
(* stopped is a step of the helper just before the stop.                   *)
(***************************************************************************)
EXTENDS Naturals, Sequences

CONSTANTS
  SessionExits,       \* exit codes a user session may end with
  MayFailToStart,     \* gxdm-helper may fail to be executed at all
  MayAskToChange,     \* PAM may ask to change an expired password
  LateResults         \* the owner may stop the helper, or notice its exit,
                      \* while a message of that helper is still unread

(* Auth::HelperExitStatus; the display server and TTY errors are "other".  *)
ExitStatus == {"success", "authError", "sessionError", "other"}

ASSUME AuthAssumption ==
  /\ SessionExits \subseteq ExitStatus
  /\ MayFailToStart \in BOOLEAN
  /\ MayAskToChange \in BOOLEAN
  /\ LateResults \in BOOLEAN

VARIABLES
  run,                    \* how many helpers were started; names the last one
  helper,                 \* where that helper is (HelperState)
  opensSession,           \* it was given --start
  fingerprint,            \* it was given --fingerprint
  accepted,               \* PAM has accepted the user in this run
  exitStatus,             \* what it exited with, once "exited"
  inbox,                  \* unread messages of the helper on Auth's socket
  outbox,                 \* unread replies to the helper
  deferStart,             \* the owner asked to hold the AUTHENTICATED reply
  authenticationPending   \* that reply is owed to the helper

authVars == <<run, helper, opensSession, fingerprint, accepted, exitStatus,
              inbox, outbox, deferStart, authenticationPending>>

HelperState ==
  {"none", "starting", "auth", "prompt", "waitReply", "opening",
   "opened", "notOpened", "session", "exited"}

(* The helper is alive and its socket is the one Auth writes to.           *)
Connected == helper \in HelperState \ {"none", "starting", "exited"}

(* A REQUEST has one or two prompts, or the three of changePassRequest.    *)
RequestType == {"REQUEST", "CHANGE_REQUEST"}
Message == [type : RequestType \cup {"AUTHENTICATED", "REJECTED", "OPENED", "NOT_OPENED"},
            run : Nat]
Reply == {"REQUEST", "AUTHENTICATED", "SESSION_STATUS"}

AuthTypeOK ==
  /\ run \in Nat
  /\ helper \in HelperState
  /\ opensSession \in BOOLEAN
  /\ fingerprint \in BOOLEAN
  /\ accepted \in BOOLEAN
  /\ exitStatus \in ExitStatus
  /\ inbox \in Seq(Message)
  /\ outbox \in Seq(Reply)
  /\ deferStart \in BOOLEAN
  /\ authenticationPending \in BOOLEAN

AuthInit ==
  /\ run = 0
  /\ helper = "none"
  /\ opensSession = FALSE
  /\ fingerprint = FALSE
  /\ accepted = FALSE
  /\ exitStatus = "success"
  /\ inbox = <<>>
  /\ outbox = <<>>
  /\ deferStart = FALSE
  /\ authenticationPending = FALSE

-----------------------------------------------------------------------------
(* Operations the owner calls.                                             *)

(* The QProcess is starting, running, or dead but not reaped.              *)
IsActive == helper # "none"

AuthStart(opens, finger) ==
  /\ run' = run + 1
  /\ helper' = "starting"
  /\ opensSession' = opens
  /\ fingerprint' = finger
  /\ accepted' = FALSE
  /\ outbox' = <<>>
  /\ deferStart' = FALSE
  /\ authenticationPending' = FALSE
  /\ UNCHANGED <<exitStatus, inbox>>

(* SIGTERM, then SIGKILL: the helper is gone when stop() returns.  Its     *)
(* socket stays readable: nothing drops what it had sent.                  *)
AuthStop ==
  /\ helper' = "none"
  /\ outbox' = <<>>
  /\ deferStart' = FALSE
  /\ authenticationPending' = FALSE
  /\ UNCHANGED <<run, opensSession, fingerprint, accepted, exitStatus, inbox>>

(* A reply reaches the helper only over a live connection.                 *)
Sent(reply) == IF Connected THEN Append(outbox, reply) ELSE outbox

(* resumeSessionStart(), with the value "owed" of authenticationPending.   *)
Resume(owed) ==
  /\ deferStart' = FALSE
  /\ authenticationPending' = FALSE
  /\ outbox' = IF owed THEN Sent("AUTHENTICATED") ELSE outbox

-----------------------------------------------------------------------------
(* Messages and events the owner handles.                                  *)

NextMessage == Head(inbox)

Receive(type) ==
  /\ inbox # <<>>
  /\ NextMessage.type = type
  /\ inbox' = Tail(inbox)

(* Auth::Private::childExited() up to the signal finished(exitStatus).     *)
HelperReaped ==
  /\ helper = "exited"
  /\ LateResults \/ inbox = <<>>
  /\ helper' = "none"
  /\ outbox' = <<>>
  /\ deferStart' = FALSE
  /\ authenticationPending' = FALSE
  /\ UNCHANGED <<run, opensSession, fingerprint, accepted, exitStatus, inbox>>

(* Variant: the reply is sent although it stays owed.                      *)
ReceiveAcceptedAnswersTwice(defers) ==
  /\ Receive("AUTHENTICATED")
  /\ deferStart' = (defers \/ deferStart)
  /\ authenticationPending' = deferStart'
  /\ outbox' = Sent("AUTHENTICATED")
  /\ UNCHANGED <<run, helper, opensSession, fingerprint, accepted, exitStatus>>

(* AUTHENTICATED with a user: the reply goes out at once, unless the owner *)
(* deferred it ("defers") while it handled the signal.                     *)
ReceiveAccepted(defers) ==
  /\ Receive("AUTHENTICATED")
  /\ IF defers \/ deferStart
       THEN /\ deferStart' = TRUE
            /\ authenticationPending' = TRUE
            /\ UNCHANGED outbox
       ELSE Resume(TRUE)
  /\ UNCHANGED <<run, helper, opensSession, fingerprint, accepted, exitStatus>>

(* AUTHENTICATED with an empty user.                                       *)
ReceiveRejected ==
  /\ Receive("REJECTED")
  /\ UNCHANGED <<run, helper, opensSession, fingerprint, accepted, exitStatus,
                 outbox, deferStart, authenticationPending>>

(* SESSION_STATUS is answered before the signal is emitted.                *)
ReceiveStatus(type) ==
  /\ Receive(type)
  /\ outbox' = Sent("SESSION_STATUS")
  /\ UNCHANGED <<run, helper, opensSession, fingerprint, accepted, exitStatus,
                 deferStart, authenticationPending>>

(* REQUEST, which the owner answers or leaves alone.                       *)
ReceiveRequest(type, answers) ==
  /\ Receive(type)
  /\ outbox' = IF answers THEN Sent("REQUEST") ELSE outbox
  /\ UNCHANGED <<run, helper, opensSession, fingerprint, accepted, exitStatus,
                 deferStart, authenticationPending>>

-----------------------------------------------------------------------------
(* Steps of the helper process.                                            *)

Send(type) == inbox' = Append(inbox, [type |-> type, run |-> run])

ownerOnly == <<run, opensSession, fingerprint, deferStart, authenticationPending>>

(* What the owner had sent to a helper that exits is lost with it.         *)
Exits(status) ==
  /\ helper' = "exited"
  /\ exitStatus' = status
  /\ outbox' = <<>>

(* connectToServer() and HELLO: setSocket() replaces the previous socket,  *)
(* and what was still unread on it is never read.                          *)
HelperConnects ==
  /\ helper = "starting"
  /\ helper' = "auth"
  /\ inbox' = <<>>
  /\ UNCHANGED <<ownerOnly, accepted, exitStatus, outbox>>

(* FailedToStart: QProcess emits errorOccurred() and never finished().     *)
HelperFailsToStart ==
  /\ MayFailToStart
  /\ helper = "starting"
  /\ helper' = "none"
  /\ UNCHANGED <<ownerOnly, accepted, exitStatus, inbox, outbox>>

HelperAsks ==
  /\ helper = "auth"
  /\ helper' = "prompt"
  /\ \/ Send("REQUEST")
     \/ MayAskToChange /\ Send("CHANGE_REQUEST")
  /\ UNCHANGED <<ownerOnly, accepted, exitStatus, outbox>>

PamAccepts ==
  /\ helper = "auth"
  /\ helper' = "waitReply"
  /\ accepted' = TRUE
  /\ Send("AUTHENTICATED")
  /\ UNCHANGED <<ownerOnly, exitStatus, outbox>>

PamRejects ==
  /\ helper = "auth"
  /\ Exits("authError")
  /\ Send("REJECTED")
  /\ UNCHANGED <<ownerOnly, accepted>>

(* The helper is blocked in receive().  A reply with another opcode than   *)
(* the awaited one is logged and otherwise taken as an empty reply.        *)
HelperReads ==
  /\ outbox # <<>>
  /\ \/ helper = "waitReply" /\ ~opensSession /\ Exits("success")
     \/ helper = "notOpened" /\ Exits("sessionError")
     \/ /\ \/ helper = "prompt" /\ helper' = "auth"
           \/ helper = "waitReply" /\ opensSession /\ helper' = "opening"
           \/ helper = "opened" /\ helper' = "session"
        /\ outbox' = Tail(outbox)
        /\ UNCHANGED exitStatus
  /\ UNCHANGED <<ownerOnly, accepted, inbox>>

OpensSession ==
  /\ helper = "opening"
  /\ \/ helper' = "opened" /\ Send("OPENED")
     \/ helper' = "notOpened" /\ Send("NOT_OPENED")
  /\ UNCHANGED <<ownerOnly, accepted, exitStatus, outbox>>

(* sessionFinished(): the helper exits with the session's own exit code.   *)
SessionEnds ==
  /\ helper = "session"
  /\ \E code \in SessionExits : Exits(code)
  /\ UNCHANGED <<ownerOnly, accepted, inbox>>

HelperCrashes ==
  /\ helper \notin {"none", "exited"}
  /\ Exits("other")
  /\ UNCHANGED <<ownerOnly, accepted, inbox>>

(* What a helper does by itself when nothing is wrong with it.             *)
HelperProgress ==
  \/ HelperConnects \/ HelperReads \/ OpensSession

HelperNext ==
  \/ HelperProgress
  \/ HelperAsks
  \/ PamAccepts
  \/ PamRejects
  \/ SessionEnds
  \/ HelperCrashes
  \/ HelperFailsToStart
=============================================================================
