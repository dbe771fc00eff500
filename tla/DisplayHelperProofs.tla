-------------------------- MODULE DisplayHelperProofs --------------------------
(***************************************************************************)
(* What Display and its helper owe each other, for any number of requests  *)
(* and sessions, when no message of a helper outlives it: the replies go   *)
(* out as they are due, success is announced only of a login PAM accepted, *)
(* and a login never loses its helper.                                     *)
(***************************************************************************)
EXTENDS DisplayProofs

-----------------------------------------------------------------------------
(* The dialogue of Auth and its helper: at most one message or one reply   *)
(* is under way, and it is what the helper is waiting for.                 *)

Unread == IF inbox = <<>> THEN "nothing" ELSE NextMessage.type
Owed == IF outbox = <<>> THEN "nothing" ELSE Head(outbox)
Silent == Unread = "nothing" /\ Owed = "nothing"

Asking == {"starting", "auth", "prompt"}
Opening == {"opening", "opened", "notOpened", "session"}

OneOf(types, reply) ==
  \/ Unread \in types /\ Owed = "nothing"
  \/ Unread = "nothing" /\ Owed = reply

Exchange ==
  \/ Silent
  \/ helper = "prompt" /\ OneOf(RequestType, "REQUEST")
  \/ helper = "waitReply" /\ OneOf({"AUTHENTICATED"}, "AUTHENTICATED")
  \/ helper = "opened" /\ OneOf({"OPENED"}, "SESSION_STATUS")
  \/ helper = "notOpened" /\ OneOf({"NOT_OPENED"}, "SESSION_STATUS")
  \/ helper = "exited" /\ Owed = "nothing"

(* What each state of the helper, and each message, says of the verdict.   *)
Known ==
  /\ helper \in Asking => ~accepted
  /\ helper \in {"waitReply"} \cup Opening => accepted
  /\ helper \in Opening => opensSession
  /\ Unread = "REJECTED" => ~accepted
  /\ Unread = "AUTHENTICATED" => accepted /\ (helper = "exited" => exitStatus # "authError")
  /\ Unread \in {"OPENED", "NOT_OPENED"} => accepted /\ opensSession

Deferred ==
  /\ deferStart = authenticationPending
  /\ deferStart => helper \in {"waitReply", "exited"} /\ Silent

Short == Len(inbox) <= 1 /\ Len(outbox) <= 1

AuthInv == Short /\ Exchange /\ Known /\ Deferred

MessageType == RequestType \cup {"AUTHENTICATED", "REJECTED", "OPENED", "NOT_OPENED"}

LEMMA Queues ==
  ASSUME AuthTypeOK
  PROVE  /\ inbox = <<>> <=> Unread = "nothing"
         /\ outbox = <<>> <=> Owed = "nothing"
         /\ Unread \in MessageType \cup {"nothing"}
         /\ Owed \in Reply \cup {"nothing"}
         /\ helper \in HelperState
         /\ deferStart \in BOOLEAN /\ authenticationPending \in BOOLEAN
<1>1. inbox \in Seq(Message) /\ outbox \in Seq(Reply)
  BY DEF AuthTypeOK
<1>2. inbox # <<>> => NextMessage.type \in MessageType
  <2>1. inbox # <<>> => Head(inbox) \in Message
    BY <1>1
  <2> QED
    BY <2>1 DEF NextMessage, Message, MessageType
<1>3. outbox # <<>> => Head(outbox) \in Reply
  BY <1>1
<1>4. "nothing" \notin MessageType /\ "nothing" \notin Reply
  BY DEF MessageType, RequestType, Reply
<1>5. /\ inbox = <<>> <=> Unread = "nothing"
      /\ Unread \in MessageType \cup {"nothing"}
  BY <1>2, <1>4, Zenon DEF Unread
<1>6. /\ outbox = <<>> <=> Owed = "nothing"
      /\ Owed \in Reply \cup {"nothing"}
  BY <1>3, <1>4, Zenon DEF Owed
<1> QED
  BY <1>5, <1>6 DEF AuthTypeOK

(* Reading the only message, sending into an empty queue.                  *)
LEMMA Reads ==
  ASSUME AuthTypeOK, Short, NEW type, Receive(type)
  PROVE  /\ Unread = type /\ Unread' = "nothing"
         /\ inbox' = <<>> /\ Len(inbox') <= 1
<1>1. inbox \in Seq(Message) /\ inbox # <<>> /\ Len(inbox) <= 1 /\ inbox' = Tail(inbox)
  BY DEF AuthTypeOK, Short, Receive
<1>2. inbox' = <<>> /\ Len(inbox') <= 1
  BY <1>1
<1> QED
  BY <1>1, <1>2, Zenon DEF Unread, Receive

LEMMA Sends ==
  ASSUME AuthTypeOK, inbox = <<>>, NEW type, Send(type)
  PROVE  Unread' = type /\ Len(inbox') <= 1
<1>1. inbox' = <<[type |-> type, run |-> run]>>
  BY DEF Send
<1>2. inbox' # <<>> /\ Head(inbox') = [type |-> type, run |-> run] /\ Len(inbox') <= 1
  BY <1>1
<1> QED
  BY <1>2 DEF Unread, NextMessage

LEMMA Answering ==
  ASSUME outbox = <<>>, NEW reply, outbox' = Sent(reply)
  PROVE  /\ Connected => Owed' = reply
         /\ ~Connected => Owed' = "nothing"
         /\ Len(outbox') <= 1
<1>1. CASE Connected
  <2>1. outbox' = <<reply>>
    BY <1>1 DEF Sent
  <2>2. outbox' # <<>> /\ Head(outbox') = reply /\ Len(outbox') <= 1
    BY <2>1
  <2> QED
    BY <1>1, <2>2 DEF Owed
<1>2. CASE ~Connected
  BY <1>2 DEF Sent, Owed
<1> QED
  BY <1>1, <1>2

LEMMA Cleared ==
  /\ inbox' = <<>> => Unread' = "nothing" /\ Len(inbox') <= 1
  /\ outbox' = <<>> => Owed' = "nothing" /\ Len(outbox') <= 1
  /\ UNCHANGED inbox => Unread' = Unread
  /\ UNCHANGED outbox => Owed' = Owed
BY DEF Unread, Owed, NextMessage

-----------------------------------------------------------------------------
(* No step of the helper, and no operation of its owner, upsets it.        *)

LEMMA HelperKeepsAuth ==
  ASSUME AuthTypeOK, AuthInv, HelperNext
  PROVE  AuthInv'
<1> USE DEF ownerOnly
<1>q. /\ Short /\ Exchange /\ Known /\ Deferred
      /\ helper \in HelperState /\ Unread \in MessageType \cup {"nothing"}
  BY Queues DEF AuthInv
<1>1. CASE HelperConnects
  <2>1. Unread' = "nothing" /\ Owed' = Owed /\ Owed = "nothing" /\ Short'
    BY <1>1, <1>q, Cleared DEF HelperConnects, Exchange, Silent, Short
  <2> QED
    BY <1>1, <2>1, <1>q DEF AuthInv, HelperConnects, Exchange, Silent, Known, Deferred, Asking, Opening
<1>2. CASE HelperFailsToStart
  <2>1. Unread' = Unread /\ Owed' = Owed /\ Silent /\ Short'
    BY <1>2, <1>q, Cleared DEF HelperFailsToStart, Exchange, Silent, Short
  <2> QED
    BY <1>2, <2>1, <1>q DEF AuthInv, HelperFailsToStart, Exchange, Silent, Known, Deferred, Asking, Opening
<1>3. CASE HelperAsks
  <2>1. Silent
    BY <1>3, <1>q DEF HelperAsks, Exchange
  <2>2. PICK type \in RequestType : Send(type)
    BY <1>3 DEF HelperAsks, RequestType
  <2>3. Unread' = type /\ Owed' = "nothing" /\ Short'
    BY <1>3, <1>q, <2>1, <2>2, Queues, Sends, Cleared DEF HelperAsks, Silent, Short
  <2> QED
    BY <1>3, <2>3, <1>q
    DEF AuthInv, HelperAsks, Exchange, OneOf, Silent, Known, Deferred, Asking, Opening, RequestType
<1>4. CASE PamAccepts
  <2>1. Silent
    BY <1>4, <1>q DEF PamAccepts, Exchange
  <2>2. Unread' = "AUTHENTICATED" /\ Owed' = "nothing" /\ Short'
    BY <1>4, <1>q, <2>1, Queues, Sends, Cleared DEF PamAccepts, Silent, Short
  <2> QED
    BY <1>4, <2>2, <1>q
    DEF AuthInv, PamAccepts, Exchange, OneOf, Silent, Known, Deferred, Asking, Opening
<1>5. CASE PamRejects
  <2>1. Silent
    BY <1>5, <1>q DEF PamRejects, Exchange
  <2>2. Unread' = "REJECTED" /\ Owed' = "nothing" /\ Short'
    BY <1>5, <1>q, <2>1, Queues, Sends, Cleared DEF PamRejects, Exits, Silent, Short
  <2> QED
    BY <1>5, <2>2, <1>q
    DEF AuthInv, PamRejects, Exits, Exchange, OneOf, Silent, Known, Deferred, Asking, Opening
<1>6. CASE HelperReads
  <2>1. outbox # <<>> /\ outbox \in Seq(Reply) /\ Len(outbox) <= 1
    BY <1>6, <1>q DEF HelperReads, Short, AuthTypeOK
  <2>2. outbox' = <<>>
    <3>1. outbox' = <<>> \/ outbox' = Tail(outbox)
      BY <1>6 DEF HelperReads, Exits
    <3> QED
      BY <2>1, <3>1
  <2>3. Owed # "nothing" /\ Unread = "nothing"
    BY <2>1, <1>q, Queues DEF Exchange, OneOf, Silent
  <2>4. Unread' = "nothing" /\ Owed' = "nothing" /\ Short'
    BY <1>6, <2>2, <2>3, <1>q, Cleared DEF HelperReads, Short
  <2>5. /\ UNCHANGED <<ownerOnly, accepted>>
        /\ \/ helper = "waitReply" /\ helper' = "exited"
           \/ helper = "notOpened" /\ helper' = "exited"
           \/ helper = "prompt" /\ helper' = "auth"
           \/ helper = "waitReply" /\ opensSession /\ helper' = "opening"
           \/ helper = "opened" /\ helper' = "session"
    BY <1>6 DEF HelperReads, Exits
  <2>6. ~deferStart
    BY <2>3, <1>q DEF Deferred, Silent
  <2> QED
    BY <2>4, <2>5, <2>6, <1>q
    DEF AuthInv, Exchange, OneOf, Silent, Known, Deferred, Asking, Opening
<1>7. CASE OpensSession
  <2>1. Silent
    BY <1>7, <1>q DEF OpensSession, Exchange
  <2>2. PICK type \in {"OPENED", "NOT_OPENED"} :
           /\ helper' = (IF type = "OPENED" THEN "opened" ELSE "notOpened")
           /\ Send(type)
    BY <1>7 DEF OpensSession
  <2>3. Unread' = type /\ Owed' = "nothing" /\ Short'
    BY <1>7, <1>q, <2>1, <2>2, Queues, Sends, Cleared DEF OpensSession, Silent, Short
  <2> QED
    BY <1>7, <2>2, <2>3, <1>q
    DEF AuthInv, OpensSession, Exchange, OneOf, Silent, Known, Deferred, Asking, Opening
<1>8. CASE SessionEnds
  <2>1. Silent
    BY <1>8, <1>q DEF SessionEnds, Exchange
  <2>2. Unread' = "nothing" /\ Owed' = "nothing" /\ Short'
    BY <1>8, <1>q, <2>1, Cleared DEF SessionEnds, Exits, Silent, Short
  <2> QED
    BY <1>8, <2>2, <1>q
    DEF AuthInv, SessionEnds, Exits, Exchange, OneOf, Silent, Known, Deferred, Asking, Opening
<1>9. CASE HelperCrashes
  <2>1. Unread' = Unread /\ Owed' = "nothing" /\ Short'
    BY <1>9, <1>q, Cleared DEF HelperCrashes, Exits, Short
  <2> QED
    BY <1>9, <2>1, <1>q
    DEF AuthInv, HelperCrashes, Exits, Exchange, OneOf, Silent, Known, Deferred, Asking, Opening
<1> QED
  BY <1>1, <1>2, <1>3, <1>4, <1>5, <1>6, <1>7, <1>8, <1>9 DEF HelperNext, HelperProgress

LEMMA OwnerKeepsAuth ==
  ASSUME AuthTypeOK, AuthInv
  PROVE  /\ UNCHANGED authVars => AuthInv'
         /\ \A opens, finger : Unread = "nothing" /\ AuthStart(opens, finger) => AuthInv'
         /\ Unread = "nothing" /\ AuthStop => AuthInv'
         /\ HelperReaped /\ ~LateResults => AuthInv'
<1>q. Short /\ Exchange /\ Known /\ Deferred
  BY DEF AuthInv
<1>1. ASSUME UNCHANGED authVars
      PROVE  AuthInv'
  BY <1>1, <1>q
  DEF authVars, AuthInv, Short, Exchange, OneOf, Silent, Known, Deferred, Unread, Owed, NextMessage
<1>2. ASSUME NEW opens, NEW finger, Unread = "nothing", AuthStart(opens, finger)
      PROVE  AuthInv'
  <2>1. Unread' = "nothing" /\ Owed' = "nothing" /\ Short'
    BY <1>2, <1>q, Cleared DEF AuthStart, Short
  <2> QED
    BY <1>2, <2>1 DEF AuthStart, AuthInv, Exchange, Silent, Known, Deferred, Asking, Opening
<1>3. ASSUME Unread = "nothing", UNCHANGED inbox, helper' = "none", outbox' = <<>>,
             deferStart' = FALSE, authenticationPending' = FALSE
      PROVE  AuthInv'
  <2>1. Unread' = "nothing" /\ Owed' = "nothing" /\ Short'
    BY <1>3, <1>q, Cleared DEF Short
  <2> QED
    BY <1>3, <2>1 DEF AuthInv, Exchange, Silent, Known, Deferred, Asking, Opening
<1>4. ASSUME HelperReaped, ~LateResults
      PROVE  AuthInv'
  BY <1>3, <1>4, Queues DEF HelperReaped
<1> QED
  BY <1>1, <1>2, <1>3, <1>4 DEF AuthStop

(* A message is read with nothing owed to the helper that sent it, which   *)
(* waits for the answer unless it is gone.                                 *)
LEMMA ReadsAsDue ==
  ASSUME AuthTypeOK, AuthInv, NEW type, Receive(type)
  PROVE  /\ outbox = <<>> /\ ~deferStart
         /\ \/ helper = "exited"
            \/ helper = "prompt" /\ type \in RequestType
            \/ helper = "waitReply" /\ type = "AUTHENTICATED"
            \/ helper = "opened" /\ type = "OPENED"
            \/ helper = "notOpened" /\ type = "NOT_OPENED"
<1>1. Unread = type /\ Unread # "nothing"
  BY Reads, Queues DEF AuthInv, Receive
<1> QED
  BY <1>1, Queues DEF AuthInv, Exchange, OneOf, Silent, Deferred

LEMMA ReceiverKeepsAuth ==
  ASSUME AuthTypeOK, AuthInv
  PROVE  /\ \A defers \in BOOLEAN : ReceiveAccepted(defers) => AuthInv'
         /\ ReceiveRejected => AuthInv'
         /\ \A type \in {"OPENED", "NOT_OPENED"} : ReceiveStatus(type) => AuthInv'
         /\ \A type \in RequestType, answers \in BOOLEAN :
              ReceiveRequest(type, answers) => AuthInv'
<1>q. Short /\ Exchange /\ Known /\ Deferred /\ deferStart \in BOOLEAN
  BY Queues DEF AuthInv
<1>1. ASSUME NEW defers \in BOOLEAN, ReceiveAccepted(defers)
      PROVE  AuthInv'
  <2>1. /\ Unread' = "nothing" /\ Len(inbox') <= 1 /\ outbox = <<>> /\ ~deferStart
        /\ helper \in {"exited", "waitReply"}
    BY <1>1, <1>q, Reads, ReadsAsDue DEF ReceiveAccepted, RequestType
  <2>2. UNCHANGED <<helper, opensSession, accepted, exitStatus>>
    BY <1>1 DEF ReceiveAccepted
  <2>3. CASE defers
    <3>1. deferStart' = TRUE /\ authenticationPending' = TRUE /\ UNCHANGED outbox
      BY <1>1, <2>3 DEF ReceiveAccepted
    <3>2. Owed' = "nothing" /\ Short'
      BY <2>1, <3>1, Cleared DEF Short
    <3> QED
      BY <1>q, <2>1, <2>2, <3>1, <3>2 DEF AuthInv, Exchange, Silent, Known, Deferred
  <2>4. CASE ~defers
    <3>1. /\ deferStart' = FALSE /\ authenticationPending' = FALSE
          /\ outbox' = Sent("AUTHENTICATED")
      BY <1>1, <2>1, <2>4 DEF ReceiveAccepted, Resume
    <3>2. /\ helper = "waitReply" => Owed' = "AUTHENTICATED"
          /\ helper = "exited" => Owed' = "nothing"
          /\ Short'
      BY <2>1, <3>1, Answering DEF Short, Connected, HelperState
    <3> QED
      BY <1>q, <2>1, <2>2, <3>1, <3>2 DEF AuthInv, Exchange, OneOf, Silent, Known, Deferred
  <2> QED
    BY <2>3, <2>4
<1>2. ASSUME ReceiveRejected
      PROVE  AuthInv'
  <2>1. Unread' = "nothing" /\ Owed' = "nothing" /\ Short' /\ ~deferStart
    BY <1>2, <1>q, Reads, ReadsAsDue, Cleared DEF ReceiveRejected, Short
  <2> QED
    BY <1>2, <2>1, <1>q DEF ReceiveRejected, AuthInv, Exchange, Silent, Known, Deferred
<1>3. ASSUME NEW type \in {"OPENED", "NOT_OPENED"}, ReceiveStatus(type)
      PROVE  AuthInv'
  <2>1. /\ Unread' = "nothing" /\ Len(inbox') <= 1 /\ outbox = <<>> /\ ~deferStart
        /\ helper \in {"exited", "opened", "notOpened"}
    BY <1>3, <1>q, Reads, ReadsAsDue DEF ReceiveStatus, RequestType
  <2>2. /\ helper # "exited" => Owed' = "SESSION_STATUS"
        /\ helper = "exited" => Owed' = "nothing"
        /\ Short'
    BY <1>3, <2>1, Answering DEF ReceiveStatus, Short, Connected, HelperState
  <2> QED
    BY <1>3, <1>q, <2>1, <2>2 DEF ReceiveStatus, AuthInv, Exchange, OneOf, Silent, Known, Deferred
<1>4. ASSUME NEW type \in RequestType, NEW answers \in BOOLEAN, ReceiveRequest(type, answers)
      PROVE  AuthInv'
  <2>1. /\ Unread' = "nothing" /\ Len(inbox') <= 1 /\ outbox = <<>> /\ ~deferStart
        /\ helper \in {"exited", "prompt"}
    BY <1>4, <1>q, Reads, ReadsAsDue DEF ReceiveRequest, RequestType
  <2>2. /\ Owed' \in {"nothing", "REQUEST"}
        /\ helper = "exited" => Owed' = "nothing"
        /\ Short'
    <3>1. CASE answers
      BY <1>4, <2>1, <3>1, Answering DEF ReceiveRequest, Short, Connected, HelperState
    <3>2. CASE ~answers
      BY <1>4, <2>1, <3>2, Cleared DEF ReceiveRequest, Short
    <3> QED
      BY <3>1, <3>2
  <2> QED
    BY <1>4, <1>q, <2>1, <2>2 DEF ReceiveRequest, AuthInv, Exchange, OneOf, Silent, Known, Deferred
<1> QED
  BY <1>1, <1>2, <1>3, <1>4

(* resumeSessionStart(), the transition being over.                        *)
LEMMA ResumeKeepsAuth ==
  ASSUME AuthTypeOK, AuthInv, Resume(authenticationPending),
         UNCHANGED <<helper, opensSession, accepted, exitStatus, inbox>>
  PROVE  AuthInv'
<1>q. Short /\ Exchange /\ Known /\ Deferred /\ deferStart \in BOOLEAN /\ authenticationPending \in BOOLEAN
  BY Queues DEF AuthInv
<1>0. deferStart' = FALSE /\ authenticationPending' = FALSE /\ Unread' = Unread
  BY Cleared DEF Resume
<1>1. CASE authenticationPending
  <2>1. /\ helper \in {"waitReply", "exited"} /\ Unread = "nothing" /\ outbox = <<>>
        /\ outbox' = Sent("AUTHENTICATED")
    BY <1>q, <1>1, Queues DEF Deferred, Silent, Resume
  <2>2. /\ helper = "waitReply" => Owed' = "AUTHENTICATED"
        /\ helper = "exited" => Owed' = "nothing"
        /\ Short'
    BY <2>1, <1>q, Answering DEF Short, Connected, HelperState
  <2> QED
    BY <1>q, <1>0, <2>1, <2>2 DEF AuthInv, Exchange, OneOf, Silent, Known, Deferred
<1>2. CASE ~authenticationPending
  <2>1. Owed' = Owed /\ Short'
    BY <1>q, <1>2, Cleared DEF Resume, Short
  <2> QED
    BY <1>q, <1>0, <2>1 DEF AuthInv, Exchange, OneOf, Silent, Known, Deferred
<1> QED
  BY <1>1, <1>2

-----------------------------------------------------------------------------
(* The display and the dialogue of its helper.                             *)

(* A display that stopped has nothing left to do.                          *)
LEMMA OnlyBeforeStop ==
  ASSUME Next
  PROVE  phase \in {"new", "started"} /\ (phase = "new" => Start)
<1>1. Start => phase = "new"
  BY DEF Start, StartWithGreeter, StartAutologin, AutologinImpossible
<1>2. Greeter => phase = "started"
  BY DEF Greeter, AnnounceTransitions, LoginRejected, LoginAccepted, LoginRefused,
     FingerprintAccepted, FingerprintRefused, FingerprintCancel, TransitionReady, GreeterDies,
     NewRequest
<1>3. GreeterFailed \/ DisplayServerStops => phase = "started"
  BY DEF GreeterFailed, DisplayServerStops
<1>4. Logind => phase = "started"
  BY DEF Logind, ListReply, PropertiesReply, UnlockReply, ActivateReply, SessionByPidReply,
     SessionIdReply, Delivered
<1>5. Timers => phase = "started"
  BY DEF Timers, TransitionTimeout, ActivationTimeout, AbortFingerprint, LookupTimeout, Delivered
<1>6. DeliverFromHelper => phase = "started"
  BY DEF DeliverFromHelper, RequestChanged, AuthenticationSucceeded, AuthenticationFailed,
     AutologinFailed, SessionStarted, SessionNotStarted, HelperFinished
<1>7. Helper => phase = "started"
  BY DEF Helper
<1> QED
  BY <1>1, <1>2, <1>3, <1>4, <1>5, <1>6, <1>7 DEF Next

(* What a stopped helper had sent is never answered; otherwise the dialogue *)
(* is in order.                                                             *)
AuthOk == AuthInv \/ (phase = "stopped" /\ outbox = <<>>)

LEMMA AuthStays ==
  ASSUME TypeOK, LoginInv, AuthOk, ~LateResults, [Next]_vars
  PROVE  AuthOk'
<1>t. AuthTypeOK
  BY DEF TypeOK
<1>u. ASSUME UNCHANGED <<authVars, phase>>
      PROVE  AuthOk'
  <2>1. AuthInv => AuthInv'
    BY <1>t, <1>u, OwnerKeepsAuth
  <2>2. UNCHANGED <<outbox, phase>>
    BY <1>u DEF authVars
  <2> QED
    BY <2>1, <2>2 DEF AuthOk
<1>0. CASE UNCHANGED vars
  BY <1>0, <1>u DEF vars, lifeVars
<1>n. CASE Next
  <2>0. AuthInv /\ (phase = "new" => Start)
    BY <1>n, OnlyBeforeStop DEF AuthOk
  <2>q. helper = "none" => Unread = "nothing"
    BY <2>0 DEF AuthInv, Exchange, Silent
  <2>e. inbox = <<>> => Unread = "nothing"
    BY <1>t, Queues
  <2>k. UNCHANGED authVars => AuthOk'
    BY <1>t, <2>0, OwnerKeepsAuth DEF AuthOk
  <2>s. StopRest => AuthOk'
    BY DEF StopRest, AuthStop, AuthOk
  <2>b. \A opens, finger : AuthStart(opens, finger) /\ Unread = "nothing" => AuthOk'
    BY <1>t, <2>0, OwnerKeepsAuth DEF AuthOk
  <2>l. ASSUME NEW session, reuseLookupPending, FinishLookup(session)
        PROVE  AuthOk'
    <3>1. Unread = "nothing"
      BY <2>l, <2>q DEF LoginInv
    <3> QED
      BY <2>l, <3>1, <2>b, Zenon DEF FinishLookup
  <2>d. UNCHANGED allButCalls => AuthOk'
    BY <2>k DEF allButCalls
  <2>a. ASSUME NEW success, NEW kept, FinishActivation(success, kept)
        PROVE  AuthOk'
    BY <2>a, <2>s, <2>k DEF FinishActivation
  <2>c. CancelHelper => AuthOk'
    BY <1>t, <2>0, <2>e, OwnerKeepsAuth DEF CancelHelper, AuthOk
  <2>r. CompleteTransition => AuthOk'
    BY <1>t, <2>0, ResumeKeepsAuth DEF CompleteTransition, AuthOk
  <2>1. CASE Start
    BY <2>1, <2>k, <2>b, <2>q, Zenon
    DEF Start, StartWithGreeter, AutologinImpossible, StartAutologin, StartAuth, LoginInv
  <2>2. CASE Greeter
    <3>1. CASE LoginAccepted
      <4>1. Unread = "nothing"
        BY <3>1, <2>q, <2>e DEF LoginAccepted, Idle, IsActive
      <4>2. AuthStart(TRUE, FALSE) \/ AuthStop \/ UNCHANGED authVars
        BY <3>1 DEF LoginAccepted
      <4> QED
        BY <1>t, <2>0, <4>1, <4>2, OwnerKeepsAuth DEF AuthOk
    <3>2. CASE LoginRefused
      BY <3>2, <2>c, <2>k DEF LoginRefused
    <3>3. CASE FingerprintAccepted
      <4>1. Unread = "nothing"
        BY <3>3, <2>q DEF FingerprintAccepted, Idle, IsActive
      <4> QED
        BY <3>3, <4>1, <2>b, <2>k, Zenon DEF FingerprintAccepted, StartAuth
    <3>4. CASE FingerprintCancel
      BY <3>4, <2>c DEF FingerprintCancel, CancelFingerprintLogin
    <3>5. CASE AnnounceTransitions \/ LoginRejected \/ FingerprintRefused \/ GreeterDies
      BY <3>5, <2>k DEF AnnounceTransitions, LoginRejected, FingerprintRefused, GreeterDies
    <3>6. CASE TransitionReady
      BY <3>6, <2>r DEF TransitionReady
    <3> QED
      BY <2>2, <3>1, <3>2, <3>3, <3>4, <3>5, <3>6 DEF Greeter
  <2>3. CASE GreeterFailed \/ DisplayServerStops
    BY <2>3, <2>s DEF GreeterFailed, DisplayServerStops, Stop
  <2>4. CASE Logind
    <3> PICK c \in calls : \/ ListReply(c) \/ PropertiesReply(c)
                           \/ UnlockReply(c) \/ ActivateReply(c)
                           \/ SessionByPidReply(c) \/ SessionIdReply(c)
      BY <2>4 DEF Logind
    <3>1. CASE ListReply(c) \/ PropertiesReply(c)
      BY <3>1, <2>l, <2>d DEF ListReply, PropertiesReply, LookupCurrent, Drop
    <3>2. CASE UnlockReply(c) \/ ActivateReply(c)
      BY <3>2, <2>a, <2>d DEF UnlockReply, ActivateReply, Drop
    <3>3. CASE SessionByPidReply(c) \/ SessionIdReply(c)
      BY <3>3, <2>k, <2>d DEF SessionByPidReply, SessionIdReply, Drop
    <3> QED
      BY <3>1, <3>2, <3>3
  <2>5. CASE Timers
    <3>1. CASE TransitionTimeout
      BY <3>1, <2>r DEF TransitionTimeout
    <3>2. CASE ActivationTimeout
      BY <3>2, <2>a DEF ActivationTimeout
    <3>3. CASE AbortFingerprint
      BY <3>3, <2>c, <2>k DEF AbortFingerprint, CancelFingerprintLogin
    <3>4. ASSUME NEW c \in calls, LookupTimeout(c)
          PROVE  AuthOk'
      BY <3>4, <2>l, <2>d DEF LookupTimeout, LookupCurrent, Drop
    <3> QED
      BY <2>5, <3>1, <3>2, <3>3, <3>4 DEF Timers
  <2>6. CASE DeliverFromHelper
    <3>1. CASE RequestChanged
      <4>1. PICK type \in RequestType :
               ReceiveRequest(type, type = "REQUEST" /\ ~fingerprintLogin)
        BY <3>1 DEF RequestChanged
      <4>2. (type = "REQUEST" /\ ~fingerprintLogin) \in BOOLEAN
        OBVIOUS
      <4> QED
        BY <1>t, <2>0, <4>1, <4>2, ReceiverKeepsAuth, Zenon DEF AuthOk
    <3>2. CASE AuthenticationSucceeded
      <4>1. (request # None /\ transitions) \in BOOLEAN
        OBVIOUS
      <4> QED
        BY <3>2, <1>t, <2>0, <4>1, ReceiverKeepsAuth, Zenon DEF AuthenticationSucceeded, AuthOk
    <3>3. CASE AuthenticationFailed \/ AutologinFailed
      BY <3>3, <1>t, <2>0, ReceiverKeepsAuth, Zenon DEF AuthenticationFailed, AutologinFailed, AuthOk
    <3>4. CASE SessionStarted \/ SessionNotStarted
      BY <3>4, <1>t, <2>0, ReceiverKeepsAuth DEF SessionStarted, SessionNotStarted, AuthOk
    <3>5. CASE HelperFinished
      BY <3>5, <1>t, <2>0, OwnerKeepsAuth DEF HelperFinished, AuthOk
    <3> QED
      BY <2>6, <3>1, <3>2, <3>3, <3>4, <3>5 DEF DeliverFromHelper
  <2>7. CASE Helper
    BY <2>7, <1>t, <2>0, HelperKeepsAuth DEF Helper, AuthOk
  <2> QED
    BY <1>n, <2>1, <2>2, <2>3, <2>4, <2>5, <2>6, <2>7 DEF Next
<1> QED
  BY <1>0, <1>n

-----------------------------------------------------------------------------
(* What the display knows of the login it serves from its helper.          *)

(* The greeter's transition begins when PAM has accepted the user; until   *)
(* it ends the helper waits for the reply, or has died waiting.            *)
TransitionInv ==
  transitionTimer =>
    /\ authenticated /\ accepted /\ Silent
    /\ helper = "waitReply" \/ (helper = "exited" /\ exitStatus # "authError")

(* A helper that reads the reader works for a fingerprint login, and is    *)
(* not answered when it asks for something else.                           *)
ReaderInv ==
  helper \in Asking /\ fingerprint => fingerprintLogin /\ (helper = "prompt" => Owed = "nothing")

(* The user and session Auth holds are those of the request being served.  *)
ServedInv ==
  /\ request # None => request = target /\ greeter = "running"
  /\ target # None => target <= requests

(* The helper of a login that reuses a session opens none of its own, and  *)
(* the session is activated once PAM has accepted the user.                *)
ReuseInv ==
  /\ reuseSessionId # None => ~opensSession /\ ~reuseLookupPending
  /\ reuseActivationPending =>
       /\ accepted /\ reuseSessionId # None /\ ~transitionTimer
       /\ helper \in {"none", "waitReply", "exited"} /\ Unread = "nothing"

DialogueInv == TransitionInv /\ ReaderInv /\ ServedInv /\ ReuseInv

dialogueVars ==
  <<authVars, transitionTimer, authenticated, fingerprintLogin, request, target, greeter,
    requests, reuseSessionId, reuseLookupPending, reuseActivationPending>>

LEMMA DialogueKept ==
  ASSUME DialogueInv, UNCHANGED dialogueVars
  PROVE  DialogueInv'
BY DEF DialogueInv, dialogueVars, authVars, TransitionInv, ReaderInv, ServedInv, ReuseInv, Silent,
   Unread, Owed, NextMessage, Asking

(* What ends with no helper, no transition and no activation is in order.  *)
LEMMA DialogueOver ==
  ASSUME helper' = "none", transitionTimer' = FALSE, ~reuseActivationPending',
         ServedInv', reuseSessionId' # None => ~opensSession' /\ ~reuseLookupPending'
  PROVE  DialogueInv'
BY DEF DialogueInv, TransitionInv, ReaderInv, ReuseInv, Asking

LEMMA HelperKeepsDialogue ==
  ASSUME AuthTypeOK, AuthInv, DialogueInv, Helper
  PROVE  DialogueInv'
<1>q. /\ Exchange /\ Known /\ Deferred
      /\ TransitionInv /\ ReaderInv /\ ServedInv /\ ReuseInv
  BY DEF AuthInv, DialogueInv
<1>d. UNCHANGED <<transitionTimer, authenticated, fingerprintLogin, request, target, greeter,
                  requests, reuseSessionId, reuseLookupPending, reuseActivationPending>>
  BY DEF Helper, loginVars, lookupVars, reuseVars, lifeVars, restVars
<1>o. HelperNext /\ UNCHANGED <<opensSession, fingerprint>>
  BY DEF Helper, HelperNext, HelperProgress, HelperConnects, HelperReads, OpensSession, HelperAsks,
     PamAccepts, PamRejects, SessionEnds, HelperCrashes, HelperFailsToStart, ownerOnly
<1>1. helper' \in Asking => helper \in Asking
  BY <1>o DEF HelperNext, HelperProgress, HelperConnects, HelperReads, OpensSession, HelperAsks,
     PamAccepts, PamRejects, SessionEnds, HelperCrashes, HelperFailsToStart, Exits, Asking
<1>p. ASSUME helper' = "prompt"
      PROVE  Owed' = "nothing"
  <2>1. HelperAsks /\ Silent
    BY <1>p, <1>o, <1>q
    DEF HelperNext, HelperProgress, HelperConnects, HelperReads, OpensSession, HelperAsks,
        PamAccepts, PamRejects, SessionEnds, HelperCrashes, HelperFailsToStart, Exits, Exchange
  <2> QED
    BY <2>1, Cleared DEF HelperAsks, Silent
<1>2. ReaderInv' /\ ServedInv'
  BY <1>q, <1>d, <1>o, <1>1, <1>p DEF ReaderInv, ServedInv
(* A helper that waits, or is gone, moves only as far as it may.           *)
<1>3. ASSUME helper \in {"waitReply", "exited"}, Unread = "nothing"
      PROVE  /\ UNCHANGED accepted /\ Unread' = "nothing"
             /\ \/ helper' = "exited" /\ exitStatus' # "authError" /\ Owed' = "nothing"
                \/ Owed # "nothing" /\ opensSession
  <2>1. CASE HelperReads
    BY <1>3, <2>1, Queues, Cleared DEF HelperReads, Exits
  <2>2. CASE HelperCrashes
    BY <1>3, <2>2, Cleared DEF HelperCrashes, Exits
  <2> QED
    BY <1>3, <1>o, <2>1, <2>2
    DEF HelperNext, HelperProgress, HelperConnects, OpensSession, HelperAsks,
        PamAccepts, PamRejects, SessionEnds, HelperFailsToStart
<1>4. TransitionInv'
  BY <1>q, <1>d, <1>3 DEF TransitionInv, Silent
<1>5. ReuseInv'
  BY <1>q, <1>d, <1>o, <1>3, NoHelperNoStep DEF ReuseInv
<1> QED
  BY <1>2, <1>4, <1>5 DEF DialogueInv

LEMMA CancelKeepsDialogue ==
  ASSUME DialogueInv, ~transitionTimer, NEW result, CancelFingerprintLogin(result)
  PROVE  DialogueInv'
<1>q. ServedInv /\ ReuseInv
  BY DEF DialogueInv
<1>1. /\ helper' = "none" /\ request' = None /\ reuseLookupPending' = FALSE
      /\ UNCHANGED <<target, requests, transitionTimer, reuseSessionId, reuseActivationPending,
                     inbox, accepted, opensSession>>
  BY DEF CancelFingerprintLogin, CancelHelper, AuthStop, reuseVars
<1> QED
  BY <1>q, <1>1, Cleared DEF DialogueInv, TransitionInv, ReaderInv, ServedInv, ReuseInv, Asking

LEMMA CompletedKeepsDialogue ==
  ASSUME DialogueInv, transitionTimer, CompleteTransition
  PROVE  DialogueInv'
<1>q. TransitionInv /\ ReaderInv /\ ServedInv /\ ReuseInv
  BY DEF DialogueInv
<1>1. /\ transitionTimer' = FALSE
      /\ UNCHANGED <<helper, fingerprint, accepted, opensSession, inbox, request, fingerprintLogin,
                     target, requests, greeter, reuseSessionId, reuseLookupPending>>
      /\ reuseActivationPending' => reuseActivationPending \/ reuseSessionId # None
  BY DEF CompleteTransition, ActivateReusable, lookupVars, reuseVars, lifeVars
<1>2. Unread = "nothing" /\ Unread' = "nothing" /\ accepted /\ helper \in {"waitReply", "exited"}
  BY <1>q, <1>1, Cleared DEF TransitionInv, Silent
<1> QED
  BY <1>q, <1>1, <1>2 DEF DialogueInv, TransitionInv, ReaderInv, ServedInv, ReuseInv

LEMMA GreeterKeepsDialogue ==
  ASSUME TypeOK, LoginInv, AuthInv, DialogueInv, ~LateResults, Greeter
  PROVE  DialogueInv'
<1>q. /\ Exchange /\ Known /\ Deferred
      /\ TransitionInv /\ ReaderInv /\ ServedInv /\ ReuseInv
  BY DEF AuthInv, DialogueInv
<1>i. Idle \/ Listening => ~transitionTimer
  BY <1>q DEF Idle, IsActive, Listening, TransitionInv
<1>r. NewRequest => /\ requests' = requests + 1 /\ greeter = "running"
                    /\ \A r \in Nat : r <= requests => r <= requests'
                    /\ requests' # None /\ requests' <= requests'
  BY NewRequestTypes, RequestIds DEF NewRequest, TypeOK, LoginTypes
<1>n. target # None => target \in Nat
  BY RequestIds DEF TypeOK, LoginTypes
<1>s. NewRequest /\ UNCHANGED <<target, greeter>> /\ request' \in {request, None} => ServedInv'
  BY <1>q, <1>r, <1>n DEF ServedInv
<1>1. CASE AnnounceTransitions
  BY <1>1, DialogueKept
  DEF AnnounceTransitions, dialogueVars, loginVars, lookupVars, reuseVars, restVars
<1>2. CASE LoginRejected
  <2>1. ServedInv'
    BY <1>2, <1>s DEF LoginRejected, lifeVars
  <2> QED
    BY <1>2, <1>q, <2>1
    DEF LoginRejected, DialogueInv, TransitionInv, ReaderInv, ReuseInv, Silent,
        Unread, Owed, NextMessage, authVars, lookupVars, reuseVars
<1>3. CASE LoginAccepted
  <2>1. /\ target' = requests' /\ request' = requests' /\ greeter' = greeter
        /\ transitionTimer' = FALSE /\ reuseActivationPending' = FALSE /\ reuseSessionId' = None
    BY <1>3, <1>i DEF LoginAccepted, BeginAuth, lifeVars
  <2>2. ServedInv'
    BY <1>3, <1>r, <2>1 DEF ServedInv, LoginAccepted
  <2>3. \/ AuthStart(TRUE, FALSE)
        \/ AuthStop
        \/ UNCHANGED authVars /\ helper = "none"
    BY <1>3 DEF LoginAccepted, Idle, IsActive
  <2>4. helper' \in Asking => ~fingerprint'
    BY <2>3 DEF AuthStart, AuthStop, authVars, Asking
  <2> QED
    BY <2>1, <2>2, <2>4 DEF DialogueInv, TransitionInv, ReaderInv, ReuseInv
<1>4. CASE LoginRefused
  <2>1. ServedInv'
    BY <1>4, <1>s DEF LoginRefused, lifeVars
  <2>2. helper' = "none" /\ UNCHANGED <<inbox, accepted, opensSession>>
    BY <1>4 DEF LoginRefused, CancelHelper, AuthStop, Idle, IsActive, authVars
  <2>3. transitionTimer' = FALSE /\ UNCHANGED <<reuseSessionId, reuseActivationPending>>
    BY <1>4, <1>i DEF LoginRefused, reuseVars
  <2>4. reuseLookupPending' => reuseLookupPending
    BY <1>4 DEF LoginRefused, lookupVars
  <2> QED
    BY <1>q, <2>1, <2>2, <2>3, <2>4, Cleared
    DEF DialogueInv, TransitionInv, ReaderInv, ReuseInv, Asking
<1>5. CASE FingerprintAccepted
  <2>1. /\ target' = requests' /\ request' = requests' /\ greeter' = greeter
        /\ transitionTimer' = FALSE /\ reuseActivationPending' = FALSE /\ reuseSessionId' = None
        /\ fingerprintLogin' = TRUE /\ helper' # "prompt"
    BY <1>5, <1>i
    DEF FingerprintAccepted, Idle, IsActive, StartAuth, BeginAuth, AuthStart, authVars, lifeVars
  <2>2. ServedInv'
    BY <1>5, <1>r, <2>1 DEF ServedInv, FingerprintAccepted
  <2> QED
    BY <2>1, <2>2 DEF DialogueInv, TransitionInv, ReaderInv, ReuseInv
<1>6. CASE FingerprintRefused
  <2>1. ServedInv'
    BY <1>6, <1>s DEF FingerprintRefused, lifeVars
  <2>2. Idle => helper = "none"
    BY DEF Idle, IsActive
  <2> QED
    BY <1>6, <1>i, <1>q, <2>1, <2>2
    DEF FingerprintRefused, DialogueInv, TransitionInv, ReaderInv, ReuseInv, Silent, Asking,
        Unread, Owed, NextMessage, authVars, lookupVars, reuseVars
<1>7. CASE FingerprintCancel
  BY <1>7, <1>i, <1>q, CancelKeepsDialogue DEF FingerprintCancel
<1>8. CASE TransitionReady
  BY <1>8, CompletedKeepsDialogue DEF TransitionReady
<1>9. CASE GreeterDies
  BY <1>9, <1>q
  DEF GreeterDies, DialogueInv, TransitionInv, ReaderInv, ServedInv, ReuseInv, Silent, Asking,
      Unread, Owed, NextMessage, authVars, lookupVars, reuseVars, restVars
<1> QED
  BY <1>1, <1>2, <1>3, <1>4, <1>5, <1>6, <1>7, <1>8, <1>9 DEF Greeter

LEMMA StopKeepsDialogue ==
  ASSUME DialogueInv, StopRest, transitionTimer' = FALSE, request' = None,
         reuseSessionId' \in {reuseSessionId, None}
  PROVE  DialogueInv'
<1>1. /\ helper' = "none" /\ reuseActivationPending' = FALSE /\ reuseLookupPending' = FALSE
      /\ UNCHANGED <<target, requests, opensSession>>
  BY DEF StopRest, AuthStop
<1> QED
  BY <1>1, DialogueOver DEF DialogueInv, ServedInv, ReuseInv

LEMMA LookupKeepsDialogue ==
  ASSUME LoginInv, DialogueInv, reuseLookupPending, NEW session, FinishLookup(session)
  PROVE  DialogueInv'
<1>q. TransitionInv /\ ServedInv /\ ReuseInv /\ helper = "none"
  BY DEF DialogueInv, LoginInv
<1>1. ~transitionTimer /\ ~reuseActivationPending
  BY <1>q DEF TransitionInv, ReuseInv
<1>2. /\ opensSession' = (session = None) /\ fingerprint' = fingerprintLogin
      /\ helper' = "starting"
      /\ reuseSessionId' = session /\ reuseLookupPending' = FALSE
      /\ UNCHANGED <<transitionTimer, reuseActivationPending, fingerprintLogin, request, target,
                     requests, greeter>>
  BY Zenon DEF FinishLookup, AuthStart, loginVars, reuseVars, lifeVars
<1> QED
  BY <1>q, <1>1, <1>2 DEF DialogueInv, TransitionInv, ReaderInv, ServedInv, ReuseInv

LEMMA ActivationKeepsDialogue ==
  ASSUME DialogueInv, NEW success, NEW kept, FinishActivation(success, kept)
  PROVE  DialogueInv'
<1>0. reuseActivationPending /\ transitionTimer' = FALSE /\ request' = None
      /\ reuseSessionId' \in {reuseSessionId, None}
  BY DEF FinishActivation, FinishLogin
<1>1. CASE reuseHelperFinished
  BY <1>0, <1>1, StopKeepsDialogue DEF FinishActivation
<1>2. CASE ~reuseHelperFinished
  <2>1. /\ reuseActivationPending' = FALSE /\ UNCHANGED authVars
        /\ UNCHANGED <<target, requests, reuseLookupPending>>
    BY <1>2 DEF FinishActivation, lookupVars
  <2>2. helper \notin Asking
    BY <1>0 DEF DialogueInv, ReuseInv, Asking
  <2> QED
    BY <1>0, <2>1, <2>2
    DEF DialogueInv, TransitionInv, ReaderInv, ServedInv, ReuseInv, authVars
<1> QED
  BY <1>1, <1>2

LEMMA DaemonKeepsDialogue ==
  ASSUME TypeOK, LoginInv, DialogueInv, ~LateResults,
         Start \/ GreeterFailed \/ DisplayServerStops \/ Logind \/ Timers
  PROVE  DialogueInv'
<1>q. TransitionInv /\ ReaderInv /\ ServedInv /\ ReuseInv
  BY DEF DialogueInv
<1>d. UNCHANGED allButCalls => DialogueInv'
  BY DialogueKept DEF allButCalls, dialogueVars, loginVars, lookupVars, reuseVars, lifeVars
<1>1. CASE Start
  <2>1. /\ helper = "none" /\ request = None /\ ~transitionTimer
    BY <1>1, <1>q DEF Start, StartWithGreeter, StartAutologin, AutologinImpossible, LoginInv,
       TransitionInv
  <2>2. CASE StartAutologin
    <3>1. /\ target' = None /\ reuseSessionId' = None /\ reuseActivationPending' = FALSE
          /\ UNCHANGED <<transitionTimer, request, fingerprintLogin, requests>>
          /\ UNCHANGED authVars \/ AuthStart(TRUE, FALSE)
      BY <2>2 DEF StartAutologin, StartAuth, BeginAuth, loginVars
    <3>2. helper' \in Asking => ~fingerprint'
      BY <2>1, <3>1 DEF AuthStart, authVars, Asking
    <3> QED
      BY <2>1, <3>1, <3>2 DEF DialogueInv, TransitionInv, ReaderInv, ServedInv, ReuseInv
  <2>3. CASE StartWithGreeter \/ AutologinImpossible
    BY <2>1, <2>3, <1>q
    DEF StartWithGreeter, AutologinImpossible, StartGreeter, DialogueInv, TransitionInv, ReaderInv,
        ServedInv, ReuseInv, Unread, NextMessage, Asking, authVars, loginVars, lookupVars,
        reuseVars, restVars
  <2> QED
    BY <1>1, <2>2, <2>3 DEF Start
<1>2. CASE GreeterFailed \/ DisplayServerStops
  BY <1>2, StopKeepsDialogue DEF GreeterFailed, DisplayServerStops, Stop, FinishLogin
<1>3. CASE Logind
  <2> PICK c \in calls : \/ ListReply(c) \/ PropertiesReply(c)
                         \/ UnlockReply(c) \/ ActivateReply(c)
                         \/ SessionByPidReply(c) \/ SessionIdReply(c)
    BY <1>3 DEF Logind
  <2>1. CASE ListReply(c) \/ PropertiesReply(c)
    BY <2>1, <1>d, LookupKeepsDialogue DEF ListReply, PropertiesReply, LookupCurrent, Drop
  <2>2. CASE UnlockReply(c) \/ ActivateReply(c)
    BY <2>2, <1>d, ActivationKeepsDialogue DEF UnlockReply, ActivateReply, Drop
  <2>3. CASE SessionByPidReply(c)
    BY <2>3, <1>d DEF SessionByPidReply, Drop
  <2>4. CASE SessionIdReply(c)
    BY <2>4, <1>d, DialogueKept
    DEF SessionIdReply, Drop, dialogueVars, loginVars, lookupVars, reuseVars, lifeVars
  <2> QED
    BY <2>1, <2>2, <2>3, <2>4
<1>4. CASE Timers
  <2>1. CASE TransitionTimeout
    BY <2>1, CompletedKeepsDialogue DEF TransitionTimeout
  <2>2. CASE ActivationTimeout
    BY <2>2, ActivationKeepsDialogue DEF ActivationTimeout
  <2>3. CASE AbortFingerprint
    <3>1. CASE Listening
      <4>1. ~transitionTimer
        BY <3>1, <1>q DEF Listening, TransitionInv
      <4> QED
        BY <2>3, <3>1, <4>1, CancelKeepsDialogue DEF AbortFingerprint
    <3>2. CASE ~Listening
      BY <2>3, <3>2, DialogueKept
      DEF AbortFingerprint, dialogueVars, loginVars, lookupVars, reuseVars, lifeVars
    <3> QED
      BY <3>1, <3>2
  <2>4. ASSUME NEW c \in calls, LookupTimeout(c)
        PROVE  DialogueInv'
    BY <2>4, <1>d, LookupKeepsDialogue DEF LookupTimeout, LookupCurrent, Drop
  <2> QED
    BY <1>4, <2>1, <2>2, <2>3, <2>4 DEF Timers
<1> QED
  BY <1>1, <1>2, <1>3, <1>4

LEMMA DeliveryKeepsDialogue ==
  ASSUME TypeOK, AuthInv, LoginInv, DialogueInv, ~LateResults, DeliverFromHelper
  PROVE  DialogueInv'
<1>q. /\ Short /\ Exchange /\ Known /\ Deferred
      /\ TransitionInv /\ ReaderInv /\ ServedInv /\ ReuseInv
  BY DEF AuthInv, DialogueInv
<1>t. AuthTypeOK
  BY DEF TypeOK
(* A message is read only while no transition and no activation runs.      *)
<1>m. ASSUME NEW type, Receive(type)
      PROVE  /\ Unread = type /\ Unread' = "nothing"
             /\ ~transitionTimer /\ ~reuseActivationPending
  BY <1>m, <1>t, <1>q, Reads, Queues DEF TransitionInv, ReuseInv, Silent, Receive
<1>f. ASSUME NEW success, NEW matched, FinishLogin(success, matched), helper \notin Asking,
             UNCHANGED <<helper, opensSession, target, requests, reuseSessionId,
                         reuseLookupPending, reuseActivationPending>>,
             ~reuseActivationPending
      PROVE  DialogueInv'
  BY <1>f, <1>q DEF FinishLogin, DialogueInv, TransitionInv, ReaderInv, ServedInv, ReuseInv
<1>1. CASE RequestChanged
  <2>1. PICK type \in RequestType :
           ReceiveRequest(type, type = "REQUEST" /\ ~fingerprintLogin)
    BY <1>1 DEF RequestChanged
  <2>2. ~transitionTimer /\ ~reuseActivationPending
    BY <2>1, <1>m DEF ReceiveRequest
  <2>3. UNCHANGED <<helper, opensSession, fingerprint>>
    BY <2>1 DEF ReceiveRequest
  <2>4. fingerprintLogin => UNCHANGED outbox
    BY <2>1 DEF ReceiveRequest
  <2> QED
    BY <1>1, <2>2, <2>3, <2>4, <1>q, Cleared
    DEF RequestChanged, DialogueInv, TransitionInv, ReaderInv, ServedInv, ReuseInv, loginVars,
        lookupVars, reuseVars, lifeVars
<1>2. CASE AuthenticationSucceeded
  <2>1. /\ Unread = "AUTHENTICATED" /\ Unread' = "nothing"
        /\ ~transitionTimer /\ ~reuseActivationPending
        /\ outbox = <<>> /\ ~deferStart
        /\ helper \in {"waitReply", "exited"}
        /\ UNCHANGED <<helper, opensSession, accepted, exitStatus>>
    BY <1>2, <1>t, <1>m, ReadsAsDue DEF AuthenticationSucceeded, ReceiveAccepted, RequestType
  <2>2. accepted /\ (helper = "exited" => exitStatus # "authError")
    BY <2>1, <1>q DEF Known
  <2>3. CASE request # None /\ transitions
    <3>1. outbox' = <<>> /\ authenticated' = TRUE
      BY <1>2, <2>1, <2>3 DEF AuthenticationSucceeded, ReceiveAccepted
    <3>2. TransitionInv'
      BY <2>1, <2>2, <3>1, Cleared DEF TransitionInv, Silent
    <3> QED
      BY <1>2, <2>1, <2>3, <3>2, <1>q
      DEF AuthenticationSucceeded, DialogueInv, ReaderInv, ServedInv, ReuseInv, Asking, lookupVars,
          reuseVars, lifeVars
  <2>4. CASE ~(request # None /\ transitions)
    <3>1. /\ transitionTimer' = FALSE
          /\ reuseActivationPending' => reuseSessionId # None
          /\ UNCHANGED <<fingerprintLogin, request, target, requests, greeter, reuseSessionId,
                         reuseLookupPending>>
      BY <1>2, <2>1, <2>4
      DEF AuthenticationSucceeded, ActivateReusable, lookupVars, reuseVars, lifeVars
    <3> QED
      BY <2>1, <2>2, <3>1, <1>q
      DEF DialogueInv, TransitionInv, ReaderInv, ServedInv, ReuseInv, Asking
  <2> QED
    BY <2>3, <2>4
<1>3. CASE AuthenticationFailed
  <2>1. helper \notin Asking /\ ~reuseActivationPending
    BY <1>3, <1>t, <1>m, ReadsAsDue DEF AuthenticationFailed, ReceiveRejected, RequestType, Asking
  <2> QED
    BY <1>3, <2>1, <1>f DEF AuthenticationFailed, ReceiveRejected, lookupVars, reuseVars
<1>4. CASE AutologinFailed
  <2>1. helper \notin Asking /\ ~reuseActivationPending /\ ~transitionTimer
    BY <1>4, <1>t, <1>m, ReadsAsDue DEF AutologinFailed, ReceiveRejected, RequestType, Asking
  <2>2. /\ UNCHANGED <<helper, opensSession, fingerprint>>
        /\ UNCHANGED <<fingerprintLogin, transitionTimer, request, target, requests,
                       reuseSessionId, reuseLookupPending, reuseActivationPending>>
        /\ greeter' = "running" \/ UNCHANGED greeter
    BY <1>4 DEF AutologinFailed, ReceiveRejected, StartGreeter, loginVars, lookupVars, reuseVars
  <2> QED
    BY <2>1, <2>2, <1>q DEF DialogueInv, TransitionInv, ReaderInv, ServedInv, ReuseInv
<1>5. CASE SessionStarted \/ SessionNotStarted
  <2>1. helper \notin Asking /\ ~reuseActivationPending
    <3>1. PICK type \in {"OPENED", "NOT_OPENED"} : Receive(type)
      BY <1>5 DEF SessionStarted, SessionNotStarted, ReceiveStatus
    <3>2. ~reuseActivationPending /\ helper \in {"exited", "opened", "notOpened"}
      BY <3>1, <1>t, <1>m, ReadsAsDue DEF RequestType
    <3> QED
      BY <3>2 DEF Asking
  <2> QED
    BY <1>5, <2>1, <1>f
    DEF SessionStarted, SessionNotStarted, ReceiveStatus, lookupVars, reuseVars, restVars
<1>6. CASE HelperFinished
  <2>1. helper' = "none" /\ Unread' = "nothing" /\ helper = "exited"
        /\ UNCHANGED <<opensSession, accepted, exitStatus>>
    BY <1>6, Cleared, Queues, <1>t DEF HelperFinished, HelperReaped
  <2>2. CASE reuseActivationPending
    BY <1>6, <2>1, <2>2, <1>q
    DEF HelperFinished, DialogueInv, TransitionInv, ReaderInv, ServedInv, ReuseInv, Asking,
        loginVars, lookupVars, lifeVars, restVars
  <2>3. CASE ~reuseActivationPending /\ exitStatus = "authError"
    <3>1. /\ transitionTimer' = FALSE /\ request' \in {request, None}
          /\ UNCHANGED <<target, requests, reuseSessionId, reuseLookupPending,
                         reuseActivationPending, greeter>>
      BY <1>6, <2>1, <2>3, <1>q
      DEF HelperFinished, FinishLogin, TransitionInv, loginVars, lookupVars, reuseVars, lifeVars,
          restVars
    <3> QED
      BY <2>1, <2>3, <3>1, <1>q, DialogueOver DEF ServedInv, ReuseInv
  <2>4. CASE ~reuseActivationPending /\ exitStatus # "authError"
    BY <1>6, <2>4, StopKeepsDialogue DEF HelperFinished, Stop, FinishLogin
  <2> QED
    BY <2>2, <2>3, <2>4
<1> QED
  BY <1>1, <1>2, <1>3, <1>4, <1>5, <1>6 DEF DeliverFromHelper

LEMMA DialogueStays ==
  ASSUME TypeOK, LoginInv, AuthOk, DialogueInv, ~LateResults, [Next]_vars
  PROVE  DialogueInv'
<1>1. Next => AuthInv
  BY OnlyBeforeStop DEF AuthOk
<1>2. CASE UNCHANGED vars
  BY <1>2, DialogueKept
  DEF vars, dialogueVars, loginVars, lookupVars, reuseVars, lifeVars, restVars
<1> QED
  BY <1>1, <1>2, GreeterKeepsDialogue, DaemonKeepsDialogue, DeliveryKeepsDialogue,
     HelperKeepsDialogue DEF Next, TypeOK

LEMMA DialogueHolds ==
  ASSUME ~LateResults
  PROVE  Spec => [](AuthOk /\ DialogueInv)
<1>1. Init => AuthOk /\ DialogueInv
  <2> SUFFICES ASSUME Init PROVE AuthOk /\ DialogueInv
    OBVIOUS
  <2>1. helper = "none" /\ inbox = <<>> /\ outbox = <<>> /\ ~deferStart
        /\ deferStart = authenticationPending
    BY DEF Init, AuthInit
  <2>2. Silent /\ Short
    BY <2>1 DEF Silent, Unread, Owed, Short
  <2>3. AuthOk
    BY <2>1, <2>2 DEF AuthOk, AuthInv, Exchange, Known, Deferred, Silent, Asking, Opening
  <2>4. DialogueInv
    BY <2>1 DEF Init, DialogueInv, TransitionInv, ReaderInv, ServedInv, ReuseInv, Asking
  <2> QED
    BY <2>3, <2>4
<1>2. TypeOK /\ LoginInv /\ AuthOk /\ DialogueInv /\ [Next]_vars => (AuthOk /\ DialogueInv)'
  BY AuthStays, DialogueStays
<1> QED
  BY <1>1, <1>2, TypeCorrect, LoginInvariant, PTL DEF Spec

(* The helper is answered as it asked, once, and never before the          *)
(* greeter's transition has ended; a helper that reads the reader gets no  *)
(* input.  When a message may outlive its helper, the late AUTHENTICATED   *)
(* of one is answered to the next.                                         *)
THEOREM RepliesGoOutAsDue ==
  ASSUME ~LateResults
  PROVE  Spec => []RepliesOnlyAsDue
<1>1. TypeOK /\ AuthOk /\ DialogueInv => RepliesOnlyAsDue
  <2> SUFFICES ASSUME TypeOK, AuthOk, DialogueInv PROVE RepliesOnlyAsDue
    OBVIOUS
  <2>t. AuthTypeOK /\ outbox \in Seq(Reply)
    BY DEF TypeOK, AuthTypeOK
  <2>1. ASSUME NEW i \in DOMAIN outbox, outbox[i] = "AUTHENTICATED"
        PROVE  helper = "waitReply" /\ Len(outbox) = 1
    <3>1. AuthInv
      BY <2>1, <2>t DEF AuthOk
    <3>2. Len(outbox) = 1 /\ Head(outbox) = "AUTHENTICATED" /\ outbox # <<>>
      <4>1. Len(outbox) <= 1 /\ Len(outbox) \in Nat /\ DOMAIN outbox = 1..Len(outbox)
        BY <2>t, <3>1 DEF AuthInv, Short
      <4>2. i = 1 /\ Len(outbox) = 1
        BY <2>1, <4>1
      <4>3. Head(outbox) = outbox[1]
        BY <2>t, <4>2
      <4> QED
        BY <2>1, <4>2, <4>3
    <3>3. Owed = "AUTHENTICATED"
      BY <3>2, Zenon DEF Owed
    <3> QED
      BY <3>1, <3>2, <3>3 DEF AuthInv, Exchange, OneOf, Silent
  <2>2. transitionTimer => helper \in {"waitReply", "exited"}
    BY DEF DialogueInv, TransitionInv
  <2>3. fingerprint /\ helper = "prompt" => outbox = <<>>
    BY <2>t, Queues DEF DialogueInv, ReaderInv, Asking
  <2> QED
    BY <2>1, <2>2, <2>3 DEF RepliesOnlyAsDue
<1> QED
  BY <1>1, TypeCorrect, DialogueHolds, PTL

-----------------------------------------------------------------------------
(* Who is told of success.                                                 *)

(* The request r is told of a success it earned, if of any.                *)
Earned(r) ==
  outcome'[r] = "succeeded" /\ outcome[r] # "succeeded"
    => r = target /\ accepted /\ (opensSession \/ reuseActivationPending)

LEMMA SuccessIsEarned ==
  ASSUME TypeOK, LoginInv, AuthOk, DialogueInv, [Next]_vars, NEW r \in RequestId
  PROVE  Earned(r)
<1>d. ServedInv /\ ReuseInv /\ outcome \in [RequestId -> Outcome] /\ request \in RequestId \cup {None}
  BY DEF DialogueInv, TypeOK, LoginTypes
<1>u. UNCHANGED outcome => Earned(r)
  BY DEF Earned
<1>l. UNCHANGED loginVars => Earned(r)
  BY <1>u DEF loginVars
<1>c. UNCHANGED allButCalls => Earned(r)
  BY <1>l DEF allButCalls
<1>t. ASSUME NEW how, how # "succeeded", outcome' = Told(request, how)
      PROVE  Earned(r)
  BY <1>t, <1>d DEF Told, Earned
<1>o. ASSUME NEW how, how # "succeeded", outcome' = [outcome EXCEPT ![requests'] = how]
      PROVE  Earned(r)
  BY <1>o, <1>d DEF Earned
<1>f. ASSUME NEW matched, FinishLogin(FALSE, matched)
      PROVE  Earned(r)
  <2>1. outcome' = Told(request, "finished") \/ outcome' = Told(request, "failed")
    BY <1>f, Zenon DEF FinishLogin
  <2> QED
    BY <2>1, <1>t
<1>s. ASSUME NEW success \in BOOLEAN, NEW matched, FinishLogin(success, matched),
             accepted, opensSession \/ reuseActivationPending
      PROVE  Earned(r)
  <2>1. CASE success
    <3>1. outcome' = Told(request, "succeeded")
      BY <1>s, <2>1, Zenon DEF FinishLogin
    <3>2. outcome'[r] # outcome[r] => r = request /\ request # None
      BY <3>1, <1>d DEF Told
    <3> QED
      BY <1>s, <3>2, <1>d DEF Earned, ServedInv
  <2>2. CASE ~success
    BY <1>s, <2>2, <1>f
  <2> QED
    BY <2>1, <2>2
<1>a. ASSUME NEW success \in BOOLEAN, NEW kept, FinishActivation(success, kept)
      PROVE  Earned(r)
  BY <1>a, <1>s, <1>d DEF FinishActivation, ReuseInv
<1>k. ASSUME NEW how \in {"cancelled", "finished"}, CancelFingerprintLogin(how)
      PROVE  Earned(r)
  BY <1>k, <1>t DEF CancelFingerprintLogin
<1>1. CASE Start
  BY <1>1, <1>l DEF Start, StartWithGreeter, AutologinImpossible, StartAutologin
<1>2. CASE Greeter
  <2>1. CASE LoginAccepted \/ LoginRefused
    <3>1. PICK how \in {"open", "failed"} : Superseded(how)
      BY <2>1 DEF LoginAccepted, LoginRefused
    <3>2. CASE Listening
      <4>1. outcome' = [Told(request, "cancelled") EXCEPT ![requests'] = how]
        BY <3>1, <3>2 DEF Superseded
      <4> QED
        BY <4>1, <1>d DEF Told, Earned
    <3>3. CASE ~Listening
      BY <3>1, <3>3, <1>o DEF Superseded
    <3> QED
      BY <3>2, <3>3
  <2>2. CASE LoginRejected \/ FingerprintAccepted \/ FingerprintRefused
    BY <2>2, <1>o DEF LoginRejected, FingerprintAccepted, FingerprintRefused
  <2>3. CASE FingerprintCancel
    BY <2>3, <1>k DEF FingerprintCancel
  <2>4. CASE AnnounceTransitions \/ TransitionReady
    BY <2>4, <1>u DEF AnnounceTransitions, TransitionReady, CompleteTransition, loginVars
  <2>5. CASE GreeterDies
    BY <2>5, <1>t DEF GreeterDies
  <2> QED
    BY <1>2, <2>1, <2>2, <2>3, <2>4, <2>5 DEF Greeter
<1>3. CASE GreeterFailed \/ DisplayServerStops
  BY <1>3, <1>f DEF GreeterFailed, DisplayServerStops, Stop
<1>4. CASE Logind
  <2> PICK c \in calls : \/ ListReply(c) \/ PropertiesReply(c)
                         \/ UnlockReply(c) \/ ActivateReply(c)
                         \/ SessionByPidReply(c) \/ SessionIdReply(c)
    BY <1>4 DEF Logind
  <2>1. CASE ListReply(c) \/ PropertiesReply(c)
    BY <2>1, <1>c, <1>l DEF ListReply, PropertiesReply, Drop, FinishLookup
  <2>2. CASE UnlockReply(c) \/ ActivateReply(c)
    BY <2>2, <1>a, <1>c DEF UnlockReply, ActivateReply, Drop
  <2>3. CASE SessionByPidReply(c) \/ SessionIdReply(c)
    BY <2>3, <1>c, <1>l DEF SessionByPidReply, SessionIdReply, Drop
  <2> QED
    BY <2>1, <2>2, <2>3
<1>5. CASE Timers
  <2>1. CASE TransitionTimeout
    BY <2>1, <1>u DEF TransitionTimeout, CompleteTransition
  <2>2. CASE ActivationTimeout
    BY <2>2, <1>a DEF ActivationTimeout
  <2>3. CASE AbortFingerprint
    BY <2>3, <1>k, <1>l DEF AbortFingerprint
  <2>4. ASSUME NEW c \in calls, LookupTimeout(c)
        PROVE  Earned(r)
    BY <2>4, <1>c, <1>l DEF LookupTimeout, Drop, FinishLookup
  <2> QED
    BY <1>5, <2>1, <2>2, <2>3, <2>4 DEF Timers
<1>6. CASE DeliverFromHelper
  <2>1. CASE RequestChanged \/ AuthenticationSucceeded \/ AutologinFailed
    BY <2>1, <1>u DEF RequestChanged, AuthenticationSucceeded, AutologinFailed, loginVars
  <2>2. CASE AuthenticationFailed \/ SessionNotStarted
    BY <2>2, <1>f DEF AuthenticationFailed, SessionNotStarted
  <2>3. CASE SessionStarted
    <3>1. AuthInv /\ AuthTypeOK
      BY <2>3, OnlyBeforeStop DEF SessionStarted, AuthOk, TypeOK
    <3>2. Unread = "OPENED"
      BY <2>3, <3>1, Reads DEF SessionStarted, ReceiveStatus, AuthInv
    <3>3. accepted /\ opensSession
      BY <3>1, <3>2 DEF AuthInv, Known
    <3> QED
      BY <2>3, <3>3, <1>s DEF SessionStarted
  <2>4. CASE HelperFinished
    BY <2>4, <1>f, <1>l DEF HelperFinished, Stop
  <2> QED
    BY <1>6, <2>1, <2>2, <2>3, <2>4 DEF DeliverFromHelper
<1>7. CASE Helper \/ UNCHANGED vars
  BY <1>7, <1>l DEF Helper, vars
<1> QED
  BY <1>1, <1>2, <1>3, <1>4, <1>5, <1>6, <1>7 DEF Next

(* Success is announced of no login but the one PAM accepted, whose own    *)
(* session is open or whose existing one was activated, and an existing    *)
(* session is activated only behind PAM's verdict in the run that was      *)
(* started to reuse it.                                                    *)
THEOREM SuccessIsOfTheAccepted ==
  ASSUME ~LateResults
  PROVE  Spec => SuccessOnlyIfAccepted
<1>1. DialogueInv =>
        (reuseActivationPending =>
           /\ accepted
           /\ reuseSessionId # None
           /\ ~reuseLookupPending
           /\ ~opensSession)
  BY DEF DialogueInv, ReuseInv
<1>2. TypeOK /\ LoginInv /\ AuthOk /\ DialogueInv /\ [Next]_vars =>
        [\A r \in RequestId :
           outcome'[r] = "succeeded" /\ outcome[r] # "succeeded"
             => r = target /\ accepted /\ (opensSession \/ reuseActivationPending)]_vars
  BY SuccessIsEarned DEF Earned
<1> QED
  BY <1>1, <1>2, TypeCorrect, LoginInvariant, DialogueHolds, PTL DEF Spec, SuccessOnlyIfAccepted

-----------------------------------------------------------------------------
(* A login and its helper belong together.                                 *)

WaitedFor == request # None => IsActive \/ reuseLookupPending \/ reuseActivationPending

(* Stronger than the property: it covers the helper a lookup will start.   *)
WorksForIt ==
  phase = "started" /\ (helper \in Asking \/ reuseLookupPending) /\ target # None
    => request = target \/ outcome[target] = "lost"

Announced == registered # {} => registered = {dmSession} /\ IsActive

OwnedInv == WaitedFor /\ WorksForIt /\ Announced

(* A helper that moves stays a helper, and none begins to ask anew.        *)
LEMMA HelperStaysActive ==
  ASSUME HelperNext, ~MayFailToStart
  PROVE  IsActive /\ helper' # "none" /\ (helper' \in Asking => helper \in Asking)
BY DEF HelperNext, HelperProgress, HelperConnects, HelperReads, OpensSession, HelperAsks,
   PamAccepts, PamRejects, SessionEnds, HelperCrashes, HelperFailsToStart, Exits, Asking, IsActive

LEMMA OwnedKept ==
  ASSUME OwnedInv, helper' \in Asking => helper \in Asking, IsActive => helper' # "none",
         UNCHANGED <<request, target, outcome, registered, dmSession, reuseLookupPending,
                     reuseActivationPending>>,
         phase' = "started" => phase = "started"
  PROVE  OwnedInv'
BY DEF OwnedInv, WaitedFor, WorksForIt, Announced, IsActive

(* What ends with nobody served, no helper that asks and nothing announced *)
(* without a helper is in order.                                           *)
LEMMA OwnedOver ==
  ASSUME request' = None, ~reuseLookupPending',  helper' \notin Asking, Announced'
  PROVE  OwnedInv'
BY DEF OwnedInv, WaitedFor, WorksForIt

LEMMA Withdrawn ==
  ASSUME OwnedInv, RemoveSession
  PROVE  registered' = {} /\ Announced'
BY DEF OwnedInv, Announced, RemoveSession

(* Auth begins for the request r, with nothing left announced.             *)
LEMMA OwnedAnew ==
  ASSUME registered' = {}, target' = request', IsActive' \/ reuseLookupPending'
  PROVE  OwnedInv'
BY DEF OwnedInv, WaitedFor, WorksForIt, Announced

LEMMA CancelKeepsOwned ==
  ASSUME OwnedInv, NEW result, CancelFingerprintLogin(result)
  PROVE  OwnedInv'
<1>1. request' = None /\ ~reuseLookupPending' /\ helper' \notin Asking
  BY DEF CancelFingerprintLogin, CancelHelper, AuthStop, Asking
<1>2. Announced'
  BY Withdrawn DEF CancelFingerprintLogin, CancelHelper, OwnedInv, Announced, sessionVars
<1> QED
  BY <1>1, <1>2, OwnedOver

LEMMA StopKeepsOwned ==
  ASSUME OwnedInv, StopRest, request' = None
  PROVE  OwnedInv'
<1>1. ~reuseLookupPending' /\ helper' \notin Asking
  BY DEF StopRest, AuthStop, Asking
<1>2. Announced'
  BY Withdrawn DEF StopRest
<1> QED
  BY <1>1, <1>2, OwnedOver

LEMMA ActivationKeepsOwned ==
  ASSUME OwnedInv, DialogueInv, NEW success, NEW kept, FinishActivation(success, kept)
  PROVE  OwnedInv'
<1>0. reuseActivationPending /\ request' = None
  BY DEF FinishActivation, FinishLogin
<1>1. CASE reuseHelperFinished
  BY <1>0, <1>1, StopKeepsOwned DEF FinishActivation
<1>2. CASE ~reuseHelperFinished
  <2>1. ~reuseLookupPending /\ helper \notin Asking
    BY <1>0 DEF DialogueInv, ReuseInv, Asking
  <2>2. UNCHANGED <<helper, reuseLookupPending, registered, dmSession>>
    BY <1>2 DEF FinishActivation, authVars, lookupVars, sessionVars
  <2> QED
    BY <1>0, <2>1, <2>2, OwnedOver DEF OwnedInv, Announced, IsActive
<1> QED
  BY <1>1, <1>2

LEMMA LookupKeepsOwned ==
  ASSUME OwnedInv, reuseLookupPending, phase = "started", NEW session, FinishLookup(session)
  PROVE  OwnedInv'
<1>1. /\ helper' = "starting" /\ reuseLookupPending' = FALSE
      /\ UNCHANGED <<request, target, outcome, registered, dmSession, phase>>
  BY Zenon DEF FinishLookup, AuthStart, loginVars, sessionVars, lifeVars
<1> QED
  BY <1>1 DEF OwnedInv, WaitedFor, WorksForIt, Announced, IsActive

LEMMA CompletedKeepsOwned ==
  ASSUME OwnedInv, DialogueInv, transitionTimer, CompleteTransition
  PROVE  OwnedInv'
<1>1. IsActive /\ helper \notin Asking
  BY DEF DialogueInv, TransitionInv, IsActive, Asking
<1>2. UNCHANGED <<helper, request, target, outcome, registered, dmSession, reuseLookupPending, phase>>
  BY DEF CompleteTransition, lookupVars, sessionVars, lifeVars
<1> QED
  BY <1>1, <1>2 DEF OwnedInv, WaitedFor, WorksForIt, Announced, IsActive

(* The greeter's requests are numbered anew: the one Auth works for keeps  *)
(* what became of it.                                                      *)
LEMMA TargetOlder ==
  ASSUME TypeOK, DialogueInv, NewRequest, target # None
  PROVE  target # requests' /\ target \in RequestId
BY RequestIds DEF TypeOK, LoginTypes, DialogueInv, ServedInv, NewRequest

LEMMA GreeterKeepsOwned ==
  ASSUME TypeOK, LoginInv, DialogueInv, OwnedInv, ~LateResults, Greeter
  PROVE  OwnedInv'
<1>q. /\ ServedInv /\ WaitedFor /\ WorksForIt /\ Announced
      /\ outcome \in [RequestId -> Outcome]
  BY DEF DialogueInv, OwnedInv, TypeOK, LoginTypes
<1>i. Idle => helper = "none" /\ ~reuseLookupPending /\ request = None
  BY DEF Idle, IsActive
<1>o. ASSUME NewRequest, NEW how, outcome' = [outcome EXCEPT ![requests'] = how],
             UNCHANGED <<request, target, helper, reuseLookupPending, reuseActivationPending,
                         registered, dmSession, phase>>
      PROVE  OwnedInv'
  <2>1. target # None => outcome'[target] = outcome[target]
    BY <1>o, <1>q, TargetOlder
  <2> QED
    BY <1>o, <1>q, <2>1 DEF OwnedInv, WaitedFor, WorksForIt, Announced, IsActive
<1>1. CASE AnnounceTransitions
  BY <1>1, OwnedKept
  DEF AnnounceTransitions, authVars, loginVars, lookupVars, reuseVars, sessionVars, restVars, IsActive
<1>2. CASE LoginRejected
  BY <1>2, <1>o DEF LoginRejected, authVars, lookupVars, reuseVars, sessionVars, lifeVars
<1>3. CASE LoginAccepted
  <2>1. registered' = {}
    BY <1>3, <1>q, <1>i DEF LoginAccepted, Announced, IsActive
  <2>2. target' = request'
    BY <1>3 DEF LoginAccepted, BeginAuth
  <2>3. IsActive' \/ reuseLookupPending'
    BY <1>3 DEF LoginAccepted, BeginAuth, AuthStart, IsActive
  <2> QED
    BY <2>1, <2>2, <2>3, OwnedAnew
<1>4. CASE LoginRefused
  <2>1. request' = None /\ ~reuseLookupPending' /\ helper' \notin Asking
    BY <1>4, <1>i DEF LoginRefused, CancelHelper, AuthStop, authVars, lookupVars, Asking
  <2>2. Announced'
    <3>1. CASE Listening
      BY <1>4, <3>1, Withdrawn DEF LoginRefused, CancelHelper, OwnedInv, Announced, sessionVars
    <3>2. CASE ~Listening
      BY <1>4, <3>2, <1>q DEF LoginRefused, Announced, IsActive, authVars, sessionVars
    <3> QED
      BY <3>1, <3>2
  <2> QED
    BY <2>1, <2>2, OwnedOver
<1>5. CASE FingerprintAccepted
  <2>1. registered' = {}
    BY <1>5, <1>q, <1>i DEF FingerprintAccepted, Announced, IsActive
  <2>2. target' = request'
    BY <1>5 DEF FingerprintAccepted, StartAuth, BeginAuth
  <2>3. IsActive' \/ reuseLookupPending'
    BY <1>5 DEF FingerprintAccepted, StartAuth, BeginAuth, AuthStart, IsActive
  <2> QED
    BY <2>1, <2>2, <2>3, OwnedAnew
<1>6. CASE FingerprintRefused
  BY <1>6, <1>o DEF FingerprintRefused, authVars, lookupVars, reuseVars, sessionVars, lifeVars
<1>7. CASE FingerprintCancel
  BY <1>7, CancelKeepsOwned DEF FingerprintCancel
<1>8. CASE TransitionReady
  BY <1>8, CompletedKeepsOwned DEF TransitionReady
<1>9. CASE GreeterDies
  <2>1. /\ request' = None /\ outcome' = Told(request, "lost")
        /\ UNCHANGED <<target, helper, reuseLookupPending, reuseActivationPending, registered,
                       dmSession, phase>>
    BY <1>9 DEF GreeterDies, authVars, lookupVars, reuseVars, sessionVars, restVars
  <2>2. ASSUME target # None, request = target \/ outcome[target] = "lost"
        PROVE  outcome'[target] = "lost"
    <3>1. target \in RequestId
      BY <2>2 DEF TypeOK, LoginTypes
    <3>2. CASE request = target
      BY <2>1, <2>2, <3>1, <3>2, <1>q DEF Told, LoginInv
    <3>3. CASE request # target
      BY <2>1, <2>2, <3>1, <3>3, <1>q DEF Told, ServedInv
    <3> QED
      BY <3>2, <3>3
  <2> QED
    BY <1>q, <2>1, <2>2 DEF OwnedInv, WaitedFor, WorksForIt, Announced, IsActive
<1> QED
  BY <1>1, <1>2, <1>3, <1>4, <1>5, <1>6, <1>7, <1>8, <1>9 DEF Greeter

LEMMA DaemonKeepsOwned ==
  ASSUME TypeOK, LoginInv, DialogueInv, OwnedInv, ~LateResults,
         Start \/ GreeterFailed \/ DisplayServerStops \/ Logind \/ Timers
  PROVE  OwnedInv'
<1>d. UNCHANGED allButCalls => OwnedInv'
  BY OwnedKept
  DEF allButCalls, authVars, loginVars, lookupVars, reuseVars, sessionVars, lifeVars, IsActive
<1>1. CASE Start
  <2>1. /\ phase = "new" /\ helper = "none" /\ request = None /\ ~reuseLookupPending
        /\ registered = {}
    BY <1>1 DEF Start, StartWithGreeter, StartAutologin, AutologinImpossible, LoginInv,
       OwnedInv, Announced, IsActive
  <2>2. CASE StartAutologin
    <3>1. target' = request' /\ registered' = {}
      BY <2>1, <2>2 DEF StartAutologin, StartAuth, BeginAuth, loginVars
    <3>2. IsActive' \/ reuseLookupPending'
      BY <2>2 DEF StartAutologin, StartAuth, BeginAuth, AuthStart, IsActive
    <3> QED
      BY <3>1, <3>2, OwnedAnew
  <2>3. CASE StartWithGreeter \/ AutologinImpossible
    BY <2>1, <2>3
    DEF StartWithGreeter, AutologinImpossible, OwnedInv, WaitedFor, WorksForIt, Announced, Asking,
        authVars, loginVars, lookupVars, sessionVars
  <2> QED
    BY <1>1, <2>2, <2>3 DEF Start
<1>2. CASE GreeterFailed \/ DisplayServerStops
  BY <1>2, StopKeepsOwned DEF GreeterFailed, DisplayServerStops, Stop, FinishLogin
<1>3. CASE Logind
  <2> PICK c \in calls : \/ ListReply(c) \/ PropertiesReply(c)
                         \/ UnlockReply(c) \/ ActivateReply(c)
                         \/ SessionByPidReply(c) \/ SessionIdReply(c)
    BY <1>3 DEF Logind
  <2>1. CASE ListReply(c) \/ PropertiesReply(c)
    BY <2>1, <1>d, LookupKeepsOwned
    DEF ListReply, PropertiesReply, LookupCurrent, Drop, Delivered
  <2>2. CASE UnlockReply(c) \/ ActivateReply(c)
    BY <2>2, <1>d, ActivationKeepsOwned DEF UnlockReply, ActivateReply, Drop
  <2>3. CASE SessionByPidReply(c)
    BY <2>3, <1>d DEF SessionByPidReply, Drop
  <2>4. CASE SessionIdReply(c)
    BY <2>4, <1>d, OwnedKept
    DEF SessionIdReply, Drop, authVars, loginVars, lookupVars, reuseVars, sessionVars, lifeVars,
        IsActive
  <2> QED
    BY <2>1, <2>2, <2>3, <2>4
<1>4. CASE Timers
  <2>1. CASE TransitionTimeout
    BY <2>1, CompletedKeepsOwned DEF TransitionTimeout
  <2>2. CASE ActivationTimeout
    BY <2>2, ActivationKeepsOwned DEF ActivationTimeout
  <2>3. CASE AbortFingerprint
    BY <2>3, CancelKeepsOwned, OwnedKept
    DEF AbortFingerprint, authVars, loginVars, lookupVars, reuseVars, sessionVars, lifeVars, IsActive
  <2>4. ASSUME NEW c \in calls, LookupTimeout(c)
        PROVE  OwnedInv'
    BY <2>4, <1>d, LookupKeepsOwned DEF LookupTimeout, LookupCurrent, Drop, Delivered
  <2> QED
    BY <1>4, <2>1, <2>2, <2>3, <2>4 DEF Timers
<1> QED
  BY <1>1, <1>2, <1>3, <1>4

LEMMA DeliveryKeepsOwned ==
  ASSUME TypeOK, LoginInv, AuthInv, DialogueInv, OwnedInv, ~LateResults, DeliverFromHelper
  PROVE  OwnedInv'
<1>q. /\ WaitedFor /\ WorksForIt /\ Announced /\ AuthTypeOK
      /\ reuseLookupPending => helper = "none"
  BY DEF OwnedInv, LoginInv, TypeOK
<1>m. ASSUME NEW type, Receive(type)
      PROVE  helper \in {"exited", "prompt", "waitReply", "opened", "notOpened"}
  BY <1>m, <1>q, ReadsAsDue
<1>v. ASSUME NEW type \in {"AUTHENTICATED", "REJECTED", "OPENED", "NOT_OPENED"}, Receive(type)
      PROVE  helper \notin Asking /\ IsActive /\ ~reuseLookupPending
  BY <1>v, <1>q, ReadsAsDue DEF RequestType, Asking, IsActive
<1>1. CASE RequestChanged
  BY <1>1, OwnedKept
  DEF RequestChanged, ReceiveRequest, loginVars, lookupVars, reuseVars, sessionVars, lifeVars,
      IsActive
<1>2. CASE AuthenticationSucceeded
  <2>1. /\ helper \notin Asking /\ IsActive /\ ~reuseLookupPending
        /\ UNCHANGED <<helper, reuseLookupPending, dmSession>>
    BY <1>2, <1>v DEF AuthenticationSucceeded, ReceiveAccepted, lookupVars
  <2>2. registered' = IF reuseSessionId = None /\ dmSession # None
                        THEN registered \cup {dmSession} ELSE registered
    BY <1>2 DEF AuthenticationSucceeded
  <2>3. Announced'
    BY <2>1, <2>2, <1>q DEF Announced, IsActive
  <2> QED
    BY <2>1, <2>3 DEF OwnedInv, WaitedFor, WorksForIt, IsActive
<1>3. CASE AuthenticationFailed
  <2>1. /\ helper \notin Asking /\ ~reuseLookupPending /\ request' = None
        /\ UNCHANGED <<helper, reuseLookupPending, dmSession, registered>>
    BY <1>3, <1>v DEF AuthenticationFailed, ReceiveRejected, FinishLogin, lookupVars, sessionVars
  <2> QED
    BY <2>1, <1>q, OwnedOver DEF Announced, IsActive
<1>4. CASE AutologinFailed
  <2>1. phase = "started" /\ UNCHANGED helper
    BY <1>4 DEF AutologinFailed, ReceiveRejected
  <2> QED
    BY <1>4, <2>1, OwnedKept
    DEF AutologinFailed, loginVars, lookupVars, reuseVars, sessionVars, IsActive
<1>5. CASE SessionStarted \/ SessionNotStarted
  <2>1. PICK type \in {"OPENED", "NOT_OPENED"} : Receive(type)
    BY <1>5 DEF SessionStarted, SessionNotStarted, ReceiveStatus
  <2>2. /\ helper \notin Asking /\ ~reuseLookupPending /\ request' = None
        /\ UNCHANGED <<helper, reuseLookupPending>>
    BY <1>5, <2>1, <1>v
    DEF SessionStarted, SessionNotStarted, ReceiveStatus, FinishLogin, lookupVars
  <2>3. Announced'
    BY <1>5, <2>2, <1>q, Withdrawn
    DEF SessionStarted, SessionNotStarted, sessionVars, Announced, IsActive
  <2> QED
    BY <2>2, <2>3, OwnedOver
<1>6. CASE HelperFinished
  <2>1. helper' = "none" /\ ~reuseLookupPending
    BY <1>6, <1>q DEF HelperFinished, HelperReaped
  <2>2. CASE reuseActivationPending
    <3>1. Announced'
      BY <1>6, <2>2, Withdrawn DEF HelperFinished
    <3>2. UNCHANGED <<reuseLookupPending, reuseActivationPending>>
      BY <1>6, <2>2 DEF HelperFinished, lookupVars
    <3> QED
      BY <2>1, <2>2, <3>1, <3>2 DEF OwnedInv, WaitedFor, WorksForIt, Asking
  <2>3. CASE ~reuseActivationPending /\ exitStatus = "authError"
    <3>1. Announced'
      BY <1>6, <2>3, Withdrawn DEF HelperFinished
    <3>2. request' = None /\ UNCHANGED reuseLookupPending
      BY <1>6, <2>3 DEF HelperFinished, FinishLogin, loginVars, lookupVars
    <3> QED
      BY <2>1, <3>1, <3>2, OwnedOver DEF Asking
  <2>4. CASE ~reuseActivationPending /\ exitStatus # "authError"
    BY <1>6, <2>4, StopKeepsOwned DEF HelperFinished, Stop, FinishLogin
  <2> QED
    BY <2>2, <2>3, <2>4
<1> QED
  BY <1>1, <1>2, <1>3, <1>4, <1>5, <1>6 DEF DeliverFromHelper

LEMMA OwnedStays ==
  ASSUME TypeOK, LoginInv, AuthOk, DialogueInv, OwnedInv, ~LateResults, ~MayFailToStart,
         [Next]_vars
  PROVE  OwnedInv'
<1>1. Next => AuthInv
  BY OnlyBeforeStop DEF AuthOk
<1>2. CASE Helper
  BY <1>2, HelperStaysActive, OwnedKept
  DEF Helper, loginVars, lookupVars, reuseVars, sessionVars, lifeVars, restVars
<1>3. CASE UNCHANGED vars
  BY <1>3, OwnedKept
  DEF vars, authVars, loginVars, lookupVars, reuseVars, sessionVars, lifeVars, restVars, IsActive
<1> QED
  BY <1>1, <1>2, <1>3, GreeterKeepsOwned, DaemonKeepsOwned, DeliveryKeepsOwned DEF Next

LEMMA OwnedHolds ==
  ASSUME ~LateResults, ~MayFailToStart
  PROVE  Spec => []OwnedInv
<1>1. Init => OwnedInv
  BY DEF Init, AuthInit, OwnedInv, WaitedFor, WorksForIt, Announced
<1>2. TypeOK /\ LoginInv /\ (AuthOk /\ DialogueInv) /\ OwnedInv /\ [Next]_vars => OwnedInv'
  BY OwnedStays
<1> QED
  BY <1>1, <1>2, TypeCorrect, LoginInvariant, DialogueHolds, PTL DEF Spec

(* A request the greeter waits for has something that will end it, a       *)
(* helper that still asks PAM works for that request, and a session on the *)
(* DisplayManager D-Bus interface has its helper.  A gxdm-helper that is   *)
(* never executed leaves no exit for slotHelperFinished() to act upon.     *)
THEOREM LoginKeepsItsHelper ==
  ASSUME ~LateResults, ~MayFailToStart
  PROVE  Spec => []LoginHasHelper
<1>1. OwnedInv => LoginHasHelper
  BY DEF OwnedInv, WaitedFor, WorksForIt, Announced, LoginHasHelper, Asking
<1> QED
  BY <1>1, OwnedHolds, PTL

-----------------------------------------------------------------------------
(* A started display always shows, or is about to end in, something.       *)

(* A helper that exits with an authentication error has been rejected.     *)
Rejection ==
  helper = "exited" /\ exitStatus = "authError" => ~accepted /\ Unread \in {"nothing", "REJECTED"}

Shown ==
  phase = "started" /\ greeter = "none" =>
    /\ IsActive \/ reuseLookupPending \/ reuseActivationPending
    /\ helper \in Asking \/ Unread = "REJECTED" \/ reuseLookupPending => autologin
    /\ helper = "exited" /\ exitStatus = "authError" => Unread # "nothing"
    /\ reuseActivationPending /\ ~reuseHelperFinished => IsActive

LEMMA ShownKept ==
  ASSUME Shown, UNCHANGED <<authVars, lookupVars, reuseVars, lifeVars>>
  PROVE  Shown'
BY DEF Shown, IsActive, Unread, NextMessage, Asking, authVars, lookupVars, reuseVars, lifeVars

LEMMA ShownByGreeter ==
  ASSUME greeter' # "none" \/ phase' # "started"
  PROVE  Shown'
BY DEF Shown

LEMMA RejectionKept ==
  ASSUME Rejection
  PROVE  /\ UNCHANGED authVars => Rejection'
         /\ helper' # "exited" => Rejection'
         /\ UNCHANGED <<helper, exitStatus, accepted>> /\ Unread' \in {Unread, "nothing"} => Rejection'
BY DEF Rejection, authVars, Unread, NextMessage

LEMMA HelperKeepsShown ==
  ASSUME AuthTypeOK, AuthInv, ReuseInv, Rejection, Shown, ~MayFailToStart,
         "authError" \notin SessionExits, Helper
  PROVE  Rejection' /\ Shown'
<1>q. Short /\ Exchange /\ Known /\ HelperNext
      /\ UNCHANGED <<phase, greeter, autologin, reuseLookupPending, reuseActivationPending,
                     reuseHelperFinished>>
  BY DEF AuthInv, Helper, lookupVars, reuseVars, lifeVars
<1>a. IsActive /\ helper' # "none" /\ (helper' \in Asking => helper \in Asking)
  BY <1>q, HelperStaysActive
<1>1. CASE PamRejects
  <2>1. Unread' = "REJECTED" /\ ~accepted' /\ helper' = "exited" /\ helper \in Asking
    BY <1>1, <1>q, Sends, Queues
    DEF PamRejects, Exits, Exchange, Silent, Known, Asking
  <2> QED
    BY <1>q, <1>a, <2>1 DEF Rejection, Shown, IsActive, Asking
<1>2. CASE HelperCrashes
  <2>1. helper' = "exited" /\ exitStatus' = "other" /\ Unread' = Unread
    BY <1>2, Cleared DEF HelperCrashes, Exits
  <2> QED
    BY <1>q, <1>a, <2>1 DEF Rejection, Shown, IsActive, Asking
<1>3. CASE ~PamRejects /\ ~HelperCrashes
  <2>1. helper' # "exited" \/ exitStatus' # "authError"
    BY <1>3, <1>q
    DEF HelperNext, HelperProgress, HelperConnects, HelperReads, OpensSession, HelperAsks,
        PamAccepts, SessionEnds, HelperFailsToStart, Exits
  <2>2. Unread' = "REJECTED" => Unread = "REJECTED"
    <3>1. CASE HelperConnects
      BY <3>1, Cleared DEF HelperConnects
    <3>2. CASE HelperAsks \/ PamAccepts \/ OpensSession
      <4>1. PICK type \in {"REQUEST", "CHANGE_REQUEST", "AUTHENTICATED", "OPENED", "NOT_OPENED"} :
               Send(type)
        BY <3>2 DEF HelperAsks, PamAccepts, OpensSession
      <4>2. inbox = <<>>
        BY <3>2, <1>q, Queues DEF HelperAsks, PamAccepts, OpensSession, Exchange, Silent
      <4> QED
        BY <4>1, <4>2, Sends
    <3>3. CASE HelperReads \/ SessionEnds \/ HelperFailsToStart
      BY <3>3, Cleared DEF HelperReads, SessionEnds, HelperFailsToStart
    <3> QED
      BY <1>3, <1>q, <3>1, <3>2, <3>3 DEF HelperNext, HelperProgress
  <2> QED
    BY <1>q, <1>a, <2>1, <2>2 DEF Rejection, Shown, IsActive, Asking
<1> QED
  BY <1>1, <1>2, <1>3

LEMMA StartKeepsShown ==
  ASSUME TypeOK, LoginInv, AuthInv, Rejection, Start
  PROVE  Rejection' /\ Shown'
<1>0. phase = "new" /\ helper = "none" /\ Unread = "nothing"
  BY OnlyBeforeStop DEF Start, StartWithGreeter, StartAutologin, AutologinImpossible, LoginInv,
     AuthInv, Exchange, Silent
<1>1. CASE StartWithGreeter \/ AutologinImpossible
  BY <1>1, RejectionKept, ShownByGreeter DEF StartWithGreeter, AutologinImpossible, StartGreeter
<1>2. CASE StartAutologin
  <2>1. /\ autologin' = TRUE /\ reuseActivationPending' = FALSE
        /\ helper' \in {"none", "starting"} /\ (IsActive' \/ reuseLookupPending')
    BY <1>0, <1>2 DEF StartAutologin, StartAuth, BeginAuth, AuthStart, IsActive, authVars
  <2> QED
    BY <2>1, RejectionKept DEF Shown
<1> QED
  BY <1>1, <1>2 DEF Start

LEMMA GreeterKeepsShown ==
  ASSUME Rejection, Greeter
  PROVE  Rejection' /\ Shown'
<1>1. greeter' # "none"
  BY DEF Greeter, AnnounceTransitions, LoginRejected, LoginAccepted, LoginRefused,
     FingerprintAccepted, FingerprintRefused, FingerprintCancel, CancelFingerprintLogin,
     TransitionReady, CompleteTransition, GreeterDies, NewRequest, lifeVars
<1>2. Rejection'
  <2>1. CASE LoginAccepted \/ LoginRefused \/ FingerprintAccepted \/ FingerprintCancel
    BY <2>1, RejectionKept
    DEF LoginAccepted, LoginRefused, FingerprintAccepted, StartAuth, FingerprintCancel,
        CancelFingerprintLogin, CancelHelper, AuthStart, AuthStop
  <2>2. CASE AnnounceTransitions \/ LoginRejected \/ FingerprintRefused \/ GreeterDies
    BY <2>2, RejectionKept DEF AnnounceTransitions, LoginRejected, FingerprintRefused, GreeterDies
  <2>3. CASE TransitionReady
    BY <2>3, RejectionKept, Cleared DEF TransitionReady, CompleteTransition
  <2> QED
    BY <2>1, <2>2, <2>3 DEF Greeter
<1> QED
  BY <1>1, <1>2, ShownByGreeter

LEMMA DaemonKeepsShown ==
  ASSUME TypeOK, LoginInv, DialogueInv, Rejection, Shown,
         GreeterFailed \/ DisplayServerStops \/ Logind \/ Timers
  PROVE  Rejection' /\ Shown'
<1>d. UNCHANGED allButCalls => Rejection' /\ Shown'
  BY RejectionKept, ShownKept DEF allButCalls
<1>s. StopRest => Rejection' /\ Shown'
  BY RejectionKept, ShownByGreeter DEF StopRest, AuthStop
<1>a. ASSUME NEW success, NEW kept, FinishActivation(success, kept)
      PROVE  Rejection' /\ Shown'
  <2>1. CASE reuseHelperFinished
    BY <1>a, <1>s, <2>1 DEF FinishActivation
  <2>2. CASE ~reuseHelperFinished
    <3>1. /\ UNCHANGED authVars /\ UNCHANGED lifeVars /\ UNCHANGED lookupVars
          /\ reuseActivationPending /\ reuseActivationPending' = FALSE
      BY <1>a, <2>2 DEF FinishActivation
    <3>2. Unread' = Unread
      BY <3>1, Cleared DEF authVars
    <3> QED
      BY <2>2, <3>1, <3>2, RejectionKept DEF Shown, IsActive, authVars, lifeVars, lookupVars
  <2> QED
    BY <2>1, <2>2
<1>l. ASSUME NEW session, reuseLookupPending, FinishLookup(session)
      PROVE  Rejection' /\ Shown'
  <2>1. /\ helper = "none" /\ ~reuseActivationPending
    BY <1>l DEF LoginInv, DialogueInv, ReuseInv
  <2>2. /\ helper' = "starting" /\ reuseLookupPending' = FALSE
        /\ UNCHANGED <<phase, greeter, autologin, reuseActivationPending>>
    BY <1>l, Zenon DEF FinishLookup, AuthStart, reuseVars, lifeVars
  <2> QED
    BY <1>l, <2>1, <2>2, RejectionKept DEF Shown, IsActive
<1>t. ASSUME transitionTimer, CompleteTransition
      PROVE  Rejection' /\ Shown'
  <2>1. IsActive /\ Unread' = Unread /\ Rejection'
    BY <1>t, RejectionKept, Cleared
    DEF DialogueInv, TransitionInv, CompleteTransition, IsActive
  <2>2. UNCHANGED <<helper, exitStatus, phase, greeter, autologin, reuseLookupPending>>
    BY <1>t DEF CompleteTransition, lookupVars, lifeVars
  <2> QED
    BY <2>1, <2>2 DEF Shown, IsActive
<1>1. CASE GreeterFailed \/ DisplayServerStops
  BY <1>1, <1>s DEF GreeterFailed, DisplayServerStops, Stop
<1>2. CASE Logind
  <2> PICK c \in calls : \/ ListReply(c) \/ PropertiesReply(c)
                         \/ UnlockReply(c) \/ ActivateReply(c)
                         \/ SessionByPidReply(c) \/ SessionIdReply(c)
    BY <1>2 DEF Logind
  <2>1. CASE ListReply(c) \/ PropertiesReply(c)
    BY <2>1, <1>d, <1>l DEF ListReply, PropertiesReply, LookupCurrent, Drop
  <2>2. CASE UnlockReply(c) \/ ActivateReply(c)
    BY <2>2, <1>d, <1>a DEF UnlockReply, ActivateReply, Drop
  <2>3. CASE SessionByPidReply(c) \/ SessionIdReply(c)
    BY <2>3, <1>d, RejectionKept, ShownKept DEF SessionByPidReply, SessionIdReply, Drop
  <2> QED
    BY <2>1, <2>2, <2>3
<1>3. CASE Timers
  <2>1. CASE TransitionTimeout
    BY <2>1, <1>t DEF TransitionTimeout
  <2>2. CASE ActivationTimeout
    BY <2>2, <1>a DEF ActivationTimeout
  <2>3. CASE AbortFingerprint
    <3>1. CASE Listening
      <4>1. greeter # "none"
        BY <3>1 DEF Listening, LoginInv, DialogueInv, ServedInv
      <4> QED
        BY <2>3, <3>1, <4>1, RejectionKept, ShownByGreeter
        DEF AbortFingerprint, CancelFingerprintLogin, CancelHelper, AuthStop, lifeVars
    <3>2. CASE ~Listening
      BY <2>3, <3>2, RejectionKept, ShownKept DEF AbortFingerprint
    <3> QED
      BY <3>1, <3>2
  <2>4. ASSUME NEW c \in calls, LookupTimeout(c)
        PROVE  Rejection' /\ Shown'
    BY <2>4, <1>d, <1>l DEF LookupTimeout, LookupCurrent, Drop
  <2> QED
    BY <1>3, <2>1, <2>2, <2>3, <2>4 DEF Timers
<1> QED
  BY <1>1, <1>2, <1>3

LEMMA DeliveryKeepsShown ==
  ASSUME TypeOK, LoginInv, AuthInv, DialogueInv, Rejection, Shown, ~LateResults, DeliverFromHelper
  PROVE  Rejection' /\ Shown'
<1>q. /\ Known /\ AuthTypeOK /\ Short /\ phase = "started"
      /\ reuseLookupPending => helper = "none"
  BY DEF AuthInv, LoginInv, TypeOK, DeliverFromHelper, RequestChanged, AuthenticationSucceeded,
     AuthenticationFailed, AutologinFailed, SessionStarted, SessionNotStarted, HelperFinished
<1>m. ASSUME NEW type, Receive(type), UNCHANGED <<helper, exitStatus, accepted>>
      PROVE  /\ Unread = type /\ Unread' = "nothing" /\ IsActive /\ IsActive' /\ Rejection'
             /\ helper = "exited" /\ exitStatus = "authError" => type = "REJECTED"
             /\ ~reuseLookupPending
  <2>1. Unread = type /\ Unread' = "nothing" /\ type # "nothing"
    BY <1>m, <1>q, Reads, Queues DEF Receive
  <2>2. helper # "none"
    BY <1>m, <1>q, ReadsAsDue
  <2> QED
    BY <1>m, <1>q, <2>1, <2>2, RejectionKept DEF Rejection, IsActive
(* A message other than a rejection leaves the display as shown as before. *)
<1>s. ASSUME NEW type, type # "REJECTED", Receive(type), UNCHANGED <<helper, exitStatus, accepted>>,
             UNCHANGED reuseLookupPending, UNCHANGED <<phase, autologin>>,
             greeter' = greeter \/ helper \notin Asking
      PROVE  Shown'
  BY <1>m, <1>s DEF Shown
<1>1. CASE RequestChanged
  <2>1. PICK type \in RequestType : /\ Receive(type) /\ UNCHANGED <<helper, exitStatus, accepted>>
    BY <1>1 DEF RequestChanged, ReceiveRequest
  <2>2. UNCHANGED reuseLookupPending /\ UNCHANGED <<phase, autologin>> /\ greeter' = greeter
    BY <1>1 DEF RequestChanged, lookupVars, lifeVars
  <2> QED
    BY <2>1, <2>2, <1>m, <1>s DEF RequestType
<1>2. CASE AuthenticationSucceeded
  <2>1. Receive("AUTHENTICATED") /\ UNCHANGED <<helper, exitStatus, accepted>>
    BY <1>2 DEF AuthenticationSucceeded, ReceiveAccepted
  <2>2. UNCHANGED reuseLookupPending /\ UNCHANGED <<phase, autologin>> /\ greeter' = greeter
    BY <1>2 DEF AuthenticationSucceeded, lookupVars, lifeVars
  <2> QED
    BY <2>1, <2>2, <1>m, <1>s
<1>3. CASE AuthenticationFailed
  <2>1. Receive("REJECTED") /\ UNCHANGED <<helper, exitStatus, accepted>>
    BY <1>3 DEF AuthenticationFailed, ReceiveRejected
  <2>2. greeter # "none" /\ UNCHANGED greeter
    BY <1>3, <1>q, <2>1, <1>m DEF AuthenticationFailed, Shown, lifeVars
  <2> QED
    BY <2>1, <2>2, <1>m, ShownByGreeter
<1>4. CASE AutologinFailed
  <2>1. Receive("REJECTED") /\ UNCHANGED <<helper, exitStatus, accepted>>
    BY <1>4 DEF AutologinFailed, ReceiveRejected
  <2>2. greeter' # "none" \/ phase' # "started"
    BY <1>4 DEF AutologinFailed, StartGreeter
  <2> QED
    BY <2>1, <2>2, <1>m, ShownByGreeter
<1>5. CASE SessionStarted \/ SessionNotStarted
  <2>1. PICK type \in {"OPENED", "NOT_OPENED"} :
           Receive(type) /\ UNCHANGED <<helper, exitStatus, accepted>>
    BY <1>5 DEF SessionStarted, SessionNotStarted, ReceiveStatus
  <2>2. helper \notin Asking
    BY <2>1, <1>q, ReadsAsDue DEF RequestType, Asking
  <2>3. UNCHANGED reuseLookupPending /\ UNCHANGED <<phase, autologin>>
    BY <1>5 DEF SessionStarted, SessionNotStarted, lookupVars, lifeVars
  <2> QED
    BY <2>1, <2>2, <2>3, <1>m, <1>s
<1>6. CASE HelperFinished
  <2>1. helper = "exited" /\ helper' = "none" /\ Unread = "nothing" /\ Unread' = "nothing"
    BY <1>6, <1>q, Queues, Cleared DEF HelperFinished, HelperReaped
  <2>2. Rejection'
    BY <2>1, RejectionKept
  <2>3. CASE reuseActivationPending
    <3>1. /\ reuseHelperFinished' = TRUE /\ reuseActivationPending' = reuseActivationPending
          /\ UNCHANGED reuseLookupPending
      BY <1>6, <2>3 DEF HelperFinished, lookupVars
    <3> QED
      BY <1>q, <2>1, <2>2, <2>3, <3>1 DEF Shown, Asking
  <2>4. CASE ~reuseActivationPending /\ exitStatus = "authError"
    <3>1. greeter # "none" /\ UNCHANGED greeter
      BY <1>6, <1>q, <2>1, <2>4 DEF HelperFinished, Shown, lifeVars
    <3> QED
      BY <2>2, <3>1, ShownByGreeter
  <2>5. CASE ~reuseActivationPending /\ exitStatus # "authError"
    BY <1>6, <2>2, <2>5, ShownByGreeter DEF HelperFinished, Stop, StopRest
  <2> QED
    BY <2>3, <2>4, <2>5
<1> QED
  BY <1>1, <1>2, <1>3, <1>4, <1>5, <1>6 DEF DeliverFromHelper

(* No display is left on a black screen with nothing to wait for, as long  *)
(* as the helper starts, and no session ends with the code that            *)
(* slotHelperFinished() takes for a failed authentication.                 *)
THEOREM NeverLeftStranded ==
  ASSUME ~LateResults, ~MayFailToStart, "authError" \notin SessionExits
  PROVE  Spec => []NeverStranded
<1>1. Init => Rejection /\ Shown
  BY DEF Init, AuthInit, Rejection, Shown
<1>2. TypeOK /\ LoginInv /\ (AuthOk /\ DialogueInv) /\ (Rejection /\ Shown) /\ [Next]_vars
        => (Rejection /\ Shown)'
  <2> SUFFICES ASSUME TypeOK, LoginInv, AuthOk, DialogueInv, Rejection, Shown, [Next]_vars
               PROVE  Rejection' /\ Shown'
    OBVIOUS
  <2>1. Next => AuthInv
    BY OnlyBeforeStop DEF AuthOk
  <2>2. CASE UNCHANGED vars
    BY <2>2, RejectionKept, ShownKept DEF vars
  <2> QED
    BY <2>1, <2>2, StartKeepsShown, GreeterKeepsShown, DaemonKeepsShown, DeliveryKeepsShown,
       HelperKeepsShown DEF Next, TypeOK, DialogueInv
<1>3. Shown => NeverStranded
  BY DEF Shown, NeverStranded
<1> QED
  BY <1>1, <1>2, <1>3, TypeCorrect, LoginInvariant, DialogueHolds, PTL DEF Spec

-----------------------------------------------------------------------------
(* Once Auth has read PAM's verdict, the display remembers it for as long  *)
(* as a helper goes on with the login.                                     *)
Verified == helper \in {"waitReply"} \cup Opening /\ Unread # "AUTHENTICATED" => authenticated

LEMMA HelperKeepsVerified ==
  ASSUME AuthTypeOK, AuthInv, Verified, Helper
  PROVE  Verified'
<1>q. Exchange /\ HelperNext /\ authenticated' = authenticated
  BY DEF AuthInv, Helper, restVars
<1>1. CASE PamAccepts
  <2>1. inbox = <<>>
    BY <1>1, <1>q, Queues DEF PamAccepts, Exchange, Silent
  <2> QED
    BY <1>1, <2>1, Sends DEF PamAccepts, Verified
<1>2. CASE HelperReads
  <2>1. Unread = "nothing"
    BY <1>2, <1>q, Queues DEF HelperReads, Exchange, OneOf, Silent
  <2>2. \/ helper' \in {"exited", "auth"}
        \/ helper \in {"waitReply", "opened"}
    BY <1>2 DEF HelperReads, Exits
  <2> QED
    BY <1>q, <2>1, <2>2 DEF Verified, Opening
<1>3. CASE OpensSession
  <2>1. Unread = "nothing" /\ helper = "opening"
    BY <1>3, <1>q DEF OpensSession, Exchange, Silent
  <2> QED
    BY <1>q, <2>1 DEF Verified, Opening
<1> QED
  BY <1>q, <1>1, <1>2, <1>3
  DEF HelperNext, HelperProgress, HelperConnects, HelperAsks, PamRejects, SessionEnds,
      HelperCrashes, HelperFailsToStart, Exits, Verified, Opening

LEMMA VerifiedStays ==
  ASSUME TypeOK, LoginInv, AuthOk, Verified, [Next]_vars
  PROVE  Verified'
<1>t. AuthTypeOK
  BY DEF TypeOK
<1>k. UNCHANGED <<authVars, authenticated>> => Verified'
  BY DEF authVars, Verified, Unread, NextMessage
<1>0. CASE UNCHANGED vars
  BY <1>0, <1>k DEF vars, restVars
<1>n. CASE Next
  <2>0. AuthInv /\ (phase = "new" => Start)
    BY <1>n, OnlyBeforeStop DEF AuthOk
  <2>g. helper' \in {"none", "starting", "exited"} => Verified'
    BY DEF Verified, Opening
  <2>s. StopRest => Verified'
    BY <2>g DEF StopRest, AuthStop
  <2>b. \A opens, finger : AuthStart(opens, finger) => Verified'
    BY <2>g DEF AuthStart
  <2>l. \A session : FinishLookup(session) => Verified'
    BY <2>b, Zenon DEF FinishLookup
  <2>d. UNCHANGED allButCalls => Verified'
    BY <1>k DEF allButCalls
  <2>a. ASSUME NEW success, NEW kept, FinishActivation(success, kept)
        PROVE  Verified'
    BY <2>a, <2>s, <1>k DEF FinishActivation
  <2>c. CancelHelper => Verified'
    BY <2>g DEF CancelHelper, AuthStop
  <2>r. CompleteTransition => Verified'
    BY DEF CompleteTransition, Verified, Unread, NextMessage
  <2>m. ASSUME NEW type, Receive(type), type # "AUTHENTICATED", UNCHANGED <<helper, authenticated>>
        PROVE  Verified'
    <3>1. Unread = type
      BY <2>m DEF Receive, Unread
    <3> QED
      BY <2>m, <3>1 DEF Verified
  <2>1. CASE Start
    <3>1. helper = "none"
      BY <2>1 DEF Start, StartWithGreeter, StartAutologin, AutologinImpossible, LoginInv
    <3> QED
      BY <2>1, <2>b, <2>g, <3>1
      DEF Start, StartWithGreeter, AutologinImpossible, StartAutologin, StartAuth, authVars
  <2>2. CASE Greeter
    <3>1. CASE LoginAccepted
      BY <3>1, <2>g DEF LoginAccepted, AuthStart, AuthStop, Idle, IsActive, authVars
    <3>2. CASE LoginRefused
      BY <3>2, <2>c, <2>g DEF LoginRefused, Idle, IsActive, authVars
    <3>3. CASE FingerprintAccepted
      BY <3>3, <2>g DEF FingerprintAccepted, StartAuth, AuthStart, Idle, IsActive, authVars
    <3>4. CASE FingerprintCancel
      BY <3>4, <2>c DEF FingerprintCancel, CancelFingerprintLogin
    <3>5. CASE AnnounceTransitions \/ LoginRejected \/ GreeterDies
      BY <3>5, <1>k DEF AnnounceTransitions, LoginRejected, GreeterDies, restVars
    <3>6. CASE FingerprintRefused
      BY <3>6, <1>k, <2>g DEF FingerprintRefused, Idle, IsActive, authVars
    <3>7. CASE TransitionReady
      BY <3>7, <2>r DEF TransitionReady
    <3> QED
      BY <2>2, <3>1, <3>2, <3>3, <3>4, <3>5, <3>6, <3>7 DEF Greeter
  <2>3. CASE GreeterFailed \/ DisplayServerStops
    BY <2>3, <2>s DEF GreeterFailed, DisplayServerStops, Stop
  <2>4. CASE Logind
    <3> PICK c \in calls : \/ ListReply(c) \/ PropertiesReply(c)
                           \/ UnlockReply(c) \/ ActivateReply(c)
                           \/ SessionByPidReply(c) \/ SessionIdReply(c)
      BY <2>4 DEF Logind
    <3>1. CASE ListReply(c) \/ PropertiesReply(c)
      BY <3>1, <2>l, <2>d DEF ListReply, PropertiesReply, Drop
    <3>2. CASE UnlockReply(c) \/ ActivateReply(c)
      BY <3>2, <2>a, <2>d DEF UnlockReply, ActivateReply, Drop
    <3>3. CASE SessionByPidReply(c) \/ SessionIdReply(c)
      BY <3>3, <1>k, <2>d DEF SessionByPidReply, SessionIdReply, Drop
    <3> QED
      BY <3>1, <3>2, <3>3
  <2>5. CASE Timers
    <3>1. CASE TransitionTimeout
      BY <3>1, <2>r DEF TransitionTimeout
    <3>2. CASE ActivationTimeout
      BY <3>2, <2>a DEF ActivationTimeout
    <3>3. CASE AbortFingerprint
      BY <3>3, <2>c, <1>k DEF AbortFingerprint, CancelFingerprintLogin
    <3>4. ASSUME NEW c \in calls, LookupTimeout(c)
          PROVE  Verified'
      BY <3>4, <2>l, <2>d DEF LookupTimeout, Drop
    <3> QED
      BY <2>5, <3>1, <3>2, <3>3, <3>4 DEF Timers
  <2>6. CASE DeliverFromHelper
    <3>1. CASE RequestChanged
      <4>1. PICK type \in RequestType :
               ReceiveRequest(type, type = "REQUEST" /\ ~fingerprintLogin)
        BY <3>1 DEF RequestChanged
      <4> QED
        BY <3>1, <4>1, <2>m DEF RequestChanged, ReceiveRequest, RequestType
    <3>2. CASE AuthenticationSucceeded
      BY <3>2 DEF AuthenticationSucceeded, Verified
    <3>3. CASE AuthenticationFailed \/ AutologinFailed
      <4>1. Receive("REJECTED") /\ helper' = helper
        BY <3>3 DEF AuthenticationFailed, AutologinFailed, ReceiveRejected
      <4>2. helper = "exited"
        BY <1>t, <2>0, <4>1, ReadsAsDue DEF RequestType
      <4> QED
        BY <2>g, <4>1, <4>2
    <3>4. CASE SessionStarted \/ SessionNotStarted
      BY <3>4, <2>m DEF SessionStarted, SessionNotStarted, ReceiveStatus, restVars
    <3>5. CASE HelperFinished
      BY <3>5, <2>g DEF HelperFinished, HelperReaped
    <3> QED
      BY <2>6, <3>1, <3>2, <3>3, <3>4, <3>5 DEF DeliverFromHelper
  <2>7. CASE Helper
    BY <2>7, <1>t, <2>0, HelperKeepsVerified
  <2> QED
    BY <1>n, <2>1, <2>2, <2>3, <2>4, <2>5, <2>6, <2>7 DEF Next
<1> QED
  BY <1>0, <1>n

LEMMA VerifiedHolds ==
  ASSUME ~LateResults
  PROVE  Spec => []Verified
<1>1. Init => Verified
  BY DEF Init, AuthInit, Verified, Opening
<1> QED
  BY <1>1, VerifiedStays, TypeCorrect, LoginInvariant, DialogueHolds, PTL DEF Spec
=============================================================================
