------------------------------ MODULE AuthProofs ------------------------------
(***************************************************************************)
(* Facts about the operations of Auth and the steps of its helper that the *)
(* proofs about their owners rest on.                                      *)
(***************************************************************************)
EXTENDS Auth, TLAPS

USE DEF HelperState, ExitStatus, RequestType, Message, Reply, Connected

(* Nothing outstanding is well typed.                                      *)
LEMMA NothingQueued == <<>> \in Seq(Reply) /\ <<>> \in Seq(Message)
OBVIOUS

LEMMA AuthInitTypes == AuthInit => AuthTypeOK
<1> SUFFICES ASSUME AuthInit PROVE AuthTypeOK
  OBVIOUS
<1>1. run = 0 /\ helper = "none" /\ exitStatus = "success" /\ inbox = <<>> /\ outbox = <<>>
  BY DEF AuthInit
<1>2. /\ opensSession = FALSE /\ fingerprint = FALSE /\ accepted = FALSE
      /\ deferStart = FALSE /\ authenticationPending = FALSE
  BY DEF AuthInit
<1>3. run \in Nat /\ helper \in HelperState /\ exitStatus \in ExitStatus
  BY <1>1
<1>4. inbox \in Seq(Message) /\ outbox \in Seq(Reply)
  BY <1>1, NothingQueued
<1> QED
  BY <1>2, <1>3, <1>4 DEF AuthTypeOK

(* What the owner does with its helper keeps every variable in its type.   *)
LEMMA OwnerTypes ==
  ASSUME AuthTypeOK
  PROVE  /\ \A opens, finger \in BOOLEAN : AuthStart(opens, finger) => AuthTypeOK'
         /\ AuthStop => AuthTypeOK'
         /\ UNCHANGED authVars => AuthTypeOK'
         /\ HelperReaped => AuthTypeOK'
<1>1. ASSUME NEW opens \in BOOLEAN, NEW finger \in BOOLEAN, AuthStart(opens, finger)
      PROVE  AuthTypeOK'
  <2>1. opensSession' \in BOOLEAN /\ fingerprint' \in BOOLEAN
    BY <1>1, Zenon DEF AuthStart
  <2>2. /\ run' = run + 1 /\ helper' = "starting" /\ outbox' = <<>>
        /\ accepted' = FALSE /\ deferStart' = FALSE /\ authenticationPending' = FALSE
        /\ exitStatus' = exitStatus /\ inbox' = inbox
    BY <1>1, Zenon DEF AuthStart
  <2>3. run' \in Nat /\ helper' \in HelperState /\ exitStatus' \in ExitStatus
    BY <2>2 DEF AuthTypeOK
  <2>4. inbox' \in Seq(Message) /\ outbox' \in Seq(Reply)
    BY <2>2, NothingQueued DEF AuthTypeOK
  <2>5. accepted' \in BOOLEAN /\ deferStart' \in BOOLEAN /\ authenticationPending' \in BOOLEAN
    BY <2>2
  <2> QED
    BY <2>1, <2>3, <2>4, <2>5 DEF AuthTypeOK
<1>2. AuthStop => AuthTypeOK'
  BY NothingQueued DEF AuthTypeOK, AuthStop
<1>3. UNCHANGED authVars => AuthTypeOK'
  BY DEF AuthTypeOK, authVars
<1>4. HelperReaped => AuthTypeOK'
  BY NothingQueued DEF AuthTypeOK, HelperReaped
<1> QED
  BY <1>1, <1>2, <1>3, <1>4

LEMMA ReplyTypes ==
  ASSUME AuthTypeOK, NEW reply \in Reply
  PROVE  Sent(reply) \in Seq(Reply)
BY DEF AuthTypeOK, Sent

LEMMA MessageTypes ==
  ASSUME AuthTypeOK,
         NEW type \in RequestType \cup {"AUTHENTICATED", "REJECTED", "OPENED", "NOT_OPENED"}
  PROVE  /\ Send(type) => inbox' \in Seq(Message)
         /\ Receive(type) => inbox' \in Seq(Message)
<1>1. ASSUME Send(type)
      PROVE  inbox' \in Seq(Message)
  <2>1. [type |-> type, run |-> run] \in Message
    BY DEF AuthTypeOK
  <2> QED
    BY <1>1, <2>1 DEF AuthTypeOK, Send
<1>2. ASSUME Receive(type)
      PROVE  inbox' \in Seq(Message)
  BY <1>2 DEF AuthTypeOK, Receive
<1> QED
  BY <1>1, <1>2

(* So does what it does with a message of the helper.                      *)
LEMMA ReceiverTypes ==
  ASSUME AuthTypeOK
  PROVE  /\ \A defers \in BOOLEAN : ReceiveAccepted(defers) => AuthTypeOK'
         /\ \A type \in RequestType, answers \in BOOLEAN :
              ReceiveRequest(type, answers) => AuthTypeOK'
         /\ ReceiveRejected => AuthTypeOK'
         /\ \A type \in {"OPENED", "NOT_OPENED"} : ReceiveStatus(type) => AuthTypeOK'
<1>1. ASSUME NEW defers \in BOOLEAN, ReceiveAccepted(defers)
      PROVE  AuthTypeOK'
  BY <1>1, ReplyTypes, MessageTypes DEF AuthTypeOK, ReceiveAccepted, Resume
<1>2. ASSUME NEW type \in RequestType, NEW answers \in BOOLEAN, ReceiveRequest(type, answers)
      PROVE  AuthTypeOK'
  <2>1. inbox' \in Seq(Message)
    BY <1>2, MessageTypes DEF ReceiveRequest
  <2>2. outbox' \in Seq(Reply)
    BY <1>2, ReplyTypes DEF AuthTypeOK, ReceiveRequest
  <2> QED
    BY <1>2, <2>1, <2>2 DEF AuthTypeOK, ReceiveRequest
<1>3. ReceiveRejected => AuthTypeOK'
  BY MessageTypes DEF AuthTypeOK, ReceiveRejected
<1>4. ASSUME NEW type \in {"OPENED", "NOT_OPENED"}, ReceiveStatus(type)
      PROVE  AuthTypeOK'
  BY <1>4, ReplyTypes, MessageTypes DEF AuthTypeOK, ReceiveStatus
<1> QED
  BY <1>1, <1>2, <1>3, <1>4

(* And so does every step of the helper.                                   *)
LEMMA HelperTypes ==
  ASSUME AuthTypeOK, HelperNext
  PROVE  AuthTypeOK'
<1> USE AuthAssumption DEF ownerOnly, Exits
<1>1. CASE HelperConnects
  BY <1>1 DEF AuthTypeOK, HelperConnects
<1>2. CASE HelperReads
  <2>1. CASE Exits("success") \/ Exits("sessionError")
    BY <1>2, <2>1, NothingQueued DEF AuthTypeOK, HelperReads
  <2>2. CASE outbox' = Tail(outbox)
    <3>1. outbox' \in Seq(Reply)
      BY <1>2, <2>2 DEF AuthTypeOK, HelperReads
    <3> QED
     BY <1>2, <2>2, <3>1 DEF AuthTypeOK, HelperReads
  <2> QED
    BY <1>2, <2>1, <2>2 DEF HelperReads
<1>3. CASE OpensSession
  BY <1>3, MessageTypes DEF AuthTypeOK, OpensSession
<1>4. CASE HelperAsks
  BY <1>4, MessageTypes DEF AuthTypeOK, HelperAsks, RequestType
<1>5. CASE PamAccepts
  BY <1>5, MessageTypes DEF AuthTypeOK, PamAccepts
<1>6. CASE PamRejects
  BY <1>6, MessageTypes DEF AuthTypeOK, PamRejects
<1>7. CASE SessionEnds
  BY <1>7 DEF AuthTypeOK, SessionEnds
<1>8. CASE HelperCrashes
  BY <1>8 DEF AuthTypeOK, HelperCrashes
<1>9. CASE HelperFailsToStart
  BY <1>9 DEF AuthTypeOK, HelperFailsToStart
<1> QED
  BY <1>1, <1>2, <1>3, <1>4, <1>5, <1>6, <1>7, <1>8, <1>9 DEF HelperNext, HelperProgress
=============================================================================
