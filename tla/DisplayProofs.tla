---------------------------- MODULE DisplayProofs ----------------------------
(***************************************************************************)
(* Proofs about Display for every value of its constants: any number of    *)
(* requests and of logind sessions, every configuration, and a helper that *)
(* may fail to start, answer late or end with any exit code.               *)
(***************************************************************************)
EXTENDS DisplayProperties, AuthProofs

-----------------------------------------------------------------------------
(* Type correctness.                                                       *)

LEMMA RequestIds == RequestId \subseteq Nat /\ None \notin RequestId
BY DisplayAssumption DEF RequestId

(* A generation only counts up.                                            *)
LEMMA Generations ==
  ASSUME TypeOK
  PROVE  /\ reuseLookupGeneration \in Nat /\ reuseActivationGeneration \in Nat
         /\ reuseLookupGeneration + 1 \in Nat /\ reuseActivationGeneration + 1 \in Nat
BY DEF TypeOK, ReuseTypes

LEMMA ToldTypes ==
  ASSUME TypeOK, NEW r \in RequestId \cup {None}, NEW result \in Outcome
  PROVE  Told(r, result) \in [RequestId -> Outcome]
<1>1. CASE r = None
  BY <1>1 DEF TypeOK, LoginTypes, Told
<1>2. CASE r # None
  <2>1. Told(r, result) =
          [outcome EXCEPT ![r] = IF outcome[r] = "open" THEN result ELSE "duplicate"]
    BY <1>2 DEF Told
  <2>2. (IF outcome[r] = "open" THEN result ELSE "duplicate") \in Outcome
    BY DEF Outcome
  <2> QED
    BY <2>1, <2>2 DEF TypeOK, LoginTypes
<1> QED
  BY <1>1, <1>2

LEMMA FinishLoginTypes ==
  ASSUME TypeOK, NEW success, NEW matched, FinishLogin(success, matched)
  PROVE  /\ request' = None
         /\ transitionTimer' = FALSE
         /\ fingerprintLogin' = FALSE
         /\ outcome' \in [RequestId -> Outcome]
<1>1. /\ Told(request, "succeeded") \in [RequestId -> Outcome]
      /\ Told(request, "finished") \in [RequestId -> Outcome]
      /\ Told(request, "failed") \in [RequestId -> Outcome]
  <2>1. request \in RequestId \cup {None}
    BY DEF TypeOK, LoginTypes
  <2>2. {"succeeded", "finished", "failed"} \subseteq Outcome
    BY DEF Outcome, Result
  <2> QED
    BY <2>1, <2>2, ToldTypes
<1>2. outcome' \in {Told(request, "succeeded"), Told(request, "finished"), Told(request, "failed")}
  BY Zenon DEF FinishLogin
<1> QED
  BY <1>1, <1>2 DEF FinishLogin

LEMMA RemoveSessionTypes ==
  ASSUME LifeTypes, RemoveSession
  PROVE  dmSession' \in Nat \cup {None} /\ registered' \subseteq Nat
BY DEF LifeTypes, RemoveSession

(* One step of TypeOK for each thing a display does.                       *)
LEMMA StopTypes ==
  ASSUME TypeOK, NEW success, NEW matched, FinishLogin(success, matched), StopRest,
         reuseSessionId' \in LogindSessions \cup {None}
  PROVE  TypeOK'
<1>1. AuthTypeOK'
  BY OwnerTypes DEF TypeOK, StopRest
<1>2. LoginTypes'
  <2>1. /\ request' = None /\ transitionTimer' = FALSE /\ fingerprintLogin' = FALSE
        /\ outcome' \in [RequestId -> Outcome]
    BY FinishLoginTypes, Zenon
  <2>2. UNCHANGED <<target, requests, authenticated, abortQueued>>
    BY DEF StopRest
  <2> QED
    BY <2>1, <2>2 DEF TypeOK, LoginTypes
<1>3. ReuseTypes'
  <2>1. reuseLookupGeneration' \in Nat /\ reuseActivationGeneration' \in Nat
    BY Generations DEF StopRest
  <2>2. /\ reuseLookupPending' = FALSE /\ reuseActivationPending' = FALSE
        /\ reuseActivationTimer' = FALSE /\ reuseHelperFinished' = FALSE
    BY DEF StopRest
  <2> QED
    BY <2>1, <2>2 DEF ReuseTypes
<1>4. LifeTypes'
  BY RemoveSessionTypes DEF TypeOK, LifeTypes, StopRest
<1>5. calls' \subseteq Call
  BY DEF StopRest
<1> QED
  BY <1>1, <1>2, <1>3, <1>4, <1>5 DEF TypeOK

LEMMA StopStepTypes ==
  ASSUME TypeOK, Stop
  PROVE  TypeOK'
<1>1. reuseSessionId' \in LogindSessions \cup {None}
  BY DEF Stop, TypeOK, ReuseTypes
<1> QED
  BY <1>1, StopTypes DEF Stop

(* The groups of variables an action leaves alone keep their types.        *)
LEMMA UnchangedTypes ==
  ASSUME TypeOK
  PROVE  /\ UNCHANGED authVars => AuthTypeOK'
         /\ UNCHANGED <<lookupVars, reuseVars, reuseSessionId>> => ReuseTypes'
         /\ UNCHANGED <<sessionVars, lifeVars, logindSessionId>> => LifeTypes'
         /\ UNCHANGED <<loginVars, target, requests, authenticated, abortQueued>> => LoginTypes'
         /\ UNCHANGED calls => calls' \subseteq Call
<1>1. UNCHANGED authVars => AuthTypeOK'
  BY OwnerTypes DEF TypeOK
<1>2. UNCHANGED <<lookupVars, reuseVars, reuseSessionId>> => ReuseTypes'
  BY DEF TypeOK, ReuseTypes, lookupVars, reuseVars
<1>3. UNCHANGED <<sessionVars, lifeVars, logindSessionId>> => LifeTypes'
  BY DEF TypeOK, LifeTypes, sessionVars, lifeVars
<1>4. UNCHANGED <<loginVars, target, requests, authenticated, abortQueued>> => LoginTypes'
  BY DEF TypeOK, LoginTypes, loginVars
<1>5. UNCHANGED calls => calls' \subseteq Call
  BY DEF TypeOK
<1> QED
  BY <1>1, <1>2, <1>3, <1>4, <1>5

LEMMA BeginAuthTypes ==
  ASSUME TypeOK, NEW r \in RequestId \cup {None}, NEW name \in Nat, NEW gen \in Nat,
         BeginAuth(r, name, gen)
  PROVE  /\ target' = r
         /\ authenticated' = FALSE
         /\ ReuseTypes'
         /\ dmSession' = name
         /\ logindSessionId' = None
         /\ calls' \subseteq Call
<1>1. ReuseTypes'
  <2>1. reuseLookupGeneration' \in Nat /\ reuseActivationGeneration' \in Nat
    <3>1. gen + 1 \in Nat /\ gen + 2 \in Nat
      OBVIOUS
    <3>2. reuseLookupGeneration' \in {gen + 1, gen + 2}
      BY DEF BeginAuth
    <3>3. reuseActivationGeneration' = reuseActivationGeneration + 1
      BY DEF BeginAuth
    <3> QED
      BY <3>1, <3>2, <3>3, Generations
  <2>2. /\ reuseLookupPending' \in BOOLEAN /\ reuseActivationPending' = FALSE
        /\ reuseActivationTimer' = FALSE /\ reuseHelperFinished' = FALSE
        /\ reuseSessionId' = None
    BY DEF BeginAuth
  <2> QED
    BY <2>1, <2>2 DEF ReuseTypes
<1>2. LookupCall(gen + 2) \subseteq Call
  BY DEF LookupCall, Call
<1>3. calls' \subseteq Call
  BY <1>2 DEF BeginAuth, TypeOK
<1> QED
  BY <1>1, <1>3 DEF BeginAuth

LEMMA FinishLookupTypes ==
  ASSUME TypeOK, NEW session \in LogindSessions \cup {None}, FinishLookup(session),
         calls' \subseteq Call
  PROVE  TypeOK'
<1>1. AuthTypeOK'
  <2>1. fingerprintLogin \in BOOLEAN /\ (session = None) \in BOOLEAN
    BY DEF TypeOK, LoginTypes
  <2>2. AuthStart(session = None, fingerprintLogin)
    BY DEF FinishLookup
  <2> QED
    BY <2>1, <2>2, OwnerTypes, Zenon DEF TypeOK
<1>2. LoginTypes' /\ LifeTypes'
  BY UnchangedTypes DEF FinishLookup
<1>3. ReuseTypes'
  BY DEF FinishLookup, TypeOK, ReuseTypes, reuseVars
<1> QED
  BY <1>1, <1>2, <1>3 DEF TypeOK

LEMMA ActivateReusableTypes ==
  ASSUME TypeOK, NEW kept \in SUBSET Call, reuseSessionId # None, ActivateReusable(kept)
  PROVE  /\ reuseActivationPending' \in BOOLEAN
         /\ reuseActivationGeneration' \in Nat
         /\ reuseActivationTimer' \in BOOLEAN
         /\ reuseHelperFinished' \in BOOLEAN
         /\ calls' \subseteq Call
<1>1. [kind |-> "unlock", gen |-> reuseActivationGeneration + 1, of |-> reuseSessionId] \in Call
  BY DEF TypeOK, ReuseTypes, Call
<1> QED
  BY <1>1 DEF ActivateReusable, TypeOK, ReuseTypes

LEMMA FinishActivationTypes ==
  ASSUME TypeOK, NEW success \in BOOLEAN, NEW kept \in SUBSET Call,
         FinishActivation(success, kept)
  PROVE  TypeOK'
<1>1. reuseSessionId' \in LogindSessions \cup {None}
  BY DEF FinishActivation, TypeOK, ReuseTypes
<1>2. FinishLogin(success, authenticated)
  BY DEF FinishActivation
<1>3. CASE reuseHelperFinished
  BY <1>1, <1>2, <1>3, StopTypes DEF FinishActivation
<1>4. CASE ~reuseHelperFinished
  <2>1. AuthTypeOK' /\ LifeTypes'
    BY <1>4, UnchangedTypes DEF FinishActivation
  <2>2. LoginTypes'
    <3>1. /\ request' = None /\ transitionTimer' = FALSE /\ fingerprintLogin' = FALSE
          /\ outcome' \in [RequestId -> Outcome]
      BY <1>2, FinishLoginTypes, Zenon
    <3>2. UNCHANGED <<target, requests, authenticated, abortQueued>>
      BY <1>4 DEF FinishActivation
    <3> QED
      BY <3>1, <3>2 DEF TypeOK, LoginTypes
  <2>3. ReuseTypes'
    BY <1>1, <1>4 DEF FinishActivation, TypeOK, ReuseTypes, lookupVars
  <2>4. calls' \subseteq Call
    BY <1>4 DEF FinishActivation
  <2> QED
    BY <2>1, <2>2, <2>3, <2>4 DEF TypeOK
<1> QED
  BY <1>3, <1>4

LEMMA CancelTypes ==
  ASSUME TypeOK, NEW result \in {"cancelled", "finished"}, CancelFingerprintLogin(result),
         abortQueued' \in BOOLEAN
  PROVE  TypeOK'
<1>1. AuthTypeOK'
  BY OwnerTypes DEF CancelFingerprintLogin, CancelHelper, TypeOK
<1>2. LoginTypes'
  <2>1. outcome' \in [RequestId -> Outcome]
    <3>1. result \in Outcome /\ request \in RequestId \cup {None}
      BY DEF Outcome, Result, TypeOK, LoginTypes
    <3> QED
      BY <3>1, ToldTypes DEF CancelFingerprintLogin
  <2>2. request' = None /\ fingerprintLogin' = FALSE
        /\ UNCHANGED <<transitionTimer, target, authenticated, requests>>
    BY DEF CancelFingerprintLogin
  <2> QED
    BY <2>1, <2>2 DEF TypeOK, LoginTypes
<1>3. ReuseTypes'
  <2>1. reuseLookupGeneration' \in Nat /\ reuseLookupPending' = FALSE
    BY Generations DEF CancelFingerprintLogin
  <2>2. UNCHANGED <<reuseVars, reuseSessionId>>
    BY DEF CancelFingerprintLogin
  <2> QED
    BY <2>1, <2>2 DEF TypeOK, ReuseTypes, reuseVars
<1>4. LifeTypes'
  BY RemoveSessionTypes DEF CancelFingerprintLogin, CancelHelper, TypeOK, LifeTypes,
     sessionVars, lifeVars
<1>5. calls' \subseteq Call
  BY DEF CancelFingerprintLogin, TypeOK
<1> QED
  BY <1>1, <1>2, <1>3, <1>4, <1>5 DEF TypeOK

-----------------------------------------------------------------------------
(* TypeOK is inductive: one lemma for each group of actions.               *)

LEMMA StartKeepsTypes ==
  ASSUME TypeOK, Start
  PROVE  TypeOK'
<1>1. CASE StartWithGreeter
  <2>1. AuthTypeOK' /\ LoginTypes' /\ ReuseTypes' /\ calls' \subseteq Call
    BY <1>1, UnchangedTypes DEF StartWithGreeter, restVars
  <2>2. LifeTypes'
    BY <1>1 DEF StartWithGreeter, StartGreeter, TypeOK, LifeTypes, sessionVars, restVars
  <2> QED
    BY <2>1, <2>2 DEF TypeOK
<1>2. CASE AutologinImpossible
  <2>1. AuthTypeOK' /\ LoginTypes' /\ ReuseTypes' /\ calls' \subseteq Call
    BY <1>2, UnchangedTypes DEF AutologinImpossible, restVars
  <2>2. LifeTypes'
    BY <1>2 DEF AutologinImpossible, StartGreeter, TypeOK, LifeTypes, sessionVars, restVars
  <2> QED
    BY <2>1, <2>2 DEF TypeOK
<1>3. CASE StartAutologin
  <2>1. /\ target' = None /\ authenticated' = FALSE /\ ReuseTypes' /\ dmSession' = 0
        /\ logindSessionId' = None /\ calls' \subseteq Call
    <3>1. BeginAuth(None, 0, reuseLookupGeneration)
      BY <1>3 DEF StartAutologin, StartAuth
    <3> QED
      BY <3>1, Generations, BeginAuthTypes
  <2>2. AuthTypeOK'
    <3>1. UNCHANGED authVars \/ AuthStart(TRUE, FALSE)
      BY <1>3, Zenon DEF StartAutologin, StartAuth
    <3> QED
      BY <3>1, OwnerTypes DEF TypeOK
  <2>3. LoginTypes'
    BY <1>3, <2>1 DEF StartAutologin, TypeOK, LoginTypes, loginVars
  <2>4. LifeTypes'
    BY <1>3, <2>1 DEF StartAutologin, TypeOK, LifeTypes
  <2> QED
    BY <2>1, <2>2, <2>3, <2>4 DEF TypeOK
<1> QED
  BY <1>1, <1>2, <1>3 DEF Start

(* The number of a new request is one of RequestId.                        *)
LEMMA NewRequestTypes ==
  ASSUME TypeOK, NewRequest
  PROVE  requests' \in RequestId /\ requests' \in 0..MaxRequests
BY DisplayAssumption DEF NewRequest, TypeOK, LoginTypes, RequestId

LEMMA SupersededTypes ==
  ASSUME TypeOK, NewRequest, NEW result \in {"open", "failed"}, Superseded(result)
  PROVE  outcome' \in [RequestId -> Outcome]
<1>1. /\ request \in RequestId \cup {None} /\ "cancelled" \in Outcome /\ result \in Outcome
      /\ outcome \in [RequestId -> Outcome]
  BY DEF TypeOK, LoginTypes, Outcome, Result
<1>2. Told(request, "cancelled") \in [RequestId -> Outcome]
  BY <1>1, ToldTypes
<1> QED
  BY <1>1, <1>2, NewRequestTypes DEF Superseded

LEMMA GreeterKeepsTypes ==
  ASSUME TypeOK, Greeter
  PROVE  TypeOK'
<1>1. CASE AnnounceTransitions
  <2>1. AuthTypeOK' /\ LoginTypes' /\ ReuseTypes' /\ calls' \subseteq Call
    BY <1>1, UnchangedTypes DEF AnnounceTransitions, restVars
  <2>2. LifeTypes'
    BY <1>1 DEF AnnounceTransitions, TypeOK, LifeTypes, sessionVars, restVars
  <2> QED
    BY <2>1, <2>2 DEF TypeOK
<1>2. CASE LoginRejected
  <2>1. AuthTypeOK' /\ ReuseTypes' /\ LifeTypes' /\ calls' \subseteq Call
    BY <1>2, UnchangedTypes DEF LoginRejected
  <2>2. LoginTypes'
    BY <1>2, NewRequestTypes DEF LoginRejected, TypeOK, LoginTypes, Outcome, Result
  <2> QED
    BY <2>1, <2>2 DEF TypeOK
<1>3. CASE LoginAccepted
  <2> DEFINE gen == reuseLookupGeneration + (IF Listening THEN 1 ELSE 0)
  <2>1. /\ target' = requests' /\ authenticated' = FALSE /\ ReuseTypes' /\ dmSession' = requests'
        /\ logindSessionId' = None /\ calls' \subseteq Call
    <3>1. gen \in Nat
      BY Generations
    <3>2. requests' \in RequestId /\ requests' \in Nat
      BY <1>3, NewRequestTypes, RequestIds DEF LoginAccepted
    <3>3. BeginAuth(requests', requests', gen)
      BY <1>3 DEF LoginAccepted
    <3> HIDE DEF gen
    <3> QED
      BY <3>1, <3>2, <3>3, BeginAuthTypes
  <2>2. AuthTypeOK'
    <3>1. UNCHANGED authVars \/ AuthStart(TRUE, FALSE) \/ AuthStop
      BY <1>3, Zenon DEF LoginAccepted
    <3> QED
      BY <3>1, OwnerTypes DEF TypeOK
  <2>3. LoginTypes'
    <3>1. outcome' \in [RequestId -> Outcome] /\ requests' \in RequestId
          /\ requests' \in 0..MaxRequests
      BY <1>3, NewRequestTypes, SupersededTypes DEF LoginAccepted
    <3>2. request' = requests' /\ UNCHANGED <<transitionTimer, abortQueued>>
      BY <1>3 DEF LoginAccepted
    <3>3. fingerprintLogin' \in BOOLEAN
      BY <1>3, Zenon DEF LoginAccepted
    <3> QED
      BY <2>1, <3>1, <3>2, <3>3 DEF TypeOK, LoginTypes
  <2>4. LifeTypes'
    <3>1. registered' \subseteq Nat /\ dmSession' \in Nat
      BY <1>3, <2>1, NewRequestTypes, RequestIds DEF LoginAccepted, TypeOK, LifeTypes
    <3>2. UNCHANGED lifeVars
      BY <1>3 DEF LoginAccepted
    <3> QED
      BY <2>1, <3>1, <3>2 DEF TypeOK, LifeTypes, lifeVars
  <2> QED
    BY <2>1, <2>2, <2>3, <2>4 DEF TypeOK
<1>4. CASE LoginRefused
  <2>1. AuthTypeOK' /\ dmSession' \in Nat \cup {None} /\ registered' \subseteq Nat
    <3>1. (AuthStop /\ (RemoveSession \/ UNCHANGED sessionVars))
          \/ (UNCHANGED authVars /\ UNCHANGED sessionVars)
      BY <1>4, Zenon DEF LoginRefused, CancelHelper
    <3> QED
      BY <3>1, OwnerTypes, RemoveSessionTypes DEF TypeOK, LifeTypes, sessionVars
  <2>2. LoginTypes'
    <3>1. outcome' \in [RequestId -> Outcome] /\ requests' \in 0..MaxRequests
      BY <1>4, NewRequestTypes, SupersededTypes DEF LoginRefused
    <3>2. request' = None /\ UNCHANGED <<target, abortQueued>>
      BY <1>4 DEF LoginRefused
    <3>3. fingerprintLogin' \in BOOLEAN
      BY <1>4, Zenon DEF LoginRefused
    <3>4. authenticated' \in BOOLEAN /\ transitionTimer' \in BOOLEAN
      BY <1>4 DEF LoginRefused, TypeOK, LoginTypes
    <3> QED
      BY <3>1, <3>2, <3>3, <3>4 DEF TypeOK, LoginTypes
  <2>3. ReuseTypes'
    <3>1. reuseLookupGeneration' \in Nat /\ reuseLookupPending' \in BOOLEAN
      BY <1>4, Generations DEF LoginRefused, lookupVars, TypeOK, ReuseTypes
    <3>2. UNCHANGED <<reuseVars, reuseSessionId>>
      BY <1>4 DEF LoginRefused
    <3> QED
      BY <3>1, <3>2 DEF TypeOK, ReuseTypes, reuseVars
  <2>4. LifeTypes' /\ calls' \subseteq Call
    BY <1>4, <2>1 DEF LoginRefused, TypeOK, LifeTypes, lifeVars
  <2> QED
    BY <2>1, <2>2, <2>3, <2>4 DEF TypeOK
<1>5. CASE FingerprintAccepted
  <2>1. /\ target' = requests' /\ authenticated' = FALSE /\ ReuseTypes' /\ dmSession' = requests'
        /\ logindSessionId' = None /\ calls' \subseteq Call
    <3>1. requests' \in RequestId /\ requests' \in Nat
      BY <1>5, NewRequestTypes, RequestIds DEF FingerprintAccepted
    <3>2. BeginAuth(requests', requests', reuseLookupGeneration)
      BY <1>5 DEF FingerprintAccepted, StartAuth
    <3> QED
      BY <3>1, <3>2, Generations, BeginAuthTypes
  <2>2. AuthTypeOK'
    <3>1. UNCHANGED authVars \/ AuthStart(TRUE, TRUE)
      BY <1>5, Zenon DEF FingerprintAccepted, StartAuth
    <3> QED
      BY <3>1, OwnerTypes DEF TypeOK
  <2>3. LoginTypes'
    BY <1>5, <2>1, NewRequestTypes
    DEF FingerprintAccepted, TypeOK, LoginTypes, Outcome, Result
  <2>4. LifeTypes'
    BY <1>5, <2>1, NewRequestTypes, RequestIds
    DEF FingerprintAccepted, TypeOK, LifeTypes, lifeVars
  <2> QED
    BY <2>1, <2>2, <2>3, <2>4 DEF TypeOK
<1>6. CASE FingerprintRefused
  <2>1. AuthTypeOK' /\ ReuseTypes' /\ LifeTypes' /\ calls' \subseteq Call
    BY <1>6, UnchangedTypes DEF FingerprintRefused
  <2>2. LoginTypes'
    BY <1>6, NewRequestTypes DEF FingerprintRefused, TypeOK, LoginTypes, Outcome, Result
  <2> QED
    BY <2>1, <2>2 DEF TypeOK
<1>7. CASE FingerprintCancel
  BY <1>7, CancelTypes DEF FingerprintCancel, TypeOK, LoginTypes
<1>8. CASE CompleteTransition
  <2>1. AuthTypeOK'
    BY <1>8, ReplyTypes DEF CompleteTransition, Resume, TypeOK, AuthTypeOK, Reply
  <2>2. LoginTypes'
    BY <1>8 DEF CompleteTransition, TypeOK, LoginTypes
  <2>3. LifeTypes'
    BY <1>8 DEF CompleteTransition, TypeOK, LifeTypes, sessionVars, lifeVars
  <2>4. ReuseTypes' /\ calls' \subseteq Call
    BY <1>8, ActivateReusableTypes
    DEF CompleteTransition, TypeOK, ReuseTypes, lookupVars, reuseVars
  <2> QED
    BY <2>1, <2>2, <2>3, <2>4 DEF TypeOK
<1>9. CASE GreeterDies
  <2>1. AuthTypeOK' /\ ReuseTypes' /\ calls' \subseteq Call
    BY <1>9, UnchangedTypes DEF GreeterDies, restVars
  <2>2. LoginTypes'
    <3>1. request \in RequestId \cup {None} /\ "lost" \in Outcome
      BY DEF TypeOK, LoginTypes, Outcome
    <3> QED
      BY <1>9, <3>1, ToldTypes DEF GreeterDies, TypeOK, LoginTypes, restVars
  <2>3. LifeTypes'
    BY <1>9 DEF GreeterDies, TypeOK, LifeTypes, sessionVars, restVars
  <2> QED
    BY <2>1, <2>2, <2>3 DEF TypeOK
<1> QED
  BY <1>1, <1>2, <1>3, <1>4, <1>5, <1>6, <1>7, <1>8, <1>9 DEF Greeter, TransitionReady

LEMMA AllButCallsTypes ==
  ASSUME TypeOK, UNCHANGED allButCalls, calls' \subseteq Call
  PROVE  TypeOK'
BY UnchangedTypes DEF allButCalls, TypeOK

LEMMA LogindKeepsTypes ==
  ASSUME TypeOK, Logind
  PROVE  TypeOK'
<1> PICK c \in calls : \/ ListReply(c) \/ PropertiesReply(c)
                       \/ UnlockReply(c) \/ ActivateReply(c)
                       \/ SessionByPidReply(c) \/ SessionIdReply(c)
  BY DEF Logind
<1>a. c \in Call /\ calls \ {c} \subseteq Call
  BY DEF TypeOK
<1>b. CASE Drop(c)
  BY <1>b, <1>a, AllButCallsTypes DEF Drop
<1>1. CASE ListReply(c)
  <2>1. CASE LookupCurrent(c)
    <3>1. PICK candidates \in SUBSET LogindSessions :
            IF candidates = {}
            THEN FinishLookup(None) /\ calls' = calls \ {c}
            ELSE /\ calls' = (calls \ {c}) \cup
                      [kind : {"properties"}, gen : {c.gen}, of : candidates]
                 /\ UNCHANGED allButCalls
      BY <1>1, <2>1 DEF ListReply
    <3>2. [kind : {"properties"}, gen : {c.gen}, of : candidates] \subseteq Call
      BY <1>a DEF Call
    <3>3. CASE candidates = {}
      BY <1>a, <3>1, <3>3, FinishLookupTypes
    <3>4. CASE candidates # {}
      BY <1>a, <3>1, <3>2, <3>4, AllButCallsTypes
    <3> QED
      BY <3>3, <3>4
  <2> QED
    BY <1>1, <1>b, <2>1 DEF ListReply
<1>2. CASE PropertiesReply(c)
  <2>1. CASE FinishLookup(c.of) /\ calls' = calls \ {c}
    <3>1. c.of \in LogindSessions
      BY <1>2, <1>a DEF PropertiesReply, Call
    <3> QED
      BY <1>a, <2>1, <3>1, FinishLookupTypes
  <2>2. CASE FinishLookup(None) /\ calls' = calls \ {c}
    BY <1>a, <2>2, FinishLookupTypes
  <2> QED
    BY <1>2, <1>b, <2>1, <2>2 DEF PropertiesReply
<1>3. CASE UnlockReply(c)
  <2>1. CASE FinishActivation(FALSE, calls \ {c})
    BY <1>a, <2>1, FinishActivationTypes
  <2>2. CASE /\ calls' = (calls \ {c}) \cup {[c EXCEPT !.kind = "activate"]}
             /\ UNCHANGED allButCalls
    <3>1. [c EXCEPT !.kind = "activate"] \in Call
      BY <1>a, <1>3 DEF UnlockReply, Call
    <3> QED
      BY <1>a, <2>2, <3>1, AllButCallsTypes
  <2> QED
    BY <1>3, <1>b, <2>1, <2>2 DEF UnlockReply
<1>4. CASE ActivateReply(c)
  BY <1>4, <1>a, <1>b, FinishActivationTypes DEF ActivateReply
<1>5. CASE SessionByPidReply(c)
  <2>1. CASE /\ calls' = (calls \ {c}) \cup {[c EXCEPT !.kind = "sessionId"]}
             /\ UNCHANGED allButCalls
    <3>1. [c EXCEPT !.kind = "sessionId"] \in Call
      BY <1>a, <1>5 DEF SessionByPidReply, Call
    <3> QED
      BY <1>a, <2>1, <3>1, AllButCallsTypes
  <2> QED
    BY <1>5, <1>b, <2>1 DEF SessionByPidReply
<1>6. CASE SessionIdReply(c)
  <2>1. CASE /\ HelperIs(c)
             /\ logindSessionId' = c.gen
             /\ calls' = calls \ {c}
             /\ UNCHANGED <<authVars, loginVars, lookupVars, reuseVars, sessionVars, lifeVars,
                            target, authenticated, abortQueued, reuseSessionId, requests>>
    <3>1. AuthTypeOK' /\ LoginTypes' /\ ReuseTypes'
      BY <2>1, UnchangedTypes
    <3>2. c.gen \in Nat
      BY <1>a DEF Call
    <3>3. LifeTypes'
      BY <2>1, <3>2 DEF TypeOK, LifeTypes, sessionVars, lifeVars
    <3> QED
      BY <1>a, <2>1, <3>1, <3>3 DEF TypeOK
  <2> QED
    BY <1>6, <1>b, <2>1 DEF SessionIdReply
<1> QED
  BY <1>1, <1>2, <1>3, <1>4, <1>5, <1>6

LEMMA TimersKeepTypes ==
  ASSUME TypeOK, Timers
  PROVE  TypeOK'
<1>1. CASE TransitionTimeout
  <2>1. AuthTypeOK'
    BY <1>1, ReplyTypes
    DEF TransitionTimeout, CompleteTransition, Resume, TypeOK, AuthTypeOK, Reply
  <2>2. LoginTypes' /\ LifeTypes'
    BY <1>1
    DEF TransitionTimeout, CompleteTransition, TypeOK, LoginTypes, LifeTypes, sessionVars, lifeVars
  <2>3. ReuseTypes' /\ calls' \subseteq Call
    BY <1>1, ActivateReusableTypes
    DEF TransitionTimeout, CompleteTransition, TypeOK, ReuseTypes, lookupVars, reuseVars
  <2> QED
    BY <2>1, <2>2, <2>3 DEF TypeOK
<1>2. CASE ActivationTimeout
  BY <1>2, FinishActivationTypes DEF ActivationTimeout, TypeOK
<1>3. CASE AbortFingerprint
  <2>1. CASE Listening
    BY <1>3, <2>1, CancelTypes DEF AbortFingerprint
  <2>2. CASE ~Listening
    <3>1. AuthTypeOK' /\ ReuseTypes' /\ LifeTypes'
      BY <1>3, <2>2, UnchangedTypes DEF AbortFingerprint
    <3>2. LoginTypes' /\ calls' \subseteq Call
      BY <1>3, <2>2 DEF AbortFingerprint, TypeOK, LoginTypes, loginVars
    <3> QED
      BY <3>1, <3>2 DEF TypeOK
  <2> QED
    BY <2>1, <2>2
<1>4. ASSUME NEW c \in calls, LookupTimeout(c)
      PROVE  TypeOK'
  <2>1. calls \ {c} \subseteq Call
    BY DEF TypeOK
  <2>2. CASE LookupCurrent(c)
    BY <1>4, <2>1, <2>2, FinishLookupTypes DEF LookupTimeout
  <2>3. CASE ~LookupCurrent(c)
    BY <1>4, <2>1, <2>3, AllButCallsTypes DEF LookupTimeout, Drop
  <2> QED
    BY <2>2, <2>3
<1> QED
  BY <1>1, <1>2, <1>3, <1>4 DEF Timers

LEMMA DeliveryKeepsTypes ==
  ASSUME TypeOK, DeliverFromHelper
  PROVE  TypeOK'
<1>1. CASE RequestChanged
  <2>1. AuthTypeOK'
    <3>1. PICK type \in RequestType :
             ReceiveRequest(type, type = "REQUEST" /\ ~fingerprintLogin)
      BY <1>1 DEF RequestChanged
    <3>2. (type = "REQUEST" /\ ~fingerprintLogin) \in BOOLEAN
      OBVIOUS
    <3> QED
      BY <3>1, <3>2, ReceiverTypes, Zenon DEF TypeOK
  <2>2. ReuseTypes' /\ LifeTypes' /\ calls' \subseteq Call
    BY <1>1, UnchangedTypes DEF RequestChanged
  <2>3. LoginTypes'
    BY <1>1 DEF RequestChanged, TypeOK, LoginTypes, loginVars
  <2> QED
    BY <2>1, <2>2, <2>3 DEF TypeOK
<1>2. CASE AuthenticationSucceeded
  <2>1. AuthTypeOK'
    <3>1. (request # None /\ transitions) \in BOOLEAN
      OBVIOUS
    <3> QED
      BY <1>2, <3>1, ReceiverTypes, Zenon DEF AuthenticationSucceeded, TypeOK
  <2>2. ReuseTypes' /\ calls' \subseteq Call
    BY <1>2, ActivateReusableTypes
    DEF AuthenticationSucceeded, TypeOK, ReuseTypes, lookupVars, reuseVars
  <2>3. LoginTypes'
    BY <1>2 DEF AuthenticationSucceeded, TypeOK, LoginTypes
  <2>4. LifeTypes'
    <3>1. registered' \subseteq Nat
      BY <1>2 DEF AuthenticationSucceeded, TypeOK, LifeTypes
    <3> QED
      BY <1>2, <3>1 DEF AuthenticationSucceeded, TypeOK, LifeTypes, lifeVars
  <2> QED
    BY <2>1, <2>2, <2>3, <2>4 DEF TypeOK
<1>3. CASE AuthenticationFailed
  <2>1. AuthTypeOK' /\ ReuseTypes' /\ LifeTypes' /\ calls' \subseteq Call
    BY <1>3, ReceiverTypes, UnchangedTypes DEF AuthenticationFailed, TypeOK
  <2>2. LoginTypes'
    BY <1>3, FinishLoginTypes DEF AuthenticationFailed, TypeOK, LoginTypes
  <2> QED
    BY <2>1, <2>2 DEF TypeOK
<1>4. CASE AutologinFailed
  <2>1. AuthTypeOK' /\ ReuseTypes' /\ calls' \subseteq Call
    BY <1>4, ReceiverTypes, UnchangedTypes DEF AutologinFailed, TypeOK
  <2>2. LoginTypes'
    BY <1>4 DEF AutologinFailed, TypeOK, LoginTypes, loginVars
  <2>3. LifeTypes'
    BY <1>4 DEF AutologinFailed, StartGreeter, TypeOK, LifeTypes, sessionVars
  <2> QED
    BY <2>1, <2>2, <2>3 DEF TypeOK
<1>5. CASE SessionStarted
  <2>1. AuthTypeOK' /\ ReuseTypes'
    BY <1>5, ReceiverTypes, UnchangedTypes DEF SessionStarted, TypeOK
  <2>2. LoginTypes'
    BY <1>5, FinishLoginTypes DEF SessionStarted, TypeOK, LoginTypes
  <2>3. LifeTypes'
    BY <1>5 DEF SessionStarted, TypeOK, LifeTypes, sessionVars
  <2>4. calls' \subseteq Call
    <3>1. [kind |-> "sessionByPid", gen |-> run, of |-> None] \in Call
      BY DEF TypeOK, AuthTypeOK, Call
    <3> QED
      BY <1>5, <3>1 DEF SessionStarted, TypeOK
  <2> QED
    BY <2>1, <2>2, <2>3, <2>4 DEF TypeOK
<1>6. CASE SessionNotStarted
  <2>1. AuthTypeOK' /\ ReuseTypes' /\ calls' \subseteq Call
    BY <1>6, ReceiverTypes, UnchangedTypes DEF SessionNotStarted, TypeOK, restVars
  <2>2. LoginTypes'
    BY <1>6, FinishLoginTypes DEF SessionNotStarted, TypeOK, LoginTypes, restVars
  <2>3. LifeTypes'
    BY <1>6, RemoveSessionTypes DEF SessionNotStarted, TypeOK, LifeTypes, lifeVars, restVars
  <2> QED
    BY <2>1, <2>2, <2>3 DEF TypeOK
<1>7. CASE HelperFinished
  <2>1. AuthTypeOK'
    BY <1>7, OwnerTypes DEF HelperFinished, TypeOK
  <2>2. CASE reuseActivationPending
    <3>1. LoginTypes' /\ calls' \subseteq Call
      BY <1>7, <2>2, UnchangedTypes DEF HelperFinished, restVars
    <3>2. ReuseTypes'
      BY <1>7, <2>2 DEF HelperFinished, TypeOK, ReuseTypes, lookupVars, restVars
    <3>3. LifeTypes'
      BY <1>7, <2>2, RemoveSessionTypes DEF HelperFinished, TypeOK, LifeTypes, lifeVars, restVars
    <3> QED
      BY <2>1, <3>1, <3>2, <3>3 DEF TypeOK
  <2>3. CASE ~reuseActivationPending /\ exitStatus = "authError"
    <3>1. ReuseTypes' /\ calls' \subseteq Call
      BY <1>7, <2>3, UnchangedTypes DEF HelperFinished, restVars
    <3>2. LoginTypes'
      <4>1. CASE request # None
        BY <1>7, <2>3, <4>1, FinishLoginTypes DEF HelperFinished, TypeOK, LoginTypes, restVars
      <4>2. CASE request = None
        BY <1>7, <2>3, <4>2, UnchangedTypes DEF HelperFinished, restVars
      <4> QED
        BY <4>1, <4>2
    <3>3. LifeTypes'
      BY <1>7, <2>3, RemoveSessionTypes DEF HelperFinished, TypeOK, LifeTypes, lifeVars, restVars
    <3> QED
      BY <2>1, <3>1, <3>2, <3>3 DEF TypeOK
  <2>4. CASE ~reuseActivationPending /\ exitStatus # "authError"
    BY <1>7, <2>4, StopStepTypes DEF HelperFinished
  <2> QED
    BY <2>2, <2>3, <2>4
<1> QED
  BY <1>1, <1>2, <1>3, <1>4, <1>5, <1>6, <1>7 DEF DeliverFromHelper

LEMMA NextKeepsTypes ==
  ASSUME TypeOK, [Next]_vars
  PROVE  TypeOK'
<1>1. CASE Helper
  <2>1. AuthTypeOK'
    BY <1>1, HelperTypes DEF Helper, TypeOK
  <2> QED
    BY <1>1, <2>1, UnchangedTypes DEF Helper, TypeOK, restVars
<1>2. CASE GreeterFailed \/ DisplayServerStops
  BY <1>2, StopStepTypes DEF GreeterFailed, DisplayServerStops
<1>3. CASE UNCHANGED vars
  BY <1>3, UnchangedTypes DEF vars, restVars, TypeOK
<1> QED
  BY <1>1, <1>2, <1>3, StartKeepsTypes, GreeterKeepsTypes, LogindKeepsTypes, TimersKeepTypes,
     DeliveryKeepsTypes DEF Next

LEMMA InitTypes == Init => TypeOK
<1> SUFFICES ASSUME Init PROVE TypeOK
  OBVIOUS
<1>1. AuthTypeOK
  BY AuthInitTypes DEF Init
<1>2. LoginTypes
  <2>1. request = None /\ target = None /\ requests = 0
        /\ outcome = [r \in RequestId |-> "none"]
    BY DEF Init
  <2>2. /\ fingerprintLogin = FALSE /\ authenticated = FALSE /\ abortQueued = FALSE
        /\ transitionTimer = FALSE
    BY DEF Init
  <2>3. outcome \in [RequestId -> Outcome] /\ requests \in 0..MaxRequests
    BY <2>1, DisplayAssumption DEF Outcome
  <2> QED
    BY <2>1, <2>2, <2>3 DEF LoginTypes
<1>3. ReuseTypes /\ LifeTypes /\ calls \subseteq Call
  BY DEF Init, ReuseTypes, LifeTypes
<1> QED
  BY <1>1, <1>2, <1>3 DEF TypeOK

(* Every state the display can reach is well typed; in particular a call   *)
(* to logind always names a session of logind, and no outcome is anything  *)
(* but one the protocol has.                                               *)
THEOREM TypeCorrect == Spec => []TypeOK
<1>1. Init => TypeOK
  BY InitTypes
<1>2. TypeOK /\ [Next]_vars => TypeOK'
  BY NextKeepsTypes
<1> QED
  BY <1>1, <1>2, PTL DEF Spec

-----------------------------------------------------------------------------
(* Display implements the abstract login service, never starts a helper    *)
(* beside another, and never runs one for a cancelled request - for any    *)
(* number of requests and sessions and in every environment.               *)
(*                                                                         *)
(* The argument: Effects sorts the steps of the daemon by what they do to  *)
(* the request being served and to the outcomes; from it and LoginInv      *)
(* follow the invariance of LoginInv and the refinement.                   *)

(* What a step does to the requests of the greeter.                        *)
Untouched == UNCHANGED <<request, requests, outcome>>

Concludes(how) ==
  /\ request' = None
  /\ requests' = requests
  /\ outcome' = Told(request, how)

Refuses(how) ==
  /\ NewRequest
  /\ request' = request
  /\ outcome' = [outcome EXCEPT ![requests'] = how]

Serves ==
  /\ NewRequest
  /\ request = None
  /\ request' = requests'
  /\ outcome' = [outcome EXCEPT ![requests'] = "open"]

Supersedes ==
  /\ NewRequest
  /\ request # None
  /\ \/ /\ request' = requests'
        /\ outcome' = [Told(request, "cancelled") EXCEPT ![requests'] = "open"]
     \/ /\ request' = None
        /\ outcome' = [Told(request, "cancelled") EXCEPT ![requests'] = "failed"]

Concluded == {"failed", "succeeded", "finished", "lost", "cancelled"}

Effect ==
  \/ Untouched
  \/ \E how \in Concluded : Concludes(how)
  \/ \E how \in {"failed", "finished"} : Refuses(how)
  \/ Serves
  \/ Supersedes

-----------------------------------------------------------------------------
LEMMA FinishLoginEffect ==
  ASSUME NEW success, NEW matched, FinishLogin(success, matched), requests' = requests
  PROVE  Effect
<1>1. \E how \in {"succeeded", "finished", "failed"} : outcome' = Told(request, how)
  BY Zenon DEF FinishLogin
<1>2. PICK how \in {"succeeded", "finished", "failed"} : outcome' = Told(request, how)
  BY <1>1
<1>3. Concludes(how) /\ how \in Concluded
  BY <1>2 DEF Concludes, FinishLogin, Concluded
<1> QED
  BY <1>3 DEF Effect

LEMMA FinishActivationEffect ==
  ASSUME NEW success, NEW kept, FinishActivation(success, kept)
  PROVE  Effect
<1>1. FinishLogin(success, authenticated) /\ requests' = requests
  BY DEF FinishActivation, StopRest
<1> QED
  BY <1>1, FinishLoginEffect

LEMMA CancelEffect ==
  ASSUME NEW how \in {"cancelled", "finished"}, CancelFingerprintLogin(how)
  PROVE  Effect
<1>1. Concludes(how) /\ how \in Concluded
  BY DEF CancelFingerprintLogin, Concludes, Concluded
<1> QED
  BY <1>1 DEF Effect

(* A greeter that is there and listens has a request being served.         *)
LEMMA ListenerPresent ==
  ASSUME TypeOK, LoginInv, NewRequest
  PROVE  /\ Listening => request # None
         /\ Idle => request = None
BY DEF TypeOK, LifeTypes, LoginInv, NewRequest, Listening, Idle

LEMMA GreeterEffect ==
  ASSUME TypeOK, LoginInv, Greeter
  PROVE  Effect
<1>1. CASE AnnounceTransitions
  BY <1>1 DEF AnnounceTransitions, loginVars, restVars, Effect, Untouched
<1>2. CASE LoginRejected
  <2>1. Refuses("failed")
    BY <1>2 DEF LoginRejected, Refuses
  <2> QED
    BY <2>1 DEF Effect
<1>3. CASE LoginAccepted
  <2>1. NewRequest /\ (Listening \/ Idle) /\ request' = requests' /\ Superseded("open")
    BY <1>3 DEF LoginAccepted
  <2>2. CASE Listening
    <3>1. Supersedes
      BY <2>1, <2>2, ListenerPresent DEF Superseded, Supersedes
    <3> QED
      BY <3>1 DEF Effect
  <2>3. CASE ~Listening
    <3>1. Serves
      BY <2>1, <2>3, ListenerPresent DEF Superseded, Serves
    <3> QED
      BY <3>1 DEF Effect
  <2> QED
    BY <2>2, <2>3
<1>4. CASE LoginRefused
  <2>1. NewRequest /\ (Listening \/ Idle) /\ request' = None /\ Superseded("failed")
    BY <1>4 DEF LoginRefused
  <2>2. CASE Listening
    <3>1. Supersedes
      BY <2>1, <2>2, ListenerPresent DEF Superseded, Supersedes
    <3> QED
      BY <3>1 DEF Effect
  <2>3. CASE ~Listening
    <3>1. Refuses("failed")
      BY <2>1, <2>3, ListenerPresent DEF Superseded, Refuses
    <3> QED
      BY <3>1 DEF Effect
  <2> QED
    BY <2>2, <2>3
<1>5. CASE FingerprintAccepted
  <2>1. Serves
    BY <1>5, ListenerPresent DEF FingerprintAccepted, Serves
  <2> QED
    BY <2>1 DEF Effect
<1>6. CASE FingerprintRefused
  <2>1. Refuses("finished")
    BY <1>6 DEF FingerprintRefused, Refuses
  <2> QED
    BY <2>1 DEF Effect
<1>7. CASE FingerprintCancel
  BY <1>7, CancelEffect DEF FingerprintCancel
<1>8. CASE CompleteTransition
  BY <1>8 DEF CompleteTransition, Effect, Untouched
<1>9. CASE GreeterDies
  <2>1. Concludes("lost") /\ "lost" \in Concluded
    BY <1>9 DEF GreeterDies, Concludes, restVars, Concluded
  <2> QED
    BY <2>1 DEF Effect
<1> QED
  BY <1>1, <1>2, <1>3, <1>4, <1>5, <1>6, <1>7, <1>8, <1>9 DEF Greeter, TransitionReady

LEMMA DaemonEffect ==
  ASSUME Start \/ GreeterFailed \/ DisplayServerStops \/ Logind \/ Timers \/ DeliverFromHelper
         \/ Helper \/ UNCHANGED vars
  PROVE  Effect
<1> USE DEF loginVars, restVars, Untouched
<1>1. CASE Start
  BY <1>1 DEF Start, StartWithGreeter, AutologinImpossible, StartAutologin, Effect
<1>2. CASE GreeterFailed \/ DisplayServerStops
  BY <1>2, FinishLoginEffect DEF GreeterFailed, DisplayServerStops, Stop, StopRest
<1>3. CASE Logind
  <2> PICK c \in calls : \/ ListReply(c) \/ PropertiesReply(c)
                         \/ UnlockReply(c) \/ ActivateReply(c)
                         \/ SessionByPidReply(c) \/ SessionIdReply(c)
    BY <1>3 DEF Logind
  <2>1. UNCHANGED allButCalls => Effect
    BY DEF allButCalls, Effect
  <2>2. Drop(c) => Effect
    BY <2>1 DEF Drop
  <2>3. \A session : FinishLookup(session) => Effect
    BY DEF FinishLookup, Effect
  <2>4. CASE ListReply(c)
    BY <2>1, <2>2, <2>3, <2>4 DEF ListReply
  <2>5. CASE PropertiesReply(c)
    BY <2>2, <2>3, <2>5 DEF PropertiesReply
  <2>6. CASE UnlockReply(c)
    BY <2>1, <2>2, <2>6, FinishActivationEffect DEF UnlockReply
  <2>7. CASE ActivateReply(c)
    BY <2>2, <2>7, FinishActivationEffect DEF ActivateReply
  <2>8. CASE SessionByPidReply(c)
    BY <2>1, <2>2, <2>8 DEF SessionByPidReply
  <2>9. CASE SessionIdReply(c)
    BY <2>2, <2>9 DEF SessionIdReply, Effect
  <2> QED
    BY <2>4, <2>5, <2>6, <2>7, <2>8, <2>9
<1>4. CASE Timers
  <2>1. CASE TransitionTimeout
    BY <2>1 DEF TransitionTimeout, CompleteTransition, Effect
  <2>2. CASE ActivationTimeout
    BY <2>2, FinishActivationEffect DEF ActivationTimeout
  <2>3. CASE AbortFingerprint
    BY <2>3, CancelEffect DEF AbortFingerprint, Effect
  <2>4. ASSUME NEW c \in calls, LookupTimeout(c)
        PROVE  Effect
    BY <2>4 DEF LookupTimeout, Drop, allButCalls, FinishLookup, Effect
  <2> QED
    BY <1>4, <2>1, <2>2, <2>3, <2>4 DEF Timers
<1>5. CASE DeliverFromHelper
  <2>1. CASE RequestChanged
    BY <2>1 DEF RequestChanged, Effect
  <2>2. CASE AuthenticationSucceeded
    BY <2>2 DEF AuthenticationSucceeded, Effect
  <2>3. CASE AuthenticationFailed
    BY <2>3, FinishLoginEffect DEF AuthenticationFailed
  <2>4. CASE AutologinFailed
    BY <2>4 DEF AutologinFailed, Effect
  <2>5. CASE SessionStarted
    BY <2>5, FinishLoginEffect DEF SessionStarted
  <2>6. CASE SessionNotStarted
    BY <2>6, FinishLoginEffect DEF SessionNotStarted
  <2>7. CASE HelperFinished
    <3>1. CASE reuseActivationPending
      BY <2>7, <3>1 DEF HelperFinished, Effect
    <3>2. CASE ~reuseActivationPending /\ exitStatus = "authError"
      BY <2>7, <3>2, FinishLoginEffect DEF HelperFinished, Effect
    <3>3. CASE ~reuseActivationPending /\ exitStatus # "authError"
      BY <2>7, <3>3, FinishLoginEffect DEF HelperFinished, Stop, StopRest
    <3> QED
      BY <3>1, <3>2, <3>3
  <2> QED
    BY <1>5, <2>1, <2>2, <2>3, <2>4, <2>5, <2>6, <2>7 DEF DeliverFromHelper
<1>6. CASE Helper
  BY <1>6 DEF Helper, Effect
<1>7. CASE UNCHANGED vars
  BY <1>7 DEF vars, Effect
<1> QED
  BY <1>1, <1>2, <1>3, <1>4, <1>5, <1>6, <1>7

LEMMA Effects ==
  ASSUME TypeOK, LoginInv, [Next]_vars
  PROVE  Effect
BY GreeterEffect, DaemonEffect DEF Next

-----------------------------------------------------------------------------
(* LoginInv is inductive.                                                  *)

(* Its part about requests follows from the effect of the step alone.      *)
LEMMA RequestsStayOpen ==
  ASSUME TypeOK, LoginInv, Effect
  PROVE  /\ request' # None => request' <= requests' /\ outcome'[request'] = "open"
         /\ \A r \in RequestId : requests' < r => outcome'[r] = "none"
<1> USE DEF TypeOK, LoginTypes, LoginInv, RequestId
<1> RequestId \subseteq Nat /\ None \notin Nat
  BY RequestIds, DisplayAssumption
<1>1. CASE Untouched
  BY <1>1 DEF Untouched
<1>2. ASSUME NEW how \in Concluded, Concludes(how)
      PROVE  /\ request' = None
             /\ \A r \in RequestId : requests' < r => outcome'[r] = "none"
  <2>1. CASE request = None
    BY <1>2, <2>1 DEF Concludes, Told
  <2>2. CASE request # None
    <3>1. \A r \in RequestId : requests < r => r # request
      BY <2>2
    <3> QED
      BY <1>2, <2>2, <3>1 DEF Concludes, Told
  <2> QED
    BY <1>2, <2>1, <2>2 DEF Concludes
<1>3. ASSUME NEW how \in {"failed", "finished"}, Refuses(how)
      PROVE  /\ request' # None => request' <= requests' /\ outcome'[request'] = "open"
             /\ \A r \in RequestId : requests' < r => outcome'[r] = "none"
  BY <1>3 DEF Refuses, NewRequest
<1>4. CASE Serves
  <2>1. requests' = requests + 1 /\ requests' \in RequestId
    BY <1>4, NewRequestTypes DEF Serves, NewRequest
  <2>2. outcome'[requests'] = "open" /\ request' = requests'
    BY <1>4, <2>1 DEF Serves
  <2>3. ASSUME NEW r \in RequestId, requests' < r
        PROVE  outcome'[r] = "none"
    BY <1>4, <2>1, <2>3 DEF Serves
  <2> QED
    BY <2>1, <2>2, <2>3
<1>5. CASE Supersedes
  <2>1. requests' = requests + 1 /\ requests' \in RequestId /\ request # requests'
    BY <1>5, NewRequestTypes DEF Supersedes, NewRequest
  <2>2. Told(request, "cancelled") = [outcome EXCEPT ![request] = "cancelled"]
    BY <1>5 DEF Supersedes, Told
  <2>3. ASSUME NEW r \in RequestId, requests' < r
        PROVE  outcome'[r] = "none"
    <3>1. r # request /\ r # requests' /\ requests < r
      BY <1>5, <2>1, <2>3 DEF Supersedes
    <3>2. outcome'[r] = Told(request, "cancelled")[r]
      BY <1>5, <2>1, <2>2, <3>1 DEF Supersedes
    <3> QED
      BY <2>2, <3>1, <3>2
  <2>4. request' # None => request' = requests' /\ outcome'[requests'] = "open"
    BY <1>5, <2>1, <2>2 DEF Supersedes
  <2> QED
    BY <2>1, <2>3, <2>4
<1> QED
  BY <1>1, <1>2, <1>3, <1>4, <1>5 DEF Effect

(* A helper of its own accord never comes out of nothing.                  *)
LEMMA NoHelperNoStep ==
  ASSUME helper = "none"
  PROVE  ~HelperNext
BY DEF HelperNext, HelperProgress, HelperConnects, HelperReads, OpensSession, HelperAsks,
   PamAccepts, PamRejects, SessionEnds, HelperCrashes, HelperFailsToStart

(* A helper appears only where none is and no lookup is left pending, and  *)
(* a lookup begins only where no helper is or the old one is stopped.      *)
LookupAlone == reuseLookupPending => helper = "none"

LEMMA LookupStaysAlone ==
  ASSUME TypeOK, LoginInv, [Next]_vars
  PROVE  LookupAlone'
<1> USE DEF LookupAlone
<1>0. LookupAlone
  BY DEF LoginInv
<1>k. ASSUME UNCHANGED <<helper, reuseLookupPending>>
      PROVE  LookupAlone'
  BY <1>0, <1>k
<1>n. ASSUME reuseLookupPending' = FALSE \/ helper' = "none"
      PROVE  LookupAlone'
  BY <1>n
<1>a. ASSUME NEW success, NEW kept, FinishActivation(success, kept)
      PROVE  LookupAlone'
  BY <1>a, <1>k, <1>n DEF FinishActivation, StopRest, lookupVars, authVars
<1>l. ASSUME NEW session, FinishLookup(session)
      PROVE  LookupAlone'
  BY <1>l, <1>n DEF FinishLookup
<1>u. ASSUME UNCHANGED allButCalls
      PROVE  LookupAlone'
  BY <1>u, <1>k DEF allButCalls, lookupVars, authVars
<1> HIDE DEF LookupAlone
<1>1. CASE Start
  <2>1. phase = "new" => helper = "none"
    BY DEF LoginInv
  <2> QED
    BY <1>1, <2>1, <1>k, <1>n
    DEF Start, StartWithGreeter, AutologinImpossible, StartAutologin, StartAuth, BeginAuth,
        lookupVars, authVars
<1>2. CASE Greeter
  <2>1. CASE LoginAccepted
    BY <2>1, <1>n DEF LoginAccepted, BeginAuth, AuthStop, Idle, IsActive, authVars
  <2>2. CASE LoginRefused
    BY <2>2, <1>k, <1>n DEF LoginRefused, lookupVars, authVars
  <2>3. CASE FingerprintAccepted
    BY <2>3, <1>n DEF FingerprintAccepted, StartAuth, BeginAuth, Idle, IsActive, authVars
  <2>4. CASE FingerprintCancel
    BY <2>4, <1>n DEF FingerprintCancel, CancelFingerprintLogin
  <2>5. CASE AnnounceTransitions \/ LoginRejected \/ FingerprintRefused \/ GreeterDies
    BY <2>5, <1>k
    DEF AnnounceTransitions, LoginRejected, FingerprintRefused, GreeterDies, lookupVars, authVars
  <2>6. CASE TransitionReady
    BY <2>6, <1>k DEF TransitionReady, CompleteTransition, lookupVars
  <2> QED
    BY <1>2, <2>1, <2>2, <2>3, <2>4, <2>5, <2>6 DEF Greeter
<1>3. CASE GreeterFailed \/ DisplayServerStops
  BY <1>3, <1>n DEF GreeterFailed, DisplayServerStops, Stop, StopRest
<1>4. CASE Logind
  <2> PICK c \in calls : \/ ListReply(c) \/ PropertiesReply(c)
                         \/ UnlockReply(c) \/ ActivateReply(c)
                         \/ SessionByPidReply(c) \/ SessionIdReply(c)
    BY <1>4 DEF Logind
  <2>1. CASE ListReply(c) \/ PropertiesReply(c)
    BY <2>1, <1>l, <1>u DEF ListReply, PropertiesReply, Drop
  <2>2. CASE UnlockReply(c) \/ ActivateReply(c)
    BY <2>2, <1>a, <1>u DEF UnlockReply, ActivateReply, Drop
  <2>3. CASE SessionByPidReply(c) \/ SessionIdReply(c)
    BY <2>3, <1>k, <1>u DEF SessionByPidReply, SessionIdReply, Drop, lookupVars, authVars
  <2> QED
    BY <2>1, <2>2, <2>3
<1>5. CASE Timers
  <2>1. CASE TransitionTimeout
    BY <2>1, <1>k DEF TransitionTimeout, CompleteTransition, lookupVars
  <2>2. CASE ActivationTimeout
    BY <2>2, <1>a DEF ActivationTimeout
  <2>3. CASE AbortFingerprint
    BY <2>3, <1>k, <1>n DEF AbortFingerprint, CancelFingerprintLogin, lookupVars, authVars
  <2>4. ASSUME NEW c \in calls, LookupTimeout(c)
        PROVE  LookupAlone'
    BY <2>4, <1>l, <1>u DEF LookupTimeout, Drop
  <2> QED
    BY <1>5, <2>1, <2>2, <2>3, <2>4 DEF Timers
<1>6. CASE DeliverFromHelper
  <2>1. CASE HelperFinished
    BY <2>1, <1>n DEF HelperFinished, HelperReaped
  <2> QED
    BY <1>6, <2>1, <1>k
    DEF DeliverFromHelper, RequestChanged, AuthenticationSucceeded, AuthenticationFailed,
        AutologinFailed, SessionStarted, SessionNotStarted, ReceiveRequest, ReceiveAccepted,
        ReceiveRejected, ReceiveStatus, lookupVars
<1>7. CASE Helper
  <2>1. helper # "none" /\ UNCHANGED reuseLookupPending
    BY <1>7, NoHelperNoStep DEF Helper, lookupVars
  <2> QED
    BY <2>1, <1>0 DEF LookupAlone
<1>8. CASE UNCHANGED vars
  BY <1>8, <1>k DEF vars, lookupVars, authVars
<1> QED
  BY <1>1, <1>2, <1>3, <1>4, <1>5, <1>6, <1>7, <1>8 DEF Next

(* Once started, a display never is new again.                             *)
LEMMA NeverNewAgain ==
  ASSUME Next
  PROVE  phase' # "new"
<1>a. ASSUME NEW success, NEW kept, FinishActivation(success, kept), phase = "started"
      PROVE  phase' # "new"
  BY <1>a DEF FinishActivation, StopRest, lifeVars
<1>u. ASSUME UNCHANGED lifeVars, phase = "started"
      PROVE  phase' # "new"
  BY <1>u DEF lifeVars
<1>d. ASSUME UNCHANGED allButCalls, phase = "started"
      PROVE  phase' # "new"
  BY <1>d DEF allButCalls, lifeVars
<1>1. CASE Start
  BY <1>1 DEF Start, StartWithGreeter, AutologinImpossible, StartAutologin, StartGreeter
<1>2. CASE Greeter
  BY <1>2, <1>u
  DEF Greeter, AnnounceTransitions, LoginRejected, LoginAccepted, LoginRefused,
      FingerprintAccepted, FingerprintRefused, FingerprintCancel, CancelFingerprintLogin,
      TransitionReady, CompleteTransition, GreeterDies, NewRequest
<1>3. CASE GreeterFailed \/ DisplayServerStops
  BY <1>3 DEF GreeterFailed, DisplayServerStops, Stop, StopRest
<1>4. CASE Logind
  <2> PICK c \in calls : \/ ListReply(c) \/ PropertiesReply(c)
                         \/ UnlockReply(c) \/ ActivateReply(c)
                         \/ SessionByPidReply(c) \/ SessionIdReply(c)
    BY <1>4 DEF Logind
  <2>1. CASE ListReply(c) \/ PropertiesReply(c)
    BY <2>1, <1>u, <1>d DEF ListReply, PropertiesReply, Delivered, FinishLookup, Drop
  <2>2. CASE UnlockReply(c) \/ ActivateReply(c)
    BY <2>2, <1>a, <1>d DEF UnlockReply, ActivateReply, Delivered, Drop
  <2>3. CASE SessionByPidReply(c) \/ SessionIdReply(c)
    BY <2>3, <1>u, <1>d DEF SessionByPidReply, SessionIdReply, Delivered, Drop
  <2> QED
    BY <2>1, <2>2, <2>3
<1>5. CASE Timers
  <2>1. CASE TransitionTimeout
    BY <2>1, <1>u DEF TransitionTimeout, CompleteTransition
  <2>2. CASE ActivationTimeout
    BY <2>2, <1>a DEF ActivationTimeout
  <2>3. CASE AbortFingerprint
    BY <2>3, <1>u DEF AbortFingerprint, CancelFingerprintLogin
  <2>4. ASSUME NEW c \in calls, LookupTimeout(c)
        PROVE  phase' # "new"
    BY <2>4, <1>u, <1>d DEF LookupTimeout, Delivered, FinishLookup, Drop
  <2> QED
    BY <1>5, <2>1, <2>2, <2>3, <2>4 DEF Timers
<1>6. CASE DeliverFromHelper
  <2>1. CASE HelperFinished
    BY <2>1, <1>u DEF HelperFinished, Stop, StopRest
  <2>2. CASE AutologinFailed
    BY <2>2 DEF AutologinFailed, StartGreeter
  <2>3. CASE SessionStarted
    BY <2>3 DEF SessionStarted
  <2> QED
    BY <1>6, <2>1, <2>2, <2>3, <1>u
    DEF DeliverFromHelper, RequestChanged, AuthenticationSucceeded, AuthenticationFailed,
        SessionNotStarted
<1>7. CASE Helper
  BY <1>7, <1>u DEF Helper
<1> QED
  BY <1>1, <1>2, <1>3, <1>4, <1>5, <1>6, <1>7 DEF Next

(* Who listens to the reader, and who shows a greeter.                     *)
Listeners ==
  /\ fingerprintLogin => request # None \/ greeter = "dead"
  /\ autologin => greeter = "none"

LEMMA ListenersStay ==
  ASSUME TypeOK, LoginInv, [Next]_vars
  PROVE  Listeners'
<1>0. Listeners
  BY DEF LoginInv, Listeners
<1>k. ASSUME UNCHANGED <<fingerprintLogin, request, greeter, autologin>>
      PROVE  Listeners'
  BY <1>k, <1>0 DEF Listeners
<1>f. ASSUME NEW success, NEW matched, FinishLogin(success, matched),
             greeter' = "none" \/ UNCHANGED <<greeter, autologin>>
      PROVE  Listeners'
  BY <1>f, <1>0 DEF Listeners, FinishLogin
<1>s. ASSUME NEW success, NEW matched, FinishLogin(success, matched), StopRest
      PROVE  Listeners'
  BY <1>s, <1>f DEF StopRest
<1>a. ASSUME NEW success, NEW kept, FinishActivation(success, kept)
      PROVE  Listeners'
  BY <1>a, <1>s, <1>f DEF FinishActivation, lifeVars
<1>c. ASSUME NEW result, CancelFingerprintLogin(result)
      PROVE  Listeners'
  BY <1>c, <1>0 DEF Listeners, CancelFingerprintLogin, lifeVars
<1>u. ASSUME UNCHANGED <<loginVars, lifeVars>>
      PROVE  Listeners'
  BY <1>u, <1>k DEF loginVars, lifeVars
<1>d. ASSUME UNCHANGED allButCalls
      PROVE  Listeners'
  BY <1>d, <1>u DEF allButCalls
<1>1. CASE Start
  <2>1. phase = "new" => greeter = "none" /\ request = None /\ ~autologin /\ ~fingerprintLogin
    BY DEF LoginInv
  <2>2. phase = "new" /\ UNCHANGED loginVars
    BY <1>1 DEF Start, StartWithGreeter, AutologinImpossible, StartAutologin
  <2>3. ~fingerprintLogin'
    BY <2>1, <2>2, Zenon DEF loginVars
  <2>4. ~autologin' \/ greeter' = "none"
    <3>1. CASE StartWithGreeter
      BY <2>1, <3>1 DEF StartWithGreeter
    <3>2. CASE AutologinImpossible
      BY <3>2 DEF AutologinImpossible
    <3>3. CASE StartAutologin
      BY <2>1, <3>3 DEF StartAutologin
    <3> QED
      BY <1>1, <3>1, <3>2, <3>3 DEF Start
  <2> QED
    BY <2>3, <2>4 DEF Listeners
<1>2. CASE Greeter
  <2>n. NewRequest => requests' # None /\ greeter = "running"
    BY NewRequestTypes, RequestIds DEF NewRequest
  <2>1. CASE LoginAccepted \/ FingerprintAccepted
    <3>1. request' = requests' /\ NewRequest /\ UNCHANGED lifeVars
      BY <2>1 DEF LoginAccepted, FingerprintAccepted
    <3>2. request' # None /\ greeter' = greeter /\ autologin' = autologin
      BY <3>1, <2>n DEF lifeVars
    <3> QED
      BY <3>2, <1>0 DEF Listeners
  <2>2. CASE LoginRefused
    BY <2>2, <2>n, <1>0, ListenerPresent DEF LoginRefused, Listeners, Listening, Idle, lifeVars
  <2>3. CASE FingerprintRefused
    BY <2>3, <1>0 DEF FingerprintRefused, Listeners, lifeVars
  <2>4. CASE FingerprintCancel
    BY <2>4, <1>c DEF FingerprintCancel
  <2>5. CASE AnnounceTransitions
    BY <2>5, <1>k DEF AnnounceTransitions, loginVars
  <2>6. CASE LoginRejected
    BY <2>6, <1>k DEF LoginRejected, lifeVars
  <2>7. CASE TransitionReady
    BY <2>7, <1>k DEF TransitionReady, CompleteTransition, lifeVars
  <2>8. CASE GreeterDies
    BY <2>8, <1>0 DEF GreeterDies, Listeners
  <2> QED
    BY <1>2, <2>1, <2>2, <2>3, <2>4, <2>5, <2>6, <2>7, <2>8 DEF Greeter
<1>3. CASE GreeterFailed \/ DisplayServerStops
  BY <1>3, <1>s DEF GreeterFailed, DisplayServerStops, Stop
<1>4. CASE Logind
  <2> PICK c \in calls : \/ ListReply(c) \/ PropertiesReply(c)
                         \/ UnlockReply(c) \/ ActivateReply(c)
                         \/ SessionByPidReply(c) \/ SessionIdReply(c)
    BY <1>4 DEF Logind
  <2>1. CASE ListReply(c) \/ PropertiesReply(c)
    BY <2>1, <1>u, <1>d DEF ListReply, PropertiesReply, FinishLookup, Drop
  <2>2. CASE UnlockReply(c) \/ ActivateReply(c)
    BY <2>2, <1>a, <1>d DEF UnlockReply, ActivateReply, Drop
  <2>3. CASE SessionByPidReply(c) \/ SessionIdReply(c)
    BY <2>3, <1>u, <1>d DEF SessionByPidReply, SessionIdReply, Drop
  <2> QED
    BY <2>1, <2>2, <2>3
<1>5. CASE Timers
  <2>1. CASE TransitionTimeout
    BY <2>1, <1>k DEF TransitionTimeout, CompleteTransition, lifeVars
  <2>2. CASE ActivationTimeout
    BY <2>2, <1>a DEF ActivationTimeout
  <2>3. CASE AbortFingerprint
    BY <2>3, <1>c, <1>u DEF AbortFingerprint
  <2>4. ASSUME NEW c \in calls, LookupTimeout(c)
        PROVE  Listeners'
    BY <2>4, <1>u, <1>d DEF LookupTimeout, FinishLookup, Drop
  <2> QED
    BY <1>5, <2>1, <2>2, <2>3, <2>4 DEF Timers
<1>6. CASE DeliverFromHelper
  <2>1. CASE RequestChanged
    BY <2>1, <1>u DEF RequestChanged
  <2>2. CASE AuthenticationSucceeded
    BY <2>2, <1>k DEF AuthenticationSucceeded, lifeVars
  <2>3. CASE AuthenticationFailed
    BY <2>3, <1>f DEF AuthenticationFailed, lifeVars
  <2>4. CASE AutologinFailed
    BY <2>4, <1>0 DEF AutologinFailed, StartGreeter, Listeners, loginVars
  <2>5. CASE SessionStarted
    BY <2>5, <1>f DEF SessionStarted
  <2>6. CASE SessionNotStarted
    BY <2>6, <1>f DEF SessionNotStarted, lifeVars
  <2>7. CASE HelperFinished
    <3>1. CASE reuseActivationPending
      BY <2>7, <3>1, <1>u DEF HelperFinished
    <3>2. CASE ~reuseActivationPending /\ exitStatus = "authError"
      BY <2>7, <3>2, <1>f, <1>u DEF HelperFinished, lifeVars
    <3>3. CASE ~reuseActivationPending /\ exitStatus # "authError"
      BY <2>7, <3>3, <1>s DEF HelperFinished, Stop
    <3> QED
      BY <3>1, <3>2, <3>3
  <2> QED
    BY <1>6, <2>1, <2>2, <2>3, <2>4, <2>5, <2>6, <2>7 DEF DeliverFromHelper
<1>7. CASE Helper
  BY <1>7, <1>u DEF Helper
<1>8. CASE UNCHANGED vars
  BY <1>8, <1>k DEF vars, loginVars, lifeVars
<1> QED
  BY <1>1, <1>2, <1>3, <1>4, <1>5, <1>6, <1>7, <1>8 DEF Next

LEMMA LoginInvStep ==
  ASSUME TypeOK, LoginInv, [Next]_vars
  PROVE  LoginInv'
<1>1. /\ request' # None => request' <= requests' /\ outcome'[request'] = "open"
      /\ \A r \in RequestId : requests' < r => outcome'[r] = "none"
  BY Effects, RequestsStayOpen
<1>2. LookupAlone' /\ Listeners'
  BY LookupStaysAlone, ListenersStay
<1>3. CASE Next
  <2>1. phase' # "new"
    BY <1>3, NeverNewAgain
  <2> QED
    BY <1>1, <1>2, <2>1 DEF LoginInv, LookupAlone, Listeners
<1>4. CASE UNCHANGED vars
  BY <1>4 DEF LoginInv, vars, authVars, loginVars, lookupVars, lifeVars, restVars
<1> QED
  BY <1>3, <1>4

LEMMA LoginInvInit == Init => LoginInv
BY RequestIds DEF Init, AuthInit, LoginInv

(* The invariant that the results below rest on.                           *)
THEOREM LoginInvariant == Spec => []LoginInv
<1>1. Init => LoginInv
  BY LoginInvInit
<1>2. TypeOK /\ LoginInv /\ [Next]_vars => LoginInv'
  BY LoginInvStep
<1> QED
  BY <1>1, <1>2, TypeCorrect, PTL DEF Spec

-----------------------------------------------------------------------------
(* Refinement.                                                             *)

LEMMA EffectRefines ==
  ASSUME TypeOK, LoginInv, Effect
  PROVE  [Service!ServiceNext]_(Service!serviceVars)
<1> USE DEF Service!ServiceNext, Service!serviceVars
<1>o. /\ request \in RequestId \cup {None}
      /\ request # None => outcome[request] = "open"
  BY DEF TypeOK, LoginTypes, LoginInv
<1>r. NewRequest => requests' \in RequestId /\ requests' # None /\ outcome[requests'] = "none"
  <2> SUFFICES ASSUME NewRequest
               PROVE  requests' \in RequestId /\ requests' # None /\ outcome[requests'] = "none"
    OBVIOUS
  <2>1. requests' \in RequestId /\ requests < requests'
    BY NewRequestTypes DEF NewRequest, TypeOK, LoginTypes
  <2> QED
    BY <2>1, RequestIds DEF LoginInv
<1>1. CASE Untouched
  BY <1>1 DEF Untouched
<1>2. ASSUME NEW how \in Concluded, Concludes(how)
      PROVE  Service!Conclude \/ UNCHANGED <<request, outcome>>
  <2>1. CASE request = None
    BY <1>2, <2>1 DEF Concludes, Told
  <2>2. CASE request # None
    <3>1. outcome' = [outcome EXCEPT ![request] = how] /\ request' = None
      BY <1>2, <1>o, <2>2 DEF Concludes, Told
    <3>2. how \in Service!Ending
      BY DEF Concluded, Service!Ending
    <3> QED
      BY <2>2, <3>1, <3>2 DEF Service!Conclude
  <2> QED
    BY <2>1, <2>2
<1>3. ASSUME NEW how \in {"failed", "finished"}, Refuses(how)
      PROVE  Service!Refuse(requests')
  BY <1>3, <1>r DEF Refuses, Service!Refuse, Service!Refusal
<1>4. CASE Serves
  <2>1. Service!Serve(requests')
    BY <1>4, <1>r DEF Serves, Service!Serve
  <2> QED
    BY <1>4, <1>r, <2>1 DEF Serves
<1>5. CASE Supersedes
  <2>1. Told(request, "cancelled") = [outcome EXCEPT ![request] = "cancelled"]
    BY <1>5, <1>o DEF Supersedes, Told
  <2>2. request # requests'
    BY <1>5, <1>o, <1>r DEF Supersedes
  <2>3. [[outcome EXCEPT ![request] = "cancelled"] EXCEPT ![requests'] = "open"]
          = [outcome EXCEPT ![request] = "cancelled", ![requests'] = "open"]
        /\ [[outcome EXCEPT ![request] = "cancelled"] EXCEPT ![requests'] = "failed"]
          = [outcome EXCEPT ![request] = "cancelled", ![requests'] = "failed"]
    OBVIOUS
  <2>4. Service!Supersede(requests')
    BY <1>5, <1>r, <2>1, <2>2, <2>3 DEF Supersedes, Service!Supersede
  <2> QED
    BY <1>5, <1>r, <2>4 DEF Supersedes
<1> QED
  BY <1>1, <1>2, <1>3, <1>4, <1>5, <1>r DEF Effect, Refuses

(* Every request of the greeter is served alone and is told one result: in *)
(* every environment, Display implements the abstract login service.       *)
THEOREM DisplayImplementsLoginService == Spec => ImplementsLoginService
<1>1. Init => Service!ServiceInit
  BY DEF Init, Service!ServiceInit
<1>2. TypeOK /\ LoginInv /\ [Next]_vars => [Service!ServiceNext]_(Service!serviceVars)
  BY Effects, EffectRefines
<1> QED
  BY <1>1, <1>2, TypeCorrect, LoginInvariant, PTL
  DEF Spec, ImplementsLoginService, Service!ServiceSpec

-----------------------------------------------------------------------------
(* Helpers.                                                                *)

(* The steps that start a helper, and what is true when they do.           *)
Launch ==
  \/ ~IsActive
  \/ request # None /\ outcome'[request] = "cancelled"

LEMMA RunsOnlyWhenAlone ==
  ASSUME TypeOK, LoginInv, [Next]_vars, run' # run
  PROVE  Launch
<1> USE DEF Launch, IsActive
<1>a. ASSUME NEW success, NEW kept, FinishActivation(success, kept)
      PROVE  FALSE
  BY <1>a DEF FinishActivation, StopRest, AuthStop, authVars
<1>l. ASSUME NEW session, FinishLookup(session), reuseLookupPending
      PROVE  Launch
  BY <1>l DEF LoginInv
<1>u. ASSUME UNCHANGED authVars \/ UNCHANGED allButCalls
      PROVE  FALSE
  BY <1>u DEF authVars, allButCalls
<1>1. CASE Start
  BY <1>1, <1>u DEF Start, StartWithGreeter, AutologinImpossible, StartAutologin, LoginInv
<1>2. CASE Greeter
  <2>1. CASE LoginAccepted
    <3>1. CASE Listening
      <4>1. NewRequest /\ Superseded("open")
        BY <2>1 DEF LoginAccepted
      <4>2. request # None /\ request # requests' /\ requests' \in RequestId
        <5>1. request # None /\ request <= requests /\ requests' = requests + 1
          BY <3>1, <4>1, ListenerPresent DEF LoginInv, NewRequest
        <5> QED
          BY <4>1, <5>1, NewRequestTypes, RequestIds DEF TypeOK, LoginTypes
      <4>3. Told(request, "cancelled") = [outcome EXCEPT ![request] = "cancelled"]
        BY <4>2 DEF Told, LoginInv
      <4>4. outcome' = [[outcome EXCEPT ![request] = "cancelled"] EXCEPT ![requests'] = "open"]
        BY <3>1, <4>1, <4>3 DEF Superseded
      <4>5. outcome'[request] = "cancelled"
        BY <4>2, <4>4 DEF TypeOK, LoginTypes
      <4> QED
        BY <4>2, <4>5
    <3>2. CASE ~Listening
      BY <2>1, <3>2 DEF LoginAccepted, Idle
    <3> QED
      BY <3>1, <3>2
  <2>2. CASE FingerprintAccepted
    BY <2>2 DEF FingerprintAccepted, Idle
  <2> QED
    BY <1>2, <2>1, <2>2, <1>u
    DEF Greeter, AnnounceTransitions, LoginRejected, LoginRefused, FingerprintRefused,
        FingerprintCancel, CancelFingerprintLogin, CancelHelper, AuthStop, TransitionReady,
        CompleteTransition, GreeterDies
<1>3. CASE GreeterFailed \/ DisplayServerStops
  BY <1>3 DEF GreeterFailed, DisplayServerStops, Stop, StopRest, AuthStop
<1>4. CASE Logind
  <2> PICK c \in calls : \/ ListReply(c) \/ PropertiesReply(c)
                         \/ UnlockReply(c) \/ ActivateReply(c)
                         \/ SessionByPidReply(c) \/ SessionIdReply(c)
    BY <1>4 DEF Logind
  <2>1. CASE ListReply(c) \/ PropertiesReply(c)
    BY <2>1, <1>l, <1>u DEF ListReply, PropertiesReply, LookupCurrent, Drop
  <2>2. CASE UnlockReply(c) \/ ActivateReply(c)
    BY <2>2, <1>a, <1>u DEF UnlockReply, ActivateReply, Drop
  <2>3. CASE SessionByPidReply(c) \/ SessionIdReply(c)
    BY <2>3, <1>u DEF SessionByPidReply, SessionIdReply, Drop
  <2> QED
    BY <2>1, <2>2, <2>3
<1>5. CASE Timers
  <2>1. CASE TransitionTimeout
    BY <2>1 DEF TransitionTimeout, CompleteTransition
  <2>2. CASE ActivationTimeout
    BY <2>2, <1>a DEF ActivationTimeout
  <2>3. CASE AbortFingerprint
    BY <2>3, <1>u DEF AbortFingerprint, CancelFingerprintLogin, CancelHelper, AuthStop
  <2>4. ASSUME NEW c \in calls, LookupTimeout(c)
        PROVE  Launch
    BY <2>4, <1>l, <1>u DEF LookupTimeout, LookupCurrent, Drop
  <2> QED
    BY <1>5, <2>1, <2>2, <2>3, <2>4 DEF Timers
<1>6. CASE DeliverFromHelper
  BY <1>6
  DEF DeliverFromHelper, RequestChanged, AuthenticationSucceeded, AuthenticationFailed,
      AutologinFailed, SessionStarted, SessionNotStarted, HelperFinished, HelperReaped,
      ReceiveRequest, ReceiveAccepted, ReceiveRejected, ReceiveStatus
<1>7. CASE Helper
  BY <1>7
  DEF Helper, HelperNext, HelperProgress, HelperConnects, HelperReads, OpensSession, HelperAsks,
      PamAccepts, PamRejects, SessionEnds, HelperCrashes, HelperFailsToStart, ownerOnly
<1>8. CASE UNCHANGED vars
  BY <1>8, <1>u DEF vars
<1> QED
  BY <1>1, <1>2, <1>3, <1>4, <1>5, <1>6, <1>7, <1>8 DEF Next

(* No late reply, timeout or message starts a helper beside a live one.    *)
THEOREM NeverTwoHelpers == Spec => OneHelperAtATime
<1>1. TypeOK /\ LoginInv /\ [Next]_vars
        => [run' # run => ~IsActive \/ (request # None /\ outcome'[request] = "cancelled")]_vars
  BY RunsOnlyWhenAlone DEF Launch
<1> QED
  BY <1>1, TypeCorrect, LoginInvariant, PTL DEF Spec, OneHelperAtATime

LEMMA CancelledStep ==
  ASSUME TypeOK, LoginInv, CancelledNeverRuns, [Next]_vars
  PROVE  CancelledNeverRuns'
<1> USE DEF IsActive
<1>n. ASSUME helper' = "none", reuseLookupPending' = FALSE
      PROVE  CancelledNeverRuns'
  BY <1>n DEF CancelledNeverRuns
<1>t. ASSUME target' # None => outcome'[target'] # "cancelled"
      PROVE  CancelledNeverRuns'
  BY <1>t DEF CancelledNeverRuns
<1>k. ASSUME target' = target, helper = "none" => helper' = "none",
             reuseLookupPending' => reuseLookupPending,
             target # None /\ outcome'[target] = "cancelled" => outcome[target] = "cancelled"
      PROVE  CancelledNeverRuns'
  BY <1>k DEF CancelledNeverRuns
<1>u. ASSUME UNCHANGED <<target, outcome, reuseLookupPending>>, helper = "none" => helper' = "none"
      PROVE  CancelledNeverRuns'
  BY <1>u, <1>k
<1>v. ASSUME UNCHANGED allButCalls
      PROVE  CancelledNeverRuns'
  BY <1>v, <1>u DEF allButCalls, authVars, loginVars, lookupVars
<1>l. ASSUME NEW session, FinishLookup(session), reuseLookupPending
      PROVE  CancelledNeverRuns'
  <2>1. target # None => outcome[target] # "cancelled"
    BY <1>l DEF CancelledNeverRuns
  <2> QED
    BY <1>l, <2>1, <1>t DEF FinishLookup, loginVars
<1>f. ASSUME NEW success, NEW matched, FinishLogin(success, matched), target' = target,
             helper = "none" => helper' = "none", reuseLookupPending' => reuseLookupPending
      PROVE  CancelledNeverRuns'
  <2>1. PICK how \in {"succeeded", "finished", "failed"} : outcome' = Told(request, how)
    BY <1>f, Zenon DEF FinishLogin
  <2>2. target # None /\ outcome'[target] = "cancelled" => outcome[target] = "cancelled"
    BY <2>1 DEF Told, TypeOK, LoginTypes
  <2> QED
    BY <1>f, <2>2, <1>k
<1>s. ASSUME StopRest
      PROVE  CancelledNeverRuns'
  BY <1>s, <1>n DEF StopRest, AuthStop
<1>a. ASSUME NEW success, NEW kept, FinishActivation(success, kept)
      PROVE  CancelledNeverRuns'
  BY <1>a, <1>s, <1>f DEF FinishActivation, authVars, lookupVars
<1>c. ASSUME NEW result, CancelFingerprintLogin(result)
      PROVE  CancelledNeverRuns'
  BY <1>c, <1>n DEF CancelFingerprintLogin, CancelHelper, AuthStop
<1>1. CASE Start
  <2>1. CASE StartAutologin
    BY <2>1, <1>t DEF StartAutologin, StartAuth, BeginAuth
  <2> QED
    BY <1>1, <2>1, <1>u
    DEF Start, StartWithGreeter, AutologinImpossible, authVars, loginVars, lookupVars, restVars
<1>2. CASE Greeter
  <2>n. NewRequest => /\ requests' \in RequestId
                      /\ outcome[requests'] # "cancelled"
    <3> SUFFICES ASSUME NewRequest PROVE requests' \in RequestId /\ outcome[requests'] # "cancelled"
      OBVIOUS
    <3>1. requests' \in RequestId /\ requests < requests'
      BY NewRequestTypes DEF NewRequest, TypeOK, LoginTypes
    <3> QED
      BY <3>1 DEF LoginInv
  <2>1. CASE LoginAccepted
    <3>1. target' = requests' /\ NewRequest /\ Superseded("open")
      BY <2>1 DEF LoginAccepted, BeginAuth
    <3>2. outcome'[requests'] = "open"
      BY <3>1, <2>n DEF Superseded, Told, TypeOK, LoginTypes
    <3> QED
      BY <3>1, <3>2, <1>t
  <2>2. CASE FingerprintAccepted
    <3>1. target' = requests' /\ NewRequest /\ outcome' = [outcome EXCEPT ![requests'] = "open"]
      BY <2>2 DEF FingerprintAccepted, StartAuth, BeginAuth
    <3>2. outcome'[requests'] = "open"
      BY <3>1, <2>n DEF TypeOK, LoginTypes
    <3> QED
      BY <3>1, <3>2, <1>t
  <2>3. CASE LoginRefused
    <3>1. CASE Listening
      BY <2>3, <3>1, <1>n DEF LoginRefused, CancelHelper, AuthStop
    <3>2. CASE ~Listening
      <4>1. NewRequest /\ outcome' = [outcome EXCEPT ![requests'] = "failed"]
            /\ UNCHANGED <<target, helper, reuseLookupPending>>
        BY <2>3, <3>2 DEF LoginRefused, Superseded, authVars, lookupVars
      <4> QED
        BY <4>1, <1>k DEF TypeOK, LoginTypes
    <3> QED
      BY <3>1, <3>2
  <2>4. CASE LoginRejected \/ FingerprintRefused
    <3>1. /\ \/ outcome' = [outcome EXCEPT ![requests'] = "failed"]
             \/ outcome' = [outcome EXCEPT ![requests'] = "finished"]
          /\ UNCHANGED <<target, helper, reuseLookupPending>>
      BY <2>4 DEF LoginRejected, FingerprintRefused, authVars, lookupVars
    <3> QED
      BY <3>1, <1>k DEF TypeOK, LoginTypes
  <2>5. CASE FingerprintCancel
    BY <2>5, <1>c DEF FingerprintCancel
  <2>6. CASE AnnounceTransitions
    BY <2>6, <1>u DEF AnnounceTransitions, authVars, loginVars, lookupVars, restVars
  <2>7. CASE TransitionReady
    BY <2>7, <1>u DEF TransitionReady, CompleteTransition, lookupVars
  <2>8. CASE GreeterDies
    <3>1. outcome' = Told(request, "lost") /\ UNCHANGED <<target, helper, reuseLookupPending>>
      BY <2>8 DEF GreeterDies, authVars, lookupVars, restVars
    <3>2. target # None /\ outcome'[target] = "cancelled" => outcome[target] = "cancelled"
      BY <3>1 DEF Told, TypeOK, LoginTypes
    <3> QED
      BY <3>1, <3>2, <1>k
  <2> QED
    BY <1>2, <2>1, <2>2, <2>3, <2>4, <2>5, <2>6, <2>7, <2>8 DEF Greeter
<1>3. CASE GreeterFailed \/ DisplayServerStops
  BY <1>3, <1>s DEF GreeterFailed, DisplayServerStops, Stop
<1>4. CASE Logind
  <2> PICK c \in calls : \/ ListReply(c) \/ PropertiesReply(c)
                         \/ UnlockReply(c) \/ ActivateReply(c)
                         \/ SessionByPidReply(c) \/ SessionIdReply(c)
    BY <1>4 DEF Logind
  <2>1. CASE ListReply(c) \/ PropertiesReply(c)
    BY <2>1, <1>l, <1>v DEF ListReply, PropertiesReply, LookupCurrent, Drop
  <2>2. CASE UnlockReply(c) \/ ActivateReply(c)
    BY <2>2, <1>a, <1>v DEF UnlockReply, ActivateReply, Drop
  <2>3. CASE SessionByPidReply(c) \/ SessionIdReply(c)
    BY <2>3, <1>u, <1>v
    DEF SessionByPidReply, SessionIdReply, Drop, authVars, loginVars, lookupVars
  <2> QED
    BY <2>1, <2>2, <2>3
<1>5. CASE Timers
  <2>1. CASE TransitionTimeout
    BY <2>1, <1>u DEF TransitionTimeout, CompleteTransition, lookupVars
  <2>2. CASE ActivationTimeout
    BY <2>2, <1>a DEF ActivationTimeout
  <2>3. CASE AbortFingerprint
    BY <2>3, <1>c, <1>u DEF AbortFingerprint, authVars, loginVars, lookupVars
  <2>4. ASSUME NEW c \in calls, LookupTimeout(c)
        PROVE  CancelledNeverRuns'
    BY <2>4, <1>l, <1>v DEF LookupTimeout, LookupCurrent, Drop
  <2> QED
    BY <1>5, <2>1, <2>2, <2>3, <2>4 DEF Timers
<1>6. CASE DeliverFromHelper
  <2>1. CASE RequestChanged
    BY <2>1, <1>u DEF RequestChanged, ReceiveRequest, loginVars, lookupVars
  <2>2. CASE AuthenticationSucceeded
    BY <2>2, <1>u DEF AuthenticationSucceeded, ReceiveAccepted, lookupVars
  <2>3. CASE AuthenticationFailed
    BY <2>3, <1>f DEF AuthenticationFailed, ReceiveRejected, lookupVars
  <2>4. CASE AutologinFailed
    BY <2>4, <1>u DEF AutologinFailed, ReceiveRejected, loginVars, lookupVars
  <2>5. CASE SessionStarted
    BY <2>5, <1>f DEF SessionStarted, ReceiveStatus, lookupVars
  <2>6. CASE SessionNotStarted
    BY <2>6, <1>f DEF SessionNotStarted, ReceiveStatus, lookupVars, restVars
  <2>7. CASE HelperFinished
    <3>1. helper' = "none"
      BY <2>7 DEF HelperFinished, HelperReaped
    <3>2. CASE reuseActivationPending
      BY <2>7, <3>1, <3>2, <1>u DEF HelperFinished, loginVars, lookupVars, restVars
    <3>3. CASE ~reuseActivationPending /\ exitStatus = "authError"
      <4>1. UNCHANGED <<target, reuseLookupPending>>
        BY <2>7, <3>3 DEF HelperFinished, lookupVars, restVars
      <4>2. FinishLogin(FALSE, authenticated) \/ UNCHANGED outcome
        BY <2>7, <3>3 DEF HelperFinished, loginVars
      <4> QED
        BY <3>1, <4>1, <4>2, <1>f, <1>u
    <3>4. CASE ~reuseActivationPending /\ exitStatus # "authError"
      BY <2>7, <3>4, <1>s DEF HelperFinished, Stop
    <3> QED
      BY <3>2, <3>3, <3>4
  <2> QED
    BY <1>6, <2>1, <2>2, <2>3, <2>4, <2>5, <2>6, <2>7 DEF DeliverFromHelper
<1>7. CASE Helper
  BY <1>7, <1>u, NoHelperNoStep DEF Helper, loginVars, lookupVars, restVars
<1>8. CASE UNCHANGED vars
  BY <1>8, <1>u DEF vars, authVars, loginVars, lookupVars, restVars
<1> QED
  BY <1>1, <1>2, <1>3, <1>4, <1>5, <1>6, <1>7, <1>8 DEF Next

(* Once a fingerprint login is cancelled or taken over, no helper runs or  *)
(* will run for it.                                                        *)
THEOREM CancelledLoginsNeverRun == Spec => []CancelledNeverRuns
<1>1. Init => CancelledNeverRuns
  BY DEF Init, CancelledNeverRuns
<1>2. TypeOK /\ LoginInv /\ CancelledNeverRuns /\ [Next]_vars => CancelledNeverRuns'
  BY CancelledStep
<1> QED
  BY <1>1, <1>2, TypeCorrect, LoginInvariant, PTL DEF Spec
===============================================================================
