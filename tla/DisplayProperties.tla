-------------------------- MODULE DisplayProperties --------------------------
(***************************************************************************)
(* What must hold of a Display, whatever the greeter, the helper, logind   *)
(* and the timers do.                                                      *)
(***************************************************************************)
EXTENDS Display, TLC

Service == INSTANCE LoginService
             WITH Request <- RequestId, current <- request

(* Every request of the greeter is served alone and is told exactly one    *)
(* result: the Display of login(), fingerprintLogin(), finishLogin() and   *)
(* slotHelperFinished() implements the abstract login service.             *)
ImplementsLoginService == Service!ServiceSpec

(* Why that is so: a request that is served is open and is the only one;   *)
(* while a reuse lookup is pending no helper exists, so the lookup's end   *)
(* may start one; and a fingerprint login without a request is that of a   *)
(* greeter that died.  No step of the daemon, in whatever order the        *)
(* replies, timers and messages arrive, breaks any of these.               *)
LoginInv ==
  /\ request # None => request <= requests /\ outcome[request] = "open"
  /\ \A r \in RequestId : requests < r => outcome[r] = "none"
  /\ reuseLookupPending => helper = "none"
  /\ fingerprintLogin => request # None \/ greeter = "dead"
  /\ autologin => greeter = "none"
  /\ phase = "new" =>
       /\ helper = "none"
       /\ greeter = "none"
       /\ request = None
       /\ ~reuseLookupPending
       /\ ~autologin

(* Auth::start() never runs while a helper is alive, but for the one a     *)
(* taken-over fingerprint login has just been stopped: a late reply or     *)
(* timeout of a reuse lookup cannot start a second one.                    *)
OneHelperAtATime ==
  [][run' # run =>
       \/ ~IsActive
       \/ request # None /\ outcome'[request] = "cancelled"]_vars

(* "A pending session reuse lookup would start the helper later": once a   *)
(* fingerprint login is cancelled, no helper runs or will run for it.      *)
CancelledNeverRuns ==
  target # None /\ outcome[target] = "cancelled"
    => ~IsActive /\ ~reuseLookupPending

(* An existing session is unlocked and activated only once PAM accepted    *)
(* the user in the very run that was started to reuse it; and loginSuc-    *)
(* ceeded is emitted only for the request whose user PAM accepted, and     *)
(* only if its session was opened or an existing one was activated.        *)
SuccessOnlyIfAccepted ==
  /\ [](reuseActivationPending =>
         /\ accepted
         /\ reuseSessionId # None
         /\ ~reuseLookupPending
         /\ ~opensSession)
  /\ [][\A r \in RequestId :
          outcome'[r] = "succeeded" /\ outcome[r] # "succeeded"
            => r = target /\ accepted /\ (opensSession \/ reuseActivationPending)]_vars

(* The helper is answered as it asked and no more: one AUTHENTICATED reply, *)
(* while it waits for it, which neither a transition that ends late nor a   *)
(* second message repeats; none before the greeter's transition has ended,  *)
(* so that no virtual terminal switches under the animation; and no input   *)
(* for a gxdm-fingerprint helper, which would get the empty password.       *)
RepliesOnlyAsDue ==
  /\ (\E i \in DOMAIN outbox : outbox[i] = "AUTHENTICATED")
       => helper = "waitReply" /\ Len(outbox) = 1
  /\ transitionTimer => helper \notin {"opening", "opened", "notOpened", "session"}
  /\ fingerprint /\ helper = "prompt" => outbox = <<>>

(* A login and its helper belong together: a request the greeter waits for  *)
(* has a helper, a reuse lookup or an activation that will end it; a helper *)
(* that still asks PAM works for that request - no result of an earlier     *)
(* helper has concluded it meanwhile; and a session announced on the        *)
(* DisplayManager D-Bus interface is that of the login in progress, has a   *)
(* helper behind it, and is withdrawn.                                      *)
LoginHasHelper ==
  /\ request # None => IsActive \/ reuseLookupPending \/ reuseActivationPending
  /\ phase = "started" /\ helper \in {"starting", "auth", "prompt"} /\ target # None
       => request = target \/ outcome[target] = "lost"
  /\ registered # {} => registered = {dmSession} /\ IsActive

(* A started display always shows, or is about to end in, something: its   *)
(* greeter, a login in progress or a session.                              *)
NeverStranded ==
  phase = "started" =>
    greeter # "none" \/ IsActive \/ reuseLookupPending \/ reuseActivationPending

(* No request waits forever, however slow logind and the greeter are.      *)
RequestConcluded ==
  \A r \in RequestId : outcome[r] = "open" ~> outcome[r] # "open"

(* Nothing the daemon waits for holds a login up forever: "Never let an    *)
(* unresponsive logind prevent a fresh login from starting"; a transition   *)
(* the greeter never confirms ends; and once the helper of a reused session *)
(* is gone, the display stops and the seat can start anew, even if logind   *)
(* never answers.                                                           *)
WaitsEnd ==
  /\ reuseLookupPending ~> ~reuseLookupPending
  /\ deferStart ~> ~deferStart
  /\ reuseHelperFinished ~> phase = "stopped"

(* An autologin that fails leads to the greeter, or to the display being   *)
(* given up.                                                               *)
AutologinEnds == autologin ~> (~autologin \/ helper = "session" \/ phase = "stopped")

(* Which logind session is which does not matter to any property.           *)
SessionSymmetry == Permutations(LogindSessions)
=============================================================================
