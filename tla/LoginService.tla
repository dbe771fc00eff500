----------------------------- MODULE LoginService -----------------------------
(***************************************************************************)
(* What a Display promises its greeter, with no helper, no logind and no   *)
(* timers in sight: login requests are served one at a time; whoever is    *)
(* not served is told at once; whoever is served is told exactly one       *)
(* result, unless it gave up, was superseded, or is no longer there.       *)
(*                                                                         *)
(* The result codes are the messages LoginFailed, LoginSucceeded and       *)
(* FingerprintFinished of src/common/Messages.h.                           *)
(***************************************************************************)
CONSTANTS Request, None

VARIABLES
  current,     \* the request being served, or None
  outcome      \* what became of each request

serviceVars == <<current, outcome>>

Refusal == {"failed", "finished"}
Ending == {"failed", "succeeded", "finished", "cancelled", "lost"}

ServiceInit ==
  /\ current = None
  /\ outcome = [r \in Request |-> "none"]

Serve(r) ==
  /\ current = None
  /\ outcome[r] = "none"
  /\ current' = r
  /\ outcome' = [outcome EXCEPT ![r] = "open"]

Refuse(r) ==
  /\ outcome[r] = "none"
  /\ \E how \in Refusal : outcome' = [outcome EXCEPT ![r] = how]
  /\ UNCHANGED current

Conclude ==
  /\ current # None
  /\ current' = None
  /\ \E how \in Ending : outcome' = [outcome EXCEPT ![current] = how]

(* A later request takes over, and is served or found unacceptable.        *)
Supersede(r) ==
  /\ current \notin {None, r}
  /\ outcome[r] = "none"
  /\ \/ /\ current' = r
        /\ outcome' = [outcome EXCEPT ![current] = "cancelled", ![r] = "open"]
     \/ /\ current' = None
        /\ outcome' = [outcome EXCEPT ![current] = "cancelled", ![r] = "failed"]

ServiceNext ==
  \/ \E r \in Request : Serve(r) \/ Refuse(r) \/ Supersede(r)
  \/ Conclude

ServiceSpec == ServiceInit /\ [][ServiceNext]_serviceVars
=============================================================================
