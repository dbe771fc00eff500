------------------------ MODULE GreeterLoginProperties ------------------------
(***************************************************************************)
(* What must hold between the greeter and the daemon, although each acts   *)
(* on what it last heard of the other.                                     *)
(***************************************************************************)
EXTENDS GreeterLogin, TLC

(* Nothing is under way between them, and the greeter has nothing to do.   *)
Quiet == GreeterUp /\ toDaemon = <<>> /\ toGreeter = <<>> /\ ~unusableQueued

(* Each believes of the other what is true: the greeter shows that it      *)
(* listens exactly while the daemon listens, for the same user and session, *)
(* so a finger logs into the session that is selected; and it waits for a   *)
(* password's result exactly while the daemon serves one, so no result is   *)
(* taken for that of another login, nor is one missing.                     *)
GreeterInStep ==
  Quiet =>
    /\ reader.state = "listening" <=> request # None /\ Listening
    /\ reader.state = "listening" =>
         listenedFor = [user |-> reader.user, session |-> fingerprintSession]
    /\ authenticating <=> request # None /\ ~fingerprintLogin

(* "The run is restarted quietly, so the reader keeps listening": the      *)
(* daemon refuses a run only while a login that PAM accepted is under way, *)
(* never the one the greeter starts again after a timeout, or after a      *)
(* rejected password.                                                      *)
RunsAreAccepted ==
  [][\A r \in RequestId :
       outcome[r] = "none" /\ outcome'[r] = "finished" => authenticated]_allVars

(* A password sent to the daemon is answered.                              *)
PasswordAnswered == authenticating ~> ~authenticating \/ ~GreeterUp

(* A probe for one user is not kept waiting by what the view does for     *)
(* others: the reader hears of it, or leaves it.                           *)
ProbingEnds ==
  \A user \in Users :
    LET probing == reader.state = "probing" /\ reader.user = user
    IN  probing ~> ~probing \/ ~GreeterUp

(* Which of the sessions, or of the users, is which does not matter to any  *)
(* property.                                                                *)
GreeterSymmetry == Permutations(Users) \cup Permutations(Sessions)
=============================================================================
