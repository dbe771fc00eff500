-------------------------- MODULE FingerprintSession --------------------------
(***************************************************************************)
(* FingerprintSession (src/common/FingerprintSession.cpp): listens for one *)
(* user's finger beside the password, in the greeter and in the lock       *)
(* screen.                                                                 *)
(*                                                                         *)
(* A session is a record; each operation returns the session after it and  *)
(* the virtual functions it called on its subclass, of which StopRun comes *)
(* before Probe or StartRun.  The owner's module says what those do.       *)
(*                                                                         *)
(* Time is abstracted to whether a run failed less than quick_failure_ms_  *)
(* after it started or after its last rejected scan.                       *)
(***************************************************************************)

State == {"idle", "probing", "listening", "gaveUp", "unavailable"}

Session(users) == [state : State, user : users, rejected : BOOLEAN]

Idle(nobody) == [state |-> "idle", user |-> nobody, rejected |-> FALSE]

Busy(s) == s.state \in {"probing", "listening"}

After(s, calls) == [session |-> s, calls |-> calls]

Unchanged(s) == After(s, {})

Stop(s) ==
  IF Busy(s)
    THEN After([s EXCEPT !.state = "idle"],
               IF s.state = "listening" THEN {"StopRun"} ELSE {})
    ELSE Unchanged(s)

(* Variant: a probe for another user is taken to be this one's.            *)
StartOnce(s, user) ==
  IF Busy(s)
    THEN After([s EXCEPT !.user = user], {})
    ELSE After([s EXCEPT !.state = "probing", !.user = user], {"Probe"})

(* Probes anew each time, but for the user it already probes or listens    *)
(* for.                                                                    *)
Start(s, user) ==
  IF Busy(s) /\ s.user = user
    THEN Unchanged(s)
    ELSE After([s EXCEPT !.state = "probing", !.user = user],
               Stop(s).calls \cup {"Probe"})

BeginRun(s, calls) ==
  After([s EXCEPT !.state = "listening", !.rejected = FALSE], calls \cup {"StartRun"})

ProbeFinished(s, user, available) ==
  IF s.state # "probing" \/ s.user # user THEN Unchanged(s)
  ELSE IF available THEN BeginRun(s, {})
  ELSE After([s EXCEPT !.state = "unavailable"], {})

RunRejected(s) ==
  IF s.state = "listening" THEN After([s EXCEPT !.rejected = TRUE], {}) ELSE Unchanged(s)

(* A match; a timeout, after which it goes on listening; the tries used    *)
(* up; or a failure without any scan.                                      *)
RunFinished(s, matched, quick) ==
  IF s.state # "listening" THEN Unchanged(s)
  ELSE IF matched THEN After([s EXCEPT !.state = "idle"], {"StopRun"})
  ELSE IF ~quick THEN BeginRun(s, {"StopRun"})
  ELSE After([s EXCEPT !.state = IF s.rejected THEN "gaveUp" ELSE "unavailable"], {"StopRun"})

(* The run cannot work, as when the PAM stack asks for input.              *)
RunUnusable(s) ==
  IF s.state = "listening"
    THEN After([s EXCEPT !.state = "unavailable"], {"StopRun"})
    ELSE Unchanged(s)
=============================================================================
