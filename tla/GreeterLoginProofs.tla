--------------------------- MODULE GreeterLoginProofs ---------------------------
(***************************************************************************)
(* The greeter and the daemon stay in step, for any number of users,       *)
(* sessions, requests and messages under way, when no message of a helper  *)
(* outlives it and the view waits for a probe before it asks for another.  *)
(***************************************************************************)
EXTENDS GreeterLoginProperties, DisplayHelperProofs

-----------------------------------------------------------------------------
(* Whatever the greeter does, the daemon's side is a Display: the theorems *)
(* about Display hold of it.                                               *)

LEMMA StepsOfDisplay ==
  ASSUME [GreeterNext]_allVars
  PROVE  [Next]_vars
<1>1. CASE GreeterConnects
  BY <1>1 DEF GreeterConnects, Next, Start
<1>2. CASE View
  BY <1>2 DEF View, StartFingerprint, StopFingerprint, SendLogin, FinishTransition
<1>3. CASE GreeterRuns
  BY <1>3 DEF GreeterRuns, RunUnusable, PrepareTransition, ReadLoginFailed, ReadLoginSucceeded,
     ReadFingerprintAvailable, ReadFingerprintRejected, ReadFingerprintFinished, GreeterReads
<1>4. CASE DaemonReadsMessage
  <2>1. CASE ReadEnableTransitions
    BY <2>1 DEF ReadEnableTransitions, Next, Greeter
  <2>2. CASE ReadLogin
    BY <2>2 DEF ReadLogin, Next, Greeter
  <2>3. CASE ReadFingerprintProbe
    BY <2>3 DEF ReadFingerprintProbe
  <2>4. CASE ReadFingerprintLogin
    BY <2>4 DEF ReadFingerprintLogin, Next, Greeter
  <2>5. CASE ReadFingerprintCancel
    BY <2>5 DEF ReadFingerprintCancel, Next, Greeter
  <2>6. CASE ReadTransitionReady
    BY <2>6 DEF ReadTransitionReady, Next, Greeter
  <2> QED
    BY <1>4, <2>1, <2>2, <2>3, <2>4, <2>5, <2>6 DEF DaemonReadsMessage
<1>5. CASE ProbeAnswered \/ ScanRejected
  BY <1>5 DEF ProbeAnswered, ScanRejected
<1>6. CASE DisplayStep(Logind) \/ DisplayStep(Timers) \/ DisplayStep(DeliverFromHelper)
  BY <1>6 DEF DisplayStep, Next
<1>7. CASE HelperStep(Helper)
  BY <1>7 DEF HelperStep, Next
<1>8. CASE UNCHANGED allVars
  BY <1>8 DEF allVars
<1> QED
  BY <1>1, <1>2, <1>3, <1>4, <1>5, <1>6, <1>7, <1>8 DEF GreeterNext

(* With its greeter, the daemon takes no step that a Display on its own    *)
(* does not: what is proved of Display is true of the two together.        *)
THEOREM GreeterUsesDisplay == GreeterSpec => Spec
<1>1. GreeterInit => Init
  BY DEF GreeterInit
<1> QED
  BY <1>1, StepsOfDisplay, PTL DEF GreeterSpec, Spec

-----------------------------------------------------------------------------
(* The reader: what the operations of FingerprintSession do, and what the  *)
(* overrides of DaemonFingerprint send for them.                           *)

Cancel == [type |-> "FingerprintCancel"]
Probe(u) == [type |-> "FingerprintProbe", user |-> u]
Run(u, x) == [type |-> "FingerprintLogin", user |-> u, session |-> x]

LEMMA SentTypes ==
  /\ Cancel \in ToDaemon
  /\ \A u \in Users : Probe(u) \in ToDaemon
  /\ \A u \in Users, x \in KnownSessions : Run(u, x) \in ToDaemon
BY DEF Cancel, Probe, Run, ToDaemon

LEMMA Joining ==
  ASSUME NEW E, NEW s \in Seq(E), NEW m \in E
  PROVE  s \o <<>> = s /\ s \o <<m>> = Append(s, m)
OBVIOUS

(* What an operation of the reader calls, one virtual function at a time.  *)
Calls(after, stop, probe, start) ==
  /\ "StopRun" \in after.calls <=> stop
  /\ "Probe" \in after.calls <=> probe
  /\ "StartRun" \in after.calls <=> start

LEMMA StopIs ==
  ASSUME NEW s \in Reader!Session(Users \cup {None})
  PROVE  /\ Reader!Stop(s).session = IF Reader!Busy(s) THEN [s EXCEPT !.state = "idle"] ELSE s
         /\ Calls(Reader!Stop(s), s.state = "listening", FALSE, FALSE)
BY DEF Reader!Stop, Reader!After, Reader!Unchanged, Reader!Busy, Reader!Session, Calls

LEMMA StartIs ==
  ASSUME NEW s \in Reader!Session(Users \cup {None}), NEW u
  PROVE  IF Reader!Busy(s) /\ s.user = u
           THEN /\ Reader!Start(s, u).session = s
                /\ Calls(Reader!Start(s, u), FALSE, FALSE, FALSE)
           ELSE /\ Reader!Start(s, u).session = [s EXCEPT !.state = "probing", !.user = u]
                /\ Calls(Reader!Start(s, u), s.state = "listening", TRUE, FALSE)
<1>1. CASE Reader!Busy(s) /\ s.user = u
  BY <1>1 DEF Reader!Start, Reader!After, Reader!Unchanged, Calls
<1>2. CASE ~(Reader!Busy(s) /\ s.user = u)
  <2>1. Reader!Start(s, u) = [session |-> [s EXCEPT !.state = "probing", !.user = u],
                              calls |-> Reader!Stop(s).calls \cup {"Probe"}]
    BY <1>2 DEF Reader!Start, Reader!After
  <2>2. Calls(Reader!Start(s, u), s.state = "listening", TRUE, FALSE)
    <3>1. Reader!Start(s, u).calls = Reader!Stop(s).calls \cup {"Probe"}
      BY <2>1
    <3>2. /\ "StopRun" \in Reader!Stop(s).calls <=> s.state = "listening"
          /\ "Probe" \notin Reader!Stop(s).calls /\ "StartRun" \notin Reader!Stop(s).calls
      BY StopIs, Zenon DEF Calls
    <3> QED
      BY <3>1, <3>2 DEF Calls
  <2>3. Reader!Start(s, u).session = [s EXCEPT !.state = "probing", !.user = u]
    BY <2>1
  <2> QED
    BY <1>2, <2>2, <2>3, Zenon
<1> QED
  BY <1>1, <1>2

LEMMA FinishedIs ==
  ASSUME NEW s \in Reader!Session(Users \cup {None}), s.state = "listening", NEW quick
  PROVE  /\ Reader!RunFinished(s, TRUE, quick).session = [s EXCEPT !.state = "idle"]
         /\ Calls(Reader!RunFinished(s, TRUE, quick), TRUE, FALSE, FALSE)
         /\ ~quick =>
              /\ Reader!RunFinished(s, FALSE, quick).session
                   = [s EXCEPT !.state = "listening", !.rejected = FALSE]
              /\ Calls(Reader!RunFinished(s, FALSE, quick), TRUE, FALSE, TRUE)
         /\ quick =>
              /\ Reader!RunFinished(s, FALSE, quick).session
                   \in {[s EXCEPT !.state = "gaveUp"], [s EXCEPT !.state = "unavailable"]}
              /\ Calls(Reader!RunFinished(s, FALSE, quick), TRUE, FALSE, FALSE)
BY DEF Reader!RunFinished, Reader!BeginRun, Reader!After, Calls, Reader!Session

LEMMA ProbedIs ==
  ASSUME NEW s \in Reader!Session(Users \cup {None}), NEW u, NEW available
  PROVE  LET after == Reader!ProbeFinished(s, u, available)
         IN  IF s.state # "probing" \/ s.user # u
               THEN after.session = s /\ Calls(after, FALSE, FALSE, FALSE)
             ELSE IF available
               THEN /\ after.session = [s EXCEPT !.state = "listening", !.rejected = FALSE]
                    /\ Calls(after, FALSE, FALSE, TRUE)
             ELSE /\ after.session = [s EXCEPT !.state = "unavailable"]
                  /\ Calls(after, FALSE, FALSE, FALSE)
BY DEF Reader!ProbeFinished, Reader!BeginRun, Reader!After, Reader!Unchanged, Calls

(* What is sent when a run is stopped, and then a probe or a run started.  *)
Stopped(s, after, active) ==
  IF "StopRun" \in after.calls /\ active THEN Append(s, Cancel) ELSE s

LEMMA JoiningMore ==
  ASSUME NEW E, NEW s \in Seq(E), NEW a \in Seq(E), NEW m \in E
  PROVE  /\ s \o ((a \o <<>>) \o <<>>) = s \o a
         /\ s \o ((a \o <<m>>) \o <<>>) = Append(s \o a, m)
         /\ s \o ((a \o <<>>) \o <<m>>) = Append(s \o a, m)
<1>1. a \o <<>> = a /\ a \o <<m>> = Append(a, m) /\ Append(a, m) \in Seq(E)
  OBVIOUS
<1>2. Append(a, m) \o <<>> = Append(a, m)
  BY <1>1
<1>3. s \o Append(a, m) = Append(s \o a, m)
  OBVIOUS
<1> QED
  BY <1>1, <1>2, <1>3, Zenon

(* The cancel, if any, that comes first.                                   *)
CancelSent(after, active) == IF "StopRun" \in after.calls /\ active THEN <<Cancel>> ELSE <<>>

LEMMA CancelComesFirst ==
  ASSUME NEW after, NEW active \in BOOLEAN, NEW s \in Seq(ToDaemon)
  PROVE  /\ CancelSent(after, active) \in Seq(ToDaemon)
         /\ s \o CancelSent(after, active) = Stopped(s, after, active)
BY Joining, SentTypes DEF Stopped, CancelSent

LEMMA SentNoMore ==
  ASSUME NEW after, NEW active \in BOOLEAN, NEW session, NEW s \in Seq(ToDaemon),
         "Probe" \notin after.calls, "StartRun" \notin after.calls
  PROVE  s \o SentBy(after, active, session) = Stopped(s, after, active)
<1> DEFINE a == CancelSent(after, active)
           t == Stopped(s, after, active)
<1>1. SentBy(after, active, session) = (a \o <<>>) \o <<>>
  BY DEF SentBy, Cancel, CancelSent
<1>2. a \in Seq(ToDaemon) /\ s \o a = t
  BY CancelComesFirst
<1> HIDE DEF a, t
<1>3. s \o SentBy(after, active, session) = t
  BY <1>1, <1>2, SentTypes, JoiningMore
<1> QED
  BY <1>3 DEF t

LEMMA SentProbe ==
  ASSUME NEW after, NEW active \in BOOLEAN, NEW session, NEW s \in Seq(ToDaemon),
         "Probe" \in after.calls, "StartRun" \notin after.calls, after.session.user \in Users
  PROVE  s \o SentBy(after, active, session)
           = Append(Stopped(s, after, active), Probe(after.session.user))
<1> DEFINE a == CancelSent(after, active)
           t == Stopped(s, after, active)
           m == Probe(after.session.user)
<1>1. SentBy(after, active, session) = (a \o <<m>>) \o <<>> /\ m \in ToDaemon
  BY SentTypes DEF SentBy, Cancel, Probe, CancelSent
<1>2. a \in Seq(ToDaemon) /\ s \o a = t
  BY CancelComesFirst
<1> HIDE DEF a, t, m
<1>3. s \o SentBy(after, active, session) = Append(t, m)
  BY <1>1, <1>2, JoiningMore
<1> QED
  BY <1>3 DEF t, m

LEMMA SentRun ==
  ASSUME NEW after, NEW active \in BOOLEAN, NEW session \in KnownSessions, NEW s \in Seq(ToDaemon),
         "Probe" \notin after.calls, "StartRun" \in after.calls, after.session.user \in Users
  PROVE  s \o SentBy(after, active, session)
           = Append(Stopped(s, after, active), Run(after.session.user, session))
<1> DEFINE a == CancelSent(after, active)
           t == Stopped(s, after, active)
           m == Run(after.session.user, session)
<1>1. SentBy(after, active, session) = (a \o <<>>) \o <<m>> /\ m \in ToDaemon
  BY SentTypes DEF SentBy, Cancel, Run, CancelSent
<1>2. a \in Seq(ToDaemon) /\ s \o a = t
  BY CancelComesFirst
<1> HIDE DEF a, t, m
<1>3. s \o SentBy(after, active, session) = Append(t, m)
  BY <1>1, <1>2, JoiningMore
<1> QED
  BY <1>3 DEF t, m

LEMMA SentNoRun ==
  ASSUME NEW after, NEW active \in BOOLEAN, NEW session, session \notin KnownSessions,
         NEW s \in Seq(ToDaemon), "Probe" \notin after.calls
  PROVE  s \o SentBy(after, active, session) = Stopped(s, after, active)
<1> DEFINE a == CancelSent(after, active)
           t == Stopped(s, after, active)
<1>1. SentBy(after, active, session) = (a \o <<>>) \o <<>>
  BY DEF SentBy, Cancel, CancelSent
<1>2. a \in Seq(ToDaemon) /\ s \o a = t
  BY CancelComesFirst
<1> HIDE DEF a, t
<1>3. s \o SentBy(after, active, session) = t
  BY <1>1, <1>2, SentTypes, JoiningMore
<1> QED
  BY <1>3 DEF t

(* A run is active only while the reader listens, for a session the        *)
(* greeter can name; and it listens or probes for a user of the list, and  *)
(* not while a password is awaited.                                        *)
RunInv ==
  /\ runActive => reader.state = "listening" /\ fingerprintSession \in KnownSessions
  /\ reader.state = "listening" /\ ~runActive =>
       unusableQueued /\ fingerprintSession \notin KnownSessions
  /\ Reader!Busy(reader) => reader.user \in Users /\ ~authenticating

ReaderTypes ==
  /\ reader \in Reader!Session(Users \cup {None})
  /\ fingerprintSession \in Sessions \cup {None}
  /\ runActive \in BOOLEAN
  /\ unusableQueued \in BOOLEAN

(* The moves of the greeter: the reader is left as it is; it is left, with *)
(* "sent" sent; it probes for a user; or it begins a run.                  *)
Stopping == IF runActive THEN Append(toDaemon, Cancel) ELSE toDaemon

Keeps ==
  /\ reader'.state = reader.state /\ reader'.user = reader.user
  /\ UNCHANGED <<fingerprintSession, runActive, toDaemon>>
  /\ reader.state = "listening" => unusableQueued' = unusableQueued

Leaves(sent) ==
  /\ ~Reader!Busy(reader')
  /\ ~runActive'
  /\ toDaemon' = sent

Probes(user) ==
  /\ reader'.state = "probing" /\ reader'.user = user
  /\ ~runActive'
  /\ toDaemon' = Append(Stopping, Probe(user))

Begins ==
  /\ reader'.state = "listening" /\ reader'.user = reader.user
  /\ UNCHANGED fingerprintSession
  /\ IF fingerprintSession \in KnownSessions
       THEN runActive' /\ toDaemon' = Append(toDaemon, Run(reader.user, fingerprintSession))
       ELSE ~runActive' /\ toDaemon' = toDaemon /\ unusableQueued'

RestTypes ==
  /\ authenticating \in BOOLEAN /\ loginSucceeded \in BOOLEAN /\ transitionPending \in BOOLEAN
  /\ toGreeter \in Seq(ToGreeter)
  /\ probes \in Seq(Users)
  /\ listenedFor \in [user : Users, session : KnownSessions] \cup {None}

LEMMA TypeParts == GreeterTypeOK <=> ReaderTypes /\ RestTypes /\ toDaemon \in Seq(ToDaemon)
BY DEF GreeterTypeOK, ReaderTypes, RestTypes

LEMMA TypesTogether ==
  ASSUME ReaderTypes', RestTypes', toDaemon' \in Seq(ToDaemon)
  PROVE  GreeterTypeOK'
BY DEF GreeterTypeOK, ReaderTypes, RestTypes

LEMMA StopMoves ==
  ASSUME GreeterTypeOK, RunInv,
         ReaderBecomes(Reader!Stop(reader), runActive, fingerprintSession)
  PROVE  /\ ReaderTypes'
         /\ ~Reader!Busy(reader') /\ ~runActive'
         /\ toDaemon \o SentBy(Reader!Stop(reader), runActive, fingerprintSession) = Stopping
<1> DEFINE after == Reader!Stop(reader)
<1>0. ReaderTypes /\ toDaemon \in Seq(ToDaemon)
  BY TypeParts
<1>1. /\ after.session = IF Reader!Busy(reader) THEN [reader EXCEPT !.state = "idle"] ELSE reader
      /\ Calls(after, reader.state = "listening", FALSE, FALSE)
  BY <1>0, StopIs DEF ReaderTypes
<1>2. /\ reader' = after.session /\ fingerprintSession' = fingerprintSession
      /\ runActive' = (runActive /\ reader.state # "listening")
      /\ unusableQueued' = unusableQueued
  BY <1>0, <1>1 DEF ReaderBecomes, Calls, ReaderTypes
<1>3. ~Reader!Busy(reader') /\ reader' \in Reader!Session(Users \cup {None})
  BY <1>0, <1>1, <1>2 DEF ReaderTypes, Reader!Busy, Reader!Session, Reader!State
<1>4. toDaemon \o SentBy(after, runActive, fingerprintSession)
        = IF reader.state = "listening" /\ runActive THEN Append(toDaemon, Cancel) ELSE toDaemon
  <2>1. /\ "StopRun" \in after.calls <=> reader.state = "listening"
        /\ "Probe" \notin after.calls /\ "StartRun" \notin after.calls
    BY <1>1, Zenon DEF Calls
  <2>2. toDaemon \o SentBy(after, runActive, fingerprintSession) = Stopped(toDaemon, after, runActive)
    BY <1>0, <2>1, SentNoMore DEF ReaderTypes
  <2> QED
    BY <2>1, <2>2 DEF Stopped
<1> QED
  BY <1>0, <1>2, <1>3, <1>4 DEF ReaderTypes, RunInv, Stopping

LEMMA StartMoves ==
  ASSUME GreeterTypeOK, RunInv, NEW user \in Users, NEW session \in Sessions,
         StartFingerprint(user, session)
  PROVE  ReaderTypes' /\ (Keeps \/ Probes(user))
<1> DEFINE stopped == IF session = fingerprintSession
                        THEN Reader!Unchanged(reader) ELSE Reader!Stop(reader)
           started == Reader!Start(stopped.session, user)
           after == [started EXCEPT !.calls = @ \cup stopped.calls]
<1>0. ReaderTypes /\ toDaemon \in Seq(ToDaemon)
  BY TypeParts
<1>1. /\ ReaderBecomes(after, runActive, session)
      /\ toDaemon' = toDaemon \o SentBy(after, runActive, session)
  BY DEF StartFingerprint
<1>2. /\ stopped.session \in Reader!Session(Users \cup {None})
      /\ session = fingerprintSession => stopped.session = reader /\ stopped.calls = {}
      /\ session # fingerprintSession =>
           /\ ~Reader!Busy(stopped.session)
           /\ "StopRun" \in stopped.calls <=> reader.state = "listening"
           /\ "Probe" \notin stopped.calls /\ "StartRun" \notin stopped.calls
  <2>1. CASE session = fingerprintSession
    BY <1>0, <2>1 DEF Reader!Unchanged, Reader!After, ReaderTypes
  <2>2. CASE session # fingerprintSession
    <3>1. stopped = Reader!Stop(reader)
      BY <2>2
    <3>2. Calls(Reader!Stop(reader), reader.state = "listening", FALSE, FALSE)
      BY <1>0, StopIs DEF ReaderTypes
    <3>3. stopped.session = IF Reader!Busy(reader) THEN [reader EXCEPT !.state = "idle"] ELSE reader
      BY <1>0, <3>1, StopIs DEF ReaderTypes
    <3>4. stopped.session \in Reader!Session(Users \cup {None}) /\ ~Reader!Busy(stopped.session)
      BY <1>0, <3>3 DEF ReaderTypes, Reader!Busy, Reader!Session, Reader!State
    <3> QED
      BY <2>2, <3>1, <3>2, <3>4, Zenon DEF Calls
  <2> QED
    BY <2>1, <2>2
<1> HIDE DEF stopped
<1>3. started.session = after.session /\ after.calls = started.calls \cup stopped.calls
  BY DEF Reader!Start, Reader!After, Reader!Unchanged
<1>4. CASE Reader!Busy(stopped.session) /\ stopped.session.user = user
  <2>1. session = fingerprintSession /\ stopped.session = reader /\ stopped.calls = {}
    BY <1>2, <1>4
  <2>2. started.session = reader /\ Calls(started, FALSE, FALSE, FALSE)
    BY <1>2, <1>4, <2>1, StartIs
  <2> HIDE DEF started
  <2>3. /\ after.session = reader
        /\ "StopRun" \notin after.calls /\ "Probe" \notin after.calls /\ "StartRun" \notin after.calls
    BY <1>3, <2>1, <2>2 DEF Calls
  <2> HIDE DEF after
  <2>4. toDaemon' = toDaemon
    <3>1. toDaemon \o SentBy(after, runActive, session) = Stopped(toDaemon, after, runActive)
      BY <1>0, <2>3, SentNoMore DEF ReaderTypes
    <3> QED
      BY <1>1, <2>3, <3>1 DEF Stopped
  <2>5. UNCHANGED readerVars
    BY <1>0, <1>1, <2>1, <2>3 DEF ReaderBecomes, readerVars, ReaderTypes
  <2> QED
    BY <1>0, <2>4, <2>5 DEF Keeps, readerVars, ReaderTypes
<1>5. CASE ~(Reader!Busy(stopped.session) /\ stopped.session.user = user)
  <2>1. /\ started.session = [stopped.session EXCEPT !.state = "probing", !.user = user]
        /\ Calls(started, stopped.session.state = "listening", TRUE, FALSE)
    BY <1>2, <1>5, StartIs
  <2>2. /\ "StopRun" \in started.calls <=> stopped.session.state = "listening"
        /\ "Probe" \in started.calls /\ "StartRun" \notin started.calls
    BY <2>1, Zenon DEF Calls
  <2> HIDE DEF started
  <2>3. session # fingerprintSession => stopped.session.state # "listening"
    BY <1>2 DEF Reader!Busy
  <2>4. /\ "StopRun" \in after.calls <=> reader.state = "listening"
        /\ "Probe" \in after.calls /\ "StartRun" \notin after.calls
    BY <1>2, <1>3, <2>2, <2>3
  <2>5. /\ after.session \in Reader!Session(Users \cup {None})
        /\ after.session.state = "probing" /\ after.session.user = user
    <3> DEFINE s == stopped.session
    <3>1. after.session = [s EXCEPT !.state = "probing", !.user = user]
      BY <1>3, <2>1, Zenon
    <3>2. s \in Reader!Session(Users \cup {None})
      BY <1>2
    <3> HIDE DEF s, after
    <3> QED
      BY <3>1, <3>2 DEF Reader!Session, Reader!State
  <2> HIDE DEF after
  <2>6. toDaemon' = Append(Stopped(toDaemon, after, runActive), Probe(user))
    BY <1>0, <1>1, <2>4, <2>5, SentProbe DEF ReaderTypes
  <2>7. Stopped(toDaemon, after, runActive) = Stopping
    BY <2>4 DEF Stopped, Stopping, RunInv
  <2>8. /\ reader' = after.session /\ fingerprintSession' = session
        /\ runActive' = FALSE /\ unusableQueued' = unusableQueued
    BY <1>0, <1>1, <2>4 DEF ReaderBecomes, RunInv, ReaderTypes
  <2>9. ReaderTypes'
    BY <1>0, <2>5, <2>8 DEF ReaderTypes
  <2> QED
    BY <2>5, <2>6, <2>7, <2>8, <2>9 DEF Probes
<1> QED
  BY <1>4, <1>5

(* The run is over before the reader is told, and nothing is left to stop. *)
LEMMA SucceedMoves ==
  ASSUME GreeterTypeOK, RunInv, ReaderSucceeds, toDaemon' = toDaemon
  PROVE  ReaderTypes' /\ ((Keeps /\ ~runActive) \/ Leaves(toDaemon))
<1> DEFINE after == Reader!RunFinished(reader, TRUE, FALSE)
<1>0. ReaderTypes
  BY TypeParts
<1>1. ReaderBecomes(after, FALSE, fingerprintSession)
  BY DEF ReaderSucceeds
<1>2. CASE reader.state = "listening"
  <2>1. after.session = [reader EXCEPT !.state = "idle"] /\ Calls(after, TRUE, FALSE, FALSE)
    BY <1>0, <1>2, FinishedIs DEF ReaderTypes
  <2>2. "StartRun" \notin after.calls
    BY <2>1 DEF Calls
  <2> HIDE DEF after
  <2>3. /\ reader' = after.session /\ fingerprintSession' = fingerprintSession
        /\ runActive' = FALSE /\ unusableQueued' = unusableQueued
    BY <1>0, <1>1, <2>2 DEF ReaderBecomes, ReaderTypes
  <2>4. reader' \in Reader!Session(Users \cup {None}) /\ ~Reader!Busy(reader')
    BY <1>0, <2>1, <2>3 DEF ReaderTypes, Reader!Session, Reader!State, Reader!Busy
  <2> QED
    BY <1>0, <2>3, <2>4 DEF ReaderTypes, Leaves
<1>3. CASE reader.state # "listening"
  <2>1. after.session = reader /\ after.calls = {}
    BY <1>3 DEF Reader!RunFinished, Reader!Unchanged, Reader!After
  <2> HIDE DEF after
  <2>3. reader' = reader /\ fingerprintSession' = fingerprintSession
        /\ runActive' = FALSE /\ unusableQueued' = unusableQueued
    BY <1>0, <1>1, <2>1 DEF ReaderBecomes, ReaderTypes
  <2>4. runActive = FALSE
    BY <1>0, <1>3 DEF RunInv, ReaderTypes
  <2> QED
    BY <1>0, <2>3, <2>4 DEF ReaderTypes, Keeps
<1> QED
  BY <1>2, <1>3

LEMMA UnusableMoves ==
  ASSUME GreeterTypeOK, RunInv, RunUnusable
  PROVE  ReaderTypes' /\ (Keeps \/ Leaves(Stopping))
<1> DEFINE after == Reader!RunUnusable(reader)
<1>0. ReaderTypes /\ toDaemon \in Seq(ToDaemon)
  BY TypeParts
<1>1. /\ reader' = after.session /\ fingerprintSession' = fingerprintSession
      /\ runActive' = (runActive /\ "StopRun" \notin after.calls) /\ unusableQueued' = FALSE
      /\ toDaemon' = toDaemon \o SentBy(after, runActive, fingerprintSession)
  BY DEF RunUnusable
<1>2. CASE reader.state = "listening"
  <2>1. after = [session |-> [reader EXCEPT !.state = "unavailable"], calls |-> {"StopRun"}]
    BY <1>2 DEF Reader!RunUnusable, Reader!After
  <2>2. after.session = [reader EXCEPT !.state = "unavailable"] /\ after.calls = {"StopRun"}
    BY <2>1
  <2> HIDE DEF after
  <2>3. toDaemon' = Stopping
    <3>0. "Probe" \notin after.calls /\ "StartRun" \notin after.calls
      BY <2>2
    <3>1. toDaemon \o SentBy(after, runActive, fingerprintSession) = Stopped(toDaemon, after, runActive)
      BY <1>0, <3>0, SentNoMore DEF ReaderTypes
    <3> QED
      BY <1>1, <2>2, <3>1 DEF Stopped, Stopping
  <2>4. reader' \in Reader!Session(Users \cup {None}) /\ ~Reader!Busy(reader')
    BY <1>0, <1>1, <2>2 DEF ReaderTypes, Reader!Session, Reader!State, Reader!Busy
  <2>5. runActive' = FALSE
    BY <1>1, <2>2
  <2> QED
    BY <1>0, <1>1, <2>3, <2>4, <2>5 DEF ReaderTypes, Leaves
<1>3. CASE reader.state # "listening"
  <2>1. after.session = reader /\ after.calls = {}
    BY <1>3 DEF Reader!RunUnusable, Reader!Unchanged, Reader!After
  <2> HIDE DEF after
  <2>2. toDaemon' = toDaemon
    <3>0. "Probe" \notin after.calls /\ "StartRun" \notin after.calls
      BY <2>1
    <3>1. toDaemon \o SentBy(after, runActive, fingerprintSession) = Stopped(toDaemon, after, runActive)
      BY <1>0, <3>0, SentNoMore DEF ReaderTypes
    <3> QED
      BY <1>1, <2>1, <3>1 DEF Stopped
  <2>3. runActive' = runActive
    BY <1>0, <1>1, <2>1 DEF ReaderTypes
  <2> QED
    BY <1>0, <1>1, <1>3, <2>1, <2>2, <2>3 DEF ReaderTypes, Keeps
<1> QED
  BY <1>2, <1>3

LEMMA AnswerMoves ==
  ASSUME GreeterTypeOK, RunInv, ReadFingerprintAvailable
  PROVE  /\ ReaderTypes'
         /\ \/ Keeps
            \/ ~runActive /\ Leaves(toDaemon)
            \/ reader.state = "probing" /\ reader.user = Head(toGreeter).user /\ Begins
<1> DEFINE m == Head(toGreeter)
           after == Reader!ProbeFinished(reader, m.user, m.available)
<1>0. ReaderTypes /\ toDaemon \in Seq(ToDaemon)
  BY TypeParts
<1>1. /\ ReaderBecomes(after, runActive, fingerprintSession)
      /\ toDaemon' = toDaemon \o SentBy(after, runActive, fingerprintSession)
  BY DEF ReadFingerprintAvailable, ReaderHandles
<1>2. CASE reader.state # "probing" \/ reader.user # m.user
  <2>1. after.session = reader /\ after.calls = {}
    BY <1>2 DEF Reader!ProbeFinished, Reader!Unchanged, Reader!After
  <2> HIDE DEF after, m
  <2>2. toDaemon' = toDaemon
    <3>0. "Probe" \notin after.calls /\ "StartRun" \notin after.calls
      BY <2>1
    <3>1. toDaemon \o SentBy(after, runActive, fingerprintSession) = Stopped(toDaemon, after, runActive)
      BY <1>0, <3>0, SentNoMore DEF ReaderTypes
    <3> QED
      BY <1>1, <2>1, <3>1 DEF Stopped
  <2>3. UNCHANGED readerVars
    BY <1>0, <1>1, <2>1 DEF ReaderBecomes, ReaderTypes, readerVars
  <2> QED
    BY <1>0, <2>2, <2>3 DEF ReaderTypes, Keeps, readerVars
<1>3. CASE reader.state = "probing" /\ reader.user = m.user /\ m.available
  <2>1. /\ after.session = [reader EXCEPT !.state = "listening", !.rejected = FALSE]
        /\ after.calls = {"StartRun"}
    BY <1>3 DEF Reader!ProbeFinished, Reader!BeginRun, Reader!After
  <2> HIDE DEF after
  <2>2. /\ after.session \in Reader!Session(Users \cup {None})
        /\ after.session.user = reader.user /\ after.session.state = "listening"
    BY <1>0, <2>1 DEF ReaderTypes, Reader!Session, Reader!State
  <2>3. reader.user \in Users /\ runActive = FALSE
    BY <1>0, <1>3 DEF RunInv, Reader!Busy, ReaderTypes
  <2>4. toDaemon' = IF fingerprintSession \in KnownSessions
                      THEN Append(toDaemon, Run(reader.user, fingerprintSession)) ELSE toDaemon
    <3>1. /\ "Probe" \notin after.calls /\ "StartRun" \in after.calls
          /\ "StopRun" \notin after.calls
      BY <2>1
    <3>2. CASE fingerprintSession \in KnownSessions
      <4>1. after.session.user \in Users /\ runActive \in BOOLEAN
        BY <1>0, <2>2, <2>3 DEF ReaderTypes
      <4>2. toDaemon \o SentBy(after, runActive, fingerprintSession)
              = Append(Stopped(toDaemon, after, runActive),
                       Run(after.session.user, fingerprintSession))
        BY <1>0, <3>1, <3>2, <4>1, SentRun
      <4> QED
        BY <1>1, <2>2, <3>1, <3>2, <4>2 DEF Stopped
    <3>3. CASE fingerprintSession \notin KnownSessions
      <4>1. runActive \in BOOLEAN
        BY <1>0 DEF ReaderTypes
      <4>2. toDaemon \o SentBy(after, runActive, fingerprintSession) = Stopped(toDaemon, after, runActive)
        BY <1>0, <3>1, <3>3, <4>1, SentNoRun
      <4> QED
        BY <1>1, <2>2, <3>1, <3>3, <4>2 DEF Stopped
    <3> QED
      BY <3>2, <3>3
  <2>5. /\ reader' = after.session /\ fingerprintSession' = fingerprintSession
        /\ runActive' = (fingerprintSession \in KnownSessions)
        /\ unusableQueued' = (unusableQueued \/ fingerprintSession \notin KnownSessions)
    BY <1>1, <2>1 DEF ReaderBecomes
  <2>6. Begins
    BY <2>2, <2>4, <2>5 DEF Begins
  <2>7. ReaderTypes'
    BY <1>0, <2>2, <2>5 DEF ReaderTypes
  <2> QED
    BY <1>3, <2>6, <2>7
<1>4. CASE reader.state = "probing" /\ reader.user = m.user /\ ~m.available
  <2>1. after.session = [reader EXCEPT !.state = "unavailable"] /\ after.calls = {}
    BY <1>4 DEF Reader!ProbeFinished, Reader!After
  <2> HIDE DEF after
  <2>2. toDaemon' = toDaemon
    <3>0. "Probe" \notin after.calls /\ "StartRun" \notin after.calls
      BY <2>1
    <3>1. toDaemon \o SentBy(after, runActive, fingerprintSession) = Stopped(toDaemon, after, runActive)
      BY <1>0, <3>0, SentNoMore DEF ReaderTypes
    <3> QED
      BY <1>1, <2>1, <3>1 DEF Stopped
  <2>3. reader' \in Reader!Session(Users \cup {None}) /\ ~Reader!Busy(reader')
    BY <1>0, <1>1, <2>1 DEF ReaderBecomes, ReaderTypes, Reader!Session, Reader!State, Reader!Busy
  <2>4. runActive = FALSE
    BY <1>0, <1>4 DEF RunInv, ReaderTypes
  <2>5. runActive' = FALSE /\ UNCHANGED <<fingerprintSession, unusableQueued>>
    BY <1>0, <1>1, <2>1, <2>4 DEF ReaderBecomes, ReaderTypes
  <2> QED
    BY <1>0, <2>2, <2>3, <2>4, <2>5 DEF ReaderTypes, Leaves
<1> QED
  BY <1>2, <1>3, <1>4

LEMMA FinishMoves ==
  ASSUME GreeterTypeOK, RunInv, ReadFingerprintFinished
  PROVE  /\ ReaderTypes'
         /\ \/ Keeps /\ ~runActive
            \/ Leaves(toDaemon)
            \/ reader.state = "listening" /\ Begins
<1> DEFINE m == Head(toGreeter)
           after == Reader!RunFinished(reader, FALSE, m.quick)
<1>0. ReaderTypes /\ toDaemon \in Seq(ToDaemon)
  BY TypeParts
<1>1. /\ ReaderBecomes(after, FALSE, fingerprintSession)
      /\ toDaemon' = toDaemon \o SentBy(after, FALSE, fingerprintSession)
  BY DEF ReadFingerprintFinished, ReaderHandles
<1>f. FALSE \in BOOLEAN
  OBVIOUS
<1>2. CASE reader.state # "listening"
  <2>1. after.session = reader /\ after.calls = {}
    BY <1>2 DEF Reader!RunFinished, Reader!Unchanged, Reader!After
  <2> HIDE DEF after, m
  <2>2. toDaemon' = toDaemon
    <3>0. "Probe" \notin after.calls /\ "StartRun" \notin after.calls
      BY <2>1
    <3>1. toDaemon \o SentBy(after, FALSE, fingerprintSession) = Stopped(toDaemon, after, FALSE)
      BY <1>0, <1>f, <3>0, SentNoMore
    <3> QED
      BY <1>1, <3>1 DEF Stopped
  <2>3. runActive = FALSE
    BY <1>0, <1>2 DEF RunInv, ReaderTypes
  <2>4. UNCHANGED readerVars
    BY <1>0, <1>1, <2>1, <2>3 DEF ReaderBecomes, ReaderTypes, readerVars
  <2> QED
    BY <1>0, <2>2, <2>3, <2>4 DEF ReaderTypes, Keeps, readerVars
<1>3. CASE reader.state = "listening" /\ m.quick
  <2>1. /\ after.session \in {[reader EXCEPT !.state = "gaveUp"],
                              [reader EXCEPT !.state = "unavailable"]}
        /\ Calls(after, TRUE, FALSE, FALSE)
    BY <1>0, <1>3, FinishedIs DEF ReaderTypes
  <2> HIDE DEF after, m
  <2>2. toDaemon' = toDaemon
    <3>0. "Probe" \notin after.calls /\ "StartRun" \notin after.calls
      BY <2>1 DEF Calls
    <3>1. toDaemon \o SentBy(after, FALSE, fingerprintSession) = Stopped(toDaemon, after, FALSE)
      BY <1>0, <1>f, <3>0, SentNoMore
    <3> QED
      BY <1>1, <3>1 DEF Stopped
  <2>3. /\ reader' = after.session /\ UNCHANGED <<fingerprintSession, unusableQueued>>
        /\ runActive' = FALSE
    BY <1>0, <1>1, <2>1 DEF ReaderBecomes, Calls, ReaderTypes
  <2>4. reader' \in Reader!Session(Users \cup {None}) /\ ~Reader!Busy(reader')
    BY <1>0, <2>1, <2>3 DEF ReaderTypes, Reader!Session, Reader!State, Reader!Busy
  <2> QED
    BY <1>0, <2>2, <2>3, <2>4 DEF ReaderTypes, Leaves
<1>4. CASE reader.state = "listening" /\ ~m.quick
  <2>1. /\ after.session = [reader EXCEPT !.state = "listening", !.rejected = FALSE]
        /\ Calls(after, TRUE, FALSE, TRUE)
    BY <1>0, <1>4, FinishedIs DEF ReaderTypes
  <2> HIDE DEF after, m
  <2>c. "Probe" \notin after.calls /\ "StartRun" \in after.calls
    BY <2>1 DEF Calls
  <2>2. /\ after.session \in Reader!Session(Users \cup {None})
        /\ after.session.user = reader.user /\ after.session.state = "listening"
    BY <1>0, <2>1 DEF ReaderTypes, Reader!Session, Reader!State
  <2>3. reader.user \in Users
    BY <1>0, <1>4 DEF RunInv, Reader!Busy, ReaderTypes
  <2>4. toDaemon' = IF fingerprintSession \in KnownSessions
                      THEN Append(toDaemon, Run(reader.user, fingerprintSession)) ELSE toDaemon
    <3>2. CASE fingerprintSession \in KnownSessions
      <4>1. after.session.user \in Users
        BY <2>2, <2>3
      <4>2. toDaemon \o SentBy(after, FALSE, fingerprintSession)
              = Append(Stopped(toDaemon, after, FALSE),
                       Run(after.session.user, fingerprintSession))
        BY <1>0, <1>f, <2>c, <3>2, <4>1, SentRun
      <4> QED
        BY <1>1, <2>2, <3>2, <4>2 DEF Stopped
    <3>3. CASE fingerprintSession \notin KnownSessions
      <4>2. toDaemon \o SentBy(after, FALSE, fingerprintSession) = Stopped(toDaemon, after, FALSE)
        BY <1>0, <1>f, <2>c, <3>3, SentNoRun
      <4> QED
        BY <1>1, <2>2, <3>3, <4>2 DEF Stopped
    <3> QED
      BY <3>2, <3>3
  <2>5. /\ reader' = after.session /\ fingerprintSession' = fingerprintSession
        /\ runActive' = (fingerprintSession \in KnownSessions)
        /\ unusableQueued' = (unusableQueued \/ fingerprintSession \notin KnownSessions)
    BY <1>1, <2>c DEF ReaderBecomes
  <2>6. Begins
    BY <2>2, <2>4, <2>5 DEF Begins
  <2>7. ReaderTypes'
    BY <1>0, <2>2, <2>5 DEF ReaderTypes
  <2> QED
    BY <1>4, <2>6, <2>7
<1> QED
  BY <1>2, <1>3, <1>4

LEMMA RejectMoves ==
  ASSUME GreeterTypeOK, RunInv, ReadFingerprintRejected
  PROVE  ReaderTypes' /\ Keeps
<1> DEFINE after == Reader!RunRejected(reader)
<1>0. ReaderTypes /\ toDaemon \in Seq(ToDaemon)
  BY TypeParts
<1>1. /\ ReaderBecomes(after, runActive, fingerprintSession)
      /\ toDaemon' = toDaemon \o SentBy(after, runActive, fingerprintSession)
  BY DEF ReadFingerprintRejected, ReaderHandles
<1>2. /\ after.session \in {reader, [reader EXCEPT !.rejected = TRUE]}
      /\ after.calls = {}
  BY DEF Reader!RunRejected, Reader!Unchanged, Reader!After
<1> HIDE DEF after
<1>3. toDaemon' = toDaemon
  <2>0. "Probe" \notin after.calls /\ "StartRun" \notin after.calls
    BY <1>2
  <2>1. toDaemon \o SentBy(after, runActive, fingerprintSession) = Stopped(toDaemon, after, runActive)
    BY <1>0, <2>0, SentNoMore DEF ReaderTypes
  <2> QED
    BY <1>1, <1>2, <2>1 DEF Stopped
<1>4. /\ reader' = after.session
      /\ UNCHANGED <<fingerprintSession, runActive, unusableQueued>>
  BY <1>0, <1>1, <1>2 DEF ReaderBecomes, ReaderTypes
<1>5. /\ reader' \in Reader!Session(Users \cup {None})
      /\ reader'.state = reader.state /\ reader'.user = reader.user
  BY <1>0, <1>2, <1>4 DEF ReaderTypes, Reader!Session
<1> QED
  BY <1>0, <1>3, <1>4, <1>5 DEF Keeps, ReaderTypes

Moves ==
  \/ Keeps
  \/ Leaves(toDaemon)
  \/ Leaves(Stopping)
  \/ ~authenticating /\ \E u \in Users : Probes(u)
  \/ Reader!Busy(reader) /\ Begins

LEMMA MovesKeepRun ==
  ASSUME GreeterTypeOK, RunInv, ReaderTypes', Moves, authenticating' => authenticating
  PROVE  toDaemon' \in Seq(ToDaemon) /\ RunInv'
<1>0. ReaderTypes /\ toDaemon \in Seq(ToDaemon) /\ Stopping \in Seq(ToDaemon)
  BY TypeParts, SentTypes DEF Stopping
<1>1. CASE Keeps
  BY <1>0, <1>1 DEF Keeps, RunInv, Reader!Busy
<1>2. CASE Leaves(toDaemon) \/ Leaves(Stopping)
  BY <1>0, <1>2 DEF Leaves, RunInv, Reader!Busy
<1>3. ASSUME NEW u \in Users, Probes(u), ~authenticating PROVE toDaemon' \in Seq(ToDaemon) /\ RunInv'
  <2>1. ~authenticating'
    BY <1>3
  <2>2. toDaemon' \in Seq(ToDaemon)
    BY <1>0, <1>3, SentTypes DEF Probes
  <2> QED
    <3>1. reader'.state = "probing" /\ reader'.user = u /\ ~runActive' /\ u \in Users
      BY <1>3 DEF Probes
    <3>2. RunInv'
      BY <2>1, <3>1 DEF RunInv, Reader!Busy
    <3> QED
      BY <2>2, <3>2
<1>4. CASE Reader!Busy(reader) /\ Begins
  <2>1. reader.user \in Users /\ ~authenticating /\ ~authenticating'
    BY <1>4 DEF RunInv
  <2>2. toDaemon' \in Seq(ToDaemon)
    <3>1. CASE fingerprintSession \in KnownSessions
      <4>1. Run(reader.user, fingerprintSession) \in ToDaemon
        BY <2>1, <3>1, SentTypes
      <4> QED
        BY <1>0, <1>4, <3>1, <4>1 DEF Begins
    <3> QED
      BY <1>0, <1>4, <3>1 DEF Begins
  <2>3. RunInv'
    BY <1>4, <2>1 DEF Begins, RunInv, Reader!Busy
  <2> QED
    BY <2>2, <2>3
<1> QED
  BY <1>1, <1>2, <1>3, <1>4 DEF Moves

Login == [type |-> "Login"]

LEMMA GreeterKeepsOwn ==
  ASSUME GreeterTypeOK, RunInv, View \/ GreeterRuns
  PROVE  GreeterTypeOK' /\ RunInv'
<1>0. ReaderTypes /\ RestTypes /\ toDaemon \in Seq(ToDaemon) /\ Stopping \in Seq(ToDaemon)
  BY TypeParts, SentTypes DEF Stopping
<1>r. ASSUME toGreeter # <<>>, toGreeter' = Tail(toGreeter) PROVE toGreeter' \in Seq(ToGreeter)
  BY <1>0, <1>r DEF RestTypes
<1>1. ASSUME NEW u \in Users, NEW x \in Sessions, StartFingerprint(u, x)
      PROVE  GreeterTypeOK' /\ RunInv'
  <2>1. ReaderTypes' /\ (Keeps \/ Probes(u)) /\ ~authenticating
    BY <1>1, StartMoves DEF StartFingerprint
  <2>2. UNCHANGED <<authenticating, loginSucceeded, transitionPending, toGreeter, probes, listenedFor>>
    BY <1>1 DEF StartFingerprint
  <2>3. RestTypes'
    BY <1>0, <2>2 DEF RestTypes
  <2>4. Moves
    BY <2>1 DEF Moves
  <2> QED
    <3>1. authenticating' => authenticating
      BY <2>1, <2>2
    <3>2. toDaemon' \in Seq(ToDaemon) /\ RunInv'
      BY <2>1, <2>2, <2>4, <3>1, MovesKeepRun
    <3> QED
      BY <2>1, <2>2, <2>3, <3>2, TypesTogether
<1>2. CASE StopFingerprint
  <2>1. /\ UNCHANGED <<authenticating, loginSucceeded, transitionPending, toGreeter, probes, listenedFor>>
        /\ ReaderBecomes(Reader!Stop(reader), runActive, fingerprintSession)
        /\ toDaemon' = toDaemon \o SentBy(Reader!Stop(reader), runActive, fingerprintSession)
    BY <1>2 DEF StopFingerprint
  <2>2. ReaderTypes' /\ Leaves(Stopping)
    BY <2>1, StopMoves DEF Leaves
  <2>3. RestTypes'
    BY <1>0, <2>1 DEF RestTypes
  <2>4. Moves
    BY <2>2 DEF Moves
  <2> QED
    <3>1. authenticating' => authenticating
      BY <2>1, <2>2
    <3>2. toDaemon' \in Seq(ToDaemon) /\ RunInv'
      BY <2>1, <2>2, <2>4, <3>1, MovesKeepRun
    <3> QED
      BY <2>1, <2>2, <2>3, <3>2, TypesTogether
<1>3. CASE SendLogin
  <2>1. /\ UNCHANGED <<loginSucceeded, transitionPending, toGreeter, probes, listenedFor>>
        /\ authenticating' = TRUE
        /\ ReaderBecomes(Reader!Stop(reader), runActive, fingerprintSession)
        /\ toDaemon' = toDaemon \o SentBy(Reader!Stop(reader), runActive, fingerprintSession) \o <<Login>>
    BY <1>3 DEF SendLogin, Login
  <2>2. ReaderTypes' /\ ~Reader!Busy(reader') /\ ~runActive' /\ toDaemon' = Stopping \o <<Login>>
    BY <2>1, StopMoves
  <2>3. RestTypes'
    BY <1>0, <2>1 DEF RestTypes
  <2>4. toDaemon' \in Seq(ToDaemon)
    <3>1. Login \in ToDaemon
      BY DEF Login, ToDaemon
    <3> QED
      BY <1>0, <2>2, <3>1
  <2>5. RunInv'
    BY <2>2 DEF RunInv, Reader!Busy
  <2> QED
    BY <2>2, <2>3, <2>4, <2>5, TypesTogether
<1>4. CASE FinishTransition
  <2>1. /\ UNCHANGED <<readerVars, authenticating, loginSucceeded, toGreeter, probes, listenedFor>>
        /\ transitionPending' = FALSE
        /\ toDaemon' = Append(toDaemon, [type |-> "TransitionReady"])
    BY <1>4 DEF FinishTransition
  <2>2. toDaemon' \in Seq(ToDaemon)
    <3>1. [type |-> "TransitionReady"] \in ToDaemon
      BY DEF ToDaemon
    <3> QED
      BY <1>0, <2>1, <3>1
  <2>3. ReaderTypes' /\ RestTypes' /\ RunInv'
    BY <1>0, <2>1 DEF readerVars, RestTypes, ReaderTypes, RunInv, Reader!Busy
  <2> QED
    BY <2>2, <2>3, TypesTogether
<1>5. CASE RunUnusable
  <2>1. UNCHANGED <<authenticating, loginSucceeded, transitionPending, toGreeter, probes, listenedFor>>
    BY <1>5 DEF RunUnusable
  <2>2. ReaderTypes' /\ Moves
    BY <1>5, UnusableMoves DEF Moves
  <2>3. RestTypes'
    BY <1>0, <2>1 DEF RestTypes
  <2> QED
    <3>1. authenticating' => authenticating
      BY <2>1
    <3>2. toDaemon' \in Seq(ToDaemon) /\ RunInv'
      BY <2>2, <3>1, MovesKeepRun
    <3> QED
      BY <2>2, <2>3, <3>2, TypesTogether
<1>6. CASE PrepareTransition
  <2>1. /\ UNCHANGED <<authenticating, loginSucceeded, toDaemon, probes, listenedFor>>
        /\ toGreeter # <<>> /\ toGreeter' = Tail(toGreeter)
        /\ transitionPending' \in {TRUE, transitionPending}
        /\ UNCHANGED readerVars \/ ReaderSucceeds
    BY <1>6 DEF PrepareTransition, GreeterReads
  <2>2. ReaderTypes' /\ Moves
    <3>1. CASE UNCHANGED readerVars
      BY <1>0, <2>1, <3>1 DEF readerVars, ReaderTypes, Moves, Keeps
    <3>2. CASE ReaderSucceeds
      BY <2>1, <3>2, SucceedMoves DEF Moves
    <3> QED
      BY <2>1, <3>1, <3>2
  <2>3. RestTypes'
    BY <1>0, <1>r, <2>1 DEF RestTypes
  <2> QED
    <3>1. authenticating' => authenticating
      BY <2>1
    <3>2. toDaemon' \in Seq(ToDaemon) /\ RunInv'
      BY <2>2, <3>1, MovesKeepRun
    <3> QED
      BY <2>2, <2>3, <3>2, TypesTogether
<1>7. CASE ReadLoginFailed
  <2>1. /\ UNCHANGED <<readerVars, loginSucceeded, toDaemon, probes, listenedFor>>
        /\ toGreeter # <<>> /\ toGreeter' = Tail(toGreeter)
        /\ authenticating' = FALSE /\ transitionPending' = FALSE
    BY <1>7 DEF ReadLoginFailed, GreeterReads
  <2>2. ReaderTypes' /\ Moves
    BY <1>0, <2>1 DEF readerVars, ReaderTypes, Moves, Keeps
  <2>3. RestTypes'
    BY <1>0, <1>r, <2>1 DEF RestTypes
  <2> QED
    <3>1. authenticating' => authenticating
      BY <2>1
    <3>2. toDaemon' \in Seq(ToDaemon) /\ RunInv'
      BY <2>2, <3>1, MovesKeepRun
    <3> QED
      BY <2>2, <2>3, <3>2, TypesTogether
<1>8. CASE ReadLoginSucceeded
  <2>1. /\ UNCHANGED <<toDaemon, probes, listenedFor>>
        /\ toGreeter # <<>> /\ toGreeter' = Tail(toGreeter)
        /\ authenticating' = FALSE /\ transitionPending' = FALSE /\ loginSucceeded' = TRUE
        /\ ReaderSucceeds
    BY <1>8 DEF ReadLoginSucceeded, GreeterReads
  <2>2. ReaderTypes' /\ Moves
    BY <2>1, SucceedMoves DEF Moves
  <2>3. RestTypes'
    BY <1>0, <1>r, <2>1 DEF RestTypes
  <2> QED
    <3>1. authenticating' => authenticating
      BY <2>1
    <3>2. toDaemon' \in Seq(ToDaemon) /\ RunInv'
      BY <2>2, <3>1, MovesKeepRun
    <3> QED
      BY <2>2, <2>3, <3>2, TypesTogether
<1>9. CASE ReadFingerprintAvailable \/ ReadFingerprintRejected \/ ReadFingerprintFinished
  <2>1. /\ UNCHANGED <<authenticating, loginSucceeded, transitionPending, probes, listenedFor>>
        /\ toGreeter # <<>> /\ toGreeter' = Tail(toGreeter)
    BY <1>9 DEF ReadFingerprintAvailable, ReadFingerprintRejected, ReadFingerprintFinished,
       ReaderHandles, GreeterReads
  <2>2. ReaderTypes' /\ Moves
    BY <1>9, AnswerMoves, RejectMoves, FinishMoves DEF Moves, Reader!Busy
  <2>3. RestTypes'
    BY <1>0, <1>r, <2>1 DEF RestTypes
  <2> QED
    <3>1. authenticating' => authenticating
      BY <2>1
    <3>2. toDaemon' \in Seq(ToDaemon) /\ RunInv'
      BY <2>2, <3>1, MovesKeepRun
    <3> QED
      BY <2>2, <2>3, <3>2, TypesTogether
<1> QED
  BY <1>1, <1>2, <1>3, <1>4, <1>5, <1>6, <1>7, <1>8, <1>9 DEF View, GreeterRuns

LEMMA RemovedOne ==
  ASSUME NEW E, NEW s \in Seq(E), NEW i \in DOMAIN s
  PROVE  /\ RemoveAt(s, i) \in Seq(E)
         /\ \A j \in DOMAIN RemoveAt(s, i) : \E k \in DOMAIN s : RemoveAt(s, i)[j] = s[k]
<1> DEFINE a == SubSeq(s, 1, i - 1)
           b == SubSeq(s, i + 1, Len(s))
<1>1. /\ a \in Seq(E) /\ Len(a) = i - 1
      /\ \A j \in 1..i - 1 : a[j] = s[j]
  OBVIOUS
<1>2. /\ b \in Seq(E) /\ Len(b) = Len(s) - i
      /\ \A j \in 1..Len(s) - i : b[j] = s[j + i]
  OBVIOUS
<1>3. RemoveAt(s, i) = a \o b
  BY DEF RemoveAt
<1> HIDE DEF a, b
<1>4. a \o b \in Seq(E) /\ DOMAIN (a \o b) = 1..Len(s) - 1
  BY <1>1, <1>2
<1>5. ASSUME NEW j \in 1..Len(s) - 1 PROVE \E k \in DOMAIN s : (a \o b)[j] = s[k]
  <2>1. CASE j < i
    BY <1>1, <1>2, <2>1
  <2>2. CASE ~(j < i)
    <3>1. j - (i - 1) \in 1..Len(s) - i /\ (j - (i - 1)) + i = j + 1 /\ j + 1 \in DOMAIN s
      BY <2>2
    <3>2. (a \o b)[j] = b[j - (i - 1)]
      BY <1>1, <1>2, <2>2
    <3> QED
      BY <1>2, <3>1, <3>2
  <2> QED
    BY <2>1, <2>2
<1> QED
  BY <1>3, <1>4, <1>5

(* What the daemon answers, by what became of a request.                   *)
Prepare == [type |-> "PrepareTransition"]
Failure == [type |-> "LoginFailed"]
Success == [type |-> "LoginSucceeded"]
Finish(quick) == [type |-> "FingerprintFinished", quick |-> quick]

LEMMA HeardTypes ==
  /\ Prepare \in ToGreeter /\ Failure \in ToGreeter /\ Success \in ToGreeter
  /\ \A quick \in BOOLEAN : Finish(quick) \in ToGreeter
BY DEF Prepare, Failure, Success, Finish, ToGreeter

LEMMA AnswersTypes ==
  ASSUME NEW quick \in BOOLEAN
  PROVE  Answers(quick) \in Seq(ToGreeter)
<1> DEFINE results == {outcome'[r] : r \in {r \in RequestId : outcome'[r] # outcome[r]}}
           a == IF transitionTimer' /\ ~transitionTimer THEN <<Prepare>> ELSE <<>>
           b == IF "failed" \in results THEN <<Failure>> ELSE <<>>
           c == IF "succeeded" \in results THEN <<Success>> ELSE <<>>
           d == IF "finished" \in results THEN <<Finish(quick)>> ELSE <<>>
<1>1. Answers(quick) = a \o b \o c \o d
  BY DEF Answers, Prepare, Failure, Success, Finish
<1>2. a \in Seq(ToGreeter) /\ b \in Seq(ToGreeter) /\ c \in Seq(ToGreeter) /\ d \in Seq(ToGreeter)
  <2> HIDE DEF results
  <2> QED
    BY HeardTypes
<1> HIDE DEF a, b, c, d
<1> QED
  BY <1>1, <1>2

LEMMA GoneTypes ==
  ASSUME GreeterGone
  PROVE  GreeterTypeOK' /\ RunInv'
<1>1. Reader!Idle(None) \in Reader!Session(Users \cup {None}) /\ ~Reader!Busy(Reader!Idle(None))
  BY DEF Reader!Idle, Reader!Session, Reader!State, Reader!Busy
<1>2. ReaderTypes' /\ RunInv'
  BY <1>1 DEF GreeterGone, ReaderTypes, RunInv, Reader!Busy
<1>3. <<>> \in Seq(ToDaemon) /\ <<>> \in Seq(ToGreeter) /\ <<>> \in Seq(Users)
  OBVIOUS
<1>4. RestTypes' /\ toDaemon' \in Seq(ToDaemon)
  BY <1>3 DEF GreeterGone, RestTypes
<1> QED
  BY <1>2, <1>4, TypesTogether

LEMMA HearsTypes ==
  ASSUME GreeterTypeOK, RunInv, NEW unread \in Seq(ToDaemon), NEW quick \in BOOLEAN,
         NEW listened \in [user : Users, session : KnownSessions] \cup {None},
         GreeterHears(unread, listened, quick)
  PROVE  GreeterTypeOK' /\ RunInv'
<1>0. ReaderTypes /\ RestTypes
  BY TypeParts
<1>1. CASE greeter' = "running"
  <2>1. /\ toDaemon' = unread /\ toGreeter' = toGreeter \o Answers(quick) /\ listenedFor' = listened
        /\ UNCHANGED <<readerVars, authenticating, loginSucceeded, transitionPending, probes>>
    BY <1>1 DEF GreeterHears, backendVars
  <2>2. toGreeter' \in Seq(ToGreeter)
    <3> DEFINE s == Answers(quick)
    <3>1. s \in Seq(ToGreeter)
      BY AnswersTypes
    <3> HIDE DEF s
    <3> QED
      BY <1>0, <2>1, <3>1 DEF RestTypes, s
  <2>3. ReaderTypes' /\ RunInv'
    BY <1>0, <2>1 DEF readerVars, ReaderTypes, RunInv, Reader!Busy
  <2>4. RestTypes'
    BY <1>0, <2>1, <2>2 DEF RestTypes
  <2> QED
    BY <2>1, <2>3, <2>4, TypesTogether
<1>2. CASE greeter' # "running"
  BY <1>2, GoneTypes DEF GreeterHears
<1> QED
  BY <1>1, <1>2

LEMMA HeadTypes ==
  ASSUME GreeterTypeOK, toDaemon # <<>>
  PROVE  /\ Head(toDaemon) \in ToDaemon /\ Tail(toDaemon) \in Seq(ToDaemon)
         /\ Head(toDaemon).type = "FingerprintProbe" => Head(toDaemon).user \in Users
         /\ Head(toDaemon).type = "FingerprintLogin" =>
              [user |-> Head(toDaemon).user, session |-> Head(toDaemon).session]
                \in [user : Users, session : KnownSessions]
<1>1. Head(toDaemon) \in ToDaemon /\ Tail(toDaemon) \in Seq(ToDaemon)
  BY TypeParts
<1>2. ASSUME NEW m \in ToDaemon
      PROVE  /\ m.type = "FingerprintProbe" => m.user \in Users
             /\ m.type = "FingerprintLogin" =>
                  [user |-> m.user, session |-> m.session] \in [user : Users, session : KnownSessions]
  BY DEF ToDaemon
<1> QED
  BY <1>1, <1>2

LEMMA DaemonKeepsOwn ==
  ASSUME GreeterTypeOK, RunInv,
         \/ GreeterConnects \/ DaemonReadsMessage \/ ProbeAnswered \/ ScanRejected
         \/ DisplayStep(Logind) \/ DisplayStep(Timers) \/ DisplayStep(DeliverFromHelper)
         \/ HelperStep(Helper) \/ UNCHANGED allVars
  PROVE  GreeterTypeOK' /\ RunInv'
<1>0. ReaderTypes /\ RestTypes /\ toDaemon \in Seq(ToDaemon)
  BY TypeParts
<1>l. listenedFor \in [user : Users, session : KnownSessions] \cup {None}
  BY <1>0 DEF RestTypes
<1>t. TRUE \in BOOLEAN
  OBVIOUS
<1>1. CASE GreeterConnects
  <2>1. /\ toDaemon' = <<[type |-> "EnableTransitions"]>>
        /\ UNCHANGED <<readerVars, authenticating, loginSucceeded, transitionPending, toGreeter,
                       probes, listenedFor>>
    BY <1>1 DEF GreeterConnects, backendVars
  <2>2. toDaemon' \in Seq(ToDaemon)
    <3>1. [type |-> "EnableTransitions"] \in ToDaemon
      BY DEF ToDaemon
    <3> QED
      BY <2>1, <3>1
  <2>3. ReaderTypes' /\ RestTypes' /\ RunInv'
    BY <1>0, <2>1 DEF readerVars, ReaderTypes, RestTypes, RunInv, Reader!Busy
  <2> QED
    BY <2>2, <2>3, TypesTogether
<1>2. CASE ReadFingerprintProbe
  <2>1. /\ toDaemon # <<>> /\ Head(toDaemon).type = "FingerprintProbe"
        /\ toDaemon' = Tail(toDaemon) /\ probes' = Append(probes, Head(toDaemon).user)
        /\ UNCHANGED <<readerVars, authenticating, loginSucceeded, transitionPending, toGreeter,
                       listenedFor>>
    BY <1>2 DEF ReadFingerprintProbe, DaemonReads, backendVars
  <2>2. toDaemon' \in Seq(ToDaemon) /\ Head(toDaemon).user \in Users
    BY <2>1, HeadTypes
  <2>p. probes' \in Seq(Users)
    BY <1>0, <2>1, <2>2 DEF RestTypes
  <2>3. ReaderTypes' /\ RestTypes' /\ RunInv'
    BY <1>0, <2>1, <2>p DEF readerVars, ReaderTypes, RestTypes, RunInv, Reader!Busy
  <2> QED
    BY <2>2, <2>3, TypesTogether
<1>3. CASE ReadEnableTransitions \/ ReadLogin \/ ReadFingerprintCancel \/ ReadTransitionReady
  <2>1. toDaemon # <<>> /\ GreeterHears(Tail(toDaemon), listenedFor, TRUE)
    BY <1>3 DEF ReadEnableTransitions, ReadLogin, ReadFingerprintCancel, ReadTransitionReady, DaemonReads
  <2>2. Tail(toDaemon) \in Seq(ToDaemon)
    BY <2>1, HeadTypes
  <2> QED
    BY <1>l, <1>t, <2>1, <2>2, HearsTypes
<1>4. CASE ReadFingerprintLogin
  <2> DEFINE listened == [user |-> Head(toDaemon).user, session |-> Head(toDaemon).session]
  <2>1. /\ toDaemon # <<>> /\ Head(toDaemon).type = "FingerprintLogin"
        /\ \/ GreeterHears(Tail(toDaemon), listened, TRUE)
           \/ GreeterHears(Tail(toDaemon), listenedFor, TRUE)
    BY <1>4 DEF ReadFingerprintLogin, DaemonReads
  <2>2. /\ Tail(toDaemon) \in Seq(ToDaemon)
        /\ listened \in [user : Users, session : KnownSessions] \cup {None}
    BY <2>1, HeadTypes
  <2> HIDE DEF listened
  <2> QED
    BY <1>l, <1>t, <2>1, <2>2, HearsTypes
<1>5. CASE ProbeAnswered
  <2>1. /\ UNCHANGED <<readerVars, authenticating, loginSucceeded, transitionPending, toDaemon,
                       listenedFor>>
        /\ \E i \in DOMAIN probes, available \in BOOLEAN :
             /\ toGreeter' = Append(toGreeter, [type |-> "FingerprintAvailable",
                                                user |-> probes[i], available |-> available])
             /\ probes' = RemoveAt(probes, i)
    BY <1>5 DEF ProbeAnswered, backendVars
  <2>2. PICK i \in DOMAIN probes, available \in BOOLEAN :
             /\ toGreeter' = Append(toGreeter, [type |-> "FingerprintAvailable",
                                                user |-> probes[i], available |-> available])
             /\ probes' = RemoveAt(probes, i)
    BY <2>1
  <2>3. probes \in Seq(Users) /\ probes[i] \in Users
    BY <1>0 DEF RestTypes
  <2>4. probes' \in Seq(Users)
    BY <2>2, <2>3, RemovedOne
  <2>5. toGreeter' \in Seq(ToGreeter)
    <3>1. [type |-> "FingerprintAvailable", user |-> probes[i], available |-> available] \in ToGreeter
      BY <2>3 DEF ToGreeter
    <3> QED
      BY <1>0, <2>2, <3>1 DEF RestTypes
  <2>6. ReaderTypes' /\ RestTypes' /\ RunInv'
    BY <1>0, <2>1, <2>4, <2>5 DEF readerVars, ReaderTypes, RestTypes, RunInv, Reader!Busy
  <2> QED
    BY <1>0, <2>1, <2>6, TypesTogether
<1>6. CASE ScanRejected
  <2>1. /\ UNCHANGED <<readerVars, authenticating, loginSucceeded, transitionPending, toDaemon,
                       probes, listenedFor>>
        /\ toGreeter' = <<[type |-> "FingerprintRejected"]>>
    BY <1>6 DEF ScanRejected, backendVars
  <2>2. toGreeter' \in Seq(ToGreeter)
    <3>1. [type |-> "FingerprintRejected"] \in ToGreeter
      BY DEF ToGreeter
    <3> QED
      BY <2>1, <3>1
  <2>3. ReaderTypes' /\ RestTypes' /\ RunInv'
    BY <1>0, <2>1, <2>2 DEF readerVars, ReaderTypes, RestTypes, RunInv, Reader!Busy
  <2> QED
    BY <1>0, <2>1, <2>3, TypesTogether
<1>7. CASE DisplayStep(Logind) \/ DisplayStep(Timers) \/ DisplayStep(DeliverFromHelper)
  <2>1. PICK quick \in BOOLEAN : GreeterHears(toDaemon, listenedFor, quick)
    BY <1>7 DEF DisplayStep
  <2> QED
    BY <1>0, <1>l, <2>1, HearsTypes
<1>8. CASE HelperStep(Helper) \/ UNCHANGED allVars
  <2>1. UNCHANGED <<readerVars, authenticating, loginSucceeded, transitionPending, toDaemon,
                    toGreeter, probes, listenedFor>>
    BY <1>8 DEF HelperStep, allVars, greeterVars, backendVars
  <2>2. ReaderTypes' /\ RestTypes' /\ RunInv'
    BY <1>0, <2>1 DEF readerVars, ReaderTypes, RestTypes, RunInv, Reader!Busy
  <2> QED
    BY <1>0, <2>1, <2>2, TypesTogether
<1> QED
  BY <1>1, <1>2, <1>3, <1>4, <1>5, <1>6, <1>7, <1>8 DEF DaemonReadsMessage

LEMMA OwnHolds == GreeterSpec => [](GreeterTypeOK /\ RunInv)
<1>1. GreeterInit => GreeterTypeOK /\ RunInv
  <2> SUFFICES ASSUME GreeterInit PROVE GreeterTypeOK /\ RunInv
    OBVIOUS
  <2>1. Reader!Idle(None) \in Reader!Session(Users \cup {None}) /\ ~Reader!Busy(Reader!Idle(None))
    BY DEF Reader!Idle, Reader!Session, Reader!State, Reader!Busy
  <2>2. ReaderTypes /\ RunInv
    BY <2>1 DEF GreeterInit, ReaderTypes, RunInv, Reader!Busy
  <2>3. <<>> \in Seq(ToDaemon) /\ <<>> \in Seq(ToGreeter) /\ <<>> \in Seq(Users)
    OBVIOUS
  <2>4. RestTypes /\ toDaemon \in Seq(ToDaemon)
    BY <2>3 DEF GreeterInit, RestTypes
  <2> QED
    BY <2>2, <2>4, TypeParts
<1>2. GreeterTypeOK /\ RunInv /\ [GreeterNext]_allVars => (GreeterTypeOK /\ RunInv)'
  BY GreeterKeepsOwn, DaemonKeepsOwn DEF GreeterNext
<1> QED
  BY <1>1, <1>2, PTL DEF GreeterSpec

(* Every variable of the greeter, its backend and the socket stays in its   *)
(* type: no message carries a user that is not listed or a session that     *)
(* the greeter cannot name.                                                 *)
THEOREM GreeterTypesCorrect == GreeterSpec => []GreeterTypeOK
BY OwnHolds, PTL

-----------------------------------------------------------------------------
(* A Display whose greeter is up: what it knows of the login it serves.    *)

Listens == request # None /\ Listening
Password == request # None /\ ~fingerprintLogin

(* PAM accepted the user, and the login has still to end: by its helper,   *)
(* or by the activation that the helper's exit waits for.                  *)
Won ==
  /\ authenticated /\ accepted
  /\ \/ IsActive /\ ~(helper = "exited" /\ exitStatus = "authError")
     \/ reuseActivationPending /\ reuseHelperFinished /\ request # None

(* Something is under way that was begun for a request.                    *)
Engaged ==
  \/ helper \in Asking \/ Unread = "AUTHENTICATED"
  \/ transitionTimer \/ reuseActivationPending \/ reuseLookupPending

(* No session runs yet; a login PAM accepted is won; a lookup comes before *)
(* PAM's verdict and an activation after it; and all of these, as well as  *)
(* a helper that asks PAM, are for a request of the greeter.               *)
AtGreeter ==
  /\ helper # "session" /\ ~(helper = "opened" /\ Owed # "nothing")
  /\ request # None /\ authenticated => Won
  /\ reuseLookupPending => ~authenticated
  /\ reuseActivationPending => authenticated
  /\ Engaged => request # None

loginState ==
  <<authVars, request, authenticated, transitionTimer, reuseLookupPending,
    reuseActivationPending, reuseHelperFinished>>

LEMMA AtGreeterKept ==
  ASSUME AtGreeter, UNCHANGED loginState
  PROVE  AtGreeter'
BY DEF AtGreeter, Engaged, loginState, authVars, Won, IsActive, Unread, Owed, NextMessage

(* A login that has ended, without a helper that still asks.               *)
LEMMA AtGreeterOver ==
  ASSUME helper' \notin Asking \cup {"session", "opened"}, request' = None,
         Unread' # "AUTHENTICATED",
         transitionTimer' = FALSE, reuseActivationPending' = FALSE, reuseLookupPending' = FALSE
  PROVE  AtGreeter'
BY DEF AtGreeter, Engaged

(* One that begins.                                                        *)
LEMMA AtGreeterAnew ==
  ASSUME helper' \notin {"session", "opened"}, request' # None,
         authenticated' = FALSE, reuseActivationPending' = FALSE
  PROVE  AtGreeter'
BY DEF AtGreeter, Engaged

LEMMA HelperKeepsGreeter ==
  ASSUME AuthTypeOK, AuthInv, DialogueInv, AtGreeter, Helper
  PROVE  AtGreeter' /\ (Won => Won')
<1>q. /\ Short /\ Exchange /\ Known /\ Deferred /\ HelperNext
      /\ UNCHANGED <<request, authenticated, transitionTimer, reuseLookupPending,
                     reuseActivationPending, reuseHelperFinished>>
      /\ helper \in HelperState
  BY Queues DEF AuthInv, Helper, loginVars, lookupVars, reuseVars, restVars
<1>a. helper' \in Asking => helper \in Asking
  BY <1>q DEF HelperNext, HelperProgress, HelperConnects, HelperReads, OpensSession, HelperAsks,
     PamAccepts, PamRejects, SessionEnds, HelperCrashes, HelperFailsToStart, Exits, Asking
<1>u. Unread' = "AUTHENTICATED" => Unread = "AUTHENTICATED" \/ helper \in Asking
  <2>1. CASE HelperConnects
    BY <2>1, Cleared DEF HelperConnects
  <2>2. CASE HelperAsks \/ PamRejects \/ PamAccepts
    BY <2>2 DEF HelperAsks, PamRejects, PamAccepts, Asking
  <2>3. CASE OpensSession
    <3>1. PICK type \in {"OPENED", "NOT_OPENED"} : Send(type)
      BY <2>3 DEF OpensSession
    <3>2. inbox = <<>>
      BY <2>3, <1>q, Queues DEF OpensSession, Exchange, Silent
    <3> QED
      BY <3>1, <3>2, Sends
  <2>4. CASE HelperReads \/ SessionEnds \/ HelperFailsToStart \/ HelperCrashes
    BY <2>4, Cleared DEF HelperReads, SessionEnds, HelperFailsToStart, HelperCrashes
  <2> QED
    BY <1>q, <2>1, <2>2, <2>3, <2>4 DEF HelperNext, HelperProgress
<1>1. helper' # "session"
  <2>1. helper = "opened" => outbox = <<>>
    BY Queues DEF AtGreeter
  <2> QED
    BY <1>q, <2>1 DEF HelperNext, HelperProgress, HelperConnects, HelperReads, OpensSession, HelperAsks,
     PamAccepts, PamRejects, SessionEnds, HelperCrashes, HelperFailsToStart, Exits, AtGreeter
<1>2. helper' = "opened" => Owed' = "nothing"
  <2> SUFFICES ASSUME helper' = "opened" PROVE Owed' = "nothing"
    OBVIOUS
  <2>1. OpensSession
    BY <1>q DEF HelperNext, HelperProgress, HelperConnects, HelperReads, OpensSession, HelperAsks,
     PamAccepts, PamRejects, SessionEnds, HelperCrashes, HelperFailsToStart, Exits
  <2> QED
    BY <1>q, <2>1, Cleared DEF OpensSession, Exchange, Silent
<1>3. ASSUME Won PROVE Won'
  <2>1. accepted /\ helper \notin Asking
    BY <1>3, <1>q DEF Won, Known
  <2>2. accepted' = accepted
    BY <2>1, <1>q DEF HelperNext, HelperProgress, HelperConnects, HelperReads, OpensSession, HelperAsks,
     PamAccepts, PamRejects, SessionEnds, HelperCrashes, HelperFailsToStart, Exits, Asking
  <2>3. CASE helper = "none"
    BY <1>q, <2>3, NoHelperNoStep
  <2>4. CASE helper # "none"
    <3>1. helper' # "none" /\ ~(helper' = "exited" /\ exitStatus' = "authError")
      BY <1>q, <1>3, <2>1, <2>4 DEF HelperNext, HelperProgress, HelperConnects, HelperReads, OpensSession, HelperAsks,
       PamAccepts, PamRejects, SessionEnds, HelperCrashes, HelperFailsToStart, Exits, Asking,
       AtGreeter, Won
    <3> QED
      BY <1>q, <1>3, <2>2, <3>1 DEF Won, IsActive
  <2> QED
    BY <2>3, <2>4
<1>4. request' # None /\ authenticated' => Won'
  BY <1>q, <1>3 DEF AtGreeter
<1>5. Engaged' => request' # None
  BY <1>q, <1>a, <1>u DEF AtGreeter, Engaged
<1>6. (reuseLookupPending' => ~authenticated') /\ (reuseActivationPending' => authenticated')
  BY <1>q DEF AtGreeter
<1> QED
  BY <1>1, <1>2, <1>3, <1>4, <1>5, <1>6 DEF AtGreeter

-----------------------------------------------------------------------------
(* What the daemon tells the greeter, by what becomes of its requests.     *)

Becomes(how) == \E r \in RequestId : outcome'[r] # outcome[r] /\ outcome'[r] = how

Accepts == transitionTimer' /\ ~transitionTimer

LEMMA AnswersAre ==
  ASSUME NEW quick \in BOOLEAN
  PROVE  /\ ~Accepts /\ ~Becomes("failed") /\ ~Becomes("succeeded") /\ ~Becomes("finished")
              => Answers(quick) = <<>>
         /\ Accepts /\ ~Becomes("failed") /\ ~Becomes("succeeded") /\ ~Becomes("finished")
              => Answers(quick) = <<Prepare>>
         /\ ~Accepts /\ Becomes("failed") /\ ~Becomes("succeeded") /\ ~Becomes("finished")
              => Answers(quick) = <<Failure>>
         /\ ~Accepts /\ ~Becomes("failed") /\ Becomes("succeeded") /\ ~Becomes("finished")
              => Answers(quick) = <<Success>>
         /\ ~Accepts /\ ~Becomes("failed") /\ ~Becomes("succeeded") /\ Becomes("finished")
              => Answers(quick) = <<Finish(quick)>>
<1> DEFINE results == {outcome'[r] : r \in {r \in RequestId : outcome'[r] # outcome[r]}}
           a == IF Accepts THEN <<Prepare>> ELSE <<>>
           b == IF Becomes("failed") THEN <<Failure>> ELSE <<>>
           c == IF Becomes("succeeded") THEN <<Success>> ELSE <<>>
           d == IF Becomes("finished") THEN <<Finish(quick)>> ELSE <<>>
<1>1. \A how : how \in results <=> Becomes(how)
  BY DEF Becomes
<1>2. Answers(quick) = a \o b \o c \o d
  <2>1. Answers(quick) =
           (IF Accepts THEN <<Prepare>> ELSE <<>>)
        \o (IF "failed" \in results THEN <<Failure>> ELSE <<>>)
        \o (IF "succeeded" \in results THEN <<Success>> ELSE <<>>)
        \o (IF "finished" \in results THEN <<Finish(quick)>> ELSE <<>>)
    BY DEF Answers, Accepts, Prepare, Failure, Success, Finish
  <2> HIDE DEF results
  <2> QED
    BY <1>1, <2>1, Zenon
<1>3. /\ <<>> \in Seq(ToGreeter) /\ <<Prepare>> \in Seq(ToGreeter) /\ <<Failure>> \in Seq(ToGreeter)
      /\ <<Success>> \in Seq(ToGreeter) /\ <<Finish(quick)>> \in Seq(ToGreeter)
  BY HeardTypes
<1>4. \A s \in Seq(ToGreeter) :
        /\ ((s \o <<>>) \o <<>>) \o <<>> = s /\ ((<<>> \o s) \o <<>>) \o <<>> = s
        /\ ((<<>> \o <<>>) \o s) \o <<>> = s /\ ((<<>> \o <<>>) \o <<>>) \o s = s
  OBVIOUS
<1> HIDE DEF results
<1> QED
  BY <1>2, <1>3, <1>4, Zenon

LEMMA NoneBecomes ==
  ASSUME UNCHANGED outcome, NEW how
  PROVE  ~Becomes(how)
BY DEF Becomes

LEMMA ToldBecomes ==
  ASSUME TypeOK, LoginInv, request # None, NEW what, what # "open", outcome' = Told(request, what),
         NEW how
  PROVE  Becomes(how) <=> how = what
<1>1. request \in RequestId /\ outcome \in [RequestId -> Outcome] /\ outcome[request] = "open"
  BY DEF TypeOK, LoginTypes, LoginInv
<1>2. outcome' = [outcome EXCEPT ![request] = what]
  BY <1>1 DEF Told
<1> QED
  BY <1>1, <1>2 DEF Becomes

LEMMA NewBecomes ==
  ASSUME TypeOK, LoginInv, NewRequest, NEW what, what # "none",
         outcome' = [outcome EXCEPT ![requests'] = what], NEW how
  PROVE  Becomes(how) <=> how = what
<1>1. requests' \in RequestId /\ outcome \in [RequestId -> Outcome] /\ requests < requests'
  BY NewRequestTypes DEF TypeOK, LoginTypes, NewRequest
<1>2. outcome[requests'] = "none"
  BY <1>1 DEF LoginInv
<1> QED
  BY <1>1, <1>2 DEF Becomes

-----------------------------------------------------------------------------
(* What the greeter sees of a step of the daemon that it did not cause:    *)
(* nothing; the end of a run; PAM's verdict; a failure; a success.         *)

Unheard(quick) ==
  /\ Listens' <=> Listens
  /\ Password' <=> Password
  /\ Won => Won'
  /\ Answers(quick) = <<>>

RunEnds(quick) ==
  /\ Listens /\ ~Listens' /\ ~Won
  /\ Password' <=> Password
  /\ Answers(quick) = <<Finish(quick)>>

PamAgrees(quick) ==
  /\ ~Listens' /\ Won'
  /\ Password' <=> Password
  /\ Answers(quick) = <<Prepare>>

Fails(quick) ==
  /\ Password \/ Won
  /\ ~Listens' /\ ~Password'
  /\ Won => Won'
  /\ Answers(quick) = <<Failure>>

Succeeds(quick) ==
  /\ Won /\ Won'
  /\ ~Listens' /\ ~Password'
  /\ Answers(quick) = <<Success>>

Seen(quick) ==
  Unheard(quick) \/ RunEnds(quick) \/ PamAgrees(quick) \/ Fails(quick) \/ Succeeds(quick)

LEMMA UnheardIs ==
  ASSUME NEW quick \in BOOLEAN, UNCHANGED <<request, fingerprintLogin, authenticated, outcome>>,
         transitionTimer' => transitionTimer, Won => Won'
  PROVE  Unheard(quick)
<1>1. Answers(quick) = <<>>
  BY AnswersAre, NoneBecomes DEF Accepts
<1> QED
  BY <1>1 DEF Unheard, Listens, Password, Listening

(* A request ends by finishLogin(false), m_authenticated being "matched".   *)
LEMMA EndsBadly ==
  ASSUME TypeOK, LoginInv, request # None, NEW quick \in BOOLEAN,
         FinishLogin(FALSE, authenticated), authenticated => Won /\ Won'
  PROVE  RunEnds(quick) \/ Fails(quick)
<1>1. request' = None /\ transitionTimer' = FALSE /\ ~Accepts /\ ~Listens' /\ ~Password'
  BY DEF FinishLogin, Accepts, Listens, Password
<1>2. CASE fingerprintLogin /\ ~authenticated
  <2>1. outcome' = Told(request, "finished")
    BY <1>2, Zenon DEF FinishLogin
  <2>2. Answers(quick) = <<Finish(quick)>>
    BY <1>1, <2>1, ToldBecomes, AnswersAre
  <2> QED
    BY <1>1, <1>2, <2>2 DEF RunEnds, Listens, Listening, Password, Won
<1>3. CASE ~(fingerprintLogin /\ ~authenticated)
  <2>1. outcome' = Told(request, "failed")
    BY <1>3, Zenon DEF FinishLogin
  <2>2. Answers(quick) = <<Failure>>
    BY <1>1, <2>1, ToldBecomes, AnswersAre
  <2> QED
    BY <1>1, <1>3, <2>2 DEF Fails, Password, Won
<1> QED
  BY <1>2, <1>3

LEMMA DeliverySeen ==
  ASSUME TypeOK, LoginInv, AuthInv, DialogueInv, AtGreeter, ~LateResults, ~autologin,
         transitions \/ request = None, NEW quick \in BOOLEAN,
         DeliverFromHelper, greeter' = "running"
  PROVE  AtGreeter' /\ Seen(quick)
<1>q. /\ Short /\ Exchange /\ Known /\ Deferred
      /\ TransitionInv /\ ReaderInv /\ ServedInv /\ ReuseInv
      /\ reuseLookupPending => helper = "none"
  BY DEF AuthInv, DialogueInv, LoginInv
<1>t. AuthTypeOK /\ authenticated \in BOOLEAN
  BY DEF TypeOK, LoginTypes
(* A message is read only while no transition and no activation runs.      *)
<1>m. ASSUME NEW type, Receive(type)
      PROVE  /\ Unread = type /\ Unread' = "nothing"
             /\ ~transitionTimer /\ ~reuseActivationPending /\ ~reuseLookupPending
             /\ helper \notin Asking \ {"prompt"} /\ IsActive
             /\ helper = "opened" => type = "OPENED"
  <2>1. Unread = type /\ Unread' = "nothing" /\ Unread # "nothing"
    BY <1>m, <1>t, <1>q, Reads, Queues DEF Receive
  <2>2. helper # "none" /\ helper \notin Asking \ {"prompt"} /\ (helper = "opened" => type = "OPENED")
    BY <1>m, <1>t, ReadsAsDue DEF Asking
  <2> QED
    BY <2>1, <2>2, <1>q DEF TransitionInv, ReuseInv, Silent, IsActive
<1>1. CASE RequestChanged
  <2>1. PICK type \in RequestType :
           ReceiveRequest(type, type = "REQUEST" /\ ~fingerprintLogin)
    BY <1>1 DEF RequestChanged
  <2>2. /\ UNCHANGED <<helper, accepted, exitStatus>> /\ helper # "opened"
        /\ Unread' = "nothing"
    BY <2>1, <1>m DEF ReceiveRequest, RequestType
  <2>3. UNCHANGED <<request, fingerprintLogin, authenticated, outcome, transitionTimer,
                    reuseLookupPending, reuseActivationPending, reuseHelperFinished>>
    BY <1>1 DEF RequestChanged, loginVars, lookupVars, reuseVars
  <2>4. Won' <=> Won
    BY <2>2, <2>3 DEF Won, IsActive
  <2>5. AtGreeter'
    BY <2>2, <2>3, <2>4 DEF AtGreeter, Engaged
  <2> QED
    BY <2>3, <2>4, <2>5, UnheardIs DEF Seen
<1>2. CASE AuthenticationSucceeded
  <2>1. Receive("AUTHENTICATED") /\ UNCHANGED <<helper, opensSession, accepted, exitStatus>>
    BY <1>2 DEF AuthenticationSucceeded, ReceiveAccepted
  <2>2. /\ Unread = "AUTHENTICATED" /\ Unread' = "nothing"
        /\ ~transitionTimer /\ ~reuseActivationPending /\ ~reuseLookupPending
        /\ helper \in {"waitReply", "exited"}
    BY <2>1, <1>t, <1>m, ReadsAsDue DEF RequestType
  <2>3. accepted /\ (helper = "exited" => exitStatus # "authError")
    BY <2>2, <1>q DEF Known
  <2>4. request # None /\ transitions
    BY <2>2 DEF AtGreeter, Engaged
  <2>5. /\ authenticated' = TRUE /\ transitionTimer' = TRUE
        /\ UNCHANGED <<request, fingerprintLogin, outcome, reuseLookupPending,
                       reuseActivationPending, reuseHelperFinished>>
    BY <1>2, <2>4 DEF AuthenticationSucceeded, lookupVars, reuseVars
  <2>6. Won'
    BY <2>1, <2>2, <2>3, <2>5 DEF Won, IsActive
  <2>7. AtGreeter'
    BY <2>1, <2>2, <2>4, <2>5, <2>6 DEF AtGreeter, Engaged
  <2>8. Answers(quick) = <<Prepare>>
    BY <2>2, <2>5, AnswersAre, NoneBecomes DEF Accepts
  <2> QED
    BY <2>5, <2>6, <2>7, <2>8 DEF Seen, PamAgrees, Listens, Listening, Password
<1>3. CASE AuthenticationFailed
  <2>1. /\ Receive("REJECTED") /\ UNCHANGED <<helper, accepted, exitStatus>>
        /\ FinishLogin(FALSE, FALSE) /\ authenticated' = FALSE
        /\ UNCHANGED <<reuseLookupPending, reuseActivationPending>>
    BY <1>3 DEF AuthenticationFailed, ReceiveRejected, lookupVars, reuseVars
  <2>2. /\ Unread = "REJECTED" /\ Unread' = "nothing" /\ helper = "exited"
        /\ ~reuseActivationPending /\ ~reuseLookupPending
    BY <2>1, <1>t, <1>m, ReadsAsDue DEF RequestType
  <2>3. ~Won
    BY <2>2, <1>q DEF Known, Won
  <2>4. AtGreeter'
    BY <2>1, <2>2, AtGreeterOver, <1>t DEF FinishLogin, Asking, TypeOK, ReuseTypes
  <2>5. CASE request = None
    <3>1. /\ transitionTimer' = FALSE /\ request' = None
          /\ Answers(quick) = <<>>
      <4>1. transitionTimer' = FALSE /\ request' = None /\ outcome' = outcome
        BY <2>1, <2>5 DEF FinishLogin, Told
      <4> QED
        BY <4>1, AnswersAre, NoneBecomes DEF Accepts
    <3> QED
      BY <2>3, <2>4, <2>5, <3>1 DEF Seen, Unheard, Listens, Password
  <2>6. CASE request # None
    <3>1. ~authenticated
      BY <2>3, <2>6 DEF AtGreeter
    <3>2. FinishLogin(FALSE, authenticated)
      BY <1>t, <2>1, <3>1 DEF FinishLogin
    <3> QED
      BY <2>4, <2>6, <3>1, <3>2, EndsBadly DEF Seen
  <2> QED
    BY <2>5, <2>6
<1>4. CASE AutologinFailed
  BY <1>4 DEF AutologinFailed
<1>5. CASE SessionStarted
  BY <1>5 DEF SessionStarted
<1>6. CASE SessionNotStarted
  <2>1. /\ Receive("NOT_OPENED") /\ UNCHANGED <<helper, accepted, exitStatus, authenticated>>
        /\ FinishLogin(FALSE, authenticated)
        /\ UNCHANGED <<reuseLookupPending, reuseActivationPending>>
    BY <1>6 DEF SessionNotStarted, ReceiveStatus, lookupVars, reuseVars, restVars
  <2>2. /\ Unread' = "nothing" /\ helper \in {"notOpened", "exited"} /\ IsActive
        /\ ~reuseActivationPending /\ ~reuseLookupPending
    BY <2>1, <1>t, <1>m, ReadsAsDue DEF RequestType
  <2>3. AtGreeter'
    BY <2>1, <2>2, AtGreeterOver, <1>t DEF FinishLogin, Asking, TypeOK, ReuseTypes
  <2>4. Won => Won'
    BY <2>1, <2>2 DEF Won, IsActive
  <2>5. CASE request = None
    <3>1. /\ transitionTimer' = FALSE /\ request' = None
          /\ Answers(quick) = <<>>
      <4>1. transitionTimer' = FALSE /\ request' = None /\ outcome' = outcome
        BY <2>1, <2>5 DEF FinishLogin, Told
      <4> QED
        BY <4>1, AnswersAre, NoneBecomes DEF Accepts
    <3> QED
      BY <2>3, <2>4, <2>5, <3>1 DEF Seen, Unheard, Listens, Password
  <2>6. CASE request # None
    <3>1. authenticated => Won /\ Won'
      BY <2>4, <2>6 DEF AtGreeter
    <3> QED
      BY <2>1, <2>3, <2>6, <3>1, EndsBadly DEF Seen
  <2> QED
    BY <2>5, <2>6
<1>7. CASE HelperFinished
  <2>1. /\ helper = "exited" /\ helper' = "none" /\ Unread = "nothing" /\ Unread' = "nothing"
        /\ ~reuseLookupPending
        /\ UNCHANGED <<accepted, exitStatus>>
    BY <1>7, <1>q, <1>t, Queues, Cleared DEF HelperFinished, HelperReaped
  <2>2. CASE reuseActivationPending
    <3>1. /\ reuseHelperFinished' = TRUE
          /\ UNCHANGED <<request, fingerprintLogin, authenticated, outcome, transitionTimer,
                         reuseLookupPending, reuseActivationPending>>
      BY <1>7, <2>2 DEF HelperFinished, loginVars, lookupVars, restVars
    <3>2. authenticated /\ request # None /\ accepted
      BY <2>2, <1>q DEF AtGreeter, Engaged, ReuseInv
    <3>3. Won'
      BY <2>1, <2>2, <3>1, <3>2 DEF Won
    <3>4. AtGreeter'
      BY <2>1, <2>2, <3>1, <3>2, <3>3 DEF AtGreeter, Engaged
    <3> QED
      BY <3>1, <3>3, <3>4, UnheardIs DEF Seen
  <2>3. CASE ~reuseActivationPending /\ exitStatus = "authError"
    <3>0. /\ IF request # None THEN FinishLogin(FALSE, authenticated) ELSE UNCHANGED loginVars
          /\ UNCHANGED <<authenticated, reuseLookupPending, reuseActivationPending>>
      BY <1>7, <2>3 DEF HelperFinished, lookupVars, reuseVars, restVars
    <3>1. ~Won /\ ~transitionTimer
      BY <2>1, <2>3, <1>q DEF Won, TransitionInv
    <3>2. request' = None /\ transitionTimer' = FALSE
      BY <3>0, <3>1, <1>t DEF FinishLogin, loginVars, TypeOK, LoginTypes
    <3>3. AtGreeter'
      BY <2>1, <2>3, <3>0, <3>2, AtGreeterOver DEF Asking, TypeOK, ReuseTypes
    <3>4. CASE request = None
      BY <3>0, <3>1, <3>3, <3>4, UnheardIs DEF Seen, loginVars
    <3>5. CASE request # None
      <4>1. ~authenticated
        BY <3>1, <3>5 DEF AtGreeter
      <4> QED
        BY <3>0, <3>3, <3>5, <4>1, EndsBadly DEF Seen
    <3> QED
      BY <3>4, <3>5
  <2>4. CASE ~reuseActivationPending /\ exitStatus # "authError"
    BY <1>7, <2>4 DEF HelperFinished, Stop, StopRest
  <2> QED
    BY <2>2, <2>3, <2>4
<1> QED
  BY <1>1, <1>2, <1>3, <1>4, <1>5, <1>6, <1>7 DEF DeliverFromHelper

LEMMA ActivationSeen ==
  ASSUME TypeOK, LoginInv, DialogueInv, AtGreeter, NEW quick \in BOOLEAN,
         NEW success \in BOOLEAN, NEW kept, FinishActivation(success, kept), greeter' = "running"
  PROVE  AtGreeter' /\ Seen(quick)
<1>q. ReuseInv /\ reuseActivationPending /\ request # None /\ authenticated /\ Won
      /\ ~reuseLookupPending
  BY DEF DialogueInv, FinishActivation, AtGreeter, Engaged, ReuseInv
<1>1. /\ ~reuseHelperFinished
      /\ FinishLogin(success, authenticated) /\ reuseActivationPending' = FALSE
      /\ UNCHANGED authVars /\ UNCHANGED <<reuseLookupPending, authenticated>>
  BY DEF FinishActivation, StopRest, lookupVars
<1>2. Won'
  BY <1>q, <1>1 DEF Won, IsActive, authVars
<1>3. AtGreeter'
  <2>1. request' = None /\ transitionTimer' = FALSE
    BY <1>1 DEF FinishLogin
  <2>2. helper' \notin Asking \cup {"session", "opened"} /\ Unread' = "nothing"
    <3>1. UNCHANGED <<helper, inbox>>
      BY <1>1 DEF authVars
    <3> QED
      BY <1>q, <3>1, Cleared DEF ReuseInv, Asking
  <2>3. reuseLookupPending' = FALSE
    BY <1>q, <1>1 DEF TypeOK, ReuseTypes
  <2> QED
    BY <1>1, <2>1, <2>2, <2>3, AtGreeterOver
<1>4. CASE success
  <2>1. outcome' = Told(request, "succeeded") /\ request' = None /\ transitionTimer' = FALSE
    BY <1>1, <1>4, Zenon DEF FinishLogin
  <2>2. Answers(quick) = <<Success>>
    BY <1>q, <2>1, ToldBecomes, AnswersAre DEF Accepts
  <2> QED
    BY <1>q, <1>2, <1>3, <2>1, <2>2 DEF Seen, Succeeds, Listens, Password
<1>5. CASE ~success
  <2>1. FinishLogin(FALSE, authenticated)
    BY <1>1, <1>5 DEF FinishLogin
  <2> QED
    BY <1>q, <1>2, <1>3, <2>1, EndsBadly DEF Seen
<1> QED
  BY <1>4, <1>5

LEMMA CompletionSeen ==
  ASSUME TypeOK, LoginInv, DialogueInv, AtGreeter, NEW quick \in BOOLEAN,
         transitionTimer, CompleteTransition
  PROVE  AtGreeter' /\ Unheard(quick)
<1>1. /\ authenticated /\ request # None /\ Unread = "nothing"
      /\ helper = "waitReply" \/ (helper = "exited" /\ exitStatus # "authError")
      /\ accepted
  BY DEF DialogueInv, TransitionInv, Silent, AtGreeter, Engaged
<1>2. /\ transitionTimer' = FALSE
      /\ UNCHANGED <<helper, accepted, exitStatus, inbox, request, fingerprintLogin, outcome,
                     authenticated, reuseLookupPending>>
  BY DEF CompleteTransition, lookupVars
<1>3. Won'
  BY <1>1, <1>2 DEF Won, IsActive, DialogueInv, TransitionInv
<1>4. AtGreeter'
  BY <1>1, <1>2, <1>3 DEF AtGreeter, Engaged
<1> QED
  BY <1>2, <1>3, <1>4, UnheardIs

LEMMA LookupSeen ==
  ASSUME TypeOK, LoginInv, DialogueInv, AtGreeter, NEW quick \in BOOLEAN,
         reuseLookupPending, NEW session, FinishLookup(session)
  PROVE  AtGreeter' /\ Unheard(quick)
<1>1. ~authenticated /\ request # None /\ ~reuseActivationPending /\ ~Won
  BY DEF AtGreeter, Engaged, Won
<1>2. /\ helper' = "starting" /\ reuseLookupPending' = FALSE
      /\ UNCHANGED <<request, fingerprintLogin, outcome, transitionTimer, authenticated,
                     reuseActivationPending>>
  BY Zenon DEF FinishLookup, AuthStart, loginVars, reuseVars
<1>3. AtGreeter'
  BY <1>1, <1>2 DEF AtGreeter, Engaged
<1> QED
  BY <1>1, <1>2, <1>3, UnheardIs

(* A fingerprint login that still listens ends.                            *)
LEMMA CancelledAtGreeter ==
  ASSUME TypeOK, LoginInv, AuthInv, DialogueInv, AtGreeter, ~LateResults, Listens,
         NEW result \in {"finished", "cancelled"}, CancelFingerprintLogin(result)
  PROVE  /\ AtGreeter'
         /\ ~Won /\ ~Listens' /\ ~Password /\ ~Password'
         /\ ~Accepts /\ outcome' = Told(request, result)
<1>1. ~authenticated /\ ~reuseActivationPending /\ ~transitionTimer
  BY DEF Listens, Listening, AtGreeter, DialogueInv, TransitionInv
<1>2. /\ helper' = "none" /\ request' = None /\ reuseLookupPending' = FALSE
      /\ inbox = <<>> /\ inbox' = <<>>
      /\ UNCHANGED <<transitionTimer, reuseActivationPending>>
      /\ outcome' = Told(request, result)
  BY DEF CancelFingerprintLogin, CancelHelper, AuthStop, reuseVars
<1>3. AtGreeter'
  BY <1>1, <1>2, Cleared, AtGreeterOver DEF Asking, TypeOK, LoginTypes, ReuseTypes
<1> QED
  BY <1>1, <1>2, <1>3 DEF Won, Listens, Listening, Password, Accepts

LEMMA LogindSeen ==
  ASSUME TypeOK, LoginInv, DialogueInv, AtGreeter, NEW quick \in BOOLEAN,
         Logind, greeter' = "running"
  PROVE  AtGreeter' /\ Seen(quick)
<1>d. ASSUME UNCHANGED <<authVars, loginVars, lookupVars, reuseVars, authenticated>>
      PROVE  AtGreeter' /\ Seen(quick)
  <2>1. AtGreeter' /\ (Won' <=> Won)
    BY <1>d, AtGreeterKept DEF loginState, loginVars, lookupVars, reuseVars, Won, IsActive, authVars
  <2> QED
    BY <1>d, <2>1, UnheardIs DEF Seen, loginVars
<1>c. UNCHANGED allButCalls => AtGreeter' /\ Seen(quick)
  BY <1>d DEF allButCalls
<1> PICK c \in calls : \/ ListReply(c) \/ PropertiesReply(c)
                       \/ UnlockReply(c) \/ ActivateReply(c)
                       \/ SessionByPidReply(c) \/ SessionIdReply(c)
  BY DEF Logind
<1>1. CASE ListReply(c) \/ PropertiesReply(c)
  BY <1>1, <1>c, LookupSeen DEF ListReply, PropertiesReply, LookupCurrent, Drop, Seen
<1>2. CASE UnlockReply(c) \/ ActivateReply(c)
  BY <1>2, <1>c, ActivationSeen DEF UnlockReply, ActivateReply, Drop
<1>3. CASE SessionByPidReply(c)
  BY <1>3, <1>c DEF SessionByPidReply, Drop
<1>4. CASE SessionIdReply(c)
  BY <1>4, <1>c, <1>d DEF SessionIdReply, Drop
<1> QED
  BY <1>1, <1>2, <1>3, <1>4

LEMMA TimersSeen ==
  ASSUME TypeOK, LoginInv, AuthInv, DialogueInv, AtGreeter, ~LateResults, GreeterUp,
         NEW quick \in BOOLEAN, Timers, greeter' = "running"
  PROVE  AtGreeter' /\ Seen(quick)
<1>d. ASSUME UNCHANGED <<authVars, loginVars, lookupVars, reuseVars, authenticated>>
      PROVE  AtGreeter' /\ Seen(quick)
  <2>1. AtGreeter' /\ (Won' <=> Won)
    BY <1>d, AtGreeterKept DEF loginState, loginVars, lookupVars, reuseVars, Won, IsActive, authVars
  <2> QED
    BY <1>d, <2>1, UnheardIs DEF Seen, loginVars
<1>1. CASE TransitionTimeout
  BY <1>1, CompletionSeen DEF TransitionTimeout, Seen
<1>2. CASE ActivationTimeout
  BY <1>2, ActivationSeen DEF ActivationTimeout
<1>3. CASE AbortFingerprint
  <2>1. CASE Listening
    <3>1. Listens /\ CancelFingerprintLogin("finished")
      BY <1>3, <2>1 DEF AbortFingerprint, Listens, Listening, LoginInv, GreeterUp
    <3>2. request # None
      BY <3>1 DEF Listens
    <3>3. /\ AtGreeter'
          /\ ~Won /\ ~Listens' /\ ~Password /\ ~Password'
          /\ ~Accepts /\ outcome' = Told(request, "finished")
      BY <3>1, CancelledAtGreeter
    <3>4. Answers(quick) = <<Finish(quick)>>
      BY <3>2, <3>3, ToldBecomes, AnswersAre
    <3> QED
      BY <3>1, <3>3, <3>4 DEF Seen, RunEnds
  <2>2. CASE ~Listening
    BY <1>3, <2>2, <1>d DEF AbortFingerprint
  <2> QED
    BY <2>1, <2>2
<1>4. ASSUME NEW c \in calls, LookupTimeout(c)
      PROVE  AtGreeter' /\ Seen(quick)
  <2>1. UNCHANGED allButCalls => AtGreeter' /\ Seen(quick)
    BY <1>d DEF allButCalls
  <2> QED
    BY <1>4, <2>1, LookupSeen DEF LookupTimeout, LookupCurrent, Drop, Seen
<1> QED
  BY <1>1, <1>2, <1>3, <1>4 DEF Timers

-----------------------------------------------------------------------------
(* What the daemon makes of a message of the greeter.                      *)

(* The same of a message of the greeter's, which is answered at once.      *)
LEMMA AnswersThen ==
  /\ (\A how \in Result : ~Becomes(how)) /\ ~Accepts => Answers(TRUE) = <<>>
  /\ Becomes("failed") /\ (\A how \in Result \ {"failed"} : ~Becomes(how)) /\ ~Accepts
       => Answers(TRUE) = <<Failure>>
  /\ Becomes("finished") /\ (\A how \in Result \ {"finished"} : ~Becomes(how)) /\ ~Accepts
       => Answers(TRUE) = <<Finish(TRUE)>>
<1>1. TRUE \in BOOLEAN /\ Result = {"succeeded", "failed", "finished"}
  BY DEF Result
<1>2. /\ "failed" \in Result /\ "succeeded" \in Result /\ "finished" \in Result
      /\ "failed" \in Result \ {"finished"} /\ "succeeded" \in Result \ {"finished"}
      /\ "finished" \in Result \ {"failed"} /\ "succeeded" \in Result \ {"failed"}
  BY <1>1
<1> QED
  BY <1>1, <1>2, AnswersAre, Zenon

LEMMA LoginRefusedSeen ==
  ASSUME TypeOK, LoginInv, AtGreeter, LoginRejected
  PROVE  /\ AtGreeter' /\ ~Listens /\ ~Listens' /\ (Password' <=> Password) /\ (Won' <=> Won)
         /\ Answers(TRUE) = <<Failure>>
<1>1. /\ UNCHANGED <<authVars, request, fingerprintLogin, transitionTimer, authenticated,
                     reuseLookupPending, reuseActivationPending, reuseHelperFinished>>
      /\ ~Listening
  BY DEF LoginRejected, lookupVars, reuseVars
<1>2. Answers(TRUE) = <<Failure>>
  <2>1. NewRequest /\ outcome' = [outcome EXCEPT ![requests'] = "failed"] /\ "failed" # "none"
    BY DEF LoginRejected
  <2>2. \A how : Becomes(how) <=> how = "failed"
    BY <2>1, NewBecomes
  <2>3. ~Accepts
    BY <1>1 DEF Accepts
  <2> QED
    BY <2>2, <2>3, AnswersThen
<1>3. AtGreeter' /\ (Won' <=> Won)
  BY <1>1, AtGreeterKept DEF loginState, Won, IsActive, authVars
<1> QED
  BY <1>1, <1>2, <1>3 DEF Listens, Listening, Password

LEMMA LoginAcceptedSeen ==
  ASSUME TypeOK, LoginInv, AuthInv, DialogueInv, AtGreeter, GreeterUp, LoginAccepted
  PROVE  /\ AtGreeter' /\ ~Won /\ ~Listens' /\ Password'
         /\ Answers(TRUE) = <<>>
<1>1. /\ request' = requests' /\ requests' # None
      /\ authenticated' = FALSE /\ reuseActivationPending' = FALSE
      /\ transitionTimer' = transitionTimer
      /\ Listening \/ Idle
      /\ fingerprintLogin' = (fingerprintLogin /\ ~Listening)
  BY RequestIds, NewRequestTypes DEF LoginAccepted, BeginAuth, NewRequest
<1>2. ~fingerprintLogin' /\ ~Won
  <2>1. Idle => ~fingerprintLogin /\ ~IsActive /\ request = None
    BY DEF Idle, LoginInv, GreeterUp
  <2> QED
    BY <1>1, <2>1 DEF Listening, Won
<1>3. AtGreeter'
  <2>1. helper' \in {"starting", "none"}
    BY DEF LoginAccepted, AuthStart, AuthStop, Idle, IsActive, authVars
  <2> QED
    BY <1>1, <2>1, AtGreeterAnew
<1>4. \A how \in Result : ~Becomes(how)
  <2>1. CASE Listening
    <3>1. outcome' = [Told(request, "cancelled") EXCEPT ![requests'] = "open"]
      BY <2>1 DEF LoginAccepted, Superseded
    <3>2. outcome \in [RequestId -> Outcome] /\ request \in RequestId \cup {None}
      BY DEF TypeOK, LoginTypes
    <3>3. \A r \in RequestId : outcome'[r] \in {outcome[r], "cancelled", "open", "duplicate"}
      BY <3>1, <3>2 DEF Told
    <3> QED
      BY <3>3 DEF Becomes, Result
  <2>2. CASE ~Listening
    <3>1. NewRequest /\ outcome' = [outcome EXCEPT ![requests'] = "open"] /\ "open" # "none"
      BY <2>2 DEF LoginAccepted, Superseded
    <3>2. \A how : Becomes(how) <=> how = "open"
      BY <3>1, NewBecomes
    <3> QED
      BY <3>2 DEF Result
  <2> QED
    BY <2>1, <2>2
<1>5. Answers(TRUE) = <<>>
  BY <1>1, <1>4, AnswersThen DEF Accepts
<1> QED
  BY <1>1, <1>2, <1>3, <1>5 DEF Listens, Listening, Password

LEMMA RunAcceptedSeen ==
  ASSUME TypeOK, LoginInv, AtGreeter, FingerprintAccepted
  PROVE  /\ AtGreeter' /\ ~Won /\ ~Listens /\ ~Password /\ Listens' /\ ~Password' /\ ~Won'
         /\ Answers(TRUE) = <<>>
<1>1. /\ request' = requests' /\ requests' # None /\ Idle /\ NewRequest
      /\ authenticated' = FALSE /\ reuseActivationPending' = FALSE
      /\ transitionTimer' = transitionTimer /\ fingerprintLogin' = TRUE
      /\ outcome' = [outcome EXCEPT ![requests'] = "open"]
  BY RequestIds, NewRequestTypes DEF FingerprintAccepted, StartAuth, BeginAuth, NewRequest
<1>2. AtGreeter'
  <2>1. helper' \in {"starting", "none"}
    BY <1>1 DEF FingerprintAccepted, StartAuth, AuthStart, Idle, IsActive, authVars
  <2> QED
    BY <1>1, <2>1, AtGreeterAnew
<1>3. Answers(TRUE) = <<>>
  <2>1. "open" # "none"
    OBVIOUS
  <2>2. \A how : Becomes(how) <=> how = "open"
    BY <1>1, <2>1, NewBecomes
  <2>3. ~Accepts
    BY <1>1 DEF Accepts
  <2> QED
    BY <2>2, <2>3, AnswersThen DEF Result
<1> QED
  BY <1>1, <1>2, <1>3 DEF Idle, Listens, Listening, Password, Won

LEMMA RunRefusedSeen ==
  ASSUME TypeOK, LoginInv, AtGreeter, ~Idle, FingerprintRefused
  PROVE  /\ AtGreeter' /\ (Listens' <=> Listens) /\ (Password' <=> Password) /\ (Won' <=> Won)
         /\ Answers(TRUE) = <<Finish(TRUE)>>
<1>1. UNCHANGED <<authVars, request, fingerprintLogin, transitionTimer, authenticated,
                  reuseLookupPending, reuseActivationPending, reuseHelperFinished>>
  BY DEF FingerprintRefused, lookupVars, reuseVars
<1>2. Answers(TRUE) = <<Finish(TRUE)>>
  <2>1. NewRequest /\ outcome' = [outcome EXCEPT ![requests'] = "finished"] /\ "finished" # "none"
    BY DEF FingerprintRefused
  <2>2. \A how : Becomes(how) <=> how = "finished"
    BY <2>1, NewBecomes
  <2>3. ~Accepts
    BY <1>1 DEF Accepts
  <2> QED
    BY <2>2, <2>3, AnswersThen
<1>3. AtGreeter' /\ (Won' <=> Won)
  BY <1>1, AtGreeterKept DEF loginState, Won, IsActive, authVars
<1> QED
  BY <1>1, <1>2, <1>3 DEF Listens, Listening, Password

LEMMA CancelSeen ==
  ASSUME TypeOK, LoginInv, AuthInv, DialogueInv, AtGreeter, ~LateResults,
         IF Listening /\ request # None THEN FingerprintCancel ELSE UNCHANGED vars
  PROVE  /\ AtGreeter' /\ ~Listens' /\ (Password' <=> Password) /\ (Won => Won')
         /\ Answers(TRUE) = <<>>
<1>1. CASE Listens
  <2>1. CancelFingerprintLogin("cancelled") /\ request # None
    BY <1>1 DEF Listens, FingerprintCancel
  <2>2. /\ AtGreeter' /\ ~Won /\ ~Listens' /\ ~Password /\ ~Password'
        /\ ~Accepts /\ outcome' = Told(request, "cancelled")
    BY <1>1, <2>1, CancelledAtGreeter
  <2>3. Answers(TRUE) = <<>>
    <3>1. "cancelled" # "open"
      OBVIOUS
    <3>2. \A how : Becomes(how) <=> how = "cancelled"
      BY <2>1, <2>2, <3>1, ToldBecomes
    <3> QED
      BY <2>2, <3>2, AnswersThen DEF Result
  <2> QED
    BY <2>2, <2>3
<1>2. CASE ~Listens
  <2>1. UNCHANGED vars
    BY <1>2 DEF Listens
  <2>2. UNCHANGED loginState /\ UNCHANGED <<fingerprintLogin, outcome>>
    BY <2>1 DEF vars, loginState, loginVars, lookupVars, reuseVars, restVars
  <2>3. AtGreeter' /\ (Won' <=> Won)
    BY <2>2, AtGreeterKept DEF loginState, Won, IsActive, authVars
  <2>4. Unheard(TRUE)
    BY <2>2, <2>3, UnheardIs DEF loginState
  <2> QED
    BY <1>2, <2>3, <2>4 DEF Unheard
<1> QED
  BY <1>1, <1>2

LEMMA ReadySeen ==
  ASSUME TypeOK, LoginInv, DialogueInv, AtGreeter,
         \/ AnnounceTransitions
         \/ IF transitionTimer /\ request # None THEN TransitionReady ELSE UNCHANGED vars
  PROVE  AtGreeter' /\ Unheard(TRUE)
<1>1. CASE TransitionReady
  BY <1>1, CompletionSeen DEF TransitionReady
<1>2. CASE ~TransitionReady
  <2>1. UNCHANGED loginState /\ UNCHANGED <<fingerprintLogin, outcome>>
    BY <1>2 DEF AnnounceTransitions, vars, loginState, loginVars, lookupVars, reuseVars, restVars
  <2>2. AtGreeter' /\ (Won' <=> Won)
    BY <2>1, AtGreeterKept DEF loginState, Won, IsActive, authVars
  <2> QED
    BY <2>1, <2>2, UnheardIs DEF loginState
<1> QED
  BY <1>1, <1>2

-----------------------------------------------------------------------------
(* What is under way in a queue, and in which order.                       *)

Has(queue, S) == \E i \in DOMAIN queue : queue[i] \in S

NoneBefore(queue, S, T) ==
  \A i, j \in DOMAIN queue : i < j /\ queue[j] \in T => queue[i] \notin S

LEMMA EmptyQueue ==
  ASSUME NEW S, NEW T
  PROVE  ~Has(<<>>, S) /\ NoneBefore(<<>>, S, T)
BY DEF Has, NoneBefore

LEMMA AppendedIs ==
  ASSUME NEW E, NEW queue \in Seq(E), NEW m \in E, NEW S, NEW T
  PROVE  /\ Has(Append(queue, m), S) <=> Has(queue, S) \/ m \in S
         /\ NoneBefore(Append(queue, m), S, T)
              <=> NoneBefore(queue, S, T) /\ (m \in T => ~Has(queue, S))
<1> DEFINE n == Len(queue)
           longer == Append(queue, m)
<1>1. /\ n \in Nat /\ DOMAIN queue = 1..n /\ DOMAIN longer = 1..n + 1
      /\ \A i \in 1..n : longer[i] = queue[i]
      /\ longer[n + 1] = m
  OBVIOUS
<1> HIDE DEF n, longer
<1>2. Has(longer, S) <=> Has(queue, S) \/ m \in S
  BY <1>1 DEF Has
<1>3. NoneBefore(longer, S, T) => NoneBefore(queue, S, T) /\ (m \in T => ~Has(queue, S))
  <2> SUFFICES ASSUME NoneBefore(longer, S, T)
               PROVE  NoneBefore(queue, S, T) /\ (m \in T => ~Has(queue, S))
    OBVIOUS
  <2>1. NoneBefore(queue, S, T)
    BY <1>1 DEF NoneBefore
  <2>2. ASSUME m \in T, NEW i \in DOMAIN queue PROVE queue[i] \notin S
    BY <1>1, <2>2 DEF NoneBefore
  <2> QED
    BY <2>1, <2>2 DEF Has
<1>4. NoneBefore(queue, S, T) /\ (m \in T => ~Has(queue, S)) => NoneBefore(longer, S, T)
  <2> SUFFICES ASSUME NoneBefore(queue, S, T), m \in T => ~Has(queue, S),
                      NEW i \in DOMAIN longer, NEW j \in DOMAIN longer, i < j, longer[j] \in T
               PROVE  longer[i] \notin S
    BY DEF NoneBefore
  <2>1. i \in 1..n /\ longer[i] = queue[i]
    BY <1>1
  <2>2. CASE j = n + 1
    BY <1>1, <2>1, <2>2 DEF Has
  <2>3. CASE j # n + 1
    BY <1>1, <2>1, <2>3 DEF NoneBefore
  <2> QED
    BY <2>2, <2>3
<1> QED
  BY <1>2, <1>3, <1>4 DEF longer

LEMMA TakenIs ==
  ASSUME NEW E, NEW queue \in Seq(E), queue # <<>>, NEW S, NEW T
  PROVE  /\ Has(queue, S) <=> Head(queue) \in S \/ Has(Tail(queue), S)
         /\ NoneBefore(queue, S, T)
              <=> NoneBefore(Tail(queue), S, T) /\ (Head(queue) \in S => ~Has(Tail(queue), T))
<1> DEFINE n == Len(queue)
           rest == Tail(queue)
<1>1. /\ n \in Nat /\ n > 0 /\ DOMAIN queue = 1..n /\ DOMAIN rest = 1..n - 1
      /\ \A i \in 1..n - 1 : rest[i] = queue[i + 1]
      /\ Head(queue) = queue[1]
  OBVIOUS
<1> HIDE DEF n, rest
<1>2. Has(queue, S) <=> Head(queue) \in S \/ Has(rest, S)
  <2>1. Has(rest, S) => Has(queue, S)
    <3> SUFFICES ASSUME NEW i \in DOMAIN rest, rest[i] \in S PROVE Has(queue, S)
      BY DEF Has
    <3>1. i + 1 \in DOMAIN queue /\ queue[i + 1] \in S
      BY <1>1
    <3> QED
      BY <3>1 DEF Has
  <2>2. ASSUME NEW i \in DOMAIN queue, queue[i] \in S PROVE Head(queue) \in S \/ Has(rest, S)
    <3>1. CASE i = 1
      BY <1>1, <2>2, <3>1
    <3>2. CASE i # 1
      <4>1. i - 1 \in DOMAIN rest /\ rest[i - 1] \in S
        BY <1>1, <2>2, <3>2
      <4> QED
        BY <4>1 DEF Has
    <3> QED
      BY <3>1, <3>2
  <2>3. Head(queue) \in S => Has(queue, S)
    BY <1>1 DEF Has
  <2> QED
    BY <2>1, <2>2, <2>3 DEF Has
<1>3. ASSUME NoneBefore(queue, S, T)
      PROVE  NoneBefore(rest, S, T) /\ (Head(queue) \in S => ~Has(rest, T))
  <2>1. ASSUME NEW i \in DOMAIN rest, NEW j \in DOMAIN rest, i < j, rest[j] \in T
        PROVE  rest[i] \notin S
    <3>1. i + 1 \in DOMAIN queue /\ j + 1 \in DOMAIN queue /\ i + 1 < j + 1
      BY <1>1, <2>1
    <3> QED
      BY <1>1, <1>3, <2>1, <3>1 DEF NoneBefore
  <2>2. ASSUME Head(queue) \in S, NEW j \in DOMAIN rest PROVE rest[j] \notin T
    <3>1. 1 \in DOMAIN queue /\ j + 1 \in DOMAIN queue /\ 1 < j + 1
      BY <1>1
    <3> QED
      BY <1>1, <1>3, <2>2, <3>1 DEF NoneBefore
  <2> QED
    BY <2>1, <2>2 DEF Has, NoneBefore
<1>4. ASSUME NoneBefore(rest, S, T), Head(queue) \in S => ~Has(rest, T)
      PROVE  NoneBefore(queue, S, T)
  <2> SUFFICES ASSUME NEW i \in DOMAIN queue, NEW j \in DOMAIN queue, i < j, queue[j] \in T
               PROVE  queue[i] \notin S
    BY DEF NoneBefore
  <2>1. j - 1 \in DOMAIN rest /\ rest[j - 1] = queue[j]
    BY <1>1
  <2>2. CASE i = 1
    BY <1>1, <1>4, <2>1, <2>2 DEF Has
  <2>3. CASE i # 1
    <3>1. i - 1 \in DOMAIN rest /\ rest[i - 1] = queue[i] /\ i - 1 < j - 1
      BY <1>1, <2>3
    <3> QED
      BY <1>4, <2>1, <3>1 DEF NoneBefore
  <2> QED
    BY <2>2, <2>3
<1> QED
  BY <1>2, <1>3, <1>4 DEF rest

-----------------------------------------------------------------------------
(* The kinds of messages that the two go by.                               *)

Logins == {m \in ToDaemon : m.type = "Login"}
Cancels == {m \in ToDaemon : m.type = "FingerprintCancel"}
Runs == {m \in ToDaemon : m.type = "FingerprintLogin"}
Stops == {m \in ToDaemon : m.type \in {"FingerprintCancel", "Login"}}
Controls == {m \in ToDaemon : m.type \in {"FingerprintCancel", "Login", "FingerprintLogin"}}
ProbesFor(u) == {m \in ToDaemon : m.type = "FingerprintProbe" /\ m.user = u}
OtherRuns(u, x) ==
  {m \in ToDaemon : m.type = "FingerprintLogin" /\ ~(m.user = u /\ m.session = x)}

Prepares == {m \in ToGreeter : m.type = "PrepareTransition"}
Failures == {m \in ToGreeter : m.type = "LoginFailed"}
Successes == {m \in ToGreeter : m.type = "LoginSucceeded"}
Finishes == {m \in ToGreeter : m.type = "FingerprintFinished"}
AnswersFor(u) == {m \in ToGreeter : m.type = "FingerprintAvailable" /\ m.user = u}

(* A message sent to the daemon, or read by it.                            *)
LEMMA SentIs ==
  ASSUME NEW queue \in Seq(ToDaemon), NEW m \in ToDaemon,
         NEW longer, longer = Append(queue, m)
  PROVE  /\ Has(longer, Logins) <=> Has(queue, Logins) \/ m.type = "Login"
         /\ Has(longer, Cancels) <=> Has(queue, Cancels) \/ m.type = "FingerprintCancel"
         /\ Has(longer, Runs) <=> Has(queue, Runs) \/ m.type = "FingerprintLogin"
         /\ \A u : Has(longer, ProbesFor(u))
                     <=> Has(queue, ProbesFor(u)) \/ (m.type = "FingerprintProbe" /\ m.user = u)
         /\ \A u, x : Has(longer, OtherRuns(u, x))
                        <=> \/ Has(queue, OtherRuns(u, x))
                            \/ m.type = "FingerprintLogin" /\ ~(m.user = u /\ m.session = x)
         /\ NoneBefore(longer, Controls, Runs)
              <=> /\ NoneBefore(queue, Controls, Runs)
                  /\ m.type = "FingerprintLogin" => ~Has(queue, Controls)
         /\ NoneBefore(longer, Stops, Cancels)
              <=> /\ NoneBefore(queue, Stops, Cancels)
                  /\ m.type = "FingerprintCancel" => ~Has(queue, Stops)
         /\ NoneBefore(longer, Logins, Logins)
              <=> /\ NoneBefore(queue, Logins, Logins)
                  /\ m.type = "Login" => ~Has(queue, Logins)
         /\ \A u : NoneBefore(longer, ProbesFor(u), Controls)
              <=> /\ NoneBefore(queue, ProbesFor(u), Controls)
                  /\ m.type \in {"FingerprintCancel", "Login", "FingerprintLogin"}
                       => ~Has(queue, ProbesFor(u))
<1>1. \A S, T :
        /\ Has(Append(queue, m), S) <=> Has(queue, S) \/ m \in S
        /\ NoneBefore(Append(queue, m), S, T)
             <=> NoneBefore(queue, S, T) /\ (m \in T => ~Has(queue, S))
  BY AppendedIs
<1>2. /\ m \in Logins <=> m.type = "Login"
      /\ m \in Cancels <=> m.type = "FingerprintCancel"
      /\ m \in Runs <=> m.type = "FingerprintLogin"
      /\ m \in Controls <=> m.type \in {"FingerprintCancel", "Login", "FingerprintLogin"}
      /\ \A u : m \in ProbesFor(u) <=> m.type = "FingerprintProbe" /\ m.user = u
      /\ \A u, x : m \in OtherRuns(u, x)
                     <=> m.type = "FingerprintLogin" /\ ~(m.user = u /\ m.session = x)
  BY DEF Logins, Cancels, Runs, Controls, ProbesFor, OtherRuns
<1> QED
  BY <1>1, <1>2, Zenon

LEMMA ReadIs ==
  ASSUME NEW queue \in Seq(ToDaemon), queue # <<>>,
         NEW m, m = Head(queue), NEW rest, rest = Tail(queue)
  PROVE  /\ Has(queue, Logins) <=> m.type = "Login" \/ Has(rest, Logins)
         /\ Has(queue, Cancels) <=> m.type = "FingerprintCancel" \/ Has(rest, Cancels)
         /\ Has(queue, Runs) <=> m.type = "FingerprintLogin" \/ Has(rest, Runs)
         /\ \A u : Has(queue, ProbesFor(u))
                     <=> (m.type = "FingerprintProbe" /\ m.user = u) \/ Has(rest, ProbesFor(u))
         /\ \A u, x : Has(queue, OtherRuns(u, x))
                        <=> \/ m.type = "FingerprintLogin" /\ ~(m.user = u /\ m.session = x)
                            \/ Has(rest, OtherRuns(u, x))
         /\ NoneBefore(queue, Controls, Runs)
              <=> /\ NoneBefore(rest, Controls, Runs)
                  /\ m.type \in {"FingerprintCancel", "Login", "FingerprintLogin"}
                       => ~Has(rest, Runs)
         /\ NoneBefore(queue, Stops, Cancels)
              <=> /\ NoneBefore(rest, Stops, Cancels)
                  /\ m.type \in {"FingerprintCancel", "Login"} => ~Has(rest, Cancels)
         /\ NoneBefore(queue, Logins, Logins)
              <=> /\ NoneBefore(rest, Logins, Logins)
                  /\ m.type = "Login" => ~Has(rest, Logins)
         /\ \A u : NoneBefore(queue, ProbesFor(u), Controls)
              <=> /\ NoneBefore(rest, ProbesFor(u), Controls)
                  /\ m.type = "FingerprintProbe" /\ m.user = u => ~Has(rest, Controls)
<1>0. m \in ToDaemon
  OBVIOUS
<1>1. \A S, T :
        /\ Has(queue, S) <=> m \in S \/ Has(rest, S)
        /\ NoneBefore(queue, S, T) <=> NoneBefore(rest, S, T) /\ (m \in S => ~Has(rest, T))
  BY TakenIs
<1>2. /\ m \in Logins <=> m.type = "Login"
      /\ m \in Cancels <=> m.type = "FingerprintCancel"
      /\ m \in Runs <=> m.type = "FingerprintLogin"
      /\ m \in Stops <=> m.type \in {"FingerprintCancel", "Login"}
      /\ m \in Controls <=> m.type \in {"FingerprintCancel", "Login", "FingerprintLogin"}
      /\ \A u : m \in ProbesFor(u) <=> m.type = "FingerprintProbe" /\ m.user = u
      /\ \A u, x : m \in OtherRuns(u, x)
                     <=> m.type = "FingerprintLogin" /\ ~(m.user = u /\ m.session = x)
  BY <1>0 DEF Logins, Cancels, Runs, Stops, Controls, ProbesFor, OtherRuns
<1> QED
  BY <1>1, <1>2, Zenon

LEMMA KindsJoin ==
  ASSUME NEW queue \in Seq(ToDaemon)
  PROVE  /\ Has(queue, Stops) <=> Has(queue, Cancels) \/ Has(queue, Logins)
         /\ Has(queue, Controls) <=> Has(queue, Stops) \/ Has(queue, Runs)
<1>1. \A i \in DOMAIN queue : queue[i] \in ToDaemon
  OBVIOUS
<1> QED
  BY <1>1 DEF Has, Logins, Cancels, Runs, Stops, Controls

(* A message sent to the greeter, or read by it.                           *)
LEMMA ToldIs ==
  ASSUME NEW queue \in Seq(ToGreeter), NEW m \in ToGreeter,
         NEW longer, longer = Append(queue, m)
  PROVE  /\ Has(longer, Prepares) <=> Has(queue, Prepares) \/ m.type = "PrepareTransition"
         /\ Has(longer, Failures) <=> Has(queue, Failures) \/ m.type = "LoginFailed"
         /\ Has(longer, Successes) <=> Has(queue, Successes) \/ m.type = "LoginSucceeded"
         /\ Has(longer, Finishes) <=> Has(queue, Finishes) \/ m.type = "FingerprintFinished"
         /\ \A u : Has(longer, AnswersFor(u))
                     <=> \/ Has(queue, AnswersFor(u))
                         \/ m.type = "FingerprintAvailable" /\ m.user = u
         /\ NoneBefore(longer, Finishes, Finishes)
              <=> /\ NoneBefore(queue, Finishes, Finishes)
                  /\ m.type = "FingerprintFinished" => ~Has(queue, Finishes)
         /\ NoneBefore(longer, Failures, Failures)
              <=> /\ NoneBefore(queue, Failures, Failures)
                  /\ m.type = "LoginFailed" => ~Has(queue, Failures)
         /\ \A u : NoneBefore(longer, AnswersFor(u), Finishes)
              <=> /\ NoneBefore(queue, AnswersFor(u), Finishes)
                  /\ m.type = "FingerprintFinished" => ~Has(queue, AnswersFor(u))
<1>1. \A S, T :
        /\ Has(Append(queue, m), S) <=> Has(queue, S) \/ m \in S
        /\ NoneBefore(Append(queue, m), S, T)
             <=> NoneBefore(queue, S, T) /\ (m \in T => ~Has(queue, S))
  BY AppendedIs
<1>2. /\ m \in Prepares <=> m.type = "PrepareTransition"
      /\ m \in Failures <=> m.type = "LoginFailed"
      /\ m \in Successes <=> m.type = "LoginSucceeded"
      /\ m \in Finishes <=> m.type = "FingerprintFinished"
      /\ \A u : m \in AnswersFor(u) <=> m.type = "FingerprintAvailable" /\ m.user = u
  BY DEF Prepares, Failures, Successes, Finishes, AnswersFor
<1> QED
  BY <1>1, <1>2, Zenon

LEMMA HeardIs ==
  ASSUME NEW queue \in Seq(ToGreeter), queue # <<>>,
         NEW m, m = Head(queue), NEW rest, rest = Tail(queue)
  PROVE  /\ Has(queue, Prepares) <=> m.type = "PrepareTransition" \/ Has(rest, Prepares)
         /\ Has(queue, Failures) <=> m.type = "LoginFailed" \/ Has(rest, Failures)
         /\ Has(queue, Successes) <=> m.type = "LoginSucceeded" \/ Has(rest, Successes)
         /\ Has(queue, Finishes) <=> m.type = "FingerprintFinished" \/ Has(rest, Finishes)
         /\ \A u : Has(queue, AnswersFor(u))
                     <=> \/ m.type = "FingerprintAvailable" /\ m.user = u
                         \/ Has(rest, AnswersFor(u))
         /\ NoneBefore(queue, Finishes, Finishes)
              <=> /\ NoneBefore(rest, Finishes, Finishes)
                  /\ m.type = "FingerprintFinished" => ~Has(rest, Finishes)
         /\ NoneBefore(queue, Failures, Failures)
              <=> /\ NoneBefore(rest, Failures, Failures)
                  /\ m.type = "LoginFailed" => ~Has(rest, Failures)
         /\ \A u : NoneBefore(queue, AnswersFor(u), Finishes)
              <=> /\ NoneBefore(rest, AnswersFor(u), Finishes)
                  /\ m.type = "FingerprintAvailable" /\ m.user = u => ~Has(rest, Finishes)
<1>0. m \in ToGreeter
  OBVIOUS
<1>1. \A S, T :
        /\ Has(queue, S) <=> m \in S \/ Has(rest, S)
        /\ NoneBefore(queue, S, T) <=> NoneBefore(rest, S, T) /\ (m \in S => ~Has(rest, T))
  BY TakenIs
<1>2. /\ m \in Prepares <=> m.type = "PrepareTransition"
      /\ m \in Failures <=> m.type = "LoginFailed"
      /\ m \in Successes <=> m.type = "LoginSucceeded"
      /\ m \in Finishes <=> m.type = "FingerprintFinished"
      /\ \A u : m \in AnswersFor(u) <=> m.type = "FingerprintAvailable" /\ m.user = u
  BY <1>0 DEF Prepares, Failures, Successes, Finishes, AnswersFor
<1> QED
  BY <1>1, <1>2, Zenon

-----------------------------------------------------------------------------
(* What the two sides, and the messages between them, must agree on.       *)

(* A run, and a cancel, is sent after everything that could disturb it.    *)
SentInOrder ==
  /\ NoneBefore(toDaemon, Controls, Runs)
  /\ NoneBefore(toDaemon, Stops, Cancels)

(* What the daemon listens for, or will, the greeter has begun: it still   *)
(* counts on it, or has sent a cancel, or PAM has accepted the finger.     *)
RunsAreMeant ==
  /\ Listens => ~Has(toDaemon, Runs)
  /\ Listens \/ Has(toDaemon, Runs) => runActive \/ Has(toDaemon, Cancels) \/ Won

(* What the greeter counts on is under way: the daemon listens for that    *)
(* user and session, or will, or has said how it ended.                    *)
RunsAreServed ==
  runActive =>
    /\ ~Has(toDaemon, Stops)
    /\ ~Has(toDaemon, OtherRuns(reader.user, fingerprintSession))
    /\ Listens => listenedFor = [user |-> reader.user, session |-> fingerprintSession]
    /\ \/ Listens \/ Has(toDaemon, Runs)
       \/ Has(toGreeter, Finishes) \/ Has(toGreeter, Prepares)
    /\ Has(toGreeter, Finishes) =>
         ~Listens /\ ~Has(toDaemon, Runs) /\ NoneBefore(toGreeter, Finishes, Finishes)

(* When the probe for "u" is answered, whatever was under way has ended.   *)
ProbesComeLast(u) ==
  reader.state = "probing" /\ reader.user = u =>
    /\ NoneBefore(toDaemon, ProbesFor(u), Controls)
    /\ Has(probes, {u}) \/ Has(toGreeter, AnswersFor(u)) => ~Has(toDaemon, Controls)
    /\ NoneBefore(toGreeter, AnswersFor(u), Finishes)

(* A password is sent once, and awaited until the daemon has answered it.  *)
PasswordAwaited ==
  /\ Has(toDaemon, Logins) /\ ~Won =>
       /\ authenticating /\ ~Password /\ ~Has(toGreeter, Failures)
       /\ NoneBefore(toDaemon, Logins, Logins)
  /\ Password =>
       /\ authenticating /\ ~Has(toDaemon, Logins)
       /\ ~Has(toGreeter, Failures) /\ ~Has(toGreeter, Successes)
  /\ authenticating =>
       \/ Has(toDaemon, Logins) \/ Password
       \/ Has(toGreeter, Failures) \/ Has(toGreeter, Successes)
  /\ Has(toGreeter, Failures) /\ ~Won =>
       authenticating /\ NoneBefore(toGreeter, Failures, Failures)
  /\ Has(toGreeter, Prepares) \/ Has(toGreeter, Successes) => Won

Agreement ==
  /\ SentInOrder
  /\ RunsAreMeant
  /\ RunsAreServed
  /\ \A u \in Users : ProbesComeLast(u)
  /\ PasswordAwaited

(* The greeter's own steps leave the daemon as it is.                      *)
DaemonSame ==
  /\ Listens' <=> Listens
  /\ Password' <=> Password
  /\ Won' <=> Won
  /\ listenedFor' = listenedFor

LEMMA DaemonUntouched ==
  ASSUME UNCHANGED <<vars, listenedFor>>
  PROVE  DaemonSame
BY DEF vars, DaemonSame, Listens, Listening, Password, Won, IsActive, authVars, loginVars, lookupVars,
   reuseVars, restVars

(* A run that is stopped is cancelled after everything but its own message. *)
LEMMA StoppingIs ==
  ASSUME GreeterTypeOK, Agreement
  PROVE  /\ Stopping \in Seq(ToDaemon)
         /\ Has(Stopping, Logins) <=> Has(toDaemon, Logins)
         /\ Has(Stopping, Cancels) <=> Has(toDaemon, Cancels) \/ runActive
         /\ Has(Stopping, Runs) <=> Has(toDaemon, Runs)
         /\ \A u : Has(Stopping, ProbesFor(u)) <=> Has(toDaemon, ProbesFor(u))
         /\ NoneBefore(Stopping, Controls, Runs)
         /\ NoneBefore(Stopping, Stops, Cancels)
         /\ NoneBefore(Stopping, Logins, Logins) <=> NoneBefore(toDaemon, Logins, Logins)
<1>0. toDaemon \in Seq(ToDaemon) /\ Cancel \in ToDaemon
  BY TypeParts, SentTypes
<1>1. CASE ~runActive
  BY <1>0, <1>1 DEF Stopping, Agreement, SentInOrder
<1>2. CASE runActive
  <2>1. Stopping = Append(toDaemon, Cancel) /\ Cancel.type = "FingerprintCancel"
    BY <1>2 DEF Stopping, Cancel
  <2>2. ~Has(toDaemon, Stops)
    BY <1>2 DEF Agreement, RunsAreServed
  <2>3. Stopping \in Seq(ToDaemon)
    BY <1>0, <2>1
  <2> QED
    BY <1>0, <1>2, <2>1, <2>2, <2>3, SentIs DEF Agreement, SentInOrder
<1> QED
  BY <1>1, <1>2

LEMMA NoneAtAll ==
  ASSUME NEW queue, NEW S, NEW T, ~Has(queue, S)
  PROVE  NoneBefore(queue, S, T)
BY DEF Has, NoneBefore

(* The view, and the reader's queued call.                                 *)
LEMMA StopAgrees ==
  ASSUME GreeterTypeOK, RunInv, Agreement, DaemonSame, Leaves(Stopping),
         UNCHANGED <<toGreeter, probes, authenticating>>
  PROVE  Agreement'
<1>1. toDaemon' = Stopping /\ ~runActive' /\ reader'.state # "probing"
  BY DEF Leaves, Reader!Busy
<1>2. SentInOrder'
  BY <1>1, StoppingIs DEF SentInOrder
<1>3. RunsAreMeant'
  BY <1>1, StoppingIs DEF Agreement, RunsAreMeant, DaemonSame
<1>4. RunsAreServed' /\ \A u \in Users : ProbesComeLast(u)'
  BY <1>1 DEF RunsAreServed, ProbesComeLast
<1>5. PasswordAwaited'
  BY <1>1, StoppingIs DEF Agreement, PasswordAwaited, DaemonSame
<1> QED
  BY <1>2, <1>3, <1>4, <1>5 DEF Agreement

LEMMA ProbeAgrees ==
  ASSUME GreeterTypeOK, RunInv, Agreement, DaemonSame, NEW u \in Users, Probes(u),
         ~ProbeUnderWay(u),
         UNCHANGED <<toGreeter, probes, authenticating>>
  PROVE  Agreement'
<1>1. /\ toDaemon' = Append(Stopping, Probe(u)) /\ ~runActive'
      /\ reader'.state = "probing" /\ reader'.user = u
      /\ Probe(u) \in ToDaemon /\ Probe(u).type = "FingerprintProbe" /\ Probe(u).user = u
      /\ Stopping \in Seq(ToDaemon)
  BY SentTypes, StoppingIs DEF Probes, Probe
<1>q. /\ Has(toDaemon', Logins) <=> Has(toDaemon, Logins)
      /\ Has(toDaemon', Cancels) <=> Has(toDaemon, Cancels) \/ runActive
      /\ Has(toDaemon', Runs) <=> Has(toDaemon, Runs)
      /\ NoneBefore(toDaemon', Controls, Runs)
      /\ NoneBefore(toDaemon', Stops, Cancels)
      /\ NoneBefore(toDaemon', Logins, Logins) <=> NoneBefore(toDaemon, Logins, Logins)
      /\ NoneBefore(toDaemon', ProbesFor(u), Controls)
           <=> NoneBefore(Stopping, ProbesFor(u), Controls)
  <2>1. /\ Has(toDaemon', Logins) <=> Has(Stopping, Logins)
        /\ Has(toDaemon', Cancels) <=> Has(Stopping, Cancels)
        /\ Has(toDaemon', Runs) <=> Has(Stopping, Runs)
        /\ NoneBefore(toDaemon', Controls, Runs) <=> NoneBefore(Stopping, Controls, Runs)
        /\ NoneBefore(toDaemon', Stops, Cancels) <=> NoneBefore(Stopping, Stops, Cancels)
        /\ NoneBefore(toDaemon', Logins, Logins) <=> NoneBefore(Stopping, Logins, Logins)
        /\ NoneBefore(toDaemon', ProbesFor(u), Controls)
             <=> NoneBefore(Stopping, ProbesFor(u), Controls)
    BY <1>1, SentIs
  <2> QED
    BY <2>1, StoppingIs
<1>2. SentInOrder'
  BY <1>q DEF SentInOrder
<1>3. RunsAreMeant'
  BY <1>q DEF Agreement, RunsAreMeant, DaemonSame
<1>4. RunsAreServed'
  BY <1>1 DEF RunsAreServed
<1>5. ProbesComeLast(u)'
  <2>1. ~Has(toDaemon, ProbesFor(u)) /\ ~Has(probes, {u}) /\ ~Has(toGreeter, AnswersFor(u))
    BY DEF ProbeUnderWay, Has, ProbesFor, AnswersFor
  <2>2. /\ NoneBefore(Stopping, ProbesFor(u), Controls)
        /\ NoneBefore(toGreeter, AnswersFor(u), Finishes)
    BY <2>1, StoppingIs, NoneAtAll
  <2> QED
    BY <1>q, <2>1, <2>2 DEF ProbesComeLast
<1>6. \A v \in Users : ProbesComeLast(v)'
  BY <1>1, <1>5 DEF ProbesComeLast
<1>7. PasswordAwaited'
  BY <1>q DEF Agreement, PasswordAwaited, DaemonSame
<1> QED
  BY <1>2, <1>3, <1>4, <1>6, <1>7 DEF Agreement

LEMMA LoginAgrees ==
  ASSUME GreeterTypeOK, RunInv, Agreement, DaemonSame, Leaves(Append(Stopping, Login)),
         ~authenticating, authenticating', UNCHANGED <<toGreeter, probes>>
  PROVE  Agreement'
<1>1. /\ toDaemon' = Append(Stopping, Login) /\ ~runActive' /\ reader'.state # "probing"
      /\ Login \in ToDaemon /\ Login.type = "Login"
      /\ Stopping \in Seq(ToDaemon)
  BY StoppingIs DEF Leaves, Login, ToDaemon, Reader!Busy
<1>q. /\ Has(toDaemon', Logins)
      /\ Has(toDaemon', Cancels) <=> Has(toDaemon, Cancels) \/ runActive
      /\ Has(toDaemon', Runs) <=> Has(toDaemon, Runs)
      /\ NoneBefore(toDaemon', Controls, Runs)
      /\ NoneBefore(toDaemon', Stops, Cancels)
      /\ NoneBefore(toDaemon', Logins, Logins)
           <=> NoneBefore(toDaemon, Logins, Logins) /\ ~Has(toDaemon, Logins)
  BY <1>1, SentIs, StoppingIs
<1>2. SentInOrder'
  BY <1>q DEF SentInOrder
<1>3. RunsAreMeant'
  BY <1>q DEF Agreement, RunsAreMeant, DaemonSame
<1>4. RunsAreServed' /\ \A u \in Users : ProbesComeLast(u)'
  BY <1>1 DEF RunsAreServed, ProbesComeLast
<1>5. PasswordAwaited'
  <2>1. Has(toDaemon, Logins) => Won
    BY DEF Agreement, PasswordAwaited
  <2>2. ~Password /\ (Has(toGreeter, Failures) => Won)
    BY DEF Agreement, PasswordAwaited
  <2>3. ~Has(toDaemon, Logins) => NoneBefore(toDaemon, Logins, Logins)
    BY NoneAtAll
  <2> QED
    BY <1>q, <2>1, <2>2, <2>3 DEF Agreement, PasswordAwaited, DaemonSame
<1> QED
  BY <1>2, <1>3, <1>4, <1>5 DEF Agreement

(* A message that no login and no run depends on.                          *)
LEMMA OtherAgrees ==
  ASSUME GreeterTypeOK, Agreement, DaemonSame, NEW m \in ToDaemon,
         m.type \in {"EnableTransitions", "TransitionReady"}, toDaemon' = Append(toDaemon, m),
         UNCHANGED <<readerVars, toGreeter, probes, authenticating>>
  PROVE  Agreement'
<1>0. toDaemon \in Seq(ToDaemon)
  BY TypeParts
<1>q. /\ Has(toDaemon', Logins) <=> Has(toDaemon, Logins)
      /\ Has(toDaemon', Cancels) <=> Has(toDaemon, Cancels)
      /\ Has(toDaemon', Runs) <=> Has(toDaemon, Runs)
      /\ \A u, x : Has(toDaemon', OtherRuns(u, x)) <=> Has(toDaemon, OtherRuns(u, x))
      /\ NoneBefore(toDaemon', Controls, Runs) <=> NoneBefore(toDaemon, Controls, Runs)
      /\ NoneBefore(toDaemon', Stops, Cancels) <=> NoneBefore(toDaemon, Stops, Cancels)
      /\ NoneBefore(toDaemon', Logins, Logins) <=> NoneBefore(toDaemon, Logins, Logins)
      /\ \A u : NoneBefore(toDaemon', ProbesFor(u), Controls)
                  <=> NoneBefore(toDaemon, ProbesFor(u), Controls)
  BY <1>0, SentIs
<1>k. /\ Has(toDaemon', Stops) <=> Has(toDaemon, Stops)
      /\ Has(toDaemon', Controls) <=> Has(toDaemon, Controls)
  <2>1. toDaemon' \in Seq(ToDaemon)
    BY <1>0
  <2> QED
    BY <1>0, <1>q, <2>1, KindsJoin
<1>2. SentInOrder' /\ RunsAreMeant' /\ RunsAreServed'
  BY <1>q, <1>k DEF Agreement, SentInOrder, RunsAreMeant, RunsAreServed, DaemonSame, readerVars
<1>3. \A u \in Users : ProbesComeLast(u)'
  BY <1>q, <1>k DEF Agreement, ProbesComeLast, readerVars
<1>4. PasswordAwaited'
  BY <1>q DEF Agreement, PasswordAwaited, DaemonSame
<1> QED
  BY <1>2, <1>3, <1>4 DEF Agreement

-----------------------------------------------------------------------------
(* What the greeter makes of a message of the daemon.                      *)

LEMMA WonHearsNoFinger == Won => ~Listens
BY DEF Won, Listens, Listening

LEMMA HeardOf ==
  ASSUME GreeterTypeOK, toGreeter # <<>>, toGreeter' = Tail(toGreeter)
  PROVE  /\ Has(toGreeter, Prepares)
              <=> Head(toGreeter).type = "PrepareTransition" \/ Has(toGreeter', Prepares)
         /\ Has(toGreeter, Failures)
              <=> Head(toGreeter).type = "LoginFailed" \/ Has(toGreeter', Failures)
         /\ Has(toGreeter, Successes)
              <=> Head(toGreeter).type = "LoginSucceeded" \/ Has(toGreeter', Successes)
         /\ Has(toGreeter, Finishes)
              <=> Head(toGreeter).type = "FingerprintFinished" \/ Has(toGreeter', Finishes)
         /\ \A u : Has(toGreeter, AnswersFor(u)) <=>
              \/ Head(toGreeter).type = "FingerprintAvailable" /\ Head(toGreeter).user = u
              \/ Has(toGreeter', AnswersFor(u))
         /\ NoneBefore(toGreeter, Finishes, Finishes) <=>
              /\ NoneBefore(toGreeter', Finishes, Finishes)
              /\ Head(toGreeter).type = "FingerprintFinished" => ~Has(toGreeter', Finishes)
         /\ NoneBefore(toGreeter, Failures, Failures) <=>
              /\ NoneBefore(toGreeter', Failures, Failures)
              /\ Head(toGreeter).type = "LoginFailed" => ~Has(toGreeter', Failures)
         /\ \A u : NoneBefore(toGreeter, AnswersFor(u), Finishes) <=>
              /\ NoneBefore(toGreeter', AnswersFor(u), Finishes)
              /\ Head(toGreeter).type = "FingerprintAvailable" /\ Head(toGreeter).user = u
                   => ~Has(toGreeter', Finishes)
<1>0. toGreeter \in Seq(ToGreeter)
  BY TypeParts DEF RestTypes
<1> QED
  BY <1>0, HeardIs

LEMMA RunSentIs ==
  ASSUME NEW queue \in Seq(ToDaemon), NEW u \in Users, NEW x \in KnownSessions,
         NEW longer, longer = Append(queue, Run(u, x))
  PROVE  /\ longer \in Seq(ToDaemon)
         /\ Has(longer, Logins) <=> Has(queue, Logins)
         /\ Has(longer, Cancels) <=> Has(queue, Cancels)
         /\ Has(longer, Runs)
         /\ Has(longer, OtherRuns(u, x)) <=> Has(queue, OtherRuns(u, x))
         /\ NoneBefore(longer, Controls, Runs)
              <=> NoneBefore(queue, Controls, Runs) /\ ~Has(queue, Controls)
         /\ NoneBefore(longer, Stops, Cancels) <=> NoneBefore(queue, Stops, Cancels)
         /\ NoneBefore(longer, Logins, Logins) <=> NoneBefore(queue, Logins, Logins)
<1>1. Run(u, x) \in ToDaemon
  BY SentTypes
<1>2. Run(u, x).type = "FingerprintLogin" /\ Run(u, x).user = u /\ Run(u, x).session = x
  BY DEF Run
<1>3. longer \in Seq(ToDaemon)
  BY <1>1
<1> QED
  BY <1>1, <1>2, <1>3, SentIs

(* One that says nothing of a finger, and one that says nothing at all.    *)
LEMMA HeardAgrees ==
  ASSUME GreeterTypeOK, RunInv, Agreement, DaemonSame, toGreeter # <<>>,
         toGreeter' = Tail(toGreeter), UNCHANGED probes,
         \/ /\ Head(toGreeter).type = "PrepareTransition"
            /\ (Keeps /\ ~runActive) \/ Leaves(toDaemon)
            /\ authenticating' = authenticating
         \/ /\ Head(toGreeter).type = "LoginFailed"
            /\ Keeps
            /\ authenticating' = FALSE
         \/ /\ Head(toGreeter).type = "LoginSucceeded"
            /\ (Keeps /\ ~runActive) \/ Leaves(toDaemon)
            /\ authenticating' = FALSE
         \/ /\ Head(toGreeter).type = "FingerprintRejected"
            /\ Keeps
            /\ authenticating' = authenticating
         \/ /\ Head(toGreeter).type = "FingerprintAvailable"
            /\ Keeps \/ (~runActive /\ Leaves(toDaemon))
            /\ authenticating' = authenticating
         \/ /\ Head(toGreeter).type = "FingerprintFinished"
            /\ (Keeps /\ ~runActive) \/ Leaves(toDaemon)
            /\ authenticating' = authenticating
  PROVE  Agreement'
<1> DEFINE type == Head(toGreeter).type
<1>0. toGreeter \in Seq(ToGreeter)
  BY TypeParts DEF RestTypes
<1>q. /\ Has(toGreeter, Prepares) <=> type = "PrepareTransition" \/ Has(toGreeter', Prepares)
      /\ Has(toGreeter, Failures) <=> type = "LoginFailed" \/ Has(toGreeter', Failures)
      /\ Has(toGreeter, Successes) <=> type = "LoginSucceeded" \/ Has(toGreeter', Successes)
      /\ Has(toGreeter, Finishes) <=> type = "FingerprintFinished" \/ Has(toGreeter', Finishes)
      /\ \A u : Has(toGreeter', AnswersFor(u)) => Has(toGreeter, AnswersFor(u))
      /\ NoneBefore(toGreeter, Finishes, Finishes) => NoneBefore(toGreeter', Finishes, Finishes)
      /\ NoneBefore(toGreeter, Failures, Failures) <=>
           /\ NoneBefore(toGreeter', Failures, Failures)
           /\ type = "LoginFailed" => ~Has(toGreeter', Failures)
      /\ \A u : NoneBefore(toGreeter, AnswersFor(u), Finishes)
                  => NoneBefore(toGreeter', AnswersFor(u), Finishes)
  BY HeardOf
<1>m. Keeps \/ Leaves(toDaemon)
  OBVIOUS
<1>d. toDaemon' = toDaemon
  BY <1>m DEF Keeps, Leaves
<1>w. type \in {"PrepareTransition", "LoginSucceeded"} => Won
  BY <1>q DEF Agreement, PasswordAwaited
<1>a. /\ authenticating' = IF type \in {"LoginFailed", "LoginSucceeded"} THEN FALSE ELSE authenticating
      /\ type \in {"PrepareTransition", "LoginFailed", "LoginSucceeded", "FingerprintRejected",
                   "FingerprintAvailable", "FingerprintFinished"}
  OBVIOUS
<1>1. SentInOrder'
  BY <1>d DEF Agreement, SentInOrder
<1>5. PasswordAwaited'
  <2> HIDE DEF type
  <2> QED
    BY <1>d, <1>q, <1>w, <1>a DEF Agreement, PasswordAwaited, DaemonSame
<1>2. CASE Keeps /\ runActive
  <2>1. type \in {"LoginFailed", "FingerprintRejected", "FingerprintAvailable"}
           \/ Leaves(toDaemon)
    BY <1>2
  <2>2. ~Leaves(toDaemon)
    BY <1>2 DEF Keeps, Leaves
  <2>3. type \in {"LoginFailed", "FingerprintRejected", "FingerprintAvailable"}
    BY <2>1, <2>2
  <2>k. /\ reader'.state = reader.state /\ reader'.user = reader.user
        /\ UNCHANGED <<fingerprintSession, runActive>>
    BY <1>2 DEF Keeps
  <2> HIDE DEF type
  <2>4. RunsAreMeant' /\ RunsAreServed'
    BY <1>2, <1>d, <1>q, <2>k, <2>3 DEF Agreement, RunsAreMeant, RunsAreServed, DaemonSame
  <2>5. \A u \in Users : ProbesComeLast(u)'
    BY <1>2, <1>d, <1>q, <2>k DEF Agreement, ProbesComeLast
  <2> QED
    BY <1>1, <1>5, <2>4, <2>5 DEF Agreement
<1>3. CASE ~(Keeps /\ runActive)
  <2>1. ~runActive'
    BY <1>3, <1>m DEF Keeps, Leaves
  <2>2. ~runActive \/ Won \/ (type = "FingerprintFinished" /\ Leaves(toDaemon))
    BY <1>3, <1>w DEF Leaves
  <2>k. \A u \in Users : ProbesComeLast(u)'
    <3>1. CASE Keeps
      <4>1. reader'.state = reader.state /\ reader'.user = reader.user
        BY <3>1 DEF Keeps
      <4> HIDE DEF type
      <4> QED
        BY <1>d, <1>q, <4>1 DEF Agreement, ProbesComeLast
    <3>2. CASE Leaves(toDaemon)
      BY <3>2 DEF Leaves, Reader!Busy, ProbesComeLast
    <3> QED
      BY <1>m, <3>1, <3>2
  <2> HIDE DEF type
  <2>3. RunsAreMeant'
    BY <1>d, <1>q, <2>1, <2>2 DEF Agreement, RunsAreMeant, RunsAreServed, DaemonSame
  <2>4. RunsAreServed'
    BY <2>1 DEF RunsAreServed
  <2> QED
    BY <1>1, <1>5, <2>k, <2>3, <2>4 DEF Agreement
<1> QED
  BY <1>2, <1>3

(* The reader begins a run: for a probe that was answered, or once more.   *)
LEMMA BeginAgrees ==
  ASSUME GreeterTypeOK, RunInv, Agreement, DaemonSame, toGreeter # <<>>,
         toGreeter' = Tail(toGreeter), UNCHANGED <<probes, authenticating>>, Begins,
         \/ /\ Head(toGreeter).type = "FingerprintAvailable"
            /\ reader.state = "probing" /\ reader.user = Head(toGreeter).user
         \/ Head(toGreeter).type = "FingerprintFinished" /\ reader.state = "listening"
  PROVE  Agreement'
<1> DEFINE type == Head(toGreeter).type
           u == reader.user
           x == fingerprintSession
<1>0. /\ toGreeter \in Seq(ToGreeter) /\ toDaemon \in Seq(ToDaemon)
      /\ u \in Users
  BY TypeParts DEF RestTypes, RunInv, Reader!Busy
<1>q. /\ Has(toGreeter', Prepares) <=> Has(toGreeter, Prepares)
      /\ Has(toGreeter', Failures) <=> Has(toGreeter, Failures)
      /\ Has(toGreeter', Successes) <=> Has(toGreeter, Successes)
      /\ Has(toGreeter, Finishes) <=> type = "FingerprintFinished" \/ Has(toGreeter', Finishes)
      /\ Has(toGreeter, AnswersFor(u)) <=>
           (type = "FingerprintAvailable" /\ Head(toGreeter).user = u) \/ Has(toGreeter', AnswersFor(u))
      /\ NoneBefore(toGreeter, Finishes, Finishes) <=>
           /\ NoneBefore(toGreeter', Finishes, Finishes)
           /\ type = "FingerprintFinished" => ~Has(toGreeter', Finishes)
      /\ NoneBefore(toGreeter', Failures, Failures) <=> NoneBefore(toGreeter, Failures, Failures)
      /\ NoneBefore(toGreeter, AnswersFor(u), Finishes) <=>
           /\ NoneBefore(toGreeter', AnswersFor(u), Finishes)
           /\ type = "FingerprintAvailable" /\ Head(toGreeter).user = u => ~Has(toGreeter', Finishes)
  BY HeardOf
<1>b. reader'.state = "listening" /\ reader'.user = u /\ x' = x
  BY DEF Begins
<1>k. /\ Has(toDaemon, Stops) <=> Has(toDaemon, Cancels) \/ Has(toDaemon, Logins)
      /\ Has(toDaemon, Controls) <=> Has(toDaemon, Stops) \/ Has(toDaemon, Runs)
  BY <1>0, KindsJoin
(* Whichever way, nothing that was under way is left.                      *)
<1>1. ~runActive \/ type = "FingerprintFinished"
  BY DEF RunInv
<1>2. ASSUME x \in KnownSessions
      PROVE  ~Has(toDaemon, Controls) /\ ~Listens /\ ~Has(toGreeter', Finishes)
  <2>1. CASE type = "FingerprintAvailable"
    <3>1. /\ ~Has(toDaemon, Controls) /\ ~Has(toGreeter', Finishes)
          /\ ~runActive
      BY <1>0, <1>q, <2>1 DEF Agreement, ProbesComeLast, RunInv
    <3>2. ~Listens
      BY <1>k, <3>1, WonHearsNoFinger DEF Agreement, RunsAreMeant
    <3> QED
      BY <3>1, <3>2
  <2>2. CASE type = "FingerprintFinished"
    <3>1. runActive
      BY <1>2, <2>2 DEF RunInv
    <3> QED
      BY <1>k, <1>q, <2>2, <3>1 DEF Agreement, RunsAreServed
  <2> QED
    BY <2>1, <2>2
<1>p. \A v \in Users : ProbesComeLast(v)'
  BY <1>b DEF ProbesComeLast
<1>3. CASE x \in KnownSessions
  <2>1. runActive' /\ toDaemon' = Append(toDaemon, Run(u, x))
    BY <1>3 DEF Begins
  <2>q. /\ toDaemon' \in Seq(ToDaemon)
        /\ Has(toDaemon', Logins) <=> Has(toDaemon, Logins)
        /\ Has(toDaemon', Cancels) <=> Has(toDaemon, Cancels)
        /\ Has(toDaemon', Runs)
        /\ Has(toDaemon', OtherRuns(u, x)) <=> Has(toDaemon, OtherRuns(u, x))
        /\ NoneBefore(toDaemon', Controls, Runs)
             <=> NoneBefore(toDaemon, Controls, Runs) /\ ~Has(toDaemon, Controls)
        /\ NoneBefore(toDaemon', Stops, Cancels) <=> NoneBefore(toDaemon, Stops, Cancels)
        /\ NoneBefore(toDaemon', Logins, Logins) <=> NoneBefore(toDaemon, Logins, Logins)
    <3> HIDE DEF u, x, type
    <3> QED
      BY <1>0, <1>3, <2>1, RunSentIs
  <2>o. ~Has(toDaemon, OtherRuns(u, x))
    BY <1>2, <1>3, <1>k DEF Has, OtherRuns, Runs
  <2>s. ~Has(toDaemon', Stops)
    BY <1>2, <1>3, <1>k, <2>q, KindsJoin
  <2> HIDE DEF type
  <2>2. SentInOrder'
    BY <1>2, <1>3, <2>q DEF Agreement, SentInOrder
  <2>3. RunsAreMeant'
    BY <1>2, <1>3, <2>1 DEF RunsAreMeant, DaemonSame
  <2>4. RunsAreServed'
    BY <1>2, <1>3, <1>b, <2>o, <2>q, <2>s DEF RunsAreServed, DaemonSame
  <2>5. PasswordAwaited'
    BY <1>q, <2>q DEF Agreement, PasswordAwaited, DaemonSame
  <2> QED
    BY <1>p, <2>2, <2>3, <2>4, <2>5 DEF Agreement
<1>4. CASE x \notin KnownSessions
  <2>1. ~runActive' /\ toDaemon' = toDaemon /\ ~runActive
    BY <1>4 DEF Begins, RunInv
  <2> HIDE DEF type
  <2>2. SentInOrder' /\ RunsAreMeant' /\ RunsAreServed'
    BY <2>1 DEF Agreement, SentInOrder, RunsAreMeant, RunsAreServed, DaemonSame
  <2>5. PasswordAwaited'
    BY <1>q, <2>1 DEF Agreement, PasswordAwaited, DaemonSame
  <2> QED
    BY <1>p, <2>2, <2>5 DEF Agreement
<1> QED
  BY <1>3, <1>4

-----------------------------------------------------------------------------
(* What the daemon's steps do to it.                                       *)

LEMMA ToldOf ==
  ASSUME GreeterTypeOK, NEW m \in ToGreeter, toGreeter' = Append(toGreeter, m)
  PROVE  /\ Has(toGreeter', Prepares)
              <=> Has(toGreeter, Prepares) \/ m.type = "PrepareTransition"
         /\ Has(toGreeter', Failures) <=> Has(toGreeter, Failures) \/ m.type = "LoginFailed"
         /\ Has(toGreeter', Successes) <=> Has(toGreeter, Successes) \/ m.type = "LoginSucceeded"
         /\ Has(toGreeter', Finishes)
              <=> Has(toGreeter, Finishes) \/ m.type = "FingerprintFinished"
         /\ \A u : Has(toGreeter', AnswersFor(u)) <=>
              \/ Has(toGreeter, AnswersFor(u))
              \/ m.type = "FingerprintAvailable" /\ m.user = u
         /\ NoneBefore(toGreeter', Finishes, Finishes) <=>
              /\ NoneBefore(toGreeter, Finishes, Finishes)
              /\ m.type = "FingerprintFinished" => ~Has(toGreeter, Finishes)
         /\ NoneBefore(toGreeter', Failures, Failures) <=>
              /\ NoneBefore(toGreeter, Failures, Failures)
              /\ m.type = "LoginFailed" => ~Has(toGreeter, Failures)
         /\ \A u : NoneBefore(toGreeter', AnswersFor(u), Finishes) <=>
              /\ NoneBefore(toGreeter, AnswersFor(u), Finishes)
              /\ m.type = "FingerprintFinished" => ~Has(toGreeter, AnswersFor(u))
<1>0. toGreeter \in Seq(ToGreeter)
  BY TypeParts DEF RestTypes
<1> QED
  BY <1>0, ToldIs

LEMMA ReadOf ==
  ASSUME GreeterTypeOK, toDaemon # <<>>, toDaemon' = Tail(toDaemon)
  PROVE  /\ Has(toDaemon, Logins) <=> Head(toDaemon).type = "Login" \/ Has(toDaemon', Logins)
         /\ Has(toDaemon, Cancels)
              <=> Head(toDaemon).type = "FingerprintCancel" \/ Has(toDaemon', Cancels)
         /\ Has(toDaemon, Runs)
              <=> Head(toDaemon).type = "FingerprintLogin" \/ Has(toDaemon', Runs)
         /\ Has(toDaemon, Stops)
              <=> Head(toDaemon).type \in {"FingerprintCancel", "Login"} \/ Has(toDaemon', Stops)
         /\ Has(toDaemon, Controls) <=>
              \/ Head(toDaemon).type \in {"FingerprintCancel", "Login", "FingerprintLogin"}
              \/ Has(toDaemon', Controls)
         /\ \A u, x : Has(toDaemon, OtherRuns(u, x)) <=>
              \/ /\ Head(toDaemon).type = "FingerprintLogin"
                 /\ ~(Head(toDaemon).user = u /\ Head(toDaemon).session = x)
              \/ Has(toDaemon', OtherRuns(u, x))
         /\ NoneBefore(toDaemon, Controls, Runs) <=>
              /\ NoneBefore(toDaemon', Controls, Runs)
              /\ Head(toDaemon).type \in {"FingerprintCancel", "Login", "FingerprintLogin"}
                   => ~Has(toDaemon', Runs)
         /\ NoneBefore(toDaemon, Stops, Cancels) <=>
              /\ NoneBefore(toDaemon', Stops, Cancels)
              /\ Head(toDaemon).type \in {"FingerprintCancel", "Login"}
                   => ~Has(toDaemon', Cancels)
         /\ NoneBefore(toDaemon, Logins, Logins) <=>
              /\ NoneBefore(toDaemon', Logins, Logins)
              /\ Head(toDaemon).type = "Login" => ~Has(toDaemon', Logins)
         /\ \A u : NoneBefore(toDaemon, ProbesFor(u), Controls) <=>
              /\ NoneBefore(toDaemon', ProbesFor(u), Controls)
              /\ Head(toDaemon).type = "FingerprintProbe" /\ Head(toDaemon).user = u
                   => ~Has(toDaemon', Controls)
<1> DEFINE queue == toDaemon
           rest == toDaemon'
           m == Head(queue)
<1>0. /\ queue \in Seq(ToDaemon) /\ rest \in Seq(ToDaemon)
      /\ queue # <<>> /\ rest = Tail(queue) /\ m = Head(queue)
  BY TypeParts
<1> HIDE DEF queue, rest, m
<1>1. /\ Has(queue, Stops) <=> Has(queue, Cancels) \/ Has(queue, Logins)
      /\ Has(rest, Stops) <=> Has(rest, Cancels) \/ Has(rest, Logins)
      /\ Has(queue, Controls) <=> Has(queue, Stops) \/ Has(queue, Runs)
      /\ Has(rest, Controls) <=> Has(rest, Stops) \/ Has(rest, Runs)
  BY <1>0, KindsJoin
<1>2. /\ Has(queue, Logins) <=> m.type = "Login" \/ Has(rest, Logins)
      /\ Has(queue, Cancels)
           <=> m.type = "FingerprintCancel" \/ Has(rest, Cancels)
      /\ Has(queue, Runs)
           <=> m.type = "FingerprintLogin" \/ Has(rest, Runs)
      /\ Has(queue, Stops)
           <=> m.type \in {"FingerprintCancel", "Login"} \/ Has(rest, Stops)
      /\ Has(queue, Controls) <=>
           \/ m.type \in {"FingerprintCancel", "Login", "FingerprintLogin"}
           \/ Has(rest, Controls)
      /\ \A u, x : Has(queue, OtherRuns(u, x)) <=>
           \/ /\ m.type = "FingerprintLogin"
              /\ ~(m.user = u /\ m.session = x)
           \/ Has(rest, OtherRuns(u, x))
      /\ NoneBefore(queue, Controls, Runs) <=>
           /\ NoneBefore(rest, Controls, Runs)
           /\ m.type \in {"FingerprintCancel", "Login", "FingerprintLogin"}
                => ~Has(rest, Runs)
      /\ NoneBefore(queue, Stops, Cancels) <=>
           /\ NoneBefore(rest, Stops, Cancels)
           /\ m.type \in {"FingerprintCancel", "Login"}
                => ~Has(rest, Cancels)
      /\ NoneBefore(queue, Logins, Logins) <=>
           /\ NoneBefore(rest, Logins, Logins)
           /\ m.type = "Login" => ~Has(rest, Logins)
      /\ \A u : NoneBefore(queue, ProbesFor(u), Controls) <=>
           /\ NoneBefore(rest, ProbesFor(u), Controls)
           /\ m.type = "FingerprintProbe" /\ m.user = u
                => ~Has(rest, Controls)
  BY <1>0, <1>1, ReadIs
<1> QED
  BY <1>2 DEF queue, rest, m

(* The greeter's own state, while the daemon moves.                        *)
GreeterSame ==
  /\ reader'.state = reader.state /\ reader'.user = reader.user
  /\ UNCHANGED <<fingerprintSession, runActive, authenticating>>

(* A step the greeter did not cause.                                       *)
LEMMA SeenAgrees ==
  ASSUME GreeterTypeOK, RunInv, Agreement, NEW quick \in BOOLEAN, Seen(quick),
         toGreeter' = toGreeter \o Answers(quick),
         GreeterSame, UNCHANGED <<toDaemon, probes, listenedFor>>
  PROVE  Agreement'
<1>0. /\ toGreeter \in Seq(ToGreeter)
      /\ Prepare \in ToGreeter /\ Failure \in ToGreeter /\ Success \in ToGreeter
      /\ Finish(quick) \in ToGreeter
      /\ Prepare.type = "PrepareTransition" /\ Failure.type = "LoginFailed"
      /\ Success.type = "LoginSucceeded" /\ Finish(quick).type = "FingerprintFinished"
  BY TypeParts, HeardTypes DEF RestTypes, Prepare, Failure, Success, Finish
<1>s. SentInOrder'
  BY DEF Agreement, SentInOrder
<1>1. CASE Unheard(quick)
  <2>1. toGreeter' = toGreeter
    BY <1>0, <1>1 DEF Unheard
  <2>2. RunsAreMeant' /\ RunsAreServed'
    BY <1>1, <2>1 DEF Unheard, GreeterSame, Agreement, RunsAreMeant, RunsAreServed
  <2>3. \A u \in Users : ProbesComeLast(u)'
    BY <2>1 DEF GreeterSame, Agreement, ProbesComeLast
  <2>4. PasswordAwaited'
    BY <1>1, <2>1 DEF Unheard, GreeterSame, Agreement, PasswordAwaited
  <2> QED
    BY <1>s, <2>2, <2>3, <2>4 DEF Agreement
<1>2. CASE RunEnds(quick)
  <2>1. toGreeter' = Append(toGreeter, Finish(quick))
    BY <1>0, <1>2, Joining DEF RunEnds
  <2>q. /\ Has(toGreeter', Prepares) <=> Has(toGreeter, Prepares)
        /\ Has(toGreeter', Failures) <=> Has(toGreeter, Failures)
        /\ Has(toGreeter', Successes) <=> Has(toGreeter, Successes)
        /\ Has(toGreeter', Finishes)
        /\ \A u : Has(toGreeter', AnswersFor(u)) <=> Has(toGreeter, AnswersFor(u))
        /\ ~Has(toGreeter, Finishes) => NoneBefore(toGreeter', Finishes, Finishes)
        /\ NoneBefore(toGreeter', Failures, Failures) <=> NoneBefore(toGreeter, Failures, Failures)
        /\ \A u : ~Has(toGreeter, AnswersFor(u)) => NoneBefore(toGreeter', AnswersFor(u), Finishes)
    BY <1>0, <2>1, ToldOf, NoneAtAll
  <2>2. RunsAreMeant' /\ RunsAreServed'
    BY <1>2, <2>q DEF RunEnds, GreeterSame, Agreement, RunsAreMeant, RunsAreServed
  <2>3. \A u \in Users : ProbesComeLast(u)'
    <3>1. reader.state = "probing" => Has(toDaemon, Controls)
      <4>1. reader.state = "probing" => Has(toDaemon, Cancels)
        BY <1>2 DEF RunEnds, Agreement, RunsAreMeant, RunInv
      <4> QED
        BY <4>1, TypeParts, KindsJoin
    <3> QED
      BY <2>q, <3>1 DEF GreeterSame, Agreement, ProbesComeLast
  <2>4. PasswordAwaited'
    BY <1>2, <2>q DEF RunEnds, GreeterSame, Agreement, PasswordAwaited
  <2> QED
    BY <1>s, <2>2, <2>3, <2>4 DEF Agreement
<1>3. ASSUME NEW m \in ToGreeter, m.type \in {"PrepareTransition", "LoginFailed", "LoginSucceeded"},
             toGreeter' = Append(toGreeter, m)
      PROVE  /\ Has(toGreeter', Prepares) <=> Has(toGreeter, Prepares) \/ m.type = "PrepareTransition"
             /\ Has(toGreeter', Failures) <=> Has(toGreeter, Failures) \/ m.type = "LoginFailed"
             /\ Has(toGreeter', Successes) <=> Has(toGreeter, Successes) \/ m.type = "LoginSucceeded"
             /\ Has(toGreeter', Finishes) <=> Has(toGreeter, Finishes)
             /\ NoneBefore(toGreeter', Finishes, Finishes) <=> NoneBefore(toGreeter, Finishes, Finishes)
             /\ NoneBefore(toGreeter, Failures, Failures) /\ m.type # "LoginFailed"
                  => NoneBefore(toGreeter', Failures, Failures)
             /\ ~Has(toGreeter, Failures) => NoneBefore(toGreeter', Failures, Failures)
             /\ \A u \in Users : ProbesComeLast(u)'
  <2>1. \A u : /\ Has(toGreeter', AnswersFor(u)) <=> Has(toGreeter, AnswersFor(u))
               /\ NoneBefore(toGreeter', AnswersFor(u), Finishes)
                    <=> NoneBefore(toGreeter, AnswersFor(u), Finishes)
    BY <1>3, ToldOf
  <2>2. \A u \in Users : ProbesComeLast(u)'
    BY <2>1 DEF GreeterSame, Agreement, ProbesComeLast
  <2> QED
    BY <1>3, <2>2, ToldOf, NoneAtAll
<1>4. CASE PamAgrees(quick)
  <2>1. toGreeter' = Append(toGreeter, Prepare)
    BY <1>0, <1>4, Joining DEF PamAgrees
  <2>2. RunsAreMeant' /\ RunsAreServed'
    BY <1>0, <1>3, <1>4, <2>1 DEF PamAgrees, GreeterSame, Agreement, RunsAreMeant, RunsAreServed
  <2>4. PasswordAwaited'
    BY <1>0, <1>3, <1>4, <2>1 DEF PamAgrees, GreeterSame, Agreement, PasswordAwaited
  <2> QED
    BY <1>0, <1>3, <1>s, <2>1, <2>2, <2>4 DEF Agreement
<1>5. CASE Fails(quick)
  <2>1. toGreeter' = Append(toGreeter, Failure)
    BY <1>0, <1>5, Joining DEF Fails
  <2>l. ~Listens
    BY <1>5, WonHearsNoFinger DEF Fails, Password, Listens, Listening
  <2>2. RunsAreMeant' /\ RunsAreServed'
    BY <1>0, <1>3, <1>5, <2>1, <2>l DEF Fails, GreeterSame, Agreement, RunsAreMeant, RunsAreServed
  <2>4. PasswordAwaited'
    BY <1>0, <1>3, <1>5, <2>1 DEF Fails, GreeterSame, Agreement, PasswordAwaited
  <2> QED
    BY <1>0, <1>3, <1>s, <2>1, <2>2, <2>4 DEF Agreement
<1>6. CASE Succeeds(quick)
  <2>1. toGreeter' = Append(toGreeter, Success)
    BY <1>0, <1>6, Joining DEF Succeeds
  <2>l. ~Listens
    BY <1>6, WonHearsNoFinger DEF Succeeds
  <2>2. RunsAreMeant' /\ RunsAreServed'
    BY <1>0, <1>3, <1>6, <2>1, <2>l DEF Succeeds, GreeterSame, Agreement, RunsAreMeant, RunsAreServed
  <2>4. PasswordAwaited'
    BY <1>0, <1>3, <1>6, <2>1 DEF Succeeds, GreeterSame, Agreement, PasswordAwaited
  <2> QED
    BY <1>0, <1>3, <1>s, <2>1, <2>2, <2>4 DEF Agreement
<1> QED
  BY <1>1, <1>2, <1>4, <1>5, <1>6 DEF Seen

(* The daemon reads a message that says nothing of a login or a run, or a  *)
(* cancel.                                                                 *)
LEMMA ReadAgrees ==
  ASSUME GreeterTypeOK, RunInv, Agreement, toDaemon # <<>>, toDaemon' = Tail(toDaemon),
         \/ Head(toDaemon).type \in {"EnableTransitions", "TransitionReady"} /\ (Listens' <=> Listens)
         \/ Head(toDaemon).type = "FingerprintCancel" /\ ~Listens',
         Password' <=> Password, Won => Won',
         GreeterSame, UNCHANGED <<toGreeter, probes, listenedFor>>
  PROVE  Agreement'
<1> DEFINE type == Head(toDaemon).type
<1>t. /\ type \in {"EnableTransitions", "TransitionReady", "FingerprintCancel"}
      /\ type # "FingerprintCancel" => (Listens' <=> Listens)
      /\ type = "FingerprintCancel" => ~Listens'
  OBVIOUS
<1>q. /\ Has(toDaemon, Logins) <=> Has(toDaemon', Logins)
      /\ Has(toDaemon, Cancels) <=> type = "FingerprintCancel" \/ Has(toDaemon', Cancels)
      /\ Has(toDaemon, Runs) <=> Has(toDaemon', Runs)
      /\ Has(toDaemon, Stops) <=> type = "FingerprintCancel" \/ Has(toDaemon', Stops)
      /\ Has(toDaemon', Controls) => Has(toDaemon, Controls)
      /\ \A u, x : Has(toDaemon', OtherRuns(u, x)) => Has(toDaemon, OtherRuns(u, x))
      /\ NoneBefore(toDaemon, Controls, Runs) <=>
           /\ NoneBefore(toDaemon', Controls, Runs)
           /\ type = "FingerprintCancel" => ~Has(toDaemon', Runs)
      /\ NoneBefore(toDaemon, Stops, Cancels) => NoneBefore(toDaemon', Stops, Cancels)
      /\ NoneBefore(toDaemon, Logins, Logins) <=> NoneBefore(toDaemon', Logins, Logins)
      /\ \A u : NoneBefore(toDaemon, ProbesFor(u), Controls)
                  => NoneBefore(toDaemon', ProbesFor(u), Controls)
  BY <1>t, ReadOf
<1> HIDE DEF type
<1>1. SentInOrder'
  BY <1>q DEF Agreement, SentInOrder
<1>2. RunsAreMeant' /\ RunsAreServed'
  BY <1>t, <1>q DEF GreeterSame, Agreement, SentInOrder, RunsAreMeant, RunsAreServed
<1>3. \A u \in Users : ProbesComeLast(u)'
  BY <1>q DEF GreeterSame, Agreement, ProbesComeLast
<1>4. PasswordAwaited'
  BY <1>q DEF GreeterSame, Agreement, PasswordAwaited
<1> QED
  BY <1>1, <1>2, <1>3, <1>4 DEF Agreement

(* It reads a password: another login is under way, or this one begins.    *)
LEMMA LoginReadAgrees ==
  ASSUME GreeterTypeOK, RunInv, Agreement, toDaemon # <<>>, toDaemon' = Tail(toDaemon),
         Head(toDaemon).type = "Login",
         \/ /\ ~Listens' /\ (Password' <=> Password) /\ (Won' <=> Won)
            /\ toGreeter' = Append(toGreeter, Failure)
         \/ /\ ~Won /\ ~Listens' /\ Password'
            /\ toGreeter' = toGreeter,
         GreeterSame, UNCHANGED <<probes, listenedFor>>
  PROVE  Agreement'
<1> DEFINE refused == toGreeter' = Append(toGreeter, Failure)
<1>0. Failure \in ToGreeter /\ Failure.type = "LoginFailed"
  BY HeardTypes DEF Failure
<1>q. /\ Has(toDaemon, Logins)
      /\ Has(toDaemon, Cancels) <=> Has(toDaemon', Cancels)
      /\ Has(toDaemon, Runs) <=> Has(toDaemon', Runs)
      /\ Has(toDaemon, Stops) /\ Has(toDaemon, Controls)
      /\ NoneBefore(toDaemon, Controls, Runs) <=>
           NoneBefore(toDaemon', Controls, Runs) /\ ~Has(toDaemon', Runs)
      /\ NoneBefore(toDaemon, Stops, Cancels) => NoneBefore(toDaemon', Stops, Cancels)
      /\ NoneBefore(toDaemon, Logins, Logins) <=>
           NoneBefore(toDaemon', Logins, Logins) /\ ~Has(toDaemon', Logins)
      /\ \A u : NoneBefore(toDaemon, ProbesFor(u), Controls)
                  => NoneBefore(toDaemon', ProbesFor(u), Controls)
  BY ReadOf
<1>1. ~runActive /\ SentInOrder' /\ RunsAreMeant' /\ RunsAreServed'
  BY <1>q DEF GreeterSame, Agreement, SentInOrder, RunsAreMeant, RunsAreServed
<1>2. CASE toGreeter' = Append(toGreeter, Failure) /\ (Password' <=> Password) /\ (Won' <=> Won)
  <2>q. /\ Has(toGreeter', Prepares) <=> Has(toGreeter, Prepares)
        /\ Has(toGreeter', Failures)
        /\ Has(toGreeter', Successes) <=> Has(toGreeter, Successes)
        /\ \A u : Has(toGreeter', AnswersFor(u)) <=> Has(toGreeter, AnswersFor(u))
        /\ NoneBefore(toGreeter', Failures, Failures)
             <=> NoneBefore(toGreeter, Failures, Failures) /\ ~Has(toGreeter, Failures)
        /\ ~Has(toGreeter, Failures) => NoneBefore(toGreeter, Failures, Failures)
        /\ \A u : NoneBefore(toGreeter', AnswersFor(u), Finishes)
                    <=> NoneBefore(toGreeter, AnswersFor(u), Finishes)
    BY <1>0, <1>2, ToldOf, NoneAtAll
  <2>1. \A u \in Users : ProbesComeLast(u)'
    BY <1>q, <2>q DEF GreeterSame, Agreement, ProbesComeLast
  <2>2. PasswordAwaited'
    BY <1>2, <1>q, <2>q DEF GreeterSame, Agreement, PasswordAwaited
  <2> QED
    BY <1>1, <2>1, <2>2 DEF Agreement
<1>3. CASE toGreeter' = toGreeter /\ ~Won /\ Password'
  <2>1. \A u \in Users : ProbesComeLast(u)'
    BY <1>3, <1>q DEF GreeterSame, Agreement, ProbesComeLast
  <2>2. PasswordAwaited'
    BY <1>3, <1>q DEF GreeterSame, Agreement, PasswordAwaited
  <2> QED
    BY <1>1, <2>1, <2>2 DEF Agreement
<1> QED
  BY <1>2, <1>3

(* It reads a run: it listens, or has another login to serve.              *)
LEMMA RunReadAgrees ==
  ASSUME GreeterTypeOK, RunInv, Agreement, toDaemon # <<>>, toDaemon' = Tail(toDaemon),
         Head(toDaemon).type = "FingerprintLogin", Password' <=> Password,
         \/ /\ ~Won /\ Listens'
            /\ listenedFor' = [user |-> Head(toDaemon).user, session |-> Head(toDaemon).session]
            /\ toGreeter' = toGreeter
         \/ /\ (Listens' <=> Listens) /\ (Won' <=> Won)
            /\ toGreeter' = Append(toGreeter, Finish(TRUE)),
         GreeterSame, UNCHANGED probes
  PROVE  Agreement'
<1>0. Finish(TRUE) \in ToGreeter /\ Finish(TRUE).type = "FingerprintFinished"
  BY HeardTypes DEF Finish
<1>q. /\ Has(toDaemon, Logins) <=> Has(toDaemon', Logins)
      /\ Has(toDaemon, Cancels) <=> Has(toDaemon', Cancels)
      /\ Has(toDaemon, Runs)
      /\ Has(toDaemon, Stops) <=> Has(toDaemon', Stops)
      /\ Has(toDaemon, Controls)
      /\ \A u, x : Has(toDaemon, OtherRuns(u, x)) <=>
           \/ ~(Head(toDaemon).user = u /\ Head(toDaemon).session = x)
           \/ Has(toDaemon', OtherRuns(u, x))
      /\ NoneBefore(toDaemon, Controls, Runs) <=>
           NoneBefore(toDaemon', Controls, Runs) /\ ~Has(toDaemon', Runs)
      /\ NoneBefore(toDaemon, Stops, Cancels) <=> NoneBefore(toDaemon', Stops, Cancels)
      /\ NoneBefore(toDaemon, Logins, Logins) <=> NoneBefore(toDaemon', Logins, Logins)
      /\ \A u : NoneBefore(toDaemon, ProbesFor(u), Controls)
                  => NoneBefore(toDaemon', ProbesFor(u), Controls)
  BY ReadOf
<1>1. SentInOrder' /\ ~Has(toDaemon', Runs) /\ ~Listens
  BY <1>q DEF Agreement, SentInOrder, RunsAreMeant
<1>2. CASE /\ ~Won /\ Listens'
           /\ listenedFor' = [user |-> Head(toDaemon).user, session |-> Head(toDaemon).session]
           /\ toGreeter' = toGreeter
  <2>1. RunsAreMeant'
    BY <1>1, <1>2, <1>q DEF GreeterSame, Agreement, RunsAreMeant
  <2>2. RunsAreServed'
    BY <1>2, <1>q DEF GreeterSame, Agreement, RunsAreServed
  <2>3. \A u \in Users : ProbesComeLast(u)'
    BY <1>2, <1>q DEF GreeterSame, Agreement, ProbesComeLast
  <2>4. PasswordAwaited'
    <3>1. ~Has(toGreeter, Prepares) /\ ~Has(toGreeter, Successes)
      BY <1>2 DEF Agreement, PasswordAwaited
    <3> QED
      BY <1>2, <1>q, <3>1 DEF GreeterSame, Agreement, PasswordAwaited
  <2> QED
    BY <1>1, <2>1, <2>2, <2>3, <2>4 DEF Agreement
<1>3. CASE /\ (Listens' <=> Listens) /\ (Won' <=> Won)
           /\ toGreeter' = Append(toGreeter, Finish(TRUE))
  <2>q. /\ Has(toGreeter', Prepares) <=> Has(toGreeter, Prepares)
        /\ Has(toGreeter', Failures) <=> Has(toGreeter, Failures)
        /\ Has(toGreeter', Successes) <=> Has(toGreeter, Successes)
        /\ Has(toGreeter', Finishes)
        /\ \A u : Has(toGreeter', AnswersFor(u)) <=> Has(toGreeter, AnswersFor(u))
        /\ ~Has(toGreeter, Finishes) => NoneBefore(toGreeter', Finishes, Finishes)
        /\ NoneBefore(toGreeter', Failures, Failures) <=> NoneBefore(toGreeter, Failures, Failures)
        /\ \A u : ~Has(toGreeter, AnswersFor(u)) => NoneBefore(toGreeter', AnswersFor(u), Finishes)
    BY <1>0, <1>3, ToldOf, NoneAtAll
  <2>1. RunsAreMeant' /\ RunsAreServed'
    BY <1>1, <1>3, <1>q, <2>q DEF GreeterSame, Agreement, RunsAreMeant, RunsAreServed
  <2>3. \A u \in Users : ProbesComeLast(u)'
    BY <1>q, <2>q DEF GreeterSame, Agreement, ProbesComeLast
  <2>4. PasswordAwaited'
    BY <1>3, <1>q, <2>q DEF GreeterSame, Agreement, PasswordAwaited
  <2> QED
    BY <1>1, <2>1, <2>3, <2>4 DEF Agreement
<1> QED
  BY <1>2, <1>3

(* It reads a probe, and answers one.                                      *)
LEMMA ProbeReadAgrees ==
  ASSUME GreeterTypeOK, RunInv, Agreement, DaemonSame, toDaemon # <<>>, toDaemon' = Tail(toDaemon),
         Head(toDaemon).type = "FingerprintProbe", probes' = Append(probes, Head(toDaemon).user),
         GreeterSame, UNCHANGED toGreeter
  PROVE  Agreement'
<1>q. /\ Has(toDaemon, Logins) <=> Has(toDaemon', Logins)
      /\ Has(toDaemon, Cancels) <=> Has(toDaemon', Cancels)
      /\ Has(toDaemon, Runs) <=> Has(toDaemon', Runs)
      /\ Has(toDaemon, Stops) <=> Has(toDaemon', Stops)
      /\ Has(toDaemon, Controls) <=> Has(toDaemon', Controls)
      /\ \A u, x : Has(toDaemon, OtherRuns(u, x)) <=> Has(toDaemon', OtherRuns(u, x))
      /\ NoneBefore(toDaemon, Controls, Runs) <=> NoneBefore(toDaemon', Controls, Runs)
      /\ NoneBefore(toDaemon, Stops, Cancels) <=> NoneBefore(toDaemon', Stops, Cancels)
      /\ NoneBefore(toDaemon, Logins, Logins) <=> NoneBefore(toDaemon', Logins, Logins)
      /\ \A u : NoneBefore(toDaemon, ProbesFor(u), Controls) <=>
           /\ NoneBefore(toDaemon', ProbesFor(u), Controls)
           /\ Head(toDaemon).user = u => ~Has(toDaemon', Controls)
  BY ReadOf
<1>p. \A u : Has(probes', {u}) <=> Has(probes, {u}) \/ Head(toDaemon).user = u
  <2>1. probes \in Seq(Users) /\ Head(toDaemon).user \in Users
    BY TypeParts, HeadTypes DEF RestTypes
  <2>2. \A S : Has(probes', S) <=> Has(probes, S) \/ Head(toDaemon).user \in S
    BY <2>1, AppendedIs
  <2> QED
    BY <2>2
<1>1. SentInOrder' /\ RunsAreMeant' /\ RunsAreServed'
  BY <1>q DEF DaemonSame, GreeterSame, Agreement, SentInOrder, RunsAreMeant, RunsAreServed
<1>2. \A u \in Users : ProbesComeLast(u)'
  BY <1>q, <1>p DEF GreeterSame, Agreement, ProbesComeLast
<1>3. PasswordAwaited'
  BY <1>q DEF DaemonSame, GreeterSame, Agreement, PasswordAwaited
<1> QED
  BY <1>1, <1>2, <1>3 DEF Agreement

LEMMA AnswerAgrees ==
  ASSUME GreeterTypeOK, RunInv, Agreement, DaemonSame, NEW i \in DOMAIN probes,
         NEW m \in ToGreeter, m.type = "FingerprintAvailable", m.user = probes[i],
         toGreeter' = Append(toGreeter, m), probes' = RemoveAt(probes, i),
         GreeterSame, UNCHANGED toDaemon
  PROVE  Agreement'
<1>q. /\ Has(toGreeter', Prepares) <=> Has(toGreeter, Prepares)
      /\ Has(toGreeter', Failures) <=> Has(toGreeter, Failures)
      /\ Has(toGreeter', Successes) <=> Has(toGreeter, Successes)
      /\ Has(toGreeter', Finishes) <=> Has(toGreeter, Finishes)
      /\ \A u : Has(toGreeter', AnswersFor(u)) <=> Has(toGreeter, AnswersFor(u)) \/ probes[i] = u
      /\ NoneBefore(toGreeter', Finishes, Finishes) <=> NoneBefore(toGreeter, Finishes, Finishes)
      /\ NoneBefore(toGreeter', Failures, Failures) <=> NoneBefore(toGreeter, Failures, Failures)
      /\ \A u : NoneBefore(toGreeter', AnswersFor(u), Finishes)
                  <=> NoneBefore(toGreeter, AnswersFor(u), Finishes)
  BY ToldOf
<1>p. \A u : /\ Has(probes', {u}) => Has(probes, {u})
             /\ probes[i] = u => Has(probes, {u})
  <2>1. probes \in Seq(Users)
    BY TypeParts DEF RestTypes
  <2>2. \A j \in DOMAIN probes' : \E k \in DOMAIN probes : probes'[j] = probes[k]
    BY <2>1, RemovedOne
  <2> QED
    BY <2>2 DEF Has
<1>1. SentInOrder' /\ RunsAreMeant' /\ RunsAreServed'
  BY <1>q DEF DaemonSame, GreeterSame, Agreement, SentInOrder, RunsAreMeant, RunsAreServed
<1>2. \A u \in Users : ProbesComeLast(u)'
  BY <1>q, <1>p DEF GreeterSame, Agreement, ProbesComeLast
<1>3. PasswordAwaited'
  BY <1>q DEF DaemonSame, GreeterSame, Agreement, PasswordAwaited
<1> QED
  BY <1>1, <1>2, <1>3 DEF Agreement

(* It reports a rejected scan, or moves on unheard.                        *)
LEMMA UnheardAgrees ==
  ASSUME GreeterTypeOK, RunInv, Agreement, Listens' <=> Listens, Password' <=> Password, Won => Won',
         \/ toGreeter' = toGreeter
         \/ toGreeter = <<>> /\ toGreeter' = <<[type |-> "FingerprintRejected"]>>,
         GreeterSame, UNCHANGED <<toDaemon, probes, listenedFor>>
  PROVE  Agreement'
<1>q. /\ Has(toGreeter', Prepares) <=> Has(toGreeter, Prepares)
      /\ Has(toGreeter', Failures) <=> Has(toGreeter, Failures)
      /\ Has(toGreeter', Successes) <=> Has(toGreeter, Successes)
      /\ Has(toGreeter', Finishes) <=> Has(toGreeter, Finishes)
      /\ \A u : Has(toGreeter', AnswersFor(u)) <=> Has(toGreeter, AnswersFor(u))
      /\ NoneBefore(toGreeter', Finishes, Finishes) <=> NoneBefore(toGreeter, Finishes, Finishes)
      /\ NoneBefore(toGreeter', Failures, Failures) <=> NoneBefore(toGreeter, Failures, Failures)
      /\ \A u : NoneBefore(toGreeter', AnswersFor(u), Finishes)
                  <=> NoneBefore(toGreeter, AnswersFor(u), Finishes)
  <2>1. CASE toGreeter' = toGreeter
    BY <2>1
  <2>2. CASE toGreeter = <<>> /\ toGreeter' = <<[type |-> "FingerprintRejected"]>>
    <3> DEFINE m == [type |-> "FingerprintRejected"]
    <3>1. m \in ToGreeter /\ m.type = "FingerprintRejected"
      BY DEF ToGreeter
    <3>2. toGreeter' = Append(toGreeter, m)
      BY <2>2
    <3> HIDE DEF m
    <3> QED
      BY <3>1, <3>2, ToldOf
  <2> QED
    BY <2>1, <2>2
<1>1. SentInOrder' /\ RunsAreMeant' /\ RunsAreServed'
  BY <1>q DEF GreeterSame, Agreement, SentInOrder, RunsAreMeant, RunsAreServed
<1>2. \A u \in Users : ProbesComeLast(u)'
  BY <1>q DEF GreeterSame, Agreement, ProbesComeLast
<1>3. PasswordAwaited'
  BY <1>q DEF GreeterSame, Agreement, PasswordAwaited
<1> QED
  BY <1>1, <1>2, <1>3 DEF Agreement

-----------------------------------------------------------------------------
(* The greeter's steps.                                                    *)

FirstKept == toDaemon # <<>> => toDaemon' # <<>> /\ Head(toDaemon') = Head(toDaemon)

LEMMA AddedLater ==
  ASSUME NEW E, NEW queue \in Seq(E), NEW m \in E
  PROVE  Append(queue, m) # <<>> /\ (queue # <<>> => Head(Append(queue, m)) = Head(queue))
<1>1. Len(Append(queue, m)) = Len(queue) + 1 /\ Len(queue) \in Nat
  OBVIOUS
<1>2. Append(queue, m) # <<>>
  <2>1. Len(<<>>) = 0 /\ Len(Append(queue, m)) # 0
    BY <1>1
  <2> QED
    BY <2>1
<1>3. ASSUME queue # <<>> PROVE Head(Append(queue, m)) = Head(queue)
  <2>1. 1 \in 1..Len(queue)
    BY <1>3
  <2> QED
    BY <2>1, <1>1
<1> QED
  BY <1>2, <1>3

LEMMA MovesAdd ==
  ASSUME GreeterTypeOK, RunInv,
         \/ Moves
         \/ \E m \in ToDaemon : toDaemon' = Append(toDaemon, m)
         \/ \E m \in ToDaemon : toDaemon' = Append(Stopping, m)
  PROVE  FirstKept
<1>0. toDaemon \in Seq(ToDaemon) /\ Stopping \in Seq(ToDaemon)
  BY TypeParts, SentTypes DEF Stopping
<1>s. toDaemon # <<>> => Stopping # <<>> /\ Head(Stopping) = Head(toDaemon)
  BY <1>0, SentTypes, AddedLater DEF Stopping
<1>1. CASE toDaemon' = toDaemon
  BY <1>1 DEF FirstKept
<1>2. CASE toDaemon' = Stopping
  BY <1>2, <1>s DEF FirstKept
<1>3. ASSUME NEW m \in ToDaemon, toDaemon' = Append(toDaemon, m) PROVE FirstKept
  BY <1>0, <1>3, AddedLater DEF FirstKept
<1>4. ASSUME NEW m \in ToDaemon, toDaemon' = Append(Stopping, m) PROVE FirstKept
  BY <1>0, <1>s, <1>4, AddedLater DEF FirstKept
<1>5. CASE Moves
  <2>1. \/ toDaemon' = toDaemon \/ toDaemon' = Stopping
        \/ \E m \in ToDaemon : toDaemon' = Append(toDaemon, m)
        \/ \E m \in ToDaemon : toDaemon' = Append(Stopping, m)
    BY <1>5, SentTypes DEF Moves, Keeps, Leaves, Probes, Begins, RunInv
  <2> QED
    BY <1>1, <1>2, <1>3, <1>4, <2>1
<1> QED
  BY <1>3, <1>4, <1>5

LEMMA GreeterAgrees ==
  ASSUME GreeterTypeOK, RunInv, Agreement, PromptProbes, View \/ GreeterRuns
  PROVE  Agreement' /\ FirstKept /\ GreeterUp /\ UNCHANGED vars
<1>d. ASSUME UNCHANGED vars, UNCHANGED listenedFor
      PROVE  /\ DaemonSame
             /\ (Listens' <=> Listens) /\ (Password' <=> Password) /\ (Won => Won')
  <2>1. UNCHANGED <<vars, listenedFor>>
    BY <1>d
  <2> QED
    BY <2>1, DaemonUntouched DEF DaemonSame
<1>0. ReaderTypes /\ RestTypes /\ toDaemon \in Seq(ToDaemon) /\ Stopping \in Seq(ToDaemon)
  BY TypeParts, SentTypes DEF Stopping
<1>1. ASSUME NEW u \in Users, NEW x \in Sessions, StartFingerprint(u, x)
      PROVE  Agreement' /\ FirstKept /\ GreeterUp /\ UNCHANGED vars
  <2>1. /\ Keeps \/ Probes(u)
        /\ ~authenticating /\ ~ProbeUnderWay(u) /\ GreeterUp /\ UNCHANGED vars
        /\ UNCHANGED <<listenedFor, authenticating, toGreeter, probes>>
    BY <1>1, StartMoves DEF StartFingerprint, ViewCalls
  <2>2. FirstKept
    <3>1. Moves
      BY <2>1 DEF Moves
    <3> QED
      BY <3>1, MovesAdd
  <2>3. CASE Keeps
    <3>1. GreeterSame /\ UNCHANGED <<toDaemon, toGreeter, probes, listenedFor>>
      BY <2>1, <2>3 DEF Keeps, GreeterSame
    <3>2. (Listens' <=> Listens) /\ (Password' <=> Password) /\ (Won => Won')
      BY <2>1, <1>d
    <3> QED
      BY <2>1, <2>2, <3>1, <3>2, UnheardAgrees
  <2>4. CASE Probes(u)
    <3>1. DaemonSame
      BY <2>1, <1>d
    <3> QED
      BY <2>1, <2>2, <2>4, <3>1, ProbeAgrees
  <2> QED
    BY <2>1, <2>3, <2>4
<1>2. CASE StopFingerprint \/ (RunUnusable /\ Leaves(Stopping))
  <2>1. /\ GreeterUp /\ UNCHANGED vars
        /\ UNCHANGED <<listenedFor, authenticating, toGreeter, probes>>
    BY <1>2 DEF StopFingerprint, ViewCalls, RunUnusable
  <2>2. Leaves(Stopping)
    BY <1>2, StopMoves DEF StopFingerprint, Leaves
  <2>3. FirstKept
    <3>1. Moves
      BY <2>2 DEF Moves
    <3> QED
      BY <3>1, MovesAdd
  <2>4. DaemonSame
    BY <2>1, <1>d
  <2> QED
    BY <2>1, <2>2, <2>3, <2>4, StopAgrees
<1>3. CASE SendLogin
  <2>1. /\ GreeterUp /\ UNCHANGED vars
        /\ UNCHANGED <<listenedFor, toGreeter, probes>>
        /\ ~authenticating /\ authenticating'
        /\ ReaderBecomes(Reader!Stop(reader), runActive, fingerprintSession)
        /\ toDaemon' = toDaemon \o SentBy(Reader!Stop(reader), runActive, fingerprintSession) \o <<Login>>
    BY <1>3 DEF SendLogin, ViewCalls, Login
  <2>2. /\ ~Reader!Busy(reader') /\ ~runActive'
        /\ toDaemon \o SentBy(Reader!Stop(reader), runActive, fingerprintSession) = Stopping
    BY <2>1, StopMoves
  <2>3. Login \in ToDaemon
    BY DEF Login, ToDaemon
  <2>4. toDaemon' = Append(Stopping, Login)
    BY <1>0, <2>1, <2>2, <2>3, Joining
  <2>5. Leaves(Append(Stopping, Login))
    BY <2>2, <2>4 DEF Leaves
  <2>6. FirstKept
    BY <2>3, <2>4, MovesAdd
  <2>7. DaemonSame
    BY <2>1, <1>d
  <2> QED
    BY <2>1, <2>5, <2>6, <2>7, LoginAgrees
<1>4. CASE FinishTransition
  <2> DEFINE m == [type |-> "TransitionReady"]
  <2>1. /\ GreeterUp /\ UNCHANGED vars
        /\ UNCHANGED <<readerVars, authenticating, toGreeter, probes, listenedFor>>
        /\ toDaemon' = Append(toDaemon, m)
        /\ m \in ToDaemon /\ m.type = "TransitionReady"
    BY <1>4 DEF FinishTransition, ToDaemon
  <2> HIDE DEF m
  <2>2. FirstKept
    BY <2>1, MovesAdd
  <2>3. DaemonSame
    BY <2>1, <1>d
  <2> QED
    BY <2>1, <2>2, <2>3, OtherAgrees
<1>5. CASE RunUnusable
  <2>1. CASE Keeps
    <3>1. /\ GreeterUp /\ UNCHANGED vars
          /\ UNCHANGED <<listenedFor, authenticating, toGreeter, probes>>
      BY <1>5 DEF RunUnusable
    <3>2. GreeterSame /\ UNCHANGED toDaemon
      BY <2>1, <3>1 DEF Keeps, GreeterSame
    <3>3. (Listens' <=> Listens) /\ (Password' <=> Password) /\ (Won => Won')
      BY <3>1, <1>d
    <3>4. FirstKept
      BY <3>2 DEF FirstKept
    <3> QED
      BY <3>1, <3>2, <3>3, <3>4, UnheardAgrees
  <2>2. CASE Leaves(Stopping)
    BY <1>2, <1>5, <2>2
  <2> QED
    BY <1>5, <2>1, <2>2, UnusableMoves
<1>6. CASE \/ PrepareTransition \/ ReadLoginFailed \/ ReadLoginSucceeded
           \/ ReadFingerprintAvailable \/ ReadFingerprintRejected \/ ReadFingerprintFinished
  <2>1. /\ GreeterUp /\ UNCHANGED vars /\ UNCHANGED <<probes, listenedFor>>
        /\ toGreeter # <<>> /\ toGreeter' = Tail(toGreeter)
    BY <1>6 DEF PrepareTransition, ReadLoginFailed, ReadLoginSucceeded, ReadFingerprintAvailable,
       ReadFingerprintRejected, ReadFingerprintFinished, GreeterReads
  <2>2. DaemonSame
    BY <2>1, <1>d
  <2>3. CASE PrepareTransition
    <3>1. /\ Head(toGreeter).type = "PrepareTransition"
          /\ UNCHANGED <<authenticating, toDaemon>>
          /\ \/ UNCHANGED readerVars /\ (authenticating \/ reader.state # "listening")
             \/ ReaderSucceeds
      BY <2>3 DEF PrepareTransition, GreeterReads
    <3>2. CASE UNCHANGED readerVars /\ (authenticating \/ reader.state # "listening")
      <4>1. Keeps /\ ~runActive
        BY <3>1, <3>2 DEF Keeps, readerVars, RunInv, Reader!Busy
      <4> QED
        BY <2>1, <2>2, <3>1, <4>1, HeardAgrees DEF FirstKept
    <3>3. CASE ReaderSucceeds
      <4>1. (Keeps /\ ~runActive) \/ Leaves(toDaemon)
        BY <3>1, <3>3, SucceedMoves
      <4> QED
        BY <2>1, <2>2, <3>1, <4>1, HeardAgrees DEF FirstKept
    <3> QED
      BY <3>1, <3>2, <3>3
  <2>4. CASE ReadLoginFailed
    <3>1. /\ Head(toGreeter).type = "LoginFailed" /\ authenticating' = FALSE
          /\ UNCHANGED <<readerVars, toDaemon>>
      BY <2>4 DEF ReadLoginFailed, GreeterReads
    <3>2. Keeps
      BY <3>1 DEF Keeps, readerVars
    <3> QED
      BY <2>1, <2>2, <3>1, <3>2, HeardAgrees DEF FirstKept
  <2>5. CASE ReadLoginSucceeded
    <3>1. /\ Head(toGreeter).type = "LoginSucceeded" /\ authenticating' = FALSE
          /\ ReaderSucceeds /\ toDaemon' = toDaemon
      BY <2>5 DEF ReadLoginSucceeded, GreeterReads
    <3>2. (Keeps /\ ~runActive) \/ Leaves(toDaemon)
      BY <3>1, SucceedMoves
    <3> QED
      BY <2>1, <2>2, <3>1, <3>2, HeardAgrees DEF FirstKept
  <2>6. CASE ReadFingerprintRejected
    <3>1. Head(toGreeter).type = "FingerprintRejected" /\ authenticating' = authenticating
      BY <2>6 DEF ReadFingerprintRejected, ReaderHandles, GreeterReads
    <3>2. Keeps
      BY <2>6, RejectMoves
    <3>3. FirstKept
      BY <3>2 DEF Keeps, FirstKept
    <3> QED
      BY <2>1, <2>2, <3>1, <3>2, <3>3, HeardAgrees
  <2>7. CASE ReadFingerprintAvailable
    <3>1. Head(toGreeter).type = "FingerprintAvailable" /\ authenticating' = authenticating
      BY <2>7 DEF ReadFingerprintAvailable, ReaderHandles, GreeterReads
    <3>2. \/ Keeps \/ (~runActive /\ Leaves(toDaemon))
          \/ reader.state = "probing" /\ reader.user = Head(toGreeter).user /\ Begins
      BY <2>7, AnswerMoves
    <3>3. FirstKept
      <4>1. Moves
        BY <3>2 DEF Moves, Reader!Busy
      <4> QED
        BY <4>1, MovesAdd
    <3>4. CASE Keeps \/ (~runActive /\ Leaves(toDaemon))
      BY <2>1, <2>2, <3>1, <3>3, <3>4, HeardAgrees
    <3>5. CASE reader.state = "probing" /\ reader.user = Head(toGreeter).user /\ Begins
      BY <2>1, <2>2, <3>1, <3>3, <3>5, BeginAgrees
    <3> QED
      BY <3>2, <3>4, <3>5
  <2>8. CASE ReadFingerprintFinished
    <3>1. Head(toGreeter).type = "FingerprintFinished" /\ authenticating' = authenticating
      BY <2>8 DEF ReadFingerprintFinished, ReaderHandles, GreeterReads
    <3>2. \/ (Keeps /\ ~runActive) \/ Leaves(toDaemon)
          \/ reader.state = "listening" /\ Begins
      BY <2>8, FinishMoves
    <3>3. FirstKept
      <4>1. Moves
        BY <3>2 DEF Moves, Reader!Busy
      <4> QED
        BY <4>1, MovesAdd
    <3>4. CASE (Keeps /\ ~runActive) \/ Leaves(toDaemon)
      BY <2>1, <2>2, <3>1, <3>3, <3>4, HeardAgrees
    <3>5. CASE reader.state = "listening" /\ Begins
      BY <2>1, <2>2, <3>1, <3>3, <3>5, BeginAgrees
    <3> QED
      BY <3>2, <3>4, <3>5
  <2> QED
    BY <1>6, <2>3, <2>4, <2>5, <2>6, <2>7, <2>8
<1> QED
  BY <1>1, <1>2, <1>3, <1>4, <1>5, <1>6 DEF View, GreeterRuns

-----------------------------------------------------------------------------
(* The two together.                                                       *)

(* Nothing is left of a greeter that is gone, or has still to come.        *)
Away ==
  /\ reader = Reader!Idle(None) /\ ~runActive /\ ~authenticating
  /\ toDaemon = <<>> /\ toGreeter = <<>> /\ probes = <<>>

(* A greeter announces its transitions before it asks for anything.        *)
AnnouncesFirst ==
  ~transitions =>
    request = None /\ toDaemon # <<>> /\ Head(toDaemon).type = "EnableTransitions"

InStep ==
  /\ autologin = FALSE
  /\ phase = "new" => ~reuseActivationPending
  /\ ~GreeterUp => Away
  /\ GreeterUp => AtGreeter /\ Agreement /\ AnnouncesFirst

LEMMA AwayAgrees ==
  ASSUME Away, request = None
  PROVE  Agreement
<1>1. \A S, T : ~Has(<<>>, S) /\ NoneBefore(<<>>, S, T)
  BY EmptyQueue
<1>2. SentInOrder /\ RunsAreMeant /\ RunsAreServed /\ PasswordAwaited
  BY <1>1 DEF Away, SentInOrder, RunsAreMeant, RunsAreServed, PasswordAwaited, Listens, Password
<1>3. reader.state = "idle"
  BY DEF Away, Reader!Idle
<1>4. \A u \in Users : ProbesComeLast(u)
  BY <1>3 DEF ProbesComeLast
<1> QED
  BY <1>2, <1>4 DEF Agreement

LEMMA InStepInit == GreeterInit => InStep
BY DEF GreeterInit, Init, InStep, Away, GreeterUp

LEMMA ConnectsInStep ==
  ASSUME TypeOK, LoginInv, AuthInv, DialogueInv, GreeterTypeOK, RunInv, InStep, GreeterConnects
  PROVE  InStep'
<1> DEFINE m == [type |-> "EnableTransitions"]
<1>1. /\ phase = "new" /\ phase' = "started" /\ greeter' = "running"
      /\ UNCHANGED <<authVars, loginVars, reuseVars, lookupVars, autologin, restVars>>
      /\ toDaemon' = <<m>>
      /\ UNCHANGED <<readerVars, authenticating, toGreeter, probes, listenedFor>>
  BY DEF GreeterConnects, StartWithGreeter, StartGreeter, backendVars
<1>2. Away /\ request = None /\ helper = "none" /\ ~reuseActivationPending /\ ~reuseLookupPending
  BY <1>1 DEF InStep, GreeterUp, LoginInv
<1>3. AtGreeter'
  <2>1. UNCHANGED loginState
    BY <1>1 DEF loginState, loginVars, reuseVars, lookupVars, restVars
  <2>2. ~transitionTimer /\ Unread = "nothing"
    BY <1>2, Queues DEF DialogueInv, TransitionInv, AuthInv, Exchange, Silent, Asking, TypeOK
  <2>3. AtGreeter
    BY <1>2, <2>2 DEF AtGreeter, Engaged, Asking
  <2> QED
    BY <2>1, <2>3, AtGreeterKept
<1>4. Agreement'
  <2>1. Agreement
    BY <1>2, AwayAgrees
  <2>2. DaemonSame
    BY <1>1 DEF DaemonSame, Listens, Password, Listening, Won, IsActive, authVars, loginVars,
       reuseVars, restVars
  <2>3. m \in ToDaemon /\ m.type = "EnableTransitions" /\ toDaemon' = Append(toDaemon, m)
    BY <1>1, <1>2 DEF ToDaemon, Away
  <2> HIDE DEF m
  <2> QED
    BY <1>1, <2>1, <2>2, <2>3, OtherAgrees
<1>5. AnnouncesFirst'
  <2>1. toDaemon' # <<>> /\ Head(toDaemon') = m /\ m.type = "EnableTransitions" /\ request' = None
    BY <1>1, <1>2 DEF loginVars
  <2> QED
    BY <2>1 DEF AnnouncesFirst
<1>6. autologin' = FALSE
  BY <1>1 DEF InStep
<1> QED
  BY <1>1, <1>3, <1>4, <1>5, <1>6 DEF InStep, GreeterUp

(* The greeter's own steps, and what neither of them sees of the other.    *)
LEMMA GreeterInStepKept ==
  ASSUME GreeterTypeOK, RunInv, InStep, PromptProbes, View \/ GreeterRuns
  PROVE  InStep'
<1>1. GreeterUp /\ UNCHANGED vars
  BY DEF View, GreeterRuns, StartFingerprint, StopFingerprint, SendLogin, FinishTransition,
     ViewCalls, RunUnusable, PrepareTransition, ReadLoginFailed, ReadLoginSucceeded,
     ReadFingerprintAvailable, ReadFingerprintRejected, ReadFingerprintFinished, GreeterReads
<1>2. AtGreeter /\ Agreement /\ AnnouncesFirst /\ autologin = FALSE
  BY <1>1 DEF InStep
<1>3. Agreement' /\ FirstKept
  BY <1>2, GreeterAgrees
<1>4. AtGreeter'
  <2>1. UNCHANGED loginState
    BY <1>1 DEF vars, loginState, loginVars, reuseVars, lookupVars, restVars
  <2> QED
    BY <1>2, <2>1, AtGreeterKept
<1>5. UNCHANGED <<request, transitions, phase, greeter, autologin>>
  BY <1>1 DEF vars, loginVars, lifeVars
<1>6. AnnouncesFirst'
  BY <1>2, <1>3, <1>5 DEF AnnouncesFirst, FirstKept
<1> QED
  BY <1>1, <1>2, <1>3, <1>4, <1>5, <1>6 DEF InStep, GreeterUp

LEMMA UnheardInStep ==
  ASSUME TypeOK, AuthInv, DialogueInv, GreeterTypeOK, RunInv, InStep, GreeterUp,
         \/ UNCHANGED vars /\ UNCHANGED greeterVars
         \/ HelperStep(Helper)
         \/ ProbeAnswered \/ ScanRejected
  PROVE  InStep'
<1>1. AtGreeter /\ Agreement /\ AnnouncesFirst /\ autologin = FALSE
  BY DEF InStep
<1>2. UNCHANGED <<request, fingerprintLogin, authenticated, transitions, phase, greeter, autologin>>
  BY DEF vars, loginVars, restVars, lifeVars, HelperStep, Helper, ProbeAnswered, ScanRejected
<1>3. AtGreeter' /\ (Won => Won')
  <2>1. ASSUME UNCHANGED vars PROVE AtGreeter' /\ (Won => Won')
    BY <1>1, <2>1, AtGreeterKept
    DEF vars, loginState, loginVars, reuseVars, lookupVars, restVars, Won, IsActive, authVars
  <2>2. CASE HelperStep(Helper)
    BY <1>1, <2>2, HelperKeepsGreeter DEF HelperStep, TypeOK
  <2> QED
    BY <2>1, <2>2 DEF ProbeAnswered, ScanRejected
<1>4. (Listens' <=> Listens) /\ (Password' <=> Password)
  BY <1>2 DEF Listens, Password, Listening
<1>5. CASE ~ProbeAnswered
  <2>1. /\ GreeterSame /\ UNCHANGED <<toDaemon, probes, listenedFor>>
        /\ \/ toGreeter' = toGreeter
           \/ toGreeter = <<>> /\ toGreeter' = <<[type |-> "FingerprintRejected"]>>
    BY <1>5 DEF GreeterSame, greeterVars, backendVars, readerVars, HelperStep, ScanRejected
  <2>2. Agreement'
    BY <1>1, <1>3, <1>4, <2>1, UnheardAgrees
  <2>3. AnnouncesFirst'
    BY <1>1, <1>2, <2>1 DEF AnnouncesFirst
  <2> QED
    BY <1>1, <1>2, <1>3, <2>2, <2>3 DEF InStep, GreeterUp
<1>6. CASE ProbeAnswered
  <2>1. /\ GreeterSame /\ UNCHANGED <<vars, toDaemon, listenedFor>>
        /\ \E i \in DOMAIN probes, available \in BOOLEAN :
             /\ toGreeter' = Append(toGreeter, [type |-> "FingerprintAvailable",
                                                user |-> probes[i], available |-> available])
             /\ probes' = RemoveAt(probes, i)
    BY <1>6 DEF ProbeAnswered, GreeterSame, backendVars, readerVars
  <2>2. PICK i \in DOMAIN probes, available \in BOOLEAN :
             /\ toGreeter' = Append(toGreeter, [type |-> "FingerprintAvailable",
                                                user |-> probes[i], available |-> available])
             /\ probes' = RemoveAt(probes, i)
    BY <2>1
  <2> DEFINE m == [type |-> "FingerprintAvailable", user |-> probes[i], available |-> available]
  <2>3. m \in ToGreeter /\ m.type = "FingerprintAvailable" /\ m.user = probes[i]
        /\ toGreeter' = Append(toGreeter, m)
    <3>1. probes[i] \in Users
      BY TypeParts DEF RestTypes
    <3> QED
      BY <2>2, <3>1 DEF ToGreeter
  <2>4. DaemonSame
    BY <2>1, DaemonUntouched
  <2> HIDE DEF m
  <2>5. Agreement'
    BY <1>1, <2>1, <2>2, <2>3, <2>4, AnswerAgrees
  <2>6. AnnouncesFirst'
    BY <1>1, <1>2, <2>1 DEF AnnouncesFirst
  <2> QED
    BY <1>1, <1>2, <1>3, <2>5, <2>6 DEF InStep, GreeterUp
<1> QED
  BY <1>5, <1>6

-----------------------------------------------------------------------------
(* The daemon's steps.                                                     *)

(* No step that the greeter did not cause brings a greeter up, or a        *)
(* request of its own.                                                     *)
LEMMA DaemonMoves ==
  ASSUME autologin = FALSE, Logind \/ Timers \/ DeliverFromHelper
  PROVE  /\ phase = "started" /\ autologin' = FALSE /\ phase' # "new"
         /\ greeter' = "running" =>
              /\ greeter = "running" /\ phase' = "started"
              /\ transitions' = transitions /\ request' \in {request, None}
<1>1. ASSUME UNCHANGED <<lifeVars, request>>, phase = "started"
      PROVE  /\ autologin' = FALSE /\ phase' # "new"
             /\ greeter' = "running" =>
                  /\ greeter = "running" /\ phase' = "started"
                  /\ transitions' = transitions /\ request' \in {request, None}
  BY <1>1 DEF lifeVars
<1>2. ASSUME NEW success, FinishLogin(success, authenticated), UNCHANGED lifeVars, phase = "started"
      PROVE  /\ autologin' = FALSE /\ phase' # "new"
             /\ greeter' = "running" =>
                  /\ greeter = "running" /\ phase' = "started"
                  /\ transitions' = transitions /\ request' \in {request, None}
  BY <1>2 DEF FinishLogin, lifeVars
<1>3. ASSUME StopRest
      PROVE  autologin' = FALSE /\ phase' # "new" /\ greeter' # "running"
  BY <1>3 DEF StopRest
<1>4. ASSUME NEW success, NEW kept, FinishActivation(success, kept), phase = "started"
      PROVE  /\ autologin' = FALSE /\ phase' # "new"
             /\ greeter' = "running" =>
                  /\ greeter = "running" /\ phase' = "started"
                  /\ transitions' = transitions /\ request' \in {request, None}
  <2>1. FinishLogin(success, authenticated) /\ (StopRest \/ UNCHANGED lifeVars)
    BY <1>4 DEF FinishActivation
  <2> QED
    BY <1>2, <1>3, <1>4, <2>1
<1>5. CASE Logind
  <2>1. PICK c \in calls : \/ ListReply(c) \/ PropertiesReply(c)
                           \/ UnlockReply(c) \/ ActivateReply(c)
                           \/ SessionByPidReply(c) \/ SessionIdReply(c)
    BY <1>5 DEF Logind
  <2>2. phase = "started"
    BY <2>1 DEF ListReply, PropertiesReply, UnlockReply, ActivateReply, SessionByPidReply,
       SessionIdReply, Delivered
  <2>3. CASE ListReply(c) \/ PropertiesReply(c) \/ SessionByPidReply(c) \/ SessionIdReply(c)
    <3>1. UNCHANGED <<lifeVars, request>>
      BY <2>3 DEF ListReply, PropertiesReply, SessionByPidReply, SessionIdReply, FinishLookup,
         Drop, allButCalls, loginVars
    <3> QED
      BY <1>1, <2>2, <3>1
  <2>4. CASE UnlockReply(c) \/ ActivateReply(c)
    <3>1. \/ \E success \in BOOLEAN : FinishActivation(success, calls \ {c})
          \/ UNCHANGED <<lifeVars, request>>
      BY <2>4 DEF UnlockReply, ActivateReply, Drop, allButCalls, loginVars
    <3> QED
      BY <1>1, <1>4, <2>2, <3>1
  <2> QED
    BY <2>1, <2>2, <2>3, <2>4
<1>6. CASE Timers
  <2>1. CASE TransitionTimeout
    BY <1>1, <2>1 DEF TransitionTimeout, CompleteTransition
  <2>2. CASE ActivationTimeout
    BY <1>4, <2>2 DEF ActivationTimeout
  <2>3. CASE AbortFingerprint
    BY <2>3 DEF AbortFingerprint, CancelFingerprintLogin, lifeVars, loginVars
  <2>4. ASSUME NEW c \in calls, LookupTimeout(c)
        PROVE  UNCHANGED <<lifeVars, request>> /\ phase = "started"
    BY <2>4 DEF LookupTimeout, FinishLookup, Drop, allButCalls, loginVars, Delivered
  <2> QED
    BY <1>1, <1>6, <2>1, <2>2, <2>3, <2>4 DEF Timers, TransitionTimeout, ActivationTimeout,
       AbortFingerprint
<1>7. CASE DeliverFromHelper
  <2>1. phase = "started"
    BY <1>7 DEF DeliverFromHelper, RequestChanged, AuthenticationSucceeded, AuthenticationFailed,
       AutologinFailed, SessionStarted, SessionNotStarted, HelperFinished
  <2>2. CASE RequestChanged \/ AuthenticationSucceeded
    <3>1. UNCHANGED <<lifeVars, request>>
      BY <2>2 DEF RequestChanged, AuthenticationSucceeded, loginVars
    <3> QED
      BY <1>1, <2>1, <3>1
  <2>3. CASE AuthenticationFailed
    BY <2>3 DEF AuthenticationFailed, FinishLogin, lifeVars
  <2>4. CASE SessionStarted
    BY <2>4 DEF SessionStarted, FinishLogin
  <2>5. CASE SessionNotStarted
    BY <1>2, <2>1, <2>5 DEF SessionNotStarted
  <2>6. CASE HelperFinished
    <3>1. \/ UNCHANGED <<lifeVars, loginVars>>
          \/ FinishLogin(FALSE, authenticated) /\ UNCHANGED lifeVars
          \/ StopRest
      BY <2>6 DEF HelperFinished, Stop
    <3> QED
      BY <1>1, <1>2, <1>3, <2>1, <3>1 DEF loginVars
  <2> QED
    BY <1>7, <2>1, <2>2, <2>3, <2>4, <2>5, <2>6 DEF DeliverFromHelper, AutologinFailed
<1> QED
  BY <1>5, <1>6, <1>7

LEMMA DaemonInStep ==
  ASSUME TypeOK, LoginInv, AuthInv, DialogueInv, GreeterTypeOK, RunInv, InStep, ~LateResults,
         \/ DisplayStep(Logind) \/ DisplayStep(Timers) \/ DisplayStep(DeliverFromHelper)
  PROVE  InStep'
<1>1. /\ Logind \/ Timers \/ DeliverFromHelper
      /\ \E quick \in BOOLEAN : GreeterHears(toDaemon, listenedFor, quick)
      /\ autologin = FALSE
  BY DEF DisplayStep, InStep
<1>2. /\ phase = "started" /\ autologin' = FALSE /\ phase' # "new"
      /\ greeter' = "running" =>
           /\ greeter = "running" /\ phase' = "started"
           /\ transitions' = transitions /\ request' \in {request, None}
  BY <1>1, DaemonMoves
<1>3. PICK quick \in BOOLEAN : GreeterHears(toDaemon, listenedFor, quick)
  BY <1>1
<1>4. CASE greeter' # "running"
  <2>1. GreeterGone
    BY <1>3, <1>4 DEF GreeterHears
  <2>2. Away'
    BY <2>1 DEF GreeterGone, Away
  <2> QED
    BY <1>2, <1>4, <2>2 DEF InStep, GreeterUp
<1>5. CASE greeter' = "running"
  <2>1. GreeterUp /\ GreeterUp' /\ AtGreeter /\ Agreement /\ AnnouncesFirst
    BY <1>2, <1>5 DEF InStep, GreeterUp
  <2>2. /\ toDaemon' = toDaemon /\ toGreeter' = toGreeter \o Answers(quick)
        /\ GreeterSame /\ UNCHANGED <<probes, listenedFor>>
    BY <1>3, <1>5 DEF GreeterHears, GreeterSame, backendVars, readerVars
  <2>3. transitions \/ request = None
    BY <2>1 DEF AnnouncesFirst
  <2>4. AtGreeter' /\ Seen(quick)
    <3>1. ~autologin
      BY <1>1
    <3> QED
      BY <1>1, <1>5, <2>1, <2>3, <3>1, LogindSeen, TimersSeen, DeliverySeen
  <2>5. Agreement'
    BY <2>1, <2>2, <2>4, SeenAgrees
  <2>6. AnnouncesFirst'
    BY <1>2, <1>5, <2>1, <2>2 DEF AnnouncesFirst
  <2> QED
    BY <1>2, <2>1, <2>4, <2>5, <2>6 DEF InStep
<1> QED
  BY <1>4, <1>5

(* The daemon reads a message.                                             *)
LEMMA ReadingInStep ==
  ASSUME TypeOK, LoginInv, AuthInv, DialogueInv, GreeterTypeOK, RunInv, InStep, ~LateResults,
         DaemonReadsMessage
  PROVE  InStep'
<1>0. /\ GreeterUp /\ toDaemon # <<>> /\ AtGreeter /\ Agreement /\ AnnouncesFirst
      /\ greeter = "running" /\ phase = "started" /\ autologin = FALSE
  BY DEF InStep, DaemonReadsMessage, ReadEnableTransitions, ReadLogin, ReadFingerprintProbe,
     ReadFingerprintLogin, ReadFingerprintCancel, ReadTransitionReady, DaemonReads, GreeterUp
<1>h. ASSUME greeter' = "running", NEW listened, GreeterHears(Tail(toDaemon), listened, TRUE)
      PROVE  /\ toDaemon' = Tail(toDaemon) /\ toGreeter' = toGreeter \o Answers(TRUE)
             /\ listenedFor' = listened /\ GreeterSame /\ UNCHANGED probes
  BY <1>h DEF GreeterHears, GreeterSame, backendVars, readerVars
<1>a. toGreeter \in Seq(ToGreeter) /\ Failure \in ToGreeter /\ Finish(TRUE) \in ToGreeter
  <2>1. TRUE \in BOOLEAN
    OBVIOUS
  <2> QED
    BY <2>1, HeardTypes, TypeParts DEF RestTypes
<1>j. /\ toGreeter \o <<>> = toGreeter
      /\ toGreeter \o <<Failure>> = Append(toGreeter, Failure)
      /\ toGreeter \o <<Finish(TRUE)>> = Append(toGreeter, Finish(TRUE))
  BY <1>a, Joining
<1>t. Head(toDaemon).type # "EnableTransitions" => transitions
  BY <1>0 DEF AnnouncesFirst
<1>1. CASE ReadEnableTransitions \/ ReadTransitionReady
  <2>1. /\ Head(toDaemon).type \in {"EnableTransitions", "TransitionReady"}
        /\ \/ AnnounceTransitions
           \/ IF transitionTimer /\ request # None THEN TransitionReady ELSE UNCHANGED vars
        /\ GreeterHears(Tail(toDaemon), listenedFor, TRUE)
    BY <1>1 DEF ReadEnableTransitions, ReadTransitionReady, DaemonReads
  <2>2. UNCHANGED <<phase, greeter, autologin>> /\ transitions'
    BY <1>1, <1>t, <2>1 DEF ReadEnableTransitions, ReadTransitionReady, DaemonReads, AnnounceTransitions, TransitionReady, CompleteTransition, vars, lifeVars
  <2>3. AtGreeter' /\ Unheard(TRUE)
    BY <1>0, <2>1, ReadySeen
  <2>4. greeter' = "running"
    BY <1>0, <2>2
  <2>5. /\ toDaemon' = Tail(toDaemon) /\ toGreeter' = toGreeter
        /\ GreeterSame /\ UNCHANGED <<probes, listenedFor>>
        /\ (Listens' <=> Listens) /\ (Password' <=> Password) /\ (Won => Won')
    BY <1>h, <1>j, <2>1, <2>3, <2>4 DEF Unheard
  <2>6. Agreement'
    BY <1>0, <2>1, <2>5, ReadAgrees
  <2> QED
    BY <1>0, <2>2, <2>3, <2>6 DEF InStep, AnnouncesFirst, GreeterUp
<1>2. CASE ReadFingerprintCancel
  <2>1. /\ Head(toDaemon).type = "FingerprintCancel"
        /\ IF Listening /\ request # None THEN FingerprintCancel ELSE UNCHANGED vars
        /\ GreeterHears(Tail(toDaemon), listenedFor, TRUE)
    BY <1>2 DEF ReadFingerprintCancel, DaemonReads
  <2>2. UNCHANGED <<phase, greeter, autologin, transitions>>
    BY <2>1 DEF FingerprintCancel, CancelFingerprintLogin, vars, lifeVars
  <2>3. /\ AtGreeter' /\ ~Listens' /\ (Password' <=> Password) /\ (Won => Won')
        /\ Answers(TRUE) = <<>>
    BY <1>0, <2>1, CancelSeen
  <2>5. /\ toDaemon' = Tail(toDaemon) /\ toGreeter' = toGreeter
        /\ GreeterSame /\ UNCHANGED <<probes, listenedFor>>
    BY <1>0, <1>h, <1>j, <2>1, <2>2, <2>3
  <2>6. Agreement'
    BY <1>0, <2>1, <2>3, <2>5, ReadAgrees
  <2> QED
    BY <1>0, <1>t, <2>1, <2>2, <2>3, <2>6 DEF InStep, AnnouncesFirst, GreeterUp
<1>3. CASE ReadLogin
  <2>1. /\ Head(toDaemon).type = "Login"
        /\ LoginRejected \/ LoginAccepted
        /\ GreeterHears(Tail(toDaemon), listenedFor, TRUE)
    BY <1>3 DEF ReadLogin, DaemonReads
  <2>2. UNCHANGED <<phase, greeter, autologin, transitions>>
    BY <2>1 DEF LoginRejected, LoginAccepted, lifeVars
  <2>4. /\ toDaemon' = Tail(toDaemon) /\ toGreeter' = toGreeter \o Answers(TRUE)
        /\ GreeterSame /\ UNCHANGED <<probes, listenedFor>>
    BY <1>0, <1>h, <2>1, <2>2
  <2>5. CASE LoginRejected
    <3>1. /\ AtGreeter' /\ ~Listens' /\ (Password' <=> Password) /\ (Won' <=> Won)
          /\ Answers(TRUE) = <<Failure>>
      BY <1>0, <2>5, LoginRefusedSeen
    <3>2. toGreeter' = Append(toGreeter, Failure)
      BY <1>j, <2>4, <3>1
    <3>3. Agreement'
      BY <1>0, <2>1, <2>4, <3>1, <3>2, LoginReadAgrees
    <3> QED
      BY <1>0, <1>t, <2>1, <2>2, <3>1, <3>3 DEF InStep, AnnouncesFirst, GreeterUp
  <2>6. CASE LoginAccepted
    <3>1. AtGreeter' /\ ~Won /\ ~Listens' /\ Password' /\ Answers(TRUE) = <<>>
      BY <1>0, <2>6, LoginAcceptedSeen
    <3>2. toGreeter' = toGreeter
      BY <1>j, <2>4, <3>1
    <3>3. Agreement'
      BY <1>0, <2>1, <2>4, <3>1, <3>2, LoginReadAgrees
    <3> QED
      BY <1>0, <1>t, <2>1, <2>2, <3>1, <3>3 DEF InStep, AnnouncesFirst, GreeterUp
  <2> QED
    BY <2>1, <2>5, <2>6
<1>4. CASE ReadFingerprintLogin
  <2> DEFINE asRun == [user |-> Head(toDaemon).user, session |-> Head(toDaemon).session]
  <2>1. /\ Head(toDaemon).type = "FingerprintLogin"
        /\ \/ FingerprintAccepted /\ GreeterHears(Tail(toDaemon), asRun, TRUE)
           \/ ~Idle /\ FingerprintRefused /\ GreeterHears(Tail(toDaemon), listenedFor, TRUE)
    BY <1>4 DEF ReadFingerprintLogin, DaemonReads
  <2>2. UNCHANGED <<phase, greeter, autologin, transitions>>
    BY <2>1 DEF FingerprintAccepted, FingerprintRefused, lifeVars
  <2>5. CASE FingerprintAccepted /\ GreeterHears(Tail(toDaemon), asRun, TRUE)
    <3>1. /\ AtGreeter' /\ ~Won /\ ~Password /\ Listens' /\ ~Password' /\ Answers(TRUE) = <<>>
      BY <1>0, <2>5, RunAcceptedSeen
    <3>2. /\ toDaemon' = Tail(toDaemon) /\ toGreeter' = toGreeter
          /\ listenedFor' = asRun /\ GreeterSame /\ UNCHANGED probes
      BY <1>0, <1>h, <1>j, <2>2, <2>5, <3>1
    <3>3. Agreement'
      BY <1>0, <2>1, <3>1, <3>2, RunReadAgrees
    <3> QED
      BY <1>0, <1>t, <2>1, <2>2, <3>1, <3>3 DEF InStep, AnnouncesFirst, GreeterUp
  <2>6. CASE ~Idle /\ FingerprintRefused /\ GreeterHears(Tail(toDaemon), listenedFor, TRUE)
    <3>1. /\ AtGreeter' /\ (Listens' <=> Listens) /\ (Password' <=> Password) /\ (Won' <=> Won)
          /\ Answers(TRUE) = <<Finish(TRUE)>>
      BY <1>0, <2>6, RunRefusedSeen
    <3>2. /\ toDaemon' = Tail(toDaemon) /\ toGreeter' = Append(toGreeter, Finish(TRUE))
          /\ GreeterSame /\ UNCHANGED probes
      BY <1>0, <1>h, <1>j, <2>2, <2>6, <3>1
    <3>3. Agreement'
      BY <1>0, <2>1, <3>1, <3>2, RunReadAgrees
    <3> QED
      BY <1>0, <1>t, <2>1, <2>2, <3>1, <3>3 DEF InStep, AnnouncesFirst, GreeterUp
  <2> QED
    BY <2>1, <2>5, <2>6
<1>5. CASE ReadFingerprintProbe
  <2>1. /\ Head(toDaemon).type = "FingerprintProbe"
        /\ probes' = Append(probes, Head(toDaemon).user) /\ toDaemon' = Tail(toDaemon)
        /\ GreeterSame /\ UNCHANGED <<vars, toGreeter, listenedFor>>
    BY <1>5 DEF ReadFingerprintProbe, DaemonReads, GreeterSame, backendVars, readerVars
  <2>2. DaemonSame
    BY <2>1, DaemonUntouched
  <2>3. Agreement'
    BY <1>0, <2>1, <2>2, ProbeReadAgrees
  <2>4. AtGreeter'
    BY <1>0, <2>1, AtGreeterKept DEF vars, loginState, loginVars, reuseVars, lookupVars, restVars
  <2>5. UNCHANGED <<phase, greeter, autologin, transitions>>
    BY <2>1 DEF vars, lifeVars
  <2> QED
    BY <1>0, <1>t, <2>1, <2>3, <2>4, <2>5 DEF InStep, AnnouncesFirst, GreeterUp
<1> QED
  BY <1>1, <1>2, <1>3, <1>4, <1>5 DEF DaemonReadsMessage

-----------------------------------------------------------------------------
LEMMA StepKeepsInStep ==
  ASSUME TypeOK, LoginInv, AuthOk, DialogueInv, GreeterTypeOK, RunInv, InStep,
         ~LateResults, PromptProbes, [GreeterNext]_allVars
  PROVE  InStep'
<1>1. phase # "stopped" => AuthInv
  BY DEF AuthOk
<1>2. CASE UNCHANGED allVars
  <2>1. UNCHANGED vars /\ UNCHANGED greeterVars
    BY <1>2 DEF allVars
  <2>2. CASE GreeterUp
    BY <1>1, <2>1, <2>2, UnheardInStep DEF GreeterUp
  <2>3. CASE ~GreeterUp
    <3>1. /\ UNCHANGED <<phase, greeter, autologin, reuseActivationPending>>
          /\ UNCHANGED <<reader, runActive, authenticating, toDaemon, toGreeter, probes>>
      BY <2>1 DEF vars, lifeVars, reuseVars, greeterVars, backendVars, readerVars
    <3> QED
      BY <2>3, <3>1 DEF InStep, GreeterUp, Away
  <2> QED
    BY <2>2, <2>3
<1>3. CASE GreeterConnects
  BY <1>1, <1>3, ConnectsInStep DEF GreeterConnects, StartWithGreeter
<1>4. CASE View \/ GreeterRuns
  BY <1>4, GreeterInStepKept
<1>5. CASE DaemonReadsMessage
  <2>1. AuthInv
    BY <1>1, <1>5 DEF DaemonReadsMessage, ReadEnableTransitions, ReadLogin, ReadFingerprintProbe,
       ReadFingerprintLogin, ReadFingerprintCancel, ReadTransitionReady, DaemonReads, GreeterUp
  <2> QED
    BY <1>5, <2>1, ReadingInStep
<1>6. CASE ProbeAnswered \/ ScanRejected
  BY <1>1, <1>6, UnheardInStep DEF ProbeAnswered, ScanRejected, GreeterUp
<1>7. CASE DisplayStep(Logind) \/ DisplayStep(Timers) \/ DisplayStep(DeliverFromHelper)
  <2>1. phase = "started"
    BY <1>7, DaemonMoves DEF DisplayStep, InStep
  <2> QED
    BY <1>1, <1>7, <2>1, DaemonInStep
<1>8. CASE HelperStep(Helper)
  <2>1. phase = "started"
    BY <1>8 DEF HelperStep, Helper
  <2>2. CASE GreeterUp
    BY <1>1, <1>8, <2>1, <2>2, UnheardInStep
  <2>3. CASE ~GreeterUp
    <3>1. /\ UNCHANGED <<phase, greeter, autologin, reuseActivationPending>>
          /\ UNCHANGED <<reader, runActive, authenticating, toDaemon, toGreeter, probes>>
      BY <1>8 DEF HelperStep, Helper, lifeVars, reuseVars, greeterVars, backendVars, readerVars
    <3> QED
      BY <2>3, <3>1 DEF InStep, GreeterUp, Away
  <2> QED
    BY <2>2, <2>3
<1> QED
  BY <1>2, <1>3, <1>4, <1>5, <1>6, <1>7, <1>8 DEF GreeterNext

(* The invariant that the result below rests on.                           *)
LEMMA InStepHolds ==
  ASSUME ~LateResults, PromptProbes
  PROVE  GreeterSpec => []InStep
<1>1. GreeterInit => InStep
  BY InStepInit
<1>2. /\ TypeOK /\ LoginInv /\ AuthOk /\ DialogueInv /\ GreeterTypeOK /\ RunInv /\ InStep
      /\ [GreeterNext]_allVars
      => InStep'
  BY StepKeepsInStep
<1> QED
  BY <1>1, <1>2, GreeterUsesDisplay, OwnHolds, TypeCorrect, LoginInvariant, DialogueHolds, PTL
  DEF GreeterSpec

(* Whenever nothing is under way between them, the greeter and the daemon  *)
(* agree on whether the reader listens, for whom and for which session,    *)
(* and on whether a password is being checked: for any number of users,    *)
(* sessions, requests and messages.                                        *)
THEOREM GreeterKeepsStep ==
  ASSUME ~LateResults, PromptProbes
  PROVE  GreeterSpec => []GreeterInStep
<1>1. GreeterTypeOK /\ RunInv /\ InStep => GreeterInStep
  <2> SUFFICES ASSUME GreeterTypeOK, RunInv, InStep, Quiet
               PROVE  /\ reader.state = "listening" <=> Listens
                      /\ reader.state = "listening" =>
                           listenedFor = [user |-> reader.user, session |-> fingerprintSession]
                      /\ authenticating <=> Password
    BY DEF GreeterInStep, Listens, Password
  <2>1. Agreement
    BY DEF InStep, Quiet
  <2>2. \A S, T : ~Has(toDaemon, S) /\ ~Has(toGreeter, S)
    BY EmptyQueue DEF Quiet
  <2>3. reader.state = "listening" <=> runActive
    BY TypeParts DEF RunInv, Quiet, ReaderTypes
  <2>4. /\ runActive <=> Listens
        /\ runActive => listenedFor = [user |-> reader.user, session |-> fingerprintSession]
    BY <2>1, <2>2, WonHearsNoFinger DEF Agreement, RunsAreMeant, RunsAreServed
  <2>5. authenticating <=> Password
    BY <2>1, <2>2 DEF Agreement, PasswordAwaited
  <2> QED
    BY <2>3, <2>4, <2>5
<1> QED
  BY <1>1, OwnHolds, InStepHolds, PTL

-----------------------------------------------------------------------------
(* Which runs the daemon refuses.                                          *)

(* While a password is served, no run is under way.                        *)
RunsWait == Password => ~Has(toDaemon, Runs)

LEMMA GreeterWaits ==
  ASSUME GreeterTypeOK, RunInv, Agreement, RunsWait, View \/ GreeterRuns
  PROVE  RunsWait'
<1>1. UNCHANGED vars
  BY DEF View, GreeterRuns, StartFingerprint, StopFingerprint, SendLogin, FinishTransition,
     RunUnusable, PrepareTransition, ReadLoginFailed, ReadLoginSucceeded,
     ReadFingerprintAvailable, ReadFingerprintRejected, ReadFingerprintFinished, GreeterReads
<1>2. Password' <=> Password
  BY <1>1 DEF Password, vars, loginVars
<1> SUFFICES ASSUME Password PROVE ~Has(toDaemon', Runs)
  BY <1>2 DEF RunsWait
<1>3. authenticating /\ ~Has(toDaemon, Runs) /\ ~Reader!Busy(reader)
  BY DEF Agreement, PasswordAwaited, RunsWait, RunInv
<1>4. toDaemon' = toDaemon \/ toDaemon' = Stopping => ~Has(toDaemon', Runs)
  <2>1. ~Has(Stopping, Runs)
    BY <1>3, StoppingIs
  <2> QED
    BY <1>3, <2>1
<1>5. CASE StopFingerprint
  BY <1>4, <1>5, StopMoves DEF StopFingerprint
<1>6. CASE FinishTransition
  <2> DEFINE m == [type |-> "TransitionReady"]
  <2>1. /\ toDaemon' = Append(toDaemon, m) /\ toDaemon \in Seq(ToDaemon)
        /\ m \in ToDaemon /\ m.type = "TransitionReady"
    BY <1>6, TypeParts DEF FinishTransition, ToDaemon
  <2> HIDE DEF m
  <2> QED
    BY <1>3, <2>1, SentIs
<1>7. CASE RunUnusable
  BY <1>4, <1>7, UnusableMoves DEF Keeps, Leaves
<1>8. CASE PrepareTransition \/ ReadLoginFailed \/ ReadLoginSucceeded
  BY <1>4, <1>8 DEF PrepareTransition, ReadLoginFailed, ReadLoginSucceeded
<1>9. CASE ReadFingerprintAvailable \/ ReadFingerprintRejected \/ ReadFingerprintFinished
  <2>1. reader.state \notin {"probing", "listening"}
    BY <1>3 DEF Reader!Busy
  <2> QED
    BY <1>4, <1>9, <2>1, AnswerMoves, RejectMoves, FinishMoves DEF Keeps, Leaves
<1> QED
  BY <1>3, <1>5, <1>6, <1>7, <1>8, <1>9 DEF View, GreeterRuns, StartFingerprint, SendLogin

(* The daemon: a run sent behind a password waits for its answer.          *)
LEMMA ReadingWaits ==
  ASSUME TypeOK, LoginInv, DialogueInv, GreeterTypeOK, InStep, RunsWait, DaemonReadsMessage
  PROVE  RunsWait'
<1>0. /\ toDaemon # <<>> /\ AtGreeter /\ NoneBefore(toDaemon, Controls, Runs)
  BY DEF InStep, Agreement, SentInOrder, DaemonReadsMessage, ReadEnableTransitions, ReadLogin,
     ReadFingerprintProbe, ReadFingerprintLogin, ReadFingerprintCancel, ReadTransitionReady, DaemonReads
<1>1. toDaemon' = Tail(toDaemon) \/ toDaemon' = <<>>
  BY DEF DaemonReadsMessage, ReadEnableTransitions, ReadLogin, ReadFingerprintProbe,
     ReadFingerprintLogin, ReadFingerprintCancel, ReadTransitionReady, GreeterHears, GreeterGone
<1>2. CASE toDaemon' = <<>>
  BY <1>2, EmptyQueue DEF RunsWait
<1>3. CASE toDaemon' = Tail(toDaemon)
  <2>1. Has(toDaemon', Runs) => Has(toDaemon, Runs)
    BY <1>0, <1>3, ReadOf
  <2>2. CASE Head(toDaemon).type \in {"FingerprintCancel", "Login", "FingerprintLogin"}
    BY <1>0, <1>3, <2>2, ReadOf DEF RunsWait
  <2>3. CASE ReadEnableTransitions \/ ReadTransitionReady
    BY <1>0, <2>1, <2>3, ReadySeen DEF ReadEnableTransitions, ReadTransitionReady, Unheard, RunsWait
  <2>4. CASE ReadFingerprintProbe
    BY <2>1, <2>4 DEF ReadFingerprintProbe, Password, RunsWait, vars, loginVars
  <2> QED
    BY <2>2, <2>3, <2>4 DEF DaemonReadsMessage, ReadLogin, ReadFingerprintLogin,
       ReadFingerprintCancel, DaemonReads
<1> QED
  BY <1>1, <1>2, <1>3

LEMMA DaemonWaits ==
  ASSUME TypeOK, LoginInv, AuthInv, DialogueInv, InStep, RunsWait, ~LateResults,
         \/ DisplayStep(Logind) \/ DisplayStep(Timers) \/ DisplayStep(DeliverFromHelper)
  PROVE  RunsWait'
<1>1. PICK quick \in BOOLEAN : GreeterHears(toDaemon, listenedFor, quick)
  BY DEF DisplayStep
<1>2. CASE greeter' # "running"
  BY <1>1, <1>2, EmptyQueue DEF GreeterHears, GreeterGone, RunsWait
<1>3. CASE greeter' = "running"
  <2>1. GreeterUp /\ AtGreeter /\ AnnouncesFirst /\ ~autologin
    BY <1>3, DaemonMoves DEF InStep, GreeterUp, DisplayStep
  <2>2. Seen(quick)
    BY <1>3, <2>1, LogindSeen, TimersSeen, DeliverySeen DEF DisplayStep, AnnouncesFirst
  <2>3. Password' => Password
    BY <2>2 DEF Seen, Unheard, RunEnds, PamAgrees, Fails, Succeeds
  <2> QED
    BY <1>1, <1>3, <2>3 DEF GreeterHears, RunsWait
<1> QED
  BY <1>2, <1>3

LEMMA RunsWaitStays ==
  ASSUME TypeOK, LoginInv, AuthOk, DialogueInv, GreeterTypeOK, RunInv, InStep, RunsWait,
         ~LateResults, [GreeterNext]_allVars
  PROVE  RunsWait'
<1>1. phase # "stopped" => AuthInv
  BY DEF AuthOk
<1>2. CASE UNCHANGED <<request, fingerprintLogin, toDaemon>>
  BY <1>2 DEF RunsWait, Password
<1>3. CASE GreeterConnects
  <2>1. /\ toDaemon' = <<[type |-> "EnableTransitions"]>>
    BY <1>3 DEF GreeterConnects
  <2>2. \A i \in DOMAIN toDaemon' : toDaemon'[i] \notin Runs
    BY <2>1 DEF Runs
  <2> QED
    BY <2>2 DEF RunsWait, Has
<1>4. CASE View \/ GreeterRuns
  <2>1. Agreement
    BY <1>4 DEF View, GreeterRuns, StartFingerprint, StopFingerprint, SendLogin, FinishTransition,
       ViewCalls, RunUnusable, PrepareTransition, ReadLoginFailed, ReadLoginSucceeded,
       ReadFingerprintAvailable, ReadFingerprintRejected, ReadFingerprintFinished, GreeterReads, InStep
  <2> QED
    BY <1>4, <2>1, GreeterWaits
<1>5. CASE DaemonReadsMessage
  BY <1>5, ReadingWaits
<1>6. CASE DisplayStep(Logind) \/ DisplayStep(Timers) \/ DisplayStep(DeliverFromHelper)
  <2>1. phase = "started"
    BY <1>6, DaemonMoves DEF DisplayStep, InStep
  <2> QED
    BY <1>1, <1>6, <2>1, DaemonWaits
<1>7. CASE ProbeAnswered \/ ScanRejected \/ HelperStep(Helper) \/ UNCHANGED allVars
  BY <1>2, <1>7 DEF ProbeAnswered, ScanRejected, HelperStep, Helper, allVars, vars, loginVars, greeterVars
<1> QED
  BY <1>3, <1>4, <1>5, <1>6, <1>7 DEF GreeterNext

(* A request is refused only as it is made.                                *)
LEMMA DaemonAsksNothing ==
  ASSUME Start \/ Logind \/ Timers \/ DeliverFromHelper \/ Helper \/ UNCHANGED vars
  PROVE  requests' = requests
<1> USE DEF restVars
<1>1. CASE Start \/ Helper \/ UNCHANGED vars
  BY <1>1 DEF Start, StartWithGreeter, StartAutologin, AutologinImpossible, Helper, vars
<1>2. UNCHANGED allButCalls => requests' = requests
  BY DEF allButCalls
<1>3. (\E session : FinishLookup(session)) \/ StopRest => requests' = requests
  BY DEF FinishLookup, StopRest
<1>4. (\E success, kept : FinishActivation(success, kept)) => requests' = requests
  BY <1>3 DEF FinishActivation
<1>5. CASE Logind
  BY <1>2, <1>3, <1>4, <1>5 DEF Logind, ListReply, PropertiesReply, UnlockReply, ActivateReply,
     SessionByPidReply, SessionIdReply, Drop
<1>6. CASE Timers
  BY <1>2, <1>3, <1>4, <1>6 DEF Timers, TransitionTimeout, CompleteTransition, ActivationTimeout,
     AbortFingerprint, CancelFingerprintLogin, LookupTimeout, Drop
<1>7. CASE DeliverFromHelper
  BY <1>3, <1>7 DEF DeliverFromHelper, RequestChanged, AuthenticationSucceeded, AuthenticationFailed,
     AutologinFailed, SessionStarted, SessionNotStarted, HelperFinished, Stop
<1> QED
  BY <1>1, <1>5, <1>6, <1>7

LEMMA RefusedIsNew ==
  ASSUME TypeOK, LoginInv, Effect, NEW r \in RequestId, outcome[r] = "none", outcome'[r] = "finished"
  PROVE  NewRequest /\ outcome'[requests'] = "finished"
<1>1. /\ outcome \in [RequestId -> Outcome]
      /\ request # None => request \in RequestId /\ request # r
  BY DEF TypeOK, LoginTypes, LoginInv
<1>2. ASSUME NEW how
      PROVE  Told(request, how)[r] = outcome[r] /\ DOMAIN Told(request, how) = RequestId
  <2>1. CASE request = None
    BY <1>1, <2>1 DEF Told
  <2>2. CASE request # None
    BY <1>1, <2>2 DEF Told
  <2> QED
    BY <2>1, <2>2
<1>3. NewRequest => requests' \in RequestId
  BY NewRequestTypes DEF TypeOK, LoginTypes, NewRequest
<1>4. CASE Untouched \/ \E how \in Concluded : Concludes(how)
  BY <1>2, <1>4 DEF Untouched, Concludes
<1>5. CASE Serves
  BY <1>1, <1>3, <1>5 DEF Serves
<1>6. CASE Supersedes
  BY <1>2, <1>3, <1>6 DEF Supersedes
<1>7. CASE \E how \in {"failed", "finished"} : Refuses(how)
  BY <1>1, <1>3, <1>7 DEF Refuses
<1> QED
  BY <1>4, <1>5, <1>6, <1>7 DEF Effect

LEMMA RefusedRunIs ==
  ASSUME TypeOK, LoginInv, [GreeterNext]_allVars,
         NEW r \in RequestId, outcome[r] = "none", outcome'[r] = "finished"
  PROVE  ReadFingerprintLogin /\ ~Idle
<1>1. /\ NewRequest /\ requests' # requests /\ outcome'[requests'] = "finished"
      /\ requests' \in RequestId /\ outcome \in [RequestId -> Outcome]
  <2>1. Effect
    BY StepsOfDisplay, Effects
  <2>2. NewRequest /\ outcome'[requests'] = "finished"
    BY <2>1, RefusedIsNew
  <2> QED
    BY <2>2, NewRequestTypes DEF TypeOK, LoginTypes, NewRequest
<1>2. /\ ~Logind /\ ~Timers /\ ~DeliverFromHelper /\ ~Helper /\ ~UNCHANGED vars
      /\ ~StartWithGreeter
  BY <1>1, DaemonAsksNothing DEF Start
<1>3. ~AnnounceTransitions /\ ~FingerprintCancel /\ ~TransitionReady
  BY <1>1 DEF AnnounceTransitions, FingerprintCancel, CancelFingerprintLogin, TransitionReady,
     CompleteTransition, restVars
<1>4. ~LoginRejected
  BY <1>1 DEF LoginRejected
<1>5. ~LoginAccepted
  <2>1. DOMAIN Told(request, "cancelled") = RequestId
    BY <1>1 DEF Told
  <2> QED
    BY <1>1, <2>1 DEF LoginAccepted, Superseded
<1>6. ~FingerprintAccepted
  BY <1>1 DEF FingerprintAccepted
<1>7. DaemonReadsMessage
  BY <1>2 DEF GreeterNext, GreeterConnects, View, StartFingerprint, StopFingerprint, SendLogin,
     FinishTransition, GreeterRuns, RunUnusable, PrepareTransition, ReadLoginFailed,
     ReadLoginSucceeded, ReadFingerprintAvailable, ReadFingerprintRejected,
     ReadFingerprintFinished, GreeterReads, ProbeAnswered, ScanRejected, DisplayStep, HelperStep, allVars
<1>8. ReadFingerprintLogin
  BY <1>2, <1>3, <1>4, <1>5, <1>7 DEF DaemonReadsMessage, ReadEnableTransitions, ReadLogin,
     ReadFingerprintProbe, ReadFingerprintCancel, ReadTransitionReady
<1> QED
  BY <1>6, <1>8 DEF ReadFingerprintLogin

LEMMA RefusedRunIsLate ==
  ASSUME TypeOK, LoginInv, GreeterTypeOK, InStep, RunsWait, Verified, PromptReaping,
         ReadFingerprintLogin, ~Idle
  PROVE  authenticated
<1>1. /\ GreeterUp /\ toDaemon # <<>> /\ Head(toDaemon).type = "FingerprintLogin" /\ helper # "exited"
  BY DEF ReadFingerprintLogin, DaemonReads
<1>2. AtGreeter /\ Agreement /\ toDaemon \in Seq(ToDaemon)
  BY <1>1, TypeParts DEF InStep
<1>3. Has(toDaemon, Runs)
  <2>1. Head(toDaemon) \in ToDaemon
    BY <1>1, <1>2
  <2>2. Head(toDaemon) \in Runs
    BY <1>1, <2>1 DEF Runs
  <2> QED
    BY <1>1, <1>2, <2>2, TakenIs
<1>4. ~Listens /\ ~Password
  BY <1>2, <1>3 DEF Agreement, RunsAreMeant, RunsWait
<1>5. CASE request # None
  BY <1>4, <1>5 DEF Listens, Listening, Password
<1>6. CASE request = None
  <2>1. helper \notin Asking /\ Unread # "AUTHENTICATED" /\ ~reuseLookupPending
    BY <1>2, <1>6 DEF AtGreeter, Engaged
  <2>2. helper # "none" /\ helper \in HelperState
    BY <1>6, <2>1 DEF Idle, IsActive, TypeOK, AuthTypeOK
  <2>3. helper \in {"waitReply"} \cup Opening
    BY <1>1, <2>1, <2>2 DEF HelperState, Asking, Opening
  <2> QED
    BY <2>1, <2>3 DEF Verified
<1> QED
  BY <1>5, <1>6

(* Of the runs the greeter sends, also of those it starts again by itself, *)
(* the daemon refuses only what comes while a login that PAM accepted is   *)
(* on its way to its session: for any number of users, sessions, requests  *)
(* and messages, when the daemon reaps a dead helper before it reads on,   *)
(* the view awaits each probe, and no result arrives late.                 *)
THEOREM RunsAreNotRefused ==
  ASSUME ~LateResults, PromptProbes, PromptReaping
  PROVE  GreeterSpec => RunsAreAccepted
<1>1. GreeterInit => RunsWait
  <2>1. GreeterInit => toDaemon = <<>>
    BY DEF GreeterInit
  <2> QED
    BY <2>1, EmptyQueue DEF RunsWait
<1>2. /\ TypeOK /\ LoginInv /\ AuthOk /\ DialogueInv /\ GreeterTypeOK /\ RunInv /\ InStep
      /\ RunsWait /\ [GreeterNext]_allVars
      => RunsWait'
  BY RunsWaitStays
<1>3. /\ TypeOK /\ LoginInv /\ GreeterTypeOK /\ InStep /\ Verified /\ RunsWait
      /\ [GreeterNext]_allVars
      => [\A r \in RequestId :
            outcome[r] = "none" /\ outcome'[r] = "finished" => authenticated]_allVars
  BY RefusedRunIs, RefusedRunIsLate
<1> QED
  BY <1>1, <1>2, <1>3, GreeterUsesDisplay, OwnHolds, InStepHolds, TypeCorrect, LoginInvariant,
     DialogueHolds, VerifiedHolds, PTL
  DEF GreeterSpec, RunsAreAccepted
=============================================================================
