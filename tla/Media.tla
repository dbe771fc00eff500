------------------------------- MODULE Media -------------------------------
(* The media controls of the lock screen.  Players come and go on the bus;   *)
(* what is shown of them is asked for and told, in the order in which the    *)
(* bus passed it on, and never waited for.                                   *)
EXTENDS Naturals, SequencesExt

CONSTANTS Player, MaxInbox, MaxQuestions \* nothing new happens while more is under way

VARIABLES
  running, theirs,      \* the players, and the truth about each of them
  questions,            \* asked and not yet answered, in any order
  mediaInbox,
  watching,             \* whether MediaController exists
  players,              \* order_
  known,                \* what each MprisPlayer holds
  active_, position_timer_

mediaVars ==
  <<running, theirs, questions, mediaInbox, watching, players, known, active_, position_timer_>>
playersVars == <<running, theirs>>
controllerVars == <<watching, players, known, active_, position_timer_>>

NoPlayer == "no player"
ASSUME MediaAssumption == NoPlayer \notin Player /\ IsFiniteSet(Player)

NoTrack == "no track"
Track == {"track", "legacy track"} \* whose times are in us, and in ms
Status == {"Playing", "Paused"}
Stopped == [status |-> "Paused", track |-> "track", position |-> 0]
Unknown == [status |-> "", track |-> NoTrack, position |-> 0]
Micros(track, at) == at * IF track = "legacy track" THEN 1000 ELSE 1

MediaInit ==
  /\ running = {} /\ theirs = [p \in Player |-> Stopped]
  /\ questions = {} /\ mediaInbox = <<>>
  /\ watching = FALSE
  /\ players = <<>> /\ known = [p \in Player |-> Unknown]
  /\ active_ = NoPlayer /\ position_timer_ = FALSE

Tells(cond, message) ==
  /\ Len(mediaInbox) < MaxInbox
  /\ mediaInbox' = IF cond THEN Append(mediaInbox, message) ELSE mediaInbox

Quiet == Cardinality(questions) < MaxQuestions

-----------------------------------------------------------------------------
(* The players (external).                                                   *)
PlayerStarts(p) ==
  /\ Quiet /\ p \notin running /\ running' = running \cup {p}
  /\ theirs' = [theirs EXCEPT ![p] = Stopped]
  /\ Tells(watching, [type |-> "NameOwnerChanged", player |-> p, up |-> TRUE])
  /\ UNCHANGED <<questions, controllerVars>>

PlayerQuits(p) ==
  /\ p \in running /\ running' = running \ {p}
  /\ questions' = {q \in questions : q.player # p}
  /\ Tells(watching, [type |-> "NameOwnerChanged", player |-> p, up |-> FALSE])
  /\ UNCHANGED <<theirs, controllerVars>>

(* A new track starts at its beginning; some players only say that something *)
(* changed.                                                                  *)
PlayerChanges(p) ==
  /\ Quiet /\ p \in running
  /\ \E status \in Status, track \in Track, told \in BOOLEAN :
       LET start == IF track = theirs[p].track THEN theirs[p].position ELSE 0
           now == [status |-> status, track |-> track, position |-> start]
       IN  /\ now # theirs[p]
           /\ theirs' = [theirs EXCEPT ![p] = now]
           /\ Tells(Contains(players, p),
                IF told
                 THEN [type |-> "Metadata", player |-> p, status |-> status, track |-> track]
                ELSE [type |-> "Invalidated", player |-> p])
  /\ UNCHANGED <<running, questions, controllerVars>>

PlayerAnswers(q) ==
  LET p == q.player
      there == theirs[p]
      position(at) == [type |-> "Position", player |-> p, position |-> at]
  IN  /\ p \in running /\ questions' = questions \ {q}
      /\ CASE q.type = "GetAll" ->
                /\ Tells(TRUE, [type |-> "All", player |-> p, status |-> there.status,
                                 track |-> there.track, position |-> there.position])
                /\ UNCHANGED theirs
           [] q.type = "Get" -> Tells(TRUE, position(there.position)) /\ UNCHANGED theirs
           [] q.type = "SetPosition" ->
                LET seeks == q.track = there.track IN
                /\ theirs' = [theirs EXCEPT ![p].position = IF seeks THEN 1 ELSE @]
                /\ Tells(seeks /\ Contains(players, p), position(1))
           [] q.type = "ListNames" -> FALSE
      /\ UNCHANGED <<running, controllerVars>>

BusAnswers ==
  \E q \in questions :
    /\ q.type = "ListNames" /\ questions' = questions \ {q}
    /\ Tells(TRUE, [type |-> "ListNames", running |-> running])
    /\ UNCHANGED <<playersVars, controllerVars>>

-----------------------------------------------------------------------------
MediaControllerStarts ==
  /\ ~watching /\ watching' = TRUE
  /\ questions' = questions \cup {[type |-> "ListNames", player |-> NoPlayer]}
  /\ UNCHANGED <<playersVars, mediaInbox, players, known, active_, position_timer_>>

Ask(type, p) == [type |-> type, player |-> p]
IsPlaying(k, p) == p # NoPlayer /\ k[p].status = "Playing"

(* The active player of the players ps, of which k is known.                 *)
selectActive(ps, k, active) ==
  LET first == SelectInSeq(ps, LAMBDA p : IsPlaying(k, p))
  IN  IF Contains(ps, active) /\ (IsPlaying(k, active) \/ first = 0) THEN active
      ELSE IF first # 0 THEN ps[first]
      ELSE IF ps # <<>> THEN ps[1] ELSE NoPlayer

(* updatePositionPolling() asks at once when the clock starts.               *)
Select(ps, k, active, asked) ==
  LET now == selectActive(ps, k, active)
  IN  /\ players' = ps /\ known' = k /\ active_' = now
      /\ position_timer_' = IsPlaying(k, now)
      /\ questions' = asked \cup
           IF IsPlaying(k, now) /\ ~position_timer_ THEN {Ask("Get", now)} ELSE {}
      /\ UNCHANGED <<playersVars, watching>>

AddPlayers(new) ==
  Select(players \o new,
         [p \in Player |-> IF Contains(new, p) THEN Unknown ELSE known[p]], active_,
         questions \cup {Ask("GetAll", p) : p \in ToSet(new) \cap running})

(* Nothing that was asked by or told to the one that is gone is of use.      *)
RemovePlayer(p) ==
  Select(RemoveFirst(players, p), known, IF active_ = p THEN NoPlayer ELSE active_,
         {q \in questions : q.player # p})

(* Mutant: the cached position is taken for one in the new units.            *)
WithoutRefresh(p, k, message) == {}

(* A new track starts elsewhere, and the cached position was read in the     *)
(* units of the last one.                                                    *)
RefreshPosition(p, k, message) ==
  IF message.track # k.track /\ p \in running THEN {Ask("Get", p)} ELSE {}

onSeeked(k, at) == [k EXCEPT !.position = Micros(k.track, at)]

(* A player that starts playing takes over.                                  *)
ApplyProperties(p, message) ==
  LET track == [status |-> message.status, track |-> message.track, position |-> known[p].position]
      now == IF message.type = "All" THEN onSeeked(track, message.position) ELSE track
      k == [known EXCEPT ![p] = now]
      asked == questions \cup RefreshPosition(p, known[p], message)
  IN  IF [now EXCEPT !.position = 0] = [known[p] EXCEPT !.position = 0]
      THEN /\ known' = k /\ questions' = asked
           /\ UNCHANGED <<playersVars, watching, players, active_, position_timer_>>
      ELSE Select(players, k, IF now.status = "Playing" THEN p ELSE active_, asked)

Reads(types) == mediaInbox # <<>> /\ Head(mediaInbox).type \in types

scanExistingPlayers ==
  /\ Reads({"ListNames"}) /\ mediaInbox' = Tail(mediaInbox)
  /\ \E new \in SetToSeqs(Head(mediaInbox).running \ ToSet(players)) : AddPlayers(new)

(* What was told to the one that is gone, nobody hears any more.             *)
Silenced(inbox, p) ==
  [i \in DOMAIN inbox |->
     IF inbox[i].type \notin {"NameOwnerChanged", "ListNames"} /\ inbox[i].player = p
      THEN [type |-> "Silenced", player |-> p] ELSE inbox[i]]

onNameOwnerChanged ==
  /\ Reads({"NameOwnerChanged"})
  /\ LET p == Head(mediaInbox).player
         up == Head(mediaInbox).up
         rest == Tail(mediaInbox)
     IN  /\ mediaInbox' = IF up THEN rest ELSE Silenced(rest, p)
         /\ CASE up /\ ~Contains(players, p) -> AddPlayers(<<p>>)
              [] ~up /\ Contains(players, p) -> RemovePlayer(p)
              [] OTHER -> UNCHANGED <<playersVars, questions, controllerVars>>

onPropertiesChanged ==
  /\ Reads({"Metadata", "All"}) /\ mediaInbox' = Tail(mediaInbox)
  /\ ApplyProperties(Head(mediaInbox).player, Head(mediaInbox))

MprisRefresh ==
  /\ Reads({"Invalidated"}) /\ mediaInbox' = Tail(mediaInbox)
  /\ questions' = questions \cup
       {Ask("GetAll", p) : p \in {Head(mediaInbox).player} \cap running}
  /\ UNCHANGED <<playersVars, controllerVars>>

PositionComes ==
  /\ Reads({"Position"}) /\ mediaInbox' = Tail(mediaInbox)
  /\ known' = [known EXCEPT ![Head(mediaInbox).player] = onSeeked(@, Head(mediaInbox).position)]
  /\ UNCHANGED <<playersVars, questions, watching, players, active_, position_timer_>>

NobodyHears ==
  /\ Reads({"Silenced"}) /\ mediaInbox' = Tail(mediaInbox)
  /\ UNCHANGED <<playersVars, questions, controllerVars>>

PositionTimeout ==
  /\ Quiet /\ position_timer_
  /\ questions' = questions \cup IF active_ \in running THEN {Ask("Get", active_)} ELSE {}
  /\ UNCHANGED <<playersVars, mediaInbox, controllerVars>>

(* Shown at once: the player confirms, unless it is at another track by now. *)
Seek ==
  /\ Quiet /\ active_ # NoPlayer /\ known[active_].track # NoTrack
  /\ questions' = questions \cup IF active_ \in running
       THEN {[type |-> "SetPosition", player |-> active_, track |-> known[active_].track]}
       ELSE {}
  /\ known' = [known EXCEPT ![active_] = onSeeked(@, 1)]
  /\ UNCHANGED <<playersVars, mediaInbox, watching, players, active_, position_timer_>>

MediaNext ==
  \/ \E p \in Player : PlayerStarts(p) \/ PlayerQuits(p) \/ PlayerChanges(p)
  \/ \E q \in questions : q.player # NoPlayer /\ PlayerAnswers(q)
  \/ BusAnswers
  \/ MediaControllerStarts
  \/ scanExistingPlayers
  \/ onNameOwnerChanged
  \/ onPropertiesChanged
  \/ MprisRefresh
  \/ PositionComes
  \/ NobodyHears
  \/ PositionTimeout
  \/ Seek

-----------------------------------------------------------------------------
(* When everything asked is answered and everything told is heard, the       *)
(* controls are those of a player that runs, of one that plays if any does,  *)
(* and show its track and the right time, in whatever units it tells it.     *)
MediaFollows ==
  (watching /\ questions = {} /\ mediaInbox = <<>>) =>
    /\ ToSet(players) = running
    /\ (active_ = NoPlayer) = (running = {})
    /\ (\E p \in running : theirs[p].status = "Playing") =>
         theirs[active_].status = "Playing" /\ position_timer_
    /\ \A p \in running :
         /\ known[p].status = theirs[p].status /\ known[p].track = theirs[p].track
         /\ known[p].position = Micros(theirs[p].track, theirs[p].position)
=============================================================================
