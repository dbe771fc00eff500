---------------------------- MODULE ThemeGreeter ----------------------------
(* The themed greeter: a view of the theme on every screen, each with its    *)
(* own choice of a session, over models they share and one connection to the *)
(* daemon.  The user is chosen in a box of the same kind, but from a list    *)
(* that never changes: left out.                                             *)
EXTENDS Integers, Sequences, FiniteSetsExt, SequencesExt

CONSTANTS
  Output,           \* the screens there may be
  Desktop,          \* session files, numbered by name
  MayRenumber       \* a change of the directories may move the sessions shown

ASSUME ThemeGreeterAssumption ==
  /\ MayRenumber \in BOOLEAN
  /\ Desktop \subseteq Nat \ {0} /\ IsFiniteSet(Desktop)
  /\ "none" \notin Output

VARIABLES
  available,        \* the sessions on disk that SessionModel would take
  lastIndex,        \* index of the remembered session, from 0
  plugged, primary, \* screens, and the primary one
  views,            \* m_views: what each shows, or NoView
  activeView,       \* the view last activated
  daemon,           \* "connected", "busy" with a login, "won" or "gone"
  sent              \* the Login message under way

themeVars == <<available, lastIndex, plugged, primary, views, activeView, daemon, sent>>

(* index: of the session box; row: the current row of its list; top: the     *)
(* session its closed box shows.                                             *)
NoSession == 0
NoView == [open |-> FALSE, index |-> -1, row |-> -1, top |-> NoSession]
NoLogin == [session |-> NoSession, shown |-> NoSession]
NoScreen == "none"

(* The rows of the session box, from 0: a directory is listed by name.       *)
SessionModel(files) == SetToSortSeq(files, <)
RowOf(files, i) ==
  LET model == SessionModel(files) IN IF i + 1 \in DOMAIN model THEN model[i + 1] ELSE NoSession
SessionAt(i) == RowOf(available, i)

(* populate(): the remembered session is looked for, which is as far down as *)
(* there are names before its own; one that is gone leaves lastIndex as it   *)
(* was.                                                                      *)
Populates(files, remembered) ==
  IF remembered \in files THEN Cardinality({d \in files : d < remembered}) ELSE lastIndex

ThemeView ==
  [open |-> FALSE, index |-> lastIndex, row |-> lastIndex, top |-> SessionAt(lastIndex)]

(* startup(): the models exist before the views, which need a connection.    *)
ThemeInit ==
  /\ available \in SUBSET Desktop
  /\ lastIndex \in 0 .. 1 /\ (lastIndex = 1 => Cardinality(available) > 1)
  /\ plugged \in (SUBSET Output) \ {{}} /\ primary \in plugged
  /\ views = [s \in Output |-> IF s \in plugged THEN ThemeView ELSE NoView]
  /\ activeView = primary
  /\ daemon = "connected"
  /\ sent = NoLogin

Sets(v, change) == views' = [views EXCEPT ![v] = change]

Shown(v) == views[v] # NoView

-----------------------------------------------------------------------------
(* Screens.  Qt moves a lost primary on before it removes the screen; views  *)
(* are told of neither, and only the active one changes.                     *)
ActivatePrimary(to) ==
  activeView' = IF to # NoScreen /\ views'[to] # NoView THEN to ELSE activeView

AddViewForScreen ==
  /\ daemon # "gone"
  /\ \E s \in Output \ plugged, becomesPrimary \in BOOLEAN :
       /\ plugged' = plugged \cup {s}
       /\ Sets(s, ThemeView)
       /\ primary' = IF becomesPrimary \/ plugged = {} THEN s ELSE primary
       /\ ActivatePrimary(IF primary' = primary THEN NoScreen ELSE primary')
  /\ UNCHANGED <<available, lastIndex, daemon, sent>>

RemoveViewForScreen ==
  /\ daemon # "gone"
  /\ \E s \in plugged :
       /\ plugged' = plugged \ {s} /\ plugged' # {}
       /\ Sets(s, NoView)
       /\ primary' \in IF s = primary THEN plugged' ELSE {primary}
       /\ ActivatePrimary(IF s = primary THEN primary' ELSE NoScreen)
  /\ UNCHANGED <<available, lastIndex, daemon, sent>>

-----------------------------------------------------------------------------
(* SessionModel reads the directories anew when one changes.  The boxes keep *)
(* their index and what their closed row shows.                              *)
SessionsChange ==
  /\ daemon # "gone"
  /\ \E d \in Desktop : available' = SymDiff(available, {d})
  /\ MayRenumber \/ \A s \in Output : Shown(s) => RowOf(available', views[s].index) = views[s].top
  /\ \E remembered \in Desktop : lastIndex' = Populates(available', remembered)
  /\ UNCHANGED <<plugged, primary, views, activeView, daemon, sent>>

-----------------------------------------------------------------------------
(* The view that has the focus.  Moving over the list, the wheel and the     *)
(* arrow keys move its row only.                                             *)
HasFocus(v) == v = activeView /\ Shown(v) /\ daemon # "gone"

RowMoves(v) ==
  /\ HasFocus(v)
  /\ \E r \in 0 .. Cardinality(available) - 1 :
       r # views[v].row /\ Sets(v, [views[v] EXCEPT !.row = r])
  /\ UNCHANGED <<available, lastIndex, plugged, primary, activeView, daemon, sent>>

OpensBox(v) ==
  /\ HasFocus(v) /\ ~views[v].open
  /\ Sets(v, [views[v] EXCEPT !.open = TRUE, !.row = views[v].index])
  /\ UNCHANGED <<available, lastIndex, plugged, primary, activeView, daemon, sent>>

(* Variant: the box keeps its text.                                         *)
ClosedStale(v, update) ==
  LET here == views[v] IN
  IF update THEN [here EXCEPT !.open = FALSE, !.index = here.row] ELSE [here EXCEPT !.open = FALSE]

(* close(): Enter updates the box, also while the list is closed; Escape and *)
(* the loss of the focus only close it.                                      *)
Closed(v, update) ==
  LET here == views[v] IN
  IF update
  THEN [here EXCEPT !.open = FALSE, !.index = here.row, !.top = SessionAt(here.row)]
  ELSE [here EXCEPT !.open = FALSE]

ClosesBox(v) ==
  /\ HasFocus(v)
  /\ \E update \in BOOLEAN :
       /\ update \/ views[v].open
       /\ update => SessionAt(views[v].row) # NoSession
       /\ Sets(v, Closed(v, update))
  /\ UNCHANGED <<available, lastIndex, plugged, primary, activeView, daemon, sent>>

(* login(): what is at the view's index is sent, an unknown session if there *)
(* is none.  Nothing keeps a user from sending it again.                     *)
Logs(v) ==
  /\ HasFocus(v) /\ daemon \in {"connected", "busy"}
  /\ sent = NoLogin
  /\ sent' = [session |-> SessionAt(views[v].index), shown |-> views[v].top]
  /\ UNCHANGED <<available, lastIndex, plugged, primary, views, activeView, daemon>>

-----------------------------------------------------------------------------
(* The daemon (external): a login while one is under way fails at once.  A   *)
(* failure only shows a text.                                                *)
DaemonReadsLogin ==
  /\ sent # NoLogin
  /\ sent' = NoLogin
  /\ daemon' = IF daemon = "connected" /\ sent.session # NoSession THEN "busy" ELSE daemon
  /\ UNCHANGED <<available, lastIndex, plugged, primary, views, activeView>>

LoginFailed ==
  /\ daemon = "busy" /\ daemon' = "connected"
  /\ UNCHANGED <<available, lastIndex, plugged, primary, views, activeView, sent>>

(* Every view is closed.                                                     *)
LoginSucceeded ==
  /\ daemon = "busy" /\ daemon' = "won"
  /\ views' = [s \in Output |-> NoView]
  /\ UNCHANGED <<available, lastIndex, plugged, primary, activeView, sent>>

SocketDisconnected ==
  /\ daemon # "gone" /\ daemon' = "gone" /\ sent' = NoLogin
  /\ UNCHANGED <<available, lastIndex, plugged, primary, views, activeView>>

ThemeNext ==
  \/ AddViewForScreen \/ RemoveViewForScreen \/ SessionsChange
  \/ \E v \in Output : RowMoves(v) \/ OpensBox(v) \/ ClosesBox(v) \/ Logs(v)
  \/ DaemonReadsLogin \/ LoginFailed \/ LoginSucceeded \/ SocketDisconnected

-----------------------------------------------------------------------------
(* A login is for the session its view shows, whatever rows were passed over *)
(* and whatever other views show; and it can be made: while a login may be   *)
(* started there is a view on each screen, and the primary one has the focus.*)
ThemeLogsInAsShown ==
  /\ sent # NoLogin => sent.session = sent.shown
  /\ daemon \in {"connected", "busy"} =>
       activeView = primary /\ \A s \in plugged : Shown(s)
=============================================================================
