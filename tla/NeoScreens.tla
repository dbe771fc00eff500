----------------------------- MODULE NeoScreens -----------------------------
(* The windows of gxdm-greeter-neo, one per screen, and the fade before a    *)
(* session.  The scene, with the password box, is in one window at a time    *)
(* and follows the pointer.  Once the fade has ended the daemon is told so   *)
(* only when every window has shown a frame drawn since, or too late.        *)
EXTENDS Naturals, Sequences, SequencesExt

CONSTANTS
  NeoScreen,
  MaxAdditions         \* no screen is plugged in while more changes are waited for

VARIABLES
  connected,           \* the screens
  additions,           \* screenAdded(), queued
  windows, sceneWindow,\* those that have a window, and the one with the scene
  exposed,             \* the windows that can be seen
  drawing, onScreen,   \* of each window: the frame being drawn, and the one shown
  fade,                \* "none", "runs", "drawn" (awaited) or "over"
  pending,             \* transition_pending_
  pendingFrames,       \* of the windows awaited: the frames they have shown since
  swaps,               \* frameSwapped(), queued
  answers              \* what the daemon was told of this login, and if too late

neoScreensVars == <<connected, additions, windows, sceneWindow, exposed, drawing, onScreen, fade,
                    pending, pendingFrames, swaps, answers>>
windowVars == <<connected, additions, windows, sceneWindow, exposed>>
drawVars == <<drawing, onScreen>>

NoWindow == "none"
Blank == "blank"

ASSUME NeoScreensAssumption == NeoScreen # {} /\ NoWindow \notin NeoScreen

NeoScreensInit ==
  /\ connected = NeoScreen /\ additions = <<>> /\ windows = NeoScreen
  /\ sceneWindow = CHOOSE s \in NeoScreen : TRUE
  /\ exposed = {}
  /\ drawing = [s \in NeoScreen |-> Blank] /\ onScreen = [s \in NeoScreen |-> Blank]
  /\ fade = "none" /\ pending = FALSE
  /\ pendingFrames = [s \in {} |-> 0] /\ swaps = [s \in NeoScreen |-> 0] /\ answers = <<>>

Awaited == DOMAIN pendingFrames
Without(f, s) == [t \in DOMAIN f \ {s} |-> f[t]]

(* LoginTransition::Complete(): a late answer changes nothing.               *)
Complete(ready) ==
  /\ fade' = "over"
  /\ pending' = FALSE
  /\ answers' = IF pending THEN Append(answers, ready) ELSE answers
  /\ pendingFrames' = [s \in {} |-> 0]
  /\ swaps' = [s \in NeoScreen |-> 0]

WindowFinished(s) ==
  IF Awaited = {s}
    THEN Complete(TRUE)
    ELSE /\ pendingFrames' = Without(pendingFrames, s)
         /\ swaps' = [swaps EXCEPT ![s] = 0]
         /\ UNCHANGED <<fade, pending, answers>>

Cancel ==
  /\ pendingFrames' = [s \in {} |-> 0]
  /\ swaps' = [s \in NeoScreen |-> 0]

-----------------------------------------------------------------------------
(* ScreenManager.  Where the pointer is, or else the primary screen, or any. *)
InitialWindow(ws) == IF ws = {} THEN {NoWindow} ELSE ws

PlugIn(s) ==
  /\ s \notin connected /\ Len(additions) < MaxAdditions
  /\ connected' = connected \cup {s} /\ additions' = Append(additions, s)
  /\ UNCHANGED <<windows, sceneWindow, exposed, drawVars, fade, pending, pendingFrames, swaps,
                 answers>>

Creatable(s) == s \notin windows /\ s \in connected

AddScreen ==
  /\ additions # <<>> /\ additions' = Tail(additions)
  /\ windows' = windows \cup {s \in {Head(additions)} : Creatable(s)}
  /\ sceneWindow' \in IF sceneWindow = NoWindow THEN InitialWindow(windows') ELSE {sceneWindow}
  /\ UNCHANGED <<connected, exposed, drawVars, fade, pending, pendingFrames, swaps, answers>>

RemoveScreen(s) ==
  /\ s \in connected /\ connected' = connected \ {s}
  /\ windows' = windows \ {s} /\ exposed' = exposed \ {s}
  /\ sceneWindow' \in IF sceneWindow = s THEN InitialWindow(windows') ELSE {sceneWindow}
  /\ drawing' = [drawing EXCEPT ![s] = Blank] /\ onScreen' = [onScreen EXCEPT ![s] = Blank]
  /\ UNCHANGED additions
  /\ IF s \in Awaited THEN WindowFinished(s)
                      ELSE UNCHANGED <<fade, pending, pendingFrames, swaps, answers>>

Enter(s) ==
  /\ s \in exposed /\ sceneWindow # s /\ sceneWindow' = s
  /\ UNCHANGED <<connected, additions, windows, exposed, drawVars, fade, pending, pendingFrames,
                 swaps, answers>>

Exposed(s) ==
  /\ s \in windows
  /\ exposed' = IF s \in exposed THEN exposed \ {s} ELSE exposed \cup {s}
  /\ drawing' = [drawing EXCEPT ![s] = Blank] /\ onScreen' = [onScreen EXCEPT ![s] = Blank]
  /\ UNCHANGED <<connected, additions, windows, sceneWindow, fade, pending, pendingFrames, swaps,
                 answers>>

-----------------------------------------------------------------------------
(* The renderer of a window has one frame at a time, of how things were when *)
(* it was begun; the thread of the windows hears of it later.                *)
FrameBegins(s) ==
  /\ s \in exposed /\ drawing[s] = Blank
  /\ drawing' = [drawing EXCEPT ![s] = IF fade \in {"drawn", "over"} THEN "after" ELSE "before"]
  /\ UNCHANGED <<windowVars, onScreen, fade, pending, pendingFrames, swaps, answers>>

FrameEnds(s) ==
  /\ drawing[s] # Blank /\ swaps[s] < 2
  /\ onScreen' = [onScreen EXCEPT ![s] = drawing[s]]
  /\ drawing' = [drawing EXCEPT ![s] = Blank]
  /\ swaps' = IF s \in Awaited THEN [swaps EXCEPT ![s] = @ + 1] ELSE swaps
  /\ UNCHANGED <<windowVars, fade, pending, pendingFrames, answers>>

(* Mutant: the first frame will do.                                          *)
FirstFrameSwap(n) == n >= 1

(* The first swap may belong to a frame already in flight.                   *)
RequiredFrameSwaps(n) == n >= 2

FrameSwapped(s) ==
  /\ s \in Awaited /\ swaps[s] > 0
  /\ IF RequiredFrameSwaps(pendingFrames[s] + 1)
       THEN WindowFinished(s)
       ELSE /\ pendingFrames' = [pendingFrames EXCEPT ![s] = @ + 1]
            /\ swaps' = [swaps EXCEPT ![s] = @ - 1]
            /\ UNCHANGED <<fade, pending, answers>>
  /\ UNCHANGED <<windowVars, drawVars>>

-----------------------------------------------------------------------------
(* FadeToBlack or PreserveBackground from the daemon; perhaps once more.     *)
PrepareTransition ==
  /\ fade \in {"none", "drawn"} /\ Len(answers) < 2
  /\ fade' = "runs" /\ pending' = TRUE /\ Cancel
  /\ UNCHANGED <<windowVars, drawVars, answers>>

(* The animation's end is heard of only while something is pending.          *)
FinishTransition ==
  /\ fade = "runs"
  /\ IF ~pending THEN fade' = "over" /\ UNCHANGED <<pending, pendingFrames, swaps, answers>>
     ELSE IF exposed = {} THEN Complete(TRUE)
     ELSE /\ fade' = "drawn"
          /\ pendingFrames' = [s \in exposed |-> 0] /\ swaps' = [s \in NeoScreen |-> 0]
          /\ UNCHANGED <<pending, answers>>
  /\ UNCHANGED <<windowVars, drawVars>>

FrameTimeout ==
  /\ fade = "drawn" /\ Complete(FALSE)
  /\ UNCHANGED <<windowVars, drawVars>>

(* The scene comes back, for the next try.                                   *)
ShowsLoginFailure ==
  /\ fade # "none" /\ fade' = "none" /\ pending' = FALSE /\ Cancel /\ answers' = <<>>
  /\ UNCHANGED <<windowVars, drawVars>>

(* The connection is lost after a finger matched: no failure is shown.       *)
HandleDisconnect ==
  /\ pending /\ pending' = FALSE
  /\ UNCHANGED <<windowVars, drawVars, fade, pendingFrames, swaps, answers>>

NeoScreensNext ==
  \/ \E s \in NeoScreen : \/ PlugIn(s) \/ RemoveScreen(s) \/ Enter(s) \/ Exposed(s)
                       \/ FrameBegins(s) \/ FrameEnds(s) \/ FrameSwapped(s)
  \/ AddScreen \/ PrepareTransition \/ FinishTransition \/ FrameTimeout \/ ShowsLoginFailure
  \/ HandleDisconnect

-----------------------------------------------------------------------------
(* Whatever is plugged in or out, and when, each screen has its window and   *)
(* one of them has the scene; and when the daemon is told in time that the   *)
(* fade is over, no screen still shows a frame from before its end.          *)
SceneHasWindow ==
  /\ windows = {} <=> sceneWindow = NoWindow
  /\ sceneWindow # NoWindow => sceneWindow \in windows
  /\ windows \subseteq connected
  /\ additions = <<>> => windows = connected

ReadyIsDrawn ==
  [][answers' # answers /\ answers' # <<>> /\ Last(answers') =>
       \A s \in exposed' : onScreen'[s] # "before"]_neoScreensVars

NeoScreensHold == []SceneHasWindow /\ ReadyIsDrawn
=============================================================================
