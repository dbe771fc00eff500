------------------------------- MODULE Frames -------------------------------
(* The windows of gxdm-greeter-classic, one per monitor.  Only the one the   *)
(* pointer is on shows its content; what the content is about (the list of   *)
(* users, the power buttons or the password) is one mode for all.  A frame   *)
(* asks for the keyboard 300 ms after it came in, so frames that are gone    *)
(* may still be granted it, and frames that are not seen may hold it.        *)
EXTENDS Naturals, Sequences, SequencesExt

CONSTANTS
  Monitor,
  FirstMode,           \* "user" if there are several users, else "password"
  MaxGrabs,            \* nothing new happens while more of them are waited for
  Chances              \* "click" another power button is clicked than the highlighted,
                       \* "quick" a mode is left before its animation's first step

VARIABLES
  framed,              \* the monitors that have a window, oldest first
  pointer,             \* the monitor it is on
  shown,               \* the windows whose content is visible
  mode,                \* m_currentModeState
  center, blur,        \* of each window: its center widget, and the background's
                       \* blur: "off", "on" or on its "way" to either
  grabs, grabber,      \* of the keyboard: waited for, and holding it
  frameUser,           \* the current user
  chosen,              \* of each list of users: the one that is highlighted
  powerIndex,          \* the power button that is highlighted
  selected             \* of each window: the one that Enter presses

framesVars == <<framed, pointer, shown, mode, center, blur, grabs, grabber, frameUser, chosen,
                powerIndex, selected>>

NoGrabber == <<"none", "none">>
Nowhere == "none"
Account == {1, 2}
Offered == {0, 1, 2}              \* shut down, restart, suspend; no swap, no hibernation

FramesInit ==
  /\ framed = <<>> /\ pointer = Nowhere /\ shown = {} /\ mode = FirstMode
  /\ center = [m \in Monitor |-> "none"] /\ blur = [m \in Monitor |-> "off"]
  /\ grabs = <<>> /\ grabber = NoGrabber
  /\ frameUser = 1 /\ chosen = [m \in Monitor |-> 1]
  /\ powerIndex = 0 /\ selected = [m \in Monitor |-> 0]

Windows == ToSet(framed)
FewGrabs == Len(grabs) <= MaxGrabs

(* setBackgroundFocused(): an animation that runs the wrong way is turned    *)
(* round, unless its first step is still to come.                            *)
setBackgroundFocused(at, on) ==
  LET goal == IF on THEN "on" ELSE "off"
      back == IF on THEN "falls" ELSE "rises"
      way == IF on THEN "rises" ELSE "falls"
  IN  CASE at \in {goal, way} -> at
        [] at = back /\ "quick" \in Chances -> back
        [] OTHER -> way

(* onStatusChanged() of the windows in the order they hear of it: each lets  *)
(* go of the keyboard, puts its frame in the center and will grab.           *)
Pushed(ms, m, first) ==
  /\ center' = [f \in Monitor |-> IF Contains(ms, f) THEN m ELSE center[f]]
  /\ blur' = [f \in Monitor |-> IF Contains(ms, f)
                THEN setBackgroundFocused(blur[f], m = "password") ELSE blur[f]]
  /\ grabs' = first \o [i \in DOMAIN ms |-> <<ms[i], m>>]
  /\ chosen' = [f \in Monitor |->
                  IF Contains(ms, f) /\ "user" \in {m, center[f]} THEN frameUser' ELSE chosen[f]]

Released(ms) == grabber' = IF grabber[1] \in ms THEN NoGrabber ELSE grabber

setCurrentModeState(m) ==
  /\ mode' = m
  /\ IF m = mode THEN UNCHANGED <<center, blur, grabs, chosen, grabber>>
                 ELSE Pushed(framed, m, grabs) /\ Released(Windows)

(* The showEvent of contents: each begins in the first mode, for all.        *)
ShowContents(fs, hidden) ==
  /\ mode' = FirstMode
  /\ Pushed((IF mode # FirstMode /\ fs # <<>> THEN framed ELSE <<>>) \o fs, FirstMode, grabs)
  /\ Released(hidden \cup ToSet(fs) \cup (IF mode # FirstMode THEN Windows ELSE {}))

(* Mutant: what a window highlights it tells no other.                       *)
updateValueHere(values, f, value) == [values EXCEPT ![f] = value]

(* FrameDataBind: a value that a window changes is that of all of them.      *)
updateValue(values, f, value) ==
  [m \in Monitor |-> IF m \in Windows THEN value ELSE values[m]]

-----------------------------------------------------------------------------
ScreenAdded(m) ==
  /\ FewGrabs /\ m \notin Windows
  /\ UNCHANGED <<pointer, shown, frameUser, powerIndex>>
  /\ setCurrentModeState(FirstMode)
  /\ framed' = Append(framed, m)
  /\ selected' = [f \in Monitor |-> IF f \in Windows \cup {m} THEN powerIndex ELSE selected[f]]

ScreenRemoved(m) ==
  /\ m \in Windows
  /\ framed' = SelectSeq(framed, LAMBDA f : f # m)
  /\ shown' = shown \ {m}
  /\ pointer' = IF pointer = m THEN Nowhere ELSE pointer
  /\ grabs' = SelectSeq(grabs, LAMBDA g : g[1] # m)
  /\ Released({m})
  /\ center' = [center EXCEPT ![m] = "none"] /\ blur' = [blur EXCEPT ![m] = "off"]
  /\ chosen' = [chosen EXCEPT ![m] = frameUser] /\ selected' = [selected EXCEPT ![m] = 0]
  /\ UNCHANGED <<mode, frameUser, powerIndex>>

(* PropertyGroup: the content of the others is hidden.                       *)
frameEnterEvent(f) ==
  /\ FewGrabs /\ f \in Windows /\ pointer # f /\ pointer' = f
  /\ UNCHANGED <<framed, frameUser, powerIndex, selected>>
  /\ shown' = {f}
  /\ IF f \in shown
       THEN /\ Released(shown \ {f})
            /\ UNCHANGED <<mode, center, blur, grabs, chosen>>
       ELSE ShowContents(<<f>>, shown)

(* authFinished(): after a wrong password every window shows its content.    *)
(* A pointer whose monitor went is on another by then.                       *)
LoginRejected ==
  /\ FewGrabs /\ pointer \in shown
  /\ UNCHANGED <<framed, pointer, frameUser, powerIndex, selected>>
  /\ shown' = Windows
  /\ IF shown = Windows
       THEN UNCHANGED <<mode, center, blur, grabs, chosen, grabber>>
       ELSE ShowContents(SelectSeq(framed, LAMBDA f : f \notin shown), {})

LoginAccepted ==
  /\ shown # {} /\ shown' = {} /\ Released(shown)
  /\ UNCHANGED <<framed, pointer, mode, center, blur, grabs, frameUser, chosen, powerIndex,
                 selected>>

(* The buttons of the control bar.                                           *)
ModeChosen(m) ==
  /\ FewGrabs /\ pointer \in shown /\ m # mode
  /\ UNCHANGED <<framed, pointer, shown, frameUser, powerIndex, selected>>
  /\ setCurrentModeState(m)

mouseReleaseEvent ==
  /\ FewGrabs /\ pointer \in shown
  /\ UNCHANGED <<framed, pointer, shown, frameUser, powerIndex, selected>>
  /\ mode' = "password"
  /\ Pushed((IF mode # "password" THEN framed ELSE <<>>) \o <<pointer>>, "password", grabs)
  /\ Released(IF mode # "password" THEN Windows ELSE {pointer})

restoreMode == FewGrabs /\ setCurrentModeState("password") /\ UNCHANGED <<framed, pointer, shown>>

onUserClicked(u) ==
  /\ frameUser' = u
  /\ restoreMode
  /\ UNCHANGED <<powerIndex, selected>>

AvatarClicked ==
  /\ pointer \in shown /\ center[pointer] = "user"
  /\ \E u \in Account : onUserClicked(u)

PowerButtonClicked ==
  /\ UNCHANGED <<frameUser, powerIndex>>
  /\ pointer \in shown /\ center[pointer] = "power"
  /\ \E b \in IF "click" \in Chances THEN Offered ELSE {powerIndex} :
       selected' = [selected EXCEPT ![pointer] = b]
  /\ restoreMode

-----------------------------------------------------------------------------
(* A key goes to the widget that has grabbed the keyboard.                   *)
switchUser(f) ==
  /\ chosen' = updateValue(chosen, f, 3 - chosen[f])
  /\ UNCHANGED <<framed, pointer, shown, mode, center, blur, grabs, grabber, frameUser,
                 powerIndex, selected>>

(* Buttons that are hidden are skipped, and the row is a ring.               *)
KeySwitch(step) ==
  LET at(i) == (powerIndex + i * step) % 4
      i == CHOOSE n \in 1 .. 4 : at(n) \in Offered /\ \A k \in 1 .. n - 1 : at(k) \notin Offered
  IN  at(i)

switchButton(f) ==
  /\ powerIndex' \in {KeySwitch(1), KeySwitch(3)}
  /\ selected' = updateValue(selected, f, powerIndex')
  /\ UNCHANGED <<framed, pointer, shown, mode, center, blur, grabs, grabber, frameUser, chosen>>

KeyPressed ==
  LET f == grabber[1]
      kind == grabber[2]
  IN  \/ kind = "user" /\ (switchUser(f) \/ onUserClicked(chosen[f]))
      \/ kind = "power" /\ switchButton(f)
      \/ /\ kind \in {"user", "power", "session"}
         /\ UNCHANGED <<frameUser, powerIndex, selected>>
         /\ restoreMode

-----------------------------------------------------------------------------
(* The password is only asked for where it is seen; the other frames grab    *)
(* whether they are seen or not.                                             *)
GrabTimeout ==
  /\ grabs # <<>> /\ grabs' = Tail(grabs)
  /\ LET g == Head(grabs)
     IN  grabber' = IF g[2] = "password" /\ ~(g[1] \in shown /\ center[g[1]] = "password")
                      THEN grabber ELSE g
  /\ UNCHANGED <<framed, pointer, shown, mode, center, blur, frameUser, chosen, powerIndex,
                 selected>>

FocusFinished ==
  /\ \E m \in Monitor : blur[m] \in {"rises", "falls"}
  /\ blur' = [m \in Monitor |-> CASE blur[m] = "rises" -> "on" [] blur[m] = "falls" -> "off"
                                  [] OTHER -> blur[m]]
  /\ UNCHANGED <<framed, pointer, shown, mode, center, grabs, grabber, frameUser, chosen,
                 powerIndex, selected>>

FramesNext ==
  \/ \E m \in Monitor :
       ScreenAdded(m) \/ ScreenRemoved(m) \/ frameEnterEvent(m)
  \/ mouseReleaseEvent \/ LoginRejected \/ LoginAccepted \/ AvatarClicked \/ PowerButtonClicked
  \/ \E m \in {"user", "power", "session"} : ModeChosen(m)
  \/ KeyPressed \/ GrabTimeout \/ FocusFinished

-----------------------------------------------------------------------------
(* Once no frame waits for the keyboard, what the eye sees is what the keys  *)
(* act on: a visible content has the mode's frame in its center, before a    *)
(* background that is blurred behind the password alone, and the frame that  *)
(* has the keyboard, seen or not, is of that mode and has highlighted what a *)
(* visible one highlights.                                                   *)
KeysActOnWhatIsShown ==
  grabs = <<>> /\ shown # {} =>
    /\ \A f \in shown :
         /\ center[f] = mode
         /\ blur[f] \in {"on", "off"} => (blur[f] = "on" <=> mode = "password")
    /\ grabber # NoGrabber =>
         /\ grabber[2] = mode
         /\ mode = "user" => \E f \in shown : chosen[f] = chosen[grabber[1]]
         /\ mode = "power" => selected[grabber[1]] = powerIndex /\ powerIndex \in Offered
=============================================================================
