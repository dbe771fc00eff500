----------------------------- MODULE VirtualKeys ----------------------------
(* The on-screen keyboards of the lock screen and of the greeter: each       *)
(* window has one, all type into the field that had the focus last, in       *)
(* whichever window that is, and what is typed there appears in the others.  *)
EXTENDS Naturals, Sequences, SequencesExt

CONSTANTS
  KbWindow,            \* the windows, one for each screen
  LetterKey, OtherKey, \* some keys: Caps counts for letters only
  MaxTyped             \* bounds the password

VARIABLES
  upWindows,           \* the windows there are
  usable,              \* the password field is shown, and takes input
  focusedField,        \* the window whose field has the focus, or NoField
  m_inputTarget, m_capsLock, m_shift,          \* of each keyboard
  shiftChecked,        \* its Shift button looks pressed
  keyLabel,            \* its keys that show their shifted text
  fieldText, passwordData,                     \* of each window, and shared
  wanted               \* what the keys said that were pressed

keysVars == <<upWindows, usable, focusedField, m_inputTarget, m_capsLock, m_shift, shiftChecked,
              keyLabel, fieldText, passwordData, wanted>>
stateOfKeys == <<m_capsLock, m_shift, shiftChecked, keyLabel>>
texts == <<fieldText, passwordData, wanted>>

PrintableKey == LetterKey \cup OtherKey
NoField == "no field"

useShiftedText(key, caps, shift) == IF key \in LetterKey THEN caps # shift ELSE shift
Labels(caps, shift) == {key \in PrintableKey : useShiftedText(key, caps, shift)}

KeysInit ==
  /\ \E w \in KbWindow : upWindows = {w}
  /\ usable = TRUE /\ focusedField = NoField
  /\ m_inputTarget = [w \in KbWindow |-> NoField]
  /\ m_capsLock = [w \in KbWindow |-> FALSE] /\ m_shift = [w \in KbWindow |-> FALSE]
  /\ shiftChecked = [w \in KbWindow |-> FALSE] /\ keyLabel = [w \in KbWindow |-> {}]
  /\ fieldText = [w \in KbWindow |-> <<>>] /\ passwordData = <<>> /\ wanted = <<>>

-----------------------------------------------------------------------------
(* Every keyboard follows the focus of the whole application, and keeps the  *)
(* last field when the focus goes elsewhere.                                 *)
Focus(w) ==
  /\ focusedField' = w
  /\ m_inputTarget' = [k \in KbWindow |->
       IF w # NoField /\ k \in upWindows THEN w ELSE m_inputTarget[k]]

FieldFocused(w) ==
  /\ usable /\ Focus(w) /\ UNCHANGED <<upWindows, usable, stateOfKeys, texts>>

FocusLeaves ==
  /\ focusedField # NoField /\ Focus(NoField)
  /\ UNCHANGED <<upWindows, usable, stateOfKeys, texts>>

(* Another screen: its keyboard starts with the field in focus, its field    *)
(* with what the others hold.                                                *)
WindowAdded(w) ==
  /\ w \notin upWindows /\ upWindows' = upWindows \cup {w}
  /\ m_inputTarget' = [m_inputTarget EXCEPT ![w] = focusedField]
  /\ fieldText' = [fieldText EXCEPT ![w] = passwordData]
  /\ UNCHANGED <<usable, focusedField, stateOfKeys, passwordData, wanted>>

(* With its field every keyboard that typed into it loses it.                *)
WindowRemoved(w) ==
  /\ w \in upWindows /\ upWindows # {w} /\ upWindows' = upWindows \ {w}
  /\ focusedField' = IF focusedField = w THEN NoField ELSE focusedField
  /\ m_inputTarget' = [k \in KbWindow |->
       IF k = w \/ m_inputTarget[k] = w THEN NoField ELSE m_inputTarget[k]]
  /\ fieldText' = [fieldText EXCEPT ![w] = <<>>]
  /\ m_capsLock' = [m_capsLock EXCEPT ![w] = FALSE] /\ m_shift' = [m_shift EXCEPT ![w] = FALSE]
  /\ shiftChecked' = [shiftChecked EXCEPT ![w] = FALSE]
  /\ keyLabel' = [keyLabel EXCEPT ![w] = {}]
  /\ UNCHANGED <<usable, passwordData, wanted>>

(* Something covers the fields, or the user has to wait; and when the user   *)
(* is admitted they are emptied as well.                                     *)
UsableChanges ==
  /\ usable' = ~usable /\ Focus(NoField)
  /\ UNCHANGED <<upWindows, stateOfKeys, texts>>

updatePassword(text) ==
  /\ passwordData' = text
  /\ fieldText' = [w \in KbWindow |-> IF w \in upWindows THEN text ELSE fieldText[w]]

resetFields ==
  /\ updatePassword(<<>>) /\ wanted' = <<>> /\ usable' = FALSE /\ Focus(NoField)
  /\ UNCHANGED <<upWindows, stateOfKeys>>

-----------------------------------------------------------------------------
updateKeyLabels(w) ==
  keyLabel' = [keyLabel EXCEPT ![w] = Labels(m_capsLock'[w], m_shift'[w])]

CapsClicked(w) ==
  /\ w \in upWindows /\ m_capsLock' = [m_capsLock EXCEPT ![w] = ~@]
  /\ UNCHANGED m_shift /\ updateKeyLabels(w)
  /\ UNCHANGED <<upWindows, usable, focusedField, m_inputTarget, shiftChecked, texts>>

ShiftClicked(w) ==
  /\ w \in upWindows /\ m_shift' = [m_shift EXCEPT ![w] = ~@]
  /\ shiftChecked' = [shiftChecked EXCEPT ![w] = ~@]
  /\ UNCHANGED m_capsLock /\ updateKeyLabels(w)
  /\ UNCHANGED <<upWindows, usable, focusedField, m_inputTarget, texts>>

(* The keyboard need not be one of the window it types into.                 *)
inputTarget(w) == IF usable THEN m_inputTarget[w] ELSE NoField

(* Mutant: the labels stay as they were when Shift is used up.               *)
consumeShiftUnseen(w) ==
  /\ m_shift' = [m_shift EXCEPT ![w] = FALSE]
  /\ shiftChecked' = [shiftChecked EXCEPT ![w] = FALSE] /\ UNCHANGED <<m_capsLock, keyLabel>>
consumeShift(w) ==
  /\ m_shift' = [m_shift EXCEPT ![w] = FALSE]
  /\ shiftChecked' = [shiftChecked EXCEPT ![w] = FALSE] /\ UNCHANGED m_capsLock
  /\ IF m_shift[w] THEN updateKeyLabels(w) ELSE UNCHANGED keyLabel

PrintableClicked(w, key) ==
  /\ w \in upWindows
  /\ IF inputTarget(w) = NoField THEN UNCHANGED <<stateOfKeys, texts>>
     ELSE /\ Len(wanted) < MaxTyped
          /\ updatePassword(Append(fieldText[inputTarget(w)],
                                <<key, useShiftedText(key, m_capsLock[w], m_shift[w])>>))
          /\ wanted' = Append(wanted, <<key, key \in keyLabel[w]>>)
          /\ consumeShift(w)
  /\ UNCHANGED <<upWindows, usable, focusedField, m_inputTarget>>

(* Backspace leaves Shift pressed, Enter does not.                           *)
BackspaceClicked(w) ==
  /\ w \in upWindows /\ inputTarget(w) # NoField /\ wanted # <<>>
  /\ updatePassword(Front(fieldText[inputTarget(w)])) /\ wanted' = Front(wanted)
  /\ UNCHANGED <<upWindows, usable, focusedField, m_inputTarget, stateOfKeys>>

EnterClicked(w) ==
  /\ w \in upWindows /\ inputTarget(w) # NoField /\ consumeShift(w)
  /\ UNCHANGED <<upWindows, usable, focusedField, m_inputTarget, texts>>

KeysNext ==
  \/ FocusLeaves \/ UsableChanges \/ resetFields
  \/ \E w \in KbWindow :
       \/ w \in upWindows /\ FieldFocused(w)
       \/ WindowAdded(w) \/ WindowRemoved(w) \/ CapsClicked(w) \/ ShiftClicked(w)
       \/ BackspaceClicked(w) \/ EnterClicked(w)
       \/ \E key \in PrintableKey : PrintableClicked(w, key)

-----------------------------------------------------------------------------
(* On whichever screen the keys are pressed, whatever is plugged in or out   *)
(* meanwhile: each field there is holds what the pressed keys said, and each *)
(* key says what it would type next.                                         *)
TypedAsShown ==
  \A w \in upWindows :
    /\ fieldText[w] = wanted
    /\ shiftChecked[w] = m_shift[w]
    /\ keyLabel[w] = Labels(m_capsLock[w], m_shift[w])
=============================================================================
