------------------------------ MODULE Keyboard ------------------------------
(* The X server's keyboard and the greeters that show its state.  The themed *)
(* greeter keeps a copy of the locks, the group and the layouts, which it    *)
(* reads when it starts, changes as the user does in the theme, and follows  *)
(* by the server's events.  The classic one has a thread that hears of keys  *)
(* and asks the server; it warns while capitals are locked.                  *)
EXTENDS Naturals, Sequences, FiniteSets, SequencesExt

CONSTANTS
  Keymap,              \* those the server is given
  MaxEvents,           \* nobody types or clicks while more are waited for
  Races                \* "early" a key between reading the state and selecting events,
                       \* "fewer" a keymap with less groups than the last

VARIABLES
  locks, group, keymap,\* of the server
  greeter,             \* "none", "theme" or "classic"
  stage,               \* of its start, and of a request: "off", "read", "idle", "check"
  wire, held,          \* events sent, and those libxcb has read while it waited
  copy,                \* of the themed greeter: the locks, layout_id and layouts
  releases, emitted,   \* for the monitor's thread, and from it to the windows
  warned               \* the password box and the one with a name warn

keyboardVars ==
  <<locks, group, keymap, greeter, stage, wire, held, copy, releases, emitted, warned>>
serverVars == <<locks, group, keymap>>
monitorVars == <<releases, emitted, warned>>

Lock == {"caps", "num"}

(* The symbols of a keymap as the server names them: "pc+us+de:2+inet(evdev)"*)
(* is what follows each plus sign, with the place and the length it has.     *)
Token(name, at, length) == [name |-> name, at |-> at, length |-> length]
Symbols == [us |-> <<Token("us", 2, 3), Token("inet", 5, 5)>>,
            us_de |-> <<Token("us", 2, 3), Token("de", 5, 3), Token("inet", 10, 5)>>,
            intl_de_ru |-> <<Token("us", 2, 3), Token("de", 11, 3), Token("ru", 16, 3),
                             Token("inet", 21, 5)>>]
Ignored == {"inet", "group"}
Groups(k) == LET named(t) == t.name \notin Ignored
                 kept == SelectSeq(Symbols[k], named)
             IN  [i \in DOMAIN kept |-> kept[i].name]

(* The search goes on a match's length further on than it was begun.         *)
parseShortNames(k) ==
  LET text == Symbols[k]
      from[pos \in 0 .. 30] ==
        LET ahead == {i \in DOMAIN text : text[i].at >= pos}
            t == text[CHOOSE i \in ahead : \A j \in ahead : i <= j]
        IN  IF ahead = {} THEN <<>>
            ELSE (IF t.name \in Ignored THEN <<>> ELSE <<t.name>>) \o from[pos + t.length]
  IN  from[0]

(* Each group by its short and its long name.                                *)
Layouts(k) ==
  LET short == parseShortNames(k)
  IN  [i \in DOMAIN Groups(k) |-> <<IF i <= Len(short) THEN short[i] ELSE "", Groups(k)[i]>>]

(* The keymaps whose groups have the short names they should have.           *)
ReadRight ==
  {k \in DOMAIN Symbols :
     /\ Groups(k) \in Seq(STRING) \ {<<>>}
     /\ Layouts(k) = [i \in DOMAIN Groups(k) |-> <<Groups(k)[i], Groups(k)[i]>>]}

KeyboardInit ==
  /\ locks = {} /\ group = 0 /\ keymap = "us"
  /\ greeter = "none" /\ stage = "off" /\ wire = <<>> /\ held = <<>>
  /\ copy = [locks |-> {}, layout |-> 0, layouts |-> <<>>]
  /\ releases = 0 /\ emitted = <<>> /\ warned = {}

-----------------------------------------------------------------------------
(* The server: whoever has selected events is told of what really changed.   *)
Selected == greeter = "theme" /\ stage \in {"idle", "check"}
Changed(l, g, k) ==
  /\ locks' = l /\ group' = g /\ keymap' = k
  /\ wire' = IF ~Selected THEN wire
             ELSE wire \o (IF k # keymap THEN <<[is |-> "keymap"]>> ELSE <<>>)
                       \o (IF <<l, g>> # <<locks, group>>
                             THEN <<[is |-> "state", locks |-> l, group |-> g]>> ELSE <<>>)

FewEvents == Len(wire) + Len(held) + releases + Len(emitted) < MaxEvents

(* Someone may type at any time, also while a request is being answered.     *)
Typing ==
  /\ FewEvents
  /\ stage = "read" => "early" \in Races
  /\ UNCHANGED <<greeter, stage, held, copy, emitted, warned>>

LockPressed(k) ==
  /\ Typing
  /\ Changed(IF k \in locks THEN locks \ {k} ELSE locks \cup {k}, group, keymap)
  /\ releases' = IF k = "caps" /\ greeter = "classic" /\ stage = "idle" THEN releases + 1
                                                                         ELSE releases

GroupPressed ==
  /\ Typing /\ UNCHANGED releases
  /\ Changed(locks, (group + 1) % Len(Groups(keymap)), keymap)

KeymapSet(k) ==
  /\ Typing /\ UNCHANGED releases /\ k # keymap
  /\ Len(Groups(k)) < Len(Groups(keymap)) => "fewer" \in Races
  /\ Changed(locks, group % Len(Groups(k)), k)

-----------------------------------------------------------------------------
(* XcbKeyboardBackend: init() reads, then the events are selected.           *)
BackendInit ==
  /\ greeter = "none" /\ greeter' = "theme" /\ stage' = "read"
  /\ copy' = [locks |-> locks, layout |-> group, layouts |-> Layouts(keymap)]
  /\ UNCHANGED <<serverVars, wire, held, monitorVars>>

connectEventsDispatcher ==
  /\ greeter = "theme" /\ stage = "read" /\ stage' = "idle"
  /\ UNCHANGED <<serverVars, greeter, wire, held, copy, monitorVars>>

(* Mutant: the group is not among what is sent.                              *)
sendChangesOfLocks ==
  /\ Changed(copy'.locks, group, keymap)
  /\ stage' = "check"

(* All three are set, whichever was changed here.                            *)
sendChanges ==
  /\ Changed(copy'.locks, copy'.layout % Len(Groups(keymap)), keymap)
  /\ stage' = "check"

Set(new) ==
  /\ FewEvents /\ greeter = "theme" /\ stage = "idle"
  /\ new # copy /\ copy' = new
  /\ sendChanges
  /\ UNCHANGED <<greeter, held, monitorVars>>

setLockState(k) ==
  Set([copy EXCEPT !.locks = IF k \in @ THEN @ \ {k} ELSE @ \cup {k}])

setCurrentLayout == \E i \in DOMAIN copy.layouts : Set([copy EXCEPT !.layout = i - 1])

(* xcb_request_check(): what came before the answer is kept for later.       *)
RequestChecked ==
  /\ stage = "check" /\ stage' = "idle"
  /\ held' = held \o wire /\ wire' = <<>>
  /\ UNCHANGED <<serverVars, greeter, copy, monitorVars>>

(* The socket can be read; then all there is is handled, the kept ones first.*)
dispatchEvents ==
  /\ greeter = "theme" /\ stage = "idle" /\ wire # <<>>
  /\ LET all == held \o wire
         states == {i \in DOMAIN all : all[i].is = "state"}
         last == all[CHOOSE i \in states : \A j \in states : j <= i]
         renamed == \E i \in DOMAIN all : all[i].is = "keymap"
     IN  copy' = [locks |-> IF states = {} THEN copy.locks ELSE last.locks,
                  layout |-> IF states = {} THEN copy.layout ELSE last.group,
                  layouts |-> IF renamed THEN Layouts(keymap) ELSE copy.layouts]
  /\ held' = <<>> /\ wire' = <<>>
  /\ UNCHANGED <<serverVars, greeter, stage, monitorVars>>

-----------------------------------------------------------------------------
(* The classic greeter: both boxes ask, and the thread selects its events.   *)
isCapslockOn == "caps" \in locks
Boxes == {"password", "other"}

BoxesInit ==
  /\ greeter = "none" /\ greeter' = "classic" /\ stage' = "read"
  /\ warned' = IF isCapslockOn THEN Boxes ELSE {}
  /\ UNCHANGED <<serverVars, wire, held, copy, releases, emitted>>

select_events ==
  /\ greeter = "classic" /\ stage = "read" /\ stage' = "idle"
  /\ UNCHANGED <<serverVars, greeter, wire, held, copy, monitorVars>>

listen ==
  /\ releases > 0 /\ releases' = releases - 1
  /\ emitted' = Append(emitted, isCapslockOn)
  /\ UNCHANGED <<serverVars, greeter, stage, wire, held, copy, warned>>

(* One box shows what it is told; the other asks again.                      *)
CapslockStatusChanged ==
  /\ emitted # <<>> /\ emitted' = Tail(emitted)
  /\ warned' = (IF isCapslockOn THEN {"password"} ELSE {})
                 \cup (IF Head(emitted) THEN {"other"} ELSE {})
  /\ UNCHANGED <<serverVars, greeter, stage, wire, held, copy, releases>>

KeyboardNext ==
  \/ BackendInit \/ connectEventsDispatcher \/ setCurrentLayout \/ RequestChecked \/ dispatchEvents
  \/ \E k \in Lock : LockPressed(k) \/ setLockState(k)
  \/ GroupPressed \/ (\E k \in Keymap : KeymapSet(k))
  \/ BoxesInit \/ select_events \/ listen \/ CapslockStatusChanged

-----------------------------------------------------------------------------
(* Once every event has been handled the greeter shows the keyboard as it is:*)
(* the locks, the group, and each layout under its own short name; and the   *)
(* classic one warns of locked capitals exactly while they are.              *)
KeyboardAgrees ==
  stage = "idle" =>
    IF greeter = "theme"
      THEN wire = <<>> /\ held = <<>> =>
             copy = [locks |-> locks, layout |-> group,
                     layouts |-> [i \in DOMAIN Groups(keymap) |->
                                    <<Groups(keymap)[i], Groups(keymap)[i]>>]]
      ELSE releases = 0 /\ emitted = <<>> => warned = IF isCapslockOn THEN Boxes ELSE {}
=============================================================================
