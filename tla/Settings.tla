------------------------------ MODULE Settings ------------------------------
(* The two files the daemon keeps: gxdm.conf, which the administrator writes *)
(* too and where a setter changes one key of [General] in place, and         *)
(* state.conf, which is written anew from the daemon's memory.  Comments and *)
(* empty lines are left out, and a value is only told from another one.      *)
EXTENDS Naturals, Sequences, SequencesExt

CONSTANTS
  Entry,               \* the keys a file knows: pairs of section and key
  OtherLines,          \* lines of its administrator's that it does not
  Value,               \* what a key may be set to
  DropIn,              \* the lines of the files in gxdm.conf.d
  MaxLines,            \* bound on the files an administrator edits
  Accidents            \* "crash" the daemon dies while it writes state.conf,
                       \* "padded" [ General ] with blanks is written

VARIABLES
  kind,                \* the file that is looked at
  file,                \* its lines
  memory,              \* mainConfig or stateConfig of the daemon
  unread,              \* the file is newer than what is remembered
  told,                \* what the last setters said they have saved
  up                   \* the daemon runs

settingsVars == <<kind, file, memory, unread, told, up>>

Head_(section) == [head |-> TRUE, name |-> section, value |-> "none"]
Assign(key, value) == [head |-> FALSE, name |-> key, value |-> value]
Defaults == [e \in Entry |-> "default"]
Sections == {e[1] : e \in Entry}
General == "General"
Padded == "_General_"        \* [ General ]
Trimmed(section) == IF section = Padded THEN General ELSE section

-----------------------------------------------------------------------------
(* ConfigBase.  What stands before the first section is in [General]; later  *)
(* assignments win, and nothing is ever set back to its default.             *)
loadInternal(lines, values) ==
  LET Read(k, line) ==
        IF line.head THEN [k EXCEPT !.section = line.name]
        ELSE IF <<k.section, line.name>> \in Entry
          THEN [k EXCEPT !.values[<<k.section, line.name>>] = line.value]
          ELSE k
  IN  FoldLeft(Read, [section |-> General, values |-> values], lines).values

DropIns == IF kind = "gxdm.conf" THEN DropIn ELSE <<>>
loadAll(lines, values) == loadInternal(lines, loadInternal(DropIns, values))

(* The lines of each section together, every known one with the value that   *)
(* is remembered; what the file does not know last; and before that what it  *)
(* lacks, unless it is the default.                                          *)
UnknownSection == "unknown"
Write(k, line) ==
  [k EXCEPT !.data[k.section] = Append(@, line),
            !.order = IF k.section = UnknownSection \/ Contains(@, k.section) THEN @
                       ELSE Append(@, k.section)]

Rewrite(k, line, values) ==
  CASE line.head /\ line.name \in Sections ->
         LET entered == [k EXCEPT !.section = line.name]
         IN  IF Contains(k.order, line.name) THEN entered ELSE Write(entered, line)
    [] line.head /\ line.name \notin Sections -> Write([k EXCEPT !.section = UnknownSection], line)
    [] OTHER ->
         LET e == <<k.section, line.name>>
         IN  IF e \notin Entry THEN Write(k, line)
             ELSE [Write(k, Assign(line.name, values[e])) EXCEPT
                     !.changed = @ \/ line.value # values[e], !.remaining = @ \ {e}]

AddMissing(k, e, values) ==
  LET entered == [k EXCEPT !.section = e[1], !.changed = TRUE]
      headed == IF Contains(k.order, e[1]) THEN entered ELSE Write(entered, Head_(e[1]))
  IN  Write(headed, Assign(e[2], values[e]))

(* Mutant: what the file lacks is not added.                                 *)
saveWithoutMissing(lines, values) ==
  LET k == FoldLeft(LAMBDA a, line : Rewrite(a, line, values),
                    [section |-> General, order |-> <<>>, changed |-> FALSE, remaining |-> {},
                     data |-> [s \in Sections \cup {UnknownSection} |-> <<>>]],
                    lines)
  IN  IF k.changed
      THEN FlattenSeq([i \in DOMAIN k.order |-> k.data[k.order[i]]]) \o k.data[UnknownSection]
      ELSE lines

save(lines, values) ==
  LET start == [section |-> IF General \in Sections THEN General ELSE UnknownSection,
                order |-> <<>>, changed |-> FALSE,
                remaining |-> {e \in Entry : values[e] # Defaults[e]},
                data |-> [s \in Sections \cup {UnknownSection} |-> <<>>]]
      read == FoldLeft(LAMBDA k, line : Rewrite(k, line, values), start, lines)
      k == FoldLeft(LAMBDA a, e : AddMissing(a, e, values), read, SetToSeq(read.remaining))
  IN  IF k.changed
      THEN FlattenSeq([i \in DOMAIN k.order |-> k.data[k.order[i]]]) \o k.data[UnknownSection]
      ELSE lines

-----------------------------------------------------------------------------
(* SaveGeneralSetting.  Every assignment of the key in [General] is replaced;*)
(* without one the line goes to the end of the last [General], or before the *)
(* first section.                                                            *)
SaveGeneralSetting(lines, key, value) ==
  LET Step(k, line) ==
        CASE line.head /\ Trimmed(line.name) = General ->
               [k EXCEPT !.in = TRUE, !.saw = TRUE, !.i = @ + 1, !.insert = k.i + 1]
          [] line.head /\ Trimmed(line.name) # General ->
               [k EXCEPT !.in = FALSE, !.i = @ + 1,
                         !.first = IF k.in /\ @ = 0 THEN k.i + 1 ELSE @,
                         !.insert = IF k.in THEN k.i ELSE @]
          [] ~line.head /\ k.in /\ line.name = key ->
               [k EXCEPT !.i = @ + 1, !.wrote = TRUE, !.lines[k.i + 1] = Assign(key, value)]
          [] OTHER ->
               [k EXCEPT !.i = @ + 1, !.insert = IF k.in THEN k.i + 1 ELSE @]
      k == FoldLeft(Step, [in |-> TRUE, saw |-> FALSE, wrote |-> FALSE, first |-> 0, i |-> 0,
                           insert |-> Len(lines), lines |-> lines], lines)
  IN  CASE k.wrote -> k.lines
        [] ~k.wrote /\ lines = <<>> -> <<Head_(General), Assign(key, value)>>
        [] ~k.wrote /\ lines # <<>> /\ k.saw -> InsertAt(lines, k.insert + 1, Assign(key, value))
        [] ~k.wrote /\ lines # <<>> /\ ~k.saw /\ k.first > 0 ->
             InsertAt(lines, k.first, Assign(key, value))
        [] OTHER -> Append(lines, Assign(key, value))

-----------------------------------------------------------------------------
SettingsInit ==
  /\ kind = "none" /\ file = <<>> /\ memory = Defaults
  /\ unread = FALSE /\ told = {} /\ up = FALSE

Look ==
  /\ kind = "none"
  /\ kind' \in {"gxdm.conf", "state.conf"}
  /\ UNCHANGED <<file, memory, unread, told, up>>

DaemonStarts ==
  /\ kind # "none" /\ ~up
  /\ up' = TRUE
  /\ memory' = loadAll(file, Defaults) /\ unread' = FALSE
  /\ UNCHANGED <<kind, file, told>>

DaemonDies ==
  /\ up /\ up' = FALSE
  /\ memory' = Defaults /\ unread' = FALSE
  /\ UNCHANGED <<kind, file, told>>

(* gxdm.conf is replaced at once, or not at all.                             *)
SetGeneral ==
  /\ kind = "gxdm.conf" /\ up
  /\ \E e \in Entry, v \in Value :
       /\ e[1] = General
       /\ file' = SaveGeneralSetting(file, e[2], v)
       /\ memory' = [memory EXCEPT ![e] = v]
       /\ told' = {t \in told : t[1] # e} \cup {<<e, v>>}
  /\ unread' = TRUE
  /\ UNCHANGED <<kind, up>>

(* Before a display starts, and before a getter answers.                     *)
load ==
  /\ kind = "gxdm.conf" /\ up /\ unread
  /\ memory' = loadAll(file, memory) /\ unread' = FALSE
  /\ UNCHANGED <<kind, file, told, up>>

(* SetCursor, SetWallpaper..., and the last user and session of a login.     *)
SetState ==
  /\ kind = "state.conf" /\ up
  /\ \E e \in Entry, v \in Value \cup {"default"} :
       LET values == [memory EXCEPT ![e] = v]
       IN  \/ /\ memory' = values /\ file' = save(file, values)
              /\ told' = {t \in told : t[1] # e} \cup {<<e, v>>}
              /\ UNCHANGED up
           \/ /\ "crash" \in Accidents
              /\ \E n \in 0..Len(file) : file' = SubSeq(save(file, values), 1, n)
              /\ up' = FALSE /\ memory' = Defaults
              /\ UNCHANGED told
  /\ UNCHANGED <<kind, unread>>

(* The administrator adds or removes a line - of state.conf only while the   *)
(* daemon, which would not see it, does not run.                             *)
Lines ==
  {Head_(s) : s \in Sections} \cup {Assign(e[2], v) : e \in Entry, v \in Value} \cup OtherLines
  \cup (IF "padded" \in Accidents THEN {Head_(Padded)} ELSE {})

AdministratorEdits ==
  /\ kind = "gxdm.conf" \/ (kind = "state.conf" /\ ~up)
  /\ Len(file) <= MaxLines
  /\ \/ \E i \in DOMAIN file : file' = RemoveAt(file, i)
     \/ /\ Len(file) < MaxLines
        /\ \E i \in 1..(Len(file) + 1), line \in Lines : file' = InsertAt(file, i, line)
  /\ told' = {}
  /\ unread' = up
  /\ UNCHANGED <<kind, memory, up>>

SettingsNext ==
  \/ Look
  \/ DaemonStarts
  \/ DaemonDies
  \/ SetGeneral
  \/ load
  \/ SetState
  \/ AdministratorEdits

(* Whatever an administrator put into a file - sections twice, keys before   *)
(* the first one, lines nobody knows - what a setter said it had saved is    *)
(* read back by every reader: by the daemon after its next load(), by a      *)
(* daemon that is started anew, and by the lockers and greeters, who read    *)
(* that one file alone; and no other setting is changed by it.               *)
FilesReadBack ==
  /\ [](\A t \in told : /\ loadAll(file, Defaults)[t[1]] = t[2]
                        /\ loadInternal(file, Defaults)[t[1]] = t[2]
                        /\ up => loadAll(file, memory)[t[1]] = t[2])
  /\ [](kind = "state.conf" /\ up => loadInternal(file, Defaults) = memory)
  /\ [][SetGeneral => \E e \in Entry : \A o \in Entry \ {e} :
          loadInternal(file', Defaults)[o] = loadInternal(file, Defaults)[o]]_settingsVars
=============================================================================
