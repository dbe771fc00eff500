------------------------------ MODULE Sessions ------------------------------
(* Which desktop session a login starts: the .desktop files as the daemon    *)
(* and each greeter read them, the one a user chooses or finds restored, and *)
(* the one the daemon remembers.                                             *)
EXTENDS Integers, Sequences, SequencesExt

CONSTANTS
  Stem,              \* base names of session files, numbered in sort order
  DefaultStem,       \* of the session GXDE starts with, or 0
  ConfiguredStem,    \* Autologin.Session, or 0
  MaxChanges,        \* bound: session files installed, changed or removed
  MayShareStem,      \* both directories may have a file of one base name
  MayShareTitle      \* sessions of one type may have the same Name

ASSUME SessionsAssumption ==
  /\ Stem \subseteq Nat \ {0} /\ Stem # {}
  /\ {DefaultStem, ConfiguredStem} \subseteq Stem \cup {0}
  /\ MaxChanges \in Nat /\ MayShareStem \in BOOLEAN /\ MayShareTitle \in BOOLEAN

VARIABLES
  installed,      \* what each session file holds
  fileChanges,    \* how often that changed
  lastSession,    \* stateConfig.Last.Session
  greeterIs,      \* "classic", "neo" or "none"
  listed,         \* the sessions it lists, read when it started
  highlighted,    \* m_currentSessionIndex, selectedSessionIndex; 0 for none
  sessionKey,     \* the classic greeter's, of the SessionBaseModel
  sessionChosen,  \* the neo greeter's user has chosen
  lastRead,       \* LastSession has arrived
  choice,         \* the session the user was shown as the one to be started
  requested,      \* the session of the login under way
  authorizing,    \* the daemon has taken it and asks PAM
  started         \* the session that runs

diskVars == <<installed, fileChanges, lastSession>>
chooserVars == <<greeterIs, listed, highlighted, sessionKey, sessionChosen, lastRead, choice>>
loginVars == <<requested, authorizing, started>>
sessionsVars == <<diskVars, chooserVars, loginVars>>

SessionFile == [type : {"x11", "wayland"}, stem : Stem]
NoFile == [type |-> "none", stem |-> 0]
NoKey == [type |-> "none", title |-> 0]
Nameless == [type |-> "x11", stem |-> 0]

(* "noProgram": its TryExec is not installed.                                *)
Contents == {"absent", "fit", "noProgram", "noExec", "hidden"}

IsValid(f) == f \in SessionFile /\ installed[f] # "absent"
IsAvailable(f) == f \in SessionFile /\ installed[f] = "fit"

(* The daemon refuses a session it cannot read or that has no command.       *)
MayStart(f) == IsValid(f) /\ installed[f] # "noExec"

Title(f) == IF MayShareTitle THEN 0 ELSE f.stem
KeyOf(f) == [type |-> f.type, title |-> Title(f)]

-----------------------------------------------------------------------------
(* The directories, as each program reads them.  The classic greeter has the *)
(* X11 sessions before the others, each in the directory's order, does not   *)
(* look for the program, and keeps the first of two with one key; the neo    *)
(* greeter sorts by name, then by id.                                        *)
InClassic == {f \in SessionFile : installed[f] \in {"fit", "noProgram"}}
OfType(files, type) == {f \in files : f.type = type}

ClassicLists ==
  {x \o w : x \in SetToSeqs(OfType(InClassic, "x11")),
            w \in SetToSeqs(OfType(InClassic, "wayland"))}

Before(f, g) ==
  \/ Title(f) < Title(g)
  \/ Title(f) = Title(g) /\ f.type = "wayland" /\ g.type = "x11"
  \/ Title(f) = Title(g) /\ f.type = g.type /\ f.stem < g.stem

NeoList == SetToSortSeq({f \in SessionFile : IsAvailable(f)}, Before)

KeyIndex(key) ==
  LET places == {i \in DOMAIN listed : KeyOf(listed[i]) = key}
  IN IF places = {} THEN 1 ELSE CHOOSE i \in places : \A j \in places : i <= j

(* The table is a fresh one, and its order is that of the directory again.   *)
InTable(key) ==
  {table[SelectInSeq(table, LAMBDA f : KeyOf(f) = key)] :
     table \in {t \in ClassicLists : \E i \in DOMAIN t : KeyOf(t[i]) = key}}

SessionsInit ==
  /\ installed \in [SessionFile -> {"absent", "fit"}]
  /\ ~MayShareStem => \A f, g \in SessionFile :
       f # g /\ f.stem = g.stem => "absent" \in {installed[f], installed[g]}
  /\ fileChanges = 0 /\ lastSession = NoFile
  /\ greeterIs = "none" /\ listed = <<>> /\ highlighted = 0 /\ sessionKey = NoKey
  /\ sessionChosen = FALSE /\ lastRead = FALSE /\ choice = NoFile
  /\ requested = NoFile /\ authorizing = FALSE /\ started = NoFile

(* A package is installed, upgraded or removed.                              *)
FileChanges(f) ==
  /\ fileChanges < MaxChanges
  /\ fileChanges' = fileChanges + 1
  /\ \E c \in Contents : c # installed[f] /\ installed' = [installed EXCEPT ![f] = c]
  /\ MayShareStem \/ \A g \in SessionFile : g # f /\ g.stem = f.stem => installed[g] = "absent"
  /\ UNCHANGED <<lastSession, chooserVars, loginVars>>

-----------------------------------------------------------------------------
(* The greeters.  The classic one selects the user's session as it starts.   *)
GreeterOpens ==
  /\ greeterIs = "none" /\ requested = NoFile /\ started = NoFile
  /\ greeterIs' \in {"classic", "neo"}
  /\ listed' \in IF greeterIs' = "classic" THEN ClassicLists ELSE {NeoList}
  /\ highlighted' = IF listed' = <<>> THEN 0 ELSE 1
  /\ choice' = IF listed' = <<>> THEN NoFile ELSE listed'[1]
  /\ sessionKey' = IF choice' = NoFile THEN NoKey ELSE KeyOf(choice')
  /\ sessionChosen' = FALSE /\ lastRead' = FALSE
  /\ UNCHANGED <<diskVars, loginVars>>

(* A remembered session is found by its base name alone; none is restored    *)
(* that is gone, and the one of the system only if nothing is remembered.    *)
InitialStem == IF lastSession # NoFile THEN lastSession.stem ELSE DefaultStem

ClassicRestores ==
  LET found == {f \in InClassic : f.stem = InitialStem /\ f \in InTable(KeyOf(f))}
  IN IF found = {}
     THEN UNCHANGED <<highlighted, sessionKey, choice>>
     ELSE \E f \in found :
            /\ sessionKey' = KeyOf(f)
            /\ choice' = f
            /\ highlighted' = IF listed = <<>> THEN 0 ELSE KeyIndex(KeyOf(f))

NeoRestores ==
  LET found == {i \in DOMAIN listed : listed[i].stem = InitialStem}
      first == CHOOSE i \in found : \A j \in found : i <= j
  IN IF found = {} \/ sessionChosen
     THEN UNCHANGED <<highlighted, sessionKey, choice>>
     ELSE /\ highlighted' = first
          /\ choice' = listed[first]
          /\ UNCHANGED sessionKey

ReadLastSession ==
  /\ greeterIs # "none" /\ ~lastRead /\ lastRead' = TRUE
  /\ IF greeterIs = "classic" THEN ClassicRestores ELSE NeoRestores
  /\ UNCHANGED <<diskVars, greeterIs, listed, sessionChosen, loginVars>>

(* The arrow keys of the classic greeter move the highlight; Enter, or a     *)
(* click, chooses.                                                           *)
ArrowKey ==
  /\ greeterIs = "classic" /\ Len(listed) > 1 /\ highlighted # 0
  /\ highlighted' \in {i \in DOMAIN listed :
       i - highlighted \in {1, -1, Len(listed) - 1, 1 - Len(listed)}}
  /\ UNCHANGED <<diskVars, greeterIs, listed, sessionKey, sessionChosen, lastRead, choice,
                 loginVars>>

Chooses(i) ==
  /\ highlighted' = i
  /\ choice' = listed[i]
  /\ IF greeterIs = "classic"
     THEN sessionKey' = KeyOf(listed[i]) /\ UNCHANGED sessionChosen
     ELSE sessionChosen' = TRUE /\ UNCHANGED sessionKey
  /\ UNCHANGED <<diskVars, greeterIs, listed, lastRead, loginVars>>

(* authUser() looks the key up anew, and asks for an X11 session without a   *)
(* name if it is gone; WriteSession() names the file that was listed, or     *)
(* sends nothing.                                                            *)
SessionOfKeyUntyped ==
  IF InTable(sessionKey) = {} THEN {Nameless}
  ELSE {[f EXCEPT !.type = "x11"] : f \in InTable(sessionKey)}

SessionOfKey == IF InTable(sessionKey) = {} THEN {Nameless} ELSE InTable(sessionKey)

AuthUser ==
  /\ greeterIs # "none" /\ requested = NoFile
  /\ greeterIs = "neo" => highlighted # 0
  /\ requested' \in IF greeterIs = "classic" THEN SessionOfKey ELSE {listed[highlighted]}
  /\ UNCHANGED <<diskVars, chooserVars, authorizing, started>>

-----------------------------------------------------------------------------
(* The daemon.                                                               *)
StartAuth ==
  /\ requested # NoFile /\ ~authorizing
  /\ MayStart(requested)
  /\ authorizing' = TRUE
  /\ UNCHANGED <<diskVars, chooserVars, requested, started>>

StartAuthRefused ==
  /\ requested # NoFile /\ ~authorizing
  /\ ~MayStart(requested)
  /\ requested' = NoFile
  /\ UNCHANGED <<diskVars, chooserVars, authorizing, started>>

AuthFails ==
  /\ authorizing
  /\ authorizing' = FALSE /\ requested' = NoFile
  /\ UNCHANGED <<diskVars, chooserVars, started>>

(* finishLogin(): what is remembered is the file, with its directory.        *)
LoginSucceeds ==
  /\ authorizing
  /\ authorizing' = FALSE /\ requested' = NoFile
  /\ started' = requested /\ lastSession' = requested
  /\ greeterIs' = "none" /\ listed' = <<>> /\ highlighted' = 0
  /\ UNCHANGED <<installed, fileChanges, sessionKey, sessionChosen, lastRead, choice>>

SessionFinishes ==
  /\ started # NoFile /\ started' = NoFile
  /\ UNCHANGED <<diskVars, chooserVars, requested, authorizing>>

(* A session is looked for by its base name among the Wayland sessions       *)
(* first, and one that was remembered in its own directory.                  *)
Named(stem) ==
  LET w == [type |-> "wayland", stem |-> stem]
      x == [type |-> "x11", stem |-> stem]
  IN IF stem = 0 THEN NoFile
     ELSE IF IsValid(w) THEN w
     ELSE IF IsValid(x) THEN x ELSE NoFile

FirstAvailable ==
  LET of(type) == SetToSortSeq(OfType({f \in SessionFile : IsAvailable(f)}, type),
                               LAMBDA f, g : f.stem < g.stem)
      all == of("wayland") \o of("x11")
  IN IF all = <<>> THEN NoFile ELSE all[1]

AutologinSession ==
  IF ConfiguredStem # 0 THEN Named(ConfiguredStem)
  ELSE IF IsValid(lastSession) THEN lastSession ELSE FirstAvailable

AttemptAutologin ==
  /\ greeterIs = "none" /\ requested = NoFile /\ started = NoFile
  /\ MayStart(AutologinSession)
  /\ requested' = AutologinSession /\ authorizing' = TRUE
  /\ choice' = AutologinSession
  /\ UNCHANGED <<diskVars, greeterIs, listed, highlighted, sessionKey, sessionChosen, lastRead,
                 started>>

SessionsNext ==
  \/ \E f \in SessionFile : FileChanges(f)
  \/ GreeterOpens \/ ReadLastSession \/ ArrowKey
  \/ requested = NoFile /\ \E i \in DOMAIN listed : Chooses(i)
  \/ AuthUser \/ StartAuth \/ StartAuthRefused \/ AuthFails \/ LoginSucceeds
  \/ SessionFinishes \/ AttemptAutologin

-----------------------------------------------------------------------------
(* A login starts the session the user was shown, of that very type, and is  *)
(* refused only for a session that cannot be started; and the next greeter   *)
(* shows the one that was started last, for as long as it is installed.      *)
SessionKept ==
  /\ [][AuthUser =>
          IF choice = NoFile \/ ~IsAvailable(choice) THEN requested' \in {choice, Nameless}
          ELSE requested' = choice]_sessionsVars
  /\ [][StartAuthRefused => ~IsAvailable(requested)]_sessionsVars
  /\ [][ReadLastSession /\ lastSession \in ToSet(listed) /\ IsAvailable(lastSession)
          => choice' = lastSession \/ sessionChosen]_sessionsVars
=============================================================================
