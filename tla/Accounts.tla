------------------------------ MODULE Accounts ------------------------------
(* Who may log in, and before which picture: each greeter reads the password *)
(* database by itself when it starts, the themed one stops early if there    *)
(* are many, and the picture depends on how many were found.                 *)
EXTENDS Naturals, Sequences, FiniteSets, SequencesExt

CONSTANTS
  Passwd,              \* the names in the order of the database: numbers, so that
                       \* their order is that of the alphabet
  DisableAvatarsThreshold,
  Oddities             \* "twice" two sources list an account, "system" the accounts
                       \* service has one of a person's number as the system's,
                       \* "broken" the configured picture is none

VARIABLES
  kindOf,              \* of each name: "absent", "person", "daemon" (a number out of
                       \* the range), "nologin" (the shell) or "system"
  twice,               \* the names that a second source lists too
  lastUser,            \* state.conf
  greeterPicture, own, \* the greeters' picture: "", "set" or "broken"; has the
                       \* first to be listed a picture of their own
  serving,             \* "none", "classic", "neo", "themed" or "themed-all"
  offered,             \* the names in the list of the greeter
  selectedUser,        \* of the themed greeter: the one it begins with
  behind               \* the picture behind it

accountsVars == <<kindOf, twice, lastUser, greeterPicture, own, serving, offered, selectedUser,
                  behind>>
databaseVars == <<kindOf, twice, greeterPicture, own>>

Name == ToSet(Passwd)
NoName == 0
Kind == {"person", "daemon", "nologin"} \cup (Oddities \cap {"system"})

AccountsInit ==
  /\ kindOf = [n \in Name |-> "absent"] /\ twice = {}
  /\ lastUser = NoName /\ greeterPicture = "" /\ own = FALSE
  /\ serving = "none" /\ offered = <<>> /\ selectedUser = NoName /\ behind = "none"

(* getpwent() of all sources.                                                *)
PasswdEntries == SelectSeq(Passwd, LAMBDA n : kindOf[n] # "absent")
             \o SelectSeq(Passwd, LAMBDA n : kindOf[n] # "absent" /\ n \in twice)
ByName(names) == SortSeq(names, LAMBDA a, b : a < b)
Once(names) == SetToSortSeq(ToSet(names), LAMBDA a, b : a < b)

-----------------------------------------------------------------------------
(* The list of the classic greeter is a map.                                 *)
GetUserList == Once(SelectSeq(PasswdEntries, LAMBDA n : kindOf[n] \in {"person", "system"}))

detectUsers == ByName(SelectSeq(PasswdEntries, LAMBDA n : kindOf[n] = "person"))

(* Mutant: who logged in last is not looked for beyond the threshold.        *)
UserModelShort(all) ==
  LET range == SelectSeq(PasswdEntries, LAMBDA n : kindOf[n] \in {"person", "system", "nologin"})
  IN  Once(IF all \/ Len(range) <= DisableAvatarsThreshold THEN range
           ELSE SubSeq(range, 1, DisableAvatarsThreshold + 1))

(* No shell is hidden unless gxdm.conf says so.  The last user is added by   *)
(* name if the list was cut off before.                                      *)
UserModel(all) ==
  LET range == SelectSeq(PasswdEntries, LAMBDA n : kindOf[n] \in {"person", "system", "nologin"})
      cut == SubSeq(range, 1, DisableAvatarsThreshold + 1)
      last == IF lastUser \in ToSet(PasswdEntries) \ ToSet(cut) THEN <<lastUser>> ELSE <<>>
  IN  Once(IF all \/ Len(range) <= DisableAvatarsThreshold THEN range ELSE cut \o last)

lastUserListed(list) ==
  IF lastUser \in ToSet(list) THEN lastUser ELSE IF list = <<>> THEN NoName ELSE Head(list)

-----------------------------------------------------------------------------
wallpaperPath == IF greeterPicture = "set" THEN "configured"
             ELSE IF greeterPicture = "broken" THEN "broken" ELSE "default"
ownLockWallpaper == IF own THEN "own" ELSE "none"

currentBackgroundPath(list) ==
  IF list = <<>> THEN "none"
  ELSE IF greeterPicture = "" /\ Len(list) = 1 /\ own THEN ownLockWallpaper ELSE wallpaperPath

greeterBackground(list) ==
  LET path == IF greeterPicture = "" /\ Len(list) = 1 THEN ownLockWallpaper ELSE "none"
  IN  IF path # "none" THEN path ELSE IF wallpaperPath = "broken" THEN "bundled" ELSE wallpaperPath

Starts(greeter, list, picture) ==
  /\ serving = "none" /\ serving' = greeter
  /\ offered' = list /\ behind' = picture
  /\ UNCHANGED <<databaseVars, lastUser>>

ClassicStarts ==
  /\ Starts("classic", GetUserList, currentBackgroundPath(GetUserList))
  /\ selectedUser' = NoName

NeoStarts ==
  /\ Starts("neo", detectUsers, greeterBackground(detectUsers))
  /\ selectedUser' = NoName

ThemedStarts(all) ==
  /\ Starts(IF all THEN "themed-all" ELSE "themed", UserModel(all), "none")
  /\ selectedUser' = lastUserListed(UserModel(all))

(* A login ends the greeter; a name may also be typed.                       *)
LoggedIn(n) ==
  /\ serving # "none" /\ kindOf[n] = "person" /\ lastUser' = n
  /\ serving' = "none" /\ offered' = <<>> /\ selectedUser' = NoName /\ behind' = "none"
  /\ UNCHANGED databaseVars

(* While a greeter runs nothing of this is read again.                       *)
DatabaseChanges ==
  /\ serving = "none"
  /\ \/ \E n \in Name, k \in Kind \cup {"absent"} :
          /\ kindOf' = [kindOf EXCEPT ![n] = k]
          /\ twice' \in IF "twice" \in Oddities THEN SUBSET Name ELSE {{}}
          /\ UNCHANGED <<greeterPicture, own>>
     \/ /\ greeterPicture' \in {"", "set"} \cup (Oddities \cap {"broken"})
        /\ own' \in BOOLEAN /\ UNCHANGED <<kindOf, twice>>
  /\ UNCHANGED <<lastUser, serving, offered, selectedUser, behind>>

AccountsNext ==
  \/ ClassicStarts \/ NeoStarts \/ (\E all \in BOOLEAN : ThemedStarts(all))
  \/ (\E n \in Name : LoggedIn(n)) \/ DatabaseChanges

-----------------------------------------------------------------------------
(* Whoever can log in is found in the list, once and in its place, by both   *)
(* of GXDM's own greeters, which look alike before them; the themed one may  *)
(* list fewer of them but begins with the one who was here last.             *)
PeopleAreListed ==
  LET people == SetToSortSeq({n \in Name : kindOf[n] = "person"}, LAMBDA a, b : a < b)
  IN  /\ serving \in {"classic", "neo"} =>
           /\ offered = people
           /\ people # <<>> =>
                behind = IF greeterPicture = "set" THEN "configured"
                         ELSE IF Len(people) = 1 /\ own THEN "own" ELSE "default"
      /\ serving = "themed-all" => ToSet(people) \subseteq ToSet(offered)
      /\ serving \in {"themed", "themed-all"} =>
           /\ \A i \in 1 .. Len(offered) - 1 : offered[i] < offered[i + 1]
           /\ lastUser # NoName /\ kindOf[lastUser] = "person" => selectedUser = lastUser
           /\ people # <<>> => selectedUser \in ToSet(offered)
=============================================================================
