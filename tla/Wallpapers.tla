----------------------------- MODULE Wallpapers -----------------------------
(* The pictures of the login and lock screens.  A user's override of the     *)
(* lock screen's is kept twice: in the user's home, for the locker, and by   *)
(* the daemon, for the greeter, which need not be able to read a home.  The  *)
(* wallpaper of all greeters is a copy whose name is in state.conf.          *)
CONSTANT Picture

VARIABLES
  userCopy, systemCopy, \* the copies of the override
  accounts,            \* what the accounts services know of the user
  homeReadable,        \* for the greeter
  configured,          \* state.conf: "copy", the name of a default, or ""
  greeterWallpaper,    \* the copy
  overrideTold, wallpaperTold \* what the callers were last told was done

wallpaperVars ==
  <<userCopy, systemCopy, accounts, homeReadable, configured, greeterWallpaper,
    overrideTold, wallpaperTold>>
overrideVars == <<userCopy, systemCopy, overrideTold>>
globalVars == <<configured, greeterWallpaper, wallpaperTold>>

NoPicture == "no picture"
Nothing == "nothing"           \* was promised
Cleared == "cleared"
Default == {"GXDE_DEFAULT", "DDE_LOCK_DEFAULT"}

ASSUME WallpaperAssumption == Picture \cap (Default \cup {NoPicture, Nothing, Cleared}) = {}

WallpaperInit ==
  /\ userCopy = NoPicture /\ systemCopy = NoPicture /\ accounts = NoPicture
  /\ homeReadable = FALSE
  /\ configured = "" /\ greeterWallpaper = NoPicture
  /\ overrideTold = Nothing /\ wallpaperTold = Nothing

(* A picture that cannot be read, is empty or too large leaves the old copy; *)
(* the mode of the new one may be refused after it has taken its place.      *)
Saved(copy, picture, ok) ==
  \/ ok = TRUE /\ copy' = picture
  \/ ok = FALSE /\ copy' \in {copy, picture}

(* Mutant: the copy of the daemon is not waited for.                         *)
SetLockWallpaperOverrideHere ==
  /\ \E picture \in Picture, here, there \in BOOLEAN :
       /\ Saved(userCopy, picture, here)
       /\ IF here THEN Saved(systemCopy, picture, there) ELSE UNCHANGED systemCopy
       /\ overrideTold' = IF here THEN picture ELSE Nothing
  /\ UNCHANGED <<accounts, homeReadable, globalVars>>

SetLockWallpaperOverride ==
  /\ \E picture \in Picture, here, there \in BOOLEAN :
       /\ Saved(userCopy, picture, here)
       /\ IF here THEN Saved(systemCopy, picture, there) ELSE UNCHANGED systemCopy
       /\ overrideTold' = IF here /\ there THEN picture ELSE Nothing
  /\ UNCHANGED <<accounts, homeReadable, globalVars>>

(* Both are removed, whether or not the first could be.                      *)
ClearLockWallpaperOverride ==
  /\ \E here, there \in BOOLEAN :
       /\ userCopy' = IF here THEN NoPicture ELSE userCopy
       /\ systemCopy' = IF there THEN NoPicture ELSE systemCopy
       /\ overrideTold' = IF here /\ there THEN Cleared ELSE Nothing
  /\ UNCHANGED <<accounts, homeReadable, globalVars>>

SetWallpaper ==
  /\ \E picture \in Picture, ok \in BOOLEAN :
       /\ Saved(greeterWallpaper, picture, ok)
       /\ configured' = IF ok THEN "copy" ELSE configured
       /\ wallpaperTold' = IF ok THEN picture ELSE Nothing
  /\ UNCHANGED <<accounts, homeReadable, overrideVars>>

SetWallpaperDefault ==
  /\ \E default \in Default : configured' = default /\ wallpaperTold' = default
  /\ UNCHANGED <<accounts, homeReadable, greeterWallpaper, overrideVars>>

(* The copy is removed if it can be.                                         *)
ClearWallpaper ==
  /\ configured' = "" /\ wallpaperTold' = Cleared
  /\ greeterWallpaper' \in {greeterWallpaper, NoPicture}
  /\ UNCHANGED <<accounts, homeReadable, overrideVars>>

SystemChanges ==
  /\ accounts' \in Picture \cup {NoPicture}
  /\ homeReadable' \in BOOLEAN
  /\ UNCHANGED <<overrideVars, globalVars>>

WallpaperNext ==
  \/ SetLockWallpaperOverride
  \/ ClearLockWallpaperOverride
  \/ SetWallpaper
  \/ SetWallpaperDefault
  \/ ClearWallpaper
  \/ SystemChanges

-----------------------------------------------------------------------------
(* What is shown.                                                            *)
FirstOf(a, b, c) == IF a # NoPicture THEN a ELSE IF b # NoPicture THEN b ELSE c
userLockWallpaper(own) ==
  LET home == IF own \/ homeReadable THEN userCopy ELSE NoPicture
  IN  IF own THEN FirstOf(home, systemCopy, accounts) ELSE FirstOf(systemCopy, home, accounts)

hasConfiguredWallpaper == configured # ""
wallpaper == IF configured = "copy" THEN greeterWallpaper ELSE configured

(* What a caller was told was done is what is seen: the locker and the       *)
(* greeter show the override that was set, or neither shows one that was     *)
(* cleared, whatever failed half-way before; and so for all greeters.        *)
WallpapersAgree ==
  /\ overrideTold # Nothing =>
       \A own \in BOOLEAN :
         userLockWallpaper(own) = IF overrideTold = Cleared THEN accounts ELSE overrideTold
  /\ wallpaperTold = Cleared => ~hasConfiguredWallpaper
  /\ wallpaperTold \notin {Nothing, Cleared} => hasConfiguredWallpaper /\ wallpaper = wallpaperTold
=============================================================================
