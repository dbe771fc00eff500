------------------------------ MODULE LockFace ------------------------------
(* What the lock screen shows of its user: the picture behind the clock, and *)
(* how bright it is where the clock stands, for the clock to be dark or      *)
(* light.  The user's override is a file whose content changes under its     *)
(* name; how bright it is is measured in a thread, and what is measured is   *)
(* what the file holds when the thread gets to it.                           *)
EXTENDS Naturals, FiniteSets

CONSTANTS
  Image,               \* the pictures there are, and
  Bright,              \* those that are bright
  MaxMeasures,         \* bounds the measurements under way when a picture is set
  Slips                \* "half" a picture is cleared by one of its two owners

VARIABLES
  locking,             \* the locker, and
  recognised,          \* its user is one of those it lists
  ownFile,             \* the picture in the user's override, and
  written,             \* the parity of how often it was: its time
  otherFile,           \* the picture that is used without, a file of its own
  backgroundUri,       \* background_uri_: a file, its picture and its time
  luminance,
  measures,            \* under way: the file, what was read of it, and is it the
                       \* latest generation
  faceTold             \* the picture that a caller was told is shown

faceVars ==
  <<locking, recognised, ownFile, written, otherFile, backgroundUri, luminance, measures,
    faceTold>>

NoOverride == "no file"
NoUri == <<"none", NoOverride, 0>>
Unread == "unread"

ASSUME LockFaceAssumption ==
  Image # {} /\ Image \cap {"own", "none", NoOverride, Unread} = {}

FaceInit ==
  /\ locking = FALSE /\ recognised = TRUE
  /\ ownFile = NoOverride /\ written = 0 /\ otherFile = CHOOSE p \in Image : TRUE
  /\ backgroundUri = NoUri /\ luminance = "dark" /\ measures = {}
  /\ faceTold = NoOverride

Content(file) == IF file = "own" THEN ownFile ELSE file
MeasureLuminance(picture) == IF picture \in Bright THEN "bright" ELSE "dark"

(* VersionedImageUri(): a file that is written again has another address.    *)
lockBackgroundPath(own, time) ==
  IF own # NoOverride THEN <<"own", own, time>> ELSE <<otherFile, otherFile, 0>>

(* Mutant: the version is left out, and a picture has the address of the old.*)
updateBackgroundUnversioned(uri) ==
  /\ backgroundUri' = uri
  /\ measures' = IF uri[1] = backgroundUri[1] THEN measures
                 ELSE {[m EXCEPT !.latest = FALSE] : m \in measures}
                        \cup {[file |-> uri[1], read |-> Unread, latest |-> TRUE]}

updateBackground(uri) ==
  /\ backgroundUri' = uri
  /\ measures' = IF uri = backgroundUri THEN measures
                 ELSE {[m EXCEPT !.latest = FALSE] : m \in measures}
                        \cup {[file |-> uri[1], read |-> Unread, latest |-> TRUE]}

(* Only the user whose session it is becomes the current one.                *)
LockerStarts ==
  /\ ~locking /\ locking' = TRUE
  /\ recognised' \in BOOLEAN
  /\ IF recognised' THEN updateBackground(lockBackgroundPath(ownFile, written))
               ELSE backgroundUri' = NoUri /\ UNCHANGED measures
  /\ UNCHANGED <<ownFile, written, otherFile, luminance, faceTold>>

(* The locker's own calls: the screen is told only of what was done.         *)
refreshLockWallpaper ==
  IF recognised THEN updateBackground(lockBackgroundPath(ownFile', written'))
           ELSE UNCHANGED <<backgroundUri, measures>>

SetLockWallpaper(p) ==
  /\ locking /\ Cardinality(measures) < MaxMeasures
  /\ ownFile' = p /\ written' = 1 - written
  /\ faceTold' \in {p, NoOverride}          \* the daemon may not have taken its copy
  /\ refreshLockWallpaper
  /\ UNCHANGED <<locking, recognised, otherFile, luminance>>

(* With a slip only the user's copy is gone, and nobody looks again.         *)
ClearLockWallpaper ==
  /\ locking /\ Cardinality(measures) < MaxMeasures
  /\ ownFile' = NoOverride
  /\ \E both \in {TRUE} \cup {s # "half" : s \in Slips} :
       IF both THEN faceTold' = otherFile /\ refreshLockWallpaper
       ELSE UNCHANGED <<backgroundUri, measures, faceTold>>
  /\ UNCHANGED <<locking, recognised, written, otherFile, luminance>>

(* The desktop's own picture, or the greeter's: the locker is not told.      *)
OtherChanges(p) ==
  /\ otherFile' = p
  /\ faceTold' = IF ownFile = NoOverride THEN NoOverride ELSE faceTold
  /\ UNCHANGED <<locking, recognised, ownFile, written, backgroundUri, luminance, measures>>

(* A thread of the pool, in any order.                                       *)
ImageRead(m) ==
  /\ m.read = Unread
  /\ measures' = (measures \ {m}) \cup {[m EXCEPT !.read = Content(m.file)]}
  /\ UNCHANGED <<locking, recognised, ownFile, written, otherFile, backgroundUri, luminance,
                 faceTold>>

ImageMeasured(m) ==
  /\ m.read # Unread
  /\ measures' = measures \ {m}
  /\ luminance' = IF m.latest THEN MeasureLuminance(m.read) ELSE luminance
  /\ UNCHANGED <<locking, recognised, ownFile, written, otherFile, backgroundUri, faceTold>>

FaceNext ==
  \/ LockerStarts \/ ClearLockWallpaper
  \/ \E p \in Image : SetLockWallpaper(p) \/ OtherChanges(p)
  \/ \E m \in measures : ImageRead(m) \/ ImageMeasured(m)

-----------------------------------------------------------------------------
(* With nothing left to measure, the clock is dark or light by the picture   *)
(* behind it, also when pictures were set faster than they were measured or  *)
(* were replaced while they were read; and that picture is the one the last  *)
(* caller was told is shown, as far as the screen has a user at all.         *)
ClockIsReadable ==
  locking /\ recognised /\ faceTold # NoOverride =>
    /\ backgroundUri[2] = faceTold
    /\ measures = {} => luminance = MeasureLuminance(backgroundUri[2])
=============================================================================
