--------------------------- MODULE ServicesProofs ---------------------------
(***************************************************************************)
(* Proofs about the parts that never meet: each keeps its promise, as no   *)
(* other part touches its variables.                                       *)
(***************************************************************************)
EXTENDS MCServices, FiniteSetTheorems, SequenceTheorems, TLAPS

-----------------------------------------------------------------------------
(* The sum: only one part moves.                                             *)

LEMMA Appended ==
  ASSUME NEW S, NEW q \in Seq(S), NEW e \in S
  PROVE  /\ Append(q, e) \in Seq(S) /\ <<>> \in Seq(S)
         /\ Append(q, e) # <<>> /\ Last(Append(q, e)) = e
  BY DEF Last

LEMMA PartsApart ==
  ASSUME [Next]_servicesVars
  PROVE  /\ HelperNext \/ UNCHANGED helperVars
         /\ WallpaperNext \/ UNCHANGED wallpaperVars
         /\ FaceNext \/ UNCHANGED faceVars
         /\ AccessNext \/ UNCHANGED accessVars
         /\ NeoScreensNext \/ UNCHANGED neoScreensVars
         /\ PowerNext \/ UNCHANGED powerVars
         /\ LifeNext \/ UNCHANGED lifeVars
         /\ StyleNext \/ UNCHANGED styleVars
         /\ ShortcutNext \/ UNCHANGED shortcutVars
         /\ BoxNext \/ UNCHANGED boxVars
         /\ KeysNext \/ UNCHANGED keysVars
         /\ KeyboardNext \/ UNCHANGED keyboardVars
         /\ ThemeNext \/ UNCHANGED themeVars
         /\ LockViewNext \/ UNCHANGED viewVars
         /\ VolumeNext \/ UNCHANGED volumeVars
         /\ MediaNext \/ UNCHANGED mediaVars
<1>1. ASSUME Next
      PROVE  /\ HelperNext \/ UNCHANGED helperVars
             /\ WallpaperNext \/ UNCHANGED wallpaperVars
             /\ FaceNext \/ UNCHANGED faceVars
             /\ AccessNext \/ UNCHANGED accessVars
             /\ NeoScreensNext \/ UNCHANGED neoScreensVars
             /\ PowerNext \/ UNCHANGED powerVars
             /\ LifeNext \/ UNCHANGED lifeVars
             /\ StyleNext \/ UNCHANGED styleVars
             /\ ShortcutNext \/ UNCHANGED shortcutVars
             /\ BoxNext \/ UNCHANGED boxVars
             /\ KeysNext \/ UNCHANGED keysVars
             /\ KeyboardNext \/ UNCHANGED keyboardVars
             /\ ThemeNext \/ UNCHANGED themeVars
             /\ LockViewNext \/ UNCHANGED viewVars
             /\ VolumeNext \/ UNCHANGED volumeVars
             /\ MediaNext \/ UNCHANGED mediaVars
  BY <1>1 DEF Next, HelperMoves, StarterMoves, TerminalMoves, StyleMoves, ShortcutMoves,
     SettingsMoves, WallpaperMoves, MediaMoves, VolumeMoves, ClassicMoves, SessionsMoves,
     ThemeMoves, FramesMoves, FaceMoves, KeyboardMoves, NeoScreensMoves, AccountsMoves,
     PowerMoves, LifeMoves, BoxMoves, KeysMoves, AccessMoves, LockViewMoves
<1> QED
  BY <1>1 DEF servicesVars

-----------------------------------------------------------------------------
(* Wallpapers.                                                               *)

(* What a caller was told was done is done on both copies.                   *)
WallpaperInv ==
  /\ overrideTold \in Picture \cup {Nothing, Cleared}
  /\ overrideTold \in Picture => userCopy = overrideTold /\ systemCopy = overrideTold
  /\ overrideTold = Cleared => userCopy = NoPicture /\ systemCopy = NoPicture
  /\ wallpaperTold \in Picture \cup Default \cup {Nothing, Cleared}
  /\ wallpaperTold \in Picture => configured = "copy" /\ greeterWallpaper = wallpaperTold
  /\ wallpaperTold \in Default => configured = wallpaperTold
  /\ wallpaperTold = Cleared => configured = ""

LEMMA WallpaperInvKept ==
  ASSUME WallpaperInv, WallpaperNext
  PROVE  WallpaperInv'
<1>1. CASE SetLockWallpaperOverride
  BY <1>1, WallpaperAssumption
     DEF WallpaperInv, SetLockWallpaperOverride, Saved, globalVars, Nothing, Cleared, Default
<1>2. CASE ClearLockWallpaperOverride
  BY <1>2, WallpaperAssumption
     DEF WallpaperInv, ClearLockWallpaperOverride, globalVars, Nothing, Cleared, Default
<1>3. CASE SetWallpaper
  BY <1>3, WallpaperAssumption
     DEF WallpaperInv, SetWallpaper, Saved, overrideVars, Nothing, Cleared, Default
<1>4. CASE SetWallpaperDefault
  BY <1>4, WallpaperAssumption
     DEF WallpaperInv, SetWallpaperDefault, overrideVars, Nothing, Cleared, Default
<1>5. CASE ClearWallpaper
  BY <1>5, WallpaperAssumption
     DEF WallpaperInv, ClearWallpaper, overrideVars, Nothing, Cleared, Default
<1>6. CASE SystemChanges
  BY <1>6 DEF WallpaperInv, SystemChanges, overrideVars, globalVars
<1> QED
  BY <1>1, <1>2, <1>3, <1>4, <1>5, <1>6 DEF WallpaperNext

LEMMA WallpaperInvHolds == Spec => []WallpaperInv
<1>1. Init => WallpaperInv
  BY WallpaperAssumption DEF Init, WallpaperInit, WallpaperInv, Nothing, Cleared, Default
<1>2. WallpaperInv /\ [Next]_servicesVars => WallpaperInv'
  BY WallpaperInvKept, PartsApart DEF WallpaperInv, wallpaperVars
<1> QED
  BY <1>1, <1>2, PTL DEF Spec

LEMMA WhatIsToldIsSeen ==
  ASSUME WallpaperInv
  PROVE  WallpapersAgree
  BY WallpaperAssumption
     DEF WallpaperInv, WallpapersAgree, userLockWallpaper, FirstOf, hasConfiguredWallpaper, wallpaper,
         Nothing, Cleared, Default, NoPicture

-----------------------------------------------------------------------------
(* The picture behind the clock.                                             *)

(* The address is of what the file holds, and the latest measurement is of   *)
(* that address: of what it holds, once it has been read.                    *)
AddressInv ==
  IF ~locking \/ ~recognised THEN backgroundUri = NoUri
  ELSE IF backgroundUri[1] = "own"
       THEN ownFile \in Image /\ backgroundUri = <<"own", ownFile, written>>
       ELSE ownFile = NoOverride /\ backgroundUri \in {<<p, p, 0>> : p \in Image}
MeasuresInv ==
  /\ \A m \in measures :
       /\ m = [file |-> m.file, read |-> m.read, latest |-> m.latest]
       /\ m.latest \in BOOLEAN
       /\ m.latest => /\ locking /\ recognised
                      /\ m.file = backgroundUri[1] /\ m.read \in {Unread, backgroundUri[2]}
  /\ locking /\ recognised =>
       \/ \E m \in measures : m.latest
       \/ luminance = MeasureLuminance(backgroundUri[2])
FaceInv ==
  /\ locking \in BOOLEAN /\ recognised \in BOOLEAN
  /\ ownFile \in Image \cup {NoOverride} /\ otherFile \in Image /\ written \in {0, 1}
  /\ AddressInv
  /\ MeasuresInv
  /\ faceTold # NoOverride =>
       locking /\ faceTold = (IF ownFile = NoOverride THEN otherFile ELSE ownFile)
  /\ locking /\ recognised /\ faceTold # NoOverride => backgroundUri[2] = faceTold

LEMMA FaceIsReadable ==
  ASSUME FaceInv
  PROVE  ClockIsReadable
  BY DEF FaceInv, MeasuresInv, ClockIsReadable

(* Showing another address begins a measurement, showing the same none.      *)
LEMMA ShownIsMeasured ==
  ASSUME MeasuresInv, NEW uri, updateBackground(uri), locking', recognised',
         luminance' = luminance,
         (locking /\ recognised) \/ uri # backgroundUri
  PROVE  MeasuresInv'
<1>1. CASE uri = backgroundUri
  BY <1>1 DEF updateBackground, MeasuresInv, MeasureLuminance
<1>2. CASE uri # backgroundUri
  <2> DEFINE old == {[m EXCEPT !.latest = FALSE] : m \in measures}
             new == [file |-> uri[1], read |-> Unread, latest |-> TRUE]
  <2>1. backgroundUri' = uri /\ measures' = old \cup {new}
    BY <1>2 DEF updateBackground
  <2>2. \A m \in old : /\ m = [file |-> m.file, read |-> m.read, latest |-> m.latest]
                       /\ m.latest = FALSE
    BY DEF MeasuresInv
  <2>3. new.latest = TRUE /\ new.file = uri[1] /\ new.read = Unread
    OBVIOUS
  <2>4. new \in measures'
    BY <2>1
  <2> HIDE DEF old, new
  <2> QED
    BY <2>1, <2>2, <2>3, <2>4 DEF MeasuresInv, new
<1> QED
  BY <1>1, <1>2

LEMMA FaceInvKept ==
  ASSUME FaceInv, FaceNext, Slips = {}
  PROVE  FaceInv'
<1> USE LockFaceAssumption
<1>1. CASE LockerStarts
  <2>1. /\ ~locking /\ locking' /\ recognised' \in BOOLEAN /\ faceTold' = NoOverride
        /\ backgroundUri = NoUri
        /\ UNCHANGED <<ownFile, written, otherFile, luminance, faceTold>>
    BY <1>1 DEF LockerStarts, FaceInv, AddressInv
  <2>2. CASE recognised'
    <3> DEFINE uri == lockBackgroundPath(ownFile, written)
    <3>1. updateBackground(uri) /\ uri # backgroundUri
      BY <1>1, <2>1, <2>2 DEF LockerStarts, lockBackgroundPath, NoUri, FaceInv
    <3>2. MeasuresInv'
      BY <2>1, <2>2, <3>1, ShownIsMeasured DEF FaceInv
    <3>3. backgroundUri' = uri
      BY <3>1 DEF updateBackground
    <3>4. AddressInv'
      BY <2>1, <2>2, <3>3 DEF AddressInv, FaceInv, lockBackgroundPath, NoOverride
    <3> QED
      BY <2>1, <3>2, <3>4 DEF FaceInv
  <2>3. CASE ~recognised'
    <3>1. backgroundUri' = NoUri /\ measures' = measures
      BY <1>1, <2>3 DEF LockerStarts
    <3> QED
      BY <2>1, <2>3, <3>1 DEF FaceInv, AddressInv, MeasuresInv
  <2> QED
    BY <2>1, <2>2, <2>3
<1>2. ASSUME NEW p \in Image, SetLockWallpaper(p) PROVE FaceInv'
  <2>1. /\ locking /\ locking' /\ recognised' = recognised /\ otherFile' = otherFile
        /\ luminance' = luminance /\ ownFile' = p /\ written' = 1 - written
        /\ faceTold' \in {p, NoOverride} /\ refreshLockWallpaper
    BY <1>2 DEF SetLockWallpaper, FaceInv
  <2>2. CASE recognised
    <3> DEFINE uri == lockBackgroundPath(p, 1 - written)
    <3>1. uri = <<"own", p, 1 - written>> /\ p # NoOverride
      BY DEF lockBackgroundPath
    <3>2. updateBackground(uri) /\ uri # backgroundUri
      BY <2>1, <2>2, <3>1 DEF refreshLockWallpaper, FaceInv, AddressInv
    <3>3. MeasuresInv'
      BY <2>1, <2>2, <3>2, ShownIsMeasured DEF FaceInv
    <3>4. backgroundUri' = uri
      BY <3>2 DEF updateBackground
    <3> QED
      BY <2>1, <2>2, <3>1, <3>3, <3>4 DEF FaceInv, AddressInv
  <2>3. CASE ~recognised
    <3>1. backgroundUri' = backgroundUri /\ measures' = measures
      BY <2>1, <2>3 DEF refreshLockWallpaper
    <3> QED
      BY <2>1, <2>3, <3>1 DEF FaceInv, AddressInv, MeasuresInv
  <2> QED
    BY <2>2, <2>3
<1>3. CASE ClearLockWallpaper
  <2>1. /\ locking /\ locking' /\ recognised' = recognised /\ otherFile' = otherFile
        /\ luminance' = luminance /\ ownFile' = NoOverride /\ written' = written
        /\ faceTold' = otherFile /\ refreshLockWallpaper
    BY <1>3 DEF ClearLockWallpaper, FaceInv
  <2>2. CASE recognised
    <3> DEFINE uri == <<otherFile, otherFile, 0>>
    <3>1. updateBackground(uri)
      BY <2>1, <2>2 DEF refreshLockWallpaper, lockBackgroundPath
    <3>2. MeasuresInv'
      BY <2>1, <2>2, <3>1, ShownIsMeasured DEF FaceInv
    <3>3. backgroundUri' = uri
      BY <3>1 DEF updateBackground
    <3> QED
      BY <2>1, <2>2, <3>2, <3>3 DEF FaceInv, AddressInv
  <2>3. CASE ~recognised
    <3>1. backgroundUri' = backgroundUri /\ measures' = measures
      BY <2>1, <2>3 DEF refreshLockWallpaper
    <3> QED
      BY <2>1, <2>3, <3>1 DEF FaceInv, AddressInv, MeasuresInv
  <2> QED
    BY <2>2, <2>3
<1>4. ASSUME NEW p \in Image, OtherChanges(p) PROVE FaceInv'
  BY <1>4 DEF OtherChanges, FaceInv, AddressInv, MeasuresInv
<1>5. ASSUME NEW m \in measures, ImageRead(m) PROVE FaceInv'
  <2> DEFINE read == [m EXCEPT !.read = Content(m.file)]
  <2>1. /\ m = [file |-> m.file, read |-> m.read, latest |-> m.latest]
        /\ m.latest \in BOOLEAN
        /\ m.latest => locking /\ recognised /\ m.file = backgroundUri[1]
    BY DEF FaceInv, MeasuresInv
  <2>2. read = [file |-> m.file, read |-> Content(m.file), latest |-> m.latest]
    BY <2>1
  <2>3. m.latest => Content(m.file) = backgroundUri[2]
    BY <2>1 DEF FaceInv, AddressInv, Content
  <2>4. /\ read.file = m.file /\ read.read = Content(m.file) /\ read.latest = m.latest
        /\ read = [file |-> read.file, read |-> read.read, latest |-> read.latest]
    BY <2>2
  <2>5. measures' = (measures \ {m}) \cup {read}
    BY <1>5 DEF ImageRead
  <2>6. UNCHANGED <<locking, recognised, ownFile, written, otherFile, backgroundUri, luminance,
                    faceTold>>
    BY <1>5 DEF ImageRead
  <2> HIDE DEF read
  <2>7. MeasuresInv'
    <3>1. \A n \in measures' :
            /\ n = [file |-> n.file, read |-> n.read, latest |-> n.latest]
            /\ n.latest \in BOOLEAN
            /\ n.latest => /\ locking /\ recognised
                           /\ n.file = backgroundUri[1] /\ n.read \in {Unread, backgroundUri[2]}
      BY <2>1, <2>3, <2>4, <2>5 DEF FaceInv, MeasuresInv
    <3>2. (\E n \in measures : n.latest) => (\E n \in measures' : n.latest)
      BY <2>4, <2>5
    <3> QED
      BY <2>6, <3>1, <3>2 DEF FaceInv, MeasuresInv, MeasureLuminance
  <2> QED
    BY <2>6, <2>7 DEF FaceInv, AddressInv
<1>6. ASSUME NEW m \in measures, ImageMeasured(m) PROVE FaceInv'
  <2>1. /\ m.read # Unread /\ measures' = measures \ {m}
        /\ luminance' = IF m.latest THEN MeasureLuminance(m.read) ELSE luminance
        /\ UNCHANGED <<locking, recognised, ownFile, written, otherFile, backgroundUri, faceTold>>
    BY <1>6 DEF ImageMeasured
  <2>2. MeasuresInv'
    BY <2>1 DEF FaceInv, MeasuresInv, MeasureLuminance
  <2> QED
    BY <2>1, <2>2 DEF FaceInv, AddressInv
<1> QED
  BY <1>1, <1>2, <1>3, <1>4, <1>5, <1>6 DEF FaceNext

LEMMA FaceInvHolds ==
  ASSUME Slips = {}
  PROVE  Spec => []FaceInv
<1>1. Init => FaceInv
  BY LockFaceAssumption DEF Init, FaceInit, FaceInv, AddressInv, MeasuresInv, NoUri
<1>2. FaceInv /\ [Next]_servicesVars => FaceInv'
  BY FaceInvKept, PartsApart DEF FaceInv, AddressInv, MeasuresInv, MeasureLuminance, faceVars
<1> QED
  BY <1>1, <1>2, PTL DEF Spec

(* Every screen shows the picture that was set, with a clock that can be     *)
(* read before it, as long as no picture is cleared by one of its two owners *)
(* only (Slips): what a caller was told was done is so on both copies, and   *)
(* the brightness that is kept was measured on the picture that is shown.    *)
THEOREM PicturesAreShown ==
  ASSUME Slips = {}
  PROVE  Spec => []PicturesAgree
<1>1. WallpaperInv /\ FaceInv => PicturesAgree
  BY WhatIsToldIsSeen, FaceIsReadable DEF PicturesAgree
<1> QED
  BY <1>1, WallpaperInvHolds, FaceInvHolds, PTL

-----------------------------------------------------------------------------
(* The clients of the X servers.                                             *)

(* Every server, and every client before it connects, goes by the number     *)
(* and the cookie of its display.                                            *)
Key(s) == CookieEntry(m_display[s], cookies[s])
ServerInv(s) ==
  /\ cookies[s] # 0
  /\ ~xstarted[s] => listensOn[s] = None /\ loginEnv[s] = None /\ \A g \in Guest : guests[s][g] = Away
  /\ listensOn[s] # None => listensOn[s] = m_display[s] /\ authFile[s] = Key(s)
  /\ loginEnv[s] \in {None, m_display[s]}
GoesBy(guest, g, number, cookie, login) ==
  /\ DOMAIN guest = {"at", "number", "cookie", "file", "fits"} /\ guest.fits
  /\ guest.at = "starting" => guest.number = number /\ guest.cookie = cookie
  /\ guest.at = "inside" => guest.number = number /\ guest.file = CookieEntry(number, cookie)
  /\ guest.at = "checking" => g = "session" /\ login = number
  /\ guest.at = "checkingWayland" => g = "session" /\ login = None
  /\ guest.at = "onItsOwn" => guest.number = None
GuestInv(s, g) == GoesBy(guests[s][g], g, m_display[s], cookies[s], loginEnv[s])
BroughtInv ==
  /\ brought.at = "up" => brought.file \in {NoEntry, CookieEntry(brought.number, brought.cookie)}
  /\ brought.guest = "reading" => brought.at = "up" /\ brought.read = brought.file
  /\ brought.guest # "refused"
  /\ \E entry, read, at, number, cookie, guest :
       brought = [at |-> at, number |-> number, cookie |-> cookie, file |-> entry,
                  guest |-> guest, read |-> read]
AccessInv ==
  /\ made \in Nat
  /\ DOMAIN cookies = XServer /\ DOMAIN xstarted = XServer /\ DOMAIN listensOn = XServer
  /\ DOMAIN m_display = XServer /\ DOMAIN authFile = XServer /\ DOMAIN loginEnv = XServer
  /\ DOMAIN guests = XServer /\ \A s \in XServer : DOMAIN guests[s] = Guest
  /\ xstarted \in [XServer -> BOOLEAN]
  /\ \A s \in XServer : ServerInv(s) /\ \A g \in Guest : GuestInv(s, g)
  /\ BroughtInv

LEMMA GuestsAreInside ==
  ASSUME AccessInv
  PROVE  GuestsGetIn
<1>1. ASSUME NEW s \in XServer, NEW g \in Guest,
             guests[s][g].at = "inside", listensOn[s] # None
      PROVE  /\ guests[s][g].number = listensOn[s]
             /\ guests[s][g].file # NoEntry
             /\ GetsIn(guests[s][g].number, guests[s][g].file, authFile[s])
  <2>1. GuestInv(s, g) /\ ServerInv(s)
    BY DEF AccessInv
  <2>2. /\ guests[s][g].number = m_display[s] /\ guests[s][g].file = Key(s)
        /\ listensOn[s] = m_display[s] /\ authFile[s] = Key(s) /\ cookies[s] # 0
    BY <1>1, <2>1 DEF GuestInv, GoesBy, ServerInv, Key
  <2>3. /\ Key(s) # NoEntry /\ Key(s).number = m_display[s] /\ Key(s).cookie = Key(s).cookie
    BY <2>2 DEF Key, CookieEntry, NoEntry
  <2> QED
    BY <2>2, <2>3 DEF GetsIn
<1>2. ASSUME NEW s \in XServer, NEW g \in Guest
      PROVE  /\ guests[s][g].at = "onItsOwn" => guests[s][g].number = None
             /\ guests[s][g].fits
  <2>1. GuestInv(s, g)
    BY DEF AccessInv
  <2> QED
    BY <2>1 DEF GuestInv, GoesBy
<1> QED
  BY <1>1, <1>2 DEF GuestsGetIn, AccessInv, BroughtInv

(* The greeter that is started is installed, and can show its theme.         *)
LEMMA GreeterFits ==
  ASSUME NEW programs \in {{"qt6"}, {"qt5", "qt6"}, {"classic", "qt6"}}, NEW version \in {5, 6}
  PROVE  Fits(programs, greeterProgram(programs, version))
  BY DEF Fits, greeterProgram, GreeterExecutable

(* Each server has a cookie before the first of them is started.             *)
LEMMA CookiesForAll ==
  \E f \in [XServer -> 1 .. Cardinality(XServer)] : \A s, t \in XServer : s # t => f[s] # f[t]
<1> DEFINE n == Cardinality(XServer)
<1>1. n \in Nat /\ IsFiniteSet(XServer)
  BY DisplayAccessAssumption, FS_CardinalityType
<1>2. IsFiniteSet(1..n) /\ Cardinality(1..n) = n
  BY <1>1, FS_Interval
<1>3. PICK f : f \in Bijection(XServer, 1..n)
  BY <1>1, <1>2, FS_SameCardinalityBij DEF ExistsBijection
<1>4. f \in [XServer -> 1..n] /\ \A s, t \in XServer : s # t => f[s] # f[t]
  BY <1>3 DEF Bijection, Injection, IsInjective
<1> QED
  BY <1>4

LEMMA AwayGoes ==
  ASSUME NEW g, NEW number, NEW cookie, NEW login
  PROVE  GoesBy(Away, g, number, cookie, login)
  BY DEF GoesBy, Away

LEMMA AccessInvInit ==
  ASSUME AccessInit
  PROVE  AccessInv
<1> DEFINE order == CHOOSE f \in [XServer -> 1 .. Cardinality(XServer)] :
                      \A s, t \in XServer : s # t => f[s] # f[t]
<1>1. order \in [XServer -> 1 .. Cardinality(XServer)]
  BY CookiesForAll
<1>2. cookies = order /\ made = Cardinality(XServer)
  BY DEF AccessInit
<1>3. Cardinality(XServer) \in Nat
  BY DisplayAccessAssumption, FS_CardinalityType
<1> HIDE DEF order
<1>4. made \in Nat /\ DOMAIN cookies = XServer /\ \A s \in XServer : cookies[s] # 0
  BY <1>1, <1>2, <1>3
<1>5. /\ xstarted = [s \in XServer |-> FALSE] /\ m_display = [s \in XServer |-> None]
      /\ listensOn = [s \in XServer |-> None] /\ authFile = [s \in XServer |-> NoEntry]
      /\ guests = [s \in XServer |-> [g \in Guest |-> Away]]
      /\ loginEnv = [s \in XServer |-> None]
      /\ brought = [at |-> "off", number |-> None, cookie |-> 0, file |-> NoEntry,
                    guest |-> "away", read |-> NoEntry]
  BY DEF AccessInit
<1>6. ASSUME NEW s \in XServer PROVE ServerInv(s)
  BY <1>4, <1>5 DEF ServerInv
<1>7. ASSUME NEW s \in XServer, NEW g \in Guest PROVE GuestInv(s, g)
  BY <1>5, AwayGoes DEF GuestInv
<1>8. BroughtInv
  BY <1>5 DEF BroughtInv
<1> QED
  BY <1>4, <1>5, <1>6, <1>7, <1>8 DEF AccessInv

(* What a step leaves of a server and of its clients.                        *)
SameServer(t) ==
  /\ cookies'[t] = cookies[t] /\ xstarted'[t] = xstarted[t] /\ listensOn'[t] = listensOn[t]
  /\ m_display'[t] = m_display[t] /\ authFile'[t] = authFile[t] /\ loginEnv'[t] = loginEnv[t]
SameDomains ==
  /\ DOMAIN cookies' = XServer /\ DOMAIN xstarted' = XServer /\ DOMAIN listensOn' = XServer
  /\ DOMAIN m_display' = XServer /\ DOMAIN authFile' = XServer /\ DOMAIN loginEnv' = XServer
  /\ DOMAIN guests' = XServer /\ \A t \in XServer : DOMAIN guests'[t] = Guest
  /\ xstarted' \in [XServer -> BOOLEAN]

LEMMA ServerLeft ==
  ASSUME NEW t, ServerInv(t), \A g \in Guest : GuestInv(t, g), SameServer(t),
         guests'[t] = guests[t]
  PROVE  ServerInv(t)' /\ \A g \in Guest : GuestInv(t, g)'
<1>1. ServerInv(t)'
  BY DEF ServerInv, SameServer, Key
<1>2. ASSUME NEW g \in Guest PROVE GuestInv(t, g)'
  BY DEF GuestInv, SameServer
<1> QED
  BY <1>1, <1>2

(* A step that changes one server at most, and none of the user's.           *)
LEMMA OneServer ==
  ASSUME AccessInv, NEW s \in XServer, SameDomains, made' \in Nat, brought' = brought,
         \A t \in XServer : t # s => SameServer(t) /\ guests'[t] = guests[t],
         ServerInv(s)', \A g \in Guest : GuestInv(s, g)'
  PROVE  AccessInv'
<1>1. ASSUME NEW t \in XServer PROVE ServerInv(t)' /\ \A g \in Guest : GuestInv(t, g)'
  BY ServerLeft DEF AccessInv
<1>2. BroughtInv'
  BY DEF AccessInv, BroughtInv
<1> QED
  BY <1>1, <1>2 DEF AccessInv, SameDomains

LEMMA ServerStartsSafely ==
  ASSUME AccessInv, NEW s \in XServer, NEW fate, startX(s, fate)
  PROVE  AccessInv'
<1> USE DEF AccessInv
<1>1. /\ ~xstarted[s] /\ cookies' = cookies /\ loginEnv' = loginEnv
      /\ brought' = brought /\ made' = made
      /\ \A g \in Guest : guests[s][g] = Away
      /\ listensOn[s] = None /\ loginEnv[s] = None
  BY DEF startX, ServerInv
<1>2. SameDomains /\ \A t \in XServer : t # s => SameServer(t) /\ guests'[t] = guests[t]
  BY <1>1 DEF startX, SameDomains, SameServer
<1>3. CASE fate = "up"
  <2>1. /\ xstarted'[s] /\ m_display'[s] = FreeNumber /\ listensOn'[s] = FreeNumber
        /\ authFile'[s] = CookieEntry(FreeNumber, cookies[s])
        /\ guests'[s] = [guests[s] EXCEPT !["script"] =
                           [Away EXCEPT !.at = "inside", !.number = FreeNumber,
                                        !.file = CookieEntry(FreeNumber, cookies[s])]]
    BY <1>3 DEF startX, ServerFile, writeCookieToFile, setupDisplay
  <2>2. ServerInv(s)'
    BY <1>1, <2>1 DEF ServerInv, Key
  <2>3. ASSUME NEW g \in Guest PROVE GuestInv(s, g)'
    <3>1. CASE g = "script"
      <4>1. guests'[s][g] = [Away EXCEPT !.at = "inside", !.number = FreeNumber,
                                         !.file = CookieEntry(FreeNumber, cookies[s])]
        BY <1>1, <2>1, <3>1
      <4> HIDE DEF AccessInv
      <4> QED
        BY <1>1, <2>1, <4>1 DEF GuestInv, GoesBy, Away
    <3>2. CASE g # "script"
      BY <1>1, <2>1, <3>2, AwayGoes DEF GuestInv
    <3> QED
      BY <3>1, <3>2
  <2> QED
    BY <1>1, <1>2, <2>2, <2>3, OneServer
<1>4. CASE fate # "up"
  <2>1. /\ ~xstarted'[s] /\ listensOn'[s] = None
        /\ \A g \in Guest : guests'[s][g] = Away
    BY <1>1, <1>4 DEF startX
  <2>2. ServerInv(s)'
    BY <1>1, <2>1 DEF ServerInv
  <2>3. ASSUME NEW g \in Guest PROVE GuestInv(s, g)'
    BY <1>1, <2>1, AwayGoes DEF GuestInv
  <2> QED
    BY <1>1, <1>2, <2>2, <2>3, OneServer
<1> QED
  BY <1>3, <1>4

LEMMA ServerGoesSafely ==
  ASSUME AccessInv, NEW s \in XServer, XServerDies(s) \/ Renewed(s)
  PROVE  AccessInv'
<1> USE DEF AccessInv
<1>1. CASE XServerDies(s)
  <2>1. SameDomains /\ \A t \in XServer : t # s => SameServer(t) /\ guests'[t] = guests[t]
    BY <1>1 DEF XServerDies, SameDomains, SameServer
  <2>2. ServerInv(s)' /\ made' = made /\ brought' = brought
    BY <1>1 DEF XServerDies, ServerInv
  <2>3. ASSUME NEW g \in Guest PROVE GuestInv(s, g)'
    BY <1>1 DEF XServerDies, GuestInv
  <2> QED
    BY <2>1, <2>2, <2>3, OneServer
<1>2. CASE Renewed(s)
  <2>1. SameDomains /\ \A t \in XServer : t # s => SameServer(t) /\ guests'[t] = guests[t]
    BY <1>2 DEF Renewed, SameDomains, SameServer
  <2>2. /\ ~xstarted'[s] /\ listensOn'[s] = None /\ loginEnv'[s] = None
        /\ cookies'[s] = made + 1 /\ made' = made + 1 /\ brought' = brought
        /\ \A g \in Guest : guests'[s][g] = Away
    BY <1>2 DEF Renewed
  <2>3. ServerInv(s)' /\ made' \in Nat
    BY <2>2 DEF ServerInv
  <2>4. ASSUME NEW g \in Guest PROVE GuestInv(s, g)'
    BY <2>2, AwayGoes DEF GuestInv
  <2> QED
    BY <2>1, <2>2, <2>3, <2>4, OneServer
<1> QED
  BY <1>1, <1>2

(* A step that changes one client of a server that was started.              *)
LEMMA OneGuest ==
  ASSUME AccessInv, NEW s \in XServer, NEW h \in Guest, NEW new,
         UNCHANGED <<xserverVars, loginEnv, brought, made>>,
         guests' = [guests EXCEPT ![s][h] = new], guests[s][h] # Away \/ xstarted[s],
         GoesBy(new, h, m_display[s], cookies[s], loginEnv[s])
  PROVE  AccessInv'
<1>1. /\ UNCHANGED <<xprocess, xstarted, m_display, cookies, authFile, listensOn, loginEnv>>
      /\ brought' = brought /\ made' = made
  BY DEF xserverVars
<1>2. DOMAIN guests = XServer /\ DOMAIN guests[s] = Guest /\ xstarted[s] \in BOOLEAN
  BY DEF AccessInv
<1>3. /\ guests'[s] = [guests[s] EXCEPT ![h] = new]
      /\ \A t \in XServer : t # s => guests'[t] = guests[t]
      /\ DOMAIN guests' = XServer
  BY <1>2
<1>4. guests'[s][h] = new /\ \A g \in Guest : g # h => guests'[s][g] = guests[s][g]
  BY <1>2, <1>3
<1>5. SameDomains /\ \A t \in XServer : t # s => SameServer(t) /\ guests'[t] = guests[t]
  BY <1>1, <1>2, <1>3 DEF SameDomains, SameServer, AccessInv
<1>6. ServerInv(s)'
  BY <1>1, <1>2 DEF AccessInv, ServerInv, Key
<1>7. ASSUME NEW g \in Guest PROVE GuestInv(s, g)'
  <2>1. GuestInv(s, g)
    BY DEF AccessInv
  <2>2. CASE g = h
    BY <1>1, <1>4, <2>2 DEF GuestInv
  <2>3. CASE g # h
    BY <1>1, <1>4, <2>1, <2>3 DEF GuestInv
  <2> QED
    BY <2>2, <2>3
<1>8. made' \in Nat
  BY <1>1 DEF AccessInv
<1> QED
  BY <1>1, <1>5, <1>6, <1>7, <1>8, OneServer

LEMMA GreeterIsServed ==
  ASSUME AccessInv, NEW s \in XServer, GreeterClientStarts(s) \/ GreeterStops(s)
  PROVE  AccessInv'
<1>1. ASSUME NEW programs \in {{"qt6"}, {"qt5", "qt6"}, {"classic", "qt6"}},
             NEW theme \in {"missing", "five"},
             startGreeterClient(s, programs, findGreeterTheme(theme))
      PROVE  AccessInv'
  <2> DEFINE version == findGreeterTheme(theme)
             fits == Fits(programs, greeterProgram(programs, version))
             new == [Away EXCEPT !.at = "starting", !.number = m_display[s], !.cookie = cookies[s],
                                 !.fits = fits]
  <2>1. version \in {5, 6}
    BY DEF findGreeterTheme
  <2>2. fits = TRUE
    BY <2>1, GreeterFits DEF Fits
  <2>3. GoesBy(new, "greeter", m_display[s], cookies[s], loginEnv[s])
    <3>1. /\ new.at = "starting" /\ new.number = m_display[s] /\ new.cookie = cookies[s]
          /\ new.fits = fits /\ DOMAIN new = {"at", "number", "cookie", "file", "fits"}
      BY DEF Away
    <3> HIDE DEF new, fits
    <3> QED
      BY <2>2, <3>1 DEF GoesBy
  <2>4. /\ UNCHANGED <<xserverVars, loginEnv, brought, made>> /\ xstarted[s]
        /\ guests' = [guests EXCEPT ![s]["greeter"] = new]
    BY <1>1 DEF startGreeterClient
  <2> HIDE DEF new
  <2> QED
    BY <2>3, <2>4, OneGuest DEF Guest
<1>2. CASE GreeterStops(s)
  <2>1. /\ UNCHANGED <<xserverVars, loginEnv, brought, made>> /\ guests[s]["greeter"] # Away
        /\ guests' = [guests EXCEPT ![s]["greeter"] = Away]
    BY <1>2 DEF GreeterStops, Away
  <2> QED
    BY <2>1, AwayGoes, OneGuest DEF Guest
<1> QED
  BY <1>1, <1>2 DEF GreeterClientStarts

LEMMA GuestIsServed ==
  ASSUME AccessInv, NEW s \in XServer, NEW h \in Guest, GuestStarts(s, h)
  PROVE  AccessInv'
<1> DEFINE guest == guests[s][h]
           entry == CookieEntry(guest.number, guest.cookie)
           inside == [guest EXCEPT !.at = "inside", !.file = entry]
<1>1. PICK done \in BOOLEAN :
        guests' = [guests EXCEPT ![s][h] = IF done THEN inside ELSE Away]
  BY DEF GuestStarts, writeCookieToFile
<1>2. guest.at = "starting" /\ guest # Away /\ UNCHANGED <<xserverVars, loginEnv, brought, made>>
  BY DEF GuestStarts, Away
<1>3. GuestInv(s, h)
  BY DEF AccessInv
<1>4. GoesBy(inside, h, m_display[s], cookies[s], loginEnv[s])
  <2>1. /\ DOMAIN guest = {"at", "number", "cookie", "file", "fits"}
        /\ guest.fits
        /\ guest.number = m_display[s] /\ guest.cookie = cookies[s]
    BY <1>2, <1>3 DEF GuestInv, GoesBy
  <2>2. /\ inside.at = "inside" /\ inside.number = m_display[s] /\ inside.cookie = cookies[s]
        /\ inside.file = CookieEntry(m_display[s], cookies[s]) /\ inside.fits = guest.fits
        /\ DOMAIN inside = {"at", "number", "cookie", "file", "fits"}
    BY <2>1
  <2> HIDE DEF inside
  <2> QED
    BY <2>1, <2>2 DEF GoesBy
<1>5. CASE done
  <2>1. guests' = [guests EXCEPT ![s][h] = inside]
    BY <1>1, <1>5
  <2> HIDE DEF inside
  <2> QED
    BY <1>2, <1>4, <2>1, OneGuest
<1>6. CASE ~done
  <2>1. guests' = [guests EXCEPT ![s][h] = Away]
    BY <1>1, <1>6
  <2> QED
    BY <1>2, <2>1, AwayGoes, OneGuest
<1> QED
  BY <1>5, <1>6

LEMMA LoginIsAnswered ==
  ASSUME AccessInv, NEW s \in XServer, LoginAnswered(s)
  PROVE  AccessInv'
<1> DEFINE guest == guests[s]["session"]
           next == IF guest.at = "checking" THEN "starting" ELSE "onItsOwn"
           new == [guest EXCEPT !.at = next, !.number = loginEnv[s], !.cookie = cookies[s]]
<1>1. PICK success \in BOOLEAN : slotAuthenticationFinished(s, success)
  BY DEF LoginAnswered
<1>2. /\ guest.at \in {"checking", "checkingWayland"} /\ guest # Away
      /\ UNCHANGED <<xserverVars, loginEnv, brought, made>>
  BY <1>1 DEF slotAuthenticationFinished, Away
<1>3. DOMAIN guests = XServer /\ DOMAIN guests[s] = Guest /\ GuestInv(s, "session")
  BY DEF AccessInv, Guest
<1>4. CASE ~success
  <2>1. guests' = [guests EXCEPT ![s]["session"] = Away]
    BY <1>1, <1>4 DEF slotAuthenticationFinished
  <2> QED
    BY <1>2, <2>1, AwayGoes, OneGuest DEF Guest
<1>5. CASE success
  <2>1. /\ DOMAIN guest = {"at", "number", "cookie", "file", "fits"}
        /\ guest.fits
        /\ guest.at = "checking" => loginEnv[s] = m_display[s]
        /\ guest.at = "checkingWayland" => loginEnv[s] = None
    BY <1>3 DEF GuestInv, GoesBy
  <2>2. guests' = [guests EXCEPT ![s]["session"] = new]
    BY <1>1, <1>5, <2>1 DEF slotAuthenticationFinished
  <2> HIDE DEF guest, next
  <2>3. /\ new.at = next
        /\ new.number = loginEnv[s] /\ new.cookie = cookies[s] /\ new.fits = guest.fits
        /\ DOMAIN new = {"at", "number", "cookie", "file", "fits"}
    BY <2>1
  <2> HIDE DEF new
  <2>4. GoesBy(new, "session", m_display[s], cookies[s], loginEnv[s])
    BY <1>2, <2>1, <2>3 DEF GoesBy, next
  <2> QED
    BY <1>2, <2>2, <2>4, OneGuest DEF Guest, guest
<1> QED
  BY <1>4, <1>5

LEMMA LoginIsTried ==
  ASSUME AccessInv, NEW s \in XServer, LoginAsked(s), Hastes = {}
  PROVE  AccessInv'
<1>1. PICK ofKind \in {"x11", "wayland"} : startAuth(s, ofKind)
  BY DEF LoginAsked
<1> DEFINE at == IF ofKind = "x11" THEN "checking" ELSE "checkingWayland"
<1>2. /\ xstarted[s] /\ guests[s]["session"] = Away
      /\ UNCHANGED <<xprocess, xstarted, m_display, cookies, authFile, listensOn, brought, made>>
      /\ loginEnv' = IF ofKind = "x11" THEN [loginEnv EXCEPT ![s] = m_display[s]] ELSE loginEnv
      /\ guests' = [guests EXCEPT ![s]["session"] = [Away EXCEPT !.at = at]]
      /\ ofKind = "x11" \/ loginEnv[s] = None
  BY <1>1 DEF startAuth, insertEnvironment, xserverVars
<1>3. DOMAIN loginEnv = XServer /\ DOMAIN guests = XServer /\ DOMAIN guests[s] = Guest
  BY DEF AccessInv
<1>4. loginEnv'[s] = IF ofKind = "x11" THEN m_display[s] ELSE None
  BY <1>2, <1>3
<1>5. SameDomains /\ \A t \in XServer : t # s => SameServer(t) /\ guests'[t] = guests[t]
  BY <1>2, <1>3 DEF SameDomains, SameServer, AccessInv
<1>6. ServerInv(s)'
  BY <1>2, <1>4 DEF AccessInv, ServerInv, Key
<1>7. ASSUME NEW g \in Guest PROVE GuestInv(s, g)'
  <2>1. CASE g = "session"
    <3>1. guests'[s][g] = [Away EXCEPT !.at = at]
      BY <1>2, <1>3, <2>1
    <3> QED
      BY <1>2, <1>4, <2>1, <3>1 DEF GuestInv, GoesBy, Away
  <2>2. CASE g # "session"
    <3>1. /\ guests'[s][g] = guests[s][g] /\ GuestInv(s, g)
          /\ m_display' = m_display /\ cookies' = cookies
      BY <1>2, <1>3, <2>2 DEF AccessInv
    <3> QED
      BY <2>2, <3>1 DEF GuestInv, GoesBy
  <2> QED
    BY <2>1, <2>2
<1>8. made' \in Nat /\ brought' = brought
  BY <1>2 DEF AccessInv
<1> QED
  BY <1>5, <1>6, <1>7, <1>8, OneServer

(* The server of the user's: its client reads what its helper wrote.         *)
LEMMA OwnServerServes ==
  ASSUME AccessInv, Hastes = {},
         startOwnServer \/ addCookie \/ OwnGuestReads \/ OwnGuestConnects \/ OwnServerEnds
  PROVE  AccessInv'
<1>1. UNCHANGED <<xserverVars, guests, loginEnv>> /\ made' \in Nat
  <2>1. CASE startOwnServer
    BY <2>1 DEF startOwnServer, AccessInv
  <2>2. CASE ~startOwnServer
    BY <2>2 DEF addCookie, OwnGuestReads, OwnGuestConnects, OwnServerEnds, AccessInv
  <2> QED
    BY <2>1, <2>2
<1>2. PICK entry, read, at, number, cookie, guest :
        brought = [at |-> at, number |-> number, cookie |-> cookie, file |-> entry,
                   guest |-> guest, read |-> read]
  BY DEF AccessInv, BroughtInv
<1>3. BroughtInv'
  <2>1. CASE startOwnServer
    BY <2>1 DEF startOwnServer, BroughtInv
  <2>2. CASE addCookie
    <3>1. PICK done \in BOOLEAN :
            brought' = [brought EXCEPT
              !.at = "up", !.file = writeCookieToFile(brought.number, brought.cookie, done)]
      BY <2>2 DEF addCookie
    <3>2. /\ brought.at = "announced" /\ brought.guest # "reading" /\ brought.guest # "refused"
      BY <2>2 DEF addCookie, AccessInv, BroughtInv
    <3>3. brought' = [at |-> "up", number |-> number, cookie |-> cookie,
                      file |-> writeCookieToFile(number, cookie, done),
                      guest |-> guest, read |-> read]
      BY <1>2, <3>1
    <3>4. guest # "reading" /\ guest # "refused"
      BY <1>2, <3>2
    <3> QED
      BY <3>3, <3>4 DEF BroughtInv, writeCookieToFile
  <2>3. CASE OwnGuestReads
    BY <1>2, <2>3 DEF OwnGuestReads, AccessInv, BroughtInv
  <2>4. CASE OwnGuestConnects
    <3>1. /\ brought.at = "up" /\ brought.read = brought.file
          /\ brought.file \in {NoEntry, CookieEntry(brought.number, brought.cookie)}
      BY <2>4 DEF OwnGuestConnects, AccessInv, BroughtInv
    <3>2. GetsIn(brought.number, brought.read, brought.file)
      BY <3>1 DEF GetsIn, CookieEntry
    <3>3. brought' = [brought EXCEPT !.guest = "inside"]
      BY <2>4, <3>2 DEF OwnGuestConnects
    <3>4. brought' = [at |-> at, number |-> number, cookie |-> cookie, file |-> entry,
                      guest |-> "inside", read |-> read]
      BY <1>2, <3>3
    <3> QED
      BY <1>2, <3>1, <3>4 DEF BroughtInv
  <2>5. CASE OwnServerEnds
    <3>1. brought' = [at |-> "off", number |-> None, cookie |-> 0, file |-> NoEntry,
                      guest |-> "away", read |-> NoEntry]
      BY <1>2, <2>5 DEF OwnServerEnds
    <3> QED
      BY <3>1 DEF BroughtInv
  <2> QED
    BY <2>1, <2>2, <2>3, <2>4, <2>5
<1>4. ASSUME NEW t \in XServer PROVE ServerInv(t)' /\ \A g \in Guest : GuestInv(t, g)'
  BY <1>1, ServerLeft DEF AccessInv, SameServer, xserverVars
<1> QED
  BY <1>1, <1>3, <1>4 DEF AccessInv, xserverVars

LEMMA AccessInvHolds ==
  ASSUME Hastes = {}
  PROVE  Spec => []AccessInv
<1>1. Init => AccessInv
  BY AccessInvInit DEF Init
<1>2. ASSUME AccessInv, AccessNext PROVE AccessInv'
  BY <1>2, ServerStartsSafely, ServerGoesSafely, GreeterIsServed, GuestIsServed, LoginIsTried,
     LoginIsAnswered, OwnServerServes DEF AccessNext, ServerStarts, finishedX, stopX
<1>3. ASSUME AccessInv, UNCHANGED accessVars PROVE AccessInv'
  <2>1. ASSUME NEW t \in XServer PROVE ServerInv(t)' /\ \A g \in Guest : GuestInv(t, g)'
    BY <1>3, ServerLeft DEF AccessInv, SameServer, accessVars
  <2>2. BroughtInv'
    BY <1>3 DEF AccessInv, BroughtInv, accessVars
  <2> QED
    BY <1>3, <2>1, <2>2 DEF AccessInv, accessVars
<1>4. AccessInv /\ [Next]_servicesVars => AccessInv'
  BY <1>2, <1>3, PartsApart
<1> QED
  BY <1>1, <1>4, PTL DEF Spec

(* Every client of an X server gets in while that server lives, whatever     *)
(* numbers the servers take over from each other, as long as no client reads *)
(* its file before it is written and the kind of session is not changed      *)
(* after a refused password (Hastes).                                        *)
THEOREM ClientsGetIn ==
  ASSUME Hastes = {}
  PROVE  Spec => []GuestsGetIn
<1>1. AccessInv => GuestsGetIn
  BY GuestsAreInside
<1> QED
  BY <1>1, AccessInvHolds, PTL

-----------------------------------------------------------------------------
(* The windows of the greeter.                                               *)

(* A screen without a window is one whose addition is not yet heard of.      *)
WindowInv ==
  /\ connected \subseteq NeoScreen /\ windows \subseteq connected /\ exposed \subseteq windows
  /\ additions \in Seq(NeoScreen)
  /\ \A s \in connected \ windows : \E i \in DOMAIN additions : additions[i] = s
  /\ windows = {} <=> sceneWindow = NoWindow
  /\ sceneWindow # NoWindow => sceneWindow \in windows

(* A frame that is counted was begun after the one before it: with the first *)
(* no frame from before is being drawn, and with the second none is shown.   *)
Counted(s) == pendingFrames[s] + swaps[s]
Drawn(s) ==
  /\ s \notin Awaited \/ Counted(s) >= 1 => drawing[s] # "before"
  /\ s \notin Awaited \/ Counted(s) >= 2 => onScreen[s] # "before"
FrameInv ==
  /\ drawing \in [NeoScreen -> {Blank, "before", "after"}]
  /\ onScreen \in [NeoScreen -> {Blank, "before", "after"}]
  /\ swaps \in [NeoScreen -> Nat]
  /\ Awaited \subseteq NeoScreen /\ pendingFrames \in [Awaited -> Nat]
  /\ pending \in BOOLEAN /\ answers \in Seq(BOOLEAN)
  /\ fade # "drawn" => Awaited = {}
  /\ \A s \in NeoScreen \ exposed : drawing[s] = Blank /\ onScreen[s] = Blank
  /\ fade = "drawn" => \A s \in NeoScreen : Drawn(s)
NeoInv == WindowInv /\ FrameInv

LEMMA WindowsAreHeld ==
  ASSUME WindowInv
  PROVE  SceneHasWindow
<1>1. additions = <<>> => DOMAIN additions = {}
  OBVIOUS
<1> QED
  BY <1>1 DEF WindowInv, SceneHasWindow

LEMMA WindowInvKept ==
  ASSUME WindowInv, NeoScreensNext
  PROVE  WindowInv'
<1> USE NeoScreensAssumption
<1>1. ASSUME NEW s \in NeoScreen, PlugIn(s) PROVE WindowInv'
  <2>1. /\ connected' = connected \cup {s} /\ additions' = Append(additions, s)
        /\ UNCHANGED <<windows, sceneWindow, exposed>>
    BY <1>1 DEF PlugIn
  <2>2. additions' \in Seq(NeoScreen)
    BY <2>1 DEF WindowInv
  <2>3. ASSUME NEW t \in connected' \ windows' PROVE \E i \in DOMAIN additions' : additions'[i] = t
    <3>1. CASE t = s
      <4>1. Len(additions) + 1 \in DOMAIN additions' /\ additions'[Len(additions) + 1] = s
        BY <2>1 DEF WindowInv
      <4> QED
        BY <3>1, <4>1
    <3>2. CASE t # s
      <4>1. PICK i \in DOMAIN additions : additions[i] = t
        BY <2>1, <3>2 DEF WindowInv
      <4>2. i \in DOMAIN additions' /\ additions'[i] = t
        BY <2>1, <4>1 DEF WindowInv
      <4> QED
        BY <4>2
    <3> QED
      BY <3>1, <3>2
  <2> QED
    BY <2>1, <2>2, <2>3 DEF WindowInv
<1>2. CASE AddScreen
  <2>1. /\ additions # <<>> /\ additions' = Tail(additions)
        /\ windows' = windows \cup {t \in {Head(additions)} : Creatable(t)}
        /\ sceneWindow' \in IF sceneWindow = NoWindow THEN InitialWindow(windows') ELSE {sceneWindow}
        /\ UNCHANGED <<connected, exposed>>
    BY <1>2 DEF AddScreen
  <2>2. additions' \in Seq(NeoScreen)
    BY <2>1 DEF WindowInv
  <2>3. ASSUME NEW t \in connected' \ windows' PROVE \E i \in DOMAIN additions' : additions'[i] = t
    <3>1. t \in connected \ windows /\ t # Head(additions)
      BY <2>1 DEF Creatable
    <3>2. PICK i \in DOMAIN additions : additions[i] = t
      BY <3>1 DEF WindowInv
    <3>3. i # 1
      BY <2>1, <3>1, <3>2
    <3>4. i - 1 \in DOMAIN additions' /\ additions'[i - 1] = t
      BY <2>1, <3>2, <3>3 DEF WindowInv
    <3> QED
      BY <3>4
  <2>4. windows' \subseteq connected' /\ exposed' \subseteq windows'
    BY <2>1 DEF WindowInv, Creatable
  <2>5. windows' = {} <=> sceneWindow' = NoWindow
    BY <2>1, <2>4 DEF WindowInv, InitialWindow
  <2>6. sceneWindow' # NoWindow => sceneWindow' \in windows'
    BY <2>1 DEF WindowInv, InitialWindow
  <2> QED
    BY <2>1, <2>2, <2>3, <2>4, <2>5, <2>6 DEF WindowInv
<1>3. ASSUME NEW s \in NeoScreen, RemoveScreen(s) PROVE WindowInv'
  <2>1. /\ connected' = connected \ {s} /\ windows' = windows \ {s} /\ exposed' = exposed \ {s}
        /\ sceneWindow' \in IF sceneWindow = s THEN InitialWindow(windows') ELSE {sceneWindow}
        /\ additions' = additions
    BY <1>3 DEF RemoveScreen
  <2>2. windows' = {} <=> sceneWindow' = NoWindow
    BY <2>1 DEF WindowInv, InitialWindow
  <2>3. sceneWindow' # NoWindow => sceneWindow' \in windows'
    BY <2>1 DEF WindowInv, InitialWindow
  <2> QED
    BY <2>1, <2>2, <2>3 DEF WindowInv
<1>4. ASSUME NEW s \in NeoScreen, Enter(s) \/ Exposed(s) PROVE WindowInv'
  BY <1>4 DEF Enter, Exposed, WindowInv
<1>5. ASSUME NEW s \in NeoScreen, FrameBegins(s) \/ FrameEnds(s) \/ FrameSwapped(s) PROVE WindowInv'
  BY <1>5 DEF FrameBegins, FrameEnds, FrameSwapped, windowVars, WindowInv
<1>6. CASE \/ PrepareTransition \/ FinishTransition \/ FrameTimeout \/ ShowsLoginFailure
           \/ HandleDisconnect
  BY <1>6 DEF PrepareTransition, FinishTransition, FrameTimeout, ShowsLoginFailure, HandleDisconnect,
     windowVars, WindowInv
<1> QED
  BY <1>1, <1>2, <1>3, <1>4, <1>5, <1>6 DEF NeoScreensNext

(* The end of the awaiting, in time or not, and of the last window's part.   *)
LEMMA CompleteInv ==
  ASSUME FrameInv, NEW ready \in BOOLEAN, Complete(ready),
         drawing' \in [NeoScreen -> {Blank, "before", "after"}],
         onScreen' \in [NeoScreen -> {Blank, "before", "after"}],
         \A s \in NeoScreen \ exposed' : drawing'[s] = Blank /\ onScreen'[s] = Blank
  PROVE  FrameInv'
<1>1. Awaited' = {} /\ pendingFrames' \in [Awaited' -> Nat] /\ fade' = "over"
  BY DEF Complete, Awaited
<1>2. swaps' \in [NeoScreen -> Nat] /\ pending' = FALSE /\ pending' \in BOOLEAN
  BY DEF Complete
<1>3. answers' \in Seq(BOOLEAN)
  <2>1. answers \in Seq(BOOLEAN)
    BY DEF FrameInv
  <2>2. Append(answers, ready) \in Seq(BOOLEAN)
    BY <2>1, Appended
  <2> QED
    BY <2>1, <2>2 DEF Complete
<1> QED
  BY <1>1, <1>2, <1>3 DEF FrameInv

LEMMA WindowFinishedInv ==
  ASSUME FrameInv, NEW s \in Awaited, WindowFinished(s),
         drawing' \in [NeoScreen -> {Blank, "before", "after"}],
         onScreen' \in [NeoScreen -> {Blank, "before", "after"}],
         \A t \in NeoScreen \ exposed' : drawing'[t] = Blank /\ onScreen'[t] = Blank,
         \A t \in NeoScreen : t # s => drawing'[t] = drawing[t] /\ onScreen'[t] = onScreen[t],
         drawing'[s] # "before", onScreen'[s] # "before"
  PROVE  FrameInv'
<1>1. CASE Awaited = {s}
  BY <1>1, CompleteInv DEF WindowFinished
<1>2. CASE Awaited # {s}
  <2>1. /\ pendingFrames' = [t \in Awaited \ {s} |-> pendingFrames[t]]
        /\ swaps' = [swaps EXCEPT ![s] = 0]
        /\ UNCHANGED <<fade, pending, answers>>
    BY <1>2 DEF WindowFinished, Without, Awaited
  <2>2. Awaited' = Awaited \ {s} /\ pendingFrames' \in [Awaited' -> Nat]
    BY <2>1 DEF Awaited, FrameInv
  <2>3. swaps' \in [NeoScreen -> Nat] /\ \A t \in NeoScreen : t # s => swaps'[t] = swaps[t]
    BY <2>1 DEF FrameInv
  <2>4. ASSUME fade' = "drawn", NEW t \in NeoScreen PROVE Drawn(t)'
    <3>1. CASE t = s
      BY <3>1, <2>2 DEF Drawn
    <3>2. CASE t # s
      <4>1. Drawn(t) /\ (t \in Awaited' <=> t \in Awaited)
        BY <2>1, <2>2, <2>4, <3>2 DEF FrameInv
      <4>2. t \in Awaited => Counted(t)' = Counted(t)
        BY <2>1, <2>3, <3>2 DEF Counted
      <4> QED
        BY <3>2, <4>1, <4>2 DEF Drawn
    <3> QED
      BY <3>1, <3>2
  <2> QED
    BY <2>1, <2>2, <2>3, <2>4 DEF FrameInv
<1> QED
  BY <1>1, <1>2

(* The second frame of an awaited window is one drawn since.                 *)
LEMMA SecondFrame ==
  ASSUME FrameInv, NEW s \in Awaited, swaps[s] > 0, RequiredFrameSwaps(pendingFrames[s] + 1)
  PROVE  drawing[s] # "before" /\ onScreen[s] # "before"
<1>1. /\ s \in NeoScreen /\ fade = "drawn" /\ Drawn(s)
      /\ swaps[s] \in Nat /\ pendingFrames[s] \in Nat
  BY DEF FrameInv
<1>2. Counted(s) >= 2
  BY <1>1 DEF Counted, RequiredFrameSwaps
<1> QED
  BY <1>1, <1>2 DEF Drawn, Counted

LEMMA RendererKeepsInv ==
  ASSUME FrameInv, NEW s \in NeoScreen, FrameBegins(s) \/ FrameEnds(s)
  PROVE  FrameInv'
<1>1. CASE FrameBegins(s)
  <2> DEFINE frame == IF fade \in {"drawn", "over"} THEN "after" ELSE "before"
  <2>1. /\ drawing' = [drawing EXCEPT ![s] = frame] /\ s \in exposed
        /\ exposed' = exposed
        /\ UNCHANGED <<onScreen, fade, pending, pendingFrames, swaps, answers>>
    BY <1>1 DEF FrameBegins, windowVars
  <2>2. drawing' \in [NeoScreen -> {Blank, "before", "after"}]
    BY <2>1 DEF FrameInv
  <2>3. Awaited' = Awaited
    BY <2>1 DEF Awaited
  <2>4. ASSUME fade = "drawn", NEW t \in NeoScreen PROVE Drawn(t)'
    <3>1. Drawn(t) /\ Counted(t)' = Counted(t)
      BY <2>1, <2>4 DEF FrameInv, Counted
    <3>2. drawing'[t] \in {drawing[t], "after"}
      BY <2>1, <2>4 DEF FrameInv
    <3> QED
      BY <2>1, <2>3, <3>1, <3>2 DEF Drawn
  <2>5. \A t \in NeoScreen \ exposed' : drawing'[t] = Blank /\ onScreen'[t] = Blank
    BY <2>1 DEF FrameInv
  <2> QED
    BY <2>1, <2>2, <2>3, <2>4, <2>5 DEF FrameInv
<1>2. CASE FrameEnds(s)
  <2>1. /\ onScreen' = [onScreen EXCEPT ![s] = drawing[s]] /\ drawing' = [drawing EXCEPT ![s] = Blank]
        /\ swaps' = IF s \in Awaited THEN [swaps EXCEPT ![s] = swaps[s] + 1] ELSE swaps
        /\ drawing[s] # Blank /\ exposed' = exposed
        /\ UNCHANGED <<fade, pending, pendingFrames, answers>>
    BY <1>2 DEF FrameEnds, windowVars
  <2>2. /\ drawing' \in [NeoScreen -> {Blank, "before", "after"}]
        /\ onScreen' \in [NeoScreen -> {Blank, "before", "after"}]
        /\ swaps' \in [NeoScreen -> Nat]
    BY <2>1 DEF FrameInv
  <2>3. Awaited' = Awaited
    BY <2>1 DEF Awaited
  <2>4. ASSUME fade = "drawn", NEW t \in NeoScreen PROVE Drawn(t)'
    <3>1. Drawn(t)
      BY <2>4 DEF FrameInv
    <3>2. CASE t = s
      <4>1. drawing'[t] = Blank /\ onScreen'[t] = drawing[t]
        BY <2>1, <3>2 DEF FrameInv
      <4>2. t \in Awaited => Counted(t)' = Counted(t) + 1 /\ Counted(t) \in Nat
        BY <2>1, <3>2 DEF FrameInv, Counted
      <4> QED
        BY <2>3, <3>1, <4>1, <4>2 DEF Drawn, Blank
    <3>3. CASE t # s
      <4>1. drawing'[t] = drawing[t] /\ onScreen'[t] = onScreen[t]
        BY <2>1, <3>3 DEF FrameInv
      <4>2. Counted(t)' = Counted(t)
        BY <2>1, <3>3 DEF FrameInv, Counted
      <4> QED
        BY <2>3, <3>1, <4>1, <4>2 DEF Drawn
    <3> QED
      BY <3>2, <3>3
  <2>5. \A t \in NeoScreen \ exposed' : drawing'[t] = Blank /\ onScreen'[t] = Blank
    BY <2>1, <2>2 DEF FrameInv
  <2> QED
    BY <2>1, <2>2, <2>3, <2>4, <2>5 DEF FrameInv
<1> QED
  BY <1>1, <1>2

LEMMA FrameSwappedInv ==
  ASSUME FrameInv, NEW s \in NeoScreen, FrameSwapped(s)
  PROVE  FrameInv'
<1>1. /\ s \in Awaited /\ swaps[s] > 0 /\ exposed' = exposed
      /\ UNCHANGED <<drawing, onScreen>>
      /\ swaps[s] \in Nat /\ pendingFrames[s] \in Nat
  BY DEF FrameSwapped, windowVars, drawVars, FrameInv
<1>2. CASE RequiredFrameSwaps(pendingFrames[s] + 1)
  <2>1. WindowFinished(s)
    BY <1>2 DEF FrameSwapped
  <2>2. drawing[s] # "before" /\ onScreen[s] # "before"
    BY <1>1, <1>2, SecondFrame
  <2>3. /\ drawing' \in [NeoScreen -> {Blank, "before", "after"}]
        /\ onScreen' \in [NeoScreen -> {Blank, "before", "after"}]
        /\ \A t \in NeoScreen \ exposed' : drawing'[t] = Blank /\ onScreen'[t] = Blank
    BY <1>1 DEF FrameInv
  <2> QED
    BY <1>1, <2>1, <2>2, <2>3, WindowFinishedInv
<1>3. CASE ~RequiredFrameSwaps(pendingFrames[s] + 1)
  <2>1. /\ pendingFrames' = [pendingFrames EXCEPT ![s] = pendingFrames[s] + 1]
        /\ swaps' = [swaps EXCEPT ![s] = swaps[s] - 1]
        /\ UNCHANGED <<fade, pending, answers>>
    BY <1>3 DEF FrameSwapped
  <2>2. Awaited' = Awaited /\ pendingFrames' \in [Awaited -> Nat] /\ swaps' \in [NeoScreen -> Nat]
    BY <1>1, <2>1 DEF Awaited, FrameInv
  <2>3. \A t \in Awaited : Counted(t)' = Counted(t)
    BY <1>1, <2>1 DEF FrameInv, Counted, Awaited
  <2>4. ASSUME fade = "drawn", NEW t \in NeoScreen PROVE Drawn(t)'
    BY <1>1, <2>2, <2>3, <2>4 DEF FrameInv, Drawn
  <2> QED
    BY <1>1, <2>1, <2>2, <2>4 DEF FrameInv
<1> QED
  BY <1>2, <1>3

LEMMA ScreensKeepFrameInv ==
  ASSUME FrameInv, WindowInv, NEW s \in NeoScreen,
         PlugIn(s) \/ RemoveScreen(s) \/ Enter(s) \/ Exposed(s)
  PROVE  FrameInv'
<1>1. CASE PlugIn(s) \/ Enter(s)
  BY <1>1 DEF PlugIn, Enter, drawVars, FrameInv, Drawn, Counted, Awaited
<1>2. CASE RemoveScreen(s) \/ Exposed(s)
  <2>1. /\ drawing' = [drawing EXCEPT ![s] = Blank] /\ onScreen' = [onScreen EXCEPT ![s] = Blank]
        /\ \A t \in NeoScreen : t # s => (t \in exposed' <=> t \in exposed)
    BY <1>2 DEF RemoveScreen, Exposed
  <2>2. /\ drawing' \in [NeoScreen -> {Blank, "before", "after"}]
        /\ onScreen' \in [NeoScreen -> {Blank, "before", "after"}]
        /\ \A t \in NeoScreen : t # s => drawing'[t] = drawing[t] /\ onScreen'[t] = onScreen[t]
        /\ drawing'[s] = Blank /\ onScreen'[s] = Blank
    BY <2>1 DEF FrameInv
  <2>3. \A t \in NeoScreen \ exposed' : drawing'[t] = Blank /\ onScreen'[t] = Blank
    BY <2>1, <2>2 DEF FrameInv
  <2>4. CASE RemoveScreen(s) /\ s \in Awaited
    BY <2>2, <2>3, <2>4, WindowFinishedInv DEF RemoveScreen, Blank
  <2>5. CASE Exposed(s) \/ (RemoveScreen(s) /\ s \notin Awaited)
    <3>1. UNCHANGED <<fade, pending, pendingFrames, swaps, answers>>
      BY <2>5 DEF RemoveScreen, Exposed
    <3>2. Awaited' = Awaited
      BY <3>1 DEF Awaited
    <3>3. ASSUME fade = "drawn", NEW t \in NeoScreen PROVE Drawn(t)'
      <4>1. Drawn(t) /\ Counted(t)' = Counted(t)
        BY <3>1, <3>3 DEF FrameInv, Counted
      <4>2. drawing'[t] \in {drawing[t], Blank} /\ onScreen'[t] \in {onScreen[t], Blank}
        BY <2>2
      <4> QED
        BY <3>2, <4>1, <4>2 DEF Drawn, Blank
    <3> QED
      BY <2>2, <2>3, <3>1, <3>2, <3>3 DEF FrameInv
  <2> QED
    BY <1>2, <2>4, <2>5
<1> QED
  BY <1>1, <1>2

LEMMA FadeKeepsFrameInv ==
  ASSUME FrameInv, WindowInv,
         \/ AddScreen \/ PrepareTransition \/ FinishTransition \/ FrameTimeout \/ ShowsLoginFailure
         \/ HandleDisconnect
  PROVE  FrameInv'
<1>1. CASE AddScreen
  BY <1>1 DEF AddScreen, drawVars, FrameInv, Drawn, Counted, Awaited
<1>2. CASE PrepareTransition \/ ShowsLoginFailure
  <2>1. /\ fade' \in {"runs", "none"} /\ pending' \in BOOLEAN
        /\ pendingFrames' = [t \in {} |-> 0] /\ swaps' = [t \in NeoScreen |-> 0]
        /\ answers' \in {answers, <<>>} /\ UNCHANGED <<drawing, onScreen, exposed>>
    BY <1>2 DEF PrepareTransition, ShowsLoginFailure, Cancel, windowVars, drawVars
  <2>2. Awaited' = {} /\ pendingFrames' \in [Awaited' -> Nat] /\ swaps' \in [NeoScreen -> Nat]
    BY <2>1 DEF Awaited
  <2>3. answers' \in Seq(BOOLEAN)
    <3>1. answers \in Seq(BOOLEAN) /\ <<>> \in Seq(BOOLEAN)
      BY Appended DEF FrameInv
    <3> QED
      BY <2>1, <3>1
  <2> QED
    BY <2>1, <2>2, <2>3 DEF FrameInv
<1>3. CASE FinishTransition
  <2>1. UNCHANGED <<drawing, onScreen, exposed>> /\ fade = "runs"
    BY <1>3 DEF FinishTransition, windowVars, drawVars
  <2>2. CASE ~pending
    BY <1>3, <2>1, <2>2 DEF FinishTransition, FrameInv, Awaited
  <2>3. CASE pending /\ exposed = {}
    BY <1>3, <2>1, <2>3, CompleteInv DEF FinishTransition, FrameInv
  <2>4. CASE pending /\ exposed # {}
    <3>1. /\ fade' = "drawn" /\ UNCHANGED <<pending, answers>>
          /\ pendingFrames' = [t \in exposed |-> 0] /\ swaps' = [t \in NeoScreen |-> 0]
      BY <1>3, <2>4 DEF FinishTransition
    <3>2. Awaited' = exposed /\ pendingFrames' \in [Awaited' -> Nat] /\ swaps' \in [NeoScreen -> Nat]
      BY <3>1 DEF Awaited
    <3>3. exposed \subseteq NeoScreen
      BY DEF WindowInv
    <3>4. ASSUME NEW t \in NeoScreen PROVE Drawn(t)'
      <4>1. CASE t \in exposed
        <5>1. Counted(t)' = 0
          BY <3>1, <4>1 DEF Counted
        <5> QED
          BY <3>2, <4>1, <5>1 DEF Drawn
      <4>2. CASE t \notin exposed
        BY <2>1, <4>2 DEF Drawn, FrameInv, Blank
      <4> QED
        BY <4>1, <4>2
    <3> QED
      BY <2>1, <3>1, <3>2, <3>3, <3>4 DEF FrameInv
  <2> QED
    BY <2>2, <2>3, <2>4 DEF FrameInv
<1>4. CASE FrameTimeout
  BY <1>4, CompleteInv DEF FrameTimeout, FrameInv, drawVars, windowVars
<1>5. CASE HandleDisconnect
  BY <1>5 DEF HandleDisconnect, windowVars, drawVars, FrameInv, Drawn, Counted, Awaited
<1> QED
  BY <1>1, <1>2, <1>3, <1>4, <1>5

LEMMA NeoInvHolds == Spec => []NeoInv
<1>1. Init => NeoInv
  <2>1. ASSUME NeoScreensInit PROVE WindowInv
    BY <2>1, NeoScreensAssumption DEF NeoScreensInit, WindowInv
  <2>2. ASSUME NeoScreensInit PROVE FrameInv
    <3>1. answers \in Seq(BOOLEAN)
      BY <2>2, Appended DEF NeoScreensInit
    <3> QED
      BY <2>2, <3>1 DEF NeoScreensInit, FrameInv, Awaited
  <2> QED
    BY <2>1, <2>2 DEF Init, NeoInv
<1>2. ASSUME NeoInv, NeoScreensNext PROVE NeoInv'
  <2>1. FrameInv'
    BY <1>2, RendererKeepsInv, FrameSwappedInv, ScreensKeepFrameInv, FadeKeepsFrameInv
       DEF NeoInv, NeoScreensNext
  <2> QED
    BY <1>2, <2>1, WindowInvKept DEF NeoInv
<1>3. ASSUME NeoInv, UNCHANGED neoScreensVars PROVE NeoInv'
  BY <1>3 DEF neoScreensVars, NeoInv, WindowInv, FrameInv, Drawn, Counted, Awaited
<1>4. NeoInv /\ [Next]_servicesVars => NeoInv'
  BY <1>2, <1>3, PartsApart
<1> QED
  BY <1>1, <1>4, PTL DEF Spec

(* An answer in time is given when no window is awaited any more.            *)
LEMMA CompleteIsDrawn ==
  ASSUME FrameInv, NEW ready \in BOOLEAN, Complete(ready),
         answers' # answers, Last(answers')
  PROVE  ready
<1>1. answers' = Append(answers, ready) /\ answers \in Seq(BOOLEAN)
  BY DEF Complete, FrameInv
<1>2. Last(answers') = ready
  BY <1>1, Appended
<1> QED
  BY <1>2

LEMMA AnswerIsDrawn ==
  ASSUME NeoInv, NeoScreensNext, answers' # answers, answers' # <<>>, Last(answers')
  PROVE  \A t \in exposed' : onScreen'[t] # "before"
<1> USE DEF NeoInv
<1>0. exposed \subseteq NeoScreen
  BY DEF WindowInv
<1>1. ASSUME NEW s \in NeoScreen, FrameSwapped(s) PROVE \A t \in exposed' : onScreen'[t] # "before"
  <2>1. /\ RequiredFrameSwaps(pendingFrames[s] + 1) /\ WindowFinished(s)
        /\ s \in Awaited /\ swaps[s] > 0 /\ UNCHANGED <<exposed, onScreen>>
    BY <1>1 DEF FrameSwapped, windowVars, drawVars
  <2>2. Awaited = {s} /\ fade = "drawn"
    BY <2>1 DEF WindowFinished, FrameInv
  <2>3. onScreen[s] # "before"
    BY <2>1, SecondFrame
  <2>4. ASSUME NEW t \in exposed, t # s PROVE onScreen[t] # "before"
    BY <1>0, <2>2, <2>4 DEF FrameInv, Drawn
  <2> QED
    BY <2>1, <2>3, <2>4
<1>2. ASSUME NEW s \in NeoScreen, RemoveScreen(s) PROVE \A t \in exposed' : onScreen'[t] # "before"
  <2>1. s \in Awaited /\ WindowFinished(s) /\ exposed' = exposed \ {s}
        /\ onScreen' = [onScreen EXCEPT ![s] = Blank]
    BY <1>2 DEF RemoveScreen
  <2>2. Awaited = {s} /\ fade = "drawn"
    BY <2>1 DEF WindowFinished, FrameInv
  <2>3. ASSUME NEW t \in exposed, t # s PROVE onScreen[t] # "before" /\ onScreen'[t] = onScreen[t]
    BY <1>0, <2>1, <2>2, <2>3 DEF FrameInv, Drawn
  <2> QED
    BY <2>1, <2>3
<1>3. CASE FinishTransition
  <2>1. exposed = {} /\ exposed' = exposed
    <3>1. exposed' = exposed
      BY <1>3 DEF FinishTransition, windowVars
    <3>2. exposed = {}
      BY <1>3 DEF FinishTransition
    <3> QED
      BY <3>1, <3>2
  <2> QED
    BY <2>1
<1>4. CASE FrameTimeout
  <2>1. Complete(FALSE)
    BY <1>4 DEF FrameTimeout
  <2> QED
    BY <2>1, CompleteIsDrawn
<1>5. CASE PrepareTransition \/ ShowsLoginFailure \/ HandleDisconnect \/ AddScreen
  BY <1>5 DEF PrepareTransition, ShowsLoginFailure, HandleDisconnect, AddScreen
<1>6. ASSUME NEW s \in NeoScreen,
             PlugIn(s) \/ Enter(s) \/ Exposed(s) \/ FrameBegins(s) \/ FrameEnds(s)
      PROVE  FALSE
  BY <1>6 DEF PlugIn, Enter, Exposed, FrameBegins, FrameEnds
<1> QED
  BY <1>1, <1>2, <1>3, <1>4, <1>5, <1>6 DEF NeoScreensNext

(* Whatever is plugged in or out, every screen has its window and one has    *)
(* the scene; and when the daemon is told in time that the fade is over, no  *)
(* screen still shows a frame from before its end.                           *)
THEOREM ScreensHold == Spec => NeoScreensHold
<1>1. NeoInv => SceneHasWindow
  BY WindowsAreHeld DEF NeoInv
<1>2. NeoInv /\ [Next]_servicesVars =>
        [answers' # answers /\ answers' # <<>> /\ Last(answers') =>
           \A s \in exposed' : onScreen'[s] # "before"]_neoScreensVars
  BY AnswerIsDrawn, PartsApart
<1> QED
  BY <1>1, <1>2, NeoInvHolds, PTL DEF Spec, NeoScreensHold, ReadyIsDrawn

-----------------------------------------------------------------------------
(* Power.                                                                    *)

(* Whoever was able all the time has not been passed over; one who has acted *)
(* is the last to be asked.                                                  *)
PowerInv ==
  /\ Len(m_backends) \in Nat /\ m_backends \in Seq(Backend)
  /\ powerRequests \in Seq(PowerAction)
  /\ \/ asking \in {Idle, LoopLeft}
     \/ /\ asking.phase \in {"asked", "willing"} /\ asking.index \in 1..Len(m_backends)
        /\ asking = [index |-> asking.index, phase |-> asking.phase]
        /\ ~testing /\ performedBy = <<>>
        /\ \A i \in 1 .. asking.index - 1 : m_backends[i] \notin ableThroughout
  /\ asking # Idle =>
       powerRequests # <<>> /\ \A b \in ableThroughout : Head(powerRequests) \in can[b]
  /\ asking = Idle => ableThroughout = {} /\ performedBy = <<>>
  /\ asking = LoopLeft =>
       /\ testing => ableThroughout = {}
       /\ \/ /\ performedBy = <<>>
             /\ \A i \in 1..Len(m_backends) : m_backends[i] \notin ableThroughout
          \/ /\ ~testing
             /\ \E i \in 1..Len(m_backends) :
                  /\ performedBy = <<i>>
                  /\ \A j \in 1 .. i - 1 : m_backends[j] \notin ableThroughout
  /\ DOMAIN can = Backend

LEMMA PowerIsOnce ==
  ASSUME PowerInv
  PROVE  PowerActsOnce
<1>1. CASE performedBy = <<>>
  BY <1>1 DEF PowerInv, PowerActsOnce
<1>2. CASE performedBy # <<>>
  <2>1. PICK i \in 1..Len(m_backends) :
          /\ performedBy = <<i>>
          /\ \A j \in 1 .. i - 1 : m_backends[j] \notin ableThroughout
    BY <1>2 DEF PowerInv
  <2>2. ~testing /\ Len(performedBy) = 1 /\ performedBy[1] = i
    BY <1>2, <2>1 DEF PowerInv
  <2>3. \A j \in 1..Len(m_backends) : m_backends[j] \in ableThroughout => i <= j
    BY <2>1 DEF PowerInv
  <2> QED
    BY <1>2, <2>2, <2>3 DEF PowerActsOnce
<1> QED
  BY <1>1, <1>2

LEMMA BackendChangesInv ==
  ASSUME PowerInv, NEW b \in ToSet(m_backends), BackendChanges(b)
  PROVE  PowerInv'
<1>1. PICK s \in CanOf(b) :
        /\ can' = [can EXCEPT ![b] = s]
        /\ ableThroughout' = IF asking # Idle /\ Head(powerRequests) \notin s
                             THEN ableThroughout \ {b} ELSE ableThroughout
  BY DEF BackendChanges
<1>2. UNCHANGED <<m_backends, testing, powerRequests, asking, performedBy>>
  BY DEF BackendChanges
<1>3. ableThroughout' \subseteq ableThroughout
  BY <1>1
<1>4. asking # Idle => \A c \in ableThroughout' : Head(powerRequests) \in can'[c]
  BY <1>1 DEF PowerInv
<1>5. DOMAIN can' = Backend
  BY <1>1 DEF PowerInv
<1> QED
  BY <1>2, <1>3, <1>4, <1>5 DEF PowerInv

LEMMA RequestedInv ==
  ASSUME PowerInv, NEW a \in PowerAction, Request(a)
  PROVE  PowerInv'
<1>1. /\ powerRequests' = Append(powerRequests, a)
      /\ UNCHANGED <<m_backends, testing, asking, performedBy, ableThroughout, can>>
  BY DEF Request, greeterSideVars, daemonSideVars
<1>2. powerRequests' \in Seq(PowerAction) /\ powerRequests' # <<>>
  BY <1>1 DEF PowerInv
<1>3. powerRequests # <<>> => Head(powerRequests') = Head(powerRequests)
  BY <1>1 DEF PowerInv
<1> QED
  BY <1>1, <1>2, <1>3 DEF PowerInv

LEMMA AskingInv ==
  ASSUME PowerInv, PowerTaken \/ BackendAnswers \/ BackendActs \/ PowerDone
  PROVE  PowerInv'
<1> DEFINE n == Len(m_backends)
<1>1. CASE PowerTaken
  <2>1. /\ powerRequests # <<>> /\ asking = Idle /\ performedBy = <<>>
        /\ UNCHANGED <<m_backends, can, testing, powerRequests, performedBy>>
    BY <1>1 DEF PowerTaken, greeterSideVars, PowerInv
  <2>2. CASE testing \/ m_backends = <<>>
    <3>1. asking' = LoopLeft /\ (testing => ableThroughout' = {})
      BY <1>1, <2>2 DEF PowerTaken
    <3>2. \A b \in ableThroughout' : Head(powerRequests) \in can[b]
      BY <1>1 DEF PowerTaken
    <3>3. \A i \in 1..n : m_backends[i] \notin ableThroughout'
      BY <2>2, <3>1
    <3> QED
      BY <2>1, <3>1, <3>2, <3>3 DEF PowerInv, LoopLeft, Idle
  <2>3. CASE ~testing /\ m_backends # <<>>
    <3>1. /\ asking' = [index |-> 1, phase |-> "asked"]
          /\ ableThroughout' = {b \in ToSet(m_backends) : Head(powerRequests) \in can[b]}
      BY <1>1, <2>3 DEF PowerTaken, Asked
    <3>2. 1 \in 1..n
      BY <2>3 DEF PowerInv
    <3> QED
      BY <2>1, <2>3, <3>1, <3>2 DEF PowerInv, LoopLeft, Idle
  <2> QED
    BY <2>2, <2>3
<1>2. CASE BackendAnswers
  <2> DEFINE i == asking.index
  <2>1. /\ asking.phase = "asked" /\ i \in 1..n /\ ~testing /\ performedBy = <<>>
        /\ \A j \in 1 .. i - 1 : m_backends[j] \notin ableThroughout
        /\ powerRequests # <<>> /\ \A b \in ableThroughout : Head(powerRequests) \in can[b]
        /\ asking = [index |-> i, phase |-> "asked"] /\ n \in Nat
    BY <1>2 DEF BackendAnswers, PowerInv, Idle, LoopLeft
  <2>2. UNCHANGED <<m_backends, can, testing, powerRequests, performedBy, ableThroughout>>
    BY <1>2 DEF BackendAnswers, greeterSideVars
  <2>3. CASE Head(powerRequests) \in can[m_backends[i]]
    <3>1. asking' = [index |-> i, phase |-> "willing"]
      BY <1>2, <2>1, <2>3 DEF BackendAnswers
    <3> QED
      BY <2>1, <2>2, <3>1 DEF PowerInv, Idle, LoopLeft
  <2>4. CASE Head(powerRequests) \notin can[m_backends[i]]
    <3>1. \A j \in 1..i : m_backends[j] \notin ableThroughout
      BY <2>1, <2>4
    <3>2. CASE i < n
      <4>1. asking' = [index |-> i + 1, phase |-> "asked"]
        BY <1>2, <2>4, <3>2 DEF BackendAnswers, NextBackend, Asked
      <4>2. i + 1 \in 1..n /\ (i + 1) - 1 = i
        BY <2>1, <3>2
      <4> HIDE DEF i
      <4> QED
        BY <2>1, <2>2, <3>1, <4>1, <4>2 DEF PowerInv, Idle, LoopLeft
    <3>3. CASE i = n
      <4>1. asking' = LoopLeft
        BY <1>2, <2>1, <2>4, <3>3 DEF BackendAnswers, NextBackend
      <4> QED
        BY <2>1, <2>2, <3>1, <3>3, <4>1 DEF PowerInv, Idle, LoopLeft
    <3> QED
      BY <2>1, <3>2, <3>3
  <2> QED
    BY <2>3, <2>4
<1>3. CASE BackendActs
  <2> DEFINE i == asking.index
  <2>1. /\ asking.phase = "willing" /\ i \in 1..n /\ ~testing /\ performedBy = <<>>
        /\ \A j \in 1 .. i - 1 : m_backends[j] \notin ableThroughout
        /\ powerRequests # <<>> /\ \A b \in ableThroughout : Head(powerRequests) \in can[b]
    BY <1>3 DEF BackendActs, PowerInv, Idle, LoopLeft
  <2>2. /\ UNCHANGED <<m_backends, can, testing, powerRequests, ableThroughout>>
        /\ asking' = LoopLeft /\ performedBy' = Append(performedBy, i)
    BY <1>3 DEF BackendActs, greeterSideVars, LoopAfterwards
  <2>3. performedBy' = <<i>>
    BY <2>1, <2>2
  <2> HIDE DEF i
  <2> QED
    BY <2>1, <2>2, <2>3 DEF PowerInv, Idle, LoopLeft
<1>4. CASE PowerDone
  <2>1. /\ asking = LoopLeft /\ asking' = Idle /\ ableThroughout' = {} /\ performedBy' = <<>>
        /\ powerRequests' = Tail(powerRequests) /\ UNCHANGED <<m_backends, can, testing>>
    BY <1>4 DEF PowerDone, greeterSideVars
  <2>2. powerRequests' \in Seq(PowerAction)
    BY <2>1 DEF PowerInv, Idle, LoopLeft
  <2> QED
    BY <2>1, <2>2 DEF PowerInv, Idle, LoopLeft
<1> QED
  BY <1>1, <1>2, <1>3, <1>4

LEMMA PowerInvHolds == Spec => []PowerInv
<1>1. Init => PowerInv
  <2>1. ASSUME PowerInit PROVE PowerInv
    <3>1. PICK found \in SUBSET Backend : m_backends = BackendsOf(found)
      BY <2>1 DEF PowerInit
    <3> DEFINE registered(b) == IF b \in found THEN <<b>> ELSE <<>>
    <3>2. \A b \in Backend : registered(b) \in Seq(Backend)
      <4> TAKE b \in Backend
      <4>1. <<b>> \in Seq(Backend) /\ <<>> \in Seq(Backend)
        OBVIOUS
      <4> QED
        BY <4>1
    <3>3. m_backends = registered("login1") \o registered("ConsoleKit2") \o registered("UPower")
      BY <3>1 DEF BackendsOf
    <3> HIDE DEF registered
    <3>4. m_backends \in Seq(Backend)
      BY <3>2, <3>3 DEF Backend
    <3>5. Len(m_backends) \in Nat
      BY <3>4
    <3> QED
      BY <2>1, <3>4, <3>5 DEF PowerInit, PowerInv, Idle, LoopLeft
  <2> QED
    BY <2>1 DEF Init
<1>2. ASSUME PowerInv, PowerNext PROVE PowerInv'
  <2>1. CASE GreeterReads \/ GreeterEnds \/ \E kind_ \in {"themed", "neo"} : GreeterConnects(kind_)
    BY <1>2, <2>1 DEF GreeterReads, GreeterEnds, GreeterConnects, daemonSideVars, PowerInv
  <2> QED
    BY <1>2, <2>1, BackendChangesInv, RequestedInv, AskingInv DEF PowerNext
<1>3. ASSUME PowerInv, UNCHANGED powerVars PROVE PowerInv'
  BY <1>3 DEF PowerInv, powerVars
<1>4. PowerInv /\ [Next]_servicesVars => PowerInv'
  BY <1>2, <1>3, PartsApart
<1> QED
  BY <1>1, <1>4, PTL DEF Spec
-----------------------------------------------------------------------------
(* The daemon's life.                                                        *)

(* What the removal of the only object of a name leaves.                     *)
LEMMA FirstRemoved ==
  ASSUME NEW M, NEW q \in Seq(M), IsInjective(q), NEW x
  PROVE  /\ RemoveFirst(q, x) \in Seq(M)
         /\ IsInjective(RemoveFirst(q, x))
         /\ ToSet(RemoveFirst(q, x)) = ToSet(q) \ {x}
<1> DEFINE r == RemoveFirst(q, x)
<1>1. DOMAIN q = 1..Len(q) /\ Len(q) \in Nat
  OBVIOUS
<1>2. CASE \A i \in 1..Len(q) : q[i] # x
  <2>1. r = q
    BY <1>2 DEF RemoveFirst
  <2>2. x \notin ToSet(q)
    BY <1>1, <1>2 DEF ToSet
  <2> QED
    BY <2>1, <2>2
<1>3. CASE \E i \in 1..Len(q) : q[i] = x
  <2>1. PICK k \in 1..Len(q) : q[k] = x
    BY <1>3
  <2>2. {i \in 1..Len(q) : q[i] = x} = {k}
    BY <1>1, <2>1 DEF IsInjective
  <2>3. r = RemoveAt(q, SelectInSeq(q, LAMBDA v : v = x))
    BY <1>3 DEF RemoveFirst
  <2>4. SelectInSeq(q, LAMBDA v : v = x) = k
    <3>1. {k} # {} /\ Min({k}) = k
      BY DEF Min
    <3> QED
      BY <2>2, <3>1 DEF SelectInSeq
  <2>5. r = SubSeq(q, 1, k - 1) \o SubSeq(q, k + 1, Len(q))
    BY <2>3, <2>4 DEF RemoveAt
  <2> DEFINE a == SubSeq(q, 1, k - 1)
             b == SubSeq(q, k + 1, Len(q))
  <2>6. /\ a \in Seq(M) /\ Len(a) = k - 1 /\ \A i \in 1..(k - 1) : a[i] = q[i]
    <3>1. \A i \in 1..(k - 1) : q[i] \in M
      BY <1>1, <2>1
    <3>2. (k - 1) - 1 + 1 = k - 1 /\ (1 <= k - 1 <=> k # 1) /\ \A i \in 1..(k - 1) : 1 + i - 1 = i
      BY <1>1, <2>1
    <3> QED
      BY <1>1, <2>1, <3>1, <3>2, SubSeqProperties
  <2>7. /\ b \in Seq(M) /\ Len(b) = Len(q) - k /\ \A i \in 1..(Len(q) - k) : b[i] = q[k + i]
    <3>1. \A i \in (k + 1)..Len(q) : q[i] \in M
      BY <1>1, <2>1
    <3>2. Len(q) - (k + 1) + 1 = Len(q) - k /\ \A i \in 1..(Len(q) - k) : (k + 1) + i - 1 = k + i
      BY <1>1, <2>1
    <3>3. (IF k + 1 <= Len(q) THEN Len(q) - (k + 1) + 1 ELSE 0) = Len(q) - k
      <4>1. \A n \in Nat : \A m \in 1..n : (IF m + 1 <= n THEN n - (m + 1) + 1 ELSE 0) = n - m
        OBVIOUS
      <4> QED
        BY <1>1, <4>1
    <3>4. /\ b \in Seq(M) /\ Len(b) = IF k + 1 <= Len(q) THEN Len(q) - (k + 1) + 1 ELSE 0
          /\ \A i \in 1 .. Len(q) - (k + 1) + 1 : b[i] = q[(k + 1) + i - 1]
      <4>1. k + 1 \in Int /\ Len(q) \in Int
        BY <1>1
      <4> QED
        BY <3>1, <4>1, SubSeqProperties
    <3> QED
      BY <3>2, <3>3, <3>4
  <2>8. r = a \o b
    BY <2>5
  <2> HIDE DEF a, b, r
  <2>9. r \in Seq(M) /\ Len(r) = Len(q) - 1 /\ DOMAIN r = 1..(Len(q) - 1)
    <3>1. r \in Seq(M) /\ Len(r) = Len(a) + Len(b)
      BY <2>6, <2>7, <2>8, ConcatProperties
    <3> QED
      BY <1>1, <2>6, <2>7, <3>1
  <2>10. ASSUME NEW i \in 1..(Len(q) - 1)
         PROVE  (i < k => r[i] = q[i]) /\ (i >= k => r[i] = q[i + 1])
    <3>1. i \in 1..(Len(a) + Len(b))
      BY <1>1, <2>1, <2>6, <2>7
    <3>2. r[i] = IF i <= Len(a) THEN a[i] ELSE b[i - Len(a)]
      BY <2>6, <2>7, <2>8, <3>1, ConcatProperties
    <3>3. i < k => i <= Len(a) /\ i \in 1..(k - 1)
      BY <1>1, <2>1, <2>6
    <3>4. i >= k => ~(i <= Len(a)) /\ i - Len(a) \in 1..(Len(q) - k) /\ k + (i - Len(a)) = i + 1
      BY <1>1, <2>1, <2>6
    <3> QED
      BY <2>6, <2>7, <3>2, <3>3, <3>4
  <2>13. \A i \in 1..(Len(q) - 1) :
            \E j \in 1..Len(q) \ {k} : r[i] = q[j] /\ (i < k => j = i) /\ (i >= k => j = i + 1)
    <3> TAKE i \in 1..(Len(q) - 1)
    <3>1. CASE i < k
      BY <1>1, <2>1, <2>10, <3>1
    <3>2. CASE i >= k
      BY <1>1, <2>1, <2>10, <3>2
    <3> QED
      BY <1>1, <2>1, <3>1, <3>2
  <2>14. IsInjective(r)
    <3>1. ASSUME NEW i \in 1..(Len(q) - 1), NEW j \in 1..(Len(q) - 1), r[i] = r[j] PROVE i = j
      <4>1. PICK m \in 1..Len(q) : r[i] = q[m] /\ (i < k => m = i) /\ (i >= k => m = i + 1)
        BY <2>13
      <4>2. PICK n \in 1..Len(q) : r[j] = q[n] /\ (j < k => n = j) /\ (j >= k => n = j + 1)
        BY <2>13
      <4>3. m = n
        BY <1>1, <3>1, <4>1, <4>2 DEF IsInjective
      <4> QED
        BY <1>1, <2>1, <4>1, <4>2, <4>3
    <3> QED
      BY <2>9, <3>1 DEF IsInjective
  <2>11. ASSUME NEW i \in 1..(Len(q) - 1) PROVE r[i] \in ToSet(q) \ {x}
    <3>1. PICK m \in 1..Len(q) \ {k} : r[i] = q[m]
      BY <2>13
    <3>2. q[m] # x
      BY <1>1, <2>1, <3>1 DEF IsInjective
    <3> QED
      BY <1>1, <3>1, <3>2 DEF ToSet
  <2>12. ASSUME NEW i \in 1..Len(q), q[i] # x PROVE q[i] \in ToSet(r)
    <3>1. CASE i < k
      <4>1. i \in 1..(Len(q) - 1) /\ r[i] = q[i]
        BY <1>1, <2>1, <2>10, <3>1
      <4> QED
        BY <2>9, <4>1 DEF ToSet
    <3>2. CASE i > k
      <4>1. i - 1 \in 1..(Len(q) - 1) /\ r[i - 1] = q[i]
        BY <1>1, <2>1, <2>10, <3>2
      <4> QED
        BY <2>9, <4>1 DEF ToSet
    <3> QED
      BY <2>1, <2>12, <3>1, <3>2
  <2>15. ToSet(r) = ToSet(q) \ {x}
    BY <1>1, <2>9, <2>11, <2>12 DEF ToSet
  <2> QED
    BY <2>9, <2>14, <2>15 DEF r
<1> QED
  BY <1>2, <1>3

(* And what one more name adds.                                              *)
LEMMA OneAppended ==
  ASSUME NEW q \in Seq(Nat), IsInjective(q), NEW n \in Nat, n \notin ToSet(q)
  PROVE  /\ Append(q, n) \in Seq(Nat)
         /\ IsInjective(Append(q, n))
         /\ ToSet(Append(q, n)) = ToSet(q) \cup {n}
<1> DEFINE r == Append(q, n)
<1>1. /\ r \in Seq(Nat) /\ Len(r) = Len(q) + 1 /\ r[Len(q) + 1] = n
      /\ \A i \in 1..Len(q) : r[i] = q[i]
  BY AppendProperties
<1>2. /\ DOMAIN q = 1..Len(q) /\ Len(q) \in Nat
      /\ DOMAIN r = 1..(Len(q) + 1)
      /\ 1..(Len(q) + 1) = 1..Len(q) \cup {Len(q) + 1}
  BY <1>1
<1> HIDE DEF r
<1>3. \A i \in 1..Len(q) : q[i] # n
  BY <1>2 DEF ToSet
<1>4. IsInjective(r)
  <2>1. ASSUME NEW i \in DOMAIN r, NEW j \in DOMAIN r, r[i] = r[j] PROVE i = j
    BY <1>1, <1>2, <1>3, <2>1 DEF IsInjective
  <2> QED
    BY <2>1 DEF IsInjective
<1>5. ToSet(r) = ToSet(q) \cup {n}
  BY <1>1, <1>2 DEF ToSet
<1> QED
  BY <1>1, <1>4, <1>5 DEF r

(* The displays whose session a client of the bus holds.                     *)
OnBus == {d \in DisplayId : displayOf[d] \in {"accepted", "session"} /\ ~reusing[d]}

(* No two displays have one name, and each name was given out; a signal is   *)
(* read while nothing has a name.                                            *)
LifeInv ==
  /\ DOMAIN displayOf = DisplayId /\ DOMAIN sessionName = DisplayId /\ DOMAIN reusing = DisplayId
  /\ lastSessionId \in 0..MaxSessionIds
  /\ \A d \in DisplayId :
       /\ sessionName[d] # Unnamed => sessionName[d] \in Nat /\ sessionName[d] < lastSessionId
       /\ displayOf[d] \in {"none", "greeter"} => sessionName[d] = Unnamed
       /\ displayOf[d] \in {"checking", "accepted", "session"} => sessionName[d] # Unnamed
       /\ life = "quit" => sessionName[d] = Unnamed
  /\ \A d, e \in DisplayId : sessionName[d] = sessionName[e] /\ sessionName[d] # Unnamed => d = e
  /\ heard = {sessionName[d] : d \in OnBus}
  /\ m_sessions \in Seq(Nat) /\ IsInjective(m_sessions) /\ ToSet(m_sessions) = heard
  /\ ~dangling

(* However a display loses its name.                                         *)
LEMMA NameTakenBack ==
  ASSUME LifeInv, NEW d \in DisplayId, NEW state, LifeGoes(d, state),
         state \in {"none", "greeter", "ending"}, removeDisplayManagerSession(d),
         UNCHANGED <<life, lastSessionId, reusing>>
  PROVE  LifeInv'
<1> DEFINE name == sessionName[d]
<1>1. /\ displayOf' = [displayOf EXCEPT ![d] = state]
      /\ sessionName' = [sessionName EXCEPT ![d] = Unnamed]
      /\ DOMAIN displayOf' = DisplayId /\ DOMAIN sessionName' = DisplayId
      /\ sessionName'[d] = Unnamed /\ displayOf'[d] = state
      /\ \A e \in DisplayId \ {d} : sessionName'[e] = sessionName[e] /\ displayOf'[e] = displayOf[e]
  BY DEF LifeGoes, removeDisplayManagerSession, LifeInv
<1>2. OnBus' = OnBus \ {d}
  BY <1>1 DEF OnBus
<1>3. \A e \in OnBus : e # d => sessionName[e] # name /\ sessionName[e] \in Nat
  BY DEF LifeInv, OnBus
<1>4. heard' = {sessionName'[e] : e \in OnBus'}
  <2>1. {sessionName'[e] : e \in OnBus'} = {sessionName[e] : e \in OnBus \ {d}}
    BY <1>1, <1>2 DEF OnBus
  <2>2. CASE name = Unnamed
    <3>1. d \notin OnBus /\ heard' = heard
      BY <2>2 DEF LifeInv, OnBus, removeDisplayManagerSession, busVars
    <3> QED
      BY <2>1, <3>1 DEF LifeInv
  <2>3. CASE name # Unnamed
    <3>1. heard' = {sessionName[e] : e \in OnBus} \ {name}
      BY <2>3 DEF removeDisplayManagerSession, RemoveSession, LifeInv
    <3> QED
      BY <2>1, <3>1, <1>3
  <2> QED
    BY <2>2, <2>3
<1>5. m_sessions' \in Seq(Nat) /\ IsInjective(m_sessions)' /\ ToSet(m_sessions)' = heard' /\ ~dangling'
  <2>1. CASE name = Unnamed
    BY <2>1 DEF LifeInv, removeDisplayManagerSession, busVars
  <2>2. CASE name # Unnamed
    <3>1. /\ m_sessions' = RemoveFirst(m_sessions, name) /\ heard' = heard \ {name}
          /\ dangling' = (dangling \/ life = "quit")
      BY <2>2 DEF removeDisplayManagerSession, RemoveSession
    <3>2. life # "quit" /\ ~dangling
      BY <2>2 DEF LifeInv
    <3>3. m_sessions \in Seq(Nat) /\ IsInjective(m_sessions) /\ ToSet(m_sessions) = heard
      BY DEF LifeInv
    <3> QED
      BY <3>1, <3>2, <3>3, FirstRemoved
  <2> QED
    BY <2>1, <2>2
<1>6. /\ DOMAIN reusing' = DisplayId /\ lastSessionId' \in 0..MaxSessionIds
      /\ life' = life /\ lastSessionId' = lastSessionId
  BY DEF LifeInv
<1>7. ASSUME NEW e \in DisplayId
      PROVE  /\ sessionName'[e] # Unnamed => sessionName'[e] \in Nat /\ sessionName'[e] < lastSessionId'
             /\ displayOf'[e] \in {"none", "greeter"} => sessionName'[e] = Unnamed
             /\ displayOf'[e] \in {"checking", "accepted", "session"} => sessionName'[e] # Unnamed
             /\ life' = "quit" => sessionName'[e] = Unnamed
  <2>1. CASE e = d
    BY <1>1, <2>1
  <2>2. CASE e # d
    BY <1>1, <1>6, <2>2 DEF LifeInv
  <2> QED
    BY <2>1, <2>2
<1>8. \A e, f \in DisplayId : sessionName'[e] = sessionName'[f] /\ sessionName'[e] # Unnamed => e = f
  BY <1>1 DEF LifeInv
<1> QED
  BY <1>1, <1>4, <1>5, <1>6, <1>7, <1>8 DEF LifeInv, Unnamed

(* A display that neither gets nor loses a name.                             *)
LEMMA NameStays ==
  ASSUME LifeInv, NEW d \in DisplayId, NEW state, LifeGoes(d, state), life # "quit",
         UNCHANGED <<life, lastSessionId, sessionName, reusing, m_sessions, heard, dangling>>,
         OnBus' = OnBus,
         state \in {"none", "greeter"} => sessionName[d] = Unnamed,
         state \in {"checking", "accepted", "session"} => sessionName[d] # Unnamed
  PROVE  LifeInv'
<1>1. /\ DOMAIN displayOf' = DisplayId /\ displayOf'[d] = state
      /\ \A e \in DisplayId \ {d} : displayOf'[e] = displayOf[e]
  BY DEF LifeGoes, LifeInv
<1>2. \A e \in DisplayId :
        /\ displayOf'[e] \in {"none", "greeter"} => sessionName[e] = Unnamed
        /\ displayOf'[e] \in {"checking", "accepted", "session"} => sessionName[e] # Unnamed
  BY <1>1 DEF LifeInv
<1> QED
  BY <1>1, <1>2 DEF LifeInv, Unnamed

LEMMA NamedInv ==
  ASSUME LifeInv, NEW d \in DisplayId, AuthStarts(d)
  PROVE  LifeInv'
<1>1. /\ lastSessionId' = lastSessionId + 1 /\ lastSessionId < MaxSessionIds
      /\ displayOf[d] = "greeter" /\ displayOf' = [displayOf EXCEPT ![d] = "checking"]
      /\ sessionName' = [sessionName EXCEPT ![d] = lastSessionId]
      /\ UNCHANGED <<life, m_sessions, heard, dangling>> /\ life = "running"
  BY DEF AuthStarts, newSessionId, LifeGoes, processVars, busVars
<1>2. PICK reuse \in BOOLEAN : reusing' = [reusing EXCEPT ![d] = reuse]
  BY DEF AuthStarts
<1>3. /\ DOMAIN displayOf' = DisplayId /\ DOMAIN sessionName' = DisplayId /\ DOMAIN reusing' = DisplayId
      /\ displayOf'[d] = "checking" /\ sessionName'[d] = lastSessionId
      /\ \A e \in DisplayId \ {d} : /\ displayOf'[e] = displayOf[e] /\ reusing'[e] = reusing[e]
                                     /\ sessionName'[e] = sessionName[e]
  BY <1>1, <1>2 DEF LifeInv
<1>4. OnBus' = OnBus /\ d \notin OnBus
  BY <1>1, <1>3 DEF OnBus
<1>5. heard' = {sessionName'[e] : e \in OnBus'}
  <2>1. \A e \in OnBus : sessionName'[e] = sessionName[e]
    BY <1>3, <1>4 DEF OnBus
  <2> QED
    BY <1>1, <1>4, <2>1 DEF LifeInv
<1>6. /\ lastSessionId \in Nat /\ MaxSessionIds \in Nat /\ lastSessionId' \in 0..MaxSessionIds
      /\ lastSessionId # Unnamed
  BY <1>1, DaemonLifeAssumption DEF LifeInv, Unnamed
<1>7. ASSUME NEW e \in DisplayId
      PROVE  /\ sessionName'[e] # Unnamed => sessionName'[e] \in Nat /\ sessionName'[e] < lastSessionId'
             /\ displayOf'[e] \in {"none", "greeter"} => sessionName'[e] = Unnamed
             /\ displayOf'[e] \in {"checking", "accepted", "session"} => sessionName'[e] # Unnamed
             /\ life' # "quit"
  <2>1. CASE e = d
    BY <1>1, <1>3, <1>6, <2>1
  <2>2. CASE e # d
    BY <1>1, <1>3, <1>6, <2>2 DEF LifeInv
  <2> QED
    BY <2>1, <2>2
<1>8. ASSUME NEW e \in DisplayId, NEW f \in DisplayId,
             sessionName'[e] = sessionName'[f], sessionName'[e] # Unnamed
      PROVE  e = f
  <2>1. \A g \in DisplayId \ {d} : sessionName[g] # lastSessionId
    BY <1>6 DEF LifeInv
  <2> QED
    BY <1>3, <1>8, <2>1 DEF LifeInv
<1>9. m_sessions' \in Seq(Nat) /\ IsInjective(m_sessions)' /\ ToSet(m_sessions)' = heard' /\ ~dangling'
  BY <1>1 DEF LifeInv
<1> QED
  BY <1>3, <1>5, <1>6, <1>7, <1>8, <1>9 DEF LifeInv, Unnamed

LEMMA VerdictInv ==
  ASSUME LifeInv, NEW d \in DisplayId, NEW yes \in BOOLEAN, Verdict(d, yes)
  PROVE  LifeInv'
<1>1. /\ displayOf[d] = "checking" /\ LifeGoes(d, IF yes THEN "accepted" ELSE "ending")
      /\ UNCHANGED <<life, lastSessionId, sessionName, reusing>> /\ life = "running"
      /\ sessionName[d] # Unnamed
      /\ displayOf' = [displayOf EXCEPT ![d] = IF yes THEN "accepted" ELSE "ending"]
  BY DEF Verdict, processVars, LifeInv, LifeGoes
<1>2. CASE ~(yes /\ ~reusing[d])
  <2>1. UNCHANGED <<m_sessions, heard, dangling>>
    BY <1>2 DEF Verdict, busVars
  <2>2. OnBus' = OnBus
    BY <1>1, <1>2 DEF OnBus, LifeInv
  <2>3. CASE yes
    BY <1>1, <2>1, <2>2, <2>3, NameStays
  <2>4. CASE ~yes
    BY <1>1, <2>1, <2>2, <2>4, NameStays
  <2> QED
    BY <2>3, <2>4
<1>3. CASE yes /\ ~reusing[d]
  <2> DEFINE name == sessionName[d]
  <2>1. /\ m_sessions' = Append(m_sessions, name) /\ heard' = heard \cup {name} /\ dangling' = dangling
        /\ DOMAIN displayOf' = DisplayId /\ displayOf'[d] = "accepted"
        /\ \A e \in DisplayId \ {d} : displayOf'[e] = displayOf[e]
    BY <1>1, <1>3 DEF Verdict, AddSession, LifeInv
  <2>2. OnBus' = OnBus \cup {d} /\ d \notin OnBus
    BY <1>1, <1>3, <2>1 DEF OnBus
  <2>3. heard' = {sessionName'[e] : e \in OnBus'}
    BY <1>1, <2>1, <2>2 DEF LifeInv
  <2>4. name \notin heard /\ name \in Nat
    BY <1>1, <2>2 DEF LifeInv, OnBus
  <2>5. m_sessions' \in Seq(Nat) /\ IsInjective(m_sessions)' /\ ToSet(m_sessions)' = heard'
    <3>1. m_sessions \in Seq(Nat) /\ IsInjective(m_sessions) /\ ToSet(m_sessions) = heard
      BY DEF LifeInv
    <3> HIDE DEF name
    <3>2. \A q \in Seq(Nat), n \in Nat :
            IsInjective(q) /\ n \notin ToSet(q)
              => /\ Append(q, n) \in Seq(Nat) /\ IsInjective(Append(q, n))
                 /\ ToSet(Append(q, n)) = ToSet(q) \cup {n}
      BY OneAppended
    <3> QED
      BY <2>1, <2>4, <3>1, <3>2
  <2>6. \A e \in DisplayId :
          /\ displayOf'[e] \in {"none", "greeter"} => sessionName[e] = Unnamed
          /\ displayOf'[e] \in {"checking", "accepted", "session"} => sessionName[e] # Unnamed
    BY <1>1, <2>1 DEF LifeInv
  <2> QED
    BY <1>1, <2>1, <2>3, <2>5, <2>6 DEF LifeInv, Unnamed
<1> QED
  BY <1>2, <1>3

LEMMA LifeInvKept ==
  ASSUME ~MayQuitInSession, LifeInv, LifeNext
  PROVE  LifeInv'
<1>1. CASE DaemonBegins \/ SignalArrives \/ HandleSignal \/ DaemonEnds
  <2>1. /\ life' = "quit" => \A d \in DisplayId : sessionName[d] = Unnamed
        /\ UNCHANGED <<lastSessionId, displayOf, sessionName, reusing, m_sessions, heard, dangling>>
    BY <1>1 DEF DaemonBegins, SignalArrives, HandleSignal, DaemonEnds, displayVars, busVars, LifeInv
  <2> QED
    BY <2>1 DEF LifeInv, OnBus, Unnamed
<1>2. ASSUME NEW d \in DisplayId, DisplayStarts(d) PROVE LifeInv'
  <2>1. /\ lastSessionId' = lastSessionId + 1 /\ lastSessionId < MaxSessionIds
        /\ displayOf[d] = "none" /\ displayOf' = [displayOf EXCEPT ![d] = "greeter"]
        /\ UNCHANGED <<life, sessionName, reusing, m_sessions, heard, dangling>>
    BY <1>2 DEF DisplayStarts, newSessionId, LifeGoes, processVars, busVars
  <2>2. DOMAIN displayOf' = DisplayId /\ lastSessionId' \in 0..MaxSessionIds
    BY <2>1, DaemonLifeAssumption DEF LifeInv
  <2>3. OnBus' = OnBus
    BY <2>1 DEF OnBus, LifeInv
  <2>4. \A e \in DisplayId :
          /\ sessionName[e] # Unnamed => sessionName[e] \in Nat /\ sessionName[e] < lastSessionId'
          /\ displayOf'[e] \in {"none", "greeter"} => sessionName[e] = Unnamed
          /\ displayOf'[e] \in {"checking", "accepted", "session"} => sessionName[e] # Unnamed
    BY <2>1, DaemonLifeAssumption DEF LifeInv
  <2> QED
    BY <2>1, <2>2, <2>3, <2>4 DEF LifeInv, Unnamed
<1>3. ASSUME NEW d \in DisplayId, NEW yes \in BOOLEAN, SessionStarts(d, yes) PROVE LifeInv'
  <2>1. CASE yes
    <3>1. /\ displayOf[d] = "accepted" /\ LifeGoes(d, "session") /\ life = "running"
          /\ displayOf' = [displayOf EXCEPT ![d] = "session"]
          /\ UNCHANGED <<life, lastSessionId, sessionName, reusing, m_sessions, heard, dangling>>
      BY <1>3, <2>1 DEF SessionStarts, LifeGoes, processVars, busVars
    <3>2. OnBus' = OnBus /\ sessionName[d] # Unnamed
      BY <3>1 DEF OnBus, LifeInv
    <3> QED
      BY <3>1, <3>2, NameStays
  <2>2. CASE ~yes
    BY <1>3, <2>2, NameTakenBack DEF SessionStarts, processVars
  <2> QED
    BY <2>1, <2>2
<1>4. ASSUME NEW d \in DisplayId, HelperFinishes(d) PROVE LifeInv'
  <2>1. PICK left \in {"none", "greeter"} : LifeGoes(d, left)
    BY <1>4 DEF HelperFinishes
  <2> QED
    BY <1>4, <2>1, NameTakenBack DEF HelperFinishes, processVars
<1>5. ASSUME NEW d \in DisplayId, DisplayStops(d) PROVE LifeInv'
  BY <1>5, NameTakenBack DEF DisplayStops, processVars
<1> QED
  BY <1>1, <1>2, <1>3, <1>4, <1>5, NamedInv, VerdictInv DEF LifeNext

LEMMA LifeInvHolds ==
  ASSUME ~MayQuitInSession
  PROVE  Spec => []LifeInv
<1>1. Init => LifeInv
  <2>1. ASSUME LifeInit PROVE LifeInv
    <3>1. /\ life # "quit" /\ lastSessionId = 0 /\ m_sessions = <<>> /\ heard = {} /\ ~dangling
          /\ displayOf = [d \in DisplayId |-> "none"]
          /\ sessionName = [d \in DisplayId |-> Unnamed]
          /\ reusing = [d \in DisplayId |-> FALSE]
      BY <2>1 DEF LifeInit
    <3>2. OnBus = {}
      BY <3>1 DEF OnBus
    <3>3. m_sessions \in Seq(Nat) /\ IsInjective(m_sessions) /\ ToSet(m_sessions) = {}
      BY <3>1 DEF IsInjective, ToSet
    <3>4. lastSessionId \in 0..MaxSessionIds
      BY <3>1, DaemonLifeAssumption
    <3> QED
      BY <3>1, <3>2, <3>3, <3>4 DEF LifeInv
  <2> QED
    BY <2>1 DEF Init
<1>2. ASSUME LifeInv, UNCHANGED lifeVars PROVE LifeInv'
  BY <1>2 DEF LifeInv, lifeVars, OnBus, Unnamed
<1>3. LifeInv /\ [Next]_servicesVars => LifeInv'
  BY <1>2, LifeInvKept, PartsApart
<1> QED
  BY <1>1, <1>3, PTL DEF Spec

(* As long as the daemon is not told to end while a session runs, a client   *)
(* of the bus holds just the sessions there are, through whatever of their   *)
(* ends; and what a greeter asks for of the power is done once, by the first *)
(* backend that is able to all along (DisplayManager.cpp, PowerManager.cpp). *)
THEOREM DaemonTellsTruth ==
  ASSUME ~MayQuitInSession
  PROVE  Spec => []DaemonIsTrue
<1>1. LifeInv => SessionsAreShown
  BY DEF LifeInv, SessionsAreShown, OnBus
<1> QED
  BY <1>1, LifeInvHolds, PowerInvHolds, PowerIsOnce, PTL DEF DaemonIsTrue

-----------------------------------------------------------------------------
(* The two lock programs.                                                    *)

(* A handoff that is asked for is the last thing the old program hears of;   *)
(* one that waits for the screen to be unlocked is due; a program that does  *)
(* not listen yet is the configured one.                                     *)
StyleInv ==
  /\ locker \in Style \cup {"none"}
  /\ listening \in BOOLEAN /\ asked \in BOOLEAN
  /\ visible_ \in BOOLEAN /\ handoff_pending_ \in BOOLEAN
  /\ ~listening => /\ queue = <<>> /\ ~visible_ /\ ~handoff_pending_
                   /\ locker \in {"none", ConfiguredStyle}
  /\ listening => locker # "none"
  /\ queue \in {<<>>, <<"style">>, <<"show">>, <<"handoff">>}
  /\ handoff_pending_ => visible_
  /\ listening /\ queue \in {<<>>, <<"show">>} =>
       /\ handoff_pending_ => ConfiguredStyle # locker
       /\ ConfiguredStyle # locker => visible_ /\ handoff_pending_
  /\ queue = <<"style">> /\ handoff_pending_ => ConfiguredStyle = locker
  /\ queue = <<"handoff">> => ConfiguredStyle # locker /\ ~visible_

LEMMA StyleIsOneOfTwo ==
  /\ ConfiguredStyle \in Style
  /\ \A s, t, u \in Style : s # t /\ t # u => s = u
  BY DEF ConfiguredStyle, Resolve, Style

(* Queues of one event.                                                      *)
LEMMA OneEvent ==
  /\ \A e \in {"style", "show", "handoff"} :
       /\ <<e>> # <<>> /\ Head(<<e>>) = e /\ Tail(<<e>>) = <<>> /\ <<e>>[1] = e
       /\ 1 \in DOMAIN <<e>> /\ Append(<<>>, e) = <<e>>
  /\ \A e, f \in {"style", "show", "handoff"} : <<e>> = <<f>> => e = f
  OBVIOUS

(* A new style, or none.                                                     *)
LEMMA StyleSetInv ==
  ASSUME Disturbances = {}, StyleInv, SetLockScreenStyle
  PROVE  StyleInv'
<1>1. /\ locker = "none" \/ (listening /\ queue = <<>>)
      /\ UNCHANGED <<locker, listening, asked, visible_, handoff_pending_>>
  BY DEF SetLockScreenStyle, Undisturbed, HandoffUnderWay
<1>2. /\ ConfiguredStyle' # ConfiguredStyle => queue' = Posted(queue, "style")
      /\ ConfiguredStyle' = ConfiguredStyle => queue' = queue
  BY DEF SetLockScreenStyle, ConfiguredStyle
<1>3. ConfiguredStyle' \in Style
  BY DEF ConfiguredStyle, Resolve, Style
<1>4. CASE locker = "none"
  <2>1. queue' = queue /\ ~listening
    BY <1>2, <1>4 DEF Posted, StyleInv
  <2> QED
    BY <1>1, <1>4, <2>1 DEF StyleInv
<1>5. CASE locker # "none"
  <2>1. listening /\ queue = <<>> /\ locker \in Style
    BY <1>1, <1>5 DEF StyleInv
  <2>2. CASE ConfiguredStyle' = ConfiguredStyle
    BY <1>1, <1>2, <2>1, <2>2, OneEvent DEF StyleInv
  <2>3. CASE ConfiguredStyle' # ConfiguredStyle
    <3>1. queue' = <<"style">>
      BY <1>2, <2>1, <2>3, OneEvent DEF Posted
    <3>2. handoff_pending_ => ConfiguredStyle' = locker
      BY <1>3, <2>1, <2>3, StyleIsOneOfTwo DEF StyleInv
    <3> QED
      BY <1>1, <2>1, <3>1, <3>2, OneEvent DEF StyleInv
  <2> QED
    BY <2>2, <2>3
<1> QED
  BY <1>4, <1>5

(* A program that was executed begins anew.                                  *)
LEMMA ExecutedInv ==
  ASSUME NEW style \in Style, NEW show \in BOOLEAN, StyleInv, ExecLockScreen(style, show),
         style = "modern" => ConfiguredStyle = "modern",
         UNCHANGED <<gxdmStyle, omgStyle>>
  PROVE  StyleInv' /\ locker' \in Style
<1>1. ConfiguredStyle' = ConfiguredStyle /\ locker' = ConfiguredStyle
  BY DEF ExecLockScreen, ConfiguredStyle, Style
<1> QED
  BY <1>1, StyleIsOneOfTwo DEF ExecLockScreen, StyleInv

(* "show" is posted only to a program that is not about to be replaced.      *)
LEMMA ShowPostedInv ==
  ASSUME Disturbances = {}, StyleInv, locker # "none", Undisturbed("show"),
         queue' = Posted(queue, "show"),
         UNCHANGED <<gxdmStyle, omgStyle, locker, listening, asked, visible_, handoff_pending_>>
  PROVE  StyleInv'
<1>1. listening /\ queue = <<>>
  BY DEF Undisturbed, HandoffUnderWay
<1>2. queue' = <<"show">>
  BY <1>1, OneEvent DEF Posted
<1>3. ConfiguredStyle' = ConfiguredStyle
  BY DEF ConfiguredStyle
<1> QED
  BY <1>1, <1>2, <1>3, OneEvent DEF StyleInv

LEMMA StyleInvKept ==
  ASSUME Disturbances = {}, StyleInv, StyleNext
  PROVE  StyleInv' /\ (visible_ => locker' \in {locker, "none"})
<1>1. CASE SetLockScreenStyle
  BY <1>1, StyleSetInv DEF SetLockScreenStyle
<1> DEFINE Same == UNCHANGED <<gxdmStyle, omgStyle>>
<1>2. Same => ConfiguredStyle' = ConfiguredStyle
  BY DEF ConfiguredStyle
<1>3. CASE OmgWritten
  <2>1. /\ locker = "none" /\ UNCHANGED lockerVars
        /\ ~listening /\ queue = <<>> /\ ~visible_ /\ ~handoff_pending_
    BY <1>3 DEF OmgWritten, StyleInv
  <2> QED
    BY <2>1, OneEvent DEF lockerVars, StyleInv
<1>4. CASE StartLocker
  <2>1. PICK show \in BOOLEAN :
          \/ locker = "none" /\ ExecLockScreen("classic", show)
          \/ /\ locker = ConfiguredStyle /\ Undisturbed("show")
             /\ queue' = Posted(queue, "show")
             /\ UNCHANGED <<locker, listening, asked, visible_, handoff_pending_>>
    BY <1>4 DEF StartLocker
  <2>2. Same
    BY <1>4 DEF StartLocker
  <2>3. CASE locker = "none" /\ ExecLockScreen("classic", show)
    <3>1. ~visible_
      BY <2>3 DEF StyleInv
    <3> QED
      BY <2>2, <2>3, <3>1, ExecutedInv DEF Style
  <2>4. CASE ~(locker = "none" /\ ExecLockScreen("classic", show))
    <3>1. locker # "none"
      BY <2>1, <2>4, StyleIsOneOfTwo DEF Style
    <3> QED
      BY <2>1, <2>2, <2>4, <3>1, ShowPostedInv
  <2> QED
    BY <2>3, <2>4
<1>5. CASE Listen
  <2>1. /\ locker # "none" /\ ~listening /\ listening' = TRUE /\ Same
        /\ UNCHANGED <<locker, asked, handoff_pending_, queue>> /\ visible_' = asked
    BY <1>5 DEF Listen
  <2> QED
    BY <1>2, <2>1, OneEvent DEF StyleInv
<1>6. CASE RequestShow
  <2>1. /\ locker # "none" /\ Undisturbed("show") /\ queue' = Posted(queue, "show")
        /\ UNCHANGED <<gxdmStyle, omgStyle, locker, listening, asked, visible_, handoff_pending_>>
    BY <1>6 DEF RequestShow
  <2> QED
    BY <2>1, ShowPostedInv
<1>7. CASE LockScreenStyleChanged
  <2>1. /\ queue = <<"style">> /\ Refresh(visible_, <<>>) /\ Same
        /\ UNCHANGED <<locker, listening, asked, visible_>> /\ listening
    BY <1>7, OneEvent DEF LockScreenStyleChanged, StyleInv
  <2>2. CASE ConfiguredStyle = locker \/ visible_
    <3>1. /\ queue' = <<>>
          /\ handoff_pending_' \in BOOLEAN
          /\ handoff_pending_' <=> (ConfiguredStyle # locker /\ visible_)
      BY <2>1, <2>2 DEF Refresh
    <3> QED
      BY <1>2, <2>1, <2>2, <3>1, OneEvent DEF StyleInv
  <2>3. CASE ~(ConfiguredStyle = locker \/ visible_)
    <3>1. queue' = <<"handoff">> /\ handoff_pending_' = FALSE
      BY <2>1, <2>3, OneEvent DEF Refresh
    <3> QED
      BY <1>2, <2>1, <2>3, <3>1, OneEvent DEF StyleInv
  <2> QED
    BY <2>2, <2>3
<1>8. CASE Show
  <2>1. /\ queue = <<"show">> /\ queue' = <<>> /\ visible_' = TRUE /\ Same
        /\ UNCHANGED <<locker, listening, asked, handoff_pending_>> /\ listening
    BY <1>8, OneEvent DEF Show, StyleInv
  <2> QED
    BY <1>2, <2>1, OneEvent DEF StyleInv
<1>9. CASE Unlocked
  <2>1. /\ visible_ /\ ~visible_' /\ visible_' \in BOOLEAN /\ Same /\ listening
        /\ UNCHANGED <<locker, listening, asked>>
        /\ queue \in {<<>>, <<"style">>}
    BY <1>9, OneEvent DEF Unlocked, StyleInv
  <2>2. CASE ~handoff_pending_
    <3>1. UNCHANGED <<handoff_pending_, queue>>
      BY <1>9, <2>2 DEF Unlocked
    <3> QED
      BY <1>2, <2>1, <2>2, <3>1, OneEvent DEF StyleInv
  <2>3. CASE handoff_pending_
    <3>1. Refresh(FALSE, queue)
      BY <1>9, <2>3 DEF Unlocked
    <3>2. handoff_pending_' = FALSE
      BY <3>1 DEF Refresh
    <3>3. CASE queue = <<>>
      <4>1. queue' = <<"handoff">> /\ ConfiguredStyle # locker
        BY <2>1, <2>3, <3>1, <3>3, OneEvent DEF Refresh, StyleInv
      <4> QED
        BY <1>2, <2>1, <3>2, <4>1, OneEvent DEF StyleInv
    <3>4. CASE queue = <<"style">>
      <4>1. queue' = queue
        BY <2>3, <3>1, <3>4 DEF Refresh, StyleInv
      <4> QED
        BY <1>2, <2>1, <3>2, <3>4, <4>1, OneEvent DEF StyleInv
    <3> QED
      BY <2>1, <3>3, <3>4
  <2> QED
    BY <2>2, <2>3
<1>10. CASE HandoffRequested
  <2>1. /\ queue = <<"handoff">> /\ Same
        /\ ExecLockScreen(IF locker = "classic" THEN "modern" ELSE "classic", FALSE)
    BY <1>10, OneEvent DEF HandoffRequested, StyleInv
  <2>2. locker \in Style /\ ConfiguredStyle # locker /\ ~visible_
    BY <2>1, OneEvent DEF StyleInv
  <2>3. CASE locker = "classic"
    <3>1. ConfiguredStyle = "modern"
      BY <2>2, <2>3, StyleIsOneOfTwo DEF Style
    <3> QED
      BY <2>1, <2>2, <2>3, <3>1, ExecutedInv DEF Style
  <2>4. CASE locker # "classic"
    BY <2>1, <2>2, <2>4, ExecutedInv DEF Style
  <2> QED
    BY <2>3, <2>4
<1>11. CASE LockerDies
  BY <1>11, OneEvent DEF LockerDies, StyleInv
<1> QED
  BY <1>1, <1>3, <1>4, <1>5, <1>6, <1>7, <1>8, <1>9, <1>10, <1>11 DEF StyleNext

(* The locker that is left alone with an unlocked screen is the configured   *)
(* one, and a locked screen never loses its program to a handoff, as long as *)
(* nothing happens in the middle of a handoff (Disturbances): lock-common's  *)
(* LockScreenStyle and the two main()s.                                      *)
THEOREM LockerIsTheConfigured ==
  ASSUME Disturbances = {}
  PROVE  Spec => StyleFollows
<1>1. Init => StyleInv
  BY OneEvent DEF Init, StyleInit, StyleInv
<1>2. ASSUME StyleInv, UNCHANGED styleVars PROVE StyleInv'
  <2>1. ConfiguredStyle' = ConfiguredStyle
    BY <1>2 DEF ConfiguredStyle, styleVars
  <2> QED
    BY <1>2, <2>1 DEF StyleInv, styleVars, lockerVars
<1>3. StyleInv /\ [Next]_servicesVars => StyleInv'
  BY <1>2, StyleInvKept, PartsApart
<1>4. StyleInv => (locker # "none" /\ listening /\ queue = <<>> /\ ~visible_
                     => locker = ConfiguredStyle)
  BY DEF StyleInv
<1>5. StyleInv /\ [Next]_servicesVars => [visible_ => locker' \in {locker, "none"}]_styleVars
  BY StyleInvKept, PartsApart
<1> QED
  BY <1>1, <1>3, <1>4, <1>5, PTL DEF Spec, StyleFollows

-----------------------------------------------------------------------------
(* The lock screen's hold on Super+L.                                        *)

InNews(event) == \E i \in DOMAIN news : news[i] = event

(* With nothing of KGlobalAccel's coming and going under way: the action is  *)
(* there, active, and heard of, or it is not there at all.                   *)
Settled ==
  \/ /\ ours /\ active /\ subscribed
     /\ \/ news = <<>> /\ (m_registered <=> superL = "lock")
        \/ news = <<"bound">> /\ superL = "lock"
        \/ news = <<"unbound">> /\ superL # "lock"
  \/ ~ours /\ ~active /\ ~m_registered /\ news = <<>>

(* News of the binding are the oldest there are, and KGlobalAccel that runs  *)
(* has come back after it went.                                              *)
NewsInOrder(q, runs) ==
  /\ q \in Seq({"bound", "unbound", "came", "went", "enroll"})
  /\ \A i \in DOMAIN q : q[i] \in {"bound", "unbound"} => i = 1
  /\ runs => \A i \in DOMAIN q : q[i] = "went" => \E j \in DOMAIN q : i < j /\ q[j] = "came"

(* Who does not want the key is not told of it.                              *)
ShortcutInv ==
  /\ NewsInOrder(news, kglobalaccel)
  /\ kglobalaccel \in BOOLEAN /\ ours \in BOOLEAN /\ active \in BOOLEAN
  /\ m_enrollmentRequested \in BOOLEAN /\ m_registered \in BOOLEAN
  /\ m_componentPath \in BOOLEAN /\ subscribed \in BOOLEAN
  /\ ~kglobalaccel => ~active
  /\ ~m_enrollmentRequested => ~m_registered /\ (~active \/ ~subscribed)
  /\ m_enrollmentRequested /\ kglobalaccel =>
       InNews("came") \/ InNews("enroll") \/ Settled

LEMMA NewsRead ==
  ASSUME NEW q, NEW runs \in BOOLEAN, NewsInOrder(q, runs), q # <<>>
  PROVE  /\ NewsInOrder(Tail(q), runs)
         /\ \A i \in DOMAIN Tail(q) : Tail(q)[i] \notin {"bound", "unbound"}
         /\ \A i \in DOMAIN q : i = 1 \/ (i - 1 \in DOMAIN Tail(q) /\ Tail(q)[i - 1] = q[i])
         /\ Head(q) = q[1]
<1> DEFINE S == {"bound", "unbound", "came", "went", "enroll"}
           t == Tail(q)
<1>1. /\ q \in Seq(S) /\ t \in Seq(S) /\ Len(q) \in Nat /\ Len(q) > 0 /\ DOMAIN q = 1..Len(q)
      /\ DOMAIN t = 1..(Len(q) - 1) /\ \A i \in 1..(Len(q) - 1) : t[i] = q[i + 1]
      /\ Head(q) = q[1]
  BY DEF NewsInOrder
<1> HIDE DEF S, t
<1>2. \A i \in DOMAIN t : t[i] \notin {"bound", "unbound"}
  BY <1>1 DEF NewsInOrder
<1>3. ASSUME runs, NEW i \in DOMAIN t, t[i] = "went"
      PROVE  \E j \in DOMAIN t : i < j /\ t[j] = "came"
  <2>1. i + 1 \in DOMAIN q /\ q[i + 1] = "went"
    BY <1>1, <1>3
  <2>2. PICK j \in DOMAIN q : i + 1 < j /\ q[j] = "came"
    BY <1>3, <2>1 DEF NewsInOrder
  <2>3. j - 1 \in DOMAIN t /\ t[j - 1] = "came" /\ i < j - 1
    BY <1>1, <1>3, <2>2
  <2> QED
    BY <2>3
<1>4. \A i \in DOMAIN q : i = 1 \/ (i - 1 \in DOMAIN t /\ t[i - 1] = q[i])
  BY <1>1
<1> QED
  BY <1>1, <1>2, <1>3, <1>4 DEF NewsInOrder, S, t

LEMMA NewsAdded ==
  ASSUME NEW q, NEW runs \in BOOLEAN, NewsInOrder(q, runs),
         NEW e \in {"bound", "unbound", "came", "went", "enroll"},
         e \in {"bound", "unbound"} => q = <<>>, e = "went" => ~runs
  PROVE  /\ NewsInOrder(Append(q, e), runs)
         /\ DOMAIN q \subseteq DOMAIN Append(q, e)
         /\ \A i \in DOMAIN q : Append(q, e)[i] = q[i]
         /\ \E i \in DOMAIN Append(q, e) : Append(q, e)[i] = e
         /\ q = <<>> => Append(q, e) = <<e>>
<1> DEFINE S == {"bound", "unbound", "came", "went", "enroll"}
           r == Append(q, e)
<1>1. /\ q \in Seq(S) /\ r \in Seq(S) /\ Len(q) \in Nat /\ DOMAIN q = 1..Len(q)
      /\ DOMAIN r = 1..(Len(q) + 1) /\ r[Len(q) + 1] = e
      /\ \A i \in 1..Len(q) : r[i] = q[i]
  BY DEF NewsInOrder
<1>5. q = <<>> => r = <<e>>
  OBVIOUS
<1> HIDE DEF S, r
<1>2. 1..(Len(q) + 1) = 1..Len(q) \cup {Len(q) + 1}
  BY <1>1
<1>3. \A i \in DOMAIN r : r[i] \in {"bound", "unbound"} => i = 1
  BY <1>1, <1>2 DEF NewsInOrder
<1>4. runs => \A i \in DOMAIN r : r[i] = "went" => \E j \in DOMAIN r : i < j /\ r[j] = "came"
  BY <1>1, <1>2 DEF NewsInOrder
<1> QED
  BY <1>1, <1>2, <1>3, <1>4, <1>5 DEF NewsInOrder, S, r

(* KGlobalAccel starts: it has come back after whatever.                     *)
LEMMA NewsOfStart ==
  ASSUME NEW q, NewsInOrder(q, FALSE)
  PROVE  NewsInOrder(Append(q, "came"), TRUE)
<1> DEFINE r == Append(q, "came")
<1>1. NewsInOrder(r, FALSE)
  BY NewsAdded
<1>2. /\ DOMAIN q = 1..Len(q) /\ Len(q) \in Nat /\ DOMAIN r = 1..(Len(q) + 1)
      /\ r[Len(q) + 1] = "came"
  BY DEF NewsInOrder
<1> HIDE DEF r
<1>3. \A i \in DOMAIN r : r[i] = "went" => \E j \in DOMAIN r : i < j /\ r[j] = "came"
  BY <1>2
<1> QED
  BY <1>1, <1>3 DEF NewsInOrder, r

(* What is left to be read when KGlobalAccel runs and nothing is to be done. *)
LEMMA NewsSettled ==
  ASSUME NEW q, NewsInOrder(q, TRUE),
         \A i \in DOMAIN q : q[i] \notin {"came", "enroll"}
  PROVE  q \in {<<>>, <<"bound">>, <<"unbound">>}
<1>1. /\ q \in Seq({"bound", "unbound", "came", "went", "enroll"})
      /\ DOMAIN q = 1..Len(q) /\ Len(q) \in Nat
  BY DEF NewsInOrder
<1>2. \A i \in DOMAIN q : q[i] \in {"bound", "unbound"} /\ i = 1
  BY <1>1 DEF NewsInOrder
<1>3. Len(q) <= 1
  BY <1>1, <1>2
<1>4. CASE Len(q) = 0
  BY <1>1, <1>4
<1>5. CASE Len(q) = 1
  <2>1. q = <<q[1]>> /\ q[1] \in {"bound", "unbound"}
    BY <1>1, <1>2, <1>5
  <2> QED
    BY <2>1
<1> QED
  BY <1>1, <1>3, <1>4, <1>5

(* Enrolling leaves the flag and the truth agreed on.                        *)
LEMMA Enrolled ==
  ASSUME Surprises = {}, ShortcutInv, enroll
  PROVE  /\ ours' \in BOOLEAN /\ active' \in BOOLEAN /\ m_registered' \in BOOLEAN
         /\ m_componentPath' \in BOOLEAN /\ subscribed' \in BOOLEAN
         /\ kglobalaccel =>
              \/ ours' /\ active' /\ subscribed' /\ m_registered' /\ superL' = "lock"
              \/ ~ours' /\ ~active' /\ ~m_registered'
         /\ ~kglobalaccel => ~active'
         /\ superL = "lock" => superL' = "lock"
<1>1. CASE ~kglobalaccel
  BY <1>1 DEF enroll, ShortcutInv
<1>2. CASE kglobalaccel /\ superL = "other"
  <2>1. ours' = FALSE /\ active' = FALSE /\ m_registered' = FALSE /\ m_componentPath' = FALSE
    BY <1>2 DEF enroll, withdraw, Unbind
  <2>2. subscribed' \in BOOLEAN
    BY <1>2 DEF enroll, withdraw, Unbind, ShortcutInv
  <2> QED
    BY <1>2, <2>1, <2>2
<1>3. CASE kglobalaccel /\ superL # "other"
  BY <1>3 DEF enroll, Refused
<1> QED
  BY <1>1, <1>2, <1>3

(* Letting go leaves nothing behind.                                         *)
LEMMA Withdrawn ==
  ASSUME ShortcutInv, withdraw(TRUE)
  PROVE  /\ ours' \in BOOLEAN /\ active' = FALSE /\ m_registered' = FALSE
         /\ m_componentPath' = FALSE /\ subscribed' \in BOOLEAN
<1>1. m_registered' = FALSE /\ m_componentPath' = FALSE /\ subscribed' \in BOOLEAN
  BY DEF withdraw, ShortcutInv
<1>2. CASE kglobalaccel
  BY <1>1, <1>2 DEF withdraw, Unbind
<1>3. CASE ~kglobalaccel
  <2>1. ours' = ours /\ active' = active
    BY <1>3 DEF withdraw, Unbind
  <2> QED
    BY <1>1, <1>3, <2>1 DEF ShortcutInv
<1> QED
  BY <1>2, <1>3

(* What the queue says of an event that is in it or not.                     *)
LEMMA NothingComing ==
  ASSUME NewsInOrder(news, kglobalaccel), kglobalaccel = TRUE, ~InNews("came"), ~InNews("enroll"),
         ~InNews("bound"), ~InNews("unbound")
  PROVE  news = <<>>
<1>1. news \in {<<>>, <<"bound">>, <<"unbound">>}
  BY NewsSettled DEF InNews
<1>2. news # <<"bound">> /\ news # <<"unbound">>
  <2>1. \A e \in {"bound", "unbound"} : 1 \in DOMAIN <<e>> /\ <<e>>[1] = e
    OBVIOUS
  <2> QED
    BY <2>1 DEF InNews
<1> QED
  BY <1>1, <1>2

LEMMA tryEnrollInv ==
  ASSUME Surprises = {}, ShortcutInv, tryEnroll
  PROVE  ShortcutInv'
<1>1. PICK enabled \in BOOLEAN : /\ m_enrollmentRequested' = enabled
                                /\ IF enabled THEN enroll ELSE withdraw(TRUE)
  BY DEF tryEnroll
<1>2. /\ UNCHANGED <<kglobalaccel, news>> /\ ~InNews("bound") /\ ~InNews("unbound")
  BY DEF tryEnroll, InNews
<1>3. CASE enabled
  <2>1. enroll
    BY <1>1, <1>3
  <2>2. kglobalaccel /\ ~InNews("came") /\ ~InNews("enroll") => Settled'
    <3> SUFFICES ASSUME kglobalaccel, ~InNews("came"), ~InNews("enroll") PROVE Settled'
      OBVIOUS
    <3>1. news = <<>>
      BY <1>2, NothingComing DEF ShortcutInv
    <3> QED
      BY <1>2, <2>1, <3>1, Enrolled DEF Settled
  <2> QED
    BY <1>1, <1>2, <1>3, <2>1, <2>2, Enrolled DEF ShortcutInv, InNews
<1>4. CASE ~enabled
  BY <1>1, <1>2, <1>4, Withdrawn DEF ShortcutInv, InNews
<1> QED
  BY <1>3, <1>4

LEMMA onShortcutsChangedInv ==
  ASSUME ShortcutInv, onShortcutsChanged
  PROVE  ShortcutInv'
<1>1. PICK event \in {"bound", "unbound"} :
        /\ news # <<>> /\ Head(news) = event /\ news' = Tail(news)
        /\ m_registered' = IF m_enrollmentRequested THEN event = "bound" ELSE m_registered
  BY DEF onShortcutsChanged, Next1
<1>2. UNCHANGED <<kglobalaccel, superL, ours, active, m_enrollmentRequested, m_componentPath, subscribed>>
  BY DEF onShortcutsChanged, accelVars
<1>3. /\ NewsInOrder(news, kglobalaccel)' /\ news[1] = event
      /\ \A i \in DOMAIN news : i = 1 \/ (i - 1 \in DOMAIN news' /\ news'[i - 1] = news[i])
  BY <1>1, <1>2, NewsRead DEF ShortcutInv
<1>4. \A e \in {"came", "enroll"} : InNews(e) => InNews(e)'
  BY <1>3 DEF InNews
<1>5. m_registered' \in BOOLEAN /\ (m_enrollmentRequested => (m_registered' <=> event = "bound"))
      /\ (~m_enrollmentRequested => m_registered' = m_registered)
  BY <1>1 DEF ShortcutInv
<1>6. m_enrollmentRequested /\ Settled => Settled'
  <2> SUFFICES ASSUME m_enrollmentRequested, Settled PROVE Settled'
    OBVIOUS
  <2>1. \A e \in {"bound", "unbound"} : <<e>>[1] = e /\ Tail(<<e>>) = <<>>
    OBVIOUS
  <2>2. news = <<event>>
    BY <1>1, <1>3, <2>1 DEF Settled
  <2>3. ours /\ active /\ subscribed /\ (event = "bound" <=> superL = "lock")
    BY <1>1, <2>1, <2>2 DEF Settled
  <2> QED
    BY <1>1, <1>2, <1>5, <2>1, <2>2, <2>3 DEF Settled
<1> QED
  BY <1>2, <1>3, <1>4, <1>5, <1>6 DEF ShortcutInv

LEMMA OwnerChangedInv ==
  ASSUME ShortcutInv, onKGlobalAccelOwnerChanged
  PROVE  ShortcutInv'
<1>1. /\ news # <<>> /\ Head(news) \in {"came", "went"}
      /\ m_componentPath' = FALSE /\ m_registered' = FALSE
      /\ UNCHANGED <<kglobalaccel, superL, ours, active, m_enrollmentRequested, subscribed>>
  BY DEF onKGlobalAccelOwnerChanged, accelVars
<1> DEFINE t == Tail(news)
<1>2. /\ NewsInOrder(t, kglobalaccel) /\ news[1] = Head(news)
      /\ \A i \in DOMAIN t : t[i] \notin {"bound", "unbound"}
      /\ \A i \in DOMAIN news : i = 1 \/ (i - 1 \in DOMAIN t /\ t[i - 1] = news[i])
  BY <1>1, NewsRead DEF ShortcutInv
<1>3. CASE m_enrollmentRequested /\ Head(news) = "came"
  <2>1. news' = Append(t, "enroll")
    BY <1>3 DEF onKGlobalAccelOwnerChanged
  <2>2. NewsInOrder(news, kglobalaccel)' /\ InNews("enroll")'
    BY <1>1, <1>2, <2>1, NewsAdded DEF ShortcutInv, InNews
  <2> QED
    BY <1>1, <2>2 DEF ShortcutInv
<1>4. CASE ~(m_enrollmentRequested /\ Head(news) = "came")
  <2>1. news' = t
    BY <1>4 DEF onKGlobalAccelOwnerChanged
  <2>2. m_enrollmentRequested /\ kglobalaccel => InNews("came")'
    <3> SUFFICES ASSUME m_enrollmentRequested, kglobalaccel PROVE InNews("came")'
      OBVIOUS
    <3>1. news[1] = "went" /\ 1 \in DOMAIN news
      BY <1>1, <1>2, <1>4 DEF ShortcutInv, NewsInOrder
    <3>2. PICK j \in DOMAIN news : 1 < j /\ news[j] = "came"
      BY <3>1 DEF ShortcutInv, NewsInOrder
    <3> QED
      BY <1>2, <2>1, <3>2 DEF InNews
  <2>3. NewsInOrder(news, kglobalaccel)'
    BY <1>1, <1>2, <2>1
  <2> QED
    BY <1>1, <2>2, <2>3 DEF ShortcutInv
<1> QED
  BY <1>3, <1>4

LEMMA EnrollAgainInv ==
  ASSUME Surprises = {}, ShortcutInv, EnrollAgain
  PROVE  ShortcutInv'
<1>1. /\ news # <<>> /\ Head(news) = "enroll" /\ news' = Tail(news)
      /\ UNCHANGED <<kglobalaccel, m_enrollmentRequested>>
  BY DEF EnrollAgain, Next1
<1>2. /\ NewsInOrder(news, kglobalaccel)'
      /\ \A i \in DOMAIN news' : news'[i] \notin {"bound", "unbound"}
  BY <1>1, NewsRead DEF ShortcutInv
<1>3. CASE m_enrollmentRequested
  <2>1. enroll
    BY <1>3 DEF EnrollAgain
  <2>2. kglobalaccel /\ ~InNews("came")' /\ ~InNews("enroll")' => Settled'
    <3> SUFFICES ASSUME kglobalaccel, ~InNews("came")', ~InNews("enroll")' PROVE Settled'
      OBVIOUS
    <3>1. news' \in {<<>>, <<"bound">>, <<"unbound">>}
      BY <1>1, <1>2, NewsSettled DEF InNews, ShortcutInv
    <3>2. news' = <<>>
      <4>1. \A e \in {"bound", "unbound"} : 1 \in DOMAIN <<e>> /\ <<e>>[1] = e
        OBVIOUS
      <4> QED
        BY <1>2, <3>1, <4>1
    <3> QED
      BY <1>1, <2>1, <3>2, Enrolled DEF Settled
  <2> QED
    BY <1>1, <1>2, <1>3, <2>1, <2>2, Enrolled DEF ShortcutInv
<1>4. CASE ~m_enrollmentRequested
  <2>1. UNCHANGED <<superL, ours, active, m_registered, m_componentPath, subscribed>>
    BY <1>4 DEF EnrollAgain
  <2> QED
    BY <1>1, <1>2, <1>4, <2>1 DEF ShortcutInv
<1> QED
  BY <1>3, <1>4

LEMMA RestartInv ==
  ASSUME ShortcutInv, Restart
  PROVE  ShortcutInv'
<1>1. /\ m_enrollmentRequested' = FALSE /\ m_registered' = FALSE /\ m_componentPath' = FALSE
      /\ subscribed' = FALSE /\ news' = <<>> /\ kglobalaccel' = kglobalaccel
  BY DEF Restart
<1>2. ours' \in BOOLEAN /\ active' \in BOOLEAN /\ (active' => active)
  <2>1. CASE m_registered /\ kglobalaccel
    <3>1. active' = FALSE /\ ours' = (ours /\ ~FALSE)
      BY <2>1 DEF Restart, Unbind
    <3> QED
      BY <3>1
  <2>2. CASE ~(m_registered /\ kglobalaccel)
    <3>1. active' = active /\ ours' = ours
      BY <2>2 DEF Restart, Unbind
    <3> QED
      BY <3>1 DEF ShortcutInv
  <2> QED
    BY <2>1, <2>2
<1>3. NewsInOrder(news, kglobalaccel)'
  BY <1>1 DEF NewsInOrder
<1> QED
  BY <1>1, <1>2, <1>3 DEF ShortcutInv

LEMMA UserRebindsInv ==
  ASSUME Surprises = {}, ShortcutInv, UserRebinds
  PROVE  ShortcutInv'
<1>1. /\ kglobalaccel /\ news = <<>>
      /\ UNCHANGED <<kglobalaccel, ours, active, m_enrollmentRequested, m_registered,
                     m_componentPath, subscribed>>
  BY DEF UserRebinds, managerVars
<1>2. PICK to \in {"nobody", "other"} \cup (IF ours THEN {"lock"} ELSE {}) :
        /\ superL' = to
        /\ news' = IF ours /\ (superL = "lock") # (to = "lock")
                     THEN Append(news, IF to = "lock" THEN "bound" ELSE "unbound") ELSE news
  BY DEF UserRebinds
<1>3. NewsInOrder(news, kglobalaccel)'
  <2>1. news' = news \/ \E e \in {"bound", "unbound"} : news' = Append(news, e)
    BY <1>2
  <2>2. NewsInOrder(news, TRUE) /\ kglobalaccel' = TRUE
    BY <1>1 DEF ShortcutInv
  <2>3. ASSUME NEW e \in {"bound", "unbound"} PROVE NewsInOrder(Append(news, e), TRUE)
    BY <1>1, <2>2, NewsAdded
  <2>4. NewsInOrder(news', TRUE)
    BY <2>1, <2>2, <2>3
  <2> QED
    BY <2>2, <2>4
<1>4. m_enrollmentRequested => Settled'
  <2> SUFFICES ASSUME m_enrollmentRequested PROVE Settled'
    OBVIOUS
  <2>1. Settled
    BY <1>1 DEF ShortcutInv, InNews
  <2>2. CASE ~ours
    <3>1. news' = news
      BY <1>2, <2>2
    <3> QED
      BY <1>1, <2>1, <2>2, <3>1 DEF Settled
  <2>3. CASE ours
    <3>1. active /\ subscribed /\ (m_registered <=> superL = "lock")
      <4>1. \A e \in {"bound", "unbound"} : <<e>> # <<>>
        OBVIOUS
      <4> QED
        BY <1>1, <2>1, <2>3, <4>1 DEF Settled
    <3>2. CASE superL = "lock" /\ to # "lock"
      <4>1. news' = <<"unbound">>
        BY <1>1, <1>2, <2>3, <3>2
      <4> QED
        BY <1>1, <1>2, <2>3, <3>1, <3>2, <4>1 DEF Settled
    <3>3. CASE superL # "lock" /\ to = "lock"
      <4>1. news' = <<"bound">>
        BY <1>1, <1>2, <2>3, <3>3
      <4> QED
        BY <1>1, <1>2, <2>3, <3>1, <3>3, <4>1 DEF Settled
    <3>4. CASE (superL = "lock") = (to = "lock")
      <4>1. news' = news
        BY <1>2, <3>4
      <4> QED
        BY <1>1, <1>2, <2>3, <3>1, <3>4, <4>1 DEF Settled
    <3> QED
      BY <3>2, <3>3, <3>4
  <2> QED
    BY <2>2, <2>3
<1> QED
  BY <1>1, <1>3, <1>4 DEF ShortcutInv

LEMMA KGlobalAccelInv ==
  ASSUME ShortcutInv, KGlobalAccelDies \/ KGlobalAccelStarts
  PROVE  ShortcutInv'
<1>1. CASE KGlobalAccelDies
  <2>1. /\ kglobalaccel' = FALSE /\ active' = FALSE /\ news' = Append(news, "went")
        /\ UNCHANGED <<ours, m_enrollmentRequested, m_registered, m_componentPath, subscribed>>
    BY <1>1 DEF KGlobalAccelDies, managerVars
  <2>2. NewsInOrder(news, FALSE)
    BY DEF ShortcutInv, NewsInOrder
  <2>3. NewsInOrder(news, kglobalaccel)'
    BY <2>1, <2>2, NewsAdded
  <2> QED
    BY <2>1, <2>3 DEF ShortcutInv
<1>2. CASE KGlobalAccelStarts
  <2>1. /\ kglobalaccel = FALSE /\ kglobalaccel' = TRUE /\ news' = Append(news, "came")
        /\ UNCHANGED <<ours, active, m_enrollmentRequested, m_registered, m_componentPath, subscribed>>
    BY <1>2 DEF KGlobalAccelStarts, managerVars, ShortcutInv
  <2>2. NewsInOrder(news, FALSE)
    BY <2>1 DEF ShortcutInv
  <2>3. NewsInOrder(news, kglobalaccel)'
    BY <2>1, <2>2, NewsOfStart
  <2>4. InNews("came")'
    <3>1. \E i \in DOMAIN Append(news, "came") : Append(news, "came")[i] = "came"
      BY <2>2, NewsAdded
    <3> QED
      BY <2>1, <3>1 DEF InNews
  <2> QED
    BY <2>1, <2>3, <2>4 DEF ShortcutInv
<1> QED
  BY <1>1, <1>2

LEMMA ShortcutInvKept ==
  ASSUME Surprises = {}, ShortcutInv, ShortcutNext
  PROVE  /\ ShortcutInv'
         /\ superL = "lock" /\ superL' # "lock" /\ m_enrollmentRequested' => UserRebinds
<1>1. ShortcutInv'
  BY tryEnrollInv, onShortcutsChangedInv, OwnerChangedInv, EnrollAgainInv, RestartInv,
     UserRebindsInv, KGlobalAccelInv DEF ShortcutNext
<1>2. ASSUME superL = "lock", superL' # "lock", m_enrollmentRequested', ~UserRebinds PROVE FALSE
  <2>1. CASE tryEnroll
    BY <1>2, <2>1, Enrolled DEF tryEnroll
  <2>2. CASE EnrollAgain
    BY <1>2, <2>2, Enrolled DEF EnrollAgain
  <2>3. CASE ~tryEnroll /\ ~EnrollAgain
    BY <1>2, <2>3 DEF ShortcutNext, onShortcutsChanged, onKGlobalAccelOwnerChanged, Restart,
       KGlobalAccelDies, KGlobalAccelStarts, accelVars
  <2> QED
    BY <2>1, <2>2, <2>3
<1> QED
  BY <1>1, <1>2

LEMMA ShortcutIsTold ==
  ASSUME ShortcutInv, news = <<>>, kglobalaccel
  PROVE  /\ m_registered = (superL = "lock" /\ active /\ subscribed)
         /\ ~m_enrollmentRequested => ~m_registered
<1>1. m_registered <=> (superL = "lock" /\ active /\ subscribed)
  <2>1. CASE m_enrollmentRequested
    <3>1. \A e \in {"bound", "unbound"} : <<e>> # <<>>
      OBVIOUS
    <3> QED
      BY <2>1, <3>1 DEF ShortcutInv, InNews, Settled
  <2>2. CASE ~m_enrollmentRequested
    BY <2>2 DEF ShortcutInv
  <2> QED
    BY <2>1, <2>2
<1> QED
  BY <1>1 DEF ShortcutInv

(* LkScrStat tells the truth once the news are read, and no enrolment gives  *)
(* the key up, as long as the user does not rebind it while news wait and    *)
(* every signal can be connected (Surprises): LockShortcutManager.           *)
THEOREM ShortcutIsHeld ==
  ASSUME Surprises = {}
  PROVE  Spec => ShortcutHeld
<1>1. Init => ShortcutInv
  <2>1. ASSUME ShortcutInit PROVE ShortcutInv
    <3>1. NewsInOrder(news, kglobalaccel)
      BY <2>1 DEF ShortcutInit, NewsInOrder
    <3> QED
      BY <2>1, <3>1 DEF ShortcutInit, ShortcutInv
  <2> QED
    BY <2>1 DEF Init
<1>2. ASSUME ShortcutInv, UNCHANGED shortcutVars PROVE ShortcutInv'
  BY <1>2 DEF ShortcutInv, shortcutVars, accelVars, managerVars, InNews, Settled
<1>3. ShortcutInv /\ [Next]_servicesVars => ShortcutInv'
  BY <1>2, ShortcutInvKept, PartsApart
<1>4. ShortcutInv => (news = <<>> /\ kglobalaccel =>
        /\ m_registered = (superL = "lock" /\ active /\ subscribed)
        /\ ~m_enrollmentRequested => ~m_registered)
  BY ShortcutIsTold
<1>5. ShortcutInv /\ [Next]_servicesVars =>
        [superL = "lock" /\ superL' # "lock" /\ m_enrollmentRequested' => UserRebinds]_shortcutVars
  BY ShortcutInvKept, PartsApart
<1> QED
  BY <1>1, <1>3, <1>4, <1>5, PTL DEF Spec, ShortcutHeld

-----------------------------------------------------------------------------
(* The virtual keyboard.                                                     *)

(* The keys of every keyboard, also of one whose window is gone, say what    *)
(* they would type; all types into fields there are.                         *)
KeysInv ==
  /\ upWindows \subseteq KbWindow
  /\ m_capsLock \in [KbWindow -> BOOLEAN] /\ m_shift \in [KbWindow -> BOOLEAN]
  /\ shiftChecked = m_shift
  /\ keyLabel = [w \in KbWindow |-> Labels(m_capsLock[w], m_shift[w])]
  /\ \A w \in KbWindow \ upWindows : ~m_capsLock[w] /\ ~m_shift[w]
  /\ fieldText = [w \in KbWindow |-> IF w \in upWindows THEN wanted ELSE <<>>]
  /\ passwordData = wanted
  /\ m_inputTarget \in [KbWindow -> upWindows \cup {NoField}]
  /\ focusedField \in upWindows \cup {NoField}

LEMMA FreshLabels == Labels(FALSE, FALSE) = {}
  BY DEF Labels, useShiftedText

LEMMA LabelOfKey ==
  ASSUME NEW key \in PrintableKey, NEW caps \in BOOLEAN, NEW shift \in BOOLEAN
  PROVE  (key \in Labels(caps, shift)) = useShiftedText(key, caps, shift)
<1>1. useShiftedText(key, caps, shift) \in BOOLEAN
  BY DEF useShiftedText
<1>2. key \in Labels(caps, shift) <=> useShiftedText(key, caps, shift)
  BY DEF Labels
<1> QED
  BY <1>1, <1>2

LEMMA ShiftIsConsumed ==
  ASSUME KeysInv, NEW w \in upWindows, consumeShift(w)
  PROVE  /\ m_capsLock' \in [KbWindow -> BOOLEAN] /\ m_shift' \in [KbWindow -> BOOLEAN]
         /\ shiftChecked' = m_shift'
         /\ keyLabel' = [v \in KbWindow |-> Labels(m_capsLock'[v], m_shift'[v])]
         /\ \A v \in KbWindow \ upWindows : ~m_capsLock'[v] /\ ~m_shift'[v]
<1>1. w \in KbWindow
  BY DEF KeysInv
<1>2. CASE m_shift[w]
  BY <1>1, <1>2 DEF KeysInv, consumeShift, updateKeyLabels
<1>3. CASE ~m_shift[w]
  <2>1. m_shift' = m_shift /\ shiftChecked' = shiftChecked /\ UNCHANGED <<m_capsLock, keyLabel>>
    BY <1>1, <1>3 DEF KeysInv, consumeShift
  <2> QED
    BY <2>1 DEF KeysInv
<1> QED
  BY <1>2, <1>3

LEMMA KeysInvKept ==
  ASSUME KeysInv, KeysNext
  PROVE  KeysInv'
<1>1. CASE FocusLeaves \/ UsableChanges
  BY <1>1 DEF FocusLeaves, UsableChanges, Focus, KeysInv, stateOfKeys, texts
<1>2. CASE resetFields
  BY <1>2 DEF resetFields, updatePassword, Focus, KeysInv, stateOfKeys
<1>3. ASSUME NEW w \in KbWindow, w \in upWindows /\ FieldFocused(w)
      PROVE  KeysInv'
  BY <1>3 DEF FieldFocused, Focus, KeysInv, stateOfKeys, texts
<1>4. ASSUME NEW w \in KbWindow, WindowAdded(w)
      PROVE  KeysInv'
  BY <1>4 DEF WindowAdded, KeysInv, stateOfKeys
<1>5. ASSUME NEW w \in KbWindow, WindowRemoved(w)
      PROVE  KeysInv'
  <2>1. keyLabel' = [v \in KbWindow |-> Labels(m_capsLock'[v], m_shift'[v])]
    BY <1>5, FreshLabels DEF WindowRemoved, KeysInv
  <2>2. m_inputTarget' \in [KbWindow -> upWindows' \cup {NoField}] /\ focusedField' \in upWindows' \cup {NoField}
    BY <1>5 DEF WindowRemoved, KeysInv
  <2>3. fieldText' = [v \in KbWindow |-> IF v \in upWindows' THEN wanted' ELSE <<>>]
    BY <1>5 DEF WindowRemoved, KeysInv
  <2> QED
    BY <1>5, <2>1, <2>2, <2>3 DEF WindowRemoved, KeysInv
<1>6. ASSUME NEW w \in KbWindow, CapsClicked(w) \/ ShiftClicked(w)
      PROVE  KeysInv'
  <2>1. keyLabel' = [v \in KbWindow |-> Labels(m_capsLock'[v], m_shift'[v])]
    BY <1>6 DEF CapsClicked, ShiftClicked, updateKeyLabels, KeysInv
  <2> QED
    BY <1>6, <2>1 DEF CapsClicked, ShiftClicked, KeysInv, texts
<1>7. ASSUME NEW w \in KbWindow, BackspaceClicked(w)
      PROVE  KeysInv'
  BY <1>7 DEF BackspaceClicked, inputTarget, updatePassword, KeysInv, stateOfKeys
<1>8. ASSUME NEW w \in KbWindow, EnterClicked(w)
      PROVE  KeysInv'
  BY <1>8, ShiftIsConsumed DEF EnterClicked, KeysInv, texts
<1>9. ASSUME NEW w \in KbWindow, NEW key \in PrintableKey, PrintableClicked(w, key)
      PROVE  KeysInv'
  <2>1. CASE inputTarget(w) = NoField
    BY <1>9, <2>1 DEF PrintableClicked, KeysInv, stateOfKeys, texts
  <2>2. CASE inputTarget(w) # NoField
    <3>1. /\ consumeShift(w) /\ w \in upWindows
          /\ UNCHANGED <<upWindows, usable, focusedField, m_inputTarget>>
          /\ wanted' = Append(wanted, <<key, key \in keyLabel[w]>>)
      BY <1>9, <2>2 DEF PrintableClicked
    <3>2. fieldText[inputTarget(w)] = wanted
      BY <2>2 DEF inputTarget, KeysInv
    <3>3. (key \in keyLabel[w]) = useShiftedText(key, m_capsLock[w], m_shift[w])
      BY LabelOfKey DEF KeysInv
    <3>4. updatePassword(wanted')
      BY <1>9, <2>2, <3>1, <3>2, <3>3 DEF PrintableClicked
    <3> QED
      BY <3>1, <3>4, ShiftIsConsumed DEF updatePassword, KeysInv
  <2> QED
    BY <2>1, <2>2
<1> QED
  BY <1>1, <1>2, <1>3, <1>4, <1>5, <1>6, <1>7, <1>8, <1>9 DEF KeysNext

LEMMA TypedIsShown == Spec => []TypedAsShown
<1>1. Init => KeysInv
  <2> SUFFICES ASSUME KeysInit PROVE KeysInv
    BY DEF Init
  <2>1. keyLabel = [w \in KbWindow |-> Labels(m_capsLock[w], m_shift[w])]
    BY FreshLabels DEF KeysInit
  <2>2. fieldText = [w \in KbWindow |-> IF w \in upWindows THEN wanted ELSE <<>>]
    BY DEF KeysInit
  <2> QED
    BY <2>1, <2>2 DEF KeysInit, KeysInv
<1>2. KeysInv /\ [Next]_servicesVars => KeysInv'
  <2>1. ASSUME KeysInv, UNCHANGED keysVars PROVE KeysInv'
    BY <2>1 DEF KeysInv, keysVars
  <2>2. [Next]_servicesVars => KeysNext \/ UNCHANGED keysVars
  BY PartsApart
  <2> QED
    BY <2>1, <2>2, KeysInvKept
<1>3. KeysInv => TypedAsShown
  BY DEF KeysInv, TypedAsShown
<1> QED
  BY <1>1, <1>2, <1>3, PTL DEF Spec

-----------------------------------------------------------------------------
(* The password box.                                                         *)

(* What there is to see.                                                     *)
BoxType ==
  [place : {"box", "menu", "off", "gone"}, parts : SUBSET {"password", "locked", "login"},
   enabled : BOOLEAN, loading : BOOLEAN, tip : BOOLEAN,
   message : {"", "wrong", "finger"} \cup PowerChoices, alertBeforeHide : BOOLEAN,
   mode : {NormalAction, "shutdown", "restart"}]

ModeFor(action) == IF action \in {"shutdown", "restart"} THEN action ELSE NormalAction

(* A tip is to be seen, or will be as soon as the field is.                  *)
TipDue(b) == b.tip \/ (b.alertBeforeHide /\ ~BoxShown(b))

LEMMA Modes == DOMAIN ModeOf = {"shutdown", "restart"} /\ \A a \in DOMAIN ModeOf : ModeOf[a] = a
  BY DEF ModeOf

(* What is left as it was.                                                   *)
SameBox(b, c) ==
  /\ c \in BoxType
  /\ c.place = b.place /\ c.parts = b.parts /\ c.enabled = b.enabled /\ c.mode = b.mode

LEMMA AlertShown ==
  ASSUME NEW b \in BoxType, NEW text \in {"", "wrong", "finger"} \cup PowerChoices
  PROVE  /\ SameBox(b, showAlert(b, text)) /\ showAlert(b, text).message = text
         /\ ~showAlert(b, text).loading
         /\ showAlert(b, text).tip <=> b.tip \/ BoxShown(b)
         /\ showAlert(b, text).alertBeforeHide <=> b.alertBeforeHide \/ ~BoxShown(b)
  BY DEF BoxType, SameBox, showAlert, hideLoadSlider, BoxShown

LEMMA FieldHidden ==
  ASSUME NEW b \in BoxType
  PROVE  /\ SameBox(b, hideEvent(b)) /\ hideEvent(b).message = b.message
         /\ hideEvent(b).loading = b.loading
         /\ hideEvent(b).tip <=> b.tip /\ ~BoxShown(b)
         /\ hideEvent(b).alertBeforeHide <=> (IF BoxShown(b) THEN b.tip ELSE b.alertBeforeHide)
  BY ZenonT(60) DEF BoxType, SameBox, hideEvent, hideAlert, BoxShown

LEMMA FieldShown ==
  ASSUME NEW b \in BoxType
  PROVE  /\ SameBox(b, showEvent(b)) /\ showEvent(b).message = b.message
         /\ showEvent(b).loading => b.loading
         /\ showEvent(b).tip <=> b.tip \/ (BoxShown(b) /\ b.alertBeforeHide)
         /\ showEvent(b).alertBeforeHide = b.alertBeforeHide
<1>1. b.message \in {"", "wrong", "finger"} \cup PowerChoices
  BY DEF BoxType
<1>2. CASE BoxShown(b) /\ b.alertBeforeHide
  <2>1. showEvent(b) = showAlert(b, b.message)
    BY <1>2 DEF showEvent
  <2>2. /\ SameBox(b, showEvent(b)) /\ showEvent(b).message = b.message
        /\ ~showEvent(b).loading
        /\ showEvent(b).tip <=> b.tip \/ BoxShown(b)
        /\ showEvent(b).alertBeforeHide <=> b.alertBeforeHide \/ ~BoxShown(b)
    <3> DEFINE text == b.message
    <3>1. text \in {"", "wrong", "finger"} \cup PowerChoices
      BY <1>1
    <3> HIDE DEF text
    <3>2. /\ SameBox(b, showAlert(b, text)) /\ showAlert(b, text).message = text
          /\ ~showAlert(b, text).loading
          /\ showAlert(b, text).tip <=> b.tip \/ BoxShown(b)
          /\ showAlert(b, text).alertBeforeHide <=> b.alertBeforeHide \/ ~BoxShown(b)
      BY <3>1, AlertShown
    <3>3. showEvent(b) = showAlert(b, text)
      BY <2>1 DEF text
    <3> QED
      BY <3>2, <3>3 DEF text
  <2>3. showEvent(b).alertBeforeHide = b.alertBeforeHide
    BY <1>2, <2>2 DEF SameBox, BoxType
  <2> QED
    BY <1>2, <2>2, <2>3
<1>3. CASE ~(BoxShown(b) /\ b.alertBeforeHide)
  <2>1. showEvent(b) = b
    BY <1>3 DEF showEvent
  <2>2. SameBox(b, b)
    BY DEF SameBox
  <2>3. b.tip <=> b.tip \/ (BoxShown(b) /\ b.alertBeforeHide)
    BY <1>3
  <2> QED
    BY <2>1, <2>2, <2>3
<1> QED
  BY <1>2, <1>3

LEMMA CenterRestored ==
  ASSUME NEW b \in BoxType, b.tip => BoxShown(b)
  PROVE  LET c == restoreCenterContent(b) IN
         /\ c \in BoxType /\ c.place = "box" /\ c.parts = PartsNow(isLock)
         /\ c.enabled = b.enabled /\ c.mode = b.mode /\ c.message = b.message
         /\ ~c.loading /\ (c.tip => BoxShown(c)) /\ (TipDue(c) => TipDue(b))
<1> DEFINE h == hideEvent(b)
           p == [hideLoadSlider(h) EXCEPT !.place = "box", !.parts = PartsNow(isLock)]
<1>1. /\ SameBox(b, h) /\ h.message = b.message /\ (h.tip <=> b.tip /\ ~BoxShown(b))
      /\ h.alertBeforeHide <=> (IF BoxShown(b) THEN b.tip ELSE b.alertBeforeHide)
  BY FieldHidden
<1>2. PartsNow(isLock) \in SUBSET {"password", "locked", "login"}
  BY DEF PartsNow
<1> HIDE DEF h
<1>3. /\ p \in BoxType /\ p.place = "box" /\ p.parts = PartsNow(isLock)
      /\ p.enabled = b.enabled /\ p.mode = b.mode /\ p.message = b.message
      /\ ~p.loading /\ p.tip = h.tip /\ p.alertBeforeHide = h.alertBeforeHide
  BY <1>1, <1>2 DEF BoxType, SameBox, hideLoadSlider
<1>4. restoreCenterContent(b) = showEvent(p)
  BY DEF restoreCenterContent, h
<1> HIDE DEF p
<1>5. /\ SameBox(p, showEvent(p)) /\ showEvent(p).message = p.message
      /\ (showEvent(p).loading => p.loading)
      /\ showEvent(p).tip <=> p.tip \/ (BoxShown(p) /\ p.alertBeforeHide)
      /\ showEvent(p).alertBeforeHide = p.alertBeforeHide
  BY <1>3, FieldShown
<1>6. BoxShown(showEvent(p)) = BoxShown(p)
  BY <1>5 DEF BoxShown, SameBox
<1>7. ~p.tip /\ (p.alertBeforeHide => TipDue(b))
  BY <1>1, <1>3 DEF TipDue
<1> QED
  BY <1>3, <1>4, <1>5, <1>6, <1>7 DEF SameBox, TipDue

LEMMA PasswordDisabled ==
  ASSUME NEW b \in BoxType, NEW disable \in BOOLEAN, b.tip => BoxShown(b)
  PROVE  LET c == disablePassword(b, disable) IN
         /\ c \in BoxType /\ c.place = b.place
         /\ c.parts = (IF disable THEN {"locked"} ELSE {"password"})
         /\ c.enabled = ~disable /\ c.mode = b.mode /\ c.message = b.message
         /\ (c.loading => b.loading /\ ~disable) /\ (c.tip => BoxShown(c)) /\ (TipDue(c) => TipDue(b))
         /\ c.alertBeforeHide => TipDue(b)
<1> DEFINE h == hideEvent(b)
           d == [hideLoadSlider(h) EXCEPT !.enabled = FALSE, !.parts = {"locked"}]
           p == [h EXCEPT !.enabled = TRUE, !.parts = {"password"}]
<1>1. /\ SameBox(b, h) /\ h.message = b.message /\ (h.tip <=> b.tip /\ ~BoxShown(b))
      /\ h.alertBeforeHide <=> (IF BoxShown(b) THEN b.tip ELSE b.alertBeforeHide)
      /\ h.loading = b.loading
  BY FieldHidden
<1>2. ~h.tip /\ (h.alertBeforeHide => TipDue(b))
  BY <1>1 DEF TipDue
<1>3. CASE disable
  <2>1. disablePassword(b, disable) = d
    BY <1>3 DEF disablePassword
  <2> HIDE DEF h
  <2>2. /\ d \in BoxType /\ d.place = b.place /\ d.parts = {"locked"} /\ ~d.enabled
        /\ d.mode = b.mode /\ d.message = b.message /\ ~d.loading /\ d.tip = h.tip
        /\ d.alertBeforeHide = h.alertBeforeHide
    BY <1>1 DEF BoxType, SameBox, hideLoadSlider
  <2> HIDE DEF d
  <2>3. d.enabled = ~disable
    BY <1>3, <2>2 DEF BoxType
  <2> QED
    BY <1>2, <1>3, <2>1, <2>2, <2>3 DEF TipDue
<1>4. CASE ~disable
  <2>1. disablePassword(b, disable) = showEvent(p)
    BY <1>4 DEF disablePassword
  <2> HIDE DEF h
  <2>2. /\ p \in BoxType /\ p.place = b.place /\ p.parts = {"password"} /\ p.enabled
        /\ p.mode = b.mode /\ p.message = b.message /\ p.loading = b.loading /\ p.tip = h.tip
        /\ p.alertBeforeHide = h.alertBeforeHide
    BY <1>1 DEF BoxType, SameBox
  <2> HIDE DEF p
  <2>3. /\ SameBox(p, showEvent(p)) /\ showEvent(p).message = p.message
        /\ (showEvent(p).loading => p.loading)
        /\ showEvent(p).tip <=> p.tip \/ (BoxShown(p) /\ p.alertBeforeHide)
        /\ showEvent(p).alertBeforeHide = p.alertBeforeHide
    BY <2>2, FieldShown
  <2>4. BoxShown(showEvent(p)) = BoxShown(p)
    BY <2>3 DEF BoxShown, SameBox
  <2>5. showEvent(p).enabled = ~disable
    BY <1>4, <2>2, <2>3 DEF BoxType, SameBox
  <2> QED
    BY <1>2, <1>4, <2>1, <2>2, <2>3, <2>4, <2>5 DEF SameBox, TipDue
<1> QED
  BY <1>3, <1>4

-----------------------------------------------------------------------------
(* The box as BoxTellsTruth says, and as it will be when it is seen again:   *)
(* with the state it depends on.                                             *)
BoxFits(b) ==
  /\ b \in BoxType
  /\ b.tip => BoxShown(b)

BoxInv ==
  /\ BoxFits(box)
  /\ submitted \in BOOLEAN /\ fingerListening \in BOOLEAN /\ handedOver \in BOOLEAN
  /\ isLock \in BOOLEAN /\ lockType \in BOOLEAN /\ isNoPasswdGrp \in BOOLEAN
  /\ tryNum \in Int /\ lockNum \in Int
  /\ pendingAction \in {NormalAction} \cup PowerChoices
  /\ ~lockType => pendingAction = NormalAction
  /\ box.enabled = ~isLock
  /\ box.place = "box" => box.parts = PartsNow(isLock)
  /\ box.mode = ModeFor(pendingAction)
  /\ box.loading => submitted \/ handedOver
  /\ TipDue(box) /\ box.message \in {"shutdown", "restart"} => box.message = pendingAction
  /\ box.place = "off" =>
       /\ ~box.loading /\ ~box.alertBeforeHide /\ pendingAction = NormalAction
       /\ ~fingerListening /\ ~submitted
  /\ isLock => tryNum = 0 /\ ~submitted /\ lockType

LEMMA ScreenLocksInv == ASSUME BoxInv, ScreenLocks PROVE BoxInv'
<1> DEFINE b == [box EXCEPT !.place = "menu"]
<1>1. /\ b \in BoxType /\ b.place = "menu" /\ b.parts = box.parts /\ b.enabled = box.enabled
      /\ b.mode = box.mode /\ b.message = box.message /\ b.loading = box.loading
      /\ b.tip = box.tip /\ b.alertBeforeHide = box.alertBeforeHide
  BY DEF BoxInv, BoxFits, BoxType
<1>2. box' = b /\ handedOver' = (handedOver /\ b.loading) /\ box.place = "off"
  BY DEF ScreenLocks, BoxSees
<1> HIDE DEF b
<1> QED
  BY <1>1, <1>2 DEF BoxInv, BoxFits, BoxShown, TipDue, ScreenLocks, kindVars, waitVars

LEMMA RestoredInv ==
  ASSUME BoxInv, restoreBoxMode \/ ClickInBox
  PROVE  BoxInv'
<1> DEFINE b == restoreCenterContent(box)
<1>1. /\ b \in BoxType /\ b.place = "box" /\ b.parts = PartsNow(isLock)
      /\ b.enabled = box.enabled /\ b.mode = box.mode /\ b.message = box.message
      /\ ~b.loading /\ (b.tip => BoxShown(b)) /\ (TipDue(b) => TipDue(box))
  BY CenterRestored DEF BoxInv, BoxFits
<1>2. box' = b /\ handedOver' = (handedOver /\ b.loading)
  BY DEF restoreBoxMode, ClickInBox, BoxSees
<1> HIDE DEF b
<1>3. UNCHANGED <<kindVars, pendingAction, submitted, fingerListening, waitVars>>
  BY DEF restoreBoxMode, ClickInBox
<1> QED
  BY <1>1, <1>2, <1>3 DEF BoxInv, BoxFits, TipDue, BoxShown, kindVars, waitVars, PartsNow

LEMMA MenuOpensInv == ASSUME BoxInv, MenuOpens PROVE BoxInv'
<1> DEFINE h == hideEvent(box)
           b == [h EXCEPT !.place = "menu"]
<1>1. /\ SameBox(box, h) /\ h.message = box.message /\ h.loading = box.loading
      /\ (h.tip <=> box.tip /\ ~BoxShown(box))
      /\ h.alertBeforeHide <=> (IF BoxShown(box) THEN box.tip ELSE box.alertBeforeHide)
  BY FieldHidden DEF BoxInv, BoxFits
<1>2. box' = b /\ handedOver' = (handedOver /\ b.loading)
  BY DEF MenuOpens, BoxSees, Hidden
<1>3. UNCHANGED <<kindVars, pendingAction, submitted, fingerListening, waitVars>>
  BY DEF MenuOpens
<1> HIDE DEF h
<1>4. /\ b \in BoxType /\ b.place = "menu" /\ b.enabled = box.enabled /\ b.mode = box.mode
      /\ b.message = box.message /\ b.loading = box.loading /\ b.tip = h.tip
      /\ b.alertBeforeHide = h.alertBeforeHide
  BY <1>1 DEF SameBox, BoxType
<1>5. ~b.tip /\ (TipDue(b) => TipDue(box))
  BY <1>1, <1>4 DEF BoxInv, BoxFits, TipDue
<1> HIDE DEF b
<1> QED
  BY <1>2, <1>3, <1>4, <1>5 DEF BoxInv, BoxFits, kindVars, waitVars, PartsNow

(* A box that is restored or not, and has its mode back.                     *)
LEMMA ModeIsBack ==
  ASSUME NEW b \in BoxType
  PROVE  LET c == normalMode(b) IN
         /\ c \in BoxType /\ c.place = b.place /\ c.parts = b.parts /\ c.enabled = b.enabled
         /\ c.loading = b.loading /\ c.message = b.message /\ c.alertBeforeHide = b.alertBeforeHide
         /\ c.mode = NormalAction /\ ~c.tip
  BY DEF normalMode, hideAlert, BoxType

LEMMA PowerChosenInv ==
  ASSUME BoxInv, NEW a \in PowerChoices, setPowerAction(a), "again" \notin Mishaps
  PROVE  BoxInv'
<1> DEFINE marked == [box EXCEPT !.mode = ModeOf[a]]
           answered == IF a = pendingAction \/ a \notin DOMAIN ModeOf THEN box
                     ELSE showAlert(marked, a)
           b == restoreCenterContent(answered)
<1>1. /\ lockType /\ box.place = "menu" /\ pendingAction = NormalAction /\ pendingAction' = a
      /\ box' = b /\ handedOver' = (handedOver /\ b.loading)
      /\ UNCHANGED <<kindVars, submitted, waitVars, fingerListening>>
  BY DEF setPowerAction, BoxSees
<1>2. a # NormalAction /\ (a \in DOMAIN ModeOf <=> a \in {"shutdown", "restart"}) /\ ~BoxShown(box)
  BY <1>1, Modes DEF PowerChoices, NormalAction, BoxShown
<1>3. /\ answered \in BoxType /\ answered.enabled = box.enabled /\ answered.mode = ModeFor(a)
      /\ answered.tip => BoxShown(answered)
      /\ TipDue(answered) /\ answered.message \in {"shutdown", "restart"} => answered.message = a
  <2>1. CASE a \in DOMAIN ModeOf
    <3>1. ModeOf[a] = a /\ a \in {"shutdown", "restart"}
      BY <1>2, <2>1, Modes
    <3>2. /\ marked \in BoxType /\ marked.place = box.place /\ marked.enabled = box.enabled
          /\ marked.mode = a /\ marked.tip = box.tip
      BY <3>1 DEF BoxInv, BoxFits, BoxType
    <3>3. answered = showAlert(marked, a)
      BY <1>1, <1>2, <2>1
    <3> HIDE DEF marked, answered
    <3>4. /\ SameBox(marked, answered) /\ answered.message = a
          /\ answered.tip <=> marked.tip \/ BoxShown(marked)
      BY <3>2, <3>3, AlertShown
    <3>5. ~answered.tip
      BY <1>1, <1>2, <3>2, <3>4 DEF BoxShown, BoxInv, BoxFits
    <3> QED
      BY <3>1, <3>2, <3>4, <3>5 DEF SameBox, ModeFor
  <2>2. CASE a \notin DOMAIN ModeOf
    <3>1. answered = box
      BY <2>2
    <3>2. ModeFor(a) = NormalAction /\ ModeFor(NormalAction) = NormalAction
      BY <1>2, <2>2 DEF ModeFor
    <3>3. NormalAction \notin {"shutdown", "restart"}
      BY DEF NormalAction
    <3> QED
      BY <1>1, <3>1, <3>2, <3>3 DEF BoxInv, BoxFits
  <2> QED
    BY <2>1, <2>2
<1> HIDE DEF marked, answered
<1>4. /\ b \in BoxType /\ b.place = "box" /\ b.parts = PartsNow(isLock)
      /\ b.enabled = answered.enabled /\ b.mode = answered.mode /\ b.message = answered.message
      /\ ~b.loading /\ (b.tip => BoxShown(b)) /\ (TipDue(b) => TipDue(answered))
  BY <1>3, CenterRestored
<1> HIDE DEF b
<1> QED
  BY <1>1, <1>3, <1>4 DEF BoxInv, BoxFits, kindVars, waitVars, PartsNow, TipDue, BoxShown

LEMMA AbortInv ==
  ASSUME BoxInv, abortOperation, "elsewhere" \notin Mishaps
  PROVE  BoxInv'
<1> DEFINE r == IF box.place = "menu" THEN restoreCenterContent(box) ELSE box
           b == IF pendingAction = NormalAction THEN r ELSE normalMode(r)
<1>1. /\ box.place \in {"box", "menu"} /\ pendingAction' = NormalAction
      /\ pendingAction = NormalAction \/ BoxShown(r) \/ ~r.alertBeforeHide
      /\ box' = b /\ handedOver' = (handedOver /\ b.loading)
      /\ UNCHANGED <<kindVars, submitted, waitVars, fingerListening>>
  BY DEF abortOperation, BoxSees, ForgetsNothing
<1>2. /\ r \in BoxType /\ r.place = "box" /\ r.parts = PartsNow(isLock)
      /\ r.enabled = box.enabled /\ r.mode = box.mode /\ r.message = box.message
      /\ (r.loading => box.loading) /\ (r.tip => BoxShown(r)) /\ (TipDue(r) => TipDue(box))
  BY <1>1, CenterRestored DEF BoxInv, BoxFits
<1> HIDE DEF r
<1>3. /\ b \in BoxType /\ b.place = "box" /\ b.parts = PartsNow(isLock)
      /\ b.enabled = box.enabled /\ b.mode = ModeFor(NormalAction)
      /\ (b.loading => box.loading) /\ (b.tip => BoxShown(b))
      /\ TipDue(b) => TipDue(box) /\ b.message = box.message /\ pendingAction = NormalAction
  <2>1. CASE pendingAction = NormalAction
    BY <1>2, <2>1 DEF BoxInv
  <2>2. CASE pendingAction # NormalAction
    <3>1. b = normalMode(r)
      BY <2>2
    <3>2. /\ b \in BoxType /\ b.place = r.place /\ b.parts = r.parts /\ b.enabled = r.enabled
          /\ b.loading = r.loading /\ b.message = r.message /\ b.alertBeforeHide = r.alertBeforeHide
          /\ b.mode = NormalAction /\ ~b.tip
      BY <1>2, <3>1, ModeIsBack
    <3> HIDE DEF b
    <3>3. ~TipDue(b)
      BY <1>1, <2>2, <3>2 DEF TipDue, BoxShown
    <3> QED
      BY <1>2, <3>2, <3>3 DEF ModeFor
  <2> QED
    BY <2>1, <2>2
<1> HIDE DEF b
<1> QED
  BY <1>1, <1>3 DEF BoxInv, BoxFits, kindVars, waitVars, PartsNow, TipDue, BoxShown

LEMMA TypedInBoxInv ==
  ASSUME BoxInv, Edits \/ inputDone
  PROVE  BoxInv'
<1> DEFINE h == hideAlert(box)
           b == [h EXCEPT !.loading = submitted \/ MayAuth]
<1>1. /\ SameBox(box, h) /\ h.message = box.message /\ h.loading = box.loading /\ ~h.tip
      /\ h.alertBeforeHide = box.alertBeforeHide
  BY DEF BoxInv, BoxFits, BoxType, SameBox, hideAlert
<1> HIDE DEF h
<1>2. /\ SameBox(box, b) /\ b.message = box.message /\ b.loading = (submitted \/ MayAuth) /\ ~b.tip
      /\ b.alertBeforeHide = box.alertBeforeHide
  <2>1. submitted \/ MayAuth \in BOOLEAN
    BY DEF BoxInv, MayAuth
  <2> QED
    BY <1>1, <2>1 DEF SameBox, BoxType
<1> HIDE DEF b
<1>3. BoxShown(box) /\ box.enabled
  BY DEF Edits, inputDone
<1>4. UNCHANGED <<kindVars, pendingAction, fingerListening, waitVars>>
  BY DEF Edits, inputDone
<1>5. BoxShown(h) /\ BoxShown(b)
  BY <1>1, <1>2, <1>3 DEF SameBox, BoxShown
<1>6. CASE Edits
  <2>1. box' = h /\ handedOver' = (handedOver /\ h.loading) /\ submitted' = submitted
    BY <1>6 DEF Edits, BoxSees, h
  <2> QED
    BY <1>1, <1>3, <1>4, <1>5, <2>1 DEF BoxInv, BoxFits, kindVars, waitVars, PartsNow, TipDue, SameBox
<1>7. CASE inputDone
  <2>1. /\ box' = b /\ handedOver' = (handedOver /\ b.loading)
        /\ submitted' = (submitted \/ MayAuth)
    BY <1>7 DEF inputDone, BoxSees, b, h
  <2>2. submitted' \in BOOLEAN
    BY <2>1 DEF BoxInv, MayAuth
  <2>3. b.place = "box"
    BY <1>5 DEF BoxShown
  <2> QED
    BY <1>2, <1>3, <1>4, <1>5, <2>1, <2>2, <2>3
       DEF BoxInv, BoxFits, kindVars, waitVars, PartsNow, TipDue, SameBox
<1> QED
  BY <1>6, <1>7

LEMMA LoginClickedInv == ASSUME BoxInv, loginClicked PROVE BoxInv'
<1>1. /\ box.place = "box" /\ "login" \in box.parts /\ submitted' = (submitted \/ MayAuth)
      /\ UNCHANGED <<kindVars, box, pendingAction, fingerListening, handedOver, waitVars>>
  BY DEF loginClicked
<1>2. ~lockType
  BY <1>1 DEF BoxInv, PartsNow
<1>3. submitted' \in BOOLEAN
  BY <1>1 DEF BoxInv, MayAuth
<1> QED
  BY <1>1, <1>2, <1>3 DEF BoxInv, BoxFits, kindVars, waitVars, PartsNow, TipDue, BoxShown

(* What is hidden after all was reset has nothing left to say.               *)
LEMMA ResetAndHidden ==
  ASSUME NEW b \in BoxType, NEW place \in {"off", "gone"}
  PROVE  LET c == Hidden(resetAllState(b), place) IN
         /\ c \in BoxType /\ c.place = place /\ c.enabled = b.enabled /\ c.message = b.message
         /\ c.mode = NormalAction /\ ~c.loading /\ ~c.tip
         /\ c.alertBeforeHide = (~BoxShown(b) /\ b.alertBeforeHide)
<1> DEFINE n == normalMode(b)
           r == hideLoadSlider(n)
           h == hideEvent(r)
<1>1. /\ n \in BoxType /\ n.place = b.place /\ n.parts = b.parts /\ n.enabled = b.enabled
      /\ n.loading = b.loading /\ n.message = b.message /\ n.alertBeforeHide = b.alertBeforeHide
      /\ n.mode = NormalAction /\ ~n.tip
  BY ModeIsBack
<1> HIDE DEF n
<1>2. /\ SameBox(n, r) /\ r.message = n.message /\ r.alertBeforeHide = n.alertBeforeHide
      /\ r.tip = n.tip /\ ~r.loading
  BY <1>1 DEF hideLoadSlider, SameBox, BoxType
<1> HIDE DEF r
<1>3. /\ SameBox(r, h) /\ h.message = r.message /\ h.loading = r.loading
      /\ (h.tip <=> r.tip /\ ~BoxShown(r))
      /\ h.alertBeforeHide <=> (IF BoxShown(r) THEN r.tip ELSE r.alertBeforeHide)
  BY <1>2, FieldHidden DEF SameBox
<1>4. BoxShown(r) = BoxShown(b)
  BY <1>1, <1>2 DEF SameBox, BoxShown
<1>5. h.alertBeforeHide = (~BoxShown(b) /\ b.alertBeforeHide)
  <2>1. h.alertBeforeHide \in BOOLEAN
    BY <1>3 DEF SameBox, BoxType
  <2>2. h.alertBeforeHide <=> ~BoxShown(b) /\ b.alertBeforeHide
    BY <1>1, <1>2, <1>3, <1>4
  <2> QED
    BY <2>1, <2>2
<1>6. Hidden(resetAllState(b), place) = [h EXCEPT !.place = place]
  BY DEF Hidden, resetAllState, r, n
<1> HIDE DEF h
<1>7. LET c == [h EXCEPT !.place = place] IN
      /\ c \in BoxType /\ c.place = place /\ c.enabled = h.enabled /\ c.message = h.message
      /\ c.mode = h.mode /\ c.loading = h.loading /\ c.tip = h.tip
      /\ c.alertBeforeHide = h.alertBeforeHide
  BY <1>3 DEF SameBox, BoxType
<1> QED
  BY <1>1, <1>2, <1>3, <1>5, <1>6, <1>7 DEF SameBox

LEMMA AdmittedInv ==
  ASSUME BoxInv, Admitted, lockType, ~isLock, "elsewhere" \notin Mishaps
  PROVE  BoxInv'
<1>1. /\ submitted' = FALSE /\ fingerListening' = FALSE /\ tryNum' = Tries
      /\ UNCHANGED <<kindVars, pendingAction, isLock, lockNum>>
  BY DEF Admitted
<1>2. tryNum' \in Int
  BY <1>1, InputBoxAssumption
<1>3. CASE pendingAction = NormalAction
  <2> DEFINE b == Hidden(resetAllState(box), "off")
  <2>1. /\ BoxShown(box) \/ ~box.alertBeforeHide
        /\ box' = b /\ handedOver' = FALSE
    BY <1>3 DEF Admitted, ForgetsNothing
  <2>2. /\ b \in BoxType /\ b.place = "off" /\ b.enabled = box.enabled /\ b.message = box.message
        /\ b.mode = NormalAction /\ ~b.loading /\ ~b.tip
        /\ b.alertBeforeHide = (~BoxShown(box) /\ box.alertBeforeHide)
    BY ResetAndHidden DEF BoxInv, BoxFits
  <2> HIDE DEF b
  <2>3. ~b.alertBeforeHide /\ ModeFor(NormalAction) = NormalAction
    BY <2>1, <2>2 DEF ModeFor
  <2> QED
    BY <1>1, <1>2, <1>3, <2>1, <2>2, <2>3 DEF BoxInv, BoxFits, kindVars, TipDue
<1>4. CASE pendingAction # NormalAction
  <2>1. box' = box /\ handedOver' = box.loading
    BY <1>4 DEF Admitted
  <2>2. handedOver' \in BOOLEAN
    BY <2>1 DEF BoxInv, BoxFits, BoxType
  <2> QED
    BY <1>1, <1>2, <1>4, <2>1, <2>2 DEF BoxInv, BoxFits, kindVars, TipDue, PartsNow, BoxShown
<1> QED
  BY <1>3, <1>4

(* A message about a password or a finger.                                   *)
LEMMA SaidFits ==
  ASSUME BoxInv, NEW text \in {"wrong", "finger"}
  PROVE  LET c == showAlert(box, text) IN
         /\ c \in BoxType /\ c.place = box.place /\ c.parts = box.parts
         /\ c.enabled = box.enabled /\ c.mode = box.mode /\ ~c.loading /\ (c.tip => BoxShown(c))
         /\ c.message = text
<1> DEFINE c == showAlert(box, text)
<1>1. /\ SameBox(box, c) /\ c.message = text /\ ~c.loading
      /\ c.tip <=> box.tip \/ BoxShown(box)
  BY AlertShown DEF BoxInv, BoxFits
<1> HIDE DEF c
<1>2. BoxShown(c) = BoxShown(box)
  BY <1>1 DEF SameBox, BoxShown
<1>3. QED
  <2>1. /\ c \in BoxType /\ c.place = box.place /\ c.parts = box.parts
        /\ c.enabled = box.enabled /\ c.mode = box.mode /\ ~c.loading /\ (c.tip => BoxShown(c))
        /\ c.message = text
    BY <1>1, <1>2 DEF SameBox, BoxInv, BoxFits
  <2> QED
    BY <2>1 DEF c

LEMMA RejectedInv == ASSUME BoxInv, FingerRejected PROVE BoxInv'
<1> DEFINE b == showAlert(box, "finger")
<1>1. /\ lockType /\ fingerListening /\ ~submitted
      /\ box' = b /\ handedOver' = (handedOver /\ b.loading)
      /\ UNCHANGED <<kindVars, pendingAction, submitted, fingerListening, waitVars>>
  BY DEF FingerRejected, BoxSees
<1>2. /\ b \in BoxType /\ b.place = box.place /\ b.parts = box.parts /\ b.message = "finger"
      /\ b.enabled = box.enabled /\ b.mode = box.mode /\ ~b.loading /\ (b.tip => BoxShown(b))
  BY SaidFits
<1> HIDE DEF b
<1> QED
  BY <1>1, <1>2 DEF BoxInv, BoxFits, kindVars, waitVars, PartsNow

LEMMA WrongInv == ASSUME BoxInv, WrongPassword PROVE BoxInv'
<1> DEFINE said == showAlert(box, "wrong")
           b == disablePassword(said, TRUE)
<1>1. /\ submitted /\ lockType /\ submitted' = FALSE
      /\ UNCHANGED <<kindVars, pendingAction, fingerListening>>
  BY DEF WrongPassword
<1>2. /\ said \in BoxType /\ said.place = box.place /\ said.parts = box.parts
      /\ said.message = "wrong" /\ (said.tip => BoxShown(said))
      /\ said.enabled = box.enabled /\ said.mode = box.mode /\ ~said.loading
  BY SaidFits
<1> HIDE DEF said
<1>3. /\ b \in BoxType /\ b.place = said.place /\ b.parts = {"locked"}
      /\ ~b.enabled /\ b.mode = said.mode /\ b.message = said.message
      /\ ~b.loading /\ (b.tip => BoxShown(b))
  BY <1>2, PasswordDisabled
<1> HIDE DEF b
<1>4. ~isLock /\ box.place # "off"
  BY <1>1 DEF BoxInv
<1>5. CASE tryNum > 1
  <2>1. /\ tryNum' = tryNum - 1 /\ UNCHANGED <<isLock, lockNum>>
        /\ box' = said /\ handedOver' = (handedOver /\ said.loading)
    BY <1>4, <1>5 DEF WrongPassword, BoxSees, said
  <2>2. tryNum' \in Int /\ lockNum' \in Int
    BY <2>1 DEF BoxInv
  <2> QED
    BY <1>1, <1>2, <1>4, <2>1, <2>2 DEF BoxInv, BoxFits, kindVars, PartsNow
<1>6. CASE ~(tryNum > 1)
  <2>1. /\ tryNum' = 0 /\ isLock' = TRUE /\ lockNum' = lockNum - 1
        /\ box' = b /\ handedOver' = (handedOver /\ b.loading)
    BY <1>4, <1>6 DEF WrongPassword, BoxSees, b, said
  <2>2. lockType' = lockType /\ PartsNow(TRUE)' = {"locked"} /\ PartsNow(isLock)' = {"locked"}
    BY <1>1, <2>1 DEF kindVars, PartsNow
  <2>3. b.enabled = ~isLock'
    BY <1>3, <2>1 DEF BoxType
  <2>4. tryNum' \in Int /\ lockNum' \in Int
    BY <2>1 DEF BoxInv
  <2> QED
    <3>1. /\ BoxFits(box)' /\ (box.place = "box" => box.parts = PartsNow(isLock))'
          /\ (box.mode = ModeFor(pendingAction))' /\ (box.enabled = ~isLock)'
          /\ ~box'.loading /\ box'.message = "wrong" /\ box'.place # "off"
      BY <1>1, <1>2, <1>3, <1>4, <2>1, <2>2, <2>3 DEF BoxInv, BoxFits
    <3>2. /\ submitted' = FALSE /\ handedOver' \in BOOLEAN /\ isLock' = TRUE /\ lockType'
          /\ lockType' \in BOOLEAN /\ isNoPasswdGrp' \in BOOLEAN /\ fingerListening' \in BOOLEAN
          /\ pendingAction' \in {NormalAction} \cup PowerChoices
      BY <1>1, <2>1 DEF BoxInv, kindVars
    <3> QED
      BY <2>1, <2>4, <3>1, <3>2 DEF BoxInv
<1> QED
  BY <1>5, <1>6

LEMMA TimerInv == ASSUME BoxInv, LockTimerFires PROVE BoxInv'
<1> DEFINE b == disablePassword(box, tryNum' = 0)
<1>1. /\ isLock /\ box' = b /\ handedOver' = (handedOver /\ b.loading)
      /\ UNCHANGED <<kindVars, pendingAction, submitted, fingerListening>>
  BY DEF LockTimerFires, BoxSees
<1>2. tryNum = 0 /\ ~submitted /\ lockType
  BY <1>1 DEF BoxInv
<1>3. /\ tryNum' \in Int /\ lockNum' \in Int /\ isLock' \in BOOLEAN
      /\ tryNum' = 0 <=> isLock'
  <2>1. CASE lockNum = 1
    <3>1. tryNum' = Tries /\ lockNum' = Minutes /\ isLock' = FALSE
      BY <2>1 DEF LockTimerFires, onLockTimeOut
    <3>2. tryNum' # 0 /\ tryNum' \in Int /\ lockNum' \in Int
      BY <3>1, InputBoxAssumption
    <3> QED
      BY <3>1, <3>2
  <2>2. CASE lockNum # 1
    <3>1. tryNum' = 0 /\ lockNum' = lockNum - 1 /\ isLock' = TRUE
      BY <1>2, <2>2 DEF LockTimerFires, onLockTimeOut
    <3>2. lockNum' \in Int
      BY <3>1 DEF BoxInv
    <3> QED
      BY <3>1, <3>2
  <2> QED
    BY <2>1, <2>2
<1> DEFINE d == tryNum' = 0
<1>4. d \in BOOLEAN /\ d = isLock'
  <2>1. d \in BOOLEAN /\ (d <=> isLock')
    BY <1>3
  <2> HIDE DEF d
  <2> QED
    BY <1>3, <2>1
<1>5. b = disablePassword(box, d)
  OBVIOUS
<1> HIDE DEF d, b
<1>6. /\ b \in BoxType /\ b.place = box.place
      /\ b.parts = (IF d THEN {"locked"} ELSE {"password"})
      /\ b.enabled = ~d /\ b.mode = box.mode /\ b.message = box.message
      /\ (b.loading => box.loading /\ ~d) /\ (b.tip => BoxShown(b)) /\ (TipDue(b) => TipDue(box))
      /\ (b.alertBeforeHide => TipDue(box))
  <2>1. box \in BoxType /\ (box.tip => BoxShown(box))
    BY DEF BoxInv, BoxFits
  <2>2. d \in BOOLEAN
    BY <1>4
  <2> QED
    BY <1>5, <2>1, <2>2, PasswordDisabled
<1>7. PartsNow(isLock)' = (IF d THEN {"locked"} ELSE {"password"})
  BY <1>1, <1>2, <1>4 DEF PartsNow, kindVars
<1>8. b.enabled = ~isLock' /\ (isLock' => tryNum' = 0)
  BY <1>3, <1>4, <1>6
<1>9. box.place = "off" => ~TipDue(box)
  BY DEF BoxInv, BoxFits, TipDue, BoxShown
<1>10. lockType' = lockType /\ isNoPasswdGrp' = isNoPasswdGrp /\ TipDue(box') = TipDue(b)
  BY <1>1 DEF kindVars
<1> QED
  BY <1>1, <1>2, <1>3, <1>6, <1>7, <1>8, <1>9, <1>10 DEF BoxInv, BoxFits

LEMMA GreeterHearsInv ==
  ASSUME BoxInv, NEW what \in {"succeeded", "failed", "message"}, GreeterHears(what)
  PROVE  BoxInv'
<1>1. /\ submitted /\ ~lockType /\ fingerListening /\ submitted' = (what = "message")
      /\ handedOver' = (handedOver /\ box'.loading)
      /\ UNCHANGED <<kindVars, pendingAction, fingerListening, waitVars>>
  BY DEF GreeterHears, BoxSees
<1>2. /\ ~isLock /\ pendingAction = NormalAction /\ box.place # "off" /\ submitted' \in BOOLEAN
      /\ box.mode = NormalAction /\ ModeFor(NormalAction) = NormalAction
  BY <1>1 DEF BoxInv, ModeFor
<1>3. CASE what = "succeeded"
  <2> DEFINE b == Hidden(resetAllState(box), "gone")
  <2>1. box' = b
    BY <1>3 DEF GreeterHears, BoxSees
  <2>2. /\ b \in BoxType /\ b.place = "gone" /\ b.enabled = box.enabled /\ b.message = box.message
        /\ b.mode = NormalAction /\ ~b.loading /\ ~b.tip
        /\ b.alertBeforeHide = (~BoxShown(box) /\ box.alertBeforeHide)
    BY ResetAndHidden DEF BoxInv, BoxFits
  <2> HIDE DEF b
  <2>3. TipDue(b) => TipDue(box)
    BY <2>2 DEF TipDue
  <2> QED
    BY <1>1, <1>2, <2>1, <2>2, <2>3 DEF BoxInv, BoxFits, kindVars, waitVars
<1>4. CASE what = "failed"
  <2> DEFINE b == showAlert(box, "wrong")
  <2>1. box' = b
    BY <1>4 DEF GreeterHears, BoxSees
  <2>2. /\ b \in BoxType /\ b.place = box.place /\ b.parts = box.parts /\ b.message = "wrong"
        /\ b.enabled = box.enabled /\ b.mode = box.mode /\ ~b.loading /\ (b.tip => BoxShown(b))
    BY SaidFits
  <2> HIDE DEF b
  <2> QED
    BY <1>1, <1>2, <2>1, <2>2 DEF BoxInv, BoxFits, kindVars, waitVars, PartsNow
<1>5. CASE what = "message"
  <2> DEFINE b == hideLoadSlider(box)
  <2>1. box' = b
    BY <1>5 DEF GreeterHears, BoxSees
  <2>2. /\ SameBox(box, b) /\ b.message = box.message /\ ~b.loading /\ b.tip = box.tip
        /\ b.alertBeforeHide = box.alertBeforeHide
    BY DEF BoxInv, BoxFits, BoxType, SameBox, hideLoadSlider
  <2> HIDE DEF b
  <2>3. BoxShown(b) = BoxShown(box) /\ TipDue(b) = TipDue(box)
    BY <2>2 DEF SameBox, BoxShown, TipDue
  <2> QED
    BY <1>1, <1>2, <2>1, <2>2, <2>3 DEF BoxInv, BoxFits, kindVars, waitVars, PartsNow, SameBox
<1> QED
  BY <1>3, <1>4, <1>5

LEMMA SocketLostInv == ASSUME BoxInv, onSocketLost PROVE BoxInv'
<1> DEFINE b == IF submitted THEN hideLoadSlider(box) ELSE box
<1>1. /\ box' = b /\ handedOver' = (handedOver /\ b.loading) /\ fingerListening' = FALSE
      /\ submitted' = FALSE /\ ~lockType /\ fingerListening
      /\ UNCHANGED <<kindVars, pendingAction, waitVars>>
  BY DEF onSocketLost, BoxSees
<1>2. /\ SameBox(box, b) /\ b.message = box.message /\ b.tip = box.tip
      /\ b.alertBeforeHide = box.alertBeforeHide /\ (b.loading => box.loading /\ ~submitted)
  BY ZenonT(60) DEF BoxInv, BoxFits, BoxType, SameBox, hideLoadSlider
<1> HIDE DEF b
<1>3. BoxShown(b) = BoxShown(box) /\ TipDue(b) = TipDue(box)
  BY <1>2 DEF SameBox, BoxShown, TipDue
<1> QED
  BY <1>1, <1>2, <1>3 DEF BoxInv, BoxFits, kindVars, waitVars, PartsNow, SameBox

LEMMA BoxInvKept ==
  ASSUME BoxInv, BoxNext, Mishaps = {}
  PROVE  BoxInv'
<1>1. CASE RightPassword \/ FingerMatches
  <2>1. lockType /\ ~isLock /\ Admitted
    BY <1>1 DEF RightPassword, FingerMatches, BoxInv
  <2> QED
    BY <2>1, AdmittedInv
<1> QED
  BY <1>1, ScreenLocksInv, RestoredInv, MenuOpensInv, PowerChosenInv, AbortInv, TypedInBoxInv,
     LoginClickedInv, RejectedInv, WrongInv, TimerInv, GreeterHearsInv, SocketLostInv DEF BoxNext

LEMMA BoxIsTrue == ASSUME Mishaps = {} PROVE Spec => []BoxTellsTruth
<1>1. Init => BoxInv
  <2> SUFFICES ASSUME BoxInit PROVE BoxInv
    BY DEF Init
  <2> DEFINE place == IF lockType THEN "off" ELSE "menu"
  <2>1. box = FreshBox(place) /\ place \in {"off", "menu"}
    BY DEF BoxInit
  <2> HIDE DEF place
  <2>2. /\ box \in BoxType /\ box.place = place /\ box.enabled /\ ~box.loading /\ ~box.tip
        /\ box.message = "" /\ ~box.alertBeforeHide /\ box.mode = NormalAction
    BY <2>1 DEF FreshBox, BoxType
  <2>3. box.enabled = TRUE
    BY <2>2 DEF BoxType
  <2>4. ModeFor(NormalAction) = NormalAction
    BY DEF ModeFor
  <2>5. place = "off" => lockType
    BY DEF place
  <2> QED
    <3>1. tryNum \in Int /\ lockNum \in Int
      BY InputBoxAssumption DEF BoxInit
    <3>2. BoxFits(box) /\ box.place # "box" /\ (TipDue(box) => box.message = "")
      BY <2>1, <2>2 DEF BoxFits
    <3>3. ~TipDue(box)
      BY <2>2 DEF TipDue
    <3>4. box.place = "off" => lockType
      BY <2>2, <2>5
    <3> QED
      BY <2>2, <2>3, <2>4, <3>1, <3>2, <3>3, <3>4 DEF BoxInit, BoxInv
<1>2. BoxInv /\ [Next]_servicesVars => BoxInv'
  <2>1. ASSUME BoxInv, UNCHANGED boxVars PROVE BoxInv'
    BY <2>1 DEF BoxInv, boxVars, BoxFits, BoxShown, TipDue, PartsNow
  <2>2. [Next]_servicesVars => BoxNext \/ UNCHANGED boxVars
  BY PartsApart
  <2> QED
    BY <2>1, <2>2, BoxInvKept
<1>3. BoxInv => BoxTellsTruth
  BY Modes DEF BoxInv, BoxFits, BoxTellsTruth, ModeFor, TipDue
<1> QED
  BY <1>1, <1>2, <1>3, PTL DEF Spec

-----------------------------------------------------------------------------
(* What PAM is answered.                                                     *)

LEMMA MaxOfOne == Max({1}) = 1
<1>1. \A x \in {1} : \A y \in {1} : x >= y
  OBVIOUS
<1> QED
  BY <1>1 DEF Max

LEMMA SubsetsOfOne ==
  /\ {1} \ {1} = {} /\ {1} # {} /\ {} \in SUBSET {1} /\ {1} \in SUBSET {1}
  /\ \A s \in SUBSET {1} : s = {} \/ s = {1}
  OBVIOUS

(* A fold over one message is one step.                                      *)
LEMMA RespondsOne ==
  ASSUME NEW k, NEW q, DOMAIN q = {1}
  PROVE  FoldLeft(getResponse, k, q) = getResponse(k, q[1])
<1> DEFINE step_(f) == [s \in SUBSET DOMAIN q |->
                          IF s = {} THEN k ELSE getResponse(f[s \ {Max(s)}], q[Max(s)])]
           iter == CHOOSE f : f = step_(f)
           h == [s \in SUBSET DOMAIN q |-> IF s = {} THEN k ELSE getResponse(k, q[1])]
<1>1. FoldLeft(getResponse, k, q) = iter[DOMAIN q]
  BY DEF FoldLeft, MapThenFoldSet
<1>2. h = step_(h)
  <2>1. h[{}] = k
    BY SubsetsOfOne
  <2>2. ASSUME NEW s \in SUBSET {1}, s # {}
        PROVE  getResponse(h[s \ {Max(s)}], q[Max(s)]) = getResponse(k, q[1])
    <3>1. Max(s) = 1 /\ s \ {Max(s)} = {}
      BY <2>2, SubsetsOfOne, MaxOfOne
    <3> HIDE DEF h
    <3> QED
      BY <3>1, <2>1
  <2> QED
    BY <2>2
<1> HIDE DEF h
<1>3. iter = step_(iter)
  <2> HIDE DEF step_
  <2> QED
    BY <1>2
<1> HIDE DEF iter
<1>4. iter[{}] = k
  BY <1>3, SubsetsOfOne
<1>5. iter[{1}] = getResponse(iter[{1} \ {Max({1})}], q[Max({1})])
  <2>1. {1} \in SUBSET DOMAIN q /\ {1} # {}
    BY SubsetsOfOne
  <2>2. \A s \in SUBSET DOMAIN q : iter[s] = step_(iter)[s]
    BY <1>3
  <2>3. step_(iter)[{1}] = getResponse(iter[{1} \ {Max({1})}], q[Max({1})])
    BY <2>1
  <2> HIDE DEF step_
  <2> QED
    BY <2>1, <2>2, <2>3
<1> QED
  BY <1>1, <1>4, <1>5, MaxOfOne, SubsetsOfOne

Takes(k, msg) == IF IsPrompt(msg) THEN insertPrompt(k, msg, TRUE) ELSE handleInfo(k, msg, TRUE)

LEMMA TakesOne ==
  ASSUME NEW k, NEW q, DOMAIN q = {1}
  PROVE  FoldLeft(LAMBDA c, msg : IF IsPrompt(msg) THEN insertPrompt(c, msg, TRUE) ELSE handleInfo(c, msg, TRUE), k, q) = Takes(k, q[1])
<1> DEFINE step_(f) == [s \in SUBSET DOMAIN q |->
                          IF s = {} THEN k ELSE Takes(f[s \ {Max(s)}], q[Max(s)])]
           iter == CHOOSE f : f = step_(f)
           h == [s \in SUBSET DOMAIN q |-> IF s = {} THEN k ELSE Takes(k, q[1])]
<1>1. FoldLeft(LAMBDA c, msg : IF IsPrompt(msg) THEN insertPrompt(c, msg, TRUE) ELSE handleInfo(c, msg, TRUE), k, q) = iter[DOMAIN q]
  BY DEF FoldLeft, MapThenFoldSet, Takes
<1>2. h = step_(h)
  <2>1. h[{}] = k
    BY SubsetsOfOne
  <2>2. ASSUME NEW s \in SUBSET {1}, s # {}
        PROVE  Takes(h[s \ {Max(s)}], q[Max(s)]) = Takes(k, q[1])
    <3>1. Max(s) = 1 /\ s \ {Max(s)} = {}
      BY <2>2, SubsetsOfOne, MaxOfOne
    <3> HIDE DEF h
    <3> QED
      BY <3>1, <2>1
  <2> QED
    BY <2>2
<1> HIDE DEF h
<1>3. iter = step_(iter)
  <2> HIDE DEF step_
  <2> QED
    BY <1>2
<1> HIDE DEF iter
<1>4. iter[{}] = k
  BY <1>3, SubsetsOfOne
<1>5. iter[{1}] = Takes(iter[{1} \ {Max({1})}], q[Max({1})])
  <2>1. {1} \in SUBSET DOMAIN q /\ {1} # {}
    BY SubsetsOfOne
  <2>2. \A s \in SUBSET DOMAIN q : iter[s] = step_(iter)[s]
    BY <1>3
  <2>3. step_(iter)[{1}] = Takes(iter[{1} \ {Max({1})}], q[Max({1})])
    BY <2>1
  <2> HIDE DEF step_
  <2> QED
    BY <2>1, <2>2, <2>3
<1> QED
  BY <1>1, <1>4, <1>5, MaxOfOne, SubsetsOfOne

LEMMA OneMessage ==
  ASSUME MaxMessages = 1, NEW messages \in SeqOf(PamMessages, MaxMessages) \ {<<>>}
  PROVE  messages \in [{1} -> PamMessages] /\ Len(messages) = 1 /\ messages = <<messages[1]>>
<1>1. PICK m \in 0 .. 1 : messages \in [1 .. m -> PamMessages]
  BY DEF SeqOf
<1>2. m # 0
  <2> SUFFICES ASSUME m = 0 PROVE FALSE
    OBVIOUS
  <2>1. 1 .. 0 = {} 
    OBVIOUS
  <2>2. messages = <<>>
    BY <1>1, <2>1
  <2> QED
    BY <2>2
<1>3. m = 1 /\ 1 .. 1 = {1}
  BY <1>2
<1> QED
  BY <1>1, <1>3

LEMMA ConverseOne ==
  ASSUME MaxMessages = 1, Converse
  PROVE  \E messages \in [{1} -> PamMessages] :
           LET kept == Takes(Kept(m_currentRequest, m_sent, FALSE), messages[1]) IN
           /\ Len(messages) = 1
           /\ conversation = <<>>
           /\ MayAnnounceEarly \/ ~(m_sent /\ "changing" \in messages[1].words)
           /\ IF kept.new /\ ~kept.sent /\ kept.prompts # <<>>
                THEN /\ conversation' = messages
                     /\ m_currentRequest' = kept.prompts /\ m_sent' = kept.sent
                     /\ UNCHANGED given
                ELSE Respond(messages, kept.prompts, kept.sent)
<1>1. PICK messages \in SeqOf(PamMessages, MaxMessages) \ {<<>>} :
       LET predict == Len(messages) = 1
           Put(k, msg) == IF IsPrompt(msg) THEN insertPrompt(k, msg, predict)
                          ELSE handleInfo(k, msg, predict)
           kept == FoldLeft(Put, Kept(m_currentRequest, m_sent, FALSE), messages)
       IN  /\ MayAnnounceEarly \/ ~(m_sent /\ \E i \in DOMAIN messages :
                                               "changing" \in messages[i].words)
           /\ IF kept.new /\ ~kept.sent /\ kept.prompts # <<>>
                THEN /\ conversation' = messages
                     /\ m_currentRequest' = kept.prompts /\ m_sent' = kept.sent
                     /\ UNCHANGED given
                ELSE Respond(messages, kept.prompts, kept.sent)
  BY DEF Converse, FoldLeft, MapThenFoldSet
<1>2. messages \in [{1} -> PamMessages] /\ Len(messages) = 1
  BY OneMessage
<1> DEFINE kept == FoldLeft(LAMBDA c, msg : IF IsPrompt(msg) THEN insertPrompt(c, msg, TRUE)
                                            ELSE handleInfo(c, msg, TRUE),
                            Kept(m_currentRequest, m_sent, FALSE), messages)
<1>3. conversation = <<>>
  BY DEF Converse
<1>4. /\ MayAnnounceEarly \/ ~(m_sent /\ \E i \in DOMAIN messages :
                                               "changing" \in messages[i].words)
      /\ IF kept.new /\ ~kept.sent /\ kept.prompts # <<>>
                THEN /\ conversation' = messages
                     /\ m_currentRequest' = kept.prompts /\ m_sent' = kept.sent
                     /\ UNCHANGED given
                ELSE Respond(messages, kept.prompts, kept.sent)
  BY <1>1, <1>2 DEF FoldLeft, MapThenFoldSet
<1>5. kept = Takes(Kept(m_currentRequest, m_sent, FALSE), messages[1])
  BY <1>2, TakesOne
<1> HIDE DEF kept
<1> QED
  BY <1>2, <1>3, <1>4, <1>5

PromptType ==
  {"LOGIN_USER", "LOGIN_PASSWORD", "CHANGE_CURRENT", "CHANGE_NEW", "CHANGE_REPEAT", "UNKNOWN"}

LEMMA Detected ==
  ASSUME NEW msg
  PROVE  /\ detectPrompt(msg) \in PromptType
         /\ ~IsPrompt(msg) => detectPrompt(msg) = "LOGIN_USER"
         /\ detectPrompt(msg) = "CHANGE_REPEAT" => IsPrompt(msg)
  BY DEF detectPrompt, IsPrompt, PromptType

LEMMA StoredFirst ==
  ASSUME NEW q, NEW t, Len(q) \in Nat \ {0}, q[1].type = t
  PROVE  Stored(q, t) = 1
<1> DEFINE I == {i \in 1 .. Len(q) : q[i].type = t}
<1>1. 1 \in I /\ \A i \in I : 1 <= i /\ i \in Nat
  OBVIOUS
<1>2. Stored(q, t) = IF I # {} THEN Min(I) ELSE 0
  BY DEF Stored, SelectInSeq
<1> HIDE DEF I
<1>3. Min(I) = 1
  <2>1. Min(I) = CHOOSE x \in I : \A y \in I : x <= y
    BY DEF Min
  <2>2. \A x \in I : (\A y \in I : x <= y) <=> x = 1
    BY <1>1
  <2> QED
    BY <1>1, <2>1, <2>2
<1> QED
  BY <1>1, <1>2, <1>3

LEMMA StoredNowhere ==
  ASSUME NEW q, NEW t, \A i \in 1 .. Len(q) : q[i].type # t
  PROVE  Stored(q, t) = 0
  BY DEF Stored, SelectInSeq

LEMMA FirstTaken ==
  ASSUME NEW a, NEW b
  PROVE  RemoveAt(<<a>>, 1) = <<>> /\ RemoveAt(<<a, b>>, 1) = <<b>>
<1>1. SubSeq(<<a>>, 1, 0) = <<>> /\ SubSeq(<<a>>, 2, 1) = <<>>
  OBVIOUS
<1>2. SubSeq(<<a, b>>, 1, 0) = <<>>
  OBVIOUS
<1>3. SubSeq(<<a, b>>, 2, 2) = <<b>>
  <2>1. <<a, b>> \in Seq({a, b}) /\ Len(<<a, b>>) = 2 /\ 2 \in 1 .. 3
    OBVIOUS
  <2>2. /\ SubSeq(<<a, b>>, 2, 2) \in Seq({a, b})
        /\ Len(SubSeq(<<a, b>>, 2, 2)) = 1
        /\ SubSeq(<<a, b>>, 2, 2)[1] = <<a, b>>[2]
    BY <2>1, SubSeqProperties
  <2> DEFINE q == SubSeq(<<a, b>>, 2, 2)
  <2> HIDE DEF q
  <2>3. q \in Seq({a, b}) /\ Len(q) = 1 /\ q[1] = b
    BY <2>2 DEF q
  <2>4. q = <<b>>
    BY <2>3
  <2> QED
    BY <2>4 DEF q
<1>4. Len(<<a>>) = 1 /\ Len(<<a, b>>) = 2
  OBVIOUS
<1>5. RemoveAt(<<a>>, 1) = <<>> \o <<>>
  BY <1>1, <1>4 DEF RemoveAt
<1>6. RemoveAt(<<a, b>>, 1) = <<>> \o <<b>>
  <2>1. RemoveAt(<<a, b>>, 1) = SubSeq(<<a, b>>, 1, 1 - 1) \o SubSeq(<<a, b>>, 1 + 1, Len(<<a, b>>))
    BY Zenon DEF RemoveAt
  <2>2. 1 - 1 = 0 /\ 1 + 1 = 2
    OBVIOUS
  <2> QED
    BY <1>2, <1>3, <1>4, <2>1, <2>2, Zenon
<1>7. <<>> \o <<>> = <<>> /\ <<>> \o <<b>> = <<b>>
  OBVIOUS
<1> QED
  BY <1>5, <1>6, <1>7

(* What an answer is that waits for its question, and one that was given.    *)
Answer(type, response) == [type |-> type, response |-> response]
Waiting == {<<Answer("LOGIN_PASSWORD", "password")>>, <<Answer("CHANGE_REPEAT", "password")>>}
Right(g) ==
  IsPrompt(g[1]) =>
    /\ g[2] # NoAnswer
    /\ detectPrompt(g[1]) = "LOGIN_USER" => g[2] = "user"
    /\ detectPrompt(g[1]) \in {"LOGIN_PASSWORD", "CHANGE_REPEAT"} => g[2] = "password"

ConversationInv ==
  /\ \A g \in given : Right(g)
  /\ step # "gone" /\ conversation = <<>> =>
       \/ m_sent = TRUE /\ m_currentRequest \in Waiting
       \/ m_sent = FALSE /\ m_currentRequest \in {<<>>, changePassRequest}
  /\ step # "gone" /\ conversation # <<>> =>
       /\ m_sent = FALSE /\ DOMAIN conversation = {1} /\ IsPrompt(conversation[1])
       /\ \/ m_currentRequest = Predicted(detectPrompt(conversation[1]))
          \/ Len(m_currentRequest) \in {3, 4}

LEMMA RightAnswers == ConversationInv => AnswersMatchPrompts
<1> SUFFICES ASSUME ConversationInv PROVE AnswersMatchPrompts
  OBVIOUS
<1>1. \A g \in given : Right(g)
  BY DEF ConversationInv
<1>2. ASSUME NEW g \in given, NEW h \in given, detectPrompt(g[1]) = "CHANGE_NEW",
             detectPrompt(h[1]) = "CHANGE_REPEAT", g[2] = h[2]
      PROVE  g[2] = "password"
  <2>1. IsPrompt(h[1])
    BY <1>2, Detected
  <2> QED
    BY <1>1, <1>2, <2>1 DEF Right
<1> QED
  BY <1>1, <1>2 DEF Right, AnswersMatchPrompts

(* One message is given its answer from the prompts that are kept.           *)
LEMMA Responds ==
  ASSUME NEW messages, DOMAIN messages = {1}, NEW prompts, NEW isSent,
         Respond(messages, prompts, isSent)
  PROVE  LET t == detectPrompt(messages[1])
             i == Stored(prompts, t)
         IN  /\ conversation' = <<>>
             /\ m_currentRequest' = IF i = 0 THEN prompts ELSE RemoveAt(prompts, i)
             /\ m_sent' = (isSent /\ m_currentRequest' # <<>>)
             /\ given' = given \cup
                  {<<messages[1], IF i = 0 THEN NoAnswer ELSE prompts[i].response>>}
<1> DEFINE k == [prompts |-> prompts, sent |-> isSent, given |-> given]
<1>1. FoldLeft(getResponse, k, messages) = getResponse(k, messages[1])
  BY RespondsOne
<1>2. LET r == FoldLeft(getResponse, k, messages)
      IN  /\ m_currentRequest' = r.prompts /\ m_sent' = r.sent /\ given' = r.given
          /\ conversation' = <<>>
  BY DEF Respond, FoldLeft, MapThenFoldSet
<1>3. LET r == getResponse(k, messages[1])
      IN  /\ m_currentRequest' = r.prompts /\ m_sent' = r.sent /\ given' = r.given
          /\ conversation' = <<>>
  BY <1>1, <1>2
<1> QED
  BY <1>3 DEF getResponse

LEMMA ChangeLength ==
  /\ Len(changePassRequest) = 3 /\ changePassRequest # <<>>
  /\ \A e : Len(Append(changePassRequest, e)) = 4
<1>1. changePassRequest = <<Unanswered("CHANGE_CURRENT"), Unanswered("CHANGE_NEW"), Unanswered("CHANGE_REPEAT")>>
  <2>1. ASSUME NEW a, NEW b, NEW c PROVE <<a>> \o <<b, c>> = <<a, b, c>>
    <3> DEFINE q == <<a>> \o <<b, c>>
    <3>1. <<a>> \in Seq({a, b, c}) /\ <<b, c>> \in Seq({a, b, c})
          /\ Len(<<a>>) = 1 /\ Len(<<b, c>>) = 2
      OBVIOUS
    <3>2. /\ q \in Seq({a, b, c}) /\ Len(q) = 3
          /\ q[1] = <<a>>[1] /\ q[2] = <<b, c>>[1] /\ q[3] = <<b, c>>[2]
      BY <3>1, ConcatProperties
    <3> HIDE DEF q
    <3>3. q = <<a, b, c>>
      BY <3>2
    <3> QED
      BY <3>3 DEF q
  <2> QED
    BY <2>1 DEF changePassRequest, changePassNoOldRequest
<1> QED
  BY <1>1

LEMMA ConverseInv ==
  ASSUME MaxMessages = 1, ~MayAnnounceEarly, ConversationInv, Converse
  PROVE  ConversationInv'
<1>1. PICK messages \in [{1} -> PamMessages] :
           LET kept == Takes(Kept(m_currentRequest, m_sent, FALSE), messages[1]) IN
           /\ Len(messages) = 1
           /\ conversation = <<>>
           /\ MayAnnounceEarly \/ ~(m_sent /\ "changing" \in messages[1].words)
           /\ IF kept.new /\ ~kept.sent /\ kept.prompts # <<>>
                THEN /\ conversation' = messages
                     /\ m_currentRequest' = kept.prompts /\ m_sent' = kept.sent
                     /\ UNCHANGED given
                ELSE Respond(messages, kept.prompts, kept.sent)
  BY ConverseOne
<1> DEFINE msg == messages[1]
           type == detectPrompt(msg)
           k == Kept(m_currentRequest, m_sent, FALSE)
           kept == Takes(k, msg)
<1>2. /\ step # "gone" /\ step' = step /\ conversation = <<>> /\ DOMAIN messages = {1}
      /\ messages # <<>>
  <2>1. /\ step # "gone" /\ step' = step
    BY DEF Converse
  <2>2. /\ conversation = <<>> /\ DOMAIN messages = {1} /\ Len(messages) = 1
    BY <1>1
  <2>3. messages # <<>>
    <3> SUFFICES ASSUME messages = <<>> PROVE FALSE
      OBVIOUS
    <3>1. DOMAIN <<>> = {}
      OBVIOUS
    <3> QED
      BY <2>2, <3>1
  <2> QED
    BY <2>1, <2>2, <2>3
<1>3. k.prompts = m_currentRequest /\ k.sent = m_sent /\ k.new = FALSE
  BY DEF Kept
<1>4. type \in PromptType /\ (~IsPrompt(msg) => type = "LOGIN_USER")
  BY Detected
<1>5. \A g \in given : Right(g)
  BY DEF ConversationInv
<1>6. ASSUME NEW prompts, NEW isSent, kept = Kept(prompts, isSent, TRUE), isSent = FALSE, prompts # <<>>
      PROVE  conversation' = messages /\ m_currentRequest' = prompts /\ m_sent' = FALSE /\ given' = given
  BY <1>1, <1>6 DEF Kept
<1>7. ASSUME NEW prompts, NEW isSent, kept = Kept(prompts, isSent, FALSE)
      PROVE  LET i == Stored(prompts, type)
             IN  /\ conversation' = <<>>
                 /\ m_currentRequest' = IF i = 0 THEN prompts ELSE RemoveAt(prompts, i)
                 /\ m_sent' = (isSent /\ m_currentRequest' # <<>>)
                 /\ given' = given \cup {<<msg, IF i = 0 THEN NoAnswer ELSE prompts[i].response>>}
  <2>1. Respond(messages, prompts, isSent)
    BY <1>1, <1>7 DEF Kept
  <2> QED
    BY <1>2, <2>1, Responds
<1>8. kept = IF IsPrompt(msg) THEN insertPrompt(k, msg, TRUE) ELSE handleInfo(k, msg, TRUE)
  BY DEF Takes
<1>9. \/ m_sent = TRUE /\ m_currentRequest \in Waiting
      \/ m_sent = FALSE /\ m_currentRequest \in {<<>>, changePassRequest}
  BY <1>2 DEF ConversationInv
<1> HIDE DEF kept, k, type
<1>10. CASE IsPrompt(msg) /\ m_sent = TRUE /\ Stored(m_currentRequest, type) # 0
  <2>1. kept = Kept(m_currentRequest, TRUE, FALSE)
    BY <1>3, <1>8, <1>10 DEF insertPrompt, type
  <2>2. PICK e \in {Answer("LOGIN_PASSWORD", "password"), Answer("CHANGE_REPEAT", "password")} :
          m_currentRequest = <<e>>
    BY <1>9, <1>10 DEF Waiting
  <2>3. e.type = type /\ Stored(m_currentRequest, type) = 1
    <3>1. e.type # type => Stored(<<e>>, type) = 0
      BY StoredNowhere
    <3>2. e.type = type => Stored(<<e>>, type) = 1
      BY StoredFirst
    <3> QED
      BY <1>10, <2>2, <3>1, <3>2
  <2>4. e.response = "password" /\ e.type \in {"LOGIN_PASSWORD", "CHANGE_REPEAT"}
    BY DEF Answer
  <2>5. /\ conversation' = <<>> /\ m_currentRequest' = <<>> /\ m_sent' = FALSE
        /\ given' = given \cup {<<msg, "password">>}
    <3>1. LET i == Stored(m_currentRequest, type)
          IN  /\ conversation' = <<>>
              /\ m_currentRequest' = IF i = 0 THEN m_currentRequest ELSE RemoveAt(m_currentRequest, i)
              /\ m_sent' = (TRUE /\ m_currentRequest' # <<>>)
              /\ given' = given \cup {<<msg, IF i = 0 THEN NoAnswer ELSE m_currentRequest[i].response>>}
      BY <1>7, <2>1
    <3>2. /\ conversation' = <<>> /\ m_currentRequest' = RemoveAt(m_currentRequest, 1)
          /\ m_sent' = (TRUE /\ m_currentRequest' # <<>>)
          /\ given' = given \cup {<<msg, m_currentRequest[1].response>>}
      BY <2>3, <3>1
    <3>3. m_currentRequest[1].response = "password" /\ RemoveAt(m_currentRequest, 1) = <<>>
      BY <2>2, <2>4, FirstTaken
    <3> QED
      BY <3>2, <3>3
  <2>6. Right(<<msg, "password">>)
    BY <2>3, <2>4 DEF Right, NoAnswer, type
  <2> QED
    BY <1>2, <1>5, <2>5, <2>6 DEF ConversationInv
<1>11. CASE IsPrompt(msg) /\ (m_sent = FALSE \/ Stored(m_currentRequest, type) = 0)
  <2>1. ASSUME NEW prompts, kept = Kept(prompts, FALSE, TRUE), prompts # <<>>,
               prompts = Predicted(type) \/ Len(prompts) \in {3, 4}
        PROVE  ConversationInv'
    <3>1. conversation' = messages /\ m_currentRequest' = prompts /\ m_sent' = FALSE /\ given' = given
      BY <1>6, <2>1
    <3> QED
      BY <1>2, <1>5, <1>11, <2>1, <3>1 DEF ConversationInv, type
  <2>2. CASE Stored(m_currentRequest, type) # 0
    <3>1. kept = Kept(m_currentRequest, FALSE, TRUE)
      BY <1>3, <1>8, <1>11, <2>2 DEF insertPrompt, type
    <3>2. m_currentRequest # <<>>
      BY <2>2, StoredNowhere
    <3>3. Len(m_currentRequest) = 3
      BY <1>9, <1>11, <2>2, <3>2 DEF changePassRequest, changePassNoOldRequest
    <3> QED
      BY <2>1, <3>1, <3>2, <3>3
  <2>3. CASE Stored(m_currentRequest, type) = 0
    <3> DEFINE old == IF m_sent THEN <<>> ELSE m_currentRequest
               prompts == IF Predicted(type) # <<Unanswered(type)>> THEN Predicted(type)
                          ELSE Append(old, Unanswered(type))
    <3>1. kept = Kept(prompts, FALSE, TRUE)
      BY <1>3, <1>8, <1>11, <2>3 DEF insertPrompt, type
    <3>2. old = <<>> \/ old = changePassRequest
      BY <1>9
    <3>3. prompts = Predicted(type) \/ Len(prompts) = 4
      <4>1. CASE Predicted(type) # <<Unanswered(type)>>
        BY <4>1
      <4>2. CASE Predicted(type) = <<Unanswered(type)>> /\ old = <<>>
        <5>1. Append(<<>>, Unanswered(type)) = <<Unanswered(type)>>
          OBVIOUS
        <5> QED
          BY <4>2, <5>1
      <4>3. CASE Predicted(type) = <<Unanswered(type)>> /\ old = changePassRequest
        <5>1. Len(Append(changePassRequest, Unanswered(type))) = 4
          BY ChangeLength
        <5> QED
          BY <4>3, <5>1
      <4> QED
        BY <3>2, <4>1, <4>2, <4>3
    <3>4. prompts # <<>>
      <4>1. Predicted(type) # <<>>
        BY ChangeLength DEF changePassNoOldRequest, Predicted, loginRequest
      <4>2. Len(<<>>) # 4
        OBVIOUS
      <4> QED
        BY <3>3, <4>1, <4>2
    <3> QED
      BY <2>1, <3>1, <3>3, <3>4
  <2> QED
    BY <2>2, <2>3
<1>12. CASE ~IsPrompt(msg)
  <2>1. ASSUME NEW prompts, NEW isSent, kept = Kept(prompts, isSent, FALSE),
               \/ isSent = TRUE /\ prompts \in Waiting
               \/ isSent = FALSE /\ prompts \in {<<>>, changePassRequest}
        PROVE  ConversationInv'
    <3>1. \A i \in 1 .. Len(prompts) : prompts[i].type # "LOGIN_USER"
      BY <2>1 DEF Waiting, Answer, changePassRequest, changePassNoOldRequest, Unanswered
    <3>2. Stored(prompts, type) = 0
      BY <1>4, <1>12, <3>1, StoredNowhere
    <3>3. /\ conversation' = <<>> /\ m_currentRequest' = prompts
          /\ m_sent' = (isSent /\ prompts # <<>>) /\ given' = given \cup {<<msg, NoAnswer>>}
      BY <1>7, <2>1, <3>2
    <3>4. m_sent' = isSent
      <4>1. CASE isSent = FALSE
        BY <3>3, <4>1
      <4>2. CASE isSent = TRUE /\ prompts \in Waiting
        <5>1. \A e : <<e>> # <<>>
          OBVIOUS
        <5>2. prompts # <<>>
          BY <4>2, <5>1 DEF Waiting
        <5> QED
          BY <3>3, <4>2, <5>2
      <4> QED
        BY <2>1, <4>1, <4>2
    <3>5. Right(<<msg, NoAnswer>>)
      BY <1>12 DEF Right
    <3> QED
      BY <1>2, <1>5, <2>1, <3>3, <3>4, <3>5 DEF ConversationInv
  <2>2. CASE "changing" \in msg.words
    <3>1. kept = Kept(changePassRequest, m_sent, FALSE)
      BY <1>3, <1>8, <1>12, <2>2 DEF handleInfo
    <3>2. m_sent = FALSE
      BY <1>1, <1>9, <2>2
    <3> QED
      BY <2>1, <3>1, <3>2
  <2>3. CASE "changing" \notin msg.words
    <3>1. kept = Kept(m_currentRequest, m_sent, FALSE)
      BY <1>8, <1>12, <2>3 DEF handleInfo, k
    <3> QED
      BY <1>9, <2>1, <3>1
  <2> QED
    BY <2>2, <2>3
<1> QED
  BY <1>9, <1>10, <1>11, <1>12

LEMMA AnsweredInv ==
  ASSUME ConversationInv, RequestAnswered
  PROVE  ConversationInv'
<1> DEFINE msg == conversation[1]
           type == detectPrompt(msg)
           replies == Answers(m_currentRequest)
<1>1. /\ step # "gone" /\ step' = step /\ Len(m_currentRequest) \in 1 .. 2
      /\ Respond(conversation, replies, TRUE) /\ conversation # <<>>
  BY DEF RequestAnswered
<1>2. /\ DOMAIN conversation = {1} /\ IsPrompt(msg) /\ m_currentRequest = Predicted(type)
      /\ \A g \in given : Right(g)
  BY <1>1 DEF ConversationInv
<1>3. type \in PromptType \ {"CHANGE_CURRENT"}
  BY <1>1, <1>2, Detected DEF Predicted, changePassRequest, changePassNoOldRequest, PromptType
<1> HIDE DEF replies
<1>4. LET i == Stored(replies, type)
      IN  /\ conversation' = <<>>
          /\ m_currentRequest' = IF i = 0 THEN replies ELSE RemoveAt(replies, i)
          /\ m_sent' = (TRUE /\ m_currentRequest' # <<>>)
          /\ given' = given \cup {<<msg, IF i = 0 THEN NoAnswer ELSE replies[i].response>>}
  BY <1>1, <1>2, Responds
<1> HIDE DEF type
<1>5. ASSUME NEW b, NEW r, replies = <<Answer(type, r), b>>, r # NoAnswer,
             type = "LOGIN_USER" => r = "user",
             type \in {"LOGIN_PASSWORD", "CHANGE_REPEAT"} => r = "password",
             <<b>> \in Waiting
      PROVE  ConversationInv'
  <2>1. Stored(replies, type) = 1
    BY <1>5, StoredFirst DEF Answer
  <2>2. /\ conversation' = <<>> /\ m_currentRequest' = <<b>> /\ m_sent' = TRUE
        /\ given' = given \cup {<<msg, r>>}
    <3>1. replies[1].response = r /\ RemoveAt(replies, 1) = <<b>> /\ <<b>> # <<>>
      BY <1>5, FirstTaken DEF Answer
    <3>2. /\ conversation' = <<>> /\ m_currentRequest' = RemoveAt(replies, 1)
          /\ m_sent' = (TRUE /\ m_currentRequest' # <<>>)
          /\ given' = given \cup {<<msg, replies[1].response>>}
      BY <1>4, <2>1
    <3> QED
      BY <3>1, <3>2
  <2>3. Right(<<msg, r>>)
    BY <1>5 DEF Right, type
  <2> QED
    BY <1>1, <1>2, <1>5, <2>2, <2>3 DEF ConversationInv
<1>6. ASSUME replies = <<Answer(type, "password")>>, type # "LOGIN_USER"
      PROVE  ConversationInv'
  <2>1. Stored(replies, type) = 1
    BY <1>6, StoredFirst DEF Answer
  <2>2. /\ conversation' = <<>> /\ m_currentRequest' = <<>> /\ m_sent' = FALSE
        /\ given' = given \cup {<<msg, "password">>}
    <3>1. replies[1].response = "password" /\ RemoveAt(replies, 1) = <<>>
      BY <1>6, FirstTaken DEF Answer
    <3>2. /\ conversation' = <<>> /\ m_currentRequest' = RemoveAt(replies, 1)
          /\ m_sent' = (TRUE /\ m_currentRequest' # <<>>)
          /\ given' = given \cup {<<msg, replies[1].response>>}
      BY <1>4, <2>1
    <3> QED
      BY <3>1, <3>2
  <2>3. Right(<<msg, "password">>)
    BY <1>6 DEF Right, type, NoAnswer
  <2> QED
    BY <1>1, <1>2, <2>2, <2>3 DEF ConversationInv
<1>7. CASE type = "LOGIN_USER"
  <2>1. replies = <<Answer("LOGIN_USER", "user"), Answer("LOGIN_PASSWORD", "password")>>
    BY <1>2, <1>7 DEF replies, Answers, AnswerTo, Predicted, loginRequest, Unanswered, Answer
  <2> QED
    BY <1>5, <1>7, <2>1 DEF Waiting, NoAnswer
<1>8. CASE type = "CHANGE_NEW"
  <2>1. replies = <<Answer("CHANGE_NEW", "user"), Answer("CHANGE_REPEAT", "password")>>
    BY <1>2, <1>8 DEF replies, Answers, AnswerTo, Predicted, changePassNoOldRequest, Unanswered, Answer
  <2> QED
    BY <1>5, <1>8, <2>1 DEF Waiting, NoAnswer
<1>9. CASE type \in {"LOGIN_PASSWORD", "CHANGE_REPEAT", "UNKNOWN"}
  <2>1. m_currentRequest = <<Unanswered(type)>>
    BY <1>2, <1>9 DEF Predicted
  <2>2. replies = <<Answer(type, "password")>>
    BY <2>1 DEF replies, Answers, AnswerTo, Unanswered, Answer
  <2> QED
    BY <1>6, <1>9, <2>2
<1> QED
  BY <1>3, <1>7, <1>8, <1>9 DEF PromptType

LEMMA HelperInv ==
  ASSUME MaxMessages = 1, ~MayAnnounceEarly, ConversationInv, HelperNext
  PROVE  ConversationInv'
<1>1. CASE UNCHANGED conversationVars /\ (step # "gone" \/ step' = "gone")
  BY <1>1 DEF ConversationInv, conversationVars
<1>2. CASE RequestNotAnswered
  BY <1>2 DEF RequestNotAnswered, Exit, ConversationInv
<1>3. CASE SetUp \/ PamStart \/ PamRefuses \/ AcctMgmt \/ OpenSession \/ StartSession
  BY <1>1, <1>3 DEF SetUp, PamStart, PamRefuses, AcctMgmt, OpenSession, StartSession, Exit
<1>4. CASE NoTerminal \/ CannotBecomeUser \/ SessionFinished \/ SigTerm \/ Killed
  BY <1>1, <1>4 DEF NoTerminal, CannotBecomeUser, SessionFinished, SigTerm, Killed, Exit
<1> QED
  BY <1>2, <1>3, <1>4, ConverseInv, AnsweredInv DEF HelperNext
LEMMA HelperStarts == HelperInit => ConversationInv
  BY DEF HelperInit, ConversationInv

(* Whatever a PAM stack asks, in whatever order and for as long as it likes, *)
(* what it is given fits what it asks (HelperApp, PamData): the name for an  *)
(* echoing prompt, the password for a password, and no new password is       *)
(* confirmed but the typed one.  The hypotheses: a conversation is of one    *)
(* message, and a password change is not announced before the stack has      *)
(* asked for everything that was guessed.                                    *)
THEOREM AnswersFit ==
  ASSUME MaxMessages = 1, ~MayAnnounceEarly
  PROVE  Spec => []AnswersMatchPrompts
<1>1. Init => ConversationInv
  BY HelperStarts DEF Init
<1>2. ConversationInv /\ [Next]_servicesVars => ConversationInv'
  <2>1. [Next]_servicesVars => HelperNext \/ UNCHANGED helperVars
    BY PartsApart
  <2>2. ASSUME ConversationInv, UNCHANGED helperVars PROVE ConversationInv'
    BY <2>2 DEF ConversationInv, helperVars, conversationVars
  <2> QED
    BY <2>1, <2>2, HelperInv
<1>3. ConversationInv => AnswersMatchPrompts
  BY RightAnswers
<1> QED
  BY <1>1, <1>2, <1>3, PTL DEF Spec

=============================================================================
