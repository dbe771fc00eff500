---------------------------- MODULE MCServices ------------------------------
(* The parts of the system that never meet, side by side: a behaviour is one *)
(* of some part, chosen at its start, while nothing happens in the others.   *)
(* One run checks them all, each against its own property.  A part that does *)
(* not move starts in one state only.                                        *)
EXTENDS Conversation, SessionHelpers, Terminals, LockStyle, LockShortcut,
        Settings, Wallpapers, Media, Volume, ClassicGreeter, Sessions,
        ThemeGreeter, Frames, LockFace, Keyboard, NeoScreens, Accounts, Power,
        DaemonLife, InputBox, VirtualKeys, DisplayAccess, LockView

VARIABLE part                \* the part that moves

Parts ==
  {"helper", "starter", "terminals", "style", "shortcut", "settings",
   "wallpapers", "media", "volume", "classic", "sessions", "theme", "frames",
   "face", "keyboard", "screens", "accounts", "power", "life", "box", "keys",
   "access", "view"}

servicesVars ==
  <<part, helperVars, starterVars, terminalVars, styleVars, shortcutVars,
    settingsVars, wallpaperVars, mediaVars, volumeVars, classicVars,
    sessionsVars, themeVars, framesVars, faceVars, keyboardVars,
    neoScreensVars, accountsVars, powerVars, lifeVars, boxVars, keysVars,
    accessVars, viewVars>>

Init ==
  /\ part \in Parts
  /\ HelperInit
  /\ StarterInit
  /\ TerminalInit
  /\ StyleInit
  /\ ShortcutInit
  /\ SettingsInit
  /\ WallpaperInit
  /\ MediaInit
  /\ VolumeInit
  /\ ClassicInit
  /\ SessionsInit
  /\ part # "sessions" => \A f \in SessionFile : installed[f] = "absent"
  /\ ThemeInit
  /\ part # "theme" =>
       /\ available = {} /\ plugged = Output
       /\ primary = CHOOSE s \in Output : TRUE
       /\ \A s \in Output : views[s] = ThemeView
  /\ FramesInit
  /\ FaceInit
  /\ KeyboardInit
  /\ NeoScreensInit
  /\ AccountsInit
  /\ PowerInit
  /\ part # "power" => m_backends = <<>> /\ ~testing
  /\ LifeInit
  /\ BoxInit
  /\ part # "box" => lockType /\ ~isNoPasswdGrp
  /\ KeysInit
  /\ part # "keys" => upWindows = {CHOOSE w \in KbWindow : TRUE}
  /\ AccessInit
  /\ LockViewInit
  /\ part # "view" =>
       /\ uiConfig.showSwitchUserButton = "always" /\ uiConfig.sleep /\ ~uiConfig.hibernate
       /\ uiConfig.swaps = <<>> /\ userList = <<SessionUser>>

HelperMoves ==
  /\ part = "helper" /\ HelperNext
  /\ UNCHANGED <<part, starterVars, terminalVars, styleVars, shortcutVars,
                 settingsVars, wallpaperVars, mediaVars, volumeVars,
                 classicVars, sessionsVars, themeVars, framesVars, faceVars,
                 keyboardVars, neoScreensVars, accountsVars, powerVars,
                 lifeVars, boxVars, keysVars, accessVars, viewVars>>

StarterMoves ==
  /\ part = "starter" /\ StarterNext
  /\ UNCHANGED <<part, helperVars, terminalVars, styleVars, shortcutVars,
                 settingsVars, wallpaperVars, mediaVars, volumeVars,
                 classicVars, sessionsVars, themeVars, framesVars, faceVars,
                 keyboardVars, neoScreensVars, accountsVars, powerVars,
                 lifeVars, boxVars, keysVars, accessVars, viewVars>>

TerminalMoves ==
  /\ part = "terminals" /\ TerminalNext
  /\ UNCHANGED <<part, helperVars, starterVars, styleVars, shortcutVars,
                 settingsVars, wallpaperVars, mediaVars, volumeVars,
                 classicVars, sessionsVars, themeVars, framesVars, faceVars,
                 keyboardVars, neoScreensVars, accountsVars, powerVars,
                 lifeVars, boxVars, keysVars, accessVars, viewVars>>

StyleMoves ==
  /\ part = "style" /\ StyleNext
  /\ UNCHANGED <<part, helperVars, starterVars, terminalVars, shortcutVars,
                 settingsVars, wallpaperVars, mediaVars, volumeVars,
                 classicVars, sessionsVars, themeVars, framesVars, faceVars,
                 keyboardVars, neoScreensVars, accountsVars, powerVars,
                 lifeVars, boxVars, keysVars, accessVars, viewVars>>

ShortcutMoves ==
  /\ part = "shortcut" /\ ShortcutNext
  /\ UNCHANGED <<part, helperVars, starterVars, terminalVars, styleVars,
                 settingsVars, wallpaperVars, mediaVars, volumeVars,
                 classicVars, sessionsVars, themeVars, framesVars, faceVars,
                 keyboardVars, neoScreensVars, accountsVars, powerVars,
                 lifeVars, boxVars, keysVars, accessVars, viewVars>>

SettingsMoves ==
  /\ part = "settings" /\ SettingsNext
  /\ UNCHANGED <<part, helperVars, starterVars, terminalVars, styleVars,
                 shortcutVars, wallpaperVars, mediaVars, volumeVars,
                 classicVars, sessionsVars, themeVars, framesVars, faceVars,
                 keyboardVars, neoScreensVars, accountsVars, powerVars,
                 lifeVars, boxVars, keysVars, accessVars, viewVars>>

WallpaperMoves ==
  /\ part = "wallpapers" /\ WallpaperNext
  /\ UNCHANGED <<part, helperVars, starterVars, terminalVars, styleVars,
                 shortcutVars, settingsVars, mediaVars, volumeVars,
                 classicVars, sessionsVars, themeVars, framesVars, faceVars,
                 keyboardVars, neoScreensVars, accountsVars, powerVars,
                 lifeVars, boxVars, keysVars, accessVars, viewVars>>

MediaMoves ==
  /\ part = "media" /\ MediaNext
  /\ UNCHANGED <<part, helperVars, starterVars, terminalVars, styleVars,
                 shortcutVars, settingsVars, wallpaperVars, volumeVars,
                 classicVars, sessionsVars, themeVars, framesVars, faceVars,
                 keyboardVars, neoScreensVars, accountsVars, powerVars,
                 lifeVars, boxVars, keysVars, accessVars, viewVars>>

VolumeMoves ==
  /\ part = "volume" /\ VolumeNext
  /\ UNCHANGED <<part, helperVars, starterVars, terminalVars, styleVars,
                 shortcutVars, settingsVars, wallpaperVars, mediaVars,
                 classicVars, sessionsVars, themeVars, framesVars, faceVars,
                 keyboardVars, neoScreensVars, accountsVars, powerVars,
                 lifeVars, boxVars, keysVars, accessVars, viewVars>>

ClassicMoves ==
  /\ part = "classic" /\ ClassicNext
  /\ UNCHANGED <<part, helperVars, starterVars, terminalVars, styleVars,
                 shortcutVars, settingsVars, wallpaperVars, mediaVars,
                 volumeVars, sessionsVars, themeVars, framesVars, faceVars,
                 keyboardVars, neoScreensVars, accountsVars, powerVars,
                 lifeVars, boxVars, keysVars, accessVars, viewVars>>

SessionsMoves ==
  /\ part = "sessions" /\ SessionsNext
  /\ UNCHANGED <<part, helperVars, starterVars, terminalVars, styleVars,
                 shortcutVars, settingsVars, wallpaperVars, mediaVars,
                 volumeVars, classicVars, themeVars, framesVars, faceVars,
                 keyboardVars, neoScreensVars, accountsVars, powerVars,
                 lifeVars, boxVars, keysVars, accessVars, viewVars>>

ThemeMoves ==
  /\ part = "theme" /\ ThemeNext
  /\ UNCHANGED <<part, helperVars, starterVars, terminalVars, styleVars,
                 shortcutVars, settingsVars, wallpaperVars, mediaVars,
                 volumeVars, classicVars, sessionsVars, framesVars, faceVars,
                 keyboardVars, neoScreensVars, accountsVars, powerVars,
                 lifeVars, boxVars, keysVars, accessVars, viewVars>>

FramesMoves ==
  /\ part = "frames" /\ FramesNext
  /\ UNCHANGED <<part, helperVars, starterVars, terminalVars, styleVars,
                 shortcutVars, settingsVars, wallpaperVars, mediaVars,
                 volumeVars, classicVars, sessionsVars, themeVars, faceVars,
                 keyboardVars, neoScreensVars, accountsVars, powerVars,
                 lifeVars, boxVars, keysVars, accessVars, viewVars>>

FaceMoves ==
  /\ part = "face" /\ FaceNext
  /\ UNCHANGED <<part, helperVars, starterVars, terminalVars, styleVars,
                 shortcutVars, settingsVars, wallpaperVars, mediaVars,
                 volumeVars, classicVars, sessionsVars, themeVars, framesVars,
                 keyboardVars, neoScreensVars, accountsVars, powerVars,
                 lifeVars, boxVars, keysVars, accessVars, viewVars>>

KeyboardMoves ==
  /\ part = "keyboard" /\ KeyboardNext
  /\ UNCHANGED <<part, helperVars, starterVars, terminalVars, styleVars,
                 shortcutVars, settingsVars, wallpaperVars, mediaVars,
                 volumeVars, classicVars, sessionsVars, themeVars, framesVars,
                 faceVars, neoScreensVars, accountsVars, powerVars, lifeVars,
                 boxVars, keysVars, accessVars, viewVars>>

NeoScreensMoves ==
  /\ part = "screens" /\ NeoScreensNext
  /\ UNCHANGED <<part, helperVars, starterVars, terminalVars, styleVars,
                 shortcutVars, settingsVars, wallpaperVars, mediaVars,
                 volumeVars, classicVars, sessionsVars, themeVars, framesVars,
                 faceVars, keyboardVars, accountsVars, powerVars, lifeVars,
                 boxVars, keysVars, accessVars, viewVars>>

AccountsMoves ==
  /\ part = "accounts" /\ AccountsNext
  /\ UNCHANGED <<part, helperVars, starterVars, terminalVars, styleVars,
                 shortcutVars, settingsVars, wallpaperVars, mediaVars,
                 volumeVars, classicVars, sessionsVars, themeVars, framesVars,
                 faceVars, keyboardVars, neoScreensVars, powerVars, lifeVars,
                 boxVars, keysVars, accessVars, viewVars>>

PowerMoves ==
  /\ part = "power" /\ PowerNext
  /\ UNCHANGED <<part, helperVars, starterVars, terminalVars, styleVars,
                 shortcutVars, settingsVars, wallpaperVars, mediaVars,
                 volumeVars, classicVars, sessionsVars, themeVars, framesVars,
                 faceVars, keyboardVars, neoScreensVars, accountsVars,
                 lifeVars, boxVars, keysVars, accessVars, viewVars>>

LifeMoves ==
  /\ part = "life" /\ LifeNext
  /\ UNCHANGED <<part, helperVars, starterVars, terminalVars, styleVars,
                 shortcutVars, settingsVars, wallpaperVars, mediaVars,
                 volumeVars, classicVars, sessionsVars, themeVars, framesVars,
                 faceVars, keyboardVars, neoScreensVars, accountsVars,
                 powerVars, boxVars, keysVars, accessVars, viewVars>>

BoxMoves ==
  /\ part = "box" /\ BoxNext
  /\ UNCHANGED <<part, helperVars, starterVars, terminalVars, styleVars,
                 shortcutVars, settingsVars, wallpaperVars, mediaVars,
                 volumeVars, classicVars, sessionsVars, themeVars, framesVars,
                 faceVars, keyboardVars, neoScreensVars, accountsVars,
                 powerVars, lifeVars, keysVars, accessVars, viewVars>>

KeysMoves ==
  /\ part = "keys" /\ KeysNext
  /\ UNCHANGED <<part, helperVars, starterVars, terminalVars, styleVars,
                 shortcutVars, settingsVars, wallpaperVars, mediaVars,
                 volumeVars, classicVars, sessionsVars, themeVars, framesVars,
                 faceVars, keyboardVars, neoScreensVars, accountsVars,
                 powerVars, lifeVars, boxVars, accessVars, viewVars>>

AccessMoves ==
  /\ part = "access" /\ AccessNext
  /\ UNCHANGED <<part, helperVars, starterVars, terminalVars, styleVars,
                 shortcutVars, settingsVars, wallpaperVars, mediaVars,
                 volumeVars, classicVars, sessionsVars, themeVars, framesVars,
                 faceVars, keyboardVars, neoScreensVars, accountsVars,
                 powerVars, lifeVars, boxVars, keysVars, viewVars>>

LockViewMoves ==
  /\ part = "view" /\ LockViewNext
  /\ UNCHANGED <<part, helperVars, starterVars, terminalVars, styleVars,
                 shortcutVars, settingsVars, wallpaperVars, mediaVars,
                 volumeVars, classicVars, sessionsVars, themeVars, framesVars,
                 faceVars, keyboardVars, neoScreensVars, accountsVars,
                 powerVars, lifeVars, boxVars, keysVars, accessVars>>

Next ==
  \/ HelperMoves
  \/ StarterMoves
  \/ TerminalMoves
  \/ StyleMoves
  \/ ShortcutMoves
  \/ SettingsMoves
  \/ WallpaperMoves
  \/ MediaMoves
  \/ VolumeMoves
  \/ ClassicMoves
  \/ SessionsMoves
  \/ ThemeMoves
  \/ FramesMoves
  \/ FaceMoves
  \/ KeyboardMoves
  \/ NeoScreensMoves
  \/ AccountsMoves
  \/ PowerMoves
  \/ LifeMoves
  \/ BoxMoves
  \/ KeysMoves
  \/ AccessMoves
  \/ LockViewMoves

(* A part that does not move has nothing that must happen in it.             *)
Spec == Init /\ [][Next]_servicesVars /\ StarterFairness /\ TerminalFairness

-----------------------------------------------------------------------------
(* What the constants are: the messages a PAM stack may send, and the keys   *)
(* and lines of the files.                                                   *)
Stack ==
  {Says("ECHO_ON", {}), Says("ECHO_OFF", {}), Says("ECHO_OFF", {"password"}),
   Says("ECHO_OFF", {"password", "old"}), Says("ECHO_OFF", {"password", "new"}),
   Says("ECHO_OFF", {"password", "new", "again"}), Says("INFO", {}), Says("INFO", {"changing"})}

Entries == {<<"General", "k">>, <<"General", "l">>, <<"X11", "k">>}
Others == {Head_("Themes")}
Drops == <<Assign("k", "a")>>
PasswdOrder == <<2, 3, 1>>

(* The parser goes wrong over the third of the keymaps.                      *)
ASSUME KeymapsReadRight == ReadRight = {"us", "us_de"}

-----------------------------------------------------------------------------
(* What several parts promise together.                                      *)

(* What the user does goes where the screen says: the box says what became   *)
(* of the password, the keys of the screen type what is written on them,     *)
(* Caps, Num Lock and the layout are those of the server, and the session    *)
(* shown is the one logged in to.                                            *)
InputIsAsShown ==
  BoxTellsTruth /\ TypedAsShown /\ KeyboardAgrees /\ ThemeLogsInAsShown

(* Whom a greeter lists is whom it logs in, and a key acts on the menu or    *)
(* the list that is shown.                                                   *)
ListsAreTrue == PeopleAreListed /\ KeysActOnWhatIsShown

(* StarterEnds and JumpArrives at once, as only one of the two parts moves:  *)
(* neither a starter without a greeter nor a jump between terminals hangs.   *)
NothingHangs ==
  (GreeterAwaited \/ jump # {}) ~> ~(GreeterAwaited \/ jump # {})

(* The slider of the lock screen shows, and acts on, the sink there is, and  *)
(* the rest of it tells of the users and of the machine what is so.          *)
ControlsFollow == VolumeFollows /\ LockTellsTruth

(* Every screen shows the picture that was set, with a clock to be read.     *)
PicturesAgree == WallpapersAgree /\ ClockIsReadable

(* The daemon shows the sessions there are, and does once what it is asked   *)
(* to do to the machine.                                                     *)
DaemonIsTrue == SessionsAreShown /\ PowerActsOnce

(* What is chosen in the classic greeter, user and session, is what is sent, *)
(* remembered and started.                                                   *)
ChoiceIsKept == GreeterSendsWhatIsChosen /\ SessionKept

=============================================================================
