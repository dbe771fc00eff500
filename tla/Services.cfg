SPECIFICATION Spec
CONSTANTS
  PamMessages <- Stack
  MaxConversations = 3
  MaxMessages = 1
  MayAnnounceEarly = FALSE
  MayFailToExec = TRUE
  MayBeKilled = TRUE
  Unnoticed = {}
  Terminal = {t1, t2, t3}
  NeoInstalled = TRUE
  Disturbances = {}
  Surprises = {}
  Entry <- Entries
  OtherLines <- Others
  DropIn <- Drops
  Value = {"a"}
  MaxLines = 3
  Accidents = {}
  Picture = {"p", "q"}
  Player = {v1, v2}
  MaxInbox = 1
  MaxQuestions = 1
  Sink = {s1, s2}
  MaxAudioInbox = 1
  MaxCalls = 2
  Screen = {o1, o2}
  User = {u1, u2}
  MaxUnread = 1
  MaySwitchTyped = FALSE
  MaySuspendTwice = FALSE
  Stem = {1, 2}
  DefaultStem = 2
  ConfiguredStem = 1
  MaxChanges = 1
  MayShareStem = FALSE
  MayShareTitle = FALSE
  Output = {e1, e2}
  Desktop = {1, 2}
  MayRenumber = FALSE
  Monitor = {f1, f2}
  FirstMode = "user"
  MaxGrabs = 1
  Chances = {}
  Image = {"dune", "snow", "moon"}
  Bright = {"snow", "dune"}
  MaxMeasures = 2
  Slips = {}
  Keymap = {"us", "us_de"}
  MaxEvents = 3
  Races = {}
  NeoScreen = {n1, n2}
  MaxAdditions = 1
  Passwd <- PasswdOrder
  DisableAvatarsThreshold = 1
  Oddities = {}
  PowerAction = {"PowerOff", "HybridSleep"}
  MaxPowerRequests = 1
  DisplayId = {d1, d2}
  MaxSessionIds = 6
  MaxSignals = 1
  MayQuitInSession = FALSE
  Tries = 5
  Minutes = 4
  Mishaps = {}
  KbWindow = {k1, k2}
  LetterKey = {a1}
  OtherKey = {a2}
  MaxTyped = 2
  XServer = {x1, x2}
  MaxCookies = 3
  Hastes = {}
  LockUser = {w1, w2}
  SessionUser = w1
  LockTries = 5
  LockMinutes = 4
  Hideouts = {}
INVARIANTS
  AnswersMatchPrompts
  
  
  ControlsFollow
  MediaFollows
  PicturesAgree
  
  GuestsGetIn
PROPERTIES
  
  StyleFollows
  ShortcutHeld
  FilesReadBack
  ChoiceIsKept
  NeoScreensHold
CHECK_DEADLOCK FALSE
