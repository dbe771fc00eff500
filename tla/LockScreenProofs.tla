--------------------------- MODULE LockScreenProofs ---------------------------
(***************************************************************************)
(* Proofs about the lock screen for every value of its constants: any      *)
(* outputs, any number of tries and minutes of a lockout, any number of    *)
(* helpers.  A theorem that needs something of the environment says so in  *)
(* its hypotheses.                                                         *)
(***************************************************************************)
EXTENDS LockScreenProperties, AuthProofs, FiniteSetTheorems

-----------------------------------------------------------------------------
(* The operations on a session lock and on a fingerprint session.          *)

LEMMA LockUnlocked == Unlocked \in Lock
BY DEF Unlocked, Lock, SurfaceState

(* What they do to the surfaces, and that they keep a lock a lock.         *)
LEMMA SurfaceTypes ==
  ASSUME NEW l \in Lock
  PROVE  /\ EnsureLock(l) \in Lock
         /\ \A s \in Screens : CreateSurface(l, s) \in Lock /\ BindLockSurface(l, s) \in Lock
         /\ \A ss : CreateSurfaces(l, ss) \in Lock /\ DestroySurfaces(l, ss) \in Lock
         /\ ReleaseSurfaces(l) \in Lock
<1>1. EnsureLock(l) \in Lock
  BY DEF EnsureLock, Lock
<1>2. ASSUME NEW s \in Screens
      PROVE  CreateSurface(l, s) \in Lock /\ BindLockSurface(l, s) \in Lock
  BY <1>1 DEF CreateSurface, BindLockSurface, Lock, SurfaceState
<1>3. ASSUME NEW ss
      PROVE  CreateSurfaces(l, ss) \in Lock
  BY <1>1 DEF CreateSurfaces, Lock, SurfaceState
<1>4. ASSUME NEW ss
      PROVE  DestroySurfaces(l, ss) \in Lock
  BY DEF DestroySurfaces, Lock, SurfaceState
<1>5. ReleaseSurfaces(l) \in Lock
  BY DEF ReleaseSurfaces, Lock, SurfaceState
<1> QED
  BY <1>1, <1>2, <1>3, <1>4, <1>5

LEMMA UnlockTypes ==
  ASSUME NEW l \in Lock
  PROVE  DropLock(l) \in Lock /\ Unlock(l) \in Lock
<1>1. [l EXCEPT !.requested = FALSE, !.locked = FALSE, !.unlockPending = FALSE,
                !.session = "unlocked", !.events = <<>>] \in Lock
  <2>1. <<>> \in Seq({"locked", "finished"})
    OBVIOUS
  <2> QED
    BY <2>1 DEF Lock
<1>2. DropLock(l) \in Lock
  BY <1>1, SurfaceTypes DEF DropLock
<1>3. Unlock(l) \in Lock
  BY <1>2 DEF Unlock, Lock
<1> QED
  BY <1>2, <1>3

LEMMA EventTypes ==
  ASSUME NEW l \in Lock
  PROVE  /\ l.events # <<>> => HandleLocked(l) \in Lock
         /\ HandleFinished(l) \in Lock
         /\ Locks(l) \in Lock
         /\ Finishes(l) \in Lock
<1>1. ASSUME l.events # <<>>
      PROVE  HandleLocked(l) \in Lock
  <2>1. [l EXCEPT !.locked = TRUE, !.events = Tail(@)] \in Lock
    <3>1. l.events \in Seq({"locked", "finished"})
      BY DEF Lock
    <3>2. Tail(l.events) \in Seq({"locked", "finished"})
      BY <1>1, <3>1
    <3> QED
      BY <3>2 DEF Lock
  <2> QED
    BY <2>1, UnlockTypes DEF HandleLocked
<1>2. HandleFinished(l) \in Lock
  BY UnlockTypes DEF HandleFinished
<1>3. Locks(l) \in Lock /\ Finishes(l) \in Lock
  <2>1. l.events \in Seq({"locked", "finished"})
    BY DEF Lock
  <2>2. /\ Append(l.events, "locked") \in Seq({"locked", "finished"})
        /\ Append(l.events, "finished") \in Seq({"locked", "finished"})
    BY <2>1
  <2> QED
    BY <2>2 DEF Lock, Locks, Finishes
<1> QED
  BY <1>1, <1>2, <1>3

(* The reader listens for nobody but the locker's own user.                *)
LEMMA ReaderTypes ==
  ASSUME NEW f \in Reader!Session({User, NoUser})
  PROVE  /\ Reader!Idle(NoUser) \in Reader!Session({User, NoUser})
         /\ Started(f) \in Reader!Session({User, NoUser})
         /\ Stopped(f) \in Reader!Session({User, NoUser})
         /\ \A found \in BOOLEAN :
              Reader!ProbeFinished(f, User, found).session \in Reader!Session({User, NoUser})
         /\ Reader!RunRejected(f).session \in Reader!Session({User, NoUser})
         /\ \A matched, quick \in BOOLEAN :
              Reader!RunFinished(f, matched, quick).session \in Reader!Session({User, NoUser})
         /\ Reader!RunUnusable(f).session \in Reader!Session({User, NoUser})
<1> USE DEF Reader!Session, Reader!State, Reader!After, Reader!Unchanged, Reader!Busy
<1>1. Reader!Idle(NoUser) \in Reader!Session({User, NoUser})
  BY DEF Reader!Idle
<1>2. Stopped(f) \in Reader!Session({User, NoUser})
  BY DEF Stopped, Reader!Stop
<1>3. Started(f) \in Reader!Session({User, NoUser})
  BY DEF Started, Reader!Start
<1>4. ASSUME NEW found \in BOOLEAN
      PROVE  Reader!ProbeFinished(f, User, found).session \in Reader!Session({User, NoUser})
  BY DEF Reader!ProbeFinished, Reader!BeginRun
<1>5. Reader!RunRejected(f).session \in Reader!Session({User, NoUser})
  BY DEF Reader!RunRejected
<1>6. ASSUME NEW matched \in BOOLEAN, NEW quick \in BOOLEAN
      PROVE  Reader!RunFinished(f, matched, quick).session \in Reader!Session({User, NoUser})
  BY DEF Reader!RunFinished, Reader!BeginRun
<1>7. Reader!RunUnusable(f).session \in Reader!Session({User, NoUser})
  BY DEF Reader!RunUnusable
<1> QED
  BY <1>1, <1>2, <1>3, <1>4, <1>5, <1>6, <1>7

-----------------------------------------------------------------------------
(* Type correctness.                                                       *)

LEMMA Windows ==
  ASSUME WindowsTypeOK
  PROVE  /\ 0 \in 0..Cardinality(Screens)
         /\ Cardinality(screens) \in 0..Cardinality(Screens)
         /\ NoScreen \notin screens
<1>1. /\ Cardinality(Screens) \in Nat /\ Cardinality(screens) \in Nat
      /\ Cardinality(screens) <= Cardinality(Screens)
  BY FS_Subset, FS_CardinalityType, LockWindowsAssumption DEF WindowsTypeOK
<1> QED
  BY <1>1, LockWindowsAssumption DEF WindowsTypeOK

(* What the handlers do to the windows keeps them in their types.          *)
LEMMA HiddenTypes ==
  ASSUME WindowsTypeOK, NEW l \in Lock,
         NEW running \in SUBSET screens, NEW done \in SUBSET screens,
         WindowsHidden(l, running, done)
  PROVE  /\ isShow' = FALSE
         /\ lock' \in Lock
         /\ passwordStage' \in BOOLEAN
         /\ fading' \subseteq screens /\ faded' \subseteq screens
<1>1. lock' \in Lock
  BY SurfaceTypes DEF WindowsHidden
<1> QED
  BY <1>1 DEF WindowsHidden, WindowsTypeOK

LEMMA FinishUnlockTypes ==
  ASSUME WindowsTypeOK,
         NEW running \in SUBSET screens, NEW done \in SUBSET screens,
         FinishUnlock(running, done), UNCHANGED <<available, screens, primary>>
  PROVE  WindowsTypeOK'
<1>1. CASE available
  <2>1. lock' \in Lock
    BY <1>1, UnlockTypes DEF FinishUnlock, WindowsTypeOK
  <2>2. posted' \in BOOLEAN
    <3>1. posted \in BOOLEAN /\ EmitsUnlocked(lock) \in BOOLEAN
      BY DEF WindowsTypeOK, EmitsUnlocked
    <3>2. posted' = (posted \/ EmitsUnlocked(lock))
      BY <1>1, Zenon DEF FinishUnlock
    <3> QED
      BY <3>1, <3>2
  <2>3. /\ unlockPending' = FALSE /\ pendingUnlockFades' = 0
        /\ fading' = running /\ faded' = done
        /\ isShow' = isShow /\ passwordStage' = passwordStage
    BY <1>1, Zenon DEF FinishUnlock
  <2> QED
    BY <2>1, <2>2, <2>3, Windows DEF WindowsTypeOK
<1>2. CASE ~available
  <2>1. WindowsHidden(lock, running, done)
    BY <1>2, Zenon DEF FinishUnlock
  <2>2. lock \in Lock
    BY DEF WindowsTypeOK
  <2>3. /\ isShow' = FALSE
        /\ lock' \in Lock
        /\ passwordStage' \in BOOLEAN
        /\ fading' \subseteq screens /\ faded' \subseteq screens
    BY <2>1, <2>2, HiddenTypes, Zenon
  <2>4. unlockPending' = FALSE /\ pendingUnlockFades' = 0 /\ posted' = posted
    BY <1>2, Zenon DEF FinishUnlock
  <2> QED
    BY <2>3, <2>4, Windows DEF WindowsTypeOK
<1> QED
  BY <1>1, <1>2

LEMMA AuthenticatedTypes ==
  ASSUME WindowsTypeOK, Authenticated
  PROVE  WindowsTypeOK'
<1>1. CASE screens = {} /\ ~unlockPending
  BY <1>1, FinishUnlockTypes DEF Authenticated
<1>2. CASE ~(screens = {} /\ ~unlockPending)
  BY <1>2, Windows DEF Authenticated, WindowsTypeOK
<1> QED
  BY <1>1, <1>2

LEMMA StageTypes ==
  ASSUME WindowsTypeOK, UNCHANGED stageVars, passwordStage' \in BOOLEAN
  PROVE  WindowsTypeOK'
BY DEF stageVars, WindowsTypeOK

LEMMA EnterTypes ==
  ASSUME WindowsTypeOK, EnterPasswordStage
  PROVE  passwordStage' \in BOOLEAN
BY DEF EnterPasswordStage, MayEnterPasswordStage, WindowsTypeOK

(* So do the steps they take by themselves.                                *)
LEMMA WindowStepTypes ==
  ASSUME WindowsTypeOK
  PROVE  /\ \A s \in Screens : FadeFinished(s) => WindowsTypeOK'
         /\ UnlockFadeTimesOut => WindowsTypeOK'
         /\ \A s \in Screens : BindSurface(s) => WindowsTypeOK'
         /\ SessionLocked => WindowsTypeOK'
         /\ SessionLockFinished => WindowsTypeOK'
         /\ WindowsRecreated => WindowsTypeOK'
         /\ \A s \in Screens : ScreenAdded(s) => WindowsTypeOK'
         /\ \A s \in Screens : ScreenRemoved(s) => WindowsTypeOK'
         /\ \A s \in Screens : PrimaryScreenChanged(s) => WindowsTypeOK'
         /\ CompositorLocks => WindowsTypeOK'
         /\ CompositorFinishes => WindowsTypeOK'
<1>0. lock \in Lock /\ screens \in SUBSET Screens /\ fading \in SUBSET screens /\ faded \in SUBSET screens
  BY DEF WindowsTypeOK
<1>1. ASSUME NEW s \in Screens, FadeFinished(s)
      PROVE  WindowsTypeOK'
  <2>1. CASE unlockPending /\ pendingUnlockFades <= 1
    <3>1. FinishUnlock(fading \ {s}, faded \cup {s}) /\ UNCHANGED <<available, screens, primary>>
      BY <1>1, <2>1 DEF FadeFinished
    <3>2. fading \ {s} \in SUBSET screens /\ faded \cup {s} \in SUBSET screens
      BY <1>0, <1>1 DEF FadeFinished
    <3> QED
      BY <3>1, <3>2, FinishUnlockTypes
  <2>2. CASE ~(unlockPending /\ pendingUnlockFades <= 1)
    <3>1. pendingUnlockFades' \in 0..Cardinality(Screens)
      <4>1. pendingUnlockFades \in 0..Cardinality(Screens) /\ Cardinality(Screens) \in Nat
        BY Windows, FS_CardinalityType, LockWindowsAssumption DEF WindowsTypeOK
      <4>2. CASE unlockPending
        <5>1. pendingUnlockFades' = pendingUnlockFades - 1
          BY <1>1, <2>2, <4>2, Zenon DEF FadeFinished
        <5>2. ~(pendingUnlockFades <= 1)
          BY <2>2, <4>2
        <5> QED
          BY <4>1, <5>1, <5>2
      <4>3. CASE ~unlockPending
        <5>1. pendingUnlockFades' = pendingUnlockFades
          BY <1>1, <2>2, <4>3, Zenon DEF FadeFinished
        <5> QED
          BY <4>1, <5>1
      <4> QED
        BY <4>2, <4>3
    <3> QED
      BY <1>1, <2>2, <3>1 DEF FadeFinished, WindowsTypeOK
  <2> QED
    BY <2>1, <2>2
<1>2. UnlockFadeTimesOut => WindowsTypeOK'
  BY <1>0, FinishUnlockTypes DEF UnlockFadeTimesOut
<1>3. ASSUME NEW s \in Screens, BindSurface(s)
      PROVE  WindowsTypeOK'
  BY <1>0, <1>3, SurfaceTypes DEF BindSurface, WindowsTypeOK
<1>4. SessionLocked => WindowsTypeOK'
  <2>1. SessionLocked => lock' \in Lock /\ posted' \in BOOLEAN
    BY <1>0, EventTypes DEF SessionLocked, Lock
  <2> QED
    BY <2>1 DEF SessionLocked, WindowsTypeOK
<1>5. SessionLockFinished => WindowsTypeOK'
  <2>1. HandleFinished(lock) \in Lock
    BY <1>0, EventTypes
  <2> QED
    BY <1>0, <2>1, HiddenTypes DEF SessionLockFinished, WindowsTypeOK
<1>6. WindowsRecreated => WindowsTypeOK'
  BY <1>0, SurfaceTypes DEF WindowsRecreated, WindowsTypeOK
<1>7. ASSUME NEW s \in Screens, ScreenAdded(s)
      PROVE  WindowsTypeOK'
  <2>1. lock' \in Lock
    BY <1>0, <1>7, SurfaceTypes DEF ScreenAdded
  <2>2. passwordStage' \in BOOLEAN
    BY <1>7 DEF ScreenAdded, WindowsTypeOK
  <2> QED
    BY <1>7, <2>1, <2>2 DEF ScreenAdded, WindowsTypeOK
<1>8. ASSUME NEW s \in Screens, ScreenRemoved(s)
      PROVE  WindowsTypeOK'
  <2>1. lock' \in Lock
    BY <1>0, <1>8, SurfaceTypes DEF ScreenRemoved
  <2>2. passwordStage' \in BOOLEAN
    BY <1>8 DEF ScreenRemoved, WindowsTypeOK
  <2> QED
    BY <1>8, <2>1, <2>2 DEF ScreenRemoved, WindowsTypeOK
<1>9. ASSUME NEW s \in Screens, PrimaryScreenChanged(s)
      PROVE  WindowsTypeOK'
  BY <1>9 DEF PrimaryScreenChanged, WindowsTypeOK
<1>10. CompositorLocks => WindowsTypeOK'
  BY <1>0, EventTypes DEF CompositorLocks, WindowsTypeOK
<1>11. CompositorFinishes => WindowsTypeOK'
  BY <1>0, EventTypes DEF CompositorFinishes, WindowsTypeOK
<1> QED
  BY <1>1, <1>2, <1>3, <1>4, <1>5, <1>6, <1>7, <1>8, <1>9, <1>10, <1>11

(* The lockout counts down from LockNum, and outside of one a try is left, *)
(* so that neither counter ever leaves its range.                          *)
LockoutTypes ==
  /\ isLock \in BOOLEAN /\ lockedOut \in BOOLEAN
  /\ tryNum \in 0..Tries
  /\ lockNum \in 1..LockNum
  /\ lockMinutes \in 1..LockNum
  /\ ~isLock => lockNum = LockNum /\ tryNum # 0

PowerTypes == powerAction \in PowerActions \cup {None} /\ pendingPowerAction \in PowerActions \cup {None}

CheckTypes == m_authenticating \in BOOLEAN /\ authenticating \in BOOLEAN

TypeInv ==
  /\ AuthTypeOK
  /\ WindowsTypeOK
  /\ LockoutTypes
  /\ CheckTypes
  /\ PowerTypes
  /\ finger \in Reader!Session({User, NoUser})
  /\ admitted \in BOOLEAN

LEMMA TypesOfInv == TypeInv => LockTypeOK
BY DEF TypeInv, LockTypeOK, LockoutTypes, CheckTypes, PowerTypes

LEMMA LockNumbers == Tries \in Nat /\ Tries # 0 /\ LockNum \in Nat /\ LockNum > 1
BY LockScreenAssumption

LEMMA LockoutCounts ==
  ASSUME LockoutTypes
  PROVE  /\ CountRejection => LockoutTypes'
         /\ LockMinutePasses => LockoutTypes'
         /\ tryNum' = Tries /\ UNCHANGED <<lockNum, isLock, lockedOut, lockMinutes>> => LockoutTypes'
         /\ UNCHANGED lockoutVars => LockoutTypes'
<1>1. ASSUME CountRejection
      PROVE  LockoutTypes'
  <2>1. isLock' \in BOOLEAN /\ tryNum' \in 0..Tries /\ lockNum' \in 1..LockNum
        /\ (~isLock' => lockNum' = LockNum /\ tryNum' # 0)
    <3>1. CASE isLock
      <4>1. tryNum' = tryNum /\ isLock' = isLock /\ lockNum' = lockNum
        BY <1>1, <3>1, Zenon DEF CountRejection
      <4> QED
        BY <3>1, <4>1 DEF LockoutTypes
    <3>2. CASE ~isLock /\ tryNum = 1
      <4>1. tryNum' = 0 /\ isLock' = TRUE /\ lockNum' = lockNum - 1
        BY <1>1, <3>2, Zenon DEF CountRejection
      <4> QED
        BY <3>2, <4>1, LockNumbers DEF LockoutTypes
    <3>3. CASE ~isLock /\ tryNum # 1
      <4>1. tryNum' = tryNum - 1 /\ isLock' = isLock /\ lockNum' = lockNum
        BY <1>1, <3>3, Zenon DEF CountRejection
      <4> QED
        BY <3>3, <4>1, LockNumbers DEF LockoutTypes
    <3> QED
      BY <3>1, <3>2, <3>3
  <2>2. lockedOut' = isLock' /\ lockMinutes' = lockNum'
    BY <1>1 DEF CountRejection, UpdateLockState
  <2> QED
    BY <2>1, <2>2 DEF LockoutTypes
<1>2. ASSUME LockMinutePasses
      PROVE  LockoutTypes'
  <2>1. isLock' \in BOOLEAN /\ tryNum' \in 0..Tries /\ lockNum' \in 1..LockNum
        /\ (~isLock' => lockNum' = LockNum /\ tryNum' # 0)
    <3>1. CASE lockNum = 1
      <4>1. isLock' = FALSE /\ tryNum' = Tries /\ lockNum' = LockNum
        BY <1>2, <3>1, Zenon DEF LockMinutePasses, LockTimeOut
      <4>2. Tries \in 0..Tries /\ Tries # 0 /\ LockNum \in 1..LockNum
        BY LockNumbers
      <4> QED
        BY <4>1, <4>2
    <3>2. CASE lockNum # 1
      <4>1. isLock' = isLock /\ tryNum' = tryNum /\ lockNum' = lockNum - 1 /\ isLock
        BY <1>2, <3>2, Zenon DEF LockMinutePasses, LockTimeOut
      <4> QED
        BY <3>2, <4>1, LockNumbers DEF LockoutTypes
    <3> QED
      BY <3>1, <3>2
  <2>2. lockedOut' = isLock' /\ lockMinutes' = lockNum'
    BY <1>2 DEF LockMinutePasses, UpdateLockState
  <2> QED
    BY <2>1, <2>2 DEF LockoutTypes
<1>3. tryNum' = Tries /\ UNCHANGED <<lockNum, isLock, lockedOut, lockMinutes>> => LockoutTypes'
  BY LockNumbers DEF LockoutTypes
<1>4. UNCHANGED lockoutVars => LockoutTypes'
  BY DEF LockoutTypes, lockoutVars
<1> QED
  BY <1>1, <1>2, <1>3, <1>4

(* What an accepted user, or a rejected one, changes.                      *)
LEMMA FinishTypes ==
  ASSUME TypeInv, NEW f \in Reader!Session({User, NoUser}), FinishUnlockOf(f)
  PROVE  /\ WindowsTypeOK' /\ LockoutTypes' /\ CheckTypes' /\ PowerTypes'
         /\ finger' \in Reader!Session({User, NoUser}) /\ admitted' \in BOOLEAN
<1>1. LockoutTypes' /\ CheckTypes' /\ PowerTypes'
  <2>1. LockoutTypes'
    BY LockoutCounts DEF FinishUnlockOf, TypeInv
  <2> QED
    BY <2>1 DEF FinishUnlockOf, TypeInv, CheckTypes, PowerTypes, powerVars
<1>2. Stopped(f) \in Reader!Session({User, NoUser})
  BY ReaderTypes
<1>3. CASE powerAction = None
  <2>1. Authenticated /\ finger' = Stopped(f) /\ admitted' = TRUE
    BY <1>3, Zenon DEF FinishUnlockOf
  <2> QED
    BY <1>1, <1>2, <2>1, AuthenticatedTypes DEF TypeInv
<1>4. CASE powerAction # None
  <2>1. /\ EnterPasswordStage /\ UNCHANGED stageVars /\ UNCHANGED admitted
        /\ finger' = RearmedBy(MayEnterPasswordStage, Stopped(f))
    BY <1>4, Zenon DEF FinishUnlockOf
  <2>2. finger' \in Reader!Session({User, NoUser})
    BY <1>2, <2>1, ReaderTypes DEF RearmedBy
  <2> QED
    BY <1>1, <2>1, <2>2, EnterTypes, StageTypes DEF TypeInv
<1> QED
  BY <1>3, <1>4

LEMMA FailureTypes ==
  ASSUME TypeInv, NEW f \in Reader!Session({User, NoUser}), ShowFailure(f)
  PROVE  /\ WindowsTypeOK' /\ authenticating' = FALSE
         /\ finger' \in Reader!Session({User, NoUser})
<1>1. Started(f) \in Reader!Session({User, NoUser})
  BY ReaderTypes
<1> QED
  BY <1>1, EnterTypes, StageTypes DEF ShowFailure, RearmedBy, TypeInv

LEMMA ShownTypes ==
  ASSUME WindowsTypeOK, WindowsShown
  PROVE  isShow' = TRUE /\ lock' \in Lock
<1>1. lock \in Lock /\ CreateSurfaces(lock, screens) \in Lock
  BY SurfaceTypes DEF WindowsTypeOK
<1> QED
  BY <1>1 DEF WindowsShown

LEMMA RestTypes ==
  ASSUME TypeInv
  PROVE  /\ UNCHANGED authVars => AuthTypeOK'
         /\ UNCHANGED windowVars => WindowsTypeOK'
         /\ UNCHANGED checkVars => CheckTypes'
         /\ UNCHANGED lockoutVars => LockoutTypes'
         /\ UNCHANGED powerVars => PowerTypes'
         /\ UNCHANGED finger => finger' \in Reader!Session({User, NoUser})
         /\ UNCHANGED admitted => admitted' \in BOOLEAN
<1>1. UNCHANGED authVars => AuthTypeOK'
  BY OwnerTypes DEF TypeInv
<1>2. UNCHANGED windowVars => WindowsTypeOK'
  BY DEF TypeInv, WindowsTypeOK, windowVars
<1>3. UNCHANGED checkVars => CheckTypes'
  BY DEF TypeInv, CheckTypes, checkVars
<1>4. UNCHANGED lockoutVars => LockoutTypes'
  BY LockoutCounts DEF TypeInv
<1>5. UNCHANGED powerVars => PowerTypes'
  BY DEF TypeInv, PowerTypes, powerVars
<1>6. UNCHANGED finger => finger' \in Reader!Session({User, NoUser})
  BY DEF TypeInv
<1>7. UNCHANGED admitted => admitted' \in BOOLEAN
  BY DEF TypeInv
<1> QED
  BY <1>1, <1>2, <1>3, <1>4, <1>5, <1>6, <1>7

LEMMA RequestedKeepsTypes ==
  ASSUME TypeInv, Requested
  PROVE  TypeInv'
<1>0. Started(finger) \in Reader!Session({User, NoUser}) /\ Stopped(finger) \in Reader!Session({User, NoUser})
  BY ReaderTypes DEF TypeInv
<1>1. CASE Show
  <2>1. WindowsTypeOK'
    <3>1. isShow' = TRUE /\ lock' \in Lock
      BY <1>1, ShownTypes DEF Show, TypeInv
    <3> QED
      BY <1>1, <3>1 DEF Show, TypeInv, WindowsTypeOK
  <2>2. admitted' \in BOOLEAN
    BY <1>1 DEF Show, TypeInv
  <2> QED
    BY <1>0, <1>1, <2>1, <2>2, RestTypes DEF Show, TypeInv
<1>2. CASE ShowUserList
  <2>1. WindowsTypeOK'
    <3>1. isShow' = TRUE /\ lock' \in Lock
      BY <1>2, ShownTypes DEF ShowUserList, TypeInv
    <3>2. passwordStage' \in BOOLEAN
      BY <1>2, EnterTypes DEF ShowUserList, TypeInv
    <3> QED
      BY <1>2, <3>1, <3>2 DEF ShowUserList, TypeInv, WindowsTypeOK
  <2>2. admitted' \in BOOLEAN
    BY <1>2 DEF ShowUserList, TypeInv
  <2>3. finger' \in Reader!Session({User, NoUser})
    BY <1>0, <1>2 DEF ShowUserList, RearmedBy, TypeInv
  <2> QED
    BY <1>2, <2>1, <2>2, <2>3, RestTypes DEF ShowUserList, TypeInv
<1>3. CASE Hide
  <2>1. WindowsTypeOK'
    <3>1. WindowsTypeOK /\ lock \in Lock /\ fading \in SUBSET screens /\ faded \in SUBSET screens
      BY DEF TypeInv, WindowsTypeOK
    <3>2. WindowsHidden(lock, fading, faded)
      BY <1>3 DEF Hide
    <3>3. /\ isShow' = FALSE /\ lock' \in Lock /\ passwordStage' \in BOOLEAN
          /\ fading' \subseteq screens /\ faded' \subseteq screens
      BY <3>1, <3>2, HiddenTypes
    <3> QED
      BY <1>3, <3>1, <3>3 DEF Hide, WindowsTypeOK
  <2> QED
    BY <1>0, <1>3, <2>1, RestTypes DEF Hide, TypeInv
<1> QED
  BY <1>1, <1>2, <1>3 DEF Requested

LEMMA UserKeepsTypes ==
  ASSUME TypeInv, UserActs
  PROVE  TypeInv'
<1>0. Started(finger) \in Reader!Session({User, NoUser})
  BY ReaderTypes DEF TypeInv
<1>1. CASE EnterPassword
  BY <1>0, <1>1, StageTypes, RestTypes DEF EnterPassword, TypeInv
<1>2. CASE LeavePassword
  <2>1. PowerTypes'
    BY <1>2 DEF LeavePassword, TypeInv, PowerTypes
  <2> QED
    BY <1>0, <1>2, <2>1, StageTypes, RestTypes DEF LeavePassword, TypeInv
<1>3. CASE Submit
  <2>1. AuthTypeOK'
    BY <1>3, OwnerTypes DEF Submit, TypeInv
  <2>2. CheckTypes'
    BY <1>3 DEF Submit, CheckTypes
  <2> QED
    BY <1>3, <2>1, <2>2, RestTypes DEF Submit, TypeInv
<1>4. ASSUME NEW action \in PowerActions, RequestPower(action)
      PROVE  TypeInv'
  <2>1. PowerTypes'
    BY <1>4 DEF RequestPower, PowerTypes
  <2> QED
    BY <1>4, <2>1, RestTypes DEF RequestPower, TypeInv
<1> QED
  BY <1>1, <1>2, <1>3, <1>4 DEF UserActs

LEMMA PasswordKeepsTypes ==
  ASSUME TypeInv, PasswordReports
  PROVE  TypeInv'
<1>0. UNCHANGED workerVars => UNCHANGED <<checkVars, lockoutVars, powerVars, finger>>
  BY DEF workerVars, checkVars, lockoutVars, powerVars
<1>1. CASE PasswordAsked
  <2>1. AuthTypeOK'
    <3>1. AuthTypeOK /\ "REQUEST" \in RequestType /\ "CHANGE_REQUEST" \in RequestType
      BY DEF TypeInv, RequestType
    <3>2. ReceiveRequest("REQUEST", TRUE) \/ ReceiveRequest("CHANGE_REQUEST", FALSE)
      BY <1>1 DEF PasswordAsked
    <3> QED
      BY <3>1, <3>2, ReceiverTypes
  <2> QED
    BY <1>0, <1>1, <2>1, RestTypes DEF PasswordAsked, TypeInv
<1>2. CASE PasswordAccepted
  <2>1. AuthTypeOK'
    BY <1>2, ReceiverTypes DEF PasswordAccepted, TypeInv
  <2>2. finger \in Reader!Session({User, NoUser}) /\ FinishUnlockOf(finger)
    BY <1>2 DEF PasswordAccepted, TypeInv
  <2> QED
    BY <2>1, <2>2, FinishTypes DEF TypeInv
<1>3. CASE PasswordRejected
  <2>1. AuthTypeOK'
    BY <1>3, ReceiverTypes DEF PasswordRejected, TypeInv
  <2>2. finger \in Reader!Session({User, NoUser}) /\ ShowFailure(finger)
    BY <1>3 DEF PasswordRejected, TypeInv
  <2>3. /\ WindowsTypeOK' /\ authenticating' = FALSE
        /\ finger' \in Reader!Session({User, NoUser})
    BY <2>2, FailureTypes
  <2>4. CheckTypes' /\ LockoutTypes'
    BY <1>3, <2>3, LockoutCounts DEF PasswordRejected, TypeInv, CheckTypes
  <2> QED
    BY <1>3, <2>1, <2>3, <2>4, RestTypes DEF PasswordRejected, TypeInv
<1>4. CASE PasswordHelperReaped
  <2>1. AuthTypeOK'
    BY <1>4, OwnerTypes DEF PasswordHelperReaped, TypeInv
  <2> QED
    BY <1>0, <1>4, <2>1, RestTypes DEF PasswordHelperReaped, TypeInv
<1> QED
  BY <1>1, <1>2, <1>3, <1>4 DEF PasswordReports

LEMMA FingerKeepsTypes ==
  ASSUME TypeInv, FingerReports
  PROVE  TypeInv'
<1>0. finger \in Reader!Session({User, NoUser})
  BY DEF TypeInv
<1>1. ASSUME NEW found \in BOOLEAN, ProbeFinished(found)
      PROVE  TypeInv'
  BY <1>0, <1>1, ReaderTypes, RestTypes DEF ProbeFinished, TypeInv
<1>2. CASE FingerprintMatched
  <2>1. AuthTypeOK'
    <3>1. AuthTypeOK
      BY DEF TypeInv
    <3>2. CASE m_authenticating
      <4>1. AuthStop
        BY <1>2, <3>2, Zenon DEF FingerprintMatched
      <4> QED
        BY <3>1, <4>1, OwnerTypes
    <3>3. CASE ~m_authenticating
      <4>1. UNCHANGED authVars
        BY <1>2, <3>3, Zenon DEF FingerprintMatched
      <4> QED
        BY <3>1, <4>1, OwnerTypes
    <3> QED
      BY <3>2, <3>3
  <2>2. Reader!RunFinished(finger, TRUE, FALSE).session \in Reader!Session({User, NoUser})
    BY <1>0, ReaderTypes
  <2> QED
    BY <1>2, <2>1, <2>2, FinishTypes DEF FingerprintMatched, TypeInv
<1>3. CASE FingerprintRejected
  <2>1. Reader!RunRejected(finger).session \in Reader!Session({User, NoUser})
    BY <1>0, ReaderTypes
  <2>2. CASE m_authenticating
    <3>1. finger' = Reader!RunRejected(finger).session /\ UNCHANGED <<windowVars, authenticating>>
      BY <1>3, <2>2, Zenon DEF FingerprintRejected
    <3>2. CheckTypes'
      BY <1>3, <3>1 DEF FingerprintRejected, CheckTypes, TypeInv
    <3> QED
      BY <1>3, <2>1, <3>1, <3>2, RestTypes DEF FingerprintRejected, TypeInv
  <2>3. CASE ~m_authenticating
    <3>1. ShowFailure(Reader!RunRejected(finger).session)
      BY <1>3, <2>3, Zenon DEF FingerprintRejected
    <3>2. /\ WindowsTypeOK' /\ authenticating' = FALSE
          /\ finger' \in Reader!Session({User, NoUser})
      BY <2>1, <3>1, FailureTypes
    <3>3. CheckTypes'
      BY <1>3, <3>2 DEF FingerprintRejected, CheckTypes, TypeInv
    <3> QED
      BY <1>3, <3>2, <3>3, RestTypes DEF FingerprintRejected, TypeInv
  <2> QED
    BY <2>2, <2>3
<1>4. CASE FingerprintRunEnds
  <2>1. finger' \in Reader!Session({User, NoUser})
    BY <1>0, <1>4, ReaderTypes DEF FingerprintRunEnds
  <2> QED
    BY <1>4, <2>1, RestTypes DEF FingerprintRunEnds, TypeInv
<1> QED
  BY <1>1, <1>2, <1>3, <1>4 DEF FingerReports

(* The steps of the windows by themselves, as Next takes them.             *)
WindowsMove ==
  \/ FadeStep \/ LockerRuns \/ SurfacesAppear
  \/ ~StaleUnread /\ OutputsChange
  \/ CompositorLocks \/ CompositorFinishes

LEMMA WindowsKeepTypes ==
  ASSUME TypeInv, WindowStep(WindowsMove)
  PROVE  TypeInv'
<1>1. WindowsMove /\ WindowsTypeOK
  BY DEF WindowStep, TypeInv
<1>2. WindowsTypeOK'
  BY <1>1, WindowStepTypes
     DEF WindowsMove, FadeStep, LockerRuns, SurfacesAppear, OutputsChange
<1>3. finger' \in Reader!Session({User, NoUser})
  BY ReaderTypes DEF WindowStep, TypeInv
<1> QED
  BY <1>2, <1>3, RestTypes DEF WindowStep, TypeInv

LEMMA NextKeepsLockTypes ==
  ASSUME TypeInv, [Next]_vars
  PROVE  TypeInv'
<1>1. CASE Requested
  BY <1>1, RequestedKeepsTypes
<1>2. CASE UserActs
  BY <1>2, UserKeepsTypes
<1>3. CASE PasswordReports
  BY <1>3, PasswordKeepsTypes
<1>4. CASE FingerReports
  BY <1>4, FingerKeepsTypes
<1>5. CASE LockMinutePasses
  <2>1. LockoutTypes'
    BY <1>5, LockoutCounts DEF TypeInv
  <2> QED
    BY <1>5, <2>1, RestTypes DEF LockMinutePasses, TypeInv
<1>6. CASE \/ WindowStep(FadeStep \/ LockerRuns \/ SurfacesAppear \/ (~StaleUnread /\ OutputsChange))
           \/ WindowStep(CompositorLocks \/ CompositorFinishes)
  <2>1. WindowStep(WindowsMove)
    BY <1>6, Zenon DEF WindowStep, WindowsMove
  <2> QED
    BY <2>1, WindowsKeepTypes
<1>7. CASE HelperStep(HelperProgress \/ HelperAsks \/ PamDecides \/ HelperDies)
  <2>1. AuthTypeOK'
    BY <1>7, HelperTypes
       DEF HelperStep, PamDecides, HelperDies, HelperNext, TypeInv
  <2>2. UNCHANGED <<windowVars, checkVars, lockoutVars, powerVars, finger, admitted>>
    BY <1>7 DEF HelperStep, workerVars, checkVars, lockoutVars, powerVars
  <2> QED
    BY <2>1, <2>2, RestTypes DEF TypeInv
<1>8. CASE UNCHANGED vars
  <2>1. UNCHANGED <<authVars, windowVars, checkVars, lockoutVars, powerVars, finger, admitted>>
    BY <1>8 DEF vars, workerVars, checkVars, lockoutVars, powerVars
  <2> QED
    BY <2>1, RestTypes DEF TypeInv
<1> QED
  BY <1>1, <1>2, <1>3, <1>4, <1>5, <1>6, <1>7, <1>8 DEF Next

LEMMA InitLockTypes == Init => TypeInv
<1> SUFFICES ASSUME Init
             PROVE  TypeInv
  OBVIOUS
<1>1. AuthTypeOK
  BY AuthInitTypes DEF Init
<1>2. WindowsTypeOK
  <2>1. screens \subseteq Screens
    BY DEF Init, WindowsInit
  <2>2. 0 \in 0..Cardinality(Screens)
    BY FS_CardinalityType, LockWindowsAssumption
  <2> QED
    BY <2>1, <2>2, LockUnlocked DEF Init, WindowsInit, WindowsTypeOK
<1>3. LockoutTypes
  <2>1. Tries \in 0..Tries /\ Tries # 0 /\ LockNum \in 1..LockNum
    BY LockNumbers
  <2> QED
    BY <2>1 DEF Init, LockoutTypes
<1>4. finger \in Reader!Session({User, NoUser})
  BY DEF Init, Reader!Idle, Reader!Session, Reader!State
<1> QED
  BY <1>1, <1>2, <1>3, <1>4 DEF Init, TypeInv, CheckTypes, PowerTypes

LEMMA TypesHold == Spec => []TypeInv
<1>1. Init => TypeInv
  BY InitLockTypes
<1>2. TypeInv /\ [Next]_vars => TypeInv'
  BY NextKeepsLockTypes
<1> QED
  BY <1>1, <1>2, PTL DEF Spec

(* Every variable of the lock screen keeps its type: the tries and the     *)
(* minutes of a lockout stay in their ranges, the fades never run in a     *)
(* window that is gone, the prompt is in a window there is, and the count  *)
(* of fades neither wraps nor exceeds the outputs.                         *)
THEOREM LockTypesCorrect == Spec => []LockTypeOK
BY TypesHold, TypesOfInv, PTL

-----------------------------------------------------------------------------
(* The view and the worker.                                                *)

(* The view's copies of the worker's state are never behind it, whatever   *)
(* the environment does: each way a check, a lockout or a power request    *)
(* can begin and end updates both in the same step.                        *)
THEOREM BackendStaysInStep == Spec => []BackendInStep
<1>1. Init => BackendInStep
  BY DEF Init, BackendInStep
<1>2. TypeInv /\ BackendInStep /\ [Next]_vars => BackendInStep'
  <2> SUFFICES ASSUME TypeInv, BackendInStep, [Next]_vars
               PROVE  BackendInStep'
    OBVIOUS
  <2> USE DEF BackendInStep, checkVars, lockoutVars, powerVars
  <2>1. CASE Requested
    BY <2>1 DEF Requested, Show, ShowUserList, Hide
  <2>2. CASE EnterPassword \/ LeavePassword \/ Submit
    BY <2>2 DEF EnterPassword, LeavePassword, Submit
  <2>3. ASSUME NEW action \in PowerActions, RequestPower(action)
        PROVE  BackendInStep'
    BY <2>3 DEF RequestPower
  <2>4. CASE PasswordAsked \/ PasswordHelperReaped
    BY <2>4 DEF PasswordAsked, PasswordHelperReaped, workerVars
  <2>5. CASE PasswordAccepted \/ FingerprintMatched
    <3>1. /\ m_authenticating' = FALSE /\ authenticating' = FALSE
          /\ UNCHANGED <<lockNum, isLock, lockedOut, lockMinutes, powerVars>>
      BY <2>5 DEF PasswordAccepted, FingerprintMatched, FinishUnlockOf
    <3> QED
      BY <3>1
  <2>6. CASE PasswordRejected
    <3>1. m_authenticating' = FALSE /\ authenticating' = FALSE /\ UNCHANGED powerVars
      BY <2>6, Zenon DEF PasswordRejected, ShowFailure
    <3>2. lockedOut' = isLock' /\ lockMinutes' = lockNum'
      BY <2>6, Zenon DEF PasswordRejected, CountRejection, UpdateLockState
    <3> QED
      BY <3>1, <3>2
  <2>7. CASE FingerprintRejected
    <3>1. UNCHANGED <<m_authenticating, lockoutVars, powerVars>>
      BY <2>7 DEF FingerprintRejected
    <3>2. CASE m_authenticating
      <4>1. UNCHANGED authenticating
        BY <2>7, <3>2, Zenon DEF FingerprintRejected
      <4> QED
        BY <3>1, <4>1
    <3>3. CASE ~m_authenticating
      <4>1. authenticating' = FALSE
        BY <2>7, <3>3, Zenon DEF FingerprintRejected, ShowFailure
      <4>2. m_authenticating = FALSE
        BY <3>3 DEF TypeInv, CheckTypes
      <4> QED
        BY <3>1, <4>1, <4>2
    <3> QED
      BY <3>2, <3>3
  <2>8. CASE (\E found \in BOOLEAN : ProbeFinished(found)) \/ FingerprintRunEnds
    BY <2>8 DEF ProbeFinished, FingerprintRunEnds
  <2>9. CASE LockMinutePasses
    BY <2>9 DEF LockMinutePasses, UpdateLockState
  <2>10. CASE \/ WindowStep(FadeStep \/ LockerRuns \/ SurfacesAppear \/ (~StaleUnread /\ OutputsChange))
              \/ WindowStep(CompositorLocks \/ CompositorFinishes)
    BY <2>10 DEF WindowStep
  <2>11. CASE HelperStep(HelperProgress \/ HelperAsks \/ PamDecides \/ HelperDies)
    BY <2>11 DEF HelperStep, workerVars
  <2>12. CASE UNCHANGED vars
    BY <2>12 DEF vars, workerVars
  <2> QED
    BY <2>1, <2>2, <2>3, <2>4, <2>5, <2>6, <2>7, <2>8, <2>9, <2>10, <2>11, <2>12
       DEF Next, UserActs, PasswordReports, FingerReports
<1> QED
  BY <1>1, <1>2, TypesHold, PTL DEF Spec

-----------------------------------------------------------------------------
(* The session lock and the windows.                                       *)

(* The outputs whose window has, or will have, a surface of the lock.      *)
Covered(l) == {s \in Screens : l.surface[s] # "none"}

(* Nothing is owed to or by a lock that was not asked for, and the compo-  *)
(* sitor has said nothing but that it locked.                              *)
Owed(l) == l.unlockPending \/ l.locked \/ l.events # <<>> \/ l.session # "unlocked"

LockSane(l) ==
  /\ Owed(l) => l.requested
  /\ \A i \in DOMAIN l.events : l.events[i] = "locked"

(* What each operation does to the two.                                    *)
LEMMA CoverOfSurfaces ==
  ASSUME NEW l \in Lock, LockSane(l)
  PROVE  /\ \A s \in Screens :
              LET m == CreateSurface(l, s)
              IN  LockSane(m) /\ m.requested /\ Covered(m) = Covered(l) \cup {s}
         /\ \A s \in Screens :
              LET m == BindLockSurface(l, s)
              IN  LockSane(m) /\ m.requested /\ Covered(m) = Covered(l) \cup {s}
         /\ \A ss \in SUBSET Screens :
              LET m == CreateSurfaces(l, ss)
              IN  /\ LockSane(m) /\ Covered(m) = Covered(l) \cup ss
                  /\ m.requested <=> l.requested \/ ss # {}
         /\ \A ss \in SUBSET Screens :
              LET m == DestroySurfaces(l, ss)
              IN  /\ LockSane(m) /\ Covered(m) = Covered(l) \ ss
                  /\ m.requested = l.requested /\ m.unlockPending = l.unlockPending
                  /\ m.locked = l.locked
<1> DEFINE e == EnsureLock(l)
<1>1. e \in Lock /\ LockSane(e) /\ e.requested = TRUE /\ e.surface = l.surface
  <2>1. CASE l.requested
    BY <2>1 DEF EnsureLock, Lock
  <2>2. CASE ~l.requested
    <3>1. /\ e \in Lock /\ e.requested = TRUE /\ e.surface = l.surface /\ e.events = l.events
      BY <2>2, SurfaceTypes DEF EnsureLock, Lock
    <3> QED
      BY <3>1 DEF LockSane
  <2> QED
    BY <2>1, <2>2
<1> HIDE DEF e
<1>2. ASSUME NEW s \in Screens
      PROVE  LET m == CreateSurface(l, s)
             IN  LockSane(m) /\ m.requested /\ Covered(m) = Covered(l) \cup {s}
  <2>1. CreateSurface(l, s) = [e EXCEPT !.surface[s] = "binding"]
    BY DEF CreateSurface, e
  <2> QED
    BY <1>1, <2>1 DEF LockSane, Owed, Covered, Lock
<1>3. ASSUME NEW s \in Screens
      PROVE  LET m == BindLockSurface(l, s)
             IN  LockSane(m) /\ m.requested /\ Covered(m) = Covered(l) \cup {s}
  <2>1. BindLockSurface(l, s) = [e EXCEPT !.surface[s] = "bound"]
    BY DEF BindLockSurface, e
  <2> QED
    BY <1>1, <2>1 DEF LockSane, Owed, Covered, Lock
<1>4. ASSUME NEW ss \in SUBSET Screens
      PROVE  LET m == CreateSurfaces(l, ss)
             IN  /\ LockSane(m) /\ Covered(m) = Covered(l) \cup ss
                 /\ m.requested <=> l.requested \/ ss # {}
  <2>1. CASE ss = {}
    BY <2>1 DEF CreateSurfaces
  <2>2. CASE ss # {}
    <3>1. CreateSurfaces(l, ss) =
            [e EXCEPT !.surface = [s \in Screens |-> IF s \in ss THEN "binding" ELSE @[s]]]
      BY <2>2 DEF CreateSurfaces, e
    <3> QED
      BY <1>1, <2>2, <3>1 DEF LockSane, Owed, Covered, Lock
  <2> QED
    BY <2>1, <2>2
<1>5. ASSUME NEW ss \in SUBSET Screens
      PROVE  LET m == DestroySurfaces(l, ss)
             IN  /\ LockSane(m) /\ Covered(m) = Covered(l) \ ss
                 /\ m.requested = l.requested /\ m.unlockPending = l.unlockPending
                 /\ m.locked = l.locked
  BY DEF DestroySurfaces, LockSane, Owed, Covered, Lock
<1> QED
  BY <1>2, <1>3, <1>4, <1>5

LEMMA CoverOfUnlock ==
  ASSUME NEW l \in Lock, LockSane(l)
  PROVE  /\ LockSane(DropLock(l)) /\ ~DropLock(l).requested /\ ~DropLock(l).unlockPending
         /\ Covered(DropLock(l)) \subseteq Covered(l)
         /\ EmitsUnlocked(l) => Unlock(l) = DropLock(l)
         /\ ~EmitsUnlocked(l) =>
              /\ LockSane(Unlock(l)) /\ Covered(Unlock(l)) = Covered(l)
              /\ Unlock(l).requested = l.requested
              /\ Unlock(l).unlockPending = (l.unlockPending \/ l.requested)
<1>1. /\ LockSane(DropLock(l)) /\ ~DropLock(l).requested /\ ~DropLock(l).unlockPending
      /\ Covered(DropLock(l)) \subseteq Covered(l)
  <2> DEFINE d == [l EXCEPT !.requested = FALSE, !.locked = FALSE, !.unlockPending = FALSE,
                            !.session = "unlocked", !.events = <<>>]
  <2>1. /\ d \in Lock /\ d.requested = FALSE /\ d.locked = FALSE /\ d.unlockPending = FALSE
        /\ d.session = "unlocked" /\ d.events = <<>> /\ d.surface = l.surface
    <3>1. <<>> \in Seq({"locked", "finished"})
      OBVIOUS
    <3> QED
      BY <3>1 DEF Lock
  <2>2. DropLock(l) = [d EXCEPT !.surface = [s \in Screens |-> IF @[s] = "bound" THEN "none" ELSE @[s]]]
    BY DEF DropLock, ReleaseSurfaces
  <2> HIDE DEF d
  <2> QED
    BY <2>1, <2>2 DEF LockSane, Owed, Covered, Lock
<1>2. EmitsUnlocked(l) => Unlock(l) = DropLock(l)
  BY DEF EmitsUnlocked, Unlock
<1>3. ASSUME ~EmitsUnlocked(l)
      PROVE  /\ LockSane(Unlock(l)) /\ Covered(Unlock(l)) = Covered(l)
             /\ Unlock(l).requested = l.requested
             /\ Unlock(l).unlockPending = (l.unlockPending \/ l.requested)
  <2>1. CASE ~l.requested
    <3>1. Unlock(l) = l /\ ~l.unlockPending
      BY <2>1 DEF Unlock, LockSane, Owed
    <3> QED
      BY <2>1, <3>1 DEF Lock
  <2>2. CASE l.requested
    <3>1. Unlock(l) = [l EXCEPT !.unlockPending = TRUE]
      BY <1>3, <2>2 DEF Unlock, EmitsUnlocked
    <3>2. /\ Unlock(l).requested = l.requested /\ Unlock(l).unlockPending = TRUE
          /\ Unlock(l).surface = l.surface /\ Unlock(l).events = l.events
      BY <3>1 DEF Lock
    <3>3. LockSane(Unlock(l)) /\ Covered(Unlock(l)) = Covered(l)
      BY <2>2, <3>2 DEF LockSane, Covered
    <3> QED
      BY <2>2, <3>2, <3>3
  <2> QED
    BY <2>1, <2>2
<1> QED
  BY <1>1, <1>2, <1>3

(* What keeps the outputs covered.  A surface belongs to a window that is  *)
(* there and shown, and every such window has one until unlocked() is      *)
(* queued, which ends with new windows.  Where slots that are queued run   *)
(* first, a lock that was asked for is that of the screen that is shown.   *)
CoverInv ==
  /\ LockSane(lock)
  /\ Covered(lock) \subseteq screens
  /\ Covered(lock) # {} => available /\ isShow
  /\ lock.requested => available
  /\ posted => available
  /\ ~posted /\ available /\ isShow => screens \subseteq Covered(lock)
  /\ ~posted /\ Covered(lock) # {} => lock.requested
  /\ ~SlowQueue => /\ lock.requested => isShow
                   /\ posted => isShow /\ ~lock.requested

LEMMA CoverTypes ==
  ASSUME TypeInv
  PROVE  lock \in Lock /\ screens \in SUBSET Screens
BY DEF TypeInv, WindowsTypeOK

LEMMA UnchangedCover ==
  ASSUME CoverInv, UNCHANGED <<available, isShow, screens, lock, posted>>
  PROVE  CoverInv'
BY DEF CoverInv, LockSane, Owed, Covered

LEMMA FinishUnlockCover ==
  ASSUME TypeInv, CoverInv, NEW running, NEW done, FinishUnlock(running, done),
         UNCHANGED <<available, screens>>
  PROVE  CoverInv'
<1>1. lock \in Lock /\ LockSane(lock) /\ screens \in SUBSET Screens
  BY CoverTypes DEF CoverInv
<1>2. CASE available
  <2>1. lock' = Unlock(lock) /\ posted' = (posted \/ EmitsUnlocked(lock)) /\ isShow' = isShow
    BY <1>2, Zenon DEF FinishUnlock
  <2>2. CASE EmitsUnlocked(lock)
    <3>1. /\ LockSane(lock') /\ ~lock'.requested /\ Covered(lock') \subseteq Covered(lock)
          /\ posted' = TRUE /\ lock.requested
      BY <1>1, <2>1, <2>2, CoverOfUnlock DEF EmitsUnlocked
    <3> QED
      BY <1>2, <2>1, <3>1 DEF CoverInv
  <2>3. CASE ~EmitsUnlocked(lock)
    <3>1. /\ LockSane(lock') /\ lock'.requested = lock.requested
          /\ Covered(lock') = Covered(lock)
          /\ posted' <=> posted
      BY <1>1, <2>1, <2>3, CoverOfUnlock
    <3> QED
      BY <1>2, <2>1, <3>1 DEF CoverInv
  <2> QED
    BY <2>2, <2>3
<1>3. CASE ~available
  <2>1. lock' = DestroySurfaces(lock, screens) /\ isShow' = FALSE /\ posted' = posted
    BY <1>3, Zenon DEF FinishUnlock, WindowsHidden
  <2>2. LockSane(lock') /\ Covered(lock') = Covered(lock) \ screens /\ lock'.requested = lock.requested
    BY <1>1, <2>1, CoverOfSurfaces
  <2> QED
    BY <1>3, <2>1, <2>2 DEF CoverInv
<1> QED
  BY <1>2, <1>3

LEMMA ShownCover ==
  ASSUME TypeInv, CoverInv, WindowsShown, UNCHANGED <<available, screens, posted>>
  PROVE  CoverInv'
<1>1. lock \in Lock /\ LockSane(lock) /\ screens \in SUBSET Screens
  BY CoverTypes DEF CoverInv
<1>2. isShow' = TRUE
  BY DEF WindowsShown
<1>3. CASE available /\ ~isShow
  <2>1. lock' = CreateSurfaces(lock, screens)
    BY <1>3, Zenon DEF WindowsShown
  <2>2. /\ LockSane(lock') /\ Covered(lock') = Covered(lock) \cup screens
        /\ lock'.requested <=> lock.requested \/ screens # {}
    BY <1>1, <2>1, CoverOfSurfaces
  <2> QED
    BY <1>2, <1>3, <2>2 DEF CoverInv
<1>4. CASE ~(available /\ ~isShow)
  <2>1. lock' = lock
    BY <1>4, Zenon DEF WindowsShown
  <2> QED
    BY <1>2, <1>4, <2>1 DEF CoverInv
<1> QED
  BY <1>3, <1>4

LEMMA AuthenticatedCover ==
  ASSUME TypeInv, CoverInv, Authenticated
  PROVE  CoverInv'
<1>1. CASE screens = {} /\ ~unlockPending
  <2>1. FinishUnlock({}, {}) /\ UNCHANGED <<available, screens>>
    BY <1>1, Zenon DEF Authenticated
  <2> QED
    BY <2>1, FinishUnlockCover
<1>2. CASE ~(screens = {} /\ ~unlockPending)
  <2>1. UNCHANGED <<available, isShow, screens, lock, posted>>
    BY <1>2, Zenon DEF Authenticated
  <2> QED
    BY <2>1, UnchangedCover
<1> QED
  BY <1>1, <1>2

(* The steps of the windows and of the compositor.                         *)
LEMMA WindowsMoveCover ==
  ASSUME TypeInv, CoverInv, WindowsMove, ~MayFinish
  PROVE  CoverInv'
<1>1. lock \in Lock /\ LockSane(lock) /\ screens \in SUBSET Screens
  BY CoverTypes DEF CoverInv
<1>2. ASSUME NEW s \in Screens, FadeFinished(s)
      PROVE  CoverInv'
  <2>1. CASE unlockPending /\ pendingUnlockFades <= 1
    <3>1. FinishUnlock(fading \ {s}, faded \cup {s}) /\ UNCHANGED <<available, screens>>
      BY <1>2, <2>1, Zenon DEF FadeFinished
    <3> QED
      BY <3>1, FinishUnlockCover
  <2>2. CASE ~(unlockPending /\ pendingUnlockFades <= 1)
    <3>1. UNCHANGED <<available, isShow, screens, lock, posted>>
      BY <1>2, <2>2, Zenon DEF FadeFinished
    <3> QED
      BY <3>1, UnchangedCover
  <2> QED
    BY <2>1, <2>2
<1>3. CASE UnlockFadeTimesOut
  BY <1>3, FinishUnlockCover DEF UnlockFadeTimesOut
<1>4. CASE SessionLocked
  <2> DEFINE m == [lock EXCEPT !.locked = TRUE, !.events = Tail(@)]
  <2>1. lock.events \in Seq({"locked", "finished"}) /\ lock.events # <<>>
    BY <1>1, <1>4 DEF SessionLocked, Lock
  <2>2. Tail(lock.events) \in Seq({"locked", "finished"})
    BY <2>1
  <2>3. /\ m \in Lock /\ m.locked = TRUE /\ m.requested = lock.requested
        /\ m.unlockPending = lock.unlockPending /\ m.surface = lock.surface
        /\ m.events = Tail(lock.events)
    BY <1>1, <2>2 DEF Lock
  <2>4. \A i \in DOMAIN Tail(lock.events) : Tail(lock.events)[i] = "locked"
    BY <1>1, <2>1 DEF LockSane
  <2>5. lock.requested
    BY <1>1, <2>1 DEF LockSane, Owed
  <2>6. LockSane(m) /\ Covered(m) = Covered(lock)
    BY <2>3, <2>4, <2>5 DEF LockSane, Covered
  <2>7. lock' = (IF m.unlockPending THEN Unlock(m) ELSE m)
    BY <1>4 DEF SessionLocked, HandleLocked
  <2>8. posted' = lock.unlockPending /\ ~posted /\ UNCHANGED <<available, isShow, screens>>
    BY <1>4 DEF SessionLocked
  <2> HIDE DEF m
  <2>9. CASE lock.unlockPending
    <3>1. EmitsUnlocked(m)
      BY <2>3, <2>5 DEF EmitsUnlocked
    <3>2. lock' = DropLock(m)
      BY <2>3, <2>6, <2>7, <2>9, <3>1, CoverOfUnlock
    <3>3. LockSane(lock') /\ ~lock'.requested /\ Covered(lock') \subseteq Covered(lock)
      BY <2>3, <2>6, <3>2, CoverOfUnlock
    <3> QED
      BY <2>5, <2>8, <2>9, <3>3 DEF CoverInv
  <2>10. CASE ~lock.unlockPending
    <3>1. lock' = m
      BY <2>3, <2>7, <2>10
    <3> QED
      BY <2>3, <2>6, <2>8, <2>10, <3>1 DEF CoverInv
  <2> QED
    BY <2>9, <2>10
<1>5. CASE SessionLockFinished
  <2>1. lock.events \in Seq({"locked", "finished"}) /\ lock.events # <<>>
        /\ Head(lock.events) = "finished"
    BY <1>1, <1>5 DEF SessionLockFinished, Lock
  <2>2. 1 \in DOMAIN lock.events /\ lock.events[1] = "finished"
    BY <2>1
  <2> QED
    BY <1>1, <2>2 DEF LockSane
<1>6. CASE WindowsRecreated
  <2>1. /\ lock' = DestroySurfaces(lock, screens) /\ isShow' = FALSE /\ posted' = FALSE
        /\ posted /\ UNCHANGED <<available, screens>>
    BY <1>6 DEF WindowsRecreated
  <2>2. LockSane(lock') /\ Covered(lock') = Covered(lock) \ screens /\ lock'.requested = lock.requested
    BY <1>1, <2>1, CoverOfSurfaces
  <2> QED
    BY <2>1, <2>2 DEF CoverInv
<1>7. ASSUME NEW s \in Screens, BindSurface(s)
      PROVE  CoverInv'
  <2>1. LockSane(lock') /\ lock'.requested /\ Covered(lock') = Covered(lock) \cup {s}
    BY <1>1, <1>7, CoverOfSurfaces DEF BindSurface
  <2>2. s \in Covered(lock) /\ (posted => SlowQueue) /\ UNCHANGED <<available, isShow, screens, posted>>
    BY <1>7 DEF BindSurface, Covered
  <2>3. Covered(lock') = Covered(lock)
    BY <2>1, <2>2
  <2> QED
    BY <2>1, <2>2, <2>3 DEF CoverInv
<1>8. ASSUME posted => SlowQueue, NEW s \in Screens, ScreenAdded(s)
      PROVE  CoverInv'
  <2>1. screens' = screens \cup {s} /\ UNCHANGED <<available, isShow, posted>>
    BY <1>8 DEF ScreenAdded
  <2>2. CASE available /\ isShow
    <3>1. lock' = CreateSurface(lock, s)
      BY <1>8, <2>2, Zenon DEF ScreenAdded
    <3>2. LockSane(lock') /\ lock'.requested /\ Covered(lock') = Covered(lock) \cup {s}
      BY <1>1, <3>1, CoverOfSurfaces
    <3> QED
      BY <1>8, <2>1, <2>2, <3>2 DEF CoverInv
  <2>3. CASE ~(available /\ isShow)
    <3>1. lock' = lock
      BY <1>8, <2>3, Zenon DEF ScreenAdded
    <3> QED
      BY <2>1, <2>3, <3>1 DEF CoverInv
  <2> QED
    BY <2>2, <2>3
<1>9. ASSUME NEW s \in Screens, ScreenRemoved(s)
      PROVE  CoverInv'
  <2>1. screens' = screens \ {s} /\ lock' = DestroySurfaces(lock, {s})
        /\ UNCHANGED <<available, isShow, posted>>
    BY <1>9 DEF ScreenRemoved
  <2>2. LockSane(lock') /\ Covered(lock') = Covered(lock) \ {s} /\ lock'.requested = lock.requested
    BY <1>1, <2>1, CoverOfSurfaces
  <2> QED
    BY <2>1, <2>2 DEF CoverInv
<1>10. ASSUME NEW s \in Screens, PrimaryScreenChanged(s)
       PROVE  CoverInv'
  BY <1>10, UnchangedCover DEF PrimaryScreenChanged
<1>11. CASE CompositorLocks
  <2>1. lock.requested
    BY <1>1, <1>11 DEF CompositorLocks, LockSane, Owed
  <2>2. lock.events \in Seq({"locked", "finished"})
    BY <1>1 DEF Lock
  <2>3. \A i \in DOMAIN Append(lock.events, "locked") : Append(lock.events, "locked")[i] = "locked"
    BY <1>1, <2>2 DEF LockSane
  <2>4. /\ lock'.events = Append(lock.events, "locked")
        /\ lock'.requested = lock.requested /\ lock'.surface = lock.surface
        /\ UNCHANGED <<available, isShow, screens, posted>>
    BY <1>1, <1>11 DEF CompositorLocks, Locks, Lock
  <2>5. LockSane(lock') /\ Covered(lock') = Covered(lock)
    BY <2>1, <2>3, <2>4 DEF LockSane, Covered
  <2> QED
    BY <2>4, <2>5 DEF CoverInv
<1>12. CASE CompositorFinishes
  BY <1>12 DEF CompositorFinishes
<1> QED
  BY <1>2, <1>3, <1>4, <1>5, <1>6, <1>7, <1>8, <1>9, <1>10, <1>11, <1>12
     DEF WindowsMove, FadeStep, LockerRuns, SurfacesAppear, OutputsChange

LEMMA CoverStep ==
  ASSUME TypeInv, CoverInv, [Next]_vars, ~MayFinish, ~MayHide
  PROVE  CoverInv'
<1>0. UNCHANGED stageVars => UNCHANGED <<available, isShow, screens, lock, posted>>
  BY DEF stageVars
<1>1. CASE Requested
  <2>1. CASE Show
    BY <2>1, ShownCover DEF Show
  <2>2. CASE ShowUserList
    BY <2>2, ShownCover DEF ShowUserList
  <2> QED
    BY <1>1, <2>1, <2>2 DEF Requested, Hide
<1>2. CASE UserActs
  <2>1. UNCHANGED <<available, isShow, screens, lock, posted>>
    BY <1>0, <1>2 DEF UserActs, EnterPassword, LeavePassword, Submit, RequestPower, windowVars
  <2> QED
    BY <2>1, UnchangedCover
<1>3. ASSUME NEW f, FinishUnlockOf(f)
      PROVE  CoverInv'
  <2>1. CASE powerAction = None
    <3>1. Authenticated
      BY <1>3, <2>1, Zenon DEF FinishUnlockOf
    <3> QED
      BY <3>1, AuthenticatedCover
  <2>2. CASE powerAction # None
    <3>1. UNCHANGED stageVars
      BY <1>3, <2>2, Zenon DEF FinishUnlockOf
    <3> QED
      BY <1>0, <3>1, UnchangedCover
  <2> QED
    BY <2>1, <2>2
<1>4. ASSUME NEW f, ShowFailure(f)
      PROVE  CoverInv'
  BY <1>0, <1>4, UnchangedCover DEF ShowFailure
<1>5. UNCHANGED windowVars => CoverInv'
  BY UnchangedCover DEF windowVars
<1>6. CASE PasswordReports
  BY <1>3, <1>4, <1>5, <1>6
     DEF PasswordReports, PasswordAsked, PasswordAccepted, PasswordRejected, PasswordHelperReaped
<1>7. CASE FingerReports
  BY <1>3, <1>4, <1>5, <1>7
     DEF FingerReports, ProbeFinished, FingerprintMatched, FingerprintRejected, FingerprintRunEnds
<1>8. CASE LockMinutePasses
  BY <1>5, <1>8 DEF LockMinutePasses
<1>9. CASE \/ WindowStep(FadeStep \/ LockerRuns \/ SurfacesAppear \/ (~StaleUnread /\ OutputsChange))
           \/ WindowStep(CompositorLocks \/ CompositorFinishes)
  <2>1. WindowsMove
    BY <1>9, Zenon DEF WindowStep, WindowsMove
  <2> QED
    BY <2>1, WindowsMoveCover
<1>10. CASE HelperStep(HelperProgress \/ HelperAsks \/ PamDecides \/ HelperDies)
  BY <1>5, <1>10 DEF HelperStep
<1>11. CASE UNCHANGED vars
  BY <1>5, <1>11 DEF vars
<1> QED
  BY <1>1, <1>2, <1>6, <1>7, <1>8, <1>9, <1>10, <1>11 DEF Next

LEMMA CoverInit == Init => CoverInv
<1> SUFFICES ASSUME Init
             PROVE  CoverInv
  OBVIOUS
<1>1. lock = Unlocked /\ isShow = FALSE /\ posted = FALSE
  BY DEF Init, WindowsInit
<1>2. LockSane(lock) /\ Covered(lock) = {} /\ lock.requested = FALSE
  BY <1>1 DEF Unlocked, LockSane, Owed, Covered
<1> QED
  BY <1>1, <1>2 DEF CoverInv

LEMMA CoverHolds ==
  ASSUME ~MayFinish, ~MayHide
  PROVE  Spec => []CoverInv
<1>1. TypeInv /\ CoverInv /\ [Next]_vars => CoverInv'
  BY CoverStep
<1> QED
  BY <1>1, CoverInit, TypesHold, PTL DEF Spec

(* The compositor is asked to lock the session only by a locker that       *)
(* covers every output, whatever outputs come and go while the lock is     *)
(* asked for, confirmed and given up; unless the compositor ends the lock, *)
(* the screen saver is told off the screen, or an output is handled before *)
(* a slot that was queued earlier.                                         *)
THEOREM LockStaysCovered ==
  ASSUME ~MayFinish, ~MayHide, ~SlowQueue
  PROVE  Spec => []LockIsCovered
<1>1. TypeInv /\ CoverInv => LockIsCovered
  <2> SUFFICES ASSUME TypeInv, CoverInv, lock.requested, ~posted
               PROVE  isShow /\ \A s \in screens : lock.surface[s] # "none"
    BY DEF LockIsCovered
  <2>1. isShow /\ screens \subseteq Covered(lock)
    BY DEF CoverInv
  <2> QED
    BY <2>1 DEF Covered
<1> QED
  BY <1>1, CoverHolds, TypesHold, PTL

-----------------------------------------------------------------------------
(* The verdicts of the password's helper.                                  *)

VerdictType == {"AUTHENTICATED", "REJECTED"}

Verdicts == {i \in DOMAIN inbox : inbox[i].type \in VerdictType}

Asking == {"starting", "auth", "prompt"}

OneVerdict == \A i, j \in Verdicts : i = j

(* A helper gives one verdict, and the worker is busy until it has come,   *)
(* unless the helper was stopped.                                          *)
LastVerdict ==
  /\ OneVerdict
  /\ helper \in Asking => Verdicts = {}
  /\ helper # "none" /\ (helper \in Asking \/ Verdicts # {}) => m_authenticating

(* No verdict can come any more but that of a helper that was stopped.     *)
Settled == helper \notin Asking /\ (Verdicts # {} => helper = "none")

LEMMA InboxTypes ==
  ASSUME TypeInv
  PROVE  inbox \in Seq(Message) /\ \A i \in DOMAIN inbox : inbox[i] \in Message
BY DEF TypeInv, AuthTypeOK

LEMMA ReadOther ==
  ASSUME TypeInv, NEW type, type \notin VerdictType, Receive(type)
  PROVE  /\ Verdicts' = {} <=> Verdicts = {}
         /\ OneVerdict => OneVerdict'
<1>1. /\ inbox \in Seq(Message) /\ inbox # <<>> /\ inbox' = Tail(inbox)
      /\ inbox[1].type \notin VerdictType
  BY InboxTypes DEF Receive, NextMessage
<1>2. /\ DOMAIN inbox = 1..Len(inbox) /\ DOMAIN inbox' = 1..(Len(inbox) - 1)
      /\ Len(inbox) \in Nat
      /\ \A i \in DOMAIN inbox' : inbox'[i] = inbox[i + 1]
  BY <1>1
<1>3. \A i \in Verdicts' : i + 1 \in Verdicts
  BY <1>2 DEF Verdicts
<1>4. \A i \in Verdicts : i # 1 /\ i - 1 \in Verdicts'
  BY <1>1, <1>2 DEF Verdicts
<1>5. Verdicts' \subseteq Nat
  BY <1>2 DEF Verdicts
<1>6. Verdicts' = {} <=> Verdicts = {}
  BY <1>3, <1>4
<1>7. ASSUME OneVerdict, NEW i \in Verdicts', NEW j \in Verdicts'
      PROVE  i = j
  <2>1. i + 1 = j + 1
    BY <1>3, <1>7 DEF OneVerdict
  <2> QED
    BY <1>5, <2>1
<1> QED
  BY <1>6, <1>7 DEF OneVerdict

LEMMA ReadVerdict ==
  ASSUME TypeInv, OneVerdict, NEW type \in VerdictType, Receive(type)
  PROVE  Verdicts # {} /\ Verdicts' = {}
<1>1. /\ inbox \in Seq(Message) /\ inbox # <<>> /\ inbox' = Tail(inbox)
      /\ inbox[1].type \in VerdictType
  BY InboxTypes DEF Receive, NextMessage
<1>2. /\ DOMAIN inbox = 1..Len(inbox) /\ DOMAIN inbox' = 1..(Len(inbox) - 1)
      /\ Len(inbox) \in Nat /\ 1 \in DOMAIN inbox
      /\ \A i \in DOMAIN inbox' : inbox'[i] = inbox[i + 1] /\ i + 1 \in DOMAIN inbox
  BY <1>1
<1>3. 1 \in Verdicts
  BY <1>1, <1>2 DEF Verdicts
<1>4. ASSUME NEW i \in Verdicts'
      PROVE  FALSE
  <2>1. i \in DOMAIN inbox' /\ i + 1 \in Verdicts
    BY <1>2 DEF Verdicts
  <2>2. i + 1 = 1
    BY <1>3, <2>1 DEF OneVerdict
  <2> QED
    BY <1>2, <2>1, <2>2
<1> QED
  BY <1>3, <1>4

LEMMA SendMessage ==
  ASSUME TypeInv, NEW type, Send(type)
  PROVE  /\ type \notin VerdictType => Verdicts' = Verdicts
         /\ type \in VerdictType /\ Verdicts = {} => OneVerdict'
<1> DEFINE m == [type |-> type, run |-> run]
<1>1. inbox \in Seq(Message) /\ inbox' = Append(inbox, m) /\ m.type = type
  BY InboxTypes DEF Send
<1> HIDE DEF m
<1>2. /\ Len(inbox) \in Nat /\ DOMAIN inbox = 1..Len(inbox)
      /\ DOMAIN inbox' = 1..(Len(inbox) + 1)
      /\ inbox'[Len(inbox) + 1] = m
      /\ \A i \in DOMAIN inbox : inbox'[i] = inbox[i]
  BY <1>1
<1>3. type \notin VerdictType => Verdicts' = Verdicts
  BY <1>1, <1>2 DEF Verdicts
<1>4. Verdicts = {} => Verdicts' \subseteq {Len(inbox) + 1}
  BY <1>2 DEF Verdicts
<1> QED
  BY <1>3, <1>4 DEF OneVerdict

(* What the helper does, and what the worker does with a helper or a       *)
(* message of it, brings no verdict where none could come.                 *)
NoNewVerdict ==
  /\ LastVerdict'
  /\ Settled => Settled' /\ (Verdicts' # {} => Verdicts # {})

LEMMA HelperVerdict ==
  ASSUME TypeInv, LastVerdict, UNCHANGED m_authenticating,
         HelperProgress \/ HelperAsks \/ PamDecides \/ HelperDies
  PROVE  NoNewVerdict
<1> USE DEF LastVerdict, Settled, NoNewVerdict, Asking
<1>1. ASSUME inbox' = inbox
      PROVE  Verdicts' = Verdicts /\ OneVerdict'
  BY <1>1 DEF Verdicts, OneVerdict
<1>2. CASE HelperConnects
  <2>1. Verdicts' = {}
    BY <1>2 DEF HelperConnects, Verdicts
  <2> QED
    BY <1>2, <2>1 DEF HelperConnects, OneVerdict
<1>3. CASE HelperReads
  BY <1>1, <1>3 DEF HelperReads, Exits
<1>4. CASE OpensSession
  <2>1. Verdicts' = Verdicts
    BY <1>4, SendMessage DEF OpensSession, VerdictType
  <2>2. OneVerdict'
    BY <2>1 DEF OneVerdict
  <2> QED
    BY <1>4, <2>1, <2>2 DEF OpensSession
<1>5. CASE HelperAsks
  <2>1. Verdicts' = Verdicts
    BY <1>5, SendMessage DEF HelperAsks, VerdictType
  <2>2. OneVerdict'
    BY <2>1 DEF OneVerdict
  <2> QED
    BY <1>5, <2>1, <2>2 DEF HelperAsks
<1>6. CASE PamAccepts
  <2>1. OneVerdict'
    BY <1>6, SendMessage DEF PamAccepts, VerdictType
  <2> QED
    BY <1>6, <2>1 DEF PamAccepts
<1>7. CASE PamRejects
  <2>1. OneVerdict'
    BY <1>7, SendMessage DEF PamRejects, VerdictType
  <2> QED
    BY <1>7, <2>1 DEF PamRejects, Exits
<1>8. CASE HelperCrashes
  BY <1>1, <1>8 DEF HelperCrashes, Exits
<1>9. CASE HelperFailsToStart
  BY <1>1, <1>9 DEF HelperFailsToStart
<1> QED
  BY <1>2, <1>3, <1>4, <1>5, <1>6, <1>7, <1>8, <1>9
     DEF HelperProgress, PamDecides, HelperDies

LEMMA OwnerVerdict ==
  ASSUME TypeInv, LastVerdict
  PROVE  /\ UNCHANGED <<authVars, m_authenticating>> => NoNewVerdict /\ Verdicts' = Verdicts
         /\ PasswordAsked => NoNewVerdict
         /\ PasswordHelperReaped => NoNewVerdict
         /\ PasswordAccepted => LastVerdict' /\ Settled' /\ Verdicts # {} /\ Verdicts' = {}
         /\ PasswordRejected => LastVerdict' /\ Settled' /\ Verdicts # {} /\ Verdicts' = {}
         /\ FingerprintMatched => LastVerdict' /\ Settled'
<1> USE DEF LastVerdict, Settled, NoNewVerdict, Asking
<1>1. ASSUME inbox' = inbox
      PROVE  Verdicts' = Verdicts /\ OneVerdict'
  BY <1>1 DEF Verdicts, OneVerdict
<1>2. UNCHANGED <<authVars, m_authenticating>> => NoNewVerdict /\ Verdicts' = Verdicts
  BY <1>1 DEF authVars
<1>3. ASSUME PasswordAsked
      PROVE  NoNewVerdict
  <2>1. PICK type \in RequestType : Receive(type)
    BY <1>3 DEF PasswordAsked, ReceiveRequest, RequestType
  <2>2. (Verdicts' = {} <=> Verdicts = {}) /\ OneVerdict'
    BY <2>1, ReadOther DEF RequestType, VerdictType
  <2>3. helper' = helper /\ m_authenticating' = m_authenticating
    BY <1>3 DEF PasswordAsked, ReceiveRequest, workerVars
  <2> QED
    BY <2>2, <2>3
<1>4. ASSUME PasswordHelperReaped
      PROVE  NoNewVerdict
  BY <1>1, <1>4 DEF PasswordHelperReaped, HelperReaped, workerVars
<1>5. ASSUME NEW type \in VerdictType, Receive(type), UNCHANGED helper
      PROVE  LastVerdict' /\ Settled' /\ Verdicts # {} /\ Verdicts' = {}
  <2>1. Verdicts # {} /\ Verdicts' = {}
    BY <1>5, ReadVerdict
  <2> QED
    BY <1>5, <2>1 DEF OneVerdict
<1>6. ASSUME PasswordAccepted
      PROVE  LastVerdict' /\ Settled' /\ Verdicts # {} /\ Verdicts' = {}
  BY <1>5, <1>6 DEF PasswordAccepted, ReceiveAccepted, VerdictType
<1>7. ASSUME PasswordRejected
      PROVE  LastVerdict' /\ Settled' /\ Verdicts # {} /\ Verdicts' = {}
  BY <1>5, <1>7 DEF PasswordRejected, ReceiveRejected, VerdictType
<1>8. ASSUME FingerprintMatched
      PROVE  LastVerdict' /\ Settled'
  <2>1. CASE m_authenticating
    <3>1. helper' = "none" /\ inbox' = inbox
      BY <1>8, <2>1, Zenon DEF FingerprintMatched, AuthStop
    <3> QED
      BY <1>1, <3>1
  <2>2. CASE ~m_authenticating
    <3>1. helper' = helper /\ inbox' = inbox
      BY <1>8, <2>2, Zenon DEF FingerprintMatched, authVars
    <3> QED
      BY <1>1, <2>2, <3>1
  <2> QED
    BY <2>1, <2>2
<1> QED
  BY <1>2, <1>3, <1>4, <1>6, <1>7, <1>8

-----------------------------------------------------------------------------
(* Unlocking.                                                              *)

UnlockInProgress == unlockPending \/ posted \/ lock.unlockPending

(* While an unlock is under way the user was accepted, the screen is shown *)
(* and nothing can accept him again but a verdict that was on its way when *)
(* a finger won, which is read before any fade is over.  A hidden screen   *)
(* waits for nothing; where an output comes or goes, or there is none, the *)
(* steps of an unlock still follow each other.                             *)
UnlockInv ==
  /\ UnlockInProgress => Settled /\ admitted /\ isShow
  /\ ~isShow => Settled /\ (Verdicts # {} => screens = {} /\ ~available)
  /\ posted \/ lock.unlockPending => ~unlockPending /\ (Verdicts # {} => screens = {})
  /\ posted => ~lock.unlockPending /\ (Verdicts # {} => ~lock.requested)
  /\ ~isShow => fading \cup faded = {}
  /\ fading \cup faded # {} => UnlockInProgress

LockerInv == LastVerdict /\ UnlockInv /\ ReaderOnlyWhileShown

(* What an operation on the lock other than unlocking it leaves as it is.  *)
Holds(l, m) ==
  /\ m.unlockPending = l.unlockPending
  /\ l.session = "locked" => m.session = "locked"

LEMMA HoldsOfSurfaces ==
  ASSUME NEW l \in Lock, LockSane(l)
  PROVE  /\ Holds(l, l)
         /\ \A s \in Screens : Holds(l, CreateSurface(l, s)) /\ Holds(l, BindLockSurface(l, s))
         /\ \A ss : Holds(l, CreateSurfaces(l, ss)) /\ Holds(l, DestroySurfaces(l, ss))
         /\ Holds(l, Locks(l)) /\ Locks(l).requested = l.requested
<1> USE DEF Holds
<1>0. LET e == EnsureLock(l) IN Holds(l, e) /\ e \in Lock
  <2>1. CASE l.requested
    BY <2>1 DEF EnsureLock
  <2>2. CASE ~l.requested
    <3>1. l.unlockPending = FALSE /\ l.session = "unlocked"
      BY <2>2 DEF LockSane, Owed, Lock
    <3>2. EnsureLock(l).unlockPending = FALSE /\ EnsureLock(l) \in Lock
      BY <2>2, SurfaceTypes DEF EnsureLock, Lock
    <3> QED
      BY <3>1, <3>2
  <2> QED
    BY <2>1, <2>2
<1>1. ASSUME NEW s \in Screens
      PROVE  Holds(l, CreateSurface(l, s)) /\ Holds(l, BindLockSurface(l, s))
  BY <1>0 DEF CreateSurface, BindLockSurface, Lock
<1>2. ASSUME NEW ss
      PROVE  Holds(l, CreateSurfaces(l, ss)) /\ Holds(l, DestroySurfaces(l, ss))
  BY <1>0 DEF CreateSurfaces, DestroySurfaces, Lock
<1>3. Holds(l, Locks(l)) /\ Locks(l).requested = l.requested
  BY DEF Locks, Lock
<1> QED
  BY <1>1, <1>2, <1>3

LEMMA UnlockFacts ==
  ASSUME TypeInv, CoverInv
  PROVE  /\ lock \in Lock /\ LockSane(lock) /\ screens \in SUBSET Screens
         /\ lock.unlockPending => lock.requested
         /\ fading \cup faded \subseteq screens
         /\ screens = {} => primary = NoScreen
         /\ unlockPending \in BOOLEAN /\ posted \in BOOLEAN /\ lock.unlockPending \in BOOLEAN
BY DEF TypeInv, WindowsTypeOK, CoverInv, LockSane, Owed, Lock

(* finishUnlock(), called at the end of the fades or, without windows, at  *)
(* once.                                                                   *)
LEMMA FinishUnlockKeeps ==
  ASSUME TypeInv, CoverInv, UnlockInv, Settled', admitted' = TRUE,
         NEW running, NEW done, running \cup done \subseteq screens,
         FinishUnlock(running, done), UNCHANGED <<available, screens, primary>>,
         Verdicts' # {} => screens = {},
         ~isShow => ~available /\ running \cup done = {},
         posted => ~lock.requested
  PROVE  UnlockInv'
<1>1. CASE available
  <2>1. /\ lock' = Unlock(lock) /\ posted' = (posted \/ EmitsUnlocked(lock))
        /\ isShow' = isShow /\ isShow /\ unlockPending' = FALSE
        /\ fading' = running /\ faded' = done
    BY <1>1, Zenon DEF FinishUnlock
  <2>2. CASE EmitsUnlocked(lock)
    <3>1. /\ lock'.unlockPending = FALSE /\ lock'.requested = FALSE /\ posted' = TRUE
      <4>1. lock' = DropLock(lock) /\ ~DropLock(lock).requested /\ ~DropLock(lock).unlockPending
        BY <2>1, <2>2, CoverOfUnlock, UnlockFacts
      <4>2. DropLock(lock) \in Lock
        BY UnlockTypes, UnlockFacts
      <4> QED
        BY <2>1, <2>2, <4>1, <4>2 DEF Lock
    <3> QED
      BY <2>1, <3>1 DEF UnlockInv, UnlockInProgress
  <2>3. CASE ~EmitsUnlocked(lock)
    <3>1. /\ lock'.requested = lock.requested
          /\ lock'.unlockPending = (lock.unlockPending \/ lock.requested)
      BY <2>1, <2>3, CoverOfUnlock, UnlockFacts
    <3>2. lock'.unlockPending = lock.requested
      BY <3>1, UnlockFacts DEF Lock
    <3>3. posted' <=> posted
      BY <2>1, <2>3
    <3>4. running \cup done # {} => posted' \/ lock'.unlockPending
      <4>1. screens # {} /\ ~posted => lock.requested
        BY <1>1, <2>1 DEF CoverInv
      <4> QED
        BY <3>2, <3>3, <4>1
    <3> QED
      BY <2>1, <3>1, <3>2, <3>3, <3>4 DEF UnlockInv, UnlockInProgress
  <2> QED
    BY <2>2, <2>3
<1>2. CASE ~available
  <2>1. /\ lock' = DestroySurfaces(lock, screens) /\ isShow' = FALSE /\ posted' = posted
        /\ unlockPending' = FALSE
        /\ fading' = (IF isShow THEN {} ELSE running) /\ faded' = (IF isShow THEN {} ELSE done)
    BY <1>2, Zenon DEF FinishUnlock, WindowsHidden
  <2>2. lock'.unlockPending = lock.unlockPending /\ ~lock.unlockPending /\ ~posted
    BY <1>2, <2>1, UnlockFacts, HoldsOfSurfaces DEF Holds, CoverInv
  <2>3. fading' \cup faded' = {}
    BY <2>1
  <2> QED
    BY <1>2, <2>1, <2>2, <2>3 DEF UnlockInv, UnlockInProgress
<1> QED
  BY <1>1, <1>2

(* LockBackend::Authenticated, which comes from a verdict of the helper or *)
(* from a finger while no unlock is under way.                             *)
LEMMA AuthenticatedKeeps ==
  ASSUME TypeInv, CoverInv, UnlockInv, Settled', admitted' = TRUE, Authenticated,
         \/ Verdicts # {} /\ Verdicts' = {}
         \/ ~UnlockInProgress /\ isShow
  PROVE  UnlockInv'
<1>1. CASE screens = {} /\ ~unlockPending
  <2>1. FinishUnlock({}, {}) /\ UNCHANGED <<available, screens, primary>>
    BY <1>1, Zenon DEF Authenticated
  <2>2. ~isShow => ~available
    BY DEF UnlockInv
  <2>3. posted => ~lock.requested
    BY DEF UnlockInv, UnlockInProgress
  <2> QED
    BY <1>1, <2>1, <2>2, <2>3, FinishUnlockKeeps
<1>2. CASE ~(screens = {} /\ ~unlockPending)
  <2>1. /\ unlockPending' = TRUE
        /\ UNCHANGED <<available, screens, primary, isShow, lock, posted>>
    BY <1>2, Zenon DEF Authenticated
  <2>2. isShow /\ ~posted /\ ~lock.unlockPending
    BY <1>2, UnlockFacts DEF UnlockInv, UnlockInProgress
  <2> QED
    BY <2>1, <2>2, UnlockFacts DEF UnlockInv, UnlockInProgress
<1> QED
  BY <1>1, <1>2

(* A step that leaves the windows alone.                                   *)
LEMMA QuietKeeps ==
  ASSUME UnlockInv, NoNewVerdict, UNCHANGED <<stageVars, admitted>>
  PROVE  UnlockInv'
BY DEF UnlockInv, UnlockInProgress, NoNewVerdict, stageVars

LEMMA WindowsUnlock ==
  ASSUME TypeInv, CoverInv, LastVerdict, UnlockInv, WindowStep(WindowsMove), ~MayFinish
  PROVE  UnlockInv'
<1>1. /\ Verdicts' = Verdicts /\ (Settled' <=> Settled)
      /\ admitted' = admitted /\ admitted \in BOOLEAN
  <2>1. UNCHANGED <<authVars, m_authenticating, admitted>>
    BY DEF WindowStep, checkVars
  <2>2. Verdicts' = Verdicts
    BY <2>1, OwnerVerdict
  <2> QED
    BY <2>1, <2>2 DEF Settled, authVars, TypeInv
<1>2. lock \in Lock /\ LockSane(lock) /\ screens \in SUBSET Screens /\ fading \cup faded \subseteq screens
  BY UnlockFacts
<1>3. ~StaleUnread /\ Settled => Verdicts = {}
  BY DEF StaleUnread, Settled, Verdicts
<1>4. ASSUME ~StaleUnread, unlockPending, NEW running, NEW done,
             running \cup done \subseteq screens, FinishUnlock(running, done),
             UNCHANGED <<available, screens, primary>>
      PROVE  UnlockInv'
  <2>1. Settled' /\ admitted' = TRUE /\ isShow /\ ~posted /\ Verdicts' = {}
    BY <1>1, <1>3, <1>4 DEF UnlockInv, UnlockInProgress
  <2> QED
    BY <1>4, <2>1, FinishUnlockKeeps
<1>5. ASSUME ~StaleUnread, NEW s \in Screens, FadeFinished(s)
      PROVE  UnlockInv'
  <2>1. CASE unlockPending /\ pendingUnlockFades <= 1
    <3>1. FinishUnlock(fading \ {s}, faded \cup {s}) /\ UNCHANGED <<available, screens, primary>>
      BY <1>5, <2>1, Zenon DEF FadeFinished
    <3>2. (fading \ {s}) \cup (faded \cup {s}) \subseteq screens
      BY <1>2, <1>5 DEF FadeFinished
    <3> QED
      BY <1>4, <1>5, <2>1, <3>1, <3>2
  <2>2. CASE ~(unlockPending /\ pendingUnlockFades <= 1)
    <3>1. /\ UNCHANGED <<available, screens, primary, isShow, unlockPending, lock, posted>>
          /\ fading' = fading \ {s} /\ faded' = faded \cup {s} /\ s \in fading
      BY <1>5, <2>2, Zenon DEF FadeFinished
    <3>2. fading' \cup faded' = fading \cup faded
      BY <3>1
    <3> QED
      BY <1>1, <3>1, <3>2 DEF UnlockInv, UnlockInProgress
  <2> QED
    BY <2>1, <2>2
<1>6. CASE ~StaleUnread /\ UnlockFadeTimesOut
  BY <1>2, <1>4, <1>6 DEF UnlockFadeTimesOut
<1>7. CASE ~StaleUnread /\ SessionLocked
  <2> DEFINE m == [lock EXCEPT !.locked = TRUE, !.events = Tail(@)]
  <2>1. /\ UNCHANGED <<available, screens, primary, isShow, unlockPending, fading, faded>>
        /\ posted' = lock.unlockPending /\ lock' = (IF m.unlockPending THEN Unlock(m) ELSE m)
        /\ lock.events # <<>> /\ ~posted
    BY <1>7 DEF SessionLocked, HandleLocked
  <2>2. m.unlockPending = lock.unlockPending /\ m.locked = TRUE /\ m.requested = lock.requested
    BY <1>2 DEF Lock
  <2>3. lock.requested
    BY <1>2, <2>1 DEF LockSane, Owed
  <2> HIDE DEF m
  <2>4. CASE lock.unlockPending
    <3>1. lock' = DropLock(m)
      BY <2>1, <2>2, <2>3, <2>4 DEF Unlock
    <3>2. lock'.unlockPending = FALSE /\ lock'.requested = FALSE
      BY <3>1 DEF DropLock, ReleaseSurfaces
    <3>3. Verdicts = {}
      BY <1>3, <1>7, <2>4 DEF UnlockInv, UnlockInProgress
    <3> QED
      BY <1>1, <2>1, <2>4, <3>2, <3>3 DEF UnlockInv, UnlockInProgress
  <2>5. CASE ~lock.unlockPending
    <3>1. ~lock'.unlockPending /\ ~posted'
      BY <2>1, <2>2, <2>5
    <3> QED
      BY <1>1, <2>1, <2>5, <3>1 DEF UnlockInv, UnlockInProgress
  <2> QED
    BY <2>4, <2>5
<1>8. CASE SessionLockFinished
  <2>1. lock.events \in Seq({"locked", "finished"}) /\ lock.events # <<>>
        /\ Head(lock.events) = "finished"
    BY <1>2, <1>8 DEF SessionLockFinished, Lock
  <2>2. 1 \in DOMAIN lock.events /\ lock.events[1] = "finished"
    BY <2>1
  <2> QED
    BY <1>2, <2>2 DEF LockSane
<1>9. CASE ~StaleUnread /\ WindowsRecreated
  <2>1. /\ UNCHANGED <<available, screens, unlockPending>> /\ posted /\ posted' = FALSE
        /\ isShow' = FALSE /\ fading' = {} /\ faded' = {}
        /\ lock' = DestroySurfaces(lock, screens)
    BY <1>9 DEF WindowsRecreated
  <2>2. lock'.unlockPending = lock.unlockPending
    BY <1>2, <2>1, HoldsOfSurfaces DEF Holds
  <2>3. ~unlockPending /\ ~lock.unlockPending /\ Settled /\ Verdicts = {}
    BY <1>3, <1>9, <2>1 DEF UnlockInv, UnlockInProgress
  <2> QED
    BY <1>1, <2>1, <2>2, <2>3 DEF UnlockInv, UnlockInProgress
<1>10. ASSUME NEW s \in Screens, BindSurface(s)
       PROVE  UnlockInv'
  <2>1. /\ UNCHANGED <<available, screens, isShow, unlockPending, posted, fading, faded>>
        /\ lock' = BindLockSurface(lock, s) /\ s \in Covered(lock)
    BY <1>10 DEF BindSurface, Covered
  <2>2. lock'.unlockPending = lock.unlockPending
    BY <1>2, <2>1, HoldsOfSurfaces DEF Holds
  <2>3. screens # {}
    BY <2>1 DEF CoverInv
  <2> QED
    BY <1>1, <2>1, <2>2, <2>3 DEF UnlockInv, UnlockInProgress
<1>11. ASSUME ~StaleUnread,
              UNCHANGED <<available, isShow, unlockPending, posted>>,
              lock'.unlockPending = lock.unlockPending,
              fading' \cup faded' \subseteq fading \cup faded
       PROVE  UnlockInv'
  <2>1. UnlockInProgress \/ ~isShow => Verdicts = {}
    BY <1>3, <1>11 DEF UnlockInv
  <2> QED
    BY <1>1, <1>11, <2>1 DEF UnlockInv, UnlockInProgress
<1>12. ASSUME ~StaleUnread, NEW s \in Screens, ScreenAdded(s)
       PROVE  UnlockInv'
  <2>1. lock' \in {lock, CreateSurface(lock, s)}
    BY <1>12 DEF ScreenAdded
  <2>2. lock'.unlockPending = lock.unlockPending
    BY <1>2, <2>1, HoldsOfSurfaces DEF Holds
  <2> QED
    BY <1>11, <1>12, <2>2 DEF ScreenAdded
<1>13. ASSUME ~StaleUnread, NEW s \in Screens, ScreenRemoved(s)
       PROVE  UnlockInv'
  <2>1. lock'.unlockPending = lock.unlockPending
    BY <1>2, <1>13, HoldsOfSurfaces DEF Holds, ScreenRemoved
  <2>2. fading' \cup faded' \subseteq fading \cup faded
    BY <1>13 DEF ScreenRemoved
  <2> QED
    BY <1>11, <1>13, <2>1, <2>2 DEF ScreenRemoved
<1>14. ASSUME ~StaleUnread, NEW s \in Screens, PrimaryScreenChanged(s)
       PROVE  UnlockInv'
  BY <1>11, <1>14 DEF PrimaryScreenChanged
<1>15. CASE CompositorLocks
  <2>1. lock'.unlockPending = lock.unlockPending /\ lock'.requested = lock.requested
    BY <1>2, <1>15, HoldsOfSurfaces DEF Holds, CompositorLocks
  <2> QED
    BY <1>1, <1>15, <2>1 DEF CompositorLocks, UnlockInv, UnlockInProgress
<1>16. CASE CompositorFinishes
  BY <1>16 DEF CompositorFinishes
<1> QED
  BY <1>5, <1>6, <1>7, <1>8, <1>9, <1>10, <1>12, <1>13, <1>14, <1>15, <1>16
     DEF WindowStep, WindowsMove, FadeStep, LockerRuns, SurfacesAppear, OutputsChange

LEMMA ShownUnlock ==
  ASSUME TypeInv, CoverInv, LastVerdict, UnlockInv, WindowsShown,
         UNCHANGED <<authVars, m_authenticating, available, screens, fading, faded,
                     unlockPending, posted>>,
         admitted' = (admitted /\ isShow)
  PROVE  UnlockInv'
<1>1. Verdicts' = Verdicts /\ (Settled' <=> Settled)
  <2>1. Verdicts' = Verdicts
    BY OwnerVerdict
  <2> QED
    BY <2>1 DEF Settled, authVars
<1>2. isShow' = TRUE /\ lock' \in {lock, CreateSurfaces(lock, screens)} /\ (isShow => lock' = lock)
  BY DEF WindowsShown
<1>3. lock'.unlockPending = lock.unlockPending
  BY <1>2, UnlockFacts, HoldsOfSurfaces DEF Holds
<1>4. CASE isShow
  <2>1. lock' = lock /\ (admitted' <=> admitted)
    BY <1>2, <1>4
  <2> QED
    BY <1>1, <1>2, <1>4, <2>1 DEF UnlockInv, UnlockInProgress
<1>5. CASE ~isShow
  <2>1. ~UnlockInProgress /\ fading \cup faded = {}
    BY <1>5 DEF UnlockInv
  <2> QED
    BY <1>1, <1>2, <1>3, <2>1 DEF UnlockInv, UnlockInProgress
<1> QED
  BY <1>4, <1>5

LEMMA SettledKeeps ==
  ASSUME UnlockInv, Settled', UNCHANGED <<stageVars, admitted>>,
         Verdicts' = {} \/ (isShow /\ ~UnlockInProgress)
  PROVE  UnlockInv'
BY DEF UnlockInv, UnlockInProgress, stageVars

(* An accepted user, by password or by finger.                             *)
LEMMA FinishKeeps ==
  ASSUME TypeInv, CoverInv, UnlockInv, Settled', NEW f, FinishUnlockOf(f),
         \/ Verdicts # {} /\ Verdicts' = {}
         \/ ~UnlockInProgress /\ isShow
  PROVE  UnlockInv'
<1>1. CASE powerAction = None
  <2>1. Authenticated /\ admitted' = TRUE
    BY <1>1, Zenon DEF FinishUnlockOf
  <2> QED
    BY <2>1, AuthenticatedKeeps
<1>2. CASE powerAction # None
  <2>1. UNCHANGED <<stageVars, admitted>>
    BY <1>2, Zenon DEF FinishUnlockOf
  <2> QED
    BY <2>1, SettledKeeps
<1> QED
  BY <1>1, <1>2

(* What LockWorker and the view do about an accepted user or a rejected one *)
(* re-arms the reader only while the screen is shown.                       *)
LEMMA ReaderRests ==
  ASSUME NEW f
  PROVE  ~Reader!Busy(Stopped(f))
BY DEF Stopped, Reader!Stop, Reader!Busy, Reader!After, Reader!Unchanged

LEMMA ReaderStep ==
  ASSUME TypeInv, CoverInv, LockerInv, [Next]_vars, ~MayHide
  PROVE  ReaderOnlyWhileShown'
<1> USE DEF ReaderOnlyWhileShown
<1>1. ReaderOnlyWhileShown /\ UnlockInv /\ LastVerdict
  BY DEF LockerInv
<1>2. ~isShow /\ Verdicts # {} => ~MayEnterPasswordStage
  BY <1>1, UnlockFacts DEF UnlockInv, MayEnterPasswordStage
<1>3. ASSUME UNCHANGED <<finger, isShow>>
      PROVE  ReaderOnlyWhileShown'
  BY <1>1, <1>3
<1>4. ASSUME NEW f, FinishUnlockOf(f), isShow \/ ~MayEnterPasswordStage
      PROVE  ReaderOnlyWhileShown'
  <2>1. CASE powerAction = None
    <3>1. finger' = Stopped(f)
      BY <1>4, <2>1, Zenon DEF FinishUnlockOf
    <3> QED
      BY <3>1, ReaderRests
  <2>2. CASE powerAction # None
    <3>1. /\ finger' = RearmedBy(MayEnterPasswordStage, Stopped(f))
          /\ UNCHANGED stageVars
      BY <1>4, <2>2, Zenon DEF FinishUnlockOf
    <3>2. ~MayEnterPasswordStage => finger' = Stopped(f)
      BY <3>1 DEF RearmedBy
    <3> QED
      BY <1>4, <3>1, <3>2, ReaderRests DEF stageVars
  <2> QED
    BY <2>1, <2>2
<1>5. CASE Show \/ ShowUserList
  BY <1>5 DEF Show, ShowUserList, WindowsShown
<1>6. CASE UserActs
  <2>1. isShow' = isShow /\ (finger' = finger \/ isShow)
    BY <1>6 DEF UserActs, EnterPassword, LeavePassword, Submit, RequestPower,
                Prompting, stageVars, windowVars
  <2> QED
    BY <1>3, <2>1
<1>7. CASE PasswordAccepted
  <2>1. Verdicts # {}
    BY <1>1, <1>7, OwnerVerdict
  <2> QED
    BY <1>2, <1>4, <1>7, <2>1 DEF PasswordAccepted
<1>8. CASE PasswordRejected
  <2>1. Verdicts # {}
    BY <1>1, <1>8, OwnerVerdict
  <2>2. /\ finger' = RearmedBy(MayEnterPasswordStage, finger)
        /\ isShow' = isShow
    BY <1>8 DEF PasswordRejected, ShowFailure, stageVars
  <2>3. ~isShow => finger' = finger
    BY <1>2, <2>1, <2>2 DEF RearmedBy
  <2> QED
    BY <1>1, <2>2, <2>3
<1>9. CASE FingerReports
  <2>1. isShow
    BY <1>1, <1>9 DEF FingerReports, ProbeFinished, FingerprintMatched,
                      FingerprintRejected, FingerprintRunEnds, Reader!Busy
  <2>2. CASE FingerprintMatched
    BY <1>4, <2>1, <2>2 DEF FingerprintMatched
  <2>3. CASE FingerReports /\ ~FingerprintMatched
    <3>1. isShow' = isShow
      BY <2>3 DEF FingerReports, ProbeFinished, FingerprintRejected, FingerprintRunEnds,
                  ShowFailure, windowVars, stageVars
    <3> QED
      BY <2>1, <3>1
  <2> QED
    BY <1>9, <2>2, <2>3
<1>10. CASE PasswordAsked \/ PasswordHelperReaped
  BY <1>3, <1>10 DEF PasswordAsked, PasswordHelperReaped, windowVars, workerVars
<1>11. CASE LockMinutePasses
  BY <1>3, <1>11 DEF LockMinutePasses, windowVars
<1>12. ASSUME finger' = (IF isShow /\ ~isShow' THEN Stopped(finger) ELSE finger)
       PROVE  ReaderOnlyWhileShown'
  BY <1>1, <1>12, ReaderRests
<1>13. CASE \/ WindowStep(FadeStep \/ LockerRuns \/ SurfacesAppear \/ (~StaleUnread /\ OutputsChange))
            \/ WindowStep(CompositorLocks \/ CompositorFinishes)
  <2>1. finger' = IF isShow /\ ~isShow' THEN Stopped(finger) ELSE finger
    BY <1>13, Zenon DEF WindowStep
  <2> QED
    BY <1>12, <2>1
<1>14. CASE HelperStep(HelperProgress \/ HelperAsks \/ PamDecides \/ HelperDies)
  BY <1>3, <1>14 DEF HelperStep, windowVars, workerVars
<1>15. CASE UNCHANGED vars
  BY <1>3, <1>15 DEF vars, windowVars, workerVars
<1> QED
  BY <1>5, <1>6, <1>7, <1>8, <1>9, <1>10, <1>11, <1>13, <1>14, <1>15
     DEF Next, Requested, Hide, PasswordReports

LEMMA LockerStep ==
  ASSUME TypeInv, CoverInv, LockerInv, [Next]_vars, ~MayFinish, ~MayHide, ~ActsOn
  PROVE  LockerInv'
<1>1. ReaderOnlyWhileShown /\ UnlockInv /\ LastVerdict
  BY DEF LockerInv
<1> SUFFICES LastVerdict' /\ UnlockInv'
  BY ReaderStep DEF LockerInv
<1>2. ~UnlockUnderWay => ~UnlockInProgress
  BY DEF UnlockUnderWay, UnlockInProgress
<1>3. ASSUME UNCHANGED <<authVars, m_authenticating>>
      PROVE  NoNewVerdict /\ Verdicts' = Verdicts /\ LastVerdict'
  BY <1>1, <1>3, OwnerVerdict DEF NoNewVerdict
<1>4. ASSUME UNCHANGED <<authVars, m_authenticating, stageVars, admitted>>
      PROVE  LastVerdict' /\ UnlockInv'
  BY <1>1, <1>3, <1>4, QuietKeeps
<1>5. CASE Show \/ ShowUserList
  <2>1. /\ WindowsShown /\ admitted' = (admitted /\ isShow)
        /\ UNCHANGED <<authVars, m_authenticating, available, screens, fading, faded,
                       unlockPending, posted>>
    BY <1>5 DEF Show, ShowUserList, checkVars
  <2> QED
    BY <1>1, <1>3, <2>1, ShownUnlock
<1>6. CASE Submit
  <2>1. ~UnlockInProgress /\ isShow /\ ~StaleUnread /\ ~m_authenticating /\ m_authenticating' = TRUE
    BY <1>2, <1>6 DEF Submit, Prompting
  <2>2. UNCHANGED <<stageVars, admitted>>
    BY <1>6 DEF Submit, windowVars, stageVars
  <2>3. UnlockInv'
    BY <1>1, <2>1, <2>2 DEF UnlockInv, UnlockInProgress, stageVars
  <2>4. LastVerdict'
    <3>1. CASE IsActive
      <4>1. inbox' = inbox /\ helper' = helper
        BY <1>6, <3>1, Zenon DEF Submit, authVars
      <4>2. Verdicts' = Verdicts
        BY <4>1 DEF Verdicts
      <4> QED
        BY <1>1, <2>1, <4>1, <4>2 DEF LastVerdict, OneVerdict
    <3>2. CASE ~IsActive
      <4>1. AuthStart(FALSE, FALSE)
        BY <1>6, <3>2, Zenon DEF Submit
      <4>2. inbox' = inbox /\ inbox = <<>>
        BY <2>1, <3>2, <4>1 DEF AuthStart, StaleUnread, IsActive
      <4>3. Verdicts' = {}
        BY <4>2 DEF Verdicts
      <4> QED
        BY <2>1, <4>3 DEF LastVerdict, OneVerdict
    <3> QED
      BY <3>1, <3>2
  <2> QED
    BY <2>3, <2>4
<1>7. CASE EnterPassword \/ LeavePassword \/ \E action \in PowerActions : RequestPower(action)
  BY <1>4, <1>7 DEF EnterPassword, LeavePassword, RequestPower, checkVars, stageVars, windowVars
<1>8. CASE PasswordAsked \/ PasswordHelperReaped
  <2>1. UNCHANGED <<stageVars, admitted>>
    BY <1>8 DEF PasswordAsked, PasswordHelperReaped, windowVars, stageVars
  <2>2. NoNewVerdict
    BY <1>1, <1>8, OwnerVerdict
  <2> QED
    BY <1>1, <2>1, <2>2, QuietKeeps DEF NoNewVerdict
<1>9. CASE PasswordAccepted
  <2>1. LastVerdict' /\ Settled' /\ Verdicts # {} /\ Verdicts' = {}
    BY <1>1, <1>9, OwnerVerdict
  <2>2. FinishUnlockOf(finger)
    BY <1>9 DEF PasswordAccepted
  <2> QED
    BY <1>1, <2>1, <2>2, FinishKeeps
<1>10. CASE PasswordRejected
  <2>1. LastVerdict' /\ Settled' /\ Verdicts # {} /\ Verdicts' = {}
    BY <1>1, <1>10, OwnerVerdict
  <2>2. UNCHANGED <<stageVars, admitted>>
    BY <1>10 DEF PasswordRejected, ShowFailure
  <2> QED
    BY <1>1, <2>1, <2>2, SettledKeeps
<1>11. CASE FingerprintMatched
  <2>1. LastVerdict' /\ Settled'
    BY <1>1, <1>11, OwnerVerdict
  <2>2. /\ ~UnlockInProgress /\ isShow
    BY <1>1, <1>2, <1>11 DEF FingerprintMatched, ReaderOnlyWhileShown, Reader!Busy
  <2>3. FinishUnlockOf(Reader!RunFinished(finger, TRUE, FALSE).session)
    BY <1>11 DEF FingerprintMatched
  <2> QED
    BY <1>1, <2>1, <2>2, <2>3, FinishKeeps
<1>12. CASE FingerReports /\ ~FingerprintMatched
  <2>1. UNCHANGED <<authVars, m_authenticating, stageVars, admitted>>
    BY <1>12 DEF FingerReports, ProbeFinished, FingerprintRejected, FingerprintRunEnds,
                 ShowFailure, windowVars, stageVars, checkVars
  <2> QED
    BY <1>4, <2>1
<1>13. CASE LockMinutePasses
  BY <1>4, <1>13 DEF LockMinutePasses, windowVars, stageVars, checkVars
<1>14. CASE \/ WindowStep(FadeStep \/ LockerRuns \/ SurfacesAppear \/ (~StaleUnread /\ OutputsChange))
            \/ WindowStep(CompositorLocks \/ CompositorFinishes)
  <2>1. WindowStep(WindowsMove)
    BY <1>14, Zenon DEF WindowStep, WindowsMove
  <2>2. UNCHANGED <<authVars, m_authenticating>>
    BY <2>1 DEF WindowStep, checkVars
  <2> QED
    BY <1>1, <1>3, <2>1, <2>2, WindowsUnlock
<1>15. CASE HelperStep(HelperProgress \/ HelperAsks \/ PamDecides \/ HelperDies)
  <2>1. UNCHANGED <<stageVars, admitted, m_authenticating>>
    BY <1>15 DEF HelperStep, windowVars, stageVars, workerVars
  <2>2. NoNewVerdict
    BY <1>1, <1>15, <2>1, HelperVerdict DEF HelperStep
  <2> QED
    BY <1>1, <2>1, <2>2, QuietKeeps DEF NoNewVerdict
<1>16. CASE UNCHANGED vars
  BY <1>4, <1>16 DEF vars, windowVars, stageVars, workerVars
<1> QED
  BY <1>5, <1>6, <1>7, <1>8, <1>9, <1>10, <1>11, <1>12, <1>13, <1>14, <1>15, <1>16
     DEF Next, Requested, Hide, UserActs, PasswordReports

LEMMA LockerInit == Init => LockerInv
<1> SUFFICES ASSUME Init
             PROVE  LockerInv
  OBVIOUS
<1>1. inbox = <<>> /\ helper = "none"
  BY DEF Init, AuthInit
<1>2. Verdicts = {}
  BY <1>1 DEF Verdicts
<1>3. LastVerdict /\ Settled
  BY <1>1, <1>2 DEF LastVerdict, Settled, OneVerdict, Asking
<1>4. UnlockInv
  BY <1>2, <1>3 DEF Init, WindowsInit, UnlockInv, UnlockInProgress, Unlocked
<1>5. ReaderOnlyWhileShown
  BY DEF Init, ReaderOnlyWhileShown, Reader!Busy, Reader!Idle
<1> QED
  BY <1>3, <1>4, <1>5 DEF LockerInv

LEMMA LockerHolds ==
  ASSUME ~MayFinish, ~MayHide, ~ActsOn
  PROVE  Spec => []LockerInv
<1>1. TypeInv /\ CoverInv /\ LockerInv /\ [Next]_vars => LockerInv'
  BY LockerStep
<1> QED
  BY <1>1, LockerInit, TypesHold, CoverHolds, PTL DEF Spec

(* A locker that is hidden has left the fingerprint reader to others,      *)
(* whichever of the password, the finger, the fades, the compositor and    *)
(* the outputs comes first; unless the compositor ends the lock, the       *)
(* screen saver is told off the screen, or the user goes on while the      *)
(* screen is being unlocked.                                               *)
THEOREM ReaderIsLeftToOthers ==
  ASSUME ~MayFinish, ~MayHide, ~ActsOn
  PROVE  Spec => []ReaderOnlyWhileShown
<1>1. LockerInv => ReaderOnlyWhileShown
  BY DEF LockerInv
<1> QED
  BY <1>1, LockerHolds, PTL

(* The window with the prompt fades only while an unlock is under way, for *)
(* the same environment.                                                   *)
THEOREM PromptStaysReachable ==
  ASSUME ~MayFinish, ~MayHide, ~ActsOn
  PROVE  Spec => []PromptReachable
<1>1. LockerInv => PromptReachable
  BY DEF LockerInv, UnlockInv, UnlockInProgress, PromptReachable, Unlocking
<1> QED
  BY <1>1, LockerHolds, PTL

(* A step that keeps the lock and the screen as they are gives nothing up. *)
LEMMA KeepsTheSession ==
  ASSUME UNCHANGED isShow, Holds(lock, lock')
  PROVE  ~Gives
BY DEF Gives, Holds

LEMMA WindowsGive ==
  ASSUME TypeInv, CoverInv, LockerInv, WindowsMove, ~UnlockInProgress, ~MayFinish
  PROVE  ~Gives
<1>1. lock \in Lock /\ LockSane(lock) /\ Holds(lock, lock)
  BY UnlockFacts, HoldsOfSurfaces
<1>2. ~unlockPending /\ ~posted /\ ~lock.unlockPending
  BY DEF UnlockInProgress
<1>3. ASSUME NEW s \in Screens, FadeFinished(s)
      PROVE  UNCHANGED <<isShow, lock>>
  BY <1>2, <1>3, Zenon DEF FadeFinished
<1>4. CASE FadeStep
  BY <1>1, <1>2, <1>3, <1>4, KeepsTheSession DEF FadeStep, UnlockFadeTimesOut
<1>5. CASE SessionLocked
  <2>1. isShow' = isShow /\ lock' = [lock EXCEPT !.locked = TRUE, !.events = Tail(@)]
    <3> DEFINE m == [lock EXCEPT !.locked = TRUE, !.events = Tail(@)]
    <3>1. m.unlockPending = FALSE
      BY <1>1, <1>2 DEF Lock
    <3> QED
      BY <1>5, <3>1 DEF SessionLocked, HandleLocked
  <2>2. Holds(lock, lock')
    BY <1>1, <2>1 DEF Holds, Lock
  <2> QED
    BY <2>1, <2>2, KeepsTheSession
<1>6. CASE SessionLockFinished
  <2>1. lock.events \in Seq({"locked", "finished"}) /\ lock.events # <<>>
        /\ Head(lock.events) = "finished"
    BY <1>1, <1>6 DEF SessionLockFinished, Lock
  <2>2. 1 \in DOMAIN lock.events /\ lock.events[1] = "finished"
    BY <2>1
  <2> QED
    BY <1>1, <2>2 DEF LockSane
<1>7. CASE SurfacesAppear
  BY <1>1, <1>7, HoldsOfSurfaces, KeepsTheSession DEF SurfacesAppear, BindSurface
<1>8. CASE OutputsChange
  <2>1. PICK s \in Screens : ScreenAdded(s) \/ ScreenRemoved(s) \/ PrimaryScreenChanged(s)
    BY <1>8 DEF OutputsChange
  <2>2. isShow' = isShow /\ lock' \in {lock, CreateSurface(lock, s), DestroySurfaces(lock, {s})}
    BY <2>1 DEF ScreenAdded, ScreenRemoved, PrimaryScreenChanged
  <2> QED
    BY <1>1, <2>2, HoldsOfSurfaces, KeepsTheSession
<1>9. CASE CompositorLocks
  BY <1>1, <1>9, HoldsOfSurfaces, KeepsTheSession DEF CompositorLocks
<1> QED
  BY <1>2, <1>4, <1>5, <1>6, <1>7, <1>8, <1>9
     DEF WindowsMove, LockerRuns, WindowsRecreated, CompositorFinishes

LEMMA GivesStep ==
  ASSUME TypeInv, CoverInv, LockerInv, Next, ~MayFinish, ~MayHide
  PROVE  Gives => admitted'
<1>1. lock \in Lock /\ LockSane(lock) /\ Holds(lock, lock)
  BY UnlockFacts, HoldsOfSurfaces
<1>2. UNCHANGED <<isShow, lock>> => ~Gives
  BY <1>1, KeepsTheSession
<1>3. CASE Show \/ ShowUserList
  <2>1. isShow' = TRUE /\ lock' \in {lock, CreateSurfaces(lock, screens)}
    BY <1>3 DEF Show, ShowUserList, WindowsShown
  <2> QED
    BY <1>1, <2>1, HoldsOfSurfaces DEF Gives, Holds
<1>4. CASE UserActs
  BY <1>2, <1>4
     DEF UserActs, EnterPassword, LeavePassword, Submit, RequestPower, stageVars, windowVars
<1>5. ASSUME NEW f, FinishUnlockOf(f)
      PROVE  Gives => admitted'
  <2>1. CASE powerAction = None
    BY <1>5, <2>1, Zenon DEF FinishUnlockOf
  <2>2. CASE powerAction # None
    <3>1. UNCHANGED stageVars
      BY <1>5, <2>2, Zenon DEF FinishUnlockOf
    <3> QED
      BY <1>2, <3>1 DEF stageVars
  <2> QED
    BY <2>1, <2>2
<1>6. ASSUME NEW f, ShowFailure(f)
      PROVE  ~Gives
  BY <1>2, <1>6 DEF ShowFailure, stageVars
<1>7. UNCHANGED windowVars => ~Gives
  BY <1>2 DEF windowVars
<1>8. CASE PasswordReports
  BY <1>5, <1>6, <1>7, <1>8
     DEF PasswordReports, PasswordAsked, PasswordAccepted, PasswordRejected, PasswordHelperReaped
<1>9. CASE FingerReports
  BY <1>5, <1>6, <1>7, <1>9
     DEF FingerReports, ProbeFinished, FingerprintMatched, FingerprintRejected, FingerprintRunEnds
<1>10. CASE LockMinutePasses
  BY <1>7, <1>10 DEF LockMinutePasses
<1>11. CASE \/ WindowStep(FadeStep \/ LockerRuns \/ SurfacesAppear \/ (~StaleUnread /\ OutputsChange))
            \/ WindowStep(CompositorLocks \/ CompositorFinishes)
  <2>1. WindowsMove /\ admitted' = admitted
    BY <1>11, Zenon DEF WindowStep, WindowsMove
  <2>2. CASE UnlockInProgress
    BY <2>1, <2>2 DEF LockerInv, UnlockInv
  <2>3. CASE ~UnlockInProgress
    BY <2>1, <2>3, WindowsGive
  <2> QED
    BY <2>2, <2>3
<1>12. CASE HelperStep(HelperProgress \/ HelperAsks \/ PamDecides \/ HelperDies)
  BY <1>7, <1>12 DEF HelperStep
<1> QED
  BY <1>3, <1>4, <1>8, <1>9, <1>10, <1>11, <1>12 DEF Next, Requested, Hide

(* The session is given up - unlocked, or hidden from where there is no    *)
(* session lock - only to a user who was accepted since the screen was     *)
(* last shown, for the same environment.                                   *)
THEOREM OnlyTheAdmittedAreLetIn ==
  ASSUME ~MayFinish, ~MayHide, ~ActsOn
  PROVE  Spec => UnlocksOnlyAdmitted
<1>1. TypeInv /\ CoverInv /\ LockerInv /\ [Next]_vars => [Gives => admitted']_vars
  BY GivesStep
<1> QED
  BY <1>1, TypesHold, CoverHolds, LockerHolds, PTL DEF Spec, UnlocksOnlyAdmitted
=============================================================================
