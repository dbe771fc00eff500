----------------------------- MODULE SessionLock -----------------------------
(***************************************************************************)
(* The lock of a Wayland session as the lock screen holds it:              *)
(* WaylandSessionLockIntegration and its WaylandSessionLockSurface objects *)
(* (src/greeter-classic/lock/waylandsessionlock.cpp), with the compositor  *)
(* at the other end of ext-session-lock-v1.                                *)
(*                                                                         *)
(* The lock is a record; each operation returns the record after it.  What *)
(* a surface shows, its size and its configure events are abstracted: it   *)
(* covers its output from the time it takes its role.                      *)
(***************************************************************************)
EXTENDS Sequences

CONSTANT Screens        \* the outputs that may be connected

(* "binding": created, its role will be taken by a zero timer; "none" also *)
(* when the object is still there but its role is gone.                    *)
SurfaceState == {"none", "binding", "bound"}

Lock == [requested : BOOLEAN,         \* m_lock
         locked : BOOLEAN,            \* m_locked
         unlockPending : BOOLEAN,     \* m_unlockPending
         surface : [Screens -> SurfaceState],
         session : {"unlocked", "locking", "locked"},   \* to the compositor
         events : Seq({"locked", "finished"})]          \* unread

Unlocked == [requested |-> FALSE, locked |-> FALSE, unlockPending |-> FALSE,
             surface |-> [s \in Screens |-> "none"],
             session |-> "unlocked", events |-> <<>>]

EnsureLock(l) ==
  IF l.requested
    THEN l
    ELSE [l EXCEPT !.requested = TRUE, !.locked = FALSE, !.unlockPending = FALSE,
                   !.session = "locking"]

(* Qt makes the shell surface when the window is shown, and destroys it    *)
(* with the window or when the window is hidden.                           *)
CreateSurface(l, s) == [EnsureLock(l) EXCEPT !.surface[s] = "binding"]

CreateSurfaces(l, ss) ==
  IF ss = {}
    THEN l
    ELSE [EnsureLock(l) EXCEPT
            !.surface = [s \in Screens |-> IF s \in ss THEN "binding" ELSE @[s]]]

DestroySurfaces(l, ss) ==
  [l EXCEPT !.surface = [s \in Screens |-> IF s \in ss THEN "none" ELSE @[s]]]

BindLockSurface(l, s) == [EnsureLock(l) EXCEPT !.surface[s] = "bound"]

(* Only the surfaces that have taken their role are registered.            *)
ReleaseSurfaces(l) ==
  [l EXCEPT !.surface =
     [s \in Screens |-> IF @[s] = "bound" THEN "none" ELSE @[s]]]

(* The lock object is destroyed: its unread events are never delivered.    *)
DropLock(l) ==
  ReleaseSurfaces([l EXCEPT !.requested = FALSE, !.locked = FALSE,
                            !.unlockPending = FALSE, !.session = "unlocked",
                            !.events = <<>>])

(* Variant: an unlock that comes before the lock is lost.                  *)
UnlockOnlyLocked(l) == IF l.requested /\ l.locked THEN DropLock(l) ELSE l

(* unlock() emits unlocked() when it did unlock; without a lock there is   *)
(* nothing to do, and before the compositor has locked it is put off.      *)
EmitsUnlocked(l) == l.requested /\ l.locked

Unlock(l) ==
  IF ~l.requested THEN l
  ELSE IF ~l.locked THEN [l EXCEPT !.unlockPending = TRUE]
  ELSE DropLock(l)

HandleLocked(l) ==
  LET m == [l EXCEPT !.locked = TRUE, !.events = Tail(@)]
  IN IF m.unlockPending THEN Unlock(m) ELSE m

HandleFinished(l) == DropLock(l)

-----------------------------------------------------------------------------
(* The compositor.                                                         *)

Locks(l) == [l EXCEPT !.session = "locked", !.events = Append(@, "locked")]

(* It refuses the lock, or ends it later.                                  *)
Finishes(l) == [l EXCEPT !.session = "unlocked", !.events = Append(@, "finished")]

Finished(l) == l.events # <<>> /\ l.events[Len(l.events)] = "finished"
=============================================================================
