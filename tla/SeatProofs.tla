----------------------------- MODULE SeatProofs -----------------------------
(***************************************************************************)
(* Proofs about a seat: that the lists of displays stay well formed, that  *)
(* the daemon's seat is logind's, and that the foreground shows something. *)
(***************************************************************************)
EXTENDS SeatProperties, WellFoundedInduction, TLAPS

-----------------------------------------------------------------------------
(* The inductive invariants                                                 *)

(* A display in use is in one place of one list, and has a terminal; one    *)
(* with a login has a terminal for the session.                             *)
WellListed(M, D) ==
  /\ \A s \in SeatIds : \A i \in DOMAIN M[s] : D[M[s][i]].phase # "gone"
  /\ \A d \in DisplayIds : D[d].phase # "gone" => \E s \in SeatIds : \E i \in DOMAIN M[s] : M[s][i] = d
  /\ \A s, t \in SeatIds : \A i \in DOMAIN M[s], j \in DOMAIN M[t] : M[s][i] = M[t][j] => s = t /\ i = j
Placed(D) ==
  \A d \in DisplayIds :
    /\ D[d].phase # "gone" => D[d].vt \in VTs
    /\ D[d].phase \in {"login", "session"} => D[d].sessionVt \in VTs
Sound(M, D) ==
  /\ M \in [SeatIds -> Seq(DisplayIds)]
  /\ D \in [DisplayIds -> Display]
  /\ WellListed(M, D)
  /\ Placed(D)
SeatInv ==
  /\ TypeOK
  /\ Sound(mdisplays, display)
  /\ exitCode = None => ttyFailures <= MaxTtyFailures

(* Who watches logind's seat, and what the daemon has made of what it told. *)
ManagerInv ==
  /\ \A s \in SeatIds : Alive(s) <=> s = mseat
  /\ seatObjects = IF mseat = None THEN 0 ELSE 1
  /\ mseat # None <=> systemSeat # None /\ watcher[systemSeat] = "yes"
  /\ \A w \in Watchers : watcher[w] # "none" <=> w = systemSeat
  /\ getCalls \subseteq {systemSeat}

(* The messages under way tell how logind's seat came from what the manager *)
(* knows to what it is now: h[i] is the seat before the i-th of them.  What *)
(* a deleted LogindSeat was told says only that there was a seat.           *)
LogindStates == {"absent", "text", "graphical"}
Shows(value) == IF value THEN "graphical" ELSE "text"
Told(w, before, m, after) ==
  /\ m.type # "Seats"
  /\ m.type = "SeatNew" => before = "absent" /\ after # "absent"
  /\ m.type = "SeatRemoved" => before # "absent" /\ after = "absent"
  /\ m.type = "Get" =>
       before = after /\ after # "absent" /\ (m.watcher = w => after = Shows(m.value))
  /\ m.type = "CanGraphical" /\ m.watcher = w =>
       before # "absent" /\ before # after /\ after = Shows(m.value)
  /\ m.type = "CanGraphical" /\ m.watcher # w => before = after /\ after # "absent"
Answered ==
  /\ systemSeat \notin getCalls
  /\ \A i \in DOMAIN bus : ~(bus[i].type = "Get" /\ bus[i].watcher = systemSeat)
History(h) ==
  /\ h[Len(bus) + 1] = logindSeat
  /\ \A i \in 1..Len(bus) : Told(systemSeat, h[i], bus[i], h[i + 1])
  /\ systemSeat = None <=> h[1] = "absent"
  /\ systemSeat # None /\ watcher[systemSeat] = "yes" => h[1] = "graphical"
  /\ systemSeat # None /\ Answered /\ (\A i \in 1..Len(bus) + 1 : h[i] # "absent")
       => (h[1] = "graphical" => watcher[systemSeat] = "yes")
Histories == [1..Len(bus) + 1 -> LogindStates]
BusInv ==
  IF listing
  THEN /\ systemSeat = None
       /\ bus = <<>> \/ bus = <<[type |-> "Seats", value |-> logindSeat # "absent"]>>
  ELSE \E h \in Histories : History(h)
FollowInv == exitCode = None => ManagerInv /\ BusInv

-----------------------------------------------------------------------------
(* The operators the actions are made of                                    *)

(* The least of some numbers is one of them.                                *)
LEMMA MinIsThere ==
  ASSUME NEW S \in SUBSET Nat, S # {}
  PROVE  Min(S) \in S
<1>1. PICK x \in S : \A y \in S : ~(<<y, x>> \in OpToRel(<, Nat))
  BY NatLessThanWellFounded, WFMin
<1>2. ASSUME NEW y \in S PROVE x <= y
  <2>1. ~(<<y, x>> \in {ss \in Nat \X Nat : ss[1] < ss[2]})
    BY <1>1, Zenon DEF OpToRel
  <2> QED BY <2>1
<1> QED BY <1>2 DEF Min

(* A list without one of its members.                                       *)
LEMMA RemovedElements ==
  ASSUME NEW E, NEW q \in Seq(E), NEW i \in 1..Len(q)
  PROVE  /\ RemoveAt(q, i) \in Seq(E)
         /\ Len(RemoveAt(q, i)) = Len(q) - 1
         /\ \A j \in 1..Len(q) - 1 : RemoveAt(q, i)[j] = IF j < i THEN q[j] ELSE q[j + 1]
<1>1. SubSeq(q, 1, i - 1) \in Seq(E) /\ Len(SubSeq(q, 1, i - 1)) = i - 1
  OBVIOUS
<1>2. SubSeq(q, i + 1, Len(q)) \in Seq(E) /\ Len(SubSeq(q, i + 1, Len(q))) = Len(q) - i
  OBVIOUS
<1> DEFINE a == SubSeq(q, 1, i - 1)
           b == SubSeq(q, i + 1, Len(q))
<1>3. \A j \in 1..i - 1 : a[j] = q[j]
  OBVIOUS
<1>4. \A j \in 1..Len(q) - i : b[j] = q[j + i]
  OBVIOUS
<1>5. RemoveAt(q, i) = a \o b
  BY DEF RemoveAt
<1>a. a \in Seq(E) /\ Len(a) = i - 1
  BY <1>1
<1>b. b \in Seq(E) /\ Len(b) = Len(q) - i
  BY <1>2
<1> HIDE DEF a, b
<1>6. a \o b \in Seq(E) /\ Len(a \o b) = Len(q) - 1
  BY <1>a, <1>b
<1>7. \A j \in 1..Len(q) - 1 : (a \o b)[j] = IF j < i THEN a[j] ELSE b[j - (i - 1)]
  BY <1>a, <1>b
<1>8. ASSUME NEW j \in 1..Len(q) - 1, ~(j < i) PROVE b[j - (i - 1)] = q[j + 1]
  <2>1. j - (i - 1) \in 1..Len(q) - i /\ (j - (i - 1)) + i = j + 1
    BY <1>8
  <2> QED BY <2>1, <1>4
<1> QED BY <1>3, <1>5, <1>6, <1>7, <1>8

(* The terminal of a new display exists.                                    *)
LEMMA NewVtTypes ==
  ASSUME NEW D, active \in VTs
  PROVE  NewVt(D) \in VTs
<1>1. CASE VTs \subseteq InUse(D)
  BY <1>1 DEF NewVt
<1>2. CASE ~(VTs \subseteq InUse(D))
  <2>1. VTs \ InUse(D) \in SUBSET Nat /\ VTs \ InUse(D) # {}
    BY <1>2, SeatAssumption
  <2> QED BY <1>2, <2>1, MinIsThere DEF NewVt
<1> QED BY <1>1, <1>2

(* What Seat::startDisplay() does to the display and to the foreground.     *)
Started(D, d, foreground, jump) ==
  /\ display' \in [DisplayIds -> Display]
  /\ \A e \in DisplayIds : e # d => display'[e] = D[e]
  /\ display'[d].kind = D[d].kind /\ display'[d].vt = D[d].vt
  /\ display'[d].phase \in {"greeter", "greeting", "retrying", "stranded"}
  /\ ~MayGiveUp /\ ~D[d].broken => ~display'[d].broken /\ display'[d].phase # "stranded"
  /\ active' = IF jump # None THEN jump
               ELSE IF display'[d].phase = "greeter" THEN D[d].vt ELSE foreground

LEMMA Starting ==
  ASSUME NEW D \in [DisplayIds -> Display], NEW d \in DisplayIds, NEW tryNr \in Nat,
         NEW foreground, NEW jump, StartDisplay(D, d, tryNr, foreground, jump)
  PROVE  Started(D, d, foreground, jump)
<1>1. PICK o \in StartsAs(D[d], tryNr) :
        LET phase == CASE o = "up" /\ D[d].kind = "x11" -> "greeter"
                       [] o = "up" -> "greeting"
                       [] o # "up" /\ tryNr < 3 -> "retrying"
                       [] OTHER -> "stranded"
        IN /\ display' = [D EXCEPT ![d].phase = phase,
                            ![d].tries = IF phase = "retrying" THEN tryNr ELSE 0, ![d].broken = (o = "broken")]
           /\ active' = IF jump # None THEN jump
                        ELSE IF phase = "greeter" THEN D[d].vt ELSE foreground
  BY DEF StartDisplay
<1> DEFINE phase == CASE o = "up" /\ D[d].kind = "x11" -> "greeter"
                      [] o = "up" -> "greeting"
                      [] o # "up" /\ tryNr < 3 -> "retrying"
                      [] OTHER -> "stranded"
           tries == IF phase = "retrying" THEN tryNr ELSE 0
<1>2. phase \in {"greeter", "greeting", "retrying", "stranded"} /\ tries \in 0..3
  <2>1. phase = "retrying" => tryNr < 3
    OBVIOUS
  <2> QED BY <2>1
<1>3. ~MayGiveUp /\ ~D[d].broken => o # "broken" /\ phase # "stranded"
  BY DEF StartsAs
<1>4. /\ display' = [D EXCEPT ![d].phase = phase, ![d].tries = tries, ![d].broken = (o = "broken")]
      /\ active' = IF jump # None THEN jump ELSE IF phase = "greeter" THEN D[d].vt ELSE foreground
  BY <1>1
<1> HIDE DEF phase, tries
<1>5. D[d] \in Display /\ display'[d] = [D[d] EXCEPT !.phase = phase, !.tries = tries, !.broken = (o = "broken")]
  BY <1>4
<1>6. /\ display'[d] \in Display
      /\ display'[d].phase = phase /\ display'[d].kind = D[d].kind /\ display'[d].vt = D[d].vt
      /\ display'[d].broken = (o = "broken")
  BY <1>2, <1>5 DEF Display
<1>7. display' \in [DisplayIds -> Display] /\ \A e \in DisplayIds : e # d => display'[e] = D[e]
  BY <1>4, <1>6
<1> QED BY <1>2, <1>3, <1>4, <1>6, <1>7 DEF Started

(* What Seat::createDisplay() does: a free display e is listed and started. *)
Created(M, D, s, e, foreground, jump) ==
  /\ e \in Free(D)
  /\ mdisplays' = [M EXCEPT ![s] = Append(@, e)]
  /\ display' \in [DisplayIds -> Display]
  /\ \A x \in DisplayIds : x # e => display'[x] = D[x]
  /\ display'[e].vt \in VTs
  /\ display'[e].phase \in {"greeter", "greeting", "retrying", "stranded"}
  /\ ~MayGiveUp => ~display'[e].broken /\ display'[e].phase # "stranded"
  /\ active' = IF jump # None THEN jump
               ELSE IF display'[e].phase = "greeter" THEN display'[e].vt ELSE foreground

LEMMA Creating ==
  ASSUME NEW M, NEW D \in [DisplayIds -> Display], NEW s, NEW kind \in ServerTypes,
         NEW foreground, NEW jump, active \in VTs, Free(D) # {},
         CreateDisplay(M, D, s, kind, foreground, jump)
  PROVE  \E e \in Free(D) : Created(M, D, s, e, foreground, jump)
<1> DEFINE e == Min(Free(D))
           N == [D EXCEPT ![e] = NewDisplay(D, kind)]
<1>1. Free(D) \in SUBSET Nat /\ DisplayIds \subseteq Nat
  BY SeatAssumption DEF Free, DisplayIds
<1>2. e \in Free(D)
  BY <1>1, MinIsThere
<1>3. mdisplays' = [M EXCEPT ![s] = Append(@, e)] /\ StartDisplay(N, e, 1, foreground, jump)
  BY DEF CreateDisplay
<1>4. e \in DisplayIds
  BY <1>2 DEF Free
<1> HIDE DEF e
<1>5. NewVt(D) \in VTs
  BY NewVtTypes
<1>6. /\ NewDisplay(D, kind) \in Display
      /\ NewDisplay(D, kind).vt \in VTs /\ ~NewDisplay(D, kind).broken
  <2>1. Gone \in Display /\ ~Gone.broken
    BY DEF Gone, Display
  <2>2. NewDisplay(D, kind) = [Gone EXCEPT !.kind = kind, !.vt = NewVt(D)]
    BY DEF NewDisplay
  <2> QED BY <2>1, <2>2, <1>5 DEF Display
<1> HIDE DEF N
<1>7. N \in [DisplayIds -> Display] /\ N[e] = NewDisplay(D, kind) /\ \A x \in DisplayIds : x # e => N[x] = D[x]
  BY <1>4, <1>6 DEF N
<1>8. Started(N, e, foreground, jump)
  BY <1>3, <1>4, <1>7, Starting
<1>9. Created(M, D, s, e, foreground, jump)
  <2>1. display'[e].vt = N[e].vt
    BY <1>8 DEF Started
  <2>2. display'[e].vt \in VTs
    BY <2>1, <1>6, <1>7
  <2>3. \A x \in DisplayIds : x # e => display'[x] = D[x]
    BY <1>7, <1>8 DEF Started
  <2>4. ~MayGiveUp => ~display'[e].broken /\ display'[e].phase # "stranded"
    BY <1>6, <1>7, <1>8 DEF Started
  <2>5. active' = IF jump # None THEN jump
                  ELSE IF display'[e].phase = "greeter" THEN display'[e].vt ELSE foreground
    BY <2>1, <1>8 DEF Started
  <2> QED BY <1>2, <1>3, <1>8, <2>2, <2>3, <2>4, <2>5 DEF Created, Started
<1> QED BY <1>2, <1>9

(* A display in use is in one list: its Seat is the one that lists it.      *)
LEMMA ItsSeat ==
  ASSUME SeatInv, NEW d \in DisplayIds, ~In(d, {"gone"})
  PROVE  /\ SeatOf(d) \in SeatIds
         /\ PlaceOf(d) \in DOMAIN mdisplays[SeatOf(d)] /\ mdisplays[SeatOf(d)][PlaceOf(d)] = d
         /\ \A s \in SeatIds : \A i \in DOMAIN mdisplays[s] :
              mdisplays[s][i] = d => s = SeatOf(d) /\ i = PlaceOf(d)
<1>1. \E s \in SeatIds : \E i \in DOMAIN mdisplays[s] : mdisplays[s][i] = d
  BY DEF SeatInv, Sound, WellListed, In
<1>2. SeatOf(d) \in SeatIds /\ \E i \in DOMAIN mdisplays[SeatOf(d)] : mdisplays[SeatOf(d)][i] = d
  BY <1>1 DEF SeatOf
<1>3. PlaceOf(d) \in DOMAIN mdisplays[SeatOf(d)] /\ mdisplays[SeatOf(d)][PlaceOf(d)] = d
  BY <1>2 DEF PlaceOf
<1> QED BY <1>2, <1>3 DEF SeatInv, Sound, WellListed

(* Taking a display off its list, and from the displays, leaves the lists   *)
(* well formed; so does listing a free one.                                 *)
LEMMA RemovingKeepsLists ==
  ASSUME SeatInv, NEW d \in DisplayIds, ~In(d, {"gone"})
  PROVE  /\ Removed(d) \in [SeatIds -> Seq(DisplayIds)]
         /\ Without(d) \in [DisplayIds -> Display]
         /\ Sound(Removed(d), Without(d))
         /\ d \in Free(Without(d))
         /\ Len(Removed(d)[SeatOf(d)]) = Len(mdisplays[SeatOf(d)]) - 1
         /\ \A s \in SeatIds : s # SeatOf(d) => Removed(d)[s] = mdisplays[s]
<1> DEFINE s == SeatOf(d)
           p == PlaceOf(d)
           q == mdisplays[s]
<1>1. /\ s \in SeatIds /\ p \in DOMAIN q /\ q[p] = d
      /\ \A t \in SeatIds : \A i \in DOMAIN mdisplays[t] : mdisplays[t][i] = d => t = s /\ i = p
  BY ItsSeat
<1>2. mdisplays \in [SeatIds -> Seq(DisplayIds)] /\ display \in [DisplayIds -> Display]
  BY DEF SeatInv, TypeOK, SeatTypeOK
<1>3. q \in Seq(DisplayIds) /\ p \in 1..Len(q)
  BY <1>1, <1>2
<1>4. Removed(d) = [mdisplays EXCEPT ![s] = RemoveAt(q, p)]
  BY DEF Removed
<1> HIDE DEF s, p
<1> DEFINE r == RemoveAt(q, p)
<1>5. /\ r \in Seq(DisplayIds) /\ Len(r) = Len(q) - 1
      /\ \A j \in 1..Len(q) - 1 : r[j] = IF j < p THEN q[j] ELSE q[j + 1]
  BY <1>3, RemovedElements
<1> HIDE DEF r
<1>6. /\ Removed(d) \in [SeatIds -> Seq(DisplayIds)] /\ Removed(d)[s] = r
      /\ \A t \in SeatIds : t # s => Removed(d)[t] = mdisplays[t]
  BY <1>1, <1>2, <1>4, <1>5 DEF r
<1>7. /\ Without(d) \in [DisplayIds -> Display]
      /\ Without(d)[d].phase = "gone" /\ \A e \in DisplayIds : e # d => Without(d)[e] = display[e]
  BY <1>2 DEF Without, Gone, Display
<1>8. DOMAIN q = 1..Len(q) /\ DOMAIN r = 1..Len(q) - 1 /\ Len(q) \in Nat
  BY <1>3, <1>5
<1>9. \A j \in DOMAIN r : \E i \in DOMAIN q : i # p /\ r[j] = q[i] /\ i = IF j < p THEN j ELSE j + 1
  <2>1. TAKE j \in DOMAIN r
  <2>2. CASE j < p
    BY <2>2, <1>3, <1>5, <1>8
  <2>3. CASE ~(j < p)
    BY <2>3, <1>3, <1>5, <1>8
  <2> QED BY <2>2, <2>3
<1>10. \A i \in DOMAIN q : i # p => \E j \in DOMAIN r : r[j] = q[i]
  <2>1. TAKE i \in DOMAIN q
  <2>2. HAVE i # p
  <2>3. CASE i < p
    <3>1. i \in 1..Len(q) - 1 /\ r[i] = q[i]
      BY <2>3, <1>3, <1>5, <1>8
    <3> QED BY <3>1, <1>8
  <2>4. CASE ~(i < p)
    <3>1. i - 1 \in 1..Len(q) - 1 /\ ~(i - 1 < p) /\ (i - 1) + 1 = i
      BY <2>2, <2>4, <1>3, <1>8
    <3>2. r[i - 1] = q[i]
      BY <3>1, <1>5
    <3> QED BY <3>1, <3>2, <1>8
  <2> QED BY <2>3, <2>4
<1>11. WellListed(Removed(d), Without(d))
  <2>1. \A t \in SeatIds : \A j \in DOMAIN Removed(d)[t] :
          /\ Removed(d)[t][j] \in DisplayIds /\ Removed(d)[t][j] # d
          /\ \E i \in DOMAIN mdisplays[t] : Removed(d)[t][j] = mdisplays[t][i]
    <3>1. TAKE t \in SeatIds
    <3>2. CASE t = s
      BY <3>2, <1>1, <1>3, <1>6, <1>8, <1>9
    <3>3. CASE t # s
      BY <3>3, <1>1, <1>2, <1>6
    <3> QED BY <3>2, <3>3
  <2>2. \A t \in SeatIds : \A j \in DOMAIN Removed(d)[t] : Without(d)[Removed(d)[t][j]].phase # "gone"
    BY <2>1, <1>7 DEF SeatInv, Sound, WellListed
  <2>3. ASSUME NEW e \in DisplayIds, Without(d)[e].phase # "gone"
        PROVE  \E t \in SeatIds : \E j \in DOMAIN Removed(d)[t] : Removed(d)[t][j] = e
    <3>1. e # d /\ display[e].phase # "gone"
      BY <2>3, <1>7
    <3>2. PICK t \in SeatIds : \E i \in DOMAIN mdisplays[t] : mdisplays[t][i] = e
      BY <3>1 DEF SeatInv, Sound, WellListed
    <3>3. CASE t = s
      BY <3>1, <3>2, <3>3, <1>1, <1>6, <1>10
    <3>4. CASE t # s
      BY <3>2, <3>4, <1>6
    <3> QED BY <3>3, <3>4
  <2>4. ASSUME NEW t \in SeatIds, NEW u \in SeatIds, NEW i \in DOMAIN Removed(d)[t],
               NEW j \in DOMAIN Removed(d)[u], Removed(d)[t][i] = Removed(d)[u][j]
        PROVE  t = u /\ i = j
    <3>1. t = u
      BY <2>1, <2>4 DEF SeatInv, Sound, WellListed
    <3>2. CASE t # s
      <4>1. Removed(d)[t] = mdisplays[t] /\ Removed(d)[u] = mdisplays[u]
        BY <3>1, <3>2, <1>6
      <4>2. \A x, y \in DOMAIN mdisplays[t] : mdisplays[t][x] = mdisplays[t][y] => x = y
        BY DEF SeatInv, Sound, WellListed
      <4> QED BY <2>4, <3>1, <4>1, <4>2
    <3>3. CASE t = s
      <4>1. i \in DOMAIN r /\ j \in DOMAIN r /\ r[i] = r[j]
        BY <2>4, <3>1, <3>3, <1>6
      <4>2. \A x, y \in DOMAIN q : q[x] = q[y] => x = y
        BY <1>1 DEF SeatInv, Sound, WellListed
      <4>3. (IF i < p THEN i ELSE i + 1) = (IF j < p THEN j ELSE j + 1)
        BY <4>1, <4>2, <1>9
      <4>4. i \in Int /\ j \in Int /\ p \in Int
        BY <4>1, <1>3, <1>8
      <4> QED BY <3>1, <4>3, <4>4
    <3> QED BY <3>2, <3>3
  <2> QED BY <2>2, <2>3, <2>4 DEF WellListed
<1>12. Placed(Without(d))
  BY <1>7 DEF SeatInv, Sound, Placed
<1> QED BY <1>5, <1>6, <1>7, <1>11, <1>12 DEF Sound, Free, s

LEMMA CreatingKeepsLists ==
  ASSUME NEW M, NEW D, Sound(M, D), NEW s \in SeatIds, NEW e \in Free(D),
         NEW foreground \in VTs, NEW jump \in VTs \cup {None}, Created(M, D, s, e, foreground, jump)
  PROVE  /\ Sound(mdisplays', display') /\ active' \in VTs
         /\ mdisplays'[s] # <<>> /\ \A t \in SeatIds : t # s => mdisplays'[t] = M[t]
<1>1. M \in [SeatIds -> Seq(DisplayIds)] /\ D \in [DisplayIds -> Display] /\ WellListed(M, D) /\ Placed(D)
  BY DEF Sound
<1>2. e \in DisplayIds /\ D[e].phase = "gone"
  BY DEF Free
<1> DEFINE q == Append(M[s], e)
<1>3. /\ q \in Seq(DisplayIds) /\ Len(q) = Len(M[s]) + 1 /\ q[Len(M[s]) + 1] = e /\ q # <<>>
      /\ DOMAIN q = 1..Len(M[s]) + 1 /\ DOMAIN M[s] = 1..Len(M[s]) /\ Len(M[s]) \in Nat
      /\ \A i \in 1..Len(M[s]) : q[i] = M[s][i]
  <2>1. M[s] \in Seq(DisplayIds)
    BY <1>1
  <2> QED BY <2>1, <1>2
<1> HIDE DEF q
<1>4. /\ mdisplays' \in [SeatIds -> Seq(DisplayIds)] /\ mdisplays'[s] = q
      /\ \A t \in SeatIds : t # s => mdisplays'[t] = M[t]
  BY <1>1, <1>3 DEF Created, q
<1>5. \A t \in SeatIds : \A i \in DOMAIN mdisplays'[t] :
        \/ i \in DOMAIN M[t] /\ mdisplays'[t][i] = M[t][i] /\ M[t][i] # e
        \/ t = s /\ i = Len(M[s]) + 1 /\ mdisplays'[t][i] = e
  <2>1. \A t \in SeatIds : \A i \in DOMAIN M[t] : M[t][i] # e
    BY <1>1, <1>2 DEF WellListed
  <2>2. TAKE t \in SeatIds
  <2>3. CASE t # s
    BY <2>1, <2>3, <1>4
  <2>4. CASE t = s
    <3>1. TAKE i \in DOMAIN mdisplays'[t]
    <3>2. i \in 1..Len(M[s]) + 1
      BY <2>4, <1>3, <1>4
    <3> QED BY <2>1, <2>4, <3>2, <1>3, <1>4
  <2> QED BY <2>3, <2>4
<1>6. display'[e].phase # "gone" /\ \A x \in DisplayIds : x # e => display'[x] = D[x]
  BY DEF Created
<1>7. WellListed(mdisplays', display')
  <2>1. ASSUME NEW t \in SeatIds, NEW i \in DOMAIN mdisplays'[t]
        PROVE  display'[mdisplays'[t][i]].phase # "gone"
    <3>1. CASE mdisplays'[t][i] = e
      BY <3>1, <1>6
    <3>2. CASE mdisplays'[t][i] # e
      <4>1. i \in DOMAIN M[t] /\ mdisplays'[t][i] = M[t][i] /\ M[t] \in Seq(DisplayIds)
        BY <3>2, <1>1, <1>5
      <4>2. M[t][i] \in DisplayIds
        BY <4>1
      <4> QED BY <3>2, <4>1, <4>2, <1>1, <1>6 DEF WellListed
    <3> QED BY <3>1, <3>2
  <2>2. ASSUME NEW x \in DisplayIds, display'[x].phase # "gone"
        PROVE  \E t \in SeatIds : \E i \in DOMAIN mdisplays'[t] : mdisplays'[t][i] = x
    <3>1. CASE x = e
      BY <3>1, <1>3, <1>4
    <3>2. CASE x # e
      <4>1. PICK t \in SeatIds : \E i \in DOMAIN M[t] : M[t][i] = x
        BY <2>2, <3>2, <1>1, <1>6 DEF WellListed
      <4>2. CASE t = s
        BY <4>1, <4>2, <1>3, <1>4
      <4>3. CASE t # s
        BY <4>1, <4>3, <1>4
      <4> QED BY <4>2, <4>3
    <3> QED BY <3>1, <3>2
  <2>3. ASSUME NEW t \in SeatIds, NEW u \in SeatIds, NEW i \in DOMAIN mdisplays'[t],
               NEW j \in DOMAIN mdisplays'[u], mdisplays'[t][i] = mdisplays'[u][j]
        PROVE  t = u /\ i = j
    BY <2>3, <1>1, <1>5 DEF WellListed
  <2> QED BY <2>1, <2>2, <2>3 DEF WellListed
<1>8. Placed(display')
  BY <1>1, <1>6 DEF Placed, Created
<1>9. active' \in VTs
  BY SeatAssumption DEF Created
<1> QED BY <1>3, <1>4, <1>7, <1>8, <1>9 DEF Sound, Created

(* A foreground that shows something, or soon will; displays whose server   *)
(* was not given up.                                                        *)
Shown(D, vt) == \E d \in DisplayIds : vt \in ShownBy(D[d]) \/ D[d].phase \in {"retrying", "greeting"}
Whole(D) == \A d \in DisplayIds : ~D[d].broken /\ D[d].phase # "stranded"

LEMMA CreatingShows ==
  ASSUME NEW M, NEW D, NEW s, NEW e \in Free(D), NEW foreground, NEW jump,
         Created(M, D, s, e, foreground, jump), ~MayGiveUp, Whole(D),
         jump # None => \E x \in DisplayIds : jump \in ShownBy(D[x])
  PROVE  Whole(display') /\ Shown(display', active')
<1>1. e \in DisplayIds /\ D[e].phase = "gone"
  BY DEF Free
<1>2. Whole(display')
  BY DEF Whole, Created
<1>3. CASE jump # None
  <2>1. PICK x \in DisplayIds : jump \in ShownBy(D[x])
    BY <1>3
  <2>2. x # e
    BY <2>1, <1>1 DEF ShownBy
  <2>3. display'[x] = D[x] /\ active' = jump
    BY <2>2, <1>3 DEF Created
  <2> QED BY <1>2, <2>1, <2>3 DEF Shown
<1>4. CASE jump = None
  <2>1. CASE display'[e].phase = "greeter"
    <3>1. active' = display'[e].vt
      BY <1>4, <2>1 DEF Created
    <3>2. display'[e].vt \in ShownBy(display'[e])
      BY <2>1 DEF ShownBy
    <3> QED BY <1>1, <1>2, <3>1, <3>2 DEF Shown
  <2>2. CASE display'[e].phase # "greeter"
    <3>1. display'[e].phase \in {"retrying", "greeting"}
      BY <2>2 DEF Created
    <3> QED BY <1>1, <1>2, <3>1 DEF Shown
  <2> QED BY <2>1, <2>2
<1> QED BY <1>3, <1>4

(* Seat::displayStopped(): the lists stay well formed, no Seat loses its    *)
(* last display, and the foreground is left to something that is shown.     *)
LEMMA Stopping ==
  ASSUME SeatInv, NEW d \in DisplayIds, ~In(d, {"gone"}),
         NEW nextVt \in VTs \cup {None}, NEW foreground \in VTs,
         DisplayStopped(d, nextVt, foreground)
  PROVE  /\ Sound(mdisplays', display') /\ active' \in VTs
         /\ \A s \in SeatIds : mdisplays'[s] # <<>> <=> mdisplays[s] # <<>>
         /\ ~MayGiveUp /\ ~MayStopBehind /\ Whole(display)
              /\ (nextVt # None => \E x \in DisplayIds : x # d /\ nextVt \in ShownBy(display[x]))
            => Whole(display') /\ Shown(display', active')
<1> DEFINE s == SeatOf(d)
           rest == Removed(d)
           left == Without(d)
<1>1. /\ s \in SeatIds /\ rest \in [SeatIds -> Seq(DisplayIds)] /\ Sound(rest, left) /\ d \in Free(left)
      /\ \A t \in SeatIds : t # s => rest[t] = mdisplays[t]
  BY ItsSeat, RemovingKeepsLists
<1>2. mdisplays[s] # <<>>
  BY ItsSeat
<1>3. left \in [DisplayIds -> Display] /\ left[d].phase = "gone" /\ ~left[d].broken
      /\ \A x \in DisplayIds : x # d => left[x] = display[x]
  BY DEF Without, Gone, SeatInv, Sound, Display
<1>4. Whole(display) => Whole(left)
  BY <1>3 DEF Whole
<1>5. active \in VTs /\ defaultServer \in ServerTypes
  BY DEF SeatInv, TypeOK, SeatTypeOK
<1>6. CASE rest[s] = <<>>
  <2>1. CreateDisplay(rest, left, s, defaultServer, foreground, nextVt)
    BY <1>6 DEF DisplayStopped
  <2> HIDE DEF rest, left, s
  <2>2. PICK e \in Free(left) : Created(rest, left, s, e, foreground, nextVt)
    BY <2>1, <1>1, <1>3, <1>5, Creating
  <2>3. /\ Sound(mdisplays', display') /\ active' \in VTs
        /\ mdisplays'[s] # <<>> /\ \A t \in SeatIds : t # s => mdisplays'[t] = rest[t]
    BY <2>2, <1>1, CreatingKeepsLists
  <2>4. ASSUME ~MayGiveUp, Whole(display), nextVt # None => \E x \in DisplayIds : x # d /\ nextVt \in ShownBy(display[x])
        PROVE  Whole(display') /\ Shown(display', active')
    <3>1. nextVt # None => \E x \in DisplayIds : nextVt \in ShownBy(left[x])
      BY <2>4, <1>3
    <3> QED BY <2>2, <2>4, <3>1, <1>4, CreatingShows
  <2> QED BY <1>1, <1>2, <2>3, <2>4
<1>7. CASE rest[s] # <<>>
  <2> DEFINE e == rest[s][Len(rest[s])]
             last == display[e]
  <2>1. /\ MayStopBehind \/ nextVt # None \/ TerminalId(last) \in ShownBy(last) \cup {last.vt}
        /\ mdisplays' = rest
        /\ display' = left
        /\ active' = IF nextVt # None THEN nextVt ELSE TerminalId(last)
    BY <1>7 DEF DisplayStopped
  <2> HIDE DEF rest, left, s
  <2>2. rest[s] \in Seq(DisplayIds) /\ Len(rest[s]) \in DOMAIN rest[s]
    BY <1>1, <1>7
  <2>3. e \in DisplayIds
    BY <2>2
  <2>4. left[e].phase # "gone"
    BY <1>1, <2>2 DEF Sound, WellListed
  <2>5. e # d /\ last = left[e]
    BY <2>3, <2>4, <1>3
  <2>6. TerminalId(last) \in VTs
    BY <1>1, <2>3, <2>4, <2>5 DEF Sound, Placed, TerminalId
  <2>7. active' \in VTs
    BY <2>1, <2>6
  <2>8. ASSUME ~MayStopBehind, Whole(display), nextVt # None => \E x \in DisplayIds : x # d /\ nextVt \in ShownBy(display[x])
        PROVE  Whole(display') /\ Shown(display', active')
    <3>1. Whole(display')
      BY <2>1, <2>8, <1>4
    <3>2. CASE nextVt # None
      <4>1. active' = nextVt
        BY <2>1, <3>2
      <4> QED BY <2>1, <2>8, <3>1, <3>2, <4>1, <1>3 DEF Shown
    <3>3. CASE nextVt = None
      <4>1. active' = TerminalId(last) /\ TerminalId(last) \in ShownBy(last) \cup {last.vt}
        BY <2>1, <2>8, <3>3
      <4>2. last.phase \in {"retrying", "greeting", "greeter", "login", "session"}
        <5>1. last \in Display /\ last.phase # "gone" /\ last.phase # "stranded"
          BY <1>3, <2>3, <2>4, <2>5, <2>8 DEF Whole
        <5> QED BY <5>1 DEF Display
      <4>3. TerminalId(last) \in ShownBy(last) \/ last.phase \in {"retrying", "greeting"}
        BY <4>1, <4>2 DEF TerminalId, ShownBy
      <4> QED BY <2>1, <2>3, <2>5, <3>1, <4>1, <4>3 DEF Shown
    <3> QED BY <3>2, <3>3
  <2>9. \A t \in SeatIds : mdisplays'[t] # <<>> <=> mdisplays[t] # <<>>
    BY <2>1, <1>1, <1>2, <1>7
  <2> QED BY <2>1, <2>7, <2>8, <2>9, <1>1
<1> QED BY <1>6, <1>7

-----------------------------------------------------------------------------
(* The steps of a seat                                                      *)

(* What every step keeps: types and lists, that a Seat has a display, and,  *)
(* with the three mistakes shut out, that something is shown.               *)
NoMistakes == ~MayGiveUp /\ ~MayFailBehind /\ ~MayStopBehind
Kept ==
  /\ SeatTypeOK' /\ Sound(mdisplays', display')
  /\ exitCode' = None => ttyFailures' <= MaxTtyFailures
  /\ exitCode' = None => \A s \in SeatIds : mdisplays'[s] # <<>> <=> mdisplays[s] # <<>>
ShownStill ==
  NoMistakes /\ Whole(display) =>
    Whole(display') /\ (Shown(display, active) /\ exitCode' = None => Shown(display', active'))

LEMMA StoppingKeeps ==
  ASSUME SeatInv, NEW d \in DisplayIds, ~In(d, {"gone"}),
         NEW nextVt \in VTs \cup {None}, NEW foreground \in VTs,
         DisplayStopped(d, nextVt, foreground),
         nextVt # None => \E x \in DisplayIds : x # d /\ nextVt \in ShownBy(display[x]),
         UNCHANGED defaultServer,
         ttyFailures' \in 0..MaxTtyFailures + 1, exitCode' \in {None, 12, 23},
         exitCode' = None => ttyFailures' <= MaxTtyFailures
  PROVE  Kept /\ ShownStill
<1>1. /\ Sound(mdisplays', display') /\ active' \in VTs
      /\ \A s \in SeatIds : mdisplays'[s] # <<>> <=> mdisplays[s] # <<>>
      /\ ~MayGiveUp /\ ~MayStopBehind /\ Whole(display) => Whole(display') /\ Shown(display', active')
  BY Stopping
<1>2. SeatTypeOK'
  BY <1>1 DEF SeatTypeOK, Sound, SeatInv, TypeOK
<1> QED BY <1>1, <1>2 DEF Kept, ShownStill, NoMistakes

(* A display that goes from one phase to another stays listed.              *)
LEMMA MovingKeeps ==
  ASSUME SeatInv, NEW d \in DisplayIds, ~In(d, {"gone"}), exitCode = None,
         display' \in [DisplayIds -> Display], \A e \in DisplayIds : e # d => display'[e] = display[e],
         display'[d].phase # "gone", display'[d].vt = display[d].vt,
         display'[d].phase \in {"login", "session"} => display'[d].sessionVt \in VTs,
         active' \in VTs, UNCHANGED <<defaultServer, mdisplays, ttyFailures, exitCode>>
  PROVE  Kept
<1>1. WellListed(mdisplays', display')
  <2>1. \A e \in DisplayIds : display'[e].phase # "gone" <=> display[e].phase # "gone"
    BY DEF In
  <2>2. \A s \in SeatIds : \A i \in DOMAIN mdisplays[s] : mdisplays[s][i] \in DisplayIds
    BY DEF SeatInv, Sound
  <2> QED BY <2>1, <2>2 DEF SeatInv, Sound, WellListed
<1>2. Placed(display')
  BY DEF SeatInv, Sound, Placed, In
<1> QED BY <1>1, <1>2 DEF Kept, SeatInv, Sound, TypeOK, SeatTypeOK

LEMMA RetryStartKeeps ==
  ASSUME SeatInv, exitCode = None, NEW d \in DisplayIds, RetryStart(d)
  PROVE  Kept /\ ShownStill
<1>1. display \in [DisplayIds -> Display] /\ active \in VTs
  BY DEF SeatInv, Sound, TypeOK, SeatTypeOK
<1>2. display[d].tries + 1 \in Nat /\ display[d].phase = "retrying" /\ display[d].vt \in VTs
  BY <1>1 DEF RetryStart, In, Display, SeatInv, Sound, Placed
<1>3. Started(display, d, active, None)
  BY <1>1, <1>2, Starting DEF RetryStart
<1>4. Kept
  <2>1. active' \in VTs
    BY <1>1, <1>2, <1>3 DEF Started
  <2> QED BY <1>2, <1>3, <2>1, MovingKeeps DEF Started, RetryStart, In
<1>5. ASSUME NoMistakes, Whole(display) PROVE Whole(display') /\ Shown(display', active')
  <2>1. Whole(display')
    BY <1>3, <1>5 DEF Started, Whole, NoMistakes
  <2>2. CASE display'[d].phase = "greeter"
    <3>1. active' = display'[d].vt
      BY <2>2, <1>3 DEF Started
    <3> QED BY <2>1, <2>2, <3>1 DEF Shown, ShownBy
  <2>3. CASE display'[d].phase # "greeter"
    <3>1. display'[d].phase \in {"greeting", "retrying"}
      BY <2>1, <2>3, <1>3 DEF Started, Whole
    <3> QED BY <2>1, <3>1 DEF Shown
  <2> QED BY <2>2, <2>3
<1> QED BY <1>4, <1>5 DEF ShownStill

LEMMA GreeterOpensKeeps ==
  ASSUME SeatInv, exitCode = None, NEW d \in DisplayIds, GreeterOpens(d)
  PROVE  Kept /\ ShownStill
<1>1. display \in [DisplayIds -> Display] /\ display[d] \in Display
  BY DEF SeatInv, Sound
<1>2. display[d].phase = "greeting" /\ display[d].vt \in VTs
  BY DEF GreeterOpens, In, SeatInv, Sound, Placed
<1>3. /\ display' \in [DisplayIds -> Display] /\ display'[d].phase = "greeter"
      /\ display'[d].vt = display[d].vt /\ display'[d].broken = display[d].broken
      /\ \A e \in DisplayIds : e # d => display'[e] = display[e]
  BY <1>1 DEF GreeterOpens, Display
<1>4. Kept
  BY <1>2, <1>3, MovingKeeps DEF GreeterOpens, In
<1>5. Whole(display) => Whole(display') /\ Shown(display', active')
  BY <1>3 DEF GreeterOpens, Whole, Shown, ShownBy
<1> QED BY <1>4, <1>5 DEF ShownStill

LEMMA TtyFailedKeeps ==
  ASSUME SeatInv, exitCode = None, NEW d \in DisplayIds, TtyFailed(d)
  PROVE  Kept /\ ShownStill
<1>1. ttyFailures' \in 0..MaxTtyFailures + 1 /\ exitCode' \in {None, 12, 23}
      /\ (exitCode' = None => ttyFailures' <= MaxTtyFailures)
  BY SeatAssumption DEF TtyFailed, SeatInv, TypeOK, SeatTypeOK
<1> QED BY <1>1, StoppingKeeps, SeatAssumption DEF TtyFailed, In

LEMMA EndingKeeps ==
  ASSUME SeatInv, exitCode = None, NEW d \in DisplayIds,
         GreeterFails(d) \/ DisplayServerStops(d) \/ SessionEnds(d)
  PROVE  Kept /\ ShownStill
<1>1. /\ ~In(d, {"gone"}) /\ DisplayStopped(d, None, active) /\ UNCHANGED <<defaultServer, ttyFailures, exitCode>>
  BY DEF GreeterFails, DisplayServerStops, SessionEnds, In
<1>2. active \in VTs /\ ttyFailures \in 0..MaxTtyFailures + 1 /\ ttyFailures <= MaxTtyFailures
  BY DEF SeatInv, TypeOK, SeatTypeOK
<1> QED BY <1>1, <1>2, StoppingKeeps

LEMMA SessionReusedKeeps ==
  ASSUME SeatInv, exitCode = None, NEW d \in DisplayIds, NEW e \in DisplayIds, SessionReused(d, e)
  PROVE  Kept /\ ShownStill
<1>1. /\ ~In(d, {"gone"}) /\ e # d /\ DisplayStopped(d, display[e].sessionVt, display[e].sessionVt)
      /\ UNCHANGED <<defaultServer, ttyFailures, exitCode>>
  BY DEF SessionReused, In
<1>2. display[e].sessionVt \in VTs
  BY DEF SessionReused, In, SeatInv, Sound, Placed
<1>3. display[e].sessionVt \in ShownBy(display[e])
  BY DEF SessionReused, In, ShownBy
<1>4. active \in VTs /\ ttyFailures \in 0..MaxTtyFailures + 1 /\ ttyFailures <= MaxTtyFailures
  BY DEF SeatInv, TypeOK, SeatTypeOK
<1> QED BY <1>1, <1>2, <1>3, <1>4, StoppingKeeps

LEMMA LoginKeeps ==
  ASSUME SeatInv, exitCode = None, NEW d \in DisplayIds, StartAuth(d) \/ AuthFails(d)
  PROVE  Kept /\ ShownStill
<1>1. display \in [DisplayIds -> Display] /\ display[d] \in Display /\ active \in VTs
  BY DEF SeatInv, Sound, TypeOK, SeatTypeOK
<1>2. display[d].phase \in {"greeter", "login"} /\ display[d].vt \in VTs
  BY DEF StartAuth, AuthFails, In, SeatInv, Sound, Placed
<1>3. \E p \in {"greeter", "login"}, vt \in VTs \cup {0} :
        /\ display' = [display EXCEPT ![d].phase = p, ![d].sessionVt = vt]
        /\ p = "login" => vt \in VTs
  <2>1. NewVt(display) \in VTs
    BY <1>1, NewVtTypes
  <2>2. CASE StartAuth(d)
    <3>1. PICK shared \in BOOLEAN :
            display' = [display EXCEPT ![d].phase = "login",
                          ![d].sessionVt = IF shared THEN display[d].vt ELSE NewVt(display)]
      BY <2>2 DEF StartAuth
    <3> QED BY <3>1, <2>1, <1>2
  <2>3. CASE AuthFails(d)
    BY <2>3 DEF AuthFails
  <2> QED BY <2>2, <2>3
<1>4. PICK p \in {"greeter", "login"}, vt \in VTs \cup {0} :
        /\ display' = [display EXCEPT ![d].phase = p, ![d].sessionVt = vt]
        /\ p = "login" => vt \in VTs
  BY <1>3
<1>5. display'[d] = [display[d] EXCEPT !.phase = p, !.sessionVt = vt]
  BY <1>1, <1>4
<1>6. /\ display'[d] \in Display /\ display'[d].phase = p /\ display'[d].sessionVt = vt
      /\ display'[d].vt = display[d].vt /\ display'[d].broken = display[d].broken
  BY <1>1, <1>5 DEF Display
<1>7. display' \in [DisplayIds -> Display] /\ \A e \in DisplayIds : e # d => display'[e] = display[e]
  BY <1>1, <1>4, <1>6
<1>8. UNCHANGED <<defaultServer, mdisplays, ttyFailures, active, exitCode>>
  BY DEF StartAuth, AuthFails
<1>9. Kept
  BY <1>1, <1>2, <1>4, <1>6, <1>7, <1>8, MovingKeeps DEF In
<1>10. ASSUME NEW e \in DisplayIds
       PROVE  /\ ShownBy(display'[e]) = ShownBy(display[e])
              /\ (display[e].phase \in {"retrying", "greeting"} => display'[e] = display[e])
  BY <1>2, <1>6, <1>7 DEF ShownBy
<1>11. ASSUME Shown(display, active) PROVE Shown(display', active')
  <2>1. PICK e \in DisplayIds : active \in ShownBy(display[e]) \/ display[e].phase \in {"retrying", "greeting"}
    BY <1>11 DEF Shown
  <2>2. active' \in ShownBy(display'[e]) \/ display'[e].phase \in {"retrying", "greeting"}
    BY <2>1, <1>8, <1>10
  <2> QED BY <2>2 DEF Shown
<1>12. Whole(display) => Whole(display')
  BY <1>6, <1>7 DEF Whole
<1> QED BY <1>9, <1>11, <1>12 DEF ShownStill

LEMMA SessionStartsKeeps ==
  ASSUME SeatInv, exitCode = None, NEW d \in DisplayIds, SessionStarts(d)
  PROVE  Kept /\ ShownStill
<1> DEFINE vt == display[d].sessionVt
<1>1. display \in [DisplayIds -> Display] /\ display[d] \in Display /\ active \in VTs
  BY DEF SeatInv, Sound, TypeOK, SeatTypeOK
<1>2. display[d].phase = "login" /\ vt \in VTs
  BY DEF SessionStarts, In, SeatInv, Sound, Placed
<1>3. UNCHANGED <<defaultServer, ttyFailures, exitCode>>
  BY DEF SessionStarts
<1>4. CASE vt \in InUse(display) /\ vt # display[d].vt
  <2>1. ~In(d, {"gone"}) /\ DisplayStopped(d, None, active)
    BY <1>2, <1>4 DEF SessionStarts, In
  <2>2. ttyFailures \in 0..MaxTtyFailures + 1 /\ ttyFailures <= MaxTtyFailures
    BY DEF SeatInv, TypeOK, SeatTypeOK
  <2> QED BY <2>1, <2>2, <1>1, <1>3, StoppingKeeps
<1>5. CASE ~(vt \in InUse(display) /\ vt # display[d].vt)
  <2>1. display' = [display EXCEPT ![d].phase = "session"] /\ active' = vt /\ mdisplays' = mdisplays
    BY <1>5 DEF SessionStarts
  <2>2. display'[d] = [display[d] EXCEPT !.phase = "session"]
    BY <1>1, <2>1
  <2>3. /\ display'[d] \in Display /\ display'[d].phase = "session" /\ display'[d].sessionVt = vt
        /\ display'[d].vt = display[d].vt /\ display'[d].broken = display[d].broken
    BY <1>1, <2>2 DEF Display
  <2>4. display' \in [DisplayIds -> Display] /\ \A e \in DisplayIds : e # d => display'[e] = display[e]
    BY <1>1, <2>1, <2>3
  <2>5. Kept
    BY <1>2, <1>3, <2>1, <2>3, <2>4, MovingKeeps DEF In
  <2>6. Whole(display) => Whole(display')
    BY <2>3, <2>4 DEF Whole
  <2>7. Shown(display', active')
    BY <2>1, <2>3 DEF Shown, ShownBy
  <2> QED BY <2>5, <2>6, <2>7 DEF ShownStill
<1> QED BY <1>4, <1>5

LEMMA DisplayServerFailedKeeps ==
  ASSUME SeatInv, exitCode = None, NEW d \in DisplayIds, DisplayServerFailed(d)
  PROVE  Kept /\ ShownStill
<1> DEFINE s == SeatOf(d)
           rest == Removed(d)
           left == Without(d)
<1>1. /\ s \in SeatIds /\ rest \in [SeatIds -> Seq(DisplayIds)] /\ Sound(rest, left) /\ d \in Free(left)
      /\ Len(rest[s]) = Len(mdisplays[s]) - 1
      /\ \A t \in SeatIds : t # s => rest[t] = mdisplays[t]
  BY ItsSeat, RemovingKeepsLists DEF DisplayServerFailed, In
<1>2. mdisplays[s] # <<>>
  BY ItsSeat DEF DisplayServerFailed, In
<1>3. left \in [DisplayIds -> Display] /\ left[d].phase = "gone" /\ ~left[d].broken
      /\ \A x \in DisplayIds : x # d => left[x] = display[x]
  BY DEF Without, Gone, SeatInv, Sound, Display
<1>4. Whole(display) => Whole(left)
  BY <1>3 DEF Whole
<1>5. active \in VTs /\ defaultServer \in ServerTypes /\ ttyFailures \in 0..MaxTtyFailures + 1
      /\ exitCode \in {None, 12, 23} /\ ttyFailures <= MaxTtyFailures
  BY DEF SeatInv, TypeOK, SeatTypeOK
<1>6. UNCHANGED <<defaultServer, ttyFailures>>
  BY DEF DisplayServerFailed
<1>7. CASE display[d].kind # "x11-user"
  <2>1. CreateDisplay(rest, left, s, "x11-user", active, None) /\ UNCHANGED exitCode
    BY <1>7 DEF DisplayServerFailed
  <2> HIDE DEF rest, left, s
  <2>2. PICK e \in Free(left) : Created(rest, left, s, e, active, None)
    BY <2>1, <1>1, <1>3, <1>5, Creating DEF ServerTypes
  <2>3. /\ Sound(mdisplays', display') /\ active' \in VTs
        /\ mdisplays'[s] # <<>> /\ \A t \in SeatIds : t # s => mdisplays'[t] = rest[t]
    BY <2>2, <1>1, <1>5, CreatingKeepsLists
  <2>4. ~MayGiveUp /\ Whole(display) => Whole(display') /\ Shown(display', active')
    BY <2>2, <1>4, CreatingShows
  <2>5. SeatTypeOK'
    BY <2>1, <2>3, <1>5, <1>6 DEF SeatTypeOK, Sound
  <2>6. Kept
    BY <2>1, <2>3, <2>5, <1>1, <1>2, <1>5, <1>6 DEF Kept
  <2> QED BY <2>4, <2>6 DEF ShownStill, NoMistakes
<1>8. CASE display[d].kind = "x11-user"
  <2>1. /\ mdisplays' = rest /\ display' = left
        /\ exitCode' = IF mdisplays'[s] = <<>> THEN 12 ELSE exitCode
        /\ UNCHANGED active
    BY <1>8 DEF DisplayServerFailed
  <2>2. MayFailBehind \/ Len(mdisplays[s]) = 1
    BY <1>8 DEF DisplayServerFailed
  <2> HIDE DEF rest, left, s
  <2>3. SeatTypeOK'
    BY <2>1, <1>1, <1>3, <1>5, <1>6 DEF SeatTypeOK, Sound
  <2>4. exitCode' = None => mdisplays'[s] # <<>>
    BY <2>1, SeatAssumption
  <2>5. Kept
    BY <2>1, <2>3, <2>4, <1>1, <1>2, <1>5, <1>6 DEF Kept
  <2>6. ~MayFailBehind => exitCode' # None
    <3>1. rest[s] \in Seq(DisplayIds)
      BY <1>1
    <3>2. ~MayFailBehind => Len(rest[s]) = 0
      BY <2>2, <1>1
    <3>3. ~MayFailBehind => rest[s] = <<>>
      BY <3>1, <3>2
    <3> QED BY <2>4, <3>3, <2>1
  <2> QED BY <2>1, <2>5, <2>6, <1>4 DEF ShownStill, NoMistakes
<1> QED BY <1>7, <1>8

(* A step of a Seat, a call of SwitchToGreeter() included.                  *)
LEMMA SeatNextKeeps ==
  ASSUME SeatInv, SeatNext
  PROVE  Kept /\ ShownStill
<1>1. exitCode = None
  BY DEF SeatNext
<1>2. ASSUME NEW d \in DisplayIds, DisplayEvent(d) PROVE Kept /\ ShownStill
  BY <1>1, <1>2, RetryStartKeeps, GreeterOpensKeeps, TtyFailedKeeps, DisplayServerFailedKeeps,
     EndingKeeps, LoginKeeps, SessionStartsKeeps, SessionReusedKeeps DEF DisplayEvent
<1>3. ASSUME NEW kind \in ServerTypes, SetGreeterDisplayServer(kind) PROVE Kept /\ ShownStill
  BY <1>1, <1>3 DEF SetGreeterDisplayServer, Kept, ShownStill, SeatInv, TypeOK, SeatTypeOK
<1>4. ASSUME NEW vt \in VTs, UserSwitches(vt) PROVE Kept /\ ShownStill
  <2>1. UNCHANGED <<defaultServer, mdisplays, display, ttyFailures, exitCode>> /\ active' = vt
    BY <1>4 DEF UserSwitches
  <2>2. Shown(display', active')
    BY <1>4, <2>1 DEF UserSwitches, Shown
  <2> QED BY <1>1, <2>1, <2>2 DEF Kept, ShownStill, SeatInv, TypeOK, SeatTypeOK
<1> QED BY <1>2, <1>3, <1>4 DEF SeatNext

(* A display more, for a Seat that has some or for one that had none.       *)
LEMMA AddingKeeps ==
  ASSUME SeatInv, exitCode = None, NEW s \in SeatIds, Free(display) # {},
         CreateDisplay(mdisplays, display, s, defaultServer, active, None),
         UNCHANGED <<defaultServer, ttyFailures, exitCode>>
  PROVE  /\ SeatTypeOK' /\ Sound(mdisplays', display') /\ ttyFailures' <= MaxTtyFailures
         /\ mdisplays'[s] # <<>> /\ \A t \in SeatIds : t # s => mdisplays'[t] = mdisplays[t]
         /\ ~MayGiveUp /\ Whole(display) => Whole(display') /\ Shown(display', active')
<1>1. /\ active \in VTs /\ defaultServer \in ServerTypes /\ ttyFailures \in 0..MaxTtyFailures + 1
      /\ exitCode \in {None, 12, 23} /\ ttyFailures <= MaxTtyFailures
      /\ display \in [DisplayIds -> Display]
  BY DEF SeatInv, TypeOK, SeatTypeOK
<1>2. PICK e \in Free(display) : Created(mdisplays, display, s, e, active, None)
  BY <1>1, Creating
<1>3. /\ Sound(mdisplays', display') /\ active' \in VTs
      /\ mdisplays'[s] # <<>> /\ \A t \in SeatIds : t # s => mdisplays'[t] = mdisplays[t]
  BY <1>1, <1>2, CreatingKeepsLists DEF SeatInv
<1>4. ~MayGiveUp /\ Whole(display) => Whole(display') /\ Shown(display', active')
  BY <1>2, CreatingShows
<1> QED BY <1>1, <1>3, <1>4 DEF SeatTypeOK, Sound

-----------------------------------------------------------------------------
(* The steps of the manager                                                 *)

(* A Seat made: one that had no display has one.                            *)
LEMMA CreateSeatKeeps ==
  ASSUME SeatInv, exitCode = None, CreateSeat
  PROVE  /\ SeatTypeOK' /\ Sound(mdisplays', display') /\ ttyFailures' <= MaxTtyFailures
         /\ exitCode' = exitCode
         /\ mseat' \in SeatIds /\ ~Alive(mseat') /\ mdisplays'[mseat'] # <<>>
         /\ \A t \in SeatIds : t # mseat' => mdisplays'[t] = mdisplays[t]
         /\ seatObjects' = seatObjects + 1
         /\ ~MayGiveUp /\ Whole(display) => Whole(display') /\ Shown(display', active')
<1> DEFINE s == CHOOSE x \in SeatIds : ~Alive(x)
<1>1. /\ \E x \in SeatIds : ~Alive(x)
      /\ Free(display) # {}
      /\ mseat' = s
      /\ CreateDisplay(mdisplays, display, s, defaultServer, active, None)
      /\ seatObjects' = seatObjects + 1
      /\ UNCHANGED <<defaultServer, ttyFailures, exitCode>>
  BY DEF CreateSeat
<1>2. s \in SeatIds /\ ~Alive(s)
  BY <1>1
<1> HIDE DEF s
<1> QED BY <1>1, <1>2, AddingKeeps

(* A Seat deleted: its displays go with it.                                 *)
LEMMA RemoveSeatKeeps ==
  ASSUME SeatInv, exitCode = None, RemoveSeat
  PROVE  /\ SeatTypeOK' /\ Sound(mdisplays', display') /\ ttyFailures' <= MaxTtyFailures
         /\ exitCode' = exitCode
         /\ mseat' = None /\ seatObjects' \in Nat
         /\ mseat = None => UNCHANGED <<seatVars, seatObjects>>
         /\ mseat # None => /\ mdisplays'[mseat] = <<>> /\ seatObjects' \in 0..seatObjects - 1
                            /\ \A t \in SeatIds : t # mseat => mdisplays'[t] = mdisplays[t]
         /\ Whole(display) => Whole(display')
<1>1. /\ mseat \in SeatIds \cup {None} /\ seatObjects \in Nat /\ SeatTypeOK
      /\ Sound(mdisplays, display) /\ ttyFailures <= MaxTtyFailures
  BY DEF SeatInv, TypeOK
<1>2. CASE mseat = None
  <2>1. UNCHANGED <<seatVars, mseat, seatObjects>>
    BY <1>2 DEF RemoveSeat
  <2>2. SeatTypeOK' /\ Sound(mdisplays', display') /\ ttyFailures' <= MaxTtyFailures /\ exitCode' = exitCode
    BY <2>1, <1>1 DEF seatVars, SeatTypeOK
  <2>3. Whole(display) => Whole(display')
    BY <2>1 DEF seatVars
  <2> QED BY <2>1, <2>2, <2>3, <1>1, <1>2
<1>3. CASE mseat # None
  <2>1. SeatGone(mseat) /\ mseat' = None /\ seatObjects' \in 0..seatObjects - 1
    BY <1>3 DEF RemoveSeat
  <2>2. mseat \in SeatIds
    BY <1>1, <1>3
  <2> DEFINE Listed(d) == \E i \in DOMAIN mdisplays[mseat] : mdisplays[mseat][i] = d
  <2>3. /\ mdisplays' = [mdisplays EXCEPT ![mseat] = <<>>]
        /\ display' = [d \in DisplayIds |-> IF Listed(d) THEN Gone ELSE display[d]]
        /\ UNCHANGED <<defaultServer, ttyFailures, active, exitCode>>
    BY <2>1 DEF SeatGone
  <2> HIDE DEF Listed
  <2>4. /\ mdisplays \in [SeatIds -> Seq(DisplayIds)] /\ display \in [DisplayIds -> Display]
        /\ WellListed(mdisplays, display) /\ Placed(display)
    BY <1>1 DEF Sound
  <2>5. Gone \in Display /\ Gone.phase = "gone" /\ ~Gone.broken
    BY DEF Gone, Display
  <2>6. /\ mdisplays' \in [SeatIds -> Seq(DisplayIds)] /\ mdisplays'[mseat] = <<>>
        /\ \A t \in SeatIds : t # mseat => mdisplays'[t] = mdisplays[t]
    <3>1. <<>> \in Seq(DisplayIds)
      OBVIOUS
    <3> QED BY <3>1, <2>2, <2>3, <2>4
  <2>7. /\ display' \in [DisplayIds -> Display]
        /\ \A d \in DisplayIds : display'[d] = IF Listed(d) THEN Gone ELSE display[d]
    BY <2>3, <2>4, <2>5
  <2>8. WellListed(mdisplays', display')
    <3>1. ASSUME NEW t \in SeatIds, NEW i \in DOMAIN mdisplays'[t]
          PROVE  t # mseat /\ mdisplays'[t] = mdisplays[t] /\ mdisplays[t][i] \in DisplayIds
                 /\ ~Listed(mdisplays[t][i])
      <4>1. t # mseat
        BY <3>1, <2>6
      <4>2. mdisplays'[t] = mdisplays[t] /\ mdisplays[t] \in Seq(DisplayIds) /\ i \in DOMAIN mdisplays[t]
        BY <4>1, <2>4, <2>6
      <4>3. mdisplays[t][i] \in DisplayIds
        BY <4>2
      <4> QED BY <4>1, <4>2, <4>3, <2>2, <2>4 DEF WellListed, Listed
    <3>2. \A t \in SeatIds : \A i \in DOMAIN mdisplays'[t] : display'[mdisplays'[t][i]].phase # "gone"
      BY <3>1, <2>4, <2>7 DEF WellListed
    <3>3. ASSUME NEW x \in DisplayIds, display'[x].phase # "gone"
          PROVE  \E t \in SeatIds : \E i \in DOMAIN mdisplays'[t] : mdisplays'[t][i] = x
      <4>1. ~Listed(x) /\ display[x].phase # "gone"
        BY <3>3, <2>5, <2>7
      <4>2. PICK t \in SeatIds : \E i \in DOMAIN mdisplays[t] : mdisplays[t][i] = x
        BY <4>1, <2>4 DEF WellListed
      <4>3. t # mseat
        BY <4>1, <4>2 DEF Listed
      <4> QED BY <4>2, <4>3, <2>6
    <3>4. ASSUME NEW t \in SeatIds, NEW u \in SeatIds, NEW i \in DOMAIN mdisplays'[t],
                 NEW j \in DOMAIN mdisplays'[u], mdisplays'[t][i] = mdisplays'[u][j]
          PROVE  t = u /\ i = j
      <4>1. mdisplays'[t] = mdisplays[t] /\ mdisplays'[u] = mdisplays[u]
        BY <3>1, <3>4
      <4> QED BY <4>1, <3>4, <2>4 DEF WellListed
    <3> QED BY <3>2, <3>3, <3>4 DEF WellListed
  <2>9. Placed(display')
    <3>1. ASSUME NEW d \in DisplayIds
          PROVE  /\ display'[d].phase # "gone" => display'[d].vt \in VTs
                 /\ display'[d].phase \in {"login", "session"} => display'[d].sessionVt \in VTs
      <4>1. CASE Listed(d)
        BY <4>1, <2>5, <2>7
      <4>2. CASE ~Listed(d)
        BY <4>2, <2>4, <2>7 DEF Placed
      <4> QED BY <4>1, <4>2
    <3> QED BY <3>1 DEF Placed
  <2>10. Whole(display) => Whole(display')
    BY <2>5, <2>7 DEF Whole
  <2>11. SeatTypeOK' /\ Sound(mdisplays', display') /\ ttyFailures' <= MaxTtyFailures /\ exitCode' = exitCode
    BY <1>1, <2>3, <2>6, <2>7, <2>8, <2>9 DEF SeatTypeOK, Sound
  <2> QED BY <1>1, <1>3, <2>1, <2>6, <2>10, <2>11
<1> QED BY <1>2, <1>3

(* What must hold of the foreground, with what it takes to keep it.         *)
ForegroundInv == Whole(display) /\ (mseat # None /\ exitCode = None => Shown(display, active))

LEMMA CanGraphicalKeeps ==
  ASSUME SeatInv, exitCode = None, NEW value, CanGraphicalChanged(value)
  PROVE  /\ SeatTypeOK' /\ Sound(mdisplays', display') /\ ttyFailures' <= MaxTtyFailures
         /\ exitCode' = exitCode /\ mseat' \in SeatIds \cup {None} /\ seatObjects' \in Nat
         /\ ~MayGiveUp /\ ForegroundInv => ForegroundInv'
<1>1. CASE CreateSeat
  <2>1. seatObjects + 1 \in Nat
    BY DEF SeatInv, TypeOK
  <2> QED BY <1>1, <2>1, CreateSeatKeeps DEF ForegroundInv
<1>2. CASE RemoveSeat
  BY <1>2, RemoveSeatKeeps DEF ForegroundInv
<1> QED BY <1>1, <1>2 DEF CanGraphicalChanged

(* The message read is one of the messages, and the rest are messages too.  *)
LEMMA HeadIsMessage ==
  ASSUME bus \in Seq(Message), bus # <<>>
  PROVE  Head(bus) \in Message /\ Tail(bus) \in Seq(Message)
OBVIOUS

LEMMA MessageTypes ==
  ASSUME NEW m \in Message
  PROVE  /\ m.type \in {"Get", "CanGraphical"} => m.watcher \in Watchers /\ m.value \in BOOLEAN
         /\ m.type = "Seats" => m.value \in BOOLEAN
         /\ m.type \in {"Get", "CanGraphical", "Seats", "SeatNew", "SeatRemoved"}
BY DEF Message

LEMMA ReadingKeeps ==
  ASSUME SeatInv, DaemonReads
  PROVE  SeatInv' /\ (~MayGiveUp /\ ForegroundInv => ForegroundInv')
<1> DEFINE m == Head(bus)
<1>1. /\ exitCode = None /\ bus # <<>> /\ bus' = Tail(bus) /\ UNCHANGED logindSeat
      /\ ReadSeats(m) \/ ReadSeatNew(m) \/ ReadSeatRemoved(m) \/ ReadGet(m) \/ ReadCanGraphical(m)
  BY DEF DaemonReads
<1>2. TypeOK /\ Sound(mdisplays, display) /\ ttyFailures <= MaxTtyFailures
  BY <1>1 DEF SeatInv
<1>3. m \in Message /\ bus' \in Seq(Message)
  BY <1>1, <1>2, HeadIsMessage DEF TypeOK
<1> HIDE DEF m
<1> DEFINE SeatPart == /\ SeatTypeOK' /\ Sound(mdisplays', display') /\ ttyFailures' <= MaxTtyFailures
                       /\ exitCode' = exitCode /\ mseat' \in SeatIds \cup {None} /\ seatObjects' \in Nat
                       /\ ~MayGiveUp /\ ForegroundInv => ForegroundInv'
           RestPart == /\ listing' \in BOOLEAN /\ getCalls' \subseteq Watchers
                       /\ systemSeat' \in Watchers \cup {None}
                       /\ watcher' \in [Watchers -> {"none", "no", "yes"}]
<1>4. ASSUME UNCHANGED <<seatVars, mseat, seatObjects>> PROVE SeatPart
  BY <1>2, <1>4 DEF seatVars, TypeOK, SeatTypeOK, ForegroundInv
<1>5. ASSUME NEW value, CanGraphicalChanged(value) PROVE SeatPart
  BY <1>1, <1>5, CanGraphicalKeeps
<1>6. ASSUME LogindSeatAdded PROVE SeatPart /\ (listing' \in BOOLEAN => RestPart)
  <2>1. SeatPart
    BY <1>4, <1>6 DEF LogindSeatAdded
  <2> QED BY <2>1, <1>2, <1>6 DEF LogindSeatAdded, TypeOK
<1>7. ASSUME ReadSeats(m) PROVE SeatPart /\ RestPart
  <2>1. CASE m.value
    BY <1>6, <1>7, <2>1 DEF ReadSeats
  <2>2. CASE ~m.value
    <3>1. UNCHANGED <<seatVars, managerVars, getCalls>> /\ listing' = FALSE
      BY <1>7, <2>2 DEF ReadSeats
    <3>2. SeatPart
      BY <3>1, <1>4 DEF managerVars
    <3> QED BY <3>1, <3>2, <1>2 DEF TypeOK, managerVars
  <2> QED BY <2>1, <2>2
<1>8. ASSUME ReadSeatNew(m) PROVE SeatPart /\ RestPart
  BY <1>2, <1>6, <1>8 DEF ReadSeatNew, TypeOK
<1>9. ASSUME ReadSeatRemoved(m) PROVE SeatPart /\ RestPart
  <2>1. LogindSeatRemoved /\ UNCHANGED listing
    BY <1>9 DEF ReadSeatRemoved
  <2>2. SeatPart
    BY <2>1, <1>1, RemoveSeatKeeps DEF LogindSeatRemoved, ForegroundInv
  <2>3. RestPart
    BY <2>1, <1>2 DEF LogindSeatRemoved, TypeOK
  <2> QED BY <2>2, <2>3
<1>10. ASSUME NEW w \in Watchers, NEW value,
              watcher' = [watcher EXCEPT ![w] = IF value THEN "yes" ELSE "no"]
       PROVE  watcher' \in [Watchers -> {"none", "no", "yes"}]
  BY <1>2, <1>10 DEF TypeOK
<1>11. ASSUME ReadGet(m) PROVE SeatPart /\ RestPart
  <2>1. CanGraphicalReply(m.watcher, m.value) /\ UNCHANGED <<listing, getCalls, systemSeat>>
        /\ m.watcher \in Watchers
    BY <1>3, <1>11, MessageTypes DEF ReadGet
  <2>2. \/ /\ watcher' = [watcher EXCEPT ![m.watcher] = IF m.value THEN "yes" ELSE "no"]
           /\ CanGraphicalChanged(m.value)
        \/ UNCHANGED <<seatVars, watcher, mseat, seatObjects>>
    BY <2>1 DEF CanGraphicalReply
  <2>3. SeatPart
    BY <2>2, <1>4, <1>5
  <2>4. RestPart
    BY <2>1, <2>2, <1>2, <1>10 DEF TypeOK
  <2> QED BY <2>3, <2>4
<1>12. ASSUME ReadCanGraphical(m) PROVE SeatPart /\ RestPart
  <2> DEFINE w == IF LateReading THEN systemSeat ELSE m.watcher
  <2>1. /\ IF w = None \/ watcher[w] = "none"
           THEN UNCHANGED <<seatVars, watcher, mseat, seatObjects>>
           ELSE PropertiesChanged(w, m.value)
        /\ UNCHANGED <<listing, getCalls, systemSeat>>
        /\ w \in Watchers \cup {None}
    BY <1>2, <1>3, <1>12, MessageTypes DEF ReadCanGraphical, TypeOK
  <2> HIDE DEF w
  <2>2. \/ /\ w \in Watchers
           /\ watcher' = [watcher EXCEPT ![w] = IF m.value THEN "yes" ELSE "no"]
           /\ CanGraphicalChanged(m.value)
        \/ UNCHANGED <<seatVars, watcher, mseat, seatObjects>>
    BY <2>1 DEF PropertiesChanged
  <2>3. SeatPart
    BY <2>2, <1>4, <1>5
  <2>4. RestPart
    BY <2>1, <2>2, <1>2, <1>10 DEF TypeOK
  <2> QED BY <2>3, <2>4
<1>13. SeatPart /\ RestPart
  BY <1>1, <1>7, <1>8, <1>9, <1>11, <1>12
<1>14. TypeOK'
  BY <1>1, <1>2, <1>3, <1>13 DEF TypeOK
<1> QED BY <1>13, <1>14 DEF SeatInv

LEMMA LogindKeeps ==
  ASSUME SeatInv, LogindStep
  PROVE  SeatInv' /\ (ForegroundInv => ForegroundInv')
<1>1. UNCHANGED <<seatVars, managerVars, listing>>
  BY DEF LogindStep, LogindLists, LogindAnswers, LogindChanges
<1>2. TypeOK /\ bus \in Seq(Message)
  BY DEF SeatInv, TypeOK
<1>3. logindSeat' \in {"absent", "text", "graphical"} /\ getCalls' \subseteq Watchers
  BY <1>2 DEF LogindStep, LogindLists, LogindAnswers, LogindChanges, TypeOK
<1>4. ASSUME NEW v \in BOOLEAN, NEW w \in Watchers
      PROVE  /\ [type |-> "Seats", value |-> v] \in Message
             /\ [type |-> "Get", watcher |-> w, value |-> v] \in Message
             /\ [type |-> "CanGraphical", watcher |-> w, value |-> v] \in Message
             /\ [type |-> "SeatNew"] \in Message
             /\ [type |-> "SeatRemoved"] \in Message
  BY DEF Message
<1>5. ASSUME NEW msg \in Message, Sends(msg) PROVE bus' \in Seq(Message)
  BY <1>2, <1>5 DEF Sends
<1>6. bus' \in Seq(Message)
  <2>1. CASE LogindLists
    BY <2>1, <1>5 DEF LogindLists, Message
  <2>2. ASSUME NEW w \in Watchers, LogindAnswers(w) PROVE bus' \in Seq(Message)
    BY <2>2, <1>2, <1>4, <1>5 DEF LogindAnswers
  <2>3. ASSUME NEW new \in {"absent", "text", "graphical"}, LogindChanges(new)
        PROVE  bus' \in Seq(Message)
    <3>1. systemSeat \in Watchers \cup {None}
      BY <1>2 DEF TypeOK
    <3>2. \/ Sends([type |-> "SeatNew"]) \/ Sends([type |-> "SeatRemoved"])
          \/ systemSeat # None
             /\ Sends([type |-> "CanGraphical", watcher |-> systemSeat, value |-> new = "graphical"])
          \/ UNCHANGED bus
      BY <2>3 DEF LogindChanges
    <3>3. [type |-> "SeatNew"] \in Message /\ [type |-> "SeatRemoved"] \in Message
      BY DEF Message
    <3>4. CASE systemSeat # None
               /\ Sends([type |-> "CanGraphical", watcher |-> systemSeat, value |-> new = "graphical"])
      BY <3>1, <3>4, <1>4, <1>5
    <3> QED BY <3>2, <3>3, <3>4, <1>2, <1>5
  <2> QED BY <2>1, <2>2, <2>3 DEF LogindStep
<1>7. TypeOK'
  BY <1>1, <1>2, <1>3, <1>6 DEF TypeOK, SeatTypeOK, seatVars, managerVars
<1> QED BY <1>1, <1>7 DEF SeatInv, seatVars, managerVars, ForegroundInv

LEMMA SeatStepKeeps ==
  ASSUME SeatInv, SeatStep
  PROVE  /\ SeatInv' /\ (NoMistakes /\ ForegroundInv => ForegroundInv')
         /\ exitCode' = None => \A s \in SeatIds : s # mseat \/ Alive(s) => (Alive(s)' <=> Alive(s))
<1>1. UNCHANGED <<logindVars, managerVars>>
  BY DEF SeatStep
<1>2. CASE SeatNext
  <2>1. Kept /\ ShownStill /\ exitCode = None
    BY <1>2, SeatNextKeeps DEF SeatNext
  <2>2. SeatInv'
    BY <1>1, <2>1 DEF SeatInv, Kept, TypeOK, logindVars, managerVars
  <2>3. NoMistakes /\ ForegroundInv => ForegroundInv'
    <3>1. SUFFICES ASSUME NoMistakes, ForegroundInv PROVE ForegroundInv'
      OBVIOUS
    <3>2. mseat' = mseat /\ Whole(display) /\ (mseat # None => Shown(display, active))
      BY <1>1, <2>1, <3>1 DEF ForegroundInv, managerVars
    <3>3. Whole(display') /\ (Shown(display, active) /\ exitCode' = None => Shown(display', active'))
      BY <2>1, <3>1, <3>2 DEF ShownStill
    <3> QED BY <3>2, <3>3 DEF ForegroundInv
  <2> QED BY <2>1, <2>2, <2>3 DEF Kept, Alive
<1>3. CASE exitCode = None /\ mseat # None /\ SwitchToGreeter(mseat)
  <2>1. /\ mseat \in SeatIds /\ Free(display) # {}
        /\ CreateDisplay(mdisplays, display, mseat, defaultServer, active, None)
        /\ UNCHANGED <<defaultServer, ttyFailures, exitCode>>
    BY <1>3 DEF SwitchToGreeter, SeatInv, TypeOK
  <2>2. /\ SeatTypeOK' /\ Sound(mdisplays', display') /\ ttyFailures' <= MaxTtyFailures
        /\ mdisplays'[mseat] # <<>> /\ \A t \in SeatIds : t # mseat => mdisplays'[t] = mdisplays[t]
        /\ ~MayGiveUp /\ Whole(display) => Whole(display') /\ Shown(display', active')
    BY <1>3, <2>1, AddingKeeps
  <2>3. SeatInv'
    BY <1>1, <2>2 DEF SeatInv, TypeOK, logindVars, managerVars
  <2>4. ~MayGiveUp /\ ForegroundInv => ForegroundInv'
    BY <2>2 DEF ForegroundInv
  <2>5. \A s \in SeatIds : s # mseat \/ Alive(s) => (Alive(s)' <=> Alive(s))
    BY <2>2 DEF Alive
  <2> QED BY <2>3, <2>4, <2>5 DEF NoMistakes
<1> QED BY <1>2, <1>3 DEF SeatStep

(* Types and lists are right in every reachable state.                      *)
LEMMA InitSeatInv == Init => SeatInv /\ ForegroundInv
<1> SUFFICES ASSUME Init PROVE SeatInv /\ ForegroundInv
  OBVIOUS
<1>1. <<>> \in Seq(DisplayIds) /\ <<>> \in Seq(Message)
  OBVIOUS
<1>2. Gone \in Display /\ Gone.phase = "gone" /\ ~Gone.broken
  BY DEF Gone, Display
<1>3. TypeOK
  BY <1>1, <1>2, SeatAssumption DEF Init, SeatInit, TypeOK, SeatTypeOK
<1>4. Sound(mdisplays, display) /\ Whole(display)
  BY <1>1, <1>2 DEF Init, SeatInit, Sound, WellListed, Placed, Whole
<1>5. ttyFailures <= MaxTtyFailures /\ mseat = None
  BY SeatAssumption DEF Init, SeatInit
<1> QED BY <1>3, <1>4, <1>5 DEF SeatInv, ForegroundInv

LEMMA StepSeatInv ==
  ASSUME SeatInv, [Next]_vars
  PROVE  SeatInv' /\ (NoMistakes /\ ForegroundInv => ForegroundInv')
<1>1. CASE SeatStep
  BY <1>1, SeatStepKeeps
<1>2. CASE LogindStep
  BY <1>2, LogindKeeps
<1>3. CASE DaemonReads
  BY <1>3, ReadingKeeps DEF NoMistakes
<1>4. CASE UNCHANGED vars
  <2>1. TypeOK'
    BY <1>4 DEF vars, seatVars, logindVars, managerVars, SeatInv, TypeOK, SeatTypeOK
  <2> QED BY <1>4, <2>1 DEF vars, seatVars, managerVars, SeatInv, ForegroundInv
<1> QED BY <1>1, <1>2, <1>3, <1>4 DEF Next

(* Every reachable state of the seats is well typed, for any number of      *)
(* displays, terminals and messages, and whatever fails.                    *)
THEOREM SeatTypesCorrect == Spec => []TypeOK
<1>1. SeatInv => TypeOK
  BY DEF SeatInv
<1> QED BY <1>1, InitSeatInv, StepSeatInv, PTL DEF Spec

(* Something is shown in the foreground, or soon will be, as long as there  *)
(* is a seat: with no X server that fails three times in a row, no display  *)
(* that fails behind another, and none that leaves a login in front.        *)
THEOREM ForegroundNeverBlack == ASSUME NoMistakes PROVE Spec => []NeverBlack
<1>1. ForegroundInv => NeverBlack
  BY DEF ForegroundInv, NeverBlack, Shown, In
<1>2. Init => SeatInv /\ ForegroundInv
  BY InitSeatInv
<1>3. SeatInv /\ ForegroundInv /\ [Next]_vars => (SeatInv /\ ForegroundInv)'
  BY StepSeatInv, NoMistakes
<1> QED BY <1>1, <1>2, <1>3, PTL DEF Spec

-----------------------------------------------------------------------------
(* The seat of logind                                                       *)

(* logind sends one more message, and says by it what happened.             *)
LEMMA SendingKeepsHistory ==
  ASSUME bus \in Seq(Message), logindSeat' \in LogindStates, NEW h \in Histories, History(h),
         NEW m \in Message, Sends(m), Told(systemSeat, logindSeat, m, logindSeat'),
         UNCHANGED <<systemSeat, watcher>>, Answered' => Answered
  PROVE  \E g \in Histories' : History(g)'
<1>n. PICK n \in Nat : n = Len(bus) + 1
  OBVIOUS
<1>x. PICK x \in LogindStates : logindSeat' = x
  OBVIOUS
<1>1. /\ n > 0 /\ Len(bus') = n
      /\ \A i \in 1..Len(bus) : bus'[i] = bus[i]
      /\ bus'[n] = m
  BY <1>n DEF Sends
<1>2. h \in [1..n -> LogindStates] /\ h[n] = logindSeat
  BY <1>n DEF Histories, History
<1>3. PICK g \in [1..n + 1 -> LogindStates] : /\ \A i \in 1..n : g[i] = h[i]
                                           /\ g[n + 1] = x
  <2> DEFINE g == [i \in 1..n + 1 |-> IF i <= n THEN h[i] ELSE x]
  <2>1. g \in [1..n + 1 -> LogindStates] /\ g[n + 1] = x /\ \A i \in 1..n : g[i] = h[i]
    BY <1>1, <1>2
  <2> QED BY <2>1
<1>4. ASSUME NEW i \in 1..n PROVE Told(systemSeat, g[i], bus'[i], g[i + 1])
  <2>1. CASE i = n
    BY <2>1, <1>x, <1>1, <1>2, <1>3
  <2>2. CASE i # n
    <3>1. i \in 1..Len(bus) /\ i \in 1..n /\ i + 1 \in 1..n
      BY <2>2, <1>n, <1>1
    <3>2. Told(systemSeat, h[i], bus[i], h[i + 1])
      BY <3>1 DEF History
    <3> QED BY <3>1, <3>2, <1>1, <1>3
  <2> QED BY <2>1, <2>2
<1>5. (\A i \in 1..n + 1 : g[i] # "absent") => \A i \in 1..n : h[i] # "absent"
  BY <1>3
<1>6. g[1] = h[1]
  BY <1>1, <1>3
<1>7. /\ systemSeat = None <=> g[1] = "absent"
      /\ systemSeat # None /\ watcher[systemSeat] = "yes" => g[1] = "graphical"
      /\ systemSeat # None /\ Answered /\ (\A i \in 1..n + 1 : g[i] # "absent")
           => (g[1] = "graphical" => watcher[systemSeat] = "yes")
  BY <1>n, <1>5, <1>6 DEF History
<1>8. systemSeat' # None /\ Answered' /\ (\A i \in 1..n + 1 : g[i] # "absent")
        => (g[1] = "graphical" => watcher'[systemSeat'] = "yes")
  BY <1>7
<1>9. History(g)'
  BY <1>x, <1>1, <1>3, <1>4, <1>7, <1>8 DEF History
<1>10. g \in Histories'
  BY <1>1, <1>3 DEF Histories
<1> QED BY <1>9, <1>10

(* The daemon reads the first message: what the others told is still true.  *)
LEMMA RestOfHistory ==
  ASSUME bus \in Seq(Message), bus # <<>>, bus' = Tail(bus), UNCHANGED logindSeat,
         NEW h \in Histories, History(h)
  PROVE  /\ Len(bus') \in Nat
         /\ Told(systemSeat, h[1], Head(bus), h[2])
         /\ h[1] \in LogindStates /\ h[2] \in LogindStates
         /\ \E t \in [1..Len(bus') + 1 -> LogindStates] :
              /\ t[1] = h[2] /\ t[Len(bus') + 1] = logindSeat
              /\ \A i \in 1..Len(bus') : Told(systemSeat, t[i], bus'[i], t[i + 1])
              /\ (\A i \in 1..Len(bus') + 1 : t[i] # "absent") /\ h[1] # "absent"
                   => \A i \in 1..Len(bus) + 1 : h[i] # "absent"
<1>n. PICK n \in Nat : n = Len(bus')
  OBVIOUS
<1>1. /\ Len(bus) = n + 1
      /\ bus[1] = Head(bus)
      /\ \A i \in 1..n : i + 1 \in 1..n + 1 /\ bus'[i] = bus[i + 1]
  BY <1>n
<1>2. h \in [1..n + 2 -> LogindStates] /\ h[n + 2] = logindSeat
  BY <1>1 DEF Histories, History
<1>3. \A i \in 1..n + 1 : Told(systemSeat, h[i], bus[i], h[i + 1])
  BY <1>1 DEF History
<1> DEFINE t == [i \in 1..n + 1 |-> h[i + 1]]
<1>4. t \in [1..n + 1 -> LogindStates] /\ \A i \in 1..n + 1 : t[i] = h[i + 1]
  BY <1>2
<1>5. t[1] = h[2] /\ t[n + 1] = logindSeat
  BY <1>2
<1> HIDE DEF t
<1>6. ASSUME NEW i \in 1..n PROVE Told(systemSeat, t[i], bus'[i], t[i + 1])
  <2>1. i \in 1..n + 1 /\ i + 1 \in 1..n + 1 /\ bus'[i] = bus[i + 1]
    BY <1>1
  <2> QED BY <2>1, <1>3, <1>4
<1>7. ASSUME \A i \in 1..n + 1 : t[i] # "absent", h[1] # "absent"
      PROVE  \A i \in 1..n + 2 : h[i] # "absent"
  <2>1. TAKE i \in 1..n + 2
  <2>2. CASE i # 1
    <3>1. i - 1 \in 1..n + 1 /\ (i - 1) + 1 = i
      BY <2>2
    <3> QED BY <3>1, <1>4, <1>7
  <2> QED BY <2>2, <1>7
<1>8. Told(systemSeat, h[1], Head(bus), h[2]) /\ h[1] \in LogindStates /\ h[2] \in LogindStates
  BY <1>1, <1>2, <1>3
<1>9. n + 2 = Len(bus) + 1
  BY <1>1
<1> QED BY <1>n, <1>4, <1>5, <1>6, <1>7, <1>8, <1>9

(* With nobody who listens, any way the seat may have gone will do, as long *)
(* as it was there when it was.                                             *)
Flat(a, x) == IF a = "absent" THEN "absent" ELSE x
LEMMA ToldNobody ==
  ASSUME NEW w, NEW a \in LogindStates, NEW b \in LogindStates, NEW m \in Message,
         Told(w, a, m, b), NEW x \in {"text", "graphical"}
  PROVE  /\ Told(None, Flat(a, x), m, Flat(b, x))
         /\ Flat(a, x) \in LogindStates /\ (Flat(a, x) = "absent" <=> a = "absent")
<1>1. m.type \in {"Get", "CanGraphical"} => m.watcher # None
  BY MessageTypes, SeatManagerAssumption
<1>2. \A v : Shows(v) # "absent"
  BY DEF Shows
<1>3. x # "absent" /\ x \in LogindStates /\ "absent" \in LogindStates
  BY DEF LogindStates
<1>4. a = "absent" <=> Flat(a, x) = "absent"
  BY <1>3 DEF Flat
<1>5. b = "absent" <=> Flat(b, x) = "absent"
  BY <1>3 DEF Flat
<1>6. a # "absent" /\ b # "absent" => Flat(a, x) = Flat(b, x)
  BY DEF Flat
<1>7. Flat(a, x) \in LogindStates
  BY <1>3 DEF Flat
<1> QED BY <1>1, <1>2, <1>4, <1>5, <1>6, <1>7 DEF Told

LEMMA SendsToOthers ==
  ASSUME bus \in Seq(Message), NEW m, Sends(m), getCalls' = getCalls, systemSeat' = systemSeat
  PROVE  Answered' => Answered
<1>1. /\ Len(bus) \in Nat /\ DOMAIN bus = 1..Len(bus) /\ DOMAIN bus' = 1..Len(bus) + 1
      /\ \A i \in 1..Len(bus) : bus'[i] = bus[i]
  BY DEF Sends
<1> QED BY <1>1 DEF Answered

(* What logind does, the messages under way tell.                           *)
LEMMA LogindIsTold ==
  ASSUME SeatInv, ManagerInv, BusInv, LogindStep
  PROVE  (ManagerInv /\ BusInv)'
<1>1. UNCHANGED <<seatVars, managerVars, listing>>
  BY DEF LogindStep, LogindLists, LogindAnswers, LogindChanges
<1>2. /\ bus \in Seq(Message) /\ systemSeat \in Watchers \cup {None} /\ getCalls \subseteq Watchers
      /\ logindSeat \in LogindStates
  BY DEF SeatInv, TypeOK, LogindStates
<1>3. ManagerInv'
  <2>1. getCalls' \subseteq getCalls
    BY DEF LogindStep, LogindLists, LogindAnswers, LogindChanges
  <2> QED BY <1>1, <2>1 DEF ManagerInv, Alive, seatVars, managerVars
<1>4. /\ systemSeat' = systemSeat /\ watcher' = watcher /\ listing' = listing
  BY <1>1 DEF managerVars
<1>5. CASE LogindLists
  <2>1. listing /\ \A i \in DOMAIN bus : bus[i].type # "Seats"
    BY <1>5 DEF LogindLists
  <2>2. bus # <<[type |-> "Seats", value |-> logindSeat # "absent"]>>
    <3>1. ASSUME bus = <<[type |-> "Seats", value |-> logindSeat # "absent"]>> PROVE FALSE
      <4>1. 1 \in DOMAIN bus /\ bus[1].type = "Seats"
        BY <3>1
      <4> QED BY <2>1, <4>1
    <3> QED BY <3>1
  <2>3. systemSeat = None /\ bus = <<>>
    BY <2>1, <2>2 DEF BusInv
  <2>4. /\ bus' = <<[type |-> "Seats", value |-> logindSeat # "absent"]>>
        /\ logindSeat' = logindSeat
    BY <2>3, <1>5 DEF LogindLists, Sends
  <2> QED BY <2>1, <2>3, <2>4, <1>3, <1>4 DEF BusInv
<1>6. ASSUME NEW w \in Watchers, LogindAnswers(w) PROVE BusInv'
  <2>1. w = systemSeat /\ systemSeat # None /\ getCalls' = getCalls \ {w} /\ logindSeat' = logindSeat
    BY <1>6, SeatManagerAssumption DEF LogindAnswers, ManagerInv
  <2>2. ~listing
    BY <2>1 DEF BusInv
  <2>3. PICK h \in Histories : History(h)
    BY <2>2 DEF BusInv
  <2>4. CASE logindSeat = "absent"
    <3>1. bus' = bus
      BY <2>4, <1>6 DEF LogindAnswers
    <3>2. Len(bus) \in Nat /\ h[Len(bus) + 1] = "absent" /\ Len(bus) + 1 \in 1..Len(bus) + 1
      BY <1>2, <2>3, <2>4 DEF History
    <3>3. ~(\A i \in 1..Len(bus) + 1 : h[i] # "absent")
      BY <3>2
    <3>4. History(h)'
      BY <2>1, <2>3, <3>1, <3>3, <1>4 DEF History
    <3>5. h \in Histories'
      BY <3>1 DEF Histories
    <3> QED BY <2>2, <3>4, <3>5, <1>4 DEF BusInv
  <2>5. CASE logindSeat # "absent"
    <3> DEFINE m == [type |-> "Get", watcher |-> w, value |-> logindSeat = "graphical"]
    <3>1. Sends(m) /\ m \in Message
      BY <2>5, <1>6 DEF LogindAnswers, Message
    <3>2. Told(systemSeat, logindSeat, m, logindSeat')
      <4>1. Shows(logindSeat = "graphical") = logindSeat
        BY <2>5, <1>2 DEF Shows, LogindStates
      <4> QED BY <4>1, <2>1, <2>5 DEF Told
    <3>3. ~Answered'
      <4>1. Len(bus) + 1 \in DOMAIN bus' /\ bus'[Len(bus) + 1] = m
        BY <3>1, <1>2 DEF Sends
      <4>2. m.type = "Get" /\ m.watcher = systemSeat'
        BY <2>1, <1>4
      <4> QED BY <4>1, <4>2 DEF Answered
    <3> HIDE DEF m
    <3>4. \E g \in Histories' : History(g)'
      BY <1>2, <1>4, <2>1, <2>3, <3>1, <3>2, <3>3, SendingKeepsHistory
    <3> QED BY <2>2, <3>4, <1>4 DEF BusInv
  <2> QED BY <2>4, <2>5
<1>7. ASSUME NEW new \in {"absent", "text", "graphical"}, LogindChanges(new) PROVE BusInv'
  <2>1. ~listing /\ new # logindSeat /\ logindSeat' = new /\ getCalls' = getCalls
    BY <1>7 DEF LogindChanges
  <2>2. PICK h \in Histories : History(h)
    BY <2>1 DEF BusInv
  <2>3. ASSUME NEW m \in Message, Sends(m), Told(systemSeat, logindSeat, m, logindSeat') PROVE BusInv'
    <3>1. Answered' => Answered
      BY <1>2, <1>4, <2>1, <2>3, SendsToOthers
    <3>2. logindSeat' \in LogindStates
      BY <2>1 DEF LogindStates
    <3>3. \E g \in Histories' : History(g)'
      BY <1>2, <1>4, <2>2, <2>3, <3>1, <3>2, SendingKeepsHistory
    <3> QED BY <2>1, <3>3, <1>4 DEF BusInv
  <2>4. CASE logindSeat = "absent"
    <3>1. Sends([type |-> "SeatNew"])
      BY <2>4, <1>7 DEF LogindChanges
    <3>2. [type |-> "SeatNew"] \in Message
      BY DEF Message
    <3>3. Told(systemSeat, logindSeat, [type |-> "SeatNew"], logindSeat')
      BY <2>1, <2>4 DEF Told
    <3> QED BY <2>3, <3>1, <3>2, <3>3
  <2>5. CASE logindSeat # "absent" /\ new = "absent"
    <3>1. Sends([type |-> "SeatRemoved"])
      BY <2>5, <1>7 DEF LogindChanges
    <3>2. [type |-> "SeatRemoved"] \in Message
      BY DEF Message
    <3>3. Told(systemSeat, logindSeat, [type |-> "SeatRemoved"], logindSeat')
      BY <2>1, <2>5 DEF Told
    <3> QED BY <2>3, <3>1, <3>2, <3>3
  <2>6. CASE logindSeat # "absent" /\ new # "absent" /\ systemSeat # None
    <3> DEFINE m == [type |-> "CanGraphical", watcher |-> systemSeat, value |-> new = "graphical"]
    <3>1. Sends(m)
      BY <2>6, <1>7 DEF LogindChanges
    <3>2. m \in Message
      BY <2>6, <1>2 DEF Message
    <3>3. Shows(new = "graphical") = new
      BY <2>6 DEF Shows
    <3>4. Told(systemSeat, logindSeat, m, logindSeat')
      BY <2>1, <2>6, <3>3 DEF Told
    <3> HIDE DEF m
    <3> QED BY <2>3, <3>1, <3>2, <3>4
  <2>7. CASE logindSeat # "absent" /\ new # "absent" /\ systemSeat = None
    <3>1. bus' = bus
      BY <2>7, <1>7 DEF LogindChanges
    <3>n. PICK n \in Nat : n = Len(bus)
      BY <1>2
    <3>2. h \in [1..n + 1 -> LogindStates] /\ bus \in [1..n -> Message]
      BY <3>n, <1>2 DEF Histories
    <3>3. new \in {"text", "graphical"} /\ \A i \in 1..n : Told(systemSeat, h[i], bus[i], h[i + 1])
      BY <2>2, <2>7, <3>n DEF History
    <3> DEFINE g == [i \in 1..n + 1 |-> Flat(h[i], new)]
    <3>8. "absent" \in LogindStates /\ new \in LogindStates
      BY <3>3 DEF LogindStates
    <3>9. g \in [1..n + 1 -> LogindStates]
      BY <3>8 DEF Flat
    <3>10. \A i \in 1..n + 1 : g[i] = Flat(h[i], new)
      OBVIOUS
    <3> HIDE DEF g
    <3>11. ASSUME NEW i \in 1..n PROVE Told(None, g[i], bus[i], g[i + 1])
      <4>1. i \in 1..n + 1 /\ i + 1 \in 1..n + 1
        OBVIOUS
      <4>2. h[i] \in LogindStates /\ h[i + 1] \in LogindStates /\ bus[i] \in Message
        BY <3>2, <4>1
      <4>3. Told(systemSeat, h[i], bus[i], h[i + 1])
        BY <3>3
      <4>4. Told(None, Flat(h[i], new), bus[i], Flat(h[i + 1], new))
        BY <3>3, <4>2, <4>3, ToldNobody
      <4> QED BY <3>10, <4>1, <4>4
    <3>4. /\ g \in [1..n + 1 -> LogindStates]
          /\ \A i \in 1..n + 1 : g[i] = Flat(h[i], new)
          /\ \A i \in 1..n : Told(None, g[i], bus[i], g[i + 1])
      BY <3>9, <3>10, <3>11
    <3>5. g[n + 1] = new /\ g[1] = "absent"
      BY <2>2, <2>7, <3>n, <3>4 DEF History, Flat
    <3>6. History(g)'
      BY <2>1, <2>7, <3>1, <3>n, <3>4, <3>5, <1>4 DEF History
    <3>7. g \in Histories'
      BY <3>1, <3>n, <3>4 DEF Histories
    <3> QED BY <2>1, <3>6, <3>7, <1>4 DEF BusInv
  <2> QED BY <2>4, <2>5, <2>6, <2>7
<1> QED BY <1>3, <1>5, <1>6, <1>7 DEF LogindStep

(* A LogindSeat tells of a change: the Seat is made or deleted by it.       *)
LEMMA ToldOfChange ==
  ASSUME SeatInv, ManagerInv, exitCode = None, systemSeat # None, NEW value \in BOOLEAN,
         value => watcher[systemSeat] # "yes", CanGraphicalChanged(value),
         watcher' = [watcher EXCEPT ![systemSeat] = IF value THEN "yes" ELSE "no"],
         UNCHANGED <<systemSeat, getCalls>>
  PROVE  ManagerInv'
<1>1. /\ systemSeat \in Watchers /\ watcher \in [Watchers -> {"none", "no", "yes"}]
      /\ mseat \in SeatIds \cup {None} /\ seatObjects \in Nat
  BY DEF SeatInv, TypeOK
<1>2. /\ watcher'[systemSeat] = IF value THEN "yes" ELSE "no"
      /\ \A w \in Watchers : w # systemSeat => watcher'[w] = watcher[w]
      /\ \A w \in Watchers : watcher'[w] # "none" <=> w = systemSeat
  BY <1>1 DEF ManagerInv
<1>3. getCalls' \subseteq {systemSeat'}
  BY DEF ManagerInv
<1>4. CASE value
  <2>1. mseat = None /\ seatObjects = 0 /\ \A s \in SeatIds : mdisplays[s] = <<>>
    BY <1>1, <1>4, SeatAssumption DEF ManagerInv, Alive
  <2>2. CreateSeat
    BY <1>4 DEF CanGraphicalChanged
  <2>3. /\ mseat' \in SeatIds /\ mdisplays'[mseat'] # <<>> /\ seatObjects' = seatObjects + 1
        /\ \A t \in SeatIds : t # mseat' => mdisplays'[t] = mdisplays[t]
    BY <2>2, CreateSeatKeeps
  <2>4. \A s \in SeatIds : Alive(s)' <=> s = mseat'
    BY <2>1, <2>3 DEF Alive
  <2>5. mseat' # None /\ seatObjects' = 1
    BY <2>1, <2>3, SeatAssumption
  <2>6. systemSeat' # None /\ watcher'[systemSeat'] = "yes"
    BY <1>2, <1>4
  <2>7. \A w \in Watchers : watcher'[w] # "none" <=> w = systemSeat'
    BY <1>2
  <2> QED BY <1>3, <2>4, <2>5, <2>6, <2>7 DEF ManagerInv
<1>5. CASE ~value
  <2>1. RemoveSeat
    BY <1>5 DEF CanGraphicalChanged
  <2>2. /\ mseat' = None
        /\ mseat = None => UNCHANGED <<seatVars, seatObjects>>
        /\ mseat # None => /\ mdisplays'[mseat] = <<>> /\ seatObjects' \in 0..seatObjects - 1
                           /\ \A t \in SeatIds : t # mseat => mdisplays'[t] = mdisplays[t]
    BY <2>1, RemoveSeatKeeps
  <2>3. \A s \in SeatIds : mdisplays'[s] = <<>>
    BY <2>2, <1>1, SeatAssumption DEF ManagerInv, Alive, seatVars
  <2>4. seatObjects' = 0
    BY <2>2, <1>1 DEF ManagerInv, seatVars
  <2>5. \A s \in SeatIds : Alive(s)' <=> s = mseat'
    BY <2>2, <2>3, SeatAssumption DEF Alive
  <2>6. watcher'[systemSeat'] # "yes"
    BY <1>2, <1>5
  <2>7. \A w \in Watchers : watcher'[w] # "none" <=> w = systemSeat'
    BY <1>2
  <2> QED BY <1>3, <2>2, <2>4, <2>5, <2>6, <2>7 DEF ManagerInv
<1> QED BY <1>4, <1>5

(* What a reader of the first message starts from: if it is not the list of *)
(* the seats, the rest of the history.                                      *)
LEMMA ReadingTold ==
  ASSUME SeatInv, ManagerInv, BusInv, bus # <<>>, bus' = Tail(bus), UNCHANGED logindSeat,
         Head(bus).type # "Seats"
  PROVE  /\ ~listing
         /\ \E h \in Histories : History(h)
<1>1. bus[1] = Head(bus)
  BY DEF SeatInv, TypeOK
<1>2. ASSUME bus = <<[type |-> "Seats", value |-> logindSeat # "absent"]>> PROVE FALSE
  <2>1. Head(bus).type = "Seats"
    BY <1>2
  <2> QED BY <2>1
<1> QED BY <1>2 DEF BusInv

LEMMA SeatsFollowed ==
  ASSUME SeatInv, ManagerInv, BusInv, bus # <<>>, bus' = Tail(bus), UNCHANGED logindSeat,
         ReadSeats(Head(bus))
  PROVE  (ManagerInv /\ BusInv)'
<1>1. /\ bus \in Seq(Message) /\ watcher \in [Watchers -> {"none", "no", "yes"}]
      /\ getCalls \subseteq Watchers /\ logindSeat \in LogindStates
  BY DEF SeatInv, TypeOK, LogindStates
<1>2. listing
  <2>1. ASSUME NEW h \in Histories, History(h) PROVE FALSE
    <3>1. Told(systemSeat, h[1], Head(bus), h[2])
      BY <1>1, <2>1, RestOfHistory
    <3> QED BY <3>1 DEF Told, ReadSeats
  <2> QED BY <2>1 DEF BusInv
<1>3. systemSeat = None /\ bus = <<[type |-> "Seats", value |-> logindSeat # "absent"]>>
  BY <1>2 DEF BusInv
<1>4. bus' = <<>> /\ Head(bus).value = (logindSeat # "absent")
  BY <1>3
<1>l. Len(bus') = 0
  <2>1. Len(<<>>) = 0
    OBVIOUS
  <2> QED BY <1>4, <2>1, Zenon
<1>5. mseat = None /\ getCalls = {} /\ \A w \in Watchers : watcher[w] = "none"
  BY <1>1, <1>3, SeatManagerAssumption DEF ManagerInv
<1>x. PICK x \in LogindStates : x = logindSeat
  BY <1>1
<1> DEFINE h == [i \in 1..1 |-> x]
<1>6. h \in [1..1 -> LogindStates] /\ h[1] = x
  OBVIOUS
<1> HIDE DEF h
<1>7. CASE logindSeat # "absent"
  <2>1. LogindSeatAdded
    BY <1>4, <1>7 DEF ReadSeats
  <2>2. PICK w \in Watchers :
          /\ watcher' = [watcher EXCEPT ![w] = "no"] /\ systemSeat' = w
          /\ getCalls' = getCalls \cup {w} /\ UNCHANGED <<seatVars, mseat, seatObjects>>
    BY <2>1 DEF LogindSeatAdded
  <2>3. w # None /\ watcher'[w] = "no" /\ \A v \in Watchers : watcher'[v] # "none" <=> v = w
    BY <1>1, <1>5, <2>2, SeatManagerAssumption
  <2>4. ManagerInv'
    BY <2>2, <2>3, <1>5 DEF ManagerInv, Alive, seatVars
  <2>6. h \in Histories' /\ History(h)'
    BY <2>2, <2>3, <1>l, <1>6, <1>x, <1>7 DEF Histories, History, Answered
  <2>7. ~listing'
    BY DEF ReadSeats
  <2> QED BY <2>4, <2>6, <2>7 DEF BusInv
<1>8. CASE logindSeat = "absent"
  <2>1. UNCHANGED <<seatVars, managerVars, getCalls>> /\ ~listing'
    BY <1>4, <1>8 DEF ReadSeats
  <2>2. ManagerInv'
    BY <2>1 DEF ManagerInv, Alive, seatVars, managerVars
  <2>4. h \in Histories' /\ History(h)'
    BY <2>1, <1>l, <1>3, <1>6, <1>x, <1>8 DEF Histories, History, managerVars
  <2> QED BY <2>1, <2>2, <2>4 DEF BusInv
<1> QED BY <1>7, <1>8

(* What the rest of the messages tells, when the LogindSeat stays.          *)
LEMMA RestStaysTold ==
  ASSUME bus \in Seq(Message), bus # <<>>, bus' = Tail(bus), UNCHANGED <<logindSeat, systemSeat>>,
         NEW h \in Histories, History(h), h[2] = "absent" <=> h[1] = "absent",
         \/ systemSeat # None => (watcher'[systemSeat] = "yes" <=> h[2] = "graphical")
         \/ h[1] = h[2] /\ watcher' = watcher /\ (Answered' => Answered)
  PROVE  \E g \in Histories' : History(g)'
<1>n. PICK n \in Nat : n = Len(bus')
  BY RestOfHistory
<1>1. PICK t \in [1..n + 1 -> LogindStates] :
        /\ t[1] = h[2] /\ t[n + 1] = logindSeat
        /\ \A i \in 1..n : Told(systemSeat, t[i], bus'[i], t[i + 1])
        /\ (\A i \in 1..n + 1 : t[i] # "absent") /\ h[1] # "absent" => \A i \in 1..Len(bus) + 1 : h[i] # "absent"
  BY <1>n, RestOfHistory
<1>2. /\ systemSeat = None <=> h[1] = "absent"
      /\ systemSeat # None /\ watcher[systemSeat] = "yes" => h[1] = "graphical"
      /\ systemSeat # None /\ Answered /\ (\A i \in 1..Len(bus) + 1 : h[i] # "absent")
           => (h[1] = "graphical" => watcher[systemSeat] = "yes")
  BY DEF History
<1>3. systemSeat = None <=> t[1] = "absent"
  BY <1>1, <1>2
<1>4. systemSeat # None /\ watcher'[systemSeat] = "yes" => t[1] = "graphical"
  BY <1>1, <1>2
<1>5. systemSeat # None /\ Answered' /\ (\A i \in 1..n + 1 : t[i] # "absent")
        => (t[1] = "graphical" => watcher'[systemSeat] = "yes")
  BY <1>1, <1>2
<1>6. History(t)'
  BY <1>n, <1>1, <1>3, <1>4, <1>5 DEF History
<1>7. t \in Histories'
  BY <1>n DEF Histories
<1> QED BY <1>6, <1>7

LEMMA ReadingForOthers ==
  ASSUME bus \in Seq(Message), bus # <<>>, bus' = Tail(bus), UNCHANGED <<getCalls, systemSeat>>,
         Head(bus).type = "Get" => Head(bus).watcher # systemSeat
  PROVE  Answered' => Answered
<1>n. PICK n \in Nat : n = Len(bus')
  OBVIOUS
<1>1. /\ DOMAIN bus = 1..n + 1 /\ DOMAIN bus' = 1..n /\ bus[1] = Head(bus)
      /\ \A i \in 1..n : bus'[i] = bus[i + 1]
  BY <1>n
<1>2. ASSUME Answered', NEW i \in 1..n + 1 PROVE ~(bus[i].type = "Get" /\ bus[i].watcher = systemSeat)
  <2>1. CASE i = 1
    BY <2>1, <1>1
  <2>2. CASE i # 1
    <3>1. i - 1 \in 1..n /\ bus'[i - 1] = bus[i]
      BY <2>2, <1>1
    <3> QED BY <3>1, <1>1, <1>2 DEF Answered
  <2> QED BY <2>1, <2>2
<1> QED BY <1>1, <1>2 DEF Answered

(* The answer to Get, or a change signalled, is read: by its LogindSeat if  *)
(* that is still there, and by nobody otherwise.                            *)
LEMMA ChangeFollowed ==
  ASSUME ~LateReading, SeatInv, ManagerInv, BusInv, exitCode = None, bus # <<>>, bus' = Tail(bus),
         UNCHANGED logindSeat, ReadGet(Head(bus)) \/ ReadCanGraphical(Head(bus))
  PROVE  (ManagerInv /\ BusInv)'
<1>1. /\ bus \in Seq(Message) /\ watcher \in [Watchers -> {"none", "no", "yes"}]
      /\ systemSeat \in Watchers \cup {None}
  BY DEF SeatInv, TypeOK
<1>m. PICK m \in Message : m = Head(bus)
  BY <1>1, HeadIsMessage
<1>2. /\ m.type = "Get" \/ m.type = "CanGraphical"
      /\ m.watcher \in Watchers /\ m.value \in BOOLEAN
      /\ UNCHANGED <<listing, getCalls, systemSeat>>
  BY <1>m, MessageTypes DEF ReadGet, ReadCanGraphical
<1>3. m.watcher # None /\ (watcher[m.watcher] # "none" <=> m.watcher = systemSeat)
  BY <1>2, SeatManagerAssumption DEF ManagerInv
<1>4. ~listing /\ \E h \in Histories : History(h)
  BY <1>m, <1>2, ReadingTold
<1>5. PICK h \in Histories : History(h)
  BY <1>4
<1>6. Told(systemSeat, h[1], m, h[2])
  BY <1>1, <1>5, <1>m, RestOfHistory
<1>7. h[1] # "absent" /\ h[2] # "absent"
  BY <1>2, <1>6 DEF Told, Shows
<1>8. CASE m.watcher # systemSeat
  <2>1. UNCHANGED <<seatVars, watcher, mseat, seatObjects>>
    BY <1>3, <1>8, <1>m DEF ReadGet, ReadCanGraphical, CanGraphicalReply
  <2>2. ManagerInv'
    BY <2>1, <1>2 DEF ManagerInv, Alive, seatVars
  <2>3. h[1] = h[2]
    BY <1>2, <1>6, <1>8 DEF Told
  <2>4. Answered' => Answered
    BY <1>1, <1>2, <1>8, <1>m, ReadingForOthers
  <2>5. \E g \in Histories' : History(g)'
    BY <1>1, <1>2, <1>5, <2>1, <2>3, <2>4, RestStaysTold
  <2> QED BY <1>2, <1>4, <2>2, <2>5 DEF BusInv
<1>9. CASE m.watcher = systemSeat
  <2>1. h[2] = Shows(m.value)
    BY <1>2, <1>6, <1>9 DEF Told
  <2>2. systemSeat # None /\ systemSeat \in Watchers
    BY <1>2, <1>3, <1>9
  <2>3. watcher'[systemSeat] = (IF m.value THEN "yes" ELSE "no") /\ ManagerInv'
    <3>1. CASE m.type = "Get" /\ m.value = (watcher[systemSeat] = "yes")
      <4>1. UNCHANGED <<seatVars, watcher, mseat, seatObjects>>
        BY <1>9, <3>1, <1>m, <1>2 DEF ReadGet, ReadCanGraphical, CanGraphicalReply
      <4>2. ManagerInv'
        BY <4>1, <1>2 DEF ManagerInv, Alive, seatVars
      <4>3. watcher[systemSeat] \in {"yes", "no"}
        BY <1>1, <1>3, <1>9, <2>2
      <4> QED BY <4>1, <4>2, <4>3, <3>1
    <3>2. CASE m.type # "Get" \/ m.value # (watcher[systemSeat] = "yes")
      <4>1. /\ watcher' = [watcher EXCEPT ![systemSeat] = IF m.value THEN "yes" ELSE "no"]
            /\ CanGraphicalChanged(m.value)
        BY <1>9, <3>2, <1>m, <1>2, <1>3, <2>2 DEF ReadGet, ReadCanGraphical, CanGraphicalReply, PropertiesChanged
      <4>2. m.value => watcher[systemSeat] # "yes"
        <5>1. CASE m.type = "Get"
          BY <5>1, <3>2
        <5>2. CASE m.type = "CanGraphical"
          <6>1. m.value => h[1] # "graphical"
            BY <1>6, <1>9, <5>2 DEF Told, Shows
          <6> QED BY <6>1, <1>5, <2>2 DEF History
        <5> QED BY <5>1, <5>2, <1>2
      <4>3. ManagerInv'
        BY <1>2, <2>2, <4>1, <4>2, ToldOfChange
      <4> QED BY <1>1, <2>2, <4>1, <4>3
    <3> QED BY <3>1, <3>2
  <2>4. watcher'[systemSeat] = "yes" <=> h[2] = "graphical"
    BY <2>1, <2>3 DEF Shows
  <2>5. \E g \in Histories' : History(g)'
    BY <1>1, <1>2, <1>5, <1>7, <2>4, RestStaysTold
  <2> QED BY <1>2, <1>4, <2>3, <2>5 DEF BusInv
<1> QED BY <1>8, <1>9

(* logind's seat is new: nothing under way is for the LogindSeat made.      *)
LEMMA SeatNewFollowed ==
  ASSUME SeatInv, ManagerInv, BusInv, bus # <<>>, bus' = Tail(bus), UNCHANGED logindSeat,
         ReadSeatNew(Head(bus))
  PROVE  (ManagerInv /\ BusInv)'
<1>1. /\ bus \in Seq(Message) /\ watcher \in [Watchers -> {"none", "no", "yes"}]
      /\ systemSeat \in Watchers \cup {None} /\ getCalls \subseteq Watchers
  BY DEF SeatInv, TypeOK
<1>m. Head(bus).type = "SeatNew" /\ LogindSeatAdded /\ UNCHANGED listing
  BY DEF ReadSeatNew
<1>2. ~listing /\ \E h \in Histories : History(h)
  BY <1>m, ReadingTold
<1>3. PICK h \in Histories : History(h)
  BY <1>2
<1>n. PICK n \in Nat : n = Len(bus')
  BY <1>1, <1>3, RestOfHistory
<1>4. PICK t \in [1..n + 1 -> LogindStates] :
        /\ t[1] = h[2] /\ t[n + 1] = logindSeat
        /\ \A i \in 1..n : Told(systemSeat, t[i], bus'[i], t[i + 1])
  BY <1>1, <1>3, <1>n, RestOfHistory
<1>5. Told(systemSeat, h[1], Head(bus), h[2])
  BY <1>1, <1>3, RestOfHistory
<1>6. h[1] = "absent" /\ t[1] # "absent"
  BY <1>4, <1>5, <1>m DEF Told
<1>7. systemSeat = None
  BY <1>3, <1>6 DEF History
<1>8. mseat = None /\ getCalls = {} /\ \A v \in Watchers : watcher[v] = "none"
  BY <1>1, <1>7, SeatManagerAssumption DEF ManagerInv
<1>9. PICK w \in Watchers :
        /\ \A i \in DOMAIN bus : bus[i].type \in {"Get", "CanGraphical"} => bus[i].watcher # w
        /\ watcher' = [watcher EXCEPT ![w] = "no"] /\ systemSeat' = w
        /\ getCalls' = getCalls \cup {w} /\ UNCHANGED <<seatVars, mseat, seatObjects>>
  BY <1>m DEF LogindSeatAdded
<1>10. w # None /\ watcher'[w] = "no" /\ \A v \in Watchers : watcher'[v] # "none" <=> v = w
  BY <1>1, <1>8, <1>9, SeatManagerAssumption
<1>11. ManagerInv'
  BY <1>8, <1>9, <1>10 DEF ManagerInv, Alive, seatVars
<1>12. ASSUME NEW i \in 1..n PROVE Told(w, t[i], bus'[i], t[i + 1])
  <2>1. bus'[i] = bus[i + 1] /\ i + 1 \in DOMAIN bus /\ bus[i + 1] \in Message
    BY <1>1, <1>n
  <2>2. bus'[i].type \in {"Get", "CanGraphical"} => bus'[i].watcher # w /\ bus'[i].watcher # None
    BY <2>1, <1>9, MessageTypes, SeatManagerAssumption
  <2>3. Told(None, t[i], bus'[i], t[i + 1])
    BY <1>4, <1>7
  <2> QED BY <2>2, <2>3 DEF Told
<1>13. ~Answered'
  BY <1>9 DEF Answered
<1>14. History(t)'
  BY <1>n, <1>4, <1>6, <1>9, <1>10, <1>12, <1>13 DEF History
<1>15. t \in Histories'
  BY <1>n DEF Histories
<1> QED BY <1>2, <1>m, <1>11, <1>14, <1>15 DEF BusInv

(* logind's seat is gone: what its LogindSeat was still to be told says no  *)
(* more than that there was a seat.                                         *)
LEMMA SeatRemovedFollowed ==
  ASSUME SeatInv, ManagerInv, BusInv, exitCode = None, bus # <<>>, bus' = Tail(bus), UNCHANGED logindSeat,
         ReadSeatRemoved(Head(bus))
  PROVE  (ManagerInv /\ BusInv)'
<1>1. /\ bus \in Seq(Message) /\ watcher \in [Watchers -> {"none", "no", "yes"}]
      /\ systemSeat \in Watchers \cup {None} /\ getCalls \subseteq Watchers
      /\ mseat \in SeatIds \cup {None} /\ seatObjects \in Nat /\ logindSeat \in LogindStates
  BY DEF SeatInv, TypeOK, LogindStates
<1>m. Head(bus).type = "SeatRemoved" /\ LogindSeatRemoved /\ UNCHANGED listing
  BY DEF ReadSeatRemoved
<1>2. ~listing /\ \E h \in Histories : History(h)
  BY <1>m, ReadingTold
<1>3. PICK h \in Histories : History(h)
  BY <1>2
<1>n. PICK n \in Nat : n = Len(bus')
  BY <1>1, <1>3, RestOfHistory
<1>4. PICK t \in [1..n + 1 -> LogindStates] :
        /\ t[1] = h[2] /\ t[n + 1] = logindSeat
        /\ \A i \in 1..n : Told(systemSeat, t[i], bus'[i], t[i + 1])
  BY <1>1, <1>3, <1>n, RestOfHistory
<1>5. Told(systemSeat, h[1], Head(bus), h[2])
  BY <1>1, <1>3, RestOfHistory
<1>6. h[1] # "absent" /\ t[1] = "absent"
  BY <1>4, <1>5, <1>m DEF Told
<1>7. systemSeat \in Watchers /\ systemSeat # None
  BY <1>1, <1>3, <1>6 DEF History
<1>8. /\ systemSeat' = None /\ watcher' = [watcher EXCEPT ![systemSeat] = "none"]
      /\ getCalls' = getCalls \ {systemSeat} /\ RemoveSeat
  BY <1>7, <1>m DEF LogindSeatRemoved
<1>9. /\ mseat' = None
      /\ mseat = None => UNCHANGED <<seatVars, seatObjects>>
      /\ mseat # None => /\ mdisplays'[mseat] = <<>> /\ seatObjects' \in 0..seatObjects - 1
                         /\ \A s \in SeatIds : s # mseat => mdisplays'[s] = mdisplays[s]
  BY <1>8, RemoveSeatKeeps
<1>10. ManagerInv'
  <2>1. \A s \in SeatIds : mdisplays'[s] = <<>>
    BY <1>9, <1>1, SeatAssumption DEF ManagerInv, Alive, seatVars
  <2>2. seatObjects' = 0
    BY <1>9, <1>1 DEF ManagerInv, seatVars
  <2>3. \A s \in SeatIds : Alive(s)' <=> s = mseat'
    BY <1>9, <2>1, SeatAssumption DEF Alive
  <2>4. \A v \in Watchers : watcher'[v] # "none" <=> v = systemSeat'
    BY <1>1, <1>7, <1>8, SeatManagerAssumption DEF ManagerInv
  <2>5. getCalls' = {}
    BY <1>8 DEF ManagerInv
  <2> QED BY <1>8, <1>9, <2>2, <2>3, <2>4, <2>5 DEF ManagerInv
<1>x. PICK x \in {"text", "graphical"} : logindSeat # "absent" => x = logindSeat
  BY <1>1 DEF LogindStates
<1> DEFINE g == [i \in 1..n + 1 |-> Flat(t[i], x)]
<1>11. g \in [1..n + 1 -> LogindStates]
  BY DEF Flat, LogindStates
<1>12. \A i \in 1..n + 1 : g[i] = Flat(t[i], x)
  OBVIOUS
<1> HIDE DEF g
<1>13. ASSUME NEW i \in 1..n PROVE Told(None, g[i], bus'[i], g[i + 1])
  <2>1. i \in 1..n + 1 /\ i + 1 \in 1..n + 1
    OBVIOUS
  <2>2. bus'[i] \in Message
    BY <1>1, <1>n
  <2>3. Told(systemSeat, t[i], bus'[i], t[i + 1])
    BY <1>4
  <2>4. Told(None, Flat(t[i], x), bus'[i], Flat(t[i + 1], x))
    BY <2>1, <2>2, <2>3, ToldNobody
  <2> QED BY <1>12, <2>1, <2>4
<1>14. g[1] = "absent" /\ g[n + 1] = logindSeat
  BY <1>4, <1>6, <1>12, <1>x DEF Flat
<1>15. History(g)'
  BY <1>n, <1>8, <1>13, <1>14 DEF History
<1>16. g \in Histories'
  BY <1>n, <1>11 DEF Histories
<1> QED BY <1>2, <1>m, <1>10, <1>15, <1>16 DEF BusInv

(* What a seat does by itself changes nothing of what it follows.           *)
LEMMA SeatStepFollows ==
  ASSUME SeatInv, ManagerInv, BusInv, SeatStep, exitCode' = None
  PROVE  (ManagerInv /\ BusInv)'
<1>1. UNCHANGED <<logindSeat, listing, getCalls, bus, systemSeat, watcher, mseat, seatObjects>>
  BY DEF SeatStep, logindVars, managerVars
<1>2. \A s \in SeatIds : Alive(s)' <=> Alive(s)
  BY SeatStepKeeps DEF ManagerInv
<1>3. ManagerInv'
  BY <1>1, <1>2 DEF ManagerInv
<1>4. CASE listing
  BY <1>1, <1>3, <1>4 DEF BusInv
<1>5. CASE ~listing
  <2>1. PICK h \in Histories : History(h)
    BY <1>5 DEF BusInv
  <2>2. History(h)' /\ h \in Histories'
    BY <1>1, <2>1 DEF History, Histories, Answered
  <2> QED BY <1>1, <1>3, <1>5, <2>2 DEF BusInv
<1> QED BY <1>3, <1>4, <1>5

LEMMA InitFollowInv == Init => FollowInv
<1> SUFFICES ASSUME Init PROVE ManagerInv /\ BusInv
  BY DEF FollowInv
<1>1. \A s \in SeatIds : mdisplays[s] = <<>>
  BY DEF Init, SeatInit
<1>2. \A s \in SeatIds : ~Alive(s) /\ s # mseat
  BY <1>1, SeatAssumption DEF Alive, Init
<1>3. ManagerInv
  BY <1>2, SeatManagerAssumption DEF ManagerInv, Init
<1> QED BY <1>3 DEF BusInv, Init

LEMMA StepFollowInv ==
  ASSUME ~LateReading, SeatInv, FollowInv, [Next]_vars
  PROVE  FollowInv'
<1> SUFFICES ASSUME exitCode' = None PROVE (ManagerInv /\ BusInv)'
  BY DEF FollowInv
<1>1. CASE UNCHANGED vars
  <2>1. UNCHANGED <<mdisplays, exitCode, logindSeat, listing, getCalls, bus, systemSeat, watcher, mseat, seatObjects>>
    BY <1>1 DEF vars, seatVars, logindVars, managerVars
  <2>2. ManagerInv'
    BY <2>1 DEF FollowInv, ManagerInv, Alive
  <2>3. CASE listing
    BY <2>1, <2>2, <2>3 DEF FollowInv, BusInv
  <2>4. CASE ~listing
    <3>1. PICK h \in Histories : History(h)
      BY <2>1, <2>4 DEF FollowInv, BusInv
    <3>2. History(h)' /\ h \in Histories'
      BY <2>1, <3>1 DEF History, Histories, Answered
    <3> QED BY <2>1, <2>2, <2>4, <3>2 DEF BusInv
  <2> QED BY <2>2, <2>3, <2>4
<1>2. CASE Next
  <2>1. exitCode = None
    BY <1>2 DEF Next, SeatStep, SeatNext, LogindStep, DaemonReads
  <2>2. ManagerInv /\ BusInv
    BY <2>1 DEF FollowInv
  <2>3. CASE SeatStep
    BY <2>2, <2>3, SeatStepFollows
  <2>4. CASE LogindStep
    BY <2>2, <2>4, LogindIsTold
  <2>5. CASE DaemonReads
    <3>1. /\ bus # <<>> /\ bus' = Tail(bus) /\ UNCHANGED logindSeat
          /\ \/ ReadSeats(Head(bus)) \/ ReadSeatNew(Head(bus)) \/ ReadSeatRemoved(Head(bus))
             \/ ReadGet(Head(bus)) \/ ReadCanGraphical(Head(bus))
      BY <2>5 DEF DaemonReads
    <3>2. CASE ReadSeats(Head(bus))
      BY <2>2, <3>1, <3>2, SeatsFollowed
    <3>3. CASE ReadSeatNew(Head(bus))
      BY <2>2, <3>1, <3>3, SeatNewFollowed
    <3>4. CASE ReadSeatRemoved(Head(bus))
      BY <2>1, <2>2, <3>1, <3>4, SeatRemovedFollowed
    <3>5. CASE ReadGet(Head(bus)) \/ ReadCanGraphical(Head(bus))
      BY <2>1, <2>2, <3>1, <3>5, ChangeFollowed
    <3> QED BY <3>1, <3>2, <3>3, <3>4, <3>5
  <2> QED BY <1>2, <2>3, <2>4, <2>5 DEF Next
<1> QED BY <1>1, <1>2

(* The daemon's seat is logind's: as long as a signal is only read by the   *)
(* LogindSeat that was there when it came.                                  *)
THEOREM SeatIsLoginds == ASSUME ~LateReading PROVE Spec => []SeatFollowsLogind
<1>1. ASSUME SeatInv, FollowInv PROVE SeatFollowsLogind
  <2> SUFFICES ASSUME exitCode = None PROVE
         /\ \A s \in SeatIds : Alive(s) <=> s = mseat
         /\ seatObjects = IF mseat = None THEN 0 ELSE 1
         /\ ~listing /\ getCalls = {} /\ bus = <<>> => (mseat # None <=> logindSeat = "graphical")
    BY DEF SeatFollowsLogind
  <2>1. ManagerInv /\ BusInv
    BY <1>1 DEF FollowInv
  <2>2. ASSUME ~listing, getCalls = {}, bus = <<>> PROVE mseat # None <=> logindSeat = "graphical"
    <3>1. PICK h \in Histories : History(h)
      BY <2>1, <2>2 DEF BusInv
    <3>2. Len(bus) = 0
      <4>1. Len(<<>>) = 0
        OBVIOUS
      <4> QED BY <4>1, <2>2, Zenon
    <3>3. h[1] = logindSeat /\ \A i \in 1..1 : i = 1
      BY <3>1, <3>2 DEF History
    <3>4. DOMAIN bus = {}
      BY <2>2
    <3>5. Answered
      BY <2>2, <3>4 DEF Answered
    <3>6. h[1] = "graphical" => \A i \in 1..Len(bus) + 1 : h[i] # "absent"
      BY <3>2, <3>3
    <3>7. systemSeat = None <=> h[1] = "absent"
      BY <3>1 DEF History
    <3>8. systemSeat # None /\ watcher[systemSeat] = "yes" <=> h[1] = "graphical"
      BY <3>1, <3>5, <3>6, <3>7 DEF History
    <3> QED BY <2>1, <3>3, <3>8 DEF ManagerInv
  <2> QED BY <2>1, <2>2 DEF ManagerInv
<1>2. Init => SeatInv /\ FollowInv
  BY InitSeatInv, InitFollowInv
<1>3. SeatInv /\ FollowInv /\ [Next]_vars => (SeatInv /\ FollowInv)'
  BY StepSeatInv, StepFollowInv
<1> QED BY <1>1, <1>2, <1>3, PTL DEF Spec
=============================================================================
