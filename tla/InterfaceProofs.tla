--------------------------- MODULE InterfaceProofs ---------------------------
(***************************************************************************)
(* Proofs about what the user sees and touches: the keyboard, sessions,    *)
(* players, volume and the notes of the lock screen are shown as they are, *)
(* for any number of events and messages under way.                        *)
(***************************************************************************)
EXTENDS ServicesProofs

-----------------------------------------------------------------------------
(* The keyboard of the server.                                               *)

Event ==
  [is : {"keymap"}] \cup [is : {"state"}, locks : SUBSET Lock, group : Nat]
Known == Keymap \cup {"us"}
Count(k) == Len(Groups(k))

(* What the events of q, heard one after the other, make of the copy c is    *)
(* what the server has.                                                      *)
Remapped(q) == \E i \in 1 .. Len(q) : q[i].is = "keymap"
LastState(q, i) ==
  /\ i \in 1 .. Len(q) /\ q[i].is = "state"
  /\ \A j \in 1 .. Len(q) : q[j].is = "state" => j <= i
Stated(q) == \E i \in 1 .. Len(q) : q[i].is = "state"

CopyFollows(q, c, l, g, k) ==
  /\ ~Remapped(q) => c.layouts = Layouts(k)
  /\ ~Stated(q) => c.locks = l /\ c.layout = g
  /\ \A i : LastState(q, i) => q[i].locks = l /\ q[i].group = g
  /\ Stated(q) => \E i : LastState(q, i)
  /\ \A i \in 1 .. Len(q) : q[i].is = "state" => q[i].group < Count(k)

CopyType ==
  [locks : SUBSET Lock, layout : Nat, layouts : {Layouts(k) : k \in Known} \cup {<<>>}]

KeyboardType ==
  /\ locks \in SUBSET Lock /\ keymap \in Known /\ group \in 0 .. Count(keymap) - 1
  /\ greeter \in {"none", "theme", "classic"} /\ stage \in {"off", "read", "idle", "check"}
  /\ wire \in Seq(Event) /\ held \in Seq(Event) /\ copy \in CopyType
  /\ releases \in Nat /\ emitted \in Seq(BOOLEAN)
  /\ greeter = "none" => stage = "off"
  /\ stage = "off" => greeter = "none"
  /\ greeter = "classic" => stage # "check"
  /\ ~(greeter = "classic" /\ stage = "idle") => releases = 0 /\ emitted = <<>>

(* The themed greeter.                                                       *)
ThemeInv ==
  /\ ~(greeter = "theme" /\ stage \in {"idle", "check"}) => wire = <<>> /\ held = <<>>
  /\ greeter = "theme" =>
       /\ CopyFollows(held \o wire, copy, locks, group, keymap)
       /\ copy.layout < Count(keymap) /\ DOMAIN copy.layouts \subseteq 1 .. Count(keymap)

(* The classic one: the last that was emitted is so, if no key is waited for.*)
ClassicInv ==
  greeter = "classic" /\ releases = 0 =>
    /\ emitted = <<>> => warned = IF isCapslockOn THEN Boxes ELSE {}
    /\ emitted # <<>> => emitted[Len(emitted)] = isCapslockOn

KeyboardInv == KeyboardType /\ ThemeInv /\ ClassicInv

LEMMA KnownGroups ==
  ASSUME Known \subseteq ReadRight, NEW k \in Known
  PROVE  /\ Count(k) \in Nat \ {0}
         /\ DOMAIN Layouts(k) = 1 .. Count(k)
         /\ Layouts(k) = [i \in DOMAIN Groups(k) |-> <<Groups(k)[i], Groups(k)[i]>>]
<1>1. /\ Groups(k) \in Seq(STRING) \ {<<>>}
      /\ Layouts(k) = [i \in DOMAIN Groups(k) |-> <<Groups(k)[i], Groups(k)[i]>>]
  BY DEF ReadRight
<1>2. DOMAIN Groups(k) = 1 .. Count(k) /\ Count(k) \in Nat \ {0}
  BY <1>1 DEF Count
<1> QED
  BY <1>1, <1>2

LEMMA Remainders ==
  ASSUME NEW x \in Nat, NEW n \in Nat \ {0}
  PROVE  /\ x % n \in 0 .. n - 1
         /\ x < n => x % n = x
  OBVIOUS

(* What the server tells when it changes.                                    *)
NewKeymap(k, k1) == IF k1 # k THEN <<[is |-> "keymap"]>> ELSE <<>>
NewState(l, g, l1, g1) ==
  IF <<l1, g1>> # <<l, g>> THEN <<[is |-> "state", locks |-> l1, group |-> g1]>> ELSE <<>>
Told(l, g, k, l1, g1, k1) == NewKeymap(k, k1) \o NewState(l, g, l1, g1)

(* The server tells what it changed, in one event or in two.                 *)
LEMMA ChangesAreTold ==
  ASSUME NEW q \in Seq(Event), NEW c, NEW d, NEW l \in SUBSET Lock, NEW g \in Nat, NEW k,
         NEW l1 \in SUBSET Lock, NEW g1 \in Nat, NEW k1,
         CopyFollows(q, c, l, g, k), d.layouts = c.layouts,
         Stated(q) \/ <<l1, g1>> # <<l, g>> \/ (d.locks = l1 /\ d.layout = g1),
         Count(k) \in Nat, Count(k1) \in Nat, Count(k) <= Count(k1), g1 < Count(k1)
  PROVE  LET n == Told(l, g, k, l1, g1, k1)
         IN  n \in Seq(Event) /\ q \o n \in Seq(Event) /\ CopyFollows(q \o n, d, l1, g1, k1)
<1> DEFINE n == Told(l, g, k, l1, g1, k1)
<1> SUFFICES n \in Seq(Event) /\ q \o n \in Seq(Event) /\ CopyFollows(q \o n, d, l1, g1, k1)
  OBVIOUS
<1>0. n = (IF k1 # k THEN <<[is |-> "keymap"]>> ELSE <<>>)
          \o (IF <<l1, g1>> # <<l, g>>
                THEN <<[is |-> "state", locks |-> l1, group |-> g1]>> ELSE <<>>)
  BY DEF Told, NewKeymap, NewState
<1> HIDE DEF n
<1> DEFINE m == [is |-> "keymap"]
           s == [is |-> "state", locks |-> l1, group |-> g1]
           r == q \o n
<1>1. /\ m \in Event /\ m.is = "keymap" /\ s \in Event /\ s.is = "state"
      /\ s.locks = l1 /\ s.group = g1
  BY DEF Event
<1>6. ASSUME NEW p \in Seq(Event), NEW a \in Seq(Event)
      PROVE  /\ p \o a \in Seq(Event) /\ Len(p \o a) = Len(p) + Len(a)
             /\ \A i \in 1 .. Len(p) : (p \o a)[i] = p[i]
             /\ \A i \in 1 .. Len(a) : (p \o a)[Len(p) + i] = a[i]
  BY <1>6, ConcatProperties, SMTT(30)
<1>2. CASE k1 # k /\ <<l1, g1>> # <<l, g>>
  <2>1. n = <<m>> \o <<s>>
    BY <1>0, <1>2
  <2> HIDE DEF m, s
  <2>0. <<m>> \in Seq(Event) /\ <<s>> \in Seq(Event)
    BY <1>1
  <2>7. n \in Seq(Event) /\ Len(n) = 2 /\ n[1] = m /\ n[2] = s
    <3> DEFINE a == <<m>>
               b == <<s>>
    <3>2. Len(a) = 1 /\ Len(b) = 1 /\ a[1] = m /\ b[1] = s /\ a \in Seq(Event) /\ b \in Seq(Event)
      BY <2>0
    <3>3. n = a \o b
      BY <2>1
    <3> HIDE DEF a, b
    <3>1. /\ a \o b \in Seq(Event) /\ Len(a \o b) = Len(a) + Len(b)
          /\ \A i \in 1 .. Len(a) : (a \o b)[i] = a[i]
          /\ \A i \in 1 .. Len(b) : (a \o b)[Len(a) + i] = b[i]
      BY <1>6, <3>2
    <3> QED
      BY <3>1, <3>2, <3>3
  <2>2. /\ r \in Seq(Event) /\ Len(r) = Len(q) + 2
        /\ \A i \in 1 .. Len(q) : r[i] = q[i]
        /\ r[Len(q) + 1] = m /\ r[Len(q) + 2] = s
    <3>1. /\ r \in Seq(Event) /\ Len(r) = Len(q) + Len(n)
          /\ \A i \in 1 .. Len(q) : r[i] = q[i]
          /\ \A i \in 1 .. Len(n) : r[Len(q) + i] = n[i]
      BY <1>6, <2>7
    <3> QED
      BY <2>7, <3>1
  <2> HIDE DEF r
  <2>3. Remapped(r) /\ LastState(r, Len(q) + 2)
    BY <1>1, <2>2 DEF Remapped, LastState
  <2>4. \A i : LastState(r, i) => i = Len(q) + 2
    BY <2>2, <2>3 DEF LastState
  <2>5. Stated(r)
    BY <2>3 DEF LastState, Stated
  <2>6. \A i \in 1 .. Len(r) : r[i].is = "state" => r[i].group < Count(k1)
    <3> SUFFICES ASSUME NEW i \in 1 .. Len(r), r[i].is = "state" PROVE r[i].group < Count(k1)
      OBVIOUS
    <3>1. CASE i <= Len(q)
      <4>1. i \in 1 .. Len(q) /\ r[i] = q[i] /\ q[i] \in Event
        BY <2>2, <3>1
      <4>2. q[i].group < Count(k) /\ q[i].group \in Nat
        BY <4>1 DEF CopyFollows, Event
      <4> QED
        BY <4>1, <4>2
    <3> QED
      BY <1>1, <2>2, <3>1
  <2> QED
    BY <1>1, <2>2, <2>3, <2>4, <2>5, <2>6, <2>7 DEF CopyFollows, r
<1>3. CASE k1 # k /\ <<l1, g1>> = <<l, g>>
  <2>1. n = <<m>>
    BY <1>0, <1>3
  <2> HIDE DEF m, s
  <2>8. n \in Seq(Event) /\ Len(n) = 1 /\ n[1] = m
    <3>1. <<m>> \in Seq(Event) /\ Len(<<m>>) = 1 /\ <<m>>[1] = m
      BY <1>1
    <3> QED
      BY <2>1, <3>1
  <2>2. /\ r \in Seq(Event) /\ Len(r) = Len(q) + 1
        /\ \A i \in 1 .. Len(q) : r[i] = q[i]
        /\ r[Len(q) + 1] = m
    <3>1. /\ r \in Seq(Event) /\ Len(r) = Len(q) + Len(n)
          /\ \A i \in 1 .. Len(q) : r[i] = q[i]
          /\ \A i \in 1 .. Len(n) : r[Len(q) + i] = n[i]
      BY <1>6, <2>8
    <3> QED
      BY <2>8, <3>1
  <2> HIDE DEF r
  <2>3. Remapped(r)
    BY <1>1, <2>2 DEF Remapped
  <2>9. \A i \in 1 .. Len(r) : r[i].is = "state" <=> i \in 1 .. Len(q) /\ q[i].is = "state"
    BY <1>1, <2>2
  <2>4. \A i : LastState(r, i) <=> LastState(q, i)
    BY <2>2, <2>9 DEF LastState
  <2>5. Stated(r) <=> Stated(q)
    <3>1. 1 .. Len(q) \subseteq 1 .. Len(r)
      BY <2>2
    <3>2. Stated(q) => Stated(r)
      BY <2>9, <3>1 DEF Stated
    <3>3. Stated(r) => Stated(q)
      BY <2>9 DEF Stated
    <3> QED
      BY <3>2, <3>3
  <2>6. \A i \in 1 .. Len(r) : r[i].is = "state" => r[i].group < Count(k1)
    <3> SUFFICES ASSUME NEW i \in 1 .. Len(r), r[i].is = "state" PROVE r[i].group < Count(k1)
      OBVIOUS
    <3>1. i \in 1 .. Len(q) /\ r[i] = q[i] /\ q[i] \in Event
      BY <1>1, <2>2
    <3>2. q[i].group < Count(k) /\ q[i].group \in Nat
      BY <3>1 DEF CopyFollows, Event
    <3> QED
      BY <3>1, <3>2
  <2>7. \A i : LastState(q, i) => r[i] = q[i]
    BY <2>2 DEF LastState
  <2> QED
    BY <1>1, <1>3, <2>2, <2>3, <2>4, <2>5, <2>6, <2>7, <2>8 DEF CopyFollows, r
<1>4. CASE k1 = k /\ <<l1, g1>> # <<l, g>>
  <2>1. n = <<s>>
    BY <1>0, <1>4
  <2> HIDE DEF m, s
  <2>8. n \in Seq(Event) /\ Len(n) = 1 /\ n[1] = s
    <3>1. <<s>> \in Seq(Event) /\ Len(<<s>>) = 1 /\ <<s>>[1] = s
      BY <1>1
    <3> QED
      BY <2>1, <3>1
  <2>2. /\ r \in Seq(Event) /\ Len(r) = Len(q) + 1
        /\ \A i \in 1 .. Len(q) : r[i] = q[i]
        /\ r[Len(q) + 1] = s
    <3>1. /\ r \in Seq(Event) /\ Len(r) = Len(q) + Len(n)
          /\ \A i \in 1 .. Len(q) : r[i] = q[i]
          /\ \A i \in 1 .. Len(n) : r[Len(q) + i] = n[i]
      BY <1>6, <2>8
    <3> QED
      BY <2>8, <3>1
  <2> HIDE DEF r
  <2>9. \A i \in 1 .. Len(r) : r[i].is = "keymap" <=> i \in 1 .. Len(q) /\ q[i].is = "keymap"
    BY <1>1, <2>2
  <2>3. (Remapped(r) <=> Remapped(q)) /\ LastState(r, Len(q) + 1)
    BY <1>1, <2>2, <2>9 DEF Remapped, LastState
  <2>4. \A i : LastState(r, i) => i = Len(q) + 1
    BY <2>2, <2>3 DEF LastState
  <2>5. Stated(r)
    BY <2>3 DEF LastState, Stated
  <2>6. \A i \in 1 .. Len(r) : r[i].is = "state" => r[i].group < Count(k1)
    <3> SUFFICES ASSUME NEW i \in 1 .. Len(r), r[i].is = "state" PROVE r[i].group < Count(k1)
      OBVIOUS
    <3>1. CASE i <= Len(q)
      <4>1. i \in 1 .. Len(q) /\ r[i] = q[i] /\ q[i] \in Event
        BY <2>2, <3>1
      <4>2. q[i].group < Count(k) /\ q[i].group \in Nat
        BY <4>1 DEF CopyFollows, Event
      <4> QED
        BY <4>1, <4>2
    <3> QED
      BY <1>1, <2>2, <3>1
  <2> QED
    BY <1>1, <1>4, <2>2, <2>3, <2>4, <2>5, <2>6, <2>8 DEF CopyFollows, r
<1>5. CASE k1 = k /\ <<l1, g1>> = <<l, g>>
  <2>1. n = <<>>
    BY <1>0, <1>5
  <2>2. r = q
    BY <2>1
  <2>3. l1 = l /\ g1 = g
    BY <1>5
  <2> QED
    BY <1>5, <2>1, <2>2, <2>3 DEF CopyFollows
<1> QED
  BY <1>2, <1>3, <1>4, <1>5

-----------------------------------------------------------------------------
LEMMA EventsRegroup ==
  \A q, r, t \in Seq(Event) : (q \o r) \o t = q \o (r \o t)
  BY ConcatAssociative

LEMMA ServerChanges ==
  ASSUME KeyboardInv, Known \subseteq ReadRight, NEW d \in CopyType,
         NEW l \in SUBSET Lock, NEW g \in Nat, NEW k \in Known, Changed(l, g, k),
         Count(keymap) <= Count(k), g < Count(k), d.layouts = copy.layouts,
         Selected => d = copy \/ (d.locks = l /\ d.layout = g),
         greeter = "theme" => Selected
  PROVE  /\ wire' \in Seq(Event)
         /\ ~Selected => wire' = <<>>
         /\ greeter = "theme" => CopyFollows(held \o wire', d, l, g, k)
<1>0. /\ locks \in SUBSET Lock /\ group \in Nat /\ keymap \in Known
      /\ Count(keymap) \in Nat \ {0} /\ Count(k) \in Nat \ {0}
      /\ wire \in Seq(Event) /\ held \in Seq(Event)
  BY KnownGroups DEF KeyboardInv, KeyboardType
<1>1. CASE ~Selected
  BY <1>1 DEF Changed, KeyboardInv, ThemeInv, KeyboardType, Selected
<1>2. CASE Selected
  <2> DEFINE a == NewKeymap(keymap, k)
             b == NewState(locks, group, l, g)
             n == Told(locks, group, keymap, l, g, k)
             q == held \o wire
  <2>1. wire' = (wire \o a) \o b
    BY <1>2 DEF Changed, NewKeymap, NewState
  <2>2. a \in Seq(Event) /\ b \in Seq(Event)
    <3> DEFINE m == [is |-> "keymap"]
               s == [is |-> "state", locks |-> l, group |-> g]
    <3>1. m \in Event /\ s \in Event
      BY DEF Event
    <3> HIDE DEF m, s
    <3>2. <<m>> \in Seq(Event) /\ <<s>> \in Seq(Event) /\ <<>> \in Seq(Event)
      BY <3>1
    <3> QED
      BY <3>2 DEF m, s, NewKeymap, NewState
  <2>7. q \in Seq(Event) /\ greeter = "theme" /\ CopyFollows(q, copy, locks, group, keymap)
    BY <1>0, <1>2, ConcatProperties DEF Selected, KeyboardInv, ThemeInv
  <2>4. Stated(q) \/ <<l, g>> # <<locks, group>> \/ (d.locks = l /\ d.layout = g)
    BY <1>2, <2>7 DEF CopyFollows
  <2>5. n \in Seq(Event) /\ q \o n \in Seq(Event) /\ CopyFollows(q \o n, d, l, g, k)
    <3> HIDE DEF q
    <3> QED
      BY <1>0, <2>4, <2>7, ChangesAreTold
  <2>3. wire' = wire \o n
    <3> HIDE DEF a, b
    <3>1. (wire \o a) \o b = wire \o (a \o b)
      BY <1>0, <2>2, EventsRegroup
    <3> QED
      BY <2>1, <3>1 DEF Told, a, b
  <2> HIDE DEF n
  <2>6. wire' \in Seq(Event) /\ held \o wire' = q \o n
    <3>1. wire \o n \in Seq(Event)
      BY <1>0, <2>5, ConcatProperties
    <3>2. (held \o wire) \o n = held \o (wire \o n)
      BY <1>0, <2>5, EventsRegroup
    <3> QED
      BY <2>3, <3>1, <3>2
  <2> QED
    BY <1>2, <2>5, <2>6
<1> QED
  BY <1>1, <1>2

LEMMA KeyboardParts ==
  ASSUME KeyboardInv, Known \subseteq ReadRight
  PROVE  /\ locks \in SUBSET Lock /\ group \in Nat /\ group < Count(keymap) /\ keymap \in Known
         /\ Count(keymap) \in Nat \ {0} /\ copy \in CopyType
         /\ wire \in Seq(Event) /\ held \in Seq(Event)
         /\ Selected => greeter = "theme"
         /\ greeter = "theme" /\ stage # "read" => Selected
         /\ ~Selected => wire = <<>> /\ held = <<>>
<1>1. Count(keymap) \in Nat \ {0}
  BY KnownGroups DEF KeyboardInv, KeyboardType
<1> QED
  BY <1>1 DEF KeyboardInv, KeyboardType, ThemeInv, Selected

(* Someone types.                                                            *)
LEMMA TypingInv ==
  ASSUME KeyboardInv, Known \subseteq ReadRight, Races = {}, Typing,
         NEW l \in SUBSET Lock, NEW g \in Nat, NEW k \in Known, Changed(l, g, k),
         Count(keymap) <= Count(k), g < Count(k), releases' \in Nat,
         ~(greeter = "classic" /\ stage = "idle") => releases' = 0,
         greeter = "classic" /\ stage = "idle" /\ releases' = 0 => releases = 0 /\ isCapslockOn' = isCapslockOn
  PROVE  KeyboardInv'
<1>1. /\ stage # "read" /\ UNCHANGED <<greeter, stage, held, copy, emitted, warned>>
      /\ locks' = l /\ group' = g /\ keymap' = k
  BY DEF Typing, Changed
<1>2. Count(k) \in Nat \ {0}
  BY KnownGroups
<1>3. /\ wire' \in Seq(Event)
      /\ ~Selected => wire' = <<>>
      /\ greeter = "theme" => CopyFollows(held \o wire', copy, l, g, k)
  BY <1>1, KeyboardParts, ServerChanges
<1>4. KeyboardType'
  BY <1>1, <1>2, <1>3 DEF KeyboardInv, KeyboardType
<1>5. ThemeInv'
  <2>1. greeter = "theme" =>
          DOMAIN copy.layouts \subseteq 1 .. Count(k) /\ copy.layout < Count(k)
    BY <1>2, KeyboardParts DEF KeyboardInv, ThemeInv, CopyType
  <2> QED
    BY <1>1, <1>3, <2>1, KeyboardParts DEF KeyboardInv, ThemeInv, Selected
<1>6. ClassicInv'
  <2>1. greeter = "classic" => stage = "idle"
    BY <1>1 DEF KeyboardInv, KeyboardType
  <2> QED
    BY <1>1, <2>1 DEF KeyboardInv, ClassicInv
<1> QED
  BY <1>4, <1>5, <1>6 DEF KeyboardInv

LEMMA LockPressedInv ==
  ASSUME KeyboardInv, Known \subseteq ReadRight, Races = {}, NEW k \in Lock, LockPressed(k)
  PROVE  KeyboardInv'
<1> DEFINE l == IF k \in locks THEN locks \ {k} ELSE locks \cup {k}
<1>1. l \in SUBSET Lock /\ Changed(l, group, keymap) /\ Typing
  BY KeyboardParts DEF LockPressed
<1>2. releases' \in Nat /\ (~(greeter = "classic" /\ stage = "idle") => releases' = 0)
  BY DEF LockPressed, KeyboardInv, KeyboardType
<1>3. greeter = "classic" /\ stage = "idle" /\ releases' = 0 => releases = 0 /\ k # "caps"
  BY DEF LockPressed, KeyboardInv, KeyboardType
<1>4. k # "caps" => isCapslockOn' = isCapslockOn
  BY <1>1 DEF isCapslockOn, Changed
<1> HIDE DEF l
<1> QED
  BY <1>1, <1>2, <1>3, <1>4, KeyboardParts, TypingInv

LEMMA GroupsChangeInv ==
  ASSUME KeyboardInv, Known \subseteq ReadRight, Races = {},
         GroupPressed \/ \E k \in Keymap : KeymapSet(k)
  PROVE  KeyboardInv'
<1>1. /\ releases' = releases /\ releases' \in Nat /\ Typing
      /\ ~(greeter = "classic" /\ stage = "idle") => releases' = 0
  BY DEF GroupPressed, KeymapSet, KeyboardInv, KeyboardType
<1>2. locks' = locks => isCapslockOn' = isCapslockOn
  BY DEF isCapslockOn
<1>3. CASE GroupPressed
  <2>1. (group + 1) % Count(keymap) \in 0 .. Count(keymap) - 1
    <3>1. group + 1 \in Nat /\ Count(keymap) \in Nat \ {0}
      BY KeyboardParts
    <3> QED
      BY <3>1, Remainders
  <2>2. Changed(locks, (group + 1) % Count(keymap), keymap)
    BY <1>3 DEF GroupPressed, Count
  <2>3. locks' = locks
    BY <2>2 DEF Changed
  <2> DEFINE g == (group + 1) % Count(keymap)
  <2>4. g \in Nat /\ g < Count(keymap)
    BY <2>1, KeyboardParts
  <2> HIDE DEF g
  <2> QED
    BY <1>1, <1>2, <2>2, <2>3, <2>4, KeyboardParts, TypingInv DEF g
<1>4. ASSUME NEW k \in Keymap, KeymapSet(k)
      PROVE  KeyboardInv'
  <2>1. /\ k \in Known /\ Count(k) \in Nat \ {0} /\ Count(keymap) <= Count(k)
        /\ Changed(locks, group % Count(k), k)
    <3>1. k \in Known
      BY DEF Known
    <3> QED
      BY <1>4, <3>1, KnownGroups, KeyboardParts DEF KeymapSet, Count
  <2>2. group % Count(k) \in 0 .. Count(k) - 1
    BY <2>1, KeyboardParts, Remainders
  <2>3. locks' = locks
    BY <2>1 DEF Changed
  <2> DEFINE g == group % Count(k)
  <2>4. g \in Nat /\ g < Count(k)
    BY <2>1, <2>2
  <2> HIDE DEF g
  <2> QED
    BY <1>1, <1>2, <2>1, <2>3, <2>4, KeyboardParts, TypingInv DEF g
<1> QED
  BY <1>3, <1>4

(* The user clicks in the theme, and the greeter asks the server.            *)
LEMMA SetInv ==
  ASSUME KeyboardInv, Known \subseteq ReadRight, NEW new \in CopyType, Set(new),
         new.layouts = copy.layouts, new.layout < Count(keymap)
  PROVE  KeyboardInv'
<1>1. /\ greeter = "theme" /\ stage = "idle" /\ stage' = "check" /\ copy' = new
      /\ UNCHANGED <<greeter, held, monitorVars>>
      /\ Changed(copy'.locks, copy'.layout % Count(keymap), keymap)
  BY DEF Set, sendChanges, Count
<1>2. new.layout \in Nat /\ new.locks \in SUBSET Lock
  BY DEF CopyType
<1>3. copy'.layout % Count(keymap) = new.layout
  BY <1>1, <1>2, KeyboardParts, Remainders
<1>4. Changed(new.locks, new.layout, keymap)
  BY <1>1, <1>3
<1>5. locks' = new.locks /\ group' = new.layout /\ keymap' = keymap
  BY <1>4 DEF Changed
<1>6. /\ wire' \in Seq(Event)
      /\ CopyFollows(held \o wire', new, new.locks, new.layout, keymap)
  BY <1>1, <1>2, <1>4, KeyboardParts, ServerChanges DEF Selected
<1>7. DOMAIN new.layouts \subseteq 1 .. Count(keymap)
  BY <1>1 DEF KeyboardInv, ThemeInv
<1>8. KeyboardType'
  BY <1>1, <1>2, <1>5, <1>6, KeyboardParts DEF KeyboardInv, KeyboardType, monitorVars
<1>9. ThemeInv'
  BY <1>1, <1>5, <1>6, <1>7 DEF ThemeInv
<1>10. ClassicInv'
  BY <1>1 DEF ClassicInv
<1> QED
  BY <1>8, <1>9, <1>10 DEF KeyboardInv

LEMMA UserSetsInv ==
  ASSUME KeyboardInv, Known \subseteq ReadRight, setCurrentLayout \/ \E k \in Lock : setLockState(k)
  PROVE  KeyboardInv'
<1>1. greeter = "theme"
  BY DEF setCurrentLayout, setLockState, Set
<1>2. /\ copy \in CopyType /\ copy.layout < Count(keymap)
      /\ DOMAIN copy.layouts \subseteq 1 .. Count(keymap) /\ Count(keymap) \in Nat
  BY <1>1, KeyboardParts DEF KeyboardInv, ThemeInv
<1>3. ASSUME NEW i \in DOMAIN copy.layouts, Set([copy EXCEPT !.layout = i - 1])
      PROVE  KeyboardInv'
  <2> DEFINE new == [copy EXCEPT !.layout = i - 1]
  <2>1. i \in Nat \ {0} /\ i <= Count(keymap)
    BY <1>2
  <2>2. new \in CopyType /\ new.layouts = copy.layouts /\ new.layout = i - 1
    BY <1>2, <2>1 DEF CopyType
  <2> HIDE DEF new
  <2>3. Set(new) /\ new.layout < Count(keymap)
    BY <1>2, <1>3, <2>1, <2>2 DEF new
  <2> QED
    BY <2>2, <2>3, SetInv
<1>4. ASSUME NEW k \in Lock, setLockState(k)
      PROVE  KeyboardInv'
  <2> DEFINE l == IF k \in copy.locks THEN copy.locks \ {k} ELSE copy.locks \cup {k}
             new == [copy EXCEPT !.locks = l]
  <2>1. l \in SUBSET Lock
    BY <1>2 DEF CopyType
  <2>2. Set(new)
    BY <1>4 DEF setLockState
  <2> HIDE DEF l
  <2>3. new \in CopyType /\ new.layouts = copy.layouts /\ new.layout = copy.layout
    BY <1>2, <2>1 DEF CopyType
  <2> HIDE DEF new
  <2> QED
    BY <1>2, <2>2, <2>3, SetInv
<1> QED
  BY <1>3, <1>4 DEF setCurrentLayout

(* What was kept comes first, and then what is on the wire.                  *)
LEMMA RequestCheckedInv ==
  ASSUME KeyboardInv, Known \subseteq ReadRight, RequestChecked
  PROVE  KeyboardInv'
<1>1. /\ greeter = "theme" /\ stage' = "idle" /\ held' = held \o wire /\ wire' = <<>>
      /\ UNCHANGED <<locks, group, keymap, greeter, copy, releases, emitted, warned>>
  BY DEF RequestChecked, serverVars, monitorVars, KeyboardInv, KeyboardType
<1>2. held' \in Seq(Event) /\ wire' \in Seq(Event) /\ held' \o wire' = held \o wire
  <2>1. held \o wire \in Seq(Event)
    BY KeyboardParts, ConcatProperties
  <2> QED
    BY <1>1, <2>1, ConcatEmptySeq
<1>3. KeyboardType'
  BY <1>1, <1>2 DEF KeyboardInv, KeyboardType
<1>4. ThemeInv'
  BY <1>1, <1>2 DEF KeyboardInv, ThemeInv
<1>5. ClassicInv'
  BY <1>1 DEF ClassicInv
<1> QED
  BY <1>3, <1>4, <1>5 DEF KeyboardInv

(* The greeter handles all there is.                                         *)
LEMMA DispatchInv ==
  ASSUME KeyboardInv, Known \subseteq ReadRight, dispatchEvents
  PROVE  KeyboardInv'
<1> DEFINE all == held \o wire
           states == {i \in DOMAIN all : all[i].is = "state"}
           at == CHOOSE i \in states : \A j \in states : j <= i
           last == all[at]
           renamed == \E i \in DOMAIN all : all[i].is = "keymap"
<1>1. /\ greeter = "theme" /\ stage = "idle" /\ held' = <<>> /\ wire' = <<>>
      /\ UNCHANGED <<locks, group, keymap, greeter, stage, releases, emitted, warned>>
      /\ copy' = [locks |-> IF states = {} THEN copy.locks ELSE last.locks,
                  layout |-> IF states = {} THEN copy.layout ELSE last.group,
                  layouts |-> IF renamed THEN Layouts(keymap) ELSE copy.layouts]
  BY DEF dispatchEvents, serverVars, monitorVars
<1>2. all \in Seq(Event) /\ DOMAIN all = 1 .. Len(all)
  BY KeyboardParts, ConcatProperties
<1>3. CopyFollows(all, copy, locks, group, keymap)
  BY <1>1 DEF KeyboardInv, ThemeInv
<1> HIDE DEF all
<1>4. states = {} => copy.locks = locks /\ copy.layout = group
  BY <1>2, <1>3 DEF CopyFollows, Stated
<1>5. states # {} => last.locks = locks /\ last.group = group
  <2>1. SUFFICES ASSUME states # {} PROVE last.locks = locks /\ last.group = group
    OBVIOUS
  <2>2. PICK i : LastState(all, i)
    BY <1>2, <1>3, <2>1 DEF CopyFollows, Stated
  <2>3. i \in states /\ \A j \in states : j <= i
    BY <1>2, <2>2 DEF LastState
  <2>4. at \in states /\ \A j \in states : j <= at
    BY <2>3
  <2>5. LastState(all, at)
    <3> HIDE DEF at
    <3> QED
      BY <1>2, <2>4 DEF LastState
  <2> HIDE DEF at
  <2> QED
    BY <1>3, <2>5 DEF CopyFollows
<1>6. ~renamed => copy.layouts = Layouts(keymap)
  BY <1>2, <1>3 DEF CopyFollows, Remapped
<1>7. copy' = [locks |-> locks, layout |-> group, layouts |-> Layouts(keymap)]
  <2> HIDE DEF states, last, renamed
  <2> QED
    BY <1>1, <1>4, <1>5, <1>6
<1>8. KeyboardType'
  <2>1. copy' \in CopyType
    BY <1>7, KeyboardParts DEF CopyType
  <2> HIDE DEF states, last, renamed
  <2>2. wire' \in Seq(Event) /\ held' \in Seq(Event)
    BY <1>1
  <2> QED
    BY <1>1, <2>1, <2>2 DEF KeyboardInv, KeyboardType
<1>9. ThemeInv'
  <2>1. held' \o wire' = <<>>
    BY <1>1
  <2>2. CopyFollows(<<>>, copy', locks, group, keymap)
    BY <1>7 DEF CopyFollows, LastState, Stated
  <2>3. /\ copy'.layout < Count(keymap)
        /\ DOMAIN copy'.layouts \subseteq 1 .. Count(keymap)
    BY <1>7, KeyboardParts, KnownGroups
  <2> HIDE DEF states, last, renamed
  <2> QED
    BY <1>1, <2>1, <2>2, <2>3 DEF ThemeInv
<1>10. ClassicInv'
  BY <1>1 DEF ClassicInv
<1> QED
  BY <1>8, <1>9, <1>10 DEF KeyboardInv

(* A greeter starts: it reads, and then selects its events.                  *)
LEMMA GreeterStartsInv ==
  ASSUME KeyboardInv, Known \subseteq ReadRight,
         BackendInit \/ connectEventsDispatcher \/ BoxesInit \/ select_events
  PROVE  KeyboardInv'
<1>1. UNCHANGED <<locks, group, keymap, wire, held, releases, emitted>>
  BY DEF BackendInit, connectEventsDispatcher, BoxesInit, select_events, serverVars, monitorVars
<1>2. held \o wire = <<>> /\ wire = <<>> /\ held = <<>>
  BY DEF BackendInit, connectEventsDispatcher, BoxesInit, select_events, KeyboardInv, ThemeInv
<1>3. CASE BackendInit
  <2>1. /\ greeter' = "theme" /\ stage' = "read" /\ warned' = warned
        /\ copy' = [locks |-> locks, layout |-> group, layouts |-> Layouts(keymap)]
        /\ greeter = "none"
    BY <1>3 DEF BackendInit, monitorVars
  <2>2. copy' \in CopyType
    BY <2>1, KeyboardParts DEF CopyType
  <2>3. KeyboardType'
    BY <1>1, <2>1, <2>2 DEF KeyboardInv, KeyboardType
  <2>4. CopyFollows(<<>>, copy', locks, group, keymap)
    BY <2>1 DEF CopyFollows, LastState, Stated
  <2>5. /\ copy'.layout < Count(keymap)
        /\ DOMAIN copy'.layouts \subseteq 1 .. Count(keymap)
    BY <2>1, KeyboardParts, KnownGroups
  <2>6. ThemeInv'
    BY <1>1, <1>2, <2>4, <2>5 DEF ThemeInv
  <2>7. ClassicInv'
    BY <2>1 DEF ClassicInv
  <2> QED
    BY <2>3, <2>6, <2>7 DEF KeyboardInv
<1>4. CASE connectEventsDispatcher
  <2>1. greeter = "theme" /\ stage' = "idle" /\ UNCHANGED <<greeter, copy, warned>>
    BY <1>4 DEF connectEventsDispatcher, monitorVars
  <2> QED
    BY <1>1, <1>2, <2>1 DEF KeyboardInv, KeyboardType, ThemeInv, ClassicInv
<1>5. CASE BoxesInit
  <2>1. /\ greeter = "none" /\ greeter' = "classic" /\ stage' = "read" /\ copy' = copy
        /\ warned' = IF isCapslockOn THEN Boxes ELSE {}
    BY <1>5 DEF BoxesInit
  <2>2. emitted = <<>> /\ releases = 0 /\ isCapslockOn' = isCapslockOn
    BY <1>1, <2>1 DEF KeyboardInv, KeyboardType, isCapslockOn
  <2> QED
    BY <1>1, <1>2, <2>1, <2>2 DEF KeyboardInv, KeyboardType, ThemeInv, ClassicInv
<1>6. CASE select_events
  <2>1. /\ greeter = "classic" /\ stage = "read" /\ stage' = "idle"
        /\ UNCHANGED <<greeter, copy, warned>>
    BY <1>6 DEF select_events, monitorVars
  <2>2. isCapslockOn' = isCapslockOn
    BY <1>1 DEF isCapslockOn
  <2> QED
    BY <1>1, <1>2, <2>1, <2>2 DEF KeyboardInv, KeyboardType, ThemeInv, ClassicInv
<1> QED
  BY <1>3, <1>4, <1>5, <1>6

LEMMA HeadIsFirst ==
  ASSUME NEW S, NEW q \in Seq(S), q # <<>>
  PROVE  /\ Len(q) \in Nat /\ Len(q) > 0 /\ Head(q) = q[1]
         /\ Tail(q) \in Seq(S) /\ Len(Tail(q)) = Len(q) - 1
         /\ \A i \in 1 .. Len(Tail(q)) : Tail(q)[i] = q[i + 1]
<1>1. /\ Tail(q) \in Seq(S) /\ Len(Tail(q)) = Len(q) - 1
      /\ \A i \in 1 .. Len(Tail(q)) : Tail(q)[i] = q[i + 1]
  BY HeadTailProperties
<1>2. Len(q) \in Nat \ {0}
  BY EmptySeq
<1>3. Head(q) = q[1]
  BY <1>2
<1> QED
  BY <1>1, <1>2, <1>3

(* The classic greeter's thread asks, and the boxes are told.                *)
LEMMA MonitorInv ==
  ASSUME KeyboardInv, listen \/ CapslockStatusChanged
  PROVE  KeyboardInv'
<1>1. UNCHANGED <<locks, group, keymap, wire, held, greeter, stage, copy>>
  BY DEF listen, CapslockStatusChanged, serverVars
<1>0. emitted \in Seq(BOOLEAN) /\ releases \in Nat
  BY DEF KeyboardInv, KeyboardType
<1>2. greeter = "classic" /\ stage = "idle" /\ emitted \in Seq(BOOLEAN) /\ releases \in Nat
  <2>1. releases > 0 \/ emitted # <<>>
    BY DEF listen, CapslockStatusChanged
  <2>2. ~(releases = 0 /\ emitted = <<>>)
    BY <1>0, <2>1
  <2> QED
    BY <1>0, <2>2 DEF KeyboardInv, KeyboardType
<1>3. isCapslockOn' = isCapslockOn /\ isCapslockOn \in BOOLEAN
  BY <1>1 DEF isCapslockOn
<1>4. ThemeInv'
  BY <1>1 DEF KeyboardInv, ThemeInv
<1>5. CASE listen
  <2> DEFINE on == isCapslockOn
  <2>1. releases' = releases - 1 /\ releases > 0 /\ emitted' = Append(emitted, on)
    BY <1>5 DEF listen
  <2> HIDE DEF on
  <2>2. on \in BOOLEAN
    BY <1>3 DEF on
  <2>3. emitted' \in Seq(BOOLEAN) /\ emitted' # <<>> /\ emitted'[Len(emitted')] = on
    BY <1>2, <2>1, <2>2
  <2>4. KeyboardType'
    BY <1>1, <1>2, <2>1, <2>3 DEF KeyboardInv, KeyboardType
  <2>5. ClassicInv'
    BY <1>3, <2>3 DEF ClassicInv, on
  <2> QED
    BY <1>4, <2>4, <2>5 DEF KeyboardInv
<1>6. CASE CapslockStatusChanged
  <2>1. /\ emitted # <<>> /\ emitted' = Tail(emitted) /\ releases' = releases
        /\ warned' = (IF isCapslockOn THEN {"password"} ELSE {})
                       \cup (IF Head(emitted) THEN {"other"} ELSE {})
    BY <1>6 DEF CapslockStatusChanged
  <2>2. /\ emitted' \in Seq(BOOLEAN) /\ Len(emitted') = Len(emitted) - 1 /\ Len(emitted) > 0
        /\ Head(emitted) = emitted[1]
        /\ \A i \in 1 .. Len(emitted') : emitted'[i] = emitted[i + 1]
    <3> DEFINE q == emitted
               r == emitted'
    <3>1. q \in Seq(BOOLEAN) /\ q # <<>> /\ r = Tail(q)
      BY <1>2, <2>1
    <3> HIDE DEF q, r
    <3>2. /\ r \in Seq(BOOLEAN) /\ Len(r) = Len(q) - 1 /\ Len(q) > 0 /\ Head(q) = q[1]
          /\ \A i \in 1 .. Len(r) : r[i] = q[i + 1]
      BY <3>1, HeadIsFirst
    <3> QED
      BY <3>2 DEF q, r
  <2>3. KeyboardType'
    BY <1>1, <1>2, <2>1, <2>2 DEF KeyboardInv, KeyboardType
  <2>4. ASSUME releases' = 0, emitted' = <<>>
        PROVE  warned' = IF isCapslockOn THEN Boxes ELSE {}
    <3>1. Len(emitted) = 1
      BY <2>2, <2>4
    <3>2. emitted[1] = isCapslockOn
      BY <1>2, <2>1, <2>4, <3>1 DEF KeyboardInv, ClassicInv
    <3> QED
      BY <2>1, <2>2, <3>2 DEF Boxes
  <2>5. ASSUME releases' = 0, emitted' # <<>>
        PROVE  emitted'[Len(emitted')] = isCapslockOn
    <3>1. emitted[Len(emitted)] = isCapslockOn
      BY <1>2, <2>1, <2>5 DEF KeyboardInv, ClassicInv
    <3>2. Len(emitted') \in 1 .. Len(emitted') /\ Len(emitted') + 1 = Len(emitted)
      BY <2>2, <2>5
    <3> QED
      BY <2>2, <3>1, <3>2
  <2>6. ClassicInv'
    BY <1>3, <2>4, <2>5 DEF ClassicInv
  <2> QED
    BY <1>4, <2>3, <2>6 DEF KeyboardInv
<1> QED
  BY <1>5, <1>6

LEMMA KeyboardInvStep ==
  ASSUME KeyboardInv, Known \subseteq ReadRight, Races = {}, [KeyboardNext]_keyboardVars
  PROVE  KeyboardInv'
<1>1. CASE \E k \in Lock : LockPressed(k)
  BY <1>1, LockPressedInv
<1>2. CASE GroupPressed \/ \E k \in Keymap : KeymapSet(k)
  BY <1>2, GroupsChangeInv
<1>3. CASE setCurrentLayout \/ \E k \in Lock : setLockState(k)
  BY <1>3, UserSetsInv
<1>4. CASE RequestChecked
  BY <1>4, RequestCheckedInv
<1>5. CASE dispatchEvents
  BY <1>5, DispatchInv
<1>6. CASE BackendInit \/ connectEventsDispatcher \/ BoxesInit \/ select_events
  BY <1>6, GreeterStartsInv
<1>7. CASE listen \/ CapslockStatusChanged
  BY <1>7, MonitorInv
<1>8. CASE UNCHANGED keyboardVars
  BY <1>8 DEF keyboardVars, KeyboardInv, KeyboardType, ThemeInv, ClassicInv, isCapslockOn
<1> QED
  BY <1>1, <1>2, <1>3, <1>4, <1>5, <1>6, <1>7, <1>8 DEF KeyboardNext

LEMMA KeyboardInvInit ==
  ASSUME Known \subseteq ReadRight, KeyboardInit
  PROVE  KeyboardInv
<1>1. keymap \in Known
  BY DEF KeyboardInit, Known
<1>2. Count(keymap) \in Nat \ {0}
  BY <1>1, KnownGroups
<1>3. copy \in CopyType
  BY DEF KeyboardInit, CopyType
<1>4. wire \in Seq(Event) /\ held \in Seq(Event) /\ emitted \in Seq(BOOLEAN)
  BY DEF KeyboardInit
<1> QED
  BY <1>1, <1>2, <1>3, <1>4 DEF KeyboardInit, KeyboardInv, KeyboardType, ThemeInv, ClassicInv

LEMMA KeyboardIsShown ==
  ASSUME KeyboardInv, Known \subseteq ReadRight
  PROVE  KeyboardAgrees
<1>1. ASSUME stage = "idle", greeter = "theme", wire = <<>>, held = <<>>
      PROVE  copy = [locks |-> locks, layout |-> group,
                     layouts |-> [i \in DOMAIN Groups(keymap) |->
                                    <<Groups(keymap)[i], Groups(keymap)[i]>>]]
  <2>1. held \o wire = <<>>
    BY <1>1
  <2>2. CopyFollows(<<>>, copy, locks, group, keymap)
    BY <1>1, <2>1 DEF KeyboardInv, ThemeInv
  <2>3. copy.locks = locks /\ copy.layout = group /\ copy.layouts = Layouts(keymap)
    BY <2>2 DEF CopyFollows, Stated, Remapped
  <2>4. copy = [locks |-> copy.locks, layout |-> copy.layout, layouts |-> copy.layouts]
    BY KeyboardParts DEF CopyType
  <2>5. Layouts(keymap) = [i \in DOMAIN Groups(keymap) |->
                                    <<Groups(keymap)[i], Groups(keymap)[i]>>]
    BY KeyboardParts, KnownGroups
  <2> QED
    BY <2>3, <2>4, <2>5
<1>2. ASSUME stage = "idle", greeter # "theme", releases = 0, emitted = <<>>
      PROVE  warned = IF isCapslockOn THEN Boxes ELSE {}
  <2>1. greeter = "classic"
    BY <1>2 DEF KeyboardInv, KeyboardType
  <2> QED
    BY <1>2, <2>1 DEF KeyboardInv, ClassicInv
<1> QED
  BY <1>1, <1>2 DEF KeyboardAgrees

LEMMA KeyboardIsTrue ==
  ASSUME Races = {}, Known \subseteq ReadRight
  PROVE  Spec => []KeyboardAgrees
<1>1. Init => KeyboardInv
  BY KeyboardInvInit DEF Init
<1>2. KeyboardInv /\ [Next]_servicesVars => KeyboardInv'
  <2>1. [Next]_servicesVars => KeyboardNext \/ UNCHANGED keyboardVars
    BY PartsApart
  <2> QED
    BY <2>1, KeyboardInvStep
<1>3. KeyboardInv => KeyboardAgrees
  BY KeyboardIsShown
<1> QED
  BY <1>1, <1>2, <1>3, PTL DEF Spec

-----------------------------------------------------------------------------
(* The sessions of the themed greeter.                                       *)

(* A view that is shown; its top row is that of some list of sessions.       *)
TopRow == {RowOf(files, i) : files \in SUBSET Desktop, i \in Nat}
View == [open : BOOLEAN, index : Nat, row : Nat, top : TopRow]

ThemeType ==
  /\ available \in SUBSET Desktop /\ lastIndex \in Nat
  /\ plugged \in SUBSET Output /\ primary \in plugged
  /\ views \in [Output -> View \cup {NoView}]

(* Each view shows the session at its index, and a login is for that one; as *)
(* long as one may be started every screen has its view, and the primary one *)
(* the focus.                                                                *)
ViewsInv ==
  /\ \A v \in Output : views[v] # NoView => SessionAt(views[v].index) = views[v].top
  /\ sent # NoLogin => sent.session = sent.shown
  /\ daemon \in {"connected", "busy"} =>
       activeView = primary /\ \A s \in plugged : views[s] # NoView

LoginsInv == ThemeType /\ ViewsInv

LEMMA ViewsAreShown ==
  /\ NoView \notin View
  /\ \A files \in SUBSET Desktop, i \in Nat : RowOf(files, i) \in TopRow
BY DEF View, NoView, TopRow

LEMMA FreshViews ==
  ASSUME available \in SUBSET Desktop, lastIndex \in Nat
  PROVE  /\ ThemeView \in View /\ ThemeView # NoView
         /\ SessionAt(ThemeView.index) = ThemeView.top
<1> DEFINE t == SessionAt(lastIndex)
           w == ThemeView
<1>1. t \in TopRow
  BY ViewsAreShown DEF SessionAt
<1>2. w = [open |-> FALSE, index |-> lastIndex, row |-> lastIndex, top |-> t]
  BY DEF ThemeView
<1> HIDE DEF t, w
<1>3. w \in View /\ w.index = lastIndex /\ w.top = t
  BY <1>1, <1>2 DEF View
<1>4. w # NoView
  BY <1>3, ViewsAreShown
<1> QED
  BY <1>3, <1>4 DEF t, w

LEMMA CountOfSessions ==
  ASSUME NEW files \in SUBSET Desktop, NEW remembered
  PROVE  /\ Cardinality(files) \in Nat
         /\ lastIndex \in Nat => Populates(files, remembered) \in Nat
<1>1. \A T \in SUBSET Desktop : IsFiniteSet(T) /\ Cardinality(T) \in Nat
  BY ThemeGreeterAssumption, FS_Subset, FS_CardinalityType
<1>2. {d \in files : d < remembered} \in SUBSET Desktop
  OBVIOUS
<1> QED
  BY <1>1, <1>2 DEF Populates

(* One view changes, and its session with its index.                         *)
LEMMA ViewChanges ==
  ASSUME LoginsInv, NEW v \in Output, NEW w \in View, Sets(v, w), views[v] # NoView,
         SessionAt(w.index) = w.top,
         UNCHANGED <<available, lastIndex, plugged, primary, activeView, daemon, sent>>
  PROVE  LoginsInv'
<1>1. views' = [views EXCEPT ![v] = w] /\ w # NoView
  BY ViewsAreShown DEF Sets
<1>2. \A i : SessionAt(i)' = RowOf(available, i)
  BY DEF SessionAt
<1>3. ThemeType'
  BY <1>1 DEF LoginsInv, ThemeType
<1>4. \A s \in Output : views'[s] = IF s = v THEN w ELSE views[s]
  BY <1>1 DEF LoginsInv, ThemeType
<1>5. \A s \in Output : views'[s] # NoView => RowOf(available, views'[s].index) = views'[s].top
  BY <1>4 DEF LoginsInv, ViewsInv, SessionAt
<1>6. ViewsInv'
  BY <1>1, <1>4, <1>5 DEF LoginsInv, ViewsInv, SessionAt, ThemeType
<1> QED
  BY <1>3, <1>6 DEF LoginsInv

LEMMA SessionBoxMoves ==
  ASSUME LoginsInv, NEW v \in Output, RowMoves(v) \/ OpensBox(v) \/ ClosesBox(v)
  PROVE  LoginsInv'
<1>1. /\ views[v] \in View /\ views[v] # NoView
      /\ UNCHANGED <<available, lastIndex, plugged, primary, activeView, daemon, sent>>
  BY DEF RowMoves, OpensBox, ClosesBox, HasFocus, Shown, LoginsInv, ThemeType
<1> DEFINE here == views[v]
<1>2. here \in View /\ SessionAt(here.index) = here.top
  BY <1>1 DEF LoginsInv, ViewsInv
<1>3. CASE RowMoves(v)
  <2>1. PICK r \in 0 .. Cardinality(available) - 1 : Sets(v, [here EXCEPT !.row = r])
    BY <1>3 DEF RowMoves
  <2>2. r \in Nat
    BY CountOfSessions DEF LoginsInv, ThemeType
  <2> DEFINE w == [here EXCEPT !.row = r]
  <2> HIDE DEF here
  <2>3. w \in View /\ w.index = here.index /\ w.top = here.top
    BY <1>2, <2>2 DEF View
  <2> HIDE DEF w
  <2> QED
    BY <1>1, <1>2, <2>1, <2>3, ViewChanges DEF here, w
<1>4. CASE OpensBox(v)
  <2> DEFINE w == [here EXCEPT !.open = TRUE, !.row = here.index]
  <2>1. Sets(v, w)
    BY <1>4 DEF OpensBox
  <2> HIDE DEF here
  <2>3. w \in View /\ w.index = here.index /\ w.top = here.top
    BY <1>2 DEF View
  <2> HIDE DEF w
  <2> QED
    BY <1>1, <1>2, <2>1, <2>3, ViewChanges DEF here
<1>5. CASE ClosesBox(v)
  <2>1. PICK update \in BOOLEAN : Sets(v, Closed(v, update))
    BY <1>5 DEF ClosesBox
  <2>2. CASE update
    <3> DEFINE w == [here EXCEPT !.open = FALSE, !.index = here.row, !.top = SessionAt(here.row)]
    <3>1. Sets(v, w)
      BY <2>1, <2>2 DEF Closed
    <3>2. SessionAt(here.row) \in TopRow
      BY <1>2, ViewsAreShown DEF SessionAt, LoginsInv, ThemeType, View
    <3> HIDE DEF here
    <3>3. w \in View /\ w.index = here.row /\ w.top = SessionAt(here.row)
      BY <1>2, <3>2 DEF View
    <3> HIDE DEF w
    <3> QED
      BY <1>1, <3>1, <3>3, ViewChanges DEF here
  <2>3. CASE ~update
    <3> DEFINE w == [here EXCEPT !.open = FALSE]
    <3>1. Sets(v, w)
      BY <2>1, <2>3 DEF Closed
    <3> HIDE DEF here
    <3>3. w \in View /\ w.index = here.index /\ w.top = here.top
      BY <1>2 DEF View
    <3> HIDE DEF w
    <3> QED
      BY <1>1, <1>2, <3>1, <3>3, ViewChanges DEF here
  <2> QED
    BY <2>2, <2>3
<1> QED
  BY <1>3, <1>4, <1>5

(* Screens come and go.                                                      *)
LEMMA ScreensInv ==
  ASSUME LoginsInv, AddViewForScreen \/ RemoveViewForScreen
  PROVE  LoginsInv'
<1>1. UNCHANGED <<available, lastIndex, daemon, sent>>
  BY DEF AddViewForScreen, RemoveViewForScreen
<1>2. \A i : SessionAt(i)' = SessionAt(i)
  BY <1>1 DEF SessionAt
<1>3. CASE AddViewForScreen
  <2>1. PICK s \in Output \ plugged, becomesPrimary \in BOOLEAN :
          /\ plugged' = plugged \cup {s} /\ Sets(s, ThemeView)
          /\ primary' = IF becomesPrimary \/ plugged = {} THEN s ELSE primary
          /\ ActivatePrimary(IF primary' = primary THEN NoScreen ELSE primary')
    BY <1>3 DEF AddViewForScreen
  <2> DEFINE w == ThemeView
  <2>2. w \in View /\ w # NoView /\ SessionAt(w.index) = w.top
    BY FreshViews DEF LoginsInv, ThemeType
  <2>3. views' = [views EXCEPT ![s] = w]
    BY <2>1 DEF Sets
  <2> HIDE DEF w
  <2>4. \A t \in Output : views'[t] = IF t = s THEN w ELSE views[t]
    BY <2>3 DEF LoginsInv, ThemeType
  <2>5. ThemeType'
    BY <1>1, <2>1, <2>2, <2>3 DEF LoginsInv, ThemeType
  <2>6. \A t \in Output : views'[t] # NoView => SessionAt(views'[t].index) = views'[t].top
    BY <2>2, <2>4 DEF LoginsInv, ViewsInv
  <2>7. daemon \in {"connected", "busy"} =>
          activeView' = primary' /\ \A t \in plugged' : views'[t] # NoView
    <3> SUFFICES ASSUME daemon \in {"connected", "busy"}
                 PROVE  activeView' = primary' /\ \A t \in plugged' : views'[t] # NoView
      OBVIOUS
    <3>1. \A t \in plugged' : views'[t] # NoView
      BY <2>1, <2>2, <2>4 DEF LoginsInv, ViewsInv, ThemeType
    <3>2. primary' # primary => primary' = s /\ s # NoScreen /\ views'[s] # NoView
      BY <2>1, <2>2, <2>4, ThemeGreeterAssumption DEF NoScreen
    <3>3. activeView = primary
      BY DEF LoginsInv, ViewsInv
    <3> QED
      BY <2>1, <3>1, <3>2, <3>3 DEF ActivatePrimary
  <2> QED
    BY <1>1, <1>2, <2>5, <2>6, <2>7 DEF LoginsInv, ViewsInv
<1>4. CASE RemoveViewForScreen
  <2>1. PICK s \in plugged :
          /\ plugged' = plugged \ {s} /\ plugged' # {} /\ Sets(s, NoView)
          /\ primary' \in IF s = primary THEN plugged' ELSE {primary}
          /\ ActivatePrimary(IF s = primary THEN primary' ELSE NoScreen)
    BY <1>4 DEF RemoveViewForScreen
  <2>2. views' = [views EXCEPT ![s] = NoView] /\ s \in Output
    BY <2>1 DEF Sets, LoginsInv, ThemeType
  <2>4. \A t \in Output : views'[t] = IF t = s THEN NoView ELSE views[t]
    BY <2>2 DEF LoginsInv, ThemeType
  <2>5. primary' \in plugged' /\ (s # primary => primary' = primary)
    BY <2>1 DEF LoginsInv, ThemeType
  <2>8. ThemeType'
    BY <1>1, <2>1, <2>2, <2>5 DEF LoginsInv, ThemeType
  <2>6. \A t \in Output : views'[t] # NoView => SessionAt(views'[t].index) = views'[t].top
    BY <2>4 DEF LoginsInv, ViewsInv
  <2>7. daemon \in {"connected", "busy"} =>
          activeView' = primary' /\ \A t \in plugged' : views'[t] # NoView
    <3> SUFFICES ASSUME daemon \in {"connected", "busy"}
                 PROVE  activeView' = primary' /\ \A t \in plugged' : views'[t] # NoView
      OBVIOUS
    <3>1. \A t \in plugged' : views'[t] # NoView
      BY <2>1, <2>4 DEF LoginsInv, ViewsInv, ThemeType
    <3>2. primary' # NoScreen /\ views'[primary'] # NoView
      BY <2>5, <2>8, <3>1, ThemeGreeterAssumption DEF NoScreen, ThemeType
    <3>3. activeView = primary
      BY DEF LoginsInv, ViewsInv
    <3> QED
      BY <2>1, <2>5, <3>1, <3>2, <3>3 DEF ActivatePrimary
  <2> QED
    BY <1>1, <1>2, <2>8, <2>6, <2>7 DEF LoginsInv, ViewsInv
<1> QED
  BY <1>3, <1>4

(* The directories change, but not the sessions that are shown.              *)
LEMMA SessionsChangeInv ==
  ASSUME LoginsInv, ~MayRenumber, SessionsChange
  PROVE  LoginsInv'
<1>1. /\ UNCHANGED <<plugged, primary, views, activeView, daemon, sent>>
      /\ \A s \in Output : Shown(s) => RowOf(available', views[s].index) = views[s].top
      /\ \E remembered \in Desktop : lastIndex' = Populates(available', remembered)
  BY DEF SessionsChange
<1>2. available' \in SUBSET Desktop
  <2>1. PICK d \in Desktop : available' = SymDiff(available, {d})
    BY DEF SessionsChange
  <2> QED
    BY <2>1 DEF SymDiff, LoginsInv, ThemeType
<1>3. lastIndex' \in Nat
  BY <1>1, <1>2, CountOfSessions DEF LoginsInv, ThemeType
<1>4. ThemeType'
  BY <1>1, <1>2, <1>3 DEF LoginsInv, ThemeType
<1>5. ViewsInv'
  BY <1>1 DEF LoginsInv, ViewsInv, SessionAt, Shown
<1> QED
  BY <1>4, <1>5 DEF LoginsInv

(* A login is sent, and answered.                                            *)
LEMMA LoginsInvKept ==
  ASSUME LoginsInv,
         \/ \E v \in Output : Logs(v)
         \/ DaemonReadsLogin \/ LoginFailed \/ LoginSucceeded \/ SocketDisconnected
  PROVE  LoginsInv'
<1>1. UNCHANGED <<available, lastIndex, plugged, primary, activeView>>
  BY DEF Logs, DaemonReadsLogin, LoginFailed, LoginSucceeded, SocketDisconnected
<1>2. \A i : SessionAt(i)' = SessionAt(i)
  BY <1>1 DEF SessionAt
<1>3. ASSUME NEW v \in Output, Logs(v) PROVE LoginsInv'
  <2> DEFINE login == [session |-> SessionAt(views[v].index), shown |-> views[v].top]
  <2>1. UNCHANGED <<views, daemon>> /\ sent' = login /\ views[v] # NoView
    BY <1>3 DEF Logs, HasFocus, Shown
  <2>2. login.session = login.shown
    BY <2>1 DEF LoginsInv, ViewsInv
  <2> HIDE DEF login
  <2> QED
    BY <1>1, <1>2, <2>1, <2>2 DEF LoginsInv, ThemeType, ViewsInv
<1>4. CASE DaemonReadsLogin
  <2>1. sent' = NoLogin /\ views' = views
    BY <1>4 DEF DaemonReadsLogin
  <2>2. daemon' \in {"connected", "busy"} => daemon \in {"connected", "busy"}
    BY <1>4 DEF DaemonReadsLogin
  <2> QED
    BY <1>1, <1>2, <2>1, <2>2 DEF LoginsInv, ThemeType, ViewsInv
<1>5. CASE LoginFailed
  BY <1>1, <1>2, <1>5 DEF LoginFailed, LoginsInv, ThemeType, ViewsInv
<1>6. CASE LoginSucceeded
  <2>1. /\ sent' = sent /\ daemon' = "won" /\ views' = [s \in Output |-> NoView]
    BY <1>6 DEF LoginSucceeded
  <2> QED
    BY <1>1, <1>2, <2>1 DEF LoginsInv, ThemeType, ViewsInv
<1>7. CASE SocketDisconnected
  BY <1>1, <1>2, <1>7 DEF SocketDisconnected, LoginsInv, ThemeType, ViewsInv
<1> QED
  BY <1>3, <1>4, <1>5, <1>6, <1>7

LEMMA LoginsInvInit ==
  ASSUME ThemeInit
  PROVE  LoginsInv
<1>1. /\ available \in SUBSET Desktop /\ lastIndex \in Nat
      /\ plugged \in SUBSET Output /\ primary \in plugged
      /\ views = [s \in Output |-> IF s \in plugged THEN ThemeView ELSE NoView]
      /\ activeView = primary /\ sent = NoLogin
  BY DEF ThemeInit
<1> DEFINE w == ThemeView
<1>2. w \in View /\ w # NoView /\ SessionAt(w.index) = w.top
  BY <1>1, FreshViews
<1>3. views = [s \in Output |-> IF s \in plugged THEN w ELSE NoView]
  BY <1>1
<1> HIDE DEF w
<1> QED
  BY <1>1, <1>2, <1>3 DEF LoginsInv, ThemeType, ViewsInv

(* A login is for the session its view shows, as long as no change of the    *)
(* directories moves the sessions that are shown (MayRenumber).              *)
LEMMA LoginIsAsShown ==
  ASSUME ~MayRenumber
  PROVE  Spec => []ThemeLogsInAsShown
<1>1. Init => LoginsInv
  BY LoginsInvInit DEF Init
<1>2. LoginsInv /\ [Next]_servicesVars => LoginsInv'
  <2>1. [Next]_servicesVars => ThemeNext \/ UNCHANGED themeVars
    BY PartsApart
  <2>2. LoginsInv /\ UNCHANGED themeVars => LoginsInv'
    BY DEF LoginsInv, ThemeType, ViewsInv, SessionAt, themeVars
  <2> QED
    BY <2>1, <2>2, SessionBoxMoves, ScreensInv, SessionsChangeInv, LoginsInvKept DEF ThemeNext
<1>3. LoginsInv => ThemeLogsInAsShown
  BY DEF LoginsInv, ViewsInv, ThemeLogsInAsShown, Shown
<1> QED
  BY <1>1, <1>2, <1>3, PTL DEF Spec

-----------------------------------------------------------------------------
(* The volume slider.                                                        *)

(* What is in a queue q, and what comes last in it, of the messages of S.    *)
Among(q, S) == \E i \in 1 .. Len(q) : q[i] \in S
LastAt(q, S, i) ==
  /\ i \in 1 .. Len(q) /\ q[i] \in S
  /\ \A j \in 1 .. Len(q) : q[j] \in S => j <= i
Latest(q, S, m) == \E i \in 1 .. Len(q) : LastAt(q, S, i) /\ q[i] = m

LEMMA LatestIsAmong ==
  ASSUME NEW q, NEW S
  PROVE  /\ \A m : Latest(q, S, m) => m \in S /\ \A T : m \in T => Among(q, T)
         /\ ~Among(<<>>, S) /\ \A m : ~Latest(<<>>, S, m)
  BY DEF Among, LastAt, Latest

LEMMA AppendedIsLatest ==
  ASSUME NEW M, NEW q \in Seq(M), NEW m \in M, NEW S
  PROVE  LET r == Append(q, m)
         IN  /\ r \in Seq(M)
             /\ Among(r, S) <=> Among(q, S) \/ m \in S
             /\ m \in S => \A x : Latest(r, S, x) <=> x = m
             /\ m \notin S => \A x : Latest(r, S, x) <=> Latest(q, S, x)
<1> DEFINE r == Append(q, m)
<1>1. /\ r \in Seq(M) /\ Len(r) = Len(q) + 1 /\ r[Len(q) + 1] = m
      /\ \A i \in 1 .. Len(q) : r[i] = q[i]
      /\ Len(q) \in Nat
  OBVIOUS
<1> HIDE DEF r
<1>2. Among(r, S) <=> Among(q, S) \/ m \in S
  <2>1. Among(q, S) => Among(r, S)
    BY <1>1 DEF Among
  <2>2. m \in S => Among(r, S)
    BY <1>1 DEF Among
  <2>3. Among(r, S) => Among(q, S) \/ m \in S
    BY <1>1 DEF Among
  <2> QED
    BY <2>1, <2>2, <2>3
<1>3. ASSUME m \in S, NEW x PROVE Latest(r, S, x) <=> x = m
  <2>1. \A i : LastAt(r, S, i) <=> i = Len(q) + 1
    BY <1>1, <1>3 DEF LastAt
  <2> QED
    BY <1>1, <2>1 DEF Latest
<1>4. ASSUME m \notin S, NEW x PROVE Latest(r, S, x) <=> Latest(q, S, x)
  <2>1. \A i : LastAt(r, S, i) <=> LastAt(q, S, i)
    BY <1>1, <1>4 DEF LastAt
  <2>2. \A i : LastAt(q, S, i) => r[i] = q[i] /\ i \in 1 .. Len(q)
    BY <1>1 DEF LastAt
  <2>3. 1 .. Len(q) \subseteq 1 .. Len(r)
    BY <1>1
  <2> QED
    BY <2>1, <2>2, <2>3 DEF Latest
<1> QED
  BY <1>1, <1>2, <1>3, <1>4 DEF r

LEMMA RestIsLatest ==
  ASSUME NEW M, NEW q \in Seq(M), q # <<>>, NEW S
  PROVE  /\ Head(q) \in M /\ Tail(q) \in Seq(M)
         /\ Among(q, S) <=> Head(q) \in S \/ Among(Tail(q), S)
         /\ Among(Tail(q), S) => \A x : Latest(Tail(q), S, x) <=> Latest(q, S, x)
         /\ ~Among(Tail(q), S) => \A x : ~Latest(Tail(q), S, x)
         /\ ~Among(Tail(q), S) /\ Head(q) \in S => Latest(q, S, Head(q))
<1> DEFINE r == Tail(q)
           h == Head(q)
<1>1. /\ r \in Seq(M) /\ Len(r) = Len(q) - 1 /\ h \in M /\ h = q[1]
      /\ \A i \in 1 .. Len(r) : r[i] = q[i + 1]
      /\ Len(q) \in Nat \ {0}
  <2>1. Len(q) \in Nat \ {0}
    BY EmptySeq
  <2>2. Head(q) = q[1]
    BY <2>1
  <2> QED
    BY <2>1, <2>2, HeadTailProperties
<1> HIDE DEF r, h
<1>2. Among(q, S) <=> h \in S \/ Among(r, S)
  <2>1. h \in S => Among(q, S)
    BY <1>1 DEF Among
  <2>2. ASSUME NEW i \in 1 .. Len(r), r[i] \in S PROVE Among(q, S)
    <3>1. i + 1 \in 1 .. Len(q) /\ q[i + 1] \in S
      BY <1>1, <2>2
    <3> QED
      BY <3>1 DEF Among
  <2>3. ASSUME NEW i \in 1 .. Len(q), q[i] \in S PROVE h \in S \/ Among(r, S)
    <3>1. CASE i = 1
      BY <1>1, <2>3, <3>1
    <3>2. CASE i # 1
      <4>1. i - 1 \in 1 .. Len(r) /\ r[i - 1] = q[i]
        BY <1>1, <3>2
      <4> QED
        BY <2>3, <4>1 DEF Among
    <3> QED
      BY <3>1, <3>2
  <2> QED
    BY <2>1, <2>2, <2>3 DEF Among
<1>3. ASSUME NEW i \in Int PROVE LastAt(r, S, i) => LastAt(q, S, i + 1) /\ r[i] = q[i + 1]
  <2> SUFFICES ASSUME LastAt(r, S, i) PROVE LastAt(q, S, i + 1) /\ r[i] = q[i + 1]
    OBVIOUS
  <2>1. i + 1 \in 1 .. Len(q) /\ r[i] = q[i + 1] /\ q[i + 1] \in S
    BY <1>1 DEF LastAt
  <2>2. ASSUME NEW j \in 1 .. Len(q), q[j] \in S PROVE j <= i + 1
    <3>1. j = 1 \/ (j - 1 \in 1 .. Len(r) /\ r[j - 1] = q[j])
      BY <1>1
    <3>2. i >= 1
      BY DEF LastAt
    <3> QED
      BY <2>2, <3>1, <3>2 DEF LastAt
  <2> QED
    BY <2>1, <2>2 DEF LastAt
<1>4. ASSUME Among(r, S), NEW i \in Int
      PROVE  LastAt(q, S, i) => LastAt(r, S, i - 1) /\ r[i - 1] = q[i]
  <2> SUFFICES ASSUME LastAt(q, S, i) PROVE LastAt(r, S, i - 1) /\ r[i - 1] = q[i]
    OBVIOUS
  <2>1. PICK j \in 1 .. Len(r) : r[j] \in S
    BY <1>4 DEF Among
  <2>2. j + 1 \in 1 .. Len(q) /\ q[j + 1] \in S
    BY <1>1, <2>1
  <2>3. j + 1 <= i
    BY <2>2 DEF LastAt
  <2>4. i - 1 \in 1 .. Len(r) /\ r[i - 1] = q[i] /\ q[i] \in S
    BY <1>1, <2>3 DEF LastAt
  <2>5. ASSUME NEW n \in 1 .. Len(r), r[n] \in S PROVE n <= i - 1
    <3>1. n + 1 \in 1 .. Len(q) /\ q[n + 1] \in S
      BY <1>1, <2>5
    <3>2. n + 1 <= i
      BY <3>1 DEF LastAt
    <3> QED
      BY <3>2
  <2> QED
    BY <2>4, <2>5 DEF LastAt
<1>5. ASSUME Among(r, S), NEW x PROVE Latest(r, S, x) <=> Latest(q, S, x)
  <2>1. \A p, i : LastAt(p, S, i) => i \in Int /\ i \in 1 .. Len(p)
    BY DEF LastAt
  <2>2. Latest(r, S, x) => Latest(q, S, x)
    BY <1>3, <2>1 DEF Latest
  <2>3. Latest(q, S, x) => Latest(r, S, x)
    BY <1>4, <1>5, <2>1 DEF Latest
  <2> QED
    BY <2>2, <2>3
<1>6. ~Among(r, S) => \A x : ~Latest(r, S, x)
  BY DEF Among, Latest, LastAt
<1>7. ASSUME ~Among(r, S), h \in S PROVE Latest(q, S, h)
  <2>1. \A j \in 1 .. Len(q) : q[j] \in S => j <= 1
    <3> SUFFICES ASSUME NEW j \in 1 .. Len(q), q[j] \in S, j # 1 PROVE FALSE
      OBVIOUS
    <3>1. j - 1 \in 1 .. Len(r) /\ r[j - 1] = q[j]
      BY <1>1
    <3> QED
      BY <1>7, <3>1 DEF Among
  <2>2. LastAt(q, S, 1)
    BY <1>1, <1>7, <2>1 DEF LastAt
  <2> QED
    BY <1>1, <2>2 DEF Latest
<1> QED
  BY <1>1, <1>2, <1>5, <1>6, <1>7 DEF r, h

-----------------------------------------------------------------------------
(* The messages and calls.                                                   *)
OwnerChanged(b) == [type |-> "NameOwnerChanged", up |-> b]
SinkNamed(s) == [type |-> "DefaultSink", sink |-> s]
SinkTold(s, level) == [type |-> "SinkReply", sink |-> s, level |-> level]
LevelTold(level) == [type |-> "Level", level |-> level]
AudioMessage ==
  [type : {"NameOwnerChanged"}, up : BOOLEAN]
    \cup [type : {"DefaultSink"}, sink : Sink \cup {NoSink}]
    \cup [type : {"SinkReply"}, sink : Sink, level : Level] \cup [type : {"Level"}, level : Level]

AskAll == [type |-> "GetAll"]
AskSink(s) == [type |-> "GetSink", sink |-> s]
AskVolume(s, v) == [type |-> "SetVolume", sink |-> s, volume |-> v]
AskMute(s, b) == [type |-> "SetMute", sink |-> s, muted |-> b]
AudioCall ==
  {AskAll} \cup {AskSink(s) : s \in Sink} \cup {AskVolume(s, v) : s \in Sink, v \in {0, 1}}
    \cup {AskMute(s, b) : s \in Sink, b \in BOOLEAN}

(* What they are about: which sink is followed, or how loud the sink k is;   *)
(* and those with which k is followed no more.                               *)
News == {m \in AudioMessage : m.type \in {"NameOwnerChanged", "DefaultSink"}}
LevelsOf(k) ==
  {m \in AudioMessage : m.type = "Level" \/ (m.type = "SinkReply" /\ m.sink = k)}
Leaving(k) ==
  {m \in AudioMessage : \/ m.type = "NameOwnerChanged" /\ ~m.up
                        \/ m.type = "DefaultSink" /\ m.sink # k}

(* The sink that is followed will be the default one.                        *)
Claims(m, on, default) ==
  IF m.type = "NameOwnerChanged" THEN on = m.up ELSE on /\ default = m.sink
SinkFollows(q, on, default, calls, k) ==
  /\ \A m \in AudioMessage : Latest(q, News, m) => Claims(m, on, default)
  /\ Among(q, News) => \E m \in AudioMessage : Latest(q, News, m)
  /\ ~Among(q, News) => IF on THEN AskAll \in calls \/ k = default ELSE k = NoSink

(* What is shown of the sink k will be so, or k is not followed any more.    *)
LevelFollows(q, calls, k, truth, seen) ==
  \/ AskSink(k) \in calls
  \/ Among(q, Leaving(k))
  \/ /\ \A m \in AudioMessage : Latest(q, LevelsOf(k), m) => m.level = truth
     /\ Among(q, LevelsOf(k)) => \E m \in AudioMessage : Latest(q, LevelsOf(k), m)
     /\ ~Among(q, LevelsOf(k)) =>
          /\ seen.volume = truth.volume \/ AskVolume(k, seen.volume) \in calls
          /\ seen.muted = truth.muted \/ AskMute(k, seen.muted) \in calls

AudioType ==
  /\ audioUp \in BOOLEAN /\ defaultSink \in Sink \cup {NoSink} /\ sinks \in [Sink -> Level]
  /\ audioCalls \in SUBSET AudioCall /\ audioInbox \in Seq(AudioMessage)
  /\ volumeShown \in BOOLEAN /\ sink_ \in Sink \cup {NoSink} /\ volume_ \in Level

AudioInv ==
  /\ AudioType
  /\ audioCalls # {} => audioUp
  /\ ~volumeShown => audioCalls = {} /\ audioInbox = <<>> /\ sink_ = NoSink
  /\ volumeShown => SinkFollows(audioInbox, audioUp, defaultSink, audioCalls, sink_)
  /\ volumeShown /\ sink_ # NoSink =>
       LevelFollows(audioInbox, audioCalls, sink_, sinks[sink_], volume_)

LEMMA NoSinkApart == NoSink \notin Sink
  BY VolumeAssumption DEF NoSink

LEMMA MessagesAre ==
  /\ \A b \in BOOLEAN :
       /\ OwnerChanged(b) \in News
       /\ \A k : /\ OwnerChanged(b) \notin LevelsOf(k)
                 /\ OwnerChanged(b) \in Leaving(k) <=> ~b
       /\ \A on, default : Claims(OwnerChanged(b), on, default) <=> on = b
  /\ \A s \in Sink \cup {NoSink} :
       /\ SinkNamed(s) \in News
       /\ \A k : SinkNamed(s) \notin LevelsOf(k) /\ (SinkNamed(s) \in Leaving(k) <=> s # k)
       /\ \A on, default : Claims(SinkNamed(s), on, default) <=> on /\ default = s
  /\ \A s \in Sink, level \in Level :
       /\ SinkTold(s, level) \in AudioMessage \ News /\ SinkTold(s, level).level = level
       /\ \A k : /\ SinkTold(s, level) \in LevelsOf(k) <=> s = k
                 /\ SinkTold(s, level) \notin Leaving(k)
  /\ \A level \in Level :
       /\ LevelTold(level) \in AudioMessage \ News /\ LevelTold(level).level = level
       /\ \A k : LevelTold(level) \in LevelsOf(k) /\ LevelTold(level) \notin Leaving(k)
  /\ News \subseteq AudioMessage
  /\ \A m \in AudioMessage :
       \/ \E b \in BOOLEAN : m = OwnerChanged(b)
       \/ \E s \in Sink \cup {NoSink} : m = SinkNamed(s)
       \/ \E s \in Sink, level \in Level : m = SinkTold(s, level)
       \/ \E level \in Level : m = LevelTold(level)
<1>1. ASSUME NEW b \in BOOLEAN
      PROVE  /\ OwnerChanged(b) \in News
             /\ \A k : /\ OwnerChanged(b) \notin LevelsOf(k)
                       /\ OwnerChanged(b) \in Leaving(k) <=> ~b
             /\ \A on, default : Claims(OwnerChanged(b), on, default) <=> on = b
  <2> DEFINE m == OwnerChanged(b)
  <2>1. m \in AudioMessage /\ m.type = "NameOwnerChanged" /\ (m.up <=> b) /\ m.up = b
    BY DEF OwnerChanged, AudioMessage
  <2> HIDE DEF m
  <2> QED
    BY <2>1 DEF News, LevelsOf, Leaving, Claims, m
<1>2. ASSUME NEW s \in Sink \cup {NoSink}
      PROVE  /\ SinkNamed(s) \in News
             /\ \A k : SinkNamed(s) \notin LevelsOf(k) /\ (SinkNamed(s) \in Leaving(k) <=> s # k)
             /\ \A on, default : Claims(SinkNamed(s), on, default) <=> on /\ default = s
  <2> DEFINE m == SinkNamed(s)
  <2>1. m \in AudioMessage /\ m.type = "DefaultSink" /\ m.sink = s
    BY DEF SinkNamed, AudioMessage
  <2> HIDE DEF m
  <2> QED
    BY <2>1 DEF News, LevelsOf, Leaving, Claims, m
<1>3. ASSUME NEW s \in Sink, NEW level \in Level
      PROVE  /\ SinkTold(s, level) \in AudioMessage \ News /\ SinkTold(s, level).level = level
             /\ \A k : /\ SinkTold(s, level) \in LevelsOf(k) <=> s = k
                       /\ SinkTold(s, level) \notin Leaving(k)
  <2> DEFINE m == SinkTold(s, level)
  <2>1. m \in AudioMessage /\ m.type = "SinkReply" /\ m.sink = s /\ m.level = level
    BY DEF SinkTold, AudioMessage
  <2> HIDE DEF m
  <2> QED
    BY <2>1 DEF News, LevelsOf, Leaving, m
<1>4. ASSUME NEW level \in Level
      PROVE  /\ LevelTold(level) \in AudioMessage \ News /\ LevelTold(level).level = level
             /\ \A k : LevelTold(level) \in LevelsOf(k) /\ LevelTold(level) \notin Leaving(k)
  <2> DEFINE m == LevelTold(level)
  <2>1. m \in AudioMessage /\ m.type = "Level" /\ m.level = level
    BY DEF LevelTold, AudioMessage
  <2> HIDE DEF m
  <2> QED
    BY <2>1 DEF News, LevelsOf, Leaving, m
<1>5. News \subseteq AudioMessage
  BY DEF News
<1>6. ASSUME NEW m \in AudioMessage
      PROVE  \/ \E b \in BOOLEAN : m = OwnerChanged(b)
             \/ \E s \in Sink \cup {NoSink} : m = SinkNamed(s)
             \/ \E s \in Sink, level \in Level : m = SinkTold(s, level)
             \/ \E level \in Level : m = LevelTold(level)
  <2>1. CASE m \in [type : {"NameOwnerChanged"}, up : BOOLEAN]
    <3>1. m.up \in BOOLEAN /\ m = [type |-> "NameOwnerChanged", up |-> m.up]
      BY <2>1
    <3> QED
      BY <3>1, Zenon DEF OwnerChanged
  <2>2. CASE m \in [type : {"DefaultSink"}, sink : Sink \cup {NoSink}]
    <3>1. m.sink \in Sink \cup {NoSink} /\ m = [type |-> "DefaultSink", sink |-> m.sink]
      BY <2>2
    <3> QED
      BY <3>1, Zenon DEF SinkNamed
  <2>3. CASE m \in [type : {"SinkReply"}, sink : Sink, level : Level]
    <3>1. /\ m.sink \in Sink /\ m.level \in Level
          /\ m = [type |-> "SinkReply", sink |-> m.sink, level |-> m.level]
      BY <2>3
    <3> QED
      BY <3>1, Zenon DEF SinkTold
  <2>4. CASE m \in [type : {"Level"}, level : Level]
    <3>1. m.level \in Level /\ m = [type |-> "Level", level |-> m.level]
      BY <2>4
    <3> QED
      BY <3>1, Zenon DEF LevelTold
  <2> QED
    BY <2>1, <2>2, <2>3, <2>4 DEF AudioMessage
<1> QED
  BY <1>1, <1>2, <1>3, <1>4, <1>5, <1>6

-----------------------------------------------------------------------------
(* A message comes.                                                          *)
LEMMA SinkHears ==
  ASSUME NEW q \in Seq(AudioMessage), NEW m \in AudioMessage, NEW on, NEW default, NEW calls, NEW k
  PROVE  /\ m \in News /\ Claims(m, on, default) =>
              SinkFollows(Append(q, m), on, default, calls, k)
         /\ m \notin News /\ SinkFollows(q, on, default, calls, k) =>
              SinkFollows(Append(q, m), on, default, calls, k)
<1> DEFINE r == Append(q, m)
<1>1. /\ Among(r, News) <=> Among(q, News) \/ m \in News
      /\ m \in News => \A x : Latest(r, News, x) <=> x = m
      /\ m \notin News => \A x : Latest(r, News, x) <=> Latest(q, News, x)
  BY AppendedIsLatest
<1> HIDE DEF r
<1> QED
  BY <1>1 DEF SinkFollows, r

LEMMA LevelHears ==
  ASSUME NEW q \in Seq(AudioMessage), NEW m \in AudioMessage, NEW calls, NEW k, NEW truth, NEW seen
  PROVE  /\ m \in Leaving(k) => LevelFollows(Append(q, m), calls, k, truth, seen)
         /\ m \in LevelsOf(k) /\ m.level = truth => LevelFollows(Append(q, m), calls, k, truth, seen)
         /\ m \notin LevelsOf(k) /\ LevelFollows(q, calls, k, truth, seen) =>
              LevelFollows(Append(q, m), calls, k, truth, seen)
<1> DEFINE r == Append(q, m)
           S == LevelsOf(k)
           L == Leaving(k)
<1>1. /\ Among(r, S) <=> Among(q, S) \/ m \in S
      /\ m \in S => \A x : Latest(r, S, x) <=> x = m
      /\ m \notin S => \A x : Latest(r, S, x) <=> Latest(q, S, x)
      /\ Among(r, L) <=> Among(q, L) \/ m \in L
  BY AppendedIsLatest
<1> HIDE DEF r, S, L
<1>2. m \in L => LevelFollows(r, calls, k, truth, seen)
  BY <1>1 DEF LevelFollows, L
<1>3. m \in S /\ m.level = truth => LevelFollows(r, calls, k, truth, seen)
  BY <1>1 DEF LevelFollows, S
<1>4. m \notin S /\ LevelFollows(q, calls, k, truth, seen) => LevelFollows(r, calls, k, truth, seen)
  BY <1>1 DEF LevelFollows, S, L
<1> QED
  BY <1>2, <1>3, <1>4 DEF r, S, L

(* A message is read.                                                        *)
LEMMA SinkReads ==
  ASSUME NEW q \in Seq(AudioMessage), q # <<>>, NEW on, NEW default, NEW calls, NEW calls1,
         NEW k, NEW k1, SinkFollows(q, on, default, calls, k),
         AskAll \in calls => AskAll \in calls1,
         Head(q) \notin News => k1 = k,
         Head(q) \in News /\ Claims(Head(q), on, default) =>
            IF on THEN AskAll \in calls1 \/ k1 = default ELSE k1 = NoSink
  PROVE  SinkFollows(Tail(q), on, default, calls1, k1)
<1> DEFINE r == Tail(q)
           m == Head(q)
<1>1. /\ m \in AudioMessage
      /\ Among(q, News) <=> m \in News \/ Among(r, News)
      /\ Among(r, News) => \A x : Latest(r, News, x) <=> Latest(q, News, x)
      /\ ~Among(r, News) => \A x : ~Latest(r, News, x)
      /\ ~Among(r, News) /\ m \in News => Latest(q, News, m)
  BY RestIsLatest
<1> HIDE DEF r, m
<1>2. CASE Among(r, News)
  BY <1>1, <1>2 DEF SinkFollows, r
<1>3. CASE ~Among(r, News) /\ m \in News
  <2>1. Claims(m, on, default)
    BY <1>1, <1>3 DEF SinkFollows
  <2> QED
    BY <1>1, <1>3, <2>1 DEF SinkFollows, r, m
<1>4. CASE ~Among(r, News) /\ m \notin News
  BY <1>1, <1>4 DEF SinkFollows, r, m
<1> QED
  BY <1>2, <1>3, <1>4

LEMMA LevelReads ==
  ASSUME NEW q \in Seq(AudioMessage), q # <<>>, NEW calls, NEW calls1, NEW k, NEW truth, NEW seen,
         NEW seen1, LevelFollows(q, calls, k, truth, seen), calls \subseteq calls1,
         Head(q) \notin Leaving(k),
         seen1 = IF Head(q) \in LevelsOf(k) THEN Head(q).level ELSE seen
  PROVE  LevelFollows(Tail(q), calls1, k, truth, seen1)
<1> DEFINE r == Tail(q)
           m == Head(q)
           S == LevelsOf(k)
           L == Leaving(k)
<1>1. /\ m \in AudioMessage
      /\ Among(q, S) <=> m \in S \/ Among(r, S)
      /\ Among(r, S) => \A x : Latest(r, S, x) <=> Latest(q, S, x)
      /\ ~Among(r, S) => \A x : ~Latest(r, S, x)
      /\ ~Among(r, S) /\ m \in S => Latest(q, S, m)
      /\ Among(q, L) <=> m \in L \/ Among(r, L)
  BY RestIsLatest
<1>2. /\ m \notin L /\ seen1 = IF m \in S THEN m.level ELSE seen
  OBVIOUS
<1> HIDE DEF r, m, S, L
<1>3. CASE AskSink(k) \in calls \/ Among(q, L)
  BY <1>1, <1>2, <1>3 DEF LevelFollows, r, L
<1>4. CASE ~(AskSink(k) \in calls \/ Among(q, L))
  <2>1. /\ \A x \in AudioMessage : Latest(q, S, x) => x.level = truth
        /\ Among(q, S) => \E x \in AudioMessage : Latest(q, S, x)
        /\ ~Among(q, S) =>
             /\ seen.volume = truth.volume \/ AskVolume(k, seen.volume) \in calls
             /\ seen.muted = truth.muted \/ AskMute(k, seen.muted) \in calls
    BY <1>4 DEF LevelFollows, S, L
  <2>2. /\ \A x \in AudioMessage : Latest(r, S, x) => x.level = truth
        /\ Among(r, S) => \E x \in AudioMessage : Latest(r, S, x)
    BY <1>1, <2>1
  <2>3. ~Among(r, S) =>
             /\ seen1.volume = truth.volume \/ AskVolume(k, seen1.volume) \in calls1
             /\ seen1.muted = truth.muted \/ AskMute(k, seen1.muted) \in calls1
    <3>1. CASE m \in S
      BY <1>1, <1>2, <2>1, <3>1
    <3>2. CASE m \notin S
      BY <1>1, <1>2, <2>1, <3>2
    <3> QED
      BY <3>1, <3>2
  <2> QED
    BY <2>2, <2>3 DEF LevelFollows, r, S
<1> QED
  BY <1>3, <1>4

(* When the service is gone, so will be the sink that is followed.           *)
LEMMA GoneIsTold ==
  ASSUME NEW q \in Seq(AudioMessage), NEW default, NEW calls, NEW k, k # NoSink,
         SinkFollows(q, FALSE, default, calls, k)
  PROVE  Among(q, Leaving(k))
<1>1. PICK m \in AudioMessage : Latest(q, News, m)
  BY DEF SinkFollows
<1>2. m \in News /\ Claims(m, FALSE, default)
  BY <1>1, LatestIsAmong DEF SinkFollows
<1>3. m \in Leaving(k)
  BY <1>2 DEF Claims, News, Leaving
<1> QED
  BY <1>1, <1>3, LatestIsAmong

LEMMA CallsApart ==
  /\ \A s \in Sink : AskSink(s) \in AudioCall /\ AskSink(s) # AskAll
  /\ \A s, v, k : AskVolume(s, v) # AskAll /\ AskVolume(s, v) # AskSink(k)
  /\ \A s, b, k, v : /\ AskMute(s, b) # AskAll /\ AskMute(s, b) # AskSink(k)
                     /\ AskMute(s, b) # AskVolume(k, v)
  /\ \A s, k : AskSink(s) = AskSink(k) => s = k
  /\ \A s, k, v, w : AskVolume(s, v) = AskVolume(k, w) => s = k /\ v = w
  /\ \A s, k, v, w : AskMute(s, v) = AskMute(k, w) => s = k /\ v = w
<1>1. \A s \in Sink : AskSink(s) \in AudioCall
  BY DEF AudioCall
<1>2. \A s : AskSink(s).type = "GetSink" /\ AskSink(s).sink = s
  BY DEF AskSink
<1>3. \A s, v : /\ AskVolume(s, v).type = "SetVolume" /\ AskVolume(s, v).sink = s
                /\ AskVolume(s, v).volume = v
  BY DEF AskVolume
<1>4. \A s, v : /\ AskMute(s, v).type = "SetMute" /\ AskMute(s, v).sink = s
                /\ AskMute(s, v).muted = v
  BY DEF AskMute
<1>5. AskAll.type = "GetAll"
  BY DEF AskAll
<1>6. "GetAll" # "GetSink" /\ "GetAll" # "SetVolume" /\ "GetAll" # "SetMute"
      /\ "GetSink" # "SetVolume" /\ "GetSink" # "SetMute" /\ "SetVolume" # "SetMute"
  OBVIOUS
<1> QED
  BY <1>1, <1>2, <1>3, <1>4, <1>5, <1>6

(* What is asked besides changes nothing of this.                            *)
LEMMA MoreCalls ==
  ASSUME NEW q, NEW calls, NEW calls1, calls \subseteq calls1
  PROVE  /\ \A on, default, k : SinkFollows(q, on, default, calls, k) =>
                                SinkFollows(q, on, default, calls1, k)
         /\ \A k, truth, seen : LevelFollows(q, calls, k, truth, seen) =>
                                LevelFollows(q, calls1, k, truth, seen)
BY DEF SinkFollows, LevelFollows

-----------------------------------------------------------------------------
(* The steps, each from what it makes of the service and of what is heard.   *)
LEMMA AudioParts ==
  ASSUME AudioInv
  PROVE  /\ AudioType /\ (volumeShown \/ sink_ = NoSink) /\ (audioUp \/ audioCalls = {})
         /\ \A m \in AudioMessage : Append(audioInbox, m) \in Seq(AudioMessage)
         /\ sink_ # NoSink => sinks[sink_] \in Level
         /\ audioCalls # {} => audioUp /\ volumeShown
<1>1. \A m \in AudioMessage : Append(audioInbox, m) \in Seq(AudioMessage)
  BY AppendedIsLatest DEF AudioInv, AudioType
<1> QED
  BY <1>1 DEF AudioInv, AudioType

LEMMA ServiceStarts ==
  ASSUME AudioInv, AudioStarts
  PROVE  AudioInv'
<1> DEFINE m == OwnerChanged(TRUE)
<1>1. /\ UNCHANGED <<defaultSink, sinks, audioCalls, volumeShown, sink_, volume_>>
      /\ audioUp' = TRUE /\ audioInbox' = IF volumeShown THEN Append(audioInbox, m) ELSE audioInbox
  BY DEF AudioStarts, Hears, OwnerChanged
<1>2. m \in AudioMessage /\ m \in News /\ Claims(m, TRUE, defaultSink) /\ m \notin LevelsOf(sink_)
  BY MessagesAre
<1> HIDE DEF m
<1>3. AudioType'
  BY <1>1, <1>2, AudioParts DEF AudioType
<1>4. CASE volumeShown
  <2>1. SinkFollows(Append(audioInbox, m), TRUE, defaultSink, audioCalls, sink_)
    BY <1>2, AudioParts, SinkHears DEF AudioType
  <2>2. sink_ # NoSink =>
          LevelFollows(Append(audioInbox, m), audioCalls, sink_, sinks[sink_], volume_)
    BY <1>2, <1>4, AudioParts, LevelHears DEF AudioInv, AudioType
  <2> QED
    BY <1>1, <1>3, <1>4, <2>1, <2>2 DEF AudioInv
<1>5. CASE ~volumeShown
  BY <1>1, <1>3, <1>5 DEF AudioInv
<1> QED
  BY <1>4, <1>5, AudioParts DEF AudioType

LEMMA ServiceQuits ==
  ASSUME AudioInv, AudioQuits
  PROVE  AudioInv'
<1> DEFINE m == OwnerChanged(FALSE)
<1>1. /\ UNCHANGED <<defaultSink, sinks, volumeShown, sink_, volume_>> /\ audioCalls' = {}
      /\ audioUp' = FALSE /\ audioInbox' = IF volumeShown THEN Append(audioInbox, m) ELSE audioInbox
  BY DEF AudioQuits, Hears, OwnerChanged
<1>2. m \in AudioMessage /\ m \in News /\ Claims(m, FALSE, defaultSink) /\ m \in Leaving(sink_)
  BY MessagesAre
<1> HIDE DEF m
<1>3. AudioType'
  BY <1>1, <1>2, AudioParts DEF AudioType
<1>4. CASE volumeShown
  <2>1. SinkFollows(Append(audioInbox, m), FALSE, defaultSink, {}, sink_)
    BY <1>2, AudioParts, SinkHears DEF AudioType
  <2>2. LevelFollows(Append(audioInbox, m), {}, sink_, sinks[sink_], volume_)
    BY <1>2, AudioParts, LevelHears DEF AudioType
  <2> QED
    BY <1>1, <1>3, <1>4, <2>1, <2>2 DEF AudioInv
<1>5. CASE ~volumeShown
  BY <1>1, <1>3, <1>5 DEF AudioInv
<1> QED
  BY <1>4, <1>5, AudioParts DEF AudioType

LEMMA DefaultChanges ==
  ASSUME AudioInv, DefaultSinkChanges
  PROVE  AudioInv'
<1> DEFINE m == SinkNamed(defaultSink')
<1>1. /\ UNCHANGED <<audioUp, sinks, audioCalls, volumeShown, sink_, volume_>> /\ audioUp = TRUE
      /\ defaultSink' \in Sink \cup {NoSink}
      /\ audioInbox' = IF volumeShown THEN Append(audioInbox, m) ELSE audioInbox
  BY AudioParts DEF DefaultSinkChanges, Hears, SinkNamed, AudioType
<1>2. m \in AudioMessage /\ m \in News /\ Claims(m, TRUE, defaultSink') /\ m \notin LevelsOf(sink_)
  BY <1>1, MessagesAre
<1> HIDE DEF m
<1>3. AudioType'
  BY <1>1, <1>2, AudioParts DEF AudioType
<1>4. CASE volumeShown
  <2>1. SinkFollows(Append(audioInbox, m), TRUE, defaultSink', audioCalls, sink_)
    BY <1>2, AudioParts, SinkHears DEF AudioType
  <2>2. sink_ # NoSink =>
          LevelFollows(Append(audioInbox, m), audioCalls, sink_, sinks[sink_], volume_)
    BY <1>2, <1>4, AudioParts, LevelHears DEF AudioInv, AudioType
  <2> QED
    BY <1>1, <1>3, <1>4, <2>1, <2>2 DEF AudioInv
<1>5. CASE ~volumeShown
  BY <1>1, <1>3, <1>5 DEF AudioInv
<1> QED
  BY <1>4, <1>5, AudioParts DEF AudioType

(* A sink is set, by a call or by another program: who is shown it hears of  *)
(* it, unless it already was what the last call asks for.                    *)
LEMMA SinkIsSet ==
  ASSUME AudioInv, volumeShown, NEW s \in Sink, NEW level \in Level, SinkSets(s, level),
         NEW calls1 \in SUBSET audioCalls,
         AskAll \in audioCalls => AskAll \in calls1,
         AskSink(sink_) \in audioCalls => AskSink(sink_) \in calls1,
         AskVolume(sink_, volume_.volume) \in audioCalls =>
           AskVolume(sink_, volume_.volume) \in calls1 \/ (s = sink_ /\ level.volume = volume_.volume),
         AskMute(sink_, volume_.muted) \in audioCalls =>
           AskMute(sink_, volume_.muted) \in calls1 \/ (s = sink_ /\ level.muted = volume_.muted)
  PROVE  /\ sinks' \in [Sink -> Level] /\ audioInbox' \in Seq(AudioMessage)
         /\ SinkFollows(audioInbox', audioUp, defaultSink, calls1, sink_)
         /\ sink_ # NoSink => LevelFollows(audioInbox', calls1, sink_, sinks'[sink_], volume_)
<1> DEFINE m == LevelTold(level)
<1>1. /\ sinks' = [sinks EXCEPT ![s] = level]
      /\ audioInbox' = IF s = sink_ /\ level # sinks[s] THEN Append(audioInbox, m) ELSE audioInbox
  BY DEF SinkSets, Hears, LevelTold
<1>2. m \in AudioMessage \ News /\ m \in LevelsOf(sink_) /\ m.level = level
  BY MessagesAre
<1> HIDE DEF m
<1>3. sinks' \in [Sink -> Level] /\ audioInbox' \in Seq(AudioMessage)
  BY <1>1, <1>2, AudioParts DEF AudioType
<1>4. SinkFollows(audioInbox, audioUp, defaultSink, calls1, sink_)
  BY DEF AudioInv, SinkFollows
<1>5. CASE s = sink_ /\ level # sinks[s]
  <2>1. SinkFollows(Append(audioInbox, m), audioUp, defaultSink, calls1, sink_)
    BY <1>2, <1>4, AudioParts, SinkHears DEF AudioType
  <2>2. sinks'[sink_] = level
    BY <1>1, <1>5, AudioParts DEF AudioType
  <2>3. LevelFollows(Append(audioInbox, m), calls1, sink_, level, volume_)
    BY <1>2, AudioParts, LevelHears DEF AudioType
  <2> QED
    BY <1>1, <1>3, <1>5, <2>1, <2>2, <2>3
<1>6. CASE ~(s = sink_ /\ level # sinks[s])
  <2>1. audioInbox' = audioInbox
    BY <1>1, <1>6
  <2>2. sink_ # NoSink => sinks'[sink_] = sinks[sink_]
    BY <1>1, <1>6, AudioParts DEF AudioType
  <2>3. ASSUME sink_ # NoSink
        PROVE  LevelFollows(audioInbox, calls1, sink_, sinks[sink_], volume_)
    <3> DEFINE truth == sinks[sink_]
    <3>1. LevelFollows(audioInbox, audioCalls, sink_, truth, volume_)
      BY <2>3 DEF AudioInv
    <3>2. s = sink_ => level = truth
      BY <1>6
    <3> HIDE DEF truth
    <3>3. LevelFollows(audioInbox, calls1, sink_, truth, volume_)
      BY <3>1, <3>2 DEF LevelFollows
    <3> QED
      BY <3>3 DEF truth
  <2> QED
    BY <1>3, <1>4, <2>1, <2>2, <2>3
<1> QED
  BY <1>5, <1>6

LEMMA SinkChangesInv ==
  ASSUME AudioInv, SinkChanges
  PROVE  AudioInv'
<1>1. PICK s \in Sink, level \in Level : level # sinks[s] /\ SinkSets(s, level)
  BY DEF SinkChanges
<1>2. UNCHANGED <<audioUp, defaultSink, audioCalls, volumeShown, sink_, volume_>>
  BY DEF SinkChanges
<1>3. CASE volumeShown
  <2>1. /\ sinks' \in [Sink -> Level] /\ audioInbox' \in Seq(AudioMessage)
        /\ SinkFollows(audioInbox', audioUp, defaultSink, audioCalls, sink_)
        /\ sink_ # NoSink => LevelFollows(audioInbox', audioCalls, sink_, sinks'[sink_], volume_)
    BY <1>1, <1>3, SinkIsSet
  <2> QED
    BY <1>2, <1>3, <2>1 DEF AudioInv, AudioType
<1>4. CASE ~volumeShown
  <2>1. s # sink_
    BY <1>4, NoSinkApart DEF AudioInv
  <2>2. audioInbox' = audioInbox /\ sinks' \in [Sink -> Level]
    BY <1>1, <2>1, AudioParts DEF SinkSets, Hears, AudioType
  <2> QED
    BY <1>2, <1>4, <2>2 DEF AudioInv, AudioType
<1> QED
  BY <1>3, <1>4, AudioParts DEF AudioType

LEMMA AnswersInv ==
  ASSUME AudioInv, AudioAnswers
  PROVE  AudioInv'
<1>1. /\ UNCHANGED <<audioUp, defaultSink, volumeShown, sink_, volume_>>
      /\ audioUp /\ volumeShown
  BY AudioParts DEF AudioAnswers
<1>2. PICK c \in audioCalls :
        /\ audioCalls' = audioCalls \ {c}
        /\ CASE c.type = "GetAll" ->
                 Hears(TRUE, [type |-> "DefaultSink", sink |-> defaultSink]) /\ UNCHANGED sinks
            [] c.type = "GetSink" ->
                 /\ Hears(TRUE, [type |-> "SinkReply", sink |-> c.sink, level |-> sinks[c.sink]])
                 /\ UNCHANGED sinks
            [] c.type = "SetVolume" -> SinkSets(c.sink, [sinks[c.sink] EXCEPT !.volume = c.volume])
            [] c.type = "SetMute" -> SinkSets(c.sink, [sinks[c.sink] EXCEPT !.muted = c.muted])
  BY DEF AudioAnswers
<1>3. c \in AudioCall
  BY AudioParts DEF AudioType
<1> SUFFICES /\ sinks' \in [Sink -> Level] /\ audioInbox' \in Seq(AudioMessage)
             /\ SinkFollows(audioInbox', audioUp, defaultSink, audioCalls', sink_)
             /\ sink_ # NoSink => LevelFollows(audioInbox', audioCalls', sink_, sinks'[sink_], volume_)
  <2>1. audioCalls' \in SUBSET AudioCall
    BY <1>2, AudioParts DEF AudioType
  <2> QED
    BY <1>1, <2>1, AudioParts DEF AudioInv, AudioType
<1>4. SinkFollows(audioInbox, audioUp, defaultSink, audioCalls, sink_)
  BY <1>1 DEF AudioInv
<1>5. sink_ # NoSink => LevelFollows(audioInbox, audioCalls, sink_, sinks[sink_], volume_)
  BY <1>1 DEF AudioInv
<1>6. CASE c = AskAll
  <2> DEFINE m == SinkNamed(defaultSink)
  <2>0. c.type = "GetAll"
    BY <1>6 DEF AskAll
  <2>1. sinks' = sinks /\ audioInbox' = Append(audioInbox, m)
    BY <1>2, <2>0 DEF Hears, SinkNamed
  <2>2. m \in AudioMessage /\ m \in News /\ Claims(m, audioUp, defaultSink) /\ m \notin LevelsOf(sink_)
    BY <1>1, AudioParts, MessagesAre DEF AudioType
  <2> HIDE DEF m
  <2>3. SinkFollows(Append(audioInbox, m), audioUp, defaultSink, audioCalls', sink_)
    BY <2>2, AudioParts, SinkHears DEF AudioType
  <2>4. ASSUME sink_ # NoSink
        PROVE  LevelFollows(Append(audioInbox, m), audioCalls', sink_, sinks[sink_], volume_)
    <3>0. sink_ \in Sink
      BY <2>4, AudioParts DEF AudioType
    <3>1. LevelFollows(audioInbox, audioCalls', sink_, sinks[sink_], volume_)
      <4>1. LevelFollows(audioInbox, audioCalls, sink_, sinks[sink_], volume_)
        BY <1>5, <2>4
      <4>2. /\ AskSink(sink_) \in audioCalls => AskSink(sink_) \in audioCalls'
            /\ \A v : AskVolume(sink_, v) \in audioCalls => AskVolume(sink_, v) \in audioCalls'
            /\ \A v : AskMute(sink_, v) \in audioCalls => AskMute(sink_, v) \in audioCalls'
        BY <1>2, <1>6, <3>0, CallsApart
      <4> QED
        BY <4>1, <4>2 DEF LevelFollows
    <3> QED
      BY <2>2, <3>1, AudioParts, LevelHears DEF AudioType
  <2> QED
    BY <2>1, <2>2, <2>3, <2>4, AudioParts DEF AudioType
<1>7. ASSUME NEW s \in Sink, c = AskSink(s)
      PROVE  /\ sinks' \in [Sink -> Level] /\ audioInbox' \in Seq(AudioMessage)
             /\ SinkFollows(audioInbox', audioUp, defaultSink, audioCalls', sink_)
             /\ sink_ # NoSink => LevelFollows(audioInbox', audioCalls', sink_, sinks'[sink_], volume_)
  <2> DEFINE m == SinkTold(s, sinks[s])
  <2>0. c.type = "GetSink" /\ c.sink = s
    BY <1>7 DEF AskSink
  <2>1. sinks' = sinks /\ audioInbox' = Append(audioInbox, m)
    BY <1>2, <2>0 DEF Hears, SinkTold
  <2>2. /\ m \in AudioMessage \ News /\ m.level = sinks[s]
        /\ m \in LevelsOf(sink_) <=> s = sink_
    <3>1. sinks[s] \in Level
      BY AudioParts DEF AudioType
    <3> QED
      BY <3>1, MessagesAre
  <2> HIDE DEF m
  <2>3. SinkFollows(Append(audioInbox, m), audioUp, defaultSink, audioCalls', sink_)
    <3>1. AskAll \in audioCalls => AskAll \in audioCalls'
      BY <1>2, <1>7, CallsApart
    <3>2. SinkFollows(audioInbox, audioUp, defaultSink, audioCalls', sink_)
      BY <1>4, <3>1 DEF SinkFollows
    <3> QED
      BY <2>2, <3>2, AudioParts, SinkHears DEF AudioType
  <2>4. ASSUME sink_ # NoSink
        PROVE  LevelFollows(Append(audioInbox, m), audioCalls', sink_, sinks[sink_], volume_)
    <3>0. sink_ \in Sink
      BY <2>4, AudioParts DEF AudioType
    <3>1. CASE s = sink_
      BY <2>2, <3>1, AudioParts, LevelHears DEF AudioType
    <3>2. CASE s # sink_
      <4>1. LevelFollows(audioInbox, audioCalls, sink_, sinks[sink_], volume_)
        BY <1>5, <2>4
      <4>2. /\ AskSink(sink_) \in audioCalls => AskSink(sink_) \in audioCalls'
            /\ \A v : AskVolume(sink_, v) \in audioCalls => AskVolume(sink_, v) \in audioCalls'
            /\ \A v : AskMute(sink_, v) \in audioCalls => AskMute(sink_, v) \in audioCalls'
        BY <1>2, <1>7, <3>0, <3>2, CallsApart
      <4>3. LevelFollows(audioInbox, audioCalls', sink_, sinks[sink_], volume_)
        BY <4>1, <4>2 DEF LevelFollows
      <4> QED
        BY <2>2, <3>2, <4>3, AudioParts, LevelHears DEF AudioType
    <3> QED
      BY <3>1, <3>2
  <2> QED
    BY <2>1, <2>2, <2>3, <2>4, AudioParts DEF AudioType
<1>8. ASSUME NEW s \in Sink, NEW v \in {0, 1}, c = AskVolume(s, v)
      PROVE  /\ sinks' \in [Sink -> Level] /\ audioInbox' \in Seq(AudioMessage)
             /\ SinkFollows(audioInbox', audioUp, defaultSink, audioCalls', sink_)
             /\ sink_ # NoSink => LevelFollows(audioInbox', audioCalls', sink_, sinks'[sink_], volume_)
  <2> DEFINE level == [sinks[s] EXCEPT !.volume = v]
  <2>0. c.type = "SetVolume" /\ c.sink = s /\ c.volume = v
    BY <1>8 DEF AskVolume
  <2>1. SinkSets(s, level)
    BY <1>2, <2>0
  <2>2. level \in Level /\ level.volume = v
    <3>1. sinks[s] \in Level
      BY AudioParts DEF AudioType
    <3> QED
      BY <1>8, <3>1 DEF Level
  <2> HIDE DEF level
  <2>3. /\ audioCalls' \in SUBSET audioCalls
        /\ AskAll \in audioCalls => AskAll \in audioCalls'
        /\ AskSink(sink_) \in audioCalls => AskSink(sink_) \in audioCalls'
        /\ \A b : AskMute(sink_, b) \in audioCalls => AskMute(sink_, b) \in audioCalls'
        /\ \A w : AskVolume(sink_, w) \in audioCalls =>
                    AskVolume(sink_, w) \in audioCalls' \/ (s = sink_ /\ w = v)
    BY <1>2, <1>8, CallsApart
  <2> QED
    BY <1>1, <2>1, <2>2, <2>3, SinkIsSet
<1>9. ASSUME NEW s \in Sink, NEW b \in BOOLEAN, c = AskMute(s, b)
      PROVE  /\ sinks' \in [Sink -> Level] /\ audioInbox' \in Seq(AudioMessage)
             /\ SinkFollows(audioInbox', audioUp, defaultSink, audioCalls', sink_)
             /\ sink_ # NoSink => LevelFollows(audioInbox', audioCalls', sink_, sinks'[sink_], volume_)
  <2> DEFINE level == [sinks[s] EXCEPT !.muted = b]
  <2>0. c.type = "SetMute" /\ c.sink = s /\ c.muted = b
    BY <1>9 DEF AskMute
  <2>1. SinkSets(s, level)
    BY <1>2, <2>0
  <2>2. level \in Level /\ level.muted = b
    <3>1. sinks[s] \in Level
      BY AudioParts DEF AudioType
    <3> QED
      BY <1>9, <3>1 DEF Level
  <2> HIDE DEF level
  <2>3. /\ audioCalls' \in SUBSET audioCalls
        /\ AskAll \in audioCalls => AskAll \in audioCalls'
        /\ AskSink(sink_) \in audioCalls => AskSink(sink_) \in audioCalls'
        /\ \A w : AskVolume(sink_, w) \in audioCalls => AskVolume(sink_, w) \in audioCalls'
        /\ \A w : AskMute(sink_, w) \in audioCalls =>
                    AskMute(sink_, w) \in audioCalls' \/ (s = sink_ /\ w = b)
    BY <1>2, <1>9, CallsApart
  <2>4. AskMute(sink_, volume_.muted) \in audioCalls =>
          \/ AskMute(sink_, volume_.muted) \in audioCalls'
          \/ s = sink_ /\ level.muted = volume_.muted
    BY <2>2, <2>3, Zenon
  <2>5. AskVolume(sink_, volume_.volume) \in audioCalls =>
          AskVolume(sink_, volume_.volume) \in audioCalls'
    BY <2>3
  <2> QED
    BY <1>1, <2>1, <2>2, <2>3, <2>4, <2>5, SinkIsSet
<1> QED
  BY <1>3, <1>6, <1>7, <1>8, <1>9 DEF AudioCall

-----------------------------------------------------------------------------
LEMMA CallsAre ==
  ASSUME NEW calls \in SUBSET AudioCall, AudioType
  PROVE  /\ audioCalls \subseteq Calls(calls) /\ Calls(calls) \in SUBSET AudioCall
         /\ audioUp => Calls(calls) = audioCalls \cup calls
         /\ ~audioUp => Calls(calls) = audioCalls
BY DEF Calls, AudioType

LEMMA SystemVolumeStartsInv ==
  ASSUME AudioInv, SystemVolumeStarts
  PROVE  AudioInv'
<1>1. /\ UNCHANGED <<audioUp, defaultSink, sinks, audioInbox, sink_, volume_>>
      /\ ~volumeShown /\ volumeShown' = TRUE /\ audioCalls' = Calls({AskAll})
  BY DEF SystemVolumeStarts, audioVars, connectService, AskAll
<1>2. audioCalls = {} /\ audioInbox = <<>> /\ sink_ = NoSink
  BY <1>1 DEF AudioInv
<1>3. {AskAll} \in SUBSET AudioCall
  BY DEF AudioCall
<1>4. /\ audioCalls' \in SUBSET AudioCall
      /\ audioUp => audioCalls' = {AskAll}
      /\ ~audioUp => audioCalls' = {}
  BY <1>1, <1>2, <1>3, CallsAre DEF AudioInv
<1>5. SinkFollows(<<>>, audioUp, defaultSink, audioCalls', NoSink)
  <2>1. ~Among(<<>>, News) /\ \A m : ~Latest(<<>>, News, m)
    BY LatestIsAmong
  <2>2. IF audioUp THEN AskAll \in audioCalls' \/ NoSink = defaultSink ELSE NoSink = NoSink
    BY <1>4
  <2> QED
    BY <2>1, <2>2 DEF SinkFollows
<1>6. AudioType' /\ (audioCalls' # {} => audioUp')
  BY <1>1, <1>4, AudioParts DEF AudioType
<1>7. SinkFollows(audioInbox, audioUp, defaultSink, audioCalls, sink_)'
  BY <1>1, <1>2, <1>5
<1> QED
  BY <1>1, <1>2, <1>6, <1>7 DEF AudioInv

(* The user moves the slider, or mutes.                                      *)
LEMMA UserSetsSink ==
  ASSUME AudioInv, NEW calls \in SUBSET AudioCall, NEW seen \in Level, sink_ # NoSink,
         audioCalls' = Calls(calls), volume_' = seen,
         seen.volume = volume_.volume \/ AskVolume(sink_, seen.volume) \in calls,
         seen.muted = volume_.muted \/ AskMute(sink_, seen.muted) \in calls,
         UNCHANGED <<audioUp, defaultSink, sinks, audioInbox, volumeShown, sink_>>
  PROVE  AudioInv'
<1>1. volumeShown /\ AudioType /\ (audioCalls # {} => audioUp)
  BY AudioParts DEF AudioInv
<1>2. /\ audioCalls \subseteq audioCalls' /\ audioCalls' \in SUBSET AudioCall
      /\ audioUp => audioCalls' = audioCalls \cup calls
      /\ ~audioUp => audioCalls' = audioCalls
  BY <1>1, CallsAre
<1>3. SinkFollows(audioInbox, audioUp, defaultSink, audioCalls', sink_)
  BY <1>1, <1>2, MoreCalls DEF AudioInv
<1>4. LevelFollows(audioInbox, audioCalls', sink_, sinks[sink_], seen)
  <2>1. CASE ~audioUp
    <3>1. audioUp = FALSE
      BY <1>1, <2>1 DEF AudioType
    <3>2. Among(audioInbox, Leaving(sink_))
      BY <1>1, <1>3, <3>1, GoneIsTold DEF AudioType
    <3> QED
      BY <3>2 DEF LevelFollows
  <2>2. CASE audioUp
    <3> DEFINE truth == sinks[sink_]
    <3>1. LevelFollows(audioInbox, audioCalls, sink_, truth, volume_)
      BY <1>1 DEF AudioInv
    <3>2. calls \subseteq audioCalls' /\ audioCalls \subseteq audioCalls'
      BY <1>2, <2>2
    <3> HIDE DEF truth
    <3>3. LevelFollows(audioInbox, audioCalls', sink_, truth, seen)
      BY <3>1, <3>2 DEF LevelFollows
    <3> QED
      BY <3>3 DEF truth
  <2> QED
    BY <2>1, <2>2
<1>5. AudioType' /\ (audioCalls' # {} => audioUp')
  BY <1>1, <1>2 DEF AudioType
<1> QED
  BY <1>1, <1>3, <1>4, <1>5 DEF AudioInv

LEMMA UserCalls ==
  /\ \A s \in Sink, v \in {0, 1} : AskVolume(s, v) \in AudioCall
  /\ \A s \in Sink, b \in BOOLEAN : AskMute(s, b) \in AudioCall
<1>1. ASSUME NEW s \in Sink, NEW v \in {0, 1} PROVE AskVolume(s, v) \in AudioCall
  BY DEF AudioCall
<1>2. ASSUME NEW s \in Sink, NEW b \in BOOLEAN PROVE AskMute(s, b) \in AudioCall
  BY DEF AudioCall
<1> QED
  BY <1>1, <1>2

LEMMA UserInv ==
  ASSUME AudioInv, SetVolume \/ SetMuted
  PROVE  AudioInv'
<1>1. /\ UNCHANGED <<audioUp, defaultSink, sinks, audioInbox, volumeShown, sink_>>
      /\ sink_ # NoSink
  BY DEF SetVolume, SetMuted, audioVars
<1>2. sink_ \in Sink /\ volume_ \in Level
  BY <1>1, AudioParts DEF AudioType
<1>3. CASE SetVolume
  <2>1. PICK v \in {0, 1} :
          LET unmute == volume_.muted /\ v > 0 IN
          /\ audioCalls' = Calls({[type |-> "SetVolume", sink |-> sink_, volume |-> v]} \cup
               IF unmute THEN {[type |-> "SetMute", sink |-> sink_, muted |-> FALSE]} ELSE {})
          /\ volume_' = [volume |-> v, muted |-> volume_.muted /\ ~unmute]
    BY <1>3 DEF SetVolume
  <2> DEFINE unmute == volume_.muted /\ v > 0
             calls == {AskVolume(sink_, v)} \cup IF unmute THEN {AskMute(sink_, FALSE)} ELSE {}
             seen == [volume |-> v, muted |-> volume_.muted /\ ~unmute]
  <2>2. audioCalls' = Calls(calls) /\ volume_' = seen
    BY <2>1 DEF AskVolume, AskMute
  <2>3. unmute \in BOOLEAN
    OBVIOUS
  <2>4. calls \in SUBSET AudioCall
    <3>1. AskVolume(sink_, v) \in AudioCall /\ AskMute(sink_, FALSE) \in AudioCall
      BY <1>2, UserCalls
    <3> DEFINE muting == IF unmute THEN {AskMute(sink_, FALSE)} ELSE {}
    <3>2. muting \subseteq {AskMute(sink_, FALSE)}
      OBVIOUS
    <3> HIDE DEF muting
    <3>3. {AskVolume(sink_, v)} \cup muting \in SUBSET AudioCall
      BY <3>1, <3>2
    <3> QED
      BY <3>3, Zenon DEF muting
  <2>5. seen \in Level /\ seen.volume = v /\ AskVolume(sink_, v) \in calls
    BY <2>1 DEF Level
  <2>6. seen.muted = volume_.muted \/ AskMute(sink_, seen.muted) \in calls
    <3>1. CASE unmute
      <4>1. seen.muted = FALSE /\ AskMute(sink_, FALSE) \in calls
        BY <3>1
      <4> QED
        BY <4>1, Zenon
    <3>2. CASE ~unmute
      <4>1. volume_.muted \in BOOLEAN
        BY <1>2 DEF Level
      <4>2. seen.muted = volume_.muted
        BY <3>2, <4>1
      <4> QED
        BY <4>2
    <3> QED
      BY <3>1, <3>2
  <2> HIDE DEF calls, seen
  <2> QED
    BY <1>1, <2>2, <2>4, <2>5, <2>6, UserSetsSink
<1>4. CASE SetMuted
  <2>1. PICK b \in BOOLEAN :
          /\ audioCalls' = Calls({[type |-> "SetMute", sink |-> sink_, muted |-> b]})
          /\ volume_' = [volume_ EXCEPT !.muted = b]
    BY <1>4 DEF SetMuted
  <2> DEFINE calls == {AskMute(sink_, b)}
             seen == [volume_ EXCEPT !.muted = b]
  <2>2. audioCalls' = Calls(calls) /\ volume_' = seen
    BY <2>1 DEF AskMute
  <2>4. calls \in SUBSET AudioCall
    BY <1>2 DEF AudioCall
  <2>5. seen \in Level /\ seen.volume = volume_.volume /\ seen.muted = b
    BY <1>2 DEF Level
  <2>6. AskMute(sink_, seen.muted) \in calls
    <3> HIDE DEF seen
    <3> QED
      BY <2>5, Zenon
  <2> HIDE DEF calls, seen
  <2> QED
    BY <1>1, <2>2, <2>4, <2>5, <2>6, UserSetsSink
<1> QED
  BY <1>3, <1>4

(* A message is delivered.                                                   *)
LEMMA DeliversInv ==
  ASSUME AudioInv, AudioDelivers
  PROVE  AudioInv'
<1> DEFINE m == Head(audioInbox)
           q == audioInbox
<1>0. audioInbox # <<>> /\ audioInbox' = Tail(q)
      /\ UNCHANGED <<audioUp, defaultSink, sinks, volumeShown>>
  BY DEF AudioDelivers, audioVars
<1>1. volumeShown /\ AudioType /\ q \in Seq(AudioMessage) /\ q # <<>>
  BY <1>0 DEF AudioInv, AudioType
<1>2. m \in AudioMessage /\ Tail(q) \in Seq(AudioMessage)
  BY <1>1, RestIsLatest
<1>3. \/ /\ m.type = "NameOwnerChanged"
         /\ IF m.up THEN connectService /\ UNCHANGED sink_ ELSE setSink(NoSink)
         /\ UNCHANGED volume_
      \/ m.type = "DefaultSink" /\ setSink(m.sink) /\ UNCHANGED volume_
      \/ /\ m.type = "SinkReply" /\ IsRequested(m.sink)
         /\ volume_' = m.level /\ UNCHANGED <<audioCalls, sink_>>
      \/ /\ m.type = "SinkReply" /\ ~IsRequested(m.sink)
         /\ UNCHANGED <<audioCalls, sink_, volume_>>
      \/ m.type = "Level" /\ volume_' = m.level /\ UNCHANGED <<audioCalls, sink_>>
  BY DEF AudioDelivers
<1> HIDE DEF m, q
<1>4. SinkFollows(q, audioUp, defaultSink, audioCalls, sink_)
  BY <1>1 DEF AudioInv, q
<1>5. sink_ # NoSink => LevelFollows(q, audioCalls, sink_, sinks[sink_], volume_)
  BY <1>1 DEF AudioInv, q
<1> SUFFICES /\ audioCalls' \in SUBSET AudioCall /\ (audioCalls' # {} => audioUp)
             /\ sink_' \in Sink \cup {NoSink} /\ volume_' \in Level
             /\ SinkFollows(Tail(q), audioUp, defaultSink, audioCalls', sink_')
             /\ sink_' # NoSink =>
                  LevelFollows(Tail(q), audioCalls', sink_', sinks[sink_'], volume_')
  BY <1>0, <1>1, <1>2 DEF AudioInv, AudioType
<1>6. CASE /\ m \notin News /\ UNCHANGED <<audioCalls, sink_>> /\ volume_' \in Level
           /\ m \notin Leaving(sink_)
           /\ volume_' = IF m \in LevelsOf(sink_) THEN m.level ELSE volume_
  <2>1. SinkFollows(Tail(q), audioUp, defaultSink, audioCalls, sink_)
    BY <1>1, <1>4, <1>6, SinkReads DEF m, q
  <2>2. sink_ # NoSink => LevelFollows(Tail(q), audioCalls, sink_, sinks[sink_], volume_')
    BY <1>1, <1>5, <1>6, LevelReads DEF m, q
  <2> QED
    BY <1>1, <1>6, <2>1, <2>2 DEF AudioInv, AudioType
<1>7. ASSUME NEW s \in Sink, NEW level \in Level, m = SinkTold(s, level)
      PROVE  /\ audioCalls' \in SUBSET AudioCall /\ (audioCalls' # {} => audioUp)
             /\ sink_' \in Sink \cup {NoSink} /\ volume_' \in Level
             /\ SinkFollows(Tail(q), audioUp, defaultSink, audioCalls', sink_')
             /\ sink_' # NoSink =>
                  LevelFollows(Tail(q), audioCalls', sink_', sinks[sink_'], volume_')
  <2>1. m.type = "SinkReply" /\ m.sink = s /\ m.level = level
    BY <1>7 DEF SinkTold
  <2>2. /\ volume_' = (IF s = sink_ THEN level ELSE volume_)
        /\ UNCHANGED <<audioCalls, sink_>>
    BY <1>3, <2>1 DEF IsRequested
  <2>3. m \notin News /\ m \notin Leaving(sink_) /\ (m \in LevelsOf(sink_) <=> s = sink_)
    BY <1>7, MessagesAre
  <2>4. volume_' \in Level
    BY <1>1, <2>2 DEF AudioType
  <2> QED
    BY <1>6, <2>1, <2>2, <2>3, <2>4
<1>8. ASSUME NEW level \in Level, m = LevelTold(level)
      PROVE  /\ audioCalls' \in SUBSET AudioCall /\ (audioCalls' # {} => audioUp)
             /\ sink_' \in Sink \cup {NoSink} /\ volume_' \in Level
             /\ SinkFollows(Tail(q), audioUp, defaultSink, audioCalls', sink_')
             /\ sink_' # NoSink =>
                  LevelFollows(Tail(q), audioCalls', sink_', sinks[sink_'], volume_')
  <2>1. m.type = "Level" /\ m.level = level
    BY <1>8 DEF LevelTold
  <2>2. volume_' = level /\ UNCHANGED <<audioCalls, sink_>>
    BY <1>3, <2>1
  <2>3. m \notin News /\ m \notin Leaving(sink_) /\ m \in LevelsOf(sink_)
    BY <1>8, MessagesAre
  <2> QED
    BY <1>6, <2>1, <2>2, <2>3
<1>9. CASE m = OwnerChanged(TRUE)
  <2>1. m.type = "NameOwnerChanged" /\ m.up = TRUE
    BY <1>9 DEF OwnerChanged
  <2>2. audioCalls' = Calls({AskAll}) /\ UNCHANGED <<sink_, volume_>>
    BY <1>3, <2>1 DEF connectService, AskAll
  <2>3. {AskAll} \in SUBSET AudioCall
    BY DEF AudioCall
  <2>4. /\ audioCalls \subseteq audioCalls' /\ audioCalls' \in SUBSET AudioCall
        /\ audioUp => audioCalls' = audioCalls \cup {AskAll}
        /\ ~audioUp => audioCalls' = audioCalls
    BY <1>1, <2>2, <2>3, CallsAre
  <2>5. /\ m \notin LevelsOf(sink_) /\ m \notin Leaving(sink_)
        /\ Claims(m, audioUp, defaultSink) => audioUp = TRUE
    BY <1>9, MessagesAre
  <2>6. SinkFollows(Tail(q), audioUp, defaultSink, audioCalls', sink_)
    BY <1>1, <1>4, <2>4, <2>5, SinkReads DEF m, q
  <2>7. sink_ # NoSink => LevelFollows(Tail(q), audioCalls', sink_, sinks[sink_], volume_)
    BY <1>1, <1>5, <2>4, <2>5, LevelReads DEF m, q
  <2> QED
    BY <1>1, <2>2, <2>4, <2>6, <2>7 DEF AudioInv, AudioType
<1>10. CASE m = OwnerChanged(FALSE)
  <2>1. m.type = "NameOwnerChanged" /\ m.up = FALSE
    BY <1>10 DEF OwnerChanged
  <2>2. sink_' = NoSink /\ audioCalls' = audioCalls /\ volume_' = volume_
    BY <1>3, <2>1 DEF setSink
  <2>3. m \in News /\ (Claims(m, audioUp, defaultSink) => audioUp = FALSE)
    BY <1>10, MessagesAre
  <2>4. SinkFollows(Tail(q), audioUp, defaultSink, audioCalls, NoSink)
    BY <1>1, <1>4, <2>3, SinkReads DEF m, q
  <2> QED
    BY <1>1, <2>2, <2>4 DEF AudioInv, AudioType
<1>11. ASSUME NEW s \in Sink \cup {NoSink}, m = SinkNamed(s)
      PROVE  /\ audioCalls' \in SUBSET AudioCall /\ (audioCalls' # {} => audioUp)
             /\ sink_' \in Sink \cup {NoSink} /\ volume_' \in Level
             /\ SinkFollows(Tail(q), audioUp, defaultSink, audioCalls', sink_')
             /\ sink_' # NoSink =>
                  LevelFollows(Tail(q), audioCalls', sink_', sinks[sink_'], volume_')
  <2>1. m.type = "DefaultSink" /\ m.sink = s
    BY <1>11 DEF SinkNamed
  <2>2. /\ sink_' = s /\ volume_' = volume_
        /\ audioCalls' = IF s \in {sink_, NoSink} THEN audioCalls ELSE Calls({AskSink(s)})
    BY <1>3, <2>1 DEF setSink, AskSink
  <2>3. /\ m \in News /\ m \notin LevelsOf(sink_) /\ (m \in Leaving(sink_) <=> s # sink_)
        /\ Claims(m, audioUp, defaultSink) => audioUp /\ defaultSink = s
    BY <1>11, MessagesAre
  <2>4. s \notin {sink_, NoSink} => {AskSink(s)} \in SUBSET AudioCall
    BY CallsApart
  <2>5. /\ audioCalls \subseteq audioCalls' /\ audioCalls' \in SUBSET AudioCall
        /\ audioCalls' # {} => audioUp
        /\ audioUp /\ s \notin {sink_, NoSink} => AskSink(s) \in audioCalls'
    <3>1. CASE s \in {sink_, NoSink}
      BY <1>1, <2>2, <3>1 DEF AudioInv, AudioType
    <3>2. CASE s \notin {sink_, NoSink}
      BY <1>1, <2>2, <2>4, <3>2, CallsAre DEF AudioInv
    <3> QED
      BY <3>1, <3>2
  <2>6. SinkFollows(Tail(q), audioUp, defaultSink, audioCalls', s)
    BY <1>1, <1>4, <2>3, <2>5, SinkReads DEF m, q
  <2>7. ASSUME s # NoSink
        PROVE  LevelFollows(Tail(q), audioCalls', s, sinks[s], volume_)
    <3>1. CASE s = sink_
      BY <1>1, <1>5, <2>3, <2>5, <2>7, <3>1, LevelReads DEF m, q
    <3>2. CASE s # sink_ /\ audioUp
      BY <2>5, <2>7, <3>2 DEF LevelFollows
    <3>3. CASE ~audioUp
      <4>1. audioUp = FALSE
        BY <1>1, <3>3 DEF AudioType
      <4>2. Among(Tail(q), Leaving(s))
        BY <1>2, <2>6, <2>7, <4>1, GoneIsTold
      <4> QED
        BY <4>2 DEF LevelFollows
    <3> QED
      BY <3>1, <3>2, <3>3
  <2> QED
    BY <1>1, <2>2, <2>5, <2>6, <2>7 DEF AudioType
<1>12. ASSUME NEW b \in BOOLEAN, m = OwnerChanged(b)
      PROVE  m = OwnerChanged(TRUE) \/ m = OwnerChanged(FALSE)
  BY <1>12, Zenon
<1>13. \/ \E b \in BOOLEAN : m = OwnerChanged(b)
       \/ \E s \in Sink \cup {NoSink} : m = SinkNamed(s)
       \/ \E s \in Sink, level \in Level : m = SinkTold(s, level)
       \/ \E level \in Level : m = LevelTold(level)
  BY <1>2, MessagesAre, Zenon
<1>14. CASE \E b \in BOOLEAN : m = OwnerChanged(b)
  BY <1>9, <1>10, <1>12, <1>14, Zenon
<1>15. CASE \E s \in Sink \cup {NoSink} : m = SinkNamed(s)
  BY <1>11, <1>15, Zenon
<1>16. CASE \E s \in Sink, level \in Level : m = SinkTold(s, level)
  BY <1>7, <1>16, Zenon
<1>17. CASE \E level \in Level : m = LevelTold(level)
  BY <1>8, <1>17, Zenon
<1> QED
  BY <1>13, <1>14, <1>15, <1>16, <1>17, Zenon

-----------------------------------------------------------------------------
LEMMA VolumeIsTrue == Spec => []VolumeFollows
<1>1. Init => AudioInv
  <2>1. VolumeInit => AudioType
    <3>1. Loud \in Level /\ <<>> \in Seq(AudioMessage)
      BY DEF Loud, Level
    <3> QED
      BY <3>1, Zenon DEF VolumeInit, AudioType, NoSink
  <2> QED
    BY <2>1 DEF Init, VolumeInit, AudioInv
<1>2. AudioInv /\ [Next]_servicesVars => AudioInv'
  <2>1. [Next]_servicesVars => VolumeNext \/ UNCHANGED volumeVars
    BY PartsApart
  <2>2. AudioInv /\ UNCHANGED volumeVars => AudioInv'
    BY DEF AudioInv, AudioType, volumeVars, audioVars
  <2> QED
    BY <2>1, <2>2, ServiceStarts, ServiceQuits, DefaultChanges, SinkChangesInv, AnswersInv,
       SystemVolumeStartsInv, DeliversInv, UserInv DEF VolumeNext
<1>3. AudioInv => VolumeFollows
  <2> SUFFICES ASSUME AudioInv, volumeShown, audioCalls = {}, audioInbox = <<>>
               PROVE  /\ sink_ = IF audioUp THEN defaultSink ELSE NoSink
                      /\ sink_ # NoSink => volume_ = sinks[sink_]
    BY DEF VolumeFollows
  <2>1. \A S : ~Among(<<>>, S)
    BY LatestIsAmong
  <2>2. sink_ = IF audioUp THEN defaultSink ELSE NoSink
    BY <2>1 DEF AudioInv, SinkFollows
  <2>3. ASSUME sink_ # NoSink PROVE volume_ = sinks[sink_]
    <3> DEFINE truth == sinks[sink_]
    <3>1. truth \in Level /\ volume_ \in Level
      BY <2>3, AudioParts DEF AudioType
    <3>2. LevelFollows(<<>>, {}, sink_, truth, volume_)
      BY <2>3 DEF AudioInv
    <3> HIDE DEF truth
    <3>3. volume_.volume = truth.volume /\ volume_.muted = truth.muted
      BY <2>1, <3>2 DEF LevelFollows
    <3>4. \A level \in Level : level = [volume |-> level.volume, muted |-> level.muted]
      BY DEF Level
    <3>5. volume_ = truth
      BY <3>1, <3>3, <3>4, Zenon
    <3> QED
      BY <3>5 DEF truth
  <2> QED
    BY <2>2, <2>3
<1> QED
  BY <1>1, <1>2, <1>3, PTL DEF Spec

-----------------------------------------------------------------------------
(* What the lock screen tells.                                               *)

Powers == {"shutdown", "reboot", "suspend", "hibernate"}
Retry == [isLock : BOOLEAN, lockNum : Int, tryNum : Int]
Copies ==
  [lock : [lockedOut : BOOLEAN, lockMinutes : Int], authenticating : BOOLEAN,
   pending : Powers \cup {""}, actions : SUBSET Powers, switch : BOOLEAN,
   keyboard : BOOLEAN]

(* What never changes: the users who are listed, each once and the session's *)
(* own among them, and what the machine can do.                              *)
ListInv ==
  /\ lockedUser = SessionUser /\ userList \in Seq(LockUser)
  /\ \A i, j \in DOMAIN userList : userList[i] = userList[j] => i = j
  /\ \E i \in DOMAIN userList : userList[i] = SessionUser
  /\ uiConfig.loginPromptAvatar /\ view.actions = updateAvailableActions
  /\ view.switch = updateUserSwitchAvailability

(* The copies are what they are copies of, and what is asked for is offered. *)
CopiesInv ==
  /\ retries \in Retry /\ view \in Copies /\ lockAction \in view.actions \cup {""}
  /\ rows = refresh(retries) /\ view.lock = LockStateOf(retries) /\ view.pending = lockAction
  /\ gone \in Powers => gone = lockAction

LockInv == ListInv /\ CopiesInv

LEMMA RetriesChange ==
  /\ [isLock |-> FALSE, lockNum |-> LockMinutes, tryNum |-> LockTries] \in Retry
  /\ \A r \in Retry, n \in Int :
       /\ [r EXCEPT !.tryNum = n] \in Retry
       /\ [r EXCEPT !.tryNum = n].isLock = r.isLock
       /\ [r EXCEPT !.tryNum = n].lockNum = r.lockNum
  /\ \A r \in Retry : r.lockNum - 1 \in Int /\ r.tryNum - 1 \in Int
  /\ \A r \in Retry, n \in Int : [r EXCEPT !.lockNum = n] \in Retry
  /\ \A r \in Retry, n \in Int : [r EXCEPT !.isLock = TRUE, !.lockNum = n] \in Retry
<1>1. LockMinutes \in Int /\ LockTries \in Int
  BY LockViewAssumption
<1>2. [isLock |-> FALSE, lockNum |-> LockMinutes, tryNum |-> LockTries] \in Retry
  BY <1>1 DEF Retry
<1>3. ASSUME NEW r \in Retry, NEW n \in Int
      PROVE  /\ [r EXCEPT !.tryNum = n] \in Retry
             /\ [r EXCEPT !.tryNum = n].isLock = r.isLock
             /\ [r EXCEPT !.tryNum = n].lockNum = r.lockNum
  BY <1>3 DEF Retry
<1>4. ASSUME NEW r \in Retry PROVE r.lockNum - 1 \in Int /\ r.tryNum - 1 \in Int
  BY <1>4 DEF Retry
<1>5. ASSUME NEW r \in Retry, NEW n \in Int PROVE [r EXCEPT !.lockNum = n] \in Retry
  BY <1>5 DEF Retry
<1>6. ASSUME NEW r \in Retry, NEW n \in Int
      PROVE  [r EXCEPT !.isLock = TRUE, !.lockNum = n] \in Retry
  BY <1>6 DEF Retry
<1> QED
  BY <1>2, <1>3, <1>4, <1>5, <1>6

(* A set of users put in a sequence.                                         *)
LEMMA UsersInASequence ==
  ASSUME NEW S \in SUBSET LockUser
  PROVE  LET s == SetToSeq(S)
         IN  /\ s \in Seq(LockUser) /\ Len(s) = Cardinality(S)
             /\ \A i, j \in DOMAIN s : s[i] = s[j] => i = j
             /\ \A u \in S : \E i \in DOMAIN s : s[i] = u
<1> DEFINE n == Cardinality(S)
           s == SetToSeq(S)
<1>1. IsFiniteSet(S) /\ n \in Nat /\ ExistsBijection(1 .. n, S)
  BY LockViewAssumption, FS_Subset, FS_CardinalityType
<1>2. PICK b \in Bijection(1 .. n, S) : TRUE
  BY <1>1 DEF ExistsBijection
<1>3. b \in [1 .. n -> S] /\ IsInjective(b)
  BY <1>2 DEF Bijection, Injection
<1>4. s \in [1 .. n -> S] /\ IsInjective(s)
  BY <1>3 DEF SetToSeq
<1>5. s \in Injection(1 .. n, S)
  BY <1>4 DEF Injection
<1>6. Cardinality(1 .. n) = n
  BY <1>1, FS_Interval
<1> HIDE DEF s, n
<1>7. s \in Surjection(1 .. n, S)
  BY <1>1, <1>5, <1>6, FS_Injection DEF n
<1>8. \A u \in S : \E i \in 1 .. n : s[i] = u
  BY <1>7 DEF Surjection
<1>9. s \in Seq(LockUser) /\ Len(s) = n /\ DOMAIN s = 1 .. n
  BY <1>1, <1>4
<1> QED
  BY <1>4, <1>8, <1>9 DEF IsInjective, n, s

LEMMA LockInvInit ==
  ASSUME Hideouts = {}, LockViewInit
  PROVE  LockInv
<1>1. PICK S \in SUBSET LockUser : SessionUser \in S /\ userList = SetToSeq(S)
  BY DEF LockViewInit, initData, UiConfig
<1>2. uiConfig.loginPromptAvatar
  BY DEF LockViewInit, UiConfig
<1>3. /\ userList \in Seq(LockUser)
      /\ \A i, j \in DOMAIN userList : userList[i] = userList[j] => i = j
      /\ \E i \in DOMAIN userList : userList[i] = SessionUser
  BY <1>1, UsersInASequence
<1>4. lockedUser = SessionUser
  <2>1. SessionUser \in ToSet(userList)
    BY <1>3 DEF ToSet
  <2> QED
    BY <2>1 DEF LockViewInit, onUserAdded
<1>5. /\ retries = [isLock |-> FALSE, lockNum |-> LockMinutes, tryNum |-> LockTries]
      /\ view = [lock |-> LockStateOf(retries), authenticating |-> FALSE, pending |-> "",
                 actions |-> updateAvailableActions, switch |-> updateUserSwitchAvailability,
                 keyboard |-> hasVirtualKB]
      /\ rows = refresh(retries) /\ lockAction = "" /\ gone = ""
  BY DEF LockViewInit
<1>6. retries \in Retry
  BY <1>5, RetriesChange
<1>7. LockStateOf(retries) \in [lockedOut : BOOLEAN, lockMinutes : Int]
  BY <1>6 DEF LockStateOf, Retry
<1> DEFINE switches == updateUserSwitchAvailability
           acts == updateAvailableActions
           state == LockStateOf(retries)
<1>8. /\ acts \in SUBSET Powers /\ switches \in BOOLEAN /\ hasVirtualKB \in BOOLEAN
  <2>1. acts \in SUBSET Powers
    BY DEF updateAvailableActions, Powers
  <2>2. switches \in BOOLEAN
    BY DEF updateUserSwitchAvailability
  <2>3. hasVirtualKB \in BOOLEAN
    BY <1>2 DEF hasVirtualKB, LockViewInit, UiConfig
  <2> QED
    BY <2>1, <2>2, <2>3
<1> HIDE DEF switches, acts, state
<1>9. /\ view \in Copies /\ view.lock = state /\ view.pending = "" /\ view.actions = acts
      /\ view.switch = switches
  BY <1>5, <1>7, <1>8 DEF Copies, acts, switches, state
<1>10. ListInv
  BY <1>2, <1>3, <1>4, <1>9 DEF ListInv, acts, switches
<1>11. CopiesInv
  BY <1>5, <1>6, <1>9 DEF CopiesInv, state, Powers
<1> QED
  BY <1>10, <1>11 DEF LockInv

(* The row of each user but the session's own is always the same.            *)
LEMMA RowsAreRenewed ==
  ASSUME ListInv, NEW r, NEW s, rows = refresh(r), UNCHANGED <<userList, lockedUser>>
  PROVE  /\ notifyUserChanged(s) = refresh(s)
         /\ refresh(s)' = [i \in DOMAIN userList |-> LockRowOf(userList[i], s')]
         /\ s.isLock = r.isLock /\ s.lockNum = r.lockNum =>
              refresh(s) = refresh(r) /\ LockStateOf(s) = LockStateOf(r)
<1>1. \A u : u # SessionUser => LockRowOf(u, s) = LockRowOf(u, r)
  BY DEF LockRowOf
<1>2. DOMAIN rows = DOMAIN userList
  BY DEF refresh
<1>3. notifyUserChanged(s) = refresh(s)
  <2>1. \A i \in DOMAIN userList :
          (IF userList[i] = SessionUser THEN LockRowOf(userList[i], s) ELSE rows[i])
            = LockRowOf(userList[i], s)
    BY <1>1 DEF refresh
  <2> QED
    BY <1>2, <2>1 DEF notifyUserChanged, refresh
<1>4. refresh(s)' = [i \in DOMAIN userList |-> LockRowOf(userList[i], s')]
  BY DEF refresh, LockRowOf
<1>5. ASSUME s.isLock = r.isLock, s.lockNum = r.lockNum
      PROVE  refresh(s) = refresh(r) /\ LockStateOf(s) = LockStateOf(r)
  BY <1>5 DEF refresh, LockRowOf, LockStateOf
<1> QED
  BY <1>3, <1>4, <1>5

(* One step, from what it makes of the retries and of the copies.            *)
LEMMA CopiesStep ==
  ASSUME LockInv, NEW s \in Retry, NEW v \in Copies,
         retries' = s, view' = v, rows' = refresh(s), v.lock = LockStateOf(s),
         v.pending = lockAction', v.actions = view.actions, v.switch = view.switch,
         lockAction' \in view.actions \cup {""}, gone' \in Powers => gone' = lockAction',
         UNCHANGED <<uiConfig, userList, lockedUser>>
  PROVE  LockInv'
<1>1. ListInv'
  BY DEF LockInv, ListInv, updateAvailableActions, updateUserSwitchAvailability, canSleep, hasSwap,
         checkSwap
<1>2. rows' = refresh(retries)' /\ view'.lock = LockStateOf(retries)'
  BY DEF refresh, LockRowOf, LockStateOf
<1> QED
  BY <1>1, <1>2 DEF LockInv, CopiesInv

LEMMA LockInvKept ==
  ASSUME LockInv, LockViewNext
  PROVE  LockInv'
<1>0. /\ UNCHANGED <<uiConfig, userList, lockedUser>> /\ ListInv
      /\ retries \in Retry /\ view \in Copies /\ lockAction \in view.actions \cup {""}
      /\ rows = refresh(retries) /\ view.lock = LockStateOf(retries) /\ view.pending = lockAction
      /\ gone \in Powers => gone = lockAction
  BY DEF LockInv, CopiesInv, LockViewNext, Authenticate, Rejected, Accepted, ComesBack, LockMinute,
         RequestPower, SwitchUser
<1>1. \A s \in Retry :
        /\ notifyUserChanged(s) = refresh(s)
        /\ s.isLock = retries.isLock /\ s.lockNum = retries.lockNum =>
             refresh(s) = refresh(retries) /\ LockStateOf(s) = LockStateOf(retries)
        /\ LockStateOf(s) \in [lockedOut : BOOLEAN, lockMinutes : Int]
  <2>1. \A s \in Retry : LockStateOf(s) \in [lockedOut : BOOLEAN, lockMinutes : Int]
    BY DEF LockStateOf, Retry
  <2> QED
    BY <1>0, <2>1, RowsAreRenewed
<1>2. CASE Authenticate
  <2> DEFINE v == [view EXCEPT !.authenticating = TRUE]
  <2>1. view' = v /\ UNCHANGED <<lockAction, retries, rows, gone>>
    BY <1>2 DEF Authenticate
  <2>2. /\ v \in Copies /\ v.lock = view.lock /\ v.pending = view.pending
        /\ v.actions = view.actions /\ v.switch = view.switch
    BY <1>0 DEF Copies
  <2> HIDE DEF v
  <2> QED
    BY <1>0, <2>1, <2>2, CopiesStep
<1>3. CASE Rejected
  <2> DEFINE state == LockStateOf(retries)
             failed == [view EXCEPT !.authenticating = FALSE, !.lock = state]
             counted == [retries EXCEPT !.tryNum = @ - 1]
             locked == [counted EXCEPT !.isLock = TRUE, !.lockNum = @ - 1]
             state1 == LockStateOf(locked)
             v1 == [failed EXCEPT !.lock = state1]
  <2>1. /\ \/ lockChanged(locked, failed)
           \/ retries' = counted /\ view' = failed /\ UNCHANGED rows
        /\ UNCHANGED <<lockAction, gone>>
    BY <1>3 DEF Rejected
  <2>2. /\ counted \in Retry /\ counted.isLock = retries.isLock
        /\ counted.lockNum = retries.lockNum /\ locked \in Retry
    <3>1. retries.tryNum - 1 \in Int /\ counted = [retries EXCEPT !.tryNum = retries.tryNum - 1]
      BY <1>0, RetriesChange
    <3>2. /\ counted \in Retry /\ counted.isLock = retries.isLock
          /\ counted.lockNum = retries.lockNum
      BY <1>0, <3>1, RetriesChange
    <3> HIDE DEF counted
    <3>3. counted.lockNum - 1 \in Int
      BY <3>2, RetriesChange
    <3>4. locked = [counted EXCEPT !.isLock = TRUE, !.lockNum = counted.lockNum - 1]
      OBVIOUS
    <3> QED
      BY <3>2, <3>3, <3>4, RetriesChange
  <2>5. state \in [lockedOut : BOOLEAN, lockMinutes : Int]
    BY <1>0, <1>1
  <2>6. state1 \in [lockedOut : BOOLEAN, lockMinutes : Int]
    <3> HIDE DEF locked
    <3> QED
      BY <1>1, <2>2
  <2>7. \/ view' = v1 /\ retries' = locked /\ rows' = notifyUserChanged(locked)
        \/ view' = failed /\ retries' = counted /\ rows' = rows
    BY <2>1 DEF lockChanged
  <2> HIDE DEF state, counted, locked, state1
  <2>3. /\ failed \in Copies /\ failed.lock = state /\ failed.pending = view.pending
        /\ failed.actions = view.actions /\ failed.switch = view.switch
    BY <1>0, <2>5 DEF Copies
  <2>4. /\ v1 \in Copies /\ v1.lock = state1 /\ v1.pending = view.pending
        /\ v1.actions = view.actions /\ v1.switch = view.switch
    BY <1>0, <2>3, <2>6 DEF Copies
  <2> HIDE DEF failed, v1
  <2>8. CASE view' = v1 /\ retries' = locked /\ rows' = notifyUserChanged(locked)
    BY <1>0, <1>1, <2>1, <2>2, <2>4, <2>8, CopiesStep DEF state1
  <2>9. CASE view' = failed /\ retries' = counted /\ rows' = rows
    <3>1. refresh(counted) = rows /\ LockStateOf(counted) = state
      BY <1>0, <1>1, <2>2 DEF state
    <3> QED
      BY <1>0, <2>1, <2>2, <2>3, <2>9, <3>1, CopiesStep
  <2> QED
    BY <2>7, <2>8, <2>9
<1>4. CASE Accepted
  <2> DEFINE state == LockStateOf(retries)
             s == [retries EXCEPT !.tryNum = LockTries]
             v1 == [view EXCEPT !.authenticating = FALSE, !.pending = lockAction]
             v2 == [view EXCEPT !.authenticating = FALSE, !.lock = state]
  <2>1. /\ retries' = s /\ UNCHANGED <<lockAction, rows>>
        /\ view' = IF lockAction # "" THEN v1 ELSE v2
        /\ gone' = IF lockAction # "" THEN lockAction ELSE "unlocked"
    BY <1>4 DEF Accepted, onPowerActionRequested
  <2>2. s \in Retry /\ s.isLock = retries.isLock /\ s.lockNum = retries.lockNum
    <3>1. LockTries \in Int
      BY LockViewAssumption
    <3> QED
      BY <1>0, <3>1, RetriesChange
  <2>3. state \in [lockedOut : BOOLEAN, lockMinutes : Int]
    BY <1>0, <1>1
  <2> HIDE DEF s, state
  <2>4. /\ v1 \in Copies /\ v1.lock = view.lock /\ v1.pending = lockAction
        /\ v1.actions = view.actions /\ v1.switch = view.switch
    BY <1>0 DEF Copies
  <2>5. /\ v2 \in Copies /\ v2.lock = state /\ v2.pending = view.pending
        /\ v2.actions = view.actions /\ v2.switch = view.switch
    BY <1>0, <2>3 DEF Copies
  <2> HIDE DEF v1, v2
  <2>6. refresh(s) = rows /\ LockStateOf(s) = state
    BY <1>0, <1>1, <2>2 DEF state
  <2>7. gone' \in Powers => gone' = lockAction
    BY <2>1 DEF Powers
  <2> DEFINE v == view'
  <2>8. /\ v \in Copies /\ v.lock = state /\ v.pending = lockAction
        /\ v.actions = view.actions /\ v.switch = view.switch
    BY <1>0, <2>1, <2>4, <2>5 DEF state
  <2>9. view' = v
    OBVIOUS
  <2> HIDE DEF v
  <2> QED
    BY <1>0, <2>1, <2>2, <2>6, <2>7, <2>8, <2>9, CopiesStep
<1>5. CASE ComesBack
  <2>1. UNCHANGED <<lockAction, retries, view, rows>> /\ gone' = ""
    BY <1>5 DEF ComesBack
  <2>2. gone' \notin Powers
    BY <2>1 DEF Powers
  <2> QED
    BY <1>0, <2>1, <2>2, CopiesStep
<1>6. CASE LockMinute
  <2> DEFINE s == IF retries.lockNum = 1
                    THEN [isLock |-> FALSE, lockNum |-> LockMinutes, tryNum |-> LockTries]
                    ELSE [retries EXCEPT !.lockNum = @ - 1]
             state == LockStateOf(s)
             v == [view EXCEPT !.lock = state]
  <2>1. /\ retries' = s /\ view' = v /\ rows' = notifyUserChanged(s)
        /\ UNCHANGED <<lockAction, gone>>
    BY <1>6 DEF LockMinute, lockChanged
  <2>2. s \in Retry
    <3>1. retries.lockNum - 1 \in Int
      BY <1>0, RetriesChange
    <3>2. [retries EXCEPT !.lockNum = @ - 1] \in Retry
      BY <1>0, <3>1, RetriesChange
    <3> QED
      BY <3>2, RetriesChange
  <2> HIDE DEF s
  <2>3. state \in [lockedOut : BOOLEAN, lockMinutes : Int]
    BY <1>1, <2>2
  <2> HIDE DEF state
  <2>4. /\ v \in Copies /\ v.lock = state /\ v.pending = view.pending
        /\ v.actions = view.actions /\ v.switch = view.switch
    BY <1>0, <2>3 DEF Copies
  <2> HIDE DEF v
  <2> QED
    BY <1>0, <1>1, <2>1, <2>2, <2>4, CopiesStep DEF state
<1>7. ASSUME NEW action, RequestPower(action) PROVE LockInv'
  <2> DEFINE v == [view EXCEPT !.pending = action]
  <2>1. /\ view' = v /\ lockAction' = action /\ UNCHANGED <<retries, rows, gone>> /\ gone = ""
        /\ action \in view.actions \cup {""}
    BY <1>7 DEF RequestPower, setLockAction
  <2>2. action \in Powers \cup {""} /\ gone \notin Powers
    BY <1>0, <2>1 DEF Copies, Powers
  <2>3. /\ v \in Copies /\ v.lock = view.lock /\ v.pending = action
        /\ v.actions = view.actions /\ v.switch = view.switch
    BY <1>0, <2>2 DEF Copies
  <2> HIDE DEF v
  <2> QED
    BY <1>0, <2>1, <2>2, <2>3, CopiesStep
<1>8. ASSUME NEW i \in DOMAIN userList, SwitchUser(i) PROVE LockInv'
  <2>1. UNCHANGED <<lockAction, retries, view, rows>> /\ gone' = "greeter"
    BY <1>8 DEF SwitchUser, switchToUser
  <2>2. gone' \notin Powers
    BY <2>1 DEF Powers
  <2> QED
    BY <1>0, <2>1, <2>2, CopiesStep
<1> QED
  BY <1>2, <1>3, <1>4, <1>5, <1>6, <1>7, <1>8 DEF LockViewNext

LEMMA LockIsTold ==
  ASSUME LockInv
  PROVE  LockTellsTruth
<1>1. rows = [i \in DOMAIN userList |-> LockRowOf(userList[i], retries)]
  BY DEF LockInv, CopiesInv, refresh
<1>2. gone \in {"shutdown", "reboot", "suspend", "hibernate"} =>
        gone = view.pending /\ gone \in view.actions
  BY DEF LockInv, CopiesInv, Powers
<1>3. "hibernate" \in view.actions <=>
        uiConfig.hibernate /\ \E i \in DOMAIN uiConfig.swaps : uiConfig.swaps[i] = "big"
  BY DEF LockInv, ListInv, updateAvailableActions, hasSwap, checkSwap
<1>4. ASSUME view.switch, uiConfig.showSwitchUserButton = "ondemand"
      PROVE  ToSet(userList) # {SessionUser}
  <2>1. Len(userList) > 1 /\ Len(userList) \in Nat /\ DOMAIN userList = 1 .. Len(userList)
    <3>1. userList \in Seq(LockUser) /\ view.switch = updateUserSwitchAvailability
      BY DEF LockInv, ListInv
    <3>2. Len(userList) > 1
      BY <1>4, <3>1 DEF updateUserSwitchAvailability
    <3> QED
      BY <3>1, <3>2
  <2>2. 1 \in DOMAIN userList /\ 2 \in DOMAIN userList
    BY <2>1
  <2>3. userList[1] # userList[2] /\ userList[1] \in ToSet(userList)
        /\ userList[2] \in ToSet(userList)
    BY <2>2 DEF LockInv, ListInv, ToSet
  <2> QED
    BY <2>3
<1> QED
  BY <1>1, <1>2, <1>3, <1>4 DEF LockTellsTruth, LockInv, ListInv, CopiesInv

LEMMA LockIsTrue ==
  ASSUME Hideouts = {}
  PROVE  Spec => []LockTellsTruth
<1>1. Init => LockInv
  BY LockInvInit DEF Init
<1>2. LockInv /\ [Next]_servicesVars => LockInv'
  <2>1. [Next]_servicesVars => LockViewNext \/ UNCHANGED viewVars
    BY PartsApart
  <2>2. ASSUME LockInv, UNCHANGED viewVars PROVE LockInv'
    BY <2>2, CopiesStep DEF LockInv, CopiesInv, viewVars
  <2> QED
    BY <2>1, <2>2, LockInvKept
<1>3. LockInv => LockTellsTruth
  BY LockIsTold
<1> QED
  BY <1>1, <1>2, <1>3, PTL DEF Spec

-----------------------------------------------------------------------------
(* The media controls.                                                       *)
Position == {0, 1}
MediaMessage ==
  [type : {"NameOwnerChanged"}, player : Player, up : BOOLEAN]
    \cup [type : {"ListNames"}, running : SUBSET Player]
    \cup [type : {"Metadata"}, player : Player, status : Status, track : Track]
    \cup [type : {"All"}, player : Player, status : Status, track : Track, position : Position]
    \cup [type : {"Position"}, player : Player, position : Position]
    \cup [type : {"Invalidated", "Silenced"}, player : Player]
Question ==
  [type : {"ListNames"}, player : {NoPlayer}] \cup [type : {"GetAll", "Get"}, player : Player]
    \cup [type : {"SetPosition"}, player : Player, track : Track]
AskNames == Ask("ListNames", NoPlayer)
Jump(p, track) == [type |-> "SetPosition", player |-> p, track |-> track]

(* What they are about: whether p runs, that it is gone, what it plays and   *)
(* where, that it is to be asked; and those from which another track than t  *)
(* is learnt of.                                                             *)
PresenceOf(p) ==
  {m \in MediaMessage : \/ m.type = "NameOwnerChanged" /\ m.player = p
                        \/ m.type = "ListNames" /\ p \in m.running}
GoneOf(p) == {m \in MediaMessage : m.type = "NameOwnerChanged" /\ m.player = p /\ ~m.up}
StateOf(p) == {m \in MediaMessage : m.type \in {"Metadata", "All"} /\ m.player = p}
PositionOf(p) == {m \in MediaMessage : m.type \in {"All", "Position"} /\ m.player = p}
InvalidOf(p) == {m \in MediaMessage : m.type = "Invalidated" /\ m.player = p}
TurnOf(p, t) == {m \in StateOf(p) : m.track # t}

(* The players that are held will be those that run.                         *)
Arrives(m) == m.type = "ListNames" \/ m.up
PresenceFollows(q, calls, p, runs, has) ==
  /\ \A m \in MediaMessage : Latest(q, PresenceOf(p), m) => (runs <=> Arrives(m))
  /\ Among(q, PresenceOf(p)) => \E m \in MediaMessage : Latest(q, PresenceOf(p), m)
  /\ ~Among(q, PresenceOf(p)) => (has => runs) /\ (runs => has \/ AskNames \in calls)

(* What is held of p will be the truth, unless all of it will be asked for,  *)
(* or p will be gone; and the position, unless that will be asked for.       *)
WillRenew(q, calls, p) ==
  Ask("GetAll", p) \in calls \/ Among(q, GoneOf(p)) \/ Among(q, InvalidOf(p))
StateFollows(q, calls, p, truth, k) ==
  \/ WillRenew(q, calls, p)
  \/ /\ \A m \in MediaMessage : Latest(q, StateOf(p), m) =>
           m.status = truth.status /\ m.track = truth.track
     /\ Among(q, StateOf(p)) => \E m \in MediaMessage : Latest(q, StateOf(p), m)
     /\ ~Among(q, StateOf(p)) => k.status = truth.status /\ k.track = truth.track
PositionFollows(q, calls, p, truth, k) ==
  \/ WillRenew(q, calls, p)
  \/ Ask("Get", p) \in calls \/ Jump(p, truth.track) \in calls
  \/ Among(q, TurnOf(p, k.track))
  \/ /\ \A m \in MediaMessage : Latest(q, PositionOf(p), m) => m.position = truth.position
     /\ Among(q, PositionOf(p)) => \E m \in MediaMessage : Latest(q, PositionOf(p), m)
     /\ ~Among(q, PositionOf(p)) => k.position = Micros(k.track, truth.position)
Follows(q, calls, p, truth, k) ==
  StateFollows(q, calls, p, truth, k) /\ PositionFollows(q, calls, p, truth, k)

(* The one whose controls are shown.                                         *)
ActiveFollows(ps, k, onTop, timer) ==
  /\ IF ps = <<>> THEN onTop = NoPlayer ELSE onTop \in ToSet(ps)
  /\ (\E p \in ToSet(ps) : IsPlaying(k, p)) => IsPlaying(k, onTop)
  /\ timer <=> IsPlaying(k, onTop)

Truth == [status : Status, track : Track, position : Position]
Knowledge == [status : Status \cup {""}, track : Track \cup {NoTrack}, position : Nat]
MediaType ==
  /\ running \in SUBSET Player /\ theirs \in [Player -> Truth]
  /\ questions \in SUBSET Question /\ mediaInbox \in Seq(MediaMessage)
  /\ watching \in BOOLEAN /\ position_timer_ \in BOOLEAN
  /\ players \in Seq(Player) /\ IsInjective(players)
  /\ known \in [Player -> Knowledge]

MediaInv ==
  /\ MediaType
  /\ ~watching => questions = {} /\ mediaInbox = <<>> /\ players = <<>>
  /\ ActiveFollows(players, known, active_, position_timer_)
  /\ watching => \A p \in Player :
       PresenceFollows(mediaInbox, questions, p, p \in running, p \in ToSet(players))
  /\ \A p \in ToSet(players) : Follows(mediaInbox, questions, p, theirs[p], known[p])

(* Nothing that was asked of p is forgotten.                                 *)
StillAsked(calls, calls1, p) == \A c \in calls : c.player = p => c \in calls1

LEMMA AboutPlayers ==
  ASSUME NEW p, NEW S, NEW t,
         S \in {PresenceOf(p), GoneOf(p), StateOf(p), PositionOf(p), InvalidOf(p), TurnOf(p, t)}
  PROVE  S \subseteq MediaMessage
  BY DEF PresenceOf, GoneOf, StateOf, PositionOf, InvalidOf, TurnOf

LEMMA QuestionsApart ==
  /\ \A type, p : Ask(type, p).type = type /\ Ask(type, p).player = p
  /\ \A p, t : /\ Jump(p, t).type = "SetPosition" /\ Jump(p, t).player = p
               /\ Jump(p, t).track = t
  /\ AskNames.player = NoPlayer /\ AskNames \in Question
  /\ \A p \in Player : Ask("GetAll", p) \in Question /\ Ask("Get", p) \in Question
  /\ \A p \in Player, t \in Track : Jump(p, t) \in Question
  BY DEF Ask, Jump, AskNames, Question

LEMMA RenewalKept ==
  ASSUME NEW p, NEW calls, NEW calls1, StillAsked(calls, calls1, p)
  PROVE  /\ Ask("GetAll", p) \in calls => Ask("GetAll", p) \in calls1
         /\ Ask("Get", p) \in calls => Ask("Get", p) \in calls1
         /\ \A t : Jump(p, t) \in calls => Jump(p, t) \in calls1
         /\ p = NoPlayer /\ AskNames \in calls => AskNames \in calls1
         /\ \A q : WillRenew(q, calls, p) => WillRenew(q, calls1, p)
<1>1. /\ Ask("GetAll", p).player = p /\ Ask("Get", p).player = p
      /\ \A t : Jump(p, t).player = p
      /\ AskNames.player = NoPlayer
  BY QuestionsApart
<1> QED
  BY <1>1 DEF StillAsked, WillRenew

(* Questions come and go.                                                    *)
LEMMA QuestionsKept ==
  ASSUME NEW q, NEW calls, NEW calls1
  PROVE  /\ \A p, runs, has :
              PresenceFollows(q, calls, p, runs, has) /\ StillAsked(calls, calls1, NoPlayer) =>
              PresenceFollows(q, calls1, p, runs, has)
         /\ \A p, truth, k : Follows(q, calls, p, truth, k) /\ StillAsked(calls, calls1, p) =>
                             Follows(q, calls1, p, truth, k)
<1>1. ASSUME NEW p, NEW runs, NEW has,
             PresenceFollows(q, calls, p, runs, has), StillAsked(calls, calls1, NoPlayer)
      PROVE  PresenceFollows(q, calls1, p, runs, has)
  BY <1>1, RenewalKept DEF PresenceFollows
<1>2. ASSUME NEW p, NEW truth, NEW k, Follows(q, calls, p, truth, k), StillAsked(calls, calls1, p)
      PROVE  Follows(q, calls1, p, truth, k)
  <2>1. /\ Ask("Get", p) \in calls => Ask("Get", p) \in calls1
        /\ \A t : Jump(p, t) \in calls => Jump(p, t) \in calls1
        /\ WillRenew(q, calls, p) => WillRenew(q, calls1, p)
    BY <1>2, RenewalKept
  <2>2. StateFollows(q, calls1, p, truth, k)
    BY <1>2, <2>1 DEF Follows, StateFollows
  <2>3. PositionFollows(q, calls1, p, truth, k)
    BY <1>2, <2>1 DEF Follows, PositionFollows
  <2> QED
    BY <2>2, <2>3 DEF Follows
<1> QED
  BY <1>1, <1>2

(* A message comes.                                                          *)
LEMMA PresenceHears ==
  ASSUME NEW q \in Seq(MediaMessage), NEW m \in MediaMessage, NEW calls, NEW calls1, NEW p,
         NEW runs, NEW has
  PROVE  /\ m \in PresenceOf(p) /\ (runs <=> Arrives(m)) =>
              PresenceFollows(Append(q, m), calls1, p, runs, has)
         /\ /\ m \notin PresenceOf(p) /\ PresenceFollows(q, calls, p, runs, has)
            /\ StillAsked(calls, calls1, NoPlayer) \/ ~runs
            => PresenceFollows(Append(q, m), calls1, p, runs, has)
<1> DEFINE r == Append(q, m)
           S == PresenceOf(p)
<1>1. /\ Among(r, S) <=> Among(q, S) \/ m \in S
      /\ m \in S => \A x : Latest(r, S, x) <=> x = m
      /\ m \notin S => \A x : Latest(r, S, x) <=> Latest(q, S, x)
  BY AppendedIsLatest
<1> HIDE DEF r, S
<1>2. ASSUME m \in S, runs <=> Arrives(m) PROVE PresenceFollows(r, calls1, p, runs, has)
  BY <1>1, <1>2 DEF PresenceFollows, S
<1>3. ASSUME m \notin S, PresenceFollows(q, calls, p, runs, has),
             StillAsked(calls, calls1, NoPlayer) \/ ~runs
      PROVE  PresenceFollows(r, calls1, p, runs, has)
  <2>1. AskNames \in calls => AskNames \in calls1 \/ ~runs
    BY <1>3, RenewalKept
  <2> QED
    BY <1>1, <1>3, <2>1 DEF PresenceFollows, S
<1> QED
  BY <1>2, <1>3 DEF r, S

LEMMA RenewalHears ==
  ASSUME NEW q \in Seq(MediaMessage), NEW m \in MediaMessage, NEW calls, NEW p
  PROVE  WillRenew(Append(q, m), calls, p) <=>
           m \in GoneOf(p) \/ m \in InvalidOf(p) \/ WillRenew(q, calls, p)
<1>1. /\ Among(Append(q, m), GoneOf(p)) <=> Among(q, GoneOf(p)) \/ m \in GoneOf(p)
      /\ Among(Append(q, m), InvalidOf(p)) <=> Among(q, InvalidOf(p)) \/ m \in InvalidOf(p)
  BY AppendedIsLatest
<1> QED
  BY <1>1 DEF WillRenew

LEMMA StateHears ==
  ASSUME NEW q \in Seq(MediaMessage), NEW m \in MediaMessage, NEW calls, NEW p, NEW truth, NEW k
  PROVE  /\ m \in GoneOf(p) \/ m \in InvalidOf(p) => Follows(Append(q, m), calls, p, truth, k)
         /\ m \in StateOf(p) /\ m.status = truth.status /\ m.track = truth.track =>
              StateFollows(Append(q, m), calls, p, truth, k)
         /\ m \notin StateOf(p) /\ StateFollows(q, calls, p, truth, k) =>
              StateFollows(Append(q, m), calls, p, truth, k)
<1> DEFINE r == Append(q, m)
           S == StateOf(p)
<1>1. /\ Among(r, S) <=> Among(q, S) \/ m \in S
      /\ m \in S => \A x : Latest(r, S, x) <=> x = m
      /\ m \notin S => \A x : Latest(r, S, x) <=> Latest(q, S, x)
      /\ WillRenew(r, calls, p) <=> m \in GoneOf(p) \/ m \in InvalidOf(p) \/ WillRenew(q, calls, p)
  BY AppendedIsLatest, RenewalHears
<1> HIDE DEF r, S
<1>2. m \in GoneOf(p) \/ m \in InvalidOf(p) => Follows(r, calls, p, truth, k)
  BY <1>1 DEF Follows, StateFollows, PositionFollows
<1>3. m \in S /\ m.status = truth.status /\ m.track = truth.track =>
        StateFollows(r, calls, p, truth, k)
  BY <1>1 DEF StateFollows, S
<1>4. m \notin S /\ StateFollows(q, calls, p, truth, k) => StateFollows(r, calls, p, truth, k)
  BY <1>1 DEF StateFollows, S
<1> QED
  BY <1>2, <1>3, <1>4 DEF r, S

LEMMA PositionHears ==
  ASSUME NEW q \in Seq(MediaMessage), NEW m \in MediaMessage, NEW calls, NEW p, NEW truth, NEW k
  PROVE  /\ m \in PositionOf(p) /\ m.position = truth.position =>
              PositionFollows(Append(q, m), calls, p, truth, k)
         /\ m \notin PositionOf(p) /\ PositionFollows(q, calls, p, truth, k) =>
              PositionFollows(Append(q, m), calls, p, truth, k)
         /\ \A t : m \in StateOf(p) /\ m.track # t.track /\ StateFollows(q, calls, p, t, k) =>
              PositionFollows(Append(q, m), calls, p, truth, k)
<1> DEFINE r == Append(q, m)
           S == PositionOf(p)
           T == TurnOf(p, k.track)
<1>1. /\ Among(r, S) <=> Among(q, S) \/ m \in S
      /\ m \in S => \A x : Latest(r, S, x) <=> x = m
      /\ m \notin S => \A x : Latest(r, S, x) <=> Latest(q, S, x)
      /\ Among(r, T) <=> Among(q, T) \/ m \in T
      /\ WillRenew(q, calls, p) => WillRenew(r, calls, p)
  BY AppendedIsLatest, RenewalHears
<1>2. m \in StateOf(p) /\ m.track # k.track => m \in T
  BY DEF TurnOf
<1>3. \A x : x \in StateOf(p) /\ x.track # k.track => x \in T
  BY DEF TurnOf
<1> HIDE DEF r, S, T
<1>4. m \in S /\ m.position = truth.position => PositionFollows(r, calls, p, truth, k)
  BY <1>1 DEF PositionFollows, S
<1>5. m \notin S /\ PositionFollows(q, calls, p, truth, k) => PositionFollows(r, calls, p, truth, k)
  BY <1>1 DEF PositionFollows, S, T
<1>6. ASSUME NEW t, m \in StateOf(p), m.track # t.track, StateFollows(q, calls, p, t, k)
      PROVE  PositionFollows(r, calls, p, truth, k)
  <2>1. WillRenew(q, calls, p) \/ Among(q, T) \/ m.track # k.track
    <3>1. CASE Among(q, StateOf(p)) /\ ~WillRenew(q, calls, p)
      <4>1. PICK x \in MediaMessage : Latest(q, StateOf(p), x)
        BY <1>6, <3>1 DEF StateFollows
      <4>2. x.track = t.track
        BY <1>6, <3>1, <4>1 DEF StateFollows
      <4>3. x \in StateOf(p) /\ (x \in T => Among(q, T))
        BY <4>1, LatestIsAmong
      <4> QED
        BY <1>3, <1>6, <4>2, <4>3
    <3>2. CASE ~Among(q, StateOf(p)) /\ ~WillRenew(q, calls, p)
      BY <1>6, <3>2 DEF StateFollows
    <3> QED
      BY <3>1, <3>2
  <2>2. WillRenew(r, calls, p) \/ Among(r, T)
    BY <1>1, <1>2, <1>6, <2>1
  <2> QED
    BY <2>2 DEF PositionFollows, T
<1> QED
  BY <1>4, <1>5, <1>6 DEF r, S, T

(* A message is read.                                                        *)
LEMMA PresenceReads ==
  ASSUME NEW q \in Seq(MediaMessage), q # <<>>, NEW calls, NEW calls1, NEW p, NEW runs,
         NEW has, NEW held1,
         PresenceFollows(q, calls, p, runs, has), StillAsked(calls, calls1, NoPlayer),
         Head(q) \notin PresenceOf(p) => (held1 <=> has),
         Head(q) \in PresenceOf(p) /\ (runs <=> Arrives(Head(q))) => (held1 <=> runs)
  PROVE  PresenceFollows(Tail(q), calls1, p, runs, held1)
<1> DEFINE r == Tail(q)
           m == Head(q)
           S == PresenceOf(p)
<1>1. /\ m \in MediaMessage
      /\ Among(q, S) <=> m \in S \/ Among(r, S)
      /\ Among(r, S) => \A x : Latest(r, S, x) <=> Latest(q, S, x)
      /\ ~Among(r, S) => \A x : ~Latest(r, S, x)
      /\ ~Among(r, S) /\ m \in S => Latest(q, S, m)
  BY RestIsLatest
<1>2. AskNames \in calls => AskNames \in calls1
  BY RenewalKept
<1>3. (m \notin S => (held1 <=> has)) /\ (m \in S /\ (runs <=> Arrives(m)) => (held1 <=> runs))
  OBVIOUS
<1> HIDE DEF r, m, S
<1>4. CASE Among(r, S)
  BY <1>1, <1>4 DEF PresenceFollows, r, S
<1>5. CASE ~Among(r, S) /\ m \in S
  <2>1. runs <=> Arrives(m)
    BY <1>1, <1>5 DEF PresenceFollows, S
  <2> QED
    BY <1>1, <1>3, <1>5, <2>1 DEF PresenceFollows, r, S
<1>6. CASE ~Among(r, S) /\ m \notin S
  BY <1>1, <1>2, <1>3, <1>6 DEF PresenceFollows, r, S
<1> QED
  BY <1>4, <1>5, <1>6

LEMMA RenewalReads ==
  ASSUME NEW q \in Seq(MediaMessage), q # <<>>, NEW calls, NEW calls1, NEW p,
         StillAsked(calls, calls1, p), Head(q) \notin GoneOf(p),
         Head(q) \in InvalidOf(p) => WillRenew(Tail(q), calls1, p)
  PROVE  WillRenew(q, calls, p) => WillRenew(Tail(q), calls1, p)
<1>1. /\ Among(q, GoneOf(p)) <=> Head(q) \in GoneOf(p) \/ Among(Tail(q), GoneOf(p))
      /\ Among(q, InvalidOf(p)) <=> Head(q) \in InvalidOf(p) \/ Among(Tail(q), InvalidOf(p))
  BY RestIsLatest
<1>2. Ask("GetAll", p) \in calls => Ask("GetAll", p) \in calls1
  BY RenewalKept
<1> QED
  BY <1>1, <1>2 DEF WillRenew

LEMMA StateReads ==
  ASSUME NEW q \in Seq(MediaMessage), q # <<>>, NEW calls, NEW calls1, NEW p, NEW truth,
         NEW k, NEW k1, StateFollows(q, calls, p, truth, k),
         WillRenew(q, calls, p) => WillRenew(Tail(q), calls1, p),
         Head(q) \in StateOf(p) => k1.status = Head(q).status /\ k1.track = Head(q).track,
         Head(q) \notin StateOf(p) => k1.status = k.status /\ k1.track = k.track
  PROVE  StateFollows(Tail(q), calls1, p, truth, k1)
<1> DEFINE r == Tail(q)
           m == Head(q)
           S == StateOf(p)
<1>1. /\ m \in MediaMessage
      /\ Among(q, S) <=> m \in S \/ Among(r, S)
      /\ Among(r, S) => \A x : Latest(r, S, x) <=> Latest(q, S, x)
      /\ ~Among(r, S) => \A x : ~Latest(r, S, x)
      /\ ~Among(r, S) /\ m \in S => Latest(q, S, m)
  BY RestIsLatest
<1>2. /\ m \in S => k1.status = m.status /\ k1.track = m.track
      /\ m \notin S => k1.status = k.status /\ k1.track = k.track
      /\ WillRenew(q, calls, p) => WillRenew(r, calls1, p)
  OBVIOUS
<1> HIDE DEF r, m, S
<1>3. CASE WillRenew(q, calls, p)
  BY <1>2, <1>3 DEF StateFollows, r
<1>4. CASE ~WillRenew(q, calls, p) /\ Among(r, S)
  BY <1>1, <1>4 DEF StateFollows, r, S
<1>5. CASE ~WillRenew(q, calls, p) /\ ~Among(r, S) /\ m \in S
  <2>1. m.status = truth.status /\ m.track = truth.track
    BY <1>1, <1>5 DEF StateFollows, S
  <2> QED
    BY <1>1, <1>2, <1>5, <2>1 DEF StateFollows, r, S
<1>6. CASE ~WillRenew(q, calls, p) /\ ~Among(r, S) /\ m \notin S
  BY <1>1, <1>2, <1>6 DEF StateFollows, r, S
<1> QED
  BY <1>3, <1>4, <1>5, <1>6

LEMMA PositionReads ==
  ASSUME NEW q \in Seq(MediaMessage), q # <<>>, NEW calls, NEW calls1, NEW p, NEW truth,
         NEW k, NEW k1, PositionFollows(q, calls, p, truth, k), StillAsked(calls, calls1, p),
         WillRenew(q, calls, p) => WillRenew(Tail(q), calls1, p),
         Head(q) \in TurnOf(p, k.track) =>
           Ask("Get", p) \in calls1 \/ WillRenew(Tail(q), calls1, p),
         Head(q) \notin TurnOf(p, k.track) => k1.track = k.track,
         Head(q) \in PositionOf(p) => k1.position = Micros(k1.track, Head(q).position),
         Head(q) \notin PositionOf(p) => k1.position = k.position
  PROVE  PositionFollows(Tail(q), calls1, p, truth, k1)
<1> DEFINE r == Tail(q)
           m == Head(q)
           S == PositionOf(p)
           T == TurnOf(p, k.track)
<1>1. /\ m \in MediaMessage
      /\ Among(q, S) <=> m \in S \/ Among(r, S)
      /\ Among(r, S) => \A x : Latest(r, S, x) <=> Latest(q, S, x)
      /\ ~Among(r, S) => \A x : ~Latest(r, S, x)
      /\ ~Among(r, S) /\ m \in S => Latest(q, S, m)
      /\ Among(q, T) <=> m \in T \/ Among(r, T)
  BY RestIsLatest
<1>2. /\ m \in S => k1.position = Micros(k1.track, m.position)
      /\ m \notin S => k1.position = k.position
      /\ m \in T => Ask("Get", p) \in calls1 \/ WillRenew(r, calls1, p)
      /\ m \notin T => k1.track = k.track
      /\ WillRenew(q, calls, p) => WillRenew(r, calls1, p)
  OBVIOUS
<1>3. /\ Ask("Get", p) \in calls => Ask("Get", p) \in calls1
      /\ Jump(p, truth.track) \in calls => Jump(p, truth.track) \in calls1
  BY RenewalKept
<1>4. k1.track = k.track => TurnOf(p, k1.track) = T
  OBVIOUS
<1> HIDE DEF r, m, S, T
<1>5. CASE m \in T
  BY <1>2, <1>5 DEF PositionFollows, r
<1>6. CASE m \notin T /\ Among(r, T)
  BY <1>2, <1>4, <1>6 DEF PositionFollows, r
<1>7. CASE \/ WillRenew(q, calls, p) \/ Ask("Get", p) \in calls \/ Jump(p, truth.track) \in calls
  BY <1>2, <1>3, <1>7 DEF PositionFollows, r
<1>8. CASE /\ m \notin T /\ ~Among(r, T)
           /\ ~(WillRenew(q, calls, p) \/ Ask("Get", p) \in calls \/ Jump(p, truth.track) \in calls)
  <2>1. /\ \A x \in MediaMessage : Latest(q, S, x) => x.position = truth.position
        /\ Among(q, S) => \E x \in MediaMessage : Latest(q, S, x)
        /\ ~Among(q, S) => k.position = Micros(k.track, truth.position)
    BY <1>1, <1>8 DEF PositionFollows, S, T
  <2>2. /\ \A x \in MediaMessage : Latest(r, S, x) => x.position = truth.position
        /\ Among(r, S) => \E x \in MediaMessage : Latest(r, S, x)
    BY <1>1, <2>1
  <2>3. ASSUME ~Among(r, S) PROVE k1.position = Micros(k1.track, truth.position)
    <3>1. CASE m \in S
      <4>1. m.position = truth.position
        BY <1>1, <2>1, <2>3, <3>1
      <4> QED
        BY <1>2, <3>1, <4>1
    <3>2. CASE m \notin S
      BY <1>1, <1>2, <1>8, <2>1, <2>3, <3>2
    <3> QED
      BY <3>1, <3>2
  <2> QED
    BY <2>2, <2>3 DEF PositionFollows, r, S
<1> QED
  BY <1>5, <1>6, <1>7, <1>8

(* Who is gone is heard no more, and nobody else is heard less.              *)
LEMMA SilenceKeeps ==
  ASSUME NEW q \in Seq(MediaMessage), NEW a \in Player
  PROVE  /\ Silenced(q, a) \in Seq(MediaMessage)
         /\ \A calls, p, runs, has : PresenceFollows(q, calls, p, runs, has) =>
              PresenceFollows(Silenced(q, a), calls, p, runs, has)
         /\ \A calls, p, truth, k : p # a /\ Follows(q, calls, p, truth, k) =>
              Follows(Silenced(q, a), calls, p, truth, k)
<1> DEFINE r == Silenced(q, a)
           Quieted(m) == m.type \notin {"NameOwnerChanged", "ListNames"} /\ m.player = a
           none == [type |-> "Silenced", player |-> a]
<1>1. none \in MediaMessage /\ none.type = "Silenced"
  BY DEF MediaMessage
<1>2. /\ DOMAIN q = 1 .. Len(q) /\ Len(q) \in Nat
      /\ \A i \in 1 .. Len(q) : q[i] \in MediaMessage
  OBVIOUS
<1>3. r = [i \in 1 .. Len(q) |-> IF Quieted(q[i]) THEN none ELSE q[i]]
  BY <1>2 DEF Silenced
<1> HIDE DEF none, Quieted, r
<1>4. /\ r \in Seq(MediaMessage) /\ Len(r) = Len(q)
      /\ \A i \in 1 .. Len(q) : r[i] = IF Quieted(q[i]) THEN none ELSE q[i]
  <2>1. \A i \in 1 .. Len(q) : (IF Quieted(q[i]) THEN none ELSE q[i]) \in MediaMessage
    BY <1>1, <1>2
  <2>2. r \in [1 .. Len(q) -> MediaMessage]
    BY <1>3, <2>1
  <2>3. r \in Seq(MediaMessage) /\ DOMAIN r = 1 .. Len(q)
    BY <1>2, <2>2
  <2>4. Len(r) = Len(q)
    BY <1>2, <2>3
  <2> QED
    BY <1>3, <2>3, <2>4
<1>5. ASSUME NEW S, none \notin S, \A m \in MediaMessage : m \in S => ~Quieted(m)
      PROVE  (Among(r, S) <=> Among(q, S)) /\ \A x : Latest(r, S, x) <=> Latest(q, S, x)
  <2>1. \A i \in 1 .. Len(q) : /\ r[i] \in S <=> q[i] \in S
                               /\ q[i] \in S => r[i] = q[i]
    BY <1>2, <1>4, <1>5
  <2>2. Among(r, S) <=> Among(q, S)
    BY <1>4, <2>1 DEF Among
  <2>3. \A i : LastAt(r, S, i) <=> LastAt(q, S, i)
    BY <1>4, <2>1 DEF LastAt
  <2>4. \A i : LastAt(q, S, i) => i \in 1 .. Len(q) /\ r[i] = q[i]
    BY <2>1 DEF LastAt
  <2>5. \A x : Latest(r, S, x) <=> Latest(q, S, x)
    BY <1>4, <2>3, <2>4 DEF Latest
  <2> QED
    BY <2>2, <2>5
<1>6. \A p : none \notin PresenceOf(p) /\ \A m \in MediaMessage : m \in PresenceOf(p) => ~Quieted(m)
  BY <1>1 DEF PresenceOf, Quieted
<1>7. ASSUME NEW p, p # a, NEW t
      PROVE  \A S \in {GoneOf(p), StateOf(p), PositionOf(p), InvalidOf(p), TurnOf(p, t)} :
               none \notin S /\ \A m \in MediaMessage : m \in S => ~Quieted(m)
  BY <1>1, <1>7 DEF GoneOf, StateOf, PositionOf, InvalidOf, TurnOf, Quieted
<1>8. ASSUME NEW calls, NEW p, NEW runs, NEW has, PresenceFollows(q, calls, p, runs, has)
      PROVE  PresenceFollows(r, calls, p, runs, has)
  <2>1. /\ Among(r, PresenceOf(p)) <=> Among(q, PresenceOf(p))
        /\ \A x : Latest(r, PresenceOf(p), x) <=> Latest(q, PresenceOf(p), x)
    BY <1>5, <1>6
  <2> QED
    BY <1>8, <2>1 DEF PresenceFollows
<1>9. ASSUME NEW calls, NEW p, NEW truth, NEW k, p # a, Follows(q, calls, p, truth, k)
      PROVE  Follows(r, calls, p, truth, k)
  <2>1. \A S \in {GoneOf(p), StateOf(p), PositionOf(p), InvalidOf(p), TurnOf(p, k.track)} :
          (Among(r, S) <=> Among(q, S)) /\ \A x : Latest(r, S, x) <=> Latest(q, S, x)
    BY <1>5, <1>7, <1>9
  <2>2. WillRenew(r, calls, p) <=> WillRenew(q, calls, p)
    BY <2>1 DEF WillRenew
  <2>3. StateFollows(r, calls, p, truth, k)
    BY <1>9, <2>1, <2>2 DEF Follows, StateFollows
  <2>4. PositionFollows(r, calls, p, truth, k)
    BY <1>9, <2>1, <2>2 DEF Follows, PositionFollows
  <2> QED
    BY <2>3, <2>4 DEF Follows
<1> QED
  BY <1>4, <1>8, <1>9 DEF r

-----------------------------------------------------------------------------
(* The players that are held, and which of them is shown.                    *)
LEMMA LeastOf ==
  ASSUME NEW S \in SUBSET Nat, S # {}
  PROVE  Min(S) \in S
<1>1. PICK x \in S : \A y \in S : ~(<<y, x>> \in OpToRel(<, Nat))
  BY NatLessThanWellFounded, WFMin
<1>2. \A y \in S : x <= y
  <2> TAKE y \in S
  <2>1. ~(<<y, x>> \in {ss \in Nat \X Nat : ss[1] < ss[2]})
    BY <1>1, Zenon DEF OpToRel
  <2> QED
    BY <2>1
<1> QED
  BY <1>2 DEF Min

LEMMA HeldPlayers ==
  ASSUME NEW ps \in Seq(Player)
  PROVE  /\ \A p : Contains(ps, p) <=> p \in ToSet(ps)
         /\ ToSet(ps) \subseteq Player
         /\ ps = <<>> <=> ToSet(ps) = {}
         /\ ps # <<>> => ps[1] \in ToSet(ps)
<1>1. DOMAIN ps = 1 .. Len(ps) /\ Len(ps) \in Nat /\ \A i \in 1 .. Len(ps) : ps[i] \in Player
  OBVIOUS
<1>2. ps = <<>> <=> Len(ps) = 0
  BY EmptySeq
<1>3. \A p : Contains(ps, p) <=> p \in ToSet(ps)
  BY <1>1 DEF Contains, ToSet
<1>4. \A i \in 1 .. Len(ps) : ps[i] \in ToSet(ps)
  BY <1>1 DEF ToSet
<1>5. ToSet(ps) \subseteq Player /\ (Len(ps) = 0 => ToSet(ps) = {})
  BY <1>1 DEF ToSet
<1>6. ps # <<>> => 1 \in 1 .. Len(ps)
  BY <1>1, <1>2
<1> QED
  BY <1>2, <1>3, <1>4, <1>5, <1>6

LEMMA SelectedIsActive ==
  ASSUME NEW ps \in Seq(Player), NEW k, NEW onTop, NEW now, now = selectActive(ps, k, onTop)
  PROVE  ActiveFollows(ps, k, now, IsPlaying(k, now))
<1> DEFINE I == {i \in 1 .. Len(ps) : IsPlaying(k, ps[i])}
           first == SelectInSeq(ps, LAMBDA p : IsPlaying(k, p))
<1>1. /\ DOMAIN ps = 1 .. Len(ps) /\ Len(ps) \in Nat
      /\ \A i \in 1 .. Len(ps) : ps[i] \in Player /\ ps[i] \in ToSet(ps)
  BY DEF ToSet
<1>2. first = IF I # {} THEN Min(I) ELSE 0
  BY DEF SelectInSeq
<1>3. I \in SUBSET Nat /\ \A i \in I : i \in 1 .. Len(ps) /\ i # 0
  OBVIOUS
<1>4. first # 0 => first \in 1 .. Len(ps) /\ IsPlaying(k, ps[first])
  <2>1. I # {} => Min(I) \in I
    BY <1>3, LeastOf
  <2> QED
    BY <1>2, <2>1
<1>5. first = 0 => \A p \in ToSet(ps) : ~IsPlaying(k, p)
  <2>1. first = 0 => I = {}
    <3>1. I # {} => Min(I) \in I
      BY <1>3, LeastOf
    <3> QED
      BY <1>2, <1>3, <3>1
  <2> QED
    BY <1>1, <2>1 DEF ToSet
<1>6. now = IF Contains(ps, onTop) /\ (IsPlaying(k, onTop) \/ first = 0) THEN onTop
            ELSE IF first # 0 THEN ps[first]
            ELSE IF ps # <<>> THEN ps[1] ELSE NoPlayer
  BY DEF selectActive
<1>7. ~IsPlaying(k, NoPlayer)
  BY DEF IsPlaying
<1> HIDE DEF I, first
<1>8. CASE Contains(ps, onTop) /\ (IsPlaying(k, onTop) \/ first = 0)
  BY <1>5, <1>6, <1>8, HeldPlayers DEF ActiveFollows
<1>9. CASE ~(Contains(ps, onTop) /\ (IsPlaying(k, onTop) \/ first = 0)) /\ first # 0
  BY <1>1, <1>4, <1>6, <1>9, HeldPlayers DEF ActiveFollows
<1>10. CASE ~(Contains(ps, onTop) /\ (IsPlaying(k, onTop) \/ first = 0)) /\ first = 0
  BY <1>5, <1>6, <1>7, <1>10, HeldPlayers DEF ActiveFollows
<1> QED
  BY <1>8, <1>9, <1>10

LEMMA ActiveIs ==
  ASSUME NEW ps \in Seq(Player), NEW k, NEW onTop, NEW timer, ActiveFollows(ps, k, onTop, timer)
  PROVE  /\ onTop # NoPlayer => onTop \in ToSet(ps) /\ onTop \in Player
         /\ IsPlaying(k, onTop) => onTop \in ToSet(ps)
  BY HeldPlayers DEF ActiveFollows, IsPlaying

(* Whatever a set of players is listed in, it is all of them, once.          *)
LEMMA ListedAre ==
  ASSUME NEW S, IsFiniteSet(S), NEW f \in SetToSeqs(S)
  PROVE  f \in Seq(S) /\ IsInjective(f) /\ ToSet(f) = S
<1> DEFINE n == Cardinality(S)
<1>1. n \in Nat
  BY FS_CardinalityType
<1>2. /\ f \in [1 .. n -> S]
      /\ \A i, j \in 1 .. n : i # j => f[i] # f[j]
  BY DEF SetToSeqs
<1> HIDE DEF n
<1>3. IsInjective(f)
  BY <1>2 DEF IsInjective
<1>4. f \in Injection(1 .. n, S)
  BY <1>2, <1>3 DEF Injection
<1>5. IsFiniteSet(1 .. n) /\ Cardinality(1 .. n) = n
  BY <1>1, FS_Interval
<1>6. f \in Surjection(1 .. n, S)
  BY <1>4, <1>5, FS_Injection DEF n
<1>7. ToSet(f) = S
  BY <1>2, <1>6 DEF Surjection, ToSet
<1>8. f \in Seq(S)
  BY <1>1, <1>2
<1> QED
  BY <1>3, <1>7, <1>8

LEMMA JoinedAre ==
  ASSUME NEW M, NEW q \in Seq(M), NEW r \in Seq(M), IsInjective(q), IsInjective(r),
         ToSet(q) \cap ToSet(r) = {}
  PROVE  q \o r \in Seq(M) /\ IsInjective(q \o r) /\ ToSet(q \o r) = ToSet(q) \cup ToSet(r)
<1> DEFINE s == q \o r
           n == Len(q)
           m == Len(r)
<1>1. /\ s \in Seq(M) /\ Len(s) = n + m
      /\ \A i \in 1 .. n + m : s[i] = IF i <= n THEN q[i] ELSE r[i - n]
  BY ConcatProperties
<1>2. n \in Nat /\ m \in Nat /\ DOMAIN q = 1 .. n /\ DOMAIN r = 1 .. m /\ DOMAIN s = 1 .. n + m
  BY <1>1
<1> HIDE DEF s, n, m
<1>3. /\ \A i \in 1 .. n + m : \/ i \in 1 .. n /\ s[i] = q[i]
                               \/ i - n \in 1 .. m /\ i > n /\ s[i] = r[i - n]
      /\ \A i \in 1 .. n : i \in 1 .. n + m /\ s[i] = q[i]
      /\ \A i \in 1 .. m : i + n \in 1 .. n + m /\ s[i + n] = r[i]
  <2>1. ASSUME NEW i \in 1 .. n + m
        PROVE  \/ i \in 1 .. n /\ s[i] = q[i]
               \/ i - n \in 1 .. m /\ i > n /\ s[i] = r[i - n]
    BY <1>1, <1>2
  <2>2. ASSUME NEW i \in 1 .. n PROVE i \in 1 .. n + m /\ s[i] = q[i]
    BY <1>1, <1>2
  <2>3. ASSUME NEW i \in 1 .. m PROVE i + n \in 1 .. n + m /\ s[i + n] = r[i]
    <3>1. i + n \in 1 .. n + m /\ ~(i + n <= n) /\ (i + n) - n = i
      BY <1>2
    <3> QED
      BY <1>1, <3>1
  <2> QED
    BY <2>1, <2>2, <2>3
<1>4. \A i \in 1 .. n, j \in 1 .. m : q[i] # r[j]
  BY <1>2 DEF ToSet
<1>5. IsInjective(s)
  <2> SUFFICES ASSUME NEW i \in 1 .. n + m, NEW j \in 1 .. n + m, s[i] = s[j] PROVE i = j
    BY <1>2 DEF IsInjective
  <2>1. CASE i \in 1 .. n /\ j \in 1 .. n
    BY <1>2, <1>3, <2>1 DEF IsInjective
  <2>2. CASE i \notin 1 .. n /\ j \notin 1 .. n
    <3>1. i - n \in 1 .. m /\ j - n \in 1 .. m /\ r[i - n] = r[j - n]
      BY <1>3, <2>2
    <3>2. i - n = j - n
      BY <1>2, <3>1 DEF IsInjective
    <3> QED
      BY <1>2, <3>2
  <2>3. CASE i \in 1 .. n /\ j \notin 1 .. n
    BY <1>3, <1>4, <2>3
  <2>4. CASE i \notin 1 .. n /\ j \in 1 .. n
    BY <1>3, <1>4, <2>4
  <2> QED
    BY <2>1, <2>2, <2>3, <2>4
<1>6. ToSet(s) = ToSet(q) \cup ToSet(r)
  <2>1. \A x \in ToSet(s) : x \in ToSet(q) \cup ToSet(r)
    <3>1. ASSUME NEW i \in 1 .. n + m PROVE s[i] \in ToSet(q) \cup ToSet(r)
      BY <1>2, <1>3 DEF ToSet
    <3> QED
      BY <1>2, <3>1 DEF ToSet
  <2>2. \A i \in 1 .. n : q[i] \in ToSet(s)
    BY <1>2, <1>3 DEF ToSet
  <2>3. \A i \in 1 .. m : r[i] \in ToSet(s)
    <3> TAKE i \in 1 .. m
    <3>1. i + n \in 1 .. n + m /\ s[i + n] = r[i]
      BY <1>3
    <3> QED
      BY <1>2, <3>1 DEF ToSet
  <2>4. ToSet(q) \subseteq ToSet(s) /\ ToSet(r) \subseteq ToSet(s)
    BY <1>2, <2>2, <2>3 DEF ToSet
  <2> QED
    BY <2>1, <2>4
<1> QED
  BY <1>1, <1>5, <1>6 DEF s

-----------------------------------------------------------------------------
(* The steps of the players.                                                 *)
LEMMA RenewedFollows ==
  ASSUME NEW q, NEW calls, NEW p, WillRenew(q, calls, p)
  PROVE  \A truth, k : Follows(q, calls, p, truth, k)
  BY DEF Follows, StateFollows, PositionFollows

(* One that is held and runs no more will be told to be gone.                *)
LEMMA GoneWillBeTold ==
  ASSUME NEW q, NEW calls, NEW p, PresenceFollows(q, calls, p, FALSE, TRUE)
  PROVE  Among(q, GoneOf(p)) /\ WillRenew(q, calls, p)
<1>1. PICK m \in MediaMessage : Latest(q, PresenceOf(p), m)
  BY DEF PresenceFollows
<1>2. m \in PresenceOf(p) /\ ~Arrives(m)
  BY <1>1, LatestIsAmong DEF PresenceFollows
<1>3. m \in GoneOf(p)
  BY <1>2 DEF Arrives, PresenceOf, GoneOf
<1> QED
  BY <1>1, <1>3, LatestIsAmong DEF WillRenew

LEMMA MediaParts ==
  ASSUME MediaInv
  PROVE  /\ MediaType /\ NoPlayer \notin Player
         /\ ActiveFollows(players, known, active_, position_timer_)
         /\ questions # {} \/ mediaInbox # <<>> \/ players # <<>> => watching
         /\ ToSet(players) \subseteq Player
         /\ \A p : Contains(players, p) <=> p \in ToSet(players)
         /\ \A p \in ToSet(players) :
              /\ watching /\ Follows(mediaInbox, questions, p, theirs[p], known[p])
              /\ p \notin running => WillRenew(mediaInbox, questions, p)
         /\ watching => \A p \in Player :
              PresenceFollows(mediaInbox, questions, p, p \in running, p \in ToSet(players))
         /\ \A p \in Player : theirs[p] \in Truth /\ known[p] \in Knowledge
         /\ active_ # NoPlayer => active_ \in ToSet(players) /\ active_ \in Player
<1>1. players \in Seq(Player)
  BY DEF MediaInv, MediaType
<1>2. /\ ToSet(players) \subseteq Player
      /\ \A p : Contains(players, p) <=> p \in ToSet(players)
      /\ players = <<>> <=> ToSet(players) = {}
  BY <1>1, HeldPlayers
<1>3. active_ # NoPlayer => active_ \in ToSet(players) /\ active_ \in Player
  BY <1>1, ActiveIs DEF MediaInv
<1>4. ASSUME NEW p \in ToSet(players)
      PROVE  /\ watching /\ Follows(mediaInbox, questions, p, theirs[p], known[p])
             /\ p \notin running => WillRenew(mediaInbox, questions, p)
  <2>1. watching /\ p \in Player /\ Follows(mediaInbox, questions, p, theirs[p], known[p])
    BY <1>2, <1>4 DEF MediaInv
  <2>2. PresenceFollows(mediaInbox, questions, p, p \in running, p \in ToSet(players))
    BY <2>1 DEF MediaInv
  <2>3. ASSUME p \notin running PROVE WillRenew(mediaInbox, questions, p)
    <3>1. PresenceFollows(mediaInbox, questions, p, FALSE, TRUE)
      BY <1>4, <2>2, <2>3 DEF PresenceFollows
    <3> QED
      BY <3>1, GoneWillBeTold
  <2> QED
    BY <2>1, <2>3
<1> QED
  BY <1>2, <1>3, <1>4, MediaAssumption DEF MediaInv, MediaType

(* What is told of one player is nothing to the others.                      *)
LEMMA OthersHear ==
  ASSUME NEW q \in Seq(MediaMessage), NEW m \in MediaMessage, NEW calls, NEW calls1, NEW p,
         m.type # "ListNames", m.player # p
  PROVE  /\ \A runs, has :
              PresenceFollows(q, calls, p, runs, has) /\ StillAsked(calls, calls1, NoPlayer) =>
              PresenceFollows(Append(q, m), calls1, p, runs, has)
         /\ \A truth, k : Follows(q, calls, p, truth, k) /\ StillAsked(calls, calls1, p) =>
                          Follows(Append(q, m), calls1, p, truth, k)
<1>1. m \notin PresenceOf(p) /\ m \notin StateOf(p) /\ m \notin PositionOf(p)
  BY DEF PresenceOf, StateOf, PositionOf
<1>2. ASSUME NEW truth, NEW k, Follows(q, calls, p, truth, k), StillAsked(calls, calls1, p)
      PROVE  Follows(Append(q, m), calls1, p, truth, k)
  <2>1. Follows(q, calls1, p, truth, k)
    BY <1>2, QuestionsKept
  <2> QED
    BY <1>1, <2>1, StateHears, PositionHears DEF Follows
<1> QED
  BY <1>1, <1>2, PresenceHears

LEMMA AllKept ==
  ASSUME NEW calls, NEW calls1, calls \subseteq calls1
  PROVE  \A p : StillAsked(calls, calls1, p)
  BY DEF StillAsked

LEMMA PlayerStartsInv ==
  ASSUME MediaInv, NEW p \in Player, PlayerStarts(p)
  PROVE  MediaInv'
<1> DEFINE m == [type |-> "NameOwnerChanged", player |-> p, up |-> TRUE]
<1>1. /\ p \notin running /\ running' = running \cup {p}
      /\ theirs' = [theirs EXCEPT ![p] = Stopped]
      /\ mediaInbox' = IF watching THEN Append(mediaInbox, m) ELSE mediaInbox
      /\ UNCHANGED <<questions, watching, players, known, active_, position_timer_>>
  BY DEF PlayerStarts, Tells, controllerVars
<1>2. /\ m \in MediaMessage /\ m \in PresenceOf(p) /\ m.player = p /\ m.type # "ListNames"
      /\ Arrives(m) /\ m \notin InvalidOf(p)
  <2>1. m \in MediaMessage /\ m.type = "NameOwnerChanged" /\ m.player = p /\ m.up
    BY DEF MediaMessage
  <2> HIDE DEF m
  <2> QED
    BY <2>1 DEF PresenceOf, InvalidOf, Arrives
<1> HIDE DEF m
<1>3. Stopped \in Truth
  BY DEF Stopped, Truth, Status, Track, Position
<1>4. mediaInbox \in Seq(MediaMessage) /\ Append(mediaInbox, m) \in Seq(MediaMessage)
  BY <1>2, AppendedIsLatest, MediaParts DEF MediaType
<1>5. MediaType'
  BY <1>1, <1>3, <1>4, MediaParts DEF MediaType
<1>6. \A a \in Player \ {p} : theirs'[a] = theirs[a] /\ (a \in running' <=> a \in running)
  BY <1>1, MediaParts DEF MediaType
<1>7. \A a : StillAsked(questions, questions', a)
  BY <1>1, AllKept
<1>8. ASSUME watching, NEW a \in Player
      PROVE  PresenceFollows(mediaInbox', questions', a, a \in running', a \in ToSet(players)')
  <2>1. PresenceFollows(mediaInbox, questions, a, a \in running, a \in ToSet(players))
    BY <1>8, MediaParts
  <2>2. CASE a = p
    BY <1>1, <1>2, <1>4, <1>8, <2>2, PresenceHears
  <2>3. CASE a # p
    <3>1. PresenceFollows(mediaInbox, questions, a, a \in running', a \in ToSet(players)')
      BY <1>1, <1>6, <2>1, <2>3 DEF PresenceFollows
    <3> QED
      BY <1>1, <1>2, <1>4, <1>7, <1>8, <2>3, <3>1, OthersHear
  <2> QED
    BY <2>2, <2>3
<1>9. ASSUME NEW a \in ToSet(players)
      PROVE  Follows(mediaInbox', questions', a, theirs'[a], known'[a])
  <2>1. watching /\ a \in Player /\ Follows(mediaInbox, questions, a, theirs[a], known[a])
    BY <1>9, MediaParts
  <2>2. CASE a = p
    <3>1. WillRenew(mediaInbox, questions, a)
      BY <1>1, <1>9, <2>2, MediaParts
    <3>2. WillRenew(mediaInbox', questions', a)
      BY <1>1, <1>2, <1>4, <2>1, <3>1, RenewalHears
    <3> QED
      BY <3>2, RenewedFollows
  <2>3. CASE a # p
    BY <1>1, <1>2, <1>4, <1>6, <1>7, <2>1, <2>3, OthersHear
  <2> QED
    BY <2>2, <2>3
<1> QED
  BY <1>1, <1>5, <1>8, <1>9, MediaParts DEF MediaInv

LEMMA PlayerQuitsInv ==
  ASSUME MediaInv, NEW p \in Player, PlayerQuits(p)
  PROVE  MediaInv'
<1> DEFINE m == [type |-> "NameOwnerChanged", player |-> p, up |-> FALSE]
<1>1. /\ p \in running /\ running' = running \ {p}
      /\ questions' = {q \in questions : q.player # p}
      /\ mediaInbox' = IF watching THEN Append(mediaInbox, m) ELSE mediaInbox
      /\ UNCHANGED <<theirs, watching, players, known, active_, position_timer_>>
  BY DEF PlayerQuits, Tells, controllerVars
<1>2. /\ m \in MediaMessage /\ m \in PresenceOf(p) /\ m.player = p /\ m.type # "ListNames"
      /\ ~Arrives(m) /\ m \in GoneOf(p)
  <2>1. m \in MediaMessage /\ m.type = "NameOwnerChanged" /\ m.player = p /\ ~m.up
    BY DEF MediaMessage
  <2> HIDE DEF m
  <2> QED
    BY <2>1 DEF PresenceOf, GoneOf, Arrives
<1> HIDE DEF m
<1>4. mediaInbox \in Seq(MediaMessage) /\ Append(mediaInbox, m) \in Seq(MediaMessage)
  BY <1>2, AppendedIsLatest, MediaParts DEF MediaType
<1>5. MediaType'
  BY <1>1, <1>4, MediaParts DEF MediaType
<1>6. \A a \in Player \ {p} : a \in running' <=> a \in running
  BY <1>1
<1>7. \A a : a # p => StillAsked(questions, questions', a)
  BY <1>1 DEF StillAsked
<1>8. ASSUME watching, NEW a \in Player
      PROVE  PresenceFollows(mediaInbox', questions', a, a \in running', a \in ToSet(players)')
  <2>1. PresenceFollows(mediaInbox, questions, a, a \in running, a \in ToSet(players))
    BY <1>8, MediaParts
  <2>2. CASE a = p
    BY <1>1, <1>2, <1>4, <1>8, <2>2, PresenceHears
  <2>3. CASE a # p
    <3>1. PresenceFollows(mediaInbox, questions, a, a \in running', a \in ToSet(players)')
      BY <1>1, <1>6, <2>1, <2>3 DEF PresenceFollows
    <3>2. StillAsked(questions, questions', NoPlayer)
      BY <1>7, MediaParts
    <3> QED
      BY <1>1, <1>2, <1>4, <1>8, <2>3, <3>1, <3>2, OthersHear
  <2> QED
    BY <2>2, <2>3
<1>9. ASSUME NEW a \in ToSet(players)
      PROVE  Follows(mediaInbox', questions', a, theirs'[a], known'[a])
  <2>1. watching /\ a \in Player /\ Follows(mediaInbox, questions, a, theirs[a], known[a])
    BY <1>9, MediaParts
  <2>2. CASE a = p
    BY <1>1, <1>2, <1>4, <2>1, <2>2, StateHears
  <2>3. CASE a # p
    BY <1>1, <1>2, <1>4, <1>7, <2>1, <2>3, OthersHear
  <2> QED
    BY <2>2, <2>3
<1> QED
  BY <1>1, <1>5, <1>8, <1>9, MediaParts DEF MediaInv

(* A step of a player about which m is told, or nothing, changes nothing for *)
(* the others; nor which players run.                                        *)
LEMMA PlayerSpeaks ==
  ASSUME MediaInv, watching, NEW p \in Player, NEW m \in MediaMessage, m.player = p,
         m.type \notin {"NameOwnerChanged", "ListNames"},
         mediaInbox' \in {mediaInbox, Append(mediaInbox, m)},
         theirs' \in [Player -> Truth], \A a \in Player \ {p} : theirs'[a] = theirs[a],
         questions' \in SUBSET Question, \A a : a # p => StillAsked(questions, questions', a),
         UNCHANGED <<running, watching, players, known, active_, position_timer_>>,
         p \in ToSet(players) => Follows(mediaInbox', questions', p, theirs'[p], known[p])
  PROVE  MediaInv'
<1>1. mediaInbox \in Seq(MediaMessage) /\ Append(mediaInbox, m) \in Seq(MediaMessage)
  BY AppendedIsLatest, MediaParts DEF MediaType
<1>2. MediaType'
  BY <1>1, MediaParts DEF MediaType
<1>3. StillAsked(questions, questions', NoPlayer)
  BY MediaParts
<1>4. ASSUME NEW a \in Player
      PROVE  PresenceFollows(mediaInbox', questions', a, a \in running', a \in ToSet(players)')
  <2>1. PresenceFollows(mediaInbox, questions, a, a \in running', a \in ToSet(players)')
    BY MediaParts
  <2>2. m \notin PresenceOf(a)
    BY DEF PresenceOf
  <2>3. CASE mediaInbox' = mediaInbox
    BY <1>3, <2>1, <2>3, QuestionsKept
  <2>4. CASE mediaInbox' = Append(mediaInbox, m)
    BY <1>1, <1>3, <2>1, <2>2, <2>4, PresenceHears
  <2> QED
    BY <2>3, <2>4
<1>5. ASSUME NEW a \in ToSet(players)
      PROVE  Follows(mediaInbox', questions', a, theirs'[a], known'[a])
  <2>1. a \in Player /\ Follows(mediaInbox, questions, a, theirs[a], known[a])
    BY <1>5, MediaParts
  <2>2. CASE a = p
    BY <1>5, <2>2
  <2>3. CASE a # p /\ mediaInbox' = mediaInbox
    BY <2>1, <2>3, QuestionsKept
  <2>4. CASE a # p /\ mediaInbox' = Append(mediaInbox, m)
    BY <1>1, <2>1, <2>4, OthersHear
  <2> QED
    BY <2>2, <2>3, <2>4
<1>6. ActiveFollows(players, known, active_, position_timer_)'
  BY MediaParts DEF ActiveFollows
<1>7. watching'
  OBVIOUS
<1> QED
  BY <1>2, <1>4, <1>5, <1>6, <1>7 DEF MediaInv

LEMMA PlayerChangesInv ==
  ASSUME MediaInv, NEW p \in Player, PlayerChanges(p)
  PROVE  MediaInv'
<1>1. PICK status \in Status, track \in Track, spoken \in BOOLEAN :
        LET start == IF track = theirs[p].track THEN theirs[p].position ELSE 0
            now == [status |-> status, track |-> track, position |-> start]
        IN  /\ theirs' = [theirs EXCEPT ![p] = now]
            /\ Tells(Contains(players, p),
                 IF spoken
                  THEN [type |-> "Metadata", player |-> p, status |-> status, track |-> track]
                 ELSE [type |-> "Invalidated", player |-> p])
  BY DEF PlayerChanges
<1> DEFINE start == IF track = theirs[p].track THEN theirs[p].position ELSE 0
           now == [status |-> status, track |-> track, position |-> start]
           m == IF spoken THEN [type |-> "Metadata", player |-> p, status |-> status, track |-> track]
                ELSE [type |-> "Invalidated", player |-> p]
<1>2. /\ p \in running /\ theirs' = [theirs EXCEPT ![p] = now]
      /\ mediaInbox' = IF Contains(players, p) THEN Append(mediaInbox, m) ELSE mediaInbox
      /\ UNCHANGED <<running, questions, watching, players, known, active_, position_timer_>>
  BY <1>1 DEF PlayerChanges, Tells, controllerVars
<1>3. /\ m \in MediaMessage /\ m.player = p
      /\ spoken => m.type = "Metadata" /\ m.status = status /\ m.track = track
      /\ ~spoken => m.type = "Invalidated"
  BY DEF MediaMessage
<1>4. now \in Truth /\ now.status = status /\ now.track = track /\ now.position = start
  BY MediaParts DEF Truth, Position
<1>5. m \notin PositionOf(p) /\ (spoken => m \in StateOf(p)) /\ (~spoken => m \in InvalidOf(p))
  <2> HIDE DEF m
  <2> QED
    BY <1>3 DEF PositionOf, StateOf, InvalidOf
<1> HIDE DEF m, now, start
<1>6. /\ theirs' \in [Player -> Truth] /\ theirs'[p] = now
      /\ \A a \in Player \ {p} : theirs'[a] = theirs[a]
  BY <1>2, <1>4, MediaParts DEF MediaType
<1>7. mediaInbox \in Seq(MediaMessage) /\ questions \in SUBSET Question
  BY MediaParts DEF MediaType
<1>8. ASSUME p \in ToSet(players)
      PROVE  Follows(mediaInbox', questions', p, theirs'[p], known[p])
  <2>1. /\ mediaInbox' = Append(mediaInbox, m)
        /\ Follows(mediaInbox, questions, p, theirs[p], known[p])
    BY <1>2, <1>8, MediaParts
  <2>2. CASE ~spoken
    BY <1>2, <1>3, <1>5, <1>7, <2>1, <2>2, StateHears
  <2>3. CASE spoken
    <3>1. StateFollows(mediaInbox', questions', p, now, known[p])
      BY <1>2, <1>3, <1>4, <1>5, <1>7, <2>1, <2>3, StateHears
    <3>2. CASE track = theirs[p].track
      <4>1. now.position = theirs[p].position
        BY <1>4, <3>2 DEF start
      <4>2. PositionFollows(mediaInbox, questions, p, now, known[p])
        BY <1>4, <2>1, <3>2, <4>1 DEF Follows, PositionFollows
      <4>3. PositionFollows(mediaInbox', questions', p, now, known[p])
        BY <1>2, <1>3, <1>5, <1>7, <2>1, <4>2, PositionHears
      <4> QED
        BY <1>6, <3>1, <4>3 DEF Follows
    <3>3. CASE track # theirs[p].track
      <4>1. StateFollows(mediaInbox, questions, p, theirs[p], known[p])
        BY <2>1 DEF Follows
      <4>2. PositionFollows(Append(mediaInbox, m), questions, p, now, known[p])
        BY <1>3, <1>5, <1>7, <2>3, <3>3, <4>1, PositionHears
      <4> QED
        BY <1>2, <1>6, <2>1, <3>1, <4>2 DEF Follows
    <3> QED
      BY <3>2, <3>3
  <2> QED
    BY <2>2, <2>3
<1>9. \A a : StillAsked(questions, questions', a)
  BY <1>2, AllKept
<1>10. CASE watching
  <2>1. mediaInbox' \in {mediaInbox, Append(mediaInbox, m)}
    BY <1>2
  <2>2. m.type \notin {"NameOwnerChanged", "ListNames"}
    BY <1>3
  <2> QED
    BY <1>2, <1>3, <1>6, <1>7, <1>8, <1>9, <1>10, <2>1, <2>2, PlayerSpeaks
<1>11. CASE ~watching
  <2>1. players = <<>> /\ mediaInbox = <<>> /\ questions = {} /\ ToSet(players) = {}
    BY <1>11, MediaParts, HeldPlayers DEF MediaType
  <2>2. mediaInbox' = mediaInbox
    BY <1>2, <2>1, MediaParts
  <2>3. MediaType'
    BY <1>2, <1>6, <2>2, MediaParts DEF MediaType
  <2> QED
    BY <1>2, <1>11, <2>1, <2>2, <2>3, MediaParts DEF MediaInv
<1> QED
  BY <1>10, <1>11

LEMMA PlayerAnswersInv ==
  ASSUME MediaInv, NEW c \in questions, c.player # NoPlayer, PlayerAnswers(c)
  PROVE  MediaInv'
<1> DEFINE p == c.player
           there == theirs[p]
           position(at) == [type |-> "Position", player |-> p, position |-> at]
           all == [type |-> "All", player |-> p, status |-> there.status,
                   track |-> there.track, position |-> there.position]
           seeks == c.track = there.track
<1>1. /\ p \in running /\ questions' = questions \ {c}
      /\ c.type \in {"GetAll", "Get", "SetPosition"}
      /\ UNCHANGED <<running, watching, players, known, active_, position_timer_>>
  <2>1. c.type \in {"GetAll", "Get", "SetPosition", "ListNames"}
    BY MediaParts DEF MediaType, Question
  <2> QED
    BY <2>1 DEF PlayerAnswers, controllerVars
<1>2. /\ c.type = "GetAll" => mediaInbox' = Append(mediaInbox, all) /\ theirs' = theirs
      /\ c.type = "Get" => /\ mediaInbox' = Append(mediaInbox, position(there.position))
                           /\ theirs' = theirs
      /\ c.type = "SetPosition" =>
           /\ theirs' = [theirs EXCEPT ![p].position = IF seeks THEN 1 ELSE @]
           /\ mediaInbox' = IF seeks /\ Contains(players, p) THEN Append(mediaInbox, position(1))
                            ELSE mediaInbox
  BY DEF PlayerAnswers, Tells
<1>3. /\ watching /\ p \in Player /\ questions' \in SUBSET Question
      /\ \A a : a # p => StillAsked(questions, questions', a)
      /\ mediaInbox \in Seq(MediaMessage) /\ theirs \in [Player -> Truth] /\ there \in Truth
  BY <1>1, MediaParts DEF MediaType, StillAsked
<1>4. /\ all \in MediaMessage /\ all.type = "All" /\ all.player = p /\ all.status = there.status
      /\ all.track = there.track /\ all.position = there.position
  BY <1>3 DEF Truth, MediaMessage
<1>5. \A at \in Position :
        /\ position(at) \in MediaMessage /\ position(at).type = "Position"
        /\ position(at).player = p /\ position(at).position = at
  BY <1>3 DEF MediaMessage
<1>6. there.position \in Position /\ 1 \in Position
  BY <1>3 DEF Truth, Position
<1> HIDE DEF all, position, there, p, seeks
<1>7. all \in StateOf(p) /\ all \in PositionOf(p)
  BY <1>4 DEF StateOf, PositionOf
<1>8. \A at \in Position : position(at) \notin StateOf(p) /\ position(at) \in PositionOf(p)
  BY <1>5 DEF StateOf, PositionOf
<1>9. ASSUME p \in ToSet(players) PROVE Follows(mediaInbox, questions, p, there, known[p])
  BY <1>9, MediaParts DEF there
<1>10. CASE c.type = "GetAll"
  <2>1. theirs'[p] = there
    BY <1>2, <1>10 DEF there
  <2>2. StateFollows(Append(mediaInbox, all), questions', p, there, known[p])
    BY <1>3, <1>4, <1>7, StateHears
  <2>3. PositionFollows(Append(mediaInbox, all), questions', p, there, known[p])
    BY <1>3, <1>4, <1>7, PositionHears
  <2>4. Follows(mediaInbox', questions', p, there, known[p])
    BY <1>2, <1>10, <2>2, <2>3 DEF Follows
  <2> QED
    BY <1>1, <1>2, <1>3, <1>4, <1>10, <2>1, <2>4, PlayerSpeaks
<1>11. CASE c.type = "Get"
  <2> DEFINE m == position(there.position)
  <2>1. theirs'[p] = there
    BY <1>2, <1>11 DEF there
  <2>2. m \in MediaMessage /\ m.type = "Position" /\ m.player = p /\ m.position = there.position
        /\ m \notin StateOf(p) /\ m \in PositionOf(p) /\ mediaInbox' = Append(mediaInbox, m)
    BY <1>2, <1>5, <1>6, <1>8, <1>11
  <2> HIDE DEF m
  <2>3. ASSUME p \in ToSet(players) PROVE Follows(mediaInbox', questions', p, there, known[p])
    <3>1. c # Ask("GetAll", p)
      BY <1>11, QuestionsApart
    <3>2. StateFollows(mediaInbox, questions', p, there, known[p])
      BY <1>1, <1>9, <2>3, <3>1 DEF Follows, StateFollows, WillRenew
    <3>3. StateFollows(mediaInbox', questions', p, there, known[p])
      BY <1>3, <2>2, <3>2, StateHears
    <3>4. PositionFollows(mediaInbox', questions', p, there, known[p])
      BY <1>3, <2>2, PositionHears
    <3> QED
      BY <3>3, <3>4 DEF Follows
  <2>4. m.type \notin {"NameOwnerChanged", "ListNames"}
    BY <2>2
  <2> QED
    BY <1>1, <1>2, <1>3, <1>11, <2>1, <2>2, <2>3, <2>4, PlayerSpeaks
<1>12. CASE c.type = "SetPosition"
  <2> DEFINE m == position(1)
             now == [there EXCEPT !.position = IF seeks THEN 1 ELSE @]
  <2>1. m \in MediaMessage /\ m.type = "Position" /\ m.player = p /\ m.position = 1
        /\ m \notin StateOf(p) /\ m \in PositionOf(p)
    BY <1>5, <1>6, <1>8
  <2>2. /\ now \in Truth /\ now.status = there.status /\ now.track = there.track
        /\ now.position = IF seeks THEN 1 ELSE there.position
    BY <1>3, <1>6 DEF Truth
  <2>3. theirs' = [theirs EXCEPT ![p] = now]
    BY <1>2, <1>12 DEF there
  <2>4. mediaInbox' = IF seeks /\ p \in ToSet(players) THEN Append(mediaInbox, m) ELSE mediaInbox
    BY <1>2, <1>12, MediaParts
  <2> HIDE DEF m, now
  <2>5. /\ theirs' \in [Player -> Truth] /\ theirs'[p] = now
        /\ \A a \in Player \ {p} : theirs'[a] = theirs[a]
    BY <1>3, <2>2, <2>3
  <2>6. ASSUME p \in ToSet(players) PROVE Follows(mediaInbox', questions', p, now, known[p])
    <3>1. c # Ask("GetAll", p) /\ c # Ask("Get", p)
      BY <1>12, QuestionsApart
    <3>2. StateFollows(mediaInbox, questions', p, now, known[p])
      BY <1>1, <1>9, <2>2, <2>6, <3>1 DEF Follows, StateFollows, WillRenew
    <3>3. StateFollows(mediaInbox', questions', p, now, known[p])
      BY <1>3, <2>1, <2>4, <3>2, StateHears
    <3>4. CASE seeks
      BY <1>3, <2>1, <2>2, <2>4, <2>6, <3>3, <3>4, PositionHears DEF Follows
    <3>5. CASE ~seeks
      <4>1. c # Jump(p, there.track)
        BY <3>5, QuestionsApart DEF seeks
      <4>2. PositionFollows(mediaInbox, questions', p, now, known[p])
        BY <1>1, <1>9, <2>2, <2>6, <3>1, <3>5, <4>1 DEF Follows, PositionFollows, WillRenew
      <4> QED
        BY <2>4, <3>3, <3>5, <4>2 DEF Follows
    <3> QED
      BY <3>4, <3>5
  <2>7. /\ m.type \notin {"NameOwnerChanged", "ListNames"}
        /\ mediaInbox' \in {mediaInbox, Append(mediaInbox, m)}
    BY <2>1, <2>4
  <2> QED
    BY <1>1, <1>3, <2>1, <2>5, <2>6, <2>7, PlayerSpeaks
<1> QED
  BY <1>1, <1>10, <1>11, <1>12

LEMMA BusAnswersInv ==
  ASSUME MediaInv, BusAnswers
  PROVE  MediaInv'
<1> DEFINE m == [type |-> "ListNames", running |-> running]
<1>1. PICK c \in questions : c.type = "ListNames" /\ questions' = questions \ {c}
  BY DEF BusAnswers
<1>2. /\ mediaInbox' = Append(mediaInbox, m)
      /\ UNCHANGED <<running, theirs, watching, players, known, active_, position_timer_>>
  BY DEF BusAnswers, Tells, playersVars, controllerVars
<1>3. /\ m \in MediaMessage /\ Arrives(m)
      /\ \A p : /\ m \in PresenceOf(p) <=> p \in running
                /\ m \notin StateOf(p) /\ m \notin PositionOf(p)
  <2>1. m \in MediaMessage /\ m.type = "ListNames" /\ m.running = running
    BY MediaParts DEF MediaType, MediaMessage
  <2> HIDE DEF m
  <2> QED
    BY <2>1 DEF Arrives, PresenceOf, StateOf, PositionOf
<1> HIDE DEF m
<1>4. mediaInbox \in Seq(MediaMessage) /\ Append(mediaInbox, m) \in Seq(MediaMessage)
  BY <1>3, AppendedIsLatest, MediaParts DEF MediaType
<1>5. MediaType' /\ watching'
  BY <1>1, <1>2, <1>4, MediaParts DEF MediaType
<1>6. c.player = NoPlayer
  BY <1>1, MediaParts DEF MediaType, Question
<1>7. \A p \in Player : StillAsked(questions, questions', p)
  BY <1>1, <1>6, MediaParts DEF StillAsked
<1>8. ASSUME NEW p \in Player
      PROVE  PresenceFollows(mediaInbox', questions', p, p \in running', p \in ToSet(players)')
  <2>1. PresenceFollows(mediaInbox, questions, p, p \in running, p \in ToSet(players))
    BY <1>2, <1>5, MediaParts
  <2> QED
    BY <1>2, <1>3, <1>4, <2>1, PresenceHears
<1>9. ASSUME NEW p \in ToSet(players)
      PROVE  Follows(mediaInbox', questions', p, theirs'[p], known'[p])
  <2>1. p \in Player /\ Follows(mediaInbox, questions, p, theirs[p], known[p])
    BY <1>9, MediaParts
  <2>2. Follows(mediaInbox, questions', p, theirs[p], known[p])
    BY <1>7, <2>1, QuestionsKept
  <2> QED
    BY <1>2, <1>3, <1>4, <2>2, StateHears, PositionHears DEF Follows
<1> QED
  BY <1>2, <1>5, <1>8, <1>9, MediaParts DEF MediaInv

LEMMA MediaStartsInv ==
  ASSUME MediaInv, MediaControllerStarts
  PROVE  MediaInv'
<1>1. /\ ~watching /\ watching' /\ questions' = questions \cup {AskNames}
      /\ UNCHANGED <<running, theirs, mediaInbox, players, known, active_, position_timer_>>
  BY DEF MediaControllerStarts, playersVars, AskNames, Ask
<1>2. players = <<>> /\ mediaInbox = <<>> /\ ToSet(players) = {}
  BY <1>1, MediaParts, HeldPlayers DEF MediaType
<1>3. MediaType'
  BY <1>1, QuestionsApart, MediaParts DEF MediaType, MediaControllerStarts
<1>4. ASSUME NEW p \in Player
      PROVE  PresenceFollows(mediaInbox', questions', p, p \in running', p \in ToSet(players)')
  BY <1>1, <1>2, LatestIsAmong DEF PresenceFollows
<1> QED
  BY <1>1, <1>2, <1>3, <1>4, MediaParts DEF MediaInv

-----------------------------------------------------------------------------
(* The steps of the controls.                                                *)
LEMMA Selects ==
  ASSUME MediaInv, NEW ps \in Seq(Player), NEW k, NEW onTop,
         NEW callsNow \in SUBSET Question, Select(ps, k, onTop, callsNow)
  PROVE  /\ players' = ps /\ known' = k
         /\ callsNow \subseteq questions' /\ questions' \in SUBSET Question
         /\ UNCHANGED <<running, theirs, watching>>
         /\ position_timer_' \in BOOLEAN
         /\ ActiveFollows(players', known', active_', position_timer_')
<1> DEFINE now == selectActive(ps, k, onTop)
<1>1. /\ players' = ps /\ known' = k /\ active_' = now
      /\ position_timer_' = IsPlaying(k, now)
      /\ questions' = callsNow \cup
           IF IsPlaying(k, now) /\ ~position_timer_ THEN {Ask("Get", now)} ELSE {}
      /\ UNCHANGED <<running, theirs, watching>>
  BY DEF Select, playersVars
<1> HIDE DEF now
<1>2. ActiveFollows(ps, k, now, IsPlaying(k, now))
  BY SelectedIsActive DEF now
<1>3. IsPlaying(k, now) => Ask("Get", now) \in Question
  BY <1>2, ActiveIs, HeldPlayers, QuestionsApart
<1>4. IsPlaying(k, now) \in BOOLEAN
  BY DEF IsPlaying
<1>5. /\ callsNow \subseteq questions' /\ questions' \in SUBSET Question
  BY <1>1, <1>3
<1> QED
  BY <1>1, <1>2, <1>4, <1>5

(* What is read of one player is nothing to the others.                      *)
About(p) == GoneOf(p) \cup InvalidOf(p) \cup StateOf(p) \cup PositionOf(p)

LEMMA NotAbout ==
  ASSUME NEW m, NEW p,
         \/ m.type \in {"ListNames", "Silenced"}
         \/ m.type = "NameOwnerChanged" /\ m.up
         \/ m.player # p
  PROVE  m \notin About(p)
  BY DEF About, GoneOf, InvalidOf, StateOf, PositionOf

LEMMA OthersRead ==
  ASSUME NEW q \in Seq(MediaMessage), q # <<>>, NEW calls, NEW calls1, NEW p, NEW truth, NEW k,
         Follows(q, calls, p, truth, k), StillAsked(calls, calls1, p), Head(q) \notin About(p)
  PROVE  Follows(Tail(q), calls1, p, truth, k)
<1>1. /\ Head(q) \notin GoneOf(p) /\ Head(q) \notin InvalidOf(p) /\ Head(q) \notin StateOf(p)
      /\ Head(q) \notin PositionOf(p) /\ Head(q) \notin TurnOf(p, k.track)
  BY DEF About, TurnOf
<1>2. WillRenew(q, calls, p) => WillRenew(Tail(q), calls1, p)
  BY <1>1, RenewalReads
<1>3. StateFollows(Tail(q), calls1, p, truth, k)
  BY <1>1, <1>2, StateReads DEF Follows
<1>4. PositionFollows(Tail(q), calls1, p, truth, k)
  BY <1>1, <1>2, PositionReads DEF Follows
<1> QED
  BY <1>3, <1>4 DEF Follows

(* A message is read, and the rest of the state follows.                     *)
LEMMA MediaReads ==
  ASSUME MediaInv, mediaInbox # <<>>, NEW rest \in Seq(MediaMessage), mediaInbox' = rest,
         UNCHANGED <<running, theirs, watching>>, questions' \in SUBSET Question,
         players' \in Seq(Player), IsInjective(players'), known' \in [Player -> Knowledge],
         position_timer_' \in BOOLEAN,
         ActiveFollows(players', known', active_', position_timer_'),
         \A p \in Player :
           PresenceFollows(rest, questions', p, p \in running, p \in ToSet(players')),
         \A p \in ToSet(players') : p \in running \/ WillRenew(rest, questions', p) =>
           Follows(rest, questions', p, theirs[p], known'[p])
  PROVE  MediaInv'
<1>1. watching /\ watching'
  BY MediaParts
<1>2. MediaType'
  BY MediaParts DEF MediaType
<1>3. ASSUME NEW p \in ToSet(players')
      PROVE  Follows(mediaInbox', questions', p, theirs'[p], known'[p])
  <2>1. p \in Player
    BY <1>3, HeldPlayers
  <2>2. ASSUME p \notin running PROVE WillRenew(rest, questions', p)
    <3>1. PresenceFollows(rest, questions', p, p \in running, p \in ToSet(players'))
      BY <2>1
    <3>2. PresenceFollows(rest, questions', p, FALSE, TRUE)
      BY <1>3, <2>2, <3>1 DEF PresenceFollows
    <3> QED
      BY <3>2, GoneWillBeTold
  <2> QED
    BY <1>3, <2>2
<1>4. ASSUME NEW p \in Player
      PROVE  PresenceFollows(mediaInbox', questions', p, p \in running', p \in ToSet(players)')
  OBVIOUS
<1> QED
  BY <1>1, <1>2, <1>3, <1>4 DEF MediaInv

LEMMA HeadIs ==
  ASSUME MediaInv, mediaInbox # <<>>
  PROVE  /\ mediaInbox \in Seq(MediaMessage) /\ Tail(mediaInbox) \in Seq(MediaMessage)
         /\ Head(mediaInbox) \in MediaMessage /\ watching
         /\ Head(mediaInbox).type # "ListNames" => Head(mediaInbox).player \in Player
         /\ Head(mediaInbox).type = "ListNames" => Head(mediaInbox).running \in SUBSET Player
         /\ Head(mediaInbox).type \in {"Metadata", "All"} =>
              Head(mediaInbox).status \in Status /\ Head(mediaInbox).track \in Track
         /\ Head(mediaInbox).type \in {"Position", "All"} => Head(mediaInbox).position \in Position
         /\ Head(mediaInbox).type = "NameOwnerChanged" => Head(mediaInbox).up \in BOOLEAN
<1> DEFINE m == Head(mediaInbox)
<1>1. /\ mediaInbox \in Seq(MediaMessage) /\ Tail(mediaInbox) \in Seq(MediaMessage)
      /\ m \in MediaMessage /\ watching
  BY MediaParts, RestIsLatest DEF MediaType
<1> HIDE DEF m
<1>2. /\ m.type # "ListNames" => m.player \in Player
      /\ m.type = "ListNames" => m.running \in SUBSET Player
      /\ m.type \in {"Metadata", "All"} => m.status \in Status /\ m.track \in Track
      /\ m.type \in {"Position", "All"} => m.position \in Position
      /\ m.type = "NameOwnerChanged" => m.up \in BOOLEAN
  BY <1>1 DEF MediaMessage
<1> QED
  BY <1>1, <1>2 DEF m

LEMMA AddPlayersInv ==
  ASSUME MediaInv, mediaInbox # <<>>, mediaInbox' = Tail(mediaInbox),
         NEW new \in Seq(Player), IsInjective(new), ToSet(players) \cap ToSet(new) = {},
         AddPlayers(new), NEW m, m = Head(mediaInbox), m.type \in {"NameOwnerChanged", "ListNames"},
         \A p : m \in PresenceOf(p) => Arrives(m) /\ p \in ToSet(players) \cup ToSet(new),
         \A p \in ToSet(new) : m \in PresenceOf(p)
  PROVE  MediaInv'
<1> DEFINE k == [p \in Player |-> IF Contains(new, p) THEN Unknown ELSE known[p]]
           callsNow == questions \cup {Ask("GetAll", p) : p \in ToSet(new) \cap running}
           rest == Tail(mediaInbox)
<1>1. /\ players \o new \in Seq(Player) /\ IsInjective(players \o new)
      /\ ToSet(players \o new) = ToSet(players) \cup ToSet(new)
  BY JoinedAre, MediaParts DEF MediaType
<1>2. k \in [Player -> Knowledge] /\ \A p \in Player \ ToSet(new) : k[p] = known[p]
  <2>1. Unknown \in Knowledge
    BY DEF Unknown, Knowledge
  <2> QED
    BY <2>1, MediaParts, HeldPlayers DEF MediaType
<1>3. callsNow \in SUBSET Question
  <2>1. \A p \in ToSet(new) \cap running : Ask("GetAll", p) \in Question
    BY QuestionsApart, HeldPlayers
  <2> QED
    BY <2>1, MediaParts DEF MediaType
<1>4. Select(players \o new, k, active_, callsNow)
  BY DEF AddPlayers
<1> HIDE DEF k, callsNow
<1>5. /\ players' = players \o new /\ known' = k
      /\ callsNow \subseteq questions' /\ questions' \in SUBSET Question
      /\ UNCHANGED <<running, theirs, watching>>
      /\ position_timer_' \in BOOLEAN
      /\ ActiveFollows(players', known', active_', position_timer_')
  BY <1>1, <1>3, <1>4, Selects
<1>6. \A p : StillAsked(questions, questions', p)
  BY <1>5, AllKept DEF callsNow
<1>7. rest \in Seq(MediaMessage) /\ mediaInbox \in Seq(MediaMessage) /\ watching
  BY HeadIs
<1> HIDE DEF rest
<1>8. ASSUME NEW p \in Player
      PROVE  PresenceFollows(rest, questions', p, p \in running, p \in ToSet(players'))
  <2>1. PresenceFollows(mediaInbox, questions, p, p \in running, p \in ToSet(players))
    BY <1>7, MediaParts
  <2>2. m \notin PresenceOf(p) => (p \in ToSet(players') <=> p \in ToSet(players))
    BY <1>1, <1>5
  <2>3. m \in PresenceOf(p) => Arrives(m) /\ p \in ToSet(players')
    BY <1>1, <1>5
  <2> QED
    BY <1>6, <1>7, <2>1, <2>2, <2>3, PresenceReads DEF rest
<1>9. ASSUME NEW p \in ToSet(players'), p \in running \/ WillRenew(rest, questions', p)
      PROVE  Follows(rest, questions', p, theirs[p], known'[p])
  <2>1. CASE p \in ToSet(new)
    <3>1. p \in running => Ask("GetAll", p) \in questions'
      BY <1>5, <2>1 DEF callsNow
    <3>2. WillRenew(rest, questions', p)
      BY <1>9, <3>1 DEF WillRenew
    <3> QED
      BY <3>2, RenewedFollows
  <2>2. CASE p \notin ToSet(new)
    <3>1. p \in ToSet(players)
      BY <1>1, <1>5, <1>9, <2>2
    <3>2. p \in Player /\ known'[p] = known[p]
      BY <1>2, <1>5, <2>2, <3>1, MediaParts
    <3>3. Follows(mediaInbox, questions, p, theirs[p], known[p])
      BY <3>1, MediaParts
    <3>4. m \notin About(p)
      <4>1. m \in MediaMessage
        BY HeadIs
      <4>2. m.type = "NameOwnerChanged" /\ m.player = p => m.up
        BY <4>1 DEF PresenceOf, Arrives
      <4> QED
        BY <4>2, NotAbout
    <3>5. Follows(Tail(mediaInbox), questions', p, theirs[p], known[p])
      BY <1>6, <1>7, <3>3, <3>4, OthersRead
    <3> QED
      BY <3>2, <3>5 DEF rest
  <2> QED
    BY <2>1, <2>2
<1> QED
  BY <1>1, <1>2, <1>5, <1>7, <1>8, <1>9, MediaReads DEF rest

LEMMA PlayersListedInv ==
  ASSUME MediaInv, scanExistingPlayers
  PROVE  MediaInv'
<1> DEFINE m == Head(mediaInbox)
           S == m.running \ ToSet(players)
<1>1. mediaInbox # <<>> /\ m.type = "ListNames" /\ mediaInbox' = Tail(mediaInbox)
  BY DEF scanExistingPlayers, Reads
<1>2. PICK new \in SetToSeqs(S) : AddPlayers(new)
  BY DEF scanExistingPlayers
<1>3. m \in MediaMessage /\ m.running \in SUBSET Player
  BY <1>1, HeadIs
<1>4. IsFiniteSet(S)
  BY <1>3, FS_Subset, MediaAssumption
<1>5. new \in Seq(S) /\ IsInjective(new) /\ ToSet(new) = S
  BY <1>4, ListedAre
<1>6. new \in Seq(Player)
  BY <1>3, <1>5
<1>7. Arrives(m) /\ \A p : m \in PresenceOf(p) <=> p \in m.running
  BY <1>1, <1>3 DEF Arrives, PresenceOf
<1> QED
  BY <1>1, <1>2, <1>5, <1>6, <1>7, AddPlayersInv

LEMMA OwnerChangesInv ==
  ASSUME MediaInv, onNameOwnerChanged
  PROVE  MediaInv'
<1> DEFINE m == Head(mediaInbox)
           p == m.player
           rest == Tail(mediaInbox)
<1>1. mediaInbox # <<>> /\ m.type = "NameOwnerChanged"
  BY DEF onNameOwnerChanged, Reads
<1>2. /\ m \in MediaMessage /\ p \in Player /\ m.up \in BOOLEAN /\ watching
      /\ rest \in Seq(MediaMessage) /\ mediaInbox \in Seq(MediaMessage)
  BY <1>1, HeadIs
<1>3. /\ mediaInbox' = IF m.up THEN rest ELSE Silenced(rest, p)
      /\ m.up /\ p \notin ToSet(players) => AddPlayers(<<p>>)
      /\ ~m.up /\ p \in ToSet(players) => RemovePlayer(p)
      /\ (m.up <=> p \in ToSet(players)) =>
           UNCHANGED <<running, theirs, questions, watching, players, known, active_,
                       position_timer_>>
  BY MediaParts DEF onNameOwnerChanged, playersVars, controllerVars
<1>4. /\ \A a : m \in PresenceOf(a) <=> a = p
      /\ Arrives(m) <=> m.up
  BY <1>1, <1>2 DEF PresenceOf, Arrives
<1>5. CASE m.up /\ p \notin ToSet(players)
  <2>1. <<p>> \in Seq(Player) /\ IsInjective(<<p>>) /\ ToSet(<<p>>) = {p}
    BY <1>2 DEF IsInjective, ToSet
  <2> HIDE DEF m
  <2> QED
    BY <1>1, <1>3, <1>4, <1>5, <2>1, AddPlayersInv DEF m
<1>6. CASE m.up /\ p \in ToSet(players)
  <2>1. /\ UNCHANGED <<running, theirs, questions, watching, players, known, active_,
                       position_timer_>>
        /\ mediaInbox' = rest
    BY <1>3, <1>6
  <2>2. \A a : StillAsked(questions, questions', a)
    BY <2>1, AllKept
  <2>3. ASSUME NEW a \in Player
        PROVE  PresenceFollows(rest, questions', a, a \in running, a \in ToSet(players'))
    <3>1. PresenceFollows(mediaInbox, questions, a, a \in running, a \in ToSet(players))
      BY <1>2, MediaParts
    <3>2. m \in PresenceOf(a) => Arrives(m) /\ a \in ToSet(players)
      BY <1>4, <1>6
    <3> QED
      BY <1>1, <1>2, <2>1, <2>2, <3>1, <3>2, PresenceReads
  <2>4. ASSUME NEW a \in ToSet(players')
        PROVE  Follows(rest, questions', a, theirs[a], known'[a])
    <3>1. Follows(mediaInbox, questions, a, theirs[a], known[a])
      BY <2>1, <2>4, MediaParts
    <3>2. m \notin About(a)
      BY <1>1, <1>6, NotAbout
    <3>3. Follows(rest, questions', a, theirs[a], known[a])
      BY <1>1, <1>2, <2>2, <3>1, <3>2, OthersRead
    <3> QED
      BY <2>1, <3>3
  <2> HIDE DEF rest, m
  <2>5. /\ questions' \in SUBSET Question /\ players' \in Seq(Player) /\ IsInjective(players')
        /\ known' \in [Player -> Knowledge] /\ position_timer_' \in BOOLEAN
        /\ ActiveFollows(players', known', active_', position_timer_')
    BY <2>1, MediaParts DEF MediaType
  <2> QED
    BY <1>1, <1>2, <2>1, <2>3, <2>4, <2>5, MediaReads
<1>7. CASE ~m.up
  <2>1. /\ UNCHANGED <<running, theirs, watching>> /\ mediaInbox' = Silenced(rest, p)
        /\ questions' \in SUBSET Question /\ players' \in Seq(Player) /\ IsInjective(players')
        /\ known' = known /\ position_timer_' \in BOOLEAN
        /\ ToSet(players') = ToSet(players) \ {p}
        /\ \A a : a # p => StillAsked(questions, questions', a)
        /\ ActiveFollows(players', known', active_', position_timer_')
    <3>1. CASE p \in ToSet(players)
      <4> DEFINE ps == RemoveFirst(players, p)
                 callsNow == {q \in questions : q.player # p}
      <4>1. Select(ps, known, IF active_ = p THEN NoPlayer ELSE active_, callsNow)
        BY <1>3, <1>7, <3>1 DEF RemovePlayer
      <4>2. ps \in Seq(Player) /\ IsInjective(ps) /\ ToSet(ps) = ToSet(players) \ {p}
        BY FirstRemoved, MediaParts DEF MediaType
      <4>3. callsNow \in SUBSET Question /\ \A a : a # p => StillAsked(questions, callsNow, a)
        BY MediaParts DEF MediaType, StillAsked
      <4> HIDE DEF ps, callsNow
      <4>4. /\ players' = ps /\ known' = known
            /\ callsNow \subseteq questions' /\ questions' \in SUBSET Question
            /\ UNCHANGED <<running, theirs, watching>>
            /\ position_timer_' \in BOOLEAN
            /\ ActiveFollows(players', known', active_', position_timer_')
        BY <4>1, <4>2, <4>3, Selects
      <4>5. \A a : a # p => StillAsked(questions, questions', a)
        BY <4>3, <4>4 DEF StillAsked
      <4> QED
        BY <1>3, <1>7, <4>2, <4>4, <4>5
    <3>2. CASE p \notin ToSet(players)
      <4>1. /\ UNCHANGED <<running, theirs, questions, watching, players, known, active_,
                           position_timer_>>
            /\ mediaInbox' = Silenced(rest, p)
        BY <1>3, <1>7, <3>2
      <4>2. \A a : StillAsked(questions, questions', a)
        BY <4>1, AllKept
      <4> HIDE DEF rest, p
      <4> QED
        BY <3>2, <4>1, <4>2, MediaParts DEF MediaType
    <3> QED
      BY <3>1, <3>2
  <2>2. StillAsked(questions, questions', NoPlayer)
    BY <1>2, <2>1, MediaParts
  <2>3. ASSUME NEW a \in Player
        PROVE  PresenceFollows(Silenced(rest, p), questions', a, a \in running,
                               a \in ToSet(players'))
    <3>1. PresenceFollows(mediaInbox, questions, a, a \in running, a \in ToSet(players))
      BY <1>2, MediaParts
    <3>2. /\ m \in PresenceOf(a) => ~Arrives(m) /\ a \notin ToSet(players')
          /\ m \notin PresenceOf(a) => (a \in ToSet(players') <=> a \in ToSet(players))
      BY <1>4, <1>7, <2>1
    <3>3. PresenceFollows(rest, questions', a, a \in running, a \in ToSet(players'))
      BY <1>1, <1>2, <2>2, <3>1, <3>2, PresenceReads
    <3> QED
      BY <1>2, <3>3, SilenceKeeps
  <2>4. ASSUME NEW a \in ToSet(players')
        PROVE  Follows(Silenced(rest, p), questions', a, theirs[a], known'[a])
    <3>1. a \in ToSet(players) /\ a # p
      BY <2>1, <2>4
    <3>2. Follows(mediaInbox, questions, a, theirs[a], known[a])
      BY <3>1, MediaParts
    <3>3. StillAsked(questions, questions', a)
      BY <2>1, <3>1
    <3>4. m \notin About(a)
      BY <3>1, NotAbout
    <3>5. Follows(rest, questions', a, theirs[a], known[a])
      BY <1>1, <1>2, <3>2, <3>3, <3>4, OthersRead
    <3>6. Follows(Silenced(rest, p), questions', a, theirs[a], known[a])
      BY <1>2, <3>1, <3>5, SilenceKeeps
    <3> QED
      BY <2>1, <3>6
  <2>5. Silenced(rest, p) \in Seq(MediaMessage) /\ known' \in [Player -> Knowledge]
    BY <1>2, <2>1, SilenceKeeps, MediaParts DEF MediaType
  <2> HIDE DEF rest, p, m
  <2> QED
    BY <1>1, <2>1, <2>3, <2>4, <2>5, MediaReads
<1> QED
  BY <1>2, <1>5, <1>6, <1>7

(* A step that reads what is told of one player, which those that run are    *)
(* asked about besides.                                                      *)
LEMMA OneIsRead ==
  ASSUME MediaInv, mediaInbox # <<>>, NEW m, m = Head(mediaInbox),
         m.type \notin {"NameOwnerChanged", "ListNames"},
         mediaInbox' = Tail(mediaInbox), UNCHANGED <<running, theirs, watching, players>>,
         questions \subseteq questions', questions' \in SUBSET Question,
         known' \in [Player -> Knowledge], \A a \in Player : a # m.player => known'[a] = known[a],
         position_timer_' \in BOOLEAN,
         ActiveFollows(players, known', active_', position_timer_'),
         m.player \in ToSet(players) /\ Follows(mediaInbox, questions, m.player, theirs[m.player],
                                                known[m.player])
           /\ (m.player \in running \/ WillRenew(Tail(mediaInbox), questions', m.player)) =>
           Follows(Tail(mediaInbox), questions', m.player, theirs[m.player], known'[m.player])
  PROVE  MediaInv'
<1> DEFINE rest == Tail(mediaInbox)
<1>1. /\ m \in MediaMessage /\ rest \in Seq(MediaMessage) /\ watching
      /\ mediaInbox \in Seq(MediaMessage)
  BY HeadIs
<1>2. \A a : StillAsked(questions, questions', a)
  BY AllKept
<1> HIDE DEF rest
<1>3. ASSUME NEW a \in Player
      PROVE  PresenceFollows(rest, questions', a, a \in running, a \in ToSet(players'))
  <2>1. PresenceFollows(mediaInbox, questions, a, a \in running, a \in ToSet(players))
    BY <1>1, MediaParts
  <2>2. m \notin PresenceOf(a)
    BY DEF PresenceOf
  <2> QED
    BY <1>1, <1>2, <2>1, <2>2, PresenceReads DEF rest
<1>4. ASSUME NEW a \in ToSet(players'), a \in running \/ WillRenew(rest, questions', a)
      PROVE  Follows(rest, questions', a, theirs[a], known'[a])
  <2>1. a \in ToSet(players) /\ a \in Player /\ Follows(mediaInbox, questions, a, theirs[a], known[a])
    BY <1>4, MediaParts
  <2>2. CASE a = m.player
    BY <1>4, <2>1, <2>2 DEF rest
  <2>3. CASE a # m.player
    <3>1. m \notin About(a)
      BY <2>3, NotAbout
    <3>2. Follows(Tail(mediaInbox), questions', a, theirs[a], known[a])
      BY <1>1, <1>2, <2>1, <3>1, OthersRead
    <3> QED
      BY <2>1, <2>3, <3>2 DEF rest
  <2> QED
    BY <2>2, <2>3
<1>5. players' \in Seq(Player) /\ IsInjective(players')
  BY MediaParts DEF MediaType
<1> QED
  BY <1>1, <1>3, <1>4, <1>5, MediaReads DEF rest

LEMMA SeekedIs ==
  ASSUME NEW k \in Knowledge, NEW at \in Position
  PROVE  /\ onSeeked(k, at) \in Knowledge
         /\ onSeeked(k, at).status = k.status /\ onSeeked(k, at).track = k.track
         /\ onSeeked(k, at).position = Micros(k.track, at)
<1>1. Micros(k.track, at) \in Nat
  <2>1. \A n \in {1, 1000} : at * n \in Nat
    BY DEF Position
  <2> DEFINE n == IF k.track = "legacy track" THEN 1000 ELSE 1
  <2>2. n \in {1, 1000} /\ Micros(k.track, at) = at * n
    BY DEF Micros
  <2> HIDE DEF n
  <2> QED
    BY <2>1, <2>2
<1> QED
  BY <1>1 DEF onSeeked, Knowledge

(* Another position of one player leaves the choice as it is.                *)
LEMMA ChoiceKept ==
  ASSUME NEW ps \in Seq(Player), NEW k, NEW k1, NEW onTop, NEW timer,
         ActiveFollows(ps, k, onTop, timer),
         \A p \in Player : k1[p].status = k[p].status
  PROVE  ActiveFollows(ps, k1, onTop, timer)
<1>1. onTop # NoPlayer => onTop \in Player
  BY ActiveIs
<1>2. \A p \in Player : IsPlaying(k1, p) <=> IsPlaying(k, p)
  BY DEF IsPlaying
<1>3. IsPlaying(k1, onTop) <=> IsPlaying(k, onTop)
  BY <1>1, <1>2 DEF IsPlaying
<1> QED
  BY <1>2, <1>3, HeldPlayers DEF ActiveFollows

LEMMA PropertiesChangeInv ==
  ASSUME MediaInv, onPropertiesChanged
  PROVE  MediaInv'
<1> DEFINE m == Head(mediaInbox)
           p == m.player
           track == [status |-> m.status, track |-> m.track, position |-> known[p].position]
           now == IF m.type = "All" THEN onSeeked(track, m.position) ELSE track
           k == [known EXCEPT ![p] = now]
           callsNow == questions \cup RefreshPosition(p, known[p], m)
           rest == Tail(mediaInbox)
<1>1. /\ mediaInbox # <<>> /\ m.type \in {"Metadata", "All"} /\ mediaInbox' = Tail(mediaInbox)
      /\ ApplyProperties(p, m)
  BY DEF onPropertiesChanged, Reads
<1>2. /\ m \in MediaMessage /\ p \in Player /\ m.status \in Status /\ m.track \in Track
      /\ m.type = "All" => m.position \in Position
      /\ mediaInbox \in Seq(MediaMessage) /\ watching
  BY <1>1, HeadIs
<1>3. IF [now EXCEPT !.position = 0] = [known[p] EXCEPT !.position = 0]
      THEN /\ known' = k /\ questions' = callsNow
           /\ UNCHANGED <<playersVars, watching, players, active_, position_timer_>>
      ELSE Select(players, k, IF now.status = "Playing" THEN p ELSE active_, callsNow)
  BY <1>1 DEF ApplyProperties
<1>4. /\ m \in StateOf(p) /\ (m \in PositionOf(p) <=> m.type = "All")
      /\ m \in TurnOf(p, known[p].track) <=> m.track # known[p].track
      /\ m \notin GoneOf(p) /\ m \notin InvalidOf(p)
  BY <1>1, <1>2 DEF StateOf, PositionOf, TurnOf, GoneOf, InvalidOf
<1>5. known \in [Player -> Knowledge] /\ known[p] \in Knowledge /\ questions \in SUBSET Question
  BY <1>2, MediaParts DEF MediaType
<1>6. callsNow \in SUBSET Question /\ questions \subseteq callsNow
      /\ (m.track # known[p].track /\ p \in running => Ask("Get", p) \in callsNow)
  BY <1>2, <1>5, QuestionsApart DEF RefreshPosition
<1> HIDE DEF m
<1>7. /\ track \in Knowledge /\ track.status = m.status /\ track.track = m.track
      /\ track.position = known[p].position
  BY <1>2, <1>5 DEF Knowledge
<1> HIDE DEF track
<1>8. /\ now \in Knowledge /\ now.status = m.status /\ now.track = m.track
      /\ m.type = "All" => now.position = Micros(now.track, m.position)
      /\ m.type # "All" => now.position = known[p].position
  BY <1>2, <1>7, SeekedIs
<1> HIDE DEF now, callsNow, p, rest
<1>9. k \in [Player -> Knowledge] /\ k[p] = now /\ \A a \in Player : a # p => k[a] = known[a]
  BY <1>2, <1>5, <1>8
<1> HIDE DEF k
<1>10. /\ known' = k /\ callsNow \subseteq questions' /\ questions' \in SUBSET Question
       /\ UNCHANGED <<running, theirs, watching, players>> /\ position_timer_' \in BOOLEAN
       /\ ActiveFollows(players, known', active_', position_timer_')
  <2>1. CASE [now EXCEPT !.position = 0] = [known[p] EXCEPT !.position = 0]
    <3>1. /\ known' = k /\ questions' = callsNow
          /\ UNCHANGED <<running, theirs, watching, players, active_, position_timer_>>
      BY <1>3, <2>1 DEF playersVars
    <3>2. [now EXCEPT !.position = 0].status = now.status
          /\ [known[p] EXCEPT !.position = 0].status = known[p].status
      BY <1>5, <1>8 DEF Knowledge
    <3>3. now.status = known[p].status
      BY <2>1, <3>2
    <3>4. \A a \in Player : k[a].status = known[a].status
      BY <1>9, <3>3
    <3>5. ActiveFollows(players, k, active_, position_timer_)
      BY <3>4, ChoiceKept, MediaParts DEF MediaType
    <3> QED
      BY <1>6, <3>1, <3>5, MediaParts DEF MediaType
  <2>2. CASE ~([now EXCEPT !.position = 0] = [known[p] EXCEPT !.position = 0])
    <3>1. Select(players, k, IF now.status = "Playing" THEN p ELSE active_, callsNow)
      BY <1>3, <2>2
    <3>2. players \in Seq(Player)
      BY MediaParts DEF MediaType
    <3>3. /\ players' = players /\ known' = k
          /\ callsNow \subseteq questions' /\ questions' \in SUBSET Question
          /\ UNCHANGED <<running, theirs, watching>>
          /\ position_timer_' \in BOOLEAN
          /\ ActiveFollows(players', known', active_', position_timer_')
      BY <1>6, <3>1, <3>2, Selects
    <3> QED
      BY <3>3
  <2> QED
    BY <2>1, <2>2
<1>11. ASSUME Follows(mediaInbox, questions, p, theirs[p], known[p]),
              p \in running \/ WillRenew(Tail(mediaInbox), questions', p)
       PROVE  Follows(Tail(mediaInbox), questions', p, theirs[p], known'[p])
  <2>1. StillAsked(questions, questions', p)
    BY <1>6, <1>10, AllKept
  <2>2. WillRenew(mediaInbox, questions, p) => WillRenew(Tail(mediaInbox), questions', p)
    BY <1>1, <1>2, <1>4, <2>1, RenewalReads DEF m
  <2>3. StateFollows(Tail(mediaInbox), questions', p, theirs[p], now)
    <3>1. StateFollows(mediaInbox, questions, p, theirs[p], known[p])
      BY <1>11 DEF Follows
    <3>2. Head(mediaInbox) \in StateOf(p) /\ now.status = Head(mediaInbox).status
          /\ now.track = Head(mediaInbox).track
      BY <1>4, <1>8 DEF m
    <3> QED
      BY <1>1, <1>2, <2>2, <3>1, <3>2, StateReads
  <2>4. PositionFollows(Tail(mediaInbox), questions', p, theirs[p], now)
    <3>1. PositionFollows(mediaInbox, questions, p, theirs[p], known[p])
      BY <1>11 DEF Follows
    <3>2. m \in TurnOf(p, known[p].track) =>
            Ask("Get", p) \in questions' \/ WillRenew(Tail(mediaInbox), questions', p)
      BY <1>4, <1>6, <1>10, <1>11
    <3>3. m \notin TurnOf(p, known[p].track) => now.track = known[p].track
      BY <1>4, <1>8
    <3>4. /\ m \in PositionOf(p) => now.position = Micros(now.track, m.position)
          /\ m \notin PositionOf(p) => now.position = known[p].position
      BY <1>4, <1>8
    <3> QED
      BY <1>1, <1>2, <2>1, <2>2, <3>1, <3>2, <3>3, <3>4, PositionReads DEF m
  <2> QED
    BY <1>9, <1>10, <2>3, <2>4 DEF Follows
<1>12. m.type \notin {"NameOwnerChanged", "ListNames"} /\ questions \subseteq questions'
  BY <1>1, <1>6, <1>10
<1>13. /\ m = Head(mediaInbox)
       /\ p = m.player
  BY DEF m, p
<1> QED
  BY <1>1, <1>9, <1>10, <1>11, <1>12, <1>13, OneIsRead

LEMMA RefreshInv ==
  ASSUME MediaInv, MprisRefresh
  PROVE  MediaInv'
<1> DEFINE m == Head(mediaInbox)
           p == m.player
<1>1. /\ mediaInbox # <<>> /\ m.type = "Invalidated" /\ mediaInbox' = Tail(mediaInbox)
      /\ questions' = questions \cup {Ask("GetAll", a) : a \in {p} \cap running}
      /\ UNCHANGED <<running, theirs, watching, players, known, active_, position_timer_>>
  BY DEF MprisRefresh, Reads, playersVars, controllerVars
<1>2. p \in Player
  BY <1>1, HeadIs
<1>3. /\ questions' \in SUBSET Question /\ questions \subseteq questions'
      /\ known' \in [Player -> Knowledge] /\ position_timer_' \in BOOLEAN
      /\ ActiveFollows(players, known', active_', position_timer_')
  <2>1. \A a \in {p} \cap running : Ask("GetAll", a) \in Question
    BY <1>2, QuestionsApart
  <2> QED
    BY <1>1, <2>1, MediaParts DEF MediaType
<1>4. p \in running => Ask("GetAll", p) \in questions'
  BY <1>1
<1> HIDE DEF m
<1>5. p \in running \/ WillRenew(Tail(mediaInbox), questions', p) =>
        Follows(Tail(mediaInbox), questions', p, theirs[p], known'[p])
  <2>1. p \in running \/ WillRenew(Tail(mediaInbox), questions', p) =>
          WillRenew(Tail(mediaInbox), questions', p)
    BY <1>4 DEF WillRenew
  <2> QED
    BY <2>1, RenewedFollows
<1>6. m.type \notin {"NameOwnerChanged", "ListNames"} /\ m = Head(mediaInbox)
  BY <1>1 DEF m
<1> QED
  BY <1>1, <1>3, <1>5, <1>6, OneIsRead

LEMMA PositionComesInv ==
  ASSUME MediaInv, PositionComes
  PROVE  MediaInv'
<1> DEFINE m == Head(mediaInbox)
           p == m.player
           now == onSeeked(known[p], m.position)
<1>1. /\ mediaInbox # <<>> /\ m.type = "Position" /\ mediaInbox' = Tail(mediaInbox)
      /\ known' = [known EXCEPT ![p] = now]
      /\ UNCHANGED <<running, theirs, questions, watching, players, active_, position_timer_>>
  BY DEF PositionComes, Reads, playersVars
<1>2. p \in Player /\ m.position \in Position /\ m \in MediaMessage
      /\ mediaInbox \in Seq(MediaMessage)
  BY <1>1, HeadIs
<1>3. known \in [Player -> Knowledge] /\ known[p] \in Knowledge
  BY <1>2, MediaParts DEF MediaType
<1>4. /\ now \in Knowledge /\ now.status = known[p].status /\ now.track = known[p].track
      /\ now.position = Micros(now.track, m.position)
  BY <1>2, <1>3, SeekedIs
<1>5. /\ m \notin GoneOf(p) /\ m \notin InvalidOf(p) /\ m \notin StateOf(p)
      /\ m \notin TurnOf(p, known[p].track) /\ m \in PositionOf(p)
  BY <1>1, <1>2 DEF GoneOf, InvalidOf, StateOf, TurnOf, PositionOf
<1> HIDE DEF m, now
<1>6. /\ known' \in [Player -> Knowledge] /\ known'[p] = now
      /\ \A a \in Player : a # p => known'[a] = known[a]
  BY <1>1, <1>2, <1>3, <1>4
<1>7. ActiveFollows(players, known', active_', position_timer_')
  <2>1. \A a \in Player : known'[a].status = known[a].status
    BY <1>4, <1>6
  <2> QED
    BY <1>1, <2>1, ChoiceKept, MediaParts DEF MediaType
<1>8. ASSUME Follows(mediaInbox, questions, p, theirs[p], known[p])
      PROVE  Follows(Tail(mediaInbox), questions', p, theirs[p], now)
  <2>1. StillAsked(questions, questions', p)
    BY <1>1, AllKept
  <2>2. WillRenew(mediaInbox, questions, p) => WillRenew(Tail(mediaInbox), questions', p)
    BY <1>1, <1>2, <1>5, <2>1, RenewalReads DEF m
  <2>3. StateFollows(Tail(mediaInbox), questions', p, theirs[p], now)
    BY <1>1, <1>2, <1>4, <1>5, <1>8, <2>2, StateReads DEF m, Follows
  <2>4. PositionFollows(Tail(mediaInbox), questions', p, theirs[p], now)
    <3>1. PositionFollows(mediaInbox, questions, p, theirs[p], known[p])
      BY <1>8 DEF Follows
    <3> QED
      BY <1>1, <1>2, <1>4, <1>5, <2>1, <2>2, <3>1, PositionReads DEF m
  <2> QED
    BY <2>3, <2>4 DEF Follows
<1>9. m.type \notin {"NameOwnerChanged", "ListNames"} /\ m = Head(mediaInbox)
  BY <1>1 DEF m
<1>10. questions' \in SUBSET Question /\ questions \subseteq questions'
       /\ position_timer_' \in BOOLEAN
  BY <1>1, MediaParts DEF MediaType
<1> QED
  BY <1>1, <1>6, <1>7, <1>8, <1>9, <1>10, OneIsRead

LEMMA NobodyHearsInv ==
  ASSUME MediaInv, NobodyHears
  PROVE  MediaInv'
<1> DEFINE m == Head(mediaInbox)
           p == m.player
<1>1. /\ mediaInbox # <<>> /\ m.type = "Silenced" /\ mediaInbox' = Tail(mediaInbox)
      /\ UNCHANGED <<running, theirs, questions, watching, players, known, active_,
                     position_timer_>>
  BY DEF NobodyHears, Reads, playersVars, controllerVars
<1>2. mediaInbox \in Seq(MediaMessage) /\ m \notin About(p) /\ StillAsked(questions, questions', p)
  BY <1>1, HeadIs, NotAbout, AllKept
<1>3. Follows(mediaInbox, questions, p, theirs[p], known[p]) =>
        Follows(Tail(mediaInbox), questions', p, theirs[p], known'[p])
  BY <1>1, <1>2, OthersRead
<1> HIDE DEF m
<1>4. m.type \notin {"NameOwnerChanged", "ListNames"} /\ m = Head(mediaInbox)
  BY <1>1 DEF m
<1>5. /\ questions' \in SUBSET Question /\ questions \subseteq questions'
      /\ known' \in [Player -> Knowledge] /\ position_timer_' \in BOOLEAN
      /\ ActiveFollows(players, known', active_', position_timer_')
  BY <1>1, MediaParts DEF MediaType
<1> QED
  BY <1>1, <1>3, <1>4, <1>5, OneIsRead

(* More is asked, and nothing is read.                                       *)
LEMMA MoreIsAsked ==
  ASSUME MediaInv, UNCHANGED <<running, theirs, mediaInbox, watching, players>>,
         watching, questions \subseteq questions', questions' \in SUBSET Question,
         position_timer_' \in BOOLEAN,
         known' \in [Player -> Knowledge],
         ActiveFollows(players, known', active_', position_timer_'),
         \A p \in ToSet(players) : known'[p] = known[p]
           \/ Follows(mediaInbox, questions', p, theirs[p], known'[p])
  PROVE  MediaInv'
<1>1. \A a : StillAsked(questions, questions', a)
  BY AllKept
<1>2. MediaType'
  BY MediaParts DEF MediaType
<1>3. ASSUME NEW p \in Player
      PROVE  PresenceFollows(mediaInbox', questions', p, p \in running', p \in ToSet(players)')
  <2>1. PresenceFollows(mediaInbox, questions, p, p \in running', p \in ToSet(players)')
    BY MediaParts
  <2> QED
    BY <1>1, <2>1, QuestionsKept
<1>4. ASSUME NEW p \in ToSet(players)
      PROVE  Follows(mediaInbox', questions', p, theirs'[p], known'[p])
  <2>1. Follows(mediaInbox, questions, p, theirs[p], known[p])
    BY <1>4, MediaParts
  <2>2. Follows(mediaInbox, questions', p, theirs[p], known[p])
    BY <1>1, <2>1, QuestionsKept
  <2> QED
    BY <1>4, <2>2
<1> QED
  BY <1>2, <1>3, <1>4 DEF MediaInv

LEMMA PositionTimeoutInv ==
  ASSUME MediaInv, PositionTimeout
  PROVE  MediaInv'
<1>1. /\ position_timer_
      /\ questions' = questions \cup IF active_ \in running THEN {Ask("Get", active_)} ELSE {}
      /\ UNCHANGED <<running, theirs, mediaInbox, watching, players, known, active_,
                     position_timer_>>
  BY DEF PositionTimeout, playersVars, controllerVars
<1>2. active_ # NoPlayer
  BY <1>1, MediaParts DEF ActiveFollows, IsPlaying
<1>3. active_ \in Player /\ watching
  BY <1>2, MediaParts
<1>4. questions \subseteq questions' /\ questions' \in SUBSET Question
  BY <1>1, <1>3, QuestionsApart, MediaParts DEF MediaType
<1>5. position_timer_' \in BOOLEAN /\ known' \in [Player -> Knowledge]
      /\ ActiveFollows(players, known', active_', position_timer_')
  BY <1>1, MediaParts DEF MediaType
<1> QED
  BY <1>1, <1>3, <1>4, <1>5, MoreIsAsked

LEMMA SeekInv ==
  ASSUME MediaInv, Seek
  PROVE  MediaInv'
<1> DEFINE p == active_
           now == onSeeked(known[p], 1)
<1>1. /\ p # NoPlayer /\ known[p].track # NoTrack
      /\ questions' = questions \cup
           IF p \in running THEN {Jump(p, known[p].track)} ELSE {}
      /\ known' = [known EXCEPT ![p] = now]
      /\ UNCHANGED <<running, theirs, mediaInbox, watching, players, active_, position_timer_>>
  BY DEF Seek, playersVars, Jump
<1>2. p \in Player /\ p \in ToSet(players) /\ watching
  BY <1>1, MediaParts
<1>3. known \in [Player -> Knowledge] /\ known[p] \in Knowledge /\ 1 \in Position
  BY <1>2, MediaParts DEF MediaType, Position
<1>4. /\ now \in Knowledge /\ now.status = known[p].status /\ now.track = known[p].track
  BY <1>3, SeekedIs
<1> HIDE DEF now, p
<1>5. /\ known' \in [Player -> Knowledge] /\ known'[p] = now
      /\ \A a \in Player : a # p => known'[a] = known[a]
  BY <1>1, <1>2, <1>3, <1>4
<1>6. ActiveFollows(players, known', active_', position_timer_')
  <2>1. \A a \in Player : known'[a].status = known[a].status
    BY <1>4, <1>5
  <2> QED
    BY <1>1, <2>1, ChoiceKept, MediaParts DEF MediaType
<1>7. known[p].track \in Track
  BY <1>1, <1>3 DEF Knowledge
<1>8. /\ questions \subseteq questions' /\ questions' \in SUBSET Question
      /\ position_timer_' \in BOOLEAN
  BY <1>1, <1>2, <1>7, QuestionsApart, MediaParts DEF MediaType
<1>9. Follows(mediaInbox, questions', p, theirs[p], now)
  <2>1. Follows(mediaInbox, questions', p, theirs[p], known[p])
    <3>1. Follows(mediaInbox, questions, p, theirs[p], known[p]) /\ StillAsked(questions, questions', p)
      BY <1>2, <1>8, AllKept, MediaParts
    <3> QED
      BY <3>1, QuestionsKept
  <2>2. StateFollows(mediaInbox, questions', p, theirs[p], now)
    BY <1>4, <2>1 DEF Follows, StateFollows
  <2>3. CASE WillRenew(mediaInbox, questions', p)
    BY <2>3, RenewedFollows
  <2>4. CASE p \in running /\ known[p].track = theirs[p].track
    <3>1. Jump(p, theirs[p].track) \in questions'
      BY <1>1, <2>4
    <3> QED
      BY <2>2, <3>1 DEF Follows, PositionFollows
  <2>5. CASE p \notin running
    <3>1. WillRenew(mediaInbox, questions, p) /\ StillAsked(questions, questions', p)
      BY <1>2, <1>8, <2>5, AllKept, MediaParts
    <3>2. WillRenew(mediaInbox, questions', p)
      BY <3>1, RenewalKept
    <3> QED
      BY <3>2, RenewedFollows
  <2>6. CASE known[p].track # theirs[p].track /\ ~WillRenew(mediaInbox, questions', p)
    <3>1. Among(mediaInbox, StateOf(p))
      BY <2>1, <2>6 DEF Follows, StateFollows
    <3>2. PICK m \in MediaMessage : Latest(mediaInbox, StateOf(p), m)
      BY <2>1, <2>6, <3>1 DEF Follows, StateFollows
    <3>3. m.track = theirs[p].track
      BY <2>1, <2>6, <3>2 DEF Follows, StateFollows
    <3>4. m \in StateOf(p) /\ (m \in TurnOf(p, now.track) => Among(mediaInbox, TurnOf(p, now.track)))
      BY <3>2, LatestIsAmong
    <3>5. m \in TurnOf(p, now.track)
      BY <1>4, <2>6, <3>3, <3>4 DEF TurnOf
    <3> QED
      BY <2>2, <3>4, <3>5 DEF Follows, PositionFollows
  <2> QED
    BY <2>3, <2>4, <2>5, <2>6
<1>10. \A a \in ToSet(players) : known'[a] = known[a]
         \/ Follows(mediaInbox, questions', a, theirs[a], known'[a])
  BY <1>5, <1>9, MediaParts
<1> QED
  BY <1>1, <1>2, <1>5, <1>6, <1>8, <1>10, MoreIsAsked

-----------------------------------------------------------------------------
LEMMA MediaStarts == MediaInit => MediaInv
<1> SUFFICES ASSUME MediaInit PROVE MediaInv
  OBVIOUS
<1>1. /\ running = {} /\ theirs = [p \in Player |-> Stopped] /\ questions = {}
      /\ mediaInbox = <<>> /\ watching = FALSE /\ players = <<>>
      /\ known = [p \in Player |-> Unknown] /\ active_ = NoPlayer /\ position_timer_ = FALSE
  BY DEF MediaInit
<1>2. Stopped \in Truth /\ Unknown \in Knowledge
  BY DEF Stopped, Unknown, Truth, Knowledge, Status, Track, Position
<1>3. /\ <<>> \in Seq(Player) /\ <<>> \in Seq(MediaMessage) /\ IsInjective(<<>>)
      /\ ToSet(<<>>) = {}
  BY DEF IsInjective, ToSet
<1>4. MediaType
  BY <1>1, <1>2, <1>3 DEF MediaType
<1>5. ActiveFollows(players, known, active_, position_timer_)
  BY <1>1, <1>3 DEF ActiveFollows, IsPlaying
<1> QED
  BY <1>1, <1>3, <1>4, <1>5 DEF MediaInv

LEMMA MediaKept == MediaInv /\ [MediaNext]_mediaVars => MediaInv'
<1> SUFFICES ASSUME MediaInv, [MediaNext]_mediaVars PROVE MediaInv'
  OBVIOUS
<1>1. ASSUME NEW p \in Player, PlayerStarts(p) PROVE MediaInv'
  BY <1>1, PlayerStartsInv
<1>2. ASSUME NEW p \in Player, PlayerQuits(p) PROVE MediaInv'
  BY <1>2, PlayerQuitsInv
<1>3. ASSUME NEW p \in Player, PlayerChanges(p) PROVE MediaInv'
  BY <1>3, PlayerChangesInv
<1>4. ASSUME NEW c \in questions, c.player # NoPlayer, PlayerAnswers(c) PROVE MediaInv'
  BY <1>4, PlayerAnswersInv
<1>5. CASE UNCHANGED mediaVars
  <2>1. UNCHANGED <<running, theirs, questions, mediaInbox, watching, players, known, active_,
                    position_timer_>>
    BY <1>5 DEF mediaVars
  <2>2. MediaType'
    BY <2>1, MediaParts DEF MediaType
  <2> QED
    BY <2>1, <2>2, MediaParts DEF MediaInv
<1> QED
  BY <1>1, <1>2, <1>3, <1>4, <1>5, BusAnswersInv, MediaStartsInv, PlayersListedInv,
     OwnerChangesInv, PropertiesChangeInv, RefreshInv, PositionComesInv, NobodyHearsInv,
     PositionTimeoutInv, SeekInv DEF MediaNext

LEMMA MediaIsTrue == MediaInv => MediaFollows
<1> SUFFICES ASSUME MediaInv, watching, questions = {}, mediaInbox = <<>> PROVE MediaFollows
  BY DEF MediaFollows
<1>1. \A S : ~Among(mediaInbox, S) /\ \A m : ~Latest(mediaInbox, S, m)
  BY LatestIsAmong
<1>2. \A p \in Player : p \in running <=> p \in ToSet(players)
  BY <1>1, MediaParts DEF PresenceFollows
<1>3. ToSet(players) = running
  BY <1>2, MediaParts DEF MediaType
<1>4. \A p : ~WillRenew(mediaInbox, questions, p)
  BY <1>1 DEF WillRenew
<1>5. ASSUME NEW p \in running
      PROVE  /\ known[p].status = theirs[p].status /\ known[p].track = theirs[p].track
             /\ known[p].position = Micros(theirs[p].track, theirs[p].position)
  <2>1. Follows(mediaInbox, questions, p, theirs[p], known[p])
    BY <1>3, MediaParts
  <2>2. known[p].status = theirs[p].status /\ known[p].track = theirs[p].track
    BY <1>1, <1>4, <2>1 DEF Follows, StateFollows
  <2>3. known[p].position = Micros(known[p].track, theirs[p].position)
    BY <1>1, <1>4, <2>1 DEF Follows, PositionFollows
  <2> QED
    BY <2>2, <2>3
<1>6. players = <<>> <=> running = {}
  BY <1>3, HeldPlayers, MediaParts DEF MediaType
<1>7. IF players = <<>> THEN active_ = NoPlayer ELSE active_ \in running
  BY <1>3, MediaParts DEF ActiveFollows
<1>8. NoPlayer \notin running
  BY <1>3, MediaParts
<1>9. (active_ = NoPlayer) <=> (running = {})
  BY <1>6, <1>7, <1>8
<1>10. ASSUME NEW p \in running, theirs[p].status = "Playing"
       PROVE  theirs[active_].status = "Playing" /\ position_timer_
  <2>1. IsPlaying(known, p)
    BY <1>5, <1>8, <1>10 DEF IsPlaying
  <2>2. IsPlaying(known, active_) /\ position_timer_
    BY <1>3, <2>1, MediaParts DEF ActiveFollows
  <2>3. active_ \in running /\ known[active_].status = "Playing"
    BY <1>7, <1>6, <2>2 DEF IsPlaying
  <2> QED
    BY <1>5, <2>2, <2>3
<1> QED
  BY <1>3, <1>5, <1>9, <1>10 DEF MediaFollows

LEMMA PlayersAreTrue == Spec => []MediaFollows
<1>1. Init => MediaInv
  BY MediaStarts DEF Init
<1>2. MediaInv /\ [Next]_servicesVars => MediaInv'
  BY MediaKept, PartsApart
<1>3. MediaInv => MediaFollows
  BY MediaIsTrue
<1> QED
  BY <1>1, <1>2, <1>3, PTL DEF Spec

-----------------------------------------------------------------------------
(* What is seen and touched.                                                 *)

(* The input of the user goes where the screen says (lockcontent.cpp,        *)
(* userinputwidget.cpp, virtualkbinstance.cpp, XcbKeyboardBackend.cpp,       *)
(* SessionModel.cpp): the box tells what became of the password, the keys of *)
(* the screen type what is written on them, Caps Lock and the layout shown   *)
(* are the server's, and the session shown is the one logged in to.  The     *)
(* hypotheses: no mishap in the box, no race over the keyboard's state, only *)
(* keymaps the parser reads as they are, and no session files that come and  *)
(* go behind a list already filled.                                          *)
THEOREM InputGoesAsShown ==
  ASSUME Mishaps = {}, Races = {}, Known \subseteq ReadRight, ~MayRenumber
  PROVE  Spec => []InputIsAsShown
<1>1. InputIsAsShown <=> BoxTellsTruth /\ TypedAsShown /\ KeyboardAgrees /\ ThemeLogsInAsShown
  BY DEF InputIsAsShown
<1> QED
  BY <1>1, BoxIsTrue, TypedIsShown, KeyboardIsTrue, LoginIsAsShown, PTL

(* The lock screen's slider shows the sink there is (systemvolume.cpp), and  *)
(* the rest of it tells of the users and of the machine what is so           *)
(* (lock-neo main.cc, userlistmodel.cpp), if the session's own user is       *)
(* listed and shown (Hideouts).                                              *)
THEOREM ControlsTellTruth ==
  ASSUME Hideouts = {}
  PROVE  Spec => []ControlsFollow
<1>1. ControlsFollow <=> VolumeFollows /\ LockTellsTruth
  BY DEF ControlsFollow
<1> QED
  BY <1>1, VolumeIsTrue, LockIsTrue, PTL

(* The media controls of the lock screen (mediacontroller.cpp): whenever no  *)
(* question is open and everything that came has been read, the players held *)
(* are those that run, the one shown is one of them, and one that plays if   *)
(* any does, and its status, track and time are what it says they are, for   *)
(* any number of players and of messages under way.                          *)
THEOREM MediaIsFollowed == Spec => []MediaFollows
BY PlayersAreTrue

=============================================================================
