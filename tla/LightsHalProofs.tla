---------------------------- MODULE LightsHalProofs ----------------------------
(***************************************************************************)
(* Proofs about LightsHal, for any number of threads and any light states. *)
(***************************************************************************)
EXTENDS LightsHal, SequenceTheorems, TLAPS

-----------------------------------------------------------------------------
(* The backlight.                                                          *)

\* lights.c says of the backlight "brightness: 0-255" and "LCD_BACKLIGHT_FILE:
\* 0-127": for every color, whatever its alpha, rgb_to_brightness is a byte and
\* the half that set_light_backlight writes fits the device.
THEOREM BacklightInRange ==
    ASSUME NEW s \in [color : Nat, flash : BOOLEAN, on : Nat, off : Nat]
    PROVE  /\ rgb_to_brightness(s) \in 0..255
           /\ BacklightWrite(s)[1].val \in 0..127
  <1> DEFINE r == Red(s.color)
             g == Green(s.color)
             b == Blue(s.color)
  <1>1. r \in 0..255 /\ g \in 0..255 /\ b \in 0..255
    BY SMTT(30) DEF Red, Green, Blue
  <1>2. rgb_to_brightness(s) = (77 * r + 150 * g + 29 * b) \div 256
    BY SMTT(30) DEF rgb_to_brightness
  <1> HIDE DEF r, g, b
  <1>3. rgb_to_brightness(s) \in 0..255
    BY <1>1, <1>2
  <1>4. rgb_to_brightness(s) \div 2 \in 0..127
    BY <1>3
  <1> QED BY <1>3, <1>4 DEF BacklightWrite

-----------------------------------------------------------------------------
(* The lock.                                                               *)

\* LockGuardsUpdate alone is not inductive: an open could initialise g_lock
\* under the thread that holds it.  No thread comes near the lock before the
\* initialisation is over, for it needs a device that an open returned, and
\* only one thread ever initialises.
LockInv ==
    /\ pc \in [Threads -> {"idle", "once", "init", "lock", "write"}]
    /\ dev \in [Threads -> Lights \cup {"none"}]
    /\ \A t \in Threads : pc[t] = "init" => once = "running"
    /\ \A t, u \in Threads : pc[t] = "init" /\ pc[u] = "init" => t = u
    /\ \A t \in Threads : pc[t] = "idle" /\ dev[t] # "none" => once = "done"
    /\ \A t \in Threads : pc[t] \in {"lock", "write"} => once = "done"
    /\ \A t \in Threads : pc[t] \in {"once", "init", "lock", "write"} => dev[t] # "none"
    /\ LockGuardsUpdate

\* Nothing is open, nobody has the lock.
LEMMA InitLock == Init => LockInv
  BY LightsAssumption DEF Init, LockInv, LockGuardsUpdate

\* Every step of every thread keeps LockInv.
LEMMA NextLock == LockInv /\ [Next]_vars => LockInv'
  <1> SUFFICES ASSUME LockInv, [Next]_vars PROVE LockInv'
    OBVIOUS
  <1> USE LightsAssumption DEF LockInv, LockGuardsUpdate, Lights
  <1>1. ASSUME NEW t \in Threads, Open(t) PROVE LockInv'
    BY <1>1 DEF Open
  <1>2. ASSUME NEW t \in Threads, Close(t) PROVE LockInv'
    BY <1>2 DEF Close
  <1>3. ASSUME NEW t \in Threads, SetLight(t) PROVE LockInv'
    BY <1>3 DEF SetLight
  <1>4. ASSUME NEW t \in Threads, OnceBegin(t) PROVE LockInv'
    BY <1>4 DEF OnceBegin
  <1>5. ASSUME NEW t \in Threads, OnceDone(t) PROVE LockInv'
    BY <1>5 DEF OnceDone
  <1>6. ASSUME NEW t \in Threads, InitGlobals(t) PROVE LockInv'
    BY <1>6 DEF InitGlobals
  <1>7. ASSUME NEW t \in Threads, Lock(t) PROVE LockInv'
    BY <1>7 DEF Lock
  <1>8. ASSUME NEW t \in Threads, Write(t) PROVE LockInv'
    BY <1>8 DEF Write
  <1>9. ASSUME NEW t \in Threads, WriteFails(t) PROVE LockInv'
    BY <1>9 DEF WriteFails
  <1>10. ASSUME NEW t \in Threads, Unlock(t) PROVE LockInv'
    BY <1>10 DEF Unlock
  <1>11. CASE UNCHANGED vars
    BY <1>11 DEF vars
  <1> QED
    BY <1>1, <1>2, <1>3, <1>4, <1>5, <1>6, <1>7, <1>8, <1>9, <1>10, <1>11
    DEF Next, Proceed

\* For any number of threads that open, set and close lights in any order, an
\* update of the board is made under g_lock by the thread that began it:
\* pthread_once in open_lights never initialises a lock that is held.
THEOREM UpdatesExclusive == Spec => []LockGuardsUpdate
  <1>1. LockInv => LockGuardsUpdate
    BY DEF LockInv
  <1> QED BY <1>1, InitLock, NextLock, PTL DEF Spec

-----------------------------------------------------------------------------
(* The writes of an update.                                                *)

LightState == [color : Nat, flash : BOOLEAN, on : Nat, off : Nat]
LedNames == {"red", "green", "blue"}
Pos(l) == IF l = "red" THEN 1 ELSE IF l = "green" THEN 2 ELSE 3
Item == [led : LedNames, file : {"trigger", "delay_on", "delay_off", "brightness"},
         val : Nat \cup {"timer", "none"}]

\* How many writes set_shared_light_locked makes, and what the i-th is.
Total(s) == IF s.flash THEN 12 ELSE 6
Trigger(s) == IF s.flash THEN "timer" ELSE "none"
Planned(w, s, i) ==
    \E l \in LedNames :
        /\ w.led = l
        /\ \/ i = Pos(l) /\ w.file = "trigger" /\ w.val = Trigger(s)
           \/ s.flash /\ i = 3 + Pos(l) /\ w.file = "delay_on" /\ w.val = s.on
           \/ s.flash /\ i = 6 + Pos(l) /\ w.file = "delay_off" /\ w.val = s.off
           \/ i = Total(s) - 3 + Pos(l) /\ w.file = "brightness" /\ w.val = Component(s.color, l)

\* The three LEDs in their order.
LEMMA LedFacts ==
    /\ ToSet(Leds) = LedNames /\ DOMAIN Leds = 1..3
    /\ Leds[1] = "red" /\ Leds[2] = "green" /\ Leds[3] = "blue"
  <1>1. DOMAIN Leds = 1..3 /\ Leds[1] = "red" /\ Leds[2] = "green" /\ Leds[3] = "blue"
    BY DEF Leds
  <1>2. ToSet(Leds) = LedNames
    <2>1. ToSet(Leds) = {Leds[i] : i \in 1..3}
      BY <1>1 DEF ToSet
    <2>2. \A i \in 1..3 : i = 1 \/ i = 2 \/ i = 3
      OBVIOUS
    <2>3. \A x : x \in ToSet(Leds) <=> x \in LedNames
      BY <1>1, <2>1, <2>2 DEF LedNames
    <2> QED BY <2>3
  <1> QED BY <1>1, <1>2

\* A color component is a byte.
LEMMA ComponentByte ==
    ASSUME NEW s \in LightState, NEW l \in LedNames
    PROVE  Component(s.color, l) \in 0..255
  <1>1. Red(s.color) \in 0..255 /\ Green(s.color) \in 0..255 /\ Blue(s.color) \in 0..255
    BY DEF Red, Green, Blue, LightState
  <1> QED BY <1>1 DEF Component, LedNames

\* One file of the three LEDs.
LEMMA ForLedsFacts ==
    ASSUME NEW file \in {"trigger", "delay_on", "delay_off", "brightness"},
           NEW val, \A l \in LedNames : val[l] \in Nat \cup {"timer", "none"}
    PROVE  LET q == ForLeds(file, val)
           IN  /\ q \in Seq(Item) /\ Len(q) = 3
               /\ \A i \in 1..3 : \E l \in LedNames :
                    i = Pos(l) /\ q[i].led = l /\ q[i].file = file /\ q[i].val = val[l]
  <1> DEFINE q == ForLeds(file, val)
  <1>1. q = [i \in 1..3 |-> [led |-> Leds[i], file |-> file, val |-> val[Leds[i]]]]
    BY LedFacts DEF ForLeds
  <1>2. \A i \in 1..3 : Leds[i] \in LedNames /\ i = Pos(Leds[i])
    <2>1. \A i \in 1..3 : i = 1 \/ i = 2 \/ i = 3
      OBVIOUS
    <2> QED BY <2>1, LedFacts DEF LedNames, Pos
  <1>3. \A i \in 1..3 : q[i] = [led |-> Leds[i], file |-> file, val |-> val[Leds[i]]]
    BY <1>1
  <1>4. \A i \in 1..3 : q[i] \in Item
    BY <1>2, <1>3 DEF Item
  <1>5. q \in Seq(Item)
    <2>1. q \in [1..3 -> Item]
      BY <1>1, <1>4
    <2>2. PICK n \in Nat : n = 3
      OBVIOUS
    <2>3. q \in [1..n -> Item]
      BY <2>1, <2>2
    <2> HIDE DEF q
    <2> QED BY <2>3, SeqDef
  <1>6. Len(q) = 3
    <2>1. DOMAIN q = 1..3
      BY <1>1
    <2>2. Len(q) \in Nat /\ DOMAIN q = 1..Len(q)
      BY <1>5, LenProperties
    <2> QED BY <2>1, <2>2
  <1>7. ASSUME NEW i \in 1..3
        PROVE  \E l \in LedNames : i = Pos(l) /\ q[i].led = l /\ q[i].file = file /\ q[i].val = val[l]
    <2>1. Leds[i] \in LedNames /\ i = Pos(Leds[i])
      BY <1>2
    <2>2. q[i].led = Leds[i] /\ q[i].file = file /\ q[i].val = val[Leds[i]]
      BY <1>3
    <2> QED BY <2>1, <2>2
  <1> QED BY <1>5, <1>6, <1>7

\* Three more writes behind others.
LEMMA ThreeMore ==
    ASSUME NEW x \in Seq(Item), NEW y \in Seq(Item), Len(y) = 3
    PROVE  /\ x \o y \in Seq(Item) /\ Len(x \o y) = Len(x) + 3
           /\ \A i \in 1..Len(x) : (x \o y)[i] = x[i]
           /\ \A i \in 1..3 : (x \o y)[Len(x) + i] = y[i]
  <1> DEFINE z == x \o y
  <1>0. Len(x) \in Nat
    BY LenProperties
  <1>1. /\ z \in Seq(Item) /\ Len(z) = Len(x) + Len(y)
        /\ \A i \in 1..(Len(x) + Len(y)) : z[i] = IF i <= Len(x) THEN x[i] ELSE y[i - Len(x)]
    BY ConcatProperties
  <1> HIDE DEF z
  <1>2. Len(z) = Len(x) + 3
    BY <1>0, <1>1
  <1>3. ASSUME NEW i \in 1..Len(x) PROVE z[i] = x[i]
    BY <1>0, <1>1
  <1>4. ASSUME NEW i \in 1..3 PROVE z[Len(x) + i] = y[i]
    <2>1. Len(x) + i \in 1..(Len(x) + Len(y)) /\ ~(Len(x) + i <= Len(x)) /\ (Len(x) + i) - Len(x) = i
      BY <1>0
    <2> QED BY <1>1, <2>1
  <1> QED BY <1>1, <1>2, <1>3, <1>4 DEF z

\* The update for a state is the plan for it.
LEMMA PlanFacts ==
    ASSUME NEW s \in LightState
    PROVE  LET q == set_shared_light_locked(s)
           IN  /\ q \in Seq(Item) /\ Len(q) = Total(s)
               /\ \A i \in 1..Total(s) : Planned(q[i], s, i)
  <1> DEFINE q == set_shared_light_locked(s)
             a == ForLeds("trigger", All(Trigger(s)))
             b == ForLeds("delay_on", All(s.on))
             c == ForLeds("delay_off", All(s.off))
             d == ForLeds("brightness", Components(s.color))
  <1>0. s.on \in Nat /\ s.off \in Nat /\ s.flash \in BOOLEAN /\ Trigger(s) \in {"timer", "none"}
    BY DEF LightState, Trigger
  <1>1. /\ \A l \in LedNames : All(Trigger(s))[l] = Trigger(s)
        /\ \A l \in LedNames : All(s.on)[l] = s.on
        /\ \A l \in LedNames : All(s.off)[l] = s.off
        /\ \A l \in LedNames : Components(s.color)[l] = Component(s.color, l)
                               /\ Component(s.color, l) \in Nat
    BY LedFacts, ComponentByte DEF All, Components
  <1>a. /\ a \in Seq(Item) /\ Len(a) = 3
        /\ \A i \in 1..3 : \E l \in LedNames :
              i = Pos(l) /\ a[i].led = l /\ a[i].file = "trigger" /\ a[i].val = Trigger(s)
    BY <1>0, <1>1, ForLedsFacts
  <1>b. /\ b \in Seq(Item) /\ Len(b) = 3
        /\ \A i \in 1..3 : \E l \in LedNames :
              i = Pos(l) /\ b[i].led = l /\ b[i].file = "delay_on" /\ b[i].val = s.on
    <2>1. \A l \in LedNames : All(s.on)[l] = s.on /\ All(s.on)[l] \in Nat \cup {"timer", "none"}
      BY <1>0, <1>1
    <2>2. /\ b \in Seq(Item) /\ Len(b) = 3
          /\ \A i \in 1..3 : \E l \in LedNames :
                i = Pos(l) /\ b[i].led = l /\ b[i].file = "delay_on" /\ b[i].val = All(s.on)[l]
      BY <2>1, ForLedsFacts
    <2> HIDE DEF b
    <2> QED BY <2>1, <2>2
  <1>c. /\ c \in Seq(Item) /\ Len(c) = 3
        /\ \A i \in 1..3 : \E l \in LedNames :
              i = Pos(l) /\ c[i].led = l /\ c[i].file = "delay_off" /\ c[i].val = s.off
    <2>1. \A l \in LedNames : All(s.off)[l] = s.off /\ All(s.off)[l] \in Nat \cup {"timer", "none"}
      BY <1>0, <1>1
    <2>2. /\ c \in Seq(Item) /\ Len(c) = 3
          /\ \A i \in 1..3 : \E l \in LedNames :
                i = Pos(l) /\ c[i].led = l /\ c[i].file = "delay_off" /\ c[i].val = All(s.off)[l]
      BY <2>1, ForLedsFacts
    <2> HIDE DEF c
    <2> QED BY <2>1, <2>2
  <1>d. /\ d \in Seq(Item) /\ Len(d) = 3
        /\ \A i \in 1..3 : \E l \in LedNames :
              i = Pos(l) /\ d[i].led = l /\ d[i].file = "brightness" /\ d[i].val = Component(s.color, l)
    BY <1>1, ForLedsFacts
  <1>2. q = IF s.flash THEN ((a \o b) \o c) \o d ELSE a \o d
    BY DEF set_shared_light_locked, Trigger
  <1> HIDE DEF a, b, c, d, q
  <1>t. ASSUME NEW i \in 1..3 PROVE Planned(a[i], s, i)
    BY <1>a DEF Planned
  <1>3. CASE ~s.flash
    <2>0. Total(s) = 6
      BY <1>3 DEF Total
    <2>1. /\ q \in Seq(Item) /\ Len(q) = 6
          /\ \A i \in 1..3 : q[i] = a[i]
          /\ \A i \in 1..3 : q[3 + i] = d[i]
      <3>1. q = a \o d
        BY <1>2, <1>3
      <3>2. a \in Seq(Item) /\ d \in Seq(Item) /\ Len(a) = 3 /\ Len(d) = 3
        BY <1>a, <1>d
      <3>3. /\ a \o d \in Seq(Item) /\ Len(a \o d) = Len(a) + 3
            /\ \A i \in 1..Len(a) : (a \o d)[i] = a[i]
            /\ \A i \in 1..3 : (a \o d)[Len(a) + i] = d[i]
        BY <3>2, ThreeMore
      <3> QED BY <3>1, <3>2, <3>3
    <2>2. ASSUME NEW i \in 1..3 PROVE Planned(q[3 + i], s, 3 + i)
      <3>1. PICK l \in LedNames : i = Pos(l) /\ d[i].led = l /\ d[i].file = "brightness"
                                  /\ d[i].val = Component(s.color, l)
        BY <1>d
      <3>2. 3 + i = Total(s) - 3 + Pos(l)
        BY <2>0, <3>1
      <3> QED BY <2>1, <3>1, <3>2 DEF Planned
    <2>3. ASSUME NEW i \in 1..6 PROVE Planned(q[i], s, i)
      <3>1. i \in 1..3 \/ \E j \in 1..3 : i = 3 + j
        <4>1. i \in 1..3 \/ (i - 3 \in 1..3 /\ i = 3 + (i - 3))
          OBVIOUS
        <4> QED BY <4>1
      <3> QED BY <1>t, <2>1, <2>2, <3>1
    <2> QED BY <2>0, <2>1, <2>3 DEF q
  <1>4. CASE s.flash
    <2> DEFINE x == a \o b
               y == x \o c
    <2>0. Total(s) = 12
      BY <1>4 DEF Total
    <2>1. /\ x \in Seq(Item) /\ Len(x) = 3 + 3
          /\ \A i \in 1..3 : x[i] = a[i]
          /\ \A i \in 1..3 : x[3 + i] = b[i]
      <3>1. a \in Seq(Item) /\ b \in Seq(Item) /\ Len(a) = 3 /\ Len(b) = 3
        BY <1>a, <1>b
      <3>2. /\ a \o b \in Seq(Item) /\ Len(a \o b) = Len(a) + 3
            /\ \A i \in 1..Len(a) : (a \o b)[i] = a[i]
            /\ \A i \in 1..3 : (a \o b)[Len(a) + i] = b[i]
        BY <3>1, ThreeMore
      <3> QED BY <3>1, <3>2
    <2> HIDE DEF x
    <2>2. /\ y \in Seq(Item) /\ Len(y) = 6 + 3
          /\ \A i \in 1..6 : y[i] = x[i]
          /\ \A i \in 1..3 : y[6 + i] = c[i]
      <3>1. Len(x) = 6 /\ x \in Seq(Item) /\ c \in Seq(Item) /\ Len(c) = 3
        BY <1>c, <2>1
      <3>2. /\ x \o c \in Seq(Item) /\ Len(x \o c) = Len(x) + 3
            /\ \A i \in 1..Len(x) : (x \o c)[i] = x[i]
            /\ \A i \in 1..3 : (x \o c)[Len(x) + i] = c[i]
        BY <3>1, ThreeMore
      <3> QED BY <3>1, <3>2
    <2> HIDE DEF y
    <2>3. q = y \o d
      BY <1>2, <1>4 DEF x, y
    <2>4. /\ q \in Seq(Item) /\ Len(q) = 9 + 3
          /\ \A i \in 1..9 : q[i] = y[i]
          /\ \A i \in 1..3 : q[9 + i] = d[i]
      <3>1. Len(y) = 9 /\ y \in Seq(Item) /\ d \in Seq(Item) /\ Len(d) = 3
        BY <1>d, <2>2
      <3>2. /\ y \o d \in Seq(Item) /\ Len(y \o d) = Len(y) + 3
            /\ \A i \in 1..Len(y) : (y \o d)[i] = y[i]
            /\ \A i \in 1..3 : (y \o d)[Len(y) + i] = d[i]
        BY <3>1, ThreeMore
      <3> QED BY <2>3, <3>1, <3>2
    <2>5. ASSUME NEW i \in 1..3
          PROVE  /\ Planned(q[i], s, i) /\ Planned(q[3 + i], s, 3 + i)
                 /\ Planned(q[6 + i], s, 6 + i) /\ Planned(q[9 + i], s, 9 + i)
      <3>0. i \in 1..6 /\ i \in 1..9 /\ 3 + i \in 1..6 /\ 3 + i \in 1..9 /\ 6 + i \in 1..9
        OBVIOUS
      <3>1. q[i] = a[i] /\ q[3 + i] = b[i] /\ q[6 + i] = c[i] /\ q[9 + i] = d[i]
        BY <2>1, <2>2, <2>4, <3>0
      <3>2. Planned(b[i], s, 3 + i)
        BY <1>4, <1>b DEF Planned
      <3>3. Planned(c[i], s, 6 + i)
        BY <1>4, <1>c DEF Planned
      <3>4. Planned(d[i], s, 9 + i)
        <4>1. PICK l \in LedNames : i = Pos(l) /\ d[i].led = l /\ d[i].file = "brightness"
                                    /\ d[i].val = Component(s.color, l)
          BY <1>d
        <4>2. 9 + i = Total(s) - 3 + Pos(l)
          BY <2>0, <4>1
        <4> QED BY <4>1, <4>2 DEF Planned
      <3> QED BY <1>t, <3>1, <3>2, <3>3, <3>4
    <2>6. ASSUME NEW i \in 1..12 PROVE Planned(q[i], s, i)
      <3>1. \/ i \in 1..3
            \/ i - 3 \in 1..3 /\ i = 3 + (i - 3)
            \/ i - 6 \in 1..3 /\ i = 6 + (i - 6)
            \/ i - 9 \in 1..3 /\ i = 9 + (i - 9)
        OBVIOUS
      <3>2. CASE i \in 1..3
        BY <2>5, <3>2
      <3>3. CASE i - 3 \in 1..3 /\ i = 3 + (i - 3)
        BY <2>5, <3>3
      <3>4. CASE i - 6 \in 1..3 /\ i = 6 + (i - 6)
        BY <2>5, <3>4
      <3>5. CASE i - 9 \in 1..3 /\ i = 9 + (i - 9)
        BY <2>5, <3>5
      <3> QED BY <3>1, <3>2, <3>3, <3>4, <3>5
    <2>7. Len(q) = 12
      BY <2>4
    <2> QED BY <2>0, <2>4, <2>6, <2>7 DEF q
  <1> QED BY <1>3, <1>4

-----------------------------------------------------------------------------
(* What the LEDs show.                                                     *)

\* What a LED that missed no write holds after k writes of the update for s:
\* the trigger, the delays once they are written, and from its brightness on
\* the light itself.
Stage(led, s, l, k) ==
    /\ Pos(l) <= k /\ k < Total(s) - 3 + Pos(l) => led.trigger = Trigger(s)
    /\ s.flash /\ 3 + Pos(l) <= k /\ k < 9 + Pos(l) => led.delay_on = s.on
    /\ s.flash /\ 6 + Pos(l) <= k /\ k < 9 + Pos(l) => led.delay_off = s.off
    /\ Total(s) - 3 + Pos(l) <= k => Shown(led) = Light(s, l)

\* Before the first write nothing is known, after the last the light is shown.
LEMMA StageEnds ==
    ASSUME NEW led, NEW s \in LightState, NEW l \in LedNames
    PROVE  /\ Stage(led, s, l, 0)
           /\ Stage(led, s, l, Total(s)) => Shown(led) = Light(s, l)
  <1>1. Pos(l) \in 1..3 /\ Total(s) \in {6, 12}
    BY DEF Pos, Total
  <1> QED BY <1>1 DEF Stage

\* One write: the LED it is for has its next file, the others are as before.
LEMMA StageStep ==
    ASSUME NEW led \in LedState, NEW s \in LightState, NEW l \in LedNames,
           NEW k \in Nat, NEW w, Planned(w, s, k + 1), Stage(led, s, l, k)
    PROVE  Stage(IF w.led = l THEN Stored(led, w.file, w.val) ELSE led, s, l, k + 1)
  <1> DEFINE T == Total(s)
  <1>0. /\ \A m \in LedNames : Pos(m) \in 1..3
        /\ \A m \in LedNames : Pos(m) = Pos(l) => m = l
        /\ (s.flash /\ T = 12) \/ (~s.flash /\ T = 6)
        /\ s.on \in Nat /\ s.off \in Nat
    BY DEF Pos, Total, LedNames, LightState
  <1> HIDE DEF T
  <1>1. PICK m \in LedNames :
        /\ w.led = m
        /\ \/ k + 1 = Pos(m) /\ w.file = "trigger" /\ w.val = Trigger(s)
           \/ s.flash /\ k + 1 = 3 + Pos(m) /\ w.file = "delay_on" /\ w.val = s.on
           \/ s.flash /\ k + 1 = 6 + Pos(m) /\ w.file = "delay_off" /\ w.val = s.off
           \/ k + 1 = T - 3 + Pos(m) /\ w.file = "brightness" /\ w.val = Component(s.color, m)
    BY DEF Planned, T
  <1>2. /\ Pos(l) <= k /\ k < T - 3 + Pos(l) => led.trigger = Trigger(s)
        /\ s.flash /\ 3 + Pos(l) <= k /\ k < 9 + Pos(l) => led.delay_on = s.on
        /\ s.flash /\ 6 + Pos(l) <= k /\ k < 9 + Pos(l) => led.delay_off = s.off
        /\ T - 3 + Pos(l) <= k => Shown(led) = Light(s, l)
    BY DEF Stage, T
  <1>3. CASE m # l
    <2>1. Pos(m) # Pos(l) /\ Pos(m) \in 1..3 /\ Pos(l) \in 1..3
      BY <1>0, <1>3
    <2>2. k + 1 # Pos(l) /\ (s.flash => k + 1 # 3 + Pos(l) /\ k + 1 # 6 + Pos(l)) /\ k + 1 # T - 3 + Pos(l)
      BY <1>0, <1>1, <2>1
    <2>3. Stage(led, s, l, k + 1)
      BY <1>0, <1>2, <2>1, <2>2 DEF Stage, T
    <2> QED BY <1>1, <1>3, <2>3
  <1>4. CASE m = l
    <2> DEFINE new == Stored(led, w.file, w.val)
    <2> SUFFICES Stage(new, s, l, k + 1)
      BY <1>1, <1>4
    <2>1. CASE k + 1 = Pos(l) /\ w.file = "trigger" /\ w.val = Trigger(s)
      <3>1. new.trigger = Trigger(s)
        BY <2>1 DEF Stored, LedState
      <3> HIDE DEF new
      <3> QED BY <1>0, <2>1, <3>1 DEF Stage, T
    <2>2. CASE s.flash /\ k + 1 = 3 + Pos(l) /\ w.file = "delay_on" /\ w.val = s.on
      <3>1. new.trigger = led.trigger /\ new.delay_on = s.on
        BY <2>2 DEF Stored, LedState
      <3>2. led.trigger = Trigger(s)
        BY <1>0, <1>2, <2>2
      <3> HIDE DEF new
      <3> QED BY <1>0, <2>2, <3>1, <3>2 DEF Stage, T
    <2>3. CASE s.flash /\ k + 1 = 6 + Pos(l) /\ w.file = "delay_off" /\ w.val = s.off
      <3>1. new.trigger = led.trigger /\ new.delay_on = led.delay_on /\ new.delay_off = s.off
        BY <2>3 DEF Stored, LedState
      <3>2. led.trigger = Trigger(s) /\ led.delay_on = s.on
        BY <1>0, <1>2, <2>3
      <3> HIDE DEF new
      <3> QED BY <1>0, <2>3, <3>1, <3>2 DEF Stage, T
    <2>4. CASE k + 1 = T - 3 + Pos(l) /\ w.file = "brightness" /\ w.val = Component(s.color, l)
      <3> DEFINE c == Component(s.color, l)
      <3>1. led.trigger = Trigger(s)
        BY <1>0, <1>2, <2>4
      <3>2. s.flash => led.delay_on = s.on /\ led.delay_off = s.off
        BY <1>0, <1>2, <2>4
      <3>3. c \in Nat
        BY ComponentByte
      <3>4. /\ new.brightness = c /\ new.delay_on = led.delay_on /\ new.delay_off = led.delay_off
            /\ new.trigger = IF c = 0 THEN "none" ELSE led.trigger
        BY <2>4 DEF Stored, LedState
      <3> HIDE DEF c, new
      <3>5. Shown(new) = IF c = 0 THEN [mode |-> "off"]
                         ELSE IF s.flash
                         THEN [mode |-> "blink", level |-> c, on |-> s.on, off |-> s.off]
                         ELSE [mode |-> "steady", level |-> c]
        BY <1>0, <3>1, <3>2, <3>4 DEF Shown, Trigger
      <3>6. Shown(new) = Light(s, l)
        BY <3>5 DEF Light, c
      <3> QED BY <1>0, <2>4, <3>6 DEF Stage, T
    <2> QED BY <1>1, <1>4, <2>1, <2>2, <2>3, <2>4
  <1> QED BY <1>3, <1>4

-----------------------------------------------------------------------------
(* The board, through every step.                                          *)

LcdItem == [led : {"lcd"}, file : {"backlight"}, val : 0..127]
AnyItem == Item \cup LcdItem

\* The types of the state, with the pending writes of a thread as a sequence:
\* only a thread in an update has any.
HalTypes ==
    /\ once \in {"no", "running", "done"}
    /\ lock \in Threads \cup {NoThread}
    /\ arg \in [Threads -> States \cup {Off}]
    /\ writes \in [Threads -> Seq(AnyItem)]
    /\ \A t \in Threads : pc[t] # "write" => writes[t] = <<>>
    /\ calls \in [Threads -> 0..MaxCalls]
    /\ g_battery \in States \cup {Off}
    /\ g_notification \in States \cup {Off}
    /\ leds \in [LedNames -> LedState]
    /\ backlight \in 0..127
    /\ failures \in 0..MaxFailures
    /\ missed \subseteq LedNames

\* The state the shared LED is to show.
Target == IF is_lit(g_notification) THEN g_notification ELSE g_battery

AllShown == \A l \in LedNames \ missed : Shown(leds[l]) = Light(Target, l)

\* In the middle of an update, after k writes: what is left of a thread's
\* writes is the rest of the plan for the present target, and the LEDs are at
\* that stage.  A backlight update leaves the LEDs alone.
UpdateOf(q, k) ==
    /\ k + Len(q) = Total(Target)
    /\ \A i \in 1..Len(q) : Planned(q[i], Target, k + i)
    /\ \A l \in LedNames \ missed : Stage(leds[l], Target, l, k)
LcdOf(q) == AllShown /\ \A i \in 1..Len(q) : q[i] \in LcdItem
Updating(t) ==
    IF dev[t] = "backlight" THEN LcdOf(writes[t])
    ELSE \E k \in Nat : UpdateOf(writes[t], k)

\* SharedLightShown speaks of the moments without an update; through an update
\* the plan and the stage carry it.
ShowInv ==
    /\ LockInv
    /\ HalTypes
    /\ lock = NoThread => AllShown
    /\ \A t \in Threads : pc[t] = "write" => Updating(t)

\* The states the framework passes, and the one at the start, are light states.
LEMMA StateFacts == \A s \in States \cup {Off} : s \in LightState
  <1>1. Off \in LightState
    BY DEF Off, LightState
  <1>2. States \subseteq LightState
    BY LightsAssumption DEF LightState
  <1> QED BY <1>1, <1>2

\* A write of the plan goes to a LED's file, with a value that file takes.
LEMMA PlannedTypes ==
    ASSUME NEW s \in LightState, NEW i, NEW w, Planned(w, s, i)
    PROVE  /\ w.led \in LedNames
           /\ w.file \in {"trigger", "delay_on", "delay_off", "brightness"}
           /\ WriteOK(w)
           /\ \A led \in LedState : Stored(led, w.file, w.val) \in LedState
  <1>0. s.on \in Nat /\ s.off \in Nat /\ Trigger(s) \in {"none", "timer"} /\ 500 \in Nat
    BY DEF LightState, Trigger
  <1>1. PICK l \in LedNames :
        /\ w.led = l
        /\ \/ w.file = "trigger" /\ w.val = Trigger(s)
           \/ w.file = "delay_on" /\ w.val = s.on
           \/ w.file = "delay_off" /\ w.val = s.off
           \/ w.file = "brightness" /\ w.val = Component(s.color, l)
    BY DEF Planned
  <1>2. Component(s.color, l) \in 0..255
    BY ComponentByte
  <1>3. w.led \in ToSet(Leds)
    BY <1>1, LedFacts
  <1>4. ASSUME NEW led \in LedState PROVE Stored(led, w.file, w.val) \in LedState
    <2>1. CASE w.file = "trigger" /\ w.val = Trigger(s)
      <3>1. w.val = "none" \/ w.val = "timer"
        BY <1>0, <2>1
      <3> DEFINE x == [led EXCEPT !.trigger = w.val]
                 y == [x EXCEPT !.delay_on = 500]
                 z == [y EXCEPT !.delay_off = 500]
      <3>2. Stored(led, w.file, w.val) = z
        BY <2>1 DEF Stored, DefaultDelay
      <3>3. x \in LedState
        BY <3>1 DEF LedState
      <3> HIDE DEF x
      <3>4. y \in LedState
        BY <1>0, <3>3 DEF LedState
      <3> HIDE DEF y
      <3>5. z \in LedState
        BY <1>0, <3>4 DEF LedState
      <3> QED BY <3>2, <3>5
    <2>2. CASE w.file = "delay_on" /\ w.val = s.on
      BY <1>0, <2>2 DEF Stored, LedState
    <2>3. CASE w.file = "delay_off" /\ w.val = s.off
      BY <1>0, <2>3 DEF Stored, LedState
    <2>4. CASE w.file = "brightness" /\ w.val = Component(s.color, l)
      <3>1. w.val \in 0..255 /\ 0 \in 0..255
        BY <1>2, <2>4
      <3> QED BY <2>4, <3>1 DEF Stored, LedState
    <2> QED BY <1>1, <2>1, <2>2, <2>3, <2>4
  <1>5. WriteOK(w)
    <2>1. CASE w.file = "trigger" /\ w.val = Trigger(s)
      BY <1>0, <1>3, <2>1 DEF WriteOK
    <2>2. CASE w.file = "delay_on" /\ w.val = s.on
      BY <1>0, <1>3, <2>2 DEF WriteOK
    <2>3. CASE w.file = "delay_off" /\ w.val = s.off
      BY <1>0, <1>3, <2>3 DEF WriteOK
    <2>4. CASE w.file = "brightness" /\ w.val = Component(s.color, l)
      BY <1>2, <1>3, <2>4 DEF WriteOK
    <2> QED BY <1>1, <2>1, <2>2, <2>3, <2>4
  <1> QED BY <1>1, <1>4, <1>5

\* The target is a light state.
LEMMA TargetFacts == HalTypes => Target \in LightState
  BY StateFacts DEF HalTypes, Target

\* Dark LEDs show the battery's and the notification's first state.
LEMMA InitShow == Init => ShowInv
  <1> SUFFICES ASSUME Init PROVE ShowInv
    OBVIOUS
  <1>1. LockInv
    BY InitLock
  <1>2. HalTypes
    <2>1. leds \in [LedNames -> LedState]
      <3>1. leds = [l \in LedNames |-> Dark]
        BY LedFacts DEF Init
      <3>2. Dark \in LedState
        BY DEF Dark, LedState, DefaultDelay
      <3> QED BY <3>1, <3>2
    <2>2. <<>> \in Seq(AnyItem)
      BY EmptySeq
    <2> QED BY <2>1, <2>2, LightsAssumption DEF Init, HalTypes
  <1>3. AllShown
    <2>1. Target = Off
      BY DEF Init, Target
    <2>2. \A l \in LedNames : leds[l] = Dark
      BY LedFacts DEF Init
    <2>3. Shown(Dark) = [mode |-> "off"]
      BY DEF Shown, Dark
    <2>4. \A l \in LedNames : Component(Off.color, l) = 0
      BY DEF Component, Off, Red, Green, Blue, LedNames
    <2>5. \A l \in LedNames : Light(Off, l) = [mode |-> "off"]
      BY <2>4 DEF Light
    <2> QED BY <2>1, <2>2, <2>3, <2>5 DEF AllShown
  <1>4. \A t \in Threads : pc[t] # "write"
    BY DEF Init
  <1> QED BY <1>1, <1>2, <1>3, <1>4 DEF ShowInv

\* A step that leaves the LEDs, the pending writes and the two states alone.
LEMMA QuietShow ==
    ASSUME ShowInv, LockInv', HalTypes',
           UNCHANGED <<leds, missed, writes, g_battery, g_notification>>,
           lock' = NoThread => lock = NoThread,
           \A t \in Threads : pc'[t] = "write" => pc[t] = "write" /\ dev'[t] = dev[t]
    PROVE  ShowInv'
  <1>1. Target' = Target
    BY DEF Target
  <1>2. AllShown' <=> AllShown
    BY <1>1 DEF AllShown
  <1>3. ASSUME NEW t \in Threads, pc'[t] = "write" PROVE Updating(t)'
    <2>1. Updating(t) /\ dev'[t] = dev[t] /\ writes'[t] = writes[t]
      BY <1>3 DEF ShowInv
    <2> QED BY <1>1, <1>2, <2>1 DEF Updating, LcdOf, UpdateOf
  <1> QED BY <1>2, <1>3 DEF ShowInv

\* With the lock taken, the plan for the new target is laid out whole.
LEMMA LockShow ==
    ASSUME ShowInv, LockInv', NEW t \in Threads, Lock(t)
    PROVE  ShowInv'
  <1> DEFINE q == writes'[t]
  <1>0. LockInv /\ HalTypes /\ AllShown /\ t # NoThread
    BY LightsAssumption DEF ShowInv, Lock
  <1>1. arg[t] \in States \cup {Off} /\ arg[t] \in LightState
    BY <1>0, StateFacts DEF HalTypes
  <1>2. g_battery' \in States \cup {Off} /\ g_notification' \in States \cup {Off}
    BY <1>0, <1>1 DEF Lock, HalTypes
  <1>3. Target' \in LightState
    BY <1>2, StateFacts DEF Target
  <1>4. \A u \in Threads : pc'[u] = "write" => u = t
    <2>1. \A u \in Threads : pc[u] # "write"
      BY <1>0, LightsAssumption DEF LockInv, LockGuardsUpdate, Lock
    <2> QED BY <1>0, <2>1 DEF Lock, LockInv
  <1>5. q = IF dev[t] = "backlight" THEN BacklightWrite(arg[t])
            ELSE set_shared_light_locked(Target')
    BY <1>0 DEF Lock, HalTypes, handle_shared_battery_locked, Target
  <1>6. \A u \in Threads : u # t => writes'[u] = writes[u]
    BY <1>0 DEF Lock, HalTypes
  <1>7. CASE dev[t] = "backlight"
    <2> DEFINE v == rgb_to_brightness(arg[t]) \div 2
               w == [led |-> "lcd", file |-> "backlight", val |-> v]
    <2>1. q = <<w>>
      BY <1>5, <1>7 DEF BacklightWrite
    <2>2. v \in 0..127
      BY <1>1, BacklightInRange DEF LightState, BacklightWrite
    <2> HIDE DEF v
    <2>3. w \in LcdItem
      BY <2>2 DEF LcdItem
    <2>4. Len(<<w>>) = 1 /\ <<w>>[1] = w
      OBVIOUS
    <2> HIDE DEF w
    <2>5. q \in Seq(AnyItem)
      BY <2>1, <2>3 DEF AnyItem
    <2>6. HalTypes'
      <3>1. writes' \in [Threads -> Seq(AnyItem)]
        BY <1>0, <1>6, <2>5 DEF HalTypes, Lock
      <3> QED BY <1>0, <1>2, <1>4, <1>6, <1>7, <3>1 DEF HalTypes, LockInv, Lock
    <2>7. Target' = Target
      BY <1>7 DEF Target, Lock
    <2>8. AllShown'
      BY <1>0, <1>7, <2>7 DEF AllShown, Lock
    <2>9. Updating(t)'
      <3>1. \A i \in 1..Len(q) : q[i] \in LcdItem
        BY <2>1, <2>3, <2>4
      <3> QED BY <1>7, <2>8, <3>1 DEF Updating, LcdOf, Lock
    <2> QED BY <1>0, <1>4, <2>6, <2>8, <2>9 DEF ShowInv, Lock
  <1>8. CASE dev[t] # "backlight"
    <2>1. q = set_shared_light_locked(Target')
      BY <1>5, <1>8
    <2>2. /\ q \in Seq(Item) /\ Len(q) = Total(Target')
          /\ \A i \in 1..Total(Target') : Planned(q[i], Target', i)
      BY <1>3, <2>1, PlanFacts
    <2> HIDE DEF q
    <2>3. q \in Seq(AnyItem)
      BY <2>2 DEF AnyItem
    <2>4. HalTypes'
      <3>1. writes' \in [Threads -> Seq(AnyItem)]
        BY <1>0, <1>6, <2>3 DEF HalTypes, Lock, q
      <3>2. missed' \subseteq LedNames
        BY <1>8 DEF Lock
      <3> QED BY <1>0, <1>2, <1>4, <1>6, <3>1, <3>2 DEF HalTypes, LockInv, Lock
    <2>5. \A l \in LedNames : Stage(leds'[l], Target', l, 0)
      BY <1>3, StageEnds
    <2>6. \A i \in 1..Len(q) : Planned(q[i], Target', 0 + i)
      BY <2>2
    <2>7. 0 + Len(q) = Total(Target')
      <3>1. Len(q) \in Nat
        BY <2>2, LenProperties
      <3> QED BY <2>2, <3>1
    <2>8. UpdateOf(writes[t], 0)'
      BY <2>5, <2>6, <2>7 DEF UpdateOf, q
    <2>9. Updating(t)'
      BY <1>8, <2>8 DEF Updating, Lock
    <2> QED BY <1>0, <1>4, <2>4, <2>9 DEF ShowInv, Lock
  <1> QED BY <1>7, <1>8

\* What is left after the first of some writes.
LEMMA RestFacts ==
    ASSUME NEW S, NEW q \in Seq(S), q # <<>>
    PROVE  /\ Len(q) \in Nat /\ 1 \in 1..Len(q) /\ Head(q) = q[1]
           /\ Tail(q) \in Seq(S) /\ Len(Tail(q)) \in Nat /\ Len(q) = Len(Tail(q)) + 1
           /\ \A i \in 1..Len(Tail(q)) : i + 1 \in 1..Len(q) /\ Tail(q)[i] = q[i + 1]
  <1> DEFINE r == Tail(q)
             n == Len(q)
             m == Len(r)
  <1>1. n \in Nat /\ n # 0
    BY EmptySeq, LenProperties
  <1>2. Head(q) = q[1]
    OBVIOUS
  <1>3. r \in Seq(S) /\ m = n - 1
    BY HeadTailProperties
  <1>4. \A i \in 1..m : r[i] = q[i + 1]
    BY HeadTailProperties
  <1> HIDE DEF r, n, m
  <1>5. m \in Nat /\ n = m + 1 /\ 1 \in 1..n
    BY <1>1, <1>3
  <1>6. \A i \in 1..m : i + 1 \in 1..n
    BY <1>5
  <1> QED BY <1>1, <1>2, <1>3, <1>4, <1>5, <1>6 DEF r, n, m

\* The thread that has the board is the only one with writes to do.
LEMMA LoneWriter ==
    ASSUME LockInv, NEW t \in Threads, pc[t] = "write"
    PROVE  lock = t /\ lock # NoThread /\ \A u \in Threads : pc[u] = "write" => u = t
  BY LightsAssumption DEF LockInv, LockGuardsUpdate

\* The first write of a shared update takes every LED to the next stage.
LEMMA WriteShow ==
    ASSUME ShowInv, LockInv', NEW t \in Threads, Write(t)
    PROVE  ShowInv'
  <1> DEFINE q == writes[t]
             w == Head(q)
             r == Tail(q)
  <1>0. LockInv /\ HalTypes /\ Updating(t) /\ pc[t] = "write" /\ q # <<>>
    BY DEF ShowInv, Write
  <1>1. q \in Seq(AnyItem)
    BY <1>0 DEF HalTypes
  <1>2. /\ Len(q) \in Nat /\ 1 \in 1..Len(q) /\ w = q[1]
        /\ r \in Seq(AnyItem) /\ Len(r) \in Nat /\ Len(q) = Len(r) + 1
        /\ \A i \in 1..Len(r) : i + 1 \in 1..Len(q) /\ r[i] = q[i + 1]
    BY <1>0, <1>1, RestFacts
  <1>3. lock = t /\ lock # NoThread /\ \A u \in Threads : pc[u] = "write" => u = t
    BY <1>0, LoneWriter
  <1>4. Target \in LightState /\ Target' = Target
    BY <1>0, TargetFacts DEF Target, Write, globals
  <1>5. /\ IF w.file = "backlight"
           THEN backlight' = w.val /\ UNCHANGED leds
           ELSE /\ leds' = [leds EXCEPT ![w.led] = Stored(leds[w.led], w.file, w.val)]
                /\ UNCHANGED backlight
        /\ writes' = [writes EXCEPT ![t] = r]
        /\ UNCHANGED <<once, lock, pc, dev, arg, calls, g_battery, g_notification, failures, missed>>
    BY DEF Write, globals
  <1>6. writes' \in [Threads -> Seq(AnyItem)] /\ writes'[t] = r
        /\ \A u \in Threads : u # t => writes'[u] = writes[u]
    BY <1>0, <1>2, <1>5 DEF HalTypes
  <1>7. \A u \in Threads : pc'[u] # "write" => writes'[u] = <<>>
    BY <1>0, <1>5, <1>6 DEF HalTypes
  <1> HIDE DEF w, r, q
  <1>8. CASE dev[t] = "backlight"
    <2>1. AllShown /\ \A i \in 1..Len(q) : q[i] \in LcdItem
      BY <1>0, <1>8 DEF Updating, LcdOf, q
    <2>2. w.file = "backlight" /\ w.val \in 0..127
      BY <1>2, <2>1 DEF LcdItem
    <2>3. HalTypes'
      BY <1>0, <1>5, <1>6, <1>7, <2>2 DEF HalTypes
    <2>4. AllShown'
      BY <1>4, <1>5, <2>1, <2>2 DEF AllShown
    <2>5. \A i \in 1..Len(r) : r[i] \in LcdItem
      BY <1>2, <2>1
    <2>6. Updating(t)'
      BY <1>5, <1>6, <1>8, <2>4, <2>5 DEF Updating, LcdOf
    <2> QED BY <1>3, <1>5, <2>3, <2>4, <2>6 DEF ShowInv
  <1>9. CASE dev[t] # "backlight"
    <2>1. PICK k \in Nat : UpdateOf(q, k)
      BY <1>0, <1>9 DEF Updating, q
    <2>2. Planned(w, Target, k + 1)
      BY <1>2, <2>1 DEF UpdateOf
    <2>3. /\ w.led \in LedNames /\ w.file # "backlight"
          /\ \A led \in LedState : Stored(led, w.file, w.val) \in LedState
      BY <1>4, <2>2, PlannedTypes
    <2>4. /\ leds' \in [LedNames -> LedState]
          /\ \A l \in LedNames :
                leds'[l] = IF w.led = l THEN Stored(leds[l], w.file, w.val) ELSE leds[l]
      <3> DEFINE v == Stored(leds[w.led], w.file, w.val)
      <3>1. leds \in [LedNames -> LedState] /\ w.led \in LedNames
        BY <1>0, <2>3 DEF HalTypes
      <3>2. v \in LedState
        BY <2>3, <3>1
      <3>3. leds' = [leds EXCEPT ![w.led] = v]
        BY <1>5, <2>3
      <3> HIDE DEF v
      <3>4. leds' \in [LedNames -> LedState]
        BY <3>1, <3>2, <3>3
      <3>5. \A l \in LedNames : leds'[l] = IF w.led = l THEN v ELSE leds[l]
        BY <3>1, <3>3
      <3> QED BY <3>4, <3>5 DEF v
    <2>5. HalTypes'
      BY <1>0, <1>5, <1>6, <1>7, <2>3, <2>4 DEF HalTypes
    <2>6. ASSUME NEW l \in LedNames \ missed PROVE Stage(leds'[l], Target, l, k + 1)
      <3>1. leds[l] \in LedState /\ Stage(leds[l], Target, l, k)
        BY <1>0, <2>1 DEF HalTypes, UpdateOf
      <3> QED BY <1>4, <2>2, <2>4, <3>1, StageStep
    <2>7. \A i \in 1..Len(r) : Planned(r[i], Target, (k + 1) + i)
      <3> SUFFICES ASSUME NEW i \in 1..Len(r) PROVE Planned(r[i], Target, (k + 1) + i)
        OBVIOUS
      <3>1. i + 1 \in 1..Len(q) /\ r[i] = q[i + 1]
        BY <1>2
      <3>2. Planned(q[i + 1], Target, k + (i + 1))
        BY <2>1, <3>1 DEF UpdateOf
      <3>3. (k + 1) + i = k + (i + 1)
        BY <1>2
      <3> QED BY <3>1, <3>2, <3>3
    <2>8. (k + 1) + Len(r) = Total(Target)
      BY <1>2, <2>1 DEF UpdateOf
    <2>9. UpdateOf(writes[t], k + 1)'
      BY <1>4, <1>5, <1>6, <2>6, <2>7, <2>8 DEF UpdateOf
    <2>10. Updating(t)'
      <3>1. k + 1 \in Nat
        OBVIOUS
      <3> QED BY <1>5, <1>9, <2>9, <3>1 DEF Updating
    <2> QED BY <1>3, <1>5, <2>5, <2>10 DEF ShowInv
  <1> QED BY <1>8, <1>9

\* A write that fails: its LED has missed one and nothing is claimed of it.
LEMMA WriteFailsShow ==
    ASSUME ShowInv, LockInv', NEW t \in Threads, WriteFails(t)
    PROVE  ShowInv'
  <1> DEFINE q == writes[t]
             w == Head(q)
             r == Tail(q)
  <1>0. LockInv /\ HalTypes /\ Updating(t) /\ pc[t] = "write" /\ q # <<>>
    BY DEF ShowInv, WriteFails
  <1>1. q \in Seq(AnyItem)
    BY <1>0 DEF HalTypes
  <1>2. /\ Len(q) \in Nat /\ 1 \in 1..Len(q) /\ w = q[1]
        /\ r \in Seq(AnyItem) /\ Len(r) \in Nat /\ Len(q) = Len(r) + 1
        /\ \A i \in 1..Len(r) : i + 1 \in 1..Len(q) /\ r[i] = q[i + 1]
    BY <1>0, <1>1, RestFacts
  <1>3. lock = t /\ lock # NoThread /\ \A u \in Threads : pc[u] = "write" => u = t
    BY <1>0, LoneWriter
  <1>4. Target \in LightState /\ Target' = Target
    BY <1>0, TargetFacts DEF Target, WriteFails, globals
  <1>5. /\ missed' = IF w.file = "backlight" THEN missed ELSE missed \cup {w.led}
        /\ writes' = [writes EXCEPT ![t] = r]
        /\ UNCHANGED <<once, lock, pc, dev, arg, calls, g_battery, g_notification, leds, backlight>>
    BY DEF WriteFails, globals
  <1>6. writes' \in [Threads -> Seq(AnyItem)] /\ writes'[t] = r
        /\ \A u \in Threads : u # t => writes'[u] = writes[u]
    BY <1>0, <1>2, <1>5 DEF HalTypes
  <1>7. \A u \in Threads : pc'[u] # "write" => writes'[u] = <<>>
    BY <1>0, <1>5, <1>6 DEF HalTypes
  <1>f. failures' \in 0..MaxFailures
    <2>1. failures' = failures \/ (failures < MaxFailures /\ failures' = failures + 1)
      BY DEF WriteFails
    <2> QED BY <1>0, <2>1, LightsAssumption DEF HalTypes
  <1> HIDE DEF w, r, q
  <1>8. CASE dev[t] = "backlight"
    <2>1. AllShown /\ \A i \in 1..Len(q) : q[i] \in LcdItem
      BY <1>0, <1>8 DEF Updating, LcdOf, q
    <2>2. w.file = "backlight"
      BY <1>2, <2>1 DEF LcdItem
    <2>3. HalTypes'
      BY <1>0, <1>5, <1>6, <1>7, <1>f, <2>2 DEF HalTypes
    <2>4. AllShown'
      BY <1>4, <1>5, <2>1, <2>2 DEF AllShown
    <2>5. \A i \in 1..Len(r) : r[i] \in LcdItem
      BY <1>2, <2>1
    <2>6. Updating(t)'
      BY <1>5, <1>6, <1>8, <2>4, <2>5 DEF Updating, LcdOf
    <2> QED BY <1>3, <1>5, <2>3, <2>4, <2>6 DEF ShowInv
  <1>9. CASE dev[t] # "backlight"
    <2>1. PICK k \in Nat : UpdateOf(q, k)
      BY <1>0, <1>9 DEF Updating, q
    <2>2. Planned(w, Target, k + 1)
      BY <1>2, <2>1 DEF UpdateOf
    <2>3. w.led \in LedNames /\ w.file # "backlight"
      BY <1>4, <2>2, PlannedTypes
    <2>4. missed' = missed \cup {w.led}
      BY <1>5, <2>3
    <2>5. HalTypes'
      BY <1>0, <1>5, <1>6, <1>7, <1>f, <2>3, <2>4 DEF HalTypes
    <2>6. ASSUME NEW l \in LedNames \ missed' PROVE Stage(leds'[l], Target, l, k + 1)
      <3>1. l \in LedNames \ missed /\ w.led # l
        BY <2>4
      <3>2. leds[l] \in LedState /\ Stage(leds[l], Target, l, k)
        BY <1>0, <2>1, <3>1 DEF HalTypes, UpdateOf
      <3>3. Stage(IF w.led = l THEN Stored(leds[l], w.file, w.val) ELSE leds[l], Target, l, k + 1)
        BY <1>4, <2>2, <3>1, <3>2, StageStep
      <3> QED BY <1>5, <3>1, <3>3
    <2>7. \A i \in 1..Len(r) : Planned(r[i], Target, (k + 1) + i)
      <3> SUFFICES ASSUME NEW i \in 1..Len(r) PROVE Planned(r[i], Target, (k + 1) + i)
        OBVIOUS
      <3>1. i + 1 \in 1..Len(q) /\ r[i] = q[i + 1]
        BY <1>2
      <3>2. Planned(q[i + 1], Target, k + (i + 1))
        BY <2>1, <3>1 DEF UpdateOf
      <3>3. (k + 1) + i = k + (i + 1)
        BY <1>2
      <3> QED BY <3>1, <3>2, <3>3
    <2>8. (k + 1) + Len(r) = Total(Target)
      BY <1>2, <2>1 DEF UpdateOf
    <2>9. UpdateOf(writes[t], k + 1)'
      BY <1>4, <1>6, <2>6, <2>7, <2>8 DEF UpdateOf
    <2>10. Updating(t)'
      <3>1. k + 1 \in Nat
        OBVIOUS
      <3> QED BY <1>5, <1>9, <2>9, <3>1 DEF Updating
    <2> QED BY <1>3, <1>5, <2>5, <2>10 DEF ShowInv
  <1> QED BY <1>8, <1>9

\* After the last write every LED that missed none shows the target.
LEMMA UnlockShow ==
    ASSUME ShowInv, LockInv', NEW t \in Threads, Unlock(t)
    PROVE  ShowInv'
  <1>0. LockInv /\ HalTypes /\ Updating(t) /\ pc[t] = "write" /\ writes[t] = <<>>
    BY DEF ShowInv, Unlock
  <1>1. \A u \in Threads : pc[u] = "write" => u = t
    BY <1>0, LoneWriter
  <1>2. \A u \in Threads : pc'[u] # "write"
    BY <1>0, <1>1 DEF Unlock, LockInv
  <1>3. Target \in LightState /\ Target' = Target
    BY <1>0, TargetFacts DEF Target, Unlock, globals
  <1>4. AllShown
    <2>1. CASE dev[t] = "backlight"
      BY <1>0, <2>1 DEF Updating, LcdOf
    <2>2. CASE dev[t] # "backlight"
      <3>1. PICK k \in Nat : UpdateOf(<<>>, k)
        BY <1>0, <2>2 DEF Updating
      <3>2. Len(<<>>) = 0
        OBVIOUS
      <3>3. k = Total(Target)
        BY <3>1, <3>2 DEF UpdateOf
      <3>4. \A l \in LedNames \ missed : Stage(leds[l], Target, l, Total(Target))
        BY <3>1, <3>3 DEF UpdateOf
      <3> QED BY <1>3, <3>4, StageEnds DEF AllShown
    <2> QED BY <2>1, <2>2
  <1>5. HalTypes'
    <2>1. \A u \in Threads : writes[u] = <<>>
      BY <1>0, <1>1 DEF HalTypes
    <2> QED BY <1>0, <2>1 DEF HalTypes, Unlock, globals, board
  <1>6. AllShown'
    BY <1>3, <1>4 DEF AllShown, Unlock, board
  <1> QED BY <1>2, <1>5, <1>6 DEF ShowInv

\* Every step keeps ShowInv.
LEMMA NextShow == ShowInv /\ [Next]_vars => ShowInv'
  <1> SUFFICES ASSUME ShowInv, [Next]_vars PROVE ShowInv'
    OBVIOUS
  <1>0. LockInv /\ HalTypes /\ LockInv'
    BY NextLock DEF ShowInv
  <1>1. ASSUME NEW t \in Threads, Open(t) PROVE ShowInv'
    <2>1. HalTypes'
      BY <1>0, <1>1 DEF HalTypes, LockInv, Open, globals, board
    <2> QED BY <1>0, <1>1, <2>1, QuietShow DEF LockInv, Open, globals, board
  <1>2. ASSUME NEW t \in Threads, Close(t) PROVE ShowInv'
    <2>1. HalTypes'
      BY <1>0, <1>2 DEF HalTypes, LockInv, Close, globals, board
    <2> QED BY <1>0, <1>2, <2>1, QuietShow DEF LockInv, Close, globals, board
  <1>3. ASSUME NEW t \in Threads, SetLight(t) PROVE ShowInv'
    <2>1. calls' \in [Threads -> 0..MaxCalls]
      <3>1. calls[t] + 1 \in 0..MaxCalls
        <4>1. calls \in [Threads -> 0..MaxCalls] /\ calls[t] < MaxCalls /\ MaxCalls \in Nat
          BY <1>0, <1>3, LightsAssumption DEF HalTypes, SetLight
        <4>2. calls[t] \in 0..MaxCalls
          BY <4>1
        <4> QED BY <4>1, <4>2
      <3> QED BY <1>0, <1>3, <3>1 DEF HalTypes, SetLight
    <2>2. arg' \in [Threads -> States \cup {Off}]
      BY <1>0, <1>3 DEF HalTypes, SetLight
    <2>3. HalTypes'
      BY <1>0, <1>3, <2>1, <2>2 DEF HalTypes, LockInv, SetLight, globals, board
    <2> QED BY <1>0, <1>3, <2>3, QuietShow DEF LockInv, SetLight, globals, board
  <1>4. ASSUME NEW t \in Threads, OnceBegin(t) PROVE ShowInv'
    <2>1. HalTypes'
      BY <1>0, <1>4 DEF HalTypes, LockInv, OnceBegin, globals, board
    <2> QED BY <1>0, <1>4, <2>1, QuietShow DEF LockInv, OnceBegin, globals, board
  <1>5. ASSUME NEW t \in Threads, OnceDone(t) PROVE ShowInv'
    <2>1. HalTypes'
      BY <1>0, <1>5 DEF HalTypes, LockInv, OnceDone, globals, board
    <2> QED BY <1>0, <1>5, <2>1, QuietShow DEF LockInv, OnceDone, globals, board
  <1>6. ASSUME NEW t \in Threads, InitGlobals(t) PROVE ShowInv'
    <2>1. HalTypes'
      BY <1>0, <1>6 DEF HalTypes, LockInv, InitGlobals, globals, board
    <2>2. lock = NoThread
      BY <1>0, <1>6 DEF LockInv, LockGuardsUpdate, InitGlobals
    <2> QED BY <1>0, <1>6, <2>1, <2>2, QuietShow DEF LockInv, InitGlobals, globals, board
  <1>7. ASSUME NEW t \in Threads, Lock(t) PROVE ShowInv'
    BY <1>0, <1>7, LockShow
  <1>8. ASSUME NEW t \in Threads, Write(t) PROVE ShowInv'
    BY <1>0, <1>8, WriteShow
  <1>9. ASSUME NEW t \in Threads, WriteFails(t) PROVE ShowInv'
    BY <1>0, <1>9, WriteFailsShow
  <1>10. ASSUME NEW t \in Threads, Unlock(t) PROVE ShowInv'
    BY <1>0, <1>10, UnlockShow
  <1>11. CASE UNCHANGED vars
    <2>1. HalTypes'
      BY <1>0, <1>11 DEF HalTypes, vars
    <2> QED BY <1>0, <1>11, <2>1, QuietShow DEF vars
  <1> QED
    BY <1>1, <1>2, <1>3, <1>4, <1>5, <1>6, <1>7, <1>8, <1>9, <1>10, <1>11
    DEF Next, Proceed

\* For any number of threads, any light states and any failures of writes:
\* whenever g_lock is free, every LED that the last shared update could write
\* shows the notification while it is lit and the battery otherwise.  The
\* trigger, the delays and the brightness of set_shared_light_locked are in an
\* order that brings a LED there from whatever it held before.
THEOREM LightShown == Spec => []SharedLightShown
  <1>1. ShowInv => SharedLightShown
    BY LedFacts DEF ShowInv, AllShown, Target, SharedLightShown
  <1> QED BY <1>1, InitShow, NextShow, PTL DEF Spec

\* Every pending write is one its file takes.
LEMMA WritesOK ==
    ASSUME ShowInv, NEW t \in Threads, NEW i \in DOMAIN writes[t]
    PROVE  WriteOK(writes[t][i])
  <1>0. LockInv /\ HalTypes /\ writes[t] \in Seq(AnyItem)
    BY DEF ShowInv, HalTypes
  <1>1. i \in 1..Len(writes[t]) /\ writes[t] # <<>>
    BY <1>0
  <1>2. pc[t] = "write"
    BY <1>0, <1>1 DEF HalTypes
  <1>3. Updating(t)
    BY <1>2 DEF ShowInv
  <1>4. CASE dev[t] = "backlight"
    <2>1. writes[t][i] \in LcdItem
      BY <1>1, <1>3, <1>4 DEF Updating, LcdOf
    <2>2. writes[t][i].file = "backlight" /\ writes[t][i].val \in 0..127
      BY <2>1 DEF LcdItem
    <2>3. writes[t][i].val \in Nat
      BY <2>2
    <2> QED BY <2>2, <2>3 DEF WriteOK
  <1>5. CASE dev[t] # "backlight"
    <2>1. PICK k \in Nat : UpdateOf(writes[t], k)
      BY <1>3, <1>5 DEF Updating
    <2>2. Planned(writes[t][i], Target, k + i)
      BY <1>1, <2>1 DEF UpdateOf
    <2> QED BY <1>0, <2>2, TargetFacts, PlannedTypes
  <1> QED BY <1>4, <1>5

\* The types of the HAL's state, for any number of threads and any light
\* states: a LED's brightness stays a byte, the backlight within 0-127, and
\* every file is given a value it takes, whatever is in the alpha of a color.
THEOREM HalTyped == Spec => []TypeOK
  <1>1. ShowInv => TypeOK
    <2> SUFFICES ASSUME ShowInv PROVE TypeOK
      OBVIOUS
    <2>1. \A t \in Threads : \A i \in DOMAIN writes[t] : WriteOK(writes[t][i])
      BY WritesOK
    <2> QED BY <2>1, LedFacts DEF ShowInv, LockInv, HalTypes, TypeOK
  <1> QED BY <1>1, InitShow, NextShow, PTL DEF Spec

================================================================================
