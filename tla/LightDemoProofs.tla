---------------------------- MODULE LightDemoProofs ----------------------------
(***************************************************************************)
(* Proofs about LightDemo, for any number of clicks, moves of the bar and  *)
(* restarts: the button, the brightness, and the HAL beneath them.         *)
(***************************************************************************)
EXTENDS LightDemo, LightsHalProofs

-----------------------------------------------------------------------------
(* The button.                                                             *)

\* LightFollowsButton alone is not inductive: with runnables still queued it
\* says nothing of what the last of them will do.  While the activity clicked
\* last is on the screen, the last runnable in the queue is its own.
ButtonInv ==
    /\ activity \in Activities
    /\ last \in 0..activity
    /\ flashing \in [Activities -> BOOLEAN]
    /\ runnables \in Seq(Activities)
    /\ last = activity =>
        IF runnables = <<>> THEN notif = flashing[last]
        ELSE runnables[Len(runnables)] = last

\* A nonempty queue, its tail and its last element.
LEMMA LastOfQueue ==
    ASSUME NEW S, NEW q \in Seq(S), q # <<>>
    PROVE  /\ Head(q) \in S /\ Tail(q) \in Seq(S)
           /\ Tail(q) = <<>> => q[Len(q)] = Head(q)
           /\ Tail(q) # <<>> => Tail(q)[Len(Tail(q))] = q[Len(q)]
  <1> DEFINE r == Tail(q)
             n == Len(q)
             m == Len(r)
  <1>1. /\ n \in Nat /\ 1 \in 1..n /\ Head(q) = q[1]
        /\ r \in Seq(S) /\ m \in Nat /\ n = m + 1
        /\ \A i \in 1..m : i + 1 \in 1..n /\ r[i] = q[i + 1]
    BY RestFacts
  <1>2. Head(q) \in S
    BY HeadTailProperties
  <1>3. Len(<<>>) = 0
    OBVIOUS
  <1>4. r # <<>> => m # 0
    BY <1>1, EmptySeq
  <1> HIDE DEF r, n, m
  <1>5. r = <<>> => n = 1
    BY <1>1, <1>3 DEF m
  <1>6. r # <<>> => m \in 1..m
    BY <1>1, <1>4
  <1>7. r # <<>> => r[m] = q[n]
    BY <1>1, <1>6
  <1> QED BY <1>1, <1>2, <1>5, <1>7 DEF r, n, m

\* Nothing is clicked, queued or posted.
LEMMA InitButton == DemoInit => ButtonInv
  <1>1. DemoInit => 1 \in Activities /\ 0 \in 0..1 /\ 0 # 1
    BY LightDemoAssumption DEF Activities
  <1>2. <<>> \in Seq(Activities)
    BY EmptySeq
  <1> QED BY <1>1, <1>2 DEF DemoInit, AppInit, ButtonInv

\* A click, a runnable, a new activity.
LEMMA NextButton == ButtonInv /\ [DemoNext]_demo_vars => ButtonInv'
  <1> SUFFICES ASSUME ButtonInv, [DemoNext]_demo_vars PROVE ButtonInv'
    OBVIOUS
  <1>0. /\ activity \in Activities /\ activity \in Nat /\ last \in 0..activity
        /\ flashing \in [Activities -> BOOLEAN]
        /\ runnables \in Seq(Activities)
        /\ last = activity => IF runnables = <<>> THEN notif = flashing[last]
                              ELSE runnables[Len(runnables)] = last
    BY LightDemoAssumption DEF ButtonInv, Activities
  <1>1. CASE UNCHANGED app
    BY <1>0, <1>1 DEF app, ButtonInv
  <1>2. CASE OnClick
    <2>1. last' = activity /\ activity' = activity /\ runnables' = Append(runnables, activity)
      BY <1>2 DEF OnClick
    <2>2. flashing' \in [Activities -> BOOLEAN]
      BY <1>0, <1>2 DEF OnClick
    <2>3. /\ runnables' \in Seq(Activities) /\ runnables' # <<>>
          /\ runnables'[Len(runnables')] = activity
      BY <1>0, <2>1, AppendProperties
    <2>4. last' \in 0..activity'
      BY <1>0, <2>1
    <2> QED BY <1>0, <2>1, <2>2, <2>3, <2>4 DEF ButtonInv
  <1>3. CASE RunLight
    <2>1. /\ runnables # <<>> /\ notif' = flashing[Head(runnables)]
          /\ runnables' = Tail(runnables)
          /\ UNCHANGED <<activity, flashing, last>>
      BY <1>3 DEF RunLight
    <2>2. /\ Tail(runnables) \in Seq(Activities)
          /\ Tail(runnables) = <<>> => runnables[Len(runnables)] = Head(runnables)
          /\ Tail(runnables) # <<>> =>
                Tail(runnables)[Len(Tail(runnables))] = runnables[Len(runnables)]
      BY <1>0, <2>1, LastOfQueue
    <2>3. last = activity => runnables[Len(runnables)] = last
      BY <1>0, <2>1
    <2>4. last' = activity' => IF runnables' = <<>> THEN notif' = flashing'[last']
                               ELSE runnables'[Len(runnables')] = last'
      BY <2>1, <2>2, <2>3
    <2> QED BY <1>0, <2>1, <2>2, <2>4 DEF ButtonInv
  <1>4. CASE OnProgressChanged
    BY <1>0, <1>4 DEF OnProgressChanged, ButtonInv
  <1>5. CASE Reopen \/ Recreate \/ KilledAndReopened
    <2>1. /\ activity <= MaxRestarts /\ activity' = activity + 1
          /\ UNCHANGED <<flashing, notif, last>>
          /\ runnables' = runnables \/ runnables' = <<>>
      BY <1>5 DEF Reopen, Recreate, KilledAndReopened, Restart
    <2>2. activity' \in Activities /\ last' \in 0..activity' /\ last' # activity'
      BY <1>0, <2>1, LightDemoAssumption DEF Activities
    <2>3. runnables' \in Seq(Activities)
      BY <1>0, <2>1, EmptySeq
    <2> QED BY <1>0, <2>1, <2>2, <2>3 DEF ButtonInv
  <1> QED
    BY <1>1, <1>2, <1>3, <1>4, <1>5 DEF DemoNext, demo_vars, User, Framework

\* For any number of clicks and restarts, however the delayed runnables of
\* activities that are gone come between: with the queue empty, the
\* notification is posted if and only if the button clicked last says so, as
\* long as its activity is on the screen.
THEOREM ButtonFollowed == DemoSpec => []LightFollowsButton
  <1>1. ButtonInv => LightFollowsButton
    BY DEF ButtonInv, LightFollowsButton
  <1> QED BY <1>1, InitButton, NextButton, PTL DEF DemoSpec

-----------------------------------------------------------------------------
(* The brightness.                                                         *)

\* The bar and the setting belong together one way or the other; the rounding
\* loses at most one of the two.
BarInv == progress = ToProgress(brightness) \/ brightness = ToBrightness(progress)

\* Only a move of the user changes the setting: not onCreate, which sets the
\* bar, and not a bar that the system restores, which is where onCreate would
\* put it or was the last the user chose.
THEOREM OnlyDragsDim == DemoSpec => OnlyUserDims
  <1>1. DemoInit => BarInv
    BY DEF DemoInit, AppInit, BarInv
  <1>2. BarInv /\ [DemoNext]_demo_vars =>
            BarInv' /\ (brightness' # brightness => drags' = drags + 1)
    <2> SUFFICES ASSUME BarInv, [DemoNext]_demo_vars
                 PROVE  BarInv' /\ (brightness' # brightness => drags' = drags + 1)
      OBVIOUS
    <2>1. CASE UNCHANGED app
      BY <2>1 DEF app, BarInv
    <2>2. CASE OnClick \/ RunLight
      BY <2>2 DEF OnClick, RunLight, BarInv
    <2>3. CASE OnProgressChanged
      BY <2>3 DEF OnProgressChanged, BarInv
    <2>4. CASE Reopen \/ Recreate \/ KilledAndReopened
      <3>1. (OnCreate \/ OnRestore) /\ drags' = drags
        BY <2>4 DEF Reopen, Recreate, KilledAndReopened, Restart
      <3> QED BY <3>1 DEF OnCreate, OnRestore, BarInv
    <2> QED BY <2>1, <2>2, <2>3, <2>4 DEF DemoNext, demo_vars, User, Framework
  <1>3. BarInv /\ [DemoNext]_demo_vars =>
            [brightness' # brightness => drags' = drags + 1]_demo_vars
    BY <1>2
  <1> QED BY <1>1, <1>2, <1>3, PTL DEF DemoSpec, OnlyUserDims
-----------------------------------------------------------------------------
(* The HAL under the demo.                                                 *)

\* A step of the demo is a step of the HAL or none of its business.
LEMMA HalStep == [DemoNext]_demo_vars => [Next]_vars
  <1> SUFFICES ASSUME [DemoNext]_demo_vars PROVE [Next]_vars
    OBVIOUS
  <1>1. CASE UNCHANGED vars
    BY <1>1
  <1>2. ASSUME NEW t \in Threads, Framework(t) PROVE Next
    BY <1>2 DEF Framework, OpenDevice, Push, Next
  <1> QED BY <1>1, <1>2 DEF DemoNext, demo_vars

\* What the HAL guarantees its callers holds under the demo: the theorems of
\* LightsHalProofs carry over to the composition.
THEOREM HalUnderDemo == DemoSpec => [](LockGuardsUpdate /\ SharedLightShown)
  <1>1. DemoInit => ShowInv
    BY InitShow DEF DemoInit
  <1>2. ShowInv /\ [DemoNext]_demo_vars => ShowInv'
    BY HalStep, NextShow
  <1>3. ShowInv => LockGuardsUpdate /\ SharedLightShown
    BY LedFacts DEF ShowInv, LockInv, AllShown, Target, SharedLightShown
  <1> QED BY <1>1, <1>2, <1>3, PTL DEF DemoSpec

\* The board at rest: no call is under way, what was asked for last is what is
\* wanted, and no write has failed.
Half(s) == rgb_to_brightness(s) \div 2
HalfWrite(s) == [led |-> "lcd", file |-> "backlight", val |-> Half(s)]
AtRest ==
    failures = 0 /\ \A t \in Threads : pc[t] = "idle" /\ pushed[t] = Wanted(t)
RestShows ==
    AtRest =>
        /\ backlight = IF screen THEN brightness \div 2 ELSE 0
        /\ \A l \in {"red", "blue"} : (Shown(leds[l]).mode = "blink") <=> notif /\ ~screen

\* Where the state that a framework thread pushed is: in the argument, then in
\* g_notification or in the backlight's pending write, then on the board.
Owner ==
    /\ dev[LedThread] \in {"none", "notifications"}
    /\ dev[LcdThread] \in {"none", "backlight"}
    /\ pushed \in [Threads -> LightState]
    /\ \A t \in Threads : pc[t] = "lock" => arg[t] = pushed[t]
LedPart ==
    /\ g_battery = Off
    /\ pc[LedThread] # "lock" => g_notification = pushed[LedThread]
LcdPart ==
    LET s == pushed[LcdThread] IN
    failures = 0 /\ pc[LcdThread] # "lock" =>
        IF writes[LcdThread] = <<>> THEN backlight = Half(s)
        ELSE writes[LcdThread] = <<HalfWrite(s)>>
RestInv ==
    /\ ShowInv /\ Owner /\ LedPart /\ LcdPart
    /\ failures = 0 => missed = {}

\* The bar and the setting stay in their ranges.
BarTypes == brightness \in 0..255 /\ progress \in 0..100 /\ screen \in BOOLEAN

\* The two conversions of MainActivity.java stay in range.
LEMMA Conversions ==
    /\ \A b \in 0..255 : ToProgress(b) \in 0..100
    /\ \A p \in 0..100 : ToBrightness(p) \in 0..255
  BY DEF ToProgress, ToBrightness

\* Every step keeps BarTypes.
LEMMA BarTyped ==
    /\ DemoInit => BarTypes
    /\ BarTypes /\ [DemoNext]_demo_vars => BarTypes'
  <1>1. DemoInit => BarTypes
    <2> SUFFICES ASSUME DemoInit PROVE BarTypes
      OBVIOUS
    <2>1. brightness \in 0..255 /\ progress = ToProgress(brightness) /\ screen = TRUE
      BY LightDemoAssumption DEF DemoInit, AppInit
    <2> QED BY <2>1, Conversions DEF BarTypes
  <1>2. ASSUME BarTypes, [DemoNext]_demo_vars PROVE BarTypes'
    <2>0. brightness \in 0..255 /\ progress \in 0..100 /\ screen \in BOOLEAN
      BY <1>2, Zenon DEF BarTypes
    <2>1. screen' \in BOOLEAN
      BY <1>2, <2>0 DEF DemoNext, demo_vars, display, ToggleScreen, Framework
    <2>2. CASE UNCHANGED app
      BY <2>0, <2>1, <2>2 DEF app, BarTypes
    <2>3. CASE OnClick \/ RunLight
      <3>1. brightness' = brightness /\ progress' = progress
        BY <2>3, Zenon DEF OnClick, RunLight
      <3> QED BY <2>0, <2>1, <3>1, Zenon DEF BarTypes
    <2>4. CASE OnProgressChanged
      <3>1. PICK p \in Positions : progress' = p /\ brightness' = ToBrightness(p)
        BY <2>4, Zenon DEF OnProgressChanged
      <3>2. p \in 0..100
        BY LightDemoAssumption
      <3> QED BY <2>1, <3>1, <3>2, Conversions, Zenon DEF BarTypes
    <2>5. CASE Reopen \/ Recreate \/ KilledAndReopened
      <3>1. OnCreate \/ OnRestore
        BY <2>5, Zenon DEF Reopen, Recreate, KilledAndReopened
      <3>2. CASE OnCreate
        <4>1. brightness' = brightness /\ progress' = ToProgress(brightness)
          BY <3>2, Zenon DEF OnCreate
        <4> QED BY <2>0, <2>1, <4>1, Conversions, Zenon DEF BarTypes
      <3>3. CASE OnRestore
        <4>1. progress' = progress /\ brightness' \in {brightness, ToBrightness(progress)}
          BY <3>3, SMT DEF OnRestore
        <4>2. ToBrightness(progress) \in 0..255
          BY <2>0, Conversions, Zenon
        <4> QED BY <2>0, <2>1, <4>1, <4>2, SMT DEF BarTypes
      <3> QED BY <3>1, <3>2, <3>3
    <2> QED BY <1>2, <2>2, <2>3, <2>4, <2>5 DEF DemoNext, demo_vars, User, Framework
  <1> QED BY <1>1, <1>2

\* The bytes of a gray: each is the gray itself.
LEMMA GrayBytes ==
    ASSUME NEW b \in 0..255, NEW c \in Nat, c = 16777216 + 65536 * b + 256 * b + b
    PROVE  Red(c) = b /\ Green(c) = b /\ Blue(c) = b
  <1>1. Red(c) = b
    <2>1. c = 65536 * (256 + b) + 257 * b
      BY SMTT(30)
    <2>2. 257 * b \in Nat /\ 257 * b < 65536
      BY SMTT(30)
    <2>3. c \div 65536 = 256 + b
      BY <2>1, <2>2, SMTT(30)
    <2>4. (256 + b) % 256 = b
      BY SMTT(30)
    <2> QED BY <2>3, <2>4, SMTT(30) DEF Red
  <1>2. c = 256 * (65536 + 257 * b) + b
    BY SMTT(30)
  <1>3. Green(c) = b
    <2>1. c \div 256 = 65536 + 257 * b
      BY <1>2, SMTT(30)
    <2>2. 65536 + 257 * b = 256 * (256 + b) + b
      BY SMTT(30)
    <2>3. (65536 + 257 * b) % 256 = b
      BY <2>2, SMTT(30)
    <2> QED BY <2>1, <2>3, SMTT(30) DEF Green
  <1>4. Blue(c) = b
    BY <1>2, SMTT(30) DEF Blue
  <1> QED BY <1>1, <1>3, <1>4, SMTT(30)

\* A gray comes out of rgb_to_brightness as it went in: the weights add up to
\* 256.
LEMMA GrayFacts ==
    ASSUME NEW b \in 0..255
    PROVE  Half(ScreenLight(b)) = b \div 2 /\ ScreenLight(b) \in LightState
  <1> DEFINE c == 16777216 + 65536 * b + 256 * b + b
  <1>1. ScreenLight(b).color = c /\ c \in Nat
    BY SMTT(30) DEF ScreenLight
  <1>2. Red(c) = b /\ Green(c) = b /\ Blue(c) = b
    BY <1>1, GrayBytes, SMTT(30)
  <1> HIDE DEF c
  <1>5. rgb_to_brightness(ScreenLight(b)) = (77 * b + 150 * b + 29 * b) \div 256
    BY <1>1, <1>2, SMTT(30) DEF rgb_to_brightness
  <1>6. (77 * b + 150 * b + 29 * b) \div 256 = b
    <2>1. 77 * b + 150 * b + 29 * b = 256 * b
      BY SMTT(30)
    <2> QED BY <2>1, SMTT(30)
  <1>7. ScreenLight(b) \in LightState
    <2>1. ScreenLight(b) = [color |-> c, flash |-> FALSE, on |-> 0, off |-> 0]
      BY SMTT(30) DEF ScreenLight, c
    <2> QED BY <1>1, <2>1, SMTT(30) DEF LightState
  <1> QED BY <1>5, <1>6, <1>7, SMTT(30) DEF Half

\* The colors of the notification and of a light that is off.
LEMMA ColorFacts ==
    /\ NotificationLight \in LightState /\ Off \in LightState
    /\ is_lit(NotificationLight) /\ ~is_lit(Off) /\ Half(Off) = 0
    /\ Component(NotificationLight.color, "red") = 255
    /\ Component(NotificationLight.color, "blue") = 255
    /\ Component(Off.color, "red") = 0 /\ Component(Off.color, "blue") = 0
  <1>1. NotificationLight \in LightState
    BY SMTT(30) DEF NotificationLight, LightState
  <1>2. Off \in LightState
    BY SMTT(30) DEF Off, LightState
  <1>3. is_lit(NotificationLight) /\ ~is_lit(Off)
    BY SMTT(30) DEF is_lit, NotificationLight, Off
  <1>4. Half(Off) = 0
    BY SMTT(30) DEF Half, rgb_to_brightness, Off, Red, Green, Blue
  <1>5. Component(NotificationLight.color, "red") = 255 /\ Component(NotificationLight.color, "blue") = 255
    BY SMTT(30) DEF Component, NotificationLight, Red, Blue
  <1>6. Component(Off.color, "red") = 0 /\ Component(Off.color, "blue") = 0
    BY SMTT(30) DEF Component, Off, Red, Blue
  <1> QED BY <1>1, <1>2, <1>3, <1>4, <1>5, <1>6, SMTT(30)

\* What the framework wants is a light state.
LEMMA WantedFacts == BarTypes => \A t \in Threads : Wanted(t) \in LightState
  <1> SUFFICES ASSUME BarTypes PROVE \A t \in Threads : Wanted(t) \in LightState
    OBVIOUS
  <1>1. (IF screen THEN brightness ELSE 0) \in 0..255
    BY DEF BarTypes
  <1>2. ScreenLight(IF screen THEN brightness ELSE 0) \in LightState
    BY <1>1, GrayFacts
  <1> QED BY <1>2, ColorFacts DEF Wanted

\* Without a failure of its own no write of an update goes astray: a delay
\* file is there, since the trigger was written before it.
LEMMA NoneAstray ==
    ASSUME RestInv, NEW t \in Threads, WriteFails(t)
    PROVE  failures' # 0
  <1> SUFFICES ASSUME failures' = 0 PROVE FALSE
    OBVIOUS
  <1> DEFINE q == writes[t]
             w == Head(q)
  <1>0. LockInv /\ HalTypes /\ Updating(t) /\ pc[t] = "write" /\ q # <<>> /\ q \in Seq(AnyItem)
    BY DEF RestInv, ShowInv, HalTypes, WriteFails
  <1>1. 1 \in 1..Len(q) /\ w = q[1]
    BY <1>0, RestFacts
  <1>2. w.file # "backlight" /\ ~Exists(leds[w.led], w.file) /\ failures' = failures
    <2>1. failures \in Nat
      BY <1>0, LightsAssumption DEF HalTypes
    <2>2. \/ w.file # "backlight" /\ ~Exists(leds[w.led], w.file) /\ failures' = failures
          \/ failures' = failures + 1
      BY DEF WriteFails
    <2> HIDE DEF w
    <2> QED BY <2>1, <2>2
  <1>3. missed = {}
    BY <1>2 DEF RestInv
  <1> HIDE DEF w, q
  <1>4. dev[t] # "backlight"
    BY <1>0, <1>1, <1>2 DEF Updating, LcdOf, LcdItem, q
  <1>5. PICK k \in Nat : UpdateOf(q, k)
    BY <1>0, <1>4 DEF Updating, q
  <1>6. Planned(w, Target, k + 1)
    BY <1>1, <1>5 DEF UpdateOf
  <1>7. w.file \in {"delay_on", "delay_off"} /\ leds[w.led].trigger # "timer"
    BY <1>2 DEF Exists
  <1>8. PICK l \in LedNames : /\ w.led = l /\ Target.flash
                              /\ k + 1 = 3 + Pos(l) \/ k + 1 = 6 + Pos(l)
    BY <1>6, <1>7 DEF Planned
  <1>9. Stage(leds[l], Target, l, k)
    BY <1>3, <1>5 DEF UpdateOf
  <1>10. Pos(l) \in 1..3 /\ Total(Target) = 12 /\ Trigger(Target) = "timer"
    BY <1>8 DEF Pos, Total, Trigger
  <1>11. Pos(l) <= k /\ k < Total(Target) - 3 + Pos(l)
    BY <1>8, <1>10
  <1>12. leds[l].trigger = "timer"
    BY <1>9, <1>10, <1>11 DEF Stage
  <1> QED BY <1>7, <1>8, <1>12

\* Nothing is pushed, and nothing is lit.
LEMMA InitRest == DemoInit => RestInv
  <1> SUFFICES ASSUME DemoInit PROVE RestInv
    OBVIOUS
  <1>0. Init /\ pushed = [t \in Threads |-> Off]
    BY DEF DemoInit
  <1>1. ShowInv
    BY <1>0, InitShow
  <1>2. LedThread \in Threads /\ LcdThread \in Threads
    BY LightDemoAssumption
  <1>3. Owner
    BY <1>0, <1>2, ColorFacts DEF Init, Owner
  <1>4. LedPart /\ LcdPart
    BY <1>0, <1>2, ColorFacts DEF Init, LedPart, LcdPart
  <1> QED BY <1>0, <1>1, <1>3, <1>4 DEF Init, RestInv

\* The steps of the framework's threads.
LEMMA FrameworkRest ==
    ASSUME RestInv, BarTypes, NEW t \in Threads, Framework(t), ShowInv'
    PROVE  RestInv'
  <1>0. /\ LedThread \in Threads /\ LcdThread \in Threads /\ LedThread # LcdThread
        /\ t = LedThread \/ t = LcdThread
    BY LightDemoAssumption
  <1>1. LockInv /\ HalTypes /\ Owner /\ LedPart /\ LcdPart /\ (failures = 0 => missed = {})
    BY DEF RestInv, ShowInv
  <1>2. CASE OpenDevice(t)
    <2>1. /\ pc[t] = "idle" /\ pc' = [pc EXCEPT ![t] = "once"]
          /\ dev'[t] = IF t = LcdThread THEN "backlight" ELSE "notifications"
          /\ UNCHANGED <<pushed, arg, writes, g_battery, g_notification, backlight, failures, missed>>
          /\ \A u \in Threads : u # t => dev'[u] = dev[u]
      BY <1>1, <1>2 DEF OpenDevice, Open, globals, board, LockInv
    <2>2. Owner'
      BY <1>0, <1>1, <2>1 DEF Owner, LockInv
    <2>3. LedPart' /\ LcdPart'
      BY <1>0, <1>1, <2>1 DEF LedPart, LcdPart, LockInv
    <2> QED BY <1>1, <2>1, <2>2, <2>3 DEF RestInv
  <1>3. CASE Push(t)
    <2>1. /\ pc[t] = "idle" /\ pc' = [pc EXCEPT ![t] = "lock"]
          /\ arg'[t] = Wanted(t) /\ pushed' = [pushed EXCEPT ![t] = Wanted(t)]
          /\ UNCHANGED <<dev, writes, g_battery, g_notification, backlight, failures, missed>>
          /\ \A u \in Threads : u # t => arg'[u] = arg[u]
      BY <1>1, <1>3 DEF Push, SetLight, globals, board, HalTypes
    <2>2. pc'[t] = "lock" /\ pushed'[t] = Wanted(t)
          /\ \A u \in Threads : u # t => pc'[u] = pc[u] /\ pushed'[u] = pushed[u]
      BY <1>1, <2>1 DEF Owner, LockInv
    <2>3. pushed' \in [Threads -> LightState]
      BY <1>1, <2>1, WantedFacts DEF Owner
    <2>4. Owner'
      BY <1>0, <1>1, <2>1, <2>2, <2>3 DEF Owner
    <2>5. LedPart' /\ LcdPart'
      BY <1>0, <1>1, <2>1, <2>2 DEF LedPart, LcdPart
    <2> QED BY <1>1, <2>1, <2>4, <2>5 DEF RestInv
  <1>4. CASE (OnceBegin(t) \/ OnceDone(t) \/ InitGlobals(t)) /\ UNCHANGED pushed
    <2>1. /\ pc[t] \in {"once", "init"}
          /\ pc' = [pc EXCEPT ![t] = "init"] \/ pc' = [pc EXCEPT ![t] = "idle"]
          /\ UNCHANGED <<pushed, dev, arg, writes, g_battery, g_notification, backlight, failures, missed>>
      BY <1>4 DEF OnceBegin, OnceDone, InitGlobals, globals, board
    <2>2. pc'[t] # "lock" /\ \A u \in Threads : u # t => pc'[u] = pc[u]
      BY <1>1, <2>1 DEF LockInv
    <2>3. Owner'
      BY <1>0, <1>1, <2>1, <2>2 DEF Owner
    <2>4. LedPart' /\ LcdPart'
      BY <1>0, <1>1, <2>1, <2>2 DEF LedPart, LcdPart
    <2> QED BY <1>1, <2>1, <2>3, <2>4 DEF RestInv
  <1>5. CASE Lock(t) /\ UNCHANGED pushed
    <2>1. /\ pc[t] = "lock" /\ pc' = [pc EXCEPT ![t] = "write"] /\ dev[t] # "none"
          /\ g_battery' = IF dev[t] = "battery" THEN arg[t] ELSE g_battery
          /\ g_notification' = IF dev[t] = "notifications" THEN arg[t] ELSE g_notification
          /\ missed' = IF dev[t] = "backlight" THEN missed ELSE {}
          /\ UNCHANGED <<pushed, dev, arg, backlight, failures>>
      BY <1>1, <1>5 DEF Lock, LockInv
    <2>2. pc'[t] = "write" /\ \A u \in Threads : u # t => pc'[u] = pc[u] /\ writes'[u] = writes[u]
      BY <1>1, <1>5 DEF Lock, LockInv, HalTypes
    <2>3. Owner'
      BY <1>0, <1>1, <2>1, <2>2 DEF Owner
    <2>4. LedPart'
      BY <1>0, <1>1, <2>1, <2>2 DEF Owner, LedPart
    <2>5. LcdPart'
      <3>1. CASE t = LedThread
        BY <1>0, <1>1, <2>1, <2>2, <3>1 DEF LcdPart
      <3>2. CASE t = LcdThread
        <4>1. dev[t] = "backlight" /\ arg[t] = pushed[t]
          BY <1>0, <1>1, <2>1, <3>2 DEF Owner
        <4>2. writes'[t] = <<HalfWrite(pushed[t])>>
          BY <1>1, <1>5, <4>1 DEF Lock, HalTypes, BacklightWrite, HalfWrite, Half
        <4>3. <<HalfWrite(pushed[t])>> # <<>>
          OBVIOUS
        <4> QED BY <2>1, <3>2, <4>2, <4>3 DEF LcdPart
      <3> QED BY <1>0, <3>1, <3>2
    <2> QED BY <1>1, <2>1, <2>3, <2>4, <2>5 DEF RestInv
  <1>6. CASE Write(t) /\ UNCHANGED pushed
    <2>1. /\ writes[t] # <<>> /\ pc[t] = "write"
          /\ Head(writes[t]).file = "backlight" => backlight' = Head(writes[t]).val
          /\ Head(writes[t]).file # "backlight" => backlight' = backlight
          /\ UNCHANGED <<pushed, pc, dev, arg, g_battery, g_notification, failures, missed>>
      BY <1>6 DEF Write, globals
    <2>2. writes'[t] = Tail(writes[t]) /\ \A u \in Threads : u # t => writes'[u] = writes[u]
      BY <1>1, <1>6 DEF Write, HalTypes
    <2>3. Owner' /\ LedPart'
      BY <1>1, <2>1 DEF Owner, LedPart
    <2>4. LcdPart'
      <3>1. CASE t = LedThread
        <4>1. /\ writes[t] \in Seq(AnyItem) /\ dev[t] # "backlight"
          BY <1>1, <3>1 DEF Owner, HalTypes
        <4>2. Head(writes[t]) = writes[t][1] /\ 1 \in 1..Len(writes[t])
          BY <2>1, <4>1, RestFacts
        <4>3. PICK k \in Nat : UpdateOf(writes[t], k)
          BY <2>1, <4>1 DEF RestInv, ShowInv, Updating
        <4>4. Planned(Head(writes[t]), Target, k + 1)
          BY <4>2, <4>3 DEF UpdateOf
        <4>5. Head(writes[t]).file # "backlight"
          BY <4>4 DEF Planned
        <4> QED BY <1>0, <1>1, <2>1, <2>2, <3>1, <4>5 DEF LcdPart
      <3>2. CASE t = LcdThread /\ failures = 0
        <4> DEFINE w == HalfWrite(pushed[t])
        <4>1. writes[t] = <<w>>
          BY <1>1, <2>1, <3>2 DEF LcdPart
        <4>2. w.file = "backlight" /\ w.val = Half(pushed[t])
          BY DEF HalfWrite
        <4> HIDE DEF w
        <4>3. Head(<<w>>) = w /\ Tail(<<w>>) = <<>>
          OBVIOUS
        <4>4. writes'[t] = <<>> /\ backlight' = Half(pushed[t])
          BY <2>1, <2>2, <4>1, <4>2, <4>3
        <4> QED BY <2>1, <3>2, <4>4 DEF LcdPart
      <3>3. CASE failures # 0
        BY <2>1, <3>3 DEF LcdPart
      <3> QED BY <1>0, <3>1, <3>2, <3>3
    <2> QED BY <1>1, <2>1, <2>3, <2>4 DEF RestInv
  <1>7. CASE WriteFails(t) /\ UNCHANGED pushed
    <2>1. failures' # 0
      BY <1>7, NoneAstray
    <2>2. UNCHANGED <<pushed, pc, dev, arg, g_battery, g_notification>>
      BY <1>7 DEF WriteFails, globals
    <2>3. Owner' /\ LedPart' /\ LcdPart'
      BY <1>1, <2>1, <2>2 DEF Owner, LedPart, LcdPart
    <2> QED BY <2>1, <2>3 DEF RestInv
  <1>8. CASE Unlock(t) /\ UNCHANGED pushed
    <2>1. /\ pc[t] = "write" /\ pc' = [pc EXCEPT ![t] = "idle"]
          /\ UNCHANGED <<pushed, dev, arg, writes, g_battery, g_notification, backlight, failures, missed>>
      BY <1>8 DEF Unlock, globals, board
    <2>2. pc'[t] = "idle" /\ \A u \in Threads : u # t => pc'[u] = pc[u]
      BY <1>1, <2>1 DEF LockInv
    <2>3. Owner'
      BY <1>0, <1>1, <2>1, <2>2 DEF Owner
    <2>4. LedPart' /\ LcdPart'
      BY <1>0, <1>1, <2>1, <2>2 DEF LedPart, LcdPart
    <2> QED BY <1>1, <2>1, <2>3, <2>4 DEF RestInv
  <1> QED
    BY <1>2, <1>3, <1>4, <1>5, <1>6, <1>7, <1>8 DEF Framework, Proceed

\* From the button and the bar to the board: whenever no call is under way,
\* the framework has passed on what app and screen ask for, and no write has
\* failed, a screen that is on has a backlight of half of the brightness set and
\* the LED is dark; a screen that is off has none, and the LED blinks if and
\* only if the notification is posted.  This is the state that LightsSettle
\* says is reached.
THEOREM DemoShownAtRest == DemoSpec => []RestShows
  <1> DEFINE I == RestInv /\ BarTypes
  <1>1. DemoInit => I
    BY InitRest, BarTyped
  <1>2. I /\ [DemoNext]_demo_vars => I'
    <2> SUFFICES ASSUME RestInv, BarTypes, [DemoNext]_demo_vars PROVE RestInv'
      BY BarTyped
    <2>1. ShowInv'
      BY HalStep, NextShow DEF RestInv
    <2>2. CASE UNCHANGED <<vars, pushed>>
      BY <2>1, <2>2 DEF vars, RestInv, Owner, LedPart, LcdPart
    <2>3. ASSUME NEW t \in Threads, Framework(t) PROVE RestInv'
      BY <2>1, <2>3, FrameworkRest
    <2> QED BY <2>2, <2>3 DEF DemoNext, demo_vars
  <1>3. I => RestShows
    <2> SUFFICES ASSUME RestInv, BarTypes, AtRest
                 PROVE  /\ backlight = IF screen THEN brightness \div 2 ELSE 0
                        /\ \A l \in {"red", "blue"} :
                            (Shown(leds[l]).mode = "blink") <=> notif /\ ~screen
      BY DEF RestShows
    <2>0. /\ LedThread \in Threads /\ LcdThread \in Threads /\ LedThread # LcdThread
          /\ failures = 0 /\ missed = {} /\ LockInv /\ HalTypes
          /\ \A t \in Threads : pc[t] = "idle" /\ pushed[t] = Wanted(t) /\ writes[t] = <<>>
      BY LightDemoAssumption DEF AtRest, RestInv, ShowInv, HalTypes
    <2>1. lock = NoThread
      BY <2>0 DEF LockInv, LockGuardsUpdate, HalTypes
    <2>2. PICK b : b = IF screen THEN brightness ELSE 0
      OBVIOUS
    <2>3. backlight = IF screen THEN brightness \div 2 ELSE 0
      <3>1. backlight = Half(ScreenLight(b))
        BY <2>0, <2>2 DEF RestInv, LcdPart, Wanted
      <3>2. b \in 0..255
        BY <2>2 DEF BarTypes
      <3>3. backlight = b \div 2
        BY <3>1, <3>2, GrayFacts
      <3> QED BY <2>2, <3>3
    <2>4. g_battery = Off /\ g_notification = IF notif /\ ~screen THEN NotificationLight ELSE Off
      BY <2>0 DEF RestInv, LedPart, Wanted
    <2>5. Target = IF notif /\ ~screen THEN NotificationLight ELSE Off
      BY <2>4, ColorFacts DEF Target
    <2>6. \A l \in {"red", "blue"} : Shown(leds[l]) = Light(Target, l)
      BY <2>0, <2>1 DEF RestInv, ShowInv, AllShown, LedNames
    <2>7. ASSUME NEW l \in {"red", "blue"}
          PROVE  (Shown(leds[l]).mode = "blink") <=> notif /\ ~screen
      <3>1. CASE notif /\ ~screen
        <4>1. Component(NotificationLight.color, l) = 255 /\ NotificationLight.flash
          BY ColorFacts DEF NotificationLight
        <4>2. Light(NotificationLight, l).mode = "blink"
          BY <4>1 DEF Light
        <4> QED BY <2>5, <2>6, <3>1, <4>2
      <3>2. CASE ~(notif /\ ~screen)
        <4>1. Light(Off, l) = [mode |-> "off"]
          BY ColorFacts DEF Light
        <4> QED BY <2>5, <2>6, <3>2, <4>1
      <3> QED BY <3>1, <3>2
    <2> QED BY <2>3, <2>7
  <1> QED BY <1>1, <1>2, <1>3, PTL DEF DemoSpec

================================================================================
