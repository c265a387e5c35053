------------------------------- MODULE LightsHal -------------------------------
(***************************************************************************)
(* The lights HAL, bsp/ledDriver/lights.c: three lights that the framework *)
(* opens and sets from its threads.  Battery and notifications share one   *)
(* RGB LED, and the notification wins while it is lit.                     *)
(*                                                                         *)
(* An update of the LED is a series of writes to sysfs files, each of      *)
(* which may fail and whose results nobody looks at.  The mutex g_lock is  *)
(* set up through pthread_once on the first open.                          *)
(***************************************************************************)
EXTENDS Integers, SequencesExt

CONSTANTS
    Threads,        \* the framework's threads, each with one device at most
    States,         \* light_state_t: [color, flash, on, off]
    MaxCalls,       \* bound: set_light calls by each thread
    MaxFailures,    \* bound: writes that fail
    NoThread

ASSUME LightsAssumption ==
    /\ States \subseteq [color : Nat, flash : BOOLEAN, on : Nat, off : Nat]
    /\ MaxCalls \in Nat
    /\ MaxFailures \in Nat
    /\ NoThread \notin Threads

VARIABLES
    once,           \* pthread_once: "no", "running", "done"
    lock,           \* who holds g_lock
    pc,             \* where each thread is
    dev,            \* the light of its device, or "none"
    arg,            \* the state it was asked to set
    writes,         \* the writes it has left to do
    calls,          \* how many calls it has made
    g_battery,
    g_notification,
    leds,           \* what each LED's files hold
    backlight,      \* what the backlight device was given
    failures,       \* how many writes failed
    missed          \* history: the LEDs a write has missed in the last update

globals == <<g_battery, g_notification>>
board == <<leds, backlight, failures, missed>>
vars == <<once, lock, pc, dev, arg, writes, calls, g_battery, g_notification,
          leds, backlight, failures, missed>>

Lights == {"backlight", "battery", "notifications"}
Leds == <<"red", "green", "blue">>
Off == [color |-> 0, flash |-> FALSE, on |-> 0, off |-> 0]

-----------------------------------------------------------------------------
(* Color tools.                                                            *)

Red(color) == (color \div 65536) % 256
Green(color) == (color \div 256) % 256
Blue(color) == color % 256
Component(color, led) ==
    CASE led = "red" -> Red(color)
      [] led = "green" -> Green(color)
      [] led = "blue" -> Blue(color)

is_lit(s) == s.color % 16777216 # 0

\* Mutant: the alpha is taken along.
rgb_to_brightness_alpha(s) ==
    (77 * (s.color \div 65536) + 150 * Green(s.color) + 29 * Blue(s.color)) \div 256

rgb_to_brightness(s) ==
    (77 * Red(s.color) + 150 * Green(s.color) + 29 * Blue(s.color)) \div 256

-----------------------------------------------------------------------------
(* The LED class (drivers/leds): a trigger starts with its own delays, the  *)
(* delay files are there while the trigger is the timer, and brightness 0   *)
(* removes the trigger.                                                     *)

DefaultDelay == 500

Stored(led, file, val) ==
    CASE file = "trigger" ->
            [led EXCEPT !.trigger = val, !.delay_on = DefaultDelay,
                        !.delay_off = DefaultDelay]
      [] file = "delay_on" -> [led EXCEPT !.delay_on = val]
      [] file = "delay_off" -> [led EXCEPT !.delay_off = val]
      [] file = "brightness" ->
            IF val = 0 THEN [led EXCEPT !.brightness = 0, !.trigger = "none"]
            ELSE [led EXCEPT !.brightness = val]

Exists(led, file) == file \in {"delay_on", "delay_off"} => led.trigger = "timer"

-----------------------------------------------------------------------------
(* The writes of an update.                                                 *)

\* The same file of each LED in turn, with the same value or its own.
ForLeds(file, val) ==
    [i \in DOMAIN Leds |-> [led |-> Leds[i], file |-> file, val |-> val[Leds[i]]]]
All(val) == [l \in ToSet(Leds) |-> val]
Components(color) == [l \in ToSet(Leds) |-> Component(color, l)]

\* Mutant: going from flashing to steady, the trigger stays.
set_shared_light_keep(s) ==
    (IF s.flash
     THEN ForLeds("trigger", All("timer"))
          \o ForLeds("delay_on", All(s.on))
          \o ForLeds("delay_off", All(s.off))
     ELSE <<>>)
    \o ForLeds("brightness", Components(s.color))

set_shared_light_locked(s) ==
    (IF s.flash
     THEN ForLeds("trigger", All("timer"))
          \o ForLeds("delay_on", All(s.on))
          \o ForLeds("delay_off", All(s.off))
     ELSE ForLeds("trigger", All("none")))
    \o ForLeds("brightness", Components(s.color))

handle_shared_battery_locked(notification, battery) ==
    set_shared_light_locked(IF is_lit(notification) THEN notification ELSE battery)

\* Mutant: not scaled to the range of the device.
BacklightWriteFull(s) ==
    <<[led |-> "lcd", file |-> "backlight", val |-> rgb_to_brightness(s)]>>

BacklightWrite(s) ==
    <<[led |-> "lcd", file |-> "backlight", val |-> rgb_to_brightness(s) \div 2]>>

-----------------------------------------------------------------------------
Dark == [trigger |-> "none", delay_on |-> DefaultDelay,
         delay_off |-> DefaultDelay, brightness |-> 0]

Init ==
    /\ once = "no"
    /\ lock = NoThread
    /\ pc = [t \in Threads |-> "idle"]
    /\ dev = [t \in Threads |-> "none"]
    /\ arg = [t \in Threads |-> Off]
    /\ writes = [t \in Threads |-> <<>>]
    /\ calls = [t \in Threads |-> 0]
    /\ g_battery = Off
    /\ g_notification = Off
    /\ leds = [l \in ToSet(Leds) |-> Dark]
    /\ backlight = 0
    /\ failures = 0
    /\ missed = {}

-----------------------------------------------------------------------------
(* open_lights and close_lights.                                            *)

\* A known name; an unknown one returns -EINVAL before anything happens.
Open(t) ==
    /\ pc[t] = "idle"
    /\ dev[t] = "none"
    /\ \E l \in Lights : dev' = [dev EXCEPT ![t] = l]
    /\ pc' = [pc EXCEPT ![t] = "once"]
    /\ UNCHANGED <<once, lock, arg, writes, calls, globals, board>>

\* Mutant: init_globals is called on every open.
OnceBeginAlways(t) ==
    /\ pc[t] = "once"
    /\ pc' = [pc EXCEPT ![t] = "init"]
    /\ once' = "running"
    /\ UNCHANGED <<lock, dev, arg, writes, calls, globals, board>>

\* pthread_once: the first thread runs init_globals, later ones wait for it.
OnceBegin(t) ==
    /\ pc[t] = "once"
    /\ once = "no"
    /\ once' = "running"
    /\ pc' = [pc EXCEPT ![t] = "init"]
    /\ UNCHANGED <<lock, dev, arg, writes, calls, globals, board>>

OnceDone(t) ==
    /\ pc[t] = "once"
    /\ once = "done"
    /\ pc' = [pc EXCEPT ![t] = "idle"]
    /\ UNCHANGED <<once, lock, dev, arg, writes, calls, globals, board>>

\* init_globals: pthread_mutex_init leaves g_lock free, whoever held it.
InitGlobals(t) ==
    /\ pc[t] = "init"
    /\ once' = "done"
    /\ lock' = NoThread
    /\ pc' = [pc EXCEPT ![t] = "idle"]
    /\ UNCHANGED <<dev, arg, writes, calls, globals, board>>

Close(t) ==
    /\ pc[t] = "idle"
    /\ dev[t] # "none"
    /\ dev' = [dev EXCEPT ![t] = "none"]
    /\ UNCHANGED <<once, lock, pc, arg, writes, calls, globals, board>>

-----------------------------------------------------------------------------
(* set_light_backlight, set_light_battery and set_light_notifications.     *)

SetLight(t) ==
    /\ pc[t] = "idle"
    /\ dev[t] # "none"
    /\ calls[t] < MaxCalls
    /\ calls' = [calls EXCEPT ![t] = @ + 1]
    /\ \E s \in States : arg' = [arg EXCEPT ![t] = s]
    /\ pc' = [pc EXCEPT ![t] = "lock"]
    /\ UNCHANGED <<once, lock, dev, writes, globals, board>>

\* With the lock, the state is stored and the writes that follow are fixed.
Lock(t) ==
    /\ pc[t] = "lock"
    /\ lock = NoThread
    /\ lock' = t
    /\ g_battery' = IF dev[t] = "battery" THEN arg[t] ELSE g_battery
    /\ g_notification' = IF dev[t] = "notifications" THEN arg[t] ELSE g_notification
    /\ writes' = [writes EXCEPT ![t] =
            IF dev[t] = "backlight" THEN BacklightWrite(arg[t])
            ELSE handle_shared_battery_locked(g_notification', g_battery')]
    /\ missed' = IF dev[t] = "backlight" THEN missed ELSE {}
    /\ pc' = [pc EXCEPT ![t] = "write"]
    /\ UNCHANGED <<once, dev, arg, calls, leds, backlight, failures>>

\* write_int and write_string: open, write and close.
Write(t) ==
    /\ pc[t] = "write"
    /\ writes[t] # <<>>
    /\ LET w == Head(writes[t]) IN
        IF w.file = "backlight"
        THEN /\ backlight' = w.val
             /\ UNCHANGED leds
        ELSE /\ Exists(leds[w.led], w.file)
             /\ leds' = [leds EXCEPT ![w.led] = Stored(@, w.file, w.val)]
             /\ UNCHANGED backlight
    /\ writes' = [writes EXCEPT ![t] = Tail(@)]
    /\ UNCHANGED <<once, lock, pc, dev, arg, calls, globals, failures, missed>>

\* Either fails: the file is not there, or for a reason of its own.
WriteFails(t) ==
    /\ pc[t] = "write"
    /\ writes[t] # <<>>
    /\ LET w == Head(writes[t]) IN
        /\ IF w.file # "backlight" /\ ~Exists(leds[w.led], w.file)
           THEN UNCHANGED failures
           ELSE /\ failures < MaxFailures
                /\ failures' = failures + 1
        /\ missed' = IF w.file = "backlight" THEN missed ELSE missed \cup {w.led}
    /\ writes' = [writes EXCEPT ![t] = Tail(@)]
    /\ UNCHANGED <<once, lock, pc, dev, arg, calls, globals, leds, backlight>>

\* Mutant: the lock is kept.
UnlockNot(t) ==
    /\ pc[t] = "write"
    /\ writes[t] = <<>>
    /\ pc' = [pc EXCEPT ![t] = "idle"]
    /\ UNCHANGED <<once, lock, dev, arg, writes, calls, globals, board>>

Unlock(t) ==
    /\ pc[t] = "write"
    /\ writes[t] = <<>>
    /\ lock' = NoThread
    /\ pc' = [pc EXCEPT ![t] = "idle"]
    /\ UNCHANGED <<once, dev, arg, writes, calls, globals, board>>

-----------------------------------------------------------------------------
\* What a call does on its own once begun.
Proceed(t) ==
    \/ OnceBegin(t) \/ OnceDone(t) \/ InitGlobals(t)
    \/ Lock(t) \/ Write(t) \/ WriteFails(t) \/ Unlock(t)

Next == \E t \in Threads : Open(t) \/ Close(t) \/ SetLight(t) \/ Proceed(t)

\* A thread inside the HAL runs on.
Spec == Init /\ [][Next]_vars /\ \A t \in Threads : WF_vars(Proceed(t))

-----------------------------------------------------------------------------
(* Properties.                                                              *)

LedState == [trigger : {"none", "timer"}, delay_on : Nat, delay_off : Nat,
             brightness : 0..255]

WriteOK(w) ==
    CASE w.file = "trigger" -> w.led \in ToSet(Leds) /\ w.val \in {"none", "timer"}
      [] w.file \in {"delay_on", "delay_off", "brightness"} ->
            w.led \in ToSet(Leds) /\ w.val \in Nat
      [] w.file = "backlight" -> w.val \in Nat

\* LCD_BACKLIGHT_FILE takes 0-127, and a LED's brightness is a byte, whatever
\* is in the alpha of the color.
TypeOK ==
    /\ once \in {"no", "running", "done"}
    /\ lock \in Threads \cup {NoThread}
    /\ pc \in [Threads -> {"idle", "once", "init", "lock", "write"}]
    /\ dev \in [Threads -> Lights \cup {"none"}]
    /\ arg \in [Threads -> States \cup {Off}]
    /\ \A t \in Threads : \A i \in DOMAIN writes[t] : WriteOK(writes[t][i])
    /\ calls \in [Threads -> 0..MaxCalls]
    /\ g_battery \in States \cup {Off}
    /\ g_notification \in States \cup {Off}
    /\ leds \in [ToSet(Leds) -> LedState]
    /\ backlight \in 0..127
    /\ failures \in 0..MaxFailures
    /\ missed \subseteq ToSet(Leds)

\* One thread at a time writes to the board, from storing the state to the
\* last write: no thread's g_lock is initialised under it by an open, and none
\* is left locked.
LockGuardsUpdate ==
    /\ \A t \in Threads : pc[t] = "write" <=> lock = t
    /\ lock # NoThread => once = "done"

\* What a LED should do for a state: off, steady, or blinking.
Light(s, l) ==
    IF Component(s.color, l) = 0 THEN [mode |-> "off"]
    ELSE IF s.flash
    THEN [mode |-> "blink", level |-> Component(s.color, l), on |-> s.on, off |-> s.off]
    ELSE [mode |-> "steady", level |-> Component(s.color, l)]

\* What it does.
Shown(led) ==
    IF led.trigger = "timer"
    THEN [mode |-> "blink", level |-> led.brightness, on |-> led.delay_on,
          off |-> led.delay_off]
    ELSE IF led.brightness = 0 THEN [mode |-> "off"]
    ELSE [mode |-> "steady", level |-> led.brightness]

\* Whenever no update is under way, every LED that the last update could write
\* shows the notification while it is lit and the battery otherwise, however
\* the calls interleaved and whatever earlier updates failed to write.
SharedLightShown ==
    lock = NoThread =>
        \A l \in ToSet(Leds) \ missed :
            Shown(leds[l]) =
                Light(IF is_lit(g_notification) THEN g_notification ELSE g_battery, l)

\* Every call into the HAL returns: a failed write does not end an update with
\* the lock held, and no thread waits for an initialisation that is over.
CallsReturn == \A t \in Threads : pc[t] # "idle" ~> pc[t] = "idle"
===============================================================================
