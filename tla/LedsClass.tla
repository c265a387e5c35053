------------------------------- MODULE LedsClass -------------------------------
(***************************************************************************)
(* The LED class driver, bsp/ledDriver/leds_4412.c: it registers one       *)
(* led_classdev for each LED of the board, in one array from kzalloc.      *)
(* A registration may fail, and leds_init then takes back what it did      *)
(* and goes on with its loop.  What happens in the array after it was      *)
(* freed is undefined; the model follows the case in which the memory is   *)
(* left alone, and no property speaks of its contents then.                *)
(***************************************************************************)
EXTENDS Integers

CONSTANTS
    NumLeds,        \* length of led_gpios
    MaxFailures     \* bound: registrations that fail

ASSUME LedsClassAssumption == NumLeds \in Nat /\ MaxFailures \in Nat

VARIABLES
    insmod_pc,      \* of the thread in leds_init or leds_exit:
                    \* "unloaded", "loop", "undo", "loaded", "unloading"
    i,              \* of leds_init and leds_exit
    led_devs,       \* the array: "none", "allocated" or "freed"
    registered,     \* kernel: the elements on the list of LED devices
    brightness,     \* in the array
    gpio,           \* the pins; a LED is lit at 0
    failures

leds_vars == <<insmod_pc, i, led_devs, registered, brightness, gpio, failures>>

Leds == 0..(NumLeds - 1)

LedsInit ==
    /\ insmod_pc = "unloaded"
    /\ i = 0
    /\ led_devs = "none"
    /\ registered = {}
    /\ brightness = [n \in Leds |-> 0]
    /\ gpio \in [Leds -> 0..1]
    /\ failures = 0

-----------------------------------------------------------------------------
\* insmod.  Without memory the module is not loaded and nothing changes.
Load ==
    /\ insmod_pc = "unloaded"
    /\ insmod_pc' = "loop"
    /\ i' = 0
    /\ led_devs' = "allocated"
    /\ brightness' = [n \in Leds |-> 0]
    /\ UNCHANGED <<registered, gpio, failures>>

\* One turn of the loop: the pin is set high, the structure filled and
\* registered.
SetUp ==
    /\ insmod_pc = "loop"
    /\ i < NumLeds
    /\ gpio' = [gpio EXCEPT ![i] = 1]
    /\ brightness' = [brightness EXCEPT ![i] = 0]

Register ==
    /\ SetUp
    /\ registered' = registered \cup {i}
    /\ i' = i + 1
    /\ UNCHANGED <<insmod_pc, led_devs, failures>>

RegisterFails ==
    /\ SetUp
    /\ failures < MaxFailures
    /\ failures' = failures + 1
    /\ i' = i - 1
    /\ insmod_pc' = "undo"
    /\ UNCHANGED <<led_devs, registered>>

\* Mutant: the loop stops above the first LED.
UnregisterButFirst ==
    /\ insmod_pc = "undo"
    /\ i >= 0
    /\ registered' = IF i > 0 THEN registered \ {i} ELSE registered
    /\ i' = i - 1
    /\ UNCHANGED <<insmod_pc, led_devs, brightness, gpio, failures>>

\* while (i >= 0)
Unregister ==
    /\ insmod_pc = "undo"
    /\ i >= 0
    /\ registered' = registered \ {i}
    /\ i' = i - 1
    /\ UNCHANGED <<insmod_pc, led_devs, brightness, gpio, failures>>

\* kfree, and on with i++ at the end of the turn.
Free ==
    /\ insmod_pc = "undo"
    /\ i < 0
    /\ led_devs' = "freed"
    /\ i' = i + 1
    /\ insmod_pc' = "loop"
    /\ UNCHANGED <<registered, brightness, gpio, failures>>

Loaded ==
    /\ insmod_pc = "loop"
    /\ i >= NumLeds
    /\ insmod_pc' = "loaded"
    /\ UNCHANGED <<i, led_devs, registered, brightness, gpio, failures>>

\* brightness_set_4412, called for a LED on the list.
BrightnessSet ==
    \E n \in registered, value \in {0, 255} :
        /\ brightness' = [brightness EXCEPT ![n] = value]
        /\ gpio' = [gpio EXCEPT ![n] = IF value # 0 THEN 0 ELSE 1]
        /\ UNCHANGED <<insmod_pc, i, led_devs, registered, failures>>

\* rmmod: leds_exit.
Unload ==
    /\ insmod_pc = "loaded"
    /\ insmod_pc' = "unloading"
    /\ i' = 0
    /\ UNCHANGED <<led_devs, registered, brightness, gpio, failures>>

ExitTurn ==
    /\ insmod_pc = "unloading"
    /\ i < NumLeds
    /\ registered' = registered \ {i}
    /\ i' = i + 1
    /\ UNCHANGED <<insmod_pc, led_devs, brightness, gpio, failures>>

ExitFree ==
    /\ insmod_pc = "unloading"
    /\ i >= NumLeds
    /\ led_devs' = "freed"
    /\ insmod_pc' = "unloaded"
    /\ UNCHANGED <<i, registered, brightness, gpio, failures>>

LedsNext ==
    \/ Load \/ Register \/ RegisterFails \/ Unregister \/ Free \/ Loaded
    \/ BrightnessSet \/ Unload \/ ExitTurn \/ ExitFree

LedsSpec == LedsInit /\ [][LedsNext]_leds_vars

-----------------------------------------------------------------------------
\* What is on the kernel's list of LED devices is in allocated memory, whatever
\* registration fails: leds_init allocates the structure first and registers it
\* last, and takes everything back when it fails.
RegisteredAlive == registered # {} => led_devs = "allocated"

\* At the moment the array is freed no element of it is on the kernel's list of
\* LED devices, whichever registration failed and whether leds_init takes its
\* work back or leds_exit ends it.
FreedEmpty ==
    [][led_devs = "allocated" /\ led_devs' = "freed" => registered' = {}]_leds_vars
===============================================================================
