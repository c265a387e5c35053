------------------------------- MODULE LightDemo -------------------------------
(***************************************************************************)
(* The light demo, App_Addons_002_LightDemo MainActivity.java, on top of   *)
(* the lights HAL: a button that lets the notification LED blink 20 s      *)
(* after a click, and a seek bar for the screen's brightness.              *)
(*                                                                         *)
(* Every click posts the runnable once more; it looks at the field         *)
(* flashing of its activity when it runs.  The delay is the same for all   *)
(* of them, so they run in the order of the clicks.  The system may        *)
(* destroy the activity and create another one, with the views' state or   *)
(* without, while the runnables stay in the queue of the main thread.      *)
(*                                                                         *)
(* Between app and HAL is the framework, which is external: a thread that  *)
(* sets the notification light and one that sets the backlight.  Which     *)
(* lights it wants depends on the screen: the board is to blank it 15 s    *)
(* after the last touch, so that the light of the notification can be seen *)
(* 20 s after the click.                                                   *)
(***************************************************************************)
EXTENDS LightsHal

CONSTANTS
    LedThread, LcdThread,   \* the framework's two threads
    Positions,              \* where the user drags the bar to, of 0..100
    FirstBrightness,        \* values of SCREEN_BRIGHTNESS at first
    MaxClicks,              \* bound: clicks
    MaxDrags,               \* bound: moves of the bar
    MaxRestarts,            \* bound: activities created after the first
    MaxToggles              \* bound: how often the screen goes off or on

ASSUME LightDemoAssumption ==
    /\ Threads = {LedThread, LcdThread}
    /\ LedThread # LcdThread
    /\ Positions \subseteq 0..100
    /\ FirstBrightness \subseteq 0..255
    /\ {MaxClicks, MaxDrags, MaxRestarts, MaxToggles} \subseteq Nat

VARIABLES
    activity,       \* number of the activity on the screen
    flashing,       \* the field, of each activity
    runnables,      \* the queue of the main thread: whose runnable is next
    notif,          \* whether notification 123 is posted
    progress,       \* of the seek bar
    brightness,     \* Settings.System.SCREEN_BRIGHTNESS
    screen,         \* whether the screen is on
    toggles,
    clicks,
    drags,
    last,           \* history: the activity whose button was clicked last
    pushed          \* what each framework thread has asked of the HAL last

app == <<activity, flashing, runnables, notif, progress, brightness, clicks, drags,
         last>>
display == <<screen, toggles>>
demo_vars == <<vars, app, display, pushed>>

Activities == 1..(MaxRestarts + 1)

-----------------------------------------------------------------------------
(* The app.                                                                 *)

ToProgress(b) == (b * 100) \div 255
ToBrightness(p) == (p * 255) \div 100

AppInit ==
    /\ activity = 1
    /\ flashing = [a \in Activities |-> FALSE]
    /\ runnables = <<>>
    /\ notif = FALSE
    /\ brightness \in FirstBrightness
    /\ progress = ToProgress(brightness)
    /\ clicks = 0
    /\ drags = 0
    /\ last = 0
    /\ screen = TRUE
    /\ toggles = 0

\* Mutant: a click that stops the light posts nothing.
OnClickStop ==
    /\ screen
    /\ clicks < MaxClicks
    /\ clicks' = clicks + 1
    /\ last' = activity
    /\ flashing' = [flashing EXCEPT ![activity] = ~@]
    /\ runnables' = IF flashing[activity] THEN runnables
                    ELSE Append(runnables, activity)
    /\ UNCHANGED <<activity, notif, progress, brightness, drags>>

\* onClick: toggle the field and post the runnable 20 s ahead.  A user's touch
\* needs a screen that is on.
OnClick ==
    /\ screen
    /\ clicks < MaxClicks
    /\ clicks' = clicks + 1
    /\ last' = activity
    /\ flashing' = [flashing EXCEPT ![activity] = ~@]
    /\ runnables' = Append(runnables, activity)
    /\ UNCHANGED <<activity, notif, progress, brightness, drags>>

\* LightRunnable.run: FlashingLight or ClearLED.
RunLight ==
    /\ runnables # <<>>
    /\ notif' = flashing[Head(runnables)]
    /\ runnables' = Tail(runnables)
    /\ UNCHANGED <<activity, flashing, progress, brightness, clicks, drags, last>>

\* onProgressChanged, for a move of the user.
OnProgressChanged ==
    /\ screen
    /\ drags < MaxDrags
    /\ drags' = drags + 1
    /\ \E p \in Positions \ {progress} :
        /\ progress' = p
        /\ brightness' = ToBrightness(p)
    /\ UNCHANGED <<activity, flashing, runnables, notif, clicks, last>>

\* Mutant: the listener is set before the bar.
OnCreateListenerFirst ==
    /\ progress' = ToProgress(brightness)
    /\ brightness' = ToBrightness(progress')

\* onCreate sets the bar from the settings before it sets the listener.
OnCreate ==
    /\ progress' = ToProgress(brightness)
    /\ UNCHANGED brightness

\* A restored bar: after onCreate the system puts it where it was, with the
\* listener in place, which runs onProgressChanged if that is a move.
OnRestore ==
    /\ progress' = progress
    /\ brightness' = IF progress = ToProgress(brightness) THEN brightness
                     ELSE ToBrightness(progress)

Restart ==
    /\ activity <= MaxRestarts
    /\ activity' = activity + 1
    /\ UNCHANGED <<flashing, notif, clicks, drags, last>>

\* The user leaves the activity and starts it again; the process lives on.
Reopen ==
    /\ screen
    /\ Restart
    /\ OnCreate
    /\ UNCHANGED runnables

\* The system recreates the activity, at any time.
Recreate ==
    /\ Restart
    /\ OnRestore
    /\ UNCHANGED runnables

\* The process is killed, and with it the queue; the notification stays.  The
\* user starts the activity anew or comes back to the one that was saved.
KilledAndReopened ==
    /\ screen
    /\ Restart
    /\ OnCreate \/ OnRestore
    /\ runnables' = <<>>

-----------------------------------------------------------------------------
(* The framework.                                                           *)

\* The screen goes off, when nobody touches it or by the power button, or comes
\* back on.
ToggleScreen ==
    /\ toggles < MaxToggles
    /\ toggles' = toggles + 1
    /\ screen' = ~screen

NotificationLight == [color |-> 16777216 + 16711935, flash |-> TRUE,
                      on |-> 100, off |-> 100]
ScreenLight(b) == [color |-> 16777216 + 65536 * b + 256 * b + b, flash |-> FALSE,
                   on |-> 0, off |-> 0]

\* A blank screen has no backlight, and the LED is for those who cannot see the
\* screen: it shows a notification only while the screen is off.
Wanted(t) ==
    IF t = LcdThread THEN ScreenLight(IF screen THEN brightness ELSE 0)
    ELSE IF notif /\ ~screen THEN NotificationLight ELSE Off

OpenDevice(t) ==
    /\ Open(t)
    /\ dev'[t] = IF t = LcdThread THEN "backlight" ELSE "notifications"
    /\ UNCHANGED pushed

Push(t) ==
    /\ pushed[t] # Wanted(t)
    /\ SetLight(t)
    /\ arg'[t] = Wanted(t)
    /\ pushed' = [pushed EXCEPT ![t] = Wanted(t)]

Framework(t) ==
    /\ OpenDevice(t) \/ Push(t) \/ (Proceed(t) /\ UNCHANGED pushed)
    /\ UNCHANGED <<app, display>>

-----------------------------------------------------------------------------
DemoInit ==
    /\ Init
    /\ AppInit
    /\ pushed = [t \in Threads |-> Off]

User == OnClick \/ OnProgressChanged \/ Reopen \/ Recreate \/ KilledAndReopened

DemoNext ==
    \/ (RunLight \/ User) /\ UNCHANGED <<vars, display, pushed>>
    \/ ToggleScreen /\ UNCHANGED <<vars, app, pushed>>
    \/ \E t \in Threads : Framework(t)

\* The framework's threads run on; the user does as he likes, and so does the
\* screen.  A runnable is not forced to run: its delay counts the time the board
\* is awake, and a board with a blank screen may sleep.
DemoSpec ==
    /\ DemoInit /\ [][DemoNext]_demo_vars
    /\ \A t \in Threads : WF_demo_vars(Framework(t))

-----------------------------------------------------------------------------
(* Properties.                                                              *)

\* A click takes hold in the end: whatever clicks, restarts and runnables of
\* activities that are gone came between, once the queue is empty the
\* notification is there if and only if the button that was clicked last says
\* so, as long as its activity is on the screen.
LightFollowsButton ==
    runnables = <<>> /\ last = activity => notif = flashing[activity]

\* Only a move of the user changes the screen's brightness: the rounding from
\* 0-255 to 0-100 and back, in onCreate and in a restored bar, does not dim
\* the screen a little with every restart.
OnlyUserDims == [][brightness' # brightness => drags' = drags + 1]_demo_vars

\* Unless a write to the board failed, the board comes to show what it should,
\* whatever clicks, moves, runnables and changes of the screen came while the
\* HAL was busy: with the screen on, a backlight of half of the brightness set
\* and a dark LED; with the screen off, no backlight, and a LED that blinks if
\* and only if the notification is posted.
LightsSettle ==
    <>[](\/ failures > 0
         \/ /\ backlight = IF screen THEN brightness \div 2 ELSE 0
            /\ \A l \in {"red", "blue"} :
                (Shown(leds[l]).mode = "blink") <=> notif /\ ~screen)
===============================================================================
