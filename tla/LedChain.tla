------------------------------- MODULE LedChain -------------------------------
(***************************************************************************)
(* The LEDs from the app to the pins: MainActivity of led_001, LedService  *)
(* in the system server, its native part com_android_server_LedService.cpp *)
(* and the character driver leds_tiny4412.c.                               *)
(*                                                                         *)
(* A call of ledCtrl passes through all four; every layer below the app    *)
(* hands on no error.  The call itself may throw when the system server    *)
(* dies.                                                                   *)
(***************************************************************************)
EXTENDS Integers

CONSTANTS
    MaxLost         \* bound: calls that throw

Leds == 0..3

VARIABLES
    pc,             \* of the activity: "idle", "all", "crashed"
    i,              \* of the loop in onClick
    ledon,
    box,            \* the check boxes
    proxy,          \* whether onCreate found the service
    fd,             \* of LedService: -1 when the device could not be opened
    output,         \* the pins that are configured as outputs
    gpio,           \* the pins
    lost,           \* how many calls threw
    set             \* history: the LEDs whose last call did not throw

vars == <<pc, i, ledon, box, proxy, fd, output, gpio, lost, set>>
activity == <<ledon, box, proxy>>

\* The LEDs are lit by a low pin (leds_4412.c does the same).
Lit(n) == gpio[n] = 0

-----------------------------------------------------------------------------
(* The driver.                                                              *)

\* The entries of struct file_operations that are filled in.
leds_ops == {"owner", "open"}

\* cmd 0 or 1; the test of arg is never true, and the index is arg & 0x0f.
leds_ioctl(cmd, arg) ==
    IF cmd \notin {0, 1} THEN gpio ELSE [gpio EXCEPT ![arg % 16] = cmd]

\* The kernel's ioctl: -ENOTTY without the entry, -EBADF without the file.
vfs_ioctl(cmd, arg) ==
    IF fd >= 0 /\ "unlocked_ioctl" \in leds_ops THEN leds_ioctl(cmd, arg) ELSE gpio

(* LedService.                                                              *)

\* The constructor: ledopen, whose result it does not look at, and leds_open.
LedService ==
    \/ fd = 3 /\ output = Leds
    \/ fd = -1 /\ output = {}

\* ledctrl passes which and status on and returns 0 whatever ioctl says.
ledctrl(which, status) == vfs_ioctl(status, which)

-----------------------------------------------------------------------------
(* The app.                                                                 *)

\* onCreate, with or without the service.
Init ==
    /\ LedService
    /\ gpio \in [Leds -> 0..1]
    /\ proxy \in BOOLEAN
    /\ pc = "idle"
    /\ i = 0
    /\ ledon = FALSE
    /\ box = [n \in Leds |-> FALSE]
    /\ lost = 0
    /\ set = {}

Status(on) == IF on THEN 1 ELSE 0

\* ledCtrl.invoke(proxy, n, status) returned, threw an exception that is
\* caught, or proxy is null and it is not.
Invoked(n, status) ==
    /\ proxy
    /\ gpio' = ledctrl(n, status)
    /\ set' = set \cup {n}
    /\ UNCHANGED <<lost, fd, output>>

Threw(missed) ==
    /\ proxy
    /\ lost < MaxLost
    /\ lost' = lost + 1
    /\ set' = set \ missed
    /\ UNCHANGED <<gpio, fd, output>>

NullPointer ==
    /\ ~proxy
    /\ pc' = "crashed"
    /\ UNCHANGED <<gpio, fd, output, lost, set>>

\* onClick: toggle, check or clear every box, then the loop.
OnClick ==
    /\ pc = "idle"
    /\ ledon' = ~ledon
    /\ box' = [n \in Leds |-> ledon']
    /\ i' = 0
    /\ pc' = "all"
    /\ UNCHANGED <<proxy, fd, output, gpio, lost, set>>

\* One turn of the loop, which an exception ends.
Turn ==
    /\ pc = "all"
    /\ \/ /\ Invoked(i, Status(ledon))
          /\ i' = i + 1
          /\ pc' = IF i = 3 THEN "idle" ELSE "all"
       \/ /\ Threw({n \in Leds : n >= i})
          /\ pc' = "idle"
          /\ UNCHANGED i
       \/ NullPointer /\ UNCHANGED i
    /\ UNCHANGED activity

\* onCheckboxClicked: the view has toggled the box.
OnCheckboxClicked ==
    /\ pc = "idle"
    /\ \E n \in Leds :
        /\ box' = [box EXCEPT ![n] = ~@]
        /\ \/ Invoked(n, Status(box'[n])) /\ UNCHANGED pc
           \/ Threw({n}) /\ UNCHANGED pc
           \/ NullPointer
    /\ UNCHANGED <<i, ledon, proxy>>

Next == OnClick \/ Turn \/ OnCheckboxClicked

Spec == Init /\ [][Next]_vars

-----------------------------------------------------------------------------
\* Between the user's actions, a LED whose last call went through is lit if and
\* only if its box is checked, unless the device could not be opened.
LedsFollowBoxes ==
    pc = "idle" /\ fd >= 0 => \A n \in set : Lit(n) <=> box[n]
===============================================================================
