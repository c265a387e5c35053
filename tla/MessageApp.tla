------------------------------ MODULE MessageApp ------------------------------
(***************************************************************************)
(* App_Addons_001_Message: an activity that starts a thread with a message *)
(* loop of its own (MyThread) and a HandlerThread, waits for the looper of *)
(* each, and sends both a message on every click.                          *)
(*                                                                         *)
(* MyThread publishes its looper under the monitor of the thread object;   *)
(* getLooper waits on that monitor.  The thread that only prints           *)
(* (MyRunnable) shares nothing and is left out.                            *)
(***************************************************************************)
EXTENDS Naturals, Sequences

CONSTANTS
    MaxClicks,      \* bound: how often the button is clicked
    MaxWakeUps      \* bound: how often wait() returns without a notification

ASSUME BoundsAssumption == MaxClicks \in Nat /\ MaxWakeUps \in Nat

VARIABLES
    ui,             \* where the UI thread is in onCreate, "run" after it, "post" in
                    \* onClick
    t2,             \* where myThread2 is; "new" until start()
    t3,             \* the HandlerThread: "new", "starting", "loop"
    monitor,        \* who holds myThread2's monitor: "none", "ui", "t2"
    waiting,        \* the UI thread is in the monitor's wait set
    wakeups,        \* how often it left the set without a notification
    mLooper,        \* MyThread.mLooper: "null" or "looper2"
    mHandler,       \* the looper it was built with
    mHandler3,
    ButtonCount,
    queue,          \* the messages of each loop that wait
    handled         \* those it has handled

vars == <<ui, t2, t3, monitor, waiting, wakeups, mLooper, mHandler, mHandler3,
          ButtonCount, queue, handled>>
thread2 == <<t2, mLooper>>
handlers == <<mHandler, mHandler3>>
messages == <<ButtonCount, queue, handled>>

Loops == {"looper2", "looper3"}
isAlive == t2 # "new"

Init ==
    /\ ui = "start2"
    /\ t2 = "new"
    /\ t3 = "new"
    /\ monitor = "none"
    /\ waiting = FALSE
    /\ wakeups = 0
    /\ mLooper = "null"
    /\ mHandler = "null"
    /\ mHandler3 = "null"
    /\ ButtonCount = 0
    /\ queue = [l \in Loops |-> <<>>]
    /\ handled = [l \in Loops |-> <<>>]

-----------------------------------------------------------------------------
(* myThread2: run.                                                         *)

Prepare ==
    /\ t2 = "prepare"
    /\ t2' = "enter"
    /\ UNCHANGED <<wakeups, ui, t3, monitor, waiting, mLooper, handlers, messages>>

Enter2 ==
    /\ t2 = "enter"
    /\ monitor = "none"
    /\ monitor' = "t2"
    /\ t2' = "publish"
    /\ UNCHANGED <<wakeups, ui, t3, waiting, mLooper, handlers, messages>>

\* Mutant: nobody is notified.
PublishQuietly ==
    /\ t2 = "publish"
    /\ mLooper' = "looper2"
    /\ t2' = "leave"
    /\ UNCHANGED <<wakeups, ui, t3, monitor, waiting, handlers, messages>>

\* mLooper = Looper.myLooper(); notifyAll()
Publish ==
    /\ t2 = "publish"
    /\ mLooper' = "looper2"
    /\ waiting' = FALSE
    /\ t2' = "leave"
    /\ UNCHANGED <<wakeups, ui, t3, monitor, handlers, messages>>

\* Mutant: run ends without Looper.loop().
Leave2NoLoop ==
    /\ t2 = "leave"
    /\ monitor = "t2"
    /\ monitor' = "none"
    /\ UNCHANGED <<wakeups, ui, t2, t3, waiting, mLooper, handlers, messages>>

Leave2 ==
    /\ t2 = "leave"
    /\ monitor' = "none"
    /\ t2' = "loop"
    /\ UNCHANGED <<wakeups, ui, t3, waiting, mLooper, handlers, messages>>

\* The HandlerThread prepares its looper in its own time.
Start3 ==
    /\ t3 = "starting"
    /\ t3' = "loop"
    /\ UNCHANGED <<wakeups, ui, thread2, monitor, waiting, handlers, messages>>

\* Looper.loop: messages are handled one by one, in the order of the queue.
Dispatch(l) ==
    /\ IF l = "looper2" THEN t2 = "loop" ELSE t3 = "loop"
    /\ queue[l] # <<>>
    /\ handled' = [handled EXCEPT ![l] = Append(@, Head(queue[l]))]
    /\ queue' = [queue EXCEPT ![l] = Tail(@)]
    /\ UNCHANGED <<wakeups, ui, thread2, t3, monitor, waiting, handlers,
                   ButtonCount>>

-----------------------------------------------------------------------------
(* The UI thread: onCreate.                                                 *)

StartThread2 ==
    /\ ui = "start2"
    /\ t2' = "prepare"
    /\ ui' = "getLooper"
    /\ UNCHANGED <<wakeups, t3, monitor, waiting, mLooper, handlers, messages>>

\* getLooper returns null at once for a thread that is not alive.
GetLooper ==
    /\ ui = "getLooper"
    /\ ui' = IF isAlive THEN "enter" ELSE "return"
    /\ UNCHANGED <<wakeups, thread2, t3, monitor, waiting, handlers, messages>>

EnterUi ==
    /\ ui = "enter"
    /\ monitor = "none"
    /\ monitor' = "ui"
    /\ ui' = "check"
    /\ UNCHANGED <<wakeups, thread2, t3, waiting, handlers, messages>>

\* while (isAlive() && mLooper == null) wait()
Check ==
    /\ ui = "check"
    /\ monitor' = "none"
    /\ IF isAlive /\ mLooper = "null"
       THEN waiting' = TRUE /\ ui' = "wait"
       ELSE ui' = "return" /\ UNCHANGED waiting
    /\ UNCHANGED <<wakeups, thread2, t3, handlers, messages>>

\* Mutant: if instead of while: the condition is not looked at again.
NotifiedOnce ==
    /\ ui = "wait"
    /\ ~waiting
    /\ monitor = "none"
    /\ ui' = "return"
    /\ UNCHANGED <<thread2, t3, monitor, waiting, wakeups, handlers, messages>>

\* wait() returns after notifyAll, an interrupt, or for no reason, once the
\* monitor is free.
Notified ==
    /\ ui = "wait"
    /\ ~waiting
    /\ monitor = "none"
    /\ monitor' = "ui"
    /\ ui' = "check"
    /\ UNCHANGED <<wakeups, thread2, t3, waiting, handlers, messages>>

WakeUp ==
    /\ ui = "wait"
    /\ waiting
    /\ wakeups < MaxWakeUps
    /\ wakeups' = wakeups + 1
    /\ waiting' = FALSE
    /\ UNCHANGED <<ui, thread2, t3, monitor, handlers, messages>>

\* Mutant: the looper of the other thread.
NewHandlerWrong ==
    /\ ui = "return"
    /\ mHandler' = "looper3"
    /\ ui' = "start3"
    /\ UNCHANGED <<thread2, t3, monitor, waiting, wakeups, mHandler3, messages>>

\* return mLooper; new Handler(...)
NewHandler ==
    /\ ui = "return"
    /\ mHandler' = mLooper
    /\ ui' = "start3"
    /\ UNCHANGED <<wakeups, thread2, t3, monitor, waiting, mHandler3, messages>>

StartThread3 ==
    /\ ui = "start3"
    /\ t3' = "starting"
    /\ ui' = "getLooper3"
    /\ UNCHANGED <<wakeups, thread2, monitor, waiting, handlers, messages>>

\* HandlerThread.getLooper waits until there is one.
NewHandler3 ==
    /\ ui = "getLooper3"
    /\ t3 = "loop"
    /\ mHandler3' = "looper3"
    /\ ui' = "run"
    /\ UNCHANGED <<wakeups, thread2, t3, monitor, waiting, mHandler, messages>>

-----------------------------------------------------------------------------
\* A handler appends to the queue of the looper it was built with.
SendTo(h, k) ==
    queue' = [l \in Loops |-> IF l = h THEN Append(queue[l], k) ELSE queue[l]]

\* Mutant: the message overtakes the ones before it.
OnClickFront ==
    /\ ui = "run"
    /\ ButtonCount < MaxClicks
    /\ ButtonCount' = ButtonCount + 1
    /\ queue' = [l \in Loops |-> IF l = mHandler THEN <<ButtonCount + 1>> \o queue[l]
                                 ELSE queue[l]]
    /\ ui' = "post"
    /\ UNCHANGED <<wakeups, thread2, t3, monitor, waiting, handlers, handled>>

\* onClick, which the UI thread runs after onCreate: it counts the click and
\* sends a message to the one loop ...
OnClick ==
    /\ ui = "run"
    /\ ButtonCount < MaxClicks
    /\ ButtonCount' = ButtonCount + 1
    /\ SendTo(mHandler, ButtonCount + 1)
    /\ ui' = "post"
    /\ UNCHANGED <<wakeups, thread2, t3, monitor, waiting, handlers, handled>>

\* ... and posts a runnable to the other.
Post ==
    /\ ui = "post"
    /\ SendTo(mHandler3, ButtonCount)
    /\ ui' = "run"
    /\ UNCHANGED <<wakeups, thread2, t3, monitor, waiting, handlers, ButtonCount, handled>>

-----------------------------------------------------------------------------
Thread2 == Prepare \/ Enter2 \/ Publish \/ Leave2
OnCreate ==
    \/ StartThread2 \/ GetLooper \/ EnterUi \/ Check \/ Notified
    \/ NewHandler \/ StartThread3 \/ NewHandler3

Next ==
    \/ Thread2 \/ Start3 \/ OnCreate \/ WakeUp \/ OnClick \/ Post
    \/ \E l \in Loops : Dispatch(l)

\* Threads that can run do.  A wake-up without a reason and a click are never
\* forced.
Spec ==
    /\ Init /\ [][Next]_vars
    /\ WF_vars(Thread2) /\ WF_vars(Start3) /\ WF_vars(OnCreate) /\ WF_vars(Post)
    /\ \A l \in Loops : WF_vars(Dispatch(l))

-----------------------------------------------------------------------------
(* Properties.                                                              *)

UiPCs == {"start2", "getLooper", "enter", "check", "wait", "return", "start3",
          "getLooper3", "run", "post"}

TypeOK ==
    /\ ui \in UiPCs
    /\ t2 \in {"new", "prepare", "enter", "publish", "leave", "loop"}
    /\ t3 \in {"new", "starting", "loop"}
    /\ monitor \in {"none", "ui", "t2"}
    /\ waiting \in BOOLEAN
    /\ wakeups \in 0..MaxWakeUps
    /\ mLooper \in {"null", "looper2"}
    /\ mHandler \in {"null", "looper2"}
    /\ mHandler3 \in {"null", "looper3"}
    /\ ButtonCount \in 0..MaxClicks
    /\ queue \in [Loops -> Seq(1..MaxClicks)]
    /\ handled \in [Loops -> Seq(1..MaxClicks)]

\* Whatever the threads' timing, and however often wait() returns early, the
\* handlers are built with the loopers of threads that have one.
HandlersBound ==
    ui \in {"start3", "getLooper3", "run", "post"}
    => /\ mHandler = "looper2"
       /\ ui \in {"run", "post"} => mHandler3 = "looper3"

\* The clicks a loop was told of: the last is on its way until it is posted.
Told(l) == IF l = "looper3" /\ ui = "post" THEN ButtonCount - 1 ELSE ButtonCount

\* Each loop has handled, or has still to handle, every click once and in the
\* order they were made, wherever onClick is.
MessagesInOrder ==
    \A l \in Loops :
        LET all == handled[l] \o queue[l]
        IN  all = [i \in 1..Told(l) |-> i]

\* onCreate does not hang in getLooper: no notification is lost between the
\* test of mLooper and the wait.
OnCreateReturns == <>(ui = "run")

\* Every click reaches both loops.
ClicksHandled ==
    \A k \in 1..MaxClicks :
        ButtonCount >= k ~> \A l \in Loops : Len(handled[l]) >= k
===============================================================================
