------------------------------ MODULE DemosProofs ------------------------------
(***************************************************************************)
(* Proofs about the small programs, each for itself: the LED class driver  *)
(* with any number of LEDs and failures, the socket pair with a counter of *)
(* any width, the message app with any number of clicks and early          *)
(* wake-ups, the epoll loop with any number of files and events, and the   *)
(* inotify loop with any directory, any names and any sizes.               *)
(*                                                                         *)
(* The last two need what a recursive function computes from a sequence    *)
(* of any length, so a part on induction comes before them.                *)
(***************************************************************************)
EXTENDS MessageApp, Epoll, Inotify, SocketPair, LedsClass, FiniteSetTheorems,
        SequenceTheorems, WellFoundedInduction, TLAPS

-----------------------------------------------------------------------------
(* The LED class driver: what is registered lies below the index while     *)
(* leds_init works its way up, not above it while it works its way back,   *)
(* and not below it in leds_exit.                                          *)

LedsInv ==
    /\ i \in Int
    /\ registered \subseteq Leds
    /\ insmod_pc \in {"unloaded", "loop", "undo", "loaded", "unloading"}
    /\ insmod_pc = "unloaded" => registered = {}
    /\ insmod_pc = "loop" => \A n \in registered : n < i
    /\ insmod_pc = "undo" => i >= -1 /\ \A n \in registered : n <= i
    /\ insmod_pc = "unloading" => \A n \in registered : n >= i
    /\ insmod_pc \in {"loop", "unloading"} => i >= 0

\* The turns of the loops of leds_init and leds_exit keep it.
LEMMA LedsStep == LedsInv /\ [LedsNext]_leds_vars => LedsInv'
  <1> SUFFICES ASSUME LedsInv, [LedsNext]_leds_vars PROVE LedsInv'
    OBVIOUS
  <1>0. /\ NumLeds \in Nat /\ i \in Int /\ registered \subseteq Leds
        /\ \A n \in Leds : n \in Int /\ 0 <= n /\ n < NumLeds
        /\ \A n \in Int : 0 <= n /\ n < NumLeds => n \in Leds
    BY LedsClassAssumption DEF LedsInv, Leds
  <1>1. CASE Load
    BY <1>0, <1>1 DEF Load, LedsInv
  <1>2. CASE Register
    <2>1. /\ insmod_pc = "loop" /\ insmod_pc' = insmod_pc /\ registered' = registered \cup {i}
          /\ i' = i + 1 /\ i < NumLeds /\ i >= 0
      BY <1>2 DEF Register, SetUp, LedsInv
    <2>2. \A n \in registered : n < i /\ n \in Int
      BY <1>0, <2>1 DEF LedsInv
    <2>3. i \in Leds /\ i' \in Int /\ i' >= 0
      BY <1>0, <2>1
    <2>4. \A n \in registered' : n < i'
      BY <1>0, <2>1, <2>2
    <2>5. registered' \subseteq Leds
      BY <1>0, <2>1, <2>3
    <2> QED BY <2>1, <2>3, <2>4, <2>5 DEF LedsInv
  <1>3. CASE RegisterFails
    <2>1. /\ insmod_pc = "loop" /\ insmod_pc' = "undo" /\ registered' = registered
          /\ i' = i - 1 /\ i >= 0
      BY <1>3 DEF RegisterFails, SetUp, LedsInv
    <2>2. \A n \in registered : n < i /\ n \in Int
      BY <1>0, <2>1 DEF LedsInv
    <2> QED BY <1>0, <2>1, <2>2 DEF LedsInv
  <1>4. CASE Unregister
    <2>1. /\ insmod_pc = "undo" /\ insmod_pc' = "undo" /\ registered' = registered \ {i}
          /\ i' = i - 1 /\ i >= 0
      BY <1>4 DEF Unregister
    <2>2. \A n \in registered : n <= i /\ n \in Int
      BY <1>0, <2>1 DEF LedsInv
    <2> QED BY <1>0, <2>1, <2>2 DEF LedsInv
  <1>5. CASE Free
    <2>1. /\ insmod_pc = "undo" /\ insmod_pc' = "loop" /\ registered' = registered
          /\ i' = i + 1 /\ i = -1
      BY <1>0, <1>5 DEF Free, LedsInv
    <2>2. registered = {}
      <3>1. \A n \in registered : n <= i /\ n >= 0 /\ n \in Int
        BY <1>0, <2>1 DEF LedsInv
      <3> QED BY <2>1, <3>1
    <2> QED BY <2>1, <2>2 DEF LedsInv
  <1>6. CASE Loaded
    BY <1>0, <1>6 DEF Loaded, LedsInv
  <1>7. CASE BrightnessSet
    BY <1>0, <1>7 DEF BrightnessSet, LedsInv
  <1>8. CASE Unload
    BY <1>0, <1>8 DEF Unload, LedsInv
  <1>9. CASE ExitTurn
    <2>1. /\ insmod_pc = "unloading" /\ insmod_pc' = insmod_pc /\ registered' = registered \ {i}
          /\ i' = i + 1 /\ i >= 0
      BY <1>9 DEF ExitTurn, LedsInv
    <2>2. \A n \in registered : n >= i /\ n \in Int
      BY <1>0, <2>1 DEF LedsInv
    <2> QED BY <1>0, <2>1, <2>2 DEF LedsInv
  <1>10. CASE ExitFree
    <2>1. \A n \in registered : n >= i /\ n \in Int /\ n < NumLeds
      BY <1>0, <1>10 DEF LedsInv, ExitFree
    <2>2. registered = {}
      BY <1>0, <1>10, <2>1 DEF ExitFree
    <2> QED BY <1>0, <1>10, <2>2 DEF ExitFree, LedsInv
  <1>11. CASE UNCHANGED leds_vars
    BY <1>11 DEF leds_vars, LedsInv
  <1> QED BY <1>1, <1>2, <1>3, <1>4, <1>5, <1>6, <1>7, <1>8, <1>9, <1>10, <1>11 DEF LedsNext

\* When the array is freed, by leds_init or by leds_exit, nothing in it is on the
\* kernel's list of LED devices.
THEOREM FreedListEmpty == LedsSpec => FreedEmpty
  <1>1. LedsInit => LedsInv
    BY LedsClassAssumption DEF LedsInit, LedsInv
  <1>2. ASSUME LedsInv, [LedsNext]_leds_vars
        PROVE  [led_devs = "allocated" /\ led_devs' = "freed" => registered' = {}]_leds_vars
    <2> SUFFICES ASSUME led_devs = "allocated", led_devs' = "freed" PROVE registered' = {}
      OBVIOUS
    <2>0. /\ NumLeds \in Nat /\ i \in Int
          /\ \A n \in registered : n \in Int /\ 0 <= n /\ n < NumLeds
      BY <1>2, LedsClassAssumption DEF LedsInv, Leds
    <2>1. CASE Free
      <3>1. i < 0 /\ registered' = registered /\ \A n \in registered : n <= i
        BY <1>2, <2>1 DEF Free, LedsInv
      <3> QED BY <2>0, <3>1
    <2>2. CASE ExitFree
      <3>1. i >= NumLeds /\ registered' = registered /\ \A n \in registered : n >= i
        BY <1>2, <2>2 DEF ExitFree, LedsInv
      <3> QED BY <2>0, <3>1
    <2>3. Free \/ ExitFree
      BY <1>2 DEF LedsNext, leds_vars, Load, SetUp, Register, RegisterFails, Unregister, Loaded,
            BrightnessSet, Unload, ExitTurn
    <2> QED BY <2>1, <2>2, <2>3
  <1> QED BY <1>1, <1>2, LedsStep, PTL DEF LedsSpec, FreedEmpty

-----------------------------------------------------------------------------
(* The socket pair: one token goes round, as a message or in an end that   *)
(* is about to write.                                                      *)

Succ(k) == (k + 1) % CntMod

Pcs(m, t) == sp_pc = [e \in Ends |-> IF e = "main" THEN m ELSE t]
Inboxes(m, t) == inbox = [e \in Ends |-> IF e = "main" THEN m ELSE t]

\* main's cnt is the number the thread expects, and the thread's the number
\* main does, or one more while the message of that number is under way.
TokenInv ==
    /\ DOMAIN cnt = Ends /\ DOMAIN buf = Ends /\ DOMAIN prints = Ends
    /\ \/ /\ Pcs("create", "none") /\ Inboxes(<<>>, <<>>)
          /\ cnt["thread1"] = prints["main"] /\ cnt["main"] = prints["thread1"]
       \/ /\ Pcs("read", "write") \/ Pcs("read", "sleep") \/ Pcs("write", "read")
          /\ Inboxes(<<>>, <<>>)
          /\ cnt["thread1"] = prints["main"] /\ cnt["main"] = prints["thread1"]
       \/ /\ \/ Pcs("read", "read") /\ Inboxes(<<prints["main"]>>, <<>>)
             \/ Pcs("print", "read") /\ Inboxes(<<>>, <<>>) /\ buf["main"] = prints["main"]
          /\ cnt["thread1"] = Succ(prints["main"]) /\ cnt["main"] = prints["thread1"]
       \/ /\ \/ Pcs("read", "read") /\ Inboxes(<<>>, <<prints["thread1"]>>)
             \/ Pcs("read", "print") /\ Inboxes(<<>>, <<>>) /\ buf["thread1"] = prints["thread1"]
          /\ cnt["main"] = Succ(prints["thread1"]) /\ cnt["thread1"] = prints["main"]

\* The number of an end's message is the one its peer expects.
LEMMA TokenStep == TokenInv /\ [SocketMain]_socket_vars => TokenInv'
  <1> SUFFICES ASSUME TokenInv, [SocketMain]_socket_vars PROVE TokenInv'
    OBVIOUS
  <1>e. /\ Ends = {"main", "thread1"} /\ Peer("main") = "thread1" /\ Peer("thread1") = "main"
    BY DEF Ends, Peer
  <1>1. CASE CreateThread
    BY <1>1, <1>e DEF CreateThread, TokenInv, Pcs, Inboxes
  <1>2. CASE WriteMsg("main")
    <2>1. /\ Pcs("write", "read") /\ Inboxes(<<>>, <<>>)
          /\ cnt["thread1"] = prints["main"] /\ cnt["main"] = prints["thread1"]
      BY <1>2, <1>e DEF WriteMsg, Goto, TokenInv, Pcs
    <2>2. Pcs("read", "read")' /\ Inboxes(<<>>, <<prints["thread1"]>>)'
      <3>1. Pcs("read", "read")'
        BY <1>2, <1>e, <2>1 DEF WriteMsg, Goto, Pcs
      <3>2. Append(<<>>, cnt["main"]) = <<prints["thread1"]>> /\ prints' = prints
        BY <1>2, <2>1 DEF WriteMsg
      <3>3. inbox' = [inbox EXCEPT !["thread1"] = <<prints["thread1"]>>]
        <4>1. inbox' = [inbox EXCEPT !["thread1"] = Append(inbox["thread1"], cnt["main"])]
          BY <1>2, <1>e DEF WriteMsg
        <4>2. inbox["thread1"] = <<>>
          BY <1>e, <2>1 DEF Inboxes
        <4> QED BY <3>2, <4>1, <4>2
      <3>4. Inboxes(<<>>, <<prints["thread1"]>>)'
        BY <1>e, <2>1, <3>2, <3>3 DEF Inboxes
      <3> QED BY <3>1, <3>4
    <2>3. /\ cnt'["main"] = Succ(prints["thread1"]) /\ cnt'["thread1"] = prints["main"]
          /\ prints' = prints /\ buf' = buf /\ DOMAIN cnt' = Ends
      BY <1>2, <1>e, <2>1 DEF WriteMsg, Succ, TokenInv
    <2> QED BY <2>2, <2>3 DEF TokenInv
  <1>3. CASE WriteMsg("thread1")
    <2>1. /\ Pcs("read", "write") /\ Inboxes(<<>>, <<>>)
          /\ cnt["thread1"] = prints["main"] /\ cnt["main"] = prints["thread1"]
      BY <1>3, <1>e DEF WriteMsg, Goto, TokenInv, Pcs
    <2>2. Pcs("read", "read")' /\ Inboxes(<<prints["main"]>>, <<>>)'
      <3>1. Pcs("read", "read")'
        BY <1>3, <1>e, <2>1 DEF WriteMsg, Goto, Pcs
      <3>2. Append(<<>>, cnt["thread1"]) = <<prints["main"]>> /\ prints' = prints
        BY <1>3, <2>1 DEF WriteMsg
      <3>3. inbox' = [inbox EXCEPT !["main"] = <<prints["main"]>>]
        <4>1. inbox' = [inbox EXCEPT !["main"] = Append(inbox["main"], cnt["thread1"])]
          BY <1>3, <1>e DEF WriteMsg
        <4>2. inbox["main"] = <<>>
          BY <1>e, <2>1 DEF Inboxes
        <4> QED BY <3>2, <4>1, <4>2
      <3>4. Inboxes(<<prints["main"]>>, <<>>)'
        BY <1>e, <2>1, <3>2, <3>3 DEF Inboxes
      <3> QED BY <3>1, <3>4
    <2>3. /\ cnt'["thread1"] = Succ(prints["main"]) /\ cnt'["main"] = prints["thread1"]
          /\ prints' = prints /\ buf' = buf /\ DOMAIN cnt' = Ends
      BY <1>3, <1>e, <2>1 DEF WriteMsg, Succ, TokenInv
    <2> QED BY <2>2, <2>3 DEF TokenInv
  <1>4. CASE ReadMsg("main")
    <2>1. /\ Pcs("read", "read") /\ Inboxes(<<prints["main"]>>, <<>>)
          /\ cnt["thread1"] = Succ(prints["main"]) /\ cnt["main"] = prints["thread1"]
      BY <1>4, <1>e DEF ReadMsg, Goto, TokenInv, Pcs, Inboxes
    <2>2. /\ Pcs("print", "read")' /\ Inboxes(<<>>, <<>>)' /\ buf'["main"] = prints["main"]
          /\ DOMAIN buf' = Ends /\ cnt' = cnt /\ prints' = prints
      <3>1. Pcs("print", "read")' /\ cnt' = cnt /\ prints' = prints
        BY <1>4, <1>e, <2>1 DEF ReadMsg, Goto, Pcs
      <3>2. inbox["main"] = <<prints["main"]>>
        BY <1>e, <2>1 DEF Inboxes
      <3>3. Head(inbox["main"]) = prints["main"] /\ Tail(inbox["main"]) = <<>>
        BY <3>2
      <3>4. inbox' = [inbox EXCEPT !["main"] = <<>>] /\ buf' = [buf EXCEPT !["main"] = prints["main"]]
        BY <1>4, <3>3 DEF ReadMsg
      <3>5. Inboxes(<<>>, <<>>)'
        BY <1>e, <2>1, <3>4 DEF Inboxes
      <3> QED BY <1>e, <3>1, <3>4, <3>5 DEF TokenInv
    <2> QED BY <2>1, <2>2 DEF TokenInv
  <1>5. CASE ReadMsg("thread1")
    <2>1. /\ Pcs("read", "read") /\ Inboxes(<<>>, <<prints["thread1"]>>)
          /\ cnt["main"] = Succ(prints["thread1"]) /\ cnt["thread1"] = prints["main"]
      BY <1>5, <1>e DEF ReadMsg, Goto, TokenInv, Pcs, Inboxes
    <2>2. /\ Pcs("read", "print")' /\ Inboxes(<<>>, <<>>)' /\ buf'["thread1"] = prints["thread1"]
          /\ DOMAIN buf' = Ends /\ cnt' = cnt /\ prints' = prints
      <3>1. Pcs("read", "print")' /\ cnt' = cnt /\ prints' = prints
        BY <1>5, <1>e, <2>1 DEF ReadMsg, Goto, Pcs
      <3>2. inbox["thread1"] = <<prints["thread1"]>>
        BY <1>e, <2>1 DEF Inboxes
      <3>3. Head(inbox["thread1"]) = prints["thread1"] /\ Tail(inbox["thread1"]) = <<>>
        BY <3>2
      <3>4. inbox' = [inbox EXCEPT !["thread1"] = <<>>] /\ buf' = [buf EXCEPT !["thread1"] = prints["thread1"]]
        BY <1>5, <3>3 DEF ReadMsg
      <3>5. Inboxes(<<>>, <<>>)'
        BY <1>e, <2>1, <3>4 DEF Inboxes
      <3> QED BY <1>e, <3>1, <3>4, <3>5 DEF TokenInv
    <2> QED BY <2>1, <2>2 DEF TokenInv
  <1>6. CASE PrintMsg("main")
    <2>1. /\ Pcs("print", "read") /\ Inboxes(<<>>, <<>>)
          /\ cnt["thread1"] = Succ(prints["main"]) /\ cnt["main"] = prints["thread1"]
      BY <1>6, <1>e DEF PrintMsg, Goto, TokenInv, Pcs, Inboxes
    <2>2. Pcs("write", "read")' /\ Inboxes(<<>>, <<>>)'
      BY <1>6, <1>e, <2>1 DEF PrintMsg, Goto, Pcs, Inboxes
    <2>3. /\ prints'["main"] = Succ(prints["main"]) /\ prints'["thread1"] = prints["thread1"]
          /\ DOMAIN prints' = Ends /\ cnt' = cnt /\ buf' = buf
      BY <1>6, <1>e DEF PrintMsg, Succ, TokenInv
    <2> QED BY <2>1, <2>2, <2>3 DEF TokenInv
  <1>7. CASE PrintMsg("thread1")
    <2>1. /\ Pcs("read", "print") /\ Inboxes(<<>>, <<>>)
          /\ cnt["main"] = Succ(prints["thread1"]) /\ cnt["thread1"] = prints["main"]
      BY <1>7, <1>e DEF PrintMsg, Goto, TokenInv, Pcs, Inboxes
    <2>2. Pcs("read", "sleep")' /\ Inboxes(<<>>, <<>>)'
      BY <1>7, <1>e, <2>1 DEF PrintMsg, Goto, Pcs, Inboxes
    <2>3. /\ prints'["thread1"] = Succ(prints["thread1"]) /\ prints'["main"] = prints["main"]
          /\ DOMAIN prints' = Ends /\ cnt' = cnt /\ buf' = buf
      BY <1>7, <1>e DEF PrintMsg, Succ, TokenInv
    <2> QED BY <2>1, <2>2, <2>3 DEF TokenInv
  <1>8. CASE WakeThread
    <2>1. /\ Pcs("read", "sleep") /\ Inboxes(<<>>, <<>>)
          /\ cnt["thread1"] = prints["main"] /\ cnt["main"] = prints["thread1"]
      BY <1>8, <1>e DEF WakeThread, Goto, TokenInv, Pcs
    <2>2. Pcs("read", "write")' /\ UNCHANGED <<inbox, cnt, buf, prints>>
      BY <1>8, <1>e, <2>1 DEF WakeThread, Goto, Pcs
    <2> QED BY <2>1, <2>2 DEF TokenInv, Inboxes
  <1>9. CASE UNCHANGED socket_vars
    BY <1>9 DEF socket_vars, TokenInv, Pcs, Inboxes
  <1> QED BY <1>1, <1>2, <1>3, <1>4, <1>5, <1>6, <1>7, <1>8, <1>9, <1>e DEF SocketMain, EndStep

\* One message at most is under way, and an end reads the number of messages it
\* has printed, also after the counters have wrapped.
THEOREM ExchangeInStep == SocketSpec => []InStep
  <1>1. SocketInit => TokenInv
    BY DEF SocketInit, TokenInv, Pcs, Inboxes, Ends
  <1>2. ASSUME TokenInv PROVE InStep
    <2>e. /\ \A e \in Ends : e = "main" \/ e = "thread1"
          /\ "main" \in Ends /\ "thread1" \in Ends
      BY DEF Ends
    <2>1. CASE Inboxes(<<>>, <<>>)
      BY <1>2, <2>1, <2>e DEF TokenInv, InStep, Pcs, Inboxes
    <2>2. CASE Pcs("read", "read") /\ Inboxes(<<prints["main"]>>, <<>>)
      <3>1. inbox["main"] = <<prints["main"]>> /\ inbox["thread1"] = <<>>
        BY <2>2, <2>e DEF Inboxes
      <3>2. Len(inbox["main"]) = 1 /\ Len(inbox["thread1"]) = 0 /\ Head(inbox["main"]) = prints["main"]
        BY <3>1
      <3> QED BY <2>2, <2>e, <3>1, <3>2 DEF InStep, Pcs
    <2>3. CASE Pcs("read", "read") /\ Inboxes(<<>>, <<prints["thread1"]>>)
      <3>1. inbox["thread1"] = <<prints["thread1"]>> /\ inbox["main"] = <<>>
        BY <2>3, <2>e DEF Inboxes
      <3>2. Len(inbox["thread1"]) = 1 /\ Len(inbox["main"]) = 0 /\ Head(inbox["thread1"]) = prints["thread1"]
        BY <3>1
      <3> QED BY <2>3, <2>e, <3>1, <3>2 DEF InStep, Pcs
    <2> QED BY <1>2, <2>1, <2>2, <2>3 DEF TokenInv
  <1> QED BY <1>1, <1>2, TokenStep, PTL DEF SocketSpec

-----------------------------------------------------------------------------
(* The message app: the UI thread leaves getLooper only with a looper, and *)
(* nothing is clicked before both handlers are there.                      *)

AppInv ==
    /\ TypeOK
    /\ ui = "start2" <=> t2 = "new"
    /\ ui = "return" => mLooper = "looper2"
    /\ HandlersBound
    /\ ui \notin {"run", "post"} => ButtonCount = 0
    /\ ui = "post" => ButtonCount > 0
    /\ MessagesInOrder

\* Appending to the second of two sequences is appending to both.
LEMMA ConcatAppend ==
    ASSUME NEW S, NEW h \in Seq(S), NEW q \in Seq(S), NEW x \in S
    PROVE  h \o Append(q, x) = Append(h \o q, x)
  <1>1. Append(q, x) = q \o <<x>>
    OBVIOUS
  <1>2. h \o (q \o <<x>>) = (h \o q) \o <<x>>
    BY ConcatAssociative
  <1>3. h \o q \in Seq(S)
    BY ConcatProperties
  <1>4. Append(h \o q, x) = (h \o q) \o <<x>>
    BY <1>3, AppendIsConcat
  <1> QED BY <1>1, <1>2, <1>4

\* The clicks up to the next one.
LEMMA NextClick ==
    ASSUME NEW k \in Nat, NEW s, s = [j \in 1..k |-> j]
    PROVE  Append(s, k + 1) = [j \in 1..(k + 1) |-> j]
  <1>1. s \in Seq(Nat) /\ Len(s) = k
    OBVIOUS
  <1>2. \A j \in 1..k : s[j] = j
    OBVIOUS
  <1>3. Append(s, k + 1) \in Seq(Nat) /\ Len(Append(s, k + 1)) = k + 1
    BY <1>1
  <1>4. \A j \in 1..(k + 1) : Append(s, k + 1)[j] = j
    BY <1>1, <1>2
  <1>5. PICK t : t = Append(s, k + 1)
    OBVIOUS
  <1>6. t \in Seq(Nat) /\ Len(t) = k + 1 /\ \A j \in 1..(k + 1) : t[j] = j
    BY <1>3, <1>4, <1>5
  <1>7. t = [j \in 1..(k + 1) |-> j]
    BY <1>6
  <1> QED BY <1>5, <1>7

\* A message moves from the front of the queue to the end of what was handled.
LEMMA DispatchInOrder ==
    ASSUME NEW S, NEW h \in Seq(S), NEW q \in Seq(S), q # <<>>
    PROVE  Append(h, Head(q)) \o Tail(q) = h \o q
  OBVIOUS

\* The two threads on the monitor, the loopers and the handlers, when no message
\* moves.
LEMMA AppMoves ==
    ASSUME AppInv, Thread2 \/ Start3 \/ OnCreate \/ WakeUp \/ UNCHANGED vars
    PROVE  AppInv'
  <1>1. UNCHANGED messages
    BY DEF Thread2, Start3, OnCreate, WakeUp, vars, messages, Prepare, Enter2, Publish, Leave2,
           StartThread2, GetLooper, EnterUi, Check, Notified, NewHandler, StartThread3, NewHandler3
  <1>2. /\ ButtonCount' = ButtonCount /\ queue' = queue /\ handled' = handled
        /\ ui \in {"run", "post"} => ui' = ui
        /\ ui' = "post" <=> ui = "post"
    <2>1. (ui \in {"run", "post"} => ui' = ui) /\ (ui' = "post" <=> ui = "post")
      BY DEF Thread2, Start3, OnCreate, WakeUp, vars, Prepare, Enter2, Publish, Leave2,
             StartThread2, GetLooper, EnterUi, Check, Notified, NewHandler, StartThread3, NewHandler3
    <2> QED BY <1>1, <2>1 DEF messages
  <1>3. /\ MessagesInOrder'
        /\ ui' \notin {"run", "post"} => ButtonCount' = 0
        /\ ui' = "post" => ButtonCount' > 0
    <2>1. \A l \in Loops : Told(l)' = Told(l)
      BY <1>2 DEF Told
    <2> QED BY <1>2, <2>1 DEF AppInv, MessagesInOrder
  <1>t. /\ ui \in UiPCs
        /\ t2 \in {"new", "prepare", "enter", "publish", "leave", "loop"}
        /\ t3 \in {"new", "starting", "loop"}
        /\ monitor \in {"none", "ui", "t2"} /\ waiting \in BOOLEAN /\ wakeups \in 0..MaxWakeUps
        /\ mLooper \in {"null", "looper2"} /\ mHandler \in {"null", "looper2"}
        /\ mHandler3 \in {"null", "looper3"} /\ MaxWakeUps \in Nat
        /\ ButtonCount \in 0..MaxClicks
        /\ queue \in [Loops -> Seq(1..MaxClicks)] /\ handled \in [Loops -> Seq(1..MaxClicks)]
        /\ ui = "start2" <=> t2 = "new"
        /\ ui = "return" => mLooper = "looper2"
        /\ ui \in {"start3", "getLooper3", "run", "post"} => mHandler = "looper2"
        /\ ui \in {"run", "post"} => mHandler3 = "looper3"
    BY BoundsAssumption DEF AppInv, TypeOK, HandlersBound
  <1>4. CASE Thread2
    <2>1. /\ ui' = ui /\ t3' = t3 /\ wakeups' = wakeups /\ mHandler' = mHandler
          /\ mHandler3' = mHandler3
          /\ t2' \in {"enter", "publish", "leave", "loop"} /\ t2 # "new"
          /\ monitor' \in {"none", "ui", "t2"} /\ waiting' \in BOOLEAN
          /\ mLooper' = mLooper \/ mLooper' = "looper2"
      BY <1>4, <1>t DEF Thread2, Prepare, Enter2, Publish, Leave2, handlers
    <2> QED BY <1>2, <1>3, <1>t, <2>1 DEF AppInv, TypeOK, HandlersBound
  <1>5. CASE Start3
    <2>1. /\ UNCHANGED <<ui, t2, mLooper, monitor, waiting, wakeups, mHandler, mHandler3>>
          /\ t3' = "loop"
      BY <1>5 DEF Start3, thread2, handlers
    <2> QED BY <1>2, <1>3, <1>t, <2>1 DEF AppInv, TypeOK, HandlersBound
  <1>6. CASE WakeUp
    <2>1. /\ UNCHANGED <<ui, t2, t3, mLooper, monitor, mHandler, mHandler3>>
          /\ waiting' = FALSE /\ wakeups' = wakeups + 1 /\ wakeups < MaxWakeUps
      BY <1>6 DEF WakeUp, thread2, handlers
    <2>2. wakeups' \in 0..MaxWakeUps
      BY <1>t, <2>1
    <2> QED BY <1>2, <1>3, <1>t, <2>1, <2>2 DEF AppInv, TypeOK, HandlersBound
  <1>7. CASE OnCreate
    <2>0. wakeups' = wakeups /\ mLooper' = mLooper
      BY <1>7 DEF OnCreate, StartThread2, GetLooper, EnterUi, Check, Notified, NewHandler,
                  StartThread3, NewHandler3, thread2
    <2>1. CASE StartThread2
      <3>1. /\ ui' = "getLooper" /\ t2' = "prepare"
            /\ UNCHANGED <<t3, monitor, waiting, mHandler, mHandler3>>
        BY <2>1 DEF StartThread2, handlers
      <3> QED BY <1>2, <1>3, <1>t, <2>0, <3>1 DEF AppInv, TypeOK, HandlersBound, UiPCs
    <2>2. CASE GetLooper
      <3>1. /\ ui' = "enter" /\ t2 # "new"
            /\ UNCHANGED <<t2, t3, monitor, waiting, mHandler, mHandler3>>
        BY <1>t, <2>2 DEF GetLooper, handlers, thread2, isAlive
      <3> QED BY <1>2, <1>3, <1>t, <2>0, <3>1 DEF AppInv, TypeOK, HandlersBound, UiPCs
    <2>3. CASE EnterUi \/ Notified
      <3>1. /\ ui' = "check" /\ monitor' = "ui" /\ t2 # "new"
            /\ UNCHANGED <<t2, t3, waiting, mHandler, mHandler3>>
        BY <1>t, <2>3 DEF EnterUi, Notified, handlers, thread2
      <3> QED BY <1>2, <1>3, <1>t, <2>0, <3>1 DEF AppInv, TypeOK, HandlersBound, UiPCs
    <2>4. CASE Check
      <3>1. /\ monitor' = "none" /\ t2 # "new" /\ UNCHANGED <<t2, t3, mHandler, mHandler3>>
            /\ \/ ui' = "wait" /\ waiting' = TRUE
               \/ ui' = "return" /\ waiting' = waiting /\ mLooper = "looper2"
        BY <1>t, <2>4 DEF Check, handlers, thread2, isAlive
      <3> QED BY <1>2, <1>3, <1>t, <2>0, <3>1 DEF AppInv, TypeOK, HandlersBound, UiPCs
    <2>5. CASE NewHandler
      <3>1. /\ ui' = "start3" /\ t2 # "new" /\ mHandler' = "looper2"
            /\ UNCHANGED <<t2, t3, monitor, waiting, mHandler3>>
        BY <1>t, <2>5 DEF NewHandler, thread2
      <3> QED BY <1>2, <1>3, <1>t, <2>0, <3>1 DEF AppInv, TypeOK, HandlersBound, UiPCs
    <2>6. CASE StartThread3
      <3>1. /\ ui = "start3" /\ ui' = "getLooper3" /\ t3' = "starting"
            /\ UNCHANGED <<t2, monitor, waiting, mHandler, mHandler3>>
        BY <1>t, <2>6 DEF StartThread3, handlers, thread2
      <3> QED BY <1>2, <1>3, <1>t, <2>0, <3>1 DEF AppInv, TypeOK, HandlersBound, UiPCs
    <2>7. CASE NewHandler3
      <3>1. /\ ui = "getLooper3" /\ ui' = "run" /\ mHandler3' = "looper3"
            /\ UNCHANGED <<t2, t3, monitor, waiting, mHandler>>
        BY <1>t, <2>7 DEF NewHandler3, thread2
      <3> QED BY <1>2, <1>3, <1>t, <2>0, <3>1 DEF AppInv, TypeOK, HandlersBound, UiPCs
    <2> QED BY <1>7, <2>1, <2>2, <2>3, <2>4, <2>5, <2>6, <2>7 DEF OnCreate
  <1>8. CASE UNCHANGED vars
    <2>1. UNCHANGED <<ui, t2, t3, monitor, waiting, wakeups, mLooper, mHandler, mHandler3>>
      BY <1>8 DEF vars
    <2> QED BY <1>2, <1>3, <1>t, <2>1 DEF AppInv, TypeOK, HandlersBound
  <1> QED BY <1>4, <1>5, <1>6, <1>7, <1>8

\* A message sent to a loop comes after the ones it was told of before.
LEMMA AppSend ==
    ASSUME TypeOK, NEW l \in Loops, NEW k \in Nat, k + 1 \in 1..MaxClicks,
           handled[l] \o queue[l] = [j \in 1..k |-> j], SendTo(l, k + 1)
    PROVE  /\ queue' \in [Loops -> Seq(1..MaxClicks)]
           /\ handled[l] \o queue'[l] = [j \in 1..(k + 1) |-> j]
           /\ \A m \in Loops : m # l => queue'[m] = queue[m]
  <1>1. queue \in [Loops -> Seq(1..MaxClicks)] /\ handled \in [Loops -> Seq(1..MaxClicks)]
    BY DEF TypeOK
  <1>2. queue'[l] = Append(queue[l], k + 1) /\ \A m \in Loops : m # l => queue'[m] = queue[m]
    BY DEF SendTo
  <1>3. queue' \in [Loops -> Seq(1..MaxClicks)]
    <2>1. Append(queue[l], k + 1) \in Seq(1..MaxClicks)
      BY <1>1
    <2> QED BY <1>1, <2>1 DEF SendTo
  <1>4. PICK h, q, s : h = handled[l] /\ q = queue[l] /\ s = h \o q
    OBVIOUS
  <1>5. h \in Seq(1..MaxClicks) /\ q \in Seq(1..MaxClicks) /\ s = [j \in 1..k |-> j]
    BY <1>1, <1>4
  <1>6. h \o Append(q, k + 1) = Append(s, k + 1)
    <2>1. h \o Append(q, k + 1) = Append(h \o q, k + 1)
      BY <1>5, ConcatAppend
    <2> QED BY <1>4, <2>1
  <1>7. Append(s, k + 1) = [j \in 1..(k + 1) |-> j]
    BY <1>5, NextClick
  <1> QED BY <1>2, <1>3, <1>4, <1>6, <1>7

\* A click goes to the queue of the first handler.
LEMMA AppClick == ASSUME AppInv, OnClick PROVE AppInv'
  <1>0. /\ ui = "run" /\ ui' = "post"
        /\ ButtonCount < MaxClicks /\ ButtonCount' = ButtonCount + 1
        /\ SendTo(mHandler, ButtonCount + 1)
        /\ UNCHANGED <<wakeups, t2, t3, mLooper, monitor, waiting, mHandler, mHandler3, handled>>
    BY DEF OnClick, thread2, handlers
  <1>1. /\ MaxClicks \in Nat /\ ButtonCount \in Nat /\ ButtonCount + 1 \in 1..MaxClicks
        /\ mHandler = "looper2" /\ mHandler3 = "looper3" /\ TypeOK /\ t2 # "new"
    BY <1>0, BoundsAssumption DEF AppInv, TypeOK, HandlersBound
  <1>2. \A l \in Loops : handled[l] \o queue[l] = [j \in 1..ButtonCount |-> j]
    BY <1>0 DEF AppInv, MessagesInOrder, Told
  <1>3. /\ queue' \in [Loops -> Seq(1..MaxClicks)]
        /\ handled["looper2"] \o queue'["looper2"] = [j \in 1..(ButtonCount + 1) |-> j]
        /\ \A m \in Loops : m # "looper2" => queue'[m] = queue[m]
    <2>1. "looper2" \in Loops
      BY DEF Loops
    <2> QED BY <1>0, <1>1, <1>2, <2>1, AppSend
  <1>4. MessagesInOrder'
    <2>1. Told("looper2")' = ButtonCount + 1 /\ Told("looper3")' = ButtonCount
      BY <1>0, <1>1 DEF Told
    <2> QED BY <1>0, <1>2, <1>3, <2>1 DEF MessagesInOrder, Loops
  <1>5. TypeOK'
    BY <1>0, <1>1, <1>3 DEF TypeOK, UiPCs
  <1> QED BY <1>0, <1>1, <1>4, <1>5 DEF AppInv, HandlersBound

\* Its runnable goes to the queue of the other.
LEMMA AppPost == ASSUME AppInv, Post PROVE AppInv'
  <1>0. /\ ui = "post" /\ ui' = "run" /\ ButtonCount' = ButtonCount
        /\ SendTo(mHandler3, ButtonCount)
        /\ UNCHANGED <<wakeups, t2, t3, mLooper, monitor, waiting, mHandler, mHandler3, handled>>
    BY DEF Post, thread2, handlers
  <1>1. /\ ButtonCount \in 1..MaxClicks /\ ButtonCount - 1 \in Nat
        /\ ButtonCount = (ButtonCount - 1) + 1
        /\ mHandler = "looper2" /\ mHandler3 = "looper3" /\ TypeOK /\ t2 # "new"
    BY <1>0, BoundsAssumption DEF AppInv, TypeOK, HandlersBound
  <1>2. /\ handled["looper2"] \o queue["looper2"] = [j \in 1..ButtonCount |-> j]
        /\ handled["looper3"] \o queue["looper3"] = [j \in 1..(ButtonCount - 1) |-> j]
    BY <1>0 DEF AppInv, MessagesInOrder, Told, Loops
  <1>3. /\ queue' \in [Loops -> Seq(1..MaxClicks)]
        /\ handled["looper3"] \o queue'["looper3"] = [j \in 1..ButtonCount |-> j]
        /\ \A m \in Loops : m # "looper3" => queue'[m] = queue[m]
    <2>1. "looper3" \in Loops
      BY DEF Loops
    <2>2. PICK k \in Nat : k = ButtonCount - 1 /\ k + 1 = ButtonCount
      BY <1>1
    <2>3. SendTo("looper3", k + 1) /\ k + 1 \in 1..MaxClicks
      BY <1>0, <1>1, <2>2
    <2>4. handled["looper3"] \o queue["looper3"] = [j \in 1..k |-> j]
      BY <1>2, <2>2
    <2>5. handled["looper3"] \o queue'["looper3"] = [j \in 1..(k + 1) |-> j]
      BY <1>1, <2>1, <2>3, <2>4, AppSend
    <2> QED BY <1>1, <2>1, <2>2, <2>3, <2>4, <2>5, AppSend
  <1>4. MessagesInOrder'
    <2>1. Told("looper2")' = ButtonCount /\ Told("looper3")' = ButtonCount
      BY <1>0 DEF Told
    <2>2. queue'["looper2"] = queue["looper2"]
      BY <1>3 DEF Loops
    <2> QED BY <1>0, <1>2, <1>3, <2>1, <2>2 DEF MessagesInOrder, Loops
  <1>5. TypeOK'
    BY <1>0, <1>1, <1>3 DEF TypeOK, UiPCs
  <1> QED BY <1>0, <1>1, <1>4, <1>5 DEF AppInv, HandlersBound

\* A loop takes the first message of its queue.
LEMMA AppDispatch == ASSUME AppInv, NEW l \in Loops, Dispatch(l) PROVE AppInv'
  <1>0. /\ queue[l] # <<>>
        /\ handled' = [handled EXCEPT ![l] = Append(handled[l], Head(queue[l]))]
        /\ queue' = [queue EXCEPT ![l] = Tail(queue[l])]
        /\ UNCHANGED <<wakeups, ui, t2, t3, mLooper, monitor, waiting, mHandler, mHandler3,
                       ButtonCount>>
    BY DEF Dispatch, thread2, handlers
  <1>1. /\ queue \in [Loops -> Seq(1..MaxClicks)] /\ handled \in [Loops -> Seq(1..MaxClicks)]
        /\ \A m \in Loops : handled[m] \o queue[m] = [j \in 1..Told(m) |-> j]
    BY DEF AppInv, TypeOK, MessagesInOrder
  <1> PICK h, q : h = handled[l] /\ q = queue[l]
    OBVIOUS
  <1>2. h \in Seq(1..MaxClicks) /\ q \in Seq(1..MaxClicks) /\ q # <<>>
    BY <1>0, <1>1
  <1>3. Append(h, Head(q)) \o Tail(q) = h \o q
    BY <1>2, DispatchInOrder
  <1>4. Append(h, Head(q)) \in Seq(1..MaxClicks) /\ Tail(q) \in Seq(1..MaxClicks)
    <2>1. Head(q) \in 1..MaxClicks /\ Tail(q) \in Seq(1..MaxClicks)
      BY <1>2, HeadTailProperties
    <2>2. Append(h, Head(q)) \in Seq(1..MaxClicks)
      BY <1>2, <2>1, AppendProperties
    <2> QED BY <2>1, <2>2
  <1>5. /\ queue' \in [Loops -> Seq(1..MaxClicks)] /\ handled' \in [Loops -> Seq(1..MaxClicks)]
    BY <1>0, <1>1, <1>4
  <1>6. ASSUME NEW m \in Loops
        PROVE  handled'[m] \o queue'[m] = handled[m] \o queue[m]
    <2>1. CASE m = l
      BY <1>0, <1>1, <1>3, <2>1
    <2>2. CASE m # l
      BY <1>0, <1>1, <2>2
    <2> QED BY <2>1, <2>2
  <1>7. MessagesInOrder'
    <2>1. \A m \in Loops : Told(m)' = Told(m)
      BY <1>0 DEF Told
    <2> QED BY <1>0, <1>1, <1>6, <2>1 DEF MessagesInOrder
  <1>8. TypeOK'
    BY <1>0, <1>5 DEF AppInv, TypeOK
  <1> QED BY <1>0, <1>7, <1>8 DEF AppInv, HandlersBound

\* The app starts with nothing clicked.
LEMMA AppInit == Init => AppInv
  <1> SUFFICES ASSUME Init PROVE AppInv
    OBVIOUS
  <1>1. TypeOK
    <2>1. <<>> \in Seq(1..MaxClicks)
      OBVIOUS
    <2>2. queue \in [Loops -> Seq(1..MaxClicks)] /\ handled \in [Loops -> Seq(1..MaxClicks)]
      BY <2>1 DEF Init
    <2>3. wakeups \in 0..MaxWakeUps /\ ButtonCount \in 0..MaxClicks
      BY BoundsAssumption DEF Init
    <2>4. /\ ui \in UiPCs /\ t2 = "new" /\ t3 = "new" /\ monitor = "none" /\ waiting = FALSE
          /\ mLooper = "null" /\ mHandler = "null" /\ mHandler3 = "null"
      BY DEF Init, UiPCs
    <2> QED BY <2>2, <2>3, <2>4 DEF TypeOK
  <1>2. MessagesInOrder
    <2>1. <<>> \o <<>> = [j \in 1..0 |-> j]
      <3>1. <<>> \o <<>> = <<>>
        OBVIOUS
      <3>2. <<>> = [j \in 1..0 |-> j]
        OBVIOUS
      <3> QED BY <3>1, <3>2
    <2>2. \A l \in Loops : handled[l] = <<>> /\ queue[l] = <<>>
      BY DEF Init
    <2> QED BY <2>1, <2>2 DEF Init, MessagesInOrder, Told
  <1> QED BY <1>1, <1>2 DEF Init, AppInv, HandlersBound

\* The invariant of the message app.
LEMMA AppInvariant == Spec => []AppInv
  <1>1. AppInv /\ [Next]_vars => AppInv'
    <2> SUFFICES ASSUME AppInv, [Next]_vars PROVE AppInv'
      OBVIOUS
    <2>1. CASE Thread2 \/ Start3 \/ OnCreate \/ WakeUp \/ UNCHANGED vars
      BY <2>1, AppMoves
    <2>2. CASE OnClick
      BY <2>2, AppClick
    <2>3. CASE \E l \in Loops : Dispatch(l)
      BY <2>3, AppDispatch
    <2>4. CASE Post
      BY <2>4, AppPost
    <2> QED BY <2>1, <2>2, <2>3, <2>4 DEF Next
  <1> QED BY <1>1, AppInit, PTL DEF Spec

\* The message app's types.
THEOREM AppTypes == Spec => []TypeOK
  <1>1. AppInv => TypeOK
    BY DEF AppInv
  <1> QED BY <1>1, AppInvariant, PTL

\* The handlers are built with the loopers of threads that have one, however the
\* threads run and however often wait() returns early.
THEOREM LoopersReady == Spec => []HandlersBound
  <1>1. AppInv => HandlersBound
    BY DEF AppInv
  <1> QED BY <1>1, AppInvariant, PTL

\* Each loop handles every click once and in order.
THEOREM ClicksInOrder == Spec => []MessagesInOrder
  <1>1. AppInv => MessagesInOrder
    BY DEF AppInv
  <1> QED BY <1>1, AppInvariant, PTL

-----------------------------------------------------------------------------
(* Induction.  The provers cannot instantiate the induction theorems of the *)
(* library, which take an operator; with a set in its place, the least      *)
(* number outside the set does the same work.                               *)

\* A set of natural numbers that is not empty has a least element.
LEMMA LeastNumber ==
    ASSUME NEW T, T \subseteq Nat, T # {}
    PROVE  \E n \in T : \A m \in T : n <= m
  <1>1. IsWellFoundedOn(OpToRel(<, Nat), Nat)
    BY NatLessThanWellFounded, Zenon
  <1>2. PICK n \in T : ~\E m \in T : <<m, n>> \in OpToRel(<, Nat)
    BY <1>1, WFMin, Zenon
  <1>3. \A m \in T : ~(m < n)
    BY <1>2 DEF OpToRel
  <1> QED BY <1>3

\* A set with 0 and with the successors of its numbers has them all.
LEMMA SetInduction ==
    ASSUME NEW P, 0 \in P, \A n \in Nat : n \in P => n + 1 \in P
    PROVE  Nat \subseteq P
  <1> SUFFICES ASSUME Nat \ P # {} PROVE FALSE
    OBVIOUS
  <1>1. PICK n \in Nat \ P : \A m \in Nat \ P : n <= m
    BY LeastNumber
  <1>2. n # 0 /\ n - 1 \in Nat /\ ~(n <= n - 1) /\ (n - 1) + 1 = n
    BY <1>1
  <1>3. n - 1 \in P
    BY <1>1, <1>2
  <1> QED BY <1>1, <1>2, <1>3

\* A set with the empty sequence and with every sequence of its own extended by
\* an element has all sequences.
LEMMA AppendInduction ==
    ASSUME NEW T, NEW P, <<>> \in P,
           \A s \in Seq(T), e \in T : s \in P => Append(s, e) \in P
    PROVE  Seq(T) \subseteq P
  <1> DEFINE N == {n \in Nat : \A s \in Seq(T) : Len(s) = n => s \in P}
  <1>1. 0 \in N
    <2>1. ASSUME NEW s \in Seq(T), Len(s) = 0 PROVE s \in P
      <3>1. s = <<>>
        BY <2>1, EmptySeq
      <3> QED BY <3>1
    <2> QED BY <2>1
  <1>2. ASSUME NEW n \in Nat, n \in N PROVE n + 1 \in N
    <2>1. ASSUME NEW s \in Seq(T), Len(s) = n + 1 PROVE s \in P
      <3>1. s # <<>>
        BY <2>1, EmptySeq
      <3>2. PICK t \in Seq(T), e \in T : s = Append(t, e)
        BY <3>1, SequenceEmptyOrAppend
      <3>3. Len(t) = n
        BY <2>1, <3>2, AppendProperties, LenProperties
      <3>4. t \in P
        BY <1>2, <3>3
      <3> QED BY <3>2, <3>4
    <2> QED BY <2>1
  <1>3. Nat \subseteq N
    <2> HIDE DEF N
    <2> QED BY <1>1, <1>2, SetInduction
  <1>4. ASSUME NEW s \in Seq(T) PROVE s \in P
    <2>1. Len(s) \in N
      BY <1>3, LenProperties
    <2> QED BY <2>1
  <1> QED BY <1>4

\* f starts at zero and takes the steps of h.
Iterates(f, zero, h, n) ==
    f[0] = zero /\ \A k \in 1..n : f[k] = h[<<k, f[k - 1]>>]

\* A step function determines a function on the numbers up to a bound.
LEMMA PrefixRecursion ==
    ASSUME NEW S, NEW zero \in S, NEW n \in Nat, NEW h \in [(1..n) \X S -> S]
    PROVE  \E f \in [0..n -> S] : Iterates(f, zero, h, n)
  <1> USE DEF Iterates
  <1> DEFINE Q(m) == \E f \in [0..m -> S] : Iterates(f, zero, h, m)
             N == {m \in Nat : m <= n => Q(m)}
  <1>1. 0 \in N
    <2>1. PICK f : f = [k \in 0..0 |-> zero]
      OBVIOUS
    <2>2. f \in [0..0 -> S] /\ f[0] = zero
      BY ONLY <2>1, zero \in S
    <2>3. \A k \in 1..0 : f[k] = h[<<k, f[k - 1]>>]
      OBVIOUS
    <2> QED BY <2>2, <2>3
  <1>2. ASSUME NEW m \in Nat, m \in N PROVE m + 1 \in N
    <2> SUFFICES ASSUME m + 1 <= n PROVE Q(m + 1)
      OBVIOUS
    <2>1. PICK f \in [0..m -> S] : f[0] = zero /\ \A k \in 1..m : f[k] = h[<<k, f[k - 1]>>]
      BY <1>2
    <2>2. PICK x \in S : x = h[<<m + 1, f[m]>>]
      <3>1. m + 1 \in 1..n /\ f[m] \in S
        OBVIOUS
      <3> QED BY <3>1
    <2>3. PICK g : g = [k \in 0..(m + 1) |-> IF k = m + 1 THEN x ELSE f[k]]
      OBVIOUS
    <2>4. /\ g \in [0..(m + 1) -> S] /\ g[m + 1] = x
          /\ \A k \in 0..m : g[k] = f[k]
      BY ONLY <2>1, <2>2, <2>3, m \in Nat
    <2>5. ASSUME NEW k \in 1..(m + 1) PROVE g[k] = h[<<k, g[k - 1]>>]
      <3>1. CASE k = m + 1
        <4>1. k - 1 = m /\ m \in 0..m
          BY <3>1
        <4>2. g[k - 1] = f[m] /\ g[k] = x
          BY ONLY <2>4, <3>1, <4>1
        <4> QED BY ONLY <2>2, <3>1, <4>2
      <3>2. CASE k # m + 1
        <4>1. k \in 1..m /\ k \in 0..m /\ k - 1 \in 0..m
          BY <3>2
        <4> QED BY <2>1, <2>4, <4>1
      <3> QED BY <3>1, <3>2
    <2>6. g[0] = zero
      BY <2>1, <2>4
    <2> QED BY <2>4, <2>5, <2>6
  <1>3. Nat \subseteq N
    <2> HIDE DEF N
    <2> QED BY <1>1, <1>2, SetInduction
  <1>4. n \in N
    BY <1>3
  <1> QED BY <1>4

\* Two functions with the same start and the same steps are the same as far as
\* the steps go.
StepTogether(f, g, n) ==
    f[0] = g[0] /\ \A k \in 1..n : f[k - 1] = g[k - 1] => f[k] = g[k]
Agree(f, g, n) == \A k \in 0..n : f[k] = g[k]

\* Step by step they agree.
LEMMA SameSteps ==
    ASSUME NEW n \in Nat, NEW f, NEW g, StepTogether(f, g, n)
    PROVE  Agree(f, g, n)
  <1> USE DEF StepTogether, Agree
  <1> DEFINE N == {m \in Nat : m <= n => f[m] = g[m]}
  <1>1. 0 \in N
    OBVIOUS
  <1>2. ASSUME NEW m \in Nat, m \in N PROVE m + 1 \in N
    <2> SUFFICES ASSUME m + 1 <= n PROVE f[m + 1] = g[m + 1]
      OBVIOUS
    <2>1. f[m] = g[m] /\ m + 1 \in 1..n /\ (m + 1) - 1 = m
      BY <1>2
    <2> QED BY <2>1
  <1>3. Nat \subseteq N
    <2> HIDE DEF N
    <2> QED BY <1>1, <1>2, SetInduction
  <1> QED BY <1>3

-----------------------------------------------------------------------------
(* What Without keeps.                                                      *)

\* A function on the lengths of the prefixes of s that takes the steps of Without.
StepsOf(s, S, f) ==
    /\ f[0] = <<>>
    /\ \A k \in 1..Len(s) :
          f[k] = IF s[k] \in S THEN f[k - 1] ELSE Append(f[k - 1], s[k])

\* The recursion of Without defines such a function.
LEMMA WithoutSteps ==
    ASSUME NEW T, NEW s \in Seq(T), NEW S
    PROVE  \E f \in [0..Len(s) -> Seq(T)] :
              StepsOf(s, S, f) /\ Without(s, S) = f[Len(s)]
  <1> DEFINE K(g) == g = [k \in 0..Len(s) |->
                            IF k = 0 THEN <<>>
                            ELSE IF s[k] \in S THEN g[k - 1] ELSE Append(g[k - 1], s[k])]
  <1>1. PICK n : n = Len(s)
    OBVIOUS
  <1>2. n \in Nat /\ \A k \in 1..n : s[k] \in T
    BY <1>1
  <1>3. PICK h : h = [p \in (1..n) \X Seq(T) |->
                        IF s[p[1]] \in S THEN p[2] ELSE Append(p[2], s[p[1]])]
    OBVIOUS
  <1>4. /\ h \in [(1..n) \X Seq(T) -> Seq(T)]
        /\ \A k \in 1..n, x \in Seq(T) :
              h[<<k, x>>] = IF s[k] \in S THEN x ELSE Append(x, s[k])
    <2>1. \A k \in 1..n, x \in Seq(T) : Append(x, s[k]) \in Seq(T)
      BY <1>2, AppendProperties
    <2> QED BY ONLY <1>3, <2>1
  <1>5. PICK z \in Seq(T) : z = <<>>
    <2>1. <<>> \in Seq(T)
      BY EmptySeq
    <2> QED BY <2>1
  <1>6. PICK f \in [0..n -> Seq(T)] : Iterates(f, z, h, n)
    <2>1. h \in [(1..n) \X Seq(T) -> Seq(T)] /\ n \in Nat /\ z \in Seq(T)
      BY <1>2, <1>4
    <2> QED BY ONLY <2>1, PrefixRecursion
  <1>7. \A k \in 1..n :
            f[k] = IF s[k] \in S THEN f[k - 1] ELSE Append(f[k - 1], s[k])
    <2> SUFFICES ASSUME NEW k \in 1..n
                 PROVE  f[k] = IF s[k] \in S THEN f[k - 1] ELSE Append(f[k - 1], s[k])
      OBVIOUS
    <2>1. k - 1 \in 0..n
      BY <1>2
    <2> QED BY <1>4, <1>6, <2>1 DEF Iterates
  <1>8. K(f)
    <2>1. \A k \in 0..n : f[k] = IF k = 0 THEN <<>>
                            ELSE IF s[k] \in S THEN f[k - 1] ELSE Append(f[k - 1], s[k])
      <3> SUFFICES ASSUME NEW k \in 0..n
                   PROVE  f[k] = IF k = 0 THEN <<>>
                            ELSE IF s[k] \in S THEN f[k - 1] ELSE Append(f[k - 1], s[k])
        OBVIOUS
      <3>1. k = 0 \/ k \in 1..n
        BY <1>2
      <3> QED BY <1>2, <1>5, <1>6, <1>7, <3>1 DEF Iterates
    <2> QED BY ONLY <1>1, <2>1, f \in [0..n -> Seq(T)]
  <1>9. PICK c : c = CHOOSE g : K(g)
    OBVIOUS
  <1>10. Without(s, S) = c[Len(s)]
    BY <1>9, Zenon DEF Without
  <1>11. K(c)
    <2> HIDE DEF K
    <2> QED BY <1>8, <1>9, Zenon
  <1>12. /\ c[0] = <<>>
         /\ \A k \in 1..n :
             c[k] = IF s[k] \in S THEN c[k - 1] ELSE Append(c[k - 1], s[k])
    <2>1. c = [k \in 0..n |-> IF k = 0 THEN <<>>
                 ELSE IF s[k] \in S THEN c[k - 1] ELSE Append(c[k - 1], s[k])]
      BY <1>1, <1>11, Zenon
    <2>2. 0 \in 0..n /\ \A k \in 1..n : k \in 0..n /\ k # 0
      BY <1>2
    <2> QED BY ONLY <2>1, <2>2
  <1>13. \A k \in 0..n : f[k] = c[k]
    <2>1. \A k \in 1..n : f[k - 1] = c[k - 1] => f[k] = c[k]
      BY ONLY <1>7, <1>12
    <2>2. n \in Nat /\ StepTogether(f, c, n)
      BY ONLY <1>2, <1>5, <1>6, <1>12, <2>1 DEF Iterates, StepTogether
    <2>3. Agree(f, c, n)
      BY ONLY <2>2, SameSteps
    <2> QED BY ONLY <2>3 DEF Agree
  <1>14. StepsOf(s, S, f)
    BY ONLY <1>1, <1>5, <1>6, <1>7 DEF StepsOf, Iterates
  <1>15. n \in 0..n
    BY <1>2
  <1>16. Without(s, S) = f[Len(s)]
    BY ONLY <1>1, <1>10, <1>13, <1>15
  <1> QED BY <1>1, <1>14, <1>16, Zenon

\* Without keeps a sequence's elements, and of an empty one none.
LEMMA WithoutType ==
    ASSUME NEW T, NEW s \in Seq(T), NEW S
    PROVE  Without(s, S) \in Seq(T)
  <1>1. PICK f \in [0..Len(s) -> Seq(T)] : Without(s, S) = f[Len(s)]
    BY WithoutSteps
  <1>2. Len(s) \in 0..Len(s)
    BY LenProperties
  <1> QED BY <1>1, <1>2

\* Of an empty sequence nothing is left.
LEMMA WithoutEmpty ==
    ASSUME NEW S
    PROVE  Without(<<>>, S) = <<>>
  <1>1. <<>> \in Seq({}) /\ Len(<<>>) = 0
    BY EmptySeq
  <1>2. PICK e \in Seq({}) : e = <<>> /\ Len(e) = 0
    BY <1>1
  <1>3. PICK f \in [0..Len(e) -> Seq({})] : StepsOf(e, S, f) /\ Without(e, S) = f[Len(e)]
    BY WithoutSteps
  <1> QED BY <1>2, <1>3 DEF StepsOf

\* An element at the end is kept if it is not one to leave out.
LEMMA WithoutAppend ==
    ASSUME NEW T, NEW s \in Seq(T), NEW e \in T, NEW S
    PROVE  Without(Append(s, e), S) =
              IF e \in S THEN Without(s, S) ELSE Append(Without(s, S), e)
  <1>1. PICK t \in Seq(T) : t = Append(s, e)
    BY AppendProperties
  <1>2. PICK n : n = Len(s)
    OBVIOUS
  <1>3. n \in Nat /\ Len(t) = n + 1 /\ t[n + 1] = e /\ \A k \in 1..n : t[k] = s[k]
    BY <1>1, <1>2, AppendProperties, LenProperties
  <1>4. PICK f \in [0..Len(s) -> Seq(T)] : StepsOf(s, S, f) /\ Without(s, S) = f[Len(s)]
    BY WithoutSteps
  <1>5. PICK g \in [0..Len(t) -> Seq(T)] : StepsOf(t, S, g) /\ Without(t, S) = g[Len(t)]
    BY WithoutSteps
  <1>6. \A k \in 0..n : f[k] = g[k]
    <2>1. \A k \in 1..n : f[k - 1] = g[k - 1] => f[k] = g[k]
      <3> SUFFICES ASSUME NEW k \in 1..n, f[k - 1] = g[k - 1] PROVE f[k] = g[k]
        OBVIOUS
      <3>1. k \in 1..Len(t) /\ t[k] = s[k]
        BY <1>3
      <3>2. g[k] = IF s[k] \in S THEN g[k - 1] ELSE Append(g[k - 1], s[k])
        BY ONLY <1>5, <3>1 DEF StepsOf
      <3>3. f[k] = IF s[k] \in S THEN f[k - 1] ELSE Append(f[k - 1], s[k])
        BY ONLY <1>2, <1>4, k \in 1..n DEF StepsOf
      <3> QED BY ONLY <3>2, <3>3, f[k - 1] = g[k - 1]
    <2>2. n \in Nat /\ StepTogether(f, g, n)
      BY ONLY <1>3, <1>4, <1>5, <2>1 DEF StepsOf, StepTogether
    <2>3. Agree(f, g, n)
      BY ONLY <2>2, SameSteps
    <2> QED BY ONLY <2>3 DEF Agree
  <1>7. n + 1 \in 1..Len(t) /\ n \in 0..n /\ (n + 1) - 1 = n
    BY <1>3
  <1>8. g[n + 1] = IF e \in S THEN g[n] ELSE Append(g[n], e)
    <2>1. g[n + 1] = IF t[n + 1] \in S THEN g[(n + 1) - 1]
                     ELSE Append(g[(n + 1) - 1], t[n + 1])
      BY ONLY <1>5, <1>7 DEF StepsOf
    <2> QED BY ONLY <1>3, <1>7, <2>1
  <1>9. g[n] = Without(s, S) /\ g[n + 1] = Without(t, S)
    BY ONLY <1>2, <1>3, <1>4, <1>5, <1>6, <1>7
  <1> QED BY ONLY <1>1, <1>8, <1>9
-----------------------------------------------------------------------------
(* Sequences without a repetition.                                          *)

\* The elements of a sequence and of the same one extended.
LEMMA AppendElements ==
    ASSUME NEW T, NEW s \in Seq(T), NEW e \in T
    PROVE  /\ ToSet(Append(s, e)) = ToSet(s) \cup {e}
           /\ IsInjective(Append(s, e)) <=> IsInjective(s) /\ e \notin ToSet(s)
  <1>1. PICK t \in Seq(T) : t = Append(s, e)
    BY AppendProperties
  <1>2. PICK n \in Nat : n = Len(s)
    BY LenProperties
  <1>3. /\ DOMAIN t = 1..(n + 1) /\ DOMAIN s = 1..n
        /\ t[n + 1] = e /\ \A k \in 1..n : t[k] = s[k]
    BY <1>1, <1>2, AppendProperties, LenProperties
  <1>4. 1..(n + 1) = (1..n) \cup {n + 1} /\ n + 1 \notin 1..n
    OBVIOUS
  <1>5. ToSet(t) = ToSet(s) \cup {e}
    BY ONLY <1>3, <1>4 DEF ToSet
  <1>6. ASSUME IsInjective(t) PROVE IsInjective(s) /\ e \notin ToSet(s)
    <2>1. IsInjective(s)
      BY ONLY <1>3, <1>4, <1>6 DEF IsInjective
    <2>2. e \notin ToSet(s)
      BY ONLY <1>3, <1>4, <1>6 DEF IsInjective, ToSet
    <2> QED BY <2>1, <2>2
  <1>7. ASSUME IsInjective(s), e \notin ToSet(s) PROVE IsInjective(t)
    BY ONLY <1>3, <1>4, <1>7 DEF IsInjective, ToSet
  <1> QED BY <1>1, <1>5, <1>6, <1>7

\* The elements of two sequences and of one after the other.
LEMMA ConcatElements ==
    ASSUME NEW T, NEW s \in Seq(T), NEW t \in Seq(T)
    PROVE  /\ ToSet(s \o t) = ToSet(s) \cup ToSet(t)
           /\ IsInjective(s) /\ IsInjective(t) /\ ToSet(s) \cap ToSet(t) = {}
                => IsInjective(s \o t)
  <1>1. PICK u \in Seq(T) : u = s \o t
    BY ConcatProperties
  <1>2. PICK n \in Nat : n = Len(s)
    BY LenProperties
  <1>3. PICK m \in Nat : m = Len(t)
    BY LenProperties
  <1>4. DOMAIN s = 1..n /\ DOMAIN t = 1..m /\ DOMAIN u = 1..(n + m)
    BY <1>1, <1>2, <1>3, ConcatProperties, LenProperties
  <1>5. /\ \A k \in 1..n : k \in 1..(n + m) /\ u[k] = s[k]
        /\ \A k \in 1..m : n + k \in 1..(n + m) /\ u[n + k] = t[k]
    BY <1>1, <1>2, <1>3, ConcatProperties
  <1>6. \A k \in 1..(n + m) : k \in 1..n \/ (k - n \in 1..m /\ n + (k - n) = k)
    OBVIOUS
  <1>7. ToSet(u) = ToSet(s) \cup ToSet(t)
    <2>1. \A x \in ToSet(s) \cup ToSet(t) : x \in ToSet(u)
      BY ONLY <1>4, <1>5 DEF ToSet
    <2>2. ASSUME NEW k \in 1..(n + m) PROVE u[k] \in ToSet(s) \cup ToSet(t)
      BY ONLY <1>4, <1>5, <1>6, k \in 1..(n + m) DEF ToSet
    <2>3. \A x \in ToSet(u) : x \in ToSet(s) \cup ToSet(t)
      BY ONLY <1>4, <2>2 DEF ToSet
    <2> QED BY <2>1, <2>3
  <1>8. ASSUME IsInjective(s), IsInjective(t), ToSet(s) \cap ToSet(t) = {}
        PROVE  IsInjective(u)
    <2>0. /\ \A k \in 1..n : u[k] \in ToSet(s)
          /\ \A k \in 1..(n + m) : k \notin 1..n => u[k] \in ToSet(t)
      <3>1. \A k \in 1..n : u[k] \in ToSet(s)
        BY ONLY <1>4, <1>5 DEF ToSet
      <3>2. ASSUME NEW k \in 1..(n + m), k \notin 1..n PROVE u[k] \in ToSet(t)
        <4>1. k - n \in 1..m /\ u[k] = t[k - n]
          BY ONLY <1>5, <1>6, <3>2
        <4> QED BY ONLY <1>4, <4>1 DEF ToSet
      <3> QED BY <3>1, <3>2
    <2>1. ASSUME NEW a \in 1..(n + m), NEW b \in 1..(n + m), u[a] = u[b]
          PROVE  a = b
      <3>1. CASE a \in 1..n /\ b \in 1..n
        BY ONLY <1>4, <1>5, <1>8, <2>1, <3>1 DEF IsInjective
      <3>2. CASE a \in 1..n /\ b \notin 1..n
        <4>1. u[a] \in ToSet(s) /\ u[b] \in ToSet(t)
          BY ONLY <2>0, <3>2, b \in 1..(n + m)
        <4> QED BY ONLY <1>8, <2>1, <4>1
      <3>3. CASE a \notin 1..n /\ b \in 1..n
        <4>1. u[b] \in ToSet(s) /\ u[a] \in ToSet(t)
          BY ONLY <2>0, <3>3, a \in 1..(n + m)
        <4> QED BY ONLY <1>8, <2>1, <4>1
      <3>4. CASE a \notin 1..n /\ b \notin 1..n
        <4>1. /\ a - n \in 1..m /\ n + (a - n) = a /\ b - n \in 1..m /\ n + (b - n) = b
          BY ONLY <1>6, <3>4, a \in 1..(n + m), b \in 1..(n + m)
        <4>2. t[a - n] = t[b - n]
          BY ONLY <1>5, <2>1, <4>1
        <4>3. a - n = b - n
          BY ONLY <1>4, <1>8, <4>1, <4>2 DEF IsInjective
        <4> QED BY ONLY <4>1, <4>3
      <3> QED BY <3>1, <3>2, <3>3, <3>4
    <2> QED BY ONLY <1>4, <2>1 DEF IsInjective
  <1> QED BY <1>1, <1>7, <1>8

\* A part of a sequence without a repetition has none, and what comes after it
\* is not in it.
LEMMA PartsInjective ==
    ASSUME NEW T, NEW s \in Seq(T), NEW n \in 0..Len(s)
    PROVE  /\ SubSeq(s, 1, n) \in Seq(T) /\ SubSeq(s, n + 1, Len(s)) \in Seq(T)
           /\ Len(SubSeq(s, 1, n)) = n /\ Len(SubSeq(s, n + 1, Len(s))) = Len(s) - n
           /\ \A k \in 1..n : SubSeq(s, 1, n)[k] = s[k]
           /\ ToSet(SubSeq(s, 1, n)) \subseteq ToSet(s)
           /\ ToSet(SubSeq(s, n + 1, Len(s))) \subseteq ToSet(s)
           /\ IsInjective(s) =>
                /\ IsInjective(SubSeq(s, 1, n)) /\ IsInjective(SubSeq(s, n + 1, Len(s)))
                /\ ToSet(SubSeq(s, 1, n)) \cap ToSet(SubSeq(s, n + 1, Len(s))) = {}
  <1>1. PICK m \in Nat : m = Len(s)
    BY LenProperties
  <1>2. DOMAIN s = 1..m /\ n \in Nat /\ n <= m /\ \A k \in 1..m : s[k] \in T
    BY <1>1, LenProperties
  <1>3. PICK a : a = SubSeq(s, 1, n)
    OBVIOUS
  <1>4. PICK b : b = SubSeq(s, n + 1, m)
    OBVIOUS
  <1>5. a \in Seq(T) /\ Len(a) = n /\ \A k \in 1..n : a[k] = s[k]
    <2>1. \A k \in 1..n : s[k] \in T
      BY <1>2
    <2> QED BY <1>2, <1>3, <2>1, SubSeqProperties
  <1>6. b \in Seq(T) /\ Len(b) = m - n /\ \A k \in 1..(m - n) : b[k] = s[n + k]
    <2>1. \A k \in (n + 1)..m : s[k] \in T
      BY <1>2
    <2>2. /\ b \in Seq(T) /\ Len(b) = (IF n + 1 <= m THEN m - (n + 1) + 1 ELSE 0)
          /\ \A k \in 1..(m - (n + 1) + 1) : b[k] = s[(n + 1) + k - 1]
      BY <1>2, <1>4, <2>1, SubSeqProperties
    <2>3. m - (n + 1) + 1 = m - n /\ \A k \in Int : (n + 1) + k - 1 = n + k
      BY <1>2
    <2>4. Len(b) = m - n
      BY <1>2, <2>2
    <2>5. ASSUME NEW k \in 1..(m - n) PROVE b[k] = s[n + k]
      BY <2>2, <2>3
    <2> QED BY <2>2, <2>4, <2>5
  <1>7. DOMAIN a = 1..n /\ DOMAIN b = 1..(m - n)
    BY <1>5, <1>6, LenProperties
  <1>8. /\ \A k \in 1..n : k \in 1..m
        /\ \A k \in 1..(m - n) : n + k \in 1..m /\ n + k \notin 1..n
    BY <1>2
  <1>9. ToSet(a) \subseteq ToSet(s) /\ ToSet(b) \subseteq ToSet(s)
    BY ONLY <1>2, <1>5, <1>6, <1>7, <1>8 DEF ToSet
  <1>10. ASSUME IsInjective(s)
         PROVE  IsInjective(a) /\ IsInjective(b) /\ ToSet(a) \cap ToSet(b) = {}
    <2>1. IsInjective(a)
      BY ONLY <1>2, <1>5, <1>7, <1>8, <1>10 DEF IsInjective
    <2>2. IsInjective(b)
      <3> SUFFICES ASSUME NEW k \in 1..(m - n), NEW l \in 1..(m - n), b[k] = b[l]
                   PROVE  k = l
        BY <1>7 DEF IsInjective
      <3>1. s[n + k] = s[n + l] /\ n + k \in 1..m /\ n + l \in 1..m
        BY <1>6, <1>8
      <3>2. n + k = n + l
        BY ONLY <1>2, <1>10, <3>1 DEF IsInjective
      <3> QED BY <1>2, <3>2
    <2>3. \A k \in 1..n, l \in 1..(m - n) : a[k] # b[l]
      <3> SUFFICES ASSUME NEW k \in 1..n, NEW l \in 1..(m - n), a[k] = b[l]
                   PROVE  FALSE
        OBVIOUS
      <3>1. s[k] = s[n + l] /\ k \in 1..m /\ n + l \in 1..m /\ n + l \notin 1..n
        BY <1>5, <1>6, <1>8
      <3>2. k = n + l
        BY ONLY <1>2, <1>10, <3>1 DEF IsInjective
      <3> QED BY <3>1, <3>2
    <2>4. ToSet(a) \cap ToSet(b) = {}
      BY ONLY <1>7, <2>3 DEF ToSet
    <2> QED BY <2>1, <2>2, <2>4
  <1> QED BY <1>1, <1>3, <1>4, <1>5, <1>6, <1>9, <1>10

\* Cut anywhere, the two parts of a sequence make the whole.
LEMMA PartsOfWhole ==
    ASSUME NEW T, NEW s \in Seq(T), NEW n \in 0..Len(s)
    PROVE  SubSeq(s, 1, n) \o SubSeq(s, n + 1, Len(s)) = s
  <1>1. Len(s) \in Nat
    BY LenProperties
  <1>2. 1 \in 1..Len(s) + 1 /\ n \in 1 - 1 .. Len(s) /\ Len(s) \in n .. Len(s)
    BY <1>1
  <1>3. SubSeq(s, 1, n) \o SubSeq(s, n + 1, Len(s)) = SubSeq(s, 1, Len(s))
    BY ONLY <1>2, ConcatAdjacentSubSeq, s \in Seq(T)
  <1>4. SubSeq(s, 1, Len(s)) = s
    BY SubSeqFull
  <1> QED BY ONLY <1>3, <1>4

\* What is left of a sequence are its elements without those taken out.
LEMMA WithoutElements ==
    ASSUME NEW T, NEW s \in Seq(T), NEW S
    PROVE  /\ ToSet(Without(s, S)) = ToSet(s) \ S
           /\ IsInjective(s) => IsInjective(Without(s, S))
  <1> DEFINE Good(r) == /\ ToSet(Without(r, S)) = ToSet(r) \ S
                        /\ IsInjective(r) => IsInjective(Without(r, S))
             P == {r \in Seq(T) : Good(r)}
  <1>1. <<>> \in P
    <2>1. DOMAIN <<>> = {}
      OBVIOUS
    <2>2. Good(<<>>)
      BY <2>1, WithoutEmpty DEF ToSet, IsInjective
    <2>3. <<>> \in Seq(T)
      BY EmptySeq
    <2> QED BY <2>2, <2>3
  <1>2. ASSUME NEW r \in Seq(T), NEW e \in T, r \in P
        PROVE  Append(r, e) \in P
    <2>1. Good(r)
      BY <1>2
    <2>2. PICK w \in Seq(T) : w = Without(r, S)
      BY WithoutType
    <2>3. Append(r, e) \in Seq(T) /\ Without(Append(r, e), S) = IF e \in S THEN w ELSE Append(w, e)
      BY <2>2, AppendProperties, WithoutAppend
    <2>4. /\ ToSet(Append(r, e)) = ToSet(r) \cup {e}
          /\ IsInjective(Append(r, e)) <=> IsInjective(r) /\ e \notin ToSet(r)
          /\ ToSet(Append(w, e)) = ToSet(w) \cup {e}
          /\ IsInjective(Append(w, e)) <=> IsInjective(w) /\ e \notin ToSet(w)
      BY AppendElements
    <2>5. ToSet(w) = ToSet(r) \ S /\ (IsInjective(r) => IsInjective(w))
      BY <2>1, <2>2
    <2>6. Good(Append(r, e))
      BY ONLY <2>3, <2>4, <2>5
    <2> QED BY <2>3, <2>6
  <1>3. Seq(T) \subseteq P
    <2> HIDE DEF P
    <2> QED BY <1>1, <1>2, AppendInduction
  <1> QED BY <1>3

\* The elements of a finite set in some order.
LEMMA SetAsSequence ==
    ASSUME NEW D, IsFiniteSet(D)
    PROVE  SetToSeq(D) \in Seq(D) /\ IsInjective(SetToSeq(D)) /\ ToSet(SetToSeq(D)) = D
  <1>1. PICK n \in Nat : n = Cardinality(D)
    BY FS_CardinalityType
  <1>2. \E f \in [1..n -> D] : IsInjective(f)
    BY <1>1, FS_CardinalityType DEF ExistsBijection, Bijection, Injection
  <1>3. PICK f : f = CHOOSE g \in [1..n -> D] : IsInjective(g)
    OBVIOUS
  <1>4. f \in [1..n -> D] /\ IsInjective(f)
    BY <1>2, <1>3, Zenon
  <1>5. SetToSeq(D) = f
    BY <1>1, <1>3, Zenon DEF SetToSeq
  <1>6. f \in Seq(D)
    BY <1>4
  <1>7. ToSet(f) = D
    <2>1. ToSet(f) \subseteq D
      BY <1>4 DEF ToSet
    <2>2. ASSUME NEW x \in D, x \notin ToSet(f) PROVE FALSE
      <3>1. f \in [1..n -> D \ {x}]
        BY <1>4, <2>2 DEF ToSet
      <3>2. IsFiniteSet(D \ {x}) /\ Cardinality(D \ {x}) = n - 1
        BY <1>1, FS_RemoveElement
      <3>3. IsFiniteSet(1..n) /\ Cardinality(1..n) = n
        BY FS_Interval
      <3>4. Cardinality(D \ {x}) < Cardinality(1..n)
        BY ONLY <3>2, <3>3, n \in Nat
      <3>5. PICK a, b \in 1..n : a # b /\ f[a] = f[b]
        BY ONLY <3>1, <3>2, <3>3, <3>4, FS_PigeonHole
      <3> QED BY <1>4, <3>5 DEF IsInjective
    <2> QED BY <2>1, <2>2
  <1> QED BY <1>4, <1>5, <1>6, <1>7

-----------------------------------------------------------------------------
(* The epoll loop.  An event that waits for its turn has its data as long   *)
(* as only the loop itself takes data, and takes each event's data once.    *)

EpollTypes ==
    /\ interest \subseteq fds
    /\ rdllist \in Seq(fds)
    /\ mPendingEventItems \in Seq(fds)
    /\ written \in [Files -> Nat]
    /\ taken \in [Files -> Nat]

\* The ready list names no descriptor twice, and none that was not added.
ReadyListInv ==
    /\ IsInjective(rdllist)
    /\ ToSet(rdllist) \subseteq interest

\* While files are added, the next one has not been added yet.
AddingInv ==
    ep_pc = "add" =>
        /\ arg \in fds
        /\ \A fd \in interest : fd < arg

\* The events of the last epoll_wait are distinct, and those not handled yet
\* have data if no file is named twice.
EventsInv ==
    ep_pc = "read" =>
        /\ pollRes \in 1..Len(mPendingEventItems)
        /\ arg \in 1..pollRes
        /\ \A j, k \in 1..pollRes : mPendingEventItems[j] = mPendingEventItems[k] => j = k
        /\ IsInjective(argv) => \A k \in arg..pollRes : HasData(mPendingEventItems[k])

EpollInv == EpollTypes /\ ReadyListInv /\ AddingInv /\ EventsInv

\* The descriptors are the positions of argv.
LEMMA Descriptors ==
    /\ Len(argv) \in Nat /\ fds = 1..Len(argv) /\ Len(argv) >= 1
    /\ \A fd \in fds : argv[fd] \in Files
    /\ IsFiniteSet(fds)
  <1>1. argv \in Seq(Files) /\ argv # <<>>
    BY EpollAssumption
  <1>2. Len(argv) \in Nat /\ fds = 1..Len(argv) /\ Len(argv) >= 1
    BY <1>1, LenProperties, EmptySeq DEF fds
  <1>3. \A fd \in 1..Len(argv) : argv[fd] \in Files
    BY <1>1, ElementOfSeq
  <1> QED BY <1>2, <1>3, FS_Interval

\* Adding a file: the descriptor is new, in the interest list and in the ready
\* list.
LEMMA AddFileKeeps == EpollInv /\ AddFile => EpollInv'
  <1> SUFFICES ASSUME EpollInv, AddFile PROVE EpollInv'
    OBVIOUS
  <1>1. /\ ep_pc = "add" /\ arg' = arg + 1 /\ add_to_epoll(arg)
        /\ ep_pc' = IF arg = Len(argv) THEN "wait" ELSE "add"
        /\ mPendingEventItems' = mPendingEventItems
        /\ written' = written /\ taken' = taken
    BY DEF AddFile
  <1>2. arg \in fds /\ \A fd \in interest : fd < arg
    BY <1>1 DEF EpollInv, AddingInv
  <1>3. /\ interest' \subseteq interest \cup {arg}
        /\ \/ rdllist' = rdllist /\ interest \subseteq interest'
           \/ rdllist' = Append(rdllist, arg) /\ interest' = interest \cup {arg}
    BY <1>1 DEF add_to_epoll
  <1>4. /\ interest \subseteq fds /\ rdllist \in Seq(fds)
        /\ IsInjective(rdllist) /\ ToSet(rdllist) \subseteq interest
    BY DEF EpollInv, EpollTypes, ReadyListInv
  <1>5. /\ ToSet(Append(rdllist, arg)) = ToSet(rdllist) \cup {arg}
        /\ IsInjective(Append(rdllist, arg)) <=> IsInjective(rdllist) /\ arg \notin ToSet(rdllist)
        /\ Append(rdllist, arg) \in Seq(fds)
    BY ONLY <1>2, <1>4, AppendElements, AppendProperties
  <1>6. arg \notin ToSet(rdllist)
    BY <1>2, <1>4, Descriptors
  <1>7. rdllist' \in Seq(fds) /\ IsInjective(rdllist') /\ ToSet(rdllist') \subseteq interest'
    BY ONLY <1>3, <1>4, <1>5, <1>6
  <1>8. EpollTypes'
    <2>1. interest' \subseteq fds
      BY <1>2, <1>3, <1>4
    <2>2. /\ mPendingEventItems' \in Seq(fds)
          /\ written' \in [Files -> Nat] /\ taken' \in [Files -> Nat]
      BY <1>1 DEF EpollInv, EpollTypes
    <2> QED BY <1>7, <2>1, <2>2 DEF EpollTypes, fds
  <1>9. ReadyListInv'
    BY <1>7 DEF ReadyListInv
  <1>10. AddingInv'
    <2> SUFFICES ASSUME ep_pc' = "add" PROVE arg' \in fds /\ \A fd \in interest' : fd < arg'
      BY DEF AddingInv, fds
    <2>1. arg # Len(argv)
      BY <1>1
    <2>2. arg' \in fds
      BY <1>1, <1>2, <2>1, Descriptors
    <2>3. \A fd \in interest' : fd < arg'
      BY <1>1, <1>2, <1>3, <1>4, Descriptors
    <2> QED BY <2>2, <2>3
  <1>11. EventsInv'
    BY <1>1 DEF EventsInv
  <1> QED BY <1>8, <1>9, <1>10, <1>11 DEF EpollInv

\* A write: what becomes ready was not on the ready list, and no data is lost.
LEMMA WriteFileKeeps ==
    ASSUME NEW f \in Files, NEW n \in Nat
    PROVE  EpollInv /\ WriteFile(f, n) => EpollInv'
  <1> SUFFICES ASSUME EpollInv, WriteFile(f, n) PROVE EpollInv'
    OBVIOUS
  <1> DEFINE D == {fd \in interest \ ToSet(rdllist) : argv[fd] = f}
  <1>1. /\ written' = [written EXCEPT ![f] = @ + n]
        /\ rdllist' = rdllist \o SetToSeq(D)
        /\ ep_pc' = ep_pc /\ arg' = arg /\ interest' = interest /\ pollRes' = pollRes
        /\ mPendingEventItems' = mPendingEventItems /\ taken' = taken
    BY DEF WriteFile
  <1>2. /\ interest \subseteq fds /\ rdllist \in Seq(fds)
        /\ mPendingEventItems \in Seq(fds)
        /\ written \in [Files -> Nat] /\ taken \in [Files -> Nat]
        /\ IsInjective(rdllist) /\ ToSet(rdllist) \subseteq interest
    BY DEF EpollInv, EpollTypes, ReadyListInv
  <1>3. D \subseteq interest /\ D \subseteq fds /\ D \cap ToSet(rdllist) = {}
    BY <1>2
  <1>4. PICK q : q = SetToSeq(D)
    OBVIOUS
  <1>5. IsFiniteSet(D)
    BY <1>3, Descriptors, FS_Subset
  <1> HIDE DEF D
  <1>6. q \in Seq(D) /\ IsInjective(q) /\ ToSet(q) \subseteq D
    BY ONLY <1>4, <1>5, SetAsSequence
  <1>7. q \in Seq(fds)
    BY ONLY <1>3, <1>6, SeqMonotonic
  <1>8. rdllist' \in Seq(fds) /\ IsInjective(rdllist') /\ ToSet(rdllist') \subseteq interest
    <2>1. rdllist \o q \in Seq(fds)
      BY ONLY <1>2, <1>7, ConcatProperties
    <2>2. /\ ToSet(rdllist \o q) = ToSet(rdllist) \cup ToSet(q)
          /\ IsInjective(rdllist) /\ IsInjective(q) /\ ToSet(rdllist) \cap ToSet(q) = {}
                => IsInjective(rdllist \o q)
      BY ONLY <1>2, <1>7, ConcatElements
    <2>3. rdllist' = rdllist \o q
      BY <1>1, <1>4
    <2> QED BY ONLY <1>2, <1>3, <1>6, <2>1, <2>2, <2>3
  <1>9. written' \in [Files -> Nat] /\ \A g \in Files : written'[g] >= written[g]
    BY ONLY <1>1, <1>2, n \in Nat
  <1>10. EpollTypes'
    BY <1>1, <1>2, <1>8, <1>9 DEF EpollTypes, fds
  <1>11. ReadyListInv'
    BY <1>1, <1>8 DEF ReadyListInv
  <1>12. AddingInv'
    BY <1>1 DEF EpollInv, AddingInv, fds
  <1>13. EventsInv'
    <2> SUFFICES ASSUME ep_pc = "read" PROVE EventsInv'
      BY <1>1 DEF EventsInv
    <2>1. /\ pollRes \in 1..Len(mPendingEventItems) /\ arg \in 1..pollRes
          /\ \A j, k \in 1..pollRes : mPendingEventItems[j] = mPendingEventItems[k] => j = k
          /\ IsInjective(argv) => \A k \in arg..pollRes : HasData(mPendingEventItems[k])
      BY DEF EpollInv, EventsInv
    <2>2. ASSUME IsInjective(argv), NEW k \in arg..pollRes
          PROVE  HasData(mPendingEventItems[k])'
      <3>1. HasData(mPendingEventItems[k]) /\ k \in 1..Len(mPendingEventItems)
        BY <2>1, <2>2, <1>2
      <3>2. PICK g \in Files : g = argv[mPendingEventItems[k]]
        <4>1. mPendingEventItems[k] \in fds
          BY <1>2, <3>1, ElementOfSeq
        <4> QED BY <4>1, Descriptors
      <3>3. written[g] > taken[g]
        BY <3>1, <3>2 DEF HasData
      <3>4. written'[g] > taken'[g]
        BY ONLY <1>1, <1>2, <1>9, <3>3, g \in Files
      <3> QED BY <1>1, <3>2, <3>4 DEF HasData
    <2> QED BY <1>1, <2>1, <2>2 DEF EventsInv
  <1> QED BY <1>10, <1>11, <1>12, <1>13 DEF EpollInv

\* epoll_wait: it returns the first of the ready descriptors that have data, and
\* puts them behind the others.
LEMMA EpollWaitKeeps == EpollInv /\ EpollWait => EpollInv'
  <1> SUFFICES ASSUME EpollInv, EpollWait PROVE EpollInv'
    OBVIOUS
  <1> DEFINE E == {fd \in interest : ~HasData(fd)}
  <1>1. PICK ready : ready = Without(rdllist, E)
    OBVIOUS
  <1>2. PICK n : n = IF Len(ready) < EPOLL_MAX_EVENTS THEN Len(ready) ELSE EPOLL_MAX_EVENTS
    OBVIOUS
  <1>3. PICK events : events = SubSeq(ready, 1, n)
    OBVIOUS
  <1>4. PICK rest : rest = SubSeq(ready, n + 1, Len(ready))
    OBVIOUS
  <1>5. PICK old : old = SubSeq(mPendingEventItems, n + 1, Len(mPendingEventItems))
    OBVIOUS
  <1>6. /\ n > 0 /\ pollRes' = n
        /\ mPendingEventItems' = events \o old
        /\ rdllist' = rest \o events
        /\ arg' = 1 /\ ep_pc' = "read"
        /\ interest' = interest /\ written' = written /\ taken' = taken
    BY <1>1, <1>2, <1>3, <1>4, <1>5, Zenon DEF EpollWait
  <1>7. /\ interest \subseteq fds /\ rdllist \in Seq(fds)
        /\ mPendingEventItems \in Seq(fds)
        /\ written \in [Files -> Nat] /\ taken \in [Files -> Nat]
        /\ IsInjective(rdllist) /\ ToSet(rdllist) \subseteq interest
    BY DEF EpollInv, EpollTypes, ReadyListInv
  <1>8. /\ ready \in Seq(fds) /\ IsInjective(ready)
        /\ ToSet(ready) \subseteq ToSet(rdllist) \ E
    <2> HIDE DEF E
    <2>1. Without(rdllist, E) \in Seq(fds)
      BY ONLY <1>7, WithoutType
    <2>2. /\ ToSet(Without(rdllist, E)) \subseteq ToSet(rdllist) \ E
          /\ IsInjective(rdllist) => IsInjective(Without(rdllist, E))
      BY ONLY <1>7, WithoutElements
    <2> QED BY ONLY <1>1, <1>7, <2>1, <2>2
  <1>9. \A fd \in ToSet(ready) : fd \in interest /\ HasData(fd)
    BY <1>7, <1>8
  <1> HIDE DEF E
  <1>10. n \in 0..Len(ready) /\ n \in Nat
    <2>1. Len(ready) \in Nat
      BY <1>8, LenProperties
    <2> QED BY <1>2, <1>6, <2>1, EpollAssumption
  <1>11. /\ events \in Seq(fds) /\ rest \in Seq(fds) /\ Len(events) = n
         /\ \A k \in 1..n : events[k] = ready[k]
         /\ ToSet(events) \subseteq ToSet(ready) /\ ToSet(rest) \subseteq ToSet(ready)
         /\ IsInjective(events) /\ IsInjective(rest) /\ ToSet(events) \cap ToSet(rest) = {}
    BY ONLY <1>3, <1>4, <1>8, <1>10, PartsInjective
  <1>12. old \in Seq(fds)
    <2>1. Len(mPendingEventItems) \in Nat
          /\ \A k \in 1..Len(mPendingEventItems) : mPendingEventItems[k] \in fds
      BY <1>7, LenProperties, ElementOfSeq
    <2>2. \A k \in (n + 1)..Len(mPendingEventItems) : mPendingEventItems[k] \in fds
      BY <1>10, <2>1
    <2> QED BY <1>5, <1>10, <2>1, <2>2, SubSeqProperties
  <1>13. /\ mPendingEventItems' \in Seq(fds)
         /\ n \in 1..Len(mPendingEventItems')
         /\ \A k \in 1..n : mPendingEventItems'[k] = events[k]
    <2>1. /\ events \o old \in Seq(fds) /\ Len(events \o old) = Len(events) + Len(old)
          /\ \A k \in 1..(Len(events) + Len(old)) :
                (events \o old)[k] = IF k <= Len(events) THEN events[k]
                                     ELSE old[k - Len(events)]
      BY ONLY <1>11, <1>12, ConcatProperties
    <2>2. Len(old) \in Nat
      BY <1>12, LenProperties
    <2>3. mPendingEventItems' = events \o old /\ n > 0
      BY <1>6
    <2>4. n \in 1..Len(events \o old)
      BY ONLY <1>10, <1>11, <2>1, <2>2, <2>3
    <2>5. \A k \in 1..n : (events \o old)[k] = events[k]
      BY ONLY <1>10, <1>11, <2>1, <2>2
    <2> QED BY ONLY <2>1, <2>3, <2>4, <2>5
  <1>14. \A k \in 1..n : events[k] \in ToSet(events) /\ HasData(events[k])
    <2>1. \A k \in 1..n : events[k] \in ToSet(events)
      <3>1. DOMAIN events = 1..n
        BY ONLY <1>11, LenProperties
      <3> QED BY ONLY <3>1 DEF ToSet
    <2> QED BY ONLY <1>9, <1>11, <2>1
  <1>15. EpollTypes'
    <2>1. rdllist' \in Seq(fds)
      BY <1>6, <1>11, ConcatProperties
    <2> QED BY <1>6, <1>7, <1>13, <2>1 DEF EpollTypes, fds
  <1>16. ReadyListInv'
    <2>1. /\ ToSet(rest \o events) = ToSet(rest) \cup ToSet(events)
          /\ IsInjective(rest) /\ IsInjective(events) /\ ToSet(rest) \cap ToSet(events) = {}
                => IsInjective(rest \o events)
      BY ONLY <1>11, ConcatElements
    <2>2. IsInjective(rdllist')
      BY ONLY <1>6, <1>11, <2>1
    <2>3. ToSet(rdllist') \subseteq interest'
      BY ONLY <1>6, <1>9, <1>11, <2>1
    <2> QED BY ONLY <2>2, <2>3 DEF ReadyListInv
  <1>17. AddingInv'
    BY <1>6 DEF AddingInv
  <1>18. EventsInv'
    <2>1. pollRes' \in 1..Len(mPendingEventItems') /\ arg' \in 1..pollRes'
      BY <1>6, <1>10, <1>13
    <2>2. ASSUME NEW j \in 1..n, NEW k \in 1..n,
                 mPendingEventItems'[j] = mPendingEventItems'[k]
          PROVE  j = k
      <3>1. events[j] = events[k] /\ DOMAIN events = 1..n
        BY ONLY <1>11, <1>13, <2>2, LenProperties
      <3> QED BY ONLY <1>11, <3>1, j \in 1..n, k \in 1..n DEF IsInjective
    <2>3. ASSUME NEW k \in 1..n PROVE HasData(mPendingEventItems[k])'
      <3>1. mPendingEventItems'[k] = events[k] /\ HasData(events[k])
        BY <1>13, <1>14
      <3> QED BY <1>6, <3>1 DEF HasData
    <2> QED BY <1>6, <2>1, <2>2, <2>3 DEF EventsInv
  <1> QED BY <1>15, <1>16, <1>17, <1>18 DEF EpollInv

\* A read takes the data of its own file only, which no later event names.
LEMMA ReadEventKeeps == EpollInv /\ ReadEvent => EpollInv'
  <1> SUFFICES ASSUME EpollInv, ReadEvent PROVE EpollInv'
    OBVIOUS
  <1>1. PICK fd : fd = mPendingEventItems[arg]
    OBVIOUS
  <1>2. PICK f : f = argv[fd]
    OBVIOUS
  <1>3. PICK len : len = IF written[f] - taken[f] < DATA_MAX_LEN
                         THEN written[f] - taken[f] ELSE DATA_MAX_LEN
    OBVIOUS
  <1>4. /\ ep_pc = "read" /\ HasData(fd)
        /\ taken' = [taken EXCEPT ![f] = @ + len]
        /\ ep_pc' = IF len = DATA_MAX_LEN THEN "stray"
                    ELSE IF MoreEvents(arg) THEN "read" ELSE "wait"
        /\ arg' = arg + 1 /\ interest' = interest /\ rdllist' = rdllist
        /\ pollRes' = pollRes /\ mPendingEventItems' = mPendingEventItems
        /\ written' = written
    BY <1>1, <1>2, <1>3, Zenon DEF ReadEvent
  <1>5. /\ interest \subseteq fds /\ rdllist \in Seq(fds)
        /\ mPendingEventItems \in Seq(fds)
        /\ written \in [Files -> Nat] /\ taken \in [Files -> Nat]
    BY DEF EpollInv, EpollTypes
  <1>6. /\ pollRes \in 1..Len(mPendingEventItems) /\ arg \in 1..pollRes
        /\ \A j, k \in 1..pollRes : mPendingEventItems[j] = mPendingEventItems[k] => j = k
        /\ IsInjective(argv) => \A k \in arg..pollRes : HasData(mPendingEventItems[k])
    BY <1>4 DEF EpollInv, EventsInv
  <1>7. Len(mPendingEventItems) \in Nat
        /\ \A k \in 1..pollRes : mPendingEventItems[k] \in fds
    <2>1. Len(mPendingEventItems) \in Nat
          /\ \A k \in 1..Len(mPendingEventItems) : mPendingEventItems[k] \in fds
      BY <1>5, LenProperties, ElementOfSeq
    <2> QED BY <1>6, <2>1
  <1>8. fd \in fds /\ f \in Files
    BY <1>1, <1>2, <1>6, <1>7, Descriptors
  <1>9. written[f] > taken[f] /\ len \in Nat
    <2>1. written[f] > taken[f]
      BY <1>2, <1>4 DEF HasData
    <2> QED BY <1>3, <1>5, <1>8, <2>1, EpollAssumption
  <1>10. /\ taken' \in [Files -> Nat]
         /\ \A g \in Files : g # f => taken'[g] = taken[g]
    BY ONLY <1>4, <1>5, <1>8, <1>9
  <1>11. EpollTypes'
    BY <1>4, <1>5, <1>10 DEF EpollTypes, fds
  <1>12. ReadyListInv'
    BY <1>4 DEF EpollInv, ReadyListInv
  <1>13. AddingInv'
    BY <1>4 DEF AddingInv
  <1>14. EventsInv'
    <2> SUFFICES ASSUME ep_pc' = "read" PROVE EventsInv'
      BY DEF EventsInv
    <2>1. arg < pollRes
      BY <1>4 DEF MoreEvents
    <2>2. arg' \in 1..pollRes
      BY <1>4, <1>6, <1>7, <2>1
    <2>3. ASSUME IsInjective(argv), NEW k \in arg'..pollRes
          PROVE  HasData(mPendingEventItems[k])'
      <3>1. k \in arg..pollRes /\ k \in 1..pollRes /\ k # arg
        BY <1>4, <1>6, <1>7
      <3>2. HasData(mPendingEventItems[k])
        BY <1>6, <2>3, <3>1
      <3>3. mPendingEventItems[k] \in fds /\ mPendingEventItems[k] # fd
        BY <1>1, <1>6, <1>7, <3>1
      <3>4. PICK g \in Files : g = argv[mPendingEventItems[k]]
        BY <3>3, Descriptors
      <3>5. g # f
        BY ONLY <1>2, <1>8, <2>3, <3>3, <3>4 DEF IsInjective, fds
      <3>6. written[g] > taken[g]
        BY <3>2, <3>4 DEF HasData
      <3>7. written'[g] > taken'[g]
        BY ONLY <1>4, <1>10, <3>5, <3>6, g \in Files
      <3> QED BY <1>4, <3>4, <3>7 DEF HasData
    <2> QED BY <1>4, <1>6, <2>2, <2>3 DEF EventsInv
  <1> QED BY <1>11, <1>12, <1>13, <1>14 DEF EpollInv

\* Nothing is ready before the first file is added.
LEMMA EpollStart == EpollInit => EpollInv
  <1> SUFFICES ASSUME EpollInit PROVE EpollInv
    OBVIOUS
  <1>1. <<>> \in Seq(fds) /\ DOMAIN <<>> = {}
    BY EmptySeq
  <1>2. EpollTypes
    BY <1>1 DEF EpollInit, EpollTypes
  <1>3. ReadyListInv
    BY <1>1 DEF EpollInit, ReadyListInv, IsInjective, ToSet
  <1>4. AddingInv
    BY Descriptors DEF EpollInit, AddingInv
  <1>5. EventsInv
    BY DEF EpollInit, EventsInv
  <1> QED BY <1>2, <1>3, <1>4, <1>5 DEF EpollInv

\* Every step of the loop and of the writers.
LEMMA EpollStep == EpollInv /\ [EpollMain \/ Writers]_epoll_vars => EpollInv'
  <1> SUFFICES ASSUME EpollInv, [EpollMain \/ Writers]_epoll_vars PROVE EpollInv'
    OBVIOUS
  <1>1. CASE EpollMain
    BY <1>1, AddFileKeeps, EpollWaitKeeps, ReadEventKeeps DEF EpollMain
  <1>2. CASE Writers
    <2>1. PICK f \in Files, n \in 1..DATA_MAX_LEN : WriteFile(f, n)
      BY <1>2 DEF Writers
    <2>2. n \in Nat
      BY EpollAssumption
    <2> QED BY <2>1, <2>2, WriteFileKeeps
  <1>3. CASE UNCHANGED epoll_vars
    BY <1>3 DEF epoll_vars, EpollInv, EpollTypes, ReadyListInv, AddingInv, EventsInv,
                HasData, fds
  <1> QED BY <1>1, <1>2, <1>3

\* The read in the loop of epoll.c's main never blocks, for any number of files,
\* any size of the event array and of the buffer, and any writes, provided that
\* no file is named twice on the command line.
THEOREM EpollReadsNeverBlock == EpollSpec => []ReadNeverBlocks
  <1>1. EpollInv => ReadNeverBlocks
    <2> SUFFICES ASSUME EpollInv, ep_pc = "read", IsInjective(argv)
                 PROVE  HasData(mPendingEventItems[arg])
      BY DEF ReadNeverBlocks
    <2>1. /\ Len(mPendingEventItems) \in Nat /\ pollRes \in 1..Len(mPendingEventItems)
          /\ arg \in 1..pollRes
          /\ \A k \in arg..pollRes : HasData(mPendingEventItems[k])
      BY LenProperties DEF EpollInv, EpollTypes, EventsInv
    <2>2. arg \in arg..pollRes
      BY <2>1
    <2> QED BY <2>1, <2>2
  <1> QED BY <1>1, EpollStart, EpollStep, PTL DEF EpollSpec

\* Every descriptor with data is on the ready list, and every file so far that
\* can be polled has been added.
ReadyInv ==
    /\ \A fd \in interest : HasData(fd) => fd \in ToSet(rdllist)
    /\ \A fd \in fds :
        argv[fd] \in Monitorable /\ (ep_pc = "add" => fd < arg) => fd \in interest

\* Where main waits, epoll_wait finds every file that has something to read.
WaitSeesAll ==
    ep_pc = "wait" =>
        \A fd \in fds : argv[fd] \in Monitorable /\ HasData(fd) =>
            fd \in ToSet(Without(rdllist, {e \in interest : ~HasData(e)}))

\* A file is added with what it has already.
LEMMA AddFileReady == EpollInv /\ ReadyInv /\ AddFile => ReadyInv'
  <1> SUFFICES ASSUME EpollInv, ReadyInv, AddFile PROVE ReadyInv'
    OBVIOUS
  <1>1. /\ ep_pc = "add" /\ arg' = arg + 1 /\ add_to_epoll(arg)
        /\ ep_pc' = IF arg = Len(argv) THEN "wait" ELSE "add"
        /\ written' = written /\ taken' = taken
    BY DEF AddFile
  <1>2. arg \in fds /\ rdllist \in Seq(fds)
    BY <1>1 DEF EpollInv, EpollTypes, AddingInv
  <1>3. \A fd : HasData(fd)' <=> HasData(fd)
    BY <1>1 DEF HasData
  <1>4. ToSet(Append(rdllist, arg)) = ToSet(rdllist) \cup {arg}
    BY <1>2, AppendElements
  <1>5. /\ argv[arg] \in Monitorable =>
            /\ interest' = interest \cup {arg}
            /\ rdllist' = IF HasData(arg) THEN Append(rdllist, arg) ELSE rdllist
        /\ argv[arg] \notin Monitorable => interest' = interest /\ rdllist' = rdllist
    BY <1>1 DEF add_to_epoll
  <1>6. ASSUME NEW fd \in interest', HasData(fd)' PROVE fd \in ToSet(rdllist')
    <2>1. HasData(fd)
      BY <1>3, <1>6
    <2>2. ToSet(rdllist) \subseteq ToSet(rdllist')
      BY ONLY <1>4, <1>5
    <2>3. CASE fd \in interest
      BY <2>1, <2>2, <2>3 DEF ReadyInv
    <2>4. CASE fd \notin interest
      <3>1. argv[arg] \in Monitorable /\ fd = arg
        BY ONLY <1>5, <1>6, <2>4
      <3>2. rdllist' = Append(rdllist, arg)
        BY ONLY <1>5, <2>1, <3>1
      <3> QED BY ONLY <1>4, <3>1, <3>2
    <2> QED BY <2>3, <2>4
  <1>7. ASSUME NEW fd \in fds, argv[fd] \in Monitorable, ep_pc' = "add" => fd < arg'
        PROVE  fd \in interest'
    <2>1. fd < arg \/ fd = arg
      <3>1. fd <= arg
        BY <1>1, <1>2, <1>7, Descriptors
      <3> QED BY <1>2, <3>1, Descriptors
    <2>2. CASE fd = arg
      BY <1>5, <1>7, <2>2
    <2>3. CASE fd < arg
      <3>1. fd \in interest
        BY <1>7, <2>3 DEF ReadyInv
      <3> QED BY <1>5, <3>1
    <2> QED BY <2>1, <2>2, <2>3
  <1> QED BY <1>6, <1>7 DEF ReadyInv, fds

\* A write makes the descriptors of its file ready.
LEMMA WriteFileReady ==
    ASSUME NEW f \in Files, NEW n \in Nat
    PROVE  EpollInv /\ ReadyInv /\ WriteFile(f, n) => ReadyInv'
  <1> SUFFICES ASSUME EpollInv, ReadyInv, WriteFile(f, n) PROVE ReadyInv'
    OBVIOUS
  <1>1. PICK D : D = {fd \in interest \ ToSet(rdllist) : argv[fd] = f}
    OBVIOUS
  <1>2. /\ written' = [written EXCEPT ![f] = @ + n]
        /\ rdllist' = rdllist \o SetToSeq(D)
        /\ ep_pc' = ep_pc /\ arg' = arg /\ interest' = interest /\ taken' = taken
    BY <1>1, Zenon DEF WriteFile
  <1>3. /\ interest \subseteq fds /\ rdllist \in Seq(fds) /\ written \in [Files -> Nat]
    BY DEF EpollInv, EpollTypes
  <1>4. D \subseteq fds /\ IsFiniteSet(D)
    BY <1>1, <1>3, Descriptors, FS_Subset
  <1>5. PICK q : q = SetToSeq(D)
    OBVIOUS
  <1>6. q \in Seq(fds) /\ ToSet(q) = D
    <2>1. q \in Seq(D) /\ ToSet(q) = D
      BY ONLY <1>4, <1>5, SetAsSequence
    <2> QED BY ONLY <1>4, <2>1, SeqMonotonic
  <1>7. ToSet(rdllist') = ToSet(rdllist) \cup D
    BY ONLY <1>2, <1>3, <1>5, <1>6, ConcatElements
  <1>8. ASSUME NEW fd \in interest, HasData(fd)' PROVE fd \in ToSet(rdllist')
    <2>1. CASE argv[fd] = f
      BY ONLY <1>1, <1>7, <2>1, fd \in interest
    <2>2. CASE argv[fd] # f
      <3>1. argv[fd] \in Files
        BY <1>3, Descriptors
      <3>2. written'[argv[fd]] = written[argv[fd]]
        BY ONLY <1>2, <1>3, <2>2, <3>1
      <3>3. HasData(fd)
        BY <1>2, <1>8, <3>2 DEF HasData
      <3> QED BY <1>7, <3>3 DEF ReadyInv
    <2> QED BY <2>1, <2>2
  <1> QED BY <1>2, <1>8 DEF ReadyInv, fds

\* epoll_wait drops from the ready list only what has no data.
LEMMA EpollWaitReady == EpollInv /\ ReadyInv /\ EpollWait => ReadyInv'
  <1> SUFFICES ASSUME EpollInv, ReadyInv, EpollWait PROVE ReadyInv'
    OBVIOUS
  <1>1. PICK E : E = {fd \in interest : ~HasData(fd)}
    OBVIOUS
  <1>2. PICK ready : ready = Without(rdllist, E)
    OBVIOUS
  <1>3. PICK n : n = IF Len(ready) < EPOLL_MAX_EVENTS THEN Len(ready) ELSE EPOLL_MAX_EVENTS
    OBVIOUS
  <1>4. PICK events : events = SubSeq(ready, 1, n)
    OBVIOUS
  <1>5. PICK rest : rest = SubSeq(ready, n + 1, Len(ready))
    OBVIOUS
  <1>6. /\ ep_pc = "wait" /\ n > 0 /\ rdllist' = rest \o events /\ ep_pc' = "read"
        /\ interest' = interest /\ written' = written /\ taken' = taken
    BY <1>1, <1>2, <1>3, <1>4, <1>5, Zenon DEF EpollWait
  <1>7. interest \subseteq fds /\ rdllist \in Seq(fds)
    BY DEF EpollInv, EpollTypes
  <1>8. ready \in Seq(fds) /\ ToSet(ready) = ToSet(rdllist) \ E
    BY ONLY <1>2, <1>7, WithoutType, WithoutElements
  <1>9. n \in 0..Len(ready)
    <2>1. Len(ready) \in Nat
      BY <1>8, LenProperties
    <2> QED BY <1>3, <1>6, <2>1, EpollAssumption
  <1>10. events \in Seq(fds) /\ rest \in Seq(fds) /\ events \o rest = ready
    <2>1. events \in Seq(fds) /\ rest \in Seq(fds)
      BY ONLY <1>4, <1>5, <1>8, <1>9, PartsInjective
    <2>2. SubSeq(ready, 1, n) \o SubSeq(ready, n + 1, Len(ready)) = ready
      BY ONLY <1>8, <1>9, PartsOfWhole
    <2> QED BY ONLY <1>4, <1>5, <2>1, <2>2, Zenon
  <1>11. ToSet(rdllist') = ToSet(ready)
    <2>1. /\ ToSet(events \o rest) = ToSet(events) \cup ToSet(rest)
          /\ ToSet(rest \o events) = ToSet(rest) \cup ToSet(events)
      BY ONLY <1>10, ConcatElements
    <2> QED BY ONLY <1>6, <1>10, <2>1
  <1>12. ASSUME NEW fd \in interest, HasData(fd)' PROVE fd \in ToSet(rdllist')
    <2>1. HasData(fd)
      BY <1>6, <1>12 DEF HasData
    <2>2. fd \in ToSet(rdllist) /\ fd \notin E
      BY <1>1, <2>1 DEF ReadyInv
    <2> QED BY ONLY <1>8, <1>11, <2>2
  <1>13. ASSUME NEW fd \in fds, argv[fd] \in Monitorable PROVE fd \in interest
    BY <1>6, <1>13 DEF ReadyInv
  <1> QED BY <1>6, <1>12, <1>13 DEF ReadyInv, fds

\* A read leaves less to read.
LEMMA ReadEventReady == EpollInv /\ ReadyInv /\ ReadEvent => ReadyInv'
  <1> SUFFICES ASSUME EpollInv, ReadyInv, ReadEvent PROVE ReadyInv'
    OBVIOUS
  <1>1. PICK fd : fd = mPendingEventItems[arg]
    OBVIOUS
  <1>2. PICK f : f = argv[fd]
    OBVIOUS
  <1>3. PICK len : len = IF written[f] - taken[f] < DATA_MAX_LEN
                         THEN written[f] - taken[f] ELSE DATA_MAX_LEN
    OBVIOUS
  <1>4. /\ ep_pc = "read" /\ ep_pc' # "add" /\ HasData(fd)
        /\ taken' = [taken EXCEPT ![f] = @ + len]
        /\ interest' = interest /\ rdllist' = rdllist /\ written' = written
    BY <1>1, <1>2, <1>3 DEF ReadEvent
  <1>5. /\ mPendingEventItems \in Seq(fds) /\ interest \subseteq fds
        /\ written \in [Files -> Nat] /\ taken \in [Files -> Nat]
    BY DEF EpollInv, EpollTypes
  <1>6. f \in Files
    <2>1. /\ pollRes \in 1..Len(mPendingEventItems) /\ arg \in 1..pollRes
          /\ Len(mPendingEventItems) \in Nat
      BY <1>4, <1>5, LenProperties DEF EpollInv, EventsInv
    <2>2. fd \in fds
      BY <1>1, <1>5, <2>1, ElementOfSeq
    <2> QED BY <1>2, <2>2, Descriptors
  <1>7. len \in Nat
    <2>1. written[f] > taken[f]
      BY <1>2, <1>4 DEF HasData
    <2> QED BY <1>3, <1>5, <1>6, <2>1, EpollAssumption
  <1>8. \A g \in Files : taken'[g] >= taken[g] /\ taken'[g] \in Nat
    BY ONLY <1>4, <1>5, <1>6, <1>7
  <1>9. ASSUME NEW e \in interest, HasData(e)' PROVE e \in ToSet(rdllist)
    <2>1. PICK g \in Files : g = argv[e]
      BY <1>5, Descriptors
    <2>2. written[g] > taken'[g]
      BY <1>4, <1>9, <2>1 DEF HasData
    <2>3. written[g] > taken[g]
      BY ONLY <1>5, <1>8, <2>2, g \in Files
    <2>4. HasData(e)
      BY <2>1, <2>3 DEF HasData
    <2> QED BY <2>4 DEF ReadyInv
  <1>10. ASSUME NEW e \in fds, argv[e] \in Monitorable PROVE e \in interest
    BY <1>4, <1>10 DEF ReadyInv
  <1> QED BY <1>4, <1>9, <1>10 DEF ReadyInv, fds

\* No readiness is lost: whenever main of epoll.c waits, epoll_wait finds every
\* file that could be added and has something to read, however writes fall
\* between the adding, the waits and the reads.  It is the safety half of
\* DataPrinted.
THEOREM EpollForgetsNothing == EpollSpec => []WaitSeesAll
  <1>1. EpollInit => ReadyInv
    <2> SUFFICES ASSUME EpollInit PROVE ReadyInv
      OBVIOUS
    <2>1. \A fd \in fds : ~(fd < 1)
      BY Descriptors
    <2> QED BY <2>1 DEF EpollInit, ReadyInv
  <1>2. EpollInv /\ ReadyInv /\ [EpollMain \/ Writers]_epoll_vars => ReadyInv'
    <2> SUFFICES ASSUME EpollInv, ReadyInv, [EpollMain \/ Writers]_epoll_vars PROVE ReadyInv'
      OBVIOUS
    <2>1. CASE EpollMain
      BY <2>1, AddFileReady, EpollWaitReady, ReadEventReady DEF EpollMain
    <2>2. CASE Writers
      <3>1. PICK f \in Files, n \in 1..DATA_MAX_LEN : WriteFile(f, n)
        BY <2>2 DEF Writers
      <3>2. n \in Nat
        BY EpollAssumption
      <3> QED BY <3>1, <3>2, WriteFileReady
    <2>3. CASE UNCHANGED epoll_vars
      BY <2>3 DEF epoll_vars, ReadyInv, HasData, fds
    <2> QED BY <2>1, <2>2, <2>3
  <1>3. EpollInv /\ ReadyInv => WaitSeesAll
    <2> SUFFICES ASSUME EpollInv, ReadyInv, ep_pc = "wait",
                        NEW fd \in fds, argv[fd] \in Monitorable, HasData(fd)
                 PROVE  fd \in ToSet(Without(rdllist, {e \in interest : ~HasData(e)}))
      BY DEF WaitSeesAll
    <2>1. fd \in interest /\ fd \in ToSet(rdllist)
      BY DEF ReadyInv
    <2>2. PICK E : E = {e \in interest : ~HasData(e)}
      OBVIOUS
    <2>3. fd \notin E /\ rdllist \in Seq(fds)
      BY <2>2 DEF EpollInv, EpollTypes
    <2>4. ToSet(Without(rdllist, E)) = ToSet(rdllist) \ E
      BY ONLY <2>3, WithoutElements
    <2>5. fd \in ToSet(Without(rdllist, E))
      BY ONLY <2>1, <2>3, <2>4
    <2> QED BY ONLY <2>2, <2>5, Zenon
  <1> QED BY <1>1, <1>2, <1>3, EpollStart, EpollStep, PTL DEF EpollSpec

-----------------------------------------------------------------------------
(* The inotify loop: sizes of events.                                       *)

\* The events that the kernel reports: changes of files, and its own.
FileEvents == [op : {"create", "delete"}, name : FileNames]
Events == FileEvents \cup Nameless

\* Three series of events can be joined from either end.
LEMMA EventsConcat == \A a, b, c \in Seq(Events) : (a \o b) \o c = a \o (b \o c)
  <1> TAKE a, b, c \in Seq(Events)
  <1> QED BY ConcatAssociative

\* Every event has room for its header, and only the kernel's own have no name.
LEMMA EventSizes ==
    ASSUME NEW e \in Events
    PROVE  /\ event_size(e) \in Nat /\ event_size(e) >= HeaderSize
           /\ HeaderSize \in Nat /\ HeaderSize > 0
           /\ EventLen(e) = 0 <=> e \in Nameless
           /\ e \in Nameless \/ e \in FileEvents
  <1>1. HeaderSize \in Nat /\ HeaderSize > 0 /\ NameLen \in [FileNames -> Nat \ {0}]
    BY InotifyAssumption
  <1>2. CASE e \in Nameless
    BY <1>1, <1>2 DEF event_size, EventLen
  <1>3. CASE e \notin Nameless
    <2>1. e \in FileEvents /\ e.name \in FileNames
      BY <1>3 DEF Events, FileEvents
    <2>2. NameLen[e.name] \in Nat /\ NameLen[e.name] > 0 /\ EventLen(e) = NameLen[e.name]
      BY <1>1, <1>3, <2>1 DEF EventLen
    <2> QED BY <1>1, <1>3, <2>1, <2>2 DEF event_size
  <1> QED BY <1>2, <1>3

\* A change of a file is no event of the kernel's own.
LEMMA FileEventsNamed == \A e \in FileEvents : e \notin Nameless /\ e \in Events
  BY DEF FileEvents, Nameless, Event, Events

\* A function on the lengths of the prefixes of s that takes the steps of Bytes.
SumsOf(s, f) ==
    /\ f[0] = 0
    /\ \A k \in 1..Len(s) : f[k] = f[k - 1] + event_size(s[k])

\* The recursion of Bytes defines such a function.
LEMMA BytesSteps ==
    ASSUME NEW s \in Seq(Events)
    PROVE  \E f \in [0..Len(s) -> Nat] : SumsOf(s, f) /\ Bytes(s) = f[Len(s)]
  <1> DEFINE K(g) == g = [k \in 0..Len(s) |->
                            IF k = 0 THEN 0 ELSE g[k - 1] + event_size(s[k])]
  <1>1. PICK n : n = Len(s)
    OBVIOUS
  <1>2. n \in Nat /\ \A k \in 1..n : event_size(s[k]) \in Nat
    <2>1. n \in Nat /\ \A k \in 1..n : s[k] \in Events
      BY <1>1, LenProperties, ElementOfSeq
    <2> QED BY <2>1, EventSizes
  <1>3. PICK h : h = [p \in (1..n) \X Nat |-> p[2] + event_size(s[p[1]])]
    OBVIOUS
  <1>4. /\ h \in [(1..n) \X Nat -> Nat]
        /\ \A k \in 1..n, x \in Nat : h[<<k, x>>] = x + event_size(s[k])
    BY ONLY <1>2, <1>3
  <1>5. PICK z \in Nat : z = 0
    OBVIOUS
  <1>6. PICK f \in [0..n -> Nat] : Iterates(f, z, h, n)
    <2>1. h \in [(1..n) \X Nat -> Nat] /\ n \in Nat /\ z \in Nat
      BY <1>2, <1>4
    <2> QED BY ONLY <2>1, PrefixRecursion
  <1>7. f[0] = 0 /\ \A k \in 1..n : f[k] = f[k - 1] + event_size(s[k])
    <2>1. ASSUME NEW k \in 1..n PROVE f[k] = f[k - 1] + event_size(s[k])
      <3>1. k - 1 \in 0..n
        BY <1>2
      <3>2. f[k - 1] \in Nat /\ f[k] = h[<<k, f[k - 1]>>]
        BY <1>6, <3>1 DEF Iterates
      <3> QED BY <1>4, <3>2
    <2> QED BY <1>5, <1>6, <2>1 DEF Iterates
  <1>8. K(f)
    <2>1. \A k \in 0..n : f[k] = IF k = 0 THEN 0 ELSE f[k - 1] + event_size(s[k])
      <3> SUFFICES ASSUME NEW k \in 0..n
                   PROVE  f[k] = IF k = 0 THEN 0 ELSE f[k - 1] + event_size(s[k])
        OBVIOUS
      <3>1. k = 0 \/ k \in 1..n
        BY <1>2
      <3> QED BY <1>2, <1>7, <3>1
    <2> QED BY ONLY <1>1, <2>1, f \in [0..n -> Nat]
  <1>9. PICK c : c = CHOOSE g : K(g)
    OBVIOUS
  <1>10. Bytes(s) = c[Len(s)]
    BY <1>9, Zenon DEF Bytes
  <1>11. K(c)
    <2> HIDE DEF K
    <2> QED BY <1>8, <1>9, Zenon
  <1>12. c[0] = 0 /\ \A k \in 1..n : c[k] = c[k - 1] + event_size(s[k])
    <2>1. c = [k \in 0..n |-> IF k = 0 THEN 0 ELSE c[k - 1] + event_size(s[k])]
      BY <1>1, <1>11, Zenon
    <2>2. 0 \in 0..n /\ \A k \in 1..n : k \in 0..n /\ k # 0
      BY <1>2
    <2> QED BY ONLY <2>1, <2>2
  <1>13. \A k \in 0..n : f[k] = c[k]
    <2>1. n \in Nat /\ StepTogether(f, c, n)
      BY ONLY <1>2, <1>7, <1>12 DEF StepTogether
    <2>2. Agree(f, c, n)
      BY ONLY <2>1, SameSteps
    <2> QED BY ONLY <2>2 DEF Agree
  <1>14. SumsOf(s, f)
    BY ONLY <1>1, <1>7 DEF SumsOf
  <1>15. n \in 0..n
    BY <1>2
  <1>16. Bytes(s) = f[Len(s)]
    BY ONLY <1>1, <1>10, <1>13, <1>15
  <1> QED BY <1>1, <1>14, <1>16, Zenon

\* The bytes of some events are a number.
LEMMA BytesType ==
    ASSUME NEW s \in Seq(Events)
    PROVE  Bytes(s) \in Nat
  <1>1. PICK f \in [0..Len(s) -> Nat] : Bytes(s) = f[Len(s)]
    BY BytesSteps
  <1>2. Len(s) \in 0..Len(s)
    BY LenProperties
  <1> QED BY <1>1, <1>2

\* No events have no bytes.
LEMMA BytesEmpty == Bytes(<<>>) = 0
  <1>1. <<>> \in Seq(Events) /\ Len(<<>>) = 0
    BY EmptySeq
  <1>2. PICK e \in Seq(Events) : e = <<>> /\ Len(e) = 0
    BY <1>1
  <1>3. PICK f \in [0..Len(e) -> Nat] : SumsOf(e, f) /\ Bytes(e) = f[Len(e)]
    BY BytesSteps
  <1> QED BY <1>2, <1>3 DEF SumsOf

\* An event at the end adds its size.
LEMMA BytesAppend ==
    ASSUME NEW s \in Seq(Events), NEW e \in Events
    PROVE  Bytes(Append(s, e)) = Bytes(s) + event_size(e)
  <1>1. PICK t \in Seq(Events) : t = Append(s, e)
    BY AppendProperties
  <1>2. PICK n : n = Len(s)
    OBVIOUS
  <1>3. n \in Nat /\ Len(t) = n + 1 /\ t[n + 1] = e /\ \A k \in 1..n : t[k] = s[k]
    BY <1>1, <1>2, AppendProperties, LenProperties
  <1>4. PICK f \in [0..Len(s) -> Nat] : SumsOf(s, f) /\ Bytes(s) = f[Len(s)]
    BY BytesSteps
  <1>5. PICK g \in [0..Len(t) -> Nat] : SumsOf(t, g) /\ Bytes(t) = g[Len(t)]
    BY BytesSteps
  <1>6. \A k \in 0..n : f[k] = g[k]
    <2>1. \A k \in 1..n : f[k - 1] = g[k - 1] => f[k] = g[k]
      <3> SUFFICES ASSUME NEW k \in 1..n, f[k - 1] = g[k - 1] PROVE f[k] = g[k]
        OBVIOUS
      <3>1. k \in 1..Len(t) /\ t[k] = s[k]
        BY <1>3
      <3>2. g[k] = g[k - 1] + event_size(s[k])
        BY ONLY <1>5, <3>1 DEF SumsOf
      <3>3. f[k] = f[k - 1] + event_size(s[k])
        BY ONLY <1>2, <1>4, k \in 1..n DEF SumsOf
      <3> QED BY ONLY <3>2, <3>3, f[k - 1] = g[k - 1]
    <2>2. n \in Nat /\ StepTogether(f, g, n)
      BY ONLY <1>3, <1>4, <1>5, <2>1 DEF SumsOf, StepTogether
    <2>3. Agree(f, g, n)
      BY ONLY <2>2, SameSteps
    <2> QED BY ONLY <2>3 DEF Agree
  <1>7. n + 1 \in 1..Len(t) /\ n \in 0..n /\ (n + 1) - 1 = n
    BY <1>3
  <1>8. g[n + 1] = g[n] + event_size(e)
    <2>1. g[n + 1] = g[(n + 1) - 1] + event_size(t[n + 1])
      BY ONLY <1>5, <1>7 DEF SumsOf
    <2> QED BY ONLY <1>3, <1>7, <2>1
  <1>9. g[n] = Bytes(s) /\ g[n + 1] = Bytes(t)
    BY ONLY <1>2, <1>3, <1>4, <1>5, <1>6, <1>7
  <1> QED BY ONLY <1>1, <1>8, <1>9

-----------------------------------------------------------------------------
(* Events one batch after the other.                                        *)

\* The bytes of two batches add up, and what is left of both follows one another.
LEMMA BatchesAddUp ==
    ASSUME NEW s \in Seq(Events), NEW t \in Seq(Events)
    PROVE  /\ Bytes(s \o t) = Bytes(s) + Bytes(t)
           /\ Named(s \o t) = Named(s) \o Named(t)
  <1> DEFINE Good(r) == /\ Bytes(s \o r) = Bytes(s) + Bytes(r)
                        /\ Named(s \o r) = Named(s) \o Named(r)
             P == {r \in Seq(Events) : Good(r)}
  <1>1. Bytes(s) \in Nat /\ Named(s) \in Seq(Events)
    BY BytesType, WithoutType DEF Named
  <1>2. <<>> \in P
    <2>1. <<>> \in Seq(Events)
      BY EmptySeq
    <2>2. s \o <<>> = s /\ Named(s) \o <<>> = Named(s)
      BY <1>1, ConcatEmptySeq
    <2>3. Bytes(<<>>) = 0 /\ Named(<<>>) = <<>>
      BY BytesEmpty, WithoutEmpty DEF Named
    <2>4. Good(<<>>)
      BY ONLY <1>1, <2>2, <2>3
    <2> QED BY <2>1, <2>4
  <1>3. ASSUME NEW r \in Seq(Events), NEW e \in Events, r \in P
        PROVE  Append(r, e) \in P
    <2>1. Good(r)
      BY <1>3
    <2>2. Append(r, e) \in Seq(Events) /\ s \o r \in Seq(Events)
      BY AppendProperties, ConcatProperties
    <2>3. s \o Append(r, e) = Append(s \o r, e)
      BY ConcatAppend
    <2>4. /\ Bytes(r) \in Nat /\ event_size(e) \in Nat
          /\ Bytes(Append(r, e)) = Bytes(r) + event_size(e)
          /\ Bytes(Append(s \o r, e)) = Bytes(s \o r) + event_size(e)
      BY <2>2, BytesType, BytesAppend, EventSizes
    <2>5. Bytes(s \o Append(r, e)) = Bytes(s) + Bytes(Append(r, e))
      BY ONLY <1>1, <2>1, <2>3, <2>4
    <2>6. /\ Named(r) \in Seq(Events)
          /\ Named(Append(r, e)) = IF e \in Nameless THEN Named(r) ELSE Append(Named(r), e)
          /\ Named(Append(s \o r, e)) =
                IF e \in Nameless THEN Named(s \o r) ELSE Append(Named(s \o r), e)
      <3>1. PICK u \in Seq(Events) : u = s \o r
        BY <2>2
      <3>2. Without(Append(u, e), Nameless) =
              IF e \in Nameless THEN Without(u, Nameless) ELSE Append(Without(u, Nameless), e)
        BY WithoutAppend
      <3>3. Without(Append(r, e), Nameless) =
              IF e \in Nameless THEN Without(r, Nameless) ELSE Append(Without(r, Nameless), e)
        BY WithoutAppend
      <3>4. Without(r, Nameless) \in Seq(Events)
        BY WithoutType
      <3> QED BY ONLY <3>1, <3>2, <3>3, <3>4 DEF Named
    <2>7. Named(s) \o Append(Named(r), e) = Append(Named(s) \o Named(r), e)
      BY <1>1, <2>6, ConcatAppend
    <2>8. Named(s \o Append(r, e)) = Named(s) \o Named(Append(r, e))
      BY ONLY <2>1, <2>3, <2>6, <2>7
    <2> QED BY <2>2, <2>5, <2>8
  <1>4. Seq(Events) \subseteq P
    <2> HIDE DEF P
    <2> QED BY <1>2, <1>3, AppendInduction
  <1> QED BY <1>4

\* Events that are not none have the bytes of a header at least.
LEMMA BytesOfSome ==
    ASSUME NEW s \in Seq(Events), s # <<>>
    PROVE  Bytes(s) >= HeaderSize /\ Bytes(s) > 0
  <1>1. PICK t \in Seq(Events), e \in Events : s = Append(t, e)
    BY SequenceEmptyOrAppend
  <1>2. Bytes(s) = Bytes(t) + event_size(e) /\ Bytes(t) \in Nat
    BY <1>1, BytesAppend, BytesType
  <1> QED BY <1>2, EventSizes

\* An event at the front.
LEMMA FrontEvent ==
    ASSUME NEW s \in Seq(Events), NEW k \in 1..Len(s)
    PROVE  /\ SubSeq(s, k, Len(s)) \in Seq(Events) /\ SubSeq(s, k + 1, Len(s)) \in Seq(Events)
           /\ SubSeq(s, 1, k - 1) \in Seq(Events)
           /\ s[k] \in Events /\ Head(SubSeq(s, k, Len(s))) = s[k]
           /\ Bytes(SubSeq(s, k, Len(s))) =
                event_size(s[k]) + Bytes(SubSeq(s, k + 1, Len(s)))
           /\ Bytes(SubSeq(s, 1, k)) = Bytes(SubSeq(s, 1, k - 1)) + event_size(s[k])
           /\ Named(SubSeq(s, k, Len(s))) =
                IF s[k] \in Nameless THEN Named(SubSeq(s, k + 1, Len(s)))
                ELSE <<s[k]>> \o Named(SubSeq(s, k + 1, Len(s)))
  <1>1. PICK n \in Nat : n = Len(s)
    BY LenProperties
  <1>2. \A j \in 1..n : s[j] \in Events
    BY <1>1, ElementOfSeq
  <1>3. PICK e \in Events : e = s[k]
    BY <1>1, <1>2
  <1>4. PICK o \in Seq(Events) : o = <<e>>
    <2>1. <<e>> \in Seq(Events)
      OBVIOUS
    <2> QED BY <2>1
  <1>5. k \in 1..n /\ n \in k..n /\ k \in Nat
    BY <1>1
  <1>6. PICK after : after = SubSeq(s, k + 1, n)
    OBVIOUS
  <1>7. PICK before : before = SubSeq(s, 1, k - 1)
    OBVIOUS
  <1>8. after \in Seq(Events) /\ before \in Seq(Events) /\ SubSeq(s, k, n) \in Seq(Events)
    <2>1. /\ \A j \in (k + 1)..n : s[j] \in Events
          /\ \A j \in 1..(k - 1) : s[j] \in Events
          /\ \A j \in k..n : s[j] \in Events
      BY <1>2, <1>5
    <2> QED BY <1>5, <1>6, <1>7, <2>1, SubSeqProperties
  <1>9. SubSeq(s, k, n) = o \o after /\ Head(SubSeq(s, k, n)) = e
    BY <1>1, <1>3, <1>4, <1>5, <1>6, SubSeqRecursiveFirst, HeadTailOfSubSeq
  <1>10. SubSeq(s, 1, k) = before \o o
    <2>1. 1 \in 1..Len(s) /\ k \in 1..Len(s)
      BY <1>1, <1>5
    <2> QED BY <1>3, <1>4, <1>7, <2>1, SubSeqRecursiveSecond
  <1>11. /\ Bytes(o) = event_size(e)
         /\ Named(o) = IF e \in Nameless THEN <<>> ELSE o
    <2>1. PICK z \in Seq(Events) : z = <<>>
      <3>1. <<>> \in Seq(Events)
        BY EmptySeq
      <3> QED BY <3>1
    <2>2. o = Append(z, e)
      BY <1>4, <2>1
    <2>3. /\ Bytes(Append(z, e)) = Bytes(z) + event_size(e)
          /\ Named(Append(z, e)) = IF e \in Nameless THEN Named(z) ELSE Append(Named(z), e)
      BY BytesAppend, WithoutAppend DEF Named
    <2>4. Bytes(z) = 0 /\ Named(z) = z /\ event_size(e) \in Nat
      BY <2>1, BytesEmpty, WithoutEmpty, EventSizes DEF Named
    <2> QED BY ONLY <2>1, <2>2, <2>3, <2>4
  <1>12. /\ Bytes(o \o after) = Bytes(o) + Bytes(after)
         /\ Named(o \o after) = Named(o) \o Named(after)
         /\ Bytes(before \o o) = Bytes(before) + Bytes(o)
    BY ONLY <1>8, BatchesAddUp, o \in Seq(Events)
  <1>13. <<>> \o Named(after) = Named(after)
    <2>1. Named(after) \in Seq(Events)
      BY <1>8, WithoutType DEF Named
    <2> QED BY <2>1, ConcatEmptySeq
  <1>14. /\ Bytes(SubSeq(s, k, n)) = event_size(e) + Bytes(after)
         /\ Bytes(SubSeq(s, 1, k)) = Bytes(before) + event_size(e)
    BY ONLY <1>9, <1>10, <1>11, <1>12
  <1>15. Named(SubSeq(s, k, n)) = IF e \in Nameless THEN Named(after) ELSE o \o Named(after)
    BY ONLY <1>9, <1>11, <1>12, <1>13
  <1> QED BY ONLY <1>1, <1>3, <1>4, <1>6, <1>7, <1>8, <1>9, <1>14, <1>15

-----------------------------------------------------------------------------
(* The inotify loop: the cursor is always at the start of an event, and     *)
(* what lies behind it is what is still to be printed.                      *)

InotifyTypes ==
    /\ kqueue \in Seq(Events)
    /\ event_buf \in Seq(Events)
    /\ changes \in Seq(Events)
    /\ printed \in Seq(Events)
    /\ lost \in BOOLEAN

\* The event k of the buffer is next: event_pos counts the bytes before it, res
\* those from it on.
NextIs(k) ==
    /\ event_pos = Bytes(SubSeq(event_buf, 1, k - 1))
    /\ res = Bytes(SubSeq(event_buf, k, Len(event_buf)))

CursorInv == in_pc = "parse" => \E k \in 1..(Len(event_buf) + 1) : NextIs(k)

\* EventsFrom, with the buffer as an argument.
FromByte(b, pos) ==
    SubSeq(b, CHOOSE k \in 1..Len(b) + 1 : Bytes(SubSeq(b, 1, k - 1)) >= pos
                    /\ (k > 1 => Bytes(SubSeq(b, 1, k - 1 - 1)) < pos),
           Len(b))

Unprinted == IF in_pc = "parse" THEN FromByte(event_buf, event_pos) ELSE <<>>

OrderInv == ~lost => (printed \o Named(Unprinted)) \o Named(kqueue) = changes

InotifyInv == InotifyTypes /\ CursorInv /\ OrderInv

\* The bytes before an event grow from one event to the next.
LEMMA BytesGrow ==
    ASSUME NEW s \in Seq(Events), NEW j \in 1..Len(s) + 1, NEW k \in 1..Len(s) + 1
    PROVE  /\ Bytes(SubSeq(s, 1, j - 1)) \in Nat
           /\ j < k => Bytes(SubSeq(s, 1, j - 1)) < Bytes(SubSeq(s, 1, k - 1))
  <1>1. PICK n \in Nat : n = Len(s)
    BY LenProperties
  <1>2. j \in 1..(n + 1) /\ k \in 1..(n + 1) /\ \A m \in 1..n : s[m] \in Events
    BY <1>1, ElementOfSeq
  <1>3. PICK a : a = SubSeq(s, 1, j - 1)
    OBVIOUS
  <1>4. a \in Seq(Events)
    <2>1. \A m \in 1..(j - 1) : s[m] \in Events
      BY <1>2
    <2> QED BY <1>2, <1>3, <2>1, SubSeqProperties
  <1>5. ASSUME j < k PROVE Bytes(a) < Bytes(SubSeq(s, 1, k - 1))
    <2>1. PICK b : b = SubSeq(s, j, k - 1)
      OBVIOUS
    <2>2. b \in Seq(Events) /\ Len(b) > 0
      <3>1. \A m \in j..(k - 1) : s[m] \in Events
        BY <1>2
      <3> QED BY <1>2, <1>5, <2>1, <3>1, SubSeqProperties
    <2>3. SubSeq(s, 1, k - 1) = a \o b
      <3>1. 1 \in 1..Len(s) + 1 /\ j - 1 \in 1 - 1 .. Len(s) /\ k - 1 \in j - 1 .. Len(s)
        BY <1>1, <1>2, <1>5
      <3>2. (j - 1) + 1 = j
        BY <1>2
      <3>3. SubSeq(s, 1, j - 1) \o SubSeq(s, (j - 1) + 1, k - 1) = SubSeq(s, 1, k - 1)
        BY ONLY <3>1, ConcatAdjacentSubSeq, s \in Seq(Events)
      <3> QED BY ONLY <1>3, <2>1, <3>2, <3>3
    <2>4. Bytes(a \o b) = Bytes(a) + Bytes(b)
      BY <1>4, <2>2, BatchesAddUp
    <2>5. b # <<>>
      BY <2>2, EmptySeq
    <2>6. Bytes(b) > 0 /\ Bytes(a) \in Nat /\ Bytes(b) \in Nat
      BY <1>4, <2>2, <2>5, BytesOfSome, BytesType
    <2>7. Bytes(a) < Bytes(a) + Bytes(b)
      BY ONLY <2>6
    <2> QED BY ONLY <2>3, <2>4, <2>7, Zenon
  <1> QED BY <1>3, <1>4, <1>5, BytesType

\* Looking for the event at the bytes before the event k finds the event k.
LEMMA EventAtCursor ==
    ASSUME NEW b \in Seq(Events), NEW k \in 1..Len(b) + 1,
           NEW pos, pos = Bytes(SubSeq(b, 1, k - 1))
    PROVE  (CHOOSE j \in 1..Len(b) + 1 : Bytes(SubSeq(b, 1, j - 1)) >= pos
                    /\ (j > 1 => Bytes(SubSeq(b, 1, j - 1 - 1)) < pos)) = k
  <1> DEFINE B(j) == Bytes(SubSeq(b, 1, j - 1))
             At(j) == B(j) >= pos /\ (j > 1 => B(j - 1) < pos)
  <1>1. PICK n \in Nat : n = Len(b)
    BY LenProperties
  <1>2. \A j, m \in 1..n + 1 : B(j) \in Nat /\ (j < m => B(j) < B(m))
    BY <1>1, BytesGrow
  <1>3. k \in 1..n + 1 /\ pos = B(k)
    BY <1>1
  <1> HIDE DEF B
  <1>4. At(k)
    <2>1. ASSUME k > 1 PROVE B(k - 1) < B(k)
      <3>1. k - 1 \in 1..n + 1 /\ k - 1 < k
        BY <1>3, <2>1
      <3> QED BY <1>2, <1>3, <3>1
    <2>2. B(k) \in Nat
      BY <1>2, <1>3
    <2> QED BY <1>3, <2>1, <2>2
  <1>5. ASSUME NEW j \in 1..n + 1, At(j) PROVE j = k
    <2>1. CASE j < k
      <3>1. B(j) < B(k) /\ B(j) \in Nat /\ B(k) \in Nat
        BY <1>2, <1>3, <2>1
      <3> QED BY <1>3, <1>5, <3>1
    <2>2. CASE k < j
      <3>1. j - 1 \in 1..n + 1 /\ j > 1 /\ (k = j - 1 \/ k < j - 1)
        BY <1>3, <2>2
      <3>2. B(j - 1) >= B(k) /\ B(j - 1) \in Nat /\ B(k) \in Nat
        BY <1>2, <1>3, <3>1
      <3> QED BY <1>3, <1>5, <3>1, <3>2
    <2> QED BY <1>3, <2>1, <2>2
  <1> HIDE DEF At
  <1>6. (CHOOSE j \in 1..n + 1 : At(j)) = k
    BY <1>3, <1>4, <1>5
  <1> QED BY <1>1, <1>6, Zenon DEF At, B

\* What EventsFrom returns for the position of an event.
CursorFact ==
    \A k \in 1..(Len(event_buf) + 1) :
        in_pc = "parse" /\ NextIs(k) =>
            /\ EventsFrom(event_pos) = SubSeq(event_buf, k, Len(event_buf))
            /\ Unprinted = SubSeq(event_buf, k, Len(event_buf))

\* It holds whenever the buffer holds events.
LEMMA CursorFactHolds == InotifyTypes => CursorFact
  <1> SUFFICES ASSUME InotifyTypes, NEW k \in 1..(Len(event_buf) + 1),
                      in_pc = "parse", NextIs(k)
               PROVE  /\ EventsFrom(event_pos) = SubSeq(event_buf, k, Len(event_buf))
                      /\ Unprinted = SubSeq(event_buf, k, Len(event_buf))
    BY DEF CursorFact
  <1>1. event_buf \in Seq(Events) /\ event_pos = Bytes(SubSeq(event_buf, 1, k - 1))
    BY DEF InotifyTypes, NextIs
  <1>2. (CHOOSE j \in 1..Len(event_buf) + 1 : Bytes(SubSeq(event_buf, 1, j - 1)) >= event_pos
                    /\ (j > 1 => Bytes(SubSeq(event_buf, 1, j - 1 - 1)) < event_pos)) = k
    BY <1>1, EventAtCursor
  <1>3. EventsFrom(event_pos) = SubSeq(event_buf, k, Len(event_buf))
    BY <1>2, Zenon DEF EventsFrom
  <1>4. FromByte(event_buf, event_pos) = SubSeq(event_buf, k, Len(event_buf))
    BY <1>2, Zenon DEF FromByte
  <1> QED BY <1>3, <1>4 DEF Unprinted

\* What is still to be printed is a sequence of events.
LEMMA UnprintedType == InotifyTypes /\ CursorInv => Unprinted \in Seq(Events)
  <1> SUFFICES ASSUME InotifyTypes, CursorInv PROVE Unprinted \in Seq(Events)
    OBVIOUS
  <1>1. CASE in_pc # "parse"
    BY <1>1, EmptySeq DEF Unprinted
  <1>2. CASE in_pc = "parse"
    <2>1. PICK k \in 1..(Len(event_buf) + 1) : NextIs(k)
      BY <1>2 DEF CursorInv
    <2>2. Unprinted = SubSeq(event_buf, k, Len(event_buf))
      BY <1>2, <2>1, CursorFactHolds DEF CursorFact
    <2>3. Len(event_buf) \in Nat /\ \A j \in 1..Len(event_buf) : event_buf[j] \in Events
      BY LenProperties, ElementOfSeq DEF InotifyTypes
    <2>4. \A j \in k..Len(event_buf) : event_buf[j] \in Events
      BY <2>3
    <2> QED BY <2>2, <2>3, <2>4, SubSeqProperties
  <1> QED BY <1>1, <1>2

\* What is still to be printed depends on the parser's variables only.
LEMMA UnprintedKept ==
    in_pc' = in_pc /\ event_buf' = event_buf /\ event_pos' = event_pos
        => Unprinted' = Unprinted
  BY DEF Unprinted

\* A change in the directory is queued behind the others, or lost is set.
LEMMA TouchKeeps ==
    ASSUME NEW e \in FileEvents
    PROVE  InotifyInv /\ Touch(e) => InotifyInv'
  <1> SUFFICES ASSUME InotifyInv, Touch(e) PROVE InotifyInv'
    OBVIOUS
  <1>1. UNCHANGED parser
    BY DEF Touch
  <1>2. /\ in_pc' = in_pc /\ event_buf' = event_buf /\ res' = res
        /\ event_pos' = event_pos /\ printed' = printed
    BY <1>1 DEF parser
  <1>3. /\ kqueue \in Seq(Events) /\ event_buf \in Seq(Events) /\ changes \in Seq(Events)
        /\ printed \in Seq(Events) /\ lost \in BOOLEAN
    BY DEF InotifyInv, InotifyTypes
  <1>4. e \in Events /\ e \notin Nameless /\ Event("overflow", "-") \in Events
    BY FileEventsNamed DEF Events, Nameless
  <1>5. \/ kqueue' = kqueue /\ changes' = changes /\ lost' = lost
        \/ /\ kqueue' = Queued(e) /\ changes' = Append(changes, e)
           /\ lost' = (lost \/ Len(kqueue) >= MaxQueued)
    BY DEF Touch
  <1>6. Queued(e) \in {Append(kqueue, e), kqueue, Append(kqueue, Event("overflow", "-"))}
    BY DEF Queued
  <1>7. InotifyTypes'
    <2>1. kqueue' \in Seq(Events) /\ changes' \in Seq(Events)
      <3>1. /\ Append(kqueue, e) \in Seq(Events) /\ Append(changes, e) \in Seq(Events)
            /\ Append(kqueue, Event("overflow", "-")) \in Seq(Events)
        BY ONLY <1>3, <1>4, AppendProperties
      <3> QED BY ONLY <1>3, <1>5, <1>6, <3>1
    <2>2. lost' \in BOOLEAN
      BY ONLY <1>3, <1>5
    <2> QED BY <1>2, <1>3, <2>1, <2>2 DEF InotifyTypes
  <1>8. CursorInv'
    BY <1>2 DEF InotifyInv, CursorInv, NextIs
  <1>9. OrderInv'
    <2> SUFFICES ASSUME ~lost'
                 PROVE  (printed' \o Named(Unprinted')) \o Named(kqueue') = changes'
      BY DEF OrderInv, Named
    <2>1. ~lost
      BY <1>3, <1>5
    <2>2. PICK u : u = Unprinted
      OBVIOUS
    <2>3. Unprinted' = u /\ (printed \o Named(u)) \o Named(kqueue) = changes
      <3>1. Unprinted' = u
        BY ONLY <1>2, <2>2, UnprintedKept
      <3>2. (printed \o Named(Unprinted)) \o Named(kqueue) = changes
        BY <2>1 DEF InotifyInv, OrderInv
      <3> QED BY ONLY <2>2, <3>1, <3>2, Zenon
    <2>4. u \in Seq(Events)
      BY <2>2, UnprintedType DEF InotifyInv
    <2>5. CASE kqueue' = kqueue /\ changes' = changes
      BY ONLY <1>2, <2>3, <2>5
    <2>6. CASE /\ kqueue' = Queued(e) /\ changes' = Append(changes, e)
               /\ lost' = (lost \/ Len(kqueue) >= MaxQueued)
      <3>1. kqueue' = Append(kqueue, e)
        <4>1. Len(kqueue) < MaxQueued
          <5>1. ~(Len(kqueue) >= MaxQueued)
            BY <2>6, Zenon
          <5>2. Len(kqueue) \in Nat /\ MaxQueued \in Nat
            BY <1>3, LenProperties, InotifyAssumption
          <5> QED BY ONLY <5>1, <5>2
        <4> QED BY <2>6, <4>1 DEF Queued
      <3>2. Named(Append(kqueue, e)) = Append(Named(kqueue), e)
        BY <1>3, <1>4, WithoutAppend DEF Named
      <3>3. PICK x \in Seq(Events) : x = printed \o Named(u)
        <4>1. Named(u) \in Seq(Events)
          BY <2>4, WithoutType DEF Named
        <4> QED BY <1>3, <4>1, ConcatProperties
      <3>4. PICK y \in Seq(Events) : y = Named(kqueue)
        BY <1>3, WithoutType DEF Named
      <3>5. x \o Append(y, e) = Append(x \o y, e)
        BY <1>4, ConcatAppend
      <3> QED BY ONLY <1>2, <2>3, <2>6, <3>1, <3>2, <3>3, <3>4, <3>5
    <2> QED BY <1>5, <2>5, <2>6
  <1> QED BY <1>7, <1>8, <1>9 DEF InotifyInv

\* The end of the watch adds an event that is not printed.
LEMMA RemoveDirKeeps == InotifyInv /\ RemoveDir => InotifyInv'
  <1> SUFFICES ASSUME InotifyInv, RemoveDir PROVE InotifyInv'
    OBVIOUS
  <1>1. /\ UNCHANGED parser /\ changes' = changes /\ lost' = lost
        /\ kqueue' = Queued(Event("ignored", "-"))
    BY DEF RemoveDir
  <1>2. /\ in_pc' = in_pc /\ event_buf' = event_buf /\ res' = res
        /\ event_pos' = event_pos /\ printed' = printed
    BY <1>1 DEF parser
  <1>3. /\ kqueue \in Seq(Events) /\ event_buf \in Seq(Events) /\ changes \in Seq(Events)
        /\ printed \in Seq(Events) /\ lost \in BOOLEAN
    BY DEF InotifyInv, InotifyTypes
  <1>4. kqueue' \in Seq(Events) /\ Named(kqueue') = Named(kqueue)
    <2>1. kqueue' = kqueue \/ \E e \in Nameless : kqueue' = Append(kqueue, e)
      BY <1>1 DEF Queued, Nameless
    <2>2. ASSUME NEW e \in Nameless
          PROVE  Append(kqueue, e) \in Seq(Events) /\ Named(Append(kqueue, e)) = Named(kqueue)
      <3>1. e \in Events
        BY DEF Events
      <3>2. Without(Append(kqueue, e), Nameless) = Without(kqueue, Nameless)
        BY <1>3, <3>1, WithoutAppend
      <3> QED BY <1>3, <3>1, <3>2, AppendProperties DEF Named
    <2>3. CASE kqueue' = kqueue
      BY <1>3, <2>3
    <2>4. CASE kqueue' # kqueue
      <3>1. PICK e \in Nameless : kqueue' = Append(kqueue, e)
        BY <2>1, <2>4
      <3> QED BY ONLY <2>2, <3>1, Zenon
    <2> QED BY <2>3, <2>4
  <1>5. InotifyTypes'
    BY <1>1, <1>2, <1>3, <1>4 DEF InotifyTypes
  <1>6. CursorInv'
    BY <1>2 DEF InotifyInv, CursorInv, NextIs
  <1>7. OrderInv'
    <2> SUFFICES ASSUME ~lost
                 PROVE  (printed' \o Named(Unprinted')) \o Named(kqueue') = changes'
      BY <1>1 DEF OrderInv, Named
    <2>1. PICK u : u = Unprinted
      OBVIOUS
    <2>2. Unprinted' = u /\ (printed \o Named(u)) \o Named(kqueue) = changes
      <3>1. Unprinted' = u
        BY ONLY <1>2, <2>1, UnprintedKept
      <3>2. (printed \o Named(Unprinted)) \o Named(kqueue) = changes
        BY DEF InotifyInv, OrderInv
      <3> QED BY ONLY <2>1, <3>1, <3>2, Zenon
    <2> QED BY ONLY <1>1, <1>2, <1>4, <2>2
  <1> QED BY <1>5, <1>6, <1>7 DEF InotifyInv

\* A read moves whole events from the front of the queue to the buffer.
LEMMA ReadEventsKeeps == InotifyInv /\ ReadEvents => InotifyInv'
  <1> SUFFICES ASSUME InotifyInv, ReadEvents PROVE InotifyInv'
    OBVIOUS
  <1>1. PICK n \in 1..Len(kqueue) :
            event_buf' = SubSeq(kqueue, 1, n) /\ kqueue' = SubSeq(kqueue, n + 1, Len(kqueue))
    BY DEF ReadEvents
  <1>2. /\ in_pc = "read" /\ in_pc' = "parse" /\ res' = Bytes(event_buf') /\ event_pos' = 0
        /\ changes' = changes /\ lost' = lost /\ printed' = printed
    BY DEF ReadEvents
  <1>3. /\ kqueue \in Seq(Events) /\ changes \in Seq(Events)
        /\ printed \in Seq(Events) /\ lost \in BOOLEAN
    BY DEF InotifyInv, InotifyTypes
  <1>4. PICK q : q = kqueue
    OBVIOUS
  <1>5. PICK a : a = SubSeq(q, 1, n)
    OBVIOUS
  <1>6. PICK b : b = SubSeq(q, n + 1, Len(q))
    OBVIOUS
  <1>7. q \in Seq(Events) /\ Len(q) \in Nat /\ n \in 1..Len(q) /\ n \in 0..Len(q)
    BY <1>1, <1>3, <1>4, LenProperties
  <1>8. a \in Seq(Events) /\ b \in Seq(Events)
    BY ONLY <1>5, <1>6, <1>7, PartsInjective
  <1>9. q = a \o b
    <2>1. SubSeq(q, 1, n) \o SubSeq(q, n + 1, Len(q)) = q
      BY ONLY <1>7, PartsOfWhole
    <2> QED BY ONLY <1>5, <1>6, <2>1, Zenon
  <1>10. event_buf' = a /\ kqueue' = b
    BY ONLY <1>1, <1>4, <1>5, <1>6
  <1>11. InotifyTypes'
    BY <1>2, <1>3, <1>8, <1>10 DEF InotifyTypes
  <1>12. 1 \in 1..(Len(event_buf') + 1) /\ NextIs(1)'
    <2>1. Len(a) \in Nat /\ SubSeq(a, 1, Len(a)) = a
      BY <1>8, LenProperties, SubSeqFull
    <2>2. SubSeq(a, 1, 1 - 1) = <<>>
      BY SubSeqEmpty
    <2>3. Bytes(SubSeq(a, 1, 1 - 1)) = 0
      BY ONLY <2>2, BytesEmpty, Zenon
    <2>4. event_pos' = Bytes(SubSeq(a, 1, 1 - 1)) /\ res' = Bytes(SubSeq(a, 1, Len(a)))
      BY ONLY <1>2, <1>10, <2>1, <2>3
    <2>5. NextIs(1)'
      BY ONLY <1>10, <2>4, Zenon DEF NextIs
    <2> QED BY ONLY <1>10, <2>1, <2>5
  <1>13. CursorInv'
    BY ONLY <1>12 DEF CursorInv
  <1>14. Unprinted' = a
    <2>1. CursorFact'
      BY <1>11, CursorFactHolds, PTL
    <2>2. Unprinted' = SubSeq(event_buf', 1, Len(event_buf'))
      BY <1>2, <1>12, <2>1 DEF CursorFact
    <2> QED BY <1>8, <1>10, <2>2, SubSeqFull
  <1>15. OrderInv'
    <2> SUFFICES ASSUME ~lost PROVE (printed' \o Named(Unprinted')) \o Named(kqueue') = changes'
      BY <1>2 DEF OrderInv, Named
    <2>1. (printed \o Named(Unprinted)) \o Named(kqueue) = changes
      BY DEF InotifyInv, OrderInv
    <2>2. Named(Unprinted) = <<>>
      <3>1. Unprinted = <<>>
        BY <1>2 DEF Unprinted
      <3> QED BY ONLY <3>1, WithoutEmpty, Zenon DEF Named
    <2>3. printed \o Named(q) = changes
      <3>1. printed \o <<>> = printed
        BY <1>3, ConcatEmptySeq
      <3> QED BY ONLY <1>4, <2>1, <2>2, <3>1
    <2>4. PICK x \in Seq(Events) : x = Named(a)
      BY <1>8, WithoutType DEF Named
    <2>5. PICK y \in Seq(Events) : y = Named(b)
      BY <1>8, WithoutType DEF Named
    <2>6. Named(q) = x \o y
      BY ONLY <1>8, <1>9, <2>4, <2>5, BatchesAddUp
    <2>7. (printed \o x) \o y = printed \o (x \o y)
      <3>1. PICK p \in Seq(Events) : p = printed
        BY <1>3
      <3>2. (p \o x) \o y = p \o (x \o y)
        BY EventsConcat, Zenon
      <3> QED BY ONLY <3>1, <3>2
    <2> QED BY ONLY <1>2, <1>10, <1>14, <2>3, <2>4, <2>5, <2>6, <2>7
  <1> QED BY <1>11, <1>13, <1>15 DEF InotifyInv

\* A turn of the parser takes the next event, and prints it if it has a name.
LEMMA ParseEventKeeps == InotifyInv /\ ParseEvent => InotifyInv'
  <1> SUFFICES ASSUME InotifyInv, ParseEvent PROVE InotifyInv'
    OBVIOUS
  <1>1. PICK e : e = Head(EventsFrom(event_pos))
    OBVIOUS
  <1>2. /\ in_pc = "parse" /\ in_pc' = in_pc /\ res >= HeaderSize
        /\ printed' = IF EventLen(e) = 0 THEN printed
                      ELSE Append(printed, Event(IF e.op = "create" THEN "create"
                                                 ELSE "delete", e.name))
        /\ res' = res - event_size(e) /\ event_pos' = event_pos + event_size(e)
        /\ kqueue' = kqueue /\ changes' = changes /\ lost' = lost /\ event_buf' = event_buf
    BY <1>1, Zenon DEF ParseEvent, Advance
  <1>3. /\ kqueue \in Seq(Events) /\ event_buf \in Seq(Events) /\ changes \in Seq(Events)
        /\ printed \in Seq(Events) /\ lost \in BOOLEAN
    BY DEF InotifyInv, InotifyTypes
  <1>4. PICK k \in 1..(Len(event_buf) + 1) : NextIs(k)
    BY <1>2 DEF InotifyInv, CursorInv
  <1>5. PICK s \in Seq(Events) : s = event_buf
    BY <1>3
  <1>6. PICK n \in Nat : n = Len(s)
    BY LenProperties
  <1>7. /\ event_pos = Bytes(SubSeq(s, 1, k - 1)) /\ res = Bytes(SubSeq(s, k, n))
        /\ k \in 1..n + 1
    BY <1>4, <1>5, <1>6 DEF NextIs
  <1>8. k \in 1..n
    <2> SUFFICES ASSUME k = n + 1 PROVE FALSE
      BY <1>7
    <2>1. SubSeq(s, k, n) = <<>>
      BY <1>7, SubSeqEmpty
    <2>2. res = 0
      BY ONLY <1>7, <2>1, BytesEmpty
    <2> QED BY <1>2, <2>2, InotifyAssumption
  <1>9. PICK rest : rest = SubSeq(s, k + 1, n)
    OBVIOUS
  <1>10. /\ rest \in Seq(Events) /\ SubSeq(s, k, n) \in Seq(Events)
         /\ SubSeq(s, 1, k - 1) \in Seq(Events)
         /\ s[k] \in Events /\ Head(SubSeq(s, k, n)) = s[k]
         /\ Bytes(SubSeq(s, k, n)) = event_size(s[k]) + Bytes(rest)
         /\ Bytes(SubSeq(s, 1, k)) = Bytes(SubSeq(s, 1, k - 1)) + event_size(s[k])
         /\ Named(SubSeq(s, k, n)) =
              IF s[k] \in Nameless THEN Named(rest) ELSE <<s[k]>> \o Named(rest)
    BY ONLY <1>6, <1>8, <1>9, FrontEvent, s \in Seq(Events)
  <1>11. EventsFrom(event_pos) = SubSeq(s, k, n) /\ Unprinted = SubSeq(s, k, n)
    <2>1. CursorFact
      BY CursorFactHolds DEF InotifyInv
    <2> QED BY <1>2, <1>4, <1>5, <1>6, <2>1 DEF CursorFact
  <1>12. e = s[k] /\ e \in Events
    BY <1>1, <1>10, <1>11
  <1>13. /\ event_size(e) \in Nat
         /\ EventLen(e) = 0 <=> e \in Nameless
         /\ e \in Nameless \/ e \in FileEvents
    BY <1>12, EventSizes
  <1>14. printed' = IF e \in Nameless THEN printed ELSE Append(printed, e)
    <2>1. CASE e \in Nameless
      BY <1>2, <1>13, <2>1
    <2>2. CASE e \notin Nameless
      <3>1. /\ e \in [op : {"create", "delete"}, name : FileNames]
            /\ e = [op |-> e.op, name |-> e.name]
        BY <1>13, <2>2 DEF FileEvents
      <3>2. (IF e.op = "create" THEN "create" ELSE "delete") = e.op
        BY ONLY <3>1
      <3>3. Event(e.op, e.name) = e
        BY ONLY <3>1 DEF Event
      <3>4. printed' = Append(printed, Event(IF e.op = "create" THEN "create"
                                             ELSE "delete", e.name))
        BY ONLY <1>2, <1>13, <2>2
      <3> QED BY ONLY <2>2, <3>2, <3>3, <3>4
    <2> QED BY <2>1, <2>2
  <1>15. InotifyTypes'
    <2>1. printed' \in Seq(Events)
      BY <1>3, <1>12, <1>14, AppendProperties
    <2> QED BY <1>2, <1>3, <2>1 DEF InotifyTypes
  <1>16. k + 1 \in 1..(Len(event_buf') + 1) /\ NextIs(k + 1)'
    <2>1. (k + 1) - 1 = k
      BY <1>8
    <2>2. event_pos' = Bytes(SubSeq(s, 1, (k + 1) - 1))
      BY ONLY <1>2, <1>7, <1>10, <1>12, <2>1
    <2>3. res' = Bytes(rest)
      <3>1. Bytes(rest) \in Nat
        BY <1>10, BytesType
      <3>2. res' = (event_size(e) + Bytes(rest)) - event_size(e)
        BY ONLY <1>2, <1>7, <1>10, <1>12
      <3> QED BY ONLY <1>13, <3>1, <3>2
    <2>4. event_buf' = s /\ Len(event_buf') = n
      BY <1>2, <1>5, <1>6
    <2>5. NextIs(k + 1)'
      BY ONLY <1>9, <2>2, <2>3, <2>4, Zenon DEF NextIs
    <2> QED BY <1>8, <2>4, <2>5
  <1>17. CursorInv'
    BY ONLY <1>16 DEF CursorInv
  <1>18. Unprinted' = rest
    <2>1. CursorFact'
      BY <1>15, CursorFactHolds, PTL
    <2>2. Unprinted' = SubSeq(event_buf', k + 1, Len(event_buf'))
      BY <1>2, <1>16, <2>1 DEF CursorFact
    <2> QED BY <1>2, <1>5, <1>6, <1>9, <2>2
  <1>19. OrderInv'
    <2> SUFFICES ASSUME ~lost PROVE (printed' \o Named(Unprinted')) \o Named(kqueue') = changes'
      BY <1>2 DEF OrderInv, Named
    <2>1. (printed \o Named(SubSeq(s, k, n))) \o Named(kqueue) = changes
      <3>1. (printed \o Named(Unprinted)) \o Named(kqueue) = changes
        BY DEF InotifyInv, OrderInv
      <3> QED BY ONLY <1>11, <3>1, Zenon
    <2>2. PICK x \in Seq(Events) : x = Named(rest)
      BY <1>10, WithoutType DEF Named
    <2>3. printed' \o x = printed \o Named(SubSeq(s, k, n))
      <3>1. CASE e \in Nameless
        BY ONLY <1>10, <1>12, <1>14, <2>2, <3>1
      <3>2. CASE e \notin Nameless
        <4>1. PICK o : o = <<e>>
          OBVIOUS
        <4>2. o \in Seq(Events)
          BY <1>12, <4>1
        <4>3. printed' = printed \o o
          BY <1>3, <1>12, <1>14, <3>2, <4>1, AppendIsConcat
        <4>4. (printed \o o) \o x = printed \o (o \o x)
          <5>1. PICK p \in Seq(Events) : p = printed
            BY <1>3
          <5>2. (p \o o) \o x = p \o (o \o x)
            BY <4>2, EventsConcat, Zenon
          <5> QED BY ONLY <5>1, <5>2
        <4>5. Named(SubSeq(s, k, n)) = o \o x
          BY ONLY <1>10, <1>12, <2>2, <3>2, <4>1
        <4> QED BY ONLY <4>3, <4>4, <4>5
      <3> QED BY <3>1, <3>2
    <2> QED BY ONLY <1>2, <1>18, <2>1, <2>2, <2>3
  <1> QED BY <1>15, <1>17, <1>19 DEF InotifyInv

\* When the bytes left are fewer than a header, no event is left.
LEMMA ParsedKeeps == InotifyInv /\ Parsed => InotifyInv'
  <1> SUFFICES ASSUME InotifyInv, Parsed PROVE InotifyInv'
    OBVIOUS
  <1>1. /\ in_pc = "parse" /\ in_pc' = "read" /\ res < HeaderSize
        /\ kqueue' = kqueue /\ changes' = changes /\ lost' = lost /\ event_buf' = event_buf
        /\ printed' = printed
    BY DEF Parsed
  <1>2. PICK k \in 1..(Len(event_buf) + 1) : NextIs(k)
    BY <1>1 DEF InotifyInv, CursorInv
  <1>3. Unprinted \in Seq(Events)
    BY UnprintedType DEF InotifyInv
  <1>4. Bytes(Unprinted) = res
    <2>1. CursorFact
      BY CursorFactHolds DEF InotifyInv
    <2>2. Unprinted = SubSeq(event_buf, k, Len(event_buf))
      BY <1>1, <1>2, <2>1 DEF CursorFact
    <2>3. res = Bytes(SubSeq(event_buf, k, Len(event_buf)))
      BY <1>2 DEF NextIs
    <2> QED BY ONLY <2>2, <2>3, Zenon
  <1>5. Unprinted = <<>>
    <2> SUFFICES ASSUME Unprinted # <<>> PROVE FALSE
      OBVIOUS
    <2>1. Bytes(Unprinted) >= HeaderSize
      BY <1>3, BytesOfSome
    <2>2. Bytes(Unprinted) \in Nat /\ HeaderSize \in Nat
      BY <1>3, BytesType, InotifyAssumption
    <2> QED BY ONLY <1>1, <1>4, <2>1, <2>2
  <1>6. Unprinted' = <<>>
    BY <1>1 DEF Unprinted
  <1>7. InotifyTypes'
    BY <1>1 DEF InotifyInv, InotifyTypes
  <1>8. CursorInv'
    BY <1>1 DEF CursorInv
  <1>9. OrderInv'
    <2> SUFFICES ASSUME ~lost PROVE (printed' \o Named(Unprinted')) \o Named(kqueue') = changes'
      BY <1>1 DEF OrderInv, Named
    <2>1. (printed \o Named(Unprinted)) \o Named(kqueue) = changes
      BY DEF InotifyInv, OrderInv
    <2> QED BY ONLY <1>1, <1>5, <1>6, <2>1
  <1> QED BY <1>7, <1>8, <1>9 DEF InotifyInv

\* Every step of the program and of the users of the directory.
LEMMA InotifyStep ==
    InotifyInv /\ [InotifyMain \/ Directory]_inotify_vars => InotifyInv'
  <1> SUFFICES ASSUME InotifyInv, [InotifyMain \/ Directory]_inotify_vars PROVE InotifyInv'
    OBVIOUS
  <1>1. CASE AddWatch
    <2>1. /\ in_pc = "watch" /\ in_pc' = "read"
          /\ kqueue' = kqueue /\ changes' = changes /\ lost' = lost
          /\ event_buf' = event_buf /\ printed' = printed
      BY <1>1 DEF AddWatch
    <2>2. Unprinted' = <<>> /\ Unprinted = <<>>
      BY <2>1 DEF Unprinted
    <2>3. InotifyTypes' /\ CursorInv'
      BY <2>1 DEF InotifyInv, InotifyTypes, CursorInv
    <2>4. OrderInv'
      <3> SUFFICES ASSUME ~lost
                   PROVE  (printed' \o Named(Unprinted')) \o Named(kqueue') = changes'
        BY <2>1 DEF OrderInv, Named
      <3>1. (printed \o Named(Unprinted)) \o Named(kqueue) = changes
        BY DEF InotifyInv, OrderInv
      <3> QED BY ONLY <2>1, <2>2, <3>1
    <2> QED BY <2>3, <2>4 DEF InotifyInv
  <1>2. CASE ReadEvents \/ ParseEvent \/ Parsed
    BY <1>2, ReadEventsKeeps, ParseEventKeeps, ParsedKeeps
  <1>3. CASE RemoveDir
    BY <1>3, RemoveDirKeeps
  <1>4. ASSUME NEW n \in FileNames, CreateFile(n) \/ DeleteFile(n) PROVE InotifyInv'
    <2>1. \E e \in FileEvents : Touch(e)
      BY <1>4 DEF CreateFile, DeleteFile, Event, FileEvents
    <2> QED BY <2>1, TouchKeeps
  <1>5. CASE UNCHANGED inotify_vars
    <2>1. /\ in_pc' = in_pc /\ event_buf' = event_buf /\ event_pos' = event_pos
          /\ res' = res /\ kqueue' = kqueue /\ changes' = changes /\ lost' = lost
          /\ printed' = printed
      BY <1>5 DEF inotify_vars
    <2>2. Unprinted' = Unprinted
      BY <2>1, UnprintedKept
    <2>3. InotifyTypes'
      BY <2>1 DEF InotifyInv, InotifyTypes
    <2>4. CursorInv'
      BY <2>1 DEF InotifyInv, CursorInv, NextIs
    <2>5. OrderInv'
      <3> SUFFICES ASSUME ~lost
                   PROVE  (printed' \o Named(Unprinted')) \o Named(kqueue') = changes'
        BY <2>1 DEF OrderInv, Named
      <3>1. (printed \o Named(Unprinted)) \o Named(kqueue) = changes
        BY DEF InotifyInv, OrderInv
      <3> QED BY ONLY <2>1, <2>2, <3>1
    <2> QED BY <2>3, <2>4, <2>5 DEF InotifyInv
  <1> QED BY <1>1, <1>2, <1>3, <1>4, <1>5 DEF InotifyMain, Directory

\* It holds before inotify_add_watch.
LEMMA InotifyStart == InotifyInit => InotifyInv
  <1> SUFFICES ASSUME InotifyInit PROVE InotifyInv
    OBVIOUS
  <1>1. /\ in_pc = "watch" /\ kqueue = <<>> /\ changes = <<>> /\ lost = FALSE
        /\ event_buf = <<>> /\ printed = <<>>
    BY DEF InotifyInit
  <1>2. <<>> \in Seq(Events) /\ <<>> \o <<>> = <<>>
    BY EmptySeq, ConcatEmptySeq
  <1>3. InotifyTypes /\ CursorInv
    BY <1>1, <1>2 DEF InotifyTypes, CursorInv
  <1>4. Unprinted = <<>> /\ Named(<<>>) = <<>>
    BY <1>1, WithoutEmpty DEF Unprinted, Named
  <1>5. OrderInv
    BY <1>1, <1>2, <1>4 DEF OrderInv
  <1> QED BY <1>3, <1>5 DEF InotifyInv

\* res and event_pos of read_process_inotify_fd stay in step with the events of
\* the buffer, for any sizes of names, header and buffer.
THEOREM InotifyCursor == InotifySpec => []CursorOnEvent
  <1>1. InotifyInv => CursorOnEvent
    <2> SUFFICES ASSUME InotifyInv, in_pc = "parse"
                 PROVE  /\ res >= 0 /\ event_pos + res = Bytes(event_buf)
                        /\ Bytes(EventsFrom(event_pos)) = res
      BY DEF CursorOnEvent
    <2>1. PICK k \in 1..(Len(event_buf) + 1) : NextIs(k)
      BY DEF InotifyInv, CursorInv
    <2>2. PICK s \in Seq(Events) : s = event_buf
      BY DEF InotifyInv, InotifyTypes
    <2>3. PICK n \in Nat : n = Len(s)
      BY LenProperties
    <2>4. k \in 1..n + 1 /\ \A m \in 1..n : s[m] \in Events
      BY <2>1, <2>2, <2>3, ElementOfSeq
    <2>5. PICK a : a = SubSeq(s, 1, k - 1)
      OBVIOUS
    <2>6. PICK b : b = SubSeq(s, k, n)
      OBVIOUS
    <2>7. a \in Seq(Events) /\ b \in Seq(Events)
      <3>1. (\A m \in 1..(k - 1) : s[m] \in Events) /\ (\A m \in k..n : s[m] \in Events)
        BY <2>4
      <3> QED BY <2>4, <2>5, <2>6, <3>1, SubSeqProperties
    <2>8. a \o b = s
      <3>1. /\ 1 \in 1..Len(s) + 1 /\ k - 1 \in 1 - 1 .. Len(s) /\ Len(s) \in k - 1 .. Len(s)
            /\ (k - 1) + 1 = k
        BY <2>3, <2>4
      <3>2. SubSeq(s, 1, k - 1) \o SubSeq(s, (k - 1) + 1, Len(s)) = SubSeq(s, 1, Len(s))
        BY ONLY <3>1, ConcatAdjacentSubSeq, s \in Seq(Events)
      <3>3. SubSeq(s, 1, Len(s)) = s
        BY SubSeqFull
      <3> QED BY ONLY <2>3, <2>5, <2>6, <3>1, <3>2, <3>3
    <2>9. event_pos = Bytes(a) /\ res = Bytes(b) /\ EventsFrom(event_pos) = b
      <3>1. CursorFact
        BY CursorFactHolds DEF InotifyInv
      <3>2. EventsFrom(event_pos) = SubSeq(event_buf, k, Len(event_buf))
        BY <2>1, <3>1 DEF CursorFact
      <3> QED BY <2>1, <2>2, <2>3, <2>5, <2>6, <3>2 DEF NextIs
    <2>10. Bytes(a \o b) = Bytes(a) + Bytes(b) /\ Bytes(b) \in Nat
      BY <2>7, BatchesAddUp, BytesType
    <2>11. res >= 0
      BY ONLY <2>9, <2>10
    <2> QED BY ONLY <2>2, <2>8, <2>9, <2>10, <2>11
  <1> QED BY <1>1, InotifyStart, InotifyStep, PTL DEF InotifySpec

\* Until the kernel's queue overflows, every change under the watch is printed
\* once and in order, for any number of files, sizes of names and batches.
THEOREM InotifyOrder == InotifySpec => []PrintedInOrder
  <1>1. InotifyInv => PrintedInOrder
    <2> SUFFICES ASSUME InotifyInv, ~lost
                 PROVE  printed
                        \o (IF in_pc = "parse" THEN Named(EventsFrom(event_pos)) ELSE <<>>)
                        \o Named(kqueue) = changes
      BY DEF PrintedInOrder
    <2>1. (printed \o Named(Unprinted)) \o Named(kqueue) = changes
      BY DEF InotifyInv, OrderInv
    <2>2. (IF in_pc = "parse" THEN Named(EventsFrom(event_pos)) ELSE <<>>) = Named(Unprinted)
      <3>1. CASE in_pc = "parse"
        <4>1. PICK k \in 1..(Len(event_buf) + 1) : NextIs(k)
          BY <3>1 DEF InotifyInv, CursorInv
        <4>2. CursorFact
          BY CursorFactHolds DEF InotifyInv
        <4>3. EventsFrom(event_pos) = Unprinted
          BY <3>1, <4>1, <4>2 DEF CursorFact
        <4> QED BY <3>1, <4>3
      <3>2. CASE in_pc # "parse"
        <4>1. Unprinted = <<>> /\ Named(<<>>) = <<>>
          BY <3>2, WithoutEmpty DEF Unprinted, Named
        <4> QED BY <3>2, <4>1
      <3> QED BY <3>1, <3>2
    <2> QED BY ONLY <2>1, <2>2
  <1> QED BY <1>1, InotifyStart, InotifyStep, PTL DEF InotifySpec
================================================================================
