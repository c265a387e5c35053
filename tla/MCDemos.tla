-------------------------------- MODULE MCDemos --------------------------------
(***************************************************************************)
(* The self-contained demo programs for TLC: the message app and the       *)
(* epoll, inotify and socketpair examples, and the LED class driver.  They *)
(* share nothing; a behaviour runs one of them and leaves the others as    *)
(* they start.                                                             *)
(***************************************************************************)
EXTENDS MessageApp, Epoll, Inotify, SocketPair, LedsClass

VARIABLE program

Argv == <<"f1", "f2", "f3", "f4">>
PaddedLen == [n \in FileNames |-> IF n = "long" THEN 256 ELSE 16]

demo_vars == <<program, vars, epoll_vars, inotify_vars, socket_vars, leds_vars>>

DemosInit ==
    /\ program \in {"message", "epoll", "inotify", "socketpair", "leds"}
    /\ Init /\ EpollInit /\ InotifyInit /\ SocketInit /\ LedsInit
    /\ program # "inotify" => dir = {}
    /\ program # "leds" => gpio = [n \in Leds |-> 1]

Runs(p) ==
    /\ program = p
    /\ program' = p
    /\ p # "message" => UNCHANGED vars
    /\ p # "epoll" => UNCHANGED epoll_vars
    /\ p # "inotify" => UNCHANGED inotify_vars
    /\ p # "socketpair" => UNCHANGED socket_vars
    /\ p # "leds" => UNCHANGED leds_vars

Message(A) == Runs("message") /\ A
Poll(A) == Runs("epoll") /\ A
Watch(A) == Runs("inotify") /\ A
Exchange(A) == Runs("socketpair") /\ A
Driver(A) == Runs("leds") /\ A

DemosNext ==
    \/ Message(Next)
    \/ Poll(EpollMain \/ Writers)
    \/ Watch(InotifyMain \/ Directory)
    \/ Exchange(SocketMain)
    \/ Driver(LedsNext)

\* Each program's threads run on; clicks, writers and the users of the
\* directory are not forced, nor is anyone to load or unload the driver.
DemosSpec ==
    /\ DemosInit /\ [][DemosNext]_demo_vars
    /\ WF_demo_vars(Message(Thread2)) /\ WF_demo_vars(Message(Start3))
    /\ WF_demo_vars(Message(OnCreate)) /\ WF_demo_vars(Message(Post))
    /\ \A l \in Loops : WF_demo_vars(Message(Dispatch(l)))
    /\ WF_demo_vars(Poll(EpollMain))
    /\ WF_demo_vars(Watch(InotifyMain))
    /\ WF_demo_vars(Exchange(CreateThread))
    /\ \A e \in Ends : WF_demo_vars(Exchange(EndStep(e)))

\* onCreate of the message app does not hang in getLooper: no notification is
\* lost between the test of mLooper and the wait.
AppStarts == program = "message" => OnCreateReturns

\* The two ends of the socket pair go on exchanging messages for ever.
TalkGoesOn == program = "socketpair" => ExchangeGoesOn
===============================================================================
