--------------------------------- MODULE Epoll ---------------------------------
(***************************************************************************)
(* epoll/epoll.c: a loop that watches the files named on its command line  *)
(* (FIFOs, opened for reading and writing) and prints what others write to *)
(* them.  A descriptor stands for the position of its name in argv.        *)
(*                                                                         *)
(* The reads block, so an event that is stale when its read comes stops    *)
(* the whole loop.  Data is a number of bytes.                             *)
(***************************************************************************)
EXTENDS SeqFilter, SequencesExt

CONSTANTS
    Files,              \* the files on the command line
    argv,               \* argv[1..]: a sequence of files
    Monitorable,        \* those that open and that epoll_ctl accepts
    EPOLL_MAX_EVENTS,
    DATA_MAX_LEN,
    MaxWritten          \* bound: bytes written to each file

ASSUME EpollAssumption ==
    /\ argv \in Seq(Files) /\ argv # <<>>
    /\ Monitorable \subseteq Files
    /\ EPOLL_MAX_EVENTS \in Nat \ {0}
    /\ DATA_MAX_LEN \in Nat \ {0}
    /\ MaxWritten \in Nat

VARIABLES
    ep_pc,              \* "add", "wait", "read", "stray"
    arg,                \* main's i: in argv, then in the events
    interest,           \* kernel: the descriptors epoll_ctl has added
    rdllist,            \* kernel: the ready list
    pollRes,            \* how many events the last epoll_wait returned
    mPendingEventItems, \* their descriptors; older ones stay behind them
    written,            \* bytes written to each file
    taken               \* bytes the loop has read from it

epoll_vars == <<ep_pc, arg, interest, rdllist, pollRes, mPendingEventItems,
                written, taken>>
fds == DOMAIN argv

EpollInit ==
    /\ ep_pc = "add"
    /\ arg = 1
    /\ interest = {}
    /\ rdllist = <<>>
    /\ pollRes = 0
    /\ mPendingEventItems = <<>>
    /\ written = [f \in Files |-> 0]
    /\ taken = [f \in Files |-> 0]

HasData(fd) == written[argv[fd]] > taken[argv[fd]]

\* EPOLL_CTL_ADD: a descriptor that has data already is ready.  For a file that
\* did not open, or is not of a kind that can be polled, it fails, and main goes
\* on without it.
add_to_epoll(fd) ==
    IF argv[fd] \in Monitorable
    THEN /\ interest' = interest \cup {fd}
         /\ rdllist' = IF HasData(fd) THEN Append(rdllist, fd) ELSE rdllist
    ELSE UNCHANGED <<interest, rdllist>>

\* Mutant: the loop ends at the first file that cannot be added.
AddFileStop ==
    /\ ep_pc = "add"
    /\ add_to_epoll(arg)
    /\ arg' = arg + 1
    /\ ep_pc' = IF arg = Len(argv) \/ argv[arg] \notin Monitorable THEN "wait" ELSE "add"
    /\ UNCHANGED <<pollRes, mPendingEventItems, written, taken>>

\* for each file: open, add_to_epoll
AddFile ==
    /\ ep_pc = "add"
    /\ add_to_epoll(arg)
    /\ arg' = arg + 1
    /\ ep_pc' = IF arg = Len(argv) THEN "wait" ELSE "add"
    /\ UNCHANGED <<pollRes, mPendingEventItems, written, taken>>

\* Somebody writes n bytes; the descriptors of the file become ready.
WriteFile(f, n) ==
    /\ written[f] + n <= MaxWritten
    /\ written' = [written EXCEPT ![f] = @ + n]
    /\ rdllist' = rdllist \o SetToSeq({fd \in interest \ ToSet(rdllist) :
                                            argv[fd] = f})
    /\ UNCHANGED <<ep_pc, arg, interest, pollRes, mPendingEventItems, taken>>

\* epoll_wait, level triggered: what is reported goes back to the end of the
\* ready list, what has no data any more is dropped from it.
EpollWait ==
    /\ ep_pc = "wait"
    /\ LET ready == Without(rdllist, {fd \in interest : ~HasData(fd)})
           n == IF Len(ready) < EPOLL_MAX_EVENTS THEN Len(ready)
                ELSE EPOLL_MAX_EVENTS
           events == SubSeq(ready, 1, n)
       IN  /\ n > 0
           /\ pollRes' = n
           /\ mPendingEventItems' = events \o
                    SubSeq(mPendingEventItems, n + 1, Len(mPendingEventItems))
           /\ rdllist' = SubSeq(ready, n + 1, Len(ready)) \o events
    /\ arg' = 1
    /\ ep_pc' = "read"
    /\ UNCHANGED <<interest, written, taken>>

\* Mutant: i <= pollRes, one event too many.
MoreEventsPast(i) == i <= pollRes /\ i < Len(mPendingEventItems)

\* i < pollRes, after the event i (from 1) has been handled.
MoreEvents(i) == i < pollRes

\* The read of an event: it waits until there is something, and takes what fits
\* in buf.  A read that fills buf puts its terminator behind the array, and what
\* the program does then is anyone's guess.
ReadEvent ==
    /\ ep_pc = "read"
    /\ LET fd == mPendingEventItems[arg]
           f == argv[fd]
           waiting == written[f] - taken[f]
           len == IF waiting < DATA_MAX_LEN THEN waiting ELSE DATA_MAX_LEN
       IN  /\ HasData(fd)
           /\ taken' = [taken EXCEPT ![f] = @ + len]
           /\ ep_pc' = IF len = DATA_MAX_LEN THEN "stray"
                       ELSE IF MoreEvents(arg) THEN "read" ELSE "wait"
    /\ arg' = arg + 1
    /\ UNCHANGED <<interest, rdllist, pollRes, mPendingEventItems, written>>

EpollMain == AddFile \/ EpollWait \/ ReadEvent
Writers == \E f \in Files, n \in 1..DATA_MAX_LEN : WriteFile(f, n)

EpollSpec == EpollInit /\ [][EpollMain \/ Writers]_epoll_vars

-----------------------------------------------------------------------------
(* Properties.                                                              *)

\* The read in the loop of main never blocks: an event that is handled after
\* others still has its data, provided that no file is named twice.
ReadNeverBlocks ==
    ep_pc = "read" /\ IsInjective(argv) => HasData(mPendingEventItems[arg])

\* Whatever is written to a file that could be added is printed, also when more
\* files are ready than epoll_wait returns events, unless a read has filled buf.
DataPrinted ==
    \A f \in Monitorable \cap ToSet(argv) : \A n \in 1..MaxWritten :
        written[f] >= n ~> taken[f] >= n \/ ep_pc = "stray"
===============================================================================
