-------------------------------- MODULE Inotify --------------------------------
(***************************************************************************)
(* inotify/inotify.c: a loop that watches a directory and prints every     *)
(* file created or deleted in it.  A read returns several events of        *)
(* different sizes, which read_process_inotify_fd takes apart with the     *)
(* byte counts res and event_pos.                                          *)
(*                                                                         *)
(* An interrupted read returns and is made again, which changes nothing    *)
(* and has no action.                                                      *)
(***************************************************************************)
EXTENDS SeqFilter, SequencesExt

CONSTANTS
    FileNames,          \* files that come and go
    NameLen,            \* event->len for each: its name, padded
    HeaderSize,         \* sizeof(struct inotify_event)
    BufSize,            \* sizeof(event_buf)
    MaxQueued,          \* kernel: max_queued_events
    MaxChanges          \* bound: changes in the directory

ASSUME InotifyAssumption ==
    /\ NameLen \in [FileNames -> Nat \ {0}]
    /\ HeaderSize \in Nat \ {0}
    /\ \A n \in FileNames : HeaderSize + NameLen[n] <= BufSize
    /\ MaxQueued \in Nat \ {0}
    /\ MaxChanges \in Nat

VARIABLES
    in_pc,              \* "watch", "read", "parse"
    watched,            \* kernel: the directory has its watch
    dir,                \* the files in the directory
    kqueue,             \* kernel: queued events
    changes,            \* history: what happened under the watch
    lost,               \* history: the queue was full once
    event_buf,          \* the events the last read returned
    res,
    event_pos,
    printed             \* what was printed

inotify_vars == <<in_pc, watched, dir, kqueue, changes, lost, event_buf, res,
                  event_pos, printed>>
parser == <<in_pc, event_buf, res, event_pos, printed>>

Event(op, n) == [op |-> op, name |-> n]
\* IN_Q_OVERFLOW and IN_IGNORED come without a name.
Nameless == {Event("overflow", "-"), Event("ignored", "-")}

EventLen(e) == IF e \in Nameless THEN 0 ELSE NameLen[e.name]
event_size(e) == HeaderSize + EventLen(e)
Bytes(events) ==
    LET sum[k \in 0..Len(events)] ==
            IF k = 0 THEN 0 ELSE sum[k - 1] + event_size(events[k])
    IN  sum[Len(events)]

InotifyInit ==
    /\ in_pc = "watch"
    /\ watched = FALSE
    /\ dir \in SUBSET FileNames
    /\ kqueue = <<>>
    /\ changes = <<>>
    /\ lost = FALSE
    /\ event_buf = <<>>
    /\ res = 0
    /\ event_pos = 0
    /\ printed = <<>>

-----------------------------------------------------------------------------
(* The directory and the kernel's queue.                                   *)

\* A full queue takes one overflow event and drops the rest.
Queued(e) ==
    IF Len(kqueue) < MaxQueued THEN Append(kqueue, e)
    ELSE IF Last(kqueue) = Event("overflow", "-") THEN kqueue
    ELSE Append(kqueue, Event("overflow", "-"))

Touch(e) ==
    /\ Len(changes) < MaxChanges
    /\ dir' = IF e.op = "create" THEN dir \cup {e.name} ELSE dir \ {e.name}
    /\ IF watched
       THEN /\ kqueue' = Queued(e)
            /\ changes' = Append(changes, e)
            /\ lost' = (lost \/ Len(kqueue) >= MaxQueued)
       ELSE UNCHANGED <<kqueue, changes, lost>>
    /\ UNCHANGED <<parser, watched>>

CreateFile(n) == n \notin dir /\ Touch(Event("create", n))
DeleteFile(n) == n \in dir /\ Touch(Event("delete", n))

\* The directory itself is removed: the watch ends with an event of its own.
RemoveDir ==
    /\ watched
    /\ dir = {}
    /\ watched' = FALSE
    /\ kqueue' = Queued(Event("ignored", "-"))
    /\ UNCHANGED <<parser, dir, changes, lost>>

-----------------------------------------------------------------------------
(* The program.                                                            *)

\* inotify_add_watch, whose result is not looked at: without a watch the loop
\* waits for ever.
AddWatch ==
    /\ in_pc = "watch"
    /\ watched' \in BOOLEAN
    /\ in_pc' = "read"
    /\ UNCHANGED <<dir, kqueue, changes, lost, event_buf, res, event_pos, printed>>

\* read: as many whole events as fit.
ReadEvents ==
    /\ in_pc = "read"
    /\ kqueue # <<>>
    /\ \E k \in 1..Len(kqueue) :
        /\ Bytes(SubSeq(kqueue, 1, k)) <= BufSize
        /\ k < Len(kqueue) => Bytes(SubSeq(kqueue, 1, k + 1)) > BufSize
        /\ event_buf' = SubSeq(kqueue, 1, k)
        /\ kqueue' = SubSeq(kqueue, k + 1, Len(kqueue))
    /\ res' = Bytes(event_buf')
    /\ event_pos' = 0
    /\ in_pc' = "parse"
    /\ UNCHANGED <<watched, dir, changes, lost, printed>>

\* The events in the buffer from byte pos on.
EventsFrom(pos) ==
    LET Before(k) == Bytes(SubSeq(event_buf, 1, k - 1))
        k0 == CHOOSE k \in 1..Len(event_buf) + 1 : Before(k) >= pos
                    /\ (k > 1 => Before(k - 1) < pos)
    IN  SubSeq(event_buf, k0, Len(event_buf))

\* Mutant: only the name is skipped.
AdvanceName(e) ==
    /\ res' = res - EventLen(e)
    /\ event_pos' = event_pos + EventLen(e)

\* Mutant: the position is moved, the bytes left are taken for used up.
AdvanceOnce(e) ==
    /\ res' = 0
    /\ event_pos' = event_pos + event_size(e)

Advance(e) ==
    /\ res' = res - event_size(e)
    /\ event_pos' = event_pos + event_size(e)

\* One turn of the loop: an event with a name is printed, as a deletion if it
\* is not a creation.
ParseEvent ==
    /\ in_pc = "parse"
    /\ res >= HeaderSize
    /\ LET e == Head(EventsFrom(event_pos)) IN
        /\ printed' = IF EventLen(e) = 0 THEN printed
                      ELSE Append(printed, Event(IF e.op = "create" THEN "create"
                                                 ELSE "delete", e.name))
        /\ Advance(e)
    /\ UNCHANGED <<in_pc, watched, dir, kqueue, changes, lost, event_buf>>

\* Mutant: main returns when the first batch is done.
ParsedQuit ==
    /\ in_pc = "parse"
    /\ res < HeaderSize
    /\ in_pc' = "exit"
    /\ UNCHANGED <<watched, dir, kqueue, changes, lost, event_buf, res, event_pos,
                   printed>>

Parsed ==
    /\ in_pc = "parse"
    /\ res < HeaderSize
    /\ in_pc' = "read"
    /\ UNCHANGED <<watched, dir, kqueue, changes, lost, event_buf, res, event_pos,
                   printed>>

InotifyMain == AddWatch \/ ReadEvents \/ ParseEvent \/ Parsed
Directory == RemoveDir \/ \E n \in FileNames : CreateFile(n) \/ DeleteFile(n)

InotifySpec == InotifyInit /\ [][InotifyMain \/ Directory]_inotify_vars

-----------------------------------------------------------------------------
(* Properties.                                                              *)

Named(events) == Without(events, Nameless)

\* res and event_pos stay in step: they add up to what was read, an event starts
\* where the loop looks for one, and nothing is left over at the end.
CursorOnEvent ==
    in_pc = "parse" =>
        /\ res >= 0
        /\ event_pos + res = Bytes(event_buf)
        /\ Bytes(EventsFrom(event_pos)) = res

\* Until the queue overflows, what was printed, what is in the buffer and what
\* is queued are the changes under the watch, in order and each once.
PrintedInOrder ==
    ~lost => printed
             \o (IF in_pc = "parse" THEN Named(EventsFrom(event_pos)) ELSE <<>>)
             \o Named(kqueue)
             = changes

\* Every change is printed, unless the queue overflowed.
ChangesPrinted ==
    \A k \in 1..MaxChanges : Len(changes) >= k ~> Len(printed) >= k \/ lost
===============================================================================
