------------------------------ MODULE SocketPair ------------------------------
(***************************************************************************)
(* socketpair/socketpair.c: main and a thread exchange messages over the   *)
(* two ends of a socket pair (SOCK_SEQPACKET).  The thread writes first    *)
(* and waits for the answer, main answers what it reads.  A message is the *)
(* value of the sender's cnt.                                              *)
(*                                                                         *)
(* Sockets, thread and writes are taken to succeed: the program tests none *)
(* of them, and the messages are far smaller than buf and the sockets'     *)
(* buffers.                                                                *)
(***************************************************************************)
EXTENDS Naturals, SequencesExt

CONSTANT CntMod         \* cnt is an int: 2^32 values
ASSUME SocketAssumption == CntMod \in Nat \ {0}

Ends == {"main", "thread1"}
Peer(e) == IF e = "main" THEN "thread1" ELSE "main"

VARIABLES
    sp_pc,              \* each end: "none", "write", "read", "print", "sleep"
    inbox,              \* the messages on their way to each end
    cnt,                \* each end's cnt
    buf,                \* what each end read last
    prints              \* how many messages each end has printed

socket_vars == <<sp_pc, inbox, cnt, buf, prints>>

SocketInit ==
    /\ sp_pc = [e \in Ends |-> IF e = "main" THEN "create" ELSE "none"]
    /\ inbox = [e \in Ends |-> <<>>]
    /\ cnt = [e \in Ends |-> 0]
    /\ buf = [e \in Ends |-> 0]
    /\ prints = [e \in Ends |-> 0]

Goto(e, from, to) == sp_pc[e] = from /\ sp_pc' = [sp_pc EXCEPT ![e] = to]

\* Mutant: main greets the thread before it listens.
CreateThreadWriteFirst ==
    /\ sp_pc["main"] = "create"
    /\ sp_pc' = [main |-> "write", thread1 |-> "write"]
    /\ UNCHANGED <<inbox, cnt, buf, prints>>

\* socketpair, setsockopt and pthread_create
CreateThread ==
    /\ sp_pc["main"] = "create"
    /\ sp_pc' = [main |-> "read", thread1 |-> "write"]
    /\ UNCHANGED <<inbox, cnt, buf, prints>>

\* sprintf(buf, ..., cnt++); write
WriteMsg(e) ==
    /\ Goto(e, "write", "read")
    /\ inbox' = [inbox EXCEPT ![Peer(e)] = Append(@, cnt[e])]
    /\ cnt' = [cnt EXCEPT ![e] = (@ + 1) % CntMod]
    /\ UNCHANGED <<buf, prints>>

\* read, which waits for a message
ReadMsg(e) ==
    /\ inbox[e] # <<>>
    /\ Goto(e, "read", "print")
    /\ buf' = [buf EXCEPT ![e] = Head(inbox[e])]
    /\ inbox' = [inbox EXCEPT ![e] = Tail(@)]
    /\ UNCHANGED <<cnt, prints>>

\* Mutant: main does not answer.
PrintMsgNoAnswer(e) ==
    /\ Goto(e, "print", IF e = "main" THEN "read" ELSE "sleep")
    /\ prints' = [prints EXCEPT ![e] = (@ + 1) % CntMod]
    /\ UNCHANGED <<inbox, cnt, buf>>

\* printf; the thread sleeps before its next message, main answers at once
PrintMsg(e) ==
    /\ Goto(e, "print", IF e = "main" THEN "write" ELSE "sleep")
    /\ prints' = [prints EXCEPT ![e] = (@ + 1) % CntMod]
    /\ UNCHANGED <<inbox, cnt, buf>>

WakeThread ==
    /\ Goto("thread1", "sleep", "write")
    /\ UNCHANGED <<inbox, cnt, buf, prints>>

EndStep(e) == WriteMsg(e) \/ ReadMsg(e) \/ PrintMsg(e) \/ (e = "thread1" /\ WakeThread)
SocketMain == CreateThread \/ \E e \in Ends : EndStep(e)

SocketSpec == SocketInit /\ [][SocketMain]_socket_vars

-----------------------------------------------------------------------------
(* Properties.                                                              *)

\* The exchange stays in step: one message at most is on its way, and the
\* number an end reads is the number of messages it had printed before.
InStep ==
    /\ Len(inbox["main"]) + Len(inbox["thread1"]) <= 1
    /\ \A e \in Ends : /\ sp_pc[e] = "print" => buf[e] = prints[e]
                       /\ inbox[e] # <<>> => Head(inbox[e]) = prints[e]

\* Neither end waits for the other for good: each keeps printing.
ExchangeGoesOn == \A e \in Ends : []<>(sp_pc[e] = "print")
===============================================================================
