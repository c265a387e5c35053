------------------------------ MODULE BinderPool ------------------------------
(***************************************************************************)
(* A binder server with a pool of threads: BinderServicemanager/c's        *)
(* test_server.c on top of binder_loop, binder_thread_loop, binder_parse   *)
(* and binder_send_reply, called by clients through binder_call.           *)
(*                                                                         *)
(* The kernel driver asks for another thread (BR_SPAWN_LOOPER) when a read *)
(* leaves no thread waiting.  binder_parse then starts one and hands it    *)
(* the address of a descriptor in its own stack frame, which is gone when  *)
(* binder_parse returns.  The handlers count calls in static variables     *)
(* without a lock, so loads and stores are steps of their own.             *)
(***************************************************************************)
EXTENDS Integers, FiniteSets, SequencesExt

CONSTANTS
    Callers,        \* client threads, each blocked in one binder_call at most
    Threads,        \* the server's threads
    main,           \* the one that runs binder_loop
    MaxThreads,     \* binder_set_maxthreads
    Services,       \* hello and goodbye, by the handler that is their target
    MaxCalls,       \* bound: how many calls each client makes
    NoCaller

ASSUME PoolAssumption ==
    /\ IsFiniteSet(Threads)
    /\ main \in Threads
    /\ MaxThreads \in Nat
    /\ Cardinality(Threads) = MaxThreads + 1
    /\ MaxCalls \in [Callers -> Nat]
    /\ NoCaller \notin Callers

VARIABLES
    alive,          \* the server process runs
    released,       \* the driver has cleaned up after its exit
    todo,           \* driver: calls queued for the server
    requested,      \* driver: requested_threads
    started,        \* driver: requested_threads_started
    pc,             \* where each server thread is
    cur,            \* the call each thread is handling
    tmp,            \* the value each thread has loaded or will return
    btd,            \* the descriptor a new thread was given: the thread whose
                    \* frame it is in, or "stale" once that frame is gone
    cnt,            \* the static counters, per service and function
    st,             \* each client: idle, waiting, replied, failed
    req,            \* its request: [svc, fn]
    reply,          \* the int in its reply
    result,         \* what its last sayhello_to / saygoodbye_to returned
    calls           \* how many calls it has made

callers == <<st, req, reply, result, calls>>
pool == <<requested, started>>
vars == <<alive, released, todo, requested, started, pc, cur, tmp, btd, cnt,
          st, req, reply, result, calls>>

\* say: a call without a result; say_to: one that returns the count; bad: a
\* code or message the handler refuses.
Fns == {"say", "say_to", "bad"}
Request == [svc : Services, fn : Fns]
Counters == Services \X {"say", "say_to"}
counter(r) == <<r.svc, r.fn>>

PCs == {"none", "starting", "register", "enter", "wait", "spawn", "handle",
        "load", "store", "fetch", "reply", "ret_txn", "complete", "ret_noop"}

Init ==
    /\ alive = TRUE
    /\ released = FALSE
    /\ todo = <<>>
    /\ requested = 0
    /\ started = 0
    /\ pc = [t \in Threads |-> IF t = main THEN "enter" ELSE "none"]
    /\ cur = [t \in Threads |-> NoCaller]
    /\ tmp = [t \in Threads |-> 0]
    /\ btd = [t \in Threads |-> "none"]
    /\ cnt = [k \in Counters |-> 0]
    /\ st = [c \in Callers |-> "idle"]
    /\ req \in [Callers -> {[svc |-> s, fn |-> "say"] : s \in Services}]
    /\ reply = [c \in Callers |-> 0]
    /\ result = [c \in Callers |-> 0]
    /\ calls = [c \in Callers |-> 0]

-----------------------------------------------------------------------------
(* The clients.                                                             *)

\* binder_call up to the read: the driver queues the transaction, or fails it
\* at once when it has cleaned up after the server.
Call(c) ==
    /\ st[c] = "idle"
    /\ calls[c] < MaxCalls[c]
    /\ calls' = [calls EXCEPT ![c] = @ + 1]
    /\ \E r \in Request : req' = [req EXCEPT ![c] = r]
    /\ IF released
       THEN /\ st' = [st EXCEPT ![c] = "failed"]
            /\ UNCHANGED todo
       ELSE /\ st' = [st EXCEPT ![c] = "waiting"]
            /\ todo' = Append(todo, c)
    /\ UNCHANGED <<alive, released, pool, pc, cur, tmp, btd, cnt, reply, result>>

\* BR_REPLY: the int is read and binder_done frees the buffer.  A status code
\* reads the same as a result.
Finish(c) ==
    /\ st[c] = "replied"
    /\ st' = [st EXCEPT ![c] = "idle"]
    /\ result' = IF req[c].fn = "say" THEN result
                 ELSE [result EXCEPT ![c] = reply[c]]
    /\ reply' = [reply EXCEPT ![c] = 0]
    /\ UNCHANGED <<alive, released, todo, pool, pc, cur, tmp, btd, cnt, req, calls>>

\* BR_DEAD_REPLY: binder_call returns -1, the client function 0.
Fail(c) ==
    /\ st[c] = "failed"
    /\ st' = [st EXCEPT ![c] = "idle"]
    /\ result' = IF req[c].fn = "say" THEN result ELSE [result EXCEPT ![c] = 0]
    /\ UNCHANGED <<alive, released, todo, pool, pc, cur, tmp, btd, cnt, req,
                   reply, calls>>

-----------------------------------------------------------------------------
(* Reading from the driver.                                                 *)

\* The end of a read by thread t: no other thread waits for work, none has
\* been asked for, and the maximum is not reached.
WantsThread(t) ==
    /\ requested = 0
    /\ \A u \in Threads \ {t} : pc[u] # "wait"
    /\ started < MaxThreads

ReadReturns(t, next) ==
    IF WantsThread(t)
    THEN pc' = [pc EXCEPT ![t] = "spawn"] /\ requested' = requested + 1
    ELSE pc' = [pc EXCEPT ![t] = next] /\ UNCHANGED requested

\* A read that returns BR_TRANSACTION.
Read(t) ==
    /\ alive
    /\ pc[t] = "wait"
    /\ todo # <<>>
    /\ cur' = [cur EXCEPT ![t] = Head(todo)]
    /\ todo' = Tail(todo)
    /\ ReadReturns(t, "handle")
    /\ UNCHANGED <<alive, released, started, tmp, btd, cnt, callers>>

\* The read after a reply: it returns BR_TRANSACTION_COMPLETE at once.
ReadComplete(t) ==
    /\ alive
    /\ pc[t] = "complete"
    /\ ReadReturns(t, "ret_noop")
    /\ UNCHANGED <<alive, released, todo, started, cur, tmp, btd, cnt, callers>>

\* BR_SPAWN_LOOPER: pthread_create may fail, and its result is not looked at.
AfterSpawn(t) == IF cur[t] = NoCaller THEN "ret_noop" ELSE "handle"

Spawn(t) ==
    /\ alive
    /\ pc[t] = "spawn"
    /\ \E u \in Threads :
        /\ pc[u] = "none"
        /\ pc' = [pc EXCEPT ![t] = AfterSpawn(t), ![u] = "starting"]
        /\ btd' = [btd EXCEPT ![u] = t]
    /\ UNCHANGED <<alive, released, todo, pool, cur, tmp, cnt, callers>>

SpawnFails(t) ==
    /\ alive
    /\ pc[t] = "spawn"
    /\ pc' = [pc EXCEPT ![t] = AfterSpawn(t)]
    /\ UNCHANGED <<alive, released, todo, pool, cur, tmp, btd, cnt, callers>>

\* binder_parse returns: a descriptor in its frame is gone.
Return(t) ==
    /\ alive
    /\ pc[t] \in {"ret_txn", "ret_noop"}
    /\ pc' = [pc EXCEPT ![t] = IF pc[t] = "ret_txn" THEN "complete" ELSE "wait"]
    /\ btd' = [u \in Threads |-> IF btd[u] = t THEN "stale" ELSE btd[u]]
    /\ UNCHANGED <<alive, released, todo, pool, cur, tmp, cnt, callers>>

\* binder_thread_routine reads the descriptor.
Start(u) ==
    /\ alive
    /\ pc[u] = "starting"
    /\ pc' = [pc EXCEPT ![u] = "register"]
    /\ btd' = [btd EXCEPT ![u] = "none"]
    /\ UNCHANGED <<alive, released, todo, pool, cur, tmp, cnt, callers>>

\* What is left of a stale descriptor may be anything: the process crashes.
StartGarbage(u) ==
    /\ alive
    /\ pc[u] = "starting"
    /\ btd[u] = "stale"
    /\ alive' = FALSE
    /\ UNCHANGED <<released, todo, pool, pc, cur, tmp, btd, cnt, callers>>

\* The first read of a thread is an ioctl of its own, after the one that announced
\* the thread, with BC_ENTER_LOOPER for main.
Enter(u) ==
    /\ alive
    /\ pc[u] = "enter"
    /\ pc' = [pc EXCEPT ![u] = "wait"]
    /\ UNCHANGED <<alive, released, todo, pool, cur, tmp, btd, cnt, callers>>

\* Mutant: the new thread says BC_ENTER_LOOPER, as main does, and the driver
\* does not count it.
RegisterAsEnter(u) ==
    /\ alive
    /\ pc[u] = "register"
    /\ pc' = [pc EXCEPT ![u] = "enter"]
    /\ UNCHANGED <<alive, released, todo, pool, cur, tmp, btd, cnt, callers>>

\* BC_REGISTER_LOOPER; the driver ignores one it has not asked for.
Register(u) ==
    /\ alive
    /\ pc[u] = "register"
    /\ pc' = [pc EXCEPT ![u] = "enter"]
    /\ IF requested > 0
       THEN requested' = requested - 1 /\ started' = started + 1
       ELSE UNCHANGED pool
    /\ UNCHANGED <<alive, released, todo, cur, tmp, btd, cnt, callers>>

-----------------------------------------------------------------------------
(* The handlers: test_server_handler calls the target's own.                *)

\* Mutant: a request the handler refuses gets no reply.
HandleNoReply(t) ==
    /\ alive
    /\ pc[t] = "handle"
    /\ IF req[cur[t]].fn = "bad"
       THEN /\ pc' = [pc EXCEPT ![t] = "ret_txn"]
            /\ cur' = [cur EXCEPT ![t] = NoCaller]
       ELSE /\ pc' = [pc EXCEPT ![t] = "load"]
            /\ UNCHANGED cur
    /\ UNCHANGED <<alive, released, todo, pool, tmp, btd, cnt, callers>>

Handle(t) ==
    /\ alive
    /\ pc[t] = "handle"
    /\ IF req[cur[t]].fn = "bad"
       THEN /\ pc' = [pc EXCEPT ![t] = "reply"]
            /\ tmp' = [tmp EXCEPT ![t] = -1]
       ELSE /\ pc' = [pc EXCEPT ![t] = "load"]
            /\ UNCHANGED tmp
    /\ UNCHANGED <<alive, released, todo, pool, cur, btd, cnt, callers>>

\* Mutant: cnt is not static.
LoadFresh(t) ==
    /\ alive
    /\ pc[t] = "load"
    /\ tmp' = [tmp EXCEPT ![t] = 0]
    /\ pc' = [pc EXCEPT ![t] = "store"]
    /\ UNCHANGED <<alive, released, todo, pool, cur, btd, cnt, callers>>

\* cnt++
Load(t) ==
    /\ alive
    /\ pc[t] = "load"
    /\ tmp' = [tmp EXCEPT ![t] = cnt[counter(req[cur[t]])]]
    /\ pc' = [pc EXCEPT ![t] = "store"]
    /\ UNCHANGED <<alive, released, todo, pool, cur, btd, cnt, callers>>

\* Mutant: cnt--
StoreDown(t) ==
    /\ alive
    /\ pc[t] = "store"
    /\ cnt' = [cnt EXCEPT ![counter(req[cur[t]])] = tmp[t] - 1]
    /\ pc' = [pc EXCEPT ![t] = "reply"]
    /\ UNCHANGED <<alive, released, todo, pool, cur, tmp, btd, callers>>

Store(t) ==
    /\ alive
    /\ pc[t] = "store"
    /\ cnt' = [cnt EXCEPT ![counter(req[cur[t]])] = tmp[t] + 1]
    /\ IF req[cur[t]].fn = "say_to"
       THEN /\ pc' = [pc EXCEPT ![t] = "fetch"]
            /\ UNCHANGED tmp
       ELSE /\ pc' = [pc EXCEPT ![t] = "reply"]
            /\ tmp' = [tmp EXCEPT ![t] = 0]
    /\ UNCHANGED <<alive, released, todo, pool, cur, btd, callers>>

\* Mutant: the value before the increment is returned.
FetchOld(t) ==
    /\ alive
    /\ pc[t] = "fetch"
    /\ pc' = [pc EXCEPT ![t] = "reply"]
    /\ UNCHANGED <<alive, released, todo, pool, cur, tmp, btd, cnt, callers>>

\* return cnt
Fetch(t) ==
    /\ alive
    /\ pc[t] = "fetch"
    /\ tmp' = [tmp EXCEPT ![t] = cnt[counter(req[cur[t]])]]
    /\ pc' = [pc EXCEPT ![t] = "reply"]
    /\ UNCHANGED <<alive, released, todo, pool, cur, btd, cnt, callers>>

\* binder_send_reply
SendReply(t) ==
    /\ alive
    /\ pc[t] = "reply"
    /\ st' = [st EXCEPT ![cur[t]] = "replied"]
    /\ reply' = [reply EXCEPT ![cur[t]] = tmp[t]]
    /\ cur' = [cur EXCEPT ![t] = NoCaller]
    /\ tmp' = [tmp EXCEPT ![t] = 0]
    /\ pc' = [pc EXCEPT ![t] = "ret_txn"]
    /\ UNCHANGED <<alive, released, todo, pool, btd, cnt, req, result, calls>>

\* The driver cleans up after the server: what is queued or being handled is
\* answered with BR_DEAD_REPLY.
Release ==
    /\ ~alive
    /\ ~released
    /\ released' = TRUE
    /\ todo' = <<>>
    /\ st' = [c \in Callers |-> IF st[c] = "waiting" THEN "failed" ELSE st[c]]
    /\ UNCHANGED <<alive, pool, pc, cur, tmp, btd, cnt, req, reply, result, calls>>

-----------------------------------------------------------------------------
ThreadStep(t) ==
    \/ Read(t) \/ ReadComplete(t) \/ Spawn(t) \/ SpawnFails(t) \/ Return(t)
    \/ Start(t) \/ StartGarbage(t) \/ Register(t) \/ Enter(t)
    \/ Handle(t) \/ Load(t) \/ Store(t) \/ Fetch(t) \/ SendReply(t)

Next ==
    \/ \E c \in Callers : Call(c) \/ Finish(c) \/ Fail(c)
    \/ \E t \in Threads : ThreadStep(t)
    \/ Release

\* Every thread that can run does, as do a client with its answer and the
\* driver's clean-up.  Nobody is forced to call.
Fairness ==
    /\ \A t \in Threads : WF_vars(ThreadStep(t))
    /\ \A c \in Callers : WF_vars(Finish(c)) /\ WF_vars(Fail(c))
    /\ WF_vars(Release)

Spec == Init /\ [][Next]_vars /\ Fairness

-----------------------------------------------------------------------------
(* Properties.                                                              *)

TypeOK ==
    /\ alive \in BOOLEAN /\ released \in BOOLEAN
    /\ todo \in Seq(Callers)
    /\ requested \in Nat /\ started \in Nat
    /\ pc \in [Threads -> PCs]
    /\ cur \in [Threads -> Callers \cup {NoCaller}]
    /\ tmp \in [Threads -> Int]
    /\ btd \in [Threads -> Threads \cup {"none", "stale"}]
    /\ cnt \in [Counters -> Nat]
    /\ st \in [Callers -> {"idle", "waiting", "replied", "failed"}]
    /\ req \in [Callers -> Request]
    /\ reply \in [Callers -> Int]
    /\ result \in [Callers -> Int]
    /\ calls \in [Callers -> Nat]

\* The driver's books agree with the threads that exist: every thread beyond
\* main was asked for once, at most one request is open, and the threads that
\* run or are on their way never exceed binder_set_maxthreads, also when
\* pthread_create fails in binder_parse and its request stays open for good.
PoolWithinBounds ==
    LET coming == {t \in Threads : pc[t] \in {"spawn", "starting", "register"}}
    IN  /\ started = Cardinality({t \in Threads \ {main} :
                        pc[t] \notin {"none", "starting", "register"}})
        /\ Cardinality({t \in coming : pc[t] # "spawn"}) <= requested
        /\ requested <= 1
        /\ started + requested <= MaxThreads

\* A call is in one place: in the queue or with one thread while its client
\* waits, nowhere otherwise.  No call is lost, handled twice, or answered to
\* another client by the threads that share binder_parse.
CallsPlaced ==
    ~released => \A c \in Callers :
        Cardinality({i \in DOMAIN todo : todo[i] = c})
        + Cardinality({t \in Threads : cur[t] = c})
        = (IF st[c] = "waiting" THEN 1 ELSE 0)

\* The calls made so far: the client, and which of its calls it was.
Made == UNION {{c} \X (1..calls[c]) : c \in Callers}

\* Racing increments may lose counts, but a count that sayhello_to returns is
\* never zero and never more than the calls made.
CountsPlausible ==
    \A c \in Callers :
        st[c] = "replied" /\ req[c].fn = "say_to"
        => reply[c] \in 1..Cardinality(Made)

\* While only one client calls, whichever threads serve it, the counts it gets
\* grow: a thread that takes the next call sees what the thread before it
\* stored.
CountsGrow ==
    [][\A c \in Callers :
        /\ st[c] = "replied" /\ st'[c] = "idle" /\ req[c].fn = "say_to"
        /\ \A d \in Callers \ {c} : calls[d] = 0
        => reply[c] > result[c]]_vars

\* Every binder_call returns: with the answer, or with an error when the
\* server is gone.  Busy threads, a failed pthread_create or a crash leave no
\* client waiting.
CallsEnd == \A c \in Callers : st[c] = "waiting" ~> st[c] = "idle"

\* "Supports multithreading" (c/readme.txt): a thread binder_parse starts gets
\* the descriptor it was given, whenever it gets to run.
DescriptorAlive ==
    \A u \in Threads : alive /\ pc[u] = "starting" => btd[u] # "stale"
===============================================================================
