---------------------------- MODULE ServiceManager ----------------------------
(***************************************************************************)
(* The binder service manager, BinderServicemanager/c/service_manager.c,   *)
(* with the part of binder.c it runs on (binder_loop, binder_parse, the    *)
(* one-command writers) and the state the kernel's binder driver keeps for *)
(* it.  The driver is outside the repository; it is modelled from the      *)
(* commands binder.c sends it and the returns binder.c parses.             *)
(*                                                                         *)
(* Processes call the manager (handle 0) and block until it answers.  The  *)
(* manager is one thread: it reads one piece of work from the driver, runs *)
(* the handler, and writes commands back.  Every command it writes is a    *)
(* step of its own, so processes call, exit, and are cleaned up by the     *)
(* driver between any two of them.                                         *)
(***************************************************************************)
EXTENDS Naturals, FiniteSets, SequencesExt

CONSTANTS
    Procs,      \* the processes that call the service manager
    Mortal,     \* those of them that may exit
    Objs,       \* the binder objects (nodes) processes publish
    Owner,      \* the process each object lives in
    Names,      \* the service names used in calls
    NameLen,    \* the length of each name in 16-bit characters
    Publish,    \* the ADD_SERVICE requests: [obj, name, allow]
    Uses,       \* the kinds of call each process makes
    Uid,        \* the effective uid of each process
    MaxIndex,   \* the largest index LIST_SERVICES is called with
    NoObj,      \* no object: an ADD_SERVICE message without one
    NoName, NoProc

ASSUME FiniteAssumption ==
    /\ IsFiniteSet(Procs)
    /\ IsFiniteSet(Objs)
    /\ IsFiniteSet(Names)

ASSUME ConstantAssumption ==
    /\ Mortal \subseteq Procs
    /\ Owner \in [Objs -> Procs]
    /\ NameLen \in [Names -> Nat]
    /\ Publish \subseteq [obj : Objs \cup {NoObj}, name : Names, allow : {0, 1}]
    /\ Uses \in [Procs -> SUBSET {"add", "find", "list", "ping", "bad"}]
    /\ Uid \in [Procs -> Nat]
    /\ MaxIndex \in Nat
    /\ NoObj \notin Objs
    /\ NoName \notin Names
    /\ NoProc \notin Procs

VARIABLES
    alive,          \* processes that have not exited
    released,       \* exited processes the driver has cleaned up after
    ref_node,       \* driver: the manager's references, handle -> object
    ref_strong,     \* driver: strong count of each reference
    ref_death,      \* driver: the death cookie of each reference, as the
                    \* name of the svcinfo that holds it
    todo,           \* driver: work queued for the manager
    buffer,         \* driver: the handle each call's buffer keeps a count on
    request,        \* the call each process is blocked in
    answer,         \* the last reply each process received
    pc,             \* where the manager's thread is
    cur,            \* the caller whose transaction it is handling
    res,            \* the reply the handler has built
    svclist,        \* the list of svcinfo structs, by name
    si_handle,      \* svcinfo.handle
    si_allow        \* svcinfo.allow_isolated

driver == <<ref_node, ref_strong, ref_death>>
manager == <<svclist, si_handle, si_allow>>
procs == <<alive, released>>
vars == <<alive, released, ref_node, ref_strong, ref_death, todo, buffer,
          request, answer, pc, cur, res, svclist, si_handle, si_allow>>

-----------------------------------------------------------------------------
(* Handles, work items, requests and replies.                              *)

\* The descriptors the driver hands to the manager: at most one per object.
Handle == 1..Cardinality(Objs)

\* A queued transaction of process p, and the notice that the node behind
\* handle h is dead, with the cookie registered for it: the death member of
\* the svcinfo of name n.
Txn(p) == [type |-> "txn", proc |-> p]
Dead(h, n) == [type |-> "dead", handle |-> h, cookie |-> n]
Work == [type : {"txn"}, proc : Procs]
        \cup [type : {"dead"}, handle : Handle, cookie : Names]

Ops == {"none", "add", "find", "list", "ping", "bad"}
Request == [op : Ops, name : Names \cup {NoName}, allow : {0, 1},
            index : 0..MaxIndex]
Call(op, n, a, i) == [op |-> op, name |-> n, allow |-> a, index |-> i]
NoCall == Call("none", NoName, 0, 0)

\* What a handler leaves for binder_send_reply.  "ok" is the trailing
\* bio_put_uint32(reply, 0), "empty" a reply without data, "error" a status
\* code, "ref" a handle, "name" a string, "cut" the length of one alone.
ReplyKinds == {"ok", "empty", "error", "ref", "name", "cut"}
Reply(k, h, n) == [kind |-> k, handle |-> h, name |-> n]
Replies == [kind : ReplyKinds, handle : Handle \cup {0},
            name : Names \cup {NoName}]
Plain(k) == Reply(k, 0, NoName)

\* What the caller receives: the handle has become an object.
Answer == [kind : ReplyKinds \cup {"none", "failed"},
           obj : Objs \cup {NoObj}, name : Names \cup {NoName}]
NoAnswer == [kind |-> "none", obj |-> NoObj, name |-> NoName]

TypeOK ==
    /\ alive \subseteq Procs
    /\ released \subseteq Procs
    /\ ref_node \in [Handle -> Objs \cup {NoObj}]
    /\ ref_strong \in [Handle -> Nat]
    /\ ref_death \in [Handle -> Names \cup {NoName}]
    /\ todo \in Seq(Work)
    /\ buffer \in [Procs -> Handle \cup {0}]
    /\ request \in [Procs -> Request]
    /\ answer \in [Procs -> Answer]
    /\ pc \in {"loop", "acquire", "link", "reply"}
    /\ cur \in Procs \cup {NoProc}
    /\ res \in Replies
    /\ svclist \in Seq(Names)
    /\ si_handle \in [Names -> Handle \cup {0}]
    /\ si_allow \in [Names -> {0, 1}]

Init ==
    /\ alive = Procs
    /\ released = {}
    /\ ref_node = [h \in Handle |-> NoObj]
    /\ ref_strong = [h \in Handle |-> 0]
    /\ ref_death = [h \in Handle |-> NoName]
    /\ todo = <<>>
    /\ buffer = [p \in Procs |-> 0]
    /\ request = [p \in Procs |-> NoCall]
    /\ answer = [p \in Procs |-> NoAnswer]
    /\ pc = "loop"
    /\ cur = NoProc
    /\ res = Plain("empty")
    /\ svclist = <<>>
    /\ si_handle = [n \in Names |-> 0]
    /\ si_allow = [n \in Names |-> 0]

-----------------------------------------------------------------------------
(* The driver's references.                                                *)

\* h is the descriptor the driver uses for object o: the one it has, or the
\* smallest one free.
IsDescFor(o, h) ==
    IF \E g \in Handle : ref_node[g] = o
    THEN ref_node[h] = o
    ELSE /\ ref_node[h] = NoObj
         /\ \A g \in Handle : g < h => ref_node[g] # NoObj

\* Dropping the last strong count of h deletes the reference, and with it
\* the death registration and a death notice still queued.
IsLast(h) == ref_strong[h] = 1
DecRef(h) ==
    /\ ref_strong' = [ref_strong EXCEPT ![h] = @ - 1]
    /\ IF IsLast(h)
       THEN /\ ref_node' = [ref_node EXCEPT ![h] = NoObj]
            /\ ref_death' = [ref_death EXCEPT ![h] = NoName]
       ELSE UNCHANGED <<ref_node, ref_death>>

\* binder_release(bs, h): a handle the driver does not know, or whose count
\* is zero, is ignored.
binder_release(h) ==
    IF h # 0 /\ ref_strong[h] > 0 THEN DecRef(h) ELSE UNCHANGED driver

\* The queue q without work w.
Unqueue(q, w) ==
    IF \E i \in DOMAIN q : q[i] = w
    THEN RemoveAt(q, CHOOSE i \in DOMAIN q : q[i] = w)
    ELSE q

\* The queue q once h is released: a deleted reference takes its notice along.
ReleaseFrom(q, h) ==
    IF h # 0 /\ IsLast(h) THEN Unqueue(q, Dead(h, ref_death[h])) ELSE q

-----------------------------------------------------------------------------
(* The callers.  binder_call blocks, so a process has one call at a time.  *)

Send(p, req) ==
    /\ p \in alive
    /\ request[p].op = "none"
    /\ req.op \in Uses[p]
    /\ request' = [request EXCEPT ![p] = req]
    /\ answer' = [answer EXCEPT ![p] = NoAnswer]
    /\ todo' = Append(todo, Txn(p))
    /\ UNCHANGED <<procs, manager, pc, cur, res>>

\* svcmgr_publish: the driver turns the object of the message into a handle
\* of the manager and keeps a strong count on it while the buffer lives.
SendAdd(p) == \E r \in Publish :
    /\ Send(p, Call("add", r.name, r.allow, 0))
    /\ \/ /\ r.obj = NoObj
          /\ UNCHANGED <<driver, buffer>>
       \/ /\ r.obj \in Objs
          /\ Owner[r.obj] = p
          /\ \E h \in Handle :
                /\ IsDescFor(r.obj, h)
                /\ ref_node' = [ref_node EXCEPT ![h] = r.obj]
                /\ ref_strong' = [ref_strong EXCEPT ![h] = @ + 1]
                /\ buffer' = [buffer EXCEPT ![p] = h]
                /\ UNCHANGED ref_death

\* svcmgr_lookup
SendFind(p) ==
    /\ \E n \in Names : Send(p, Call("find", n, 0, 0))
    /\ UNCHANGED <<driver, buffer>>

SendList(p) ==
    /\ \E i \in 0..MaxIndex : Send(p, Call("list", NoName, 0, i))
    /\ UNCHANGED <<driver, buffer>>

\* A ping, or a message the handler refuses: a wrong interface name, a
\* string that does not decode, an unknown code.
SendOther(p) ==
    /\ \E op \in {"ping", "bad"} : Send(p, Call(op, NoName, 0, 0))
    /\ UNCHANGED <<driver, buffer>>

\* A process exits at any moment, in a call or not.
Die(p) ==
    /\ p \in Mortal \cap alive
    /\ alive' = alive \ {p}
    /\ answer' = [answer EXCEPT ![p] = NoAnswer]
    /\ UNCHANGED <<released, driver, todo, buffer, request, pc, cur, res,
                   manager>>

\* Later, the driver cleans up: its nodes die, and every reference with a
\* death registration queues one notice.
Release(p) ==
    /\ p \in Procs \ (alive \cup released)
    /\ released' = released \cup {p}
    /\ LET mine == {h \in Handle : /\ ref_node[h] \in Objs
                                   /\ Owner[ref_node[h]] = p
                                   /\ ref_death[h] # NoName}
       IN \E s \in SetToSeqs({Dead(h, ref_death[h]) : h \in mine}) :
            todo' = todo \o s
    /\ UNCHANGED <<alive, driver, buffer, request, answer, pc, cur, res,
                   manager>>

-----------------------------------------------------------------------------
(* The manager's handlers.  Reading the work and running the handler up to *)
(* the next command to the driver is one step: the read commutes with what *)
(* other processes do in between.                                          *)

find_svc(n) == n \in ToSet(svclist)

AID_ISOLATED_START == 99000
AID_ISOLATED_END == 99999
AID_USER == 100000
Isolated(p) == (Uid[p] % AID_USER) \in AID_ISOLATED_START..AID_ISOLATED_END

\* Mutant: "not found" reported as an error value (any number that is no handle),
\* the way do_add_service reports errors.
do_find_service_minus1(p, n) ==
    IF find_svc(n) /\ si_handle[n] # 0 /\ (si_allow[n] = 1 \/ ~Isolated(p))
    THEN si_handle[n]
    ELSE 2147483647

\* The handle do_find_service returns to process p for name n, 0 for none.
do_find_service(p, n) ==
    IF find_svc(n) /\ (si_allow[n] = 1 \/ ~Isolated(p))
    THEN si_handle[n]
    ELSE 0

\* The next work is a call of process p with this op.
Recv(p, op) ==
    /\ pc = "loop"
    /\ todo # <<>>
    /\ Head(todo) = Txn(p)
    /\ request[p].op = op
    /\ cur' = p

Answered(r) == pc' = "reply" /\ res' = r

Find(p) ==
    /\ Recv(p, "find")
    /\ LET h == do_find_service(p, request[p].name)
       IN Answered(IF h = 0 THEN Plain("ok") ELSE Reply("ref", h, NoName))
    /\ todo' = Tail(todo)
    /\ UNCHANGED <<procs, driver, buffer, request, answer, manager>>

\* bio_put_string16 on the reply of binder_parse, 256 bytes less four offsets:
\* the length always fits, the characters with their terminator may not.
ReplySpace == 240
Listed(n) ==
    IF 4 + 2 * (NameLen[n] + 1) <= ReplySpace THEN Reply("name", 0, n)
    ELSE Plain("cut")

\* The n-th entry of the list, counted from its head.
List(p) ==
    /\ Recv(p, "list")
    /\ LET i == request[p].index + 1
       IN Answered(IF i \in DOMAIN svclist THEN Listed(svclist[i])
                   ELSE Plain("error"))
    /\ todo' = Tail(todo)
    /\ UNCHANGED <<procs, driver, buffer, request, answer, manager>>

Ping(p) ==
    /\ Recv(p, "ping")
    /\ Answered(Plain("empty"))
    /\ todo' = Tail(todo)
    /\ UNCHANGED <<procs, driver, buffer, request, answer, manager>>

Bad(p) ==
    /\ Recv(p, "bad")
    /\ Answered(Plain("error"))
    /\ todo' = Tail(todo)
    /\ UNCHANGED <<procs, driver, buffer, request, answer, manager>>

\* do_add_service's first guard.
Acceptable(h, n) == h # 0 /\ NameLen[n] # 0 /\ NameLen[n] <= 127

AddReject(p) ==
    /\ Recv(p, "add")
    /\ ~Acceptable(buffer[p], request[p].name)
    /\ Answered(Plain("error"))
    /\ todo' = Tail(todo)
    /\ UNCHANGED <<procs, driver, buffer, request, answer, manager>>

\* Mutant: an override that forgets to release the service it replaces.
AddExistingNoRelease(p) ==
    /\ Recv(p, "add")
    /\ Acceptable(buffer[p], request[p].name)
    /\ find_svc(request[p].name)
    /\ si_handle' = [si_handle EXCEPT ![request[p].name] = buffer[p]]
    /\ todo' = Tail(todo)
    /\ pc' = "acquire"
    /\ UNCHANGED <<procs, driver, buffer, request, answer, res, svclist, si_allow>>

\* Mutant: an override that returns before it acquires and watches the new one.
AddExistingEarly(p) ==
    /\ Recv(p, "add")
    /\ Acceptable(buffer[p], request[p].name)
    /\ find_svc(request[p].name)
    /\ binder_release(si_handle[request[p].name])
    /\ todo' = ReleaseFrom(Tail(todo), si_handle[request[p].name])
    /\ si_handle' = [si_handle EXCEPT ![request[p].name] = buffer[p]]
    /\ Answered(Plain("ok"))
    /\ UNCHANGED <<procs, buffer, request, answer, svclist, si_allow>>

\* The name has a svcinfo: its service, if it still has one, is released and
\* replaced.  allow_isolated keeps the value of the first registration.
AddExisting(p) ==
    /\ Recv(p, "add")
    /\ LET n == request[p].name IN
        /\ Acceptable(buffer[p], n)
        /\ find_svc(n)
        /\ binder_release(si_handle[n])
        /\ todo' = ReleaseFrom(Tail(todo), si_handle[n])
        /\ si_handle' = [si_handle EXCEPT ![n] = buffer[p]]
    /\ pc' = "acquire"
    /\ UNCHANGED <<procs, buffer, request, answer, res, svclist, si_allow>>

\* Mutant: si->next is not set.
AddNewUnlinked(p) ==
    /\ Recv(p, "add")
    /\ LET n == request[p].name IN
        /\ Acceptable(buffer[p], n)
        /\ ~find_svc(n)
        /\ svclist' = <<n>>
        /\ si_handle' = [si_handle EXCEPT ![n] = buffer[p]]
        /\ si_allow' = [si_allow EXCEPT ![n] = request[p].allow]
    /\ pc' = "acquire"
    /\ todo' = Tail(todo)
    /\ UNCHANGED <<procs, driver, buffer, request, answer, res>>

\* A new svcinfo at the head of the list.
AddNew(p) ==
    /\ Recv(p, "add")
    /\ LET n == request[p].name IN
        /\ Acceptable(buffer[p], n)
        /\ ~find_svc(n)
        /\ svclist' = <<n>> \o svclist
        /\ si_handle' = [si_handle EXCEPT ![n] = buffer[p]]
        /\ si_allow' = [si_allow EXCEPT ![n] = request[p].allow]
    /\ pc' = "acquire"
    /\ todo' = Tail(todo)
    /\ UNCHANGED <<procs, driver, buffer, request, answer, res>>

\* malloc returns NULL.
AddNoMemory(p) ==
    /\ Recv(p, "add")
    /\ Acceptable(buffer[p], request[p].name)
    /\ ~find_svc(request[p].name)
    /\ Answered(Plain("error"))
    /\ todo' = Tail(todo)
    /\ UNCHANGED <<procs, driver, buffer, request, answer, manager>>

\* binder_acquire(bs, handle)
Acquire ==
    /\ pc = "acquire"
    /\ IF ref_strong[buffer[cur]] > 0
       THEN ref_strong' = [ref_strong EXCEPT ![buffer[cur]] = @ + 1]
       ELSE UNCHANGED ref_strong
    /\ pc' = "link"
    /\ UNCHANGED <<procs, ref_node, ref_death, todo, buffer, request, answer,
                   cur, res, manager>>

\* binder_link_to_death(bs, handle, &si->death): the driver refuses a second
\* registration on a reference.  On a node that is already dead it queues the
\* notice to the calling thread, ahead of the process's queue.
Link ==
    /\ pc = "link"
    /\ LET h == buffer[cur] IN
        IF ref_node[h] = NoObj \/ ref_death[h] # NoName
        THEN UNCHANGED <<ref_death, todo>>
        ELSE /\ ref_death' = [ref_death EXCEPT ![h] = request[cur].name]
             /\ todo' = IF Owner[ref_node[h]] \in released
                        THEN <<Dead(h, request[cur].name)>> \o todo
                        ELSE todo
    /\ Answered(Plain("ok"))
    /\ UNCHANGED <<procs, ref_node, ref_strong, buffer, request, answer, cur,
                   manager>>

\* Mutant: svcinfo_death releases the handle and keeps it.
DeadBinderKeep ==
    /\ pc = "loop"
    /\ todo # <<>>
    /\ \E h \in Handle, n \in Names :
        /\ Head(todo) = Dead(h, n)
        /\ binder_release(si_handle[n])
        /\ todo' = ReleaseFrom(Tail(todo), si_handle[n])
    /\ UNCHANGED <<procs, buffer, request, answer, pc, cur, res, manager>>

\* BR_DEAD_BINDER: binder_parse calls svcinfo_death on the cookie.
DeadBinder ==
    /\ pc = "loop"
    /\ todo # <<>>
    /\ \E h \in Handle, n \in Names :
        /\ Head(todo) = Dead(h, n)
        /\ binder_release(si_handle[n])
        /\ todo' = ReleaseFrom(Tail(todo), si_handle[n])
        /\ si_handle' = [si_handle EXCEPT ![n] = 0]
    /\ UNCHANGED <<procs, buffer, request, answer, pc, cur, res, svclist,
                   si_allow>>

\* What reaches the caller: the driver turns a handle into the caller's own
\* reference to the object, and fails the reply if it does not know it.
Delivered(r) ==
    IF r.kind = "ref" /\ ref_node[r.handle] = NoObj
    THEN [NoAnswer EXCEPT !.kind = "failed"]
    ELSE [kind |-> r.kind,
          obj |-> IF r.kind = "ref" THEN ref_node[r.handle] ELSE NoObj,
          name |-> r.name]

\* binder_send_reply: BC_FREE_BUFFER drops the buffer's count, BC_REPLY
\* wakes the caller if it is still there.
SendReply ==
    /\ pc = "reply"
    /\ binder_release(buffer[cur])
    /\ todo' = ReleaseFrom(todo, buffer[cur])
    /\ buffer' = [buffer EXCEPT ![cur] = 0]
    /\ request' = [request EXCEPT ![cur] = NoCall]
    /\ answer' = IF cur \in alive
                 THEN [answer EXCEPT ![cur] = Delivered(res)]
                 ELSE answer
    /\ pc' = "loop"
    /\ cur' = NoProc
    /\ res' = Plain("empty")
    /\ UNCHANGED <<procs, manager>>

-----------------------------------------------------------------------------
Handler(p) ==
    \/ Find(p) \/ List(p) \/ Ping(p) \/ Bad(p)
    \/ AddReject(p) \/ AddExisting(p) \/ AddNew(p) \/ AddNoMemory(p)

Manager ==
    \/ \E p \in Procs : Handler(p)
    \/ Acquire \/ Link \/ DeadBinder \/ SendReply

Next ==
    \/ \E p \in Procs : SendAdd(p) \/ SendFind(p) \/ SendList(p)
                        \/ SendOther(p) \/ Die(p) \/ Release(p)
    \/ Manager

\* The manager's loop runs whenever it has work; the driver's deferred
\* clean-up of an exited process happens eventually.
Fairness ==
    /\ WF_vars(Manager)
    /\ \A p \in Procs : WF_vars(Release(p))

Spec == Init /\ [][Next]_vars /\ Fairness
-----------------------------------------------------------------------------
(* Properties.                                                             *)

\* Those who hold a strong count on h: each svcinfo with it and each
\* transaction buffer that carries it.
Holders(h) ==
    Cardinality({n \in Names : si_handle[n] = h})
    + Cardinality({p \in Procs : buffer[p] = h})

\* A svcinfo that has the handle but has not acquired it yet.
Unacquired(h) == IF pc = "acquire" /\ buffer[cur] = h THEN 1 ELSE 0

\* Every count the manager's binder_acquire, binder_release and buffer frees
\* leave in the driver belongs to a holder, so a handle in svclist always
\* names the object it was registered for, and an object nobody holds is let
\* go: no interleaving leaks a reference or drops one that is in use.
RefsMatchHolders ==
    \A h \in Handle : /\ ref_strong[h] + Unacquired(h) = Holders(h)
                      /\ (ref_node[h] = NoObj) <=> (ref_strong[h] = 0)

\* A service that is registered has a death notification on its own svcinfo,
\* and once the driver has seen its process exit the notice is on its way:
\* do_add_service's link_to_death is never lost to an exit in between.
EveryServiceWatched ==
    \A n \in Names :
        LET h == si_handle[n] IN
        h # 0 /\ ~(pc \in {"acquire", "link"} /\ buffer[cur] = h)
        => /\ ref_death[h] = n
           /\ Owner[ref_node[h]] \in released => Contains(todo, Dead(h, n))

\* A client lists the services with one call per index.  What do_add_service
\* and svcinfo_death do between two of its calls moves an entry to a larger
\* index or leaves it, so a pass from 0 upwards, which may see a name twice,
\* misses none that was there when it began.
PassMissesNone ==
    [][\A i \in DOMAIN svclist :
        \E j \in DOMAIN svclist' : j >= i /\ svclist'[j] = svclist[i]]_vars

\* The comment in do_find_service: a service that does not allow access from
\* isolated processes is not given to one.
IsolationRespected ==
    \A p \in Procs :
        Isolated(p) /\ answer[p].kind = "ref"
        => \E r \in Publish : r.obj = answer[p].obj /\ r.allow = 1

-----------------------------------------------------------------------------
(* The service manager implements the registry.                            *)

ObjOf(h) == IF h = 0 THEN NoObj ELSE ref_node[h]
Want(op, n, o) == [op |-> op, name |-> n, obj |-> o]

Abs == INSTANCE Registry WITH
    Wants <- [op : Ops \ {"none"}, name : Names \cup {NoName},
              obj : Objs \cup {NoObj}],
    NoWant <- Want("none", NoName, NoObj),
    Restricted <- {p \in Procs : Isolated(p)},
    table <- [n \in Names |-> ObjOf(si_handle[n])],
    want <- [p \in Procs |-> Want(request[p].op, request[p].name,
                                  ObjOf(buffer[p]))],
    granted <- {p \in Procs : /\ p = cur
                              /\ request[p].op = "add"
                              /\ pc \in {"acquire", "link"} \/ res.kind = "ok"},
    answer <- [p \in Procs |-> [ok |-> answer[p].kind \notin
                                        {"none", "error", "failed"},
                                obj |-> answer[p].obj]]

\* The manager with its handles, list and counts behaves as the table from
\* names to objects: a lookup answers with the object registered at that
\* moment, an entry disappears only when its owner is dead, every call is
\* answered and no dead service stays listed.
ImplementsRegistry == Abs!Spec
===============================================================================
