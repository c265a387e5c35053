----------------------------- MODULE HelloClients -----------------------------
(***************************************************************************)
(* The hello and goodbye services between languages: the test clients and  *)
(* servers of BinderServicemanager in C, C++ and Java, each from start to  *)
(* exit.  Any client may meet any server, since all register under the     *)
(* same names.                                                             *)
(*                                                                         *)
(* A client finds the service, takes a reference, sends a code and a       *)
(* parcel, and reads the reply as its own language does.  The C client     *)
(* does its own bookkeeping of handles; C++ and Java leave theirs to       *)
(* libbinder.  A server runs a call in one step: the interleavings inside  *)
(* a server are the subject of BinderPool, those inside the service        *)
(* manager of ServiceManager.                                              *)
(***************************************************************************)
EXTENDS Integers, FiniteSets, SequencesExt

CONSTANTS
    Clients,
    Names,          \* what the clients pass to sayhello_to and saygoodbye_to
    Starts,         \* bound: the languages and arguments each may start with
    MaxServers      \* bound: servers started

Languages == {"c", "cpp", "java"}
Services == {"hello", "goodbye"}
DESCRIPTOR == "IHelloService"

VARIABLES
    server,         \* the server of each language: "new", "hello", "up", "dead"
    table,          \* the service manager's list: whose object has the name
    cnt,            \* the servers' counters
    lang,           \* the language of each client
    ask,            \* what it was started for: [svc, fn, name]
    pc,
    want,           \* the service it looks up
    handle,         \* g_hellohandle and g_goodbyehandle
    refs,           \* driver: its descriptors, [node, strong, buf]
    target,         \* driver: who has the call
    reply,          \* the reply it reads: [kind, ints]
    result,         \* what the function returned: [kind, value]
    found,          \* history: the object each lookup returned
    ran             \* history: what the call ran: [svc, fn, name, count]

vars == <<server, table, cnt, lang, ask, pc, want, handle, refs, target, reply,
          result, found, ran>>
servers == <<server, table, cnt>>
started == <<lang, ask>>

NoNode == [lang |-> "none", svc |-> "none"]
Manager == [lang |-> "none", svc |-> "manager"]
Descs == 1..2
NoRef == [node |-> NoNode, strong |-> 0, buf |-> 0]

-----------------------------------------------------------------------------
(* Codes and parcels.                                                       *)

\* test_server.h
CCode == [say |-> 0, say_to |-> 1]
\* IHelloService.h and IGoodbyeService.h
HELLO_SVR_CMD == [say |-> 0, say_to |-> 1]
GOODBYE_SVR_CMD == [say |-> 0, say_to |-> 1]
\* IHelloService.java: FIRST_CALL_TRANSACTION is 1.
TRANSACTION == [say |-> 1, say_to |-> 2]

Message(code, parcel) == [code |-> code, parcel |-> parcel]

\* test_client.c: the strict mode header, then the name.
CRequest(a) ==
    Message(CCode[a.fn], IF a.fn = "say" THEN <<"policy">> ELSE <<"policy", a.name>>)

BpHelloService(a) ==
    Message(HELLO_SVR_CMD[a.fn],
            IF a.fn = "say" THEN <<"policy">> ELSE <<"policy", a.name>>)

BpGoodbyeService(a) ==
    Message(GOODBYE_SVR_CMD[a.fn],
            IF a.fn = "say" THEN <<"policy">> ELSE <<"policy", a.name>>)

\* writeInterfaceToken writes the policy and the descriptor.
Proxy(a) ==
    Message(TRANSACTION[a.fn],
            <<"policy", DESCRIPTOR>> \o IF a.fn = "say" THEN <<>> ELSE <<a.name>>)

RequestOf(l, a) ==
    CASE l = "c" -> CRequest(a)
      [] l = "cpp" /\ a.svc = "hello" -> BpHelloService(a)
      [] l = "cpp" /\ a.svc = "goodbye" -> BpGoodbyeService(a)
      [] l = "java" -> Proxy(a)

-----------------------------------------------------------------------------
(* The handlers: the function a message runs, its argument and the reply,   *)
(* in which the count may follow a fixed part; or a status.                 *)

Runs(fn, name, ints, counted) ==
    [kind |-> "data", fn |-> fn, name |-> name, ints |-> ints, counted |-> counted]
Nothing(kind, int) ==
    [kind |-> kind, fn |-> "none", name |-> "", ints |-> <<int>>, counted |-> FALSE]

UNKNOWN_TRANSACTION == -74
EX_SECURITY == -1

\* Item i of a parcel as a string, missing or empty at the end of it.
StringAt(parcel, i) == IF i <= Len(parcel) THEN parcel[i] ELSE ""

\* hello_service_handler and goodbye_service_handler of test_server.c.
CHandler(m) ==
    CASE m.code = CCode.say -> Runs("say", "", <<>>, FALSE)
      [] m.code = CCode.say_to ->
            IF Len(m.parcel) < 2 THEN Nothing("status", -1)
            ELSE Runs("say_to", m.parcel[2], <<>>, TRUE)
      [] OTHER -> Nothing("status", -1)

\* Mutant: the policy is not taken from the parcel first.
BnHelloServiceNoPolicy(m) ==
    CASE m.code = HELLO_SVR_CMD.say -> Runs("say", "", <<>>, FALSE)
      [] m.code = HELLO_SVR_CMD.say_to ->
            Runs("say_to", StringAt(m.parcel, 1), <<>>, TRUE)
      [] OTHER -> Nothing("status", UNKNOWN_TRANSACTION)

BnHelloService(m) ==
    CASE m.code = HELLO_SVR_CMD.say -> Runs("say", "", <<>>, FALSE)
      [] m.code = HELLO_SVR_CMD.say_to ->
            Runs("say_to", StringAt(m.parcel, 2), <<>>, TRUE)
      [] OTHER -> Nothing("status", UNKNOWN_TRANSACTION)

BnGoodbyeService(m) ==
    CASE m.code = GOODBYE_SVR_CMD.say -> Runs("say", "", <<>>, FALSE)
      [] m.code = GOODBYE_SVR_CMD.say_to ->
            Runs("say_to", StringAt(m.parcel, 2), <<>>, TRUE)
      [] OTHER -> Nothing("status", UNKNOWN_TRANSACTION)

\* Stub.onTransact: enforceInterface throws, and the exception is the reply.
Stub(m) ==
    IF m.code \notin {TRANSACTION.say, TRANSACTION.say_to}
    THEN Nothing("status", UNKNOWN_TRANSACTION)
    ELSE IF StringAt(m.parcel, 2) # DESCRIPTOR THEN Nothing("data", EX_SECURITY)
    ELSE IF m.code = TRANSACTION.say THEN Runs("say", "", <<0>>, FALSE)
    ELSE Runs("say_to", StringAt(m.parcel, 3), <<0>>, TRUE)

HandlerOf(node, m) ==
    CASE node.lang = "c" -> CHandler(m)
      [] node.lang = "cpp" /\ node.svc = "hello" -> BnHelloService(m)
      [] node.lang = "cpp" /\ node.svc = "goodbye" -> BnGoodbyeService(m)
      [] node.lang = "java" -> Stub(m)

\* A counter for each function; HelloService.java has one for both.
CounterOf(node, fn) ==
    IF node.lang = "java" THEN <<"java", "hello", "cnt">> ELSE <<node.lang, node.svc, fn>>
Counters ==
    ({"c", "cpp"} \X Services \X {"say", "say_to"}) \cup {<<"java", "hello", "cnt">>}

\* Mutant: the count is incremented in the log and again in the return.
CountedTwice(n) == n + 2

Counted(n) == n + 1

-----------------------------------------------------------------------------
(* How each language reads a reply to a function with a result.             *)

Value(v) == [kind |-> "value", value |-> v]
Exception == [kind |-> "exception", value |-> 0]
NoResult == [kind |-> "none", value |-> 0]

\* The int that comes next, 0 at the end of the data.
IntAt(r, i) == IF i <= Len(r.ints) THEN r.ints[i] ELSE 0

\* sayhello_to of test_client.c: a status is read like a result.
CRead(r) == IF r.kind = "dead" THEN Value(0) ELSE Value(IntAt(r, 1))

\* BpHelloService: the status of transact is not looked at, and a reply with
\* an error has no data.
BpRead(r) == IF r.kind = "data" THEN Value(IntAt(r, 1)) ELSE Value(0)

\* Mutant: the result is read from the front of the reply.
ProxyReadFirst(r) ==
    CASE r.kind = "data" -> Value(IntAt(r, 1))
      [] r.kind = "status" /\ r.ints[1] = UNKNOWN_TRANSACTION -> Value(0)
      [] OTHER -> Exception

\* Proxy.sayhello_to: transact throws but for UNKNOWN_TRANSACTION, where it
\* returns FALSE with an empty reply.
ProxyRead(r) ==
    CASE r.kind = "data" -> IF IntAt(r, 1) = 0 THEN Value(IntAt(r, 2)) ELSE Exception
      [] r.kind = "status" /\ r.ints[1] = UNKNOWN_TRANSACTION -> Value(0)
      [] OTHER -> Exception

ReadOf(l, r) ==
    CASE l = "c" -> CRead(r)
      [] l = "cpp" -> BpRead(r)
      [] l = "java" -> ProxyRead(r)

-----------------------------------------------------------------------------
\* test_client hello|goodbye [name]; TestClient knows hello only.
Asks(l) ==
    [svc : IF l = "java" THEN {"hello"} ELSE Services, fn : {"say"}, name : {""}]
    \cup [svc : IF l = "java" THEN {"hello"} ELSE Services, fn : {"say_to"}, name : Names]

Invocations == UNION {{<<l, a>> : a \in Asks(l)} : l \in Languages}

ASSUME ClientsAssumption ==
    /\ IsFiniteSet(Clients)
    /\ Starts \in [Clients -> SUBSET Invocations]
    /\ MaxServers \in Nat

Init ==
    /\ server = [l \in Languages |-> "new"]
    /\ table = [s \in Services |-> "none"]
    /\ cnt = [k \in Counters |-> 0]
    /\ lang \in [Clients -> Languages]
    /\ ask \in [Clients -> Asks("c")]
    /\ \A c \in Clients : <<lang[c], ask[c]>> \in Starts[c]
    /\ pc = [c \in Clients |-> IF lang[c] = "c" THEN "open" ELSE "find"]
    /\ want = [c \in Clients |-> IF lang[c] = "c" THEN "goodbye" ELSE ask[c].svc]
    /\ handle = [c \in Clients |-> [s \in Services |-> 0]]
    /\ refs = [c \in Clients |-> [d \in Descs |-> NoRef]]
    /\ target = [c \in Clients |-> NoNode]
    /\ reply = [c \in Clients |-> [kind |-> "none", ints |-> <<>>]]
    /\ result = [c \in Clients |-> NoResult]
    /\ found = [c \in Clients |-> [s \in Services |-> NoNode]]
    /\ ran = [c \in Clients |-> <<>>]

-----------------------------------------------------------------------------
(* The servers.                                                             *)

\* main of test_server.c and test_server.cpp: hello, then goodbye, then the
\* loop.  TestServer adds hello; its binder threads run already.
Publish(l) ==
    /\ server[l] \in {"new", "hello"}
    /\ server[l] = "new" => Cardinality({k \in Languages : server[k] # "new"}) < MaxServers
    /\ IF server[l] = "new"
       THEN /\ table' = [table EXCEPT !["hello"] = l]
            /\ server' = [server EXCEPT ![l] = IF l = "java" THEN "up" ELSE "hello"]
       ELSE /\ table' = [table EXCEPT !["goodbye"] = l]
            /\ server' = [server EXCEPT ![l] = "up"]
    /\ UNCHANGED <<cnt, started, pc, want, handle, refs, target, reply, result,
                   found, ran>>

ServerExit(l) ==
    /\ server[l] \in {"hello", "up"}
    /\ server' = [server EXCEPT ![l] = "dead"]
    /\ UNCHANGED <<table, cnt, started, pc, want, handle, refs, target, reply,
                   result, found, ran>>

\* The service manager learns of the death of name s's server; each name has a
\* notice of its own.
Forget(s) ==
    /\ table[s] # "none"
    /\ server[table[s]] = "dead"
    /\ table' = [table EXCEPT ![s] = "none"]
    /\ UNCHANGED <<server, cnt, started, pc, want, handle, refs, target, reply,
                   result, found, ran>>

\* A server runs the call of client c and replies.
Serve(c) ==
    LET node == target[c]
        out == HandlerOf(node, RequestOf(lang[c], ask[c]))
        k == CounterOf(node, out.fn)
        n == Counted(cnt[k])
    IN  /\ pc[c] = "waiting"
        /\ node.lang \in Languages
        /\ server[node.lang] = "up"
        /\ IF out.fn = "none"
           THEN UNCHANGED <<cnt, ran>>
           ELSE /\ cnt' = [cnt EXCEPT ![k] = n]
                /\ ran' = [ran EXCEPT ![c] = Append(@,
                        [svc |-> node.svc, fn |-> out.fn, name |-> out.name, count |-> n])]
        /\ reply' = [reply EXCEPT ![c] =
                [kind |-> out.kind,
                 ints |-> IF out.counted THEN Append(out.ints, n) ELSE out.ints]]
        /\ pc' = [pc EXCEPT ![c] = "replied"]
        /\ UNCHANGED <<server, table, started, want, handle, refs, target,
                       result, found>>

\* svcmgr_handler refuses both codes: the name is not its own.
Refuse(c) ==
    /\ pc[c] = "waiting"
    /\ target[c] = Manager
    /\ reply' = [reply EXCEPT ![c] = [kind |-> "status", ints |-> <<-1>>]]
    /\ pc' = [pc EXCEPT ![c] = "replied"]
    /\ UNCHANGED <<servers, started, want, handle, refs, target, result, found, ran>>

\* Mutant: binder_parse does not take it for an answer, and the read goes on.
DeadReplyLost(c) ==
    /\ pc[c] = "waiting"
    /\ \/ target[c] = NoNode
       \/ target[c].lang \in Languages /\ server[target[c].lang] = "dead"
    /\ UNCHANGED vars

\* BR_DEAD_REPLY, or BR_FAILED_REPLY for a descriptor that is not there.
DeadReply(c) ==
    /\ pc[c] = "waiting"
    /\ \/ target[c] = NoNode
       \/ target[c].lang \in Languages /\ server[target[c].lang] = "dead"
    /\ reply' = [reply EXCEPT ![c] = [kind |-> "dead", ints |-> <<>>]]
    /\ pc' = [pc EXCEPT ![c] = "replied"]
    /\ UNCHANGED <<servers, started, want, handle, refs, target, result, found, ran>>

-----------------------------------------------------------------------------
(* The clients.                                                             *)

\* The descriptor of a node in a client: the one it has, or the lowest free.
DescFor(c, node) ==
    LET has == {d \in Descs : refs[c][d].node = node}
        free == {d \in Descs : refs[c][d].node = NoNode}
    IN  CHOOSE d \in IF has # {} THEN has ELSE free :
            \A e \in IF has # {} THEN has ELSE free : d <= e

\* A descriptor goes away with its last reference.
Kept(r) == IF r.strong + r.buf = 0 THEN NoRef ELSE r

\* binder_open: without memory, the device, its version or the mapping main
\* returns at once.
BinderOpen(c) ==
    /\ pc[c] = "open"
    /\ \E next \in {"find", "exit"} : pc' = [pc EXCEPT ![c] = next]
    /\ UNCHANGED <<servers, started, want, handle, refs, target, reply, result,
                   found, ran>>

\* svcmgr_lookup, binder_call: the reply's buffer holds a reference.
Find(c) ==
    LET s == want[c]
        node == [lang |-> table[s], svc |-> s]
        d == DescFor(c, node)
    IN  /\ pc[c] = "find"
        /\ lang[c] = "c"
        /\ IF table[s] = "none"
           THEN UNCHANGED <<handle, refs, found>>
           ELSE /\ handle' = [handle EXCEPT ![c][s] = d]
                /\ refs' = [refs EXCEPT ![c][d] =
                        [node |-> node, strong |-> @.strong, buf |-> @.buf + 1]]
                /\ found' = [found EXCEPT ![c][s] = node]
        /\ pc' = [pc EXCEPT ![c] = "acquire"]
        /\ UNCHANGED <<servers, started, want, target, reply, result, ran>>

\* Mutant: the reply is freed without a reference of the client's own.
AcquireNot(c) ==
    /\ pc[c] = "acquire"
    /\ UNCHANGED refs
    /\ pc' = [pc EXCEPT ![c] = "done"]
    /\ UNCHANGED <<servers, started, want, handle, target, reply, result, found, ran>>

\* if (handle) binder_acquire
Acquire(c) ==
    LET d == handle[c][want[c]] IN
    /\ pc[c] = "acquire"
    /\ refs' = IF d = 0 THEN refs ELSE [refs EXCEPT ![c][d].strong = @ + 1]
    /\ pc' = [pc EXCEPT ![c] = "done"]
    /\ UNCHANGED <<servers, started, want, handle, target, reply, result, found, ran>>

\* binder_done frees the reply; then main looks up hello, and calls or gives
\* up when that is not there.
Done(c) ==
    LET s == want[c]
        d == handle[c][s]
    IN  /\ pc[c] = "done"
        /\ refs' = IF d = 0 THEN refs
                   ELSE [refs EXCEPT ![c][d] = Kept([@ EXCEPT !.buf = 0])]
        /\ IF s = "goodbye"
           THEN /\ want' = [want EXCEPT ![c] = "hello"]
                /\ pc' = [pc EXCEPT ![c] = "find"]
           ELSE /\ pc' = [pc EXCEPT ![c] = IF d = 0 THEN "exit" ELSE "call"]
                /\ UNCHANGED want
        /\ UNCHANGED <<servers, started, handle, target, reply, result, found, ran>>

\* getService in C++ and Java, with a reference of libbinder's; its retries are
\* the delay before this step.  Without the service the client exits.
GetService(c) ==
    LET s == want[c]
        node == [lang |-> table[s], svc |-> s]
    IN  /\ pc[c] = "find"
        /\ lang[c] # "c"
        /\ IF table[s] = "none"
           THEN /\ pc' = [pc EXCEPT ![c] = "exit"]
                /\ UNCHANGED <<handle, refs, found>>
           ELSE /\ handle' = [handle EXCEPT ![c][s] = 1]
                /\ refs' = [refs EXCEPT ![c][1] =
                        [node |-> node, strong |-> 1, buf |-> 0]]
                /\ found' = [found EXCEPT ![c][s] = node]
                /\ pc' = [pc EXCEPT ![c] = "call"]
        /\ UNCHANGED <<servers, started, want, target, reply, result, ran>>

\* binder_call: handle 0 is the service manager.
Call(c) ==
    LET d == handle[c][ask[c].svc] IN
    /\ pc[c] = "call"
    /\ target' = [target EXCEPT ![c] = IF d = 0 THEN Manager ELSE refs[c][d].node]
    /\ pc' = [pc EXCEPT ![c] = "waiting"]
    /\ UNCHANGED <<servers, started, want, handle, refs, reply, result, found, ran>>

\* The function returns.
Return(c) ==
    /\ pc[c] = "replied"
    /\ result' = [result EXCEPT ![c] =
            IF ask[c].fn = "say" THEN NoResult ELSE ReadOf(lang[c], reply[c])]
    /\ pc' = [pc EXCEPT ![c] = "release"]
    /\ UNCHANGED <<servers, started, want, handle, refs, target, reply, found, ran>>

\* binder_release of the last handle looked up, and exit.
Release(c) ==
    LET d == handle[c][want[c]]
        r == refs[c][d]
    IN  /\ pc[c] = "release"
        /\ refs' = [refs EXCEPT ![c][d] = Kept([r EXCEPT !.strong = r.strong - 1])]
        /\ pc' = [pc EXCEPT ![c] = "exit"]
        /\ UNCHANGED <<servers, started, want, handle, target, reply, result, found, ran>>

-----------------------------------------------------------------------------
ClientStep(c) ==
    \/ BinderOpen(c) \/ Find(c) \/ Acquire(c) \/ Done(c) \/ GetService(c)
    \/ Call(c) \/ Return(c) \/ Release(c)

Next ==
    \/ \E l \in Languages : Publish(l) \/ ServerExit(l)
    \/ \E s \in Services : Forget(s)
    \/ \E c \in Clients : ClientStep(c) \/ Serve(c) \/ Refuse(c) \/ DeadReply(c)

\* Every process runs on until it exits, and the driver fails the calls to
\* one that has.  No server has to start or to exit.
Spec ==
    /\ Init /\ [][Next]_vars
    /\ \A c \in Clients :
        WF_vars(ClientStep(c)) /\ WF_vars(Serve(c) \/ Refuse(c) \/ DeadReply(c))
    /\ \A l \in Languages : WF_vars(server[l] = "hello" /\ Publish(l))
-----------------------------------------------------------------------------
(* Properties.                                                              *)

Nodes == [lang : Languages, svc : Services]

\* Types; a count is never more than the calls that were made, and the only
\* negative results are those of a refused call.
TypeOK ==
    /\ server \in [Languages -> {"new", "hello", "up", "dead"}]
    /\ table \in [Services -> Languages \cup {"none"}]
    /\ cnt \in [Counters -> 0..Cardinality(Clients)]
    /\ lang \in [Clients -> Languages]
    /\ \A c \in Clients : <<lang[c], ask[c]>> \in Starts[c]
    /\ pc \in [Clients -> {"open", "find", "acquire", "done", "call",
                           "waiting", "replied", "release", "exit"}]
    /\ want \in [Clients -> Services]
    /\ handle \in [Clients -> [Services -> Descs \cup {0}]]
    /\ \A c \in Clients : \A d \in Descs :
        /\ refs[c][d].node \in Nodes \cup {NoNode}
        /\ refs[c][d].strong \in 0..1 /\ refs[c][d].buf \in 0..1
    /\ target \in [Clients -> Nodes \cup {NoNode, Manager}]
    /\ \A c \in Clients :
        /\ reply[c].kind \in {"none", "data", "status", "dead"}
        /\ result[c] \in [kind : {"none", "value", "exception"},
                          value : -1..Cardinality(Clients)]
        /\ Len(ran[c]) <= 1

\* From its lookup to its release, a handle names the object the service
\* manager gave for it: no reference is dropped early, so that the driver
\* would hand the number of goodbye to hello.  A client that exits keeps no
\* reply and none but the goodbye handle, which main never releases.
HandlesHeld ==
    \A c \in Clients :
        /\ \A s \in Services :
            /\ handle[c][s] # 0
            /\ pc[c] = "exit" => s # want[c]
            => refs[c][handle[c][s]].node = found[c][s]
        /\ pc[c] \in {"call", "waiting", "replied", "release", "exit"} =>
            \A d \in Descs : refs[c][d].buf = 0
        /\ pc[c] = "exit" =>
            \A d \in Descs : refs[c][d] # NoRef =>
                lang[c] = "c" /\ refs[c][d].node.svc = "goodbye"

\* What the call of a client that is through with it was.
Asked(c, n) == [svc |-> ask[c].svc, fn |-> ask[c].fn, name |-> ask[c].name, count |-> n]

Mix == {{"c"}, {"cpp"}, {"c", "cpp"}, {"java"}}

\* C and C++ programs understand each other, and Java programs among
\* themselves (cpp/readme.txt: test_server in C++ and test_client in C are
\* interchangeable, and the reverse): a call that a live server answered ran
\* the function asked for, once and with the name given, and returned its count.
Interchangeable ==
    \A c \in Clients :
        pc[c] \in {"release", "exit"} /\ {lang[c], target[c].lang} \in Mix
            /\ reply[c].kind # "dead" =>
                /\ Len(ran[c]) = 1
                /\ ran[c] = <<Asked(c, ran[c][1].count)>>
                /\ ask[c].fn = "say_to" => result[c] = Value(ran[c][1].count)

\* Between any two languages, whatever the codes mean on the other side: a
\* client that reports a positive count got it from the function it asked for,
\* for the name it gave.  No status, exception, lost reply or answer of the
\* service manager is taken for a count.
CountsGenuine ==
    \A c \in Clients :
        result[c].value > 0 => ran[c] = <<Asked(c, result[c].value)>>

\* Every client exits, whether the services are there, missing, replaced or
\* die during its call.
ClientsExit == \A c \in Clients : <>(pc[c] = "exit")
===============================================================================
