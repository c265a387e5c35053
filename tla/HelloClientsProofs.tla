--------------------------- MODULE HelloClientsProofs ---------------------------
(***************************************************************************)
(* Proofs about HelloClients, for any number of clients with any names and *)
(* any number of servers: the clients' handles, their counts, and which    *)
(* languages understand each other.                                        *)
(*                                                                         *)
(* What a client goes through is stated by operators on its own values, so *)
(* that the steps of the others leave it alone at once.                    *)
(***************************************************************************)
EXTENDS HelloClients, FiniteSetTheorems, SequenceTheorems, TLAPS

-----------------------------------------------------------------------------
(* The invariant.                                                          *)

PCs == {"open", "find", "acquire", "done", "call", "waiting", "replied", "release",
        "exit"}
After == {"replied", "release", "exit"}
Ref == [node : Nodes \cup {NoNode}, strong : 0..1, buf : 0..1]
NoReply == [kind |-> "none", ints |-> <<>>]

Types ==
    /\ server \in [Languages -> {"new", "hello", "up", "dead"}]
    /\ table \in [Services -> Languages \cup {"none"}]
    /\ cnt \in [Counters -> Nat]
    /\ lang \in [Clients -> Languages]
    /\ ask \in [Clients -> Asks("c")]
    /\ \A c \in Clients : <<lang[c], ask[c]>> \in Starts[c]
    /\ pc \in [Clients -> PCs]
    /\ want \in [Clients -> Services]
    /\ handle \in [Clients -> [Services -> Descs \cup {0}]]
    /\ refs \in [Clients -> [Descs -> Ref]]
    /\ target \in [Clients -> Nodes \cup {NoNode, Manager}]
    /\ found \in [Clients -> [Services -> Nodes \cup {NoNode}]]
    /\ DOMAIN reply = Clients /\ DOMAIN result = Clients /\ DOMAIN ran = Clients

\* The reference behind the handle for s, with the client at p in the lookup of
\* w: the reply's from the lookup to binder_done, the client's own from
\* binder_acquire to binder_release.
RefOf(p, w, f, s) ==
    IF p = "exit" /\ w = s THEN NoRef
    ELSE [node |-> f[s],
          strong |-> IF p = "acquire" /\ w = s THEN 0 ELSE 1,
          buf |-> IF p \in {"acquire", "done"} /\ w = s THEN 1 ELSE 0]

\* The handles h and descriptors r of a client.  Goodbye, which is looked up
\* first, has descriptor 1 if any, and hello the next.
Handles(l, a, p, w, h, r, f) ==
    /\ h["goodbye"] \in {0, 1}
    /\ h["hello"] # 0 => h["hello"] = h["goodbye"] + 1
    /\ w = "goodbye" => h["hello"] = 0
    /\ p \in {"open", "find"} => h[w] = 0
    /\ p \in {"call", "waiting", "replied", "release"} => h[w] # 0
    /\ \A s \in Services : h[s] # 0 =>
        /\ f[s] \in Nodes /\ f[s].svc = s
        /\ r[h[s]] = RefOf(p, w, f, s)
    /\ \A d \in Descs : (\A s \in Services : h[s] # d) => r[d] = NoRef
    /\ l # "c" =>
        /\ p \notin {"open", "acquire", "done"} /\ w = a.svc
        /\ w = "hello" => h["goodbye"] = 0
HandlesInv ==
    \A c \in Clients :
        Handles(lang[c], ask[c], pc[c], want[c], handle[c], refs[c], found[c])

\* The answers to a call: none from a dead server, a refusal from the service
\* manager, or what the handler makes of the request, with some count n.
Ran(l, a, t) == HandlerOf(t, RequestOf(l, a))
ReplyWith(out, n) ==
    [kind |-> out.kind, ints |-> IF out.counted THEN Append(out.ints, n) ELSE out.ints]
RanWith(out, t, n) ==
    IF out.fn = "none" THEN <<>>
    ELSE <<[svc |-> t.svc, fn |-> out.fn, name |-> out.name, count |-> n]>>
Answered(l, a, t, rp, rn, max) ==
    \/ t \in Nodes /\ rp = [kind |-> "dead", ints |-> <<>>] /\ rn = <<>>
    \/ t = Manager /\ rp = [kind |-> "status", ints |-> <<-1>>] /\ rn = <<>>
    \/ /\ t \in Nodes /\ t.svc = a.svc
       /\ \E n \in 1..max : rp = ReplyWith(Ran(l, a, t), n) /\ rn = RanWith(Ran(l, a, t), t, n)

\* The call of a client: not yet made, under way, or answered.
Called(l, a, p, t, rp, rs, rn, max) ==
    \/ /\ p \in PCs \ {"waiting", "replied", "release"} /\ t = NoNode
       /\ rp = NoReply /\ rs = NoResult /\ rn = <<>>
    \/ /\ p = "waiting"
       /\ t = Manager \/ (t \in Nodes /\ t.svc = a.svc)
       /\ rp = NoReply /\ rs = NoResult /\ rn = <<>>
    \/ /\ p \in After
       /\ Answered(l, a, t, rp, rn, max)
       /\ rs = IF p = "replied" \/ a.fn = "say" THEN NoResult ELSE ReadOf(l, rp)
CallsInv ==
    \A c \in Clients :
        Called(lang[c], ask[c], pc[c], target[c], reply[c], result[c], ran[c],
               Cardinality(Clients))

\* A counter has counted no more than the clients that are past their call.
PastCall == {c \in Clients : pc[c] \in After}
CountInv == \A k \in Counters : cnt[k] \in Nat /\ cnt[k] <= Cardinality(PastCall)

ClientsInv == Types /\ HandlesInv /\ CallsInv /\ CountInv
-----------------------------------------------------------------------------
(* Requests, handlers and replies between the languages.                   *)

Natives == {"c", "cpp"}

\* What a client can be started for.
LEMMA AskFacts ==
    ASSUME NEW a \in Asks("c")
    PROVE  /\ a.svc \in Services /\ a.fn \in {"say", "say_to"}
           /\ a.fn = "say" => a.name = ""
  BY DEF Asks, Services

\* The C and C++ clients send the same: the policy, and the name if any.
LEMMA NativeRequest ==
    ASSUME NEW l \in Natives, NEW a \in Asks("c")
    PROVE  LET m == RequestOf(l, a)
           IN  IF a.fn = "say" THEN m.code = 0 /\ m.parcel = <<"policy">>
               ELSE m.code = 1 /\ m.parcel = <<"policy", a.name>>
  <1>0. a.svc \in {"hello", "goodbye"} /\ a.fn \in {"say", "say_to"}
    BY AskFacts DEF Services
  <1>1. RequestOf(l, a) \in {CRequest(a), BpHelloService(a), BpGoodbyeService(a)}
    BY <1>0 DEF RequestOf, Natives
  <1>2. /\ CCode.say = 0 /\ CCode.say_to = 1
        /\ HELLO_SVR_CMD.say = 0 /\ HELLO_SVR_CMD.say_to = 1
        /\ GOODBYE_SVR_CMD.say = 0 /\ GOODBYE_SVR_CMD.say_to = 1
    BY DEF CCode, HELLO_SVR_CMD, GOODBYE_SVR_CMD
  <1>3. CASE a.fn = "say"
    <2>1. RequestOf(l, a) = [code |-> 0, parcel |-> <<"policy">>]
      BY <1>1, <1>3 DEF CRequest, BpHelloService, BpGoodbyeService, Message, CCode,
            HELLO_SVR_CMD, GOODBYE_SVR_CMD
    <2> QED BY <1>3, <2>1
  <1>4. CASE a.fn = "say_to"
    <2>1. RequestOf(l, a) = [code |-> 1, parcel |-> <<"policy", a.name>>]
      BY <1>1, <1>4 DEF CRequest, BpHelloService, BpGoodbyeService, Message, CCode,
            HELLO_SVR_CMD, GOODBYE_SVR_CMD
    <2> QED BY <1>4, <2>1
  <1> QED BY <1>0, <1>3, <1>4

\* The Java client sends the policy and the descriptor first, with codes one
\* higher.
LEMMA JavaRequest ==
    ASSUME NEW a \in Asks("c")
    PROVE  LET m == RequestOf("java", a)
           IN  IF a.fn = "say" THEN m.code = 1 /\ m.parcel = <<"policy", DESCRIPTOR>>
               ELSE /\ m.code = 2 /\ Len(m.parcel) = 3
                    /\ m.parcel[2] = DESCRIPTOR /\ m.parcel[3] = a.name
  <1>0. a.fn \in {"say", "say_to"}
    BY AskFacts
  <1>1. RequestOf("java", a) = Proxy(a)
    BY DEF RequestOf
  <1>2. CASE a.fn = "say"
    <2>1. <<"policy", DESCRIPTOR>> \o <<>> = <<"policy", DESCRIPTOR>>
      OBVIOUS
    <2>2. RequestOf("java", a) = [code |-> 1, parcel |-> <<"policy", DESCRIPTOR>>]
      BY <1>1, <1>2, <2>1 DEF Proxy, Message, TRANSACTION
    <2> QED BY <1>2, <2>2
  <1>3. CASE a.fn = "say_to"
    <2> DEFINE q == <<"policy", DESCRIPTOR>> \o <<a.name>>
    <2>1. Len(q) = 3 /\ q[2] = DESCRIPTOR /\ q[3] = a.name
      OBVIOUS
    <2>2. RequestOf("java", a) = [code |-> 2, parcel |-> q]
      BY <1>1, <1>3 DEF Proxy, Message, TRANSACTION
    <2> HIDE DEF q
    <2> QED BY <1>3, <2>1, <2>2
  <1> QED BY <1>0, <1>2, <1>3

\* The codes of the three languages.
LEMMA CodeFacts ==
    /\ CCode.say = 0 /\ CCode.say_to = 1
    /\ HELLO_SVR_CMD.say = 0 /\ HELLO_SVR_CMD.say_to = 1
    /\ GOODBYE_SVR_CMD.say = 0 /\ GOODBYE_SVR_CMD.say_to = 1
    /\ TRANSACTION.say = 1 /\ TRANSACTION.say_to = 2
  BY DEF CCode, HELLO_SVR_CMD, GOODBYE_SVR_CMD, TRANSACTION

\* What the C and C++ handlers make of a message, by its code.
LEMMA NativeHandlers ==
    ASSUME NEW m, NEW out \in {CHandler(m), BnHelloService(m), BnGoodbyeService(m)}
    PROVE  /\ m.code = 0 => out = Runs("say", "", <<>>, FALSE)
           /\ m.code = 1 /\ Len(m.parcel) = 2 => out = Runs("say_to", m.parcel[2], <<>>, TRUE)
           /\ m.code = 2 => out \in {Nothing("status", -1), Nothing("status", UNKNOWN_TRANSACTION)}
  <1>1. ASSUME m.code = 0 PROVE out = Runs("say", "", <<>>, FALSE)
    <2>c. /\ m.code = CCode.say /\ m.code # CCode.say_to
          /\ m.code = HELLO_SVR_CMD.say /\ m.code # HELLO_SVR_CMD.say_to
          /\ m.code = GOODBYE_SVR_CMD.say /\ m.code # GOODBYE_SVR_CMD.say_to
      BY <1>1, CodeFacts
    <2>1. CHandler(m) = Runs("say", "", <<>>, FALSE)
      BY <2>c, Zenon DEF CHandler
    <2>2. BnHelloService(m) = Runs("say", "", <<>>, FALSE)
      BY <2>c, Zenon DEF BnHelloService
    <2>3. BnGoodbyeService(m) = Runs("say", "", <<>>, FALSE)
      BY <2>c, Zenon DEF BnGoodbyeService
    <2> QED BY <2>1, <2>2, <2>3
  <1>2. ASSUME m.code = 1, Len(m.parcel) = 2 PROVE out = Runs("say_to", m.parcel[2], <<>>, TRUE)
    <2>0. StringAt(m.parcel, 2) = m.parcel[2]
      BY <1>2 DEF StringAt
    <2>c. /\ m.code # CCode.say /\ m.code = CCode.say_to
          /\ m.code # HELLO_SVR_CMD.say /\ m.code = HELLO_SVR_CMD.say_to
          /\ m.code # GOODBYE_SVR_CMD.say /\ m.code = GOODBYE_SVR_CMD.say_to
          /\ ~(Len(m.parcel) < 2)
      BY <1>2, CodeFacts
    <2>1. CHandler(m) = Runs("say_to", m.parcel[2], <<>>, TRUE)
      BY <2>c, Zenon DEF CHandler
    <2>2. BnHelloService(m) = Runs("say_to", m.parcel[2], <<>>, TRUE)
      BY <2>0, <2>c, Zenon DEF BnHelloService
    <2>3. BnGoodbyeService(m) = Runs("say_to", m.parcel[2], <<>>, TRUE)
      BY <2>0, <2>c, Zenon DEF BnGoodbyeService
    <2> QED BY <2>1, <2>2, <2>3
  <1>3. ASSUME m.code = 2
        PROVE  out \in {Nothing("status", -1), Nothing("status", UNKNOWN_TRANSACTION)}
    <2>c. /\ m.code # CCode.say /\ m.code # CCode.say_to
          /\ m.code # HELLO_SVR_CMD.say /\ m.code # HELLO_SVR_CMD.say_to
          /\ m.code # GOODBYE_SVR_CMD.say /\ m.code # GOODBYE_SVR_CMD.say_to
      BY <1>3, CodeFacts
    <2>1. CHandler(m) = Nothing("status", -1)
      BY <2>c, Zenon DEF CHandler
    <2>2. BnHelloService(m) = Nothing("status", UNKNOWN_TRANSACTION)
      BY <2>c, Zenon DEF BnHelloService
    <2>3. BnGoodbyeService(m) = Nothing("status", UNKNOWN_TRANSACTION)
      BY <2>c, Zenon DEF BnGoodbyeService
    <2> QED BY <2>1, <2>2, <2>3
  <1> QED BY <1>1, <1>2, <1>3

\* C and C++ serve C and C++: the function asked for, with the name given.
LEMMA NativeToNative ==
    ASSUME NEW l \in Natives, NEW a \in Asks("c"), NEW t \in Nodes, t.lang \in Natives
    PROVE  Ran(l, a, t) = Runs(a.fn, a.name, <<>>, a.fn = "say_to")
  <1> DEFINE m == RequestOf(l, a)
  <1>0. /\ a.fn \in {"say", "say_to"} /\ (a.fn = "say" => a.name = "")
        /\ t.svc \in {"hello", "goodbye"}
    BY AskFacts DEF Nodes, Services
  <1>1. IF a.fn = "say" THEN m.code = 0 /\ m.parcel = <<"policy">>
        ELSE m.code = 1 /\ m.parcel = <<"policy", a.name>>
    BY NativeRequest
  <1> HIDE DEF m
  <1>2. HandlerOf(t, m) \in {CHandler(m), BnHelloService(m), BnGoodbyeService(m)}
    BY <1>0 DEF HandlerOf, Natives
  <1>3. CASE a.fn = "say"
    <2>1. m.code = 0
      BY <1>1, <1>3
    <2>2. HandlerOf(t, m) = Runs("say", "", <<>>, FALSE)
      BY <1>2, <2>1, NativeHandlers
    <2>3. (a.fn = "say_to") = FALSE
      BY <1>3
    <2> QED BY <1>0, <1>3, <2>2, <2>3 DEF Ran, m
  <1>4. CASE a.fn = "say_to"
    <2>1. m.code = 1 /\ Len(m.parcel) = 2 /\ m.parcel[2] = a.name
      BY <1>1, <1>4
    <2>3. HandlerOf(t, m) = Runs("say_to", a.name, <<>>, TRUE)
      BY <1>2, <2>1, NativeHandlers
    <2>4. (a.fn = "say_to") = TRUE
      BY <1>4
    <2> QED BY <1>4, <2>3, <2>4 DEF Ran, m
  <1> QED BY <1>0, <1>3, <1>4

\* Java serves Java.
LEMMA JavaToJava ==
    ASSUME NEW a \in Asks("c"), NEW t \in Nodes, t.lang = "java"
    PROVE  Ran("java", a, t) = Runs(a.fn, a.name, <<0>>, a.fn = "say_to")
  <1> DEFINE m == RequestOf("java", a)
  <1>0. a.fn \in {"say", "say_to"} /\ (a.fn = "say" => a.name = "")
    BY AskFacts
  <1>1. IF a.fn = "say" THEN m.code = 1 /\ m.parcel = <<"policy", DESCRIPTOR>>
        ELSE /\ m.code = 2 /\ Len(m.parcel) = 3
             /\ m.parcel[2] = DESCRIPTOR /\ m.parcel[3] = a.name
    BY JavaRequest
  <1> HIDE DEF m
  <1>2. HandlerOf(t, m) = Stub(m)
    BY DEF HandlerOf
  <1>3. CASE a.fn = "say"
    <2>1. m.code = 1 /\ Len(m.parcel) = 2 /\ m.parcel[2] = DESCRIPTOR
      BY <1>1, <1>3
    <2>2. StringAt(m.parcel, 2) = DESCRIPTOR
      BY <2>1 DEF StringAt
    <2>3. Stub(m) = Runs("say", "", <<0>>, FALSE)
      BY <2>1, <2>2, CodeFacts DEF Stub
    <2>4. (a.fn = "say_to") = FALSE
      BY <1>3
    <2> QED BY <1>0, <1>2, <1>3, <2>3, <2>4 DEF Ran, m
  <1>4. CASE a.fn = "say_to"
    <2>1. m.code = 2 /\ Len(m.parcel) = 3 /\ m.parcel[2] = DESCRIPTOR /\ m.parcel[3] = a.name
      BY <1>1, <1>4
    <2>2. StringAt(m.parcel, 2) = DESCRIPTOR /\ StringAt(m.parcel, 3) = a.name
      BY <2>1 DEF StringAt
    <2>c. m.code # TRANSACTION.say /\ m.code = TRANSACTION.say_to
      BY <2>1, CodeFacts
    <2>3. Stub(m) = Runs("say_to", a.name, <<0>>, TRUE)
      BY <2>2, <2>c DEF Stub
    <2>4. (a.fn = "say_to") = TRUE
      BY <1>4
    <2> QED BY <1>2, <1>4, <2>3, <2>4 DEF Ran, m
  <1> QED BY <1>0, <1>3, <1>4

\* A C or C++ call to a Java server is refused, or runs sayhello: the name is
\* taken for the descriptor.
LEMMA NativeToJava ==
    ASSUME NEW l \in Natives, NEW a \in Asks("c"), NEW t \in Nodes, t.lang = "java"
    PROVE  /\ a.fn = "say" => Ran(l, a, t) = Nothing("status", UNKNOWN_TRANSACTION)
           /\ a.fn = "say_to" => Ran(l, a, t) \in {Nothing("data", EX_SECURITY),
                                                   Runs("say", "", <<0>>, FALSE)}
  <1> DEFINE m == RequestOf(l, a)
  <1>1. IF a.fn = "say" THEN m.code = 0 /\ m.parcel = <<"policy">>
        ELSE m.code = 1 /\ m.parcel = <<"policy", a.name>>
    BY NativeRequest
  <1> HIDE DEF m
  <1>2. HandlerOf(t, m) = Stub(m)
    BY DEF HandlerOf
  <1>3. ASSUME a.fn = "say" PROVE Stub(m) = Nothing("status", UNKNOWN_TRANSACTION)
    <2>1. m.code # TRANSACTION.say /\ m.code # TRANSACTION.say_to
      BY <1>1, <1>3, CodeFacts
    <2> QED BY <2>1 DEF Stub
  <1>4. ASSUME a.fn = "say_to"
        PROVE  Stub(m) \in {Nothing("data", EX_SECURITY), Runs("say", "", <<0>>, FALSE)}
    <2>1. m.code = 1
      BY <1>1, <1>4
    <2>2. CASE StringAt(m.parcel, 2) # DESCRIPTOR
      BY <2>1, <2>2, CodeFacts DEF Stub
    <2>3. CASE StringAt(m.parcel, 2) = DESCRIPTOR
      BY <2>1, <2>3, CodeFacts DEF Stub
    <2> QED BY <2>2, <2>3
  <1> QED BY <1>2, <1>3, <1>4 DEF Ran, m

\* A Java sayhello runs the sayhello_to of C and C++, its sayhello_to nothing.
LEMMA JavaToNative ==
    ASSUME NEW a \in Asks("c"), NEW t \in Nodes, t.lang \in Natives
    PROVE  /\ a.fn = "say" => Ran("java", a, t) = Runs("say_to", DESCRIPTOR, <<>>, TRUE)
           /\ a.fn = "say_to" => Ran("java", a, t) \in {Nothing("status", -1),
                                                        Nothing("status", UNKNOWN_TRANSACTION)}
  <1> DEFINE m == RequestOf("java", a)
  <1>0. t.svc \in {"hello", "goodbye"}
    BY DEF Nodes, Services
  <1>1. IF a.fn = "say" THEN m.code = 1 /\ m.parcel = <<"policy", DESCRIPTOR>>
        ELSE /\ m.code = 2 /\ Len(m.parcel) = 3
             /\ m.parcel[2] = DESCRIPTOR /\ m.parcel[3] = a.name
    BY JavaRequest
  <1> HIDE DEF m
  <1>2. HandlerOf(t, m) \in {CHandler(m), BnHelloService(m), BnGoodbyeService(m)}
    BY <1>0 DEF HandlerOf, Natives
  <1>3. ASSUME a.fn = "say" PROVE HandlerOf(t, m) = Runs("say_to", DESCRIPTOR, <<>>, TRUE)
    <2>1. m.code = 1 /\ Len(m.parcel) = 2 /\ m.parcel[2] = DESCRIPTOR
      BY <1>1, <1>3
    <2> QED BY <1>2, <2>1, NativeHandlers
  <1>4. ASSUME a.fn = "say_to"
        PROVE  HandlerOf(t, m) \in {Nothing("status", -1), Nothing("status", UNKNOWN_TRANSACTION)}
    <2>1. m.code = 2
      BY <1>1, <1>4
    <2> QED BY <1>2, <2>1, NativeHandlers
  <1> QED BY <1>3, <1>4 DEF Ran, m

\* The kinds of outcomes; a mix that understands itself runs what was asked.
LEMMA OutcomeFacts ==
    ASSUME NEW l \in Languages, NEW a \in Asks("c"), NEW t \in Nodes
    PROVE  LET out == Ran(l, a, t)
           IN  /\ out.kind \in {"data", "status"} /\ out.fn \in {"none", "say", "say_to"}
               /\ out.fn = "none" => ~out.counted
               /\ {l, t.lang} \in Mix => out.fn = a.fn /\ out.name = a.name /\ out.fn # "none"
  <1> DEFINE out == Ran(l, a, t)
  <1>0. /\ l \in Natives \/ l = "java"
        /\ t.lang \in Natives \/ t.lang = "java"
        /\ a.fn \in {"say", "say_to"} /\ UNKNOWN_TRANSACTION = -74 /\ EX_SECURITY = -1
    BY AskFacts DEF Languages, Natives, Nodes, UNKNOWN_TRANSACTION, EX_SECURITY
  <1>1. CASE l \in Natives /\ t.lang \in Natives
    <2>1. out = Runs(a.fn, a.name, <<>>, a.fn = "say_to")
      BY <1>1, NativeToNative
    <2> HIDE DEF out
    <2>2. out.kind = "data" /\ out.fn = a.fn /\ out.name = a.name
      BY <2>1 DEF Runs
    <2> QED BY <1>0, <2>2 DEF out
  <1>2. CASE l = "java" /\ t.lang = "java"
    <2>1. out = Runs(a.fn, a.name, <<0>>, a.fn = "say_to")
      BY <1>2, JavaToJava
    <2> HIDE DEF out
    <2>2. out.kind = "data" /\ out.fn = a.fn /\ out.name = a.name
      BY <2>1 DEF Runs
    <2> QED BY <1>0, <2>2 DEF out
  <1>3. CASE l \in Natives /\ t.lang = "java"
    <2>1. out \in {Nothing("status", UNKNOWN_TRANSACTION), Nothing("data", EX_SECURITY),
                   Runs("say", "", <<0>>, FALSE)}
      BY <1>0, <1>3, NativeToJava
    <2>2. {l, t.lang} \notin Mix
      BY <1>3 DEF Mix, Natives
    <2> HIDE DEF out
    <2>3. /\ out.kind \in {"data", "status"} /\ out.fn \in {"none", "say", "say_to"}
          /\ out.fn = "none" => ~out.counted
      <3>1. CASE out = Nothing("status", UNKNOWN_TRANSACTION)
        BY <3>1 DEF Nothing
      <3>2. CASE out = Nothing("data", EX_SECURITY)
        BY <3>2 DEF Nothing
      <3>3. CASE out = Runs("say", "", <<0>>, FALSE)
        BY <3>3 DEF Runs
      <3> QED BY <2>1, <3>1, <3>2, <3>3
    <2> QED BY <2>2, <2>3 DEF out
  <1>4. CASE l = "java" /\ t.lang \in Natives
    <2>1. out \in {Nothing("status", UNKNOWN_TRANSACTION), Nothing("status", -1),
                   Runs("say_to", DESCRIPTOR, <<>>, TRUE)}
      BY <1>0, <1>4, JavaToNative
    <2>2. {l, t.lang} \notin Mix
      BY <1>4 DEF Mix, Natives
    <2> HIDE DEF out
    <2>3. /\ out.kind \in {"data", "status"} /\ out.fn \in {"none", "say", "say_to"}
          /\ out.fn = "none" => ~out.counted
      <3>1. CASE out = Nothing("status", UNKNOWN_TRANSACTION)
        BY <3>1 DEF Nothing
      <3>2. CASE out = Nothing("status", -1)
        BY <3>2 DEF Nothing
      <3>3. CASE out = Runs("say_to", DESCRIPTOR, <<>>, TRUE)
        BY <3>3 DEF Runs
      <3> QED BY <2>1, <3>1, <3>2, <3>3
    <2> QED BY <2>2, <2>3 DEF out
  <1> QED BY <1>0, <1>1, <1>2, <1>3, <1>4

\* What the three languages read from the replies of a sayhello_to: a count is
\* one of the function asked for.
LEMMA ReadFacts ==
    ASSUME NEW l \in Languages, NEW a \in Asks("c"), NEW t \in Nodes, a.fn = "say_to",
           NEW max \in Nat, NEW n \in 1..max
    PROVE  LET out == Ran(l, a, t)
               v == ReadOf(l, ReplyWith(out, n))
           IN  /\ v \in {Value(n), Value(0), Value(-1), Exception}
               /\ v = Value(n) => out.fn = a.fn /\ out.name = a.name
               /\ {l, t.lang} \in Mix => v = Value(n)
  <1> DEFINE out == Ran(l, a, t)
             rp == ReplyWith(out, n)
             v == ReadOf(l, rp)
  <1>0. /\ l \in Natives \/ l = "java"
        /\ t.lang \in Natives \/ t.lang = "java"
        /\ UNKNOWN_TRANSACTION = -74 /\ EX_SECURITY = -1
    BY DEF Languages, Natives, Nodes, UNKNOWN_TRANSACTION, EX_SECURITY
  <1>r. ReadOf("c", rp) = CRead(rp) /\ ReadOf("cpp", rp) = BpRead(rp) /\ ReadOf("java", rp) = ProxyRead(rp)
    BY DEF ReadOf
  <1>v. /\ \A i, j : Value(i) = Value(j) => i = j
        /\ \A i : Value(i) # Exception
    BY DEF Value, Exception
  <1>n. n # 0 /\ n # -1
    OBVIOUS
  <1>1. CASE l \in Natives /\ t.lang \in Natives
    <2>0. out = Runs(a.fn, a.name, <<>>, TRUE)
      <3>1. (a.fn = "say_to") = TRUE
        OBVIOUS
      <3> QED BY <1>1, <3>1, NativeToNative
    <2>1. out.kind = "data" /\ out.fn = a.fn /\ out.name = a.name /\ out.ints = <<>> /\ out.counted = TRUE
      <3> HIDE DEF out
      <3> QED BY <2>0 DEF Runs
    <2>2. rp = [kind |-> "data", ints |-> Append(<<>>, n)]
      BY <2>1 DEF ReplyWith
    <2>3. Append(<<>>, n) = <<n>> /\ Len(<<n>>) = 1 /\ <<n>>[1] = n
      OBVIOUS
    <2>4. rp.kind = "data" /\ IntAt(rp, 1) = n
      BY <2>2, <2>3 DEF IntAt
    <2>5. v = Value(n)
      BY <1>1, <1>r, <2>4 DEF CRead, BpRead, Natives
    <2> QED BY <2>1, <2>5
  <1>2. CASE l = "java" /\ t.lang = "java"
    <2>0. out = Runs(a.fn, a.name, <<0>>, TRUE)
      <3>1. (a.fn = "say_to") = TRUE
        OBVIOUS
      <3> QED BY <1>2, <3>1, JavaToJava
    <2>1. out.kind = "data" /\ out.fn = a.fn /\ out.name = a.name /\ out.ints = <<0>> /\ out.counted = TRUE
      <3> HIDE DEF out
      <3> QED BY <2>0 DEF Runs
    <2>2. rp = [kind |-> "data", ints |-> Append(<<0>>, n)]
      BY <2>1 DEF ReplyWith
    <2> DEFINE q == Append(<<0>>, n)
    <2>3. Len(q) = 2 /\ q[1] = 0 /\ q[2] = n
      OBVIOUS
    <2> HIDE DEF q
    <2>4. rp.kind = "data" /\ IntAt(rp, 1) = 0 /\ IntAt(rp, 2) = n
      BY <2>2, <2>3 DEF IntAt, q
    <2>5. v = Value(n)
      BY <1>2, <1>r, <2>4 DEF ProxyRead
    <2> QED BY <2>1, <2>5
  <1>3. CASE l \in Natives /\ t.lang = "java"
    <2>1. PICK i \in {0, -1} : out.kind = "data" /\ out.ints = <<i>> /\ out.counted = FALSE
      <3>1. out \in {Nothing("data", EX_SECURITY), Runs("say", "", <<0>>, FALSE)}
        BY <1>3, NativeToJava
      <3>2. CASE out = Nothing("data", EX_SECURITY)
        <4> HIDE DEF out
        <4>1. out.kind = "data" /\ out.ints = <<-1>> /\ out.counted = FALSE
          BY <3>2 DEF Nothing, EX_SECURITY
        <4> QED BY <4>1
      <3>3. CASE out = Runs("say", "", <<0>>, FALSE)
        <4> HIDE DEF out
        <4>1. out.kind = "data" /\ out.ints = <<0>> /\ out.counted = FALSE
          BY <3>3 DEF Runs
        <4> QED BY <4>1
      <3> HIDE DEF out
      <3> QED BY <3>1, <3>2, <3>3
    <2>2. rp = [kind |-> "data", ints |-> <<i>>]
      BY <2>1 DEF ReplyWith
    <2>3. Len(<<i>>) = 1 /\ <<i>>[1] = i
      OBVIOUS
    <2>4. rp.kind = "data" /\ IntAt(rp, 1) = i
      BY <2>2, <2>3 DEF IntAt
    <2>5. v = Value(i)
      BY <1>3, <1>r, <2>4 DEF CRead, BpRead, Natives
    <2>6. {l, t.lang} \notin Mix
      BY <1>3 DEF Mix, Natives
    <2>7. v \in {Value(0), Value(-1)} /\ v # Value(n)
      BY <1>n, <1>v, <2>1, <2>5
    <2> QED BY <2>6, <2>7
  <1>4. CASE l = "java" /\ t.lang \in Natives
    <2>1. PICK i \in {-1, -74} : out.kind = "status" /\ out.ints = <<i>> /\ out.counted = FALSE
      <3>1. out \in {Nothing("status", -1), Nothing("status", UNKNOWN_TRANSACTION)}
        BY <1>4, JavaToNative
      <3> HIDE DEF out
      <3>2. CASE out = Nothing("status", -1)
        BY <3>2 DEF Nothing
      <3>3. CASE out = Nothing("status", UNKNOWN_TRANSACTION)
        BY <3>3 DEF Nothing, UNKNOWN_TRANSACTION
      <3> QED BY <3>1, <3>2, <3>3
    <2>2. rp = [kind |-> "status", ints |-> <<i>>]
      BY <2>1 DEF ReplyWith
    <2>3. rp.kind = "status"
      BY <2>2
    <2>4. v \in {Value(0), Exception}
      BY <1>4, <1>r, <2>3 DEF ProxyRead
    <2>5. {l, t.lang} \notin Mix
      BY <1>4 DEF Mix, Natives
    <2>6. v # Value(n)
      BY <1>n, <1>v, <2>4
    <2> QED BY <2>4, <2>5, <2>6
  <1> QED BY <1>0, <1>1, <1>2, <1>3, <1>4

-----------------------------------------------------------------------------
(* The handles of one client.                                              *)

HandleTypes(l, p, w, h, r, f) ==
    /\ l \in Languages /\ p \in PCs /\ w \in Services
    /\ h \in [Services -> Descs \cup {0}]
    /\ r \in [Descs -> Ref]
    /\ f \in [Services -> Nodes \cup {NoNode}]

\* Reference counts of the service that is not being looked up.
LEMMA OtherRef ==
    ASSUME NEW p, NEW w, NEW f, NEW s, s # w
    PROVE  RefOf(p, w, f, s) = [node |-> f[s], strong |-> 1, buf |-> 0]
  BY DEF RefOf

\* A step between states in which the handle looked up is 0, or in which it
\* has one reference of the client's own.
LEMMA HandlesMove ==
    ASSUME NEW l, NEW a, NEW p, NEW w \in Services, NEW h, NEW r, NEW f, NEW q,
           Handles(l, a, p, w, h, r, f),
           \/ h[w] = 0 /\ q \in {"find", "acquire", "done", "exit"}
           \/ /\ p \in {"call", "waiting", "replied", "release"}
              /\ q \in {"call", "waiting", "replied", "release"},
           l # "c" => q \notin {"acquire", "done"}
    PROVE  Handles(l, a, q, w, h, r, f)
  <1>1. ASSUME NEW s \in Services, h[s] # 0 PROVE RefOf(q, w, f, s) = RefOf(p, w, f, s)
    <2>1. CASE s # w
      BY <2>1, OtherRef
    <2>2. CASE s = w
      <3>1. /\ p \notin {"exit", "acquire", "done"} /\ q \notin {"exit", "acquire", "done"}
        BY <1>1, <2>2
      <3> QED BY <3>1 DEF RefOf
    <2> QED BY <2>1, <2>2
  <1> QED BY <1>1 DEF Handles

\* The descriptors that have a node, in the descriptors r.
At(r, node) == {d \in Descs : r[d].node = node}

\* The descriptor for a service looked up after the handles h.
NextDesc(w, h) == IF w = "goodbye" THEN 1 ELSE h["goodbye"] + 1

\* The driver gives goodbye descriptor 1 and hello the next.
LEMMA LowestFree ==
    ASSUME NEW l, NEW a, NEW w \in Services, NEW h, NEW r, NEW f, NEW node \in Nodes,
           HandleTypes(l, "find", w, h, r, f),
           Handles(l, a, "find", w, h, r, f), node.svc = w,
           NEW has, has = At(r, node), NEW free, free = At(r, NoNode),
           NEW next, next = NextDesc(w, h)
    PROVE  /\ has = {} /\ next \in Descs /\ r[next] = NoRef
           /\ next \in free /\ \A e \in free : next <= e
  <1>0. /\ w \in {"hello", "goodbye"} /\ h["goodbye"] \in {0, 1} /\ h[w] = 0
        /\ w = "goodbye" => h["hello"] = 0
        /\ \A s \in Services : h[s] # 0 => f[s] \in Nodes /\ f[s].svc = s /\ r[h[s]] = RefOf("find", w, f, s)
        /\ \A d \in Descs : (\A s \in Services : h[s] # d) => r[d] = NoRef
    BY DEF Handles, Services
  <1>a. /\ \A d : d \in has <=> d \in Descs /\ r[d].node = node
        /\ \A d : d \in free <=> d \in Descs /\ r[d].node = NoNode
        /\ next = IF w = "goodbye" THEN 1 ELSE h["goodbye"] + 1
    BY DEF At, NextDesc
  <1>d. \A d : d \in Descs <=> d = 1 \/ d = 2
    BY DEF Descs
  <1>n. node # NoNode /\ NoRef.node = NoNode /\ \A m \in Nodes : m # NoNode
    BY DEF NoNode, NoRef, Nodes, Services, Languages
  <1>1. h["hello"] = 0
    BY <1>0
  <1>2. h["goodbye"] = 1 => w = "hello" /\ f["goodbye"] \in Nodes /\ f["goodbye"].svc = "goodbye"
                            /\ r[1] = [node |-> f["goodbye"], strong |-> 1, buf |-> 0]
    <2> SUFFICES ASSUME h["goodbye"] = 1
                 PROVE  w = "hello" /\ f["goodbye"] \in Nodes /\ f["goodbye"].svc = "goodbye"
                        /\ r[1] = [node |-> f["goodbye"], strong |-> 1, buf |-> 0]
      OBVIOUS
    <2>1. w = "hello"
      BY <1>0
    <2>2. RefOf("find", w, f, "goodbye") = [node |-> f["goodbye"], strong |-> 1, buf |-> 0]
      BY <2>1, OtherRef
    <2> QED BY <1>0, <2>1, <2>2 DEF Services
  <1>3. h["goodbye"] = 1 => r[1].node = f["goodbye"] /\ r[1].node # node /\ r[1].node # NoNode
    BY <1>2, <1>n
  <1>4. /\ h["goodbye"] = 0 => r[1] = NoRef
        /\ r[2] = NoRef
    BY <1>0, <1>1, <1>d DEF Services
  <1>5. has = {}
    BY <1>a, <1>0, <1>3, <1>4, <1>d, <1>n
  <1>6. next \in Descs /\ (next = 1 \/ next = 2)
    BY <1>a, <1>0, <1>d
  <1>7. r[next] = NoRef
    BY <1>a, <1>0, <1>4
  <1>8. next \in free
    BY <1>a, <1>6, <1>7, <1>n
  <1>9. \A e \in free : next <= e
    BY <1>a, <1>0, <1>3, <1>d
  <1> QED BY <1>5, <1>6, <1>7, <1>8, <1>9

\* A client at "find" with the handles h, descriptors r and lookups f finds node,
\* with the lookup's reference, and goes on at q with h2, r2 and f2.
Finds(l, a, q, w, h, r, f, node, h2, r2, f2) ==
    LET d == NextDesc(w, h)
        ref == [node |-> node, strong |-> IF q = "acquire" THEN 0 ELSE 1,
                buf |-> IF q = "acquire" THEN 1 ELSE 0]
    IN  /\ HandleTypes(l, "find", w, h, r, f) /\ Handles(l, a, "find", w, h, r, f)
        /\ w \in Services /\ node \in Nodes /\ node.svc = w
        /\ q \in {"acquire", "call"} /\ (q = "acquire" <=> l = "c")
        /\ h2 = [h EXCEPT ![w] = d]
        /\ r2 = [r EXCEPT ![d] = ref]
        /\ f2 = [f EXCEPT ![w] = node]

\* The handle of a service just found: the lookup's reference is the client's.
LEMMA HandlesFind ==
    ASSUME NEW l, NEW a, NEW q, NEW w, NEW h, NEW r, NEW f, NEW node, NEW h2, NEW r2, NEW f2,
           Finds(l, a, q, w, h, r, f, node, h2, r2, f2)
    PROVE  HandleTypes(l, q, w, h2, r2, f2) /\ Handles(l, a, q, w, h2, r2, f2)
  <1> PICK d : d = NextDesc(w, h)
    OBVIOUS
  <1> PICK ref : ref = [node |-> node, strong |-> IF q = "acquire" THEN 0 ELSE 1,
                        buf |-> IF q = "acquire" THEN 1 ELSE 0]
    OBVIOUS
  <1> /\ HandleTypes(l, "find", w, h, r, f) /\ Handles(l, a, "find", w, h, r, f)
      /\ w \in Services /\ node \in Nodes /\ node.svc = w
      /\ q \in {"acquire", "call"} /\ (IF q = "acquire" THEN l = "c" ELSE l # "c")
      /\ d = IF w = "goodbye" THEN 1 ELSE h["goodbye"] + 1
      /\ h2 = [h EXCEPT ![w] = d]
      /\ r2 = [r EXCEPT ![d] = ref]
      /\ f2 = [f EXCEPT ![w] = node]
    BY DEF Finds, NextDesc
  <1>0. /\ w \in {"hello", "goodbye"} /\ h["goodbye"] \in {0, 1} /\ h[w] = 0
        /\ w = "goodbye" => h["hello"] = 0
        /\ \A s \in Services : h[s] # 0 => f[s] \in Nodes /\ f[s].svc = s /\ r[h[s]] = RefOf("find", w, f, s)
        /\ \A e \in Descs : (\A s \in Services : h[s] # e) => r[e] = NoRef
        /\ l # "c" => w = a.svc /\ (w = "hello" => h["goodbye"] = 0)
    BY DEF Handles, Services
  <1>1. d \in Descs /\ d # 0
    BY <1>0 DEF Descs
  <1>2. ref \in Ref /\ ref = RefOf(q, w, f2, w)
    <2>1. f2[w] = node
      BY DEF HandleTypes
    <2>2. CASE q = "acquire"
      BY <2>1, <2>2 DEF Ref, RefOf
    <2>3. CASE q = "call"
      BY <2>1, <2>3 DEF Ref, RefOf
    <2> QED BY <2>2, <2>3
  <1>3. HandleTypes(l, q, w, h2, r2, f2)
    BY <1>1, <1>2 DEF HandleTypes, PCs
  <1>4. /\ h2[w] = d /\ \A s \in Services : s # w => h2[s] = h[s] /\ f2[s] = f[s]
        /\ f2[w] = node
        /\ r2[d] = ref /\ \A e \in Descs : e # d => r2[e] = r[e]
    BY <1>1 DEF HandleTypes
  <1>5. ASSUME NEW s \in Services, h2[s] # 0
        PROVE  f2[s] \in Nodes /\ f2[s].svc = s /\ r2[h2[s]] = RefOf(q, w, f2, s)
    <2>1. CASE s = w
      BY <1>2, <1>4, <2>1
    <2>2. CASE s # w
      <3>1. h2[s] = h[s] /\ f2[s] = f[s] /\ h[s] # 0
        BY <1>4, <1>5, <2>2
      <3>2. s = "goodbye" /\ w = "hello" /\ h[s] = 1 /\ d = 2 /\ 1 \in Descs
        BY <1>0, <2>2, <3>1 DEF Services, Descs
      <3>3. r2[1] = r[1]
        BY <1>4, <3>2
      <3>4. RefOf(q, w, f2, s) = RefOf("find", w, f, s)
        BY <2>2, <3>1 DEF RefOf
      <3> QED BY <1>0, <3>1, <3>2, <3>3, <3>4
    <2> QED BY <2>1, <2>2
  <1>6. ASSUME NEW e \in Descs, \A s \in Services : h2[s] # e PROVE r2[e] = NoRef
    <2>1. e # d /\ r2[e] = r[e]
      BY <1>4, <1>6
    <2>2. \A s \in Services : h[s] # e
      <3>1. e # 0
        BY DEF Descs
      <3> QED BY <1>0, <1>4, <1>6, <3>1
    <2> QED BY <1>0, <2>1, <2>2
  <1>7. /\ h2["goodbye"] \in {0, 1}
        /\ h2["hello"] # 0 => h2["hello"] = h2["goodbye"] + 1
        /\ w = "goodbye" => h2["hello"] = 0
        /\ h2[w] # 0
    BY <1>0, <1>1, <1>4 DEF Services
  <1>8. l # "c" => /\ q \notin {"open", "acquire", "done"} /\ w = a.svc
                   /\ w = "hello" => h2["goodbye"] = 0
    BY <1>0, <1>4 DEF Services
  <1>9. q \notin {"open", "find"}
    OBVIOUS
  <1>10. Handles(l, a, q, w, h2, r2, f2)
    BY <1>5, <1>6, <1>7, <1>8, <1>9 DEF Handles
  <1> QED BY <1>3, <1>10

\* A client at p goes on at q with the references ref behind the handle it
\* looked up, and with that the descriptors r2.
Refers(l, a, p, q, w, h, r, f, ref, r2) ==
    /\ HandleTypes(l, p, w, h, r, f) /\ Handles(l, a, p, w, h, r, f)
    /\ w \in Services /\ h[w] # 0
    /\ q \in PCs /\ q \notin {"open", "find"} /\ (l # "c" => q \notin {"acquire", "done"})
    /\ ref \in Ref /\ ref = RefOf(q, w, f, w) /\ r2 = [r EXCEPT ![h[w]] = ref]

\* A step that changes the references of the handle looked up.
LEMMA HandlesRef ==
    ASSUME NEW l, NEW a, NEW p, NEW q, NEW w, NEW h, NEW r, NEW f, NEW ref, NEW r2,
           Refers(l, a, p, q, w, h, r, f, ref, r2)
    PROVE  HandleTypes(l, q, w, h, r2, f) /\ Handles(l, a, q, w, h, r2, f)
  <1> /\ HandleTypes(l, p, w, h, r, f) /\ Handles(l, a, p, w, h, r, f)
      /\ w \in Services /\ h[w] # 0
      /\ q \in PCs /\ q \notin {"open", "find"} /\ (l # "c" => q \notin {"acquire", "done"})
      /\ ref \in Ref /\ ref = RefOf(q, w, f, w) /\ r2 = [r EXCEPT ![h[w]] = ref]
    BY DEF Refers
  <1>0. /\ h["goodbye"] \in {0, 1} /\ (h["hello"] # 0 => h["hello"] = h["goodbye"] + 1)
        /\ w = "goodbye" => h["hello"] = 0
        /\ \A s \in Services : h[s] # 0 => f[s] \in Nodes /\ f[s].svc = s /\ r[h[s]] = RefOf(p, w, f, s)
        /\ \A e \in Descs : (\A s \in Services : h[s] # e) => r[e] = NoRef
        /\ l # "c" => w = a.svc /\ (w = "hello" => h["goodbye"] = 0)
    BY DEF Handles
  <1>1. h[w] \in Descs
    BY DEF HandleTypes
  <1>2. HandleTypes(l, q, w, h, r2, f)
    BY <1>1 DEF HandleTypes
  <1>3. r2[h[w]] = ref /\ \A e \in Descs : e # h[w] => r2[e] = r[e]
    BY <1>1 DEF HandleTypes
  <1>4. ASSUME NEW s \in Services, h[s] # 0 PROVE r2[h[s]] = RefOf(q, w, f, s)
    <2>1. CASE s = w
      BY <1>3, <2>1
    <2>2. CASE s # w
      <3>1. h[s] # h[w] /\ h[s] \in Descs
        BY <1>0, <1>4, <2>2 DEF Services, HandleTypes
      <3>2. RefOf(q, w, f, s) = RefOf(p, w, f, s)
        BY <2>2, OtherRef
      <3> QED BY <1>0, <1>3, <1>4, <3>1, <3>2
    <2> QED BY <2>1, <2>2
  <1>5. ASSUME NEW e \in Descs, \A s \in Services : h[s] # e PROVE r2[e] = NoRef
    BY <1>0, <1>3, <1>5
  <1>6. Handles(l, a, q, w, h, r2, f)
    BY <1>0, <1>4, <1>5 DEF Handles
  <1> QED BY <1>2, <1>6

\* On to the second lookup: the handle of the first has its one reference.
LEMMA HandlesNext ==
    ASSUME NEW l, NEW a, NEW p, NEW h, NEW r, NEW f, l = "c", p \in {"call", "done"},
           Handles(l, a, p, "goodbye", h, r, f),
           p = "done" => h["goodbye"] = 0
    PROVE  Handles(l, a, "find", "hello", h, r, f)
  <1>1. h["hello"] = 0
    BY DEF Handles
  <1>2. ASSUME NEW s \in Services, h[s] # 0
        PROVE  RefOf("find", "hello", f, s) = RefOf(p, "goodbye", f, s)
    <2>1. s = "goodbye" /\ p = "call"
      BY <1>1, <1>2 DEF Services
    <2> QED BY <2>1 DEF RefOf
  <1> QED BY <1>1, <1>2 DEF Handles

-----------------------------------------------------------------------------
(* The steps of a client among the others.                                 *)

\* The steps of one client leave the handles of the others alone.
LEMMA HandleStep ==
    ASSUME HandlesInv, NEW c \in Clients,
           \A u \in Clients : u # c =>
                /\ lang'[u] = lang[u] /\ ask'[u] = ask[u] /\ pc'[u] = pc[u]
                /\ want'[u] = want[u] /\ handle'[u] = handle[u]
                /\ refs'[u] = refs[u] /\ found'[u] = found[u],
           Handles(lang'[c], ask'[c], pc'[c], want'[c], handle'[c], refs'[c], found'[c])
    PROVE  HandlesInv'
  <1>1. ASSUME NEW u \in Clients
        PROVE  Handles(lang'[u], ask'[u], pc'[u], want'[u], handle'[u], refs'[u], found'[u])
    <2>1. CASE u = c
      BY <2>1
    <2>2. CASE u # c
      <3>1. /\ lang'[u] = lang[u] /\ ask'[u] = ask[u] /\ pc'[u] = pc[u]
            /\ want'[u] = want[u] /\ handle'[u] = handle[u]
            /\ refs'[u] = refs[u] /\ found'[u] = found[u]
        BY <2>2
      <3> QED BY <3>1 DEF HandlesInv
    <2> QED BY <2>1, <2>2
  <1> QED BY <1>1 DEF HandlesInv

\* The same when only the client's place changes.
LEMMA HandleStay ==
    ASSUME Types, HandlesInv, NEW c \in Clients, NEW q \in PCs,
           pc' = [pc EXCEPT ![c] = q], UNCHANGED <<lang, ask, want, handle, refs, found>>,
           \/ handle[c][want[c]] = 0 /\ q \in {"find", "acquire", "done", "exit"}
           \/ /\ pc[c] \in {"call", "waiting", "replied", "release"}
              /\ q \in {"call", "waiting", "replied", "release"},
           lang[c] # "c" => q \notin {"acquire", "done"}
    PROVE  HandlesInv' /\ pc' \in [Clients -> PCs]
  <1>1. Handles(lang[c], ask[c], pc[c], want[c], handle[c], refs[c], found[c])
    BY DEF HandlesInv
  <1>2. want[c] \in Services
    BY DEF Types
  <1>3. Handles(lang[c], ask[c], q, want[c], handle[c], refs[c], found[c])
    BY <1>1, <1>2, HandlesMove
  <1>4. pc'[c] = q /\ \A u \in Clients : u # c => pc'[u] = pc[u]
    BY DEF Types
  <1>5. Handles(lang'[c], ask'[c], pc'[c], want'[c], handle'[c], refs'[c], found'[c])
    BY <1>3, <1>4
  <1>6. HandlesInv'
    BY <1>4, <1>5, HandleStep
  <1>7. pc' \in [Clients -> PCs]
    BY DEF Types
  <1> QED BY <1>6, <1>7

\* The steps of one client leave the calls of the others alone.
LEMMA CallStep ==
    ASSUME CallsInv, NEW c \in Clients,
           \A u \in Clients : u # c =>
                /\ lang'[u] = lang[u] /\ ask'[u] = ask[u] /\ pc'[u] = pc[u]
                /\ target'[u] = target[u] /\ reply'[u] = reply[u]
                /\ result'[u] = result[u] /\ ran'[u] = ran[u],
           Called(lang'[c], ask'[c], pc'[c], target'[c], reply'[c], result'[c], ran'[c],
                  Cardinality(Clients))
    PROVE  CallsInv'
  <1>1. ASSUME NEW u \in Clients
        PROVE  Called(lang'[u], ask'[u], pc'[u], target'[u], reply'[u], result'[u], ran'[u],
                      Cardinality(Clients))
    <2>1. CASE u = c
      BY <2>1
    <2>2. CASE u # c
      <3>1. /\ lang'[u] = lang[u] /\ ask'[u] = ask[u] /\ pc'[u] = pc[u]
            /\ target'[u] = target[u] /\ reply'[u] = reply[u]
            /\ result'[u] = result[u] /\ ran'[u] = ran[u]
        BY <2>2
      <3> QED BY <3>1 DEF CallsInv
    <2> QED BY <2>1, <2>2
  <1> QED BY <1>1 DEF CallsInv

\* A client that has not called yet moves on.
LEMMA CallStay ==
    ASSUME Types, CallsInv, NEW c \in Clients, NEW q \in PCs \ {"waiting", "replied", "release"},
           pc[c] \notin {"waiting", "replied", "release", "exit"},
           pc' = [pc EXCEPT ![c] = q], UNCHANGED <<lang, ask, target, reply, result, ran>>
    PROVE  CallsInv'
  <1>1. Called(lang[c], ask[c], pc[c], target[c], reply[c], result[c], ran[c], Cardinality(Clients))
    BY DEF CallsInv
  <1>2. /\ target[c] = NoNode /\ reply[c] = NoReply /\ result[c] = NoResult /\ ran[c] = <<>>
    BY <1>1 DEF Called, After
  <1>3. Called(lang[c], ask[c], q, target[c], reply[c], result[c], ran[c], Cardinality(Clients))
    BY <1>2 DEF Called
  <1>4. pc'[c] = q /\ \A u \in Clients : u # c => pc'[u] = pc[u]
    BY DEF Types
  <1>5. Called(lang'[c], ask'[c], pc'[c], target'[c], reply'[c], result'[c], ran'[c],
               Cardinality(Clients))
    BY <1>3, <1>4
  <1> QED BY <1>4, <1>5, CallStep

\* The clients past their call are finitely many.
LEMMA PastFacts == PastCall \subseteq Clients /\ IsFiniteSet(PastCall) /\ IsFiniteSet(Clients)
  BY ClientsAssumption, FS_Subset DEF PastCall

\* No count without a call.
LEMMA CountStay ==
    ASSUME Types, CountInv, UNCHANGED cnt,
           \A u \in Clients : pc[u] \in After => pc'[u] \in After
    PROVE  CountInv'
  <1>1. PastCall \subseteq PastCall'
    BY DEF PastCall
  <1>2. IsFiniteSet(PastCall')
    BY PastFacts, FS_Subset DEF PastCall
  <1>3. Cardinality(PastCall) <= Cardinality(PastCall')
    BY <1>1, <1>2, FS_Subset
  <1>4. Cardinality(PastCall) \in Nat /\ Cardinality(PastCall') \in Nat
    BY <1>2, PastFacts, FS_CardinalityType
  <1>5. ASSUME NEW k \in Counters PROVE cnt'[k] \in Nat /\ cnt'[k] <= Cardinality(PastCall')
    <2>1. cnt[k] \in Nat /\ cnt[k] <= Cardinality(PastCall) /\ cnt' = cnt
      BY DEF CountInv
    <2> QED BY <1>3, <1>4, <2>1
  <1> QED BY <1>5 DEF CountInv

\* The same for a step of one client that is not past its call, or stays so.
LEMMA CountMove ==
    ASSUME Types, CountInv, UNCHANGED cnt, NEW c \in Clients, NEW q,
           pc' = [pc EXCEPT ![c] = q], pc[c] \in After => q \in After
    PROVE  CountInv'
  <1>1. \A u \in Clients : pc[u] \in After => pc'[u] \in After
    BY DEF Types
  <1> QED BY <1>1, CountStay

\* What is known of one client.
LEMMA OfClient ==
    ASSUME ClientsInv, NEW c \in Clients
    PROVE  /\ Types /\ HandlesInv /\ CallsInv /\ CountInv
           /\ want[c] \in Services /\ pc[c] \in PCs /\ lang[c] \in Languages
           /\ HandleTypes(lang[c], pc[c], want[c], handle[c], refs[c], found[c])
           /\ Handles(lang[c], ask[c], pc[c], want[c], handle[c], refs[c], found[c])
           /\ Called(lang[c], ask[c], pc[c], target[c], reply[c], result[c], ran[c],
                     Cardinality(Clients))
  <1>1. /\ want[c] \in Services /\ pc[c] \in PCs /\ lang[c] \in Languages
        /\ HandleTypes(lang[c], pc[c], want[c], handle[c], refs[c], found[c])
    BY DEF ClientsInv, Types, HandleTypes
  <1>2. /\ Handles(lang[c], ask[c], pc[c], want[c], handle[c], refs[c], found[c])
        /\ Called(lang[c], ask[c], pc[c], target[c], reply[c], result[c], ran[c],
                  Cardinality(Clients))
    BY DEF ClientsInv, HandlesInv, CallsInv
  <1> QED BY <1>1, <1>2 DEF ClientsInv

\* binder_open, or an exit without it.
LEMMA NextBinderOpen == ASSUME ClientsInv, NEW c \in Clients, BinderOpen(c) PROVE ClientsInv'
  <1>0. /\ Types /\ HandlesInv /\ CallsInv /\ CountInv
        /\ Handles(lang[c], ask[c], pc[c], want[c], handle[c], refs[c], found[c])
    BY OfClient
  <1>1. PICK q \in {"find", "exit"} : pc' = [pc EXCEPT ![c] = q]
    BY DEF BinderOpen
  <1>2. /\ pc[c] = "open"
        /\ UNCHANGED <<server, table, cnt, lang, ask, want, handle, refs, target, reply, result,
                       found, ran>>
    BY DEF BinderOpen, servers, started
  <1>3. handle[c][want[c]] = 0 /\ lang[c] = "c" /\ q \in PCs
    BY <1>0, <1>2 DEF Handles, PCs
  <1>4. HandlesInv' /\ pc' \in [Clients -> PCs]
    BY <1>0, <1>1, <1>2, <1>3, HandleStay
  <1>5. CallsInv'
    BY <1>0, <1>1, <1>2, <1>3, CallStay
  <1>6. CountInv'
    BY <1>0, <1>1, <1>2, CountMove DEF After
  <1>7. Types'
    BY <1>0, <1>2, <1>4 DEF Types
  <1> QED BY <1>4, <1>5, <1>6, <1>7 DEF ClientsInv

\* A service found: its node, its descriptor, and the client's next place.
LEMMA FoundStep ==
    ASSUME ClientsInv, NEW c \in Clients, NEW q \in {"acquire", "call"}, NEW node,
           NEW h2, NEW r2, NEW f2, pc[c] = "find",
           Finds(lang[c], ask[c], q, want[c], handle[c], refs[c], found[c], node, h2, r2, f2),
           handle' = [handle EXCEPT ![c] = h2], refs' = [refs EXCEPT ![c] = r2],
           found' = [found EXCEPT ![c] = f2], pc' = [pc EXCEPT ![c] = q],
           UNCHANGED <<server, table, cnt, lang, ask, want, target, reply, result, ran>>
    PROVE  ClientsInv'
  <1>0. /\ Types /\ HandlesInv /\ CallsInv /\ CountInv
    BY OfClient
  <1>1. HandleTypes(lang[c], q, want[c], h2, r2, f2)
        /\ Handles(lang[c], ask[c], q, want[c], h2, r2, f2)
    BY HandlesFind
  <1>3. /\ handle'[c] = h2 /\ refs'[c] = r2 /\ found'[c] = f2 /\ pc'[c] = q
        /\ \A u \in Clients : u # c =>
            /\ lang'[u] = lang[u] /\ ask'[u] = ask[u] /\ pc'[u] = pc[u]
            /\ want'[u] = want[u] /\ handle'[u] = handle[u]
            /\ refs'[u] = refs[u] /\ found'[u] = found[u]
    BY <1>0 DEF Types
  <1>4. HandlesInv'
    <2>1. Handles(lang'[c], ask'[c], pc'[c], want'[c], handle'[c], refs'[c], found'[c])
      BY <1>1, <1>3
    <2> QED BY <1>0, <1>3, <2>1, HandleStep
  <1>5. q \in PCs \ {"waiting", "replied", "release"} /\ q \notin After
    BY DEF PCs, After
  <1>6. CallsInv'
    BY <1>0, <1>5, CallStay
  <1>7. CountInv'
    <2>1. pc[c] \notin After
      BY DEF After
    <2> QED BY <1>0, <2>1, CountMove
  <1>8. Types'
    <2>1. /\ handle' \in [Clients -> [Services -> Descs \cup {0}]]
          /\ refs' \in [Clients -> [Descs -> Ref]]
          /\ found' \in [Clients -> [Services -> Nodes \cup {NoNode}]]
      <3>1. h2 \in [Services -> Descs \cup {0}] /\ r2 \in [Descs -> Ref]
            /\ f2 \in [Services -> Nodes \cup {NoNode}]
        BY <1>1 DEF HandleTypes
      <3> QED BY <1>0, <3>1 DEF Types
    <2>2. pc' \in [Clients -> PCs]
      BY <1>0, <1>5 DEF Types
    <2> QED BY <1>0, <2>1, <2>2 DEF Types
  <1> QED BY <1>4, <1>6, <1>7, <1>8 DEF ClientsInv

\* svcmgr_lookup.
LEMMA NextFind == ASSUME ClientsInv, NEW c \in Clients, Find(c) PROVE ClientsInv'
  <1> DEFINE w == want[c]
             node == [lang |-> table[w], svc |-> w]
             d == DescFor(c, node)
  <1>0. /\ Types /\ HandlesInv /\ CallsInv /\ CountInv
        /\ want[c] \in Services /\ pc[c] = "find" /\ lang[c] = "c"
        /\ HandleTypes(lang[c], "find", w, handle[c], refs[c], found[c])
        /\ Handles(lang[c], ask[c], "find", w, handle[c], refs[c], found[c])
    BY OfClient DEF Find
  <1>1. /\ pc' = [pc EXCEPT ![c] = "acquire"]
        /\ UNCHANGED <<server, table, cnt, lang, ask, want, target, reply, result, ran>>
    BY DEF Find, servers, started
  <1>2. CASE table[w] = "none"
    <2>1. UNCHANGED <<handle, refs, found>>
      BY <1>2 DEF Find
    <2>2. handle[c][w] = 0 /\ "acquire" \in PCs
      BY <1>0 DEF Handles, PCs
    <2>3. HandlesInv' /\ pc' \in [Clients -> PCs]
      BY <1>0, <1>1, <2>1, <2>2, HandleStay
    <2>4. CallsInv'
      BY <1>0, <1>1, <2>2, CallStay
    <2>5. CountInv'
      BY <1>0, <1>1, CountMove DEF After
    <2>6. Types'
      BY <1>0, <1>1, <2>1, <2>3 DEF Types
    <2> QED BY <2>3, <2>4, <2>5, <2>6 DEF ClientsInv
  <1>3. CASE table[w] # "none"
    <2>1. node \in Nodes /\ node.svc = w
      BY <1>0, <1>3 DEF Types, Nodes
    <2>2. /\ handle' = [handle EXCEPT ![c] = [handle[c] EXCEPT ![w] = d]]
          /\ refs' = [refs EXCEPT ![c] = [refs[c] EXCEPT ![d] =
                [node |-> node, strong |-> refs[c][d].strong, buf |-> refs[c][d].buf + 1]]]
          /\ found' = [found EXCEPT ![c] = [found[c] EXCEPT ![w] = node]]
      BY <1>3 DEF Find
    <2>3. d = NextDesc(w, handle[c]) /\ refs[c][d] = NoRef
      <3> PICK l, a, u, h, r, f, has, free, next, n :
            /\ l = lang[c] /\ a = ask[c] /\ u = w /\ h = handle[c] /\ r = refs[c] /\ f = found[c]
            /\ n = node /\ has = At(r, n) /\ free = At(r, NoNode) /\ next = NextDesc(u, h)
        OBVIOUS
      <3>1. /\ HandleTypes(l, "find", u, h, r, f) /\ Handles(l, a, "find", u, h, r, f)
            /\ u \in Services /\ n \in Nodes /\ n.svc = u
        BY <1>0, <2>1
      <3>2. d = CHOOSE e \in IF has # {} THEN has ELSE free :
                    \A x \in IF has # {} THEN has ELSE free : e <= x
        BY DEF DescFor, At
      <3> HIDE DEF d, node, w
      <3>3. /\ has = {} /\ next \in Descs /\ r[next] = NoRef
            /\ next \in free /\ \A e \in free : next <= e
        BY <3>1, LowestFree
      <3>4. d \in free /\ \A e \in free : d <= e
        BY <3>2, <3>3
      <3>5. d = next
        <4>1. \A e \in free : e \in {1, 2}
          BY DEF At, Descs
        <4> QED BY <3>3, <3>4, <4>1
      <3> QED BY <3>3, <3>5
    <2> HIDE DEF node, d
    <2>4. refs[c][d].strong = 0 /\ refs[c][d].buf + 1 = 1
      BY <2>3 DEF NoRef
    <2> PICK h2, r2, f2 : /\ h2 = [handle[c] EXCEPT ![w] = d]
                          /\ r2 = [refs[c] EXCEPT ![d] = [node |-> node, strong |-> 0, buf |-> 1]]
                          /\ f2 = [found[c] EXCEPT ![w] = node]
      OBVIOUS
    <2>5. /\ handle' = [handle EXCEPT ![c] = h2] /\ refs' = [refs EXCEPT ![c] = r2]
          /\ found' = [found EXCEPT ![c] = f2]
      BY <2>2, <2>4
    <2>6. Finds(lang[c], ask[c], "acquire", want[c], handle[c], refs[c], found[c], node,
                h2, r2, f2)
      BY <1>0, <2>1, <2>3 DEF Finds
    <2> QED BY <1>0, <1>1, <2>5, <2>6, FoundStep
  <1> QED BY <1>2, <1>3

\* A step that changes the references behind the handle looked up.
LEMMA RefStep ==
    ASSUME Types, HandlesInv, NEW c \in Clients, NEW q \in PCs, NEW ref, NEW r2,
           Refers(lang[c], ask[c], pc[c], q, want[c], handle[c], refs[c], found[c], ref, r2),
           refs' = [refs EXCEPT ![c] = r2], pc' = [pc EXCEPT ![c] = q],
           UNCHANGED <<lang, ask, want, handle, found>>
    PROVE  /\ HandlesInv' /\ pc' \in [Clients -> PCs]
           /\ refs' \in [Clients -> [Descs -> Ref]]
  <1>2. /\ HandleTypes(lang[c], q, want[c], handle[c], r2, found[c])
        /\ Handles(lang[c], ask[c], q, want[c], handle[c], r2, found[c])
    BY HandlesRef
  <1>3. /\ refs'[c] = r2 /\ pc'[c] = q
        /\ \A u \in Clients : u # c =>
            /\ lang'[u] = lang[u] /\ ask'[u] = ask[u] /\ pc'[u] = pc[u]
            /\ want'[u] = want[u] /\ handle'[u] = handle[u]
            /\ refs'[u] = refs[u] /\ found'[u] = found[u]
    BY DEF Types
  <1>4. Handles(lang'[c], ask'[c], pc'[c], want'[c], handle'[c], refs'[c], found'[c])
    BY <1>2, <1>3
  <1>5. HandlesInv'
    BY <1>3, <1>4, HandleStep
  <1>6. r2 \in [Descs -> Ref]
    BY <1>2 DEF HandleTypes
  <1> QED BY <1>5, <1>6 DEF Types

\* binder_acquire, when there is a handle.
LEMMA NextAcquire == ASSUME ClientsInv, NEW c \in Clients, Acquire(c) PROVE ClientsInv'
  <1> DEFINE w == want[c]
             d == handle[c][w]
  <1>0. /\ Types /\ HandlesInv /\ CallsInv /\ CountInv
        /\ w \in Services /\ pc[c] = "acquire" /\ "done" \in PCs
        /\ Handles(lang[c], ask[c], "acquire", w, handle[c], refs[c], found[c])
    BY OfClient DEF Acquire, PCs
  <1>1. /\ pc' = [pc EXCEPT ![c] = "done"]
        /\ UNCHANGED <<server, table, cnt, lang, ask, want, handle, found, target, reply,
                       result, ran>>
    BY DEF Acquire, servers, started
  <1>2. lang[c] = "c"
    BY <1>0 DEF Handles
  <1>3. CallsInv' /\ CountInv'
    <2>1. CallsInv'
      BY <1>0, <1>1, CallStay
    <2> QED BY <1>0, <1>1, <2>1, CountMove DEF After
  <1>4. /\ HandlesInv' /\ pc' \in [Clients -> PCs]
        /\ refs' \in [Clients -> [Descs -> Ref]]
    <2>1. CASE d = 0
      <3>1. refs' = refs
        BY <2>1 DEF Acquire
      <3>2. HandlesInv' /\ pc' \in [Clients -> PCs]
        BY <1>0, <1>1, <1>2, <2>1, <3>1, HandleStay
      <3> QED BY <1>0, <3>1, <3>2 DEF Types
    <2>2. CASE d # 0
      <3> PICK ref : ref = [node |-> found[c][w], strong |-> 1, buf |-> 1]
        OBVIOUS
      <3>1. refs[c][d] = [node |-> found[c][w], strong |-> 0, buf |-> 1]
        BY <1>0, <2>2 DEF Handles, RefOf
      <3>2. d \in Descs
        BY <1>0, <2>2 DEF Types
      <3>3. ref \in Ref /\ ref = RefOf("done", w, found[c], w)
        BY <1>0 DEF Ref, RefOf, Types
      <3>4. refs' = [refs EXCEPT ![c] = [refs[c] EXCEPT ![d] = [refs[c][d] EXCEPT !.strong = refs[c][d].strong + 1]]]
        BY <2>2 DEF Acquire
      <3>5. [refs[c][d] EXCEPT !.strong = refs[c][d].strong + 1] = ref
        BY <3>1
      <3>6. PICK r2 : r2 = [refs[c] EXCEPT ![d] = ref]
        OBVIOUS
      <3>7. refs' = [refs EXCEPT ![c] = r2]
        BY <3>4, <3>5, <3>6
      <3>8. HandleTypes(lang[c], "acquire", w, handle[c], refs[c], found[c])
        BY <1>0, OfClient
      <3>9. Refers(lang[c], ask[c], pc[c], "done", want[c], handle[c], refs[c], found[c], ref, r2)
        BY <1>0, <1>2, <2>2, <3>3, <3>6, <3>8 DEF Refers
      <3> QED BY <1>0, <1>1, <3>7, <3>9, RefStep
    <2> QED BY <2>1, <2>2
  <1>5. Types'
    BY <1>0, <1>1, <1>4 DEF Types
  <1> QED BY <1>3, <1>4, <1>5 DEF ClientsInv

\* binder_call.
LEMMA NextCall == ASSUME ClientsInv, NEW c \in Clients, Call(c) PROVE ClientsInv'
  <1> DEFINE s == ask[c].svc
             d == handle[c][s]
  <1>0. /\ Types /\ HandlesInv /\ CallsInv /\ CountInv
        /\ want[c] \in Services /\ pc[c] = "call"
        /\ Handles(lang[c], ask[c], "call", want[c], handle[c], refs[c], found[c])
        /\ Called(lang[c], ask[c], "call", target[c], reply[c], result[c], ran[c],
                  Cardinality(Clients))
    BY OfClient DEF Call
  <1>1. /\ pc' = [pc EXCEPT ![c] = "waiting"] /\ "waiting" \in PCs
        /\ target' = [target EXCEPT ![c] = IF d = 0 THEN Manager ELSE refs[c][d].node]
        /\ UNCHANGED <<server, table, cnt, lang, ask, want, handle, refs, found, reply,
                       result, ran>>
    BY DEF Call, servers, started, PCs
  <1>2. s \in Services
    <2>1. ask[c] \in Asks("c")
      BY <1>0 DEF Types
    <2> QED BY <2>1, AskFacts
  <1>3. PICK t : t = IF d = 0 THEN Manager ELSE refs[c][d].node
    OBVIOUS
  <1>4. t = Manager \/ (t \in Nodes /\ t.svc = s)
    <2>1. ASSUME d # 0 PROVE refs[c][d].node = found[c][s] /\ found[c][s] \in Nodes /\ found[c][s].svc = s
      <3>1. /\ found[c][s] \in Nodes /\ found[c][s].svc = s
            /\ refs[c][d] = RefOf("call", want[c], found[c], s)
        BY <1>0, <1>2, <2>1 DEF Handles
      <3>2. RefOf("call", want[c], found[c], s) = [node |-> found[c][s], strong |-> 1, buf |-> 0]
        BY DEF RefOf
      <3> QED BY <3>1, <3>2
    <2> QED BY <1>3, <2>1
  <1>5. target' = [target EXCEPT ![c] = t]
    BY <1>1, <1>3
  <1>6. HandlesInv' /\ pc' \in [Clients -> PCs]
    BY <1>0, <1>1, HandleStay
  <1>7. reply[c] = NoReply /\ result[c] = NoResult /\ ran[c] = <<>>
    BY <1>0 DEF Called, After
  <1>8. CallsInv'
    <2>1. /\ pc'[c] = "waiting" /\ target'[c] = t
          /\ \A u \in Clients : u # c => pc'[u] = pc[u] /\ target'[u] = target[u]
      BY <1>0, <1>1, <1>5 DEF Types
    <2>2. Called(lang[c], ask[c], "waiting", t, reply[c], result[c], ran[c],
                 Cardinality(Clients))
      BY <1>4, <1>7 DEF Called
    <2>3. Called(lang'[c], ask'[c], pc'[c], target'[c], reply'[c], result'[c], ran'[c],
                 Cardinality(Clients))
      BY <1>1, <2>1, <2>2
    <2> QED BY <1>0, <1>1, <2>1, <2>3, CallStep
  <1>9. CountInv'
    BY <1>0, <1>1, CountMove DEF After
  <1>10. Types'
    <2>1. target' \in [Clients -> Nodes \cup {NoNode, Manager}]
      BY <1>0, <1>4, <1>5 DEF Types
    <2> QED BY <1>0, <1>1, <1>6, <2>1 DEF Types
  <1> QED BY <1>6, <1>8, <1>9, <1>10 DEF ClientsInv

\* New references behind the handle looked up, as a change of the descriptors of
\* the client.
LEMMA HandleInHand ==
    ASSUME Types, HandlesInv, NEW c \in Clients, handle[c][want[c]] # 0,
           pc[c] \in {"done", "release"},
           NEW ref \in Ref, NEW q \in PCs \ {"open", "find"},
           lang[c] # "c" => q \notin {"acquire", "done"},
           ref = RefOf(q, want[c], found[c], want[c]),
           refs' = [refs EXCEPT ![c][handle[c][want[c]]] = ref]
    PROVE  \E r2 : /\ refs' = [refs EXCEPT ![c] = r2]
                   /\ Refers(lang[c], ask[c], pc[c], q, want[c], handle[c], refs[c], found[c],
                             ref, r2)
  <1>1. HandleTypes(lang[c], pc[c], want[c], handle[c], refs[c], found[c])
    BY DEF Types, HandleTypes
  <1>2. Handles(lang[c], ask[c], pc[c], want[c], handle[c], refs[c], found[c])
    BY DEF HandlesInv
  <1>3. want[c] \in Services
    BY DEF Types
  <1>4. PICK r2 : r2 = [refs[c] EXCEPT ![handle[c][want[c]]] = ref]
    OBVIOUS
  <1>5. refs' = [refs EXCEPT ![c] = r2]
    BY <1>4
  <1>6. Refers(lang[c], ask[c], pc[c], q, want[c], handle[c], refs[c], found[c], ref, r2)
    BY <1>1, <1>2, <1>3, <1>4 DEF Refers
  <1> QED BY <1>5, <1>6

\* binder_release, and exit: the descriptor goes away.
LEMMA NextRelease == ASSUME ClientsInv, NEW c \in Clients, Release(c) PROVE ClientsInv'
  <1> DEFINE w == want[c]
             d == handle[c][w]
  <1>0. /\ Types /\ HandlesInv /\ CallsInv /\ CountInv
        /\ w \in Services /\ pc[c] = "release"
        /\ Handles(lang[c], ask[c], "release", w, handle[c], refs[c], found[c])
        /\ Called(lang[c], ask[c], "release", target[c], reply[c], result[c], ran[c],
                  Cardinality(Clients))
    BY OfClient DEF Release
  <1>1. /\ pc' = [pc EXCEPT ![c] = "exit"] /\ "exit" \in PCs
        /\ UNCHANGED <<server, table, cnt, lang, ask, want, handle, found, target, reply,
                       result, ran>>
    BY DEF Release, servers, started, PCs
  <1>2. d # 0
    BY <1>0 DEF Handles
  <1>3. refs' = [refs EXCEPT ![c][d] = NoRef]
    <2>1. refs[c][d] = [node |-> found[c][w], strong |-> 1, buf |-> 0]
      BY <1>0, <1>2 DEF Handles, RefOf
    <2>2. refs' = [refs EXCEPT ![c][d] = Kept([refs[c][d] EXCEPT !.strong = refs[c][d].strong - 1])]
      BY DEF Release
    <2>3. [refs[c][d] EXCEPT !.strong = refs[c][d].strong - 1]
            = [node |-> found[c][w], strong |-> 0, buf |-> 0]
      BY <2>1
    <2>4. Kept([node |-> found[c][w], strong |-> 0, buf |-> 0]) = NoRef
      BY DEF Kept
    <2> QED BY <2>2, <2>3, <2>4
  <1>4. NoRef \in Ref /\ NoRef = RefOf("exit", w, found[c], w)
    BY DEF Ref, RefOf, NoRef
  <1>5. PICK r2 : /\ refs' = [refs EXCEPT ![c] = r2]
                  /\ Refers(lang[c], ask[c], pc[c], "exit", want[c], handle[c], refs[c], found[c],
                            NoRef, r2)
    BY <1>0, <1>1, <1>2, <1>3, <1>4, HandleInHand
  <1>6. /\ HandlesInv' /\ pc' \in [Clients -> PCs] /\ refs' \in [Clients -> [Descs -> Ref]]
    BY <1>0, <1>1, <1>5, RefStep
  <1>7. Called(lang'[c], ask'[c], pc'[c], target'[c], reply'[c], result'[c], ran'[c],
               Cardinality(Clients))
    <2>1. pc'[c] = "exit" /\ "release" \in After /\ "exit" \in After
      BY <1>0, <1>1 DEF Types, After
    <2>2. /\ Answered(lang[c], ask[c], target[c], reply[c], ran[c], Cardinality(Clients))
          /\ result[c] = IF ask[c].fn = "say" THEN NoResult ELSE ReadOf(lang[c], reply[c])
      BY <1>0 DEF Called
    <2>3. Called(lang[c], ask[c], "exit", target[c], reply[c], result[c], ran[c],
                 Cardinality(Clients))
      BY <2>1, <2>2 DEF Called
    <2> QED BY <1>1, <2>1, <2>3
  <1>8. CallsInv'
    <2>1. \A u \in Clients : u # c => pc'[u] = pc[u]
      BY <1>0, <1>1 DEF Types
    <2> QED BY <1>0, <1>1, <1>7, <2>1, CallStep
  <1>9. CountInv'
    BY <1>0, <1>1, CountMove DEF After
  <1>10. Types'
    BY <1>0, <1>1, <1>6 DEF Types
  <1> QED BY <1>6, <1>8, <1>9, <1>10 DEF ClientsInv

\* The function returns what the reply is read as.
LEMMA NextReturn == ASSUME ClientsInv, NEW c \in Clients, Return(c) PROVE ClientsInv'
  <1>0. /\ Types /\ HandlesInv /\ CallsInv /\ CountInv /\ pc[c] = "replied"
        /\ Called(lang[c], ask[c], "replied", target[c], reply[c], result[c], ran[c],
                  Cardinality(Clients))
    BY OfClient DEF Return
  <1>1. /\ pc' = [pc EXCEPT ![c] = "release"] /\ "release" \in PCs
        /\ result' = [result EXCEPT ![c] =
                IF ask[c].fn = "say" THEN NoResult ELSE ReadOf(lang[c], reply[c])]
        /\ UNCHANGED <<server, table, cnt, lang, ask, want, handle, refs, found, target, reply,
                       ran>>
    BY DEF Return, servers, started, PCs
  <1>2. HandlesInv' /\ pc' \in [Clients -> PCs]
    BY <1>0, <1>1, HandleStay
  <1>3. Called(lang'[c], ask'[c], pc'[c], target'[c], reply'[c], result'[c], ran'[c],
               Cardinality(Clients))
    <2>1. /\ pc'[c] = "release" /\ "release" \in After
          /\ result'[c] = IF ask[c].fn = "say" THEN NoResult ELSE ReadOf(lang[c], reply[c])
      BY <1>0, <1>1 DEF Types, After
    <2>2. Answered(lang[c], ask[c], target[c], reply[c], ran[c], Cardinality(Clients))
      BY <1>0 DEF Called
    <2>3. Called(lang[c], ask[c], "release", target[c], reply[c], result'[c], ran[c],
                 Cardinality(Clients))
      BY <2>1, <2>2 DEF Called
    <2> QED BY <1>1, <2>1, <2>3
  <1>4. CallsInv'
    <2>1. \A u \in Clients : u # c => pc'[u] = pc[u] /\ result'[u] = result[u]
      BY <1>0, <1>1 DEF Types
    <2> QED BY <1>0, <1>1, <1>3, <2>1, CallStep
  <1>5. CountInv'
    BY <1>0, <1>1, CountMove DEF After
  <1>6. Types'
    BY <1>0, <1>1, <1>2 DEF Types
  <1> QED BY <1>2, <1>4, <1>5, <1>6 DEF ClientsInv

\* binder_done keeps the client's own reference.
LEMMA DoneKeeps ==
    ASSUME Types, HandlesInv, NEW c \in Clients, pc[c] = "done", Done(c),
           NEW d, d = handle[c][want[c]], d # 0,
           NEW ref, ref = [node |-> found[c][want[c]], strong |-> 1, buf |-> 0]
    PROVE  /\ refs' = [refs EXCEPT ![c][d] = ref]
           /\ ref \in Ref /\ ref = RefOf("call", want[c], found[c], want[c])
  <1>0. want[c] \in Services /\ found[c][want[c]] \in Nodes \cup {NoNode}
    BY DEF Types
  <1>1. refs[c][d] = [node |-> found[c][want[c]], strong |-> 1, buf |-> 1]
    <2>1. Handles(lang[c], ask[c], "done", want[c], handle[c], refs[c], found[c])
      BY DEF HandlesInv
    <2>2. refs[c][d] = RefOf("done", want[c], found[c], want[c])
      BY <1>0, <2>1 DEF Handles
    <2> QED BY <2>2 DEF RefOf
  <1>2. refs' = [refs EXCEPT ![c][d] = Kept([refs[c][d] EXCEPT !.buf = 0])]
    BY DEF Done
  <1>3. [refs[c][d] EXCEPT !.buf = 0] = ref
    BY <1>1
  <1>4. Kept(ref) = ref
    BY DEF Kept
  <1>5. ref \in Ref /\ ref = RefOf("call", want[c], found[c], want[c])
    BY <1>0 DEF Ref, RefOf
  <1> QED BY <1>2, <1>3, <1>4, <1>5

\* binder_done for hello: on to the call, or out.
LEMMA NextDoneHello ==
    ASSUME ClientsInv, NEW c \in Clients, Done(c), want[c] = "hello"
    PROVE  ClientsInv'
  <1> DEFINE d == handle[c][want[c]]
  <1>0. /\ Types /\ HandlesInv /\ CallsInv /\ CountInv /\ pc[c] = "done"
        /\ lang[c] = "c"
    BY OfClient DEF Done, Handles
  <1>1. /\ pc' = [pc EXCEPT ![c] = IF d = 0 THEN "exit" ELSE "call"]
        /\ {"exit", "call"} \subseteq PCs
        /\ UNCHANGED <<server, table, cnt, lang, ask, want, handle, found, target, reply,
                       result, ran>>
    BY DEF Done, servers, started, PCs
  <1>2. PICK q \in {"exit", "call"} : q = IF d = 0 THEN "exit" ELSE "call"
    OBVIOUS
  <1>3. pc' = [pc EXCEPT ![c] = q] /\ q \in PCs \ {"waiting", "replied", "release"}
    BY <1>1, <1>2
  <1>4. CallsInv' /\ CountInv'
    <2>1. CallsInv'
      BY <1>0, <1>1, <1>3, CallStay
    <2>2. pc[c] \notin After
      BY <1>0 DEF After
    <2> QED BY <1>0, <1>1, <1>3, <2>1, <2>2, CountMove
  <1>5. /\ HandlesInv' /\ pc' \in [Clients -> PCs]
        /\ refs' \in [Clients -> [Descs -> Ref]]
    <2>1. CASE d = 0
      <3>1. refs' = refs /\ q = "exit"
        BY <1>2, <2>1 DEF Done
      <3>2. HandlesInv' /\ pc' \in [Clients -> PCs]
        BY <1>0, <1>1, <1>3, <2>1, <3>1, HandleStay
      <3> QED BY <1>0, <3>1, <3>2 DEF Types
    <2>2. CASE d # 0
      <3>1. q = "call"
        BY <1>2, <2>2
      <3>2. PICK ref : ref = [node |-> found[c][want[c]], strong |-> 1, buf |-> 0]
        OBVIOUS
      <3>3. /\ refs' = [refs EXCEPT ![c][d] = ref]
            /\ ref \in Ref /\ ref = RefOf("call", want[c], found[c], want[c])
        BY <1>0, <2>2, <3>2, DoneKeeps
      <3>4. PICK r2 : /\ refs' = [refs EXCEPT ![c] = r2]
                      /\ Refers(lang[c], ask[c], pc[c], "call", want[c], handle[c], refs[c],
                                found[c], ref, r2)
        BY <1>0, <1>3, <2>2, <3>1, <3>3, HandleInHand
      <3> QED BY <1>0, <1>1, <1>3, <3>1, <3>4, RefStep
    <2> QED BY <2>1, <2>2
  <1>6. Types'
    BY <1>0, <1>1, <1>5 DEF Types
  <1> QED BY <1>4, <1>5, <1>6 DEF ClientsInv

\* binder_done for goodbye: main looks up hello next.
LEMMA NextDoneGoodbye ==
    ASSUME ClientsInv, NEW c \in Clients, Done(c), want[c] = "goodbye"
    PROVE  ClientsInv'
  <1> DEFINE d == handle[c][want[c]]
  <1>0. /\ Types /\ HandlesInv /\ CallsInv /\ CountInv /\ pc[c] = "done"
        /\ lang[c] = "c"
        /\ Handles(lang[c], ask[c], "done", "goodbye", handle[c], refs[c], found[c])
    BY OfClient DEF Done, Handles
  <1>1. /\ pc' = [pc EXCEPT ![c] = "find"] /\ want' = [want EXCEPT ![c] = "hello"]
        /\ "find" \in PCs \ {"waiting", "replied", "release"}
        /\ UNCHANGED <<server, table, cnt, lang, ask, handle, found, target, reply,
                       result, ran>>
    BY DEF Done, servers, started, PCs
  <1>2. CallsInv' /\ CountInv'
    <2>1. CallsInv'
      BY <1>0, <1>1, CallStay
    <2>2. pc[c] \notin After
      BY <1>0 DEF After
    <2> QED BY <1>0, <1>1, <2>1, <2>2, CountMove
  <1>3. PICK r2 : /\ refs' = [refs EXCEPT ![c] = r2] /\ r2 \in [Descs -> Ref]
                  /\ Handles(lang[c], ask[c], "find", "hello", handle[c], r2, found[c])
    <2>1. CASE d = 0
      <3>1. refs' = [refs EXCEPT ![c] = refs[c]] /\ refs[c] \in [Descs -> Ref]
        BY <1>0, <2>1 DEF Done, Types
      <3>2. Handles(lang[c], ask[c], "find", "hello", handle[c], refs[c], found[c])
        BY <1>0, <2>1, HandlesNext
      <3> QED BY <3>1, <3>2
    <2>2. CASE d # 0
      <3>2. PICK ref : ref = [node |-> found[c][want[c]], strong |-> 1, buf |-> 0]
        OBVIOUS
      <3>3. /\ refs' = [refs EXCEPT ![c][d] = ref]
            /\ ref \in Ref /\ ref = RefOf("call", want[c], found[c], want[c])
        BY <1>0, <2>2, <3>2, DoneKeeps
      <3>4. PICK r2 : /\ refs' = [refs EXCEPT ![c] = r2]
                      /\ Refers(lang[c], ask[c], pc[c], "call", want[c], handle[c], refs[c],
                                found[c], ref, r2)
        <4>1. "call" \in PCs \ {"open", "find"}
          BY DEF PCs
        <4> QED BY <1>0, <2>2, <3>3, <4>1, HandleInHand
      <3>5. HandleTypes(lang[c], "call", "goodbye", handle[c], r2, found[c])
            /\ Handles(lang[c], ask[c], "call", "goodbye", handle[c], r2, found[c])
        BY <3>4, HandlesRef
      <3>6. Handles(lang[c], ask[c], "find", "hello", handle[c], r2, found[c])
        BY <1>0, <3>5, HandlesNext
      <3> QED BY <3>4, <3>5, <3>6 DEF HandleTypes
    <2> QED BY <2>1, <2>2
  <1>4. /\ refs'[c] = r2 /\ pc'[c] = "find" /\ want'[c] = "hello"
        /\ \A u \in Clients : u # c =>
            /\ lang'[u] = lang[u] /\ ask'[u] = ask[u] /\ pc'[u] = pc[u]
            /\ want'[u] = want[u] /\ handle'[u] = handle[u]
            /\ refs'[u] = refs[u] /\ found'[u] = found[u]
    BY <1>0, <1>1, <1>3 DEF Types
  <1>5. HandlesInv'
    <2>1. Handles(lang'[c], ask'[c], pc'[c], want'[c], handle'[c], refs'[c], found'[c])
      BY <1>1, <1>3, <1>4
    <2> QED BY <1>0, <1>4, <2>1, HandleStep
  <1>6. Types'
    BY <1>0, <1>1, <1>3 DEF Types, Services
  <1> QED BY <1>2, <1>5, <1>6 DEF ClientsInv

\* getService, and out when there is none.
LEMMA NextGetService == ASSUME ClientsInv, NEW c \in Clients, GetService(c) PROVE ClientsInv'
  <1> DEFINE w == want[c]
             node == [lang |-> table[w], svc |-> w]
  <1>0. /\ Types /\ HandlesInv /\ CallsInv /\ CountInv
        /\ w \in {"hello", "goodbye"} /\ w \in Services /\ pc[c] = "find" /\ lang[c] # "c"
        /\ HandleTypes(lang[c], "find", w, handle[c], refs[c], found[c])
        /\ Handles(lang[c], ask[c], "find", w, handle[c], refs[c], found[c])
    BY OfClient DEF GetService, Services
  <1>1. UNCHANGED <<server, table, cnt, lang, ask, want, target, reply, result, ran>>
    BY DEF GetService, servers, started
  <1>2. CASE table[w] = "none"
    <2>1. UNCHANGED <<handle, refs, found>> /\ pc' = [pc EXCEPT ![c] = "exit"]
      BY <1>2 DEF GetService
    <2>2. handle[c][w] = 0 /\ "exit" \in PCs
      BY <1>0 DEF Handles, PCs
    <2>3. HandlesInv' /\ pc' \in [Clients -> PCs]
      BY <1>0, <1>1, <2>1, <2>2, HandleStay
    <2>4. CallsInv'
      BY <1>0, <1>1, <2>1, <2>2, CallStay
    <2>5. CountInv'
      BY <1>0, <1>1, <2>1, CountMove DEF After
    <2>6. Types'
      BY <1>0, <1>1, <2>1, <2>3 DEF Types
    <2> QED BY <2>3, <2>4, <2>5, <2>6 DEF ClientsInv
  <1>3. CASE table[w] # "none"
    <2>1. node \in Nodes /\ node.svc = w
      BY <1>0, <1>3 DEF Types, Nodes
    <2> HIDE DEF node
    <2>2. /\ handle' = [handle EXCEPT ![c] = [handle[c] EXCEPT ![w] = 1]]
          /\ refs' = [refs EXCEPT ![c] = [refs[c] EXCEPT ![1] =
                [node |-> node, strong |-> 1, buf |-> 0]]]
          /\ found' = [found EXCEPT ![c] = [found[c] EXCEPT ![w] = node]]
          /\ pc' = [pc EXCEPT ![c] = "call"]
      BY <1>3 DEF GetService, node
    <2>3. NextDesc(w, handle[c]) = 1
      <3>1. w = "hello" => handle[c]["goodbye"] = 0
        BY <1>0 DEF Handles
      <3> QED BY <1>0, <3>1 DEF NextDesc
    <2> PICK h2, r2, f2 : /\ h2 = [handle[c] EXCEPT ![w] = 1]
                          /\ r2 = [refs[c] EXCEPT ![1] = [node |-> node, strong |-> 1, buf |-> 0]]
                          /\ f2 = [found[c] EXCEPT ![w] = node]
      OBVIOUS
    <2>5. /\ handle' = [handle EXCEPT ![c] = h2] /\ refs' = [refs EXCEPT ![c] = r2]
          /\ found' = [found EXCEPT ![c] = f2] /\ pc' = [pc EXCEPT ![c] = "call"]
      BY <2>2
    <2>6. Finds(lang[c], ask[c], "call", want[c], handle[c], refs[c], found[c], node,
                h2, r2, f2)
      BY <1>0, <2>1, <2>3 DEF Finds
    <2> HIDE DEF w
    <2> QED BY <1>0, <1>1, <2>5, <2>6, FoundStep
  <1> QED BY <1>2, <1>3

\* A call is answered.
LEMMA ReplyStep ==
    ASSUME Types, HandlesInv, CallsInv, NEW c \in Clients, pc[c] = "waiting",
           NEW rp, NEW rn,
           Answered(lang[c], ask[c], target[c], rp, rn, Cardinality(Clients)),
           pc' = [pc EXCEPT ![c] = "replied"], reply' = [reply EXCEPT ![c] = rp],
           DOMAIN ran' = Clients, ran'[c] = rn, \A u \in Clients : u # c => ran'[u] = ran[u],
           cnt' \in [Counters -> Nat],
           UNCHANGED <<server, table, lang, ask, want, handle, refs, target, result, found>>
    PROVE  Types' /\ HandlesInv' /\ CallsInv'
  <1>1. "replied" \in PCs /\ "replied" \in After
    BY DEF PCs, After
  <1>2. HandlesInv' /\ pc' \in [Clients -> PCs]
    BY <1>1, HandleStay
  <1>3. /\ pc'[c] = "replied" /\ reply'[c] = rp /\ ran'[c] = rn
        /\ \A u \in Clients : u # c => pc'[u] = pc[u] /\ reply'[u] = reply[u] /\ ran'[u] = ran[u]
    BY DEF Types
  <1>4. result[c] = NoResult
    <2>1. Called(lang[c], ask[c], pc[c], target[c], reply[c], result[c], ran[c], Cardinality(Clients))
      BY DEF CallsInv
    <2> QED BY <2>1 DEF Called, After
  <1>5. Called(lang[c], ask[c], "replied", target[c], rp, result[c], rn, Cardinality(Clients))
    BY <1>1, <1>4 DEF Called
  <1>6. Called(lang'[c], ask'[c], pc'[c], target'[c], reply'[c], result'[c], ran'[c],
               Cardinality(Clients))
    BY <1>3, <1>5
  <1>7. CallsInv'
    BY <1>3, <1>6, CallStep
  <1>8. Types'
    BY <1>2 DEF Types
  <1> QED BY <1>2, <1>7, <1>8

\* A call under way is with a server's object or with the service manager, and
\* has run nothing.
LEMMA Waiting ==
    ASSUME ClientsInv, NEW c \in Clients, pc[c] = "waiting"
    PROVE  /\ target[c] = Manager \/ (target[c] \in Nodes /\ target[c].svc = ask[c].svc)
           /\ reply[c] = NoReply /\ ran[c] = <<>>
           /\ target[c] # NoNode /\ (target[c].lang \in Languages => target[c] # Manager)
  <1>1. Called(lang[c], ask[c], "waiting", target[c], reply[c], result[c], ran[c],
               Cardinality(Clients))
    BY OfClient
  <1>2. target[c] = Manager \/ (target[c] \in Nodes /\ target[c].svc = ask[c].svc)
    BY <1>1 DEF Called, After
  <1>3. /\ Manager.lang \notin Languages /\ Manager.svc = "manager"
        /\ NoNode.svc = "none" /\ \A n \in Nodes : n.svc \in {"hello", "goodbye"}
    BY DEF Manager, NoNode, Nodes, Languages, Services
  <1>4. reply[c] = NoReply /\ ran[c] = <<>>
    BY <1>1 DEF Called, After
  <1> QED BY <1>2, <1>3, <1>4

\* The service manager refuses.
LEMMA NextRefuse == ASSUME ClientsInv, NEW c \in Clients, Refuse(c) PROVE ClientsInv'
  <1>0. /\ Types /\ HandlesInv /\ CallsInv /\ CountInv /\ pc[c] = "waiting"
        /\ target[c] = Manager /\ ran[c] = <<>>
    BY OfClient, Waiting DEF Refuse
  <1>1. PICK rp : rp = [kind |-> "status", ints |-> <<-1>>]
    OBVIOUS
  <1>2. /\ pc' = [pc EXCEPT ![c] = "replied"] /\ reply' = [reply EXCEPT ![c] = rp]
        /\ DOMAIN ran' = Clients /\ ran'[c] = <<>>
        /\ \A u \in Clients : u # c => ran'[u] = ran[u]
        /\ UNCHANGED <<server, table, cnt, lang, ask, want, handle, refs, target, result, found>>
    BY <1>0, <1>1 DEF Refuse, servers, started, Types
  <1>3. Answered(lang[c], ask[c], target[c], rp, <<>>, Cardinality(Clients))
    BY <1>0, <1>1 DEF Answered
  <1>4. Types' /\ HandlesInv' /\ CallsInv'
    BY <1>0, <1>2, <1>3, ReplyStep DEF Types
  <1>5. CountInv'
    BY <1>0, <1>2, CountMove DEF After
  <1> QED BY <1>4, <1>5 DEF ClientsInv

\* The driver fails the call to a dead server.
LEMMA NextDeadReply == ASSUME ClientsInv, NEW c \in Clients, DeadReply(c) PROVE ClientsInv'
  <1>0. /\ Types /\ HandlesInv /\ CallsInv /\ CountInv /\ pc[c] = "waiting"
        /\ ran[c] = <<>> /\ target[c] \in Nodes
    BY OfClient, Waiting DEF DeadReply
  <1>1. PICK rp : rp = [kind |-> "dead", ints |-> <<>>]
    OBVIOUS
  <1>2. /\ pc' = [pc EXCEPT ![c] = "replied"] /\ reply' = [reply EXCEPT ![c] = rp]
        /\ DOMAIN ran' = Clients /\ ran'[c] = <<>>
        /\ \A u \in Clients : u # c => ran'[u] = ran[u]
        /\ UNCHANGED <<server, table, cnt, lang, ask, want, handle, refs, target, result, found>>
    BY <1>0, <1>1 DEF DeadReply, servers, started, Types
  <1>3. Answered(lang[c], ask[c], target[c], rp, <<>>, Cardinality(Clients))
    BY <1>0, <1>1 DEF Answered
  <1>4. Types' /\ HandlesInv' /\ CallsInv'
    BY <1>0, <1>2, <1>3, ReplyStep DEF Types
  <1>5. CountInv'
    BY <1>0, <1>2, CountMove DEF After
  <1> QED BY <1>4, <1>5 DEF ClientsInv

\* The counter of a function that runs.
LEMMA CounterFacts ==
    ASSUME NEW t \in Nodes, NEW fn \in {"say", "say_to"}
    PROVE  CounterOf(t, fn) \in Counters
  <1>1. t.lang \in Languages /\ t.svc \in Services
    BY DEF Nodes
  <1>2. CASE t.lang = "java"
    BY <1>2 DEF CounterOf, Counters
  <1>3. CASE t.lang # "java"
    BY <1>1, <1>3 DEF CounterOf, Counters, Languages
  <1> QED BY <1>2, <1>3

\* The client whose call runs is one more past its call.
LEMMA PastGrows ==
    ASSUME Types, NEW c \in Clients, pc[c] = "waiting", pc' = [pc EXCEPT ![c] = "replied"]
    PROVE  /\ Cardinality(PastCall') = Cardinality(PastCall) + 1
           /\ Cardinality(PastCall) \in Nat /\ Cardinality(Clients) \in Nat
           /\ Cardinality(PastCall') <= Cardinality(Clients)
  <1>1. PastCall' = PastCall \cup {c} /\ c \notin PastCall
    <2>1. \A u \in Clients : pc'[u] = IF u = c THEN "replied" ELSE pc[u]
      BY DEF Types
    <2> QED BY <2>1 DEF PastCall, After
  <1>2. Cardinality(PastCall \cup {c}) = Cardinality(PastCall) + 1
    BY <1>1, PastFacts, FS_AddElement
  <1>3. PastCall' \subseteq Clients
    BY DEF PastCall
  <1>4. Cardinality(PastCall') <= Cardinality(Clients)
    BY <1>3, PastFacts, FS_Subset
  <1> QED BY <1>1, <1>2, <1>4, PastFacts, FS_CardinalityType

\* A server runs the call.
LEMMA NextServe == ASSUME ClientsInv, NEW c \in Clients, Serve(c) PROVE ClientsInv'
  <1> PICK l, a, t, out, k, n :
        /\ l = lang[c] /\ a = ask[c] /\ t = target[c] /\ out = Ran(l, a, t)
        /\ k = CounterOf(t, out.fn) /\ n = cnt[k] + 1
    OBVIOUS
  <1> DEFINE max == Cardinality(Clients)
  <1>0. /\ Types /\ HandlesInv /\ CallsInv /\ CountInv /\ pc[c] = "waiting"
        /\ l \in Languages /\ a \in Asks("c")
        /\ t \in Nodes /\ t.svc = a.svc /\ ran[c] = <<>>
    BY OfClient, Waiting DEF Serve, Types
  <1>1. /\ pc' = [pc EXCEPT ![c] = "replied"]
        /\ UNCHANGED <<server, table, lang, ask, want, handle, refs, target, result, found>>
    BY DEF Serve, servers, started
  <1>2. IF out.fn = "none" THEN cnt' = cnt /\ ran' = ran
        ELSE /\ cnt' = [cnt EXCEPT ![k] = n]
             /\ ran' = [ran EXCEPT ![c] = Append(ran[c],
                    [svc |-> t.svc, fn |-> out.fn, name |-> out.name, count |-> n])]
    BY DEF Serve, Ran, Counted
  <1>3. reply' = [reply EXCEPT ![c] = ReplyWith(out, n)]
    BY DEF Serve, Ran, Counted, ReplyWith
  <1>4. out.fn \in {"none", "say", "say_to"} /\ (out.fn = "none" => ~out.counted)
    BY <1>0, OutcomeFacts
  <1>5. /\ Cardinality(PastCall') = Cardinality(PastCall) + 1
        /\ Cardinality(PastCall) \in Nat /\ max \in Nat /\ Cardinality(PastCall') <= max
    BY <1>0, <1>1, PastGrows
  <1> HIDE DEF max
  <1>6. CASE out.fn = "none"
    <2>1. ReplyWith(out, n) = ReplyWith(out, 1) /\ RanWith(out, t, 1) = <<>>
      BY <1>4, <1>6 DEF ReplyWith, RanWith
    <2>2. Answered(l, a, t, ReplyWith(out, n), <<>>, max)
      <3>1. 1 \in 1..max
        BY <1>5
      <3> QED BY <1>0, <2>1, <3>1 DEF Answered
    <2>3. ran' = ran /\ cnt' = cnt /\ DOMAIN ran' = Clients /\ cnt' \in [Counters -> Nat]
      BY <1>0, <1>2, <1>6 DEF Types
    <2>4. PICK rp : rp = ReplyWith(out, n)
      OBVIOUS
    <2>5. Answered(lang[c], ask[c], target[c], rp, <<>>, Cardinality(Clients))
      BY <2>2, <2>4 DEF max
    <2>6. Types' /\ HandlesInv' /\ CallsInv'
      BY <1>0, <1>1, <1>3, <2>3, <2>4, <2>5, ReplyStep
    <2>7. CountInv'
      BY <1>0, <1>1, <2>3, CountMove DEF After
    <2> QED BY <2>6, <2>7 DEF ClientsInv
  <1>7. CASE out.fn # "none"
    <2>1. k \in Counters
      BY <1>0, <1>4, <1>7, CounterFacts
    <2>2. n \in 1..max
      <3>1. cnt[k] \in Nat /\ cnt[k] <= Cardinality(PastCall)
        BY <1>0, <2>1 DEF CountInv
      <3> QED BY <1>5, <3>1
    <2>3. Append(<<>>, [svc |-> t.svc, fn |-> out.fn, name |-> out.name, count |-> n])
            = RanWith(out, t, n)
      BY <1>7 DEF RanWith
    <2>4. PICK rp, rn : rp = ReplyWith(out, n) /\ rn = RanWith(out, t, n)
      OBVIOUS
    <2>5. Answered(lang[c], ask[c], target[c], rp, rn, Cardinality(Clients))
      BY <1>0, <2>2, <2>4 DEF Answered, max
    <2>6. /\ DOMAIN ran' = Clients /\ ran'[c] = rn
          /\ \A u \in Clients : u # c => ran'[u] = ran[u]
          /\ cnt' \in [Counters -> Nat]
      <3>1. /\ DOMAIN ran' = Clients /\ ran'[c] = rn
            /\ \A u \in Clients : u # c => ran'[u] = ran[u]
        BY <1>0, <1>2, <1>7, <2>3, <2>4 DEF Types
      <3>2. n \in Nat
        BY <1>5, <2>2
      <3>3. cnt \in [Counters -> Nat]
        BY <1>0 DEF Types
      <3>4. cnt' \in [Counters -> Nat]
        BY <1>2, <1>7, <3>2, <3>3
      <3> QED BY <3>1, <3>4
    <2>7. Types' /\ HandlesInv' /\ CallsInv'
      BY <1>0, <1>1, <1>3, <2>4, <2>5, <2>6, ReplyStep
    <2>8. ASSUME NEW i \in Counters PROVE cnt'[i] \in Nat /\ cnt'[i] <= Cardinality(PastCall')
      <3>1. /\ cnt[i] \in Nat /\ cnt[i] <= Cardinality(PastCall)
            /\ cnt[k] \in Nat /\ cnt[k] <= Cardinality(PastCall)
        BY <1>0, <2>1 DEF CountInv
      <3>2. cnt'[i] = IF i = k THEN cnt[k] + 1 ELSE cnt[i]
        BY <1>0, <1>2, <1>7, <2>1 DEF Types
      <3> QED BY <1>5, <3>1, <3>2
    <2>9. CountInv'
      BY <2>8 DEF CountInv
    <2> QED BY <2>7, <2>9 DEF ClientsInv
  <1> QED BY <1>6, <1>7

-----------------------------------------------------------------------------
(* The servers, and the whole.                                             *)

\* A step that is none of the clients'.
LEMMA ServersStep ==
    ASSUME ClientsInv, server' \in [Languages -> {"new", "hello", "up", "dead"}],
           table' \in [Services -> Languages \cup {"none"}],
           UNCHANGED <<cnt, lang, ask, pc, want, handle, refs, target, reply, result, found, ran>>
    PROVE  ClientsInv'
  <1>1. Types'
    BY DEF ClientsInv, Types
  <1>2. HandlesInv' /\ CallsInv'
    BY DEF ClientsInv, HandlesInv, CallsInv
  <1>3. CountInv'
    BY DEF ClientsInv, CountInv, PastCall
  <1> QED BY <1>1, <1>2, <1>3 DEF ClientsInv

\* A server registers.
LEMMA NextPublish == ASSUME ClientsInv, NEW l \in Languages, Publish(l) PROVE ClientsInv'
  <1>0. Types
    BY DEF ClientsInv
  <1>1. UNCHANGED <<cnt, lang, ask, pc, want, handle, refs, target, reply, result, found, ran>>
    BY DEF Publish, started
  <1>2. server' \in [Languages -> {"new", "hello", "up", "dead"}]
    BY <1>0 DEF Publish, Types
  <1>3. table' \in [Services -> Languages \cup {"none"}]
    BY <1>0 DEF Publish, Types
  <1> QED BY <1>1, <1>2, <1>3, ServersStep

\* A server dies.
LEMMA NextServerExit == ASSUME ClientsInv, NEW l \in Languages, ServerExit(l) PROVE ClientsInv'
  <1>0. Types
    BY DEF ClientsInv
  <1>1. UNCHANGED <<cnt, lang, ask, pc, want, handle, refs, target, reply, result, found, ran>>
    BY DEF ServerExit, started
  <1>2. server' \in [Languages -> {"new", "hello", "up", "dead"}]
    BY <1>0 DEF ServerExit, Types
  <1>3. table' \in [Services -> Languages \cup {"none"}]
    BY <1>0 DEF ServerExit, Types
  <1> QED BY <1>1, <1>2, <1>3, ServersStep

\* The service manager forgets a name of a dead one.
LEMMA NextForget == ASSUME ClientsInv, NEW s \in Services, Forget(s) PROVE ClientsInv'
  <1>0. Types
    BY DEF ClientsInv
  <1>1. UNCHANGED <<cnt, lang, ask, pc, want, handle, refs, target, reply, result, found, ran>>
    BY DEF Forget, started
  <1>2. server' \in [Languages -> {"new", "hello", "up", "dead"}]
    BY <1>0 DEF Forget, Types
  <1>3. table' \in [Services -> Languages \cup {"none"}]
    BY <1>0 DEF Forget, Types
  <1> QED BY <1>1, <1>2, <1>3, ServersStep

\* Clients start with no handles and nothing called.
LEMMA InitClients == Init => ClientsInv
  <1> SUFFICES ASSUME Init PROVE ClientsInv
    OBVIOUS
  <1>1. Types
    <2>1. /\ NoRef \in Ref /\ NoNode \in Nodes \cup {NoNode}
          /\ \A a \in Asks("c") : a.svc \in Services
      <3>1. NoNode \in Nodes \cup {NoNode}
        OBVIOUS
      <3>2. NoRef \in Ref
        BY DEF NoRef, Ref
      <3>3. \A a \in Asks("c") : a.svc \in Services
        BY AskFacts
      <3> QED BY <3>1, <3>2, <3>3
    <2>2. refs \in [Clients -> [Descs -> Ref]]
      BY <2>1 DEF Init
    <2>3. want \in [Clients -> Services] /\ pc \in [Clients -> PCs]
      BY <2>1 DEF Init, Services, PCs
    <2> QED BY <2>1, <2>2, <2>3 DEF Init, Types
  <1>2. ASSUME NEW c \in Clients
        PROVE  Handles(lang[c], ask[c], pc[c], want[c], handle[c], refs[c], found[c])
    <2>1. /\ \A s \in Services : handle[c][s] = 0 /\ \A d \in Descs : refs[c][d] = NoRef
          /\ pc[c] = IF lang[c] = "c" THEN "open" ELSE "find"
          /\ want[c] = IF lang[c] = "c" THEN "goodbye" ELSE ask[c].svc
          /\ want[c] \in Services
      BY <1>1 DEF Init, Types
    <2>2. "hello" \in Services /\ "goodbye" \in Services
      BY DEF Services
    <2> QED BY <2>1, <2>2 DEF Handles
  <1>3. ASSUME NEW c \in Clients
        PROVE  Called(lang[c], ask[c], pc[c], target[c], reply[c], result[c], ran[c],
                      Cardinality(Clients))
    <2>1. /\ pc[c] \in {"open", "find"} /\ target[c] = NoNode
          /\ reply[c] = NoReply /\ result[c] = NoResult /\ ran[c] = <<>>
      BY DEF Init, NoReply
    <2> QED BY <2>1 DEF Called, PCs
  <1>4. CountInv
    <2>1. IsFiniteSet(PastCall)
      BY PastFacts
    <2>2. Cardinality(PastCall) \in Nat
      BY <2>1, FS_CardinalityType
    <2>3. \A k \in Counters : cnt[k] = 0
      BY DEF Init
    <2> QED BY <2>2, <2>3 DEF CountInv
  <1> QED BY <1>1, <1>2, <1>3, <1>4 DEF ClientsInv, HandlesInv, CallsInv

\* Every step keeps the invariant.
LEMMA NextClients == ClientsInv /\ [Next]_vars => ClientsInv'
  <1> SUFFICES ASSUME ClientsInv, [Next]_vars PROVE ClientsInv'
    OBVIOUS
  <1>1. ASSUME NEW l \in Languages, Publish(l) \/ ServerExit(l) PROVE ClientsInv'
    BY <1>1, NextPublish, NextServerExit
  <1>2. ASSUME NEW c \in Clients, ClientStep(c) PROVE ClientsInv'
    <2>1. CASE BinderOpen(c)
      BY <2>1, NextBinderOpen
    <2>2. CASE Find(c)
      BY <2>2, NextFind
    <2>3. CASE Acquire(c)
      BY <2>3, NextAcquire
    <2>4. CASE Done(c)
      <3>1. want[c] \in {"hello", "goodbye"}
        BY OfClient DEF Services
      <3> QED BY <2>4, <3>1, NextDoneHello, NextDoneGoodbye
    <2>5. CASE GetService(c)
      BY <2>5, NextGetService
    <2>6. CASE Call(c)
      BY <2>6, NextCall
    <2>7. CASE Return(c)
      BY <2>7, NextReturn
    <2>8. CASE Release(c)
      BY <2>8, NextRelease
    <2> QED BY <1>2, <2>1, <2>2, <2>3, <2>4, <2>5, <2>6, <2>7, <2>8 DEF ClientStep
  <1>3. ASSUME NEW c \in Clients, Serve(c) \/ Refuse(c) \/ DeadReply(c) PROVE ClientsInv'
    BY <1>3, NextServe, NextRefuse, NextDeadReply
  <1>4. CASE UNCHANGED vars
    <2>1. /\ UNCHANGED <<cnt, lang, ask, pc, want, handle, refs, target, reply, result, found, ran>>
          /\ server' = server /\ table' = table
      BY <1>4 DEF vars
    <2>2. /\ server' \in [Languages -> {"new", "hello", "up", "dead"}]
          /\ table' \in [Services -> Languages \cup {"none"}]
      BY <2>1 DEF ClientsInv, Types
    <2> QED BY <2>1, <2>2, ServersStep
  <1>5. ASSUME NEW s \in Services, Forget(s) PROVE ClientsInv'
    BY <1>5, NextForget
  <1> QED BY <1>1, <1>2, <1>3, <1>4, <1>5 DEF Next

\* The invariant holds throughout.
LEMMA ClientsInvariant == Spec => []ClientsInv
  BY InitClients, NextClients, PTL DEF Spec

-----------------------------------------------------------------------------
(* What a client is left with.                                             *)

\* Every result the program returns, by how the call was answered.
LEMMA Results ==
    ASSUME NEW l \in Languages, NEW a \in Asks("c"), NEW max \in Nat,
           NEW t, NEW rp, NEW rn, a.fn = "say_to", Answered(l, a, t, rp, rn, max),
           NEW v, v = ReadOf(l, rp)
    PROVE  /\ v.kind \in {"value", "exception"} /\ v.value \in -1..max
           /\ v.value > 0 =>
                rn = <<[svc |-> a.svc, fn |-> a.fn, name |-> a.name, count |-> v.value]>>
  <1>r. /\ l = "c" => v = CRead(rp)
        /\ l = "cpp" => v = BpRead(rp)
        /\ l = "java" => v = ProxyRead(rp)
    BY DEF ReadOf
  <1>l. l = "c" \/ l = "cpp" \/ l = "java"
    BY DEF Languages
  <1>v. /\ \A i : Value(i) = [kind |-> "value", value |-> i]
        /\ Exception = [kind |-> "exception", value |-> 0]
    BY DEF Value, Exception
  <1>1. CASE rp = [kind |-> "dead", ints |-> <<>>]
    <2>1. CRead(rp) = Value(0) /\ BpRead(rp) = Value(0) /\ ProxyRead(rp) = Exception
      BY <1>1 DEF CRead, BpRead, ProxyRead
    <2> QED BY <1>r, <1>l, <1>v, <2>1
  <1>2. CASE rp = [kind |-> "status", ints |-> <<-1>>]
    <2>1. IntAt(rp, 1) = -1
      BY <1>2 DEF IntAt
    <2>2. CRead(rp) = Value(-1) /\ BpRead(rp) = Value(0)
      BY <1>2, <2>1 DEF CRead, BpRead
    <2>3. ProxyRead(rp) = Exception
      BY <1>2 DEF ProxyRead, UNKNOWN_TRANSACTION
    <2> QED BY <1>r, <1>l, <1>v, <2>2, <2>3
  <1>3. CASE /\ t \in Nodes /\ t.svc = a.svc
             /\ \E n \in 1..max : rp = ReplyWith(Ran(l, a, t), n) /\ rn = RanWith(Ran(l, a, t), t, n)
    <2> PICK out : out = Ran(l, a, t)
      OBVIOUS
    <2> PICK n \in 1..max : rp = ReplyWith(out, n) /\ rn = RanWith(out, t, n)
      BY <1>3
    <2>1. /\ v \in {Value(n), Value(0), Value(-1), Exception}
          /\ v = Value(n) => out.fn = a.fn /\ out.name = a.name
      BY <1>3, ReadFacts
    <2>2. CASE v = Value(n)
      <3>1. v.value = n /\ v.kind = "value"
        BY <1>v, <2>2
      <3>2. out.fn # "none" /\ out.fn = a.fn /\ out.name = a.name
        BY <2>1, <2>2
      <3>3. rn = <<[svc |-> a.svc, fn |-> a.fn, name |-> a.name, count |-> n]>>
        BY <1>3, <3>2 DEF RanWith
      <3> QED BY <3>1, <3>3
    <2>3. CASE v \in {Value(0), Value(-1), Exception}
      BY <1>v, <2>3
    <2> QED BY <2>1, <2>2, <2>3
  <1> QED BY <1>1, <1>2, <1>3 DEF Answered

\* The result of a client, called or not.
LEMMA ResultFacts ==
    ASSUME NEW l \in Languages, NEW a \in Asks("c"), NEW max \in Nat,
           NEW p, NEW t, NEW rp, NEW rs, NEW rn, Called(l, a, p, t, rp, rs, rn, max)
    PROVE  /\ rs \in [kind : {"none", "value", "exception"}, value : -1..max]
           /\ rs.value > 0 =>
                rn = <<[svc |-> a.svc, fn |-> a.fn, name |-> a.name, count |-> rs.value]>>
  <1>1. CASE rs = NoResult
    BY <1>1 DEF NoResult
  <1>2. CASE rs # NoResult
    <2>1. a.fn = "say_to" /\ Answered(l, a, t, rp, rn, max) /\ rs = ReadOf(l, rp)
      BY <1>2, AskFacts DEF Called
    <2>2. /\ rs.kind \in {"value", "exception"} /\ rs.value \in -1..max
          /\ rs.value > 0 =>
               rn = <<[svc |-> a.svc, fn |-> a.fn, name |-> a.name, count |-> rs.value]>>
      BY <2>1, Results
    <2>3. \E k, i : rs = [kind |-> k, value |-> i]
      <3>1. rs \in {CRead(rp), BpRead(rp), ProxyRead(rp)}
        BY <2>1 DEF ReadOf, Languages
      <3>2. \E i : CRead(rp) = Value(i)
        BY DEF CRead
      <3>3. \E i : BpRead(rp) = Value(i)
        BY DEF BpRead
      <3>4. (\E i : ProxyRead(rp) = Value(i)) \/ ProxyRead(rp) = Exception
        BY DEF ProxyRead
      <3> QED BY <3>1, <3>2, <3>3, <3>4 DEF Value, Exception
    <2> QED BY <2>2, <2>3
  <1> QED BY <1>1, <1>2

\* A client's call ran what it asked for, once, with the count it got.
RanAsAsked(a, rs, rn) ==
    \E n : /\ rn = <<[svc |-> a.svc, fn |-> a.fn, name |-> a.name, count |-> n]>>
           /\ a.fn = "say_to" => rs = Value(n)

\* An understanding mix of languages: what was asked ran once, and its count
\* came back.
LEMMA Understood ==
    ASSUME NEW l \in Languages, NEW a \in Asks("c"), NEW max \in Nat,
           NEW p \in {"release", "exit"}, NEW t, NEW rp, NEW rs, NEW rn,
           Called(l, a, p, t, rp, rs, rn, max), {l, t.lang} \in Mix, rp.kind # "dead"
    PROVE  RanAsAsked(a, rs, rn)
  <1>1. t.lang \in Languages
    <2>1. \A x \in Mix : x \subseteq Languages
      BY DEF Mix, Languages
    <2> QED BY <2>1
  <1>2. t # NoNode /\ t # Manager
    <2>1. NoNode.lang \notin Languages /\ Manager.lang \notin Languages
      BY DEF NoNode, Manager, Languages
    <2> QED BY <1>1, <2>1
  <1>3. /\ Answered(l, a, t, rp, rn, max)
        /\ a.fn = "say_to" => rs = ReadOf(l, rp)
    BY <1>2 DEF Called
  <1>4. t \in Nodes /\ t.svc = a.svc
    BY <1>2, <1>3 DEF Answered
  <1> PICK out : out = Ran(l, a, t)
    OBVIOUS
  <1>5. PICK n \in 1..max : rp = ReplyWith(out, n) /\ rn = RanWith(out, t, n)
    BY <1>2, <1>3 DEF Answered
  <1>6. out.fn = a.fn /\ out.name = a.name /\ out.fn # "none"
    BY <1>4, OutcomeFacts
  <1>7. rn = <<[svc |-> a.svc, fn |-> a.fn, name |-> a.name, count |-> n]>>
    BY <1>4, <1>5, <1>6 DEF RanWith
  <1>8. a.fn = "say_to" => rs = Value(n)
    BY <1>3, <1>4, <1>5, ReadFacts
  <1> QED BY <1>7, <1>8 DEF RanAsAsked

\* What was run for a client is at most one call, and its reply is of a known
\* kind.
LEMMA CalledOnce ==
    ASSUME NEW l \in Languages, NEW a \in Asks("c"), NEW max,
           NEW p, NEW t, NEW rp, NEW rs, NEW rn, Called(l, a, p, t, rp, rs, rn, max)
    PROVE  rp.kind \in {"none", "data", "status", "dead"} /\ Len(rn) <= 1
  <1>1. CASE rp = NoReply /\ rn = <<>>
    BY <1>1 DEF NoReply
  <1>2. CASE Answered(l, a, t, rp, rn, max)
    <2>1. CASE rp.kind \in {"dead", "status"} /\ rn = <<>>
      BY <2>1
    <2>2. CASE /\ t \in Nodes
               /\ \E n \in 1..max : rp = ReplyWith(Ran(l, a, t), n) /\ rn = RanWith(Ran(l, a, t), t, n)
      <3> PICK out : out = Ran(l, a, t)
        OBVIOUS
      <3> PICK n \in 1..max : rp = ReplyWith(out, n) /\ rn = RanWith(out, t, n)
        BY <2>2
      <3>1. out.kind \in {"data", "status"}
        BY <2>2, OutcomeFacts
      <3>2. rp.kind = out.kind
        BY DEF ReplyWith
      <3>3. Len(rn) <= 1
        <4>1. CASE out.fn = "none"
          BY <4>1 DEF RanWith
        <4>2. CASE out.fn # "none"
          BY <4>2 DEF RanWith
        <4> QED BY <4>1, <4>2
      <3> QED BY <3>1, <3>2, <3>3
    <2> QED BY <1>2, <2>1, <2>2 DEF Answered
  <1> QED BY <1>1, <1>2 DEF Called

\* HandlesHeld of one client.
HeldBy(l, p, w, h, r, f) ==
    /\ \A s \in Services : h[s] # 0 /\ (p = "exit" => s # w) => r[h[s]].node = f[s]
    /\ p \in {"call", "waiting", "replied", "release", "exit"} => \A d \in Descs : r[d].buf = 0
    /\ p = "exit" => \A d \in Descs : r[d] # NoRef => l = "c" /\ r[d].node.svc = "goodbye"

\* The references of one client, at any time.
LEMMA HeldFacts ==
    ASSUME NEW l, NEW a, NEW p, NEW w \in Services, NEW h, NEW r, NEW f,
           HandleTypes(l, p, w, h, r, f), Handles(l, a, p, w, h, r, f)
    PROVE  HeldBy(l, p, w, h, r, f)
  <1>0. /\ w \in {"hello", "goodbye"} /\ \A s \in Services : s = "hello" \/ s = "goodbye"
        /\ w = "goodbye" => h["hello"] = 0
        /\ \A s \in Services : h[s] # 0 =>
            f[s] \in Nodes /\ f[s].svc = s /\ r[h[s]] = RefOf(p, w, f, s)
        /\ \A d \in Descs : (\A s \in Services : h[s] # d) => r[d] = NoRef
        /\ l # "c" => w = a.svc /\ (w = "hello" => h["goodbye"] = 0)
        /\ \A d \in Descs : d # 0
    BY DEF Handles, Services, Descs
  <1>1. ASSUME NEW s \in Services, h[s] # 0, p = "exit" => s # w PROVE r[h[s]].node = f[s]
    <2>1. RefOf(p, w, f, s).node = f[s]
      BY <1>1 DEF RefOf
    <2> QED BY <1>0, <1>1, <2>1
  <1>2. ASSUME p \in {"call", "waiting", "replied", "release", "exit"}, NEW d \in Descs
        PROVE  r[d].buf = 0
    <2>1. CASE \A s \in Services : h[s] # d
      BY <1>0, <2>1 DEF NoRef
    <2>2. CASE \E s \in Services : h[s] = d
      <3>1. PICK s \in Services : h[s] = d
        BY <2>2
      <3>2. r[d] = RefOf(p, w, f, s)
        BY <1>0, <3>1
      <3> QED BY <1>2, <3>2 DEF RefOf, NoRef
    <2> QED BY <2>1, <2>2
  <1>3. ASSUME p = "exit", NEW d \in Descs, r[d] # NoRef
        PROVE  l = "c" /\ r[d].node.svc = "goodbye"
    <2>1. PICK s \in Services : h[s] = d
      BY <1>0, <1>3
    <2>2. r[d] = RefOf(p, w, f, s) /\ f[s].svc = s /\ h[s] # 0
      BY <1>0, <2>1
    <2>3. s # w /\ r[d].node = f[s]
      BY <1>3, <2>2 DEF RefOf
    <2>4. s = "goodbye" /\ w = "hello"
      BY <1>0, <2>2, <2>3
    <2> QED BY <1>0, <2>2, <2>3, <2>4
  <1> QED BY <1>1, <1>2, <1>3 DEF HeldBy

-----------------------------------------------------------------------------
(* The theorems.                                                           *)

\* Types; a count is never more than the calls that were made, and the only
\* negative result is that of a refused call.
THEOREM ClientTypes == Spec => []TypeOK
  <1>1. ASSUME ClientsInv PROVE TypeOK
    <2>0. Types /\ CallsInv /\ CountInv
      BY <1>1 DEF ClientsInv
    <2>1. Cardinality(PastCall) <= Cardinality(Clients) /\ Cardinality(PastCall) \in Nat
          /\ Cardinality(Clients) \in Nat
      BY PastFacts, FS_Subset, FS_CardinalityType
    <2>2. cnt \in [Counters -> 0..Cardinality(Clients)]
      <3>1. ASSUME NEW k \in Counters PROVE cnt[k] \in 0..Cardinality(Clients)
        <4>1. cnt[k] \in Nat /\ cnt[k] <= Cardinality(PastCall)
          BY <2>0 DEF CountInv
        <4> QED BY <2>1, <4>1
      <3> QED BY <2>0, <3>1 DEF Types
    <2>3. ASSUME NEW c \in Clients, NEW d \in Descs
          PROVE  /\ refs[c][d].node \in Nodes \cup {NoNode}
                 /\ refs[c][d].strong \in 0..1 /\ refs[c][d].buf \in 0..1
      <3>1. refs[c][d] \in Ref
        BY <2>0 DEF Types
      <3> QED BY <3>1 DEF Ref
    <2>4. ASSUME NEW c \in Clients
          PROVE  /\ reply[c].kind \in {"none", "data", "status", "dead"}
                 /\ result[c] \in [kind : {"none", "value", "exception"},
                                   value : -1..Cardinality(Clients)]
                 /\ Len(ran[c]) <= 1
      <3>1. Called(lang[c], ask[c], pc[c], target[c], reply[c], result[c], ran[c],
                   Cardinality(Clients))
        BY <2>0 DEF CallsInv
      <3>2. lang[c] \in Languages /\ ask[c] \in Asks("c")
        BY <2>0 DEF Types
      <3> PICK l, a, p, t, rp, rs, rn, max :
            /\ l = lang[c] /\ a = ask[c] /\ p = pc[c] /\ t = target[c] /\ rp = reply[c]
            /\ rs = result[c] /\ rn = ran[c] /\ max = Cardinality(Clients)
        OBVIOUS
      <3>3. Called(l, a, p, t, rp, rs, rn, max) /\ l \in Languages /\ a \in Asks("c") /\ max \in Nat
        BY <2>1, <3>1, <3>2
      <3>4. rs \in [kind : {"none", "value", "exception"}, value : -1..max]
        BY <3>3, ResultFacts
      <3>5. rp.kind \in {"none", "data", "status", "dead"} /\ Len(rn) <= 1
        BY <3>3, CalledOnce
      <3> QED BY <3>4, <3>5
    <2> QED BY <2>0, <2>2, <2>3, <2>4 DEF TypeOK, Types, PCs
  <1> QED BY <1>1, ClientsInvariant, PTL

\* A handle names what the service manager gave for it, from the lookup to the
\* release, and no client exits with more than its goodbye handle.
THEOREM HandlesAreHeld == Spec => []HandlesHeld
  <1>1. ASSUME ClientsInv PROVE HandlesHeld
    <2>1. ASSUME NEW c \in Clients
          PROVE  /\ \A s \in Services :
                        handle[c][s] # 0 /\ (pc[c] = "exit" => s # want[c])
                            => refs[c][handle[c][s]].node = found[c][s]
                 /\ pc[c] \in {"call", "waiting", "replied", "release", "exit"} =>
                        \A d \in Descs : refs[c][d].buf = 0
                 /\ pc[c] = "exit" => \A d \in Descs : refs[c][d] # NoRef =>
                        lang[c] = "c" /\ refs[c][d].node.svc = "goodbye"
      <3> PICK l, a, p, w, h, r, f :
            /\ l = lang[c] /\ a = ask[c] /\ p = pc[c] /\ w = want[c] /\ h = handle[c]
            /\ r = refs[c] /\ f = found[c]
        OBVIOUS
      <3>1. /\ HandleTypes(l, p, w, h, r, f) /\ Handles(l, a, p, w, h, r, f)
            /\ w \in Services
        BY <1>1, OfClient
      <3>2. HeldBy(l, p, w, h, r, f)
        BY <3>1, HeldFacts
      <3> QED BY <3>2 DEF HeldBy
    <2> QED BY <2>1 DEF HandlesHeld
  <1> QED BY <1>1, ClientsInvariant, PTL

\* A positive count that a client reports is that of the function it asked for,
\* run for the name it gave, whatever the two languages.
THEOREM CountsAreGenuine == Spec => []CountsGenuine
  <1>1. ASSUME ClientsInv PROVE CountsGenuine
    <2>1. ASSUME NEW c \in Clients, result[c].value > 0
          PROVE  ran[c] = <<Asked(c, result[c].value)>>
      <3>1. /\ Called(lang[c], ask[c], pc[c], target[c], reply[c], result[c], ran[c],
                      Cardinality(Clients))
            /\ lang[c] \in Languages /\ ask[c] \in Asks("c")
        BY <1>1 DEF ClientsInv, CallsInv, Types
      <3>2. Cardinality(Clients) \in Nat
        BY PastFacts, FS_CardinalityType
      <3> PICK l, a, p, t, rp, rs, rn, max :
            /\ l = lang[c] /\ a = ask[c] /\ p = pc[c] /\ t = target[c] /\ rp = reply[c]
            /\ rs = result[c] /\ rn = ran[c] /\ max = Cardinality(Clients)
        OBVIOUS
      <3>3. Called(l, a, p, t, rp, rs, rn, max) /\ l \in Languages /\ a \in Asks("c") /\ max \in Nat
        BY <3>1, <3>2
      <3>4. rs.value > 0 =>
                rn = <<[svc |-> a.svc, fn |-> a.fn, name |-> a.name, count |-> rs.value]>>
        BY <3>3, ResultFacts
      <3> QED BY <2>1, <3>4 DEF Asked
    <2> QED BY <2>1 DEF CountsGenuine
  <1> QED BY <1>1, ClientsInvariant, PTL

\* C and C++ understand each other, and Java itself: a call that a live server
\* answered ran what was asked, once, and returned its count.
THEOREM MixesUnderstand == Spec => []Interchangeable
  <1>1. ASSUME ClientsInv PROVE Interchangeable
    <2>1. ASSUME NEW c \in Clients, pc[c] \in {"release", "exit"},
                 {lang[c], target[c].lang} \in Mix, reply[c].kind # "dead"
          PROVE  /\ Len(ran[c]) = 1
                 /\ ran[c] = <<Asked(c, ran[c][1].count)>>
                 /\ ask[c].fn = "say_to" => result[c] = Value(ran[c][1].count)
      <3>1. /\ Called(lang[c], ask[c], pc[c], target[c], reply[c], result[c], ran[c],
                      Cardinality(Clients))
            /\ lang[c] \in Languages /\ ask[c] \in Asks("c")
        BY <1>1 DEF ClientsInv, CallsInv, Types
      <3>2. Cardinality(Clients) \in Nat
        BY PastFacts, FS_CardinalityType
      <3> PICK l, a, p, t, rp, rs, rn, max :
            /\ l = lang[c] /\ a = ask[c] /\ p = pc[c] /\ t = target[c] /\ rp = reply[c]
            /\ rs = result[c] /\ rn = ran[c] /\ max = Cardinality(Clients)
        OBVIOUS
      <3>3. /\ Called(l, a, p, t, rp, rs, rn, max) /\ l \in Languages /\ a \in Asks("c")
            /\ max \in Nat /\ p \in {"release", "exit"} /\ {l, t.lang} \in Mix /\ rp.kind # "dead"
        BY <2>1, <3>1, <3>2
      <3>4. PICK n : /\ rn = <<[svc |-> a.svc, fn |-> a.fn, name |-> a.name, count |-> n]>>
                     /\ a.fn = "say_to" => rs = Value(n)
        <4>1. RanAsAsked(a, rs, rn)
          BY <3>3, Understood
        <4> QED BY <4>1 DEF RanAsAsked
      <3>5. Len(rn) = 1 /\ rn[1].count = n
        BY <3>4
      <3> QED BY <3>4, <3>5 DEF Asked
    <2> QED BY <2>1 DEF Interchangeable
  <1> QED BY <1>1, ClientsInvariant, PTL

================================================================================
