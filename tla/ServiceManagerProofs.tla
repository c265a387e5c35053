-------------------------- MODULE ServiceManagerProofs --------------------------
(***************************************************************************)
(* Proofs about ServiceManager, for any processes, objects, names and       *)
(* requests: type correctness, and the balance of reference counts.        *)
(***************************************************************************)
EXTENDS ServiceManager, FiniteSetTheorems, SequenceTheorems, TLAPS

\* What is true of a call while it is in progress: its message has the name
\* its op needs, only a call in progress has a buffer, the manager's current
\* caller is in a call, a registration under way has its handle in both the
\* buffer and the svcinfo, and a handle in a reply is a handle.
CallsInProgress ==
    /\ \A p \in Procs : request[p].op \in {"add", "find"} => request[p].name \in Names
    /\ \A p \in Procs : request[p].op = "none" => buffer[p] = 0
    /\ pc # "loop" => cur \in Procs /\ request[cur].op # "none"
    /\ pc \in {"acquire", "link"} =>
         /\ request[cur].op = "add"
         /\ buffer[cur] # 0
         /\ si_handle[request[cur].name] = buffer[cur]
    /\ res.kind = "ref" => res.handle # 0

TypeInv == TypeOK /\ CallsInProgress

-----------------------------------------------------------------------------
(* Lemmas about the helpers.                                               *)

\* Handles are positive numbers, so 0 is none of them.
LEMMA HandleFacts ==
    /\ Handle \subseteq Nat \ {0}
    /\ IsFiniteSet(Handle)
  <1>1. Cardinality(Objs) \in Nat
    BY FiniteAssumption, FS_CardinalityType
  <1>2. IsFiniteSet(1..Cardinality(Objs))
    BY <1>1, FS_Interval
  <1> QED BY <1>1, <1>2 DEF Handle

\* The driver's removal of a queued notice leaves a queue of work items.
LEMMA UnqueueType ==
    ASSUME NEW q \in Seq(Work), NEW w
    PROVE  Unqueue(q, w) \in Seq(Work)
  <1>1. CASE \E i \in DOMAIN q : q[i] = w
    <2> DEFINE k == CHOOSE i \in DOMAIN q : q[i] = w
    <2>1. k \in 1..Len(q)
      BY <1>1, LenProperties
    <2> HIDE DEF k
    <2>2. SubSeq(q, 1, k-1) \in Seq(Work) /\ SubSeq(q, k+1, Len(q)) \in Seq(Work)
      <3>1. Len(q) \in Nat /\ \A i \in 1..Len(q) : q[i] \in Work
        BY LenProperties, ElementOfSeq
      <3>2. k \in Int /\ k - 1 \in Int /\ k + 1 \in Int
        BY <2>1, <3>1
      <3>3. \A i \in 1..(k-1) : q[i] \in Work
        BY <2>1, <3>1
      <3>4. \A i \in (k+1)..Len(q) : q[i] \in Work
        BY <2>1, <3>1
      <3>5. SubSeq(q, 1, k-1) \in Seq(Work)
        BY <3>2, <3>3, SubSeqProperties
      <3>6. SubSeq(q, k+1, Len(q)) \in Seq(Work)
        BY <3>1, <3>2, <3>4, SubSeqProperties
      <3> QED BY <3>5, <3>6
    <2>3. RemoveAt(q, k) \in Seq(Work)
      BY <2>2, ConcatProperties DEF RemoveAt
    <2> QED BY <1>1, <2>3 DEF Unqueue, k
  <1>2. CASE ~\E i \in DOMAIN q : q[i] = w
    BY <1>2 DEF Unqueue
  <1> QED BY <1>1, <1>2

\* ... and so does releasing a handle.
LEMMA ReleaseFromType ==
    ASSUME NEW q \in Seq(Work), NEW h
    PROVE  ReleaseFrom(q, h) \in Seq(Work)
  BY UnqueueType DEF ReleaseFrom

\* Taking the head off the manager's queue, or putting a notice in front.
LEMMA QueueFacts ==
    ASSUME NEW q \in Seq(Work)
    PROVE  /\ q # <<>> => Tail(q) \in Seq(Work)
           /\ \A w \in Work : Append(q, w) \in Seq(Work) /\ <<w>> \o q \in Seq(Work)
           /\ \A s \in Seq(Work) : q \o s \in Seq(Work)
  <1>1. q # <<>> => Tail(q) \in Seq(Work)
    BY HeadTailProperties
  <1>2. ASSUME NEW w \in Work PROVE Append(q, w) \in Seq(Work) /\ <<w>> \o q \in Seq(Work)
    OBVIOUS
  <1>3. ASSUME NEW s \in Seq(Work) PROVE q \o s \in Seq(Work)
    BY ConcatProperties
  <1> QED BY <1>1, <1>2, <1>3

\* The notices of an exiting process, in any order, are a queue of work items.
LEMMA NoticesType ==
    ASSUME TypeOK, NEW mine \in SUBSET Handle,
           \A h \in mine : ref_death[h] # NoName,
           NEW s \in SetToSeqs({Dead(h, ref_death[h]) : h \in mine})
    PROVE  s \in Seq(Work)
  <1> DEFINE S == {Dead(h, ref_death[h]) : h \in mine}
             f == [h \in mine |-> Dead(h, ref_death[h])]
  <1>1. IsFiniteSet(mine)
    BY HandleFacts, FS_Subset
  <1>2. f \in Surjection(mine, S)
    BY DEF Surjection
  <1>3. IsFiniteSet(S)
    BY <1>1, <1>2, FS_Surjection
  <1>4. Cardinality(S) \in Nat
    BY <1>3, FS_CardinalityType
  <1>5. S \subseteq Work
    BY DEF TypeOK, Work, Dead
  <1>6. s \in [1..Cardinality(S) -> S]
    BY DEF SetToSeqs
  <1> HIDE DEF S
  <1> QED BY <1>4, <1>5, <1>6, SeqDef

-----------------------------------------------------------------------------
(* Type correctness.                                                       *)

\* The manager starts with no callers, no references and an empty list.
LEMMA InitType == Init => TypeInv
  <1> SUFFICES ASSUME Init PROVE TypeInv
    OBVIOUS
  <1> USE ConstantAssumption
  <1>1. TypeOK
    <2>1. todo \in Seq(Work) /\ svclist \in Seq(Names)
      BY DEF Init
    <2>2. NoCall \in Request /\ NoAnswer \in Answer /\ Plain("empty") \in Replies
      BY DEF NoCall, Call, Request, Ops, NoAnswer, Answer, Plain, Reply, Replies, ReplyKinds
    <2> QED BY <2>1, <2>2 DEF Init, TypeOK
  <1>2. CallsInProgress
    BY DEF Init, CallsInProgress, NoCall, Call, Plain, Reply
  <1> QED BY <1>1, <1>2 DEF TypeInv

\* Dropping a count keeps the driver's tables well formed.
LEMMA ReleaseType ==
    ASSUME TypeOK, NEW h \in Handle \cup {0}, binder_release(h)
    PROVE  /\ ref_node' \in [Handle -> Objs \cup {NoObj}]
           /\ ref_strong' \in [Handle -> Nat]
           /\ ref_death' \in [Handle -> Names \cup {NoName}]
  BY HandleFacts DEF TypeOK, binder_release, DecRef, driver

\* Each caller's step.
LEMMA SendType ==
    ASSUME TypeInv, NEW p \in Procs, NEW req \in Request, Send(p, req),
           req.op # "none", req.op \in {"add", "find"} => req.name \in Names,
           buffer' \in [Procs -> Handle \cup {0}],
           \A q \in Procs : q # p => buffer'[q] = buffer[q]
    PROVE  /\ alive' \subseteq Procs /\ released' \subseteq Procs
           /\ todo' \in Seq(Work)
           /\ request' \in [Procs -> Request]
           /\ answer' \in [Procs -> Answer]
           /\ CallsInProgress'
  <1>1. Txn(p) \in Work
    BY DEF Txn, Work
  <1>2. todo' \in Seq(Work)
    BY <1>1, QueueFacts DEF TypeInv, TypeOK, Send
  <1>3. NoAnswer \in Answer
    BY DEF NoAnswer, Answer
  <1>4. request[p].op = "none" /\ pc' = pc /\ cur' = cur /\ si_handle' = si_handle /\ res' = res
    BY DEF Send, manager
  <1>5. request' = [request EXCEPT ![p] = req]
    BY DEF Send
  <1>6. pc # "loop" => cur # p /\ cur \in Procs
    BY <1>4 DEF TypeInv, CallsInProgress
  <1>7. CallsInProgress'
    <2>1. \A q \in Procs : request'[q] = IF q = p THEN req ELSE request[q]
      BY <1>5 DEF TypeInv, TypeOK
    <2>2. (pc # "loop" => cur \in Procs /\ request[cur].op # "none")'
      BY <2>1, <1>4, <1>6 DEF TypeInv, CallsInProgress
    <2>3. (pc \in {"acquire", "link"} =>
             /\ request[cur].op = "add"
             /\ buffer[cur] # 0
             /\ si_handle[request[cur].name] = buffer[cur])'
      BY <2>1, <1>4, <1>6 DEF TypeInv, CallsInProgress
    <2> QED BY <2>1, <2>2, <2>3, <1>4 DEF TypeInv, CallsInProgress
  <1> QED BY <1>2, <1>3, <1>5, <1>7 DEF TypeInv, TypeOK, Send, procs

\* The steps of the callers and of the driver's clean-up.
LEMMA CallerType ==
    ASSUME TypeInv, NEW p \in Procs,
           SendAdd(p) \/ SendFind(p) \/ SendList(p) \/ SendOther(p) \/ Die(p) \/ Release(p)
    PROVE  TypeInv'
  <1> USE ConstantAssumption
  <1>1. CASE SendAdd(p)
    <2>1. PICK r \in Publish :
            /\ Send(p, Call("add", r.name, r.allow, 0))
            /\ \/ r.obj = NoObj /\ UNCHANGED <<driver, buffer>>
               \/ /\ r.obj \in Objs
                  /\ \E h \in Handle :
                        /\ ref_node' = [ref_node EXCEPT ![h] = r.obj]
                        /\ ref_strong' = [ref_strong EXCEPT ![h] = @ + 1]
                        /\ buffer' = [buffer EXCEPT ![p] = h]
                        /\ UNCHANGED ref_death
      BY <1>1 DEF SendAdd
    <2>2. Call("add", r.name, r.allow, 0) \in Request
      BY DEF Call, Request, Ops
    <2>3. /\ ref_node' \in [Handle -> Objs \cup {NoObj}]
          /\ ref_strong' \in [Handle -> Nat]
          /\ ref_death' \in [Handle -> Names \cup {NoName}]
          /\ buffer' \in [Procs -> Handle \cup {0}]
          /\ \A q \in Procs : q # p => buffer'[q] = buffer[q]
      <3>1. CASE UNCHANGED <<driver, buffer>>
        BY <3>1 DEF TypeInv, TypeOK, driver
      <3>2. CASE ~UNCHANGED <<driver, buffer>>
        <4>1. PICK h \in Handle :
                /\ r.obj \in Objs
                /\ ref_node' = [ref_node EXCEPT ![h] = r.obj]
                /\ ref_strong' = [ref_strong EXCEPT ![h] = @ + 1]
                /\ buffer' = [buffer EXCEPT ![p] = h]
                /\ UNCHANGED ref_death
          BY <2>1, <3>2
        <4> QED BY <4>1 DEF TypeInv, TypeOK
      <3> QED BY <3>1, <3>2
    <2>4. /\ alive' \subseteq Procs /\ released' \subseteq Procs
          /\ todo' \in Seq(Work)
          /\ request' \in [Procs -> Request]
          /\ answer' \in [Procs -> Answer]
          /\ CallsInProgress'
      BY <2>1, <2>2, <2>3, SendType DEF Call
    <2> QED BY <2>1, <2>3, <2>4 DEF TypeInv, TypeOK, Send, manager
  <1>2. CASE SendFind(p) \/ SendList(p) \/ SendOther(p)
    <2>1. PICK req \in Request :
            /\ Send(p, req)
            /\ req.op # "none"
            /\ req.op \in {"add", "find"} => req.name \in Names
      <3>1. CASE SendFind(p)
        BY <3>1 DEF SendFind, Call, Request, Ops
      <3>2. CASE SendList(p)
        BY <3>2 DEF SendList, Call, Request, Ops
      <3>3. CASE SendOther(p)
        BY <3>3 DEF SendOther, Call, Request, Ops
      <3> QED BY <1>2, <3>1, <3>2, <3>3
    <2>2. UNCHANGED <<driver, buffer>>
      BY <1>2 DEF SendFind, SendList, SendOther
    <2>3. /\ buffer' \in [Procs -> Handle \cup {0}]
          /\ \A q \in Procs : q # p => buffer'[q] = buffer[q]
      BY <2>2 DEF TypeInv, TypeOK
    <2>4. /\ alive' \subseteq Procs /\ released' \subseteq Procs
          /\ todo' \in Seq(Work)
          /\ request' \in [Procs -> Request]
          /\ answer' \in [Procs -> Answer]
          /\ CallsInProgress'
      BY <2>1, <2>3, SendType
    <2> QED BY <2>1, <2>2, <2>3, <2>4 DEF TypeInv, TypeOK, Send, manager, driver
  <1>3. CASE Die(p)
    <2>1. NoAnswer \in Answer
      BY DEF NoAnswer, Answer
    <2> QED BY <1>3, <2>1 DEF Die, TypeInv, TypeOK, CallsInProgress, driver, manager
  <1>4. CASE Release(p)
    <2> DEFINE mine == {h \in Handle : /\ ref_node[h] \in Objs
                                       /\ Owner[ref_node[h]] = p
                                       /\ ref_death[h] # NoName}
    <2>1. PICK s \in SetToSeqs({Dead(h, ref_death[h]) : h \in mine}) : todo' = todo \o s
      BY <1>4 DEF Release
    <2>2. s \in Seq(Work)
      BY <2>1, NoticesType DEF TypeInv
    <2>3. todo' \in Seq(Work)
      BY <2>1, <2>2, QueueFacts DEF TypeInv, TypeOK
    <2> QED BY <1>4, <2>3 DEF Release, TypeInv, TypeOK, CallsInProgress, driver, manager
  <1> QED BY <1>1, <1>2, <1>3, <1>4

\* The handlers that only read the manager's state, and a refused ADD.
LEMMA ReadOnlyType ==
    ASSUME TypeInv, NEW p \in Procs, NEW op, Recv(p, op), op # "none",
           NEW r \in Replies, Answered(r), r.kind = "ref" => r.handle # 0,
           todo' = Tail(todo),
           UNCHANGED <<procs, driver, buffer, request, answer, manager>>
    PROVE  TypeInv'
  <1>1. todo' \in Seq(Work)
    BY QueueFacts DEF Recv, TypeInv, TypeOK
  <1>2. TypeOK'
    BY <1>1 DEF TypeInv, TypeOK, Recv, Answered, procs, driver, manager
  <1>3. CallsInProgress'
    BY DEF TypeInv, TypeOK, CallsInProgress, Recv, Answered, manager
  <1> QED BY <1>2, <1>3 DEF TypeInv

\* The handlers: all of svcmgr_handler up to the next command to the driver.
LEMMA HandlerType ==
    ASSUME TypeInv, NEW p \in Procs, Handler(p)
    PROVE  TypeInv'
  <1> USE ConstantAssumption
  <1>1. \A k \in ReplyKinds : Plain(k) \in Replies
    BY DEF Plain, Reply, Replies
  <1>2. CASE Find(p)
    <2> DEFINE h == do_find_service(p, request[p].name)
               r == IF h = 0 THEN Plain("ok") ELSE Reply("ref", h, NoName)
    <2>1. request[p].name \in Names
      BY <1>2 DEF Find, Recv, TypeInv, CallsInProgress
    <2>2. h \in Handle \cup {0}
      BY <2>1 DEF do_find_service, TypeInv, TypeOK
    <2> HIDE DEF h
    <2>3. r \in Replies /\ (r.kind = "ref" => r.handle # 0)
      BY <2>2, <1>1 DEF Reply, Replies, ReplyKinds, Plain
    <2>4. Answered(r)
      BY <1>2 DEF Find, h
    <2> QED BY <1>2, <2>3, <2>4, ReadOnlyType DEF Find
  <1>3. CASE List(p)
    <2> DEFINE i == request[p].index + 1
               r == IF i \in DOMAIN svclist THEN Listed(svclist[i])
                    ELSE Plain("error")
    <2>1. \A j \in DOMAIN svclist : svclist[j] \in Names
      BY LenProperties, ElementOfSeq DEF TypeInv, TypeOK
    <2>2. r \in Replies /\ r.kind # "ref"
      BY <2>1, <1>1 DEF Listed, Reply, Replies, ReplyKinds, Plain
    <2>3. Answered(r)
      BY <1>3 DEF List
    <2> QED BY <1>3, <2>2, <2>3, ReadOnlyType DEF List
  <1>4. CASE Ping(p) \/ Bad(p) \/ AddReject(p) \/ AddNoMemory(p)
    <2>1. PICK k \in {"empty", "error"} : Answered(Plain(k))
      BY <1>4 DEF Ping, Bad, AddReject, AddNoMemory
    <2>2. Plain(k) \in Replies /\ Plain(k).kind # "ref"
      BY <1>1 DEF Plain, Reply, ReplyKinds
    <2>3. PICK op \in {"ping", "bad", "add"} : Recv(p, op)
      BY <1>4 DEF Ping, Bad, AddReject, AddNoMemory
    <2>4. todo' = Tail(todo) /\ UNCHANGED <<procs, driver, buffer, request, answer, manager>>
      BY <1>4 DEF Ping, Bad, AddReject, AddNoMemory
    <2> QED BY <2>1, <2>2, <2>3, <2>4, ReadOnlyType
  <1>5. CASE AddExisting(p)
    <2> DEFINE n == request[p].name
    <2>1. n \in Names
      BY <1>5 DEF AddExisting, Recv, TypeInv, CallsInProgress
    <2>2. si_handle[n] \in Handle \cup {0}
      BY <2>1 DEF TypeInv, TypeOK
    <2>3. /\ binder_release(si_handle[n])
          /\ todo' = ReleaseFrom(Tail(todo), si_handle[n])
          /\ si_handle' = [si_handle EXCEPT ![n] = buffer[p]]
          /\ buffer[p] # 0
      BY <1>5 DEF AddExisting, Acceptable
    <2>4. todo' \in Seq(Work)
      <3>1. Tail(todo) \in Seq(Work)
        BY <1>5, QueueFacts DEF AddExisting, Recv, TypeInv, TypeOK
      <3> QED BY <2>3, <3>1, ReleaseFromType
    <2>5. TypeOK'
      BY <1>5, <2>1, <2>2, <2>3, <2>4, ReleaseType
      DEF AddExisting, Recv, TypeInv, TypeOK, procs
    <2>6. CallsInProgress'
      BY <1>5, <2>1, <2>3 DEF AddExisting, Recv, TypeInv, TypeOK, CallsInProgress
    <2> QED BY <2>5, <2>6 DEF TypeInv
  <1>6. CASE AddNew(p)
    <2> DEFINE n == request[p].name
    <2>1. n \in Names
      BY <1>6 DEF AddNew, Recv, TypeInv, CallsInProgress
    <2>2. todo' \in Seq(Work)
      BY <1>6, QueueFacts DEF AddNew, Recv, TypeInv, TypeOK
    <2>3. svclist' \in Seq(Names)
      BY <1>6, <2>1 DEF AddNew, TypeInv, TypeOK
    <2>4. request[p].allow \in {0, 1}
      BY DEF TypeInv, TypeOK, Request
    <2>5. TypeOK'
      BY <1>6, <2>1, <2>2, <2>3, <2>4
      DEF AddNew, Recv, TypeInv, TypeOK, procs, driver
    <2>6. CallsInProgress'
      BY <1>6, <2>1 DEF AddNew, Acceptable, Recv, TypeInv, TypeOK, CallsInProgress
    <2> QED BY <2>5, <2>6 DEF TypeInv
  <1> QED BY <1>2, <1>3, <1>4, <1>5, <1>6 DEF Handler

\* The manager's remaining steps.
LEMMA CommandType ==
    ASSUME TypeInv, Acquire \/ Link \/ DeadBinder \/ SendReply
    PROVE  TypeInv'
  <1> USE ConstantAssumption
  <1>1. CASE Acquire
    <2>1. buffer[cur] \in Handle
      BY <1>1 DEF Acquire, TypeInv, TypeOK, CallsInProgress
    <2>2. ref_strong' \in [Handle -> Nat]
      <3>1. \/ ref_strong' = ref_strong
            \/ ref_strong' = [ref_strong EXCEPT ![buffer[cur]] = ref_strong[buffer[cur]] + 1]
        BY <1>1 DEF Acquire
      <3>2. ref_strong \in [Handle -> Nat] /\ ref_strong[buffer[cur]] \in Nat
        BY <2>1 DEF TypeInv, TypeOK
      <3> QED BY <2>1, <3>1, <3>2
    <2> QED BY <1>1, <2>2 DEF Acquire, TypeInv, TypeOK, CallsInProgress, procs, manager
  <1>2. CASE Link
    <2>1. cur \in Procs /\ buffer[cur] \in Handle /\ request[cur].name \in Names
      BY <1>2 DEF Link, TypeInv, TypeOK, CallsInProgress
    <2>2. ref_death' \in [Handle -> Names \cup {NoName}]
      BY <1>2, <2>1 DEF Link, TypeInv, TypeOK
    <2>3. Dead(buffer[cur], request[cur].name) \in Work
      BY <2>1 DEF Dead, Work
    <2>4. todo' \in Seq(Work)
      <3>1. \/ todo' = todo
            \/ todo' = <<Dead(buffer[cur], request[cur].name)>> \o todo
        BY <1>2 DEF Link
      <3>2. todo \in Seq(Work)
        BY DEF TypeInv, TypeOK
      <3> QED BY <2>3, <3>1, <3>2, QueueFacts
    <2>5. res' \in Replies /\ res'.kind # "ref" /\ pc' = "reply"
      BY <1>2 DEF Link, Answered, Plain, Reply, Replies, ReplyKinds
    <2>6. TypeOK'
      BY <1>2, <2>2, <2>4, <2>5 DEF Link, TypeInv, TypeOK, procs, manager
    <2>7. CallsInProgress'
      BY <1>2, <2>5 DEF Link, TypeInv, CallsInProgress, manager
    <2> QED BY <2>6, <2>7 DEF TypeInv
  <1>3. CASE DeadBinder
    <2>1. PICK n \in Names :
            /\ binder_release(si_handle[n])
            /\ todo' = ReleaseFrom(Tail(todo), si_handle[n])
            /\ si_handle' = [si_handle EXCEPT ![n] = 0]
      BY <1>3 DEF DeadBinder
    <2>2. Tail(todo) \in Seq(Work)
      BY <1>3, QueueFacts DEF DeadBinder, TypeInv, TypeOK
    <2>3. todo' \in Seq(Work)
      BY <2>1, <2>2, ReleaseFromType
    <2>4. si_handle[n] \in Handle \cup {0}
      BY DEF TypeInv, TypeOK
    <2>5. TypeOK'
      BY <1>3, <2>1, <2>3, <2>4, ReleaseType DEF DeadBinder, TypeInv, TypeOK, procs
    <2>6. CallsInProgress'
      BY <1>3 DEF DeadBinder, TypeInv, TypeOK, CallsInProgress
    <2> QED BY <2>5, <2>6 DEF TypeInv
  <1>4. CASE SendReply
    <2>1. cur \in Procs /\ buffer[cur] \in Handle \cup {0}
      BY <1>4 DEF SendReply, TypeInv, TypeOK, CallsInProgress
    <2>2. todo' \in Seq(Work)
      BY <1>4, ReleaseFromType DEF SendReply, TypeInv, TypeOK
    <2>3. NoCall \in Request /\ NoCall.op = "none" /\ Plain("empty") \in Replies
          /\ Plain("empty").kind = "empty"
      BY DEF NoCall, Call, Request, Ops, Plain, Reply, Replies, ReplyKinds
    <2>4. Delivered(res) \in Answer
      <3>1. /\ res.kind \in ReplyKinds
            /\ res.handle \in Handle \cup {0}
            /\ res.name \in Names \cup {NoName}
            /\ res.kind = "ref" => res.handle \in Handle
        BY DEF TypeInv, TypeOK, CallsInProgress, Replies
      <3>2. res.kind = "ref" => ref_node[res.handle] \in Objs \cup {NoObj}
        BY <3>1 DEF TypeInv, TypeOK
      <3> QED BY <3>1, <3>2 DEF Delivered, Answer, NoAnswer
    <2>5. answer' \in [Procs -> Answer]
      BY <1>4, <2>4 DEF SendReply, TypeInv, TypeOK
    <2>6. TypeOK'
      BY <1>4, <2>1, <2>2, <2>3, <2>5, ReleaseType
      DEF SendReply, TypeInv, TypeOK, procs, manager
    <2>7. CallsInProgress'
      BY <1>4, <2>1, <2>3 DEF SendReply, TypeInv, TypeOK, CallsInProgress
    <2> QED BY <2>6, <2>7 DEF TypeInv
  <1> QED BY <1>1, <1>2, <1>3, <1>4

\* Every step keeps the types and the callers' blocked state.
LEMMA NextType == TypeInv /\ [Next]_vars => TypeInv'
  <1> SUFFICES ASSUME TypeInv, [Next]_vars PROVE TypeInv'
    OBVIOUS
  <1>1. CASE UNCHANGED vars
    BY <1>1 DEF vars, TypeInv, TypeOK, CallsInProgress
  <1>2. CASE Next
    BY <1>2, CallerType, HandlerType, CommandType DEF Next, Manager
  <1> QED BY <1>1, <1>2

\* In every behaviour every variable keeps its type, whatever the processes
\* call and whenever they exit.
THEOREM TypeCorrect == Spec => []TypeOK
  <1>1. TypeInv => TypeOK
    BY DEF TypeInv
  <1> QED BY <1>1, InitType, NextType, PTL DEF Spec

-----------------------------------------------------------------------------
(* Reference counts.                                                       *)

\* How often the function f takes the value h on S, and the same for one
\* value as a number.
Count(f, S, h) == Cardinality({y \in S : f[y] = h})
Is(v, h) == IF v = h THEN 1 ELSE 0

\* Changing f at one point moves one count from the old value to the new.
LEMMA CountUpdate ==
    ASSUME NEW S, IsFiniteSet(S), NEW f, NEW x \in S, NEW v, NEW h,
           NEW g, \A y \in S : g[y] = IF y = x THEN v ELSE f[y]
    PROVE  /\ Count(f, S, h) \in Nat
           /\ Count(g, S, h) \in Nat
           /\ Count(g, S, h) + Is(f[x], h) = Count(f, S, h) + Is(v, h)
           /\ f[x] = h => Count(f, S, h) >= 1
  <1> DEFINE A == {y \in S : f[y] = h}
             B == {y \in S : g[y] = h}
  <1>1. IsFiniteSet(A) /\ IsFiniteSet(B)
    BY FS_Subset
  <1>2. Cardinality(A) \in Nat /\ Cardinality(B) \in Nat
    BY <1>1, FS_CardinalityType
  <1>3. f[x] = h => Cardinality(A) >= 1
    BY <1>1, <1>2, FS_EmptySet
  <1>4. Cardinality(B) + Is(f[x], h) = Cardinality(A) + Is(v, h)
    <2>1. CASE f[x] = h /\ v # h
      <3>1. B = A \ {x} /\ x \in A
        BY <2>1
      <3>2. Cardinality(A \ {x}) = Cardinality(A) - 1
        BY <3>1, <1>1, FS_RemoveElement
      <3>3. Cardinality(B) = Cardinality(A) - 1
        BY <3>1, <3>2
      <3> HIDE DEF A, B
      <3> QED BY <3>3, <2>1, <1>2 DEF Is
    <2>2. CASE f[x] # h /\ v = h
      <3>1. B = A \cup {x} /\ x \notin A
        BY <2>2
      <3>2. Cardinality(A \cup {x}) = Cardinality(A) + 1
        BY <3>1, <1>1, FS_AddElement
      <3>3. Cardinality(B) = Cardinality(A) + 1
        BY <3>1, <3>2
      <3> HIDE DEF A, B
      <3> QED BY <3>3, <2>2, <1>2 DEF Is
    <2>3. CASE (f[x] = h) <=> (v = h)
      <3>1. B = A
        BY <2>3
      <3> HIDE DEF A, B
      <3> QED BY <3>1, <2>3, <1>2 DEF Is
    <2> QED BY <2>1, <2>2, <2>3
  <1> QED BY <1>2, <1>3, <1>4 DEF Count

\* The invariant, for one handle.
RefOK(h) ==
    /\ ref_strong[h] + Unacquired(h) = Count(si_handle, Names, h) + Count(buffer, Procs, h)
    /\ (ref_node[h] = NoObj) <=> (ref_strong[h] = 0)

\* RefsMatchHolders, one handle at a time.
LEMMA RefOKDef == RefsMatchHolders <=> \A h \in Handle : RefOK(h)
  BY DEF RefsMatchHolders, RefOK, Holders, Count

\* Dropping a count that is there.
LEMMA ReleaseCounts ==
    ASSUME TypeOK, RefsMatchHolders, NEW g \in Handle \cup {0}, binder_release(g),
           g # 0 => ref_strong[g] > 0
    PROVE  \A h \in Handle : /\ ref_strong'[h] + Is(g, h) = ref_strong[h]
                             /\ (ref_node'[h] = NoObj) <=> (ref_strong'[h] = 0)
  <1>1. CASE g = 0
    BY <1>1, HandleFacts DEF binder_release, driver, RefsMatchHolders, Is, TypeOK
  <1>2. CASE g \in Handle
    <2>1. g # 0 /\ ref_strong[g] > 0 /\ DecRef(g)
      BY <1>2, HandleFacts DEF binder_release
    <2>2. ref_strong' = [ref_strong EXCEPT ![g] = ref_strong[g] - 1]
      BY <2>1 DEF DecRef
    <2>3. SUFFICES ASSUME NEW h \in Handle
                   PROVE  /\ ref_strong'[h] + Is(g, h) = ref_strong[h]
                          /\ (ref_node'[h] = NoObj) <=> (ref_strong'[h] = 0)
      OBVIOUS
    <2>4. ref_strong[h] \in Nat /\ ref_strong[g] \in Nat
      BY <1>2 DEF TypeOK
    <2>5. CASE h = g
      <3>1. ref_strong'[g] = ref_strong[g] - 1
        BY <2>2, <1>2 DEF TypeOK
      <3>2. ref_node'[g] = IF ref_strong[g] = 1 THEN NoObj ELSE ref_node[g]
        BY <2>1, <1>2 DEF DecRef, IsLast, TypeOK
      <3>3. ref_node[g] # NoObj
        BY <2>1, <2>4, <1>2 DEF RefsMatchHolders
      <3> QED BY <2>1, <2>4, <2>5, <3>1, <3>2, <3>3 DEF Is
    <2>6. CASE h # g
      <3>1. ref_strong'[h] = ref_strong[h] /\ ref_node'[h] = ref_node[h]
        BY <2>1, <2>2, <2>6, <1>2 DEF DecRef, TypeOK
      <3> QED BY <3>1, <2>4, <2>6 DEF RefsMatchHolders, Is
    <2> QED BY <2>5, <2>6
  <1> QED BY <1>1, <1>2

\* Steps that leave the counts, the holders and the window alone.
LEMMA SameCounts ==
    ASSUME RefsMatchHolders, UNCHANGED <<driver, buffer, si_handle>>,
           \A h \in Handle : Unacquired(h)' = Unacquired(h)
    PROVE  RefsMatchHolders'
  BY DEF RefsMatchHolders, Holders, driver

\* A registration request: the driver counts the buffer's reference.
LEMMA SendAddCounts ==
    ASSUME TypeInv, RefsMatchHolders, NEW p \in Procs, SendAdd(p)
    PROVE  RefsMatchHolders'
  <1> USE FiniteAssumption, ConstantAssumption
  <1>1. /\ pc' = pc /\ cur' = cur /\ si_handle' = si_handle
        /\ buffer[p] = 0
        /\ pc = "acquire" => cur \in Procs /\ cur # p
    BY DEF SendAdd, Send, manager, TypeInv, CallsInProgress
  <1>2. CASE UNCHANGED <<driver, buffer>>
    BY <1>1, <1>2, SameCounts DEF Unacquired
  <1>3. CASE ~UNCHANGED <<driver, buffer>>
    <2>1. PICK o \in Objs, g \in Handle :
            /\ ref_node' = [ref_node EXCEPT ![g] = o]
            /\ ref_strong' = [ref_strong EXCEPT ![g] = ref_strong[g] + 1]
            /\ buffer' = [buffer EXCEPT ![p] = g]
      BY <1>3 DEF SendAdd
    <2>2. SUFFICES ASSUME NEW h \in Handle PROVE RefOK(h)'
      BY DEF RefsMatchHolders, RefOK, Holders, Count
    <2>3. RefOK(h)
      BY RefOKDef
    <2>4. ref_strong[h] \in Nat /\ ref_strong'[h] = ref_strong[h] + Is(g, h)
      BY <2>1 DEF TypeInv, TypeOK, Is
    <2>5. /\ Count(buffer, Procs, h) \in Nat /\ Count(buffer', Procs, h) \in Nat
          /\ Count(buffer', Procs, h) + Is(0, h) = Count(buffer, Procs, h) + Is(g, h)
      <3>1. \A y \in Procs : buffer'[y] = IF y = p THEN g ELSE buffer[y]
        BY <2>1 DEF TypeInv, TypeOK
      <3>2. /\ Count(buffer, Procs, h) \in Nat /\ Count(buffer', Procs, h) \in Nat
            /\ Count(buffer', Procs, h) + Is(buffer[p], h)
                 = Count(buffer, Procs, h) + Is(g, h)
        BY <3>1, CountUpdate
      <3> QED BY <1>1, <3>2
    <2>6. Is(0, h) = 0 /\ Is(g, h) \in {0, 1}
      BY HandleFacts DEF Is
    <2>7. Unacquired(h)' = Unacquired(h) /\ Unacquired(h) \in {0, 1}
      BY <1>1, <2>1 DEF Unacquired, TypeInv, TypeOK
    <2>8. (ref_node'[h] = NoObj) <=> (ref_strong'[h] = 0)
      <3>1. CASE h = g
        BY <2>1, <2>4, <3>1 DEF Is, TypeInv, TypeOK
      <3>2. CASE h # g
        BY <2>1, <2>3, <2>4, <3>2 DEF Is, TypeInv, TypeOK, RefOK
      <3> QED BY <3>1, <3>2
    <2>9. Count(si_handle, Names, h) \in Nat
      <3>1. IsFiniteSet({y \in Names : si_handle[y] = h})
        BY FS_Subset
      <3> QED BY <3>1, FS_CardinalityType DEF Count
    <2>10. ref_strong'[h] + Unacquired(h)'
             = Count(si_handle', Names, h) + Count(buffer', Procs, h)
      BY <1>1, <2>3, <2>4, <2>5, <2>6, <2>7, <2>9 DEF RefOK
    <2> QED BY <2>8, <2>10 DEF RefOK
  <1> QED BY <1>2, <1>3

\* Counts are numbers, and what somebody holds has a count.
LEMMA HeldIsCounted ==
    ASSUME TypeInv, RefsMatchHolders, NEW h \in Handle, pc # "acquire"
    PROVE  /\ Count(si_handle, Names, h) \in Nat
           /\ Count(buffer, Procs, h) \in Nat
           /\ ref_strong[h] \in Nat
           /\ ref_strong[h] = Count(si_handle, Names, h) + Count(buffer, Procs, h)
           /\ \A n \in Names : si_handle[n] = h => ref_strong[h] > 0
           /\ \A p \in Procs : buffer[p] = h => ref_strong[h] > 0
  <1> USE FiniteAssumption
  <1>1. Count(si_handle, Names, h) \in Nat /\ Count(buffer, Procs, h) \in Nat
    <2>1. IsFiniteSet({y \in Names : si_handle[y] = h})
          /\ IsFiniteSet({y \in Procs : buffer[y] = h})
      BY FS_Subset
    <2> QED BY <2>1, FS_CardinalityType DEF Count
  <1>2. ref_strong[h] \in Nat
    BY DEF TypeInv, TypeOK
  <1>3. ref_strong[h] = Count(si_handle, Names, h) + Count(buffer, Procs, h)
    BY <1>1, <1>2, RefOKDef DEF RefOK, Unacquired
  <1>4. ASSUME NEW n \in Names, si_handle[n] = h PROVE ref_strong[h] > 0
    <2>1. Count(si_handle, Names, h) >= 1
      <3>1. \A y \in Names : si_handle[y] = IF y = n THEN h ELSE si_handle[y]
        BY <1>4
      <3> QED BY <1>4, <3>1, CountUpdate
    <2> QED BY <1>1, <1>3, <2>1
  <1>5. ASSUME NEW p \in Procs, buffer[p] = h PROVE ref_strong[h] > 0
    <2>1. Count(buffer, Procs, h) >= 1
      <3>1. \A y \in Procs : buffer[y] = IF y = p THEN h ELSE buffer[y]
        BY <1>5
      <3> QED BY <1>5, <3>1, CountUpdate
    <2> QED BY <1>1, <1>3, <2>1
  <1> QED BY <1>1, <1>2, <1>3, <1>4, <1>5

\* svcinfo.handle of n becomes v, after the handle it had is released: the
\* common part of an override, a revival and a death notice.
LEMMA ReplaceCounts ==
    ASSUME TypeInv, RefsMatchHolders, pc # "acquire",
           NEW n \in Names, NEW v \in Handle \cup {0},
           binder_release(si_handle[n]),
           \A m \in Names : si_handle'[m] = IF m = n THEN v ELSE si_handle[m],
           buffer' = buffer,
           \A h \in Handle : Unacquired(h)' = Is(v, h)
    PROVE  RefsMatchHolders'
  <1> USE FiniteAssumption
  <1>1. SUFFICES ASSUME NEW h \in Handle PROVE RefOK(h)'
    BY DEF RefsMatchHolders, RefOK, Holders, Count
  <1> DEFINE old == si_handle[n]
  <1>2. old \in Handle \cup {0}
    BY DEF TypeInv, TypeOK
  <1>3. old # 0 => ref_strong[old] > 0
    BY <1>2, HeldIsCounted
  <1>4. /\ ref_strong'[h] + Is(old, h) = ref_strong[h]
        /\ (ref_node'[h] = NoObj) <=> (ref_strong'[h] = 0)
    BY <1>2, <1>3, ReleaseCounts DEF TypeInv
  <1>5. /\ Count(si_handle', Names, h) \in Nat
        /\ Count(si_handle', Names, h) + Is(old, h) = Count(si_handle, Names, h) + Is(v, h)
    BY CountUpdate
  <1>6. ref_strong'[h] \in Nat
    BY <1>2, ReleaseType DEF TypeInv
  <1>7. Is(old, h) \in {0, 1} /\ Is(v, h) \in {0, 1}
    BY DEF Is
  <1>8. ref_strong'[h] + Unacquired(h)'
          = Count(si_handle', Names, h) + Count(buffer', Procs, h)
    <2> HIDE DEF old
    <2> QED BY <1>4, <1>5, <1>6, <1>7, HeldIsCounted
  <1> QED BY <1>4, <1>8 DEF RefOK

\* Only a name with a svcinfo has a handle.
Unlisted == \A n \in Names : ~find_svc(n) => si_handle[n] = 0

CountInv == TypeInv /\ RefsMatchHolders /\ Unlisted

\* The handlers: only the two that store a handle move a count.
LEMMA HandlerCounts ==
    ASSUME CountInv, NEW p \in Procs, Handler(p)
    PROVE  RefsMatchHolders'
  <1> USE ConstantAssumption DEF CountInv
  <1>1. \A op : Recv(p, op) => pc = "loop" /\ cur' = p
    BY DEF Recv
  <1>2. CASE Find(p) \/ List(p) \/ Ping(p) \/ Bad(p) \/ AddReject(p) \/ AddNoMemory(p)
    <2>1. pc = "loop" /\ pc' = "reply" /\ UNCHANGED <<driver, buffer, si_handle>>
      BY <1>1, <1>2
      DEF Find, List, Ping, Bad, AddReject, AddNoMemory, Answered, manager
    <2> QED BY <2>1, SameCounts DEF Unacquired
  <1>3. CASE AddExisting(p)
    <2> DEFINE n == request[p].name
    <2>1. n \in Names
      BY <1>3 DEF AddExisting, Recv, TypeInv, CallsInProgress
    <2>2. /\ pc = "loop" /\ pc' = "acquire" /\ cur' = p /\ buffer' = buffer
          /\ binder_release(si_handle[n])
          /\ si_handle' = [si_handle EXCEPT ![n] = buffer[p]]
      BY <1>1, <1>3 DEF AddExisting
    <2>3. \A m \in Names : si_handle'[m] = IF m = n THEN buffer[p] ELSE si_handle[m]
      BY <2>1, <2>2 DEF TypeInv, TypeOK
    <2>4. buffer[p] \in Handle \cup {0}
      BY DEF TypeInv, TypeOK
    <2>5. \A h \in Handle : Unacquired(h)' = Is(buffer[p], h)
      BY <2>2 DEF Unacquired, Is
    <2> HIDE DEF n
    <2> QED BY <2>1, <2>2, <2>3, <2>4, <2>5, ReplaceCounts
  <1>4. CASE AddNew(p)
    <2> DEFINE n == request[p].name
    <2>1. n \in Names
      BY <1>4 DEF AddNew, Recv, TypeInv, CallsInProgress
    <2>2. /\ pc = "loop" /\ pc' = "acquire" /\ cur' = p /\ buffer' = buffer
          /\ si_handle' = [si_handle EXCEPT ![n] = buffer[p]]
          /\ UNCHANGED driver
          /\ ~find_svc(n)
      BY <1>1, <1>4 DEF AddNew
    <2>3. \A m \in Names : si_handle'[m] = IF m = n THEN buffer[p] ELSE si_handle[m]
      BY <2>1, <2>2 DEF TypeInv, TypeOK
    <2>4. binder_release(si_handle[n])
      BY <2>1, <2>2 DEF Unlisted, binder_release
    <2>5. buffer[p] \in Handle \cup {0}
      BY DEF TypeInv, TypeOK
    <2>6. \A h \in Handle : Unacquired(h)' = Is(buffer[p], h)
      BY <2>2 DEF Unacquired, Is
    <2> HIDE DEF n
    <2> QED BY <2>1, <2>2, <2>3, <2>4, <2>5, <2>6, ReplaceCounts
  <1> QED BY <1>2, <1>3, <1>4 DEF Handler

\* binder_acquire closes the window that the handler opened.
LEMMA AcquireCounts ==
    ASSUME CountInv, Acquire
    PROVE  RefsMatchHolders'
  <1> USE FiniteAssumption DEF CountInv
  <1> DEFINE g == buffer[cur]
             n == request[cur].name
  <1>1. cur \in Procs /\ g \in Handle /\ n \in Names /\ si_handle[n] = g /\ pc = "acquire"
    BY DEF Acquire, TypeInv, TypeOK, CallsInProgress
  <1>2. pc' = "link" /\ UNCHANGED <<ref_node, buffer, si_handle>>
    BY DEF Acquire, manager
  <1>3. ref_strong[g] \in Nat /\ ref_strong[g] > 0
    <2>1. Count(si_handle, Names, g) \in Nat /\ Count(si_handle, Names, g) >= 1
      <3>1. \A y \in Names : si_handle[y] = IF y = n THEN g ELSE si_handle[y]
        BY <1>1
      <3> HIDE DEF g, n
      <3> QED BY <1>1, <3>1, CountUpdate
    <2>2. Count(buffer, Procs, g) \in Nat /\ Count(buffer, Procs, g) >= 1
      <3>1. \A y \in Procs : buffer[y] = IF y = cur THEN g ELSE buffer[y]
        BY <1>1
      <3>2. buffer[cur] = g
        OBVIOUS
      <3> HIDE DEF g, n
      <3> QED BY <1>1, <3>1, <3>2, CountUpdate
    <2>3. ref_strong[g] \in Nat /\ Unacquired(g) = 1
      BY <1>1 DEF TypeInv, TypeOK, Unacquired
    <2>4. ref_strong[g] + Unacquired(g)
            = Count(si_handle, Names, g) + Count(buffer, Procs, g)
      BY <1>1, RefOKDef DEF RefOK
    <2> HIDE DEF g
    <2> QED BY <2>1, <2>2, <2>3, <2>4
  <1>4. ref_strong' = [ref_strong EXCEPT ![g] = ref_strong[g] + 1]
    BY <1>3 DEF Acquire
  <1>5. SUFFICES ASSUME NEW h \in Handle PROVE RefOK(h)'
    BY DEF RefsMatchHolders, RefOK, Holders, Count
  <1>6. RefOK(h) /\ ref_strong[h] \in Nat
    BY RefOKDef DEF TypeInv, TypeOK
  <1>7. ref_strong'[h] = ref_strong[h] + Unacquired(h) /\ Unacquired(h)' = 0
    BY <1>1, <1>2, <1>4, <1>6 DEF Unacquired, TypeInv, TypeOK
  <1>8. (ref_node'[h] = NoObj) <=> (ref_strong'[h] = 0)
    <2>1. CASE h = g
      BY <2>1, <1>2, <1>3, <1>4, <1>6 DEF RefOK, TypeInv, TypeOK
    <2>2. CASE h # g
      BY <2>2, <1>2, <1>4, <1>6 DEF RefOK, TypeInv, TypeOK
    <2> QED BY <2>1, <2>2
  <1>9. ref_strong'[h] + Unacquired(h)'
          = Count(si_handle', Names, h) + Count(buffer', Procs, h)
    <2>1. Unacquired(h) \in {0, 1}
      BY DEF Unacquired
    <2> QED BY <2>1, <1>2, <1>6, <1>7 DEF RefOK
  <1> QED BY <1>8, <1>9 DEF RefOK

\* binder_send_reply frees the buffer and with it the buffer's count.
LEMMA SendReplyCounts ==
    ASSUME CountInv, SendReply
    PROVE  RefsMatchHolders'
  <1> USE FiniteAssumption DEF CountInv
  <1> DEFINE g == buffer[cur]
  <1>1. /\ cur \in Procs /\ g \in Handle \cup {0}
        /\ pc = "reply" /\ pc' = "loop" /\ si_handle' = si_handle
        /\ binder_release(g)
    BY DEF SendReply, manager, TypeInv, TypeOK, CallsInProgress
  <1>2. \A y \in Procs : buffer'[y] = IF y = cur THEN 0 ELSE buffer[y]
    BY <1>1 DEF SendReply, TypeInv, TypeOK
  <1>3. g # 0 => ref_strong[g] > 0
    BY <1>1, HeldIsCounted
  <1>4. SUFFICES ASSUME NEW h \in Handle PROVE RefOK(h)'
    BY DEF RefsMatchHolders, RefOK, Holders, Count
  <1>5. /\ ref_strong'[h] + Is(g, h) = ref_strong[h]
        /\ (ref_node'[h] = NoObj) <=> (ref_strong'[h] = 0)
    BY <1>1, <1>3, ReleaseCounts DEF TypeInv
  <1>6. /\ Count(buffer', Procs, h) \in Nat
        /\ Count(buffer', Procs, h) + Is(g, h) = Count(buffer, Procs, h) + Is(0, h)
    BY <1>1, <1>2, CountUpdate
  <1>7. ref_strong'[h] \in Nat
    BY <1>1, ReleaseType DEF TypeInv
  <1>8. Is(g, h) \in {0, 1} /\ Is(0, h) = 0 /\ Unacquired(h)' = 0
    BY <1>1, HandleFacts DEF Is, Unacquired
  <1>9. ref_strong'[h] + Unacquired(h)'
          = Count(si_handle', Names, h) + Count(buffer', Procs, h)
    <2>1. /\ Count(si_handle, Names, h) \in Nat /\ Count(buffer, Procs, h) \in Nat
          /\ ref_strong[h] \in Nat
          /\ ref_strong[h] = Count(si_handle, Names, h) + Count(buffer, Procs, h)
      BY <1>1, HeldIsCounted
    <2>2. si_handle' = si_handle
      BY <1>1
    <2> HIDE DEF g
    <2> QED BY <2>1, <2>2, <1>5, <1>6, <1>7, <1>8
  <1> QED BY <1>5, <1>9 DEF RefOK

\* Every step keeps the counts equal to the holders.
LEMMA NextCounts ==
    ASSUME CountInv, Next
    PROVE  RefsMatchHolders'
  <1> USE DEF CountInv
  <1>1. ASSUME NEW p \in Procs, SendFind(p) \/ SendList(p) \/ SendOther(p)
        PROVE  RefsMatchHolders'
    <2>1. UNCHANGED <<driver, buffer, si_handle, pc, cur>>
      BY <1>1 DEF SendFind, SendList, SendOther, Send, manager
    <2> QED BY <2>1, SameCounts DEF Unacquired
  <1>2. ASSUME NEW p \in Procs, Die(p) \/ Release(p)
        PROVE  RefsMatchHolders'
    <2>1. UNCHANGED <<driver, buffer, si_handle, pc, cur>>
      BY <1>2 DEF Die, Release, manager
    <2> QED BY <2>1, SameCounts DEF Unacquired
  <1>3. CASE Link
    <2>1. /\ UNCHANGED <<ref_node, ref_strong, buffer, si_handle>>
          /\ pc = "link" /\ pc' = "reply"
      BY <1>3 DEF Link, Answered, manager
    <2> QED BY <2>1 DEF RefsMatchHolders, Holders, Unacquired
  <1>4. CASE DeadBinder
    <2>1. PICK n \in Names : /\ binder_release(si_handle[n])
                             /\ si_handle' = [si_handle EXCEPT ![n] = 0]
      BY <1>4 DEF DeadBinder
    <2>2. pc = "loop" /\ pc' = pc /\ buffer' = buffer
      BY <1>4 DEF DeadBinder
    <2>3. \A m \in Names : si_handle'[m] = IF m = n THEN 0 ELSE si_handle[m]
      BY <2>1 DEF TypeInv, TypeOK
    <2>4. \A h \in Handle : Unacquired(h)' = Is(0, h)
      BY <2>2, HandleFacts DEF Unacquired, Is
    <2> QED BY <2>1, <2>2, <2>3, <2>4, ReplaceCounts
  <1> QED BY <1>1, <1>2, <1>3, <1>4, SendAddCounts, HandlerCounts, AcquireCounts,
             SendReplyCounts DEF Next, Manager

\* svclist only grows, and AddNew is the only step that gives an unlisted
\* name a handle: the name's own.
LEMMA NextUnlisted ==
    ASSUME CountInv, Next
    PROVE  Unlisted'
  <1> USE DEF CountInv
  <1>1. CASE UNCHANGED <<svclist, si_handle>>
    BY <1>1 DEF Unlisted, find_svc
  <1>2. ASSUME NEW p \in Procs, AddExisting(p) PROVE Unlisted'
    BY <1>2 DEF AddExisting, Unlisted, find_svc, TypeInv, TypeOK
  <1>3. ASSUME NEW p \in Procs, AddNew(p) PROVE Unlisted'
    <2> DEFINE n == request[p].name
    <2>1. n \in Names
      BY <1>3 DEF AddNew, Recv, TypeInv, CallsInProgress
    <2>2. svclist' = <<n>> \o svclist /\ si_handle' = [si_handle EXCEPT ![n] = buffer[p]]
      BY <1>3 DEF AddNew
    <2>3. {n} \cup ToSet(svclist) \subseteq ToSet(<<n>> \o svclist)
      <3> DEFINE t == <<n>> \o svclist
      <3>1. svclist \in Seq(Names) /\ Len(svclist) \in Nat /\ DOMAIN svclist = 1..Len(svclist)
        BY LenProperties DEF TypeInv, TypeOK
      <3>2. <<n>> \in Seq(Names) /\ Len(<<n>>) = 1 /\ <<n>>[1] = n
        BY <2>1
      <3>3. /\ t \in Seq(Names) /\ Len(t) = 1 + Len(svclist)
            /\ \A i \in 1..(1 + Len(svclist)) :
                 t[i] = IF i <= 1 THEN <<n>>[i] ELSE svclist[i - 1]
        BY <3>1, <3>2, ConcatProperties
      <3>4. DOMAIN t = 1..(1 + Len(svclist))
        BY <3>3, LenProperties
      <3>5. t[1] = n /\ 1 \in DOMAIN t
        BY <3>1, <3>2, <3>3, <3>4
      <3>6. \A i \in DOMAIN svclist : t[i + 1] = svclist[i] /\ i + 1 \in DOMAIN t
        BY <3>1, <3>3, <3>4
      <3> HIDE DEF t
      <3>7. {n} \cup ToSet(svclist) \subseteq ToSet(t)
        BY <3>5, <3>6 DEF ToSet
      <3> QED BY <3>7 DEF t
    <2>4. \A m \in Names : m # n => si_handle'[m] = si_handle[m]
      BY <2>2 DEF TypeInv, TypeOK
    <2> HIDE DEF n
    <2> QED BY <2>2, <2>3, <2>4 DEF Unlisted, find_svc
  <1>4. CASE DeadBinder
    BY <1>4 DEF DeadBinder, Unlisted, find_svc, TypeInv, TypeOK
  <1>5. ASSUME NEW p \in Procs,
               SendAdd(p) \/ SendFind(p) \/ SendList(p) \/ SendOther(p) \/ Die(p) \/ Release(p)
        PROVE  UNCHANGED <<svclist, si_handle>>
    BY <1>5 DEF SendAdd, SendFind, SendList, SendOther, Send, Die, Release, manager
  <1>6. ASSUME NEW p \in Procs,
               Find(p) \/ List(p) \/ Ping(p) \/ Bad(p) \/ AddReject(p) \/ AddNoMemory(p)
        PROVE  UNCHANGED <<svclist, si_handle>>
    BY <1>6 DEF Find, List, Ping, Bad, AddReject, AddNoMemory, manager
  <1>7. ASSUME Acquire \/ Link \/ SendReply PROVE UNCHANGED <<svclist, si_handle>>
    BY <1>7 DEF Acquire, Link, SendReply, manager
  <1> QED BY <1>1, <1>2, <1>3, <1>4, <1>5, <1>6, <1>7 DEF Next, Manager, Handler

\* Nothing is held and nothing is counted at the start.
LEMMA InitCounts == Init => CountInv
  <1> SUFFICES ASSUME Init PROVE CountInv
    OBVIOUS
  <1>1. TypeInv
    BY InitType
  <1>2. Unlisted
    BY DEF Init, Unlisted
  <1>3. ASSUME NEW h \in Handle
        PROVE  ref_strong[h] + Unacquired(h) = Holders(h) /\ ref_node[h] = NoObj /\ ref_strong[h] = 0
    <2>1. {n \in Names : si_handle[n] = h} = {} /\ {p \in Procs : buffer[p] = h} = {}
      BY HandleFacts DEF Init
    <2>2. Holders(h) = 0
      BY <2>1, FS_EmptySet DEF Holders
    <2> QED BY <2>2 DEF Init, Unacquired
  <1> QED BY <1>1, <1>2, <1>3 DEF CountInv, RefsMatchHolders

\* In every behaviour, for any number of processes, objects and names, the
\* driver's strong count of each of the manager's handles is the number of
\* svcinfo entries and message buffers that hold it, and a handle that is
\* held names an object: do_add_service, svcinfo_death and binder_send_reply
\* neither leak a reference nor use one that is gone.
THEOREM ReferencesBalanced == Spec => []RefsMatchHolders
  <1>1. CountInv /\ [Next]_vars => CountInv'
    <2> SUFFICES ASSUME CountInv, [Next]_vars PROVE CountInv'
      OBVIOUS
    <2>1. TypeInv'
      BY NextType DEF CountInv
    <2>2. CASE UNCHANGED vars
      BY <2>1, <2>2 DEF vars, CountInv, RefsMatchHolders, Holders, Unacquired, Unlisted, find_svc
    <2>3. CASE Next
      BY <2>1, <2>3, NextCounts, NextUnlisted DEF CountInv
    <2> QED BY <2>2, <2>3
  <1>2. CountInv => RefsMatchHolders
    BY DEF CountInv
  <1> QED BY <1>1, <1>2, InitCounts, PTL DEF Spec
===============================================================================
