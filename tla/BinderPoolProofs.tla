--------------------------- MODULE BinderPoolProofs ---------------------------
(***************************************************************************)
(* Proofs about BinderPool, for any clients, any number of threads and any *)
(* services: types, the place of every call, the size of the pool, and     *)
(* what racing handlers may make of the counters.                          *)
(***************************************************************************)
EXTENDS BinderPool, FiniteSetTheorems, SequenceTheorems, TLAPS

\* Where a thread has a call in its hands.
Serving == {"handle", "load", "store", "fetch", "reply"}

\* A call is with one thread or in one place of the queue, and its client
\* waits; a waiting client's call is somewhere.
Placed ==
    /\ \A t \in Threads : cur[t] # NoCaller => st[cur[t]] = "waiting"
    /\ \A t, u \in Threads : cur[t] = cur[u] /\ cur[t] # NoCaller => t = u
    /\ \A i \in 1..Len(todo) : st[todo[i]] = "waiting"
    /\ \A i, j \in 1..Len(todo) : todo[i] = todo[j] => i = j
    /\ \A i \in 1..Len(todo), t \in Threads : todo[i] # cur[t]
    /\ \A c \in Callers : st[c] = "waiting" =>
            (\E i \in 1..Len(todo) : todo[i] = c) \/ (\E t \in Threads : cur[t] = c)

\* What a thread's place in binder_parse and the handler says about its call.
AtWork ==
    /\ released => ~alive
    /\ \A t \in Threads : pc[t] \in Serving => cur[t] # NoCaller
    /\ \A t \in Threads : cur[t] # NoCaller => pc[t] \in Serving \cup {"spawn"}
    /\ \A t \in Threads : alive /\ pc[t] \in {"load", "store", "fetch"} => req[cur[t]].fn # "bad"
    /\ \A t \in Threads : pc[t] = "store" => tmp[t] \in Nat

PlaceInv == TypeOK /\ AtWork /\ (~released => Placed)

-----------------------------------------------------------------------------
(* The queue.                                                              *)

\* Queueing a call and taking the first one.
LEMMA TodoFacts ==
    ASSUME NEW q \in Seq(Callers)
    PROVE  /\ Len(q) \in Nat /\ DOMAIN q = 1..Len(q)
           /\ \A i \in 1..Len(q) : q[i] \in Callers
           /\ \A c \in Callers :
                /\ Append(q, c) \in Seq(Callers) /\ Len(Append(q, c)) = Len(q) + 1
                /\ Append(q, c)[Len(q) + 1] = c
                /\ \A i \in 1..Len(q) : Append(q, c)[i] = q[i]
           /\ q # <<>> =>
                /\ Tail(q) \in Seq(Callers) /\ Len(Tail(q)) = Len(q) - 1
                /\ Head(q) = q[1] /\ 1 \in 1..Len(q)
                /\ \A i \in 1..Len(Tail(q)) : Tail(q)[i] = q[i + 1]
  <1>1. Len(q) \in Nat /\ DOMAIN q = 1..Len(q) /\ \A i \in 1..Len(q) : q[i] \in Callers
    BY LenProperties, ElementOfSeq
  <1>2. ASSUME NEW c \in Callers
        PROVE  /\ Append(q, c) \in Seq(Callers) /\ Len(Append(q, c)) = Len(q) + 1
               /\ Append(q, c)[Len(q) + 1] = c
               /\ \A i \in 1..Len(q) : Append(q, c)[i] = q[i]
    BY <1>1, AppendProperties
  <1>3. ASSUME q # <<>>
        PROVE  /\ Tail(q) \in Seq(Callers) /\ Len(Tail(q)) = Len(q) - 1
               /\ Head(q) = q[1] /\ 1 \in 1..Len(q)
               /\ \A i \in 1..Len(Tail(q)) : Tail(q)[i] = q[i + 1]
    <2>1. Len(q) # 0
      BY <1>3, EmptySeq
    <2> QED BY <1>1, <1>3, <2>1, HeadTailProperties
  <1> QED BY <1>1, <1>2, <1>3

-----------------------------------------------------------------------------
(* Types and places.                                                       *)

\* No call has been made.
LEMMA InitPlace == Init => PlaceInv
  <1> SUFFICES ASSUME Init PROVE PlaceInv
    OBVIOUS
  <1> USE PoolAssumption
  <1>1. todo \in Seq(Callers) /\ Len(todo) = 0
    BY EmptySeq DEF Init
  <1>0. req \in [Callers -> Request]
    BY DEF Init, Request, Fns
  <1>2. pc \in [Threads -> PCs] /\ cur \in [Threads -> Callers \cup {NoCaller}]
    BY DEF Init, PCs
  <1>a. tmp \in [Threads -> Int] /\ btd \in [Threads -> Threads \cup {"none", "stale"}]
    BY DEF Init
  <1>b. cnt \in [Counters -> Nat]
    BY DEF Init
  <1>c. st \in [Callers -> {"idle", "waiting", "replied", "failed"}]
    BY DEF Init
  <1>d. reply \in [Callers -> Int] /\ result \in [Callers -> Int] /\ calls \in [Callers -> Nat]
    BY DEF Init
  <1>e. alive \in BOOLEAN /\ released \in BOOLEAN /\ requested \in Nat /\ started \in Nat
    BY DEF Init
  <1>3. TypeOK
    BY <1>0, <1>1, <1>2, <1>a, <1>b, <1>c, <1>d, <1>e DEF TypeOK
  <1>7. AtWork
    BY DEF Init, AtWork, Serving
  <1>4. \A t \in Threads : cur[t] = NoCaller
    BY DEF Init
  <1>5. \A c \in Callers : st[c] # "waiting"
    BY DEF Init
  <1>6. Placed
    BY <1>1, <1>4, <1>5 DEF Placed
  <1> QED BY <1>3, <1>6, <1>7 DEF PlaceInv

\* A client's call is queued at the end; its answer moves nothing.
LEMMA CallerPlace ==
    ASSUME PlaceInv, NEW c \in Callers, Call(c) \/ Finish(c) \/ Fail(c)
    PROVE  PlaceInv'
  <1> USE PoolAssumption DEF PlaceInv
  <1>1. CASE Call(c)
    <2>1. /\ st[c] = "idle" /\ UNCHANGED <<alive, released, pool, pc, cur, tmp, btd, cnt>>
          /\ calls' = [calls EXCEPT ![c] = calls[c] + 1] /\ UNCHANGED <<reply, result>>
      BY <1>1 DEF Call
    <2>2. PICK r \in Request : req' = [req EXCEPT ![c] = r]
      BY <1>1 DEF Call
    <2>3. CASE released
      <3>1. st' = [st EXCEPT ![c] = "failed"] /\ todo' = todo
        BY <1>1, <2>3 DEF Call
      <3>2. TypeOK'
        BY <2>1, <2>2, <3>1 DEF TypeOK, pool
      <3>3. AtWork'
        BY <2>1, <2>3 DEF AtWork
      <3> QED BY <2>1, <2>3, <3>2, <3>3
    <2>4. CASE ~released
      <3>1. st' = [st EXCEPT ![c] = "waiting"] /\ todo' = Append(todo, c)
        BY <1>1, <2>4 DEF Call
      <3>2. TypeOK'
        BY <2>1, <2>2, <3>1, TodoFacts DEF TypeOK, pool
      <3>3. \A t \in Threads : cur[t] # c
        BY <2>1, <2>4 DEF Placed
      <3>4. AtWork'
        BY <2>1, <2>2, <2>4, <3>3 DEF AtWork, TypeOK, Serving
      <3>5. Placed'
        <4>1. /\ Len(todo) \in Nat /\ Len(todo') = Len(todo) + 1 /\ todo'[Len(todo) + 1] = c
              /\ \A i \in 1..Len(todo) : todo'[i] = todo[i] /\ todo[i] \in Callers
          BY <3>1, TodoFacts DEF TypeOK
        <4>2. \A d \in Callers : st'[d] = IF d = c THEN "waiting" ELSE st[d]
          BY <3>1 DEF TypeOK
        <4>3. \A i \in 1..Len(todo) : todo[i] # c
          BY <2>1, <2>4 DEF Placed
        <4>4. \A i \in 1..Len(todo') : i = Len(todo) + 1 \/ i \in 1..Len(todo)
          BY <4>1
        <4>5. \A t \in Threads : cur[t] # NoCaller => cur[t] \in Callers
          BY DEF TypeOK
        <4>0. cur' = cur
          BY <2>1
        <4>6. ASSUME NEW t \in Threads, cur[t] # NoCaller
              PROVE  st'[cur[t]] = "waiting"
          BY <2>4, <4>2, <4>5, <4>6 DEF Placed
        <4>7. ASSUME NEW i \in 1..Len(todo')
              PROVE  /\ st'[todo'[i]] = "waiting"
                     /\ \A j \in 1..Len(todo') : todo'[i] = todo'[j] => i = j
                     /\ \A t \in Threads : todo'[i] # cur[t]
          <5>1. CASE i = Len(todo) + 1
            BY <3>3, <4>1, <4>2, <4>3, <4>4, <5>1
          <5>2. CASE i \in 1..Len(todo)
            <6>1. todo'[i] = todo[i] /\ todo[i] \in Callers /\ todo[i] # c
              BY <4>1, <4>3, <5>2
            <6>2. st'[todo'[i]] = "waiting"
              BY <2>4, <4>2, <5>2, <6>1 DEF Placed
            <6>3. ASSUME NEW j \in 1..Len(todo'), todo'[i] = todo'[j] PROVE i = j
              BY <2>4, <4>1, <4>4, <5>2, <6>1, <6>3 DEF Placed
            <6>4. \A t \in Threads : todo'[i] # cur[t]
              BY <2>4, <5>2, <6>1 DEF Placed
            <6> QED BY <6>2, <6>3, <6>4
          <5> QED BY <4>4, <5>1, <5>2
        <4>8. \A d \in Callers : st'[d] = "waiting" =>
                (\E i \in 1..Len(todo') : todo'[i] = d) \/ (\E t \in Threads : cur'[t] = d)
          <5> SUFFICES ASSUME NEW d \in Callers, st'[d] = "waiting", \A t \in Threads : cur[t] # d
                       PROVE  \E i \in 1..Len(todo') : todo'[i] = d
            BY <2>1
          <5>1. CASE d = c
            BY <4>1, <5>1
          <5>2. CASE d # c
            <6>1. PICK i \in 1..Len(todo) : todo[i] = d
              BY <2>4, <4>2, <5>2 DEF Placed
            <6> QED BY <4>1, <6>1
          <5> QED BY <5>1, <5>2
        <4>9. \A t, u \in Threads : cur[t] = cur[u] /\ cur[t] # NoCaller => t = u
          BY <2>4 DEF Placed
        <4> QED BY <4>0, <4>6, <4>7, <4>8, <4>9 DEF Placed
      <3> QED BY <3>2, <3>4, <3>5
    <2> QED BY <2>3, <2>4
  <1>2. CASE Finish(c) \/ Fail(c)
    <2>1. /\ st[c] # "waiting" /\ st' = [st EXCEPT ![c] = "idle"]
          /\ UNCHANGED <<alive, released, todo, pool, pc, cur, tmp, btd, cnt, req, calls>>
      BY <1>2 DEF Finish, Fail
    <2>2. reply' \in [Callers -> Int] /\ result' \in [Callers -> Int]
      BY <1>2 DEF Finish, Fail, TypeOK
    <2>3. TypeOK'
      BY <2>1, <2>2 DEF TypeOK, pool
    <2>4. AtWork'
      BY <2>1 DEF AtWork
    <2>5. ~released => Placed'
      <3> SUFFICES ASSUME ~released PROVE Placed'
        OBVIOUS
      <3>1. \A d \in Callers : /\ st'[d] = "waiting" <=> st[d] = "waiting"
        BY <2>1 DEF TypeOK
      <3>2. \A i \in 1..Len(todo) : todo[i] \in Callers
        BY TodoFacts DEF TypeOK
      <3>3. \A t \in Threads : cur[t] # NoCaller => cur[t] \in Callers
        BY DEF TypeOK
      <3> QED BY <2>1, <3>1, <3>2, <3>3 DEF Placed
    <2> QED BY <2>1, <2>3, <2>4, <2>5
  <1> QED BY <1>1, <1>2

\* Places depend on the queue, the threads' calls and the clients' states.
LEMMA SamePlaces == Placed /\ UNCHANGED <<todo, cur, st>> => Placed'
  BY DEF Placed

\* A read either starts a thread or goes on.
LEMMA ReadReturnsFacts ==
    ASSUME TypeOK, NEW t \in Threads, NEW next \in PCs, ReadReturns(t, next)
    PROVE  /\ requested' \in Nat
           /\ \E p \in {next, "spawn"} : pc' = [pc EXCEPT ![t] = p]
  BY DEF ReadReturns, TypeOK

\* The first call of the queue goes to the thread that reads.
LEMMA ReadPlace ==
    ASSUME PlaceInv, NEW t \in Threads, Read(t)
    PROVE  PlaceInv'
  <1> USE PoolAssumption DEF PlaceInv
  <1>1. /\ alive /\ ~released /\ pc[t] = "wait" /\ todo # <<>> /\ cur[t] = NoCaller
        /\ cur' = [cur EXCEPT ![t] = Head(todo)] /\ todo' = Tail(todo)
        /\ UNCHANGED <<alive, released, started, tmp, btd, cnt>> /\ UNCHANGED callers
    BY DEF Read, AtWork, Serving
  <1>2. /\ Len(todo) \in Nat /\ todo' \in Seq(Callers) /\ Len(todo') = Len(todo) - 1
        /\ Head(todo) = todo[1] /\ 1 \in 1..Len(todo) /\ todo[1] \in Callers
    BY <1>1, TodoFacts DEF TypeOK
  <1>3. \A i \in 1..Len(todo') : todo'[i] = todo[i + 1] /\ i + 1 \in 1..Len(todo) /\ i + 1 # 1
    BY <1>1, <1>2, TodoFacts DEF TypeOK
  <1>4. requested' \in Nat /\ \E p \in {"handle", "spawn"} : pc' = [pc EXCEPT ![t] = p]
    BY ReadReturnsFacts DEF Read, PCs
  <1>5. TypeOK'
    <2>1. pc' \in [Threads -> PCs]
      BY <1>4 DEF TypeOK, PCs
    <2>2. cur' \in [Threads -> Callers \cup {NoCaller}]
      BY <1>1, <1>2 DEF TypeOK
    <2> QED BY <1>1, <1>2, <1>4, <2>1, <2>2 DEF TypeOK, callers
  <1>6. \A u \in Threads : /\ cur'[u] = IF u = t THEN todo[1] ELSE cur[u]
                           /\ u # t => pc'[u] = pc[u]
                           /\ u = t => pc'[u] \in {"handle", "spawn"}
    BY <1>1, <1>2, <1>4 DEF TypeOK
  <1>7. req' = req /\ st' = st /\ tmp' = tmp /\ alive' = alive /\ released' = released
    BY <1>1 DEF callers
  <1>8. AtWork'
    <2>1. ASSUME NEW u \in Threads
          PROVE  /\ pc'[u] \in Serving => cur'[u] # NoCaller
                 /\ cur'[u] # NoCaller => pc'[u] \in Serving \cup {"spawn"}
                 /\ pc'[u] \in {"load", "store", "fetch"} => req[cur'[u]].fn # "bad"
                 /\ pc'[u] = "store" => tmp[u] \in Nat
      BY <1>1, <1>2, <1>6 DEF AtWork, Serving
    <2> QED BY <1>1, <1>7, <2>1 DEF AtWork
  <1>9. Placed'
    <2>0. Placed
      BY <1>1
    <2>1. ASSUME NEW u \in Threads, cur'[u] # NoCaller PROVE st[cur'[u]] = "waiting"
      BY <1>2, <1>6, <2>0, <2>1 DEF Placed
    <2>2. ASSUME NEW u \in Threads, NEW v \in Threads, cur'[u] = cur'[v], cur'[u] # NoCaller
          PROVE  u = v
      BY <1>2, <1>6, <2>0, <2>2 DEF Placed
    <2>3. ASSUME NEW i \in 1..Len(todo') PROVE st[todo'[i]] = "waiting"
      BY <1>3, <2>0 DEF Placed
    <2>4. ASSUME NEW i \in 1..Len(todo'), NEW j \in 1..Len(todo'), todo'[i] = todo'[j] PROVE i = j
      <3>1. i + 1 = j + 1
        BY <1>3, <2>0, <2>4 DEF Placed
      <3> QED BY <3>1
    <2>5. ASSUME NEW i \in 1..Len(todo'), NEW u \in Threads PROVE todo'[i] # cur'[u]
      <3>1. todo[i + 1] # todo[1]
        BY <1>2, <1>3, <2>0 DEF Placed
      <3>2. todo[i + 1] # cur[u]
        BY <1>3, <2>0 DEF Placed
      <3> QED BY <1>3, <1>6, <3>1, <3>2
    <2>6. ASSUME NEW c \in Callers, st[c] = "waiting", \A u \in Threads : cur'[u] # c
          PROVE  \E i \in 1..Len(todo') : todo'[i] = c
      <3>1. c # todo[1] /\ \A u \in Threads : cur[u] # c
        BY <1>1, <1>6, <2>6
      <3>2. PICK i \in 1..Len(todo) : todo[i] = c
        BY <2>0, <2>6, <3>1 DEF Placed
      <3>3. i - 1 \in 1..Len(todo') /\ (i - 1) + 1 = i
        BY <1>2, <3>1, <3>2
      <3>4. todo'[i - 1] = c
        BY <1>3, <3>2, <3>3
      <3> QED BY <3>3, <3>4
    <2> QED BY <1>7, <2>1, <2>2, <2>3, <2>4, <2>5, <2>6 DEF Placed
  <1> QED BY <1>5, <1>8, <1>9

\* The answer goes to the client whose call the thread has, and only to it.
LEMMA ReplyPlace ==
    ASSUME PlaceInv, NEW t \in Threads, SendReply(t)
    PROVE  PlaceInv'
  <1> USE PoolAssumption DEF PlaceInv
  <1> DEFINE d == cur[t]
  <1>1. /\ alive /\ ~released /\ pc[t] = "reply" /\ d \in Callers
        /\ st' = [st EXCEPT ![d] = "replied"] /\ reply' = [reply EXCEPT ![d] = tmp[t]]
        /\ cur' = [cur EXCEPT ![t] = NoCaller] /\ tmp' = [tmp EXCEPT ![t] = 0]
        /\ pc' = [pc EXCEPT ![t] = "ret_txn"]
        /\ UNCHANGED <<alive, released, todo, btd, cnt, req, result, calls>> /\ UNCHANGED pool
    BY DEF SendReply, AtWork, Serving, TypeOK
  <1>2. TypeOK'
    <2>1. pc' \in [Threads -> PCs] /\ tmp' \in [Threads -> Int]
      BY <1>1 DEF TypeOK, PCs
    <2>2. cur' \in [Threads -> Callers \cup {NoCaller}] /\ reply' \in [Callers -> Int]
      BY <1>1 DEF TypeOK
    <2>3. st' \in [Callers -> {"idle", "waiting", "replied", "failed"}]
      BY <1>1 DEF TypeOK
    <2> QED BY <1>1, <2>1, <2>2, <2>3 DEF TypeOK, pool
  <1>3. \A u \in Threads : /\ cur'[u] = IF u = t THEN NoCaller ELSE cur[u]
                           /\ pc'[u] = IF u = t THEN "ret_txn" ELSE pc[u]
                           /\ tmp'[u] = IF u = t THEN 0 ELSE tmp[u]
    BY <1>1 DEF TypeOK
  <1>4. \A c \in Callers : st'[c] = IF c = d THEN "replied" ELSE st[c]
    BY <1>1 DEF TypeOK
  <1>5. req' = req /\ todo' = todo /\ alive' = alive /\ released' = released
    BY <1>1
  <1>6. AtWork'
    <2>1. ASSUME NEW u \in Threads
          PROVE  /\ pc'[u] \in Serving => cur'[u] # NoCaller
                 /\ cur'[u] # NoCaller => pc'[u] \in Serving \cup {"spawn"}
                 /\ pc'[u] \in {"load", "store", "fetch"} => req[cur'[u]].fn # "bad"
                 /\ pc'[u] = "store" => tmp'[u] \in Nat
      BY <1>1, <1>3 DEF AtWork, Serving
    <2> QED BY <1>1, <1>5, <2>1 DEF AtWork
  <1>7. Placed'
    <2>0. Placed /\ \A i \in 1..Len(todo) : todo[i] \in Callers
      BY <1>1, TodoFacts DEF TypeOK
    <2>1. ASSUME NEW u \in Threads, cur'[u] # NoCaller
          PROVE  cur[u] \in Callers /\ cur[u] # d /\ cur'[u] = cur[u] /\ st'[cur'[u]] = "waiting"
      BY <1>1, <1>3, <1>4, <2>0, <2>1 DEF Placed, TypeOK
    <2>2. ASSUME NEW u \in Threads, NEW v \in Threads, cur'[u] = cur'[v], cur'[u] # NoCaller
          PROVE  u = v
      BY <1>3, <2>0, <2>2 DEF Placed
    <2>3. ASSUME NEW i \in 1..Len(todo) PROVE st'[todo[i]] = "waiting"
      BY <1>4, <2>0 DEF Placed
    <2>5. ASSUME NEW i \in 1..Len(todo), NEW u \in Threads PROVE todo[i] # cur'[u]
      BY <1>3, <2>0 DEF Placed
    <2>6. ASSUME NEW c \in Callers, st'[c] = "waiting", \A u \in Threads : cur'[u] # c
          PROVE  \E i \in 1..Len(todo) : todo[i] = c
      <3>1. c # d /\ st[c] = "waiting"
        BY <1>4, <2>6
      <3>2. \A u \in Threads : cur[u] # c
        BY <1>3, <2>6, <3>1
      <3> QED BY <2>0, <3>1, <3>2 DEF Placed
    <2>7. \A i, j \in 1..Len(todo) : todo[i] = todo[j] => i = j
      BY <2>0 DEF Placed
    <2> QED BY <1>5, <2>1, <2>2, <2>3, <2>5, <2>6, <2>7 DEF Placed
  <1> QED BY <1>2, <1>6, <1>7

\* A step that moves threads and leaves the calls where they are.
LEMMA QuietPlace ==
    ASSUME PlaceInv, UNCHANGED <<released, todo, cur, tmp, cnt>>, UNCHANGED callers,
           alive' \in BOOLEAN, alive' => alive, requested' \in Nat, started' \in Nat,
           pc' \in [Threads -> PCs], btd' \in [Threads -> Threads \cup {"none", "stale"}],
           \A u \in Threads : \/ pc'[u] = pc[u]
                              \/ pc'[u] \notin Serving /\ cur[u] = NoCaller
                              \/ pc'[u] = "handle" /\ cur[u] # NoCaller
    PROVE  PlaceInv'
  <1> USE DEF PlaceInv
  <1>1. TypeOK'
    BY DEF TypeOK, callers
  <1>2. req' = req /\ st' = st /\ tmp' = tmp /\ cur' = cur /\ released' = released
    BY DEF callers
  <1>3. AtWork'
    <2>1. ASSUME NEW u \in Threads
          PROVE  /\ pc'[u] \in Serving => cur[u] # NoCaller
                 /\ cur[u] # NoCaller => pc'[u] \in Serving \cup {"spawn"}
                 /\ alive /\ pc'[u] \in {"load", "store", "fetch"} => req[cur[u]].fn # "bad"
                 /\ pc'[u] = "store" => tmp[u] \in Nat
      BY DEF AtWork, Serving
    <2>2. released => ~alive'
      BY DEF AtWork, TypeOK
    <2> QED BY <1>2, <2>1, <2>2 DEF AtWork
  <1>4. ~released => Placed'
    BY SamePlaces DEF callers
  <1> QED BY <1>1, <1>2, <1>3, <1>4

\* Looking for work, starting threads and their first steps.
LEMMA PoolPlace ==
    ASSUME PlaceInv, NEW t \in Threads,
           \/ ReadComplete(t) \/ Spawn(t) \/ SpawnFails(t) \/ Return(t)
           \/ Start(t) \/ StartGarbage(t) \/ Register(t) \/ Enter(t)
    PROVE  PlaceInv'
  <1>0. TypeOK /\ AtWork
    BY DEF PlaceInv
  <1> USE <1>0
  <1>1. CASE ReadComplete(t)
    <2>1. requested' \in Nat /\ \E p \in {"ret_noop", "spawn"} : pc' = [pc EXCEPT ![t] = p]
      BY <1>1, ReadReturnsFacts DEF ReadComplete, PCs
    <2>2. PICK p \in {"ret_noop", "spawn"} : pc' = [pc EXCEPT ![t] = p]
      BY <2>1
    <2>3. /\ pc[t] = "complete" /\ alive
          /\ UNCHANGED <<alive, released, todo, started, cur, tmp, btd, cnt>> /\ UNCHANGED callers
      BY <1>1 DEF ReadComplete
    <2>4. cur[t] = NoCaller
      BY <2>3 DEF AtWork, Serving
    <2>5. pc' \in [Threads -> PCs] /\ \A u \in Threads : pc'[u] = IF u = t THEN p ELSE pc[u]
      BY <2>2 DEF TypeOK, PCs
    <2>6. started' \in Nat /\ alive' \in BOOLEAN /\ btd' \in [Threads -> Threads \cup {"none", "stale"}]
      BY <2>3 DEF TypeOK
    <2> QED BY <2>1, <2>3, <2>4, <2>5, <2>6, QuietPlace DEF Serving
  <1>2. CASE Spawn(t)
    <2>1. /\ pc[t] = "spawn"
          /\ UNCHANGED <<alive, released, todo, cur, tmp, cnt>> /\ UNCHANGED callers /\ UNCHANGED pool
      BY <1>2 DEF Spawn
    <2>2. PICK u \in Threads : /\ pc[u] = "none"
                               /\ pc' = [pc EXCEPT ![t] = AfterSpawn(t), ![u] = "starting"]
                               /\ btd' = [btd EXCEPT ![u] = t]
      BY <1>2 DEF Spawn
    <2>3. cur[u] = NoCaller /\ u # t
      BY <2>1, <2>2 DEF AtWork, Serving
    <2>4. \A v \in Threads : pc'[v] = IF v = t THEN AfterSpawn(t)
                                      ELSE IF v = u THEN "starting" ELSE pc[v]
      BY <2>2, <2>3 DEF TypeOK
    <2>5. AfterSpawn(t) \in PCs /\ "starting" \in PCs
      BY DEF AfterSpawn, PCs
    <2>6. pc' \in [Threads -> PCs]
      BY <2>2, <2>5 DEF TypeOK
    <2>7. /\ requested' \in Nat /\ started' \in Nat /\ alive' \in BOOLEAN
          /\ btd' \in [Threads -> Threads \cup {"none", "stale"}]
      BY <2>1, <2>2 DEF TypeOK, pool
    <2> QED BY <2>1, <2>3, <2>4, <2>6, <2>7, QuietPlace DEF Serving, AfterSpawn
  <1>3. CASE SpawnFails(t)
    <2>1. /\ pc[t] = "spawn" /\ pc' = [pc EXCEPT ![t] = AfterSpawn(t)]
          /\ UNCHANGED <<alive, released, todo, cur, tmp, cnt, btd>>
          /\ UNCHANGED callers /\ UNCHANGED pool
      BY <1>3 DEF SpawnFails
    <2>2. AfterSpawn(t) \in PCs
      BY DEF AfterSpawn, PCs
    <2>3. pc' \in [Threads -> PCs] /\ \A v \in Threads : pc'[v] = IF v = t THEN AfterSpawn(t) ELSE pc[v]
      BY <2>1, <2>2 DEF TypeOK
    <2>4. /\ requested' \in Nat /\ started' \in Nat /\ alive' \in BOOLEAN
          /\ btd' \in [Threads -> Threads \cup {"none", "stale"}]
      BY <2>1 DEF TypeOK, pool
    <2> QED BY <2>1, <2>3, <2>4, QuietPlace DEF Serving, AfterSpawn
  <1>4. CASE Return(t)
    <2>1. /\ pc[t] \in {"ret_txn", "ret_noop"}
          /\ pc' = [pc EXCEPT ![t] = IF pc[t] = "ret_txn" THEN "complete" ELSE "wait"]
          /\ btd' = [u \in Threads |-> IF btd[u] = t THEN "stale" ELSE btd[u]]
          /\ UNCHANGED <<alive, released, todo, cur, tmp, cnt>> /\ UNCHANGED callers /\ UNCHANGED pool
      BY <1>4 DEF Return
    <2>2. cur[t] = NoCaller
      BY <2>1 DEF AtWork, Serving
    <2>3. pc' \in [Threads -> PCs] /\ \A v \in Threads \ {t} : pc'[v] = pc[v]
      BY <2>1 DEF TypeOK, PCs
    <2>4. pc'[t] \notin Serving
      BY <2>1 DEF TypeOK, Serving
    <2>5. /\ requested' \in Nat /\ started' \in Nat /\ alive' \in BOOLEAN
          /\ btd' \in [Threads -> Threads \cup {"none", "stale"}]
      BY <2>1 DEF TypeOK, pool
    <2> QED BY <2>1, <2>2, <2>3, <2>4, <2>5, QuietPlace
  <1>5. CASE Start(t) \/ Register(t) \/ Enter(t)
    <2>1. PICK p \in {"register", "enter", "wait"} : pc' = [pc EXCEPT ![t] = p]
      BY <1>5 DEF Start, Register, Enter
    <2>2. /\ pc[t] \in {"starting", "register", "enter"} /\ UNCHANGED <<alive, released, todo, cur, tmp, cnt>>
          /\ UNCHANGED callers
      BY <1>5 DEF Start, Register, Enter
    <2>3. requested' \in Nat /\ started' \in Nat
      BY <1>5 DEF Start, Register, Enter, pool, TypeOK
    <2>4. btd' \in [Threads -> Threads \cup {"none", "stale"}]
      BY <1>5 DEF Start, Register, Enter, TypeOK
    <2>5. cur[t] = NoCaller /\ alive' \in BOOLEAN
      BY <2>2 DEF AtWork, Serving, TypeOK
    <2>6. pc' \in [Threads -> PCs] /\ \A v \in Threads : pc'[v] = IF v = t THEN p ELSE pc[v]
      BY <2>1 DEF TypeOK, PCs
    <2> QED BY <2>2, <2>3, <2>4, <2>5, <2>6, QuietPlace DEF Serving
  <1>6. CASE StartGarbage(t)
    <2>1. /\ alive /\ alive' = FALSE /\ UNCHANGED <<released, todo, cur, tmp, cnt, pc, btd>>
          /\ UNCHANGED callers /\ UNCHANGED pool
      BY <1>6 DEF StartGarbage
    <2>2. requested' \in Nat /\ started' \in Nat /\ pc' \in [Threads -> PCs] /\ pc' = pc
          /\ btd' \in [Threads -> Threads \cup {"none", "stale"}]
      BY <2>1 DEF TypeOK, pool
    <2> QED BY <2>1, <2>2, QuietPlace
  <1> QED BY <1>1, <1>2, <1>3, <1>4, <1>5, <1>6

\* The steps of a handler: the call stays with the thread.
LEMMA HandlerPlace ==
    ASSUME PlaceInv, NEW t \in Threads, Handle(t) \/ Load(t) \/ Store(t) \/ Fetch(t)
    PROVE  PlaceInv'
  <1>0. TypeOK /\ AtWork /\ (~released => Placed)
    BY DEF PlaceInv
  <1> USE <1>0 DEF PlaceInv
  <1> DEFINE k == counter(req[cur[t]])
  <1>1. /\ alive /\ ~released /\ pc[t] \in {"handle", "load", "store", "fetch"}
        /\ UNCHANGED <<alive, released, todo, cur, btd>> /\ UNCHANGED callers /\ UNCHANGED pool
    BY DEF Handle, Load, Store, Fetch, AtWork
  <1>2. cur[t] \in Callers /\ req[cur[t]] \in Request
    BY <1>1 DEF AtWork, Serving, TypeOK
  <1>3. pc[t] # "handle" => k \in Counters /\ cnt[k] \in Nat
    <2> SUFFICES ASSUME pc[t] # "handle" PROVE k \in Counters
      BY DEF TypeOK
    <2>1. req[cur[t]].fn # "bad"
      BY <1>1 DEF AtWork
    <2>2. req[cur[t]].svc \in Services /\ req[cur[t]].fn \in {"say", "say_to"}
      BY <1>2, <2>1 DEF Request, Fns
    <2> QED BY <2>2 DEF counter, Counters
  <1>4. PICK p \in {"load", "store", "fetch", "reply"} : pc' = [pc EXCEPT ![t] = p]
    BY DEF Handle, Load, Store, Fetch
  <1>5. \A u \in Threads : pc'[u] = IF u = t THEN p ELSE pc[u]
    BY <1>4 DEF TypeOK
  <1>6. /\ tmp' \in [Threads -> Int] /\ \A u \in Threads \ {t} : tmp'[u] = tmp[u]
        /\ p = "store" => tmp'[t] \in Nat
        /\ p \in {"load", "store", "fetch"} => req[cur[t]].fn # "bad"
    <2>1. CASE Handle(t)
      BY <1>4, <1>5, <2>1 DEF Handle, TypeOK
    <2>2. CASE Load(t)
      <3>1. pc[t] = "load" /\ tmp' = [tmp EXCEPT ![t] = cnt[k]]
        BY <2>2 DEF Load
      <3> QED BY <1>1, <1>3, <3>1 DEF TypeOK, AtWork
    <2>3. CASE Store(t)
      <3>1. pc[t] = "store" /\ (tmp' = tmp \/ tmp' = [tmp EXCEPT ![t] = 0])
        BY <2>3 DEF Store
      <3> QED BY <1>1, <1>3, <3>1 DEF TypeOK, AtWork
    <2>4. CASE Fetch(t)
      <3>1. pc[t] = "fetch" /\ tmp' = [tmp EXCEPT ![t] = cnt[k]]
        BY <2>4 DEF Fetch
      <3> QED BY <1>1, <1>3, <3>1 DEF TypeOK, AtWork
    <2> QED BY <2>1, <2>2, <2>3, <2>4
  <1>7. cnt' \in [Counters -> Nat]
    <2>1. CASE Store(t)
      <3>1. tmp[t] + 1 \in Nat /\ k \in Counters /\ cnt' = [cnt EXCEPT ![k] = tmp[t] + 1]
        BY <1>3, <2>1 DEF Store, AtWork
      <3> QED BY <3>1 DEF TypeOK
    <2> QED BY <2>1 DEF Handle, Load, Fetch, TypeOK
  <1>8. TypeOK'
    <2>1. pc' \in [Threads -> PCs]
      BY <1>4 DEF TypeOK, PCs
    <2> QED BY <1>1, <1>6, <1>7, <2>1 DEF TypeOK, callers, pool
  <1>9. AtWork'
    <2>1. req' = req /\ cur' = cur /\ alive' = alive /\ released' = released
      BY <1>1 DEF callers
    <2>2. ASSUME NEW u \in Threads
          PROVE  /\ pc'[u] \in Serving => cur[u] # NoCaller
                 /\ cur[u] # NoCaller => pc'[u] \in Serving \cup {"spawn"}
                 /\ pc'[u] \in {"load", "store", "fetch"} => req[cur[u]].fn # "bad"
                 /\ pc'[u] = "store" => tmp'[u] \in Nat
      BY <1>1, <1>5, <1>6 DEF AtWork, Serving
    <2> QED BY <1>1, <2>1, <2>2 DEF AtWork
  <1>10. Placed'
    BY <1>1, SamePlaces DEF callers
  <1> QED BY <1>8, <1>9, <1>10

\* Every step keeps types and places.
LEMMA NextPlace == PlaceInv /\ [Next]_vars => PlaceInv'
  <1> SUFFICES ASSUME PlaceInv, [Next]_vars PROVE PlaceInv'
    OBVIOUS
  <1>1. CASE \E c \in Callers : Call(c) \/ Finish(c) \/ Fail(c)
    BY <1>1, CallerPlace
  <1>2. CASE \E t \in Threads : ThreadStep(t)
    <2>1. PICK t \in Threads : ThreadStep(t)
      BY <1>2
    <2> QED BY <2>1, ReadPlace, ReplyPlace, PoolPlace, HandlerPlace DEF ThreadStep
  <1>3. CASE Release
    <2>1. /\ ~alive /\ released' = TRUE /\ todo' = <<>>
          /\ st' = [c \in Callers |-> IF st[c] = "waiting" THEN "failed" ELSE st[c]]
          /\ UNCHANGED <<alive, pc, cur, tmp, btd, cnt, req, reply, result, calls>> /\ UNCHANGED pool
      BY <1>3 DEF Release
    <2>2. TypeOK'
      <3>1. st' \in [Callers -> {"idle", "waiting", "replied", "failed"}]
        BY <2>1 DEF PlaceInv, TypeOK
      <3>2. todo' \in Seq(Callers)
        BY <2>1
      <3> QED BY <2>1, <3>1, <3>2 DEF PlaceInv, TypeOK, pool
    <2>3. AtWork'
      BY <2>1 DEF PlaceInv, AtWork
    <2> QED BY <2>1, <2>2, <2>3 DEF PlaceInv
  <1>4. CASE UNCHANGED vars
    <2>1. TypeOK'
      BY <1>4 DEF PlaceInv, TypeOK, vars
    <2>2. AtWork'
      BY <1>4 DEF PlaceInv, AtWork, vars
    <2>3. ~released => Placed'
      BY <1>4, SamePlaces DEF PlaceInv, vars
    <2> QED BY <1>4, <2>1, <2>2, <2>3 DEF PlaceInv, vars
  <1> QED BY <1>1, <1>2, <1>3, <1>4 DEF Next

\* A set whose elements are all the same has one of them or none.
LEMMA CountAtMostOne ==
    ASSUME NEW T, \A x, y \in T : x = y
    PROVE  IsFiniteSet(T) /\ Cardinality(T) = IF T = {} THEN 0 ELSE 1
  <1>1. CASE T = {}
    BY <1>1, FS_EmptySet
  <1>2. CASE T # {}
    <2>1. PICK x : T = {x}
      BY <1>2
    <2> QED BY <1>2, <2>1, FS_Singleton
  <1> QED BY <1>1, <1>2

\* The three ways a call can be placed, counted.
LEMMA PlacedCounts == PlaceInv => CallsPlaced
  <1> SUFFICES ASSUME PlaceInv, ~released, NEW c \in Callers
               PROVE  Cardinality({i \in DOMAIN todo : todo[i] = c})
                      + Cardinality({t \in Threads : cur[t] = c})
                      = (IF st[c] = "waiting" THEN 1 ELSE 0)
    BY DEF CallsPlaced
  <1> DEFINE Q == {i \in DOMAIN todo : todo[i] = c}
             H == {t \in Threads : cur[t] = c}
  <1>0. Placed /\ TypeOK /\ c # NoCaller /\ DOMAIN todo = 1..Len(todo)
    BY PoolAssumption, TodoFacts DEF PlaceInv, TypeOK
  <1>1. \A i, j \in Q : i = j
    BY <1>0 DEF Placed
  <1>2. \A t, u \in H : t = u
    BY <1>0 DEF Placed
  <1>3. Q # {} => st[c] = "waiting" /\ H = {}
    BY <1>0 DEF Placed
  <1>4. H # {} => st[c] = "waiting"
    BY <1>0 DEF Placed
  <1>5. st[c] = "waiting" => Q # {} \/ H # {}
    BY <1>0 DEF Placed
  <1> HIDE DEF Q, H
  <1>6. Cardinality(Q) = (IF Q = {} THEN 0 ELSE 1) /\ Cardinality(H) = (IF H = {} THEN 0 ELSE 1)
    BY <1>1, <1>2, CountAtMostOne
  <1>7. Cardinality(Q) + Cardinality(H) = IF st[c] = "waiting" THEN 1 ELSE 0
    BY <1>3, <1>4, <1>5, <1>6
  <1> QED BY <1>7 DEF Q, H

\* Types and places hold throughout.
LEMMA PlaceInvariant == Spec => []PlaceInv
  BY InitPlace, NextPlace, PTL DEF Spec

\* The variables of the pool keep their types: among others, a handler never
\* looks up a counter that does not exist, and a counter is never negative.
THEOREM PoolTypes == Spec => []TypeOK
  <1>1. PlaceInv => TypeOK
    BY DEF PlaceInv
  <1> QED BY <1>1, PlaceInvariant, PTL

\* However many threads share binder_parse, and whether or not the server
\* crashes, a call is in one place while its client waits in binder_call and
\* nowhere otherwise: none is lost, handled twice or answered to another.
THEOREM CallsKeepPlace == Spec => []CallsPlaced
  BY PlacedCounts, PlaceInvariant, PTL

-----------------------------------------------------------------------------
(* The size of the pool.                                                   *)

\* Threads the driver has not counted, and threads on their way to it.
Uncounted == {"none", "starting", "register"}
OnTheWay == {"spawn", "starting", "register"}
Counted == {t \in Threads \ {main} : pc[t] \notin Uncounted}

\* The driver counts every thread beyond main once, a request is open while a
\* thread is on its way, and only one thread is.
PoolInv ==
    /\ pc[main] \notin Uncounted
    /\ \A t, u \in Threads : pc[t] \in OnTheWay /\ pc[u] \in OnTheWay => t = u
    /\ \A t \in Threads : pc[t] \in OnTheWay => requested = 1
    /\ requested <= 1
    /\ started = Cardinality(Counted)
    /\ started + requested <= MaxThreads

\* At first only main runs.
LEMMA InitPool == Init => PoolInv
  <1> SUFFICES ASSUME Init PROVE PoolInv
    OBVIOUS
  <1> USE PoolAssumption
  <1>1. \A t \in Threads : pc[t] = IF t = main THEN "enter" ELSE "none"
    BY DEF Init
  <1>2. Counted = {}
    BY <1>1 DEF Counted, Uncounted
  <1>3. Cardinality(Counted) = 0
    BY <1>2, FS_EmptySet
  <1> QED BY <1>1, <1>3 DEF Init, PoolInv, Uncounted, OnTheWay

\* A step that neither counts a thread nor takes a place on the way keeps the
\* books.
LEMMA SamePool ==
    ASSUME PoolInv, UNCHANGED pool,
           \A u \in Threads : /\ pc'[u] \in Uncounted <=> pc[u] \in Uncounted
                              /\ pc'[u] \in OnTheWay => pc[u] \in OnTheWay
    PROVE  PoolInv'
  <1>1. Counted' = Counted
    BY DEF Counted
  <1>2. requested' = requested /\ started' = started
    BY DEF pool
  <1>3. pc'[main] \notin Uncounted
    BY PoolAssumption DEF PoolInv
  <1> QED BY <1>1, <1>2, <1>3 DEF PoolInv

\* A read that asks for a thread finds none on its way.
LEMMA ReadPool ==
    ASSUME TypeOK, PoolInv, NEW t \in Threads, pc[t] \in {"wait", "complete"},
           NEW next \in {"handle", "ret_noop"}, ReadReturns(t, next), UNCHANGED started
    PROVE  PoolInv'
  <1> USE PoolAssumption
  <1>1. CASE WantsThread(t)
    <2>1. /\ requested = 0 /\ requested' = 1 /\ started < MaxThreads
          /\ pc' = [pc EXCEPT ![t] = "spawn"]
      BY <1>1 DEF ReadReturns, WantsThread, TypeOK
    <2>2. \A u \in Threads : pc[u] \notin OnTheWay /\ pc'[u] = IF u = t THEN "spawn" ELSE pc[u]
      BY <2>1 DEF PoolInv, TypeOK
    <2>3. Counted' = Counted
      BY <2>2 DEF Counted, Uncounted
    <2>4. pc'[main] \notin Uncounted
      BY <2>2 DEF PoolInv, Uncounted
    <2>5. started' + requested' <= MaxThreads /\ requested' <= 1 /\ started' = Cardinality(Counted')
      BY <2>1, <2>3 DEF PoolInv, TypeOK
    <2> QED BY <2>1, <2>2, <2>4, <2>5 DEF PoolInv
  <1>2. CASE ~WantsThread(t)
    <2>1. pc' = [pc EXCEPT ![t] = next] /\ UNCHANGED pool
      BY <1>2 DEF ReadReturns, pool
    <2>2. \A u \in Threads : pc'[u] = IF u = t THEN next ELSE pc[u]
      BY <2>1 DEF TypeOK
    <2> QED BY <2>1, <2>2, SamePool DEF Uncounted, OnTheWay
  <1> QED BY <1>1, <1>2

\* The thread that starts another hands it the open request.
LEMMA SpawnPool ==
    ASSUME TypeOK, PoolInv, NEW t \in Threads, Spawn(t)
    PROVE  PoolInv'
  <1> USE PoolAssumption
  <1>1. PICK u \in Threads : pc[u] = "none" /\ pc' = [pc EXCEPT ![t] = AfterSpawn(t), ![u] = "starting"]
    BY DEF Spawn
  <1>2. pc[t] = "spawn" /\ requested' = requested /\ started' = started
    BY DEF Spawn, pool
  <1>3. u # t /\ u # main /\ requested = 1
    BY <1>1, <1>2 DEF PoolInv, Uncounted, OnTheWay
  <1>4. \A v \in Threads : pc'[v] = IF v = t THEN AfterSpawn(t)
                                    ELSE IF v = u THEN "starting" ELSE pc[v]
    BY <1>1, <1>3 DEF TypeOK
  <1>5. AfterSpawn(t) \notin Uncounted /\ AfterSpawn(t) \notin OnTheWay
    BY DEF AfterSpawn, Uncounted, OnTheWay
  <1>6. Counted' = Counted
    <2>1. \A v \in Threads : pc'[v] \in Uncounted <=> pc[v] \in Uncounted
      BY <1>1, <1>2, <1>4, <1>5 DEF Uncounted
    <2> QED BY <2>1 DEF Counted
  <1>7. \A v \in Threads : pc'[v] \in OnTheWay => v = u
    BY <1>2, <1>4, <1>5 DEF PoolInv, OnTheWay
  <1>8. pc'[main] \notin Uncounted
    BY <1>3, <1>4, <1>5 DEF PoolInv
  <1> QED BY <1>2, <1>3, <1>6, <1>7, <1>8 DEF PoolInv

\* BC_REGISTER_LOOPER closes the request and counts the thread.
LEMMA RegisterPool ==
    ASSUME TypeOK, PoolInv, NEW u \in Threads, Register(u)
    PROVE  PoolInv'
  <1> USE PoolAssumption
  <1>1. pc[u] = "register" /\ requested = 1 /\ pc' = [pc EXCEPT ![u] = "enter"]
    BY DEF Register, PoolInv, OnTheWay
  <1>2. requested' = 0 /\ started' = started + 1
    BY <1>1 DEF Register
  <1>3. \A t \in Threads : pc'[t] = IF t = u THEN "enter" ELSE pc[t]
    BY <1>1 DEF TypeOK
  <1>4. u # main /\ u \notin Counted
    BY <1>1 DEF PoolInv, Counted, Uncounted
  <1>5. Counted' = Counted \cup {u}
    BY <1>3, <1>4 DEF Counted, Uncounted
  <1>6. IsFiniteSet(Counted)
    BY FS_Subset DEF Counted
  <1>7. Cardinality(Counted') = Cardinality(Counted) + 1
    BY <1>4, <1>5, <1>6, FS_AddElement
  <1>8. \A t \in Threads : pc'[t] \notin OnTheWay
    BY <1>1, <1>3 DEF PoolInv, OnTheWay
  <1>9. pc'[main] \notin Uncounted
    BY <1>3 DEF PoolInv, Uncounted
  <1> QED BY <1>1, <1>2, <1>7, <1>8, <1>9 DEF PoolInv, TypeOK

\* Every step keeps the books.
LEMMA NextPool == TypeOK /\ PoolInv /\ [Next]_vars => PoolInv'
  <1> SUFFICES ASSUME TypeOK, PoolInv, [Next]_vars PROVE PoolInv'
    OBVIOUS
  <1>1. ASSUME UNCHANGED <<pc, requested, started>> PROVE PoolInv'
    BY <1>1, SamePool DEF pool
  <1>2. CASE \E c \in Callers : Call(c) \/ Finish(c) \/ Fail(c)
    BY <1>1, <1>2 DEF Call, Finish, Fail, pool
  <1>3. CASE Release \/ UNCHANGED vars
    BY <1>1, <1>3 DEF Release, vars, pool
  <1>4. ASSUME NEW t \in Threads, ThreadStep(t) PROVE PoolInv'
    <2>1. CASE Read(t) \/ ReadComplete(t)
      BY <2>1, ReadPool DEF Read, ReadComplete
    <2>2. CASE Spawn(t)
      BY <2>2, SpawnPool
    <2>3. CASE Register(t)
      BY <2>3, RegisterPool
    <2>4. CASE StartGarbage(t)
      BY <1>1, <2>4 DEF StartGarbage, pool
    <2>5. ASSUME NEW p, pc' = [pc EXCEPT ![t] = p], UNCHANGED pool,
                 p \in Uncounted <=> pc[t] \in Uncounted, p \in OnTheWay => pc[t] \in OnTheWay
          PROVE  PoolInv'
      <3>1. \A u \in Threads : pc'[u] = IF u = t THEN p ELSE pc[u]
        BY <2>5 DEF TypeOK
      <3> QED BY <2>5, <3>1, SamePool
    <2>6. CASE SpawnFails(t)
      BY <2>5, <2>6 DEF SpawnFails, AfterSpawn, Uncounted, OnTheWay
    <2>7. CASE Return(t)
      BY <2>5, <2>7 DEF Return, Uncounted, OnTheWay
    <2>8. CASE Start(t) \/ Enter(t)
      BY <2>5, <2>8 DEF Start, Enter, Uncounted, OnTheWay
    <2>9. CASE Handle(t) \/ Load(t)
      BY <2>5, <2>9 DEF Handle, Load, Uncounted, OnTheWay
    <2>10. CASE Store(t) \/ Fetch(t) \/ SendReply(t)
      BY <2>5, <2>10 DEF Store, Fetch, SendReply, Uncounted, OnTheWay
    <2> QED BY <1>4, <2>1, <2>2, <2>3, <2>4, <2>6, <2>7, <2>8, <2>9, <2>10 DEF ThreadStep
  <1> QED BY <1>2, <1>3, <1>4 DEF Next

\* With at most one thread on its way, the books bound the pool.
LEMMA PoolInvBounds == PoolInv /\ TypeOK => PoolWithinBounds
  <1> SUFFICES ASSUME PoolInv, TypeOK PROVE PoolWithinBounds
    OBVIOUS
  <1> DEFINE coming == {t \in Threads : pc[t] \in {"spawn", "starting", "register"}}
             behind == {t \in coming : pc[t] # "spawn"}
  <1>1. \A x, y \in behind : x = y
    BY DEF PoolInv, OnTheWay
  <1>2. behind # {} => requested = 1
    BY DEF PoolInv, OnTheWay
  <1>3. Cardinality(behind) <= requested
    <2> HIDE DEF behind
    <2>1. Cardinality(behind) = IF behind = {} THEN 0 ELSE 1
      BY <1>1, CountAtMostOne
    <2>2. requested \in Nat
      BY DEF TypeOK
    <2> QED BY <1>2, <2>1, <2>2
  <1> QED BY <1>3 DEF PoolInv, PoolWithinBounds, Counted, Uncounted

\* The driver's books agree with the threads that exist, whichever thread a
\* read tells to start another and whether or not pthread_create succeeds: the
\* threads beyond main that serve or are on their way are never more than
\* binder_set_maxthreads.
THEOREM PoolBounded == Spec => []PoolWithinBounds
  <1>1. Spec => []PoolInv
    BY InitPool, NextPool, PoolTypes, PTL DEF Spec
  <1> QED BY <1>1, PoolInvBounds, PoolTypes, PTL

-----------------------------------------------------------------------------
(* The counts.                                                             *)

\* A client that got a count got a positive one.  (0 is what sayhello_to
\* returns when binder_call fails.)
CountsPositive ==
    \A c \in Callers : st[c] = "replied" /\ req[c].fn = "say_to" => reply[c] >= 1

\* The counter is positive once it has been stored, and so is what is read
\* from it, whichever thread stored last.
PositiveInv ==
    /\ \A t \in Threads : alive /\ pc[t] = "fetch" =>
            req[cur[t]].fn = "say_to" /\ cnt[counter(req[cur[t]])] >= 1
    /\ \A t \in Threads : alive /\ pc[t] = "reply" /\ req[cur[t]].fn = "say_to" => tmp[t] >= 1
    /\ CountsPositive

\* Nobody but client c has called.
Alone(c) == \A d \in Callers \ {c} : calls[d] = 0

\* While c is alone, no thread has loaded a value that another overwrites, and
\* the counter is ahead of the last result.
GrowInv ==
    /\ \A c \in Callers : calls[c] = 0 => st[c] = "idle"
    /\ \A c \in Callers : Alone(c) => \A s \in Services : result[c] <= cnt[<<s, "say_to">>]
    /\ \A t \in Threads : alive /\ pc[t] = "store" /\ Alone(cur[t]) =>
            tmp[t] = cnt[counter(req[cur[t]])]
    /\ \A t \in Threads : alive /\ pc[t] = "fetch" /\ Alone(cur[t]) =>
            cnt[counter(req[cur[t]])] > result[cur[t]]
    /\ \A t \in Threads : alive /\ pc[t] = "reply" /\ Alone(cur[t]) =>
            /\ req[cur[t]].fn = "say_to" => tmp[t] > result[cur[t]]
            /\ req[cur[t]].fn # "say" => \A s \in Services : tmp[t] <= cnt[<<s, "say_to">>]
    /\ \A c \in Callers : st[c] = "replied" /\ Alone(c) =>
            /\ req[c].fn = "say_to" => reply[c] > result[c]
            /\ req[c].fn # "say" => \A s \in Services : reply[c] <= cnt[<<s, "say_to">>]

\* A thread that serves has a call of a client that waits.
LEMMA ServingFacts ==
    ASSUME PlaceInv, alive, NEW t \in Threads, pc[t] \in Serving
    PROVE  /\ ~released /\ cur[t] \in Callers /\ st[cur[t]] = "waiting"
           /\ req[cur[t]] \in Request
           /\ pc[t] \in {"load", "store", "fetch"} => counter(req[cur[t]]) \in Counters
           /\ \A u \in Threads : cur[u] = cur[t] => u = t
  <1>1. ~released /\ Placed /\ cur[t] # NoCaller
    BY DEF PlaceInv, AtWork
  <1>2. cur[t] \in Callers /\ req[cur[t]] \in Request
    BY <1>1 DEF PlaceInv, TypeOK
  <1>3. pc[t] \in {"load", "store", "fetch"} => req[cur[t]].fn # "bad"
    BY DEF PlaceInv, AtWork
  <1>4. pc[t] \in {"load", "store", "fetch"} => counter(req[cur[t]]) \in Counters
    BY <1>2, <1>3 DEF Request, Fns, counter, Counters
  <1>5. st[cur[t]] = "waiting" /\ \A u \in Threads : cur[u] = cur[t] => u = t
    BY <1>1 DEF Placed
  <1> QED BY <1>1, <1>2, <1>4, <1>5

\* Steps that serve no call: reads, the pool's own steps and the clean-up.
Elsewhere ==
    /\ UNCHANGED <<tmp, cnt, req, reply, result, calls>>
    /\ alive' \in BOOLEAN /\ (alive' => alive)
    /\ \A u \in Threads : pc'[u] \in {"store", "fetch", "reply"} => pc'[u] = pc[u] /\ cur'[u] = cur[u]
    /\ \A u \in Threads : pc[u] \in {"fetch", "reply"} => pc'[u] = pc[u] /\ cur'[u] = cur[u]
    /\ \A c \in Callers : st'[c] = "replied" => st[c] = "replied"
    /\ \A c \in Callers : st'[c] # st[c] => st[c] = "waiting"

\* They are what they are called.
LEMMA ElsewhereSteps ==
    ASSUME PlaceInv, NEW t \in Threads,
           \/ Read(t) \/ ReadComplete(t) \/ Spawn(t) \/ SpawnFails(t) \/ Return(t)
           \/ Start(t) \/ StartGarbage(t) \/ Register(t) \/ Enter(t) \/ Release
    PROVE  Elsewhere
  <1>0. TypeOK
    BY DEF PlaceInv
  <1> USE <1>0
  <1>1. CASE Read(t)
    <2>1. \E p \in {"handle", "spawn"} : pc' = [pc EXCEPT ![t] = p]
      BY <1>1, ReadReturnsFacts DEF Read, PCs
    <2> QED BY <1>1, <2>1 DEF Read, TypeOK, callers, Elsewhere
  <1>2. CASE ReadComplete(t)
    <2>1. \E p \in {"ret_noop", "spawn"} : pc' = [pc EXCEPT ![t] = p]
      BY <1>2, ReadReturnsFacts DEF ReadComplete, PCs
    <2> QED BY <1>2, <2>1 DEF ReadComplete, TypeOK, callers, Elsewhere
  <1>3. CASE Spawn(t)
    <2>1. PICK u \in Threads : pc' = [pc EXCEPT ![t] = AfterSpawn(t), ![u] = "starting"]
      BY <1>3 DEF Spawn
    <2>2. \A v \in Threads : pc'[v] \in {pc[v], "starting", AfterSpawn(t)}
      BY <2>1 DEF TypeOK
    <2> QED BY <1>3, <2>2 DEF Spawn, TypeOK, callers, Elsewhere, AfterSpawn
  <1>4. CASE SpawnFails(t)
    BY <1>4 DEF SpawnFails, AfterSpawn, TypeOK, callers, Elsewhere
  <1>5. CASE Return(t)
    <2>1. \A v \in Threads : pc'[v] \in {pc[v], "complete", "wait"}
      BY <1>5 DEF Return, TypeOK
    <2> QED BY <1>5, <2>1 DEF Return, TypeOK, callers, Elsewhere
  <1>6. CASE Start(t) \/ StartGarbage(t) \/ Register(t) \/ Enter(t)
    <2>1. \A v \in Threads : pc'[v] \in {pc[v], "register", "enter", "wait"}
      BY <1>6 DEF Start, StartGarbage, Register, Enter, TypeOK
    <2> QED BY <1>6, <2>1 DEF Start, StartGarbage, Register, Enter, TypeOK, callers, Elsewhere
  <1>7. CASE Release
    BY <1>7 DEF Release, TypeOK, Elsewhere
  <1> QED BY <1>1, <1>2, <1>3, <1>4, <1>5, <1>6, <1>7

\* What the clients' steps do to the variables the counts depend on.
LEMMA CallFacts ==
    ASSUME PlaceInv, NEW c \in Callers, Call(c)
    PROVE  /\ UNCHANGED <<alive, pc, cur, tmp, cnt, reply, result>>
           /\ alive => \A t \in Threads : cur[t] # c
           /\ \A d \in Callers : d # c => req'[d] = req[d] /\ st'[d] = st[d] /\ calls'[d] = calls[d]
           /\ st'[c] # "replied" /\ calls[c] \in Nat /\ calls'[c] = calls[c] + 1
  <1>1. st[c] = "idle" /\ UNCHANGED <<alive, pc, cur, tmp, cnt, reply, result>>
    BY DEF Call
  <1>2. alive => \A t \in Threads : cur[t] # c
    BY <1>1, PoolAssumption DEF PlaceInv, AtWork, Placed
  <1>3. PICK r \in Request : req' = [req EXCEPT ![c] = r]
    BY DEF Call
  <1>4. \A d \in Callers : d # c => req'[d] = req[d] /\ st'[d] = st[d] /\ calls'[d] = calls[d]
    BY <1>3 DEF Call, PlaceInv, TypeOK
  <1>5. st'[c] # "replied" /\ calls[c] \in Nat /\ calls'[c] = calls[c] + 1
    BY DEF Call, PlaceInv, TypeOK
  <1> QED BY <1>1, <1>2, <1>4, <1>5

\* Likewise when binder_call returns: only that client is affected.
LEMMA AnswerFacts ==
    ASSUME PlaceInv, NEW c \in Callers, Finish(c) \/ Fail(c)
    PROVE  /\ UNCHANGED <<alive, pc, cur, tmp, cnt, req, calls>>
           /\ \A d \in Callers : d # c =>
                st'[d] = st[d] /\ reply'[d] = reply[d] /\ result'[d] = result[d]
           /\ st[c] \in {"replied", "failed"} /\ st'[c] = "idle"
           /\ result'[c] \in {result[c], 0} \/
              (result'[c] = reply[c] /\ st[c] = "replied" /\ req[c].fn # "say")
           /\ alive => \A t \in Threads : cur[t] # c
  <1>1. UNCHANGED <<alive, pc, cur, tmp, cnt, req, calls>>
    BY DEF Finish, Fail
  <1>2. /\ \A d \in Callers : d # c =>
                st'[d] = st[d] /\ reply'[d] = reply[d] /\ result'[d] = result[d]
        /\ st[c] \in {"replied", "failed"} /\ st'[c] = "idle"
    BY DEF Finish, Fail, PlaceInv, TypeOK
  <1>3. result'[c] \in {result[c], 0} \/ (result'[c] = reply[c] /\ st[c] = "replied" /\ req[c].fn # "say")
    BY DEF Finish, Fail, PlaceInv, TypeOK
  <1>4. alive => \A t \in Threads : cur[t] # c
    BY <1>2, PoolAssumption DEF PlaceInv, AtWork, Placed
  <1> QED BY <1>1, <1>2, <1>3, <1>4

\* A thread's step changes the program counter and register of that thread.
LEMMA OwnStep ==
    ASSUME PlaceInv, NEW t \in Threads, Handle(t) \/ Load(t) \/ Store(t) \/ Fetch(t)
    PROVE  /\ UNCHANGED <<alive, cur, st, req, reply, result, calls>> /\ alive
           /\ \A u \in Threads : u # t => pc'[u] = pc[u] /\ tmp'[u] = tmp[u]
           /\ ~Store(t) => UNCHANGED cnt
  <1>1. TypeOK
    BY DEF PlaceInv
  <1>2. UNCHANGED <<alive, cur, st, req, reply, result, calls>> /\ alive
    BY DEF Handle, Load, Store, Fetch, callers
  <1>3. \A u \in Threads : u # t => pc'[u] = pc[u] /\ tmp'[u] = tmp[u]
    BY <1>1 DEF Handle, Load, Store, Fetch, TypeOK
  <1>4. ~Store(t) => UNCHANGED cnt
    BY DEF Handle, Load, Fetch
  <1> QED BY <1>2, <1>3, <1>4

\* A store raises the counter above zero and touches no other.
LEMMA StoreFacts ==
    ASSUME PlaceInv, NEW t \in Threads, Store(t)
    PROVE  /\ cur[t] \in Callers /\ counter(req[cur[t]]) \in Counters /\ tmp[t] \in Nat
           /\ \A k \in Counters : cnt[k] \in Nat /\ cnt'[k] = IF k = counter(req[cur[t]]) THEN tmp[t] + 1 ELSE cnt[k]
           /\ req[cur[t]].fn = "say_to" => pc'[t] = "fetch"
           /\ req[cur[t]].fn # "say_to" => pc'[t] = "reply" /\ tmp'[t] = 0
           /\ req[cur[t]].fn \in {"say", "say_to"} /\ req[cur[t]].svc \in Services
           /\ alive /\ pc[t] = "store"
  <1>1. alive /\ pc[t] = "store" /\ tmp[t] \in Nat /\ req[cur[t]].fn # "bad"
    BY DEF Store, PlaceInv, AtWork
  <1>2. cur[t] \in Callers /\ counter(req[cur[t]]) \in Counters /\ req[cur[t]] \in Request
    BY <1>1, ServingFacts DEF Serving
  <1>3. req[cur[t]].fn \in {"say", "say_to"} /\ req[cur[t]].svc \in Services
    BY <1>1, <1>2 DEF Request, Fns
  <1>4. cnt' = [cnt EXCEPT ![counter(req[cur[t]])] = tmp[t] + 1]
    BY DEF Store
  <1>5. \A k \in Counters : cnt[k] \in Nat /\ cnt'[k] = IF k = counter(req[cur[t]]) THEN tmp[t] + 1 ELSE cnt[k]
    BY <1>4 DEF PlaceInv, TypeOK
  <1>6. /\ req[cur[t]].fn = "say_to" => pc'[t] = "fetch"
        /\ req[cur[t]].fn # "say_to" => pc'[t] = "reply" /\ tmp'[t] = 0
    BY DEF Store, PlaceInv, TypeOK
  <1> QED BY <1>1, <1>2, <1>3, <1>5, <1>6

\* What the reply says and to whom.
LEMMA ReplyFacts ==
    ASSUME PlaceInv, NEW t \in Threads, SendReply(t)
    PROVE  /\ alive /\ pc[t] = "reply" /\ cur[t] \in Callers /\ UNCHANGED <<alive, cnt, req, result, calls>>
           /\ st'[cur[t]] = "replied" /\ reply'[cur[t]] = tmp[t]
           /\ \A c \in Callers : c # cur[t] => st'[c] = st[c] /\ reply'[c] = reply[c]
           /\ pc'[t] = "ret_txn"
           /\ \A u \in Threads : u # t => pc'[u] = pc[u] /\ tmp'[u] = tmp[u] /\ cur'[u] = cur[u]
  <1>1. alive /\ pc[t] = "reply"
    BY DEF SendReply
  <1>2. cur[t] \in Callers
    BY <1>1, ServingFacts DEF Serving
  <1> QED BY <1>1, <1>2 DEF SendReply, PlaceInv, TypeOK

\* Every step keeps the counts positive.
LEMMA NextPositive == PlaceInv /\ PositiveInv /\ [Next]_vars => PositiveInv'
  <1> SUFFICES ASSUME PlaceInv, PositiveInv, [Next]_vars PROVE PositiveInv'
    OBVIOUS
  <1>0. \A t \in Threads : alive /\ pc[t] \in Serving => cur[t] \in Callers
    BY ServingFacts
  <1>1. ASSUME NEW c \in Callers, Call(c) PROVE PositiveInv'
    BY <1>0, <1>1, CallFacts DEF PositiveInv, CountsPositive, Serving
  <1>2. ASSUME NEW c \in Callers, Finish(c) \/ Fail(c) PROVE PositiveInv'
    BY <1>0, <1>2, AnswerFacts DEF PositiveInv, CountsPositive, Serving
  <1>3. CASE Elsewhere
    BY <1>3 DEF Elsewhere, PositiveInv, CountsPositive
  <1>4. ASSUME NEW t \in Threads, Handle(t) PROVE PositiveInv'
    <2>1. pc'[t] \in {"reply", "load"} /\ (pc'[t] = "reply" => req[cur[t]].fn = "bad")
      BY <1>4 DEF Handle, PlaceInv, TypeOK
    <2>2. cnt' = cnt
      BY <1>4 DEF Handle
    <2> QED BY <1>4, <2>1, <2>2, OwnStep DEF PositiveInv, CountsPositive
  <1>5. ASSUME NEW t \in Threads, Load(t) PROVE PositiveInv'
    <2>1. pc'[t] = "store" /\ cnt' = cnt
      BY <1>5 DEF Load, PlaceInv, TypeOK
    <2> QED BY <1>5, <2>1, OwnStep DEF PositiveInv, CountsPositive
  <1>6. ASSUME NEW t \in Threads, Store(t) PROVE PositiveInv'
    <2>1. \A k \in Counters : cnt[k] >= 1 => cnt'[k] >= 1
      BY <1>6, StoreFacts
    <2>2. cnt'[counter(req[cur[t]])] >= 1
      BY <1>6, StoreFacts
    <2>3. \A u \in Threads : alive /\ pc[u] = "fetch" => counter(req[cur[u]]) \in Counters
      BY ServingFacts DEF Serving
    <2>4. ASSUME NEW u \in Threads, pc'[u] = "fetch"
          PROVE  req[cur[u]].fn = "say_to" /\ cnt'[counter(req[cur[u]])] >= 1
      BY <1>6, <2>1, <2>2, <2>3, <2>4, OwnStep, StoreFacts DEF PositiveInv
    <2>5. ASSUME NEW u \in Threads, pc'[u] = "reply", req[cur[u]].fn = "say_to" PROVE tmp'[u] >= 1
      BY <1>6, <2>5, OwnStep, StoreFacts DEF PositiveInv
    <2>6. CountsPositive'
      BY <1>6, OwnStep DEF PositiveInv, CountsPositive
    <2>7. req' = req /\ cur' = cur
      BY <1>6, OwnStep
    <2> QED BY <2>4, <2>5, <2>6, <2>7 DEF PositiveInv
  <1>7. ASSUME NEW t \in Threads, Fetch(t) PROVE PositiveInv'
    <2>1. pc'[t] = "reply" /\ cnt' = cnt /\ tmp'[t] = cnt[counter(req[cur[t]])] /\ pc[t] = "fetch" /\ alive
      BY <1>7 DEF Fetch, PlaceInv, TypeOK
    <2> QED BY <1>7, <2>1, OwnStep DEF PositiveInv, CountsPositive
  <1>8. ASSUME NEW t \in Threads, SendReply(t) PROVE PositiveInv'
    BY <1>8, ReplyFacts DEF PositiveInv, CountsPositive
  <1>9. CASE UNCHANGED vars
    BY <1>9 DEF vars, PositiveInv, CountsPositive
  <1>10. CASE Release
    BY <1>3, <1>10, PoolAssumption, ElsewhereSteps
  <1>11. ASSUME NEW t \in Threads, ThreadStep(t) PROVE PositiveInv'
    BY <1>3, <1>4, <1>5, <1>6, <1>7, <1>8, <1>11, ElsewhereSteps DEF ThreadStep
  <1> QED BY <1>1, <1>2, <1>9, <1>10, <1>11 DEF Next

\* A count that sayhello_to or saygoodbye_to returns is positive, whatever
\* increments the racing handlers lose.
LEMMA NoZeroCounts == Spec => []CountsPositive
  <1>1. Init => PositiveInv
    BY DEF Init, PositiveInv, CountsPositive
  <1>2. PositiveInv => CountsPositive
    BY DEF PositiveInv
  <1> QED BY <1>1, <1>2, NextPositive, PlaceInvariant, PTL DEF Spec

\* The calls in progress besides c's are none while c is alone.
LEMMA AloneFacts ==
    ASSUME PlaceInv, GrowInv, alive, NEW t \in Threads, pc[t] \in Serving,
           NEW c \in Callers, Alone(c)
    PROVE  cur[t] = c
  <1>1. cur[t] \in Callers /\ st[cur[t]] = "waiting"
    BY ServingFacts
  <1>2. calls[cur[t]] # 0
    BY <1>1 DEF GrowInv
  <1> QED BY <1>1, <1>2 DEF Alone

\* With one service, every step keeps a lone client's counts growing.
LEMMA NextGrow ==
    ASSUME \A s, r \in Services : s = r
    PROVE  PlaceInv /\ PositiveInv /\ GrowInv /\ [Next]_vars => GrowInv'
  <1> SUFFICES ASSUME PlaceInv, PositiveInv, GrowInv, [Next]_vars PROVE GrowInv'
    OBVIOUS
  <1>0. \A t \in Threads : alive /\ pc[t] \in Serving => cur[t] \in Callers
    BY ServingFacts
  <1>a. \A s \in Services : <<s, "say_to">> \in Counters /\ cnt[<<s, "say_to">>] \in Nat
    BY DEF Counters, PlaceInv, TypeOK
  <1>1. ASSUME NEW c \in Callers, Call(c) PROVE GrowInv'
    <2>1. \A d \in Callers : Alone(d)' => d = c
      BY <1>1, CallFacts DEF Alone
    <2>2. Alone(c)' <=> Alone(c)
      BY <1>1, CallFacts DEF Alone
    <2>3. \A d \in Callers : calls'[d] = 0 => st'[d] = "idle"
      BY <1>1, CallFacts DEF GrowInv
    <2>5. UNCHANGED <<alive, pc, cur, tmp, cnt, reply, result>> /\ st'[c] # "replied"
      BY <1>1, CallFacts
    <2>6. ASSUME NEW t \in Threads, alive', pc'[t] \in Serving PROVE ~Alone(cur[t])'
      <3>1. cur[t] \in Callers /\ cur[t] # c /\ cur' = cur /\ calls'[c] # 0
        BY <1>0, <1>1, <2>5, <2>6, CallFacts
      <3> QED BY <3>1 DEF Alone
    <2>7. \A d \in Callers : Alone(d)' => \A s \in Services : result'[d] <= cnt'[<<s, "say_to">>]
      BY <2>1, <2>2, <2>5 DEF GrowInv
    <2> QED BY <2>1, <2>3, <2>5, <2>6, <2>7 DEF GrowInv, Serving
  <1>2. ASSUME NEW c \in Callers, Finish(c) \/ Fail(c) PROVE GrowInv'
    <2>1. UNCHANGED <<alive, pc, cur, tmp, cnt, req, calls>>
      BY <1>2, AnswerFacts
    <2>2. \A d : Alone(d)' <=> Alone(d)
      BY <2>1 DEF Alone
    <2>3. \A d \in Callers : d # c => st'[d] = st[d] /\ reply'[d] = reply[d] /\ result'[d] = result[d]
      BY <1>2, AnswerFacts
    <2>4. \A d \in Callers : calls[d] = 0 => st'[d] = "idle"
      BY <1>2, <2>3, AnswerFacts DEF GrowInv
    <2>5. ASSUME NEW d \in Callers, Alone(d), NEW s \in Services PROVE result'[d] <= cnt[<<s, "say_to">>]
      BY <1>2, <1>a, <2>3, <2>5, AnswerFacts DEF GrowInv
    <2>6. \A t \in Threads : alive /\ pc[t] \in Serving => cur[t] \in Callers /\ cur[t] # c
      BY <1>0, <1>2, AnswerFacts
    <2>7. st'[c] # "replied"
      BY <1>2, AnswerFacts
    <2>8. \A t \in Threads : alive /\ pc[t] \in Serving => result'[cur[t]] = result[cur[t]]
      BY <2>3, <2>6
    <2> QED BY <2>1, <2>2, <2>3, <2>4, <2>5, <2>7, <2>8 DEF GrowInv, Serving
  <1>3. CASE Elsewhere
    <2>1. UNCHANGED <<tmp, cnt, req, reply, result, calls>> /\ (alive' => alive)
      BY <1>3 DEF Elsewhere
    <2>2. \A d : Alone(d)' <=> Alone(d)
      BY <2>1 DEF Alone
    <2>3. \A c \in Callers : (st'[c] = "replied" => st[c] = "replied") /\ (st[c] = "idle" => st'[c] = "idle")
      BY <1>3 DEF Elsewhere
    <2>4. \A u \in Threads : pc'[u] \in {"store", "fetch", "reply"} => pc'[u] = pc[u] /\ cur'[u] = cur[u]
      BY <1>3 DEF Elsewhere
    <2> QED BY <2>1, <2>2, <2>3, <2>4 DEF GrowInv
  <1>4. ASSUME NEW t \in Threads, Handle(t) \/ Load(t) \/ Store(t) \/ Fetch(t) PROVE GrowInv'
    <2>1. UNCHANGED <<alive, cur, st, req, reply, result, calls>> /\ alive /\ pc[t] \in Serving
      BY <1>4, OwnStep DEF Handle, Load, Store, Fetch, Serving
    <2>2. \A d : Alone(d)' <=> Alone(d)
      BY <2>1 DEF Alone
    <2>3. st[cur[t]] = "waiting" /\ cur[t] \in Callers /\ \A u \in Threads : cur[u] = cur[t] => u = t
      BY <2>1, ServingFacts
    <2>4. \A c \in Callers : Alone(c) => c = cur[t]
      BY <2>1, AloneFacts
    <2>5. \A u \in Threads : u # t => pc'[u] = pc[u]
      BY <1>4, OwnStep
    <2>6. ASSUME NEW u \in Threads, pc'[u] \in Serving, Alone(cur[u]) PROVE u = t
      <3>1. CASE u # t
        <4>1. pc[u] \in Serving /\ cur[u] \in Callers
          BY <1>0, <2>1, <2>5, <2>6, <3>1
        <4> QED BY <2>3, <2>4, <2>6, <4>1
      <3> QED BY <3>1
    <2> DEFINE c == cur[t]
               k == counter(req[c])
    <2>7. ASSUME Alone(c)
          PROVE  /\ \A s \in Services : result[c] <= cnt'[<<s, "say_to">>]
                 /\ pc'[t] = "store" => tmp'[t] = cnt'[k]
                 /\ pc'[t] = "fetch" => cnt'[k] > result[c]
                 /\ pc'[t] = "reply" =>
                      /\ req[c].fn = "say_to" => tmp'[t] > result[c]
                      /\ req[c].fn # "say" => \A s \in Services : tmp'[t] <= cnt'[<<s, "say_to">>]
      <3>0. \A s \in Services : result[c] <= cnt[<<s, "say_to">>]
        BY <2>3, <2>7 DEF GrowInv
      <3>i. result[c] \in Int
        BY <2>3 DEF PlaceInv, TypeOK
      <3>1. CASE Handle(t)
        <4>1. cnt' = cnt /\ pc'[t] \in {"reply", "load"}
          BY <3>1 DEF Handle, PlaceInv, TypeOK
        <4>2. pc'[t] = "reply" => req[c].fn = "bad" /\ tmp'[t] = -1
          BY <3>1 DEF Handle, PlaceInv, TypeOK
        <4> QED BY <1>a, <3>0, <4>1, <4>2
      <3>2. CASE Load(t)
        <4>1. cnt' = cnt /\ pc'[t] = "store" /\ tmp'[t] = cnt[k]
          BY <3>2 DEF Load, PlaceInv, TypeOK
        <4> QED BY <3>0, <4>1
      <3>3. CASE Store(t)
        <4>1. tmp[t] = cnt[k] /\ cnt[k] \in Nat /\ cnt'[k] = cnt[k] + 1
          BY <2>1, <2>7, <3>3, StoreFacts DEF GrowInv
        <4>2. \A j \in Counters : cnt[j] \in Nat /\ cnt'[j] \in Nat /\ cnt[j] <= cnt'[j]
          BY <3>3, <4>1, StoreFacts
        <4>3. ASSUME NEW s \in Services PROVE result[c] <= cnt'[<<s, "say_to">>]
          <5> DEFINE j == <<s, "say_to">>
          <5>1. j \in Counters /\ result[c] <= cnt[j]
            BY <1>a, <3>0
          <5> HIDE DEF j
          <5>2. result[c] <= cnt'[j]
            BY <3>i, <4>2, <5>1
          <5> QED BY <5>2 DEF j
        <4>4. req[c].fn = "say_to" => k = <<req[c].svc, "say_to">> /\ req[c].svc \in Services
          BY <3>3, StoreFacts DEF counter
        <4>5. req[c].fn = "say_to" => cnt'[k] > result[c] /\ pc'[t] = "fetch"
          BY <3>0, <3>3, <3>i, <4>1, <4>4, StoreFacts
        <4>6. req[c].fn # "say_to" => pc'[t] = "reply" /\ req[c].fn = "say"
          BY <3>3, StoreFacts
        <4> QED BY <4>3, <4>5, <4>6
      <3>4. CASE Fetch(t)
        <4>1. cnt' = cnt /\ pc'[t] = "reply" /\ tmp'[t] = cnt[k] /\ pc[t] = "fetch"
          BY <3>4 DEF Fetch, PlaceInv, TypeOK
        <4>2. req[c].fn = "say_to" /\ cnt[k] > result[c]
          BY <2>1, <2>7, <4>1 DEF GrowInv, PositiveInv
        <4>3. req[c] \in Request
          BY <2>1, ServingFacts
        <4>4. k = <<req[c].svc, "say_to">> /\ req[c].svc \in Services
          BY <4>2, <4>3 DEF counter, Request
        <4>5. \A s \in Services : cnt[k] = cnt[<<s, "say_to">>] /\ cnt[k] \in Nat
          BY <1>a, <4>4
        <4> QED BY <3>0, <4>1, <4>2, <4>5
      <3> QED BY <1>4, <3>1, <3>2, <3>3, <3>4
    <2>8. \A d \in Callers : st'[d] = "replied" /\ Alone(d)' => FALSE
      BY <2>1, <2>2, <2>3, <2>4
    <2>9. \A d \in Callers : Alone(d)' => \A s \in Services : result'[d] <= cnt'[<<s, "say_to">>]
      BY <2>1, <2>2, <2>4, <2>7
    <2>10. \A d \in Callers : calls'[d] = 0 => st'[d] = "idle"
      BY <2>1 DEF GrowInv
    <2>11. \A u \in Threads : pc'[u] \in Serving /\ Alone(cur[u])' => u = t /\ Alone(c)
      BY <2>1, <2>6 DEF Alone
    <2> HIDE DEF c, k
    <2>12. req' = req /\ result' = result /\ cur' = cur /\ c = cur[t] /\ k = counter(req[c])
      BY <2>1 DEF c, k
    <2> QED BY <2>7, <2>8, <2>9, <2>10, <2>11, <2>12 DEF GrowInv, Serving
  <1>5. ASSUME NEW t \in Threads, SendReply(t) PROVE GrowInv'
    <2>1. /\ alive /\ pc[t] = "reply" /\ cur[t] \in Callers
          /\ UNCHANGED <<alive, cnt, req, result, calls>> /\ pc'[t] = "ret_txn"
      BY <1>5, ReplyFacts
    <2>2. \A d : Alone(d)' <=> Alone(d)
      BY <2>1 DEF Alone
    <2>3. \A c \in Callers : c # cur[t] => st'[c] = st[c] /\ reply'[c] = reply[c]
      BY <1>5, ReplyFacts
    <2>4. \A u \in Threads : u # t => pc'[u] = pc[u] /\ tmp'[u] = tmp[u] /\ cur'[u] = cur[u]
      BY <1>5, ReplyFacts
    <2>5. st'[cur[t]] = "replied" /\ reply'[cur[t]] = tmp[t] /\ st[cur[t]] = "waiting"
      BY <1>5, <2>1, ReplyFacts, ServingFacts DEF Serving
    <2>6. \A c \in Callers : calls[c] = 0 => st'[c] = "idle"
      BY <2>1, <2>3, <2>5 DEF GrowInv
    <2>7. ASSUME NEW c \in Callers, st'[c] = "replied", Alone(c)
          PROVE  /\ req[c].fn = "say_to" => reply'[c] > result[c]
                 /\ req[c].fn # "say" => \A s \in Services : reply'[c] <= cnt[<<s, "say_to">>]
      <3>1. CASE c = cur[t]
        BY <2>1, <2>5, <2>7, <3>1 DEF GrowInv
      <3>2. CASE c # cur[t]
        BY <2>3, <2>7, <3>2 DEF GrowInv
      <3> QED BY <3>1, <3>2
    <2>8. \A c \in Callers : st'[c] = "replied" /\ Alone(c)' =>
            /\ req'[c].fn = "say_to" => reply'[c] > result'[c]
            /\ req'[c].fn # "say" => \A s \in Services : reply'[c] <= cnt'[<<s, "say_to">>]
      BY <2>1, <2>2, <2>7
    <2>9. \A c \in Callers : calls'[c] = 0 => st'[c] = "idle"
      BY <2>1, <2>6
    <2>10. \A c \in Callers : Alone(c)' => \A s \in Services : result'[c] <= cnt'[<<s, "say_to">>]
      BY <2>1, <2>2 DEF GrowInv
    <2>11. ASSUME NEW u \in Threads, alive', pc'[u] \in {"store", "fetch", "reply"}, Alone(cur[u])'
           PROVE  u # t /\ alive /\ pc'[u] = pc[u] /\ cur'[u] = cur[u] /\ tmp'[u] = tmp[u] /\ Alone(cur[u])
      <3>1. u # t
        BY <2>1, <2>11
      <3>2. alive /\ pc'[u] = pc[u] /\ cur'[u] = cur[u] /\ tmp'[u] = tmp[u]
        BY <2>1, <2>4, <3>1
      <3>3. Alone(cur[u])
        BY <2>1, <2>11, <3>2 DEF Alone
      <3> QED BY <3>1, <3>2, <3>3
    <2> QED BY <2>1, <2>8, <2>9, <2>10, <2>11 DEF GrowInv
  <1>6. CASE UNCHANGED vars
    BY <1>6 DEF vars, GrowInv, Alone
  <1>7. CASE Release
    BY <1>3, <1>7, PoolAssumption, ElsewhereSteps
  <1>8. ASSUME NEW t \in Threads, ThreadStep(t) PROVE GrowInv'
    BY <1>3, <1>4, <1>5, <1>8, ElsewhereSteps DEF ThreadStep
  <1> QED BY <1>1, <1>2, <1>6, <1>7, <1>8 DEF Next

\* With one service, a client that is alone gets counts that grow, whichever
\* threads of the pool serve it.  (Two services count apart, so what hello
\* returned says nothing about goodbye's next count.)
THEOREM LoneCountsGrow ==
    ASSUME \A s, r \in Services : s = r
    PROVE  Spec => CountsGrow
  <1>1. Init => PositiveInv
    BY DEF Init, PositiveInv, CountsPositive
  <1>2. Init => GrowInv
    BY DEF Init, GrowInv, Counters
  <1>3. GrowInv => \A c \in Callers :
            /\ st[c] = "replied" /\ st'[c] = "idle" /\ req[c].fn = "say_to"
            /\ \A d \in Callers \ {c} : calls[d] = 0
            => reply[c] > result[c]
    BY DEF GrowInv, Alone
  <1>4. Spec => []GrowInv
    BY <1>1, <1>2, NextPositive, NextGrow, PlaceInvariant, PTL DEF Spec
  <1> QED BY <1>3, <1>4, PTL DEF CountsGrow


-----------------------------------------------------------------------------
(* The counts are no more than the calls.                                  *)

\* A call that has not been counted yet: its client waits, and no thread has
\* stored a count for it.
Pending(c) ==
    /\ st[c] = "waiting"
    /\ \A t \in Threads : cur[t] = c => pc[t] \notin {"fetch", "reply"}

\* The calls that may have been counted.
CountedCalls == {m \in Made : ~\E c \in Callers : Pending(c) /\ m = <<c, calls[c]>>}

\* CountsPlausible says nothing of the counters or of what racing threads have
\* loaded.  Both are at most the number of calls counted: a store adds one to
\* a value that did not count its own call yet.
CountedInv ==
    /\ IsFiniteSet(Made)
    /\ \A c \in Callers : st[c] # "idle" => calls[c] >= 1
    /\ alive => \A k \in Counters : cnt[k] <= Cardinality(CountedCalls)
    /\ alive => \A t \in Threads : pc[t] \in {"store", "reply"} => tmp[t] <= Cardinality(CountedCalls)
    /\ \A c \in Callers : st[c] = "replied" => reply[c] <= Cardinality(Made)

\* The calls made are pairs of a client and a number it has reached.
LEMMA MadeFacts ==
    \A c \in Callers : \A n : <<c, n>> \in Made <=> n \in 1..calls[c]
  <1> SUFFICES ASSUME NEW c \in Callers, NEW n
               PROVE  <<c, n>> \in Made <=> n \in 1..calls[c]
    OBVIOUS
  <1>1. ASSUME <<c, n>> \in Made PROVE n \in 1..calls[c]
    <2>1. PICK d \in Callers : <<c, n>> \in {d} \X (1..calls[d])
      BY <1>1 DEF Made
    <2>2. c = d /\ n \in 1..calls[d]
      BY <2>1
    <2> QED BY <2>2
  <1>2. ASSUME n \in 1..calls[c] PROVE <<c, n>> \in Made
    <2>1. <<c, n>> \in {c} \X (1..calls[c])
      BY <1>2
    <2> QED BY <2>1 DEF Made
  <1> QED BY <1>1, <1>2

\* What is counted has been made.
LEMMA CountedSize ==
    ASSUME IsFiniteSet(Made)
    PROVE  /\ IsFiniteSet(CountedCalls)
           /\ Cardinality(CountedCalls) \in Nat /\ Cardinality(Made) \in Nat
           /\ Cardinality(CountedCalls) <= Cardinality(Made)
  <1>1. CountedCalls \in SUBSET Made
    BY DEF CountedCalls
  <1> QED BY <1>1, FS_Subset, FS_CardinalityType

\* A step that makes no call and leaves no call uncounted again keeps the
\* calls made, and the calls counted grow.
LEMMA CountedGrows ==
    ASSUME IsFiniteSet(Made), UNCHANGED calls,
           \A c \in Callers : Pending(c)' => Pending(c)
    PROVE  /\ Made' = Made
           /\ Cardinality(CountedCalls)' \in Nat
           /\ Cardinality(CountedCalls) <= Cardinality(CountedCalls)'
  <1>1. Made' = Made
    BY DEF Made
  <1>2. CountedCalls \in SUBSET CountedCalls'
    BY <1>1 DEF CountedCalls
  <1>3. IsFiniteSet(CountedCalls')
    <2>1. CountedCalls' \in SUBSET Made
      BY <1>1 DEF CountedCalls
    <2> QED BY <2>1, FS_Subset
  <1>4. Cardinality(CountedCalls) <= Cardinality(CountedCalls') /\ Cardinality(CountedCalls') \in Nat
    BY <1>2, <1>3, FS_Subset, FS_CardinalityType
  <1> QED BY <1>1, <1>4

\* A new call is made, and not counted.
LEMMA CallCounted ==
    ASSUME PlaceInv, CountedInv, NEW c \in Callers, Call(c)
    PROVE  CountedInv'
  <1>1. /\ UNCHANGED <<alive, released, pc, cur, tmp, cnt, reply>>
        /\ \A d \in Callers : d # c => st'[d] = st[d] /\ calls'[d] = calls[d]
        /\ calls[c] \in Nat /\ calls'[c] = calls[c] + 1 /\ st[c] = "idle"
        /\ st'[c] \in {"waiting", "failed"}
        /\ ~released => st'[c] = "waiting"
        /\ alive => ~released /\ \A t \in Threads : cur[t] # c
    <2>1. /\ st[c] = "idle" /\ UNCHANGED released /\ st'[c] \in {"waiting", "failed"}
          /\ ~released => st'[c] = "waiting"
      BY DEF Call, PlaceInv, TypeOK
    <2>2. alive => ~released
      BY DEF PlaceInv, AtWork
    <2> QED BY <2>1, <2>2, CallFacts
  <1> DEFINE n == calls[c] + 1
             m == <<c, n>>
  <1>2. m \notin Made
    <2>1. n \notin 1..calls[c]
      BY <1>1
    <2> QED BY <2>1, MadeFacts
  <1>3. Made' = Made \cup {m}
    <2>1. \A d \in Callers : {d} \X (1..calls'[d]) =
                IF d = c THEN ({c} \X (1..calls[c])) \cup {m} ELSE {d} \X (1..calls[d])
      <3>1. ASSUME NEW d \in Callers, d # c PROVE {d} \X (1..calls'[d]) = {d} \X (1..calls[d])
        BY <1>1, <3>1
      <3>2. {c} \X (1..calls'[c]) = ({c} \X (1..calls[c])) \cup {m}
        <4>1. 1..calls'[c] = (1..calls[c]) \cup {n}
          BY <1>1
        <4> HIDE DEF n
        <4> QED BY <4>1
      <3> QED BY <3>1, <3>2
    <2> HIDE DEF m
    <2> QED BY <2>1 DEF Made
  <1>4. /\ IsFiniteSet(Made') /\ Cardinality(Made') = Cardinality(Made) + 1
        /\ Cardinality(Made) \in Nat
    BY <1>2, <1>3, FS_AddElement, FS_CardinalityType DEF CountedInv
  <1>5. \A d \in Callers : st'[d] # "idle" => calls'[d] >= 1
    BY <1>1 DEF CountedInv
  <1>6. \A d \in Callers : st'[d] = "replied" => reply'[d] <= Cardinality(Made')
    <2>1. ASSUME NEW d \in Callers, st'[d] = "replied" PROVE reply'[d] <= Cardinality(Made')
      <3>1. reply'[d] = reply[d] /\ reply[d] <= Cardinality(Made) /\ reply[d] \in Int
        BY <1>1, <2>1 DEF CountedInv, PlaceInv, TypeOK
      <3> QED BY <1>4, <3>1
    <2> QED BY <2>1
  <1>7. alive => CountedCalls' = CountedCalls
    <2> SUFFICES ASSUME alive PROVE CountedCalls' = CountedCalls
      OBVIOUS
    <2>1. Pending(c)' /\ ~Pending(c)
      BY <1>1 DEF Pending
    <2>2. \A d \in Callers : d # c => (Pending(d)' <=> Pending(d))
      BY <1>1 DEF Pending
    <2>3. m \notin CountedCalls'
      <3>1. m = <<c, calls'[c]>>
        BY <1>1
      <3> QED BY <2>1, <3>1 DEF CountedCalls
    <2>4. ASSUME NEW e \in Made PROVE e \in CountedCalls' <=> e \in CountedCalls
      <3>1. e # <<c, calls'[c]>>
        BY <1>1, <1>2
      <3>2. (\E d \in Callers : Pending(d)' /\ e = <<d, calls'[d]>>)
             <=> (\E d \in Callers : Pending(d) /\ e = <<d, calls[d]>>)
        BY <1>1, <2>1, <2>2, <3>1
      <3>3. e \in Made'
        BY <1>3
      <3> QED BY <3>2, <3>3 DEF CountedCalls
    <2>5. CountedCalls \subseteq Made /\ CountedCalls' \subseteq Made'
      BY DEF CountedCalls
    <2> HIDE DEF m
    <2> QED BY <1>3, <2>3, <2>4, <2>5
  <1> QED BY <1>1, <1>4, <1>5, <1>6, <1>7 DEF CountedInv

\* A store counts its call, which was pending, and no other.
LEMMA StoreCounted ==
    ASSUME PlaceInv, CountedInv, NEW t \in Threads, Store(t)
    PROVE  CountedInv'
  <1>a. PICK d \in Callers : d = cur[t]
    BY StoreFacts
  <1> DEFINE m == <<d, calls[d]>>
  <1>1. /\ UNCHANGED <<alive, cur, st, req, reply, result, calls>> /\ alive
        /\ \A u \in Threads : u # t => pc'[u] = pc[u] /\ tmp'[u] = tmp[u]
        /\ pc[t] = "store" /\ pc'[t] \in {"fetch", "reply"}
        /\ pc'[t] = "reply" => tmp'[t] = 0
        /\ counter(req[d]) \in Counters /\ tmp[t] \in Nat
        /\ \A k \in Counters :
                cnt[k] \in Nat /\ cnt'[k] = IF k = counter(req[d]) THEN tmp[t] + 1 ELSE cnt[k]
        /\ st[d] = "waiting" /\ \A u \in Threads : cur[u] = d => u = t
    <2>1. pc'[t] \in {"fetch", "reply"} /\ (pc'[t] = "reply" => tmp'[t] = 0)
      BY StoreFacts
    <2> QED BY <1>a, <2>1, StoreFacts, OwnStep, ServingFacts DEF Serving
  <1>2. Made' = Made
    BY <1>1 DEF Made
  <1>3. Pending(d) /\ ~Pending(d)'
    BY <1>a, <1>1 DEF Pending
  <1>4. \A c \in Callers : c # d => (Pending(c)' <=> Pending(c))
    BY <1>a, <1>1 DEF Pending
  <1>5. m \in Made /\ m \notin CountedCalls
    <2>1. calls[d] \in Nat /\ calls[d] >= 1
      BY <1>1 DEF CountedInv, PlaceInv, TypeOK
    <2>2. m \in Made
      BY <1>1, <2>1, MadeFacts
    <2>3. m \notin CountedCalls
      BY <1>1, <1>3 DEF CountedCalls
    <2> QED BY <2>2, <2>3
  <1>6. CountedCalls' = CountedCalls \cup {m}
    <2>1. ASSUME NEW e \in Made PROVE e \in CountedCalls' <=> e \in CountedCalls \/ e = m
      <3>1. (\E c \in Callers : Pending(c)' /\ e = <<c, calls'[c]>>)
             <=> (\E c \in Callers : Pending(c) /\ e = <<c, calls[c]>>) /\ e # m
        <4>1. ASSUME NEW c \in Callers, Pending(c)', e = <<c, calls'[c]>>
              PROVE  Pending(c) /\ e = <<c, calls[c]>> /\ e # m
          BY <1>1, <1>3, <1>4, <4>1
        <4>2. ASSUME NEW c \in Callers, Pending(c), e = <<c, calls[c]>>, e # m
              PROVE  Pending(c)' /\ e = <<c, calls'[c]>>
          BY <1>1, <1>4, <4>2
        <4> HIDE DEF m
        <4> QED BY <4>1, <4>2
      <3> HIDE DEF m
      <3> QED BY <1>1, <1>2, <3>1 DEF CountedCalls
    <2>2. CountedCalls \subseteq Made /\ CountedCalls' \subseteq Made
      BY <1>2 DEF CountedCalls
    <2> HIDE DEF m
    <2> QED BY <1>5, <2>1, <2>2
  <1>7. PICK n \in Nat : n = Cardinality(CountedCalls) /\ Cardinality(CountedCalls)' = n + 1
    <2>1. IsFiniteSet(CountedCalls) /\ Cardinality(CountedCalls) \in Nat
      BY CountedSize DEF CountedInv
    <2>2. Cardinality(CountedCalls \cup {m}) = Cardinality(CountedCalls) + 1
      <3> HIDE DEF m
      <3> QED BY <1>5, <2>1, FS_AddElement
    <2> QED BY <1>6, <2>1, <2>2
  <1>8. \A k \in Counters : cnt'[k] <= n + 1
    <2>1. tmp[t] <= n
      BY <1>1, <1>7 DEF CountedInv
    <2>2. \A k \in Counters : cnt[k] <= n
      BY <1>1, <1>7 DEF CountedInv
    <2> QED BY <1>1, <1>7, <2>1, <2>2
  <1>9. \A u \in Threads : pc'[u] \in {"store", "reply"} => tmp'[u] <= n + 1
    <2>1. ASSUME NEW u \in Threads, pc'[u] \in {"store", "reply"} PROVE tmp'[u] <= n + 1
      <3>1. CASE u = t
        BY <1>1, <1>7, <2>1, <3>1
      <3>2. CASE u # t
        <4>1. tmp'[u] = tmp[u] /\ tmp[u] <= n /\ tmp[u] \in Int
          BY <1>1, <1>7, <2>1, <3>2 DEF CountedInv, PlaceInv, TypeOK
        <4> QED BY <1>7, <4>1
      <3> QED BY <3>1, <3>2
    <2> QED BY <2>1
  <1> QED BY <1>1, <1>2, <1>7, <1>8, <1>9 DEF CountedInv

\* Every other step keeps the counters, and loads and answers with values that
\* are no more than what is counted.
LEMMA QuietCounted ==
    ASSUME PlaceInv, CountedInv, UNCHANGED <<cnt, calls>>, alive' => alive,
           \A c \in Callers : st'[c] # "idle" => st[c] # "idle",
           alive' => \A c \in Callers : Pending(c)' => Pending(c),
           alive' => \A t \in Threads : pc'[t] \in {"store", "reply"} =>
                tmp'[t] \in Int /\ tmp'[t] <= Cardinality(CountedCalls),
           \A c \in Callers : st'[c] = "replied" => reply'[c] <= Cardinality(Made)
    PROVE  CountedInv'
  <1>1. Made' = Made /\ IsFiniteSet(Made)
    BY DEF Made, CountedInv
  <1>2. \A c \in Callers : st'[c] # "idle" => calls'[c] >= 1
    BY DEF CountedInv
  <1>3. ASSUME alive'
        PROVE  /\ \A k \in Counters : cnt'[k] <= Cardinality(CountedCalls)'
               /\ \A t \in Threads : pc'[t] \in {"store", "reply"} => tmp'[t] <= Cardinality(CountedCalls)'
    <2>1. PICK n \in Nat : n = Cardinality(CountedCalls)
      BY <1>1, CountedSize
    <2>2. PICK m \in Nat : m = Cardinality(CountedCalls)' /\ n <= m
      BY <1>1, <1>3, <2>1, CountedGrows
    <2>3. \A k \in Counters : cnt'[k] \in Nat /\ cnt'[k] <= n
      BY <1>3, <2>1 DEF CountedInv, PlaceInv, TypeOK
    <2>4. \A k \in Counters : cnt'[k] <= m
      BY <2>2, <2>3
    <2>5. \A t \in Threads : pc'[t] \in {"store", "reply"} => tmp'[t] \in Int /\ tmp'[t] <= n
      BY <1>3, <2>1
    <2>6. \A t \in Threads : pc'[t] \in {"store", "reply"} => tmp'[t] <= m
      BY <2>2, <2>5
    <2> QED BY <2>2, <2>4, <2>6
  <1> QED BY <1>1, <1>2, <1>3 DEF CountedInv

\* Every step keeps the counts within the calls made.
LEMMA NextCounted == PlaceInv /\ CountedInv /\ [Next]_vars => CountedInv'
  <1> SUFFICES ASSUME PlaceInv, CountedInv, [Next]_vars PROVE CountedInv'
    OBVIOUS
  <1>0. TypeOK /\ IsFiniteSet(Made)
    BY DEF PlaceInv, CountedInv
  <1>1. ASSUME NEW c \in Callers, Finish(c) \/ Fail(c) PROVE CountedInv'
    <2>1. /\ UNCHANGED <<alive, pc, cur, tmp, cnt, req, calls>>
          /\ \A d \in Callers : d # c => st'[d] = st[d] /\ reply'[d] = reply[d]
          /\ st'[c] = "idle"
      BY <1>1, AnswerFacts
    <2>2. \A d \in Callers : st'[d] # "idle" => st'[d] = st[d] /\ reply'[d] = reply[d]
      BY <2>1
    <2>3. \A d \in Callers : Pending(d)' => Pending(d)
      BY <2>1, <2>2 DEF Pending
    <2>4. alive' => \A t \in Threads : pc'[t] \in {"store", "reply"} =>
                tmp'[t] \in Int /\ tmp'[t] <= Cardinality(CountedCalls)
      BY <1>0, <2>1 DEF CountedInv, TypeOK
    <2>5. \A d \in Callers : st'[d] = "replied" => reply'[d] <= Cardinality(Made)
      BY <2>2 DEF CountedInv
    <2> QED BY <2>1, <2>2, <2>3, <2>4, <2>5, QuietCounted
  <1>2. CASE Elsewhere
    <2>1. /\ UNCHANGED <<tmp, cnt, reply, calls>> /\ (alive' => alive)
          /\ \A u \in Threads : pc'[u] \in {"store", "reply"} => pc'[u] = pc[u]
          /\ \A u \in Threads : pc[u] \in {"fetch", "reply"} => pc'[u] = pc[u] /\ cur'[u] = cur[u]
          /\ \A c \in Callers : st'[c] = "replied" => st[c] = "replied"
          /\ \A c \in Callers : st'[c] # st[c] => st[c] = "waiting"
      BY <1>2 DEF Elsewhere
    <2>2. ASSUME NEW c \in Callers, Pending(c)' PROVE Pending(c)
      <3>1. st[c] = "waiting"
        BY <2>1, <2>2 DEF Pending
      <3>2. \A t \in Threads : cur[t] = c => pc[t] \notin {"fetch", "reply"}
        BY <2>1, <2>2 DEF Pending
      <3> QED BY <3>1, <3>2 DEF Pending
    <2>3. alive' => \A t \in Threads : pc'[t] \in {"store", "reply"} =>
                tmp'[t] \in Int /\ tmp'[t] <= Cardinality(CountedCalls)
      BY <1>0, <2>1 DEF CountedInv, TypeOK
    <2>4. \A d \in Callers : st'[d] = "replied" => reply'[d] <= Cardinality(Made)
      BY <2>1 DEF CountedInv
    <2>5. \A c \in Callers : st'[c] # "idle" => st[c] # "idle"
      BY <2>1
    <2> QED BY <2>1, <2>2, <2>3, <2>4, <2>5, QuietCounted
  <1>3. ASSUME NEW t \in Threads, Handle(t) \/ Load(t) \/ Fetch(t) PROVE CountedInv'
    <2>1. /\ UNCHANGED <<alive, cur, st, req, reply, result, calls>> /\ alive
          /\ \A u \in Threads : u # t => pc'[u] = pc[u] /\ tmp'[u] = tmp[u]
      BY <1>3, OwnStep
    <2>2. cnt' = cnt
      BY <1>3 DEF Handle, Load, Fetch
    <2>3. \/ pc[t] = "handle" /\ pc'[t] = "reply" /\ tmp'[t] = -1
          \/ pc[t] = "handle" /\ pc'[t] = "load"
          \/ pc[t] = "load" /\ pc'[t] = "store" /\ tmp'[t] = cnt[counter(req[cur[t]])]
          \/ pc[t] = "fetch" /\ pc'[t] = "reply" /\ tmp'[t] = cnt[counter(req[cur[t]])]
      BY <1>0, <1>3 DEF Handle, Load, Fetch, TypeOK
    <2>4. \A u \in Threads : pc[u] \in {"fetch", "reply"} => pc'[u] \in {"fetch", "reply"}
      BY <2>1, <2>3
    <2>5. \A c \in Callers : Pending(c)' => Pending(c)
      BY <2>1, <2>4 DEF Pending
    <2>6. PICK n \in Nat : n = Cardinality(CountedCalls)
      BY <1>0, CountedSize
    <2>7. pc[t] \in {"load", "fetch"} =>
                cnt[counter(req[cur[t]])] \in Nat /\ cnt[counter(req[cur[t]])] <= n
      <3>1. pc[t] \in {"load", "fetch"} => counter(req[cur[t]]) \in Counters
        BY <2>1, ServingFacts DEF Serving
      <3> QED BY <1>0, <2>1, <2>6, <3>1 DEF CountedInv, TypeOK
    <2>8. \A u \in Threads : pc'[u] \in {"store", "reply"} => tmp'[u] \in Int /\ tmp'[u] <= n
      <3>1. ASSUME NEW u \in Threads, pc'[u] \in {"store", "reply"}
            PROVE  tmp'[u] \in Int /\ tmp'[u] <= n
        <4>1. CASE u = t
          BY <2>3, <2>6, <2>7, <3>1, <4>1
        <4>2. CASE u # t
          BY <1>0, <2>1, <2>6, <3>1, <4>2 DEF CountedInv, TypeOK
        <4> QED BY <4>1, <4>2
      <3> QED BY <3>1
    <2>9. \A d \in Callers : st'[d] = "replied" => reply'[d] <= Cardinality(Made)
      BY <2>1 DEF CountedInv
    <2> QED BY <2>1, <2>2, <2>5, <2>6, <2>8, <2>9, QuietCounted
  <1>4. ASSUME NEW t \in Threads, SendReply(t) PROVE CountedInv'
    <2>1. /\ alive /\ pc[t] = "reply" /\ cur[t] \in Callers /\ UNCHANGED <<alive, cnt, calls>>
          /\ st'[cur[t]] = "replied" /\ reply'[cur[t]] = tmp[t]
          /\ \A c \in Callers : c # cur[t] => st'[c] = st[c] /\ reply'[c] = reply[c]
          /\ pc'[t] = "ret_txn"
          /\ \A u \in Threads : u # t => pc'[u] = pc[u] /\ tmp'[u] = tmp[u] /\ cur'[u] = cur[u]
          /\ st[cur[t]] = "waiting"
      BY <1>4, ReplyFacts, ServingFacts DEF Serving
    <2>2. ASSUME NEW c \in Callers, Pending(c)' PROVE Pending(c)
      <3>1. c # cur[t] /\ st[c] = "waiting"
        BY <2>1, <2>2 DEF Pending
      <3>2. \A u \in Threads : cur[u] = c => pc[u] \notin {"fetch", "reply"}
        BY <2>1, <2>2, <3>1 DEF Pending
      <3> QED BY <3>1, <3>2 DEF Pending
    <2>3. \A u \in Threads : pc'[u] \in {"store", "reply"} =>
                tmp'[u] \in Int /\ tmp'[u] <= Cardinality(CountedCalls)
      BY <1>0, <2>1 DEF CountedInv, TypeOK
    <2>4. ASSUME NEW d \in Callers, st'[d] = "replied" PROVE reply'[d] <= Cardinality(Made)
      <3>1. CASE d = cur[t]
        <4>1. tmp[t] <= Cardinality(CountedCalls) /\ tmp[t] \in Int
          BY <1>0, <2>1 DEF CountedInv, TypeOK
        <4>2. PICK n \in Nat, m \in Nat : n = Cardinality(CountedCalls) /\ m = Cardinality(Made) /\ n <= m
          BY <1>0, CountedSize
        <4>3. tmp[t] <= m
          BY <4>1, <4>2
        <4> QED BY <2>1, <3>1, <4>2, <4>3
      <3>2. CASE d # cur[t]
        BY <2>1, <2>4, <3>2 DEF CountedInv
      <3> QED BY <3>1, <3>2
    <2>5. \A c \in Callers : st'[c] # "idle" => st[c] # "idle"
      BY <2>1
    <2> QED BY <2>1, <2>2, <2>3, <2>4, <2>5, QuietCounted
  <1>5. CASE UNCHANGED vars
    <2>1. Made' = Made /\ CountedCalls' = CountedCalls
      BY <1>5 DEF vars, Made, CountedCalls, Pending
    <2> QED BY <1>5, <2>1 DEF vars, CountedInv
  <1>6. CASE Release
    BY <1>2, <1>6, PoolAssumption, ElsewhereSteps
  <1>7. ASSUME NEW t \in Threads, ThreadStep(t) PROVE CountedInv'
    BY <1>2, <1>3, <1>4, <1>7, StoreCounted, ElsewhereSteps DEF ThreadStep
  <1> QED BY <1>1, <1>5, <1>6, <1>7, CallCounted DEF Next

\* No calls, no counts.
LEMMA InitCounted == Init => CountedInv
  <1> SUFFICES ASSUME Init PROVE CountedInv
    OBVIOUS
  <1>1. /\ \A c \in Callers : calls[c] = 0 /\ st[c] = "idle"
        /\ \A k \in Counters : cnt[k] = 0
        /\ \A t \in Threads : tmp[t] = 0
    BY DEF Init
  <1>2. Made = {}
    <2>1. \A c \in Callers : {c} \X (1..calls[c]) = {}
      BY <1>1
    <2> QED BY <2>1 DEF Made
  <1>3. IsFiniteSet(Made) /\ Cardinality(Made) = 0
    BY <1>2, FS_EmptySet
  <1>4. Cardinality(CountedCalls) = 0
    <2>1. CountedCalls = {}
      BY <1>2 DEF CountedCalls
    <2> QED BY <2>1, FS_EmptySet
  <1> QED BY <1>1, <1>3, <1>4 DEF CountedInv

\* A count that sayhello_to or saygoodbye_to returns is a count of calls: at
\* least one, and no more than were made, however the handlers of the pool's
\* threads race on the static counters and whenever the server dies.
THEOREM CountsArePlausible == Spec => []CountsPlausible
  <1>1. PlaceInv /\ CountedInv /\ CountsPositive => CountsPlausible
    <2> SUFFICES ASSUME PlaceInv, CountedInv, CountsPositive,
                        NEW c \in Callers, st[c] = "replied", req[c].fn = "say_to"
                 PROVE  reply[c] \in 1..Cardinality(Made)
      BY DEF CountsPlausible
    <2>1. reply[c] \in Int /\ reply[c] >= 1 /\ reply[c] <= Cardinality(Made)
      BY DEF PlaceInv, TypeOK, CountsPositive, CountedInv
    <2>2. Cardinality(Made) \in Nat
      BY CountedSize DEF CountedInv
    <2> QED BY <2>1, <2>2
  <1>2. Spec => []CountedInv
    BY InitCounted, NextCounted, PlaceInvariant, PTL DEF Spec
  <1> QED BY <1>1, <1>2, NoZeroCounts, PlaceInvariant, PTL
===============================================================================
