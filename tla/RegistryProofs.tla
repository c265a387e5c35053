----------------------------- MODULE RegistryProofs -----------------------------
(***************************************************************************)
(* More proofs about ServiceManager: a pass over LIST_SERVICES misses no    *)
(* service, every registered service is watched for its death, and every   *)
(* step of the manager is a step of Registry, for any processes, objects,  *)
(* names and requests in which an object goes by one name.                 *)
(***************************************************************************)
EXTENDS ServiceManagerProofs

-----------------------------------------------------------------------------
(* The list.                                                               *)

\* A pass over LIST_SERVICES misses no service: do_add_service puts a new
\* svcinfo in front, which moves the others to larger indices, and nothing
\* else touches the list.
THEOREM ListNeverShrinks == Spec => PassMissesNone
  <1> DEFINE Kept == \A i \in DOMAIN svclist :
                        \E j \in DOMAIN svclist' : j >= i /\ svclist'[j] = svclist[i]
  <1>1. TypeInv /\ [Next]_vars => Kept
    <2> SUFFICES ASSUME TypeInv, [Next]_vars PROVE Kept
      OBVIOUS
    <2>0. svclist \in Seq(Names) /\ Len(svclist) \in Nat /\ DOMAIN svclist = 1..Len(svclist)
      BY LenProperties DEF TypeInv, TypeOK
    <2>1. CASE UNCHANGED svclist
      BY <2>0, <2>1
    <2>2. ASSUME NEW p \in Procs, AddNew(p) PROVE Kept
      <3> DEFINE n == request[p].name
                 t == <<n>> \o svclist
      <3>1. n \in Names /\ svclist' = t
        BY <2>2 DEF AddNew, Recv, TypeInv, CallsInProgress
      <3>2. <<n>> \in Seq(Names) /\ Len(<<n>>) = 1
        BY <3>1
      <3>3. /\ t \in Seq(Names) /\ Len(t) = 1 + Len(svclist)
            /\ \A i \in 1..(1 + Len(svclist)) :
                 t[i] = IF i <= 1 THEN <<n>>[i] ELSE svclist[i - 1]
        BY <2>0, <3>2, ConcatProperties
      <3>4. DOMAIN t = 1..(1 + Len(svclist))
        BY <3>3, LenProperties
      <3> HIDE DEF t
      <3>5. \A i \in DOMAIN svclist : t[i + 1] = svclist[i] /\ i + 1 \in DOMAIN t /\ i + 1 >= i
        BY <2>0, <3>3, <3>4
      <3> QED BY <3>1, <3>5
    <2>3. ASSUME NEW p \in Procs,
                 SendAdd(p) \/ SendFind(p) \/ SendList(p) \/ SendOther(p) \/ Die(p) \/ Release(p)
          PROVE  UNCHANGED svclist
      BY <2>3 DEF SendAdd, SendFind, SendList, SendOther, Send, Die, Release, manager
    <2>4. ASSUME NEW p \in Procs, Handler(p) PROVE AddNew(p) \/ UNCHANGED svclist
      BY <2>4 DEF Handler, Find, List, Ping, Bad, AddReject, AddNoMemory, AddExisting, manager
    <2>5. ASSUME Acquire \/ Link \/ DeadBinder \/ SendReply PROVE UNCHANGED svclist
      BY <2>5 DEF Acquire, Link, DeadBinder, SendReply, manager
    <2> QED BY <2>1, <2>2, <2>3, <2>4, <2>5 DEF Next, Manager, vars
  <1>2. Spec => []TypeInv
    BY InitType, NextType, PTL DEF Spec
  <1> QED BY <1>1, <1>2, PTL DEF PassMissesNone, Spec

-----------------------------------------------------------------------------
(* Queues.                                                                 *)

\* r is q without the work w, in the same order.
Without(r, q, w) ==
    \E f \in [1..Len(r) -> 1..Len(q)] :
        /\ \A i, j \in 1..Len(r) : i < j => f[i] < f[j]
        /\ \A i \in 1..Len(r) : r[i] = q[f[i]]
        /\ \A k \in 1..Len(q) : q[k] = w \/ \E i \in 1..Len(r) : f[i] = k
        /\ \E k \in 1..Len(q) : q[k] = w /\ \A i \in 1..Len(r) : f[i] # k

\* No work is queued twice.
Distinct(q) == \A i, j \in 1..Len(q) : q[i] = q[j] => i = j

\* What reading the head off the queue leaves.
LEMMA TailWithout ==
    ASSUME NEW q \in Seq(Work), q # <<>>
    PROVE  Without(Tail(q), q, Head(q)) /\ Tail(q) \in Seq(Work)
  <1> DEFINE r == Tail(q)
             f == [i \in 1..Len(r) |-> i + 1]
  <1>1. /\ r \in Seq(Work) /\ Len(q) \in Nat /\ Len(q) # 0 /\ Len(r) = Len(q) - 1
        /\ Head(q) = q[1] /\ \A i \in 1..Len(r) : r[i] = q[i + 1]
    BY HeadTailProperties, LenProperties, EmptySeq
  <1> HIDE DEF r
  <1>2. f \in [1..Len(r) -> 1..Len(q)]
    BY <1>1
  <1>3. \A i \in 1..Len(r) : f[i] = i + 1
    OBVIOUS
  <1>4. \A i, j \in 1..Len(r) : i < j => f[i] < f[j]
    BY <1>1, <1>3
  <1>5. ASSUME NEW k \in 1..Len(q), q[k] # Head(q) PROVE \E i \in 1..Len(r) : f[i] = k
    <2>1. k # 1 /\ k - 1 \in 1..Len(r)
      BY <1>1, <1>5
    <2>2. f[k - 1] = k
      BY <1>1, <2>1, <1>3
    <2> QED BY <2>1, <2>2
  <1>6. 1 \in 1..Len(q) /\ q[1] = Head(q) /\ \A i \in 1..Len(r) : f[i] # 1
    BY <1>1, <1>3
  <1>7. \A i \in 1..Len(r) : r[i] = q[f[i]]
    BY <1>1, <1>3
  <1> HIDE DEF f
  <1>8. Without(r, q, Head(q))
    BY <1>2, <1>4, <1>5, <1>6, <1>7 DEF Without
  <1> QED BY <1>1, <1>8 DEF r

\* What the driver's removal of a notice leaves: the queue, or the queue
\* without it.
LEMMA UnqueueWithout ==
    ASSUME NEW q \in Seq(Work), NEW w
    PROVE  \/ Unqueue(q, w) = q /\ \A i \in 1..Len(q) : q[i] # w
           \/ Without(Unqueue(q, w), q, w)
  <1>0. Len(q) \in Nat /\ DOMAIN q = 1..Len(q) /\ \A i \in 1..Len(q) : q[i] \in Work
    BY LenProperties, ElementOfSeq
  <1>1. CASE \A i \in DOMAIN q : q[i] # w
    BY <1>0, <1>1 DEF Unqueue
  <1>2. CASE \E i \in DOMAIN q : q[i] = w
    <2> DEFINE k == CHOOSE i \in DOMAIN q : q[i] = w
               a == SubSeq(q, 1, k - 1)
               b == SubSeq(q, k + 1, Len(q))
               r == a \o b
               f == [i \in 1..Len(r) |-> IF i < k THEN i ELSE i + 1]
    <2>1. k \in 1..Len(q) /\ q[k] = w
      BY <1>0, <1>2
    <2>2. Unqueue(q, w) = r
      BY <1>2 DEF Unqueue, RemoveAt
    <2> HIDE DEF k
    <2>3. k \in Int /\ k - 1 \in Int /\ k + 1 \in Int
      BY <1>0, <2>1
    <2>4. (\A i \in 1..(k-1) : q[i] \in Work) /\ (\A i \in (k+1)..Len(q) : q[i] \in Work)
      BY <1>0, <2>1
    <2>5. a \in Seq(Work) /\ Len(a) = k - 1 /\ \A i \in 1..(k-1) : a[i] = q[i]
      <3>1. /\ a \in Seq(Work)
            /\ Len(a) = IF 1 <= k - 1 THEN (k - 1) - 1 + 1 ELSE 0
            /\ \A i \in 1..((k - 1) - 1 + 1) : a[i] = q[1 + i - 1]
        BY <2>3, <2>4, SubSeqProperties
      <3> HIDE DEF a
      <3>2. Len(a) = k - 1
        BY <1>0, <2>1, <3>1
      <3>3. ASSUME NEW i \in 1..(k-1) PROVE a[i] = q[i]
        <4>1. i \in 1..((k - 1) - 1 + 1) /\ 1 + i - 1 = i
          BY <1>0, <2>1
        <4> QED BY <3>1, <4>1
      <3>4. a \in Seq(Work)
        BY <3>1
      <3> QED BY <3>2, <3>3, <3>4
    <2>6. b \in Seq(Work) /\ Len(b) = Len(q) - k /\ \A i \in 1..(Len(q) - k) : b[i] = q[k + i]
      <3>1. /\ b \in Seq(Work)
            /\ Len(b) = IF k + 1 <= Len(q) THEN Len(q) - (k + 1) + 1 ELSE 0
            /\ \A i \in 1..(Len(q) - (k + 1) + 1) : b[i] = q[(k + 1) + i - 1]
        BY <1>0, <2>3, <2>4, SubSeqProperties
      <3> HIDE DEF b
      <3>2. Len(b) = Len(q) - k
        <4>1. Len(b) = IF k + 1 <= Len(q) THEN Len(q) - (k + 1) + 1 ELSE 0
          BY <3>1
        <4>2. Len(q) \in Nat /\ k \in 1..Len(q)
          BY <1>0, <2>1
        <4> QED BY <4>1, <4>2
      <3>3. ASSUME NEW i \in 1..(Len(q) - k) PROVE b[i] = q[k + i]
        <4>1. i \in 1..(Len(q) - (k + 1) + 1) /\ (k + 1) + i - 1 = k + i
          BY <1>0, <2>1
        <4> QED BY <3>1, <4>1
      <3>4. b \in Seq(Work)
        BY <3>1
      <3> QED BY <3>2, <3>3, <3>4
    <2> HIDE DEF a, b
    <2>7. /\ r \in Seq(Work) /\ Len(r) = Len(q) - 1
          /\ \A i \in 1..Len(r) : r[i] = IF i < k THEN q[i] ELSE q[i + 1]
      <3>1. /\ r \in Seq(Work) /\ Len(r) = Len(a) + Len(b)
            /\ \A i \in 1..(Len(a) + Len(b)) : r[i] = IF i <= Len(a) THEN a[i] ELSE b[i - Len(a)]
        BY <2>5, <2>6, ConcatProperties
      <3> HIDE DEF r
      <3>2. Len(r) = Len(q) - 1
        BY <1>0, <2>1, <2>5, <2>6, <3>1
      <3>3. ASSUME NEW i \in 1..Len(r) PROVE r[i] = IF i < k THEN q[i] ELSE q[i + 1]
        <4>1. CASE i < k
          BY <1>0, <2>1, <2>5, <2>6, <3>1, <3>2, <4>1
        <4>2. CASE ~(i < k)
          <5>1. i - Len(a) \in 1..(Len(q) - k) /\ ~(i <= Len(a)) /\ k + (i - Len(a)) = i + 1
            BY <1>0, <2>1, <2>5, <3>2, <4>2
          <5>2. r[i] = b[i - Len(a)]
            BY <2>5, <2>6, <3>1, <3>2, <5>1
          <5> QED BY <2>6, <4>2, <5>1, <5>2
        <4> QED BY <4>1, <4>2
      <3> QED BY <3>1, <3>2, <3>3
    <2> HIDE DEF r
    <2>8. f \in [1..Len(r) -> 1..Len(q)] /\ \A i \in 1..Len(r) : f[i] = IF i < k THEN i ELSE i + 1
      BY <1>0, <2>1, <2>7
    <2> HIDE DEF f
    <2>9. \A i, j \in 1..Len(r) : i < j => f[i] < f[j]
      BY <1>0, <2>1, <2>7, <2>8
    <2>10. \A i \in 1..Len(r) : r[i] = q[f[i]]
      BY <2>7, <2>8
    <2>11. ASSUME NEW m \in 1..Len(q), m # k PROVE \E i \in 1..Len(r) : f[i] = m
      <3>1. CASE m < k
        <4>1. m \in 1..Len(r) /\ f[m] = m
          BY <1>0, <2>1, <2>7, <2>8, <3>1
        <4> QED BY <4>1
      <3>2. CASE m > k
        <4>1. m - 1 \in 1..Len(r) /\ ~(m - 1 < k) /\ (m - 1) + 1 = m
          BY <1>0, <2>1, <2>7, <3>2
        <4>2. f[m - 1] = m
          BY <2>8, <4>1
        <4> QED BY <4>1, <4>2
      <3> QED BY <1>0, <2>1, <2>11, <3>1, <3>2
    <2>12. \A i \in 1..Len(r) : f[i] # k
      BY <1>0, <2>1, <2>7, <2>8
    <2>13. Without(r, q, w)
      BY <2>1, <2>8, <2>9, <2>10, <2>11, <2>12 DEF Without
    <2> QED BY <2>2, <2>13
  <1> QED BY <1>0, <1>1, <1>2

\* What holds of a queue without w, when nothing was queued twice.
LEMMA WithoutFacts ==
    ASSUME NEW q \in Seq(Work), NEW r \in Seq(Work), NEW w, Without(r, q, w), Distinct(q)
    PROVE  /\ Distinct(r)
           /\ \A i \in 1..Len(r) : r[i] # w
           /\ \A k \in 1..Len(q) : q[k] # w => \E i \in 1..Len(r) : r[i] = q[k]
           /\ \A i, j \in 1..Len(r) : \E m, n \in 1..Len(q) :
                r[i] = q[m] /\ r[j] = q[n] /\ (m < n => i < j)
  <1>0. Len(q) \in Nat /\ Len(r) \in Nat
    BY LenProperties
  <1>1. PICK f \in [1..Len(r) -> 1..Len(q)] :
        /\ \A i, j \in 1..Len(r) : i < j => f[i] < f[j]
        /\ \A i \in 1..Len(r) : r[i] = q[f[i]]
        /\ \A k \in 1..Len(q) : q[k] = w \/ \E i \in 1..Len(r) : f[i] = k
        /\ \E k \in 1..Len(q) : q[k] = w /\ \A i \in 1..Len(r) : f[i] # k
    BY DEF Without
  <1>2. \A i \in 1..Len(r) : f[i] \in 1..Len(q) /\ f[i] \in Int /\ i \in Int
    BY <1>0, <1>1
  <1>3. \A i, j \in 1..Len(r) : f[i] = f[j] => i = j
    BY <1>1, <1>2
  <1>4. Distinct(r)
    BY <1>1, <1>2, <1>3 DEF Distinct
  <1>5. \A i \in 1..Len(r) : r[i] # w
    BY <1>1, <1>2 DEF Distinct
  <1>6. \A k \in 1..Len(q) : q[k] # w => \E i \in 1..Len(r) : r[i] = q[k]
    BY <1>1
  <1>7. ASSUME NEW i \in 1..Len(r), NEW j \in 1..Len(r)
        PROVE  \E m, n \in 1..Len(q) : r[i] = q[m] /\ r[j] = q[n] /\ (m < n => i < j)
    <2>1. f[i] < f[j] => i < j
      BY <1>1, <1>2, <1>3
    <2> QED BY <1>1, <1>2, <2>1
  <1> QED BY <1>4, <1>5, <1>6, <1>7

-----------------------------------------------------------------------------
(* Deaths.                                                                 *)

\* The names do_add_service accepts, the requests processes make, and the
\* condition under which a reference's one death registration is enough.
LenOK(n) == NameLen[n] # 0 /\ NameLen[n] <= 127
Published(o, n) == \E r \in Publish : r.obj = o /\ r.name = n
OneName == \A o \in Objs, m, n \in Names :
    Published(o, m) /\ Published(o, n) /\ LenOK(m) /\ LenOK(n) => m = n

\* A reference is the only one for its object, a buffer's reference is to an
\* object of the caller, and buffers, services and death registrations go
\* with the names the objects were published under.
Refs ==
    /\ released \cap alive = {}
    /\ \A g, h \in Handle : ref_node[g] = ref_node[h] /\ ref_node[g] # NoObj => g = h
    /\ \A p \in Procs : buffer[p] # 0 =>
            /\ request[p].op = "add"
            /\ Owner[ref_node[buffer[p]]] = p
            /\ Published(ref_node[buffer[p]], request[p].name)
    /\ \A n \in Names : si_handle[n] # 0 => Published(ref_node[si_handle[n]], n) /\ LenOK(n)
    /\ \A h \in Handle : ref_death[h] # NoName =>
            /\ ref_node[h] # NoObj
            /\ Published(ref_node[h], ref_death[h])
            /\ LenOK(ref_death[h])

\* The owner of the object behind handle h.
NodeOwner(h) == Owner[ref_node[h]]

\* A notice is in the queue exactly while its registration stands and its
\* process has been cleaned up after, and behind that process's last call.
QueueOK(q) ==
    /\ Distinct(q)
    /\ \A i \in 1..Len(q) : q[i].type = "dead" =>
            q[i].cookie = ref_death[q[i].handle] /\ NodeOwner(q[i].handle) \in released
    /\ \A h \in Handle : ref_death[h] # NoName /\ NodeOwner(h) \in released =>
            \E i \in 1..Len(q) : q[i] = Dead(h, ref_death[h])
    /\ \A i, j \in 1..Len(q) : q[i].type = "dead" /\ q[j] = Txn(NodeOwner(q[i].handle)) => j < i

\* A call is in the queue or being handled.
Handling(p) == pc # "loop" /\ cur = p
Waiting ==
    /\ \A p \in Procs : buffer[p] # 0 => Handling(p) \/ \E i \in 1..Len(todo) : todo[i] = Txn(p)
    /\ \A i \in 1..Len(todo) : todo[i].type = "txn" =>
            request[todo[i].proc].op # "none" /\ ~Handling(todo[i].proc)

\* Outside do_add_service a service is registered for its death.
Adding(h) == pc \in {"acquire", "link"} /\ buffer[cur] = h
Watched ==
    \A n \in Names : si_handle[n] # 0 /\ ~Adding(si_handle[n]) => ref_death[si_handle[n]] = n

WatchInv == CountInv /\ Refs /\ QueueOK(todo) /\ Waiting /\ Watched

\* Work items are calls or notices.
LEMMA WorkFacts ==
    /\ \A w \in Work : \/ w.type = "txn" /\ w.proc \in Procs /\ w = Txn(w.proc)
                       \/ /\ w.type = "dead" /\ w.handle \in Handle /\ w.cookie \in Names
                          /\ w = Dead(w.handle, w.cookie)
    /\ \A p : Txn(p).type = "txn" /\ Txn(p).proc = p
    /\ \A h, n : Dead(h, n).type = "dead" /\ Dead(h, n).handle = h /\ Dead(h, n).cookie = n
    /\ \A p \in Procs : Txn(p) \in Work
    /\ \A h \in Handle, n \in Names : Dead(h, n) \in Work
  BY DEF Work, Txn, Dead

\* What a svcinfo or a buffer holds is a reference to an object.
LEMMA HeldRef ==
    ASSUME TypeInv, RefsMatchHolders
    PROVE  /\ \A n \in Names : si_handle[n] # 0 =>
                si_handle[n] \in Handle /\ ref_node[si_handle[n]] \in Objs
           /\ \A p \in Procs : buffer[p] # 0 =>
                buffer[p] \in Handle /\ ref_node[buffer[p]] \in Objs
  <1> USE FiniteAssumption
  <1>1. \A h \in Handle : ref_node[h] # NoObj => ref_node[h] \in Objs
    BY DEF TypeInv, TypeOK
  <1>2. (\A n \in Names : si_handle[n] \in Handle \cup {0}) /\ (\A p \in Procs : buffer[p] \in Handle \cup {0})
    BY DEF TypeInv, TypeOK
  <1>3. ASSUME NEW h \in Handle,
               (\E n \in Names : si_handle[n] = h) \/ (\E p \in Procs : buffer[p] = h)
        PROVE  ref_strong[h] # 0
    <2>0. /\ IsFiniteSet({n \in Names : si_handle[n] = h})
          /\ IsFiniteSet({p \in Procs : buffer[p] = h})
      BY FS_Subset
    <2> DEFINE S == {n \in Names : si_handle[n] = h}
               B == {p \in Procs : buffer[p] = h}
    <2>1. Cardinality(S) \in Nat /\ Cardinality(B) \in Nat
      BY <2>0, FS_CardinalityType
    <2>2. (S # {} => Cardinality(S) # 0) /\ (B # {} => Cardinality(B) # 0)
      BY <2>0, FS_EmptySet
    <2>3. ref_strong[h] \in Nat /\ ref_strong[h] + Unacquired(h) = Cardinality(S) + Cardinality(B)
      BY DEF RefsMatchHolders, Holders, TypeInv, TypeOK
    <2>4. S # {} \/ B # {}
      BY <1>3
    <2>5. CASE Unacquired(h) = 0
      <3> HIDE DEF S, B
      <3> QED BY <2>1, <2>2, <2>3, <2>4, <2>5
    <2>6. CASE pc = "acquire" /\ buffer[cur] = h
      <3>1. cur \in Procs /\ request[cur].name \in Names /\ si_handle[request[cur].name] = h
        BY <2>6 DEF TypeInv, CallsInProgress
      <3>2. S # {} /\ B # {}
        BY <2>6, <3>1
      <3>3. Unacquired(h) = 1
        BY <2>6 DEF Unacquired
      <3> HIDE DEF S, B
      <3> QED BY <2>1, <2>2, <2>3, <3>2, <3>3
    <2> QED BY <2>5, <2>6 DEF Unacquired
  <1>4. \A h \in Handle : ref_strong[h] # 0 => ref_node[h] # NoObj
    BY DEF RefsMatchHolders
  <1> QED BY <1>1, <1>2, <1>3, <1>4

\* With one name per object, a reference has one service, one buffer and the
\* one name in its death registration.
LEMMA OneEach ==
    ASSUME OneName, TypeInv, RefsMatchHolders, Refs
    PROVE  /\ \A m, n \in Names : si_handle[m] # 0 /\ si_handle[m] = si_handle[n] => m = n
           /\ \A p, q \in Procs : buffer[p] # 0 /\ buffer[p] = buffer[q] => p = q
           /\ \A n \in Names : si_handle[n] # 0 /\ ref_death[si_handle[n]] # NoName =>
                ref_death[si_handle[n]] = n
  <1>1. ASSUME NEW m \in Names, NEW n \in Names, si_handle[m] # 0, si_handle[m] = si_handle[n]
        PROVE  m = n
    BY <1>1, HeldRef DEF OneName, Refs
  <1>2. ASSUME NEW p \in Procs, NEW q \in Procs, buffer[p] # 0, buffer[p] = buffer[q] PROVE p = q
    BY <1>2 DEF Refs
  <1>3. ASSUME NEW n \in Names, si_handle[n] # 0, ref_death[si_handle[n]] # NoName
        PROVE  ref_death[si_handle[n]] = n
    <2> DEFINE h == si_handle[n]
    <2>1. h \in Handle /\ ref_node[h] \in Objs
      BY <1>3, HeldRef
    <2>2. ref_death[h] \in Names
      BY <1>3, <2>1 DEF TypeInv, TypeOK
    <2>3. /\ Published(ref_node[h], ref_death[h]) /\ LenOK(ref_death[h])
          /\ Published(ref_node[h], n) /\ LenOK(n)
      BY <1>3, <2>1 DEF Refs
    <2> QED BY <2>1, <2>2, <2>3 DEF OneName
  <1> QED BY <1>1, <1>2, <1>3

\* Nothing has happened yet.
LEMMA InitWatch == Init => WatchInv
  <1> SUFFICES ASSUME Init PROVE WatchInv
    OBVIOUS
  <1>1. CountInv
    BY InitCounts
  <1>2. Len(todo) = 0
    BY DEF Init
  <1>3. /\ \A h \in Handle : ref_node[h] = NoObj /\ ref_death[h] = NoName
        /\ \A p \in Procs : buffer[p] = 0
        /\ \A n \in Names : si_handle[n] = 0
        /\ released = {}
    BY DEF Init
  <1>4. Refs
    BY <1>3 DEF Refs
  <1>5. QueueOK(todo) /\ Waiting
    BY <1>2, <1>3 DEF QueueOK, Distinct, Waiting
  <1>6. Watched
    BY <1>3 DEF Watched
  <1> QED BY <1>1, <1>4, <1>5, <1>6 DEF WatchInv

\* Dropping a count: the reference stays with all that belongs to it, or it
\* goes with its registration and notice.
LEMMA ReleaseStep ==
    ASSUME TypeInv, Refs, NEW g \in Handle \cup {0}, binder_release(g), g # 0 => ref_strong[g] > 0,
           NEW q \in Seq(Work), QueueOK(q), todo' = ReleaseFrom(q, g), UNCHANGED released
    PROVE  /\ \A h \in Handle :
                \/ ref_node'[h] = ref_node[h] /\ ref_death'[h] = ref_death[h]
                \/ h = g /\ IsLast(g) /\ ref_node'[h] = NoObj /\ ref_death'[h] = NoName
           /\ todo' \in Seq(Work) /\ QueueOK(todo)'
           /\ \A i \in 1..Len(todo') : \E k \in 1..Len(q) : todo'[i] = q[k]
           /\ \A k \in 1..Len(q) : q[k].type = "txn" => \E i \in 1..Len(todo') : todo'[i] = q[k]
  <1>0. todo' \in Seq(Work)
    BY ReleaseFromType
  <1>e. /\ Len(q) \in Nat /\ Len(todo') \in Nat
        /\ \A i \in 1..Len(q) : q[i] \in Work
        /\ \A i \in 1..Len(todo') : todo'[i] \in Work
    BY <1>0, LenProperties, ElementOfSeq
  <1>1. CASE g = 0 \/ ~IsLast(g)
    <2>1. todo' = q
      BY <1>1 DEF ReleaseFrom
    <2>2. ref_node' = ref_node /\ ref_death' = ref_death
      BY <1>1 DEF binder_release, DecRef, driver
    <2>3. QueueOK(todo)'
      BY <2>1, <2>2 DEF QueueOK, Distinct, NodeOwner
    <2> QED BY <1>0, <2>1, <2>2, <2>3
  <1>2. CASE g # 0 /\ IsLast(g)
    <2> DEFINE w == Dead(g, ref_death[g])
    <2>1. /\ g \in Handle
          /\ ref_node' = [ref_node EXCEPT ![g] = NoObj]
          /\ ref_death' = [ref_death EXCEPT ![g] = NoName]
          /\ todo' = Unqueue(q, w)
      BY <1>2 DEF binder_release, DecRef, ReleaseFrom
    <2>2. \A h \in Handle : /\ ref_node'[h] = IF h = g THEN NoObj ELSE ref_node[h]
                            /\ ref_death'[h] = IF h = g THEN NoName ELSE ref_death[h]
      BY <2>1 DEF TypeInv, TypeOK
    <2>3. /\ Distinct(todo')
          /\ \A i \in 1..Len(todo') : todo'[i] # w
          /\ \A k \in 1..Len(q) : q[k] # w => \E i \in 1..Len(todo') : todo'[i] = q[k]
          /\ \A i, j \in 1..Len(todo') : \E m, n \in 1..Len(q) :
                todo'[i] = q[m] /\ todo'[j] = q[n] /\ (m < n => i < j)
      <3> HIDE DEF w
      <3>0. Distinct(q)
        BY DEF QueueOK
      <3>1. CASE todo' = q /\ \A i \in 1..Len(q) : q[i] # w
        BY <3>0, <3>1
      <3>2. CASE Without(todo', q, w)
        <4> DEFINE r == todo'
        <4>1. r \in Seq(Work) /\ Without(r, q, w)
          BY <1>0, <3>2
        <4> HIDE DEF r
        <4>2. /\ Distinct(r)
              /\ \A i \in 1..Len(r) : r[i] # w
              /\ \A k \in 1..Len(q) : q[k] # w => \E i \in 1..Len(r) : r[i] = q[k]
              /\ \A i, j \in 1..Len(r) : \E m, n \in 1..Len(q) :
                    r[i] = q[m] /\ r[j] = q[n] /\ (m < n => i < j)
          BY <3>0, <4>1, WithoutFacts
        <4> QED BY <4>2 DEF r
      <3> QED BY <2>1, <3>1, <3>2, UnqueueWithout
    <2>4. ASSUME NEW i \in 1..Len(todo'), todo'[i].type = "dead"
          PROVE  /\ todo'[i].handle \in Handle /\ todo'[i].handle # g
                 /\ todo'[i].cookie = ref_death[todo'[i].handle]
                 /\ NodeOwner(todo'[i].handle) \in released
      <3>1. PICK k \in 1..Len(q) : todo'[i] = q[k]
        BY <2>3
      <3>2. q[k].cookie = ref_death[q[k].handle] /\ NodeOwner(q[k].handle) \in released
        BY <2>4, <3>1 DEF QueueOK
      <3>3. q[k] = Dead(q[k].handle, q[k].cookie) /\ q[k].handle \in Handle
        BY <1>e, <2>4, <3>1, WorkFacts
      <3>4. q[k].handle # g
        BY <2>3, <3>1, <3>2, <3>3
      <3> QED BY <3>1, <3>2, <3>3, <3>4
    <2>5. \A i \in 1..Len(todo') : todo'[i].type = "dead" =>
            todo'[i].cookie = ref_death'[todo'[i].handle] /\ (Owner[ref_node'[todo'[i].handle]]) \in released'
      BY <2>2, <2>4 DEF NodeOwner
    <2>6. ASSUME NEW h \in Handle, ref_death'[h] # NoName, Owner[ref_node'[h]] \in released'
          PROVE  \E i \in 1..Len(todo') : todo'[i] = Dead(h, ref_death'[h])
      <3>1. h # g /\ ref_death'[h] = ref_death[h] /\ ref_node'[h] = ref_node[h]
        BY <2>2, <2>6
      <3>2. PICK k \in 1..Len(q) : q[k] = Dead(h, ref_death[h])
        BY <2>6, <3>1 DEF QueueOK, NodeOwner
      <3>3. q[k] # w
        BY <3>1, <3>2, WorkFacts
      <3> QED BY <2>3, <3>1, <3>2, <3>3
    <2>7. ASSUME NEW i \in 1..Len(todo'), NEW j \in 1..Len(todo'), todo'[i].type = "dead",
                 todo'[j] = Txn(Owner[ref_node'[todo'[i].handle]])
          PROVE  j < i
      <3>1. PICK m, n \in 1..Len(q) : todo'[j] = q[m] /\ todo'[i] = q[n] /\ (m < n => j < i)
        BY <2>3
      <3>2. ref_node'[todo'[i].handle] = ref_node[todo'[i].handle]
        BY <2>2, <2>4, <2>7
      <3>3. q[n].type = "dead" /\ q[m] = Txn(NodeOwner(q[n].handle))
        BY <2>7, <3>1, <3>2 DEF NodeOwner
      <3>4. m < n
        BY <3>1, <3>3 DEF QueueOK
      <3> QED BY <3>1, <3>4
    <2>8. QueueOK(todo)'
      BY <2>3, <2>5, <2>6, <2>7 DEF QueueOK, NodeOwner, Distinct
    <2>9. \A k \in 1..Len(q) : q[k].type = "txn" => \E i \in 1..Len(todo') : todo'[i] = q[k]
      BY <2>3, WorkFacts
    <2>10. \A i \in 1..Len(todo') : \E k \in 1..Len(q) : todo'[i] = q[k]
      BY <2>3
    <2> QED BY <1>0, <1>2, <2>2, <2>8, <2>9, <2>10
  <1> QED BY <1>1, <1>2

\* Reading the head of the queue when it is a call.
LEMMA ReadStep ==
    ASSUME TypeInv, QueueOK(todo), Waiting, NEW p \in Procs, pc = "loop", todo # <<>>, Head(todo) = Txn(p)
    PROVE  /\ Tail(todo) \in Seq(Work) /\ QueueOK(Tail(todo))
           /\ request[p].op # "none"
           /\ \A i \in 1..Len(Tail(todo)) : Tail(todo)[i] # Txn(p)
                                            /\ \E k \in 1..Len(todo) : Tail(todo)[i] = todo[k]
           /\ \A q \in Procs : q # p /\ (\E i \in 1..Len(todo) : todo[i] = Txn(q)) =>
                \E i \in 1..Len(Tail(todo)) : Tail(todo)[i] = Txn(q)
  <1> DEFINE r == Tail(todo)
  <1>0. todo \in Seq(Work)
    BY DEF TypeInv, TypeOK
  <1>1. r \in Seq(Work) /\ Without(r, todo, Txn(p))
    BY <1>0, TailWithout
  <1>2. Distinct(todo)
    BY DEF QueueOK
  <1>2a. 1 \in 1..Len(todo) /\ todo[1] = Txn(p)
    <2>1. Len(todo) \in Nat /\ Len(todo) # 0
      BY <1>0, LenProperties, EmptySeq
    <2>2. Head(todo) = todo[1]
      BY <1>0, HeadTailProperties
    <2> QED BY <2>1, <2>2
  <1> HIDE DEF r
  <1>3. /\ Distinct(r)
        /\ \A i \in 1..Len(r) : r[i] # Txn(p)
        /\ \A k \in 1..Len(todo) : todo[k] # Txn(p) => \E i \in 1..Len(r) : r[i] = todo[k]
        /\ \A i, j \in 1..Len(r) : \E m, n \in 1..Len(todo) :
             r[i] = todo[m] /\ r[j] = todo[n] /\ (m < n => i < j)
    BY <1>0, <1>1, <1>2, WithoutFacts
  <1>4. \A i \in 1..Len(r) : \E k \in 1..Len(todo) : r[i] = todo[k]
    BY <1>3
  <1>5. \A i \in 1..Len(r) : r[i].type = "dead" =>
            r[i].cookie = ref_death[r[i].handle] /\ NodeOwner(r[i].handle) \in released
    BY <1>4 DEF QueueOK
  <1>6. ASSUME NEW h \in Handle, ref_death[h] # NoName, NodeOwner(h) \in released
        PROVE  \E i \in 1..Len(r) : r[i] = Dead(h, ref_death[h])
    <2>1. PICK k \in 1..Len(todo) : todo[k] = Dead(h, ref_death[h])
      BY <1>6 DEF QueueOK
    <2>2. todo[k] # Txn(p)
      BY <2>1, WorkFacts
    <2> QED BY <1>3, <2>1, <2>2
  <1>7. ASSUME NEW i \in 1..Len(r), NEW j \in 1..Len(r), r[i].type = "dead", r[j] = Txn(NodeOwner(r[i].handle))
        PROVE  j < i
    <2>1. PICK m, n \in 1..Len(todo) : r[j] = todo[m] /\ r[i] = todo[n] /\ (m < n => j < i)
      BY <1>3
    <2>2. m < n
      BY <1>7, <2>1 DEF QueueOK
    <2> QED BY <2>1, <2>2
  <1>8. QueueOK(r)
    <2>1. Distinct(r)
      BY <1>3
    <2>2. \A i \in 1..Len(r) : r[i].type = "dead" =>
            r[i].cookie = ref_death[r[i].handle] /\ NodeOwner(r[i].handle) \in released
      BY <1>5
    <2>3. \A h \in Handle : ref_death[h] # NoName /\ NodeOwner(h) \in released =>
            \E i \in 1..Len(r) : r[i] = Dead(h, ref_death[h])
      BY <1>6
    <2>4. \A i, j \in 1..Len(r) :
            r[i].type = "dead" /\ r[j] = Txn(NodeOwner(r[i].handle)) => j < i
      BY <1>7
    <2> QED BY <2>1, <2>2, <2>3, <2>4, Zenon DEF QueueOK
  <1>9. request[p].op # "none"
    BY <1>2a, WorkFacts DEF Waiting
  <1>10. \A q \in Procs : q # p => Txn(q) # Txn(p)
    BY WorkFacts
  <1>11. \A i \in 1..Len(r) : r[i] # Txn(p) /\ \E k \in 1..Len(todo) : r[i] = todo[k]
    BY <1>3, <1>4, Zenon
  <1>12. ASSUME NEW q \in Procs, q # p, NEW k \in 1..Len(todo), todo[k] = Txn(q)
         PROVE  \E i \in 1..Len(r) : r[i] = Txn(q)
    <2>1. todo[k] # Txn(p)
      BY <1>10, <1>12
    <2> QED BY <1>3, <1>12, <2>1
  <1> QED BY <1>1, <1>8, <1>9, <1>11, <1>12, Zenon DEF r

\* A process calls: its transaction goes to the end of the queue, its object
\* gets a reference if it has none.
LEMMA SendWatch ==
    ASSUME WatchInv, NEW p \in Procs, NEW req, Send(p, req), req.op # "none",
           ref_death' = ref_death,
           \A h \in Handle : ref_node'[h] = ref_node[h] \/ ref_node[h] = NoObj,
           \A g, h \in Handle : ref_node'[g] = ref_node'[h] /\ ref_node'[g] # NoObj => g = h,
           \A q \in Procs : q # p => buffer'[q] = buffer[q],
           buffer'[p] # 0 => /\ req.op = "add"
                             /\ Owner[ref_node'[buffer'[p]]] = p
                             /\ Published(ref_node'[buffer'[p]], req.name)
    PROVE  Refs' /\ QueueOK(todo)' /\ Waiting' /\ Watched'
  <1> USE ConstantAssumption
  <1>0. TypeInv /\ RefsMatchHolders /\ Refs /\ QueueOK(todo) /\ Waiting /\ Watched
    BY DEF WatchInv, CountInv
  <1>1. /\ p \in alive /\ request[p].op = "none"
        /\ UNCHANGED <<alive, released, pc, cur, si_handle>>
        /\ todo' = Append(todo, Txn(p))
        /\ \A q \in Procs : request'[q] = IF q = p THEN req ELSE request[q]
    BY <1>0 DEF Send, procs, manager, TypeInv, TypeOK
  <1>2. pc # "loop" => cur \in Procs /\ cur # p
    BY <1>0, <1>1 DEF TypeInv, CallsInProgress
  <1>3. \A q \in Procs : buffer[q] # 0 =>
            buffer[q] \in Handle /\ ref_node[buffer[q]] # NoObj /\ ref_node'[buffer[q]] = ref_node[buffer[q]]
    BY <1>0, HeldRef
  <1>4. \A n \in Names : si_handle[n] # 0 =>
            si_handle[n] \in Handle /\ ref_node'[si_handle[n]] = ref_node[si_handle[n]]
    BY <1>0, HeldRef
  <1>5. \A h \in Handle : ref_death[h] # NoName => ref_node[h] # NoObj /\ ref_node'[h] = ref_node[h]
    BY <1>0 DEF Refs
  <1>6. Refs'
    <2>1. (released \cap alive)' = {}
      BY <1>0, <1>1 DEF Refs
    <2>2. ASSUME NEW q \in Procs, buffer'[q] # 0
          PROVE  /\ request'[q].op = "add"
                 /\ Owner[ref_node'[buffer'[q]]] = q
                 /\ Published(ref_node'[buffer'[q]], request'[q].name)
      BY <1>0, <1>1, <1>3, <2>2 DEF Refs
    <2>3. \A n \in Names : si_handle[n] # 0 => Published(ref_node'[si_handle[n]], n) /\ LenOK(n)
      BY <1>0, <1>4 DEF Refs
    <2>4. \A h \in Handle : ref_death[h] # NoName =>
            /\ ref_node'[h] # NoObj
            /\ Published(ref_node'[h], ref_death[h])
            /\ LenOK(ref_death[h])
      BY <1>0, <1>5 DEF Refs
    <2> QED BY <1>1, <2>1, <2>2, <2>3, <2>4 DEF Refs, Published
  <1>7. /\ todo \in Seq(Work) /\ Len(todo) \in Nat /\ Len(todo') = Len(todo) + 1
        /\ todo'[Len(todo) + 1] = Txn(p)
        /\ \A i \in 1..Len(todo) : todo'[i] = todo[i] /\ todo[i] \in Work
    <2>1. todo \in Seq(Work) /\ Txn(p) \in Work
      BY <1>0, WorkFacts DEF TypeInv, TypeOK
    <2>2. Len(todo) \in Nat /\ \A i \in 1..Len(todo) : todo[i] \in Work
      BY <2>1, LenProperties, ElementOfSeq
    <2> QED BY <1>1, <2>1, <2>2, AppendProperties
  <1>8. \A i \in 1..Len(todo') : i = Len(todo) + 1 \/ i \in 1..Len(todo)
    BY <1>7
  <1>9. \A i \in 1..Len(todo) : todo[i] # Txn(p)
    BY <1>0, <1>1, WorkFacts DEF Waiting
  <1>10. ASSUME NEW i \in 1..Len(todo'), todo'[i].type = "dead"
         PROVE  /\ i \in 1..Len(todo) /\ todo'[i] = todo[i] /\ todo[i].handle \in Handle
                /\ todo[i].cookie = ref_death[todo[i].handle] /\ NodeOwner(todo[i].handle) \in released
                /\ ref_node'[todo[i].handle] = ref_node[todo[i].handle]
    <2>1. i \in 1..Len(todo) /\ todo'[i] = todo[i]
      BY <1>7, <1>8, <1>10, WorkFacts
    <2>2. todo[i].handle \in Handle /\ todo[i].cookie \in Names
      BY <1>7, <1>10, <2>1, WorkFacts
    <2>3. todo[i].cookie = ref_death[todo[i].handle] /\ NodeOwner(todo[i].handle) \in released
      <3>1. QueueOK(todo)
        BY <1>0
      <3>2. todo[i].type = "dead"
        BY <1>10, <2>1
      <3> QED BY <2>1, <3>1, <3>2, Zenon DEF QueueOK
    <2> QED BY <1>5, <2>1, <2>2, <2>3
  <1>11. QueueOK(todo)'
    <2>1. \A i, j \in 1..Len(todo') : todo'[i] = todo'[j] => i = j
      BY <1>0, <1>7, <1>8, <1>9 DEF QueueOK, Distinct
    <2>2. \A i \in 1..Len(todo') : todo'[i].type = "dead" =>
            todo'[i].cookie = ref_death'[todo'[i].handle] /\ Owner[ref_node'[todo'[i].handle]] \in released'
      BY <1>1, <1>10 DEF NodeOwner
    <2>3. ASSUME NEW h \in Handle, ref_death[h] # NoName, Owner[ref_node'[h]] \in released
          PROVE  \E i \in 1..Len(todo') : todo'[i] = Dead(h, ref_death[h])
      <3>1. PICK i \in 1..Len(todo) : todo[i] = Dead(h, ref_death[h])
        BY <1>0, <1>5, <2>3 DEF QueueOK, NodeOwner
      <3> QED BY <1>7, <3>1
    <2>4. ASSUME NEW i \in 1..Len(todo'), NEW j \in 1..Len(todo'), todo'[i].type = "dead",
                 todo'[j] = Txn(Owner[ref_node'[todo'[i].handle]])
          PROVE  j < i
      <3>1. todo'[j] = Txn(NodeOwner(todo[i].handle)) /\ NodeOwner(todo[i].handle) \in released
        BY <1>10, <2>4 DEF NodeOwner
      <3>2. p \notin released
        BY <1>0, <1>1 DEF Refs
      <3>3. Txn(p) # Txn(NodeOwner(todo[i].handle))
        BY <3>1, <3>2, WorkFacts
      <3>4. j # Len(todo) + 1
        BY <1>7, <3>1, <3>3
      <3>5. j \in 1..Len(todo)
        BY <1>8, <3>4
      <3> QED BY <1>0, <1>7, <1>10, <2>4, <3>1, <3>5 DEF QueueOK
    <2> QED BY <1>1, <2>1, <2>2, <2>3, <2>4 DEF QueueOK, Distinct, NodeOwner
  <1>12. Waiting'
    <2>1. \A q : Handling(q)' <=> Handling(q)
      BY <1>1 DEF Handling
    <2>2. ~Handling(p)
      BY <1>2 DEF Handling
    <2>3. ASSUME NEW q \in Procs, buffer'[q] # 0, ~Handling(q)
          PROVE  \E i \in 1..Len(todo') : todo'[i] = Txn(q)
      <3>1. CASE q = p
        BY <1>7, <3>1
      <3>2. CASE q # p
        <4>1. PICK i \in 1..Len(todo) : todo[i] = Txn(q)
          BY <1>0, <2>3, <3>2 DEF Waiting
        <4> QED BY <1>7, <4>1
      <3> QED BY <3>1, <3>2
    <2>4. ASSUME NEW i \in 1..Len(todo'), todo'[i].type = "txn"
          PROVE  request'[todo'[i].proc].op # "none" /\ ~Handling(todo'[i].proc)
      <3>1. CASE i = Len(todo) + 1
        BY <1>1, <1>7, <2>2, <3>1, WorkFacts
      <3>2. CASE i \in 1..Len(todo)
        <4>1. todo'[i] = todo[i] /\ todo[i].proc \in Procs /\ todo[i].type = "txn"
          BY <1>7, <2>4, <3>2, WorkFacts
        <4>2. request[todo[i].proc].op # "none" /\ ~Handling(todo[i].proc)
          BY <1>0, <3>2, <4>1 DEF Waiting
        <4> QED BY <1>1, <4>1, <4>2
      <3> QED BY <1>8, <3>1, <3>2
    <2>5. (\A q \in Procs : buffer[q] # 0 => Handling(q) \/ \E i \in 1..Len(todo) : todo[i] = Txn(q))'
      BY <2>1, <2>3
    <2>6. (\A i \in 1..Len(todo) : todo[i].type = "txn" =>
            request[todo[i].proc].op # "none" /\ ~Handling(todo[i].proc))'
      BY <1>1, <2>4 DEF Handling
    <2> QED BY <2>5, <2>6 DEF Waiting
  <1>13. Watched'
    <2>1. \A h : Adding(h)' <=> Adding(h)
      BY <1>1, <1>2 DEF Adding
    <2>2. \A n \in Names : si_handle[n] # 0 /\ ~Adding(si_handle[n]) => ref_death[si_handle[n]] = n
      BY <1>0 DEF Watched
    <2>3. ASSUME NEW n \in Names, si_handle[n] # 0, (~Adding(si_handle[n]))' PROVE ref_death[si_handle[n]] = n
      BY <1>1, <1>2, <2>2, <2>3 DEF Adding
    <2> QED BY <1>1, <2>3 DEF Watched
  <1> QED BY <1>6, <1>11, <1>12, <1>13

\* svcmgr_publish, and the calls without an object.
LEMMA CallsWatch ==
    ASSUME WatchInv, NEW p \in Procs, SendAdd(p) \/ SendFind(p) \/ SendList(p) \/ SendOther(p)
    PROVE  Refs' /\ QueueOK(todo)' /\ Waiting' /\ Watched'
  <1> USE ConstantAssumption
  <1>0. TypeInv /\ Refs
    BY DEF WatchInv, CountInv
  <1>1. ASSUME NEW req, Send(p, req), req.op # "none", UNCHANGED <<driver, buffer>>
        PROVE  Refs' /\ QueueOK(todo)' /\ Waiting' /\ Watched'
    <2>1. ref_node' = ref_node /\ ref_death' = ref_death /\ buffer' = buffer
      BY <1>1 DEF driver
    <2>2. buffer[p] = 0
      BY <1>0, <1>1 DEF Send, TypeInv, CallsInProgress
    <2>3. \A g, h \in Handle : ref_node'[g] = ref_node'[h] /\ ref_node'[g] # NoObj => g = h
      BY <1>0, <2>1 DEF Refs
    <2> QED BY <1>1, <2>1, <2>2, <2>3, SendWatch
  <1>2. CASE SendFind(p) \/ SendList(p) \/ SendOther(p)
    BY <1>1, <1>2 DEF SendFind, SendList, SendOther, Call
  <1>3. CASE SendAdd(p)
    <2>1. PICK r \in Publish :
            /\ Send(p, Call("add", r.name, r.allow, 0))
            /\ \/ r.obj = NoObj /\ UNCHANGED <<driver, buffer>>
               \/ /\ r.obj \in Objs /\ Owner[r.obj] = p
                  /\ \E h \in Handle :
                        /\ IsDescFor(r.obj, h)
                        /\ ref_node' = [ref_node EXCEPT ![h] = r.obj]
                        /\ buffer' = [buffer EXCEPT ![p] = h]
                        /\ UNCHANGED ref_death
      BY <1>3 DEF SendAdd
    <2>2. Call("add", r.name, r.allow, 0).op = "add" /\ Call("add", r.name, r.allow, 0).name = r.name
      BY DEF Call
    <2>3. CASE UNCHANGED <<driver, buffer>>
      BY <1>1, <2>1, <2>2, <2>3
    <2>4. CASE ~UNCHANGED <<driver, buffer>>
      <3>1. PICK h \in Handle : /\ r.obj \in Objs /\ Owner[r.obj] = p /\ IsDescFor(r.obj, h)
                                /\ ref_node' = [ref_node EXCEPT ![h] = r.obj]
                                /\ buffer' = [buffer EXCEPT ![p] = h]
                                /\ UNCHANGED ref_death
        BY <2>1, <2>4
      <3>2. \A g \in Handle : ref_node'[g] = IF g = h THEN r.obj ELSE ref_node[g]
        BY <1>0, <3>1 DEF TypeInv, TypeOK
      <3>3. \A q \in Procs : buffer'[q] = IF q = p THEN h ELSE buffer[q]
        BY <1>0, <3>1 DEF TypeInv, TypeOK
      <3>4. \/ ref_node[h] = r.obj
            \/ ref_node[h] = NoObj /\ \A g \in Handle : ref_node[g] # r.obj
        BY <3>1 DEF IsDescFor
      <3>5. \A g, k \in Handle : ref_node'[g] = ref_node'[k] /\ ref_node'[g] # NoObj => g = k
        BY <1>0, <3>2, <3>4 DEF Refs
      <3>6. \A g \in Handle : ref_node'[g] = ref_node[g] \/ ref_node[g] = NoObj
        BY <3>2, <3>4
      <3>7. Owner[ref_node'[buffer'[p]]] = p /\ Published(ref_node'[buffer'[p]], r.name)
        BY <3>1, <3>2, <3>3 DEF Published
      <3>8. ref_death' = ref_death
        BY <3>1
      <3> HIDE DEF Published
      <3> QED BY <2>1, <2>2, <3>3, <3>5, <3>6, <3>7, <3>8, SendWatch
    <2> QED BY <2>3, <2>4
  <1> QED BY <1>2, <1>3

\* An exit changes nothing here until the driver cleans up.
LEMMA DieWatch ==
    ASSUME WatchInv, NEW p \in Procs, Die(p)
    PROVE  Refs' /\ QueueOK(todo)' /\ Waiting' /\ Watched'
  <1>1. /\ UNCHANGED <<released, ref_node, ref_death, todo, buffer, request, pc, cur, si_handle>>
        /\ alive' \subseteq alive
    BY DEF Die, driver, manager
  <1>2. Refs'
    BY <1>1 DEF WatchInv, Refs, Published
  <1>3. QueueOK(todo)'
    BY <1>1 DEF WatchInv, QueueOK, Distinct, NodeOwner
  <1>4. Waiting'
    BY <1>1 DEF WatchInv, Waiting, Handling
  <1>5. Watched'
    BY <1>1 DEF WatchInv, Watched, Adding
  <1> QED BY <1>2, <1>3, <1>4, <1>5

\* The clean-up queues one notice per registration on an object of the
\* process, behind everything that is queued.
LEMMA ReleaseWatch ==
    ASSUME WatchInv, NEW p \in Procs, Release(p)
    PROVE  Refs' /\ QueueOK(todo)' /\ Waiting' /\ Watched'
  <1> DEFINE mine == {h \in Handle : /\ ref_node[h] \in Objs
                                     /\ Owner[ref_node[h]] = p
                                     /\ ref_death[h] # NoName}
             S == {Dead(h, ref_death[h]) : h \in mine}
  <1>0. TypeInv /\ Refs /\ QueueOK(todo) /\ Waiting /\ Watched
    BY DEF WatchInv, CountInv
  <1>1. /\ p \notin alive /\ p \notin released /\ released' = released \cup {p}
        /\ UNCHANGED <<alive, ref_node, ref_death, buffer, request, pc, cur, si_handle>>
    BY DEF Release, driver, manager
  <1>2. PICK s \in SetToSeqs(S) : todo' = todo \o s
    BY DEF Release
  <1>3. s \in Seq(Work)
    BY <1>0, NoticesType DEF TypeInv
  <1>4. IsFiniteSet(S) /\ Cardinality(S) \in Nat
    <2>1. IsFiniteSet(mine)
      BY HandleFacts, FS_Subset
    <2> DEFINE f == [h \in mine |-> Dead(h, ref_death[h])]
    <2>2. f \in Surjection(mine, S)
      BY DEF Surjection
    <2>3. IsFiniteSet(S)
      BY <2>1, <2>2, FS_Surjection
    <2> QED BY <2>3, FS_CardinalityType
  <1>5. \A h \in Handle : ref_death[h] # NoName => ref_node[h] \in Objs
    BY <1>0 DEF Refs, TypeInv, TypeOK
  <1>6. \A w \in S : /\ w.type = "dead" /\ w.handle \in mine /\ w.handle \in Handle
                     /\ w.cookie = ref_death[w.handle] /\ NodeOwner(w.handle) = p
    BY WorkFacts DEF NodeOwner
  <1>7. \A h \in Handle : ref_death[h] # NoName /\ NodeOwner(h) = p => Dead(h, ref_death[h]) \in S
    BY <1>5 DEF NodeOwner
  <1> HIDE DEF S, mine
  <1>8. /\ Len(s) = Cardinality(S) /\ DOMAIN s = 1..Len(s)
        /\ \A i \in 1..Len(s) : s[i] \in S
        /\ \A i, j \in 1..Len(s) : s[i] = s[j] => i = j
        /\ \A w \in S : \E i \in 1..Len(s) : s[i] = w
    <2>1. s \in [1..Cardinality(S) -> S] /\ \A i, j \in 1..Cardinality(S) : i # j => s[i] # s[j]
      BY DEF SetToSeqs
    <2>2. DOMAIN s = 1..Len(s) /\ Len(s) \in Nat
      BY <1>3, LenProperties
    <2>3. DOMAIN s = 1..Cardinality(S)
      BY <2>1
    <2>4. Len(s) = Cardinality(S)
      BY <1>4, <2>2, <2>3
    <2>5. s \in Injection(1..Cardinality(S), S)
      BY <2>1 DEF Injection, IsInjective
    <2>6. Cardinality(1..Cardinality(S)) = Cardinality(S)
      BY <1>4, FS_Interval
    <2>7. s \in Surjection(1..Cardinality(S), S)
      BY <1>4, <2>5, <2>6, FS_Injection
    <2>8. \A w \in S : \E i \in 1..Cardinality(S) : s[i] = w
      BY <2>7 DEF Surjection
    <2> QED BY <2>1, <2>3, <2>4, <2>8
  <1>9. /\ Len(todo) \in Nat /\ Len(s) \in Nat /\ Len(todo') = Len(todo) + Len(s)
        /\ \A i \in 1..Len(todo) : todo'[i] = todo[i] /\ todo[i] \in Work
        /\ \A i \in 1..Len(s) : todo'[Len(todo) + i] = s[i]
    <2>0. todo \in Seq(Work)
      BY <1>0 DEF TypeInv, TypeOK
    <2>1. Len(todo) \in Nat /\ Len(s) \in Nat /\ \A i \in 1..Len(todo) : todo[i] \in Work
      BY <1>3, <2>0, LenProperties, ElementOfSeq
    <2>2. /\ Len(todo') = Len(todo) + Len(s)
          /\ \A i \in 1..(Len(todo) + Len(s)) :
                todo'[i] = IF i <= Len(todo) THEN todo[i] ELSE s[i - Len(todo)]
      BY <1>2, <1>3, <2>0, ConcatProperties
    <2>3. ASSUME NEW i \in 1..Len(todo) PROVE todo'[i] = todo[i]
      BY <2>1, <2>2
    <2>4. ASSUME NEW i \in 1..Len(s) PROVE todo'[Len(todo) + i] = s[i]
      <3>1. Len(todo) + i \in 1..(Len(todo) + Len(s)) /\ ~(Len(todo) + i <= Len(todo))
            /\ (Len(todo) + i) - Len(todo) = i
        BY <2>1
      <3> QED BY <2>2, <3>1
    <2> QED BY <2>1, <2>2, <2>3, <2>4
  <1>10. ASSUME NEW i \in 1..Len(todo')
         PROVE  i \in 1..Len(todo) \/ \E k \in 1..Len(s) : i = Len(todo) + k
    <2>1. i <= Len(todo) \/ i - Len(todo) \in 1..Len(s)
      BY <1>9
    <2>2. i = Len(todo) + (i - Len(todo))
      BY <1>9
    <2>3. CASE i - Len(todo) \in 1..Len(s)
      BY <2>2, <2>3
    <2> QED BY <1>9, <2>1, <2>3
  <1>11. ASSUME NEW i \in 1..Len(todo), todo[i].type = "dead"
         PROVE  /\ todo[i].handle \in Handle /\ todo[i].cookie = ref_death[todo[i].handle]
                /\ NodeOwner(todo[i].handle) \in released /\ NodeOwner(todo[i].handle) # p
    BY <1>0, <1>1, <1>9, <1>11, WorkFacts DEF QueueOK
  <1>12. \A i \in 1..Len(s) : /\ s[i].type = "dead" /\ s[i].handle \in Handle
                              /\ s[i].cookie = ref_death[s[i].handle] /\ NodeOwner(s[i].handle) = p
    BY <1>6, <1>8
  <1>13. \A h \in Handle : NodeOwner(h)' = NodeOwner(h)
    BY <1>1 DEF NodeOwner
  <1>14. Distinct(todo')
    <2> SUFFICES ASSUME NEW i \in 1..Len(todo'), NEW j \in 1..Len(todo'), todo'[i] = todo'[j]
                 PROVE  i = j
      BY DEF Distinct
    <2>0. ASSUME NEW a \in 1..Len(todo), NEW b \in 1..Len(s) PROVE todo[a] # s[b]
      BY <1>11, <1>12
    <2>1. CASE i \in 1..Len(todo) /\ j \in 1..Len(todo)
      BY <1>0, <1>9, <2>1 DEF QueueOK, Distinct
    <2>2. ASSUME NEW a \in 1..Len(s), i = Len(todo) + a, NEW b \in 1..Len(s), j = Len(todo) + b
          PROVE  i = j
      BY <1>8, <1>9, <2>2
    <2>3. ASSUME NEW b \in 1..Len(s), j = Len(todo) + b, i \in 1..Len(todo) PROVE FALSE
      <3>1. todo'[i] = todo[i] /\ todo'[j] = s[b]
        BY <1>9, <2>3
      <3> QED BY <2>0, <2>3, <3>1
    <2>4. ASSUME NEW a \in 1..Len(s), i = Len(todo) + a, j \in 1..Len(todo) PROVE FALSE
      <3>1. todo'[j] = todo[j] /\ todo'[i] = s[a]
        BY <1>9, <2>4
      <3> QED BY <2>0, <2>4, <3>1
    <2>5. CASE i \in 1..Len(todo)
      BY <1>10, <2>1, <2>3, <2>5
    <2>6. ASSUME NEW a \in 1..Len(s), i = Len(todo) + a PROVE i = j
      BY <1>10, <2>2, <2>4, <2>6
    <2> QED BY <1>10, <2>5, <2>6
  <1>15. QueueOK(todo)'
    <2>1. \A i \in 1..Len(todo') : todo'[i].type = "dead" =>
            todo'[i].cookie = ref_death[todo'[i].handle] /\ NodeOwner(todo'[i].handle) \in released'
      <3> SUFFICES ASSUME NEW i \in 1..Len(todo'), todo'[i].type = "dead"
                   PROVE  todo'[i].cookie = ref_death[todo'[i].handle]
                          /\ NodeOwner(todo'[i].handle) \in released'
        OBVIOUS
      <3>1. CASE i \in 1..Len(todo)
        BY <1>1, <1>9, <1>11, <3>1
      <3>2. ASSUME NEW k \in 1..Len(s), i = Len(todo) + k
            PROVE  todo'[i].cookie = ref_death[todo'[i].handle]
                   /\ NodeOwner(todo'[i].handle) \in released'
        <4>1. todo'[i] = s[k]
          BY <1>9, <3>2
        <4> QED BY <1>1, <1>12, <4>1
      <3> QED BY <1>10, <3>1, <3>2
    <2>2. ASSUME NEW h \in Handle, ref_death[h] # NoName, NodeOwner(h) \in released'
          PROVE  \E i \in 1..Len(todo') : todo'[i] = Dead(h, ref_death[h])
      <3>1. CASE NodeOwner(h) \in released
        <4>1. PICK i \in 1..Len(todo) : todo[i] = Dead(h, ref_death[h])
          BY <1>0, <2>2, <3>1 DEF QueueOK
        <4> QED BY <1>9, <4>1
      <3>2. CASE NodeOwner(h) = p
        <4>1. PICK i \in 1..Len(s) : s[i] = Dead(h, ref_death[h])
          BY <1>7, <1>8, <2>2, <3>2
        <4>2. Len(todo) + i \in 1..Len(todo') /\ todo'[Len(todo) + i] = s[i]
          BY <1>9
        <4> QED BY <4>1, <4>2
      <3> QED BY <1>1, <2>2, <3>1, <3>2
    <2>3. ASSUME NEW i \in 1..Len(todo'), NEW j \in 1..Len(todo'), todo'[i].type = "dead",
                 todo'[j] = Txn(NodeOwner(todo'[i].handle))
          PROVE  j < i
      <3>1. j \in 1..Len(todo)
        <4>1. ASSUME NEW k \in 1..Len(s), j = Len(todo) + k PROVE FALSE
          <5>1. todo'[j] = s[k]
            BY <1>9, <4>1
          <5>2. s[k].type = "dead"
            BY <1>12
          <5>3. todo'[j].type = "txn"
            BY <2>3, WorkFacts
          <5> QED BY <5>1, <5>2, <5>3
        <4> QED BY <1>10, <4>1
      <3>2. CASE i \in 1..Len(todo)
        BY <1>0, <1>9, <2>3, <3>1, <3>2 DEF QueueOK
      <3>3. ASSUME NEW k \in 1..Len(s), i = Len(todo) + k PROVE j < i
        BY <1>9, <3>1, <3>3
      <3> QED BY <1>10, <3>2, <3>3
    <2> QED BY <1>1, <1>14, <2>1, <2>2, <2>3 DEF QueueOK, Distinct, NodeOwner
  <1>16. Waiting'
    <2>1. ASSUME NEW q \in Procs, NEW i \in 1..Len(todo), todo[i] = Txn(q)
          PROVE  \E k \in 1..Len(todo') : todo'[k] = Txn(q)
      BY <1>9, <2>1
    <2>2. ASSUME NEW i \in 1..Len(todo'), todo'[i].type = "txn"
          PROVE  request[todo'[i].proc].op # "none" /\ ~Handling(todo'[i].proc)
      <3>1. i \in 1..Len(todo)
        <4>1. ASSUME NEW k \in 1..Len(s), i = Len(todo) + k PROVE FALSE
          <5>1. todo'[i] = s[k]
            BY <1>9, <4>1
          <5>2. s[k].type = "dead"
            BY <1>12
          <5> QED BY <2>2, <5>1, <5>2
        <4> QED BY <1>10, <4>1
      <3>2. todo'[i] = todo[i]
        BY <1>9, <3>1
      <3>3. Waiting
        BY <1>0
      <3> QED BY <2>2, <3>1, <3>2, <3>3, Zenon DEF Waiting
    <2>3. \A q \in Procs : buffer[q] # 0 => Handling(q) \/ \E i \in 1..Len(todo') : todo'[i] = Txn(q)
      BY <1>0, <2>1 DEF Waiting
    <2> QED BY <1>1, <2>2, <2>3 DEF Waiting, Handling
  <1>17. Refs'
    BY <1>0, <1>1 DEF Refs, Published
  <1>18. Watched'
    BY <1>0, <1>1 DEF Watched, Adding
  <1> QED BY <1>15, <1>16, <1>17, <1>18

\* HeldRef, as a formula that holds in every state.
LEMMA HeldRefAlways ==
    CountInv => /\ \A n \in Names : si_handle[n] # 0 =>
                        si_handle[n] \in Handle /\ ref_node[si_handle[n]] # NoObj
                /\ \A p \in Procs : buffer[p] # 0 =>
                        buffer[p] \in Handle /\ ref_node[buffer[p]] # NoObj
  BY HeldRef, ConstantAssumption DEF CountInv

\* After a count is dropped, what is still held is as it was.
LEMMA HeldKept ==
    ASSUME Refs, CountInv', NEW g,
           \A h \in Handle : \/ ref_node'[h] = ref_node[h] /\ ref_death'[h] = ref_death[h]
                             \/ h = g /\ ref_node'[h] = NoObj /\ ref_death'[h] = NoName
    PROVE  /\ \A a, b \in Handle : ref_node'[a] = ref_node'[b] /\ ref_node'[a] # NoObj => a = b
           /\ \A h \in Handle : ref_death'[h] # NoName =>
                /\ ref_node'[h] # NoObj
                /\ Published(ref_node'[h], ref_death'[h])
                /\ LenOK(ref_death'[h])
           /\ \A n \in Names : si_handle'[n] # 0 =>
                /\ si_handle'[n] \in Handle
                /\ ref_node'[si_handle'[n]] = ref_node[si_handle'[n]]
                /\ ref_death'[si_handle'[n]] = ref_death[si_handle'[n]]
           /\ \A p \in Procs : buffer'[p] # 0 =>
                /\ buffer'[p] \in Handle
                /\ ref_node'[buffer'[p]] = ref_node[buffer'[p]]
                /\ ref_death'[buffer'[p]] = ref_death[buffer'[p]]
  <1>1. (/\ \A n \in Names : si_handle[n] # 0 =>
                si_handle[n] \in Handle /\ ref_node[si_handle[n]] # NoObj
         /\ \A p \in Procs : buffer[p] # 0 =>
                buffer[p] \in Handle /\ ref_node[buffer[p]] # NoObj)'
    BY HeldRefAlways, PTL
  <1>2. \A a, b \in Handle : ref_node'[a] = ref_node'[b] /\ ref_node'[a] # NoObj => a = b
    BY DEF Refs
  <1>3. ASSUME NEW h \in Handle, ref_death'[h] # NoName
        PROVE  ref_node'[h] # NoObj /\ Published(ref_node'[h], ref_death'[h]) /\ LenOK(ref_death'[h])
    <2>1. ref_node'[h] = ref_node[h] /\ ref_death'[h] = ref_death[h]
      BY <1>3
    <2> QED BY <1>3, <2>1 DEF Refs
  <1>4. ASSUME NEW n \in Names, si_handle'[n] # 0
        PROVE  /\ si_handle'[n] \in Handle
               /\ ref_node'[si_handle'[n]] = ref_node[si_handle'[n]]
               /\ ref_death'[si_handle'[n]] = ref_death[si_handle'[n]]
    BY <1>1, <1>4
  <1>5. ASSUME NEW p \in Procs, buffer'[p] # 0
        PROVE  /\ buffer'[p] \in Handle
               /\ ref_node'[buffer'[p]] = ref_node[buffer'[p]]
               /\ ref_death'[buffer'[p]] = ref_death[buffer'[p]]
    BY <1>1, <1>5
  <1> QED BY <1>2, <1>3, <1>4, <1>5

\* A handler has read its call: the calls that were queued behind it still are.
LEMMA ReadWaiting ==
    ASSUME WatchInv, NEW p \in Procs, pc = "loop", todo # <<>>, Head(todo) = Txn(p),
           pc' # "loop", cur' = p, UNCHANGED <<buffer, request>>,
           \A i \in 1..Len(todo') : \E k \in 1..Len(Tail(todo)) : todo'[i] = Tail(todo)[k],
           \A k \in 1..Len(Tail(todo)) : Tail(todo)[k].type = "txn" =>
                \E i \in 1..Len(todo') : todo'[i] = Tail(todo)[k]
    PROVE  Waiting'
  <1> DEFINE r == Tail(todo)
  <1>0. TypeInv /\ QueueOK(todo) /\ Waiting
    BY DEF WatchInv, CountInv
  <1>1. /\ \A i \in 1..Len(r) : r[i] # Txn(p) /\ \E k \in 1..Len(todo) : r[i] = todo[k]
        /\ \A q \in Procs : q # p /\ (\E i \in 1..Len(todo) : todo[i] = Txn(q)) =>
             \E i \in 1..Len(r) : r[i] = Txn(q)
    BY <1>0, ReadStep
  <1> HIDE DEF r
  <1>2. ASSUME NEW q \in Procs, buffer'[q] # 0, q # p
        PROVE  \E i \in 1..Len(todo') : todo'[i] = Txn(q)
    <2>1. \E i \in 1..Len(todo) : todo[i] = Txn(q)
      BY <1>0, <1>2 DEF Waiting, Handling
    <2>2. PICK k \in 1..Len(r) : r[k] = Txn(q)
      BY <1>1, <1>2, <2>1
    <2>3. r[k].type = "txn"
      BY <2>2, WorkFacts
    <2> QED BY <2>2, <2>3 DEF r
  <1>3. ASSUME NEW i \in 1..Len(todo'), todo'[i].type = "txn"
        PROVE  request'[todo'[i].proc].op # "none" /\ todo'[i].proc # p
    <2>1. PICK k \in 1..Len(r) : todo'[i] = r[k]
      BY DEF r
    <2>2. PICK m \in 1..Len(todo) : r[k] = todo[m]
      BY <1>1
    <2>3. todo[m] \in Work /\ todo[m].type = "txn" /\ todo'[i] = todo[m] /\ todo[m] # Txn(p)
      <3>1. todo \in Seq(Work)
        BY <1>0 DEF TypeInv, TypeOK
      <3>2. todo[m] \in Work
        BY <3>1, ElementOfSeq
      <3> QED BY <1>1, <1>3, <2>1, <2>2, <3>2
    <2>4. todo[m].proc # p
      BY <2>3, WorkFacts
    <2>5. request[todo[m].proc].op # "none"
      BY <1>0, <2>3 DEF Waiting
    <2> QED BY <2>3, <2>4, <2>5
  <1>4. (\A q \in Procs : buffer[q] # 0 => Handling(q) \/ \E i \in 1..Len(todo) : todo[i] = Txn(q))'
    BY <1>2 DEF Handling
  <1>5. (\A i \in 1..Len(todo) : todo[i].type = "txn" =>
            request[todo[i].proc].op # "none" /\ ~Handling(todo[i].proc))'
    BY <1>3 DEF Handling
  <1> QED BY <1>4, <1>5 DEF Waiting

\* The handlers that change nothing but the reply.
LEMMA ReadOnlyWatch ==
    ASSUME WatchInv, NEW p \in Procs, NEW op, Recv(p, op), pc' = "reply", todo' = Tail(todo),
           UNCHANGED <<procs, driver, buffer, request, si_handle>>
    PROVE  Refs' /\ QueueOK(todo)' /\ Waiting' /\ Watched'
  <1> DEFINE r == Tail(todo)
  <1>0. TypeInv /\ Refs /\ QueueOK(todo) /\ Waiting /\ Watched
    BY DEF WatchInv, CountInv
  <1>1. /\ pc = "loop" /\ todo # <<>> /\ Head(todo) = Txn(p) /\ cur' = p
        /\ UNCHANGED <<alive, released, ref_node, ref_death, buffer, request, si_handle>>
    BY DEF Recv, procs, driver
  <1>2. QueueOK(r)
    BY <1>0, <1>1, ReadStep
  <1>3. Waiting'
    BY <1>1, ReadWaiting
  <1>4. Refs'
    BY <1>0, <1>1 DEF Refs, Published
  <1>5. Watched'
    BY <1>0, <1>1 DEF Watched, Adding
  <1>6. todo' = r
    OBVIOUS
  <1> HIDE DEF r
  <1>7. QueueOK(todo)'
    BY <1>1, <1>2, <1>6 DEF QueueOK, Distinct, NodeOwner
  <1> QED BY <1>3, <1>4, <1>5, <1>7

\* do_add_service up to the assignment of si->handle, for a svcinfo that was
\* there (with a service or without) and for a new one.
LEMMA AddWatch ==
    ASSUME WatchInv, CountInv', NEW p \in Procs, Recv(p, "add"), NEW n \in Names, n = request[p].name,
           Acceptable(buffer[p], n), binder_release(si_handle[n]),
           todo' = ReleaseFrom(Tail(todo), si_handle[n]),
           si_handle' = [si_handle EXCEPT ![n] = buffer[p]],
           pc' = "acquire", UNCHANGED <<procs, buffer, request>>
    PROVE  Refs' /\ QueueOK(todo)' /\ Waiting' /\ Watched'
  <1> DEFINE g == si_handle[n]
             r == Tail(todo)
  <1>0. TypeInv /\ RefsMatchHolders /\ Refs /\ QueueOK(todo) /\ Waiting /\ Watched
    BY DEF WatchInv, CountInv
  <1>1. /\ pc = "loop" /\ todo # <<>> /\ Head(todo) = Txn(p) /\ cur' = p
        /\ UNCHANGED <<alive, released, buffer, request>>
    BY DEF Recv, procs
  <1>2. g \in Handle \cup {0} /\ buffer[p] \in Handle /\ buffer[p] # 0
    BY <1>0 DEF TypeInv, TypeOK, Acceptable
  <1>3. \A m \in Names : si_handle'[m] = IF m = n THEN buffer[p] ELSE si_handle[m]
    BY <1>0 DEF TypeInv, TypeOK
  <1>4. g # 0 => ref_strong[g] > 0
    BY <1>0, <1>1, <1>2, HeldIsCounted
  <1>5. r \in Seq(Work) /\ QueueOK(r)
    BY <1>0, <1>1, ReadStep
  <1>6. /\ \A h \in Handle :
             \/ ref_node'[h] = ref_node[h] /\ ref_death'[h] = ref_death[h]
             \/ h = g /\ IsLast(g) /\ ref_node'[h] = NoObj /\ ref_death'[h] = NoName
        /\ QueueOK(todo)'
        /\ \A i \in 1..Len(todo') : \E k \in 1..Len(r) : todo'[i] = r[k]
        /\ \A k \in 1..Len(r) : r[k].type = "txn" => \E i \in 1..Len(todo') : todo'[i] = r[k]
    BY <1>0, <1>1, <1>2, <1>4, <1>5, ReleaseStep
  <1>6a. \A h \in Handle : \/ ref_node'[h] = ref_node[h] /\ ref_death'[h] = ref_death[h]
                           \/ h = g /\ ref_node'[h] = NoObj /\ ref_death'[h] = NoName
    BY <1>6
  <1>7. /\ \A a, b \in Handle : ref_node'[a] = ref_node'[b] /\ ref_node'[a] # NoObj => a = b
        /\ \A h \in Handle : ref_death'[h] # NoName =>
             /\ ref_node'[h] # NoObj
             /\ Published(ref_node'[h], ref_death'[h])
             /\ LenOK(ref_death'[h])
        /\ \A m \in Names : si_handle'[m] # 0 =>
             /\ si_handle'[m] \in Handle
             /\ ref_node'[si_handle'[m]] = ref_node[si_handle'[m]]
             /\ ref_death'[si_handle'[m]] = ref_death[si_handle'[m]]
        /\ \A q \in Procs : buffer'[q] # 0 =>
             /\ buffer'[q] \in Handle
             /\ ref_node'[buffer'[q]] = ref_node[buffer'[q]]
             /\ ref_death'[buffer'[q]] = ref_death[buffer'[q]]
    BY <1>0, <1>6a, HeldKept
  <1>8. Waiting'
    BY <1>1, <1>6, ReadWaiting
  <1>9. Refs'
    <2>1. ASSUME NEW m \in Names, si_handle'[m] # 0
          PROVE  Published(ref_node'[si_handle'[m]], m) /\ LenOK(m)
      <3>1. CASE m = n
        <4>1. Published(ref_node[buffer[p]], n)
          BY <1>0, <1>2 DEF Refs
        <4>2. LenOK(n)
          BY DEF Acceptable, LenOK
        <4> QED BY <1>3, <1>7, <2>1, <3>1, <4>1, <4>2
      <3>2. CASE m # n
        <4>1. Published(ref_node[si_handle[m]], m) /\ LenOK(m)
          BY <1>0, <1>3, <2>1, <3>2 DEF Refs
        <4> QED BY <1>3, <1>7, <2>1, <3>2, <4>1
      <3> QED BY <3>1, <3>2
    <2>2. ASSUME NEW q \in Procs, buffer'[q] # 0
          PROVE  /\ request'[q].op = "add"
                 /\ Owner[ref_node'[buffer'[q]]] = q
                 /\ Published(ref_node'[buffer'[q]], request'[q].name)
      BY <1>0, <1>1, <1>7, <2>2 DEF Refs
    <2>3. released' \cap alive' = {}
      BY <1>0, <1>1 DEF Refs
    <2> QED BY <1>7, <2>1, <2>2, <2>3 DEF Refs, Published
  <1>10. Watched'
    <2>1. ASSUME NEW m \in Names, si_handle'[m] # 0, si_handle'[m] # buffer[p]
          PROVE  ref_death'[si_handle'[m]] = m
      <3>1. m # n /\ si_handle'[m] = si_handle[m]
        BY <1>3, <2>1
      <3>2. ref_death[si_handle[m]] = m
        BY <1>0, <1>1, <2>1, <3>1 DEF Watched, Adding
      <3> QED BY <1>7, <2>1, <3>1, <3>2
    <2> QED BY <1>1, <2>1 DEF Watched, Adding
  <1> QED BY <1>6, <1>8, <1>9, <1>10

\* binder_acquire takes a count and changes nothing else.
LEMMA AcquireWatch ==
    ASSUME WatchInv, Acquire
    PROVE  Refs' /\ QueueOK(todo)' /\ Waiting' /\ Watched'
  <1>1. /\ UNCHANGED <<alive, released, ref_node, ref_death, todo, buffer, request, cur, si_handle>>
        /\ pc = "acquire" /\ pc' = "link"
    BY DEF Acquire, procs, manager
  <1>2. Refs'
    BY <1>1 DEF WatchInv, Refs, Published
  <1>3. QueueOK(todo)'
    BY <1>1 DEF WatchInv, QueueOK, Distinct, NodeOwner
  <1>4. Waiting'
    BY <1>1 DEF WatchInv, Waiting, Handling
  <1>5. Watched'
    BY <1>1 DEF WatchInv, Watched, Adding
  <1> QED BY <1>2, <1>3, <1>4, <1>5

\* binder_link_to_death registers the service unless it is registered, and a
\* dead one's notice goes to the front, where the caller's transaction no
\* longer is.
LEMMA LinkWatch ==
    ASSUME OneName, WatchInv, Link
    PROVE  Refs' /\ QueueOK(todo)' /\ Waiting' /\ Watched'
  <1> DEFINE h == buffer[cur]
             n == request[cur].name
             w == Dead(h, n)
  <1>0. TypeInv /\ RefsMatchHolders /\ Refs /\ QueueOK(todo) /\ Waiting /\ Watched
    BY DEF WatchInv, CountInv
  <1>1. /\ pc = "link" /\ pc' = "reply"
        /\ UNCHANGED <<alive, released, ref_node, buffer, request, cur, si_handle>>
    BY DEF Link, Answered, procs, manager
  <1>2. /\ cur \in Procs /\ request[cur].op = "add" /\ n \in Names
        /\ h # 0 /\ si_handle[n] = h
    BY <1>0, <1>1 DEF TypeInv, CallsInProgress
  <1>3. h \in Handle /\ ref_node[h] \in Objs /\ ref_node[h] # NoObj
    BY <1>0, <1>2, HeldRef, ConstantAssumption
  <1>4. NodeOwner(h) = cur /\ Published(ref_node[h], n) /\ LenOK(n)
    BY <1>0, <1>2 DEF Refs, NodeOwner
  <1>5. /\ \A m \in Names : si_handle[m] = h => m = n
        /\ ref_death[h] # NoName => ref_death[h] = n
    <2>1. /\ \A a, m \in Names : si_handle[a] # 0 /\ si_handle[a] = si_handle[m] => a = m
          /\ \A m \in Names : si_handle[m] # 0 /\ ref_death[si_handle[m]] # NoName =>
                ref_death[si_handle[m]] = m
      BY <1>0, OneEach
    <2> QED BY <1>2, <2>1
  <1>6. \A k \in Handle : ref_death'[k] = IF k = h THEN n ELSE ref_death[k]
    <2>1. CASE ref_death[h] # NoName
      BY <1>3, <1>5, <2>1 DEF Link
    <2>2. CASE ref_death[h] = NoName
      <3>1. ref_death' = [ref_death EXCEPT ![h] = n]
        BY <1>3, <2>2 DEF Link
      <3> QED BY <1>0, <3>1 DEF TypeInv, TypeOK
    <2> QED BY <2>1, <2>2
  <1>7. Refs'
    <2>1. ASSUME NEW k \in Handle, ref_death'[k] # NoName
          PROVE  ref_node[k] # NoObj /\ Published(ref_node[k], ref_death'[k]) /\ LenOK(ref_death'[k])
      <3>1. CASE k = h
        BY <1>3, <1>4, <1>6, <3>1
      <3>2. CASE k # h
        BY <1>0, <1>6, <2>1, <3>2 DEF Refs
      <3> QED BY <3>1, <3>2
    <2> QED BY <1>0, <1>1, <2>1 DEF Refs, Published
  <1>8. Watched'
    <2>1. ASSUME NEW m \in Names, si_handle[m] # 0 PROVE ref_death'[si_handle[m]] = m
      <3>0. si_handle[m] \in Handle
        BY <1>0, <2>1, HeldRef
      <3>1. CASE si_handle[m] = h
        BY <1>3, <1>5, <1>6, <3>1
      <3>2. CASE si_handle[m] # h
        BY <1>0, <1>6, <2>1, <3>0, <3>2 DEF Watched, Adding
      <3> QED BY <3>1, <3>2
    <2> QED BY <1>1, <2>1 DEF Watched
  <1>e. todo \in Seq(Work) /\ Len(todo) \in Nat /\ \A i \in 1..Len(todo) : todo[i] \in Work
    <2>1. todo \in Seq(Work)
      BY <1>0 DEF TypeInv, TypeOK
    <2> QED BY <2>1, LenProperties, ElementOfSeq
  <1>9. CASE todo' = todo /\ (ref_death[h] = NoName => cur \notin released)
    <2>1. \A i \in 1..Len(todo) : todo[i].type = "dead" => ref_death'[todo[i].handle] = ref_death[todo[i].handle]
      <3> SUFFICES ASSUME NEW i \in 1..Len(todo), todo[i].type = "dead"
                   PROVE  ref_death'[todo[i].handle] = ref_death[todo[i].handle]
        OBVIOUS
      <3>1. /\ todo[i].handle \in Handle /\ todo[i].cookie \in Names
            /\ todo[i].cookie = ref_death[todo[i].handle]
        BY <1>0, <1>e, WorkFacts DEF QueueOK
      <3>2. ref_death[todo[i].handle] # NoName
        BY <3>1, ConstantAssumption
      <3> QED BY <1>5, <1>6, <3>1, <3>2
    <2>2. ASSUME NEW k \in Handle, ref_death'[k] # NoName, NodeOwner(k) \in released
          PROVE  \E i \in 1..Len(todo) : todo[i] = Dead(k, ref_death'[k])
      <3>1. ref_death'[k] = ref_death[k]
        BY <1>4, <1>5, <1>6, <1>9, <2>2
      <3> QED BY <1>0, <2>2, <3>1 DEF QueueOK
    <2>3. QueueOK(todo)'
      BY <1>0, <1>1, <1>9, <2>1, <2>2 DEF QueueOK, Distinct, NodeOwner
    <2>4. Waiting'
      BY <1>0, <1>1, <1>9 DEF Waiting, Handling
    <2> QED BY <1>7, <1>8, <2>3, <2>4
  <1>10. CASE todo' = <<w>> \o todo /\ ref_death[h] = NoName /\ cur \in released
    <2>1. w \in Work /\ w.type = "dead" /\ w.handle = h /\ w.cookie = n
      BY <1>2, <1>3, WorkFacts
    <2> HIDE DEF w
    <2>2. /\ Len(todo') = Len(todo) + 1 /\ todo'[1] = w
          /\ \A i \in 1..Len(todo) : todo'[i + 1] = todo[i]
      <3>1. <<w>> \in Seq(Work) /\ Len(<<w>>) = 1 /\ <<w>>[1] = w
        BY <2>1
      <3>2. /\ Len(todo') = 1 + Len(todo)
            /\ \A i \in 1..(1 + Len(todo)) : todo'[i] = IF i <= 1 THEN <<w>>[i] ELSE todo[i - 1]
        BY <1>10, <1>e, <3>1, ConcatProperties
      <3>3. todo'[1] = w
        BY <1>e, <3>1, <3>2
      <3>4. ASSUME NEW i \in 1..Len(todo) PROVE todo'[i + 1] = todo[i]
        <4>1. i + 1 \in 1..(1 + Len(todo)) /\ ~(i + 1 <= 1) /\ (i + 1) - 1 = i
          BY <1>e
        <4> QED BY <3>2, <4>1
      <3> QED BY <1>e, <3>2, <3>3, <3>4
    <2>3. ASSUME NEW i \in 1..Len(todo') PROVE i = 1 \/ \E k \in 1..Len(todo) : i = k + 1
      <3>1. CASE i # 1
        <4>1. i - 1 \in 1..Len(todo) /\ i = (i - 1) + 1
          BY <1>e, <2>2, <3>1
        <4> QED BY <4>1
      <3> QED BY <3>1
    <2>4. ASSUME NEW k \in 1..Len(todo), todo[k].type = "dead"
          PROVE  /\ todo[k].handle \in Handle /\ todo[k].handle # h
                 /\ todo[k].cookie = ref_death[todo[k].handle]
                 /\ todo[k].cookie = ref_death'[todo[k].handle]
                 /\ NodeOwner(todo[k].handle) \in released
      <3>1. /\ todo[k].handle \in Handle /\ todo[k].cookie \in Names
            /\ todo[k].cookie = ref_death[todo[k].handle]
            /\ NodeOwner(todo[k].handle) \in released
        BY <1>0, <1>e, <2>4, WorkFacts DEF QueueOK
      <3>2. todo[k].handle # h
        BY <1>10, <3>1, ConstantAssumption
      <3> QED BY <1>6, <3>1, <3>2
    <2>5. \A k \in 1..Len(todo) : todo[k] # w
      BY <2>1, <2>4
    <2>6. \A i, j \in 1..Len(todo') : todo'[i] = todo'[j] => i = j
      <3> SUFFICES ASSUME NEW i \in 1..Len(todo'), NEW j \in 1..Len(todo'), todo'[i] = todo'[j]
                   PROVE  i = j
        OBVIOUS
      <3>1. CASE i = 1
        BY <2>2, <2>3, <2>5, <3>1
      <3>2. ASSUME NEW k \in 1..Len(todo), i = k + 1 PROVE i = j
        <4>1. todo'[i] = todo[k]
          BY <2>2, <3>2
        <4>2. j # 1
          BY <2>2, <2>5, <4>1
        <4>3. PICK m \in 1..Len(todo) : j = m + 1
          BY <2>3, <4>2
        <4>4. todo'[j] = todo[m]
          BY <2>2, <4>3
        <4>5. k = m
          BY <1>0, <4>1, <4>4 DEF QueueOK, Distinct
        <4> QED BY <3>2, <4>3, <4>5
      <3> QED BY <2>3, <3>1, <3>2
    <2>7. ASSUME NEW i \in 1..Len(todo'), todo'[i].type = "dead"
          PROVE  todo'[i].cookie = ref_death'[todo'[i].handle] /\ NodeOwner(todo'[i].handle) \in released
      <3>1. CASE i = 1
        BY <1>3, <1>4, <1>6, <1>10, <2>1, <2>2, <3>1
      <3>2. ASSUME NEW k \in 1..Len(todo), i = k + 1
            PROVE  todo'[i].cookie = ref_death'[todo'[i].handle] /\ NodeOwner(todo'[i].handle) \in released
        <4>1. todo'[i] = todo[k]
          BY <2>2, <3>2
        <4> QED BY <2>4, <2>7, <4>1
      <3> QED BY <2>3, <3>1, <3>2
    <2>8. ASSUME NEW k \in Handle, ref_death'[k] # NoName, NodeOwner(k) \in released
          PROVE  \E i \in 1..Len(todo') : todo'[i] = Dead(k, ref_death'[k])
      <3>0. 1 \in 1..Len(todo')
        BY <1>e, <2>2
      <3>1. CASE k = h
        BY <1>3, <1>6, <2>2, <3>0, <3>1 DEF w
      <3>2. CASE k # h
        <4>1. PICK i \in 1..Len(todo) : todo[i] = Dead(k, ref_death[k])
          BY <1>0, <1>6, <2>8, <3>2 DEF QueueOK
        <4>2. i + 1 \in 1..Len(todo') /\ todo'[i + 1] = Dead(k, ref_death'[k])
          BY <1>6, <1>e, <2>2, <3>2, <4>1
        <4> QED BY <4>2
      <3> QED BY <3>1, <3>2
    <2>9. ASSUME NEW k \in 1..Len(todo) PROVE todo[k] # Txn(cur)
      BY <1>0, <1>1, WorkFacts DEF Waiting, Handling
    <2>10. ASSUME NEW i \in 1..Len(todo'), NEW j \in 1..Len(todo'), todo'[i].type = "dead",
                  todo'[j] = Txn(NodeOwner(todo'[i].handle))
           PROVE  j < i
      <3>1. todo'[j].type = "txn"
        BY <2>10, WorkFacts
      <3>2. PICK m \in 1..Len(todo) : j = m + 1
        BY <2>1, <2>2, <2>3, <3>1
      <3>3. todo'[j] = todo[m]
        BY <2>2, <3>2
      <3>4. i # 1
        BY <1>4, <2>1, <2>2, <2>9, <2>10, <3>3
      <3>5. PICK k \in 1..Len(todo) : i = k + 1
        BY <2>3, <3>4
      <3>6. todo'[i] = todo[k]
        BY <2>2, <3>5
      <3>7. m < k
        BY <1>0, <2>10, <3>3, <3>6 DEF QueueOK
      <3> QED BY <1>e, <3>2, <3>5, <3>7
    <2>11. QueueOK(todo)'
      BY <1>1, <2>6, <2>7, <2>8, <2>10 DEF QueueOK, Distinct, NodeOwner
    <2>12. ASSUME NEW q \in Procs, NEW i \in 1..Len(todo), todo[i] = Txn(q)
           PROVE  \E k \in 1..Len(todo') : todo'[k] = Txn(q)
      <3>1. i + 1 \in 1..Len(todo') /\ todo'[i + 1] = Txn(q)
        BY <1>e, <2>2, <2>12
      <3> QED BY <3>1
    <2>13. ASSUME NEW i \in 1..Len(todo'), todo'[i].type = "txn"
           PROVE  request[todo'[i].proc].op # "none" /\ ~Handling(todo'[i].proc)
      <3>1. PICK k \in 1..Len(todo) : i = k + 1
        BY <2>1, <2>2, <2>3, <2>13
      <3>2. todo'[i] = todo[k]
        BY <2>2, <3>1
      <3> QED BY <1>0, <2>13, <3>2 DEF Waiting
    <2>14. Waiting'
      <3>1. \A q \in Procs : buffer[q] # 0 => Handling(q) \/ \E i \in 1..Len(todo') : todo'[i] = Txn(q)
        BY <1>0, <2>12 DEF Waiting
      <3> QED BY <1>1, <2>13, <3>1 DEF Waiting, Handling
    <2> QED BY <1>7, <1>8, <2>11, <2>14
  <1>11. \/ todo' = todo /\ (ref_death[h] = NoName => cur \notin released)
         \/ todo' = <<w>> \o todo /\ ref_death[h] = NoName /\ cur \in released
    BY <1>3, <1>4 DEF Link, NodeOwner
  <1> QED BY <1>9, <1>10, <1>11

\* Removing the work at the head of the queue is reading it.
LEMMA UnqueueHead ==
    ASSUME NEW q \in Seq(Work), q # <<>>, Distinct(q)
    PROVE  Unqueue(q, Head(q)) = Tail(q) /\ Unqueue(Tail(q), Head(q)) = Tail(q)
  <1> DEFINE w == Head(q)
             t == Tail(q)
  <1>0. /\ Len(q) \in Nat /\ DOMAIN q = 1..Len(q) /\ w = q[1] /\ t \in Seq(Work)
        /\ 1 \in 1..Len(q) /\ \A i \in 1..Len(q) : q[i] \in Work
    <2>1. Len(q) \in Nat /\ DOMAIN q = 1..Len(q) /\ Len(q) # 0 /\ \A i \in 1..Len(q) : q[i] \in Work
      BY LenProperties, EmptySeq, ElementOfSeq
    <2> QED BY <2>1, HeadTailProperties
  <1>1. t = SubSeq(q, 2, Len(q))
    BY TailIsSubSeq
  <1>2. Without(t, q, w)
    BY TailWithout
  <1>3. DOMAIN t = 1..Len(t)
    BY <1>0, LenProperties
  <1> HIDE DEF w, t
  <1>4. \A i \in 1..Len(t) : t[i] # w
    BY <1>0, <1>2, WithoutFacts
  <1>5. Unqueue(t, w) = t
    BY <1>3, <1>4 DEF Unqueue
  <1> DEFINE k == CHOOSE i \in DOMAIN q : q[i] = w
  <1>6. k = 1
    BY <1>0 DEF Distinct
  <1>7. Unqueue(q, w) = SubSeq(q, 1, k - 1) \o SubSeq(q, k + 1, Len(q))
    BY <1>0 DEF Unqueue, RemoveAt
  <1> HIDE DEF k
  <1>8. Unqueue(q, w) = SubSeq(q, 1, 0) \o SubSeq(q, 2, Len(q))
    BY <1>6, <1>7
  <1>9. SubSeq(q, 1, 0) = <<>>
    BY SubSeqEmpty
  <1>10. <<>> \o t = t
    BY <1>0, ConcatEmptySeq
  <1>11. Unqueue(q, w) = t
    BY <1>1, <1>8, <1>9, <1>10
  <1> QED BY <1>5, <1>11 DEF w, t

\* A notice is read when nothing but the service holds the reference: the
\* process's own calls, the only ones that carry the object, were ahead of it.
LEMMA LastHolder ==
    ASSUME OneName, WatchInv, pc = "loop", todo # <<>>,
           NEW h \in Handle, NEW n \in Names, Head(todo) = Dead(h, n)
    PROVE  si_handle[n] = h /\ ref_death[h] = n /\ IsLast(h)
  <1> USE ConstantAssumption, FiniteAssumption
  <1>0. TypeInv /\ RefsMatchHolders /\ Refs /\ QueueOK(todo) /\ Waiting /\ Watched
    BY DEF WatchInv, CountInv
  <1>1. todo \in Seq(Work) /\ 1 \in 1..Len(todo) /\ Len(todo) \in Nat /\ todo[1] = Dead(h, n)
    <2>1. todo \in Seq(Work)
      BY <1>0 DEF TypeInv, TypeOK
    <2>2. Len(todo) \in Nat /\ Len(todo) # 0
      BY <2>1, LenProperties, EmptySeq
    <2>3. Head(todo) = todo[1]
      BY <2>1, HeadTailProperties
    <2> QED BY <2>1, <2>2, <2>3
  <1>2. ref_death[h] = n /\ NodeOwner(h) \in released
    <2>1. todo[1].type = "dead" /\ todo[1].handle = h /\ todo[1].cookie = n
      BY <1>1, WorkFacts
    <2>2. todo[1].cookie = ref_death[todo[1].handle] /\ NodeOwner(todo[1].handle) \in released
      BY <1>0, <1>1, <2>1 DEF QueueOK
    <2> QED BY <2>1, <2>2
  <1>3. ref_node[h] # NoObj
    BY <1>0, <1>2 DEF Refs
  <1>4. \A p \in Procs : buffer[p] # h
    <2> SUFFICES ASSUME NEW p \in Procs, buffer[p] = h PROVE FALSE
      OBVIOUS
    <2>1. buffer[p] # 0
      BY HandleFacts
    <2>2. NodeOwner(h) = p
      BY <1>0, <2>1 DEF Refs, NodeOwner
    <2>3. PICK j \in 1..Len(todo) : todo[j] = Txn(p)
      BY <1>0, <2>1 DEF Waiting, Handling
    <2>4. todo[1].type = "dead" /\ todo[j] = Txn(NodeOwner(todo[1].handle))
      BY <1>1, <2>2, <2>3, WorkFacts
    <2>5. j < 1
      BY <1>0, <1>1, <2>4 DEF QueueOK
    <2> QED BY <1>1, <2>3, <2>5
  <1>5. Count(buffer, Procs, h) = 0
    <2>1. {y \in Procs : buffer[y] = h} = {}
      BY <1>4
    <2> QED BY <2>1, FS_EmptySet DEF Count
  <1>6. /\ Count(si_handle, Names, h) \in Nat /\ ref_strong[h] \in Nat
        /\ ref_strong[h] = Count(si_handle, Names, h) + Count(buffer, Procs, h)
        /\ ref_strong[h] # 0
    <2>1. ref_strong[h] # 0
      BY <1>0, <1>3 DEF RefsMatchHolders
    <2> QED BY <1>0, <2>1, HeldIsCounted
  <1>7. Count(si_handle, Names, h) # 0
    BY <1>5, <1>6
  <1>8. PICK m \in Names : si_handle[m] = h
    <2>1. {y \in Names : si_handle[y] = h} # {}
      BY <1>7, FS_EmptySet DEF Count
    <2> QED BY <2>1
  <1>9. /\ \A a, b \in Names : si_handle[a] # 0 /\ si_handle[a] = si_handle[b] => a = b
        /\ \A a \in Names : si_handle[a] # 0 /\ ref_death[si_handle[a]] # NoName => ref_death[si_handle[a]] = a
    BY <1>0, OneEach
  <1>10. h # 0
    BY HandleFacts
  <1>11. m = n
    BY <1>2, <1>8, <1>9, <1>10
  <1>12. {y \in Names : si_handle[y] = h} = {n}
    BY <1>8, <1>9, <1>10, <1>11
  <1>13. Count(si_handle, Names, h) = 1
    BY <1>12, FS_Singleton DEF Count
  <1>14. ref_strong[h] = 1
    BY <1>5, <1>6, <1>13
  <1> QED BY <1>2, <1>8, <1>11, <1>14 DEF IsLast

\* svcinfo_death: the reference goes with its service.
LEMMA DeadWatch ==
    ASSUME OneName, WatchInv, CountInv', DeadBinder
    PROVE  Refs' /\ QueueOK(todo)' /\ Waiting' /\ Watched'
  <1>0. TypeInv /\ RefsMatchHolders /\ Refs /\ QueueOK(todo) /\ Waiting /\ Watched
    BY DEF WatchInv, CountInv
  <1>1. PICK h \in Handle, n \in Names :
            /\ Head(todo) = Dead(h, n)
            /\ binder_release(si_handle[n])
            /\ todo' = ReleaseFrom(Tail(todo), si_handle[n])
            /\ si_handle' = [si_handle EXCEPT ![n] = 0]
    BY DEF DeadBinder
  <1>2. /\ pc = "loop" /\ todo # <<>> /\ pc' = pc
        /\ UNCHANGED <<alive, released, buffer, request, cur>>
    BY DEF DeadBinder, procs
  <1>3. si_handle[n] = h /\ ref_death[h] = n /\ IsLast(h)
    BY <1>1, <1>2, LastHolder
  <1>4. todo \in Seq(Work) /\ Distinct(todo) /\ h # 0
    BY <1>0, HandleFacts DEF TypeInv, TypeOK, QueueOK
  <1>5. todo' = ReleaseFrom(todo, h)
    <2>1. Unqueue(todo, Head(todo)) = Tail(todo) /\ Unqueue(Tail(todo), Head(todo)) = Tail(todo)
      BY <1>2, <1>4, UnqueueHead
    <2>2. todo' = Unqueue(Tail(todo), Dead(h, n))
      BY <1>1, <1>3, <1>4 DEF ReleaseFrom
    <2>3. ReleaseFrom(todo, h) = Unqueue(todo, Dead(h, n))
      BY <1>3, <1>4 DEF ReleaseFrom
    <2> QED BY <1>1, <2>1, <2>2, <2>3
  <1>6. ref_strong[h] > 0 /\ binder_release(h)
    BY <1>1, <1>3 DEF IsLast
  <1>7. /\ \A k \in Handle :
             \/ ref_node'[k] = ref_node[k] /\ ref_death'[k] = ref_death[k]
             \/ k = h /\ IsLast(h) /\ ref_node'[k] = NoObj /\ ref_death'[k] = NoName
        /\ QueueOK(todo)'
        /\ \A i \in 1..Len(todo') : \E k \in 1..Len(todo) : todo'[i] = todo[k]
        /\ \A k \in 1..Len(todo) : todo[k].type = "txn" => \E i \in 1..Len(todo') : todo'[i] = todo[k]
    BY <1>0, <1>2, <1>4, <1>5, <1>6, ReleaseStep
  <1>8. \A k \in Handle : \/ ref_node'[k] = ref_node[k] /\ ref_death'[k] = ref_death[k]
                          \/ k = h /\ ref_node'[k] = NoObj /\ ref_death'[k] = NoName
    BY <1>7
  <1>9. /\ \A a, b \in Handle : ref_node'[a] = ref_node'[b] /\ ref_node'[a] # NoObj => a = b
        /\ \A k \in Handle : ref_death'[k] # NoName =>
             /\ ref_node'[k] # NoObj
             /\ Published(ref_node'[k], ref_death'[k])
             /\ LenOK(ref_death'[k])
        /\ \A m \in Names : si_handle'[m] # 0 =>
             /\ si_handle'[m] \in Handle
             /\ ref_node'[si_handle'[m]] = ref_node[si_handle'[m]]
             /\ ref_death'[si_handle'[m]] = ref_death[si_handle'[m]]
        /\ \A q \in Procs : buffer'[q] # 0 =>
             /\ buffer'[q] \in Handle
             /\ ref_node'[buffer'[q]] = ref_node[buffer'[q]]
             /\ ref_death'[buffer'[q]] = ref_death[buffer'[q]]
    BY <1>0, <1>8, HeldKept
  <1>10. \A m \in Names : si_handle'[m] = IF m = n THEN 0 ELSE si_handle[m]
    BY <1>0, <1>1 DEF TypeInv, TypeOK
  <1>11. Refs'
    <2>1. ASSUME NEW m \in Names, si_handle'[m] # 0
          PROVE  Published(ref_node'[si_handle'[m]], m) /\ LenOK(m)
      <3>1. si_handle'[m] = si_handle[m]
        BY <1>10, <2>1
      <3>2. Published(ref_node[si_handle[m]], m) /\ LenOK(m)
        BY <1>0, <2>1, <3>1 DEF Refs
      <3> QED BY <1>9, <2>1, <3>1, <3>2
    <2>2. ASSUME NEW q \in Procs, buffer'[q] # 0
          PROVE  /\ request'[q].op = "add"
                 /\ Owner[ref_node'[buffer'[q]]] = q
                 /\ Published(ref_node'[buffer'[q]], request'[q].name)
      BY <1>0, <1>2, <1>9, <2>2 DEF Refs
    <2>3. released' \cap alive' = {}
      BY <1>0, <1>2 DEF Refs
    <2> QED BY <1>9, <2>1, <2>2, <2>3 DEF Refs, Published
  <1>12. Waiting'
    <2>1. ASSUME NEW q \in Procs, buffer'[q] # 0
          PROVE  \E i \in 1..Len(todo') : todo'[i] = Txn(q)
      <3>1. PICK k \in 1..Len(todo) : todo[k] = Txn(q)
        BY <1>0, <1>2, <2>1 DEF Waiting, Handling
      <3>2. todo[k].type = "txn"
        BY <3>1, WorkFacts
      <3> QED BY <1>7, <3>1, <3>2
    <2>2. ASSUME NEW i \in 1..Len(todo'), todo'[i].type = "txn"
          PROVE  request'[todo'[i].proc].op # "none"
      BY <1>0, <1>2, <1>7, <2>2 DEF Waiting
    <2> QED BY <1>2, <2>1, <2>2 DEF Waiting, Handling
  <1>13. Watched'
    <2>1. ASSUME NEW m \in Names, si_handle'[m] # 0 PROVE ref_death'[si_handle'[m]] = m
      <3>1. si_handle'[m] = si_handle[m]
        BY <1>10, <2>1
      <3>2. ref_death[si_handle[m]] = m
        BY <1>0, <1>2, <2>1, <3>1 DEF Watched, Adding
      <3> QED BY <1>9, <2>1, <3>1, <3>2
    <2> QED BY <2>1 DEF Watched
  <1> QED BY <1>7, <1>11, <1>12, <1>13

\* binder_send_reply drops the buffer's count and ends the call.
LEMMA ReplyWatch ==
    ASSUME WatchInv, CountInv', SendReply
    PROVE  Refs' /\ QueueOK(todo)' /\ Waiting' /\ Watched'
  <1> DEFINE g == buffer[cur]
  <1>0. TypeInv /\ RefsMatchHolders /\ Refs /\ QueueOK(todo) /\ Waiting /\ Watched
    BY DEF WatchInv, CountInv
  <1>1. /\ pc = "reply" /\ pc' = "loop" /\ binder_release(g) /\ todo' = ReleaseFrom(todo, g)
        /\ UNCHANGED <<alive, released, si_handle>>
    BY DEF SendReply, procs, manager
  <1>2. cur \in Procs /\ g \in Handle \cup {0} /\ todo \in Seq(Work)
    BY <1>0, <1>1 DEF TypeInv, TypeOK, CallsInProgress
  <1>3. \A q \in Procs : /\ buffer'[q] = IF q = cur THEN 0 ELSE buffer[q]
                         /\ q # cur => request'[q] = request[q]
    BY <1>0, <1>2 DEF SendReply, TypeInv, TypeOK
  <1>4. g # 0 => ref_strong[g] > 0
    BY <1>0, <1>1, <1>2, HeldIsCounted
  <1>7. /\ \A k \in Handle :
             \/ ref_node'[k] = ref_node[k] /\ ref_death'[k] = ref_death[k]
             \/ k = g /\ IsLast(g) /\ ref_node'[k] = NoObj /\ ref_death'[k] = NoName
        /\ QueueOK(todo)'
        /\ \A i \in 1..Len(todo') : \E k \in 1..Len(todo) : todo'[i] = todo[k]
        /\ \A k \in 1..Len(todo) : todo[k].type = "txn" => \E i \in 1..Len(todo') : todo'[i] = todo[k]
    BY <1>0, <1>1, <1>2, <1>4, ReleaseStep
  <1>8. \A k \in Handle : \/ ref_node'[k] = ref_node[k] /\ ref_death'[k] = ref_death[k]
                          \/ k = g /\ ref_node'[k] = NoObj /\ ref_death'[k] = NoName
    BY <1>7
  <1>9. /\ \A a, b \in Handle : ref_node'[a] = ref_node'[b] /\ ref_node'[a] # NoObj => a = b
        /\ \A k \in Handle : ref_death'[k] # NoName =>
             /\ ref_node'[k] # NoObj
             /\ Published(ref_node'[k], ref_death'[k])
             /\ LenOK(ref_death'[k])
        /\ \A m \in Names : si_handle'[m] # 0 =>
             /\ si_handle'[m] \in Handle
             /\ ref_node'[si_handle'[m]] = ref_node[si_handle'[m]]
             /\ ref_death'[si_handle'[m]] = ref_death[si_handle'[m]]
        /\ \A q \in Procs : buffer'[q] # 0 =>
             /\ buffer'[q] \in Handle
             /\ ref_node'[buffer'[q]] = ref_node[buffer'[q]]
             /\ ref_death'[buffer'[q]] = ref_death[buffer'[q]]
    BY <1>0, <1>8, HeldKept
  <1> HIDE DEF g
  <1>11. Refs'
    <2>1. ASSUME NEW m \in Names, si_handle'[m] # 0
          PROVE  Published(ref_node'[si_handle'[m]], m) /\ LenOK(m)
      <3>1. si_handle'[m] = si_handle[m]
        BY <1>1
      <3>2. Published(ref_node[si_handle[m]], m) /\ LenOK(m)
        BY <1>0, <2>1, <3>1 DEF Refs
      <3> QED BY <1>9, <2>1, <3>1, <3>2
    <2>2. ASSUME NEW q \in Procs, buffer'[q] # 0
          PROVE  /\ request'[q].op = "add"
                 /\ Owner[ref_node'[buffer'[q]]] = q
                 /\ Published(ref_node'[buffer'[q]], request'[q].name)
      <3>1. q # cur /\ buffer'[q] = buffer[q] /\ request'[q] = request[q]
        BY <1>3, <2>2
      <3> QED BY <1>0, <1>9, <2>2, <3>1 DEF Refs
    <2>3. released' \cap alive' = {}
      BY <1>0, <1>1 DEF Refs
    <2> QED BY <1>9, <2>1, <2>2, <2>3 DEF Refs, Published
  <1>12. Waiting'
    <2>1. ASSUME NEW q \in Procs, buffer'[q] # 0
          PROVE  \E i \in 1..Len(todo') : todo'[i] = Txn(q)
      <3>0. q # cur /\ buffer[q] # 0
        BY <1>3, <2>1
      <3>1. PICK k \in 1..Len(todo) : todo[k] = Txn(q)
        BY <1>0, <3>0 DEF Waiting, Handling
      <3>2. todo[k].type = "txn"
        BY <3>1, WorkFacts
      <3> QED BY <1>7, <3>1, <3>2
    <2>2. ASSUME NEW i \in 1..Len(todo'), todo'[i].type = "txn"
          PROVE  request'[todo'[i].proc].op # "none"
      <3>1. PICK k \in 1..Len(todo) : todo'[i] = todo[k]
        BY <1>7
      <3>2. request[todo[k].proc].op # "none" /\ todo[k].proc # cur
        BY <1>0, <1>1, <2>2, <3>1 DEF Waiting, Handling
      <3>3. todo[k] \in Work /\ todo[k].proc \in Procs
        BY <1>2, <2>2, <3>1, WorkFacts, ElementOfSeq
      <3> QED BY <1>3, <3>1, <3>2, <3>3
    <2> QED BY <1>1, <2>1, <2>2 DEF Waiting, Handling
  <1>13. Watched'
    <2>1. ASSUME NEW m \in Names, si_handle'[m] # 0 PROVE ref_death'[si_handle'[m]] = m
      <3>1. ref_death[si_handle[m]] = m /\ si_handle'[m] = si_handle[m]
        BY <1>0, <1>1, <2>1 DEF Watched, Adding
      <3> QED BY <1>9, <2>1, <3>1
    <2> QED BY <2>1 DEF Watched
  <1> QED BY <1>7, <1>11, <1>12, <1>13

\* Every step keeps the invariant.
LEMMA NextWatch ==
    ASSUME OneName, WatchInv, [Next]_vars
    PROVE  WatchInv'
  <1>0. CountInv
    BY DEF WatchInv
  <1>1. CountInv'
    <2>1. TypeInv'
      BY <1>0, NextType DEF CountInv
    <2>2. CASE UNCHANGED vars
      BY <1>0, <2>1, <2>2 DEF vars, CountInv, RefsMatchHolders, Holders, Unacquired, Unlisted, find_svc
    <2>3. CASE Next
      BY <1>0, <2>1, <2>3, NextCounts, NextUnlisted DEF CountInv
    <2> QED BY <2>2, <2>3
  <1> SUFFICES Refs' /\ QueueOK(todo)' /\ Waiting' /\ Watched'
    BY <1>1 DEF WatchInv
  <1>2. CASE UNCHANGED vars
    <2>1. UNCHANGED <<alive, released, ref_node, ref_death, todo, buffer, request, pc, cur, si_handle>>
      BY <1>2 DEF vars
    <2>2. Refs'
      BY <2>1 DEF WatchInv, Refs, Published
    <2>3. QueueOK(todo)'
      BY <2>1 DEF WatchInv, QueueOK, Distinct, NodeOwner
    <2>4. Waiting'
      BY <2>1 DEF WatchInv, Waiting, Handling
    <2>5. Watched'
      BY <2>1 DEF WatchInv, Watched, Adding
    <2> QED BY <2>2, <2>3, <2>4, <2>5
  <1>3. ASSUME NEW p \in Procs,
               Find(p) \/ List(p) \/ Ping(p) \/ Bad(p) \/ AddReject(p) \/ AddNoMemory(p)
        PROVE  Refs' /\ QueueOK(todo)' /\ Waiting' /\ Watched'
    <2>1. /\ pc' = "reply" /\ todo' = Tail(todo)
          /\ UNCHANGED <<procs, driver, buffer, request, si_handle>>
          /\ \E op : Recv(p, op)
      BY <1>3 DEF Find, List, Ping, Bad, AddReject, AddNoMemory, Answered, manager
    <2> QED BY <2>1, ReadOnlyWatch
  <1>4. ASSUME NEW p \in Procs, AddExisting(p) \/ AddNew(p)
        PROVE  Refs' /\ QueueOK(todo)' /\ Waiting' /\ Watched'
    <2> DEFINE n == request[p].name
    <2>1. n \in Names
      BY <1>0, <1>4 DEF AddExisting, AddNew, Recv, CountInv, TypeInv, CallsInProgress
    <2>2. /\ Recv(p, "add") /\ Acceptable(buffer[p], n) /\ pc' = "acquire"
          /\ si_handle' = [si_handle EXCEPT ![n] = buffer[p]]
          /\ UNCHANGED <<procs, buffer, request>>
      BY <1>4 DEF AddExisting, AddNew
    <2>3. binder_release(si_handle[n]) /\ todo' = ReleaseFrom(Tail(todo), si_handle[n])
      <3>1. CASE AddExisting(p)
        BY <3>1 DEF AddExisting
      <3>2. CASE AddNew(p)
        <4>1. si_handle[n] = 0
          BY <1>0, <2>1, <3>2 DEF AddNew, CountInv, Unlisted
        <4>2. UNCHANGED driver /\ todo' = Tail(todo)
          BY <3>2 DEF AddNew
        <4>3. binder_release(0) /\ ReleaseFrom(Tail(todo), 0) = Tail(todo)
          BY <4>2 DEF binder_release, ReleaseFrom
        <4> QED BY <4>1, <4>2, <4>3
      <3> QED BY <1>4, <3>1, <3>2
    <2> QED BY <1>1, <2>1, <2>2, <2>3, AddWatch
  <1>5. ASSUME NEW p \in Procs, Handler(p)
        PROVE  Refs' /\ QueueOK(todo)' /\ Waiting' /\ Watched'
    BY <1>3, <1>4, <1>5 DEF Handler
  <1>6. CASE Manager
    BY <1>1, <1>5, <1>6, AcquireWatch, LinkWatch, DeadWatch, ReplyWatch DEF Manager
  <1> QED BY <1>2, <1>6, CallsWatch, DieWatch, ReleaseWatch DEF Next

\* Every registered service is watched: its reference carries the death
\* registration of its own svcinfo, and once its process has been cleaned up
\* after, the notice that takes it out of the list is queued.  No exit between
\* the commands of do_add_service, no override and no other death loses it.
\* The condition is that an object is published under one name: a reference
\* has one death registration, and with two names the second goes unwatched.
THEOREM ServicesWatched ==
    ASSUME OneName
    PROVE  Spec => []EveryServiceWatched
  <1>1. WatchInv => EveryServiceWatched
    <2> SUFFICES ASSUME WatchInv, NEW n \in Names, si_handle[n] # 0, ~Adding(si_handle[n])
                 PROVE  /\ ref_death[si_handle[n]] = n
                        /\ Owner[ref_node[si_handle[n]]] \in released =>
                                Contains(todo, Dead(si_handle[n], n))
      BY DEF EveryServiceWatched, Adding
    <2>1. ref_death[si_handle[n]] = n
      BY DEF WatchInv, Watched
    <2>2. si_handle[n] \in Handle
      BY HeldRefAlways DEF WatchInv
    <2>3. ASSUME NodeOwner(si_handle[n]) \in released
          PROVE  Contains(todo, Dead(si_handle[n], n))
      <3>1. ref_death[si_handle[n]] # NoName
        BY <2>1, ConstantAssumption
      <3>2. PICK i \in 1..Len(todo) : todo[i] = Dead(si_handle[n], n)
        BY <2>1, <2>2, <2>3, <3>1 DEF WatchInv, QueueOK
      <3> QED BY <3>2 DEF Contains
    <2> QED BY <2>1, <2>3 DEF NodeOwner
  <1>2. WatchInv /\ [Next]_vars => WatchInv'
    BY NextWatch
  <1> QED BY <1>1, <1>2, InitWatch, PTL DEF Spec

-----------------------------------------------------------------------------
(* Every step is a step of Registry.                                       *)

\* The state of Registry.
Table == [n \in Names |-> ObjOf(si_handle[n])]
Wanted == [p \in Procs |-> Want(request[p].op, request[p].name, ObjOf(buffer[p]))]
Granted == {p \in Procs : /\ p = cur
                          /\ request[p].op = "add"
                          /\ pc \in {"acquire", "link"} \/ res.kind = "ok"}
Heard(a) == [ok |-> a.kind \notin {"none", "error", "failed"}, obj |-> a.obj]
Told == [p \in Procs |-> Heard(answer[p])]

\* Between two calls the loop has no caller, and a process that is not in a
\* call has no request.
Idle ==
    /\ pc = "loop" => cur = NoProc
    /\ \A p \in Procs : request[p].op = "none" => request[p] = NoCall

\* The reply that is about to be sent says what the table says: the list
\* cannot change between the handler and binder_send_reply.
Replying ==
    pc = "reply" =>
        /\ request[cur].op = "add" => res.kind \in {"ok", "error"}
        /\ request[cur].op = "find" =>
              \/ res.kind = "ref" /\ res.handle = si_handle[request[cur].name]
              \/ res.kind = "ok" /\ (si_handle[request[cur].name] = 0 \/ Isolated(cur))
        /\ request[cur].op \notin {"add", "find"} => res.kind \in {"name", "cut", "error", "empty"}

SimInv == WatchInv /\ Idle /\ Replying

\* The steps of Registry on that state.
LEMMA AbsSteps ==
    /\ \A p : /\ p \in alive /\ Wanted[p] = Want("none", NoName, NoObj)
              /\ \E w \in [op : Ops \ {"none"}, name : Names \cup {NoName}, obj : Objs \cup {NoObj}] :
                    (w.obj \in Objs => Owner[w.obj] = p) /\ Wanted' = [Wanted EXCEPT ![p] = w]
              /\ Told' = [Told EXCEPT ![p] = [ok |-> FALSE, obj |-> NoObj]]
              /\ UNCHANGED <<alive, Table, Granted>>
              => Abs!Ask(p)
    /\ \A p : /\ p \in Mortal \cap alive /\ alive' = alive \ {p}
              /\ Told' = [Told EXCEPT ![p] = [ok |-> FALSE, obj |-> NoObj]]
              /\ UNCHANGED <<Table, Wanted, Granted>>
              => Abs!Die(p)
    /\ \A p : /\ Wanted[p].op = "add" /\ Wanted[p].obj \in Objs /\ p \notin Granted
              /\ Table' = [Table EXCEPT ![Wanted[p].name] = Wanted[p].obj]
              /\ Granted' = Granted \cup {p}
              /\ UNCHANGED <<alive, Wanted, Told>>
              => Abs!Register(p)
    /\ \A n : /\ Table[n] \in Objs /\ Owner[Table[n]] \notin alive
              /\ Table' = [Table EXCEPT ![n] = NoObj]
              /\ UNCHANGED <<alive, Wanted, Granted, Told>>
              => Abs!Expire(n)
    /\ UNCHANGED <<alive, Table, Wanted, Granted, Told>> => UNCHANGED Abs!vars
  <1>1. ASSUME NEW p,
               p \in alive /\ Wanted[p] = Want("none", NoName, NoObj),
               \E w \in [op : Ops \ {"none"}, name : Names \cup {NoName}, obj : Objs \cup {NoObj}] :
                    (w.obj \in Objs => Owner[w.obj] = p) /\ Wanted' = [Wanted EXCEPT ![p] = w],
               Told' = [Told EXCEPT ![p] = [ok |-> FALSE, obj |-> NoObj]],
               UNCHANGED <<alive, Table, Granted>>
        PROVE  Abs!Ask(p)
    BY <1>1 DEF Abs!Ask, Abs!Nothing, Table, Wanted, Granted, Told, Heard
  <1>2. ASSUME NEW p, p \in Mortal \cap alive, alive' = alive \ {p},
               Told' = [Told EXCEPT ![p] = [ok |-> FALSE, obj |-> NoObj]],
               UNCHANGED <<Table, Wanted, Granted>>
        PROVE  Abs!Die(p)
    BY <1>2 DEF Abs!Die, Abs!Nothing, Table, Wanted, Granted, Told, Heard
  <1>3. ASSUME NEW p, Wanted[p].op = "add", Wanted[p].obj \in Objs, p \notin Granted,
               Table' = [Table EXCEPT ![Wanted[p].name] = Wanted[p].obj],
               Granted' = Granted \cup {p},
               UNCHANGED <<alive, Wanted, Told>>
        PROVE  Abs!Register(p)
    BY <1>3 DEF Abs!Register, Table, Wanted, Granted, Told, Heard
  <1>4. ASSUME NEW n, Table[n] \in Objs, Owner[Table[n]] \notin alive,
               Table' = [Table EXCEPT ![n] = NoObj],
               UNCHANGED <<alive, Wanted, Granted, Told>>
        PROVE  Abs!Expire(n)
    BY <1>4 DEF Abs!Expire, Table, Wanted, Granted, Told, Heard
  <1>5. ASSUME UNCHANGED <<alive, Table, Wanted, Granted, Told>> PROVE UNCHANGED Abs!vars
    BY <1>5 DEF Abs!vars, Table, Wanted, Granted, Told, Heard
  <1> QED BY <1>1, <1>2, <1>3, <1>4, <1>5

\* The table stays while the references it uses do.
LEMMA SameTable ==
    ASSUME \A n \in Names : /\ si_handle'[n] = si_handle[n]
                            /\ si_handle[n] # 0 => ref_node'[si_handle[n]] = ref_node[si_handle[n]]
    PROVE  Table' = Table
  BY DEF Table, ObjOf

\* The same for the calls.
LEMMA SameWanted ==
    ASSUME \A p \in Procs : /\ request'[p] = request[p] /\ buffer'[p] = buffer[p]
                            /\ buffer[p] # 0 => ref_node'[buffer[p]] = ref_node[buffer[p]]
    PROVE  Wanted' = Wanted
  BY DEF Wanted, ObjOf

\* A process receives x.
LEMMA ToldUpdate ==
    ASSUME NEW p \in Procs, NEW x,
           \A q \in Procs : answer'[q] = IF q = p THEN x ELSE answer[q]
    PROVE  Told' = [Told EXCEPT ![p] = Heard(x)]
  BY DEF Told

\* A process that has no answer yet has heard nothing.
LEMMA HeardNothing == Heard(NoAnswer) = [ok |-> FALSE, obj |-> NoObj]
  <1>1. NoAnswer.kind = "none" /\ NoAnswer.obj = NoObj
    BY DEF NoAnswer
  <1>2. (NoAnswer.kind \notin {"none", "error", "failed"}) = FALSE
    BY <1>1
  <1> QED BY <1>1, <1>2 DEF Heard

\* Nothing is granted between two calls.
LEMMA NoneGranted == Idle /\ pc = "loop" => Granted = {}
  BY ConstantAssumption DEF Idle, Granted

\* A process calls.
LEMMA SendSim ==
    ASSUME SimInv, NEW p \in Procs, NEW req \in Request, Send(p, req), req.op # "none",
           \A h \in Handle : ref_node'[h] = ref_node[h] \/ ref_node[h] = NoObj,
           \A q \in Procs : q # p => buffer'[q] = buffer[q],
           buffer'[p] # 0 => /\ buffer'[p] \in Handle
                             /\ ref_node'[buffer'[p]] \in Objs
                             /\ Owner[ref_node'[buffer'[p]]] = p
    PROVE  Abs!Ask(p) /\ Idle' /\ Replying'
  <1> USE ConstantAssumption
  <1>0. CountInv /\ TypeInv /\ Idle /\ Replying
    BY DEF SimInv, WatchInv, CountInv
  <1>1. /\ p \in alive /\ request[p].op = "none"
        /\ UNCHANGED <<alive, pc, cur, res, si_handle>>
        /\ \A q \in Procs : /\ request'[q] = IF q = p THEN req ELSE request[q]
                            /\ answer'[q] = IF q = p THEN NoAnswer ELSE answer[q]
    BY <1>0 DEF Send, procs, manager, TypeInv, TypeOK
  <1>2. cur # p /\ (pc # "loop" => cur \in Procs)
    BY <1>0, <1>1 DEF TypeInv, CallsInProgress, Idle
  <1>3. /\ \A n \in Names : si_handle[n] # 0 => ref_node'[si_handle[n]] = ref_node[si_handle[n]]
        /\ \A q \in Procs : buffer[q] # 0 => ref_node'[buffer[q]] = ref_node[buffer[q]]
    BY <1>0, HeldRefAlways
  <1>4. buffer[p] = 0 /\ request[p] = NoCall
    BY <1>0, <1>1 DEF TypeInv, CallsInProgress, Idle
  <1>5. Table' = Table
    BY <1>1, <1>3, SameTable
  <1> DEFINE w == Want(req.op, req.name, ObjOf(buffer[p])')
  <1>6. Wanted[p] = Want("none", NoName, NoObj)
    BY <1>4 DEF Wanted, ObjOf, NoCall, Call
  <1>7. ObjOf(buffer[p])' \in Objs \cup {NoObj} /\ (ObjOf(buffer[p])' \in Objs => Owner[ObjOf(buffer[p])'] = p)
    BY DEF ObjOf
  <1>8. /\ w \in [op : Ops \ {"none"}, name : Names \cup {NoName}, obj : Objs \cup {NoObj}]
        /\ w.obj \in Objs => Owner[w.obj] = p
    BY <1>7 DEF Want, Request
  <1>9. Wanted' = [Wanted EXCEPT ![p] = w]
    <2>1. \A q \in Procs : q # p => Want(request[q].op, request[q].name, ObjOf(buffer[q]))'
                                    = Want(request[q].op, request[q].name, ObjOf(buffer[q]))
      BY <1>1, <1>3 DEF ObjOf
    <2>2. Want(request[p].op, request[p].name, ObjOf(buffer[p]))' = w
      BY <1>1
    <2> QED BY <2>1, <2>2 DEF Wanted
  <1>10. Told' = [Told EXCEPT ![p] = [ok |-> FALSE, obj |-> NoObj]]
    BY <1>1, ToldUpdate, HeardNothing
  <1>11. Granted' = Granted
    BY <1>1, <1>2 DEF Granted
  <1>12. Abs!Ask(p)
    <2> HIDE DEF w
    <2> QED BY <1>1, <1>5, <1>6, <1>8, <1>9, <1>10, <1>11, AbsSteps
  <1>13. Idle'
    BY <1>0, <1>1 DEF Idle
  <1>14. Replying'
    BY <1>0, <1>1, <1>2 DEF Replying
  <1> QED BY <1>12, <1>13, <1>14

\* The callers' steps: calls, exits, and the clean-up nobody sees.
LEMMA CallerSim ==
    ASSUME SimInv, NEW p \in Procs,
           SendAdd(p) \/ SendFind(p) \/ SendList(p) \/ SendOther(p) \/ Die(p) \/ Release(p)
    PROVE  (Abs!Ask(p) \/ Abs!Die(p) \/ UNCHANGED Abs!vars) /\ Idle' /\ Replying'
  <1> USE ConstantAssumption
  <1>0. CountInv /\ TypeInv /\ Idle /\ Replying /\ Refs
    BY DEF SimInv, WatchInv, CountInv
  <1>1. ASSUME NEW req \in Request, Send(p, req), req.op # "none", UNCHANGED <<driver, buffer>>
        PROVE  Abs!Ask(p) /\ Idle' /\ Replying'
    <2>1. ref_node' = ref_node /\ buffer' = buffer
      BY <1>1 DEF driver
    <2>2. buffer[p] = 0
      BY <1>0, <1>1 DEF Send, TypeInv, CallsInProgress
    <2> QED BY <1>1, <2>1, <2>2, SendSim
  <1>2. CASE SendFind(p)
    <2>1. PICK n \in Names : Send(p, Call("find", n, 0, 0))
      BY <1>2 DEF SendFind
    <2>2. Call("find", n, 0, 0) \in Request /\ Call("find", n, 0, 0).op # "none"
      BY DEF Call, Request, Ops
    <2> QED BY <1>1, <1>2, <2>1, <2>2 DEF SendFind
  <1>3. CASE SendList(p)
    <2>1. PICK i \in 0..MaxIndex : Send(p, Call("list", NoName, 0, i))
      BY <1>3 DEF SendList
    <2>2. Call("list", NoName, 0, i) \in Request /\ Call("list", NoName, 0, i).op # "none"
      BY DEF Call, Request, Ops
    <2> QED BY <1>1, <1>3, <2>1, <2>2 DEF SendList
  <1>4. CASE SendOther(p)
    <2>1. PICK op \in {"ping", "bad"} : Send(p, Call(op, NoName, 0, 0))
      BY <1>4 DEF SendOther
    <2>2. Call(op, NoName, 0, 0) \in Request /\ Call(op, NoName, 0, 0).op # "none"
      BY DEF Call, Request, Ops
    <2> QED BY <1>1, <1>4, <2>1, <2>2 DEF SendOther
  <1>5. CASE SendAdd(p)
    <2>1. PICK r \in Publish :
            /\ Send(p, Call("add", r.name, r.allow, 0))
            /\ \/ r.obj = NoObj /\ UNCHANGED <<driver, buffer>>
               \/ /\ r.obj \in Objs /\ Owner[r.obj] = p
                  /\ \E h \in Handle :
                        /\ IsDescFor(r.obj, h)
                        /\ ref_node' = [ref_node EXCEPT ![h] = r.obj]
                        /\ buffer' = [buffer EXCEPT ![p] = h]
      BY <1>5 DEF SendAdd
    <2>2. Call("add", r.name, r.allow, 0) \in Request /\ Call("add", r.name, r.allow, 0).op # "none"
      BY DEF Call, Request, Ops
    <2>3. CASE UNCHANGED <<driver, buffer>>
      BY <1>1, <2>1, <2>2, <2>3
    <2>4. CASE ~UNCHANGED <<driver, buffer>>
      <3>1. PICK h \in Handle : /\ r.obj \in Objs /\ Owner[r.obj] = p /\ IsDescFor(r.obj, h)
                                /\ ref_node' = [ref_node EXCEPT ![h] = r.obj]
                                /\ buffer' = [buffer EXCEPT ![p] = h]
        BY <2>1, <2>4
      <3>2. \A g \in Handle : ref_node'[g] = IF g = h THEN r.obj ELSE ref_node[g]
        BY <1>0, <3>1 DEF TypeInv, TypeOK
      <3>3. \A q \in Procs : buffer'[q] = IF q = p THEN h ELSE buffer[q]
        BY <1>0, <3>1 DEF TypeInv, TypeOK
      <3>4. ref_node[h] = r.obj \/ ref_node[h] = NoObj
        BY <3>1 DEF IsDescFor
      <3>5. \A g \in Handle : ref_node'[g] = ref_node[g] \/ ref_node[g] = NoObj
        BY <3>2, <3>4
      <3>6. buffer'[p] \in Handle /\ ref_node'[buffer'[p]] \in Objs /\ Owner[ref_node'[buffer'[p]]] = p
        BY <3>1, <3>2, <3>3
      <3> QED BY <2>1, <2>2, <3>3, <3>5, <3>6, SendSim
    <2> QED BY <2>3, <2>4
  <1>6. CASE Die(p)
    <2>1. /\ p \in Mortal \cap alive /\ alive' = alive \ {p}
          /\ UNCHANGED <<ref_node, buffer, request, pc, cur, res, si_handle>>
          /\ \A q \in Procs : answer'[q] = IF q = p THEN NoAnswer ELSE answer[q]
      BY <1>0, <1>6 DEF Die, driver, manager, TypeInv, TypeOK
    <2>2. Told' = [Told EXCEPT ![p] = [ok |-> FALSE, obj |-> NoObj]]
      BY <2>1, ToldUpdate, HeardNothing
    <2>3. Table' = Table /\ Wanted' = Wanted
      BY <2>1, SameTable, SameWanted
    <2>4. Granted' = Granted
      BY <2>1 DEF Granted
    <2>5. Idle' /\ Replying'
      BY <1>0, <2>1 DEF Idle, Replying
    <2> QED BY <2>1, <2>2, <2>3, <2>4, <2>5, AbsSteps
  <1>7. CASE Release(p)
    <2>1. UNCHANGED <<alive, ref_node, buffer, request, answer, pc, cur, res, si_handle>>
      BY <1>7 DEF Release, driver, manager
    <2>2. Table' = Table /\ Wanted' = Wanted
      BY <2>1, SameTable, SameWanted
    <2>3. Granted' = Granted /\ Told' = Told
      BY <2>1 DEF Granted, Told
    <2>4. Idle' /\ Replying'
      BY <1>0, <2>1 DEF Idle, Replying
    <2> QED BY <2>1, <2>2, <2>3, <2>4, AbsSteps
  <1> QED BY <1>2, <1>3, <1>4, <1>5, <1>6, <1>7

\* Dropping a count changes one reference at most.
LEMMA DropStep ==
    ASSUME TypeInv, NEW g \in Handle \cup {0}, binder_release(g)
    PROVE  \A h \in Handle : \/ ref_node'[h] = ref_node[h] /\ ref_death'[h] = ref_death[h]
                             \/ h = g /\ ref_node'[h] = NoObj /\ ref_death'[h] = NoName
  <1>1. CASE UNCHANGED <<ref_node, ref_death>>
    BY <1>1
  <1>2. CASE ~UNCHANGED <<ref_node, ref_death>>
    <2>1. /\ ref_node' = [ref_node EXCEPT ![g] = NoObj]
          /\ ref_death' = [ref_death EXCEPT ![g] = NoName]
      BY <1>2 DEF binder_release, DecRef, driver
    <2> QED BY <2>1 DEF TypeInv, TypeOK
  <1> QED BY <1>1, <1>2

\* The handlers that only build a reply: no step of Registry.
LEMMA ReadOnlySim ==
    ASSUME SimInv, NEW p \in Procs, NEW op, Recv(p, op), pc' = "reply",
           UNCHANGED <<procs, driver, buffer, request, answer, manager>>,
           op = "add" => res'.kind = "error",
           op = "find" =>
              \/ res'.kind = "ref" /\ res'.handle = si_handle[request[p].name]
              \/ res'.kind = "ok" /\ (si_handle[request[p].name] = 0 \/ Isolated(p)),
           op \notin {"add", "find"} => res'.kind \in {"name", "cut", "error", "empty"}
    PROVE  UNCHANGED Abs!vars /\ Idle' /\ Replying'
  <1>0. Idle
    BY DEF SimInv
  <1>1. /\ pc = "loop" /\ request[p].op = op /\ cur' = p
        /\ UNCHANGED <<alive, ref_node, buffer, request, answer, si_handle>>
    BY DEF Recv, procs, driver, manager
  <1>2. Table' = Table /\ Wanted' = Wanted
    BY <1>1, SameTable, SameWanted
  <1>3. Told' = Told
    BY <1>1 DEF Told
  <1>4. Granted = {}
    BY <1>0, <1>1, NoneGranted
  <1>5. Granted' = {}
    BY <1>1 DEF Granted
  <1>6. Idle'
    BY <1>0, <1>1 DEF Idle
  <1>7. Replying'
    BY <1>1 DEF Replying
  <1> QED BY <1>1, <1>2, <1>3, <1>4, <1>5, <1>6, <1>7, AbsSteps

\* The assignment of si->handle is where a registration takes effect.
LEMMA AddSim ==
    ASSUME SimInv, CountInv', NEW p \in Procs, Recv(p, "add"), NEW n \in Names, n = request[p].name,
           Acceptable(buffer[p], n), binder_release(si_handle[n]),
           si_handle' = [si_handle EXCEPT ![n] = buffer[p]],
           pc' = "acquire", UNCHANGED <<procs, buffer, request, answer>>
    PROVE  Abs!Register(p) /\ Idle' /\ Replying'
  <1>0. CountInv /\ TypeInv /\ RefsMatchHolders /\ Refs /\ Idle
    BY DEF SimInv, WatchInv, CountInv
  <1>1. /\ pc = "loop" /\ request[p].op = "add" /\ cur' = p
        /\ UNCHANGED <<alive, buffer, request, answer>>
    BY DEF Recv, procs
  <1>2. si_handle[n] \in Handle \cup {0} /\ buffer[p] \in Handle /\ buffer[p] # 0
    BY <1>0 DEF TypeInv, TypeOK, Acceptable
  <1>3. \A m \in Names : si_handle'[m] = IF m = n THEN buffer[p] ELSE si_handle[m]
    BY <1>0 DEF TypeInv, TypeOK
  <1>4. \A h \in Handle : \/ ref_node'[h] = ref_node[h] /\ ref_death'[h] = ref_death[h]
                          \/ h = si_handle[n] /\ ref_node'[h] = NoObj /\ ref_death'[h] = NoName
    BY <1>0, <1>2, DropStep
  <1>5. /\ \A m \in Names : si_handle'[m] # 0 => ref_node'[si_handle'[m]] = ref_node[si_handle'[m]]
        /\ \A q \in Procs : buffer'[q] # 0 => ref_node'[buffer'[q]] = ref_node[buffer'[q]]
    BY <1>0, <1>4, HeldKept
  <1>6. Wanted' = Wanted
    BY <1>1, <1>5, SameWanted
  <1>7. Wanted[p].op = "add" /\ Wanted[p].name = n /\ Wanted[p].obj = ref_node[buffer[p]]
    BY <1>1, <1>2 DEF Wanted, Want, ObjOf
  <1>8. ref_node[buffer[p]] \in Objs
    BY <1>0, <1>2, HeldRef
  <1>9. Table' = [Table EXCEPT ![n] = ref_node[buffer[p]]]
    <2>1. \A m \in Names : ObjOf(si_handle[m])' = IF m = n THEN ref_node[buffer[p]] ELSE ObjOf(si_handle[m])
      BY <1>2, <1>3, <1>5 DEF ObjOf
    <2> QED BY <2>1 DEF Table
  <1>10. Granted = {}
    BY <1>0, <1>1, NoneGranted
  <1>11. Granted' = {p}
    BY <1>1 DEF Granted
  <1>12. Told' = Told
    BY <1>1 DEF Told
  <1>13. Idle' /\ Replying'
    BY <1>0, <1>1 DEF Idle, Replying
  <1>14. /\ p \notin Granted /\ Granted' = Granted \cup {p}
         /\ Table' = [Table EXCEPT ![Wanted[p].name] = Wanted[p].obj]
         /\ Wanted[p].obj \in Objs
    BY <1>7, <1>8, <1>9, <1>10, <1>11
  <1> QED BY <1>1, <1>6, <1>7, <1>12, <1>13, <1>14, AbsSteps

\* svcmgr_handler.
LEMMA HandlerSim ==
    ASSUME SimInv, CountInv', NEW p \in Procs, Handler(p)
    PROVE  (Abs!Register(p) \/ UNCHANGED Abs!vars) /\ Idle' /\ Replying'
  <1>0. CountInv /\ TypeInv /\ Unlisted
    BY DEF SimInv, WatchInv, CountInv
  <1>1. CASE Find(p)
    <2> DEFINE n == request[p].name
               h == do_find_service(p, n)
    <2>1. /\ Recv(p, "find") /\ pc' = "reply"
          /\ res' = IF h = 0 THEN Plain("ok") ELSE Reply("ref", h, NoName)
          /\ UNCHANGED <<procs, driver, buffer, request, answer, manager>>
      BY <1>1 DEF Find, Answered
    <2>2. n \in Names
      BY <1>0, <2>1 DEF Recv, TypeInv, CallsInProgress
    <2>3. h = si_handle[n] \/ (h = 0 /\ Isolated(p))
      BY <1>0, <2>2 DEF do_find_service, Unlisted
    <2>4. CASE h = 0
      <3>1. res'.kind = "ok" /\ (si_handle[n] = 0 \/ Isolated(p))
        BY <2>1, <2>3, <2>4 DEF Plain, Reply
      <3> QED BY <2>1, <3>1, ReadOnlySim
    <2>5. CASE h # 0
      <3>1. res'.kind = "ref" /\ res'.handle = si_handle[n]
        BY <2>1, <2>3, <2>5 DEF Reply
      <3> QED BY <2>1, <3>1, ReadOnlySim
    <2> QED BY <2>4, <2>5
  <1>2. CASE List(p) \/ Ping(p) \/ Bad(p)
    <2>1. /\ Recv(p, "list") \/ Recv(p, "ping") \/ Recv(p, "bad")
          /\ pc' = "reply" /\ res'.kind \in {"name", "cut", "error", "empty"}
          /\ UNCHANGED <<procs, driver, buffer, request, answer, manager>>
      BY <1>2 DEF List, Listed, Ping, Bad, Answered, Plain, Reply
    <2> QED BY <2>1, ReadOnlySim
  <1>3. CASE AddReject(p) \/ AddNoMemory(p)
    <2>1. /\ Recv(p, "add") /\ pc' = "reply" /\ res'.kind = "error"
          /\ UNCHANGED <<procs, driver, buffer, request, answer, manager>>
      BY <1>3 DEF AddReject, AddNoMemory, Answered, Plain, Reply
    <2> QED BY <2>1, ReadOnlySim
  <1>4. CASE AddExisting(p) \/ AddNew(p)
    <2> DEFINE n == request[p].name
    <2>1. n \in Names
      BY <1>0, <1>4 DEF AddExisting, AddNew, Recv, CountInv, TypeInv, CallsInProgress
    <2>2. /\ Recv(p, "add") /\ Acceptable(buffer[p], n) /\ pc' = "acquire"
          /\ si_handle' = [si_handle EXCEPT ![n] = buffer[p]]
          /\ UNCHANGED <<procs, buffer, request, answer>>
      BY <1>4 DEF AddExisting, AddNew
    <2>3. binder_release(si_handle[n])
      <3>1. CASE AddExisting(p)
        BY <3>1 DEF AddExisting
      <3>2. CASE AddNew(p)
        BY <1>0, <2>1, <3>2 DEF AddNew, Unlisted, binder_release
      <3> QED BY <1>4, <3>1, <3>2
    <2> QED BY <2>1, <2>2, <2>3, AddSim
  <1> QED BY <1>1, <1>2, <1>3, <1>4 DEF Handler

\* Registry's answer to a call.
LEMMA AbsReturn ==
    ASSUME NEW p, Wanted[p] # Want("none", NoName, NoObj),
           Wanted' = [Wanted EXCEPT ![p] = Want("none", NoName, NoObj)],
           Granted' = Granted \ {p}, UNCHANGED <<alive, Table>>,
           \/ p \in alive /\ \E a \in Abs!MayAnswer(p) : Told' = [Told EXCEPT ![p] = a]
           \/ p \notin alive /\ UNCHANGED Told
    PROVE  Abs!Return(p)
  BY DEF Abs!Return, Table, Wanted, Granted, Told, Heard

\* What it may be.
LEMMA AbsMayAnswer ==
    ASSUME NEW p, NEW ok \in BOOLEAN, NEW o,
           \/ Wanted[p].op = "add" /\ ok = (p \in Granted) /\ o = NoObj
           \/ Wanted[p].op = "find" /\ ok = TRUE /\ o = Table[Wanted[p].name]
           \/ Wanted[p].op = "find" /\ ok = TRUE /\ o = NoObj /\ p \in Procs /\ Isolated(p)
           \/ Wanted[p].op \notin {"add", "find"} /\ o = NoObj
    PROVE  [ok |-> ok, obj |-> o] \in Abs!MayAnswer(p)
  <1>0. Abs!MayAnswer(p) =
            IF Wanted[p].op = "add" THEN {[ok |-> p \in Granted, obj |-> NoObj]}
            ELSE IF Wanted[p].op = "find"
                 THEN {[ok |-> TRUE, obj |-> Table[Wanted[p].name]]}
                      \cup {[ok |-> TRUE, obj |-> NoObj] : q \in {p} \cap {q \in Procs : Isolated(q)}}
                 ELSE [ok : BOOLEAN, obj : {NoObj}]
    BY DEF Abs!MayAnswer, Wanted, Table, Granted
  <1>1. CASE Wanted[p].op = "add" /\ ok = (p \in Granted) /\ o = NoObj
    BY <1>0, <1>1
  <1>2. CASE Wanted[p].op = "find" /\ ok = TRUE /\ o = Table[Wanted[p].name]
    BY <1>0, <1>2
  <1>3. CASE Wanted[p].op = "find" /\ ok = TRUE /\ o = NoObj /\ p \in Procs /\ Isolated(p)
    <2>1. p \in {p} \cap {q \in Procs : Isolated(q)}
      BY <1>3
    <2> QED BY <1>0, <1>3, <2>1
  <1>4. CASE Wanted[p].op \notin {"add", "find"} /\ o = NoObj
    BY <1>0, <1>4
  <1> QED BY <1>1, <1>2, <1>3, <1>4

\* binder_send_reply answers the call with what Registry would answer.
LEMMA ReplySim ==
    ASSUME SimInv, CountInv', SendReply
    PROVE  (\E p \in Procs : Abs!Return(p)) /\ Idle' /\ Replying'
  <1> USE ConstantAssumption
  <1> DEFINE g == buffer[cur]
  <1>0. CountInv /\ TypeInv /\ RefsMatchHolders /\ Refs /\ Idle /\ Replying
    BY DEF SimInv, WatchInv, CountInv
  <1>1. /\ pc = "reply" /\ pc' = "loop" /\ cur' = NoProc /\ binder_release(g)
        /\ UNCHANGED <<alive, si_handle>>
    BY DEF SendReply, procs, manager
  <1>p. PICK p \in Procs : p = cur
    BY <1>0, <1>1 DEF TypeInv, CallsInProgress
  <1>2. p \in Procs /\ p = cur /\ g \in Handle \cup {0} /\ request[p].op # "none"
    BY <1>0, <1>1, <1>p DEF TypeInv, TypeOK, CallsInProgress
  <1>3. \A q \in Procs : /\ buffer'[q] = IF q = p THEN 0 ELSE buffer[q]
                         /\ request'[q] = IF q = p THEN NoCall ELSE request[q]
    BY <1>0, <1>2 DEF SendReply, TypeInv, TypeOK
  <1>4. \A h \in Handle : \/ ref_node'[h] = ref_node[h] /\ ref_death'[h] = ref_death[h]
                          \/ h = g /\ ref_node'[h] = NoObj /\ ref_death'[h] = NoName
    BY <1>0, <1>1, <1>2, DropStep
  <1>5. /\ \A m \in Names : si_handle'[m] # 0 => ref_node'[si_handle'[m]] = ref_node[si_handle'[m]]
        /\ \A q \in Procs : buffer'[q] # 0 => ref_node'[buffer'[q]] = ref_node[buffer'[q]]
    <2>1. Refs
      BY <1>0
    <2> QED BY ONLY <2>1, CountInv', <1>4, HeldKept
  <1>6. Table' = Table
    BY <1>1, <1>5, SameTable
  <1>7. Wanted' = [Wanted EXCEPT ![p] = Want("none", NoName, NoObj)]
    <2>1. \A q \in Procs : q # p => Want(request[q].op, request[q].name, ObjOf(buffer[q]))'
                                    = Want(request[q].op, request[q].name, ObjOf(buffer[q]))
      BY <1>3, <1>5 DEF ObjOf
    <2>2. \A q \in Procs : q = p => Want(request[q].op, request[q].name, ObjOf(buffer[q]))'
                                    = Want("none", NoName, NoObj)
      BY <1>3 DEF ObjOf, NoCall, Call
    <2> QED BY <1>2, <2>1, <2>2 DEF Wanted
  <1>8. /\ Wanted[p].op = request[p].op /\ Wanted[p].name = request[p].name
        /\ Wanted[p] # Want("none", NoName, NoObj)
    BY <1>2 DEF Wanted, Want
  <1>9. Granted' = Granted \ {p}
    <2>1. Granted' = {} /\ Granted \subseteq {p}
      BY <1>1, <1>2 DEF Granted
    <2> QED BY <2>1
  <1>10. ASSUME p \notin alive PROVE Abs!Return(p)
    <2>1. answer' = answer
      BY <1>2, <1>10 DEF SendReply
    <2>2. Told' = Told
      BY <2>1 DEF Told
    <2> QED BY <1>1, <1>6, <1>7, <1>8, <1>9, <1>10, <2>2, AbsReturn
  <1>11. ASSUME p \in alive PROVE Abs!Return(p)
    <2> DEFINE d == Delivered(res)
    <2>1. \A q \in Procs : answer'[q] = IF q = p THEN d ELSE answer[q]
      BY <1>0, <1>2, <1>11 DEF SendReply, TypeInv, TypeOK
    <2>2. Told' = [Told EXCEPT ![p] = Heard(d)]
      BY <1>2, <2>1, ToldUpdate
    <2>3. Heard(d) \in Abs!MayAnswer(p)
      <3>1. ASSUME res.kind # "ref" PROVE d.kind = res.kind /\ d.obj = NoObj
        BY <3>1 DEF Delivered
      <3>2. CASE request[p].op = "add"
        <4>1. res.kind \in {"ok", "error"}
          BY <1>0, <1>1, <1>2, <3>2 DEF Replying
        <4>2. p \in Granted <=> res.kind = "ok"
          BY <1>1, <1>2, <3>2, <4>1 DEF Granted
        <4> DEFINE ok == p \in Granted
        <4>3. (d.kind \notin {"none", "error", "failed"}) = ok
          BY <3>1, <4>1, <4>2
        <4>4. Heard(d) = [ok |-> ok, obj |-> NoObj]
          BY <3>1, <4>1, <4>3 DEF Heard
        <4>5. ok \in BOOLEAN /\ ok = (p \in Granted)
          OBVIOUS
        <4> HIDE DEF ok
        <4>6. [ok |-> ok, obj |-> NoObj] \in Abs!MayAnswer(p)
          BY <1>8, <3>2, <4>5, AbsMayAnswer
        <4> QED BY <4>4, <4>6
      <3>3. CASE request[p].op = "find"
        <4> DEFINE n == request[p].name
        <4>0. n \in Names /\ Table[n] = ObjOf(si_handle[n])
          BY <1>0, <1>2, <3>3 DEF TypeInv, CallsInProgress, Table
        <4>1. CASE res.kind = "ref" /\ res.handle = si_handle[n]
          <5>1. si_handle[n] # 0
            BY <1>0, <4>1 DEF TypeInv, CallsInProgress
          <5>2. ref_node[si_handle[n]] # NoObj
            BY <1>0, <4>0, <5>1, HeldRefAlways
          <5>3. d.kind = "ref" /\ d.obj = Table[n]
            BY <4>0, <4>1, <5>1, <5>2 DEF Delivered, ObjOf
          <5>4. (d.kind \notin {"none", "error", "failed"}) = TRUE
            BY <5>3
          <5>5. Heard(d) = [ok |-> TRUE, obj |-> Table[n]]
            BY <5>3, <5>4 DEF Heard
          <5>6. [ok |-> TRUE, obj |-> Table[n]] \in Abs!MayAnswer(p)
            BY <1>8, <3>3, AbsMayAnswer
          <5> QED BY <5>5, <5>6
        <4>2. CASE res.kind = "ok" /\ (si_handle[n] = 0 \/ Isolated(p))
          <5>1. d.kind = "ok" /\ d.obj = NoObj
            BY <3>1, <4>2
          <5>2. (d.kind \notin {"none", "error", "failed"}) = TRUE
            BY <5>1
          <5>3. Heard(d) = [ok |-> TRUE, obj |-> NoObj]
            BY <5>1, <5>2 DEF Heard
          <5>4. Table[n] = NoObj \/ Isolated(p)
            BY <4>0, <4>2 DEF ObjOf
          <5>5. [ok |-> TRUE, obj |-> NoObj] \in Abs!MayAnswer(p)
            BY <1>2, <1>8, <3>3, <5>4, AbsMayAnswer
          <5> QED BY <5>3, <5>5
        <4> QED BY <1>0, <1>1, <1>2, <3>3, <4>1, <4>2 DEF Replying
      <3>4. CASE request[p].op \notin {"add", "find"}
        <4>1. res.kind # "ref"
          BY <1>0, <1>1, <1>2, <3>4 DEF Replying
        <4> DEFINE ok == d.kind \notin {"none", "error", "failed"}
        <4>2. ok \in BOOLEAN
          OBVIOUS
        <4>3. Heard(d) = [ok |-> ok, obj |-> NoObj]
          BY <3>1, <4>1 DEF Heard
        <4> HIDE DEF ok
        <4>4. [ok |-> ok, obj |-> NoObj] \in Abs!MayAnswer(p)
          BY <1>8, <3>4, <4>2, AbsMayAnswer
        <4> QED BY <4>3, <4>4
      <3> QED BY <3>2, <3>3, <3>4
    <2> HIDE DEF d
    <2> QED BY <1>1, <1>6, <1>7, <1>8, <1>9, <1>11, <2>2, <2>3, AbsReturn
  <1>12. Idle' /\ Replying'
    BY <1>0, <1>1, <1>2, <1>3 DEF Idle, Replying
  <1> QED BY <1>2, <1>10, <1>11, <1>12

\* A death notice is handled: the service it takes out of the table is one
\* whose process is gone.
LEMMA DeadSim ==
    ASSUME OneName, SimInv, CountInv', DeadBinder
    PROVE  (\E n \in Names : Abs!Expire(n)) /\ Idle' /\ Replying'
  <1>0. WatchInv /\ CountInv /\ TypeInv /\ RefsMatchHolders /\ Refs /\ QueueOK(todo) /\ Idle /\ Replying
    BY DEF SimInv, WatchInv, CountInv
  <1>1. PICK h \in Handle, n \in Names :
            /\ Head(todo) = Dead(h, n)
            /\ binder_release(si_handle[n])
            /\ si_handle' = [si_handle EXCEPT ![n] = 0]
    BY DEF DeadBinder
  <1>2. /\ pc = "loop" /\ todo # <<>> /\ pc' = pc
        /\ UNCHANGED <<alive, released, buffer, request, answer, cur, res>>
    BY DEF DeadBinder, procs
  <1>3. si_handle[n] = h /\ ref_death[h] = n
    BY <1>0, <1>1, <1>2, LastHolder
  <1>4. h # 0 /\ ref_node[h] \in Objs
    BY <1>0, <1>3, HandleFacts, HeldRef
  <1>5. Owner[ref_node[h]] \in released
    <2>1. todo \in Seq(Work)
      BY <1>0 DEF TypeInv, TypeOK
    <2>2. Len(todo) \in Nat /\ Len(todo) # 0
      BY <1>2, <2>1, LenProperties, EmptySeq
    <2>3. 1 \in 1..Len(todo) /\ todo[1] = Dead(h, n)
      BY <1>1, <1>2, <2>1, <2>2, HeadTailProperties
    <2>4. todo[1].type = "dead" /\ todo[1].handle = h
      BY <2>3, WorkFacts
    <2>5. NodeOwner(todo[1].handle) \in released
      BY <1>0, <2>3, <2>4 DEF QueueOK
    <2> QED BY <2>4, <2>5 DEF NodeOwner
  <1>6. \A m \in Names : si_handle'[m] = IF m = n THEN 0 ELSE si_handle[m]
    BY <1>0, <1>1 DEF TypeInv, TypeOK
  <1>7. \A k \in Handle : \/ ref_node'[k] = ref_node[k] /\ ref_death'[k] = ref_death[k]
                          \/ k = h /\ ref_node'[k] = NoObj /\ ref_death'[k] = NoName
    BY <1>0, <1>1, <1>3, DropStep
  <1>8. /\ \A m \in Names : si_handle'[m] # 0 => ref_node'[si_handle'[m]] = ref_node[si_handle'[m]]
        /\ \A q \in Procs : buffer'[q] # 0 => ref_node'[buffer'[q]] = ref_node[buffer'[q]]
    BY <1>0, <1>7, HeldKept
  <1>9. Table[n] = ref_node[h]
    BY <1>3, <1>4 DEF Table, ObjOf
  <1>10. Table' = [Table EXCEPT ![n] = NoObj]
    <2>1. \A m \in Names : ObjOf(si_handle[m])' = IF m = n THEN NoObj ELSE ObjOf(si_handle[m])
      BY <1>6, <1>8 DEF ObjOf
    <2> QED BY <2>1 DEF Table
  <1>11. Owner[Table[n]] \notin alive
    BY <1>0, <1>5, <1>9 DEF Refs
  <1>12. Wanted' = Wanted
    BY <1>2, <1>8, SameWanted
  <1>13. Granted' = Granted /\ Told' = Told
    BY <1>2 DEF Granted, Told
  <1>14. Abs!Expire(n)
    BY <1>2, <1>4, <1>9, <1>10, <1>11, <1>12, <1>13, AbsSteps
  <1>15. Idle' /\ Replying'
    BY <1>0, <1>2 DEF Idle, Replying
  <1> QED BY <1>14, <1>15

\* binder_acquire and binder_link_to_death are not seen.
LEMMA CommandSim ==
    ASSUME SimInv, Acquire \/ Link
    PROVE  UNCHANGED Abs!vars /\ Idle' /\ Replying'
  <1>0. TypeInv /\ Idle
    BY DEF SimInv, WatchInv, CountInv
  <1>1. /\ UNCHANGED <<alive, ref_node, buffer, request, answer, cur, si_handle>>
        /\ \/ pc = "acquire" /\ pc' = "link" /\ res' = res
           \/ pc = "link" /\ pc' = "reply" /\ res'.kind = "ok"
    BY DEF Acquire, Link, Answered, Plain, Reply, procs, manager
  <1>2. request[cur].op = "add"
    BY <1>0, <1>1 DEF TypeInv, CallsInProgress
  <1>3. Table' = Table /\ Wanted' = Wanted
    BY <1>1, SameTable, SameWanted
  <1>4. Told' = Told
    BY <1>1 DEF Told
  <1>5. Granted' = Granted
    BY <1>1 DEF Granted
  <1>6. Idle'
    BY <1>0, <1>1 DEF Idle
  <1>7. Replying'
    BY <1>1, <1>2 DEF Replying
  <1> QED BY <1>1, <1>3, <1>4, <1>5, <1>6, <1>7, AbsSteps

\* The service manager implements the table from names to objects, as far as
\* its steps go: what do_add_service, do_find_service, svcinfo_death and
\* binder_send_reply do, command by command and with exits in between, is a
\* registration, an answer or an expiry of Registry, or nothing.  The
\* condition is the one of ServicesWatched.
THEOREM StepsOfRegistry ==
    ASSUME OneName
    PROVE  Spec => Abs!Init /\ [][Abs!Next]_Abs!vars
  <1>1. Init => SimInv /\ Abs!Init
    <2> SUFFICES ASSUME Init PROVE SimInv /\ Abs!Init
      OBVIOUS
    <2>1. WatchInv
      BY InitWatch
    <2>2. Idle /\ Replying
      BY DEF Init, Idle, Replying
    <2>3. Told = [p \in Procs |-> [ok |-> FALSE, obj |-> NoObj]]
      BY HeardNothing DEF Init, Told
    <2>4. Table = [n \in Names |-> NoObj]
      BY DEF Init, Table, ObjOf
    <2>5. Wanted = [p \in Procs |-> Want("none", NoName, NoObj)]
      BY DEF Init, Wanted, ObjOf, NoCall, Call
    <2>6. Granted = {} /\ alive = Procs
      BY ConstantAssumption DEF Init, Granted
    <2>7. Abs!Init
      BY <2>3, <2>4, <2>5, <2>6 DEF Abs!Init, Abs!Nothing, Told, Heard, Table, Wanted, Granted
    <2> QED BY <2>1, <2>2, <2>7 DEF SimInv
  <1>2. SimInv /\ [Next]_vars => SimInv' /\ [Abs!Next]_Abs!vars
    <2> SUFFICES ASSUME SimInv, [Next]_vars PROVE SimInv' /\ [Abs!Next]_Abs!vars
      OBVIOUS
    <2>1. WatchInv' /\ CountInv'
      BY NextWatch DEF SimInv, WatchInv
    <2>2. CASE UNCHANGED vars
      <3>1. UNCHANGED <<alive, ref_node, buffer, request, answer, pc, cur, res, si_handle>>
        BY <2>2 DEF vars
      <3>2. Idle' /\ Replying'
        BY <3>1 DEF SimInv, Idle, Replying
      <3>3. UNCHANGED <<Table, Wanted>>
        BY <3>1, SameTable, SameWanted
      <3>4. UNCHANGED <<alive, Granted, Told>>
        BY <3>1 DEF Granted, Told
      <3> QED BY <2>1, <3>2, <3>3, <3>4, AbsSteps DEF SimInv
    <2>3. ASSUME NEW p \in Procs,
                 SendAdd(p) \/ SendFind(p) \/ SendList(p) \/ SendOther(p) \/ Die(p) \/ Release(p)
          PROVE  Idle' /\ Replying' /\ (Abs!Next \/ UNCHANGED Abs!vars)
      BY <2>3, CallerSim DEF Abs!Next
    <2>4. ASSUME NEW p \in Procs, Handler(p)
          PROVE  Idle' /\ Replying' /\ (Abs!Next \/ UNCHANGED Abs!vars)
      BY <2>1, <2>4, HandlerSim DEF Abs!Next
    <2>5. CASE Acquire \/ Link
      BY <2>1, <2>5, CommandSim DEF SimInv
    <2>6. CASE DeadBinder
      BY <2>1, <2>6, DeadSim DEF SimInv, Abs!Next
    <2>7. CASE SendReply
      BY <2>1, <2>7, ReplySim DEF SimInv, Abs!Next
    <2> QED BY <2>1, <2>2, <2>3, <2>4, <2>5, <2>6, <2>7 DEF SimInv, Next, Manager
  <1> QED BY <1>1, <1>2, PTL DEF Spec

=================================================================================
