------------------------------- MODULE Registry -------------------------------
(***************************************************************************)
(* What the service manager promises its callers, without handles, lists,  *)
(* reference counts or queues: a table from names to objects.  A call takes *)
(* effect in one step between its start and its answer.  A name is given to *)
(* an object by a call that asks for it, and taken away again only because  *)
(* the object's process has exited.                                        *)
(***************************************************************************)
EXTENDS Naturals

CONSTANTS
    Procs, Mortal, Objs, Owner, Names, NoObj,
    Wants,      \* the calls: [op, name, obj], op being "add" for a
                \* registration, "find" for a lookup
    NoWant,     \* not in a call
    Restricted  \* processes a lookup may refuse a registered object

VARIABLES
    alive,      \* processes that have not exited
    table,      \* the object registered under each name
    want,       \* the call each process is blocked in
    granted,    \* callers whose registration has taken effect
    answer      \* the last answer of each process: [ok, obj]

vars == <<alive, table, want, granted, answer>>

Nothing == [ok |-> FALSE, obj |-> NoObj]

Init ==
    /\ alive = Procs
    /\ table = [n \in Names |-> NoObj]
    /\ want = [p \in Procs |-> NoWant]
    /\ granted = {}
    /\ answer = [p \in Procs |-> Nothing]

Ask(p) ==
    /\ p \in alive
    /\ want[p] = NoWant
    /\ \E w \in Wants : /\ w.obj \in Objs => Owner[w.obj] = p
                        /\ want' = [want EXCEPT ![p] = w]
    /\ answer' = [answer EXCEPT ![p] = Nothing]
    /\ UNCHANGED <<alive, table, granted>>

\* The caller may be gone by the time its request takes effect.
Register(p) ==
    /\ want[p].op = "add"
    /\ want[p].obj \in Objs
    /\ p \notin granted
    /\ table' = [table EXCEPT ![want[p].name] = want[p].obj]
    /\ granted' = granted \cup {p}
    /\ UNCHANGED <<alive, want, answer>>

\* A registration is reported as done when it is; a lookup returns what is
\* registered when it is answered; other calls return no object.
MayAnswer(p) ==
    IF want[p].op = "add" THEN {[ok |-> p \in granted, obj |-> NoObj]}
    ELSE IF want[p].op = "find"
         THEN {[ok |-> TRUE, obj |-> table[want[p].name]]}
              \cup {[ok |-> TRUE, obj |-> NoObj] : q \in {p} \cap Restricted}
         ELSE [ok : BOOLEAN, obj : {NoObj}]

Return(p) ==
    /\ want[p] # NoWant
    /\ want' = [want EXCEPT ![p] = NoWant]
    /\ granted' = granted \ {p}
    /\ \/ p \in alive /\ \E a \in MayAnswer(p) : answer' = [answer EXCEPT ![p] = a]
       \/ p \notin alive /\ UNCHANGED answer
    /\ UNCHANGED <<alive, table>>

Die(p) ==
    /\ p \in Mortal \cap alive
    /\ alive' = alive \ {p}
    /\ answer' = [answer EXCEPT ![p] = Nothing]
    /\ UNCHANGED <<table, want, granted>>

Expire(n) ==
    /\ table[n] \in Objs
    /\ Owner[table[n]] \notin alive
    /\ table' = [table EXCEPT ![n] = NoObj]
    /\ UNCHANGED <<alive, want, granted, answer>>

Next ==
    \/ \E p \in Procs : Ask(p) \/ Register(p) \/ Return(p) \/ Die(p)
    \/ \E n \in Names : Expire(n)

\* Every call is answered, and a registered object whose process is gone does
\* not stay registered.
Spec ==
    /\ Init
    /\ [][Next]_vars
    /\ \A p \in Procs : WF_vars(Return(p))
    /\ \A n \in Names : WF_vars(Expire(n))
===============================================================================
