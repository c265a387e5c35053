----------------------------- MODULE MCBinderPool -----------------------------
(***************************************************************************)
(* Instances of BinderPool for TLC.                                        *)
(***************************************************************************)
EXTENDS BinderPool

CONSTANTS c1, c2

\* One client calls twice, the other once; or each calls once.
TwiceAndOnce == [c \in Callers |-> IF c = c1 THEN 2 ELSE 1]
OnceEach == [c \in Callers |-> 1]
===============================================================================
