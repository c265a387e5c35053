---------------------------- MODULE MCHelloClients ----------------------------
(***************************************************************************)
(* The hello clients for TLC: one of any language with any arguments, and  *)
(* beside it TestClient calling sayhello, which counts as a sayhello_to in *)
(* the other languages.                                                    *)
(***************************************************************************)
EXTENDS HelloClients

CONSTANTS c1, c2

AnyAndJava ==
    [c \in Clients |->
        IF c = c1 THEN Invocations
        ELSE {<<"java", [svc |-> "hello", fn |-> "say", name |-> ""]>>}]
===============================================================================
