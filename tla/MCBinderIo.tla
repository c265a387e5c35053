------------------------------ MODULE MCBinderIo ------------------------------
(***************************************************************************)
(* An instance of BinderIo for TLC.  The values are chosen around the       *)
(* 256-byte reply buffer with its 4 offsets: names of 117 characters are    *)
(* the longest it holds, 118 is one more, 26 is the length of the manager's *)
(* interface name.                                                          *)
(***************************************************************************)
EXTENDS BinderIo

Item(k, v) == [kind |-> k, val |-> v]

Values == {Item("u32", 7), Item("str", 26), Item("str", 117), Item("str", 118),
           Item("str", Sentinel), Item("obj", 3), Item("ref", 2), Item("ref", 0)}
===============================================================================
