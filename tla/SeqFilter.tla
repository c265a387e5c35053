------------------------------- MODULE SeqFilter -------------------------------
(***************************************************************************)
(* The part of a sequence that is left when some elements are taken out.   *)
(* Two of the small programs use it: for the kernel's ready list, from     *)
(* which epoll_wait drops what has no data, and for the events of a        *)
(* directory, of which those without a name are not printed.  It is a      *)
(* recursive function, and not SelectSeq, so that it can be proved about.  *)
(***************************************************************************)
EXTENDS Integers, Sequences

\* The elements of s that are not in S, in their order.
Without(s, S) ==
    LET kept[k \in 0..Len(s)] ==
            IF k = 0 THEN <<>>
            ELSE IF s[k] \in S THEN kept[k - 1] ELSE Append(kept[k - 1], s[k])
    IN  kept[Len(s)]
===============================================================================
