--------------------------- MODULE MCServiceManager ---------------------------
(***************************************************************************)
(* Instances of ServiceManager for TLC.                                    *)
(***************************************************************************)
EXTENDS ServiceManager

CONSTANTS s1, s2, cl, a, b, c, n1, n2, empty, long

OwnerOf == (a :> s1) @@ (b :> s2) @@ (c :> s1)
UidOf == (s1 :> 1000) @@ (s2 :> 1000) @@ (cl :> 199001)
LenOf == (n1 :> 5) @@ (n2 :> 127) @@ (empty :> 0) @@ (long :> 128)

\* The constants of an instance that uses only some objects, names, processes.
MCOwner == [o \in Objs |-> OwnerOf[o]]
MCNameLen == [n \in Names |-> LenOf[n]]
MCUid == [p \in Procs |-> UidOf[p]]

\* Servers publish, the client makes every other call; or it only looks up.
Roles == [p \in Procs |-> IF p = cl THEN Ops \ {"none", "add"} ELSE {"add"}]
Lookups == [p \in Procs |-> IF p = cl THEN {"find", "list"} ELSE {"add"}]

Add(o, n, f) == [obj |-> o, name |-> n, allow |-> f]

\* Two servers compete for one name; each also tries names that are refused.
Compete == {Add(a, n1, 1), Add(b, n1, 1), Add(a, long, 0), Add(b, empty, 0),
            Add(NoObj, n1, 0)}

\* One object under two names, one name with two objects, two objects in one
\* process.
Aliases == {Add(a, n1, 0), Add(a, n2, 0), Add(b, n1, 1), Add(c, n2, 0)}

\* Two servers, one name, the second without isolated access.
Flags == {Add(a, n1, 1), Add(b, n1, 0)}

===============================================================================
