\* Two servers that may exit publish one object each under the same name, try
\* names the manager refuses, and a client makes every other call; refinement
\* of Registry with its liveness.
SPECIFICATION Spec
CONSTANTS
    s1 = s1  s2 = s2  cl = cl  a = a  b = b  c = c
    n1 = n1  n2 = n2  empty = empty  long = long
    NoObj = NoObj  NoName = NoName  NoProc = NoProc
    Procs = {s1, s2, cl}
    Mortal = {s1, s2}
    Objs = {a, b}
    Names = {n1, empty, long}
    MaxIndex = 1
    Owner <- MCOwner
    NameLen <- MCNameLen
    Uid <- MCUid
    Uses <- Roles
    Publish <- Compete
INVARIANTS TypeOK EveryServiceWatched
PROPERTY ImplementsRegistry
