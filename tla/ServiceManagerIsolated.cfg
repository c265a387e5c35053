\* A service that allows isolated callers is replaced by one that does not.
SPECIFICATION Spec
CONSTANTS
    s1 = s1  s2 = s2  cl = cl  a = a  b = b  c = c
    n1 = n1  n2 = n2  empty = empty  long = long
    NoObj = NoObj  NoName = NoName  NoProc = NoProc
    Procs = {s1, s2, cl}
    Mortal = {s1, s2}
    Objs = {a, b}
    Names = {n1}
    MaxIndex = 1
    Owner <- MCOwner
    NameLen <- MCNameLen
    Uid <- MCUid
    Uses <- Roles
    Publish <- Flags
INVARIANT IsolationRespected
