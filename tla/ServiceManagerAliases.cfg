\* One object under two names, two objects under one name, two objects in one
\* process: the reference counts, and what a listing client sees.
SPECIFICATION Spec
CONSTANTS
    s1 = s1  s2 = s2  cl = cl  a = a  b = b  c = c
    n1 = n1  n2 = n2  empty = empty  long = long
    NoObj = NoObj  NoName = NoName  NoProc = NoProc
    Procs = {s1, s2, cl}
    Mortal = {s1, s2}
    Objs = {a, b, c}
    Names = {n1, n2}
    MaxIndex = 1
    Owner <- MCOwner
    NameLen <- MCNameLen
    Uid <- MCUid
    Uses <- Lookups
    Publish <- Aliases
INVARIANT RefsMatchHolders
PROPERTY PassMissesNone
