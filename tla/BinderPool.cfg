\* Two clients, one of which calls again, main and two pool threads.
SPECIFICATION Spec
CONSTANTS
    main = main
    c1 = c1  c2 = c2
    NoCaller = NoCaller
    Threads = {main, t1, t2}
    MaxThreads = 2
    Callers = {c1, c2}
    Services = {hello}
    MaxCalls <- TwiceAndOnce
INVARIANTS TypeOK PoolWithinBounds CallsPlaced CountsPlausible
PROPERTIES CountsGrow CallsEnd
\* The clients make a bounded number of calls, so the system may come to rest.
CHECK_DEADLOCK FALSE
