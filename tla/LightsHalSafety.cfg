\* Two framework threads, any light, one write that fails.
SPECIFICATION Spec
CONSTANTS
    Threads = {t1, t2}
    NoThread = NoThread
    States <- AllStates
    MaxCalls = 2
    MaxFailures = 1
SYMMETRY Symmetry
INVARIANTS TypeOK LockGuardsUpdate SharedLightShown
\* The threads make a bounded number of calls, so the system may come to rest.
CHECK_DEADLOCK FALSE
