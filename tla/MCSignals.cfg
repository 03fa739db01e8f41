\* Two threads, two calls each with up to two exits of guest code; the kernel
\* takes one filter, fewer than a thread asks for.
CONSTANTS
    t1 = t1
    t2 = t2
    Threads = {t1, t2}
    Locking = {TRUE, FALSE}
    Environments = {TRUE, FALSE}
    FilterLimit = 1
    MaxExecutes = 2
    MaxLeaves = 2
SPECIFICATION FairSpec
INVARIANTS
    TypeOK
    ProcessSurvives
    ExitsDelivered
    HostCallsTrapped
    NothingLeftBehind
PROPERTY Returns
CHECK_DEADLOCK FALSE
