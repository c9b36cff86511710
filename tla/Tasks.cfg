CONSTANTS
    Workers = {w1, w2}
    NormalThreads = {n1}
    CoroutineThreads = {k1, k2}
    Posts = {p1}
    c1 = c1
    c2 = c2
    t1 = t1
    t2 = t2
    Stoppers = {s1, s2}
    NoOne = NoOne
SPECIFICATION Spec
INVARIANTS PoolStoppedIsQuiet TaskDemosSucceed
PROPERTIES PoolFuturesSettle PoolsStop TaskPromiseSetOnce
           EchoStreamWhole EchoSessionEnds OtaHaltEndsTask TaskDemosEnd
CHECK_DEADLOCK FALSE
