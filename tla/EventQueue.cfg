CONSTANTS
    t1 = t1
    t2 = t2
    t3 = t3
    v1 = v1
    v2 = v2
    Threads = {t1, t2, t3}
    Items = {v1, v2}
    QueueMax = 2
SPECIFICATION FairSpec
INVARIANTS TypeOK NoStrandedWaiter
PROPERTIES ImplementsFifo ServesWaiters
