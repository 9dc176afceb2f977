\* Safety and liveness of the dispatch queue and worker pool.
CONSTANTS
    s1 = s1
    s2 = s2
    s3 = s3
    Nil = Nil
    Socks <- MCSocks
    NumXmsgThr = 2
SPECIFICATION FairSpec
INVARIANTS
    TypeOK
    ExclusiveService
    DispatchInAcceptOrder
    
PROPERTIES
    QueuedEventuallyTaken
    ImplementsDispatch
\* Once every socket is served all workers block in cond_wait, as the real
\* server does between connections.
CHECK_DEADLOCK FALSE
