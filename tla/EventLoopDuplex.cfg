SPECIFICATION FairSpec
CONSTANTS
    c1 = c1
    c2 = c2
    Objs <- TwoObjs
    MaxFd = 8
    AliasFd = 8
    DuplexPipe = TRUE
    CleanSize = TRUE
    Backlog = 1
    RxMax = 1
    SndBuf = 1
    Burst = 2
    Devices <- SensorAndStdin
    Requests <- TwoRequests
INVARIANT TypeOK
INVARIANT RegistriesAgree
INVARIANT FdOwnership
INVARIANT IteratorValid
INVARIANT PendingDeletesSafe
PROPERTY RegistryImplemented
PROPERTY DeferredDeletesHappen
PROPERTY StopHonoured
\* The process may exit, be killed or hang.
CHECK_DEADLOCK FALSE
