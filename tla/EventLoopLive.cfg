SPECIFICATION FairSpec
CONSTANTS
    c1 = c1
    c2 = c2
    Objs <- TwoObjs
    DuplexPipe = FALSE
    CleanSize = TRUE
    MaxFd = 9
    AliasFd = 63
    Backlog = 1
    RxMax = 1
    SndBuf = 1
    Burst = 1
    Devices <- OneSensor
    Requests <- FewRequests
PROPERTY RequestsServed
\* The process may exit, be killed or hang.
CHECK_DEADLOCK FALSE
