SPECIFICATION Spec
CONSTANTS
    c1 = c1
    c2 = c2
    Objs <- TwoObjs
    MaxFd = 9
    AliasFd = 8
    DuplexPipe = FALSE
    CleanSize = FALSE
    Backlog = 1
    RxMax = 1
    SndBuf = 1
    Burst = 1
    Devices <- AllDevices
    Requests <- TwoRequests
SYMMETRY Addresses2
INVARIANT FdOwnership
PROPERTY NoFalseDisconnect
\* The process may exit, be killed or hang.
CHECK_DEADLOCK FALSE
