SPECIFICATION FairSpec
CONSTANTS
    SockCount = 4
    ConnQSize = 2
    ConnTimeoutMs = 4
    NsPerMs = 3
    Faults = {"socket", "connect", "epoll", "refuse", "reset"}
INVARIANTS
    WaitingIsWatched
    SuccessMeansAllConnected
PROPERTIES
    ConnectReturns
\* connect_all returns: the end.
CHECK_DEADLOCK FALSE
