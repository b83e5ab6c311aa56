SPECIFICATION Spec
CONSTANTS
    SockCount = 4
    ConnQSize = 2
    ConnTimeoutMs = 2
    NsPerMs = 3
    Faults = {}
INVARIANTS
    PatienceIsMilliseconds
\* connect_all returns: the end.
CHECK_DEADLOCK FALSE
