\* Two connections with a pause; messages in two parts, and any fault.
SPECIFICATION Spec
CONSTANTS
    Socks = {s1, s2}
    MsgLen = 2
    MinTimeout = 1
    MaxTimeout = 2
    IdleWait = 2
    StartTime = 3
    MaxTime = 4
    MaxMsgs = 2
    Faults = {"close", "reset", "write", "epoll"}
SYMMETRY Symmetry
INVARIANTS
    TypeOK
    OneMessageInFlight
    CountersAgree
    LatencyIsADifference
PROPERTIES
    ImplementsPingPong
\* The thread returns.
CHECK_DEADLOCK FALSE
