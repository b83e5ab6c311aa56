\* Two connections with a pause; messages arrive whole, and peers close.
SPECIFICATION FairSpec
CONSTANTS
    Socks = {s1, s2}
    MsgLen = 1
    MinTimeout = 1
    MaxTimeout = 2
    IdleWait = 2
    StartTime = 3
    MaxTime = 5
    MaxMsgs = 2
    Faults = {"close"}
INVARIANTS
    EveryArrivalQueuedOnce
    SleepIsBounded
PROPERTIES
    PacingRespected
    ImplementsLoop
    StopsWhenTold
    ServedEventually
\* The thread returns.
CHECK_DEADLOCK FALSE
