\* Two workers, three connections, every failure.
SPECIFICATION FairSpec
CONSTANTS
    NumWorkers = 2
    NumConn = 3
    Sleeps = 2
    NumPerc = 3
    MaxServed = 2
    Faults = {"connect", "epoll", "write", "worker"}
INVARIANTS
    TypeOK
    NobodyStartsEarly
    NoThreadOutlivesTheRun
    EarlyEndIsTrue
    EveryAnswerReported
    PercentilesAreCounts
PROPERTIES
    RunReturnsUnlessFailed
\* run_test returns.
CHECK_DEADLOCK FALSE
