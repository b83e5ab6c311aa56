SPECIFICATION FairSpec
CONSTANTS
    NumWorkers = 2
    NumConn = 2
    Sleeps = 2
    NumPerc = 3
    MaxServed = 1
    Faults = {"write"}
PROPERTIES
    RunReturns
\* run_test returns: the end of a run.
CHECK_DEADLOCK FALSE
