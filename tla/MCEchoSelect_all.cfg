\* Rounds of the event-loop clients with two connections.
SPECIFICATION FairSpec
CONSTANTS
    Socks = {s1, s2}
    Backlog = 0
    MaxMsgs = 2
    Setups <- MCSetups
INVARIANTS
    FdLeftIsWatched
    RecvNeverBlocks
    MeasuresToTheEnd
PROPERTIES
    AnswersAreMeasured
    ClientReturns
    MessageIsRead
\* The client returns, and the loader has closed everything.
CHECK_DEADLOCK FALSE
