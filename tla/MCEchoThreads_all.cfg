\* Rounds of the worker-per-connection clients with two connections.
SPECIFICATION FairSpec
CONSTANTS
    Socks = {s1, s2}
    Backlog = 0
    MaxMsgs = 2
    Setups <- MCSetups
INVARIANTS
    MeasuresToTheEnd
PROPERTIES
    AnswersAreMeasured
    ClientReturns
\* The client returns, and the loader has closed everything.
CHECK_DEADLOCK FALSE
