\* Tests of the earlier version with two connections.
SPECIFICATION FairSpec
CONSTANTS
    Socks = {s1, s2}
    MaxMsgs = 2
    Setups <- MCSetups
INVARIANTS
    CountIsAnswers
    MeasuresToTheEnd
PROPERTIES
    AnswersAreMeasured
    ClientReturns
\* The test returns and the server has closed everything.
CHECK_DEADLOCK FALSE
