\* Two clients with two rounds each.
SPECIFICATION FairSpec
CONSTANTS
    c1 = c1
    c2 = c2
    Clients <- MCClients
    Rounds = 2
    RespLen = 2
    ListenQueue = 0
    Absent = Absent
    Word = 16
    Setups <- MCSetups
INVARIANTS
    RoundsSucceed
    AcceptedIsServed
PROPERTIES
    ImplementsRounds
    LoaderIsFreed
    EveryRoundEnds
\* The clients come to their end.
CHECK_DEADLOCK FALSE
