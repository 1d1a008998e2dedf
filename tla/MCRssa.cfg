SPECIFICATION FairSpec
CONSTANTS
    C1 = C1
    C2 = C2
    Main = Main
    Client <- MCClient
    QLen = 2
    Warm = 2
    PollPeriod = 3
    LightPeriod = 2
    Lights = 1
    Requests = 2
INVARIANT
    TypeOK
PROPERTIES
    FifoUnlessRaced
    EveryCommandLeaves
