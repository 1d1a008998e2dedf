SPECIFICATION Spec
CONSTANTS
    C1 = C1
    C2 = C2
    Main = Main
    Client <- MCClients
    QLen = 3
    Warm = 1
    PollPeriod = 3
    LightPeriod = 2
    Lights = 0
    Requests = 2
PROPERTY
    SecondPartFollows
