SPECIFICATION Spec
CONSTANTS
    Net = Net
    MainLoop = MainLoop
    T1 = T1
    T2 = T2
    Client = {Net}
    Worker = {T1, T2}
    Durations = {2}
    Runtimes = {1}
    Fine = 1
    AskAt = 1
    GiveUpAt = 3
    Requests = 2
PROPERTY OffMeansOff
