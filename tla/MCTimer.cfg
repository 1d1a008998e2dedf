SPECIFICATION Spec
CONSTANTS
    Net = Net
    MainLoop = MainLoop
    T1 = T1
    T2 = T2
    Client = {Net, MainLoop}
    Worker = {T1, T2}
    Durations = {2}
    Runtimes = {0, 1}
    Fine = 1
    AskAt = 1
    GiveUpAt = 3
    Requests = 2
INVARIANT TypeOK WishIsKept
PROPERTY NotOffEarly EveryTimerEnds TimedGoesOff
