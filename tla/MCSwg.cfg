SPECIFICATION FairSpec
CONSTANTS
    S1 = S1
    S2 = S2
    Pump = Pump
    NoDevice = NoDevice
    Swg <- MCSwgs
    Other <- MCOther
    Reports <- MCReports
    Shown <- MCShown
    Percents <- MCPercents
    Requests = 1
INVARIANTS
    TypeOK
    AnswerIsAttributed
    StatusIsLastReport
    DarkMeansOff
PROPERTIES
    DelayedIsSentUnlessStuck
