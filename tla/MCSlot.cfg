SPECIFICATION FairSpec
CONSTANTS
    T1 = T1
    T2 = T2
    NoThread = NoThread
    Thread <- MCThread
    Emulations <- MCEmulations
    Tries = 2
    Messages = 2
    MenuWaits = 2
INVARIANTS
    TypeOK
    SlotNeverDangles
PROPERTIES
    ExclusiveUnlessRaced
    KickedUnlessRaced
    WaiterResolves
    EveryProgramEnds
