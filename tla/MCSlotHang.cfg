SPECIFICATION Spec
CONSTANTS
    T1 = T1
    T2 = T2
    NoThread = NoThread
    Thread <- MCThread
    Emulations <- MCEmulations
    Tries = 2
    Messages = 2
    MenuWaits = 2
INVARIANT
    WaiterIsKicked
