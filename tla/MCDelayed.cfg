SPECIFICATION FairSpec
CONSTANTS
    Types <- MCTypes
    Delay = 2
    Extra = 1
    Requests = 2
INVARIANTS
    TypeOK
    WholeRequest
PROPERTIES
    QuietBeforeAction
    LastRequestWins
