SPECIFICATION Spec
CONSTANTS
    Types <- MCTypes
    Delay = 2
    Extra = 1
    Requests = 2
INVARIANT
    FollowUpStays
