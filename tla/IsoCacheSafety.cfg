CONSTANTS
    IsoSize = 8
    Align = 2
    Cap = 4
    NumCaches = 3
    Threshold = 2
    NrCacheReq = 1
    Invalid = 99
    MaxLen = 6
    MaxAge = 1
    Requests <- MCRequests
    Prefetches <- MCPrefetches
    Adders = {g1}
SPECIFICATION Spec
INVARIANTS
    SlotsSorted
    SlotsCoherent
    SearchComplete
    NoErrorPos
    IInv
PROPERTY DiscSpec
