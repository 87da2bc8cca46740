CONSTANTS
    IsoSize = 8
    Align = 2
    Cap = 4
    NumCaches = 2
    Threshold = 2
    NrCacheReq = 2
    Invalid = 99
    MaxLen = 6
    MaxAge = 0
    Requests <- FewRequests
    Prefetches <- MCPrefetches
    Adders = {g1, g2}
SPECIFICATION FairSpec
PROPERTY ReadReturns
