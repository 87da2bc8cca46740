CONSTANTS
    IsoSize = 7
    Align = 2
    Cap = 4
    NumCaches = 2
    Threshold = 2
    NrCacheReq = 2
    Invalid = 99
    MaxLen = 6
    MaxAge = 0
    Requests <- FewRequests
    Prefetches <- MCPrefetches
    Adders = {g1}
SPECIFICATION FairSpec
PROPERTY EofEndsRead
