CONSTANTS
    Threads = {"t1", "t2"}
    Mounter = "m"
    Offsets <- TwoOffsets
    MountPos = 3
    ReadLen = 2
    Header = 1
    Total = 6
    Retries = 2
    Opens = TRUE
    MaxEjects = 2
    Handles = {1, 2}
    CsoSector = 2
    CsoTotalBlocks = 5
    CsoOffset <- CsoOffsets
    CsoPlain <- CsoPlains
    CsoMaxEntries = 4
    CsoMaxFails = 1
    VfFat1 = 1
    VfFat2 = 3
    VfDir = 5
    VfData = 6
    VfEntries = 4
    VfCluster = 5
    VfUmd = 3
    VfSize = 19
    VfMaxLen = 8
    MsSize = 3
    MsCap = 2
    MsMaxLen = 3
    MsCallers = {"c1", "c2"}
SPECIFICATION ReadersSpec
INVARIANTS
    CleanReadsRight
    NoDescriptorLost
    SizeKnown
    CsoReadRight
    VfReadRight
    MsReadsRight
