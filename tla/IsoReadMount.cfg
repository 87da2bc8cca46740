CONSTANTS
    Threads = {"t1", "m"}
    Mounter = "m"
    Offsets <- OneOffset
    MountPos = 3
    ReadLen = 2
    Header = 1
    Total = 6
    Retries = 1
    Opens = FALSE
    MaxEjects = 1
    Handles = {1, 2}
SPECIFICATION FairSpec
PROPERTIES
    ReadReturns
    MountEnds
