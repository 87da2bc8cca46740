CONSTANTS
    Threads = {"t1"}
    Mounter = "m"
    Offsets <- TwoOffsets
    MountPos = 3
    ReadLen = 2
    Header = 1
    Total = 6
    Retries = 2
    Opens = FALSE
    MaxEjects = 1
    Handles = {1, 2}
SPECIFICATION Spec
INVARIANT ReadsRight
