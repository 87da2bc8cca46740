CONSTANTS
    Threads = {"t1", "t2"}
    Mounter = "m"
    Offsets <- OneOffset
    MountPos = 3
    ReadLen = 2
    Header = 1
    Total = 6
    Retries = 2
    Opens = TRUE
    MaxEjects = 0
    Handles = {1, 2}
SPECIFICATION Spec
INVARIANT ReadsRight
