CONSTANTS
    Apps = {"t1", "t2"}
    Waits <- MCWaits
    SystemSets <- MCSets
    SystemMasks <- MCMasks
    None = None
SPECIFICATION FairSpec
INVARIANTS
    StatusConsistent
    WaitersReleased
    FlagCoversStatus
    NoticeCurrent
PROPERTY WaitersWake
