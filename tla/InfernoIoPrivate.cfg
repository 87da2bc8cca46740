CONSTANTS
    Threads = {"t1", "t2"}
    Files = {"f1", "f2", "f3"}
    Calls <- AllCalls
    NumSlots = 2
    Total = 3
    Width = 16
    Shared = FALSE
    Exits = TRUE
SPECIFICATION Spec
INVARIANTS
    SlotsMatchFiles
    DiscExclusive
    OffsetOnDisc
PROPERTY FilesSpec
