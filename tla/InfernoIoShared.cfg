CONSTANTS
    Threads = {"t1", "t2"}
    Files = {"f1", "f2"}
    Calls <- FewCalls
    NumSlots = 2
    Total = 3
    Width = 16
    Shared = TRUE
    Exits = TRUE
SPECIFICATION FairSpec
INVARIANTS
    OvershootBounded
PROPERTY CallsReturn
