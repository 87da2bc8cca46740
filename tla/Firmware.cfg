SPECIFICATION Spec
CONSTANTS
    DrmNode = {n1, n2, n3}
    DrmFd = {f1, f2, f3}
    DrmThreads = {t1, t2}
    DrmNoNode = noNode
    DrmNoFd = noFd
    HmTotal = 56
    HmP11 = 4
    HmMax = 55
    HmDefault = 24
    HmWord = 256
    HmAsked <- HmAsks
    PkThreads = {p1, p2}
    PkStarter = p1
    PkNobody = nobody
    PkSize = 3
    PkMaxLen = 2
SYMMETRY DrmSymmetry
INVARIANTS DrmListRight PartitionsFit MessagesWhole LogOverrunBounded
