SPECIFICATION FairSpec
CONSTANTS
    w1 = w1
    w2 = w2
    f1 = f1
    f2 = f2
    Workers = {w1, w2}
    TotalDataBlocks = 6
    PtrsPerBlock = 2
    NIL = NIL
    Data = {2}
    Inodes = {f1, f2}
    DirectBlocks = 1
    FileBlocks = {0, 1, 2, 3, 4}
    MayWrite <- OwnFile
INVARIANTS NoCrossLink WrittenStaysMapped NothingLeaked BlocksCounted
PROPERTIES UsesFreeList LockFree
