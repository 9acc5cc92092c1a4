SPECIFICATION Spec
CONSTANTS
    Workers = {w1}
    Paths <- Spelled
    LongNames = {}
    Targets <- LinkToB
    InodeCount = 4
    DataBlocks = 3
    DirentsPerBlock = 1
    MaxDepth = 3
    MaxLinks = 2
    U32Max = 9
INVARIANTS  NoDanglingEntry   CacheCoherent
PROPERTY NumberKeepsMeaning
VIEW Matters
