SPECIFICATION Spec
CONSTANTS
    Workers = {w1}
    Paths <- Plain
    LongNames = {}
    Targets <- NoLinks
    InodeCount = 4
    DataBlocks = 4
    DirentsPerBlock = 1
    MaxDepth = 3
    MaxLinks = 2
    U32Max = 9
PROPERTY FailureChangesNothing
