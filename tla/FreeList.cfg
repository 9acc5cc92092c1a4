SPECIFICATION Spec
CONSTANTS
    Workers = {w1, w2}
    TotalDataBlocks = 4
    PtrsPerBlock = 1
    NIL = NIL
    Data = {2}
SYMMETRY Symmetry
CONSTRAINT BeforeABA
INVARIANTS ExclusiveOwnership ListWalk
