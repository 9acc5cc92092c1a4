SPECIFICATION Spec
CONSTANTS
    Files = {f1}
    Fds = {d1, d2}
    NIL = NIL
    BlockSize = 2
    DataBlocks = 2
    Values = {1, 2}
    Counts = {0, 1, 3}
    Lengths = {0, 3}
    Appends = {TRUE, FALSE}
    MaxByte = 4
SYMMETRY Symmetry
INVARIANTS ReadReturns
