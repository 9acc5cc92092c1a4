SPECIFICATION Spec
CONSTANTS
    Cpus = {c1}
    Files = {f1, f2}
    NIL = NIL
    MaxFds = 3
    FirstFd = 1
    MaxSabfs = 5
    MaxGuest = 4
SYMMETRY Symmetry
INVARIANT HeldIsOpen
