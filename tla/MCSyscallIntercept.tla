------------------------ MODULE MCSyscallIntercept ------------------------
(* SyscallIntercept for TLC: the files are interchangeable.                *)
EXTENDS SyscallIntercept, TLC

Symmetry == Permutations(Files)
=============================================================================
