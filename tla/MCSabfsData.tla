---------------------------- MODULE MCSabfsData ----------------------------
(* SabfsData for TLC: the descriptors are interchangeable.                 *)
EXTENDS SabfsData, TLC

Symmetry == Permutations(Fds)
=============================================================================
