-------------------------- MODULE MCWasmInstances --------------------------
(* WasmInstances for TLC: threads and blocks are interchangeable.          *)
EXTENDS WasmInstances, TLC

Symmetry == Permutations(Threads) \union Permutations(Tbs)
=============================================================================
