----------------------------- MODULE MCFreeList -----------------------------
(* Two workers over three blocks: enough for one worker to stall inside    *)
(* allocBlock while the other empties the list and returns a block to it.  *)
EXTENDS FreeList, TLC

Symmetry == Permutations(Workers)

(* Nothing is claimed of the list once aba holds: those states are checked *)
(* and not continued.                                                      *)
BeforeABA == ~aba
=============================================================================
