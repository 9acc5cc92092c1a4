----------------------------- MODULE MCCoRwlock ------------------------------
(***************************************************************************)
(* Instances of CoRwlock for TLC.  Nothing tells one coroutine from        *)
(* another.                                                                *)
(***************************************************************************)
EXTENDS CoRwlock, TLC

Symmetry == Permutations(Coroutines)
=============================================================================
