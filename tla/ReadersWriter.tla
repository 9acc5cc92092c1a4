---------------------------- MODULE ReadersWriter ----------------------------
(***************************************************************************)
(* What a lock with shared and exclusive holders promises: any number of   *)
(* processes read, or one writes.  The vCPU threads of module Exclusive    *)
(* implement it (guest code is the reading, an exclusive section the       *)
(* writing), and so do the coroutine locks CoMutex and CoRwlock.           *)
(***************************************************************************)
CONSTANT Procs
VARIABLE mode

Init == mode = [p \in Procs |-> "out"]

Writer(p) == mode[p] = "write"

Read(p) ==
    /\ mode[p] = "out" /\ \A q \in Procs : ~Writer(q)
    /\ mode' = [mode EXCEPT ![p] = "read"]

Write(p) ==
    /\ \A q \in Procs : mode[q] = "out"
    /\ mode' = [mode EXCEPT ![p] = "write"]

Leave(p) ==
    /\ mode[p] # "out"
    /\ mode' = [mode EXCEPT ![p] = "out"]

Upgrade(p) ==
    /\ mode[p] = "read" /\ \A q \in Procs \ {p} : mode[q] = "out"
    /\ mode' = [mode EXCEPT ![p] = "write"]

Downgrade(p) ==
    /\ Writer(p)
    /\ mode' = [mode EXCEPT ![p] = "read"]

Next == \E p \in Procs : Read(p) \/ Write(p) \/ Leave(p) \/ Upgrade(p) \/ Downgrade(p)

Spec == Init /\ [][Next]_mode
=============================================================================
