---------------------------- MODULE CpuLoopProofs ----------------------------
(***************************************************************************)
(* Proofs about modules Exclusive and CpuLoop, for any number of vCPUs:    *)
(* exclusive sections are alone and every sleeper is owed a wake-up; the   *)
(* threads of CpuLoop use the sections as Exclusive says, and no request   *)
(* to leave guest code is dropped.                                         *)
(***************************************************************************)
EXTENDS CpuLoop, FiniteSetTheorems, TLAPS

(* The exclusive sections of module Exclusive.                             *)
Waiters == {k \in Cpus : has_waiter[k]}

(* cpu->running, the list lock and pending_cpus agree with the places of   *)
(* the threads.                                                            *)
Places ==
    /\ \A k \in Cpus : running[k] => pc[k] \in {"s1", "slock", "exec", "excl"}
    /\ \A k \in Cpus : pc[k] \in {"s1", "slock", "exec"} => running[k]
    /\ \A k \in Cpus : pc[k] = "xscan" <=> lock = k
    /\ \A c, d \in Cpus : Owner(c) /\ Owner(d) => c = d
    /\ pending_cpus # 0 <=> \E c \in Cpus : Owner(c)
    /\ \A k \in Cpus : pc[k] = "excl" => count[k] \in {1, 2}

(* A CPU that is waited for has been seen running and has not been counted *)
(* down; the owner has counted them, and has marked each one in guest code *)
(* among those its loop has come to.                                       *)
Marks ==
    /\ \A k \in Cpus : has_waiter[k] => pc[k] \in {"s1", "slock", "exec", "e1", "elock"}
    /\ pending_cpus = 0 => Waiters = {}
    /\ \A c \in Cpus : pc[c] = "xscan" =>
          /\ pending_cpus = 1 /\ running_cpus[c] = Cardinality(Waiters)
          /\ \A k \in Cpus : k < scan[c] /\ pc[k] = "exec" => has_waiter[k]
          /\ \A k \in Cpus : k >= scan[c] => ~has_waiter[k]
    /\ \A c \in Cpus : pc[c] \in {"xwait", "excl", "xend"} =>
          /\ pending_cpus = 1 + Cardinality(Waiters)
          /\ \A k \in Cpus : pc[k] = "exec" => has_waiter[k]
    /\ \A c \in Cpus : pc[c] \in {"excl", "xend"} => pending_cpus = 1

Sleepers ==
    \A c \in asleep : /\ pc[c] \in {"sidle", "xidle"} => pending_cpus # 0
                      /\ pc[c] = "xwait" => pending_cpus > 1

IInv == ExclTypeOK /\ Places /\ Marks /\ Sleepers

-----------------------------------------------------------------------------
(* The numbers that the steps of a section store have their types.         *)
LEMMA ExclNumbers ==
    /\ 0 \in Nat /\ 1 \in Nat /\ 0 \in 0 .. NCpus /\ 1 \in 1 .. NCpus + 1
    /\ 0 \in 0 .. 2 /\ 1 \in 0 .. 2 /\ 2 \in 0 .. 2
    /\ \A c \in Cpus : c \in 0 .. NCpus
BY ExclusiveAssumption DEF Cpus

(* The vCPUs that are waited for can be counted.                           *)
LEMMA WaitersFinite ==
    /\ IsFiniteSet(Waiters) /\ Cardinality(Waiters) \in Nat
    /\ Cardinality(Waiters) = 0 <=> Waiters = {}
    /\ Waiters = {} <=> \A k \in Cpus : ~has_waiter[k]
<1>1. IsFiniteSet(Cpus)
  BY FS_Interval, ExclusiveAssumption DEF Cpus
<1>2. IsFiniteSet(Waiters)
  BY Zenon, <1>1, FS_Subset DEF Waiters
<1>3. Cardinality(Waiters) \in Nat /\ (Cardinality(Waiters) = 0 <=> Waiters = {})
  BY Zenon, <1>2, FS_CardinalityType, FS_EmptySet
<1>. QED
  BY Zenon, <1>2, <1>3 DEF Waiters

(* cpu->running is set before pending_cpus is read.                        *)
LEMMA StartRunningKeeps ==
    ASSUME IInv, NEW c \in Cpus, StartRunning(c)
    PROVE  IInv'
<1>1. Waiters' = Waiters
  BY Zenon DEF StartRunning, Waiters
<1>2. Cardinality(Waiters) \in Nat
      /\ (Cardinality(Waiters) = 0 <=> Waiters = {})
      /\ (Waiters = {} <=> \A k \in Cpus : ~has_waiter[k])
  BY Zenon, WaitersFinite
<1>3. ExclTypeOK'
  BY Zenon, ExclusiveAssumption DEF IInv, ExclTypeOK, Places, Cpus, Labels, local, StartRunning, Goto
<1>4. Places'
  BY <1>2, SMTT(30) DEF IInv, ExclTypeOK, Places, Owner, Marks, Cpus, local, StartRunning, Goto
<1>5. Marks'
  BY <1>1, <1>2, SMTT(30) DEF IInv, ExclTypeOK, Places, Owner, Marks, Cpus, local, StartRunning, Goto
<1>6. Sleepers'
  BY Zenon, <1>2 DEF IInv, ExclTypeOK, Places, Owner, Marks, Sleepers, Cpus, local, StartRunning, Goto
<1>. QED
  BY Zenon, <1>3, <1>4, <1>5, <1>6 DEF IInv

(* No section is pending.                                                  *)
LEMMA StartFastKeeps ==
    ASSUME IInv, NEW c \in Cpus, StartFast(c)
    PROVE  IInv'
<1>1. Waiters' = Waiters
  BY Zenon DEF StartFast, Waiters
<1>2. Cardinality(Waiters) \in Nat
      /\ (Cardinality(Waiters) = 0 <=> Waiters = {})
      /\ (Waiters = {} <=> \A k \in Cpus : ~has_waiter[k])
  BY Zenon, WaitersFinite
<1>3. ExclTypeOK'
  BY Zenon, ExclusiveAssumption DEF IInv, ExclTypeOK, Places, Cpus, Labels, local, StartFast, Goto
<1>4. Places'
  BY <1>2, SMTT(30) DEF IInv, ExclTypeOK, Places, Owner, Marks, Cpus, local, StartFast, Goto
<1>5. Marks'
  BY ZenonT(30), <1>1, <1>2 DEF IInv, ExclTypeOK, Places, Owner, Marks, Cpus, local, StartFast, Goto
<1>6. Sleepers'
  BY Zenon, <1>2 DEF IInv, ExclTypeOK, Places, Owner, Marks, Sleepers, Cpus, local, StartFast, Goto
<1>. QED
  BY Zenon, <1>3, <1>4, <1>5, <1>6 DEF IInv

(* A section is pending.                                                   *)
LEMMA StartSlowKeeps ==
    ASSUME IInv, NEW c \in Cpus, StartSlow(c)
    PROVE  IInv'
<1>1. Waiters' = Waiters
  BY Zenon DEF StartSlow, Waiters
<1>2. Cardinality(Waiters) \in Nat
      /\ (Cardinality(Waiters) = 0 <=> Waiters = {})
      /\ (Waiters = {} <=> \A k \in Cpus : ~has_waiter[k])
  BY Zenon, WaitersFinite
<1>3. ExclTypeOK'
  BY Zenon, ExclusiveAssumption DEF IInv, ExclTypeOK, Places, Cpus, Labels, local, StartSlow, Goto
<1>4. Places'
  BY <1>2, SMTT(30) DEF IInv, ExclTypeOK, Places, Owner, Marks, Cpus, local, StartSlow, Goto
<1>5. Marks'
  BY <1>1, <1>2, SMTT(30) DEF IInv, ExclTypeOK, Places, Owner, Marks, Cpus, local, StartSlow, Goto
<1>6. Sleepers'
  BY Zenon, <1>2 DEF IInv, ExclTypeOK, Places, Owner, Marks, Sleepers, Cpus, local, StartSlow, Goto
<1>. QED
  BY Zenon, <1>3, <1>4, <1>5, <1>6 DEF IInv

(* The section waits for this vCPU.                                        *)
LEMMA StartCountedKeeps ==
    ASSUME IInv, NEW c \in Cpus, StartCounted(c)
    PROVE  IInv'
<1>1. Waiters' = Waiters
  BY Zenon DEF StartCounted, Waiters
<1>2. Cardinality(Waiters) \in Nat
      /\ (Cardinality(Waiters) = 0 <=> Waiters = {})
      /\ (Waiters = {} <=> \A k \in Cpus : ~has_waiter[k])
  BY Zenon, WaitersFinite
<1>3. ExclTypeOK'
  BY Zenon, ExclusiveAssumption DEF IInv, ExclTypeOK, Places, Cpus, Labels, local, StartCounted, Goto, WithLock
<1>4. Places'
  BY <1>2, SMTT(30) DEF IInv, ExclTypeOK, Places, Owner, Marks, Cpus, local, StartCounted, Goto, WithLock
<1>5. Marks'
  BY <1>1, <1>2, SMTT(30) DEF IInv, ExclTypeOK, Places, Owner, Marks, Cpus, local, StartCounted, Goto, WithLock
<1>6. Sleepers'
  BY Zenon, <1>2 DEF IInv, ExclTypeOK, Places, Owner, Marks, Sleepers, Cpus, local, StartCounted, Goto, WithLock
<1>. QED
  BY Zenon, <1>3, <1>4, <1>5, <1>6 DEF IInv

(* exclusive_idle in cpu_exec_start, in its two outcomes.                  *)
LEMMA StartWaitKeeps ==
    ASSUME IInv, NEW c \in Cpus, StartWait(c)
    PROVE  IInv'
<1>1. Waiters' = Waiters /\ has_waiter' = has_waiter
  BY Zenon DEF StartWait, Waiters
<1>2. Cardinality(Waiters) \in Nat
      /\ (Cardinality(Waiters) = 0 <=> Waiters = {})
      /\ (Waiters = {} <=> \A k \in Cpus : ~has_waiter[k])
  BY Zenon, WaitersFinite
<1>4. CASE pending_cpus # 0
  <2>1. /\ pc[c] \in {"slock", "sidle"} /\ c \notin asleep
        /\ pc' = [pc EXCEPT ![c] = "sidle"]
        /\ running' = [running EXCEPT ![c] = FALSE]
        /\ asleep' = asleep \union {c}
        /\ lock = 0 /\ lock' = 0 /\ pending_cpus' = pending_cpus
        /\ pc[c] = "slock" => ~has_waiter[c]
        /\ UNCHANGED <<scan, running_cpus, count>>
    BY Zenon, <1>4 DEF StartWait, WithLock, local
  <2>2. ExclTypeOK'
    BY Zenon, <1>1, <1>2, <1>4, <2>1, ExclusiveAssumption DEF IInv, ExclTypeOK, Cpus, Labels
  <2>3. Places'
    BY <1>1, <1>2, <1>4, <2>1, SMTT(30) DEF IInv, ExclTypeOK, Places, Owner, Marks, Cpus
  <2>4. Marks'
    BY <1>1, <1>2, <1>4, <2>1, SMTT(30) DEF IInv, ExclTypeOK, Places, Owner, Marks, Cpus
  <2>5. Sleepers'
    BY Zenon, <1>1, <1>2, <1>4, <2>1 DEF IInv, ExclTypeOK, Places, Owner, Marks, Sleepers, Cpus
  <2>. QED
    BY Zenon, <2>2, <2>3, <2>4, <2>5 DEF IInv
<1>5. CASE pending_cpus = 0
  <2>1. /\ pc[c] \in {"slock", "sidle"} /\ c \notin asleep
        /\ pc' = [pc EXCEPT ![c] = "exec"]
        /\ running' = [running EXCEPT ![c] = TRUE]
        /\ asleep' = asleep
        /\ lock = 0 /\ lock' = 0 /\ pending_cpus' = pending_cpus
        /\ UNCHANGED <<scan, running_cpus, count>>
    BY Zenon, <1>5 DEF StartWait, WithLock, local
  <2>2. ExclTypeOK'
    BY Zenon, <1>1, <1>2, <1>5, <2>1, ExclusiveAssumption DEF IInv, ExclTypeOK, Cpus, Labels
  <2>3. Places'
    BY <1>1, <1>2, <1>5, <2>1, SMTT(30) DEF IInv, ExclTypeOK, Places, Owner, Marks, Cpus
  <2>4. Marks'
    BY ZenonT(30), <1>1, <1>2, <1>5, <2>1 DEF IInv, ExclTypeOK, Places, Owner, Marks, Cpus
  <2>5. Sleepers'
    BY Zenon, <1>1, <1>2, <1>5, <2>1 DEF IInv, ExclTypeOK, Places, Owner, Marks, Sleepers, Cpus
  <2>. QED
    BY Zenon, <2>2, <2>3, <2>4, <2>5 DEF IInv
<1>. QED
  BY Zenon, <1>4, <1>5

(* Guest code ends.                                                        *)
LEMMA EndRunningKeeps ==
    ASSUME IInv, NEW c \in Cpus, EndRunning(c)
    PROVE  IInv'
<1>1. Waiters' = Waiters
  BY Zenon DEF EndRunning, Waiters
<1>2. Cardinality(Waiters) \in Nat
      /\ (Cardinality(Waiters) = 0 <=> Waiters = {})
      /\ (Waiters = {} <=> \A k \in Cpus : ~has_waiter[k])
  BY Zenon, WaitersFinite
<1>3. ExclTypeOK'
  BY Zenon, ExclusiveAssumption DEF IInv, ExclTypeOK, Places, Cpus, Labels, local, EndRunning, Goto
<1>4. Places'
  BY <1>2, SMTT(30) DEF IInv, ExclTypeOK, Places, Owner, Marks, Cpus, local, EndRunning, Goto
<1>5. Marks'
  BY <1>1, <1>2, SMTT(30) DEF IInv, ExclTypeOK, Places, Owner, Marks, Cpus, local, EndRunning, Goto
<1>6. Sleepers'
  BY Zenon, <1>2 DEF IInv, ExclTypeOK, Places, Owner, Marks, Sleepers, Cpus, local, EndRunning, Goto
<1>. QED
  BY Zenon, <1>3, <1>4, <1>5, <1>6 DEF IInv

(* No section is pending.                                                  *)
LEMMA EndFastKeeps ==
    ASSUME IInv, NEW c \in Cpus, EndFast(c)
    PROVE  IInv'
<1>1. Waiters' = Waiters
  BY Zenon DEF EndFast, Waiters
<1>2. Cardinality(Waiters) \in Nat
      /\ (Cardinality(Waiters) = 0 <=> Waiters = {})
      /\ (Waiters = {} <=> \A k \in Cpus : ~has_waiter[k])
  BY Zenon, WaitersFinite
<1>3. ExclTypeOK'
  BY Zenon, ExclusiveAssumption DEF IInv, ExclTypeOK, Places, Cpus, Labels, local, EndFast, Goto
<1>4. Places'
  BY <1>2, SMTT(30) DEF IInv, ExclTypeOK, Places, Owner, Marks, Cpus, local, EndFast, Goto
<1>5. Marks'
  BY ZenonT(30), <1>1, <1>2 DEF IInv, ExclTypeOK, Places, Owner, Marks, Cpus, local, EndFast, Goto
<1>6. Sleepers'
  BY Zenon, <1>2 DEF IInv, ExclTypeOK, Places, Owner, Marks, Sleepers, Cpus, local, EndFast, Goto
<1>. QED
  BY Zenon, <1>3, <1>4, <1>5, <1>6 DEF IInv

(* A section is pending.                                                   *)
LEMMA EndSlowKeeps ==
    ASSUME IInv, NEW c \in Cpus, EndSlow(c)
    PROVE  IInv'
<1>1. Waiters' = Waiters
  BY Zenon DEF EndSlow, Waiters
<1>2. Cardinality(Waiters) \in Nat
      /\ (Cardinality(Waiters) = 0 <=> Waiters = {})
      /\ (Waiters = {} <=> \A k \in Cpus : ~has_waiter[k])
  BY Zenon, WaitersFinite
<1>3. ExclTypeOK'
  BY Zenon, ExclusiveAssumption DEF IInv, ExclTypeOK, Places, Cpus, Labels, local, EndSlow, Goto
<1>4. Places'
  BY <1>2, SMTT(30) DEF IInv, ExclTypeOK, Places, Owner, Marks, Cpus, local, EndSlow, Goto
<1>5. Marks'
  BY <1>1, <1>2, SMTT(30) DEF IInv, ExclTypeOK, Places, Owner, Marks, Cpus, local, EndSlow, Goto
<1>6. Sleepers'
  BY Zenon, <1>2 DEF IInv, ExclTypeOK, Places, Owner, Marks, Sleepers, Cpus, local, EndSlow, Goto
<1>. QED
  BY Zenon, <1>3, <1>4, <1>5, <1>6 DEF IInv

(* start_exclusive is called.                                              *)
LEMMA ExclCallKeeps ==
    ASSUME IInv, NEW c \in Cpus, ExclCall(c)
    PROVE  IInv'
<1>1. Waiters' = Waiters
  BY Zenon DEF ExclCall, Waiters
<1>2. Cardinality(Waiters) \in Nat
      /\ (Cardinality(Waiters) = 0 <=> Waiters = {})
      /\ (Waiters = {} <=> \A k \in Cpus : ~has_waiter[k])
  BY Zenon, WaitersFinite
<1>3. ExclTypeOK'
  BY Zenon, ExclusiveAssumption DEF IInv, ExclTypeOK, Places, Cpus, Labels, local, ExclCall, Goto
<1>4. Places'
  BY <1>2, SMTT(30) DEF IInv, ExclTypeOK, Places, Owner, Marks, Cpus, local, ExclCall, Goto
<1>5. Marks'
  BY <1>1, <1>2, SMTT(30) DEF IInv, ExclTypeOK, Places, Owner, Marks, Cpus, local, ExclCall, Goto
<1>6. Sleepers'
  BY Zenon, <1>2 DEF IInv, ExclTypeOK, Places, Owner, Marks, Sleepers, Cpus, local, ExclCall, Goto
<1>. QED
  BY Zenon, <1>3, <1>4, <1>5, <1>6 DEF IInv

(* exclusive_idle in start_exclusive, in its two outcomes.                 *)
LEMMA ExclIdleKeeps ==
    ASSUME IInv, NEW c \in Cpus, ExclIdle(c)
    PROVE  IInv'
<1>1. Waiters' = Waiters /\ has_waiter' = has_waiter
  BY Zenon DEF ExclIdle, Waiters
<1>2. Cardinality(Waiters) \in Nat
      /\ (Cardinality(Waiters) = 0 <=> Waiters = {})
      /\ (Waiters = {} <=> \A k \in Cpus : ~has_waiter[k])
  BY Zenon, WaitersFinite
<1>4. CASE pending_cpus # 0
  <2>1. /\ pc[c] \in {"x1", "xidle"} /\ c \notin asleep
        /\ pc' = [pc EXCEPT ![c] = "xidle"]
        /\ asleep' = asleep \union {c}
        /\ lock = 0
        /\ UNCHANGED <<running, pending_cpus, lock, scan, running_cpus, count>>
    BY Zenon, <1>4 DEF ExclIdle
  <2>2. ExclTypeOK'
    BY Zenon, <1>1, <1>2, <1>4, <2>1, ExclusiveAssumption DEF IInv, ExclTypeOK, Cpus, Labels
  <2>3. Places'
    BY <1>1, <1>2, <1>4, <2>1, SMTT(30) DEF IInv, ExclTypeOK, Places, Owner, Marks, Cpus
  <2>4. Marks'
    BY <1>1, <1>2, <1>4, <2>1, SMTT(30) DEF IInv, ExclTypeOK, Places, Owner, Marks, Cpus
  <2>5. Sleepers'
    BY <1>1, <1>2, <1>4, <2>1, SMTT(30) DEF IInv, ExclTypeOK, Places, Owner, Marks, Sleepers, Cpus
  <2>. QED
    BY Zenon, <2>2, <2>3, <2>4, <2>5 DEF IInv
<1>5. CASE pending_cpus = 0
  <2>1. /\ pc[c] \in {"x1", "xidle"} /\ c \notin asleep
        /\ pc' = [pc EXCEPT ![c] = "xscan"]
        /\ pending_cpus' = 1
        /\ lock = 0 /\ lock' = c
        /\ scan' = [scan EXCEPT ![c] = 1]
        /\ running_cpus' = [running_cpus EXCEPT ![c] = 0]
        /\ UNCHANGED <<running, count, asleep>>
    BY Zenon, <1>5 DEF ExclIdle
  <2>2. ExclTypeOK'
    BY Zenon, <1>1, <1>2, <1>5, <2>1, ExclNumbers DEF IInv, ExclTypeOK, Labels
  <2>3. Places'
    BY <1>1, <1>2, <1>5, <2>1, SMTT(30) DEF IInv, ExclTypeOK, Places, Owner, Marks, Cpus
  <2>4. Marks'
    BY <1>1, <1>2, <1>5, <2>1, SMTT(30) DEF IInv, ExclTypeOK, Places, Owner, Marks, Cpus
  <2>5. Sleepers'
    BY Zenon, <1>1, <1>2, <1>5, <2>1 DEF IInv, ExclTypeOK, Places, Owner, Marks, Sleepers, Cpus
  <2>. QED
    BY Zenon, <2>2, <2>3, <2>4, <2>5 DEF IInv
<1>. QED
  BY Zenon, <1>4, <1>5

(* The number of running vCPUs is published, and waited for.               *)
LEMMA ExclWaitKeeps ==
    ASSUME IInv, NEW c \in Cpus, ExclWait(c)
    PROVE  IInv'
<1>1. Waiters' = Waiters /\ has_waiter' = has_waiter
  BY Zenon DEF ExclWait, Waiters
<1>2. Cardinality(Waiters) \in Nat
      /\ (Cardinality(Waiters) = 0 <=> Waiters = {})
      /\ (Waiters = {} <=> \A k \in Cpus : ~has_waiter[k])
  BY Zenon, WaitersFinite
<1>3. /\ pc[c] \in {"xscan", "xwait"} /\ (pc[c] = "xwait" => c \notin asleep /\ lock = 0)
      /\ pending_cpus' = 1 + Cardinality(Waiters)
      /\ \A k \in Cpus : pc[k] = "exec" => has_waiter[k]
  <2>1. CASE pc[c] = "xscan"
    <3>1. scan[c] = NCpus + 1 /\ pending_cpus' = running_cpus[c] + 1
      BY Zenon, <2>1 DEF ExclWait
    <3>2. \A k \in Cpus : k < scan[c]
      BY <3>1, ExclusiveAssumption DEF Cpus
    <3>. QED
      BY <1>2, <2>1, <3>1, <3>2 DEF IInv, Marks
  <2>2. CASE pc[c] # "xscan"
    BY Zenon, <1>2, <2>2 DEF IInv, Marks, ExclWait
  <2>. QED
    BY Zenon, <2>1, <2>2
<1>4. CASE pending_cpus' > 1
  <2>1. /\ pc' = [pc EXCEPT ![c] = "xwait"]
        /\ asleep' = asleep \union {c}
        /\ count' = count
        /\ lock' = 0 /\ running' = running
        /\ scan' = [scan EXCEPT ![c] = 1]
        /\ running_cpus' = [running_cpus EXCEPT ![c] = 0]
    BY Zenon, <1>4, <1>3 DEF ExclWait
  <2>2. ExclTypeOK'
    BY <1>1, <1>2, <1>4, <1>3, <2>1, ExclusiveAssumption, SMTT(30) DEF IInv, ExclTypeOK, Cpus, Labels
  <2>3. Places'
    BY <1>1, <1>2, <1>4, <1>3, <2>1, SMTT(30) DEF IInv, ExclTypeOK, Places, Owner, Marks, Cpus
  <2>4. Marks'
    BY <1>1, <1>2, <1>4, <1>3, <2>1, SMTT(30) DEF IInv, ExclTypeOK, Places, Owner, Marks, Cpus
  <2>5. Sleepers'
    BY <1>1, <1>2, <1>4, <1>3, <2>1, SMTT(30) DEF IInv, ExclTypeOK, Places, Owner, Marks, Sleepers, Cpus
  <2>. QED
    BY Zenon, <2>2, <2>3, <2>4, <2>5 DEF IInv
<1>5. CASE ~(pending_cpus' > 1)
  <2>1. /\ pc' = [pc EXCEPT ![c] = "excl"]
        /\ count' = [count EXCEPT ![c] = 1]
        /\ asleep' = asleep
        /\ lock' = 0 /\ running' = running
        /\ scan' = [scan EXCEPT ![c] = 1]
        /\ running_cpus' = [running_cpus EXCEPT ![c] = 0]
    BY Zenon, <1>5, <1>3 DEF ExclWait
  <2>2. ExclTypeOK'
    BY <1>1, <1>2, <1>5, <1>3, <2>1, ExclusiveAssumption, SMTT(30) DEF IInv, ExclTypeOK, Cpus, Labels
  <2>3. Places'
    BY <1>1, <1>2, <1>5, <1>3, <2>1, SMTT(30) DEF IInv, ExclTypeOK, Places, Owner, Marks, Cpus
  <2>4. Marks'
    BY <1>1, <1>2, <1>5, <1>3, <2>1, SMTT(30) DEF IInv, ExclTypeOK, Places, Owner, Marks, Cpus
  <2>5. Sleepers'
    BY <1>1, <1>2, <1>5, <1>3, <2>1, SMTT(30) DEF IInv, ExclTypeOK, Places, Owner, Marks, Sleepers, Cpus
  <2>. QED
    BY Zenon, <2>2, <2>3, <2>4, <2>5 DEF IInv
<1>. QED
  BY Zenon, <1>4, <1>5

(* The section runs an instruction.                                        *)
LEMMA ExclStepKeeps ==
    ASSUME IInv, NEW c \in Cpus, ExclStep(c)
    PROVE  IInv'
<1>1. Waiters' = Waiters /\ has_waiter' = has_waiter
  BY Zenon DEF ExclStep, Waiters
<1>2. Cardinality(Waiters) \in Nat
      /\ (Cardinality(Waiters) = 0 <=> Waiters = {})
      /\ (Waiters = {} <=> \A k \in Cpus : ~has_waiter[k])
  BY Zenon, WaitersFinite
<1>4. CASE ~running[c]
  <2>1. /\ pc[c] = "excl" /\ (\E n \in {1, 2} : count' = [count EXCEPT ![c] = n])
        /\ UNCHANGED <<pending_cpus, lock, pc, scan, running_cpus, asleep>>
        /\ running' \in [Cpus -> BOOLEAN] /\ \A k \in Cpus : k # c => running'[k] = running[k]
        /\ count' \in [Cpus -> 0 .. 2] /\ count'[c] \in {1, 2}
        /\ \A k \in Cpus : k # c => count'[k] = count[k]
    <3>1. PICK n \in {1, 2} : count' = [count EXCEPT ![c] = n]
      BY Zenon DEF ExclStep
    <3>2. running' = running \/ running' = [running EXCEPT ![c] = TRUE]
      BY Zenon DEF ExclStep
    <3>3. pc[c] = "excl" /\ UNCHANGED <<pending_cpus, lock, pc, scan, running_cpus, asleep>>
      BY Zenon DEF ExclStep
    <3>4. running' \in [Cpus -> BOOLEAN] /\ \A k \in Cpus : k # c => running'[k] = running[k]
      BY Zenon, <3>2 DEF IInv, ExclTypeOK
    <3>5. /\ count' \in [Cpus -> 0 .. 2] /\ count'[c] \in {1, 2}
          /\ \A k \in Cpus : k # c => count'[k] = count[k]
      BY <3>1 DEF IInv, ExclTypeOK
    <3>. QED
      BY Zenon, <3>1, <3>3, <3>4, <3>5
  <2>2. ExclTypeOK'
    BY Zenon, <1>1, <1>2, <1>4, <2>1, ExclusiveAssumption DEF IInv, ExclTypeOK, Cpus, Labels
  <2>3. Places'
    BY Zenon, <1>1, <1>2, <1>4, <2>1 DEF IInv, ExclTypeOK, Places, Owner, Marks, Cpus
  <2>4. Marks'
    BY Zenon, <1>1, <1>2, <1>4, <2>1 DEF IInv, ExclTypeOK, Places, Owner, Marks, Cpus
  <2>5. Sleepers'
    BY Zenon, <1>1, <1>2, <1>4, <2>1 DEF IInv, ExclTypeOK, Places, Owner, Marks, Sleepers, Cpus
  <2>. QED
    BY Zenon, <2>2, <2>3, <2>4, <2>5 DEF IInv
<1>5. CASE running[c]
  <2>1. /\ pc[c] = "excl"
        /\ UNCHANGED <<running, pending_cpus, lock, pc, scan, running_cpus, asleep>>
        /\ count' = [count EXCEPT ![c] = 1]
    BY Zenon, <1>5 DEF ExclStep, IInv, ExclTypeOK
  <2>2. ExclTypeOK'
    BY Zenon, <1>1, <1>2, <1>5, <2>1, ExclNumbers DEF IInv, ExclTypeOK, Labels
  <2>3. Places'
    BY ZenonT(30), <1>1, <1>2, <1>5, <2>1 DEF IInv, ExclTypeOK, Places, Owner, Marks, Cpus
  <2>4. Marks'
    BY Zenon, <1>1, <1>2, <1>5, <2>1 DEF IInv, ExclTypeOK, Places, Owner, Marks, Cpus
  <2>5. Sleepers'
    BY Zenon, <1>1, <1>2, <1>5, <2>1 DEF IInv, ExclTypeOK, Places, Owner, Marks, Sleepers, Cpus
  <2>. QED
    BY Zenon, <2>2, <2>3, <2>4, <2>5 DEF IInv
<1>. QED
  BY Zenon, <1>4, <1>5

(* The section ends.                                                       *)
LEMMA ExclEndKeeps ==
    ASSUME IInv, NEW c \in Cpus, ExclEnd(c)
    PROVE  IInv'
<1>1. Waiters' = Waiters
  BY Zenon DEF ExclEnd, Waiters
<1>2. Cardinality(Waiters) \in Nat
      /\ (Cardinality(Waiters) = 0 <=> Waiters = {})
      /\ (Waiters = {} <=> \A k \in Cpus : ~has_waiter[k])
  BY Zenon, WaitersFinite
<1>3. ExclTypeOK'
  BY ExclusiveAssumption, SMTT(30) DEF IInv, ExclTypeOK, Places, Cpus, Labels, local, ExclEnd, Goto
<1>4. Places'
  BY <1>2, SMTT(30) DEF IInv, ExclTypeOK, Places, Owner, Marks, Cpus, local, ExclEnd, Goto
<1>5. Marks'
  BY <1>1, <1>2, SMTT(30) DEF IInv, ExclTypeOK, Places, Owner, Marks, Cpus, local, ExclEnd, Goto
<1>6. Sleepers'
  BY Zenon, <1>2 DEF IInv, ExclTypeOK, Places, Owner, Marks, Sleepers, Cpus, local, ExclEnd, Goto
<1>. QED
  BY Zenon, <1>3, <1>4, <1>5, <1>6 DEF IInv

(* pending_cpus is reset.                                                  *)
LEMMA ExclResumeKeeps ==
    ASSUME IInv, NEW c \in Cpus, ExclResume(c)
    PROVE  IInv'
<1>1. Waiters' = Waiters
  BY Zenon DEF ExclResume, Waiters
<1>2. Cardinality(Waiters) \in Nat
      /\ (Cardinality(Waiters) = 0 <=> Waiters = {})
      /\ (Waiters = {} <=> \A k \in Cpus : ~has_waiter[k])
  BY Zenon, WaitersFinite
<1>0. /\ asleep' \subseteq asleep /\ c \notin asleep
      /\ pc' = [pc EXCEPT ![c] = "out"] /\ lock' = 0 /\ pending_cpus' = 0
      /\ UNCHANGED <<running, has_waiter, scan, running_cpus, count>>
  BY Zenon DEF IInv, ExclTypeOK, ExclResume, Goto, WithLock, local
<1>3. ExclTypeOK'
  BY <1>0, ExclusiveAssumption, SMTT(30) DEF IInv, ExclTypeOK, Cpus, Labels
<1>4. Places'
  BY <1>2, SMTT(30) DEF IInv, ExclTypeOK, Places, Owner, Marks, Cpus, local, ExclResume, Goto, WithLock, OnResume
<1>5. Marks'
  BY <1>1, <1>2, SMTT(30) DEF IInv, ExclTypeOK, Places, Owner, Marks, Cpus, local, ExclResume, Goto, WithLock, OnResume
<1>6. Sleepers'
  BY Zenon, <1>2 DEF IInv, ExclTypeOK, Places, Owner, Marks, Sleepers, Cpus, local, ExclResume, Goto, WithLock, OnResume
<1>. QED
  BY Zenon, <1>3, <1>4, <1>5, <1>6 DEF IInv

(* A wait returns by itself.                                               *)
LEMMA SpuriousKeeps ==
    ASSUME IInv, NEW c \in Cpus, Spurious(c)
    PROVE  IInv'
<1>1. Waiters' = Waiters
  BY Zenon DEF Spurious, Waiters
<1>2. Cardinality(Waiters) \in Nat
      /\ (Cardinality(Waiters) = 0 <=> Waiters = {})
      /\ (Waiters = {} <=> \A k \in Cpus : ~has_waiter[k])
  BY Zenon, WaitersFinite
<1>3. ExclTypeOK'
  BY Zenon, ExclusiveAssumption DEF IInv, ExclTypeOK, Places, Cpus, Labels, local, Spurious
<1>4. Places'
  BY Zenon, <1>2 DEF IInv, ExclTypeOK, Places, Owner, Marks, Cpus, local, Spurious
<1>5. Marks'
  BY Zenon, <1>1, <1>2 DEF IInv, ExclTypeOK, Places, Owner, Marks, Cpus, local, Spurious
<1>6. Sleepers'
  BY Zenon, <1>2 DEF IInv, ExclTypeOK, Places, Owner, Marks, Sleepers, Cpus, local, Spurious
<1>. QED
  BY Zenon, <1>3, <1>4, <1>5, <1>6 DEF IInv


(* cpu_exec_end counts this vCPU down, or leaves all as it is.             *)
LEMMA EndLockedKeeps ==
    ASSUME IInv, NEW c \in Cpus, EndLocked(c)
    PROVE  IInv'
<1>1. /\ pc[c] = "elock" /\ pc' = [pc EXCEPT ![c] = "out"] /\ c \notin asleep
      /\ lock = 0 /\ lock' = 0 /\ has_waiter' = [has_waiter EXCEPT ![c] = FALSE]
      /\ UNCHANGED <<running, scan, running_cpus, count>>
  BY Zenon DEF IInv, ExclTypeOK, EndLocked, Goto, WithLock, local
<1>2. /\ Cardinality(Waiters) \in Nat
      /\ Waiters' = Waiters \ {c}
      /\ ~has_waiter[c] => Waiters' = Waiters
  BY Zenon, <1>1, WaitersFinite DEF Waiters, IInv, ExclTypeOK
<1>3. CASE ~has_waiter[c]
  <2>1. pending_cpus' = pending_cpus /\ asleep' = asleep /\ has_waiter' = has_waiter
    BY <1>1, <1>3 DEF EndLocked, IInv, ExclTypeOK
  <2>2. Waiters' = Waiters
    BY Zenon, <1>2, <1>3
  <2>3. ExclTypeOK'
    BY Zenon, <1>1, <2>1 DEF IInv, ExclTypeOK, Cpus, Labels
  <2>4. Places'
    BY <1>1, <2>1, SMTT(30) DEF IInv, ExclTypeOK, Places, Owner, Cpus
  <2>5. Marks'
    BY <1>1, <2>1, <2>2, <1>3, SMTT(30) DEF IInv, ExclTypeOK, Places, Owner, Marks, Cpus
  <2>6. Sleepers'
    BY Zenon, <1>1, <2>1 DEF IInv, ExclTypeOK, Sleepers, Cpus
  <2>. QED
    BY Zenon, <2>3, <2>4, <2>5, <2>6 DEF IInv
<1>4. CASE has_waiter[c]
  <2>1. PICK o \in Cpus : Owner(o)
    BY Zenon, <1>4 DEF IInv, Places, Marks, Waiters
  <2>2. pc[o] = "xwait" /\ pending_cpus = 1 + Cardinality(Waiters)
    <3>1. pc[o] # "xscan"
      BY <1>1, ExclusiveAssumption DEF IInv, Places, Cpus
    <3>2. pc[o] \in {"xwait", "excl", "xend"} /\ pending_cpus = 1 + Cardinality(Waiters)
      BY Zenon, <2>1, <3>1 DEF Owner, IInv, Marks
    <3>3. Cardinality(Waiters) # 0
      BY Zenon, <1>4, WaitersFinite
    <3>. QED
      BY <1>2, <3>2, <3>3 DEF IInv, Marks
  <2>3. Cardinality(Waiters') = Cardinality(Waiters) - 1
    BY Zenon, <1>2, <1>4, WaitersFinite, FS_RemoveElement DEF Waiters
  <2>4. /\ pending_cpus' = pending_cpus - 1 /\ pending_cpus' >= 1
        /\ asleep' \subseteq asleep
        /\ pending_cpus' = 1 => o \notin asleep'
    <3>1. pending_cpus' = pending_cpus - 1 /\ asleep' \subseteq asleep
      BY Zenon, <1>4 DEF EndLocked, Signal
    <3>2. pending_cpus' >= 1
      <4>1. Cardinality(Waiters) # 0
        BY Zenon, <1>4, WaitersFinite
      <4>. QED
        BY <4>1, <3>1, <2>2, <1>2
    <3>3. OnCond = {o}
      BY Zenon, <2>1, <2>2 DEF OnCond, IInv, Places, Owner
    <3>4. pending_cpus' = 1 => o \notin asleep'
      BY Zenon, <3>3, <1>4 DEF EndLocked, Signal
    <3>. QED
      BY Zenon, <3>1, <3>2, <3>4
  <2>5. ExclTypeOK'
    BY <1>1, <2>4, SMTT(30) DEF IInv, ExclTypeOK, Cpus, Labels
  <2>6. Places'
    BY <1>1, <2>1, <2>2, <2>4, SMTT(30) DEF IInv, ExclTypeOK, Places, Owner, Cpus
  <2>7. Marks'
    <3>1. \A d \in Cpus : Owner(d) => d = o
      BY Zenon, <2>1 DEF IInv, Places
    <3>2. pending_cpus' = 1 + Cardinality(Waiters')
      BY <1>2, <2>2, <2>3, <2>4
    <3>. QED
      BY <1>1, <2>2, <2>4, <3>1, <3>2, SMTT(30) DEF IInv, ExclTypeOK, Owner, Marks, Cpus
  <2>8. Sleepers'
    <3>1. \A d \in Cpus : pc[d] = "xwait" => d = o
      BY Zenon, <2>1 DEF IInv, Places, Owner
    <3>. QED
      BY <1>1, <2>4, <3>1, SMTT(30) DEF IInv, ExclTypeOK, Sleepers, Cpus
  <2>. QED
    BY Zenon, <2>5, <2>6, <2>7, <2>8 DEF IInv
<1>. QED
  BY Zenon, <1>3, <1>4

(* The loop of start_exclusive marks the next vCPU if it runs.             *)
LEMMA ExclScanKeeps ==
    ASSUME IInv, NEW c \in Cpus, ExclScan(c)
    PROVE  IInv'
<1>. DEFINE k == scan[c]
<1>1. /\ pc[c] = "xscan" /\ k \in Cpus /\ scan' = [scan EXCEPT ![c] = k + 1]
      /\ UNCHANGED <<running, pending_cpus, lock, pc, count, asleep>>
      /\ ~has_waiter[k]
  BY DEF ExclScan, IInv, Marks, ExclTypeOK, Cpus
<1>2. \A d \in Cpus : Owner(d) => d = c
  BY Zenon, <1>1 DEF IInv, Places, Owner
<1>3. Cardinality(Waiters) \in Nat /\ IsFiniteSet(Waiters)
  BY Zenon, WaitersFinite
<1>4. CASE ~running[k]
  <2>1. has_waiter' = has_waiter /\ running_cpus' = running_cpus /\ pc[k] # "exec"
    BY <1>1, <1>4 DEF ExclScan, IInv, ExclTypeOK, Places
  <2>2. Waiters' = Waiters
    BY Zenon, <2>1 DEF Waiters
  <2>3. ExclTypeOK'
    BY <1>1, <2>1, ExclusiveAssumption, SMTT(30) DEF IInv, ExclTypeOK, Cpus
  <2>4. Places' /\ Sleepers'
    BY Zenon, <1>1, <2>1 DEF IInv, Places, Sleepers, Owner
  <2>5. Marks'
    BY <1>1, <1>2, <2>1, <2>2, SMTT(30) DEF IInv, ExclTypeOK, Owner, Marks, Cpus
  <2>. QED
    BY Zenon, <2>3, <2>4, <2>5 DEF IInv
<1>5. CASE running[k]
  <2>1. /\ has_waiter' = [has_waiter EXCEPT ![k] = TRUE]
        /\ running_cpus' = [running_cpus EXCEPT ![c] = running_cpus[c] + 1]
    BY Zenon, <1>1, <1>5 DEF ExclScan, IInv, ExclTypeOK
  <2>2. Waiters' = Waiters \union {k} /\ k \notin Waiters
    BY Zenon, <1>1, <2>1 DEF Waiters, IInv, ExclTypeOK
  <2>3. Cardinality(Waiters') = Cardinality(Waiters) + 1
    BY Zenon, <1>3, <2>2, FS_AddElement
  <2>4. pc[k] \in {"s1", "slock", "exec"}
    BY Zenon, <1>1, <1>2, <1>5 DEF IInv, Places, Owner
  <2>5. ExclTypeOK'
    BY <1>1, <2>1, ExclusiveAssumption, SMTT(60) DEF IInv, ExclTypeOK, Cpus
  <2>6. Places' /\ Sleepers'
    BY Zenon, <1>1 DEF IInv, Places, Sleepers, Owner
  <2>7. Marks'
    BY <1>1, <1>2, <2>1, <2>3, <2>4, SMTT(30) DEF IInv, ExclTypeOK, Owner, Marks, Cpus
  <2>. QED
    BY Zenon, <2>5, <2>6, <2>7 DEF IInv
<1>. QED
  BY Zenon, <1>4, <1>5

-----------------------------------------------------------------------------
(* The invariant holds at the start.                                       *)
LEMMA InitIInv == ExclInit => IInv
<1>. SUFFICES ASSUME ExclInit PROVE IInv
  BY Zenon
<1>1. Waiters = {}
  BY Zenon DEF ExclInit, Waiters
<1>. QED
  BY <1>1, ExclusiveAssumption, SMTT(30)
     DEF ExclInit, IInv, ExclTypeOK, Places, Owner, Marks, Sleepers, Cpus, Labels

(* Every step of every vCPU keeps it.                                      *)
LEMMA NextIInv == IInv /\ [ExclNext]_exclVars => IInv'
<1>. SUFFICES ASSUME IInv, [ExclNext]_exclVars PROVE IInv'
  BY Zenon
<1>1. CASE UNCHANGED exclVars
  <2>1. ExclTypeOK'
    BY Zenon, <1>1 DEF exclVars, IInv, ExclTypeOK
  <2>2. Places'
    BY Zenon, <1>1 DEF exclVars, IInv, Places, Owner
  <2>3. Marks'
    BY Zenon, <1>1 DEF exclVars, IInv, Marks, Owner, Waiters
  <2>4. Sleepers'
    BY Zenon, <1>1 DEF exclVars, IInv, Sleepers, Owner
  <2>. QED
    BY Zenon, <2>1, <2>2, <2>3, <2>4 DEF IInv
<1>2. ASSUME NEW c \in Cpus, ExclActions(c) PROVE IInv'
  BY Zenon, <1>2, StartRunningKeeps, StartFastKeeps, StartSlowKeeps, StartCountedKeeps,
     StartWaitKeeps, EndRunningKeeps, EndFastKeeps, EndSlowKeeps, EndLockedKeeps,
     ExclCallKeeps, ExclIdleKeeps, ExclScanKeeps, ExclWaitKeeps, ExclStepKeeps,
     ExclEndKeeps, ExclResumeKeeps, SpuriousKeeps DEF ExclActions
<1>. QED
  BY Zenon, <1>1, <1>2 DEF ExclNext

(* What the invariant says of the properties.                              *)
LEMMA IInvImplies == IInv => ExclusiveAlone /\ WakeupOwed /\ PendingExact
<1>. SUFFICES ASSUME IInv PROVE ExclusiveAlone /\ WakeupOwed /\ PendingExact
  BY Zenon
<1>1. Cardinality(Waiters) \in Nat
      /\ (Cardinality(Waiters) = 0 <=> \A k \in Cpus : ~has_waiter[k])
  BY Zenon, WaitersFinite
<1>2. ExclusiveAlone
  BY <1>1, SMTT(30) DEF ExclusiveAlone, IInv, Places, Marks, Owner
<1>3. WakeupOwed
  <2>1. ASSUME NEW c \in asleep, pc[c] \in {"sidle", "xidle"}
        PROVE  \E d \in Cpus : d # c /\ Owner(d)
    BY Zenon, <2>1 DEF IInv, Sleepers, Places, Owner
  <2>2. ASSUME NEW c \in asleep, pc[c] = "xwait"
        PROVE  \E d \in Cpus : d # c /\ has_waiter[d]
    <3>1. pending_cpus > 1 /\ pending_cpus = 1 + Cardinality(Waiters) /\ c \in Cpus
      BY Zenon, <2>2 DEF IInv, Sleepers, Marks, ExclTypeOK
    <3>2. PICK d \in Cpus : has_waiter[d]
      BY <1>1, <3>1
    <3>. QED
      BY Zenon, <2>2, <3>2 DEF IInv, Marks
  <2>. QED
    BY Zenon, <2>1, <2>2 DEF WakeupOwed
<1>4. PendingExact
  BY <1>1, ExclusiveAssumption, SMTT(30)
     DEF PendingExact, IInv, ExclTypeOK, Places, Marks, Owner, Waiters, Cpus
<1>. QED
  BY Zenon, <1>2, <1>3, <1>4

(* For any number of vCPUs, what runs between start_exclusive and          *)
(* end_exclusive runs alone.                                               *)
THEOREM ExclusiveAloneHolds == ExclSpec => []ExclusiveAlone
<1>. QED
  BY InitIInv, NextIInv, IInvImplies, PTL DEF ExclSpec

(* No thread sleeps in cpu_exec_start or start_exclusive with nobody left  *)
(* to wake it.                                                             *)
THEOREM WakeupOwedHolds == ExclSpec => []WakeupOwed
<1>. QED
  BY InitIInv, NextIInv, IInvImplies, PTL DEF ExclSpec

(* pending_cpus counts exactly the vCPUs a section still waits for.        *)
THEOREM PendingExactHolds == ExclSpec => []PendingExact
<1>. QED
  BY InitIInv, NextIInv, IInvImplies, PTL DEF ExclSpec

-----------------------------------------------------------------------------
Mode(p) == IF pc[p] = "exec" THEN "read" ELSE IF pc[p] = "excl" THEN "write" ELSE "out"
Modes   == [p \in Cpus |-> Mode(p)]

(* A step that changes the mode of one vCPU at most.                       *)
LEMMA ModesStep ==
    ASSUME NEW c \in Cpus, NEW l, pc \in [Cpus -> Labels], pc' = [pc EXCEPT ![c] = l]
    PROVE  Modes' = [Modes EXCEPT ![c] = IF l = "exec" THEN "read"
                                         ELSE IF l = "excl" THEN "write" ELSE "out"]
<1>1. \A p \in Cpus : pc'[p] = IF p = c THEN l ELSE pc[p]
  BY Zenon
<1>. QED
  BY Zenon, <1>1 DEF Modes, Mode

(* Every step is one of ReadersWriter, or leaves the modes alone.          *)
LEMMA StepRefines ==
    ASSUME IInv, [ExclNext]_exclVars
    PROVE  [Sections!Next]_Modes
<1>. DEFINE Out(p)    == Modes[p] = "out"
            ReadA(p)  == /\ Modes[p] = "out" /\ \A q \in Cpus : Modes[q] # "write"
                         /\ Modes' = [Modes EXCEPT ![p] = "read"]
            WriteA(p) == /\ \A q \in Cpus : Modes[q] = "out"
                         /\ Modes' = [Modes EXCEPT ![p] = "write"]
            LeaveA(p) == /\ Modes[p] # "out"
                         /\ Modes' = [Modes EXCEPT ![p] = "out"]
<1>0. SUFFICES Modes' = Modes \/ \E p \in Cpus : ReadA(p) \/ WriteA(p) \/ LeaveA(p)
  BY Zenon DEF Sections!Next, Sections!Read, Sections!Write, Sections!Leave, Sections!Writer, Modes, Mode
<1>1. pc \in [Cpus -> Labels] /\ \A p \in Cpus : Modes[p] = Mode(p)
  BY Zenon DEF IInv, ExclTypeOK, Modes
<1>2. CASE UNCHANGED pc
  BY Zenon, <1>2 DEF Modes, Mode
<1>3. ASSUME NEW c \in Cpus, NEW l, pc' = [pc EXCEPT ![c] = l], Mode(c) = "out",
             l \notin {"exec", "excl"}
      PROVE  Modes' = Modes
  BY Zenon, <1>1, <1>3, ModesStep DEF Modes, Mode
<1>4. ASSUME NEW c \in Cpus, pc' = [pc EXCEPT ![c] = "exec"], Mode(c) = "out",
             \A q \in Cpus : pc[q] # "excl"
      PROVE  ReadA(c)
  BY Zenon, <1>1, <1>4, ModesStep DEF Mode
<1>5. ASSUME NEW c \in Cpus, ExclActions(c)
      PROVE  Modes' = Modes \/ \E p \in Cpus : ReadA(p) \/ WriteA(p) \/ LeaveA(p)
  <2>1. CASE StartFast(c)
    <3>1. \A q \in Cpus : pc[q] # "excl"
      BY Zenon, <2>1 DEF StartFast, IInv, Places, Owner
    <3>. QED
      BY Zenon, <2>1, <3>1, <1>4 DEF StartFast, Goto, Mode
  <2>2. CASE StartCounted(c)
    <3>1. \A q \in Cpus : pc[q] # "excl"
      BY <2>2, WaitersFinite DEF StartCounted, IInv, Marks
    <3>. QED
      BY Zenon, <2>2, <3>1, <1>4 DEF StartCounted, Goto, Mode
  <2>3. CASE StartWait(c)
    <3>1. CASE pending_cpus # 0
      BY <2>3, <3>1, <1>3 DEF StartWait, Mode
    <3>2. CASE pending_cpus = 0
      <4>1. \A q \in Cpus : pc[q] # "excl"
        BY Zenon, <3>2 DEF IInv, Places, Owner
      <4>. QED
        BY Zenon, <2>3, <3>2, <4>1, <1>4 DEF StartWait, Mode
    <3>. QED
      BY Zenon, <3>1, <3>2
  <2>4. CASE EndRunning(c) \/ ExclEnd(c)
    <3>1. LeaveA(c)
      BY <2>4, <1>1, ModesStep DEF EndRunning, ExclEnd, Goto, Mode
    <3>. QED
      BY Zenon, <3>1
  <2>5. CASE ExclWait(c)
    <3>1. CASE pending_cpus' > 1
      BY Zenon, <2>5, <3>1, <1>3 DEF ExclWait, Mode
    <3>2. CASE ~(pending_cpus' > 1)
      <4>1. pc' = [pc EXCEPT ![c] = "excl"]
        BY Zenon, <2>5, <3>2 DEF ExclWait
      <4>2. \A q \in Cpus : pc[q] # "exec"
        <5>1. IInv'
          BY Zenon, <2>5, ExclWaitKeeps
        <5>2. ExclusiveAlone'
          BY <5>1, IInvImplies, PTL
        <5>. QED
          BY Zenon, <4>1, <5>2, <1>1, <2>5 DEF ExclusiveAlone, ExclWait
      <4>3. \A q \in Cpus : pc[q] # "excl"
        BY Zenon, <2>5 DEF ExclWait, IInv, Places, Owner
      <4>4. WriteA(c)
        BY Zenon, <4>1, <4>2, <4>3, <1>1, ModesStep DEF Mode
      <4>. QED
        BY Zenon, <4>4
    <3>. QED
      BY Zenon, <3>1, <3>2
  <2>6. CASE ExclIdle(c)
    BY <2>6, <1>3 DEF ExclIdle, Mode
  <2>7. CASE StartRunning(c) \/ StartSlow(c) \/ EndFast(c) \/ EndSlow(c) \/ EndLocked(c)
             \/ ExclCall(c) \/ ExclResume(c)
    BY <2>7, <1>3 DEF StartRunning, StartSlow, EndFast, EndSlow, EndLocked, ExclCall,
                      ExclResume, Goto, Mode
  <2>8. CASE ExclScan(c) \/ ExclStep(c) \/ Spurious(c)
    BY Zenon, <2>8, <1>2 DEF ExclScan, ExclStep, Spurious
  <2>. QED
    BY Zenon, <1>5, <2>1, <2>2, <2>3, <2>4, <2>5, <2>6, <2>7, <2>8 DEF ExclActions
<1>. QED
  BY Zenon, <1>2, <1>5 DEF ExclNext, exclVars

(* The vCPU threads implement the lock of ReadersWriter.                   *)
THEOREM ImplementsSectionsHolds == ExclSpec => ImplementsSections
<1>1. ExclInit => Sections!Init
  BY Zenon DEF ExclInit, Sections!Init
<1>2. IInv /\ [ExclNext]_exclVars
      => [Sections!Next]_[c \in Cpus |-> IF pc[c] = "exec" THEN "read"
                                         ELSE IF pc[c] = "excl" THEN "write" ELSE "out"]
  BY Zenon, StepRefines DEF Modes, Mode
<1>. QED
  BY <1>1, <1>2, InitIInv, NextIInv, PTL DEF ExclSpec, ImplementsSections, Sections!Spec

-----------------------------------------------------------------------------
(* The threads of module CpuLoop.                                          *)

(* A step of a vCPU thread is one of Exclusive, or leaves its variables.   *)
LEMMA CpuStep ==
    ASSUME NEW c \in Cpus,
           \/ InCall(c) \/ KickScanned(c) \/ Woken(c)
           \/ EnterExec(c) \/ LeaveExec(c) \/ AtomicStep(c) \/ StepAtomic(c) \/ SafeStart(c)
    PROVE  ExclActions(c)
BY Zenon DEF InCall, KickScanned, Woken, EnterExec, LeaveExec, AtomicStep, StepAtomic, SafeStart,
       ExclActions

(* The other steps of a vCPU thread and interrupts leave its variables.    *)
LEMMA OtherStep ==
    ASSUME NEW c \in Cpus,
           \/ Start(c) \/ CannotRun(c) \/ Run(c) \/ Mmio(c) \/ QueueFromGuest(c)
           \/ KickQueued(c) \/ HandleExit(c) \/ AfterExec(c) \/ AfterAtomic(c)
           \/ TestIdle(c) \/ Sleep(c) \/ Wake(c) \/ Common(c)
           \/ Process(c) \/ ProcessSafe(c) \/ SafeDone(c) \/ Processed(c)
           \/ Interrupt(c)
    PROVE  UNCHANGED exclVars
BY Zenon DEF Start, CannotRun, Run, Mmio, QueueFromGuest, KickQueued, HandleExit, AfterExec, AfterAtomic, TestIdle, Sleep, Wake,
       Common, Process, ProcessSafe, SafeDone, Processed, Interrupt

(* The I/O thread has no part in the sections.                             *)
LEMMA IoStep ==
    ASSUME \/ \E c \in Cpus, i \in Items : Queue(c, i)
           \/ IoTake \/ IoRelease \/ RunOnCpuWait \/ PauseStart \/ PauseWait \/ ResumeAll
    PROVE  UNCHANGED exclVars
BY Zenon DEF Queue, IoTake, IoRelease, RunOnCpuWait, PauseStart, PauseWait, ResumeAll

(* Every behaviour of the vCPU loop is one of the exclusive sections, so   *)
(* that whatever holds of them holds in the loop.                          *)
THEOREM LoopUsesSections == Spec => ExclSpec
<1>1. Init => ExclInit
  BY Zenon DEF Init
<1>2. [Next]_vars => [ExclNext]_exclVars
  <2>. SUFFICES ASSUME [Next]_vars PROVE ExclNext \/ UNCHANGED exclVars
    BY Zenon
  <2>1. CASE UNCHANGED vars
    BY Zenon, <2>1 DEF vars
  <2>2. CASE Next
    BY Zenon, <2>2, CpuStep, OtherStep, IoStep DEF Next, ExclNext
  <2>. QED
    BY Zenon, <2>1, <2>2
<1>. QED
  BY <1>1, <1>2, PTL DEF Spec, ExclSpec

-----------------------------------------------------------------------------
(* The place in the loop says where in the calls of Exclusive a thread is. *)
Spots == {"start", "top", "run", "exec", "kick", "leave", "mmiowait", "mmio", "step", "atomic",
          "event", "idle", "halt", "work", "safe", "alone"}

Spot(a, p) ==
    /\ a \in {"start", "top", "run", "step", "event", "idle", "halt", "work", "safe"} => p = "out"
    /\ a = "kick" => p = "exec"
    /\ a \in {"mmiowait", "mmio"} => p \in {"exec", "excl"}
    /\ a = "exec" => p \in {"out", "s1", "slock", "sidle", "exec", "e1", "elock"}
    /\ a = "leave" => p \in {"out", "exec", "e1", "elock"}
    /\ a \in {"atomic", "alone"} => p \in {"out", "x1", "xidle", "xscan", "xwait", "excl", "xend"}

Where == \A k \in Cpus : Spot(at[k], pc[k])

LTypes ==
    /\ at \in [Cpus -> Spots]
    /\ exit_request \in [Cpus -> BOOLEAN]
    /\ stop \in [Cpus -> BOOLEAN] /\ stopped \in [Cpus -> BOOLEAN]
    /\ work_list \in [Cpus -> Seq(Items)]
    /\ owes \in [Cpus -> Cpus \union {0}]

(* Only a thread between queueing and kicking owes a kick.                 *)
Owing == \A k \in Cpus : /\ at[k] = "kick" => owes[k] \in Cpus
                         /\ at[k] # "kick" => owes[k] = 0

(* What asks a vCPU to leave guest code, and its kick if that is due yet.  *)
Needed(k) == stop[k] \/ has_waiter[k]
Due(k)    == \E j \in Cpus : owes[j] = k

(* Past the idle test, with the work done, whatever asks a vCPU to leave   *)
(* came after exit_request was cleared and has set it, or is about to;     *)
(* while the vCPU works, this goes for a pause.  It ends where             *)
(* exit_request is cleared again, on the way to "leave" or to "event".     *)
Asked ==
    \A k \in Cpus :
        /\ at[k] \in {"start", "top", "run", "exec", "kick", "mmiowait", "mmio", "step", "atomic"} =>
             /\ Needed(k) => exit_request[k]
             /\ work_list[k] # <<>> => exit_request[k] \/ Due(k)
        /\ at[k] \in {"work", "safe", "alone"} /\ stop[k] => exit_request[k]

Quiet == \A k \in Cpus : stopped[k] =>
             at[k] \notin {"run", "exec", "kick", "leave", "mmio", "mmiowait", "step", "atomic"}

LInv == LTypes /\ Where /\ Owing /\ Asked /\ Quiet

(* A vCPU outside cpu_exec is not one that a section waits for.            *)
LEMMA NotWaitedFor ==
    ASSUME IInv, NEW c \in Cpus, pc[c] = "out"
    PROVE  ~has_waiter[c]
BY Zenon DEF IInv, Marks

(* One more item in the list of a vCPU, and a kick.                        *)
LEMMA QueuedKeeps ==
    ASSUME LInv, NEW d \in Cpus, NEW i \in Items,
           work_list' = [work_list EXCEPT ![d] = Append(@, i)], Kick({d}),
           UNCHANGED <<pc, has_waiter, at, stop, stopped, owes>>
    PROVE  LInv'
<1>1. /\ exit_request' \in [Cpus -> BOOLEAN] /\ exit_request'[d] = TRUE
      /\ \A k \in Cpus : exit_request[k] => exit_request'[k]
  BY Zenon DEF Kick, LInv, LTypes
<1>2. /\ work_list' \in [Cpus -> Seq(Items)]
      /\ \A k \in Cpus : k # d => work_list'[k] = work_list[k]
  BY DEF LInv, LTypes
<1>3. LTypes' /\ Where' /\ Owing' /\ Quiet'
  BY Zenon, <1>1, <1>2 DEF LInv, LTypes, Where, Owing, Quiet
<1>4. Asked'
  BY Zenon, <1>1, <1>2 DEF LInv, Asked, Needed, Due
<1>. QED
  BY Zenon, <1>3, <1>4 DEF LInv

(* Guest code queues an item, and owes the kick.                           *)
LEMMA GuestQueuedKeeps ==
    ASSUME LInv, NEW c \in Cpus, QueueFromGuest(c)
    PROVE  LInv'
<1>1. PICK d \in Cpus, i \in Items : /\ work_list' = [work_list EXCEPT ![d] = Append(@, i)]
                                    /\ owes' = [owes EXCEPT ![c] = d]
  BY Zenon DEF QueueFromGuest, Items
<1>2. /\ at[c] = "exec" /\ at' = [at EXCEPT ![c] = "kick"] /\ pc[c] = "exec"
      /\ UNCHANGED <<pc, has_waiter, exit_request, stop, stopped>>
  BY Zenon DEF QueueFromGuest, InGuest, Move, exclVars
<1>3. /\ work_list' \in [Cpus -> Seq(Items)]
      /\ \A k \in Cpus : k # d => work_list'[k] = work_list[k]
  BY <1>1 DEF LInv, LTypes
<1>4. /\ owes' \in [Cpus -> Cpus \union {0}] /\ owes'[c] = d
      /\ \A k \in Cpus : k # c => owes'[k] = owes[k]
      /\ at' \in [Cpus -> Spots] /\ at'[c] = "kick"
      /\ \A k \in Cpus : k # c => at'[k] = at[k]
  BY Zenon, <1>1, <1>2 DEF LInv, LTypes, Spots
<1>5. LTypes'
  BY Zenon, <1>2, <1>3, <1>4 DEF LInv, LTypes
<1>6. Where' /\ Owing' /\ Quiet'
  BY Zenon, <1>2, <1>4 DEF LInv, Where, Spot, Owing, Quiet
<1>7. owes[c] = 0 /\ \A k \in Cpus : k # 0
  BY <1>2 DEF LInv, Owing, Cpus
<1>8. Due(d)' /\ \A k \in Cpus : Due(k) => Due(k)'
  BY Zenon, <1>4, <1>7 DEF Due
<1>9. Asked'
  BY Zenon, <1>2, <1>3, <1>4, <1>8 DEF LInv, Asked, Needed
<1>. QED
  BY Zenon, <1>5, <1>6, <1>9 DEF LInv

(* The kick that guest code owes.                                          *)
LEMMA KickQueuedKeeps ==
    ASSUME LInv, NEW c \in Cpus, KickQueued(c)
    PROVE  LInv'
<1>1. /\ at[c] = "kick" /\ at' = [at EXCEPT ![c] = "exec"]
      /\ exit_request' = [k \in Cpus |-> k \in {owes[c]} \/ exit_request[k]]
      /\ owes' = [owes EXCEPT ![c] = 0]
      /\ UNCHANGED <<pc, has_waiter, stop, stopped, work_list>>
  BY Zenon DEF KickQueued, Kick, Move, exclVars
<1>2. /\ exit_request' \in [Cpus -> BOOLEAN] /\ exit_request'[owes[c]] = TRUE
      /\ \A k \in Cpus : exit_request[k] => exit_request'[k]
  BY Zenon, <1>1 DEF LInv, LTypes, Owing
<1>3. /\ owes' \in [Cpus -> Cpus \union {0}] /\ owes'[c] = 0
      /\ \A k \in Cpus : k # c => owes'[k] = owes[k]
      /\ at' \in [Cpus -> Spots] /\ at'[c] = "exec"
      /\ \A k \in Cpus : k # c => at'[k] = at[k]
  BY Zenon, <1>1 DEF LInv, LTypes, Spots
<1>4. LTypes'
  BY Zenon, <1>1, <1>2, <1>3 DEF LInv, LTypes
<1>5. Where' /\ Owing' /\ Quiet'
  BY Zenon, <1>1, <1>3 DEF LInv, Where, Spot, Owing, Quiet
<1>6. \A k \in Cpus : Due(k) => exit_request'[k] \/ Due(k)'
  BY Zenon, <1>2, <1>3 DEF Due
<1>7. Asked'
  BY Zenon, <1>1, <1>2, <1>3, <1>6 DEF LInv, Asked, Needed
<1>. QED
  BY Zenon, <1>4, <1>5, <1>7 DEF LInv

(* A vCPU thread moves within or out of the places where it is asked to    *)
(* leave; it may clear exit_request on the way out.                        *)
LEMMA ShiftKeeps ==
    ASSUME LInv, NEW c \in Cpus, NEW a \in Spots, at' = [at EXCEPT ![c] = a],
           at[c] # "kick", a # "kick", Spot(a, pc[c]),
           UNCHANGED <<pc, has_waiter, stop, stopped, work_list, owes>>,
           stopped[c] => a \notin {"run", "exec", "leave", "mmio", "mmiowait", "step", "atomic"},
           \/ /\ UNCHANGED exit_request
              /\ \/ at[c] \in {"start", "top", "run", "exec", "mmiowait", "mmio", "step", "atomic"}
                    /\ a \notin {"work", "safe", "alone"}
                 \/ a \in {"leave", "event", "idle", "halt"}
                 \/ at[c] \in {"work", "safe", "alone"} /\ a \in {"work", "safe", "alone"}
           \/ /\ exit_request' = [exit_request EXCEPT ![c] = FALSE]
              /\ a \in {"leave", "event", "idle", "halt"}
    PROVE  LInv'
<1>1. /\ at'[c] = a /\ at' \in [Cpus -> Spots]
      /\ \A k \in Cpus : k # c => at'[k] = at[k] /\ exit_request'[k] = exit_request[k]
      /\ exit_request' \in [Cpus -> BOOLEAN]
  BY Zenon DEF LInv, LTypes
<1>2. LTypes'
  BY Zenon, <1>1 DEF LInv, LTypes
<1>3. Where' /\ Owing' /\ Quiet'
  BY Zenon, <1>1 DEF LInv, Where, Owing, Quiet
<1>4. \A k \in Cpus : (Needed(k)' <=> Needed(k)) /\ (Due(k)' <=> Due(k))
  BY Zenon DEF Needed, Due
<1>5. Asked'
  <2>. SUFFICES ASSUME NEW k \in Cpus
                PROVE  /\ at'[k] \in {"start", "top", "run", "exec", "kick", "mmiowait", "mmio", "step", "atomic"} =>
                            /\ Needed(k)' => exit_request'[k]
                            /\ work_list'[k] # <<>> => exit_request'[k] \/ Due(k)'
                       /\ at'[k] \in {"work", "safe", "alone"} /\ stop'[k] => exit_request'[k]
    BY Zenon DEF Asked
  <2>1. CASE k # c
    BY Zenon, <1>1, <1>4, <2>1 DEF LInv, Asked
  <2>2. CASE k = c
    BY Zenon, <1>1, <1>4, <2>2 DEF LInv, Asked
  <2>. QED
    BY Zenon, <2>1, <2>2
<1>. QED
  BY Zenon, <1>2, <1>3, <1>5 DEF LInv

(* Device accesses keep the invariant.                                     *)
LEMMA MmioKeeps ==
    ASSUME LInv, NEW c \in Cpus, Mmio(c)
    PROVE  LInv'
<1>1. PICK a \in {"exec", "atomic", "mmiowait", "mmio"} :
          /\ at' = [at EXCEPT ![c] = a]
          /\ a = "exec" => pc[c] = "exec"
          /\ a # "exec" => pc[c] \in {"exec", "excl"}
          /\ a = "atomic" => pc[c] # "exec"
  BY Zenon DEF Mmio, InGuest, Move, LInv, Where, Spot
<1>2. /\ at[c] \in {"exec", "atomic", "mmiowait", "mmio"}
      /\ UNCHANGED <<pc, has_waiter, exit_request, stop, stopped, work_list, owes>>
  BY Zenon DEF Mmio, InGuest, Move, exclVars, guestVars
<1>3. Spot(a, pc[c]) /\ a \in Spots
  BY Zenon, <1>1 DEF Spot, Spots
<1>4. ~stopped[c]
  BY Zenon, <1>2 DEF LInv, Quiet
<1>. QED
  BY Zenon, <1>1, <1>2, <1>3, <1>4, ShiftKeeps

(* cpu_handle_interrupt clears exit_request, but the vCPU leaves.          *)
LEMMA HandleExitKeeps ==
    ASSUME LInv, NEW c \in Cpus, HandleExit(c)
    PROVE  LInv'
<1>1. /\ at[c] = "exec" /\ at' = [at EXCEPT ![c] = "leave"] /\ pc[c] = "exec"
      /\ exit_request' = [exit_request EXCEPT ![c] = FALSE]
      /\ UNCHANGED <<pc, has_waiter, stop, stopped, work_list, owes>>
  BY Zenon DEF HandleExit, InGuest, Move, exclVars, guestVars
<1>2. Spot("leave", pc[c]) /\ "leave" \in Spots /\ ~stopped[c]
  BY Zenon, <1>1 DEF Spot, Spots, LInv, Quiet
<1>. QED
  BY Zenon, <1>1, <1>2, ShiftKeeps

(* Back from tcg_cpus_exec, exit_request is cleared on the way to the test *)
(* of the work.                                                            *)
LEMMA AfterExecKeeps ==
    ASSUME LInv, NEW c \in Cpus, AfterExec(c)
    PROVE  LInv'
<1>. c # 0
  BY DEF Cpus
<1>1. /\ at[c] \in {"exec", "leave"} /\ pc[c] = "out"
      /\ UNCHANGED <<pc, has_waiter, stop, stopped, work_list, owes>>
  BY Zenon DEF AfterExec, exclVars, guestVars
<1>2. \/ /\ at' = [at EXCEPT ![c] = "event"]
         /\ exit_request' = [exit_request EXCEPT ![c] = FALSE]
      \/ /\ at' = [at EXCEPT ![c] = "step"] /\ at[c] = "exec"
         /\ exit_request' = exit_request
  BY Zenon DEF AfterExec
<1>3. /\ Spot("event", pc[c]) /\ Spot("step", pc[c]) /\ ~stopped[c]
      /\ "event" \in Spots /\ "step" \in Spots
  BY Zenon, <1>1 DEF Spot, Spots, LInv, Quiet
<1>4. CASE at' = [at EXCEPT ![c] = "event"] /\ exit_request' = [exit_request EXCEPT ![c] = FALSE]
  BY Zenon, <1>1, <1>3, <1>4, ShiftKeeps
<1>5. CASE at' = [at EXCEPT ![c] = "step"] /\ at[c] = "exec" /\ exit_request' = exit_request
  BY Zenon, <1>1, <1>3, <1>5, ShiftKeeps
<1>. QED
  BY Zenon, <1>2, <1>4, <1>5

(* qemu_wait_io_event_common obeys the pause before it looks at the work.  *)
LEMMA CommonKeeps ==
    ASSUME IInv, LInv, NEW c \in Cpus, Common(c)
    PROVE  LInv'
<1>1. PICK a \in {"top", "work"} :
          at' = [at EXCEPT ![c] = a] /\ (a = "top" => work_list[c] = <<>>)
  BY Zenon DEF Common, Move
<1>2. /\ at[c] = "event"
      /\ stop' = [stop EXCEPT ![c] = FALSE]
      /\ stopped' = [stopped EXCEPT ![c] = @ \/ stop[c]]
      /\ UNCHANGED <<pc, has_waiter, exit_request, work_list, owes>>
  BY Zenon DEF Common, Move, exclVars
<1>3. pc[c] = "out" /\ ~has_waiter[c]
  BY Zenon, <1>2, NotWaitedFor DEF LInv, Where, Spot
<1>4. LTypes'
  BY Zenon, <1>1, <1>2 DEF LInv, LTypes, Spots
<1>5. Where' /\ Owing' /\ Quiet'
  BY Zenon, <1>1, <1>2, <1>3 DEF LInv, LTypes, Where, Spot, Owing, Quiet
<1>6. Asked'
  BY Zenon, <1>1, <1>2, <1>3 DEF LInv, LTypes, Asked, Needed, Due
<1>. QED
  BY Zenon, <1>4, <1>5, <1>6 DEF LInv

(* With the work done, only a pause that set exit_request can be pending.  *)
LEMMA ProcessedKeeps ==
    ASSUME IInv, LInv, NEW c \in Cpus, Processed(c)
    PROVE  LInv'
<1>1. /\ at[c] = "work" /\ at' = [at EXCEPT ![c] = "top"]
      /\ work_list[c] = <<>>
      /\ UNCHANGED <<pc, has_waiter, exit_request, stop, stopped, work_list, owes>>
  BY Zenon DEF Processed, Move, exclVars, guestVars
<1>2. pc[c] = "out" /\ ~has_waiter[c]
  BY Zenon, <1>1, NotWaitedFor DEF LInv, Where, Spot
<1>. QED
  BY Zenon, <1>1, <1>2 DEF LInv, LTypes, Where, Spot, Spots, Owing, Asked, Quiet, Needed, Due

(* The steps inside the calls of Exclusive: only start_exclusive's loop    *)
(* marks a vCPU, and it kicks the one it marks.                            *)
LEMMA ExclKeeps ==
    ASSUME IInv, LInv, NEW c \in Cpus,
           \/ InCall(c) \/ KickScanned(c) \/ Woken(c) \/ EnterExec(c) \/ LeaveExec(c)
           \/ AtomicStep(c) \/ StepAtomic(c) \/ SafeStart(c)
    PROVE  LInv'
<1>. USE DEF LInv, LTypes, Where, Spot, Spots, Owing, Asked, Quiet, Needed, Due
<1>1. CASE InCall(c)
  <2>1. UNCHANGED <<at, exit_request, stop, stopped, work_list, owes>>
    BY Zenon, <1>1 DEF InCall, loopVars
  <2>2. \A k \in Cpus : has_waiter'[k] => has_waiter[k]
    BY Zenon, <1>1 DEF InCall, StartFast, StartSlow, StartCounted, StartWait, EndFast, EndSlow, EndLocked,
       ExclIdle, ExclWait, ExclResume, ExclEnd, IInv, ExclTypeOK
  <2>3. PICK p : /\ pc' = [pc EXCEPT ![c] = p]
                 /\ \/ pc[c] \in {"s1", "slock", "sidle"} /\ p \in {"slock", "sidle", "exec"}
                    \/ pc[c] \in {"e1", "elock"} /\ p \in {"elock", "out"}
                    \/ /\ pc[c] \in {"x1", "xidle", "xscan", "xwait", "excl", "xend"}
                       /\ pc[c] = "excl" => at[c] \notin {"mmiowait", "mmio"}
                       /\ p \in {"xidle", "xscan", "xwait", "excl", "xend", "out"}
    BY Zenon, <1>1 DEF InCall, StartFast, StartSlow, StartCounted, StartWait, EndFast, EndSlow, EndLocked,
       ExclIdle, ExclWait, ExclResume, ExclEnd, Goto
  <2>4. \A k \in Cpus : Spot(at[k], pc'[k])
    BY Zenon, <2>3 DEF IInv, ExclTypeOK
  <2>. QED
    BY Zenon, <2>1, <2>2, <2>4
<1>2. CASE KickScanned(c)
  BY Zenon, <1>2 DEF KickScanned, ExclScan, Kick, guestVars, loopVars, IInv, ExclTypeOK
<1>3. CASE Woken(c)
  BY Zenon, <1>3 DEF Woken, Spurious, loopVars, IInv, ExclTypeOK
<1>4. CASE EnterExec(c)
  BY Zenon, <1>4 DEF EnterExec, StartRunning, Goto, guestVars, loopVars, IInv, ExclTypeOK
<1>5. CASE LeaveExec(c)
  BY Zenon, <1>5 DEF LeaveExec, EndRunning, Goto, loopVars, IInv, ExclTypeOK
<1>6. CASE AtomicStep(c)
  BY Zenon, <1>6 DEF AtomicStep, ExclStep, loopVars, IInv, ExclTypeOK
<1>7. CASE StepAtomic(c)
  BY Zenon, <1>7 DEF StepAtomic, ExclCall, Goto, guestVars, loopVars, IInv, ExclTypeOK
<1>8. CASE SafeStart(c)
  BY Zenon, <1>8 DEF SafeStart, ExclCall, Goto, guestVars, loopVars, IInv, ExclTypeOK
<1>. QED
  BY Zenon, <1>1, <1>2, <1>3, <1>4, <1>5, <1>6, <1>7, <1>8

(* The other steps of the loop of a vCPU thread.                           *)
LEMMA LoopKeeps ==
    ASSUME IInv, LInv, NEW c \in Cpus,
           \/ Start(c) \/ CannotRun(c) \/ Run(c) \/ AfterAtomic(c) \/ TestIdle(c) \/ Sleep(c)
           \/ Wake(c) \/ Process(c) \/ ProcessSafe(c) \/ SafeDone(c) \/ Interrupt(c)
    PROVE  LInv'
<1>0. LTypes /\ Spot(at[c], pc[c]) /\ (stopped[c] => at[c] \notin {"run", "exec", "leave", "step", "atomic"})
  BY Zenon DEF LInv, Where, Quiet
<1>1. ASSUME NEW a \in {"top", "run", "event", "idle", "halt", "work"},
             at' = [at EXCEPT ![c] = a], UNCHANGED <<pc, has_waiter, stop, stopped, work_list, owes>>,
             pc[c] = "out", at[c] # "kick", a = "run" => ~stopped[c],
             \/ /\ UNCHANGED exit_request
                /\ \/ at[c] \in {"start", "top"} /\ a # "work"
                   \/ a \in {"event", "idle", "halt"}
                   \/ at[c] = "alone" /\ a = "work"
             \/ /\ exit_request' = [exit_request EXCEPT ![c] = FALSE]
                /\ a = "event"
      PROVE  LInv'
  <2>1. Spot(a, pc[c]) /\ a \in Spots
    BY Zenon, <1>1 DEF Spot, Spots
  <2>. QED
    BY Zenon, <1>1, <2>1, ShiftKeeps
<1>. USE DEF exclVars, guestVars, Move
<1>2. CASE Start(c)
  BY Zenon, <1>0, <1>1, <1>2 DEF Start, Spot
<1>3. CASE CannotRun(c)
  BY Zenon, <1>0, <1>1, <1>3 DEF CannotRun, Spot
<1>4. CASE Run(c)
  BY Zenon, <1>0, <1>1, <1>4 DEF Run, cpu_can_run, cpu_is_stopped, Spot
<1>5. CASE AfterAtomic(c)
  BY Zenon, <1>0, <1>1, <1>5 DEF AfterAtomic, Spot
<1>6. CASE TestIdle(c)
  BY Zenon, <1>0, <1>1, <1>6 DEF TestIdle, Spot
<1>7. CASE Sleep(c)
  BY Zenon, <1>0, <1>1, <1>7 DEF Sleep, Spot
<1>8. CASE Wake(c)
  BY Zenon, <1>0, <1>1, <1>8 DEF Wake, Spot
<1>9. CASE SafeDone(c)
  BY Zenon, <1>0, <1>1, <1>9 DEF SafeDone, Spot
<1>10. CASE Process(c) \/ ProcessSafe(c)
  <2>1. PICK a \in {"work", "safe"} : at' = [at EXCEPT ![c] = a]
    BY Zenon, <1>10 DEF Process, ProcessSafe
  <2>2. /\ at[c] = "work" /\ work_list' = [work_list EXCEPT ![c] = Tail(work_list[c])] /\ work_list[c] # <<>>
        /\ UNCHANGED <<pc, has_waiter, exit_request, stop, stopped, owes>>
    BY Zenon, <1>10 DEF Process, ProcessSafe
  <2>3. /\ work_list' \in [Cpus -> Seq(Items)]
        /\ \A k \in Cpus : k # c => work_list'[k] = work_list[k]
    BY <2>2 DEF LInv, LTypes
  <2>4. /\ at' \in [Cpus -> Spots] /\ at'[c] = a
        /\ \A k \in Cpus : k # c => at'[k] = at[k]
    BY Zenon, <2>1 DEF LInv, LTypes, Spots
  <2>5. LTypes' /\ Owing'
    BY Zenon, <2>2, <2>3, <2>4 DEF LInv, LTypes, Owing
  <2>6. Where' /\ Quiet'
    BY Zenon, <1>0, <2>2, <2>4 DEF LInv, Where, Spot, Quiet
  <2>7. Asked'
    BY Zenon, <2>2, <2>3, <2>4 DEF LInv, Asked, Needed, Due
  <2>. QED
    BY Zenon, <2>5, <2>6, <2>7 DEF LInv
<1>11. CASE Interrupt(c)
  BY Zenon, <1>11 DEF Interrupt, Kick, LInv, LTypes, Where, Owing, Asked, Quiet, Needed, Due
<1>. QED
  BY Zenon, <1>2, <1>3, <1>4, <1>5, <1>6, <1>7, <1>8, <1>9, <1>10, <1>11

(* The steps of the I/O thread but for queued work.                        *)
LEMMA IoKeeps ==
    ASSUME LInv, IoTake \/ IoRelease \/ RunOnCpuWait \/ PauseStart \/ PauseWait \/ ResumeAll
    PROVE  LInv'
<1>. USE DEF LInv, LTypes, Where, Owing, Asked, Quiet, Needed, Due, exclVars, guestVars
<1>1. CASE IoTake
  BY Zenon, <1>1 DEF IoTake
<1>2. CASE IoRelease
  BY Zenon, <1>2 DEF IoRelease
<1>3. CASE RunOnCpuWait
  BY Zenon, <1>3 DEF RunOnCpuWait
<1>4. CASE PauseStart
  BY Zenon, <1>4 DEF PauseStart, Kick
<1>5. CASE PauseWait
  BY Zenon, <1>5 DEF PauseWait, Kick
<1>6. CASE ResumeAll
  BY Zenon, <1>6 DEF ResumeAll, Kick
<1>. QED
  BY Zenon, <1>1, <1>2, <1>3, <1>4, <1>5, <1>6

(* Every step keeps the invariant.                                         *)
LEMMA NextLInv == IInv /\ LInv /\ [Next]_vars => LInv'
<1>. SUFFICES ASSUME IInv, LInv, [Next]_vars PROVE LInv'
  BY Zenon
<1>1. CASE UNCHANGED vars
  BY Zenon, <1>1 DEF vars, exclVars, loopVars, LInv, LTypes, Where, Owing, Asked, Quiet, Needed, Due
<1>2. ASSUME NEW c \in Cpus, NEW i \in Items, Queue(c, i) PROVE LInv'
  BY Zenon, <1>2, QueuedKeeps DEF Queue, exclVars
<1>. QED
  BY Zenon, <1>1, <1>2, ExclKeeps, LoopKeeps, IoKeeps, MmioKeeps, GuestQueuedKeeps, KickQueuedKeeps,
     HandleExitKeeps, AfterExecKeeps, CommonKeeps, ProcessedKeeps DEF Next

(* The threads start outside, with exit_request set.                       *)
LEMMA InitLInv == Init => LInv
BY DEF Init, ExclInit, LInv, LTypes, Where, Spot, Spots, Owing, Asked, Quiet, Needed, Due

(* The machine does not run: a pause is on its way, or has come to its end.*)
Still == ~runstate => io = "pause" \/ all_vcpus_paused

(* Only qemu_cpu_stop and cpu_resume write stopped, and resume_all_vcpus   *)
(* leaves a machine alone that does not run.                               *)
LEMMA NextStill == LInv /\ Still /\ [Next]_vars => Still'
<1>. SUFFICES ASSUME LInv, Still, [Next]_vars PROVE Still'
  BY Zenon
<1>1. CASE UNCHANGED vars
  BY Zenon, <1>1 DEF vars, loopVars, Still, all_vcpus_paused
<1>2. ASSUME NEW c \in Cpus,
             \/ InCall(c) \/ KickScanned(c) \/ Woken(c)
             \/ Start(c) \/ CannotRun(c) \/ Run(c) \/ EnterExec(c) \/ Mmio(c)
             \/ QueueFromGuest(c) \/ KickQueued(c) \/ HandleExit(c) \/ LeaveExec(c) \/ AtomicStep(c)
             \/ AfterExec(c) \/ StepAtomic(c) \/ AfterAtomic(c)
             \/ TestIdle(c) \/ Sleep(c) \/ Wake(c)
             \/ Process(c) \/ ProcessSafe(c) \/ SafeStart(c) \/ SafeDone(c) \/ Processed(c)
             \/ Interrupt(c)
      PROVE  Still'
  <2>1. UNCHANGED <<runstate, io, stopped>>
    BY Zenon, <1>2 DEF InCall, KickScanned, Woken, Start, CannotRun, Run, EnterExec, Mmio, QueueFromGuest,
       KickQueued, HandleExit, LeaveExec, AtomicStep, AfterExec, StepAtomic, AfterAtomic, TestIdle, Sleep,
       Wake, Process, ProcessSafe, SafeStart, SafeDone, Processed, Interrupt, loopVars, guestVars, ioVars
  <2>. QED
    BY Zenon, <2>1 DEF Still, all_vcpus_paused
<1>3. ASSUME NEW c \in Cpus, Common(c) PROVE Still'
  BY Zenon, <1>3 DEF Common, LInv, LTypes, Still, all_vcpus_paused
<1>4. ASSUME NEW c \in Cpus, NEW i \in Items, Queue(c, i) PROVE Still'
  BY Zenon, <1>4 DEF Queue, Still, all_vcpus_paused
<1>5. CASE IoTake \/ IoRelease \/ RunOnCpuWait
  BY Zenon, <1>5 DEF IoTake, IoRelease, RunOnCpuWait, guestVars, Still, all_vcpus_paused
<1>6. CASE PauseStart \/ PauseWait \/ ResumeAll
  BY Zenon, <1>6 DEF PauseStart, PauseWait, ResumeAll, guestVars, Still, all_vcpus_paused
<1>. QED
  BY Zenon, <1>1, <1>2, <1>3, <1>4, <1>5, <1>6 DEF Next

(* For any number of vCPUs, one that has a pause or an exclusive section   *)
(* waiting for it while it is in guest code has exit_request set, and one  *)
(* that has work has it set or its kick is due: neither the loop of        *)
(* mttcg_cpu_thread_fn nor cpu_handle_interrupt drops a request.           *)
THEOREM AskedToLeaveHolds == Spec => []AskedToLeave
<1>1. LInv => AskedToLeave
  <2>. SUFFICES ASSUME LInv, NEW k \in Cpus, pc[k] = "exec", at[k] # "leave"
                PROVE  /\ stop[k] \/ has_waiter[k] => exit_request[k]
                       /\ work_list[k] # <<>> => exit_request[k] \/ \E j \in Cpus : owes[j] = k
    BY Zenon DEF AskedToLeave
  <2>1. at[k] \in {"exec", "kick", "mmiowait", "mmio"}
    BY Zenon DEF LInv, LTypes, Where, Spot, Spots
  <2>. QED
    BY Zenon, <2>1 DEF LInv, Asked, Needed, Due
<1>2. Spec => []IInv
  BY LoopUsesSections, InitIInv, NextIInv, PTL DEF ExclSpec
<1>. QED
  BY <1>1, <1>2, InitLInv, NextLInv, PTL DEF Spec

(* For any number of vCPUs, a stopped one is not in guest code and not on  *)
(* its way there, and a machine that does not run is paused, or is being   *)
(* paused.                                                                 *)
THEOREM PausedQuietHolds == Spec => []PausedQuiet
<1>1. LInv /\ Still => PausedQuiet
  BY Zenon DEF LInv, LTypes, Where, Spot, Spots, Quiet, Still, PausedQuiet
<1>2. Spec => []IInv
  BY LoopUsesSections, InitIInv, NextIInv, PTL DEF ExclSpec
<1>3. Init => Still
  BY Zenon DEF Init, Still, all_vcpus_paused
<1>. QED
  BY <1>1, <1>2, <1>3, InitLInv, NextLInv, NextStill, PTL DEF Spec

-----------------------------------------------------------------------------
(* Who holds the BQL, how long the lists are, and who sleeps.              *)
Holding == {"top", "event", "idle", "work", "mmio"}

Held ==
    /\ bql \in 0 .. Io /\ io \in {"idle", "has", "sync", "pause"}
    /\ \A c \in Cpus : bql = c <=> at[c] \in Holding
    /\ bql = Io <=> io = "has"

Short == \A c \in Cpus : Len(work_list[c]) <= MaxWork

Asleep == halt_cond \subseteq {c \in Cpus : at[c] = "halt"}

TInv == Held /\ Short /\ Asleep

(* What the I/O thread waits for, also while it is awake and has not       *)
(* looked yet: the item done or in the list of a vCPU that will come to    *)
(* it, and every vCPU stopped or asked to.                                 *)
HasSync(s) == \E k \in 1 .. Len(s) : s[k] = "sync"
Coming(c) == c \notin halt_cond /\ at[c] # "idle"

Replies ==
    /\ io_asleep \in BOOLEAN /\ done \in BOOLEAN
    /\ io_asleep => io \in {"sync", "pause"}
    /\ io = "sync" => done \/ \E c \in Cpus : Coming(c) /\ HasSync(work_list[c])
    /\ io = "sync" /\ io_asleep /\ done => \E c \in Cpus : at[c] \in {"work", "safe", "alone"}
    /\ io = "pause" => \A c \in Cpus : stop[c] \/ stopped[c]
    /\ io = "pause" /\ io_asleep => \E c \in Cpus : Coming(c) /\ stop[c]

(* A vCPU thread takes the BQL, drops it or moves with or without it.      *)
LEMMA MoveKeeps ==
    ASSUME LTypes, TInv, NEW c \in Cpus, NEW a, at' = [at EXCEPT ![c] = a], io' = io,
           \/ bql' = bql /\ (a \in Holding <=> at[c] \in Holding)
           \/ bql = 0 /\ bql' = c /\ a \in Holding
           \/ bql = c /\ bql' = 0 /\ a \notin Holding,
           \/ halt_cond' \subseteq halt_cond /\ (a # at[c] => at[c] # "halt" \/ c \notin halt_cond)
           \/ halt_cond' = halt_cond \union {c} /\ a = "halt",
           \A k \in Cpus : Len(work_list'[k]) <= MaxWork
    PROVE  TInv'
<1>0. NCpus \in Nat /\ Cpus = 1 .. NCpus /\ Io = NCpus + 1 /\ c # 0 /\ c # Io
  BY ExclusiveAssumption DEF Cpus, Io
<1>1. at'[c] = a /\ \A k \in Cpus : k # c => at'[k] = at[k]
  BY Zenon DEF LTypes
<1>2. Held'
  <2>1. bql' \in 0 .. Io
    BY <1>0 DEF TInv, Held
  <2>2. bql' = Io <=> bql = Io
    BY <1>0 DEF TInv, Held
  <2>3. ASSUME NEW k \in Cpus PROVE bql' = k <=> at'[k] \in Holding
    <3>1. k # 0
      BY <1>0
    <3>. QED
      BY <1>1, <3>1 DEF TInv, Held
  <2>. QED
    BY Zenon, <2>1, <2>2, <2>3 DEF TInv, Held
<1>3. Short'
  BY Zenon DEF Short
<1>4. Asleep'
  BY Zenon, <1>1 DEF TInv, Asleep
<1>. QED
  BY Zenon, <1>2, <1>3, <1>4 DEF TInv

(* The lists and their requests to the I/O thread.                         *)
LEMMA HasSyncKept ==
    ASSUME NEW s \in Seq(Items)
    PROVE  /\ \A i \in Items : HasSync(s) => HasSync(Append(s, i))
           /\ HasSync(Append(s, "sync"))
           /\ HasSync(s) => s # <<>>
           /\ s # <<>> /\ HasSync(s) => Head(s) = "sync" \/ HasSync(Tail(s))
           /\ s # <<>> => Tail(s) \in Seq(Items) /\ Len(Tail(s)) <= Len(s)
<1>1. Len(s) \in Nat
  OBVIOUS
<1>2. ASSUME NEW i \in Items, HasSync(s) PROVE HasSync(Append(s, i))
  <2>1. PICK k \in 1 .. Len(s) : s[k] = "sync"
    BY Zenon, <1>2 DEF HasSync
  <2>2. k \in 1 .. Len(Append(s, i)) /\ Append(s, i)[k] = "sync"
    BY <2>1
  <2>. QED
    BY Zenon, <2>2 DEF HasSync
<1>3. HasSync(Append(s, "sync"))
  <2>1. "sync" \in Items
    BY Zenon DEF Items
  <2>2. Len(s) + 1 \in 1 .. Len(Append(s, "sync")) /\ Append(s, "sync")[Len(s) + 1] = "sync"
    BY <1>1, <2>1
  <2>. QED
    BY Zenon, <2>2 DEF HasSync
<1>4. HasSync(s) => s # <<>>
  BY DEF HasSync
<1>5. ASSUME s # <<>>, HasSync(s) PROVE Head(s) = "sync" \/ HasSync(Tail(s))
  <2>1. PICK k \in 1 .. Len(s) : s[k] = "sync"
    BY Zenon, <1>5 DEF HasSync
  <2>2. CASE k = 1
    BY <2>1, <2>2
  <2>3. CASE k # 1
    <3>1. k - 1 \in 1 .. Len(Tail(s)) /\ Tail(s)[k - 1] = "sync"
      BY <1>1, <1>5, <2>1, <2>3
    <3>. QED
      BY Zenon, <3>1 DEF HasSync
  <2>. QED
    BY Zenon, <2>2, <2>3
<1>6. s # <<>> => Tail(s) \in Seq(Items) /\ Len(Tail(s)) <= Len(s)
  BY <1>1
<1>. QED
  BY Zenon, <1>2, <1>3, <1>4, <1>5, <1>6

(* A vCPU thread that moves, but past a broadcast or an item, owes what it *)
(* owed: it is about to sleep only without work and without a pause.       *)
LEMMA MoveOwes ==
    ASSUME LTypes, Replies, NEW c \in Cpus, \A k \in Cpus : k # c => at'[k] = at[k],
           io' = io, io_asleep' = io_asleep, done' = done,
           work_list' = work_list, stop' = stop, stopped' = stopped,
           at'[c] = at[c] \/ (at'[c] = "idle" => work_list[c] = <<>> /\ ~stop[c]),
           at[c] \in {"work", "safe", "alone"} => at'[c] \in {"work", "safe", "alone"},
           halt_cond' \subseteq halt_cond \/ (halt_cond' = halt_cond \union {c} /\ at[c] = "idle")
    PROVE  Replies'
<1>1. ASSUME NEW k \in Cpus, Coming(k), work_list[k] # <<>> \/ stop[k] PROVE Coming(k)'
  BY Zenon, <1>1 DEF Coming
<1>2. \A k \in Cpus : HasSync(work_list[k]) => work_list[k] # <<>>
  BY Zenon, HasSyncKept DEF LTypes
<1>3. io = "sync" => done \/ \E k \in Cpus : Coming(k)' /\ HasSync(work_list[k])
  BY Zenon, <1>1, <1>2 DEF Replies
<1>4. io = "sync" /\ io_asleep /\ done => \E k \in Cpus : at'[k] \in {"work", "safe", "alone"}
  BY Zenon DEF Replies
<1>5. io = "pause" /\ io_asleep => \E k \in Cpus : Coming(k)' /\ stop[k]
  BY Zenon, <1>1 DEF Replies
<1>. QED
  BY Zenon, <1>3, <1>4, <1>5 DEF Replies, HasSync

(* The steps of a vCPU thread that change no list and wake nobody.         *)
LEMMA PlainOwes ==
    ASSUME IInv, LInv, TInv, Replies, NEW c \in Cpus,
           \/ InCall(c) \/ KickScanned(c) \/ Woken(c) \/ Start(c) \/ CannotRun(c) \/ Run(c)
           \/ EnterExec(c) \/ Mmio(c) \/ KickQueued(c) \/ HandleExit(c) \/ LeaveExec(c)
           \/ AtomicStep(c) \/ AfterExec(c) \/ StepAtomic(c) \/ AfterAtomic(c) \/ TestIdle(c) \/ Sleep(c) \/ Wake(c)
           \/ SafeStart(c) \/ SafeDone(c) \/ Interrupt(c)
    PROVE  TInv' /\ Replies'
<1>0. LTypes /\ at \in [Cpus -> Spots] /\ c # 0
  BY DEF LInv, LTypes, Cpus
<1>1. ASSUME NEW a, at' = [at EXCEPT ![c] = a],
             UNCHANGED <<io, io_asleep, done, work_list, stop, stopped>>,
             a = at[c] \/ (a = "idle" => work_list[c] = <<>> /\ ~stop[c]),
             at[c] \in {"work", "safe", "alone"} => a \in {"work", "safe", "alone"},
             \/ bql' = bql /\ (a \in Holding <=> at[c] \in Holding)
             \/ bql = 0 /\ bql' = c /\ a \in Holding
             \/ bql = c /\ bql' = 0 /\ a \notin Holding,
             \/ halt_cond' \subseteq halt_cond /\ (a # at[c] => at[c] # "halt" \/ c \notin halt_cond)
             \/ halt_cond' = halt_cond \union {c} /\ a = "halt" /\ at[c] = "idle"
      PROVE  TInv' /\ Replies'
  <2>1. \A k \in Cpus : Len(work_list'[k]) <= MaxWork
    BY Zenon, <1>1 DEF TInv, Short
  <2>2. TInv'
    BY Zenon, <1>0, <1>1, <2>1, MoveKeeps
  <2>3. halt_cond' \subseteq halt_cond \/ (halt_cond' = halt_cond \union {c} /\ at[c] = "idle")
    BY Zenon, <1>1
  <2>4. /\ io' = io /\ io_asleep' = io_asleep /\ done' = done
        /\ work_list' = work_list /\ stop' = stop /\ stopped' = stopped
    BY Zenon, <1>1
  <2>5. at'[c] = a /\ \A k \in Cpus : k # c => at'[k] = at[k]
    BY Zenon, <1>0, <1>1
  <2>6. at'[c] = at[c] \/ (at'[c] = "idle" => work_list[c] = <<>> /\ ~stop[c])
    BY Zenon, <1>1, <2>5
  <2>7. at[c] \in {"work", "safe", "alone"} => at'[c] \in {"work", "safe", "alone"}
    BY Zenon, <1>1, <2>5
  <2>8. Replies'
    BY Zenon, <1>0, <2>3, <2>4, <2>5, <2>6, <2>7, MoveOwes
  <2>. QED
    BY Zenon, <2>2, <2>8
<1>2. CASE UNCHANGED <<at, bql, io, io_asleep, done, work_list, stop, stopped>> /\ halt_cond' \subseteq halt_cond
  <2>1. at' = [at EXCEPT ![c] = at[c]]
    BY Zenon, <1>0, <1>2
  <2>. QED
    BY Zenon, <1>1, <1>2, <2>1
<1>. USE DEF guestVars, ioVars, loopVars, Move, TakeBql, ReleaseBql, Holding
<1>3. CASE InCall(c) \/ KickScanned(c) \/ Woken(c) \/ LeaveExec(c) \/ AtomicStep(c) \/ Interrupt(c)
  BY Zenon, <1>2, <1>3 DEF InCall, KickScanned, Kick, Woken, LeaveExec, AtomicStep, Interrupt
<1>4. CASE Start(c)
  BY Zenon, <1>1, <1>4 DEF Start
<1>5. CASE CannotRun(c)
  BY Zenon, <1>1, <1>5 DEF CannotRun
<1>6. CASE Run(c)
  BY Zenon, <1>1, <1>6 DEF Run
<1>7. CASE EnterExec(c)
  BY Zenon, <1>1, <1>7 DEF EnterExec
<1>8. CASE Mmio(c)
  <2>1. /\ at[c] = "mmiowait" \/ at[c] \in {"exec", "atomic"} \/ at[c] = "mmio"
        /\ UNCHANGED <<io, io_asleep, done, work_list, stop, stopped, halt_cond>>
    BY Zenon, <1>8 DEF Mmio, InGuest
  <2>2. CASE at[c] \in {"exec", "atomic"}
    <3>1. at' = [at EXCEPT ![c] = "mmiowait"] /\ bql' = bql
      BY Zenon, <1>8, <2>2 DEF Mmio
    <3>. QED
      BY Zenon, <1>1, <2>1, <2>2, <3>1
  <2>3. CASE at[c] = "mmiowait"
    <3>1. at' = [at EXCEPT ![c] = "mmio"] /\ bql = 0 /\ bql' = c
      BY Zenon, <1>8, <2>3 DEF Mmio, InGuest
    <3>. QED
      BY Zenon, <1>1, <2>1, <2>3, <3>1
  <2>4. CASE at[c] = "mmio"
    <3>1. PICK a \in {"exec", "atomic"} : at' = [at EXCEPT ![c] = a]
      BY Zenon, <1>8, <2>4 DEF Mmio, InGuest
    <3>2. bql = c /\ bql' = 0
      BY Zenon, <1>8, <2>4 DEF Mmio, InGuest
    <3>. QED
      BY Zenon, <1>1, <2>1, <2>4, <3>1, <3>2
  <2>. QED
    BY Zenon, <2>1, <2>2, <2>3, <2>4
<1>17. CASE KickQueued(c)
  BY Zenon, <1>1, <1>17 DEF KickQueued, Kick
<1>18. CASE HandleExit(c)
  BY Zenon, <1>1, <1>18 DEF HandleExit
<1>9. CASE AfterExec(c)
  BY Zenon, <1>0, <1>1, <1>9 DEF AfterExec
<1>10. CASE StepAtomic(c)
  BY Zenon, <1>1, <1>10 DEF StepAtomic
<1>11. CASE AfterAtomic(c)
  BY Zenon, <1>1, <1>11 DEF AfterAtomic
<1>12. CASE TestIdle(c)
  BY Zenon, <1>1, <1>12 DEF TestIdle, cpu_thread_is_idle
<1>13. CASE Sleep(c)
  BY Zenon, <1>1, <1>13 DEF Sleep
<1>14. CASE Wake(c)
  BY Zenon, <1>1, <1>14 DEF Wake
<1>15. CASE SafeStart(c)
  BY Zenon, <1>1, <1>15 DEF SafeStart
<1>16. CASE SafeDone(c)
  BY Zenon, <1>1, <1>16 DEF SafeDone
<1>. QED
  BY Zenon, <1>3, <1>4, <1>5, <1>6, <1>7, <1>8, <1>9, <1>10, <1>11, <1>12, <1>13, <1>14, <1>15, <1>16, <1>17,
     <1>18

(* qemu_cpu_stop answers the pause; an item that is there is worked on.    *)
LEMMA CommonOwes ==
    ASSUME LInv, TInv, Replies, NEW c \in Cpus, Common(c)
    PROVE  TInv' /\ Replies'
<1>0. /\ LTypes /\ at \in [Cpus -> Spots] /\ stop \in [Cpus -> BOOLEAN] /\ stopped \in [Cpus -> BOOLEAN]
      /\ io_asleep \in BOOLEAN
  BY Zenon DEF LInv, LTypes, Replies
<1>1. PICK a \in {"top", "work"} : at' = [at EXCEPT ![c] = a] /\ (a = "top" => work_list[c] = <<>>)
  BY Zenon DEF Common, Move
<1>2. /\ at[c] = "event" /\ stop' = [stop EXCEPT ![c] = FALSE]
      /\ stopped' = [stopped EXCEPT ![c] = stopped[c] \/ stop[c]]
      /\ io_asleep' = (io_asleep /\ ~(stop[c] /\ io = "pause"))
      /\ UNCHANGED <<bql, work_list, done, halt_cond, io>>
  BY Zenon DEF Common, Move
<1>3. at'[c] = a /\ \A k \in Cpus : k # c => at'[k] = at[k] /\ stop'[k] = stop[k] /\ stopped'[k] = stopped[k]
  BY Zenon, <1>0, <1>1, <1>2
<1>4. TInv'
  <2>1. \A k \in Cpus : Len(work_list'[k]) <= MaxWork
    BY Zenon, <1>2 DEF TInv, Short
  <2>2. a \in Holding /\ at[c] \in Holding /\ at[c] # "halt"
    BY Zenon, <1>2 DEF Holding
  <2>. QED
    BY Zenon, <1>0, <1>1, <1>2, <2>1, <2>2, MoveKeeps
<1>5. \A k \in Cpus : Coming(k) => Coming(k)'
  BY Zenon, <1>2, <1>3 DEF Coming
<1>6. io = "sync" => done \/ \E k \in Cpus : Coming(k)' /\ HasSync(work_list[k])
  BY Zenon, <1>5 DEF Replies
<1>7. io = "sync" /\ io_asleep /\ done => \E k \in Cpus : at'[k] \in {"work", "safe", "alone"}
  BY Zenon, <1>2, <1>3 DEF Replies
<1>8. io = "pause" => \A k \in Cpus : stop'[k] \/ stopped'[k]
  BY Zenon, <1>0, <1>2, <1>3 DEF Replies
<1>9. io = "pause" /\ io_asleep' => \E k \in Cpus : Coming(k)' /\ stop'[k]
  BY Zenon, <1>2, <1>3, <1>5 DEF Replies
<1>10. io_asleep' => io_asleep
  BY Zenon, <1>2
<1>11. io_asleep' \in BOOLEAN
  BY Zenon, <1>0, <1>2
<1>12. Replies'
  BY Zenon, <1>2, <1>6, <1>7, <1>8, <1>9, <1>10, <1>11 DEF Replies, HasSync
<1>. QED
  BY Zenon, <1>4, <1>12

(* An item leaves the list: if it is the one waited for, it is done, and   *)
(* the vCPU has still to come to the broadcast.                            *)
LEMMA ProcessOwes ==
    ASSUME LInv, TInv, Replies, NEW c \in Cpus, Process(c) \/ ProcessSafe(c)
    PROVE  TInv' /\ Replies'
<1>0. /\ LTypes /\ at \in [Cpus -> Spots] /\ work_list \in [Cpus -> Seq(Items)] /\ work_list[c] \in Seq(Items)
      /\ io_asleep \in BOOLEAN /\ done \in BOOLEAN
  BY Zenon DEF LInv, LTypes, Replies
<1>1. PICK a \in {"work", "safe"} : at' = [at EXCEPT ![c] = a]
  BY Zenon DEF Process, ProcessSafe, Move
<1>2. /\ at[c] = "work" /\ work_list[c] # <<>>
      /\ work_list' = [work_list EXCEPT ![c] = Tail(work_list[c])]
      /\ done' = (done \/ Head(work_list[c]) = "sync")
      /\ UNCHANGED <<stop, stopped, halt_cond, io, io_asleep>>
  <2>1. CASE Process(c)
    BY Zenon, <2>1 DEF Process, Move, ioVars
  <2>2. CASE ProcessSafe(c)
    BY Zenon, <1>0, <2>2 DEF ProcessSafe, Move, ioVars
  <2>. QED
    BY Zenon, <2>1, <2>2
<1>3. at'[c] = a /\ \A k \in Cpus : k # c => at'[k] = at[k] /\ work_list'[k] = work_list[k]
  BY Zenon, <1>0, <1>1, <1>2
<1>4. work_list'[c] = Tail(work_list[c])
  BY Zenon, <1>0, <1>2
<1>5. TInv'
  <2>1. \A k \in Cpus : Len(work_list'[k]) <= MaxWork
    <3>1. Len(Tail(work_list[c])) <= Len(work_list[c]) /\ Tail(work_list[c]) \in Seq(Items)
      BY Zenon, <1>0, <1>2, HasSyncKept
    <3>2. Len(Tail(work_list[c])) \in Nat /\ Len(work_list[c]) \in Nat /\ MaxWork \in Nat
      BY <1>0, <3>1, CpuLoopAssumption
    <3>3. Len(work_list'[c]) <= MaxWork
      BY <1>4, <3>1, <3>2 DEF TInv, Short
    <3>. QED
      BY Zenon, <1>3, <3>3 DEF TInv, Short
  <2>2. \/ bql' = bql /\ (a \in Holding <=> at[c] \in Holding)
        \/ bql = c /\ bql' = 0 /\ a \notin Holding
    <3>1. CASE Process(c)
      <4>1. at' = at /\ bql' = bql
        BY Zenon, <1>0, <3>1 DEF Process, Move
      <4>. QED
        BY Zenon, <1>3, <4>1
    <3>2. CASE ProcessSafe(c)
      <4>1. at' = [at EXCEPT ![c] = "safe"] /\ bql = c /\ bql' = 0
        BY Zenon, <3>2 DEF ProcessSafe, Move, ReleaseBql
      <4>2. a = "safe"
        BY Zenon, <1>0, <1>3, <4>1
      <4>. QED
        BY Zenon, <4>1, <4>2 DEF Holding
    <3>. QED
      BY Zenon, <3>1, <3>2
  <2>. QED
    BY Zenon, <1>0, <1>1, <1>2, <2>1, <2>2, MoveKeeps
<1>6. \A k \in Cpus : Coming(k) => Coming(k)'
  BY Zenon, <1>2, <1>3 DEF Coming
<1>7. \A k \in Cpus : HasSync(work_list[k]) => HasSync(work_list'[k]) \/ done'
  <2>1. HasSync(work_list[c]) => Head(work_list[c]) = "sync" \/ HasSync(Tail(work_list[c]))
    BY Zenon, <1>0, <1>2, HasSyncKept
  <2>. QED
    BY Zenon, <1>2, <1>3, <1>4, <2>1
<1>8. io = "sync" => done' \/ \E k \in Cpus : Coming(k)' /\ HasSync(work_list'[k])
  BY Zenon, <1>2, <1>6, <1>7 DEF Replies
<1>9. at'[c] \in {"work", "safe", "alone"}
  BY Zenon, <1>3
<1>10. io = "pause" /\ io_asleep => \E k \in Cpus : Coming(k)' /\ stop[k]
  BY Zenon, <1>6 DEF Replies
<1>11. Replies'
  BY Zenon, <1>0, <1>2, <1>8, <1>9, <1>10 DEF Replies, HasSync
<1>. QED
  BY Zenon, <1>5, <1>11

(* The list is empty, and the broadcast wakes a run_on_cpu.                *)
LEMMA ProcessedOwes ==
    ASSUME LInv, TInv, Replies, NEW c \in Cpus, Processed(c)
    PROVE  TInv' /\ Replies'
<1>0. LTypes /\ at \in [Cpus -> Spots] /\ io_asleep \in BOOLEAN
  BY Zenon DEF LInv, LTypes, Replies
<1>1. /\ at[c] = "work" /\ at' = [at EXCEPT ![c] = "top"] /\ io_asleep' = (io_asleep /\ io # "sync")
      /\ UNCHANGED <<bql, stop, stopped, work_list, done, halt_cond, io>>
  BY Zenon DEF Processed, Move, guestVars
<1>2. at'[c] = "top" /\ \A k \in Cpus : k # c => at'[k] = at[k]
  BY Zenon, <1>0, <1>1
<1>3. TInv'
  <2>1. \A k \in Cpus : Len(work_list'[k]) <= MaxWork
    BY Zenon, <1>1 DEF TInv, Short
  <2>2. "top" \in Holding /\ at[c] \in Holding /\ at[c] # "halt"
    BY Zenon, <1>1 DEF Holding
  <2>. QED
    BY Zenon, <1>0, <1>1, <2>1, <2>2, MoveKeeps
<1>4. \A k \in Cpus : Coming(k) => Coming(k)'
  BY Zenon, <1>1, <1>2 DEF Coming
<1>5. io = "sync" => done \/ \E k \in Cpus : Coming(k)' /\ HasSync(work_list[k])
  BY Zenon, <1>4 DEF Replies
<1>6. io = "pause" /\ io_asleep => \E k \in Cpus : Coming(k)' /\ stop[k]
  BY Zenon, <1>4 DEF Replies
<1>7. io_asleep' \in BOOLEAN /\ (io_asleep' => io_asleep /\ io # "sync")
  BY Zenon, <1>0, <1>1
<1>8. Replies'
  BY Zenon, <1>1, <1>5, <1>6, <1>7 DEF Replies, HasSync
<1>. QED
  BY Zenon, <1>3, <1>8

(* The operations of the I/O thread leave every vCPU where it is; while it *)
(* has the BQL none of them is about to sleep.                             *)
LEMMA NobodyIdle ==
    ASSUME TInv, bql = 0 \/ bql = Io
    PROVE  \A k \in Cpus : at[k] # "idle"
<1>1. NCpus \in Nat /\ \A k \in Cpus : k # 0 /\ k # Io
  BY ExclusiveAssumption DEF Cpus, Io
<1>. QED
  BY Zenon, <1>1 DEF TInv, Held, Holding

(* Its steps keep who holds the BQL and who sleeps.                        *)
LEMMA IoHolds ==
    ASSUME TInv, at' = at, halt_cond' \subseteq halt_cond, io' \in {"idle", "has", "sync", "pause"},
           bql = 0 \/ bql = Io, bql' = 0 \/ bql' = Io, bql' = Io <=> io' = "has",
           \A k \in Cpus : Len(work_list'[k]) <= MaxWork
    PROVE  TInv'
<1>1. NCpus \in Nat /\ Io \in Nat /\ \A k \in Cpus : k # 0 /\ k # Io
  BY ExclusiveAssumption DEF Cpus, Io
<1>2. bql' \in 0 .. Io
  BY <1>1
<1>3. Held'
  BY Zenon, <1>1, <1>2 DEF TInv, Held
<1>4. Short'
  BY Zenon DEF Short
<1>5. Asleep'
  BY Zenon DEF TInv, Asleep
<1>. QED
  BY Zenon, <1>3, <1>4, <1>5 DEF TInv

(* An item put at the end of a list.                                       *)
LEMMA AppendKeeps ==
    ASSUME LTypes, TInv, NEW d \in Cpus, NEW i \in Items, Len(work_list[d]) < MaxWork,
           work_list' = [work_list EXCEPT ![d] = Append(work_list[d], i)]
    PROVE  /\ \A k \in Cpus : Len(work_list'[k]) <= MaxWork
           /\ \A k \in Cpus : HasSync(work_list[k]) => HasSync(work_list'[k])
           /\ i = "sync" => HasSync(work_list'[d])
<1>1. work_list[d] \in Seq(Items) /\ work_list'[d] = Append(work_list[d], i)
  BY Zenon DEF LTypes
<1>2. \A k \in Cpus : k # d => work_list'[k] = work_list[k]
  BY Zenon DEF LTypes
<1>3. Len(work_list'[d]) <= MaxWork
  <2>1. Len(work_list[d]) \in Nat /\ Len(Append(work_list[d], i)) = Len(work_list[d]) + 1 /\ MaxWork \in Nat
    BY <1>1, CpuLoopAssumption
  <2>. QED
    BY <1>1, <2>1
<1>4. HasSync(work_list[d]) => HasSync(Append(work_list[d], i))
  BY Zenon, <1>1, HasSyncKept
<1>5. HasSync(Append(work_list[d], "sync"))
  BY Zenon, <1>1, HasSyncKept
<1>. QED
  BY Zenon, <1>1, <1>2, <1>3, <1>4, <1>5 DEF TInv, Short

(* async_run_on_cpu and its exclusive form, called from guest code.        *)
LEMMA GuestQueueOwes ==
    ASSUME LInv, TInv, Replies, NEW c \in Cpus, QueueFromGuest(c)
    PROVE  TInv' /\ Replies'
<1>0. LTypes /\ at \in [Cpus -> Spots]
  BY Zenon DEF LInv, LTypes
<1>1. PICK d \in Cpus, i \in Items :
        /\ Len(work_list[d]) < MaxWork
        /\ work_list' = [work_list EXCEPT ![d] = Append(work_list[d], i)]
  BY Zenon DEF QueueFromGuest, Items
<1>2. /\ UNCHANGED <<bql, halt_cond, stop, stopped, done, io, io_asleep>>
      /\ at[c] = "exec" /\ at' = [at EXCEPT ![c] = "kick"]
  BY Zenon DEF QueueFromGuest, Move
<1>3. /\ \A k \in Cpus : Len(work_list'[k]) <= MaxWork
      /\ \A k \in Cpus : HasSync(work_list[k]) => HasSync(work_list'[k])
  BY Zenon, <1>0, <1>1, AppendKeeps
<1>4. TInv'
  <2>1. "kick" \notin Holding /\ at[c] \notin Holding /\ at[c] # "halt"
    BY Zenon, <1>2 DEF Holding
  <2>. QED
    BY Zenon, <1>0, <1>2, <1>3, <2>1, MoveKeeps
<1>5. /\ \A k \in Cpus : Coming(k) => Coming(k)'
      /\ \A k \in Cpus : at[k] \in {"work", "safe", "alone"} => at'[k] = at[k]
  <2>1. at'[c] = "kick" /\ \A k \in Cpus : k # c => at'[k] = at[k]
    BY Zenon, <1>0, <1>2
  <2>. QED
    BY Zenon, <1>2, <2>1 DEF Coming
<1>6. io = "sync" => done \/ \E k \in Cpus : Coming(k)' /\ HasSync(work_list'[k])
  BY Zenon, <1>3, <1>5 DEF Replies
<1>7. io = "pause" /\ io_asleep => \E k \in Cpus : Coming(k)' /\ stop[k]
  BY Zenon, <1>5 DEF Replies
<1>8. Replies'
  BY Zenon, <1>2, <1>5, <1>6, <1>7 DEF Replies, HasSync
<1>. QED
  BY Zenon, <1>4, <1>8

(* run_on_cpu queues its item with the BQL: the vCPU is not past its idle  *)
(* test, and the kick wakes it if it sleeps.                               *)
LEMMA QueueOwes ==
    ASSUME LInv, TInv, Replies, NEW c \in Cpus, NEW i \in Items, Queue(c, i)
    PROVE  TInv' /\ Replies'
<1>0. LTypes /\ at \in [Cpus -> Spots] /\ bql = Io
  BY Zenon DEF LInv, LTypes, TInv, Held, Queue
<1>1. /\ io = "has" /\ Len(work_list[c]) < MaxWork
      /\ work_list' = [work_list EXCEPT ![c] = Append(work_list[c], i)]
      /\ halt_cond' = halt_cond \ {c} /\ UNCHANGED <<at, stop, stopped>>
  BY Zenon DEF Queue, Kick
<1>2. /\ \A k \in Cpus : Len(work_list'[k]) <= MaxWork
      /\ i = "sync" => HasSync(work_list'[c])
  BY Zenon, <1>0, <1>1, AppendKeeps
<1>3. CASE i = "sync"
  <2>1. io' = "sync" /\ io_asleep' = TRUE /\ done' = FALSE /\ bql' = 0
    BY Zenon, <1>3 DEF Queue, ReleaseBql
  <2>2. Io # 0
    BY ExclusiveAssumption DEF Io
  <2>3. TInv'
    BY Zenon, <1>0, <1>1, <1>2, <2>1, <2>2, IoHolds
  <2>4. Coming(c)'
    BY Zenon, <1>0, <1>1, NobodyIdle DEF Coming
  <2>5. Replies'
    BY Zenon, <1>2, <1>3, <2>1, <2>4 DEF Replies, HasSync
  <2>. QED
    BY Zenon, <2>3, <2>5
<1>4. CASE i # "sync"
  <2>1. UNCHANGED <<io, io_asleep, done, bql>>
    BY Zenon, <1>4 DEF Queue
  <2>2. TInv'
    BY Zenon, <1>0, <1>1, <1>2, <2>1, IoHolds
  <2>3. Replies'
    BY Zenon, <1>1, <2>1 DEF Replies
  <2>. QED
    BY Zenon, <2>2, <2>3
<1>. QED
  BY Zenon, <1>3, <1>4

(* The I/O thread's own steps.                                             *)
LEMMA IoOwes ==
    ASSUME LInv, TInv, Replies, IoTake \/ IoRelease \/ RunOnCpuWait \/ PauseStart \/ PauseWait \/ ResumeAll
    PROVE  TInv' /\ Replies'
<1>0. /\ LTypes /\ at \in [Cpus -> Spots] /\ stop \in [Cpus -> BOOLEAN] /\ stopped \in [Cpus -> BOOLEAN]
      /\ NCpus \in Nat /\ Io \in Nat /\ Io # 0
  BY ExclusiveAssumption DEF LInv, LTypes, Io
<1>1. /\ at' = at /\ work_list' = work_list /\ halt_cond' \subseteq halt_cond
      /\ bql = 0 \/ bql = Io
  BY Zenon DEF IoTake, IoRelease, RunOnCpuWait, PauseStart, PauseWait, ResumeAll, TakeBql, ReleaseBql, Kick,
         guestVars, ioVars, TInv, Held
<1>2. /\ bql' = 0 \/ bql' = Io
      /\ bql' = Io <=> io' = "has"
      /\ io' \in {"idle", "has", "sync", "pause"}
  BY Zenon, <1>0 DEF IoTake, IoRelease, RunOnCpuWait, PauseStart, PauseWait, ResumeAll, TakeBql, ReleaseBql,
         guestVars, ioVars, TInv, Held
<1>3. \A k \in Cpus : Len(work_list'[k]) <= MaxWork
  BY Zenon, <1>1 DEF TInv, Short
<1>4. TInv'
  BY Zenon, <1>1, <1>2, <1>3, IoHolds
<1>5. \A k \in Cpus : at[k] # "idle"
  BY Zenon, <1>1, NobodyIdle
<1>. SUFFICES Replies'
  BY Zenon, <1>4
<1>6. CASE IoTake \/ IoRelease
  BY <1>6, SMTT(30) DEF IoTake, IoRelease, guestVars, Replies
<1>7. CASE ResumeAll
  BY Zenon, <1>7 DEF ResumeAll, ioVars, Replies
<1>8. CASE RunOnCpuWait
  <2>1. /\ io = "sync" /\ ~io_asleep /\ UNCHANGED <<at, stop, stopped, work_list, halt_cond>>
        /\ done' = FALSE
    BY Zenon, <1>8 DEF RunOnCpuWait
  <2>2. CASE done
    BY Zenon, <1>8, <2>1, <2>2 DEF RunOnCpuWait, Replies
  <2>3. CASE ~done
    <3>1. io_asleep' = TRUE /\ io' = io
      BY Zenon, <1>8, <2>3 DEF RunOnCpuWait
    <3>2. \E k \in Cpus : Coming(k)' /\ HasSync(work_list'[k])
      BY Zenon, <2>1, <2>3 DEF Replies, Coming, HasSync
    <3>. QED
      BY Zenon, <2>1, <3>1, <3>2 DEF Replies, HasSync
  <2>. QED
    BY Zenon, <2>2, <2>3
<1>9. CASE PauseStart \/ PauseWait
  <2>1. /\ halt_cond' = halt_cond \ Cpus /\ io' = IF all_vcpus_paused THEN "idle" ELSE "pause"
        /\ io_asleep' = ~all_vcpus_paused /\ UNCHANGED <<at, stopped, done>>
    BY Zenon, <1>9 DEF PauseStart, PauseWait, Kick, guestVars
  <2>2. \A k \in Cpus : stop'[k] \/ stopped'[k]
    <3>1. CASE PauseStart
      BY Zenon, <3>1 DEF PauseStart
    <3>2. CASE PauseWait
      BY Zenon, <3>2 DEF PauseWait, guestVars, Replies
    <3>. QED
      BY Zenon, <1>9, <3>1, <3>2
  <2>3. \A k \in Cpus : Coming(k)'
    BY Zenon, <1>5, <2>1 DEF Coming
  <2>4. CASE all_vcpus_paused
    BY Zenon, <2>1, <2>4 DEF Replies
  <2>5. CASE ~all_vcpus_paused
    <3>1. PICK k \in Cpus : ~stopped[k]
      BY Zenon, <2>5 DEF all_vcpus_paused
    <3>2. stop'[k] /\ Coming(k)'
      BY Zenon, <2>1, <2>2, <2>3, <3>1
    <3>3. io' = "pause" /\ io_asleep' = TRUE
      BY Zenon, <2>1, <2>5
    <3>. QED
      BY Zenon, <2>1, <2>2, <3>2, <3>3 DEF Replies
  <2>. QED
    BY Zenon, <2>4, <2>5
<1>. QED
  BY Zenon, <1>4, <1>6, <1>7, <1>8, <1>9

(* Every step keeps them, and they hold at the start.                      *)
LEMMA NextOwes == IInv /\ LInv /\ TInv /\ Replies /\ [Next]_vars => TInv' /\ Replies'
<1>. SUFFICES ASSUME IInv, LInv, TInv, Replies, [Next]_vars PROVE TInv' /\ Replies'
  BY Zenon
<1>1. CASE UNCHANGED vars
  BY Zenon, <1>1 DEF vars, loopVars, TInv, Held, Short, Asleep, Replies, Coming
<1>2. ASSUME NEW c \in Cpus, NEW i \in Items, Queue(c, i) PROVE TInv' /\ Replies'
  BY Zenon, <1>2, QueueOwes
<1>3. CASE IoTake \/ IoRelease \/ RunOnCpuWait \/ PauseStart \/ PauseWait \/ ResumeAll
  BY Zenon, <1>3, IoOwes
<1>4. ASSUME NEW c \in Cpus,
             \/ InCall(c) \/ KickScanned(c) \/ Woken(c) \/ Start(c) \/ CannotRun(c) \/ Run(c)
             \/ EnterExec(c) \/ Mmio(c) \/ KickQueued(c) \/ HandleExit(c) \/ LeaveExec(c)
             \/ AtomicStep(c) \/ AfterExec(c) \/ StepAtomic(c) \/ AfterAtomic(c) \/ TestIdle(c) \/ Sleep(c) \/ Wake(c)
             \/ SafeStart(c) \/ SafeDone(c) \/ Interrupt(c)
      PROVE  TInv' /\ Replies'
  BY Zenon, <1>4, PlainOwes
<1>5. ASSUME NEW c \in Cpus,
             Common(c) \/ Process(c) \/ ProcessSafe(c) \/ Processed(c) \/ QueueFromGuest(c)
      PROVE  TInv' /\ Replies'
  BY Zenon, <1>5, CommonOwes, ProcessOwes, ProcessedOwes, GuestQueueOwes
<1>. QED
  BY Zenon, <1>1, <1>2, <1>3, <1>4, <1>5 DEF Next

(* At the start the I/O thread waits for nothing.                          *)
LEMMA InitOwes == Init => TInv /\ Replies
<1>1. NCpus \in Nat /\ Io \in Nat /\ Io # 0 /\ \A k \in Cpus : k # 0
  BY ExclusiveAssumption DEF Cpus, Io
<1>2. MaxWork \in Nat /\ Len(<<>>) = 0
  BY Zenon, CpuLoopAssumption
<1>3. Init => Held
  BY <1>1 DEF Init, Held, Holding
<1>4. Init => Short
  <2>1. Init => \A k \in Cpus : Len(work_list[k]) = 0
    BY Zenon, <1>2 DEF Init
  <2>. QED
    BY <1>2, <2>1 DEF Short
<1>5. Init => Asleep /\ Replies
  BY Zenon DEF Init, Asleep, Replies
<1>. QED
  BY Zenon, <1>3, <1>4, <1>5 DEF TInv

(* The loop's invariants together.                                         *)
LEMMA LoopInvariant == Spec => [](IInv /\ LInv /\ TInv /\ Replies)
<1>1. Spec => []IInv
  BY LoopUsesSections, InitIInv, NextIInv, PTL DEF ExclSpec
<1>. QED
  BY <1>1, InitLInv, NextLInv, InitOwes, NextOwes, PTL DEF Spec

(* For any number of vCPUs and any bounds: the variables of the loop keep  *)
(* their types, and the BQL is held by a vCPU thread exactly between the   *)
(* places where mttcg_cpu_thread_fn takes it and drops it, and by the I/O  *)
(* thread exactly outside its waits.                                       *)
THEOREM LoopTypeCorrect == Spec => []TypeOK
<1>1. IInv /\ LInv /\ TInv => TypeOK
  BY Zenon DEF IInv, LInv, LTypes, Owing, TInv, Held, Holding, Short, Asleep, TypeOK
<1>. QED
  BY <1>1, LoopInvariant, PTL

(* For any number of vCPUs, the I/O thread never sleeps in run_on_cpu or   *)
(* pause_all_vcpus without a vCPU that is awake and will broadcast to it:  *)
(* the idle test of qemu_wait_io_event is made under the BQL, which the    *)
(* I/O thread keeps from the request until it sleeps.                      *)
THEOREM ReplyOwedHolds == Spec => []ReplyOwed
<1>1. LInv /\ TInv /\ Replies => ReplyOwed
  <2>. SUFFICES ASSUME LInv, TInv, Replies, io_asleep PROVE ReplyOwed
    BY Zenon DEF ReplyOwed
  <2>1. \A c \in Cpus : at[c] \in {"work", "safe", "alone"} => c \notin halt_cond
    BY Zenon DEF TInv, Asleep
  <2>2. CASE io = "sync" /\ done
    BY Zenon, <2>1, <2>2 DEF Replies, ReplyOwed
  <2>3. CASE io = "sync" /\ ~done
    BY Zenon, <2>3 DEF Replies, ReplyOwed, Coming, HasSync
  <2>4. CASE io = "pause"
    BY Zenon, <2>4 DEF Replies, ReplyOwed, Coming
  <2>. QED
    BY Zenon, <2>2, <2>3, <2>4 DEF Replies
<1>. QED
  BY <1>1, LoopInvariant, PTL
==============================================================================
