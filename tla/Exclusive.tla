------------------------------ MODULE Exclusive ------------------------------
(***************************************************************************)
(* Exclusive sections (src/cpu-common.c): a vCPU thread brackets guest     *)
(* code with cpu_exec_start and cpu_exec_end, and what must run alone with *)
(* start_exclusive and end_exclusive.  cpu->running and pending_cpus are   *)
(* read without qemu_cpu_list_lock, so a step is one such access, or what  *)
(* a thread does while it holds the lock, cut where another thread can see *)
(* the difference.  The barriers of the code make the accesses             *)
(* sequentially consistent.                                                *)
(***************************************************************************)
EXTENDS Integers, FiniteSets

CONSTANT NCpus    \* vCPUs on cpus_queue, in the order of CPU_FOREACH

ASSUME ExclusiveAssumption == NCpus \in Nat \ {0}

VARIABLES
    running,       \* cpu->running
    has_waiter,    \* cpu->has_waiter
    pending_cpus,
    lock,          \* the thread in start_exclusive's loop, which keeps
                   \* qemu_cpu_list_lock over several steps, or 0
    pc,
    scan,          \* the CPU that this loop comes to next
    running_cpus,  \* its local counter
    count,         \* cpu->exclusive_context_count
    asleep         \* threads in qemu_cond_wait not woken yet

exclVars == <<running, has_waiter, pending_cpus, lock, pc, scan, running_cpus, count, asleep>>

Cpus   == 1 .. NCpus
Labels == {"out", "s1", "slock", "sidle", "exec", "e1", "elock",
           "x1", "xidle", "xscan", "xwait", "excl", "xend"}

ExclInit ==
    /\ running = [c \in Cpus |-> FALSE]
    /\ has_waiter = [c \in Cpus |-> FALSE]
    /\ pending_cpus = 0
    /\ lock = 0
    /\ pc = [c \in Cpus |-> "out"]
    /\ scan = [c \in Cpus |-> 1]
    /\ running_cpus = [c \in Cpus |-> 0]
    /\ count = [c \in Cpus |-> 0]
    /\ asleep = {}

Goto(c, from, to) == pc[c] = from /\ pc' = [pc EXCEPT ![c] = to]
WithLock == lock = 0 /\ lock' = 0     \* takes and releases the list lock
OnResume == {c \in Cpus : pc[c] \in {"sidle", "xidle"}}   \* exclusive_resume
OnCond   == {c \in Cpus : pc[c] = "xwait"}                \* exclusive_cond
local    == <<scan, running_cpus, count>>

-----------------------------------------------------------------------------
(* cpu_exec_start                                                          *)
StartRunning(c) ==
    /\ Goto(c, "out", "s1")
    /\ running' = [running EXCEPT ![c] = TRUE]
    /\ UNCHANGED <<has_waiter, pending_cpus, lock, local, asleep>>

StartFast(c) ==
    /\ pending_cpus = 0
    /\ Goto(c, "s1", "exec")
    /\ UNCHANGED <<running, has_waiter, pending_cpus, lock, local, asleep>>

StartSlow(c) ==
    /\ pending_cpus # 0
    /\ Goto(c, "s1", "slock")
    /\ UNCHANGED <<running, has_waiter, pending_cpus, lock, local, asleep>>

StartCounted(c) ==
    /\ has_waiter[c]
    /\ Goto(c, "slock", "exec")
    /\ WithLock
    /\ UNCHANGED <<running, has_waiter, pending_cpus, local, asleep>>

(* exclusive_idle, entered for the first time or after a wake-up.          *)
StartWait(c) ==
    /\ pc[c] \in {"slock", "sidle"} /\ (pc[c] = "slock" => ~has_waiter[c])
    /\ c \notin asleep
    /\ WithLock
    /\ IF pending_cpus # 0
       THEN /\ pc' = [pc EXCEPT ![c] = "sidle"]
            /\ running' = [running EXCEPT ![c] = FALSE]
            /\ asleep' = asleep \union {c}
       ELSE /\ pc' = [pc EXCEPT ![c] = "exec"]
            /\ running' = [running EXCEPT ![c] = TRUE]
            /\ UNCHANGED asleep
    /\ UNCHANGED <<has_waiter, pending_cpus, local>>

-----------------------------------------------------------------------------
(* cpu_exec_end                                                            *)
EndRunning(c) ==
    /\ Goto(c, "exec", "e1")
    /\ running' = [running EXCEPT ![c] = FALSE]
    /\ UNCHANGED <<has_waiter, pending_cpus, lock, local, asleep>>

EndFast(c) ==
    /\ pending_cpus = 0
    /\ Goto(c, "e1", "out")
    /\ UNCHANGED <<running, has_waiter, pending_cpus, lock, local, asleep>>

EndSlow(c) ==
    /\ pending_cpus # 0
    /\ Goto(c, "e1", "elock")
    /\ UNCHANGED <<running, has_waiter, pending_cpus, lock, local, asleep>>

(* qemu_cond_signal(&exclusive_cond) wakes one thread, if one waits.       *)
Signal == IF OnCond \intersect asleep = {} THEN UNCHANGED asleep
          ELSE \E w \in OnCond \intersect asleep : asleep' = asleep \ {w}

EndNoSignal(c) ==                      \* mutant: signals at 0, not at 1
    /\ Goto(c, "elock", "out")
    /\ WithLock
    /\ has_waiter' = [has_waiter EXCEPT ![c] = FALSE]
    /\ pending_cpus' = IF has_waiter[c] THEN pending_cpus - 1 ELSE pending_cpus
    /\ IF has_waiter[c] /\ pending_cpus' = 0 THEN Signal ELSE UNCHANGED asleep
    /\ UNCHANGED <<running, local>>
EndAlways(c) ==                        \* mutant: has_waiter is not looked at
    /\ Goto(c, "elock", "out")
    /\ WithLock
    /\ has_waiter' = [has_waiter EXCEPT ![c] = FALSE]
    /\ pending_cpus' = pending_cpus - 1
    /\ IF pending_cpus' = 1 THEN Signal ELSE UNCHANGED asleep
    /\ UNCHANGED <<running, local>>
EndLocked(c) ==
    /\ Goto(c, "elock", "out")
    /\ WithLock
    /\ has_waiter' = [has_waiter EXCEPT ![c] = FALSE]
    /\ pending_cpus' = IF has_waiter[c] THEN pending_cpus - 1 ELSE pending_cpus
    /\ IF has_waiter[c] /\ pending_cpus' = 1 THEN Signal ELSE UNCHANGED asleep
    /\ UNCHANGED <<running, local>>

-----------------------------------------------------------------------------
(* start_exclusive                                                         *)
ExclCall(c) ==
    /\ Goto(c, "out", "x1")
    /\ UNCHANGED <<running, has_waiter, pending_cpus, lock, local, asleep>>

ExclIdle(c) ==                         \* exclusive_idle, and pending_cpus = 1
    /\ pc[c] \in {"x1", "xidle"} /\ c \notin asleep
    /\ lock = 0
    /\ IF pending_cpus # 0
       THEN /\ pc' = [pc EXCEPT ![c] = "xidle"]
            /\ asleep' = asleep \union {c}
            /\ UNCHANGED <<pending_cpus, lock, scan, running_cpus>>
       ELSE /\ pc' = [pc EXCEPT ![c] = "xscan"]
            /\ pending_cpus' = 1
            /\ lock' = c
            /\ scan' = [scan EXCEPT ![c] = 1]
            /\ running_cpus' = [running_cpus EXCEPT ![c] = 0]
            /\ UNCHANGED asleep
    /\ UNCHANGED <<running, has_waiter, count>>

ExclScan(c) ==                         \* one CPU of CPU_FOREACH
    LET k == scan[c]
    IN  /\ pc[c] = "xscan" /\ k \in Cpus
        /\ has_waiter' = [has_waiter EXCEPT ![k] = @ \/ running[k]]
        /\ running_cpus' = [running_cpus EXCEPT ![c] = IF running[k] THEN @ + 1 ELSE @]
        /\ scan' = [scan EXCEPT ![c] = k + 1]
        /\ UNCHANGED <<running, pending_cpus, lock, pc, count, asleep>>

ExclNoWait(c) ==                       \* mutant: does not wait
    /\ pc[c] = "xscan" /\ scan[c] = NCpus + 1
    /\ pending_cpus' = running_cpus[c] + 1
    /\ lock' = 0
    /\ pc' = [pc EXCEPT ![c] = "excl"]
    /\ count' = [count EXCEPT ![c] = 1]
    /\ scan' = [scan EXCEPT ![c] = 1]
    /\ running_cpus' = [running_cpus EXCEPT ![c] = 0]
    /\ UNCHANGED <<running, has_waiter, asleep>>
ExclWait(c) ==                         \* the wait for pending_cpus = 1
    /\ \/ pc[c] = "xscan" /\ scan[c] = NCpus + 1
          /\ pending_cpus' = running_cpus[c] + 1
       \/ pc[c] = "xwait" /\ c \notin asleep /\ lock = 0
          /\ UNCHANGED pending_cpus
    /\ lock' = 0
    /\ IF pending_cpus' > 1
       THEN /\ pc' = [pc EXCEPT ![c] = "xwait"]
            /\ asleep' = asleep \union {c}
            /\ UNCHANGED count
       ELSE /\ pc' = [pc EXCEPT ![c] = "excl"]
            /\ count' = [count EXCEPT ![c] = 1]
            /\ UNCHANGED asleep
    /\ scan' = [scan EXCEPT ![c] = 1]              \* the locals are dead
    /\ running_cpus' = [running_cpus EXCEPT ![c] = 0]
    /\ UNCHANGED <<running, has_waiter>>

(* Inside: cpu_exec_step_atomic sets cpu->running for the instruction,     *)
(* whose page table walk may nest a section (ptw_setl_slow).               *)
ExclStep(c) ==
    /\ pc[c] = "excl"
    /\ \/ /\ ~running[c]
          /\ running' = [running EXCEPT ![c] = TRUE]
          /\ \E n \in {1, 2} : count' = [count EXCEPT ![c] = n]
       \/ /\ count[c] = 2
          /\ count' = [count EXCEPT ![c] = 1]
          /\ UNCHANGED running
    /\ UNCHANGED <<has_waiter, pending_cpus, lock, pc, scan, running_cpus, asleep>>

(* The instruction is over, and end_exclusive.                             *)
ExclEnd(c) ==
    /\ count[c] = 1
    /\ Goto(c, "excl", "xend")
    /\ running' = [running EXCEPT ![c] = FALSE]
    /\ count' = [count EXCEPT ![c] = 0]
    /\ UNCHANGED <<has_waiter, pending_cpus, lock, scan, running_cpus, asleep>>

ExclResume(c) ==
    /\ Goto(c, "xend", "out")
    /\ WithLock
    /\ pending_cpus' = 0
    /\ asleep' = asleep \ OnResume
    /\ UNCHANGED <<running, has_waiter, local>>

Spurious(c) ==                         \* qemu_cond_wait may return by itself
    /\ c \in asleep
    /\ asleep' = asleep \ {c}
    /\ UNCHANGED <<running, has_waiter, pending_cpus, lock, pc, local>>

-----------------------------------------------------------------------------
ExclActions(c) ==
    \/ StartRunning(c) \/ StartFast(c) \/ StartSlow(c) \/ StartCounted(c) \/ StartWait(c)
    \/ EndRunning(c) \/ EndFast(c) \/ EndSlow(c) \/ EndLocked(c)
    \/ ExclCall(c) \/ ExclIdle(c) \/ ExclScan(c) \/ ExclWait(c)
    \/ ExclStep(c) \/ ExclEnd(c) \/ ExclResume(c) \/ Spurious(c)

ExclNext == \E c \in Cpus : ExclActions(c)

ExclSpec == ExclInit /\ [][ExclNext]_exclVars

-----------------------------------------------------------------------------
(* The variables of src/cpu-common.c have their types.                     *)
ExclTypeOK ==
    /\ running \in [Cpus -> BOOLEAN]
    /\ has_waiter \in [Cpus -> BOOLEAN]
    /\ pending_cpus \in Nat
    /\ lock \in 0 .. NCpus
    /\ pc \in [Cpus -> Labels]
    /\ scan \in [Cpus -> 1 .. NCpus + 1]
    /\ running_cpus \in [Cpus -> Nat]
    /\ count \in [Cpus -> 0 .. 2]
    /\ asleep \subseteq {c \in Cpus : pc[c] \in {"sidle", "xidle", "xwait"}}

Owner(c) == pc[c] \in {"xscan", "xwait", "excl", "xend"}

(* While a vCPU is between start_exclusive and end_exclusive, no vCPU is   *)
(* in guest code and no other one is in an exclusive section: each path    *)
(* through cpu_exec_start, whichever of running and pending_cpus was       *)
(* written first, waits for the section or is waited for.                  *)
ExclusiveAlone ==
    \A c, d \in Cpus : c # d /\ pc[c] = "excl" => pc[d] \notin {"exec", "excl"}

(* No wake-up is lost: a thread asleep on exclusive_resume is one that     *)
(* end_exclusive will still wake, and the thread asleep on exclusive_cond  *)
(* waits for a CPU whose cpu_exec_end will count it down and signal.       *)
WakeupOwed ==
    \A c \in asleep :
        /\ pc[c] \in {"sidle", "xidle"} => \E d \in Cpus : d # c /\ Owner(d)
        /\ pc[c] = "xwait" => \E d \in Cpus : d # c /\ has_waiter[d]

(* pending_cpus is exact: one for the section, one for each vCPU that      *)
(* cpu_exec_end has still to count down, none without a section.           *)
PendingExact ==
    lock = 0 => pending_cpus = IF \E c \in Cpus : Owner(c)
                               THEN 1 + Cardinality({k \in Cpus : has_waiter[k]})
                               ELSE 0

(* The vCPU threads share the machine the way ReadersWriter says.          *)
Sections == INSTANCE ReadersWriter WITH
    Procs <- Cpus,
    mode  <- [c \in Cpus |-> IF pc[c] = "exec" THEN "read"
                             ELSE IF pc[c] = "excl" THEN "write" ELSE "out"]

ImplementsSections == Sections!Spec

(* "Must only be called from outside cpu_exec" (src/cpu-common.c:190): a   *)
(* vCPU in start_exclusive is not counted as one that executes.            *)
CalledOutsideExec == \A c \in Cpus : pc[c] = "x1" => ~running[c]
=============================================================================
