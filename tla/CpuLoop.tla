------------------------------- MODULE CpuLoop -------------------------------
(***************************************************************************)
(* The MTTCG vCPU threads (mttcg_cpu_thread_fn), their work queues and the *)
(* I/O thread that queues work, pauses and resumes them, composed with the *)
(* exclusive sections of module Exclusive.  All of them share the big      *)
(* QEMU lock (BQL, qemu_global_mutex).                                     *)
(***************************************************************************)
EXTENDS Exclusive, Sequences

CONSTANTS
    MaxWork,    \* bound on the items in one work_list
    MaxOps      \* bound on the operations of the I/O thread (other than
                \* resuming) and the flushes of guest code together
ASSUME CpuLoopAssumption == MaxWork \in Nat \ {0} /\ MaxOps \in Nat

VARIABLES
    bql,          \* the thread that holds the BQL, or 0
    at,           \* where mttcg_cpu_thread_fn is
    exit_request, \* cpu->exit_request
    halted,       \* cpu->halted with no interrupt pending
    stop, stopped,
    runstate,     \* runstate_is_running()
    work_list,
    owes,         \* the vCPU that guest code has queued work for and has
                  \* still to kick, or 0
    halt_cond,    \* vCPUs asleep on cpu->halt_cond
    io,           \* where the I/O thread is
    io_asleep,    \* it is in qemu_cond_wait
    done,         \* wi.done of its run_on_cpu item
    ops           \* how many of these there were

loopVars == <<bql, at, exit_request, halted, stop, stopped, runstate, work_list, owes,
              halt_cond, io, io_asleep, done, ops>>
vars == <<exclVars, loopVars>>

Io    == NCpus + 1      \* the I/O thread
Items == {"sync", "async", "safe"}

Init ==
    /\ ExclInit
    /\ bql = 0
    /\ at = [c \in Cpus |-> "start"]
    /\ exit_request = [c \in Cpus |-> TRUE]
    /\ halted = [c \in Cpus |-> FALSE]
    /\ stop = [c \in Cpus |-> FALSE]
    /\ stopped = [c \in Cpus |-> TRUE]
    /\ runstate = FALSE
    /\ work_list = [c \in Cpus |-> <<>>]
    /\ owes = [c \in Cpus |-> 0]
    /\ halt_cond = {}
    /\ io = "idle"
    /\ io_asleep = FALSE
    /\ done = FALSE
    /\ ops = 0

Move(c, from, to) == at[c] = from /\ at' = [at EXCEPT ![c] = to]
TakeBql(t)    == bql = 0 /\ bql' = t
ReleaseBql(t) == bql = t /\ bql' = 0
guestVars == <<halted, stop, stopped, runstate, work_list, owes, done>>
ioVars    == <<io, io_asleep, ops>>

Counted == ops < MaxOps /\ ops' = ops + 1

(* qemu_cpu_kick: wakes the thread from halt_cond and asks it to leave     *)
(* cpu_exec (cpu_exit sets icount_decr.high with exit_request, so that     *)
(* chained blocks end too).  A kick is in one step with what it announces  *)
(* where a lock hides the steps in between: stop, the interrupts and the   *)
(* lists are looked at under the BQL that the I/O thread holds, has_waiter *)
(* under qemu_cpu_list_lock.                                               *)
KickHalted(S) ==                    \* mutant: only wakes the thread
    /\ halt_cond' = halt_cond \ S
    /\ UNCHANGED exit_request
Kick(S) ==
    /\ halt_cond' = halt_cond \ S
    /\ exit_request' = [c \in Cpus |-> c \in S \/ exit_request[c]]

-----------------------------------------------------------------------------
(* The steps of a vCPU inside the calls of module Exclusive; the loop of   *)
(* start_exclusive kicks the CPU it finds running.                         *)
InCall(c) ==
    /\ \/ StartFast(c) \/ StartSlow(c) \/ StartCounted(c) \/ StartWait(c)
       \/ EndFast(c) \/ EndSlow(c) \/ EndLocked(c)
       \/ ExclIdle(c) \/ ExclWait(c) \/ ExclResume(c)
       \/ ExclEnd(c) /\ at[c] \notin {"mmiowait", "mmio"} /\ (at[c] = "atomic" => running[c])
    /\ UNCHANGED loopVars

(* cpu_exec_step_atomic: the instruction runs inside the section.          *)
AtomicStep(c) == at[c] = "atomic" /\ ExclStep(c) /\ UNCHANGED loopVars

ScanNoKick(c) ==                    \* mutant: the CPU is not kicked
    /\ ExclScan(c)
    /\ UNCHANGED loopVars
KickScanned(c) ==
    /\ ExclScan(c)
    /\ Kick({k \in {scan[c]} : running[k]})
    /\ UNCHANGED <<bql, at, guestVars, ioVars>>

Woken(c) == Spurious(c) /\ UNCHANGED loopVars

cpu_is_stopped(c) == stopped[c] \/ ~runstate
can_run_stopped(c) == ~stop[c]      \* mutant: looks at stop only
cpu_can_run(c) == ~stop[c] /\ ~cpu_is_stopped(c)

(* The loop, and tcg_cpus_exec up to cpu->running.                         *)
Run(c) ==
    /\ cpu_can_run(c)
    /\ Move(c, "top", "run")
    /\ ReleaseBql(c)
    /\ UNCHANGED <<exclVars, exit_request, guestVars, halt_cond, ioVars>>

EnterExec(c) ==
    /\ at[c] = "run" /\ StartRunning(c)
    /\ at' = [at EXCEPT ![c] = "exec"]
    /\ UNCHANGED <<bql, exit_request, guestVars, halt_cond, ioVars>>

(* Guest code, in cpu_exec or in cpu_exec_step_atomic: a device access, or *)
(* an interrupt, takes the BQL.                                            *)
InGuest(c) == \/ at[c] = "exec" /\ pc[c] = "exec" /\ ~halted[c]
              \/ at[c] = "atomic" /\ pc[c] = "excl" /\ running[c]

Mmio(c) ==
    /\ \/ InGuest(c) /\ at' = [at EXCEPT ![c] = "mmiowait"] /\ UNCHANGED bql
       \/ Move(c, "mmiowait", "mmio") /\ TakeBql(c)
       \/ Move(c, "mmio", IF pc[c] = "exec" THEN "exec" ELSE "atomic") /\ ReleaseBql(c)
    /\ UNCHANGED <<exclVars, exit_request, guestVars, halt_cond, ioVars>>

(* A TLB flush on all vCPUs queues work without the BQL, exclusive work on *)
(* its own vCPU (tlb_flush_all_cpus_synced) and plain work on the others.  *)
(* queue_work_on_cpu adds the item, and kicks once work_mutex is released. *)
QueueFromGuest(c) ==
    /\ InGuest(c) /\ Move(c, "exec", "kick")
    /\ Counted
    /\ \E d \in Cpus :
           LET i == IF d = c THEN "safe" ELSE "async" IN
           /\ Len(work_list[d]) < MaxWork
           /\ work_list' = [work_list EXCEPT ![d] = Append(@, i)]
           /\ owes' = [owes EXCEPT ![c] = d]
    /\ UNCHANGED <<exclVars, bql, exit_request, halted, stop, stopped, runstate, done,
                   halt_cond, io, io_asleep>>

KickQueued(c) ==
    /\ Move(c, "kick", "exec")
    /\ Kick({owes[c]})
    /\ owes' = [owes EXCEPT ![c] = 0]
    /\ UNCHANGED <<exclVars, bql, halted, stop, stopped, runstate, work_list, done, ioVars>>

(* cpu_handle_interrupt, between two blocks: exit_request is cleared and   *)
(* cpu_exec returns EXCP_INTERRUPT.                                        *)
HandleStays(c) ==                   \* mutant: and guest code goes on
    /\ InGuest(c) /\ exit_request[c]
    /\ Move(c, "exec", "exec")
    /\ exit_request' = [exit_request EXCEPT ![c] = FALSE]
    /\ UNCHANGED <<exclVars, bql, guestVars, halt_cond, ioVars>>
HandleExit(c) ==
    /\ InGuest(c) /\ exit_request[c]
    /\ Move(c, "exec", "leave")
    /\ exit_request' = [exit_request EXCEPT ![c] = FALSE]
    /\ UNCHANGED <<exclVars, bql, guestVars, halt_cond, ioVars>>

(* cpu_exec_end, after that or after an exception: EXCP_HLT and            *)
(* EXCP_HALTED with cpu->halted set, EXCP_DEBUG, EXCP_ATOMIC.              *)
LeaveExec(c) ==
    /\ at[c] \in {"exec", "leave"} /\ EndRunning(c)
    /\ \E h \in {FALSE, at[c] = "exec"} : halted' = [halted EXCEPT ![c] = @ \/ h]
    /\ UNCHANGED <<bql, at, exit_request, stop, stopped, runstate, work_list, owes, done,
                   halt_cond, ioVars>>

(* Back from tcg_cpus_exec: the BQL; after EXCP_ATOMIC it is dropped again *)
(* for cpu_exec_step_atomic.                                               *)
AfterExec(c) ==
    /\ at[c] \in {"exec", "leave"} /\ pc[c] = "out" /\ bql = 0
    /\ \/ /\ bql' = c /\ at' = [at EXCEPT ![c] = "event"]
       \/ /\ at[c] = "exec" /\ ~halted[c] /\ bql' = bql /\ at' = [at EXCEPT ![c] = "step"]
    /\ exit_request' = IF bql' = c THEN [exit_request EXCEPT ![c] = FALSE] ELSE exit_request
    /\ UNCHANGED <<exclVars, guestVars, halt_cond, ioVars>>

StepAtomic(c) ==
    /\ at[c] = "step" /\ ExclCall(c)
    /\ at' = [at EXCEPT ![c] = "atomic"]
    /\ UNCHANGED <<bql, exit_request, guestVars, halt_cond, ioVars>>

AfterAtomic(c) ==
    /\ pc[c] = "out" /\ Move(c, "atomic", "event") /\ TakeBql(c)
    /\ exit_request' = [exit_request EXCEPT ![c] = FALSE]
    /\ UNCHANGED <<exclVars, guestVars, halt_cond, ioVars>>

Start(c) ==                         \* the thread function up to its loop
    /\ Move(c, "start", "top") /\ TakeBql(c)
    /\ UNCHANGED <<exclVars, exit_request, guestVars, halt_cond, ioVars>>

CannotRun(c) ==
    /\ ~cpu_can_run(c)
    /\ Move(c, "top", "event")
    /\ exit_request' = [exit_request EXCEPT ![c] = FALSE]
    /\ UNCHANGED <<exclVars, bql, guestVars, halt_cond, ioVars>>

-----------------------------------------------------------------------------
(* qemu_wait_io_event.  The idle test and the wait are two steps: a thread *)
(* without the BQL can queue work in between.                              *)
cpu_thread_is_idle(c) == ~stop[c] /\ work_list[c] = <<>> /\ (cpu_is_stopped(c) \/ halted[c])

TestIdle(c) ==
    /\ cpu_thread_is_idle(c) /\ Move(c, "event", "idle")
    /\ UNCHANGED <<exclVars, bql, exit_request, guestVars, halt_cond, ioVars>>

Sleep(c) ==
    /\ Move(c, "idle", "halt") /\ ReleaseBql(c)
    /\ halt_cond' = halt_cond \union {c}
    /\ UNCHANGED <<exclVars, exit_request, guestVars, ioVars>>

Wake(c) ==
    /\ c \notin halt_cond
    /\ Move(c, "halt", "event") /\ TakeBql(c)
    /\ UNCHANGED <<exclVars, exit_request, guestVars, halt_cond, ioVars>>

(* qemu_wait_io_event_common: qemu_cpu_stop broadcasts qemu_pause_cond.    *)
CommonKeepsStop(c) ==               \* mutant: stopped is not set
    /\ ~cpu_thread_is_idle(c)
    /\ Move(c, "event", IF work_list[c] = <<>> THEN "top" ELSE "work")
    /\ stop' = [stop EXCEPT ![c] = FALSE]
    /\ io_asleep' = (io_asleep /\ ~(stop[c] /\ io = "pause"))
    /\ UNCHANGED <<exclVars, bql, exit_request, halted, stopped, runstate, work_list, owes, done,
                   halt_cond, io, ops>>
Common(c) ==
    /\ ~cpu_thread_is_idle(c)
    /\ Move(c, "event", IF work_list[c] = <<>> THEN "top" ELSE "work")
    /\ stop' = [stop EXCEPT ![c] = FALSE]
    /\ stopped' = [stopped EXCEPT ![c] = @ \/ stop[c]]
    /\ io_asleep' = (io_asleep /\ ~(stop[c] /\ io = "pause"))
    /\ UNCHANGED <<exclVars, bql, exit_request, halted, runstate, work_list, owes, done, halt_cond,
                   io, ops>>

(* process_queued_cpu_work: one item; an exclusive one runs without the    *)
(* BQL; with the list empty, qemu_work_cond is broadcast.                  *)
Process(c) ==
    /\ work_list[c] # <<>> /\ Head(work_list[c]) # "safe"
    /\ Move(c, "work", "work")
    /\ work_list' = [work_list EXCEPT ![c] = Tail(@)]
    /\ done' = (done \/ Head(work_list[c]) = "sync")
    /\ UNCHANGED <<exclVars, bql, exit_request, halted, stop, stopped, runstate, owes, halt_cond, ioVars>>

ProcessSafeHeld(c) ==               \* mutant: keeps the BQL
    /\ work_list[c] # <<>> /\ Head(work_list[c]) = "safe"
    /\ Move(c, "work", "safe") /\ UNCHANGED bql
    /\ work_list' = [work_list EXCEPT ![c] = Tail(@)]
    /\ UNCHANGED <<exclVars, exit_request, halted, stop, stopped, runstate, owes, done, halt_cond,
                   ioVars>>
ProcessSafe(c) ==
    /\ work_list[c] # <<>> /\ Head(work_list[c]) = "safe"
    /\ Move(c, "work", "safe") /\ ReleaseBql(c)
    /\ work_list' = [work_list EXCEPT ![c] = Tail(@)]
    /\ UNCHANGED <<exclVars, exit_request, halted, stop, stopped, runstate, owes, done, halt_cond,
                   ioVars>>

SafeStart(c) ==
    /\ at[c] = "safe" /\ ExclCall(c)
    /\ at' = [at EXCEPT ![c] = "alone"]
    /\ UNCHANGED <<bql, exit_request, guestVars, halt_cond, ioVars>>

SafeDone(c) ==
    /\ pc[c] = "out" /\ Move(c, "alone", "work") /\ TakeBql(c)
    /\ UNCHANGED <<exclVars, exit_request, guestVars, halt_cond, ioVars>>

Processed(c) ==
    /\ work_list[c] = <<>> /\ Move(c, "work", "top")
    /\ io_asleep' = (io_asleep /\ io # "sync")
    /\ UNCHANGED <<exclVars, bql, exit_request, guestVars, halt_cond, io, ops>>

-----------------------------------------------------------------------------
(* The I/O thread.                                                         *)
IoTake ==
    /\ io = "idle" /\ io' = "has" /\ TakeBql(Io)
    /\ UNCHANGED <<exclVars, at, exit_request, guestVars, halt_cond, io_asleep, ops>>

IoRelease ==
    /\ io = "has" /\ io' = "idle" /\ ReleaseBql(Io)
    /\ UNCHANGED <<exclVars, at, exit_request, guestVars, halt_cond, io_asleep, ops>>

Interrupt(c) ==                     \* tcg_handle_interrupt
    /\ io = "has" /\ Counted
    /\ halted' = [halted EXCEPT ![c] = FALSE]
    /\ Kick({c})
    /\ UNCHANGED <<exclVars, bql, at, stop, stopped, runstate, work_list, owes, done, io, io_asleep>>

(* do_run_on_cpu waits for its item, the async calls return.               *)
Queue(c, i) ==
    /\ io = "has" /\ Counted /\ Len(work_list[c]) < MaxWork
    /\ work_list' = [work_list EXCEPT ![c] = Append(@, i)]
    /\ Kick({c})
    /\ IF i = "sync"
       THEN io' = "sync" /\ io_asleep' = TRUE /\ done' = FALSE /\ ReleaseBql(Io)
       ELSE UNCHANGED <<io, io_asleep, done, bql>>
    /\ UNCHANGED <<exclVars, at, halted, stop, stopped, runstate, owes>>

RunOnCpuWait ==
    /\ io = "sync" /\ ~io_asleep /\ bql = 0
    /\ IF done THEN io' = "has" /\ bql' = Io /\ UNCHANGED io_asleep
               ELSE io_asleep' = TRUE /\ UNCHANGED <<io, bql>>
    /\ done' = FALSE
    /\ UNCHANGED <<exclVars, at, exit_request, halted, stop, stopped, runstate, work_list, owes,
                   halt_cond, ops>>

(* pause_all_vcpus kicks again after each wake-up; at the end it drops and *)
(* takes the BQL.                                                          *)
all_vcpus_paused == \A c \in Cpus : stopped[c]

(* do_vm_stop, of a running machine, changes the run state first; a reset  *)
(* (main_loop_should_exit) only pauses.                                    *)
PauseStart ==
    /\ io = "has" /\ Counted
    /\ runstate' \in {runstate, FALSE}
    /\ stop' = [c \in Cpus |-> TRUE]
    /\ Kick(Cpus)
    /\ io' = IF all_vcpus_paused THEN "idle" ELSE "pause"
    /\ io_asleep' = ~all_vcpus_paused
    /\ ReleaseBql(Io)
    /\ UNCHANGED <<exclVars, at, halted, stopped, work_list, owes, done>>

PauseWait ==
    /\ io = "pause" /\ ~io_asleep /\ bql = 0
    /\ Kick(Cpus)
    /\ io' = IF all_vcpus_paused THEN "idle" ELSE "pause"
    /\ io_asleep' = ~all_vcpus_paused
    /\ UNCHANGED <<exclVars, bql, at, guestVars, ops>>

(* resume_all_vcpus returns at once unless the machine runs; vm_start, of  *)
(* a machine that does not, sets the run state and calls it.               *)
ResumeAll ==
    /\ io = "has"
    /\ runstate' = TRUE
    /\ stop' = [c \in Cpus |-> FALSE]
    /\ stopped' = [c \in Cpus |-> FALSE]
    /\ Kick(Cpus)
    /\ UNCHANGED <<exclVars, bql, at, halted, work_list, owes, done, ioVars>>

-----------------------------------------------------------------------------
Next ==
    \/ \E c \in Cpus :
          \/ InCall(c) \/ KickScanned(c) \/ Woken(c)
          \/ Start(c) \/ CannotRun(c) \/ Run(c) \/ EnterExec(c) \/ Mmio(c)
          \/ QueueFromGuest(c) \/ KickQueued(c) \/ HandleExit(c) \/ LeaveExec(c) \/ AtomicStep(c)
          \/ AfterExec(c) \/ StepAtomic(c) \/ AfterAtomic(c)
          \/ TestIdle(c) \/ Sleep(c) \/ Wake(c) \/ Common(c)
          \/ Process(c) \/ ProcessSafe(c) \/ SafeStart(c) \/ SafeDone(c) \/ Processed(c)
          \/ Interrupt(c)
    \/ \E c \in Cpus, i \in Items : Queue(c, i)
    \/ IoTake \/ IoRelease \/ RunOnCpuWait \/ PauseStart \/ PauseWait \/ ResumeAll

Spec == Init /\ [][Next]_vars

(* ptw_setl_slow (src/target/i386/tcg/sysemu/excp_helper.c) calls          *)
(* start_exclusive from guest code, when a page table is not in RAM.       *)
PtwSetl(c) ==
    /\ at[c] = "exec" /\ ~halted[c] /\ Goto(c, "exec", "x1")
    /\ UNCHANGED <<running, has_waiter, pending_cpus, lock, local, asleep, loopVars>>

PtwSpec == Init /\ [][Next \/ \E c \in Cpus : PtwSetl(c)]_vars

(* A thread that can go on does, and a mutex is not kept from a waiter for *)
(* ever.  Patience: guest code leaves cpu_exec when exit_request asks it   *)
(* to, the instruction of cpu_exec_step_atomic comes to its end, and a     *)
(* waiter of exclusive_idle is not overtaken for ever.  Nothing else makes *)
(* guest code leave, and nothing makes the I/O thread begin an operation.  *)
Continue(c) ==
    \/ InCall(c) \/ KickScanned(c) \/ Run(c) \/ EnterExec(c) \/ CannotRun(c)
    \/ KickQueued(c) \/ (LeaveExec(c) /\ (at[c] = "leave" \/ halted[c])) \/ AtomicStep(c)
    \/ StepAtomic(c) \/ TestIdle(c) \/ Sleep(c) \/ Common(c)
    \/ Process(c) \/ ProcessSafe(c) \/ SafeStart(c) \/ Processed(c)
    \/ (Mmio(c) /\ at[c] = "mmio")

Acquire(c) ==
    \/ (Mmio(c) /\ at[c] = "mmiowait") \/ Start(c) \/ AfterExec(c)
    \/ AfterAtomic(c) \/ Wake(c) \/ SafeDone(c)

Patience(c) ==
    \/ HandleExit(c) \/ AtomicStep(c)
    \/ InCall(c) /\ (ExclEnd(c) \/ (pending_cpus = 0 /\ (ExclIdle(c) \/ StartWait(c))))

Fairness ==
    /\ \A c \in Cpus : SF_vars(Continue(c) \/ Acquire(c)) /\ SF_vars(Patience(c))
    /\ WF_vars(IoRelease) /\ SF_vars(RunOnCpuWait \/ PauseWait)

FairSpec == Spec /\ Fairness

-----------------------------------------------------------------------------
(* The variables of the loop have their types, and the BQL is held exactly *)
(* where the code holds it.                                                *)
TypeOK ==
    /\ ExclTypeOK
    /\ bql \in 0 .. Io
    /\ \A c \in Cpus : bql = c <=> at[c] \in {"top", "event", "idle", "work", "mmio"}
    /\ bql = Io <=> io = "has"
    /\ io \in {"idle", "has", "sync", "pause"}
    /\ \A c \in Cpus : work_list[c] \in Seq(Items) /\ Len(work_list[c]) <= MaxWork
    /\ \A c \in Cpus : owes[c] \in IF at[c] = "kick" THEN Cpus ELSE {0}
    /\ halt_cond \subseteq {c \in Cpus : at[c] = "halt"}

(* No request is dropped: while a vCPU executes, a pause or an exclusive   *)
(* section that counts on it has set its exit_request, and so has queued   *)
(* work, unless guest code on another vCPU queued it and has not kicked    *)
(* yet.  The loop clears exit_request before it looks at stop and at the   *)
(* list, and before cpu->running; cpu_handle_interrupt clears it with      *)
(* cpu->running set, but then cpu_exec returns ("leave").                  *)
AskedToLeave ==
    \A c \in Cpus : pc[c] = "exec" /\ at[c] # "leave" =>
        /\ stop[c] \/ has_waiter[c] => exit_request[c]
        /\ work_list[c] # <<>> => exit_request[c] \/ \E k \in Cpus : owes[k] = c

(* Between pause_all_vcpus and resume_all_vcpus no vCPU is in guest code   *)
(* or on its way there; a machine that vm_stop has stopped stays paused    *)
(* until vm_start, whatever pauses and resumes it in between.              *)
PausedQuiet ==
    /\ \A c \in Cpus : stopped[c] =>
          /\ at[c] \notin {"run", "exec", "kick", "leave", "mmio", "mmiowait", "step", "atomic"}
          /\ pc[c] # "exec"
    /\ ~runstate => io = "pause" \/ all_vcpus_paused

(* No reply is lost.  While the I/O thread sleeps in run_on_cpu, its item  *)
(* is in a work_list whose vCPU is awake, or the vCPU that ran it has not  *)
(* reached the broadcast; while it sleeps in pause_all_vcpus, some vCPU is *)
(* awake that has still to stop and to say so.                             *)
ReplyOwed ==
    io_asleep => \E c \in Cpus \ halt_cond :
        \/ io = "sync" /\ at[c] # "idle"
           /\ (\E k \in 1 .. Len(work_list[c]) : work_list[c][k] = "sync")
        \/ io = "sync" /\ done /\ at[c] \in {"work", "safe", "alone"}
        \/ io = "pause" /\ stop[c] /\ at[c] # "idle"

(* run_on_cpu and pause_all_vcpus come back, with work, halts, device      *)
(* accesses and exclusive sections in progress.                            *)
IoReturns == io \in {"sync", "pause"} ~> io \notin {"sync", "pause"}

(* Once start_exclusive has set pending_cpus, it gets its section.         *)
ExclusiveEnters == (\E c \in Cpus : pc[c] = "xscan") ~> (\E c \in Cpus : pc[c] = "excl")
=============================================================================
