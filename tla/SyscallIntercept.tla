-------------------------- MODULE SyscallIntercept --------------------------
(***************************************************************************)
(* The interception of guest file system calls                             *)
(* (src/target/i386/tcg/sysemu/seg_helper.c): open, openat, read, write,   *)
(* close, dup, dup2, dup3 and fstat on files below /mnt/wasi1 are answered *)
(* by SABFS in the worker of the vCPU that makes the call, and the guest   *)
(* kernel never sees them.                                                 *)
(*                                                                         *)
(* The map from guest descriptors to SABFS descriptors is one C array that *)
(* all vCPU threads share without a lock; SABFS itself (sabfs.js) has one  *)
(* descriptor table per worker.  A call is cut into steps at its writes to *)
(* the shared C variables; what it reads before one belongs to a step with *)
(* it, but for sabfs_next_guest_fd++, a load and a store.                  *)
(* A guest descriptor is written as its distance from SABFS_FD_BASE, so    *)
(* that KernelFd = -1 stands for the kernel's own.                         *)
(***************************************************************************)
EXTENDS Integers

CONSTANTS
    Cpus,      \* vCPU threads, each with its worker
    Files,     \* files below /mnt/wasi1
    NIL,       \* no file
    MaxFds,    \* SABFS_MAX_FDS
    FirstFd,   \* nextFd when sabfs.js is loaded
    MaxSabfs,  \* bound on the SABFS descriptors of a worker
    MaxGuest   \* bound on sabfs_next_guest_fd

ASSUME InterceptAssumption ==
    /\ NIL \notin Files
    /\ MaxFds \in Nat \ {0} /\ MaxGuest \in Nat /\ MaxFds <= MaxGuest
    /\ MaxSabfs \in Nat /\ FirstFd \in 1 .. MaxSabfs

VARIABLES
    fdMap,   \* sabfs_fd_map
    isInit,  \* sabfs_fd_initialized
    next,    \* sabfs_next_guest_fd
    table,   \* fdTable of each worker: the file of each open descriptor
    nextFd,  \* nextFd of each worker
    pc,      \* where each vCPU is in the call it makes
    loc,     \* its local variables: SABFS descriptor, guest descriptor, ...
    held,    \* what the guest has: the file of each descriptor it was given
    last     \* the last call on a descriptor, as the guest sees it

shared == <<fdMap, isInit, next>>
worker == <<table, nextFd>>
vars   == <<fdMap, isInit, next, table, nextFd, pc, loc, held, last>>

KernelFd == -1
Slots    == 0 .. MaxFds - 1
GuestFds == KernelFd .. MaxGuest
SabfsFds == 0 .. MaxSabfs
File     == Files \union {NIL}
Call(k, g, f, then) == [sabfs |-> k, guest |-> g, file |-> f, i |-> 0, then |-> then]
NoCall   == Call(0, 0, NIL, "load")

Init ==
    /\ fdMap = [i \in Slots |-> 0]     \* static storage: zero until the map is initialised
    /\ isInit = FALSE
    /\ next = 0
    /\ table = [c \in Cpus |-> [k \in SabfsFds |-> NIL]]
    /\ nextFd = [c \in Cpus |-> FirstFd]
    /\ pc = [c \in Cpus |-> "user"]
    /\ loc = [c \in Cpus |-> NoCall]
    /\ held = [g \in GuestFds |-> NIL]
    /\ last = [fd |-> KernelFd, handled |-> FALSE, want |-> NIL, got |-> NIL]

sabfs_get_fd(g) == IF g \in Slots THEN fdMap[g] ELSE -1

Goto(c, label) == pc' = [pc EXCEPT ![c] = label]

(* The call returns to the guest.                                          *)
Return(c) ==
    /\ Goto(c, "user")
    /\ loc' = [loc EXCEPT ![c] = NoCall]

(* A call on descriptor g, answered by SABFS descriptor k, or by the       *)
(* kernel where k is -1.                                                   *)
Answered(c, g, k) ==
    last' = [fd |-> g, handled |-> k >= 0, want |-> held[g],
             got |-> IF k \in SabfsFds THEN table[c][k] ELSE NIL]

-----------------------------------------------------------------------------
(* Plausible error: SABFS hands out the lowest free descriptor again.      *)
OpenLowest(c, f) ==
    LET free == {k \in FirstFd .. MaxSabfs : table[c][k] = NIL}
        low  == CHOOSE k \in free : \A j \in free : k <= j
    IN  /\ pc[c] = "user"
        /\ free # {} /\ next < MaxGuest
        /\ table' = [table EXCEPT ![c][low] = f]
        /\ loc' = [loc EXCEPT ![c] = Call(low, 0, f, "load")]
        /\ Goto(c, "init")
        /\ UNCHANGED <<nextFd, shared, held, last>>

(* open and openat: SABFS.open first; a failure is -ENOENT and changes     *)
(* nothing.                                                                *)
Open(c, f) ==
    /\ pc[c] = "user"
    /\ nextFd[c] < MaxSabfs /\ next < MaxGuest
    /\ table' = [table EXCEPT ![c][nextFd[c]] = f]
    /\ nextFd' = [nextFd EXCEPT ![c] = @ + 1]
    /\ loc' = [loc EXCEPT ![c] = Call(nextFd[c], 0, f, "load")]
    /\ Goto(c, "init")
    /\ UNCHANGED <<shared, held, last>>

(* read and write.                                                         *)
ReadWrite(c, g) ==
    /\ pc[c] = "user"
    /\ Answered(c, g, sabfs_get_fd(g))
    /\ UNCHANGED <<shared, worker, pc, loc, held>>

(* fstat: sabfs.js has no fstat, so that the call always ends in -EBADF.   *)
Fstat(c, g) ==
    /\ pc[c] = "user"
    /\ last' = [fd |-> g, handled |-> sabfs_get_fd(g) >= 0, want |-> held[g], got |-> NIL]
    /\ UNCHANGED <<shared, worker, pc, loc, held>>

(* SABFS.close(k): deletes k from the worker's table, if it is there.      *)
Closed(c, k) == [table EXCEPT ![c] = [j \in SabfsFds |-> IF j = k THEN NIL ELSE @[j]]]

(* A call on a descriptor that SABFS does not have goes to the kernel.     *)
ToKernel(c, g) ==
    /\ pc[c] = "user"
    /\ sabfs_get_fd(g) < 0
    /\ Answered(c, g, -1)
    /\ UNCHANGED <<shared, worker, pc, loc, held>>

Close(c, g) ==
    /\ pc[c] = "user"
    /\ sabfs_get_fd(g) >= 0
    /\ Answered(c, g, sabfs_get_fd(g))
    /\ table' = Closed(c, sabfs_get_fd(g))
    /\ loc' = [loc EXCEPT ![c] = Call(0, g, NIL, "load")]
    /\ Goto(c, "close")
    /\ UNCHANGED <<shared, nextFd, held>>

(* sabfs_free_guest_fd at the end of close.                                *)
CloseFree(c) ==
    /\ pc[c] = "close"
    /\ fdMap' = [fdMap EXCEPT ![loc[c].guest] = -1]
    /\ held' = [held EXCEPT ![loc[c].guest] = NIL]
    /\ Return(c)
    /\ UNCHANGED <<isInit, next, worker, last>>

Dup(c, g) ==
    /\ pc[c] = "user"
    /\ next < MaxGuest
    /\ sabfs_get_fd(g) >= 0
    /\ Answered(c, g, sabfs_get_fd(g))
    /\ loc' = [loc EXCEPT ![c] = Call(sabfs_get_fd(g), 0, held[g], "load")]
    /\ Goto(c, "init")
    /\ UNCHANGED <<shared, worker, held>>

(* dup2 and dup3 of a descriptor onto itself: the descriptor, -EINVAL.     *)
DupSame(c, g) ==
    /\ pc[c] = "user"
    /\ sabfs_get_fd(g) >= 0
    /\ Answered(c, g, sabfs_get_fd(g))
    /\ UNCHANGED <<shared, worker, pc, loc, held>>

(* Plausible error: what n was mapped to is left open.                     *)
Dup2Leaving(c, g, n) ==
    /\ pc[c] = "user"
    /\ sabfs_get_fd(g) >= 0 /\ g # n
    /\ Answered(c, g, sabfs_get_fd(g))
    /\ loc' = [loc EXCEPT ![c] = Call(sabfs_get_fd(g), n, held[g], "set")]
    /\ Goto(c, IF sabfs_get_fd(n) >= 0 THEN "free" ELSE "init")
    /\ UNCHANGED <<shared, worker, held>>

(* dup2 and dup3: what n was mapped to is closed first.                    *)
Dup2(c, g, n) ==
    LET k  == sabfs_get_fd(g)
        k2 == sabfs_get_fd(n)
    IN  /\ pc[c] = "user"
        /\ k >= 0 /\ g # n
        /\ Answered(c, g, k)
        /\ loc' = [loc EXCEPT ![c] = Call(k, n, held[g], "set")]
        /\ table' = Closed(c, k2)
        /\ Goto(c, IF k2 >= 0 THEN "free" ELSE "init")
        /\ UNCHANGED <<shared, nextFd, held>>

Dup2Free(c) ==
    /\ pc[c] = "free"
    /\ fdMap' = [fdMap EXCEPT ![loc[c].guest] = -1]
    /\ held' = [held EXCEPT ![loc[c].guest] = NIL]
    /\ Goto(c, "init")
    /\ UNCHANGED <<isInit, next, worker, loc, last>>

-----------------------------------------------------------------------------
(* sabfs_init_fd_map, the first line of sabfs_alloc_guest_fd and of        *)
(* sabfs_set_guest_fd, which go on at "load" and at "set".                 *)
InitCheck(c) ==
    /\ pc[c] = "init"
    /\ Goto(c, IF isInit THEN loc[c].then ELSE "clear")
    /\ UNCHANGED <<shared, worker, loc, held, last>>

InitClear(c) ==
    /\ pc[c] = "clear" /\ loc[c].i < MaxFds
    /\ fdMap' = [fdMap EXCEPT ![loc[c].i] = -1]
    /\ loc' = [loc EXCEPT ![c].i = @ + 1]
    /\ UNCHANGED <<isInit, next, worker, pc, held, last>>

InitDone(c) ==
    /\ pc[c] = "clear" /\ loc[c].i = MaxFds
    /\ isInit' = TRUE
    /\ Goto(c, loc[c].then)
    /\ UNCHANGED <<fdMap, next, worker, loc, held, last>>

(* sabfs_alloc_guest_fd: guest_fd = sabfs_next_guest_fd++, a load and a    *)
(* store; then the slot, or -1 when the descriptors have run out.          *)
AllocLoad(c) ==
    /\ pc[c] = "load"
    /\ loc' = [loc EXCEPT ![c].guest = next]
    /\ Goto(c, "next")
    /\ UNCHANGED <<shared, worker, held, last>>

AllocNext(c) ==
    /\ pc[c] = "next"
    /\ next' = loc[c].guest + 1
    /\ Goto(c, "map")
    /\ UNCHANGED <<fdMap, isInit, worker, loc, held, last>>

AllocMap(c) ==
    /\ pc[c] = "map"
    /\ \/ /\ loc[c].guest \in Slots
          /\ fdMap' = [fdMap EXCEPT ![loc[c].guest] = loc[c].sabfs]
          /\ held' = [held EXCEPT ![loc[c].guest] = loc[c].file]
       \/ /\ loc[c].guest \notin Slots
          /\ UNCHANGED <<fdMap, held>>
    /\ Return(c)
    /\ UNCHANGED <<isInit, next, worker, last>>

(* sabfs_set_guest_fd: -1 (-EBADF for the guest) outside the slots; else   *)
(* the slot, and sabfs_next_guest_fd moves beyond it.                      *)
SetMap(c) ==
    /\ pc[c] = "set"
    /\ \/ /\ loc[c].guest \in Slots
          /\ fdMap' = [fdMap EXCEPT ![loc[c].guest] = loc[c].sabfs]
          /\ held' = [held EXCEPT ![loc[c].guest] = loc[c].file]
          /\ Goto(c, "bump")
          /\ UNCHANGED loc
       \/ /\ loc[c].guest \notin Slots
          /\ UNCHANGED <<fdMap, held>>
          /\ Return(c)
    /\ UNCHANGED <<isInit, next, worker, last>>

(* Plausible error: sabfs_next_guest_fd stays where it is.                 *)
SetNextNever(c) ==
    /\ pc[c] = "bump"
    /\ Return(c)
    /\ UNCHANGED <<shared, worker, held, last>>

SetNext(c) ==
    /\ pc[c] = "bump"
    /\ next' = IF loc[c].guest >= next THEN loc[c].guest + 1 ELSE next
    /\ Return(c)
    /\ UNCHANGED <<fdMap, isInit, worker, held, last>>

-----------------------------------------------------------------------------
Step(c) ==
    \/ CloseFree(c) \/ Dup2Free(c)
    \/ InitCheck(c) \/ InitClear(c) \/ InitDone(c)
    \/ AllocLoad(c) \/ AllocNext(c) \/ AllocMap(c)
    \/ SetMap(c) \/ SetNext(c)

Next ==
    \E c \in Cpus :
        \/ Step(c)
        \/ \E f \in Files : Open(c, f)
        \/ \E g \in GuestFds :
              \/ ReadWrite(c, g) \/ Fstat(c, g) \/ ToKernel(c, g)
              \/ Close(c, g) \/ Dup(c, g) \/ DupSame(c, g)
              \/ \E n \in GuestFds : Dup2(c, g, n)

Spec == Init /\ [][Next]_vars

-----------------------------------------------------------------------------
Label == {"user", "close", "free", "init", "clear", "load", "next", "map", "set", "bump"}
Local == [sabfs : SabfsFds, guest : Int, file : File, i : 0 .. MaxFds, then : {"load", "set"}]

TypeOK ==
    /\ fdMap \in [Slots -> SabfsFds \union {-1}]
    /\ isInit \in BOOLEAN
    /\ next \in Nat
    /\ table \in [Cpus -> [SabfsFds -> File]]
    /\ nextFd \in [Cpus -> SabfsFds]
    /\ pc \in [Cpus -> Label]
    /\ loc \in [Cpus -> Local]
    /\ held \in [GuestFds -> File]
    /\ last \in [fd : GuestFds, handled : BOOLEAN, want : File, got : File]

(* A read or write that SABFS answers touches the file for which the guest *)
(* was given the descriptor, or none: never another file.                  *)
RightFile == last.got # NIL => last.got = last.want

(* A descriptor that open or dup is about to return is not one the guest   *)
(* still holds (dup2 may have put one beyond sabfs_next_guest_fd).         *)
FreshFd ==
    \A c \in Cpus : pc[c] \in {"next", "map"} /\ loc[c].guest \in GuestFds
                      => held[loc[c].guest] = NIL

(* What SABFS has open, a guest descriptor or a running call leads to it,  *)
(* until the guest descriptors have run out.                               *)
NothingLeaked ==
    \A c \in Cpus, k \in SabfsFds :
        table[c][k] # NIL =>
            \/ \E i \in Slots : fdMap[i] = k
            \/ \E d \in Cpus : pc[d] # "user" /\ loc[d].sabfs = k
            \/ next > MaxFds

(* A descriptor the guest holds leads to an open file: closing one of two  *)
(* duplicates leaves the other usable.                                     *)
HeldIsOpen ==
    \A g \in Slots, c \in Cpus :
        pc[c] = "user" /\ held[g] # NIL => fdMap[g] >= 0 /\ table[c][fdMap[g]] # NIL

(* SABFS answers only calls on descriptors it has given out (sabfs_get_fd, *)
(* 204-211).  Not so before the map is initialised: 0 is a descriptor.     *)
HandledIsHeld == last.handled => last.want # NIL
=============================================================================
