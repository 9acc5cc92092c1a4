----------------------- MODULE SyscallInterceptProofs -----------------------
(***************************************************************************)
(* Proofs about SyscallIntercept.  Type correctness holds for any number   *)
(* of vCPUs; that a guest descriptor leads to its own file, that a new     *)
(* descriptor is not one in use, and that nothing open is lost sight of,   *)
(* holds for a guest with one vCPU.                                        *)
(***************************************************************************)
EXTENDS SyscallIntercept, TLAPS

(* What the running call knows about its locals.                           *)
LocalOK ==
    \A c \in Cpus : /\ pc[c] \in {"close", "free", "bump"} => loc[c].guest \in Slots
                    /\ pc[c] = "next" => loc[c].guest \in Nat

TypeInv == TypeOK /\ LocalOK

USE InterceptAssumption

(* What the sets of descriptors and of files contain.                      *)
LEMMA SetTypes ==
    /\ NIL \in File /\ Files \subseteq File
    /\ SabfsFds \subseteq Nat /\ GuestFds \subseteq Int /\ Slots \subseteq Nat
    /\ Slots \subseteq GuestFds
<1>1. NIL \in File /\ Files \subseteq File
  BY Zenon DEF File
<1>2. SabfsFds \subseteq Nat /\ Slots \subseteq Nat
  BY DEF SabfsFds, Slots
<1>3. GuestFds \subseteq Int /\ Slots \subseteq GuestFds
  BY DEF GuestFds, KernelFd, Slots
<1> QED
  BY Zenon, <1>1, <1>2, <1>3

(* The locals of a call keep their type.                                   *)
LEMMA CallType ==
    ASSUME NEW k \in SabfsFds, NEW g \in Int, NEW f \in File, NEW t \in {"load", "set"}
    PROVE  /\ Call(k, g, f, t) \in Local
           /\ Call(k, g, f, t).guest = g /\ Call(k, g, f, t).sabfs = k
           /\ Call(k, g, f, t).file = f
  BY DEF Call, Local

(* The locals of a thread that makes no call have their type.              *)
LEMMA LocalType == NoCall \in Local /\ NoCall.sabfs = 0 /\ NoCall.file = NIL
<1>1. 0 \in SabfsFds /\ NIL \in File
  BY DEF SabfsFds, File
<1> QED
  BY <1>1, CallType DEF NoCall

(* The types of the locals' fields, and the updates that keep them: the    *)
(* guest descriptor, and the loop counter of sabfs_init_fd_map.            *)
LEMMA LocalStep ==
    ASSUME NEW l \in Local
    PROVE  /\ l.sabfs \in SabfsFds /\ l.guest \in Int /\ l.file \in File
           /\ l.i \in 0 .. MaxFds /\ l.then \in {"load", "set"}
           /\ \A x \in Int : [l EXCEPT !.guest = x] \in Local
           /\ l.i < MaxFds => [l EXCEPT !.i = l.i + 1] \in Local
<1>1. ASSUME l.i < MaxFds PROVE l.i + 1 \in 0 .. MaxFds
  BY <1>1 DEF Local
<1> QED
  BY Zenon, <1>1 DEF Local

(* A slot of the map holds a SABFS descriptor or -1.                       *)
LEMMA GetFdType ==
    ASSUME TypeOK, NEW g
    PROVE  /\ sabfs_get_fd(g) \in Int
           /\ sabfs_get_fd(g) >= 0 => g \in Slots /\ fdMap[g] = sabfs_get_fd(g)
           /\ sabfs_get_fd(g) >= 0 => sabfs_get_fd(g) \in SabfsFds
<1>1. CASE g \in Slots
  BY <1>1 DEF sabfs_get_fd, TypeOK, SabfsFds
<1>2. CASE g \notin Slots
  BY <1>2 DEF sabfs_get_fd
<1> QED
  BY Zenon, <1>1, <1>2

(* What a call answers the guest has its type.                             *)
LEMMA AnsweredType ==
    ASSUME TypeOK, NEW c \in Cpus, NEW g \in GuestFds, NEW k \in Int, Answered(c, g, k)
    PROVE  last' \in [fd : GuestFds, handled : BOOLEAN, want : File, got : File]
<1>1. held[g] \in File /\ (k >= 0) \in BOOLEAN
  BY DEF TypeOK
<1>2. (IF k \in SabfsFds THEN table[c][k] ELSE NIL) \in File
  BY DEF TypeOK, File
<1> QED
  BY Zenon, <1>1, <1>2 DEF Answered

(* Static storage and a newly loaded sabfs.js have their types.            *)
LEMMA InitType == Init => TypeInv
<1> SUFFICES ASSUME Init PROVE TypeInv
  BY Zenon
<1>1. LocalOK
  BY Zenon DEF Init, LocalOK
<1>2. 0 \in SabfsFds /\ FirstFd \in SabfsFds /\ NIL \in File /\ KernelFd \in GuestFds
  BY DEF SabfsFds, File, GuestFds, KernelFd
<1>3. /\ fdMap \in [Slots -> SabfsFds \union {-1}] /\ nextFd \in [Cpus -> SabfsFds]
      /\ isInit \in BOOLEAN /\ next \in Nat
  BY Zenon, <1>2 DEF Init
<1>4. /\ table \in [Cpus -> [SabfsFds -> File]] /\ pc \in [Cpus -> Label]
      /\ loc \in [Cpus -> Local] /\ held \in [GuestFds -> File]
  BY Zenon, <1>2, LocalType DEF Init, Label
<1>5. last \in [fd : GuestFds, handled : BOOLEAN, want : File, got : File]
  BY Zenon, <1>2 DEF Init
<1> QED
  BY Zenon, <1>1, <1>3, <1>4, <1>5 DEF TypeInv, TypeOK

(* No step of an intercepted call leaves the types.                        *)
LEMMA NextType == TypeInv /\ [Next]_vars => TypeInv'
<1> SUFFICES ASSUME TypeInv, [Next]_vars PROVE TypeInv'
  BY Zenon
<1> USE DEF TypeInv, TypeOK, LocalOK, Label
<1>1. ASSUME NEW c \in Cpus, NEW f \in Files, Open(c, f) PROVE TypeInv'
  <2>1. nextFd[c] \in SabfsFds /\ nextFd[c] + 1 \in SabfsFds
    BY <1>1, SetTypes DEF Open, SabfsFds
  <2>2. fdMap' \in [Slots -> SabfsFds \union {-1}] /\ isInit' \in BOOLEAN /\ next' \in Nat /\ last' \in [fd : GuestFds, handled : BOOLEAN, want : File, got : File]
    BY Zenon, <1>1 DEF Open, shared
  <2>3. table' \in [Cpus -> [SabfsFds -> File]] /\ nextFd' \in [Cpus -> SabfsFds]
    BY Zenon, <1>1, <2>1, SetTypes DEF Open
  <2>4. pc' \in [Cpus -> Label] /\ held' \in [GuestFds -> File]
    BY Zenon, <1>1 DEF Open, Goto
  <2>5. loc' \in [Cpus -> Local]
    BY <1>1, <2>1, SetTypes DEF Open, Call, Local
  <2>6. LocalOK'
    BY Zenon, <1>1 DEF Open, Goto
  <2> QED
    BY Zenon, <2>1, <2>2, <2>3, <2>4, <2>5, <2>6
<1>2. ASSUME NEW c \in Cpus, NEW g \in GuestFds, ReadWrite(c, g) PROVE TypeInv'
  BY Zenon, SetTypes, LocalType, LocalStep, <1>2, GetFdType, AnsweredType DEF ReadWrite, shared, worker
<1>3. ASSUME NEW c \in Cpus, NEW g \in GuestFds, Fstat(c, g) PROVE TypeInv'
  <2>1. held[g] \in File /\ (sabfs_get_fd(g) >= 0) \in BOOLEAN
    BY <1>3
  <2>2. last' \in [fd : GuestFds, handled : BOOLEAN, want : File, got : File]
    BY Zenon, <1>3, <2>1, SetTypes DEF Fstat
  <2>3. UNCHANGED <<shared, worker, pc, loc, held>>
    BY Zenon, <1>3 DEF Fstat
  <2>4. TypeOK' /\ LocalOK'
    BY Zenon, <2>2, <2>3 DEF shared, worker
  <2> QED
    BY Zenon, <2>1, <2>2, <2>3, <2>4
<1>4. ASSUME NEW c \in Cpus, NEW g \in GuestFds, ToKernel(c, g) PROVE TypeInv'
  <2>1. last' \in [fd : GuestFds, handled : BOOLEAN, want : File, got : File]
    BY <1>4, AnsweredType DEF ToKernel
  <2>2. UNCHANGED <<shared, worker, pc, loc, held>>
    BY Zenon, <1>4 DEF ToKernel
  <2>3. TypeOK' /\ LocalOK'
    BY Zenon, <2>1, <2>2 DEF shared, worker
  <2> QED
    BY Zenon, <2>1, <2>2, <2>3
<1>5. ASSUME NEW c \in Cpus, NEW g \in GuestFds, Close(c, g) PROVE TypeInv'
  <2>1. g \in Slots /\ sabfs_get_fd(g) \in SabfsFds
    BY Zenon, <1>5, GetFdType DEF Close
  <2>2. fdMap' \in [Slots -> SabfsFds \union {-1}] /\ isInit' \in BOOLEAN /\ next' \in Nat
    BY Zenon, <1>5 DEF Close, shared
  <2>3. last' \in [fd : GuestFds, handled : BOOLEAN, want : File, got : File]
    BY Zenon, <1>5, GetFdType, AnsweredType DEF Close
  <2>4. table' \in [Cpus -> [SabfsFds -> File]] /\ nextFd' \in [Cpus -> SabfsFds]
    BY <1>5, SetTypes DEF Close, Closed
  <2>5. pc' \in [Cpus -> Label] /\ held' \in [GuestFds -> File]
    BY Zenon, <1>5 DEF Close, Goto
  <2>6. loc' \in [Cpus -> Local]
    BY <1>5, <2>1, SetTypes DEF Close, Call, Local, SabfsFds
  <2>7. LocalOK'
    BY Zenon, <1>5, <2>1, SetTypes DEF Close, Goto, Call
  <2> QED
    BY Zenon, <2>1, <2>2, <2>3, <2>4, <2>5, <2>6, <2>7
<1>6. ASSUME NEW c \in Cpus, NEW g \in GuestFds, Dup(c, g) PROVE TypeInv'
  <2>1. sabfs_get_fd(g) \in SabfsFds
    BY Zenon, <1>6, GetFdType DEF Dup
  <2>2. fdMap' \in [Slots -> SabfsFds \union {-1}] /\ isInit' \in BOOLEAN /\ next' \in Nat /\ table' \in [Cpus -> [SabfsFds -> File]] /\ nextFd' \in [Cpus -> SabfsFds]
    BY Zenon, <1>6 DEF Dup, shared, worker
  <2>3. last' \in [fd : GuestFds, handled : BOOLEAN, want : File, got : File]
    BY Zenon, <1>6, GetFdType, AnsweredType DEF Dup
  <2>4. pc' \in [Cpus -> Label] /\ held' \in [GuestFds -> File]
    BY Zenon, <1>6 DEF Dup, Goto
  <2>5. loc' \in [Cpus -> Local]
    BY <1>6, <2>1 DEF Dup, Call, Local
  <2>6. LocalOK'
    BY Zenon, <1>6 DEF Dup, Goto
  <2> QED
    BY Zenon, <2>1, <2>2, <2>3, <2>4, <2>5, <2>6
<1>7. ASSUME NEW c \in Cpus, NEW g \in GuestFds, DupSame(c, g) PROVE TypeInv'
  BY Zenon, SetTypes, LocalType, LocalStep, <1>7, GetFdType, AnsweredType DEF DupSame, shared, worker
<1>8. ASSUME NEW c \in Cpus, NEW g \in GuestFds, NEW n \in GuestFds, Dup2(c, g, n) PROVE TypeInv'
  <2>1. sabfs_get_fd(g) \in SabfsFds /\ sabfs_get_fd(n) \in Int
    BY Zenon, <1>8, GetFdType DEF Dup2
  <2>2. fdMap' \in [Slots -> SabfsFds \union {-1}] /\ isInit' \in BOOLEAN /\ next' \in Nat
    BY Zenon, <1>8 DEF Dup2, shared
  <2>3. last' \in [fd : GuestFds, handled : BOOLEAN, want : File, got : File]
    BY Zenon, <1>8, GetFdType, AnsweredType DEF Dup2
  <2>4. table' \in [Cpus -> [SabfsFds -> File]] /\ nextFd' \in [Cpus -> SabfsFds]
    BY <1>8, SetTypes DEF Dup2, Closed
  <2>5. pc' \in [Cpus -> Label] /\ held' \in [GuestFds -> File]
    BY Zenon, <1>8 DEF Dup2, Goto
  <2>6. Call(sabfs_get_fd(g), n, held[g], "set") \in Local
        /\ Call(sabfs_get_fd(g), n, held[g], "set").guest = n
    BY <2>1, SetTypes DEF Call, Local
  <2>7. loc' \in [Cpus -> Local]
    BY Zenon, <1>8, <2>6 DEF Dup2
  <2>8. sabfs_get_fd(n) >= 0 => n \in Slots
    BY Zenon, GetFdType
  <2>9. LocalOK'
    BY Zenon, <1>8, <2>6, <2>8 DEF Dup2, Goto
  <2> QED
    BY Zenon, <2>1, <2>2, <2>3, <2>4, <2>5, <2>6, <2>7, <2>8, <2>9
<1>9. ASSUME NEW c \in Cpus, CloseFree(c) PROVE TypeInv'
  BY Zenon, SetTypes, LocalType, LocalStep, <1>9 DEF CloseFree, Return, Goto, worker
<1>10. ASSUME NEW c \in Cpus, Dup2Free(c) PROVE TypeInv'
  BY Zenon, SetTypes, LocalType, LocalStep, <1>10 DEF Dup2Free, Goto, worker
<1>11. ASSUME NEW c \in Cpus, InitCheck(c) PROVE TypeInv'
  BY Zenon, SetTypes, LocalType, LocalStep, <1>11 DEF InitCheck, Goto, worker, shared
<1>12. ASSUME NEW c \in Cpus, InitClear(c) PROVE TypeInv'
  BY Zenon, SetTypes, LocalType, LocalStep, <1>12 DEF InitClear, worker
<1>13. ASSUME NEW c \in Cpus, InitDone(c) PROVE TypeInv'
  BY Zenon, SetTypes, LocalType, LocalStep, <1>13 DEF InitDone, Goto, worker
<1>14. ASSUME NEW c \in Cpus, AllocLoad(c) PROVE TypeInv'
  <2>1. fdMap' \in [Slots -> SabfsFds \union {-1}] /\ isInit' \in BOOLEAN /\ next' \in Nat /\ table' \in [Cpus -> [SabfsFds -> File]] /\ nextFd' \in [Cpus -> SabfsFds]
    BY Zenon, <1>14 DEF AllocLoad, shared, worker
  <2>2. pc' \in [Cpus -> Label] /\ held' \in [GuestFds -> File] /\ last' \in [fd : GuestFds, handled : BOOLEAN, want : File, got : File]
    BY Zenon, <1>14 DEF AllocLoad, Goto
  <2>3. next \in Int
    OBVIOUS
  <2>4. loc' \in [Cpus -> Local]
    BY Zenon, <1>14, <2>3, LocalStep DEF AllocLoad
  <2>5. LocalOK'
    BY <1>14 DEF AllocLoad, Goto
  <2> QED
    BY Zenon, <2>1, <2>2, <2>3, <2>4, <2>5
<1>15. ASSUME NEW c \in Cpus, AllocNext(c) PROVE TypeInv'
  <2>1. loc[c].guest \in Nat
    BY Zenon, <1>15 DEF AllocNext
  <2>2. fdMap' \in [Slots -> SabfsFds \union {-1}] /\ isInit' \in BOOLEAN /\ next' \in Nat /\ table' \in [Cpus -> [SabfsFds -> File]] /\ nextFd' \in [Cpus -> SabfsFds]
    BY <1>15, <2>1 DEF AllocNext, worker
  <2>3. pc' \in [Cpus -> Label] /\ held' \in [GuestFds -> File] /\ loc' \in [Cpus -> Local] /\ last' \in [fd : GuestFds, handled : BOOLEAN, want : File, got : File]
    BY Zenon, <1>15 DEF AllocNext, Goto
  <2>4. LocalOK'
    BY Zenon, <1>15 DEF AllocNext, Goto
  <2> QED
    BY Zenon, <2>1, <2>2, <2>3, <2>4
<1>16. ASSUME NEW c \in Cpus, AllocMap(c) PROVE TypeInv'
  <2>1. fdMap' \in [Slots -> SabfsFds \union {-1}] /\ isInit' \in BOOLEAN /\ next' \in Nat
    BY Zenon, <1>16, SetTypes, LocalStep DEF AllocMap
  <2>2. table' \in [Cpus -> [SabfsFds -> File]] /\ nextFd' \in [Cpus -> SabfsFds]
    BY Zenon, <1>16 DEF AllocMap, worker
  <2>3. pc' \in [Cpus -> Label] /\ held' \in [GuestFds -> File]
    BY Zenon, <1>16, LocalStep DEF AllocMap, Return, Goto
  <2>4. last' \in [fd : GuestFds, handled : BOOLEAN, want : File, got : File]
    BY Zenon, <1>16 DEF AllocMap, Return
  <2>5. loc' \in [Cpus -> Local]
    BY Zenon, <1>16, LocalType DEF AllocMap, Return
  <2>6. LocalOK'
    BY Zenon, <1>16 DEF AllocMap, Return, Goto
  <2> QED
    BY Zenon, <2>1, <2>2, <2>3, <2>4, <2>5, <2>6
<1>17. ASSUME NEW c \in Cpus, SetMap(c) PROVE TypeInv'
  <2>1. loc[c].sabfs \in SabfsFds /\ loc[c].file \in File
    BY Zenon, LocalStep
  <2>2. fdMap' \in [Slots -> SabfsFds \union {-1}] /\ isInit' \in BOOLEAN /\ next' \in Nat /\ table' \in [Cpus -> [SabfsFds -> File]] /\ nextFd' \in [Cpus -> SabfsFds]
    BY Zenon, <1>17, <2>1 DEF SetMap, worker
  <2>3. last' \in [fd : GuestFds, handled : BOOLEAN, want : File, got : File] /\ pc' \in [Cpus -> Label] /\ held' \in [GuestFds -> File]
    BY Zenon, <1>17, <2>1 DEF SetMap, Return, Goto
  <2>4. loc' \in [Cpus -> Local]
    BY Zenon, <1>17, LocalType DEF SetMap, Return
  <2>5. LocalOK'
    BY Zenon, <1>17 DEF SetMap, Return, Goto
  <2> QED
    BY Zenon, <2>1, <2>2, <2>3, <2>4, <2>5
<1>18. ASSUME NEW c \in Cpus, SetNext(c) PROVE TypeInv'
  <2>1. loc[c].guest \in Nat
    BY Zenon, <1>18, SetTypes DEF SetNext
  <2>2. fdMap' \in [Slots -> SabfsFds \union {-1}] /\ isInit' \in BOOLEAN /\ next' \in Nat /\ table' \in [Cpus -> [SabfsFds -> File]] /\ nextFd' \in [Cpus -> SabfsFds]
    BY <1>18, <2>1 DEF SetNext, worker
  <2>3. pc' \in [Cpus -> Label] /\ held' \in [GuestFds -> File] /\ loc' \in [Cpus -> Local] /\ last' \in [fd : GuestFds, handled : BOOLEAN, want : File, got : File]
    BY Zenon, <1>18, LocalType DEF SetNext, Return, Goto
  <2>4. LocalOK'
    BY Zenon, <1>18 DEF SetNext, Return, Goto
  <2> QED
    BY Zenon, <2>1, <2>2, <2>3, <2>4
<1>19. CASE UNCHANGED vars
  BY Zenon, <1>19 DEF vars
<1> QED
  BY Zenon, <1>1, <1>2, <1>3, <1>4, <1>5, <1>6, <1>7, <1>8, <1>9, <1>10, <1>11, <1>12, <1>13,
     <1>14, <1>15, <1>16, <1>17, <1>18, <1>19 DEF Next, Step

(* Every variable of the interception keeps its type, whatever the vCPU    *)
(* threads interleave.                                                     *)
THEOREM InterceptTypeCorrect == Spec => []TypeOK
<1>1. Spec => []TypeInv
  BY InitType, NextType, PTL DEF Spec
<1>2. TypeInv => TypeOK
  BY Zenon DEF TypeInv
<1> QED
  BY <1>1, <1>2, PTL

-----------------------------------------------------------------------------
(* One vCPU.  A slot of the map, and the call that runs, lead to the file  *)
(* the guest expects there or to a closed descriptor.  SABFS never hands   *)
(* out a descriptor number again, so that what is closed stays closed; the *)
(* zeroes of the map before it is initialised lead to descriptor 0, which  *)
(* SABFS never opens.                                                      *)
OneCpu    == \A c, d \in Cpus : c = d
Leads(k, f) ==
    k >= 0 => \A c \in Cpus : k < nextFd[c] /\ table[c][k] \in {NIL, f}
MapLeads  == \A g \in Slots : Leads(fdMap[g], held[g])
CallLeads == \A c \in Cpus : Leads(loc[c].sabfs, loc[c].file)
Unused    == \A c \in Cpus : /\ nextFd[c] >= 1 /\ table[c][0] = NIL
                            /\ \A k \in SabfsFds : k >= nextFd[c] => table[c][k] = NIL
FileInv   == TypeInv /\ MapLeads /\ CallLeads /\ Unused /\ RightFile

(* At the start no descriptor leads to a file.                             *)
LEMMA InitFile == Init => FileInv
<1> SUFFICES ASSUME Init PROVE FileInv
  BY Zenon
<1>1. MapLeads /\ CallLeads
  BY DEF Init, MapLeads, CallLeads, Leads, NoCall, Call, SabfsFds
<1>2. Unused /\ RightFile
  BY DEF Init, Unused, RightFile, SabfsFds
<1> QED
  BY Zenon, <1>1, <1>2, InitType DEF FileInv

(* Closing a descriptor, and leaving the tables alone, keeps every lead.   *)
LEMMA LeadsKept ==
    ASSUME TypeOK, nextFd' = nextFd,
           \A c \in Cpus, k \in SabfsFds : table'[c][k] \in {NIL, table[c][k]}
    PROVE  /\ \A k \in SabfsFds \union {-1} : \A f : Leads(k, f) => Leads(k, f)'
           /\ Unused => Unused'
<1>1. 0 \in SabfsFds
  BY DEF SabfsFds
<1>2. ASSUME NEW k \in SabfsFds \union {-1}, NEW f, Leads(k, f)
      PROVE  k >= 0 => \A c \in Cpus : k < nextFd'[c] /\ table'[c][k] \in {NIL, f}
  BY <1>2 DEF Leads, SabfsFds
<1>3. Unused => Unused'
  BY Zenon, <1>1 DEF Unused
<1> QED
  BY Zenon, <1>2, <1>3 DEF Leads

(* The locals of no call lead nowhere.                                     *)
LEMMA IdleLeads ==
    ASSUME Unused, TypeOK
    PROVE  Leads(0, NIL)
<1> SUFFICES ASSUME NEW c \in Cpus PROVE 0 < nextFd[c] /\ table[c][0] \in {NIL}
  BY Zenon DEF Leads
<1>1. nextFd[c] \in Nat
  BY Zenon, SetTypes DEF TypeOK
<1>2. nextFd[c] >= 1 /\ table[c][0] = NIL
  BY Zenon DEF Unused
<1> QED
  BY <1>1, <1>2

(* The answer to a call on descriptor g is about the guest's own file.     *)
LEMMA AnswerRight ==
    ASSUME OneCpu, FileInv, NEW c \in Cpus, NEW g \in GuestFds, Answered(c, g, sabfs_get_fd(g))
    PROVE  RightFile'
<1>1. last'.got = IF sabfs_get_fd(g) \in SabfsFds THEN table[c][sabfs_get_fd(g)] ELSE NIL
  BY Zenon DEF Answered
<1>2. last'.want = held[g]
  BY Zenon DEF Answered
<1>3. CASE sabfs_get_fd(g) \in SabfsFds
  <2>1. sabfs_get_fd(g) >= 0
    BY <1>3 DEF SabfsFds
  <2>2. g \in Slots /\ fdMap[g] = sabfs_get_fd(g)
    BY Zenon, <2>1, GetFdType DEF FileInv, TypeInv
  <2>3. table[c][sabfs_get_fd(g)] \in {NIL, held[g]}
    BY Zenon, <2>1, <2>2 DEF FileInv, MapLeads, Leads
  <2> QED
    BY Zenon, <1>1, <1>2, <1>3, <2>3 DEF RightFile
<1>4. CASE sabfs_get_fd(g) \notin SabfsFds
  BY Zenon, <1>1, <1>4 DEF RightFile
<1> QED
  BY Zenon, <1>3, <1>4

(* With one vCPU every step keeps what each descriptor leads to.           *)
LEMMA NextFile == ASSUME OneCpu PROVE FileInv /\ [Next]_vars => FileInv'
<1> SUFFICES ASSUME FileInv, [Next]_vars PROVE FileInv'
  BY Zenon
<1>0. TypeInv /\ TypeInv' /\ TypeOK /\ MapLeads /\ CallLeads /\ Unused /\ RightFile
  BY Zenon, NextType DEF FileInv, TypeInv
<1> SUFFICES MapLeads' /\ CallLeads' /\ Unused' /\ RightFile'
  BY Zenon, <1>0 DEF FileInv
<1>t. /\ \A d \in Cpus : loc[d] \in Local /\ loc[d].sabfs \in SabfsFds /\ nextFd[d] \in SabfsFds
      /\ fdMap \in [Slots -> SabfsFds \union {-1}] /\ loc \in [Cpus -> Local]
      /\ held \in [GuestFds -> File]
  BY Zenon, <1>0, LocalStep DEF TypeOK
<1>2. ASSUME NEW c \in Cpus, NEW g \in GuestFds, ReadWrite(c, g)
      PROVE  MapLeads' /\ CallLeads' /\ Unused' /\ RightFile'
  <2>1. RightFile'
    BY Zenon, <1>2, AnswerRight DEF ReadWrite
  <2>2. MapLeads' /\ CallLeads' /\ Unused'
    BY Zenon, <1>0, <1>2 DEF ReadWrite, MapLeads, CallLeads, Unused, Leads, shared, worker
  <2> QED
    BY Zenon, <2>1, <2>2
<1>7. ASSUME NEW c \in Cpus, NEW g \in GuestFds, DupSame(c, g)
      PROVE  MapLeads' /\ CallLeads' /\ Unused' /\ RightFile'
  <2>1. RightFile'
    BY Zenon, <1>7, AnswerRight DEF DupSame
  <2>2. MapLeads' /\ CallLeads' /\ Unused'
    BY Zenon, <1>0, <1>7 DEF DupSame, MapLeads, CallLeads, Unused, Leads, shared, worker
  <2> QED
    BY Zenon, <2>1, <2>2
<1>3. ASSUME NEW c \in Cpus, NEW g \in GuestFds, Fstat(c, g)
      PROVE  MapLeads' /\ CallLeads' /\ Unused' /\ RightFile'
  <2>1. RightFile'
    BY Zenon, <1>3 DEF Fstat, RightFile
  <2>2. MapLeads' /\ CallLeads' /\ Unused'
    BY Zenon, <1>0, <1>3 DEF Fstat, MapLeads, CallLeads, Unused, Leads, shared, worker
  <2> QED
    BY Zenon, <2>1, <2>2
<1>4. ASSUME NEW c \in Cpus, NEW g \in GuestFds, ToKernel(c, g)
      PROVE  MapLeads' /\ CallLeads' /\ Unused' /\ RightFile'
  <2>1. RightFile'
    BY <1>4 DEF ToKernel, Answered, RightFile, SabfsFds
  <2>2. MapLeads' /\ CallLeads' /\ Unused'
    BY Zenon, <1>0, <1>4 DEF ToKernel, MapLeads, CallLeads, Unused, Leads, shared, worker
  <2> QED
    BY Zenon, <2>1, <2>2
<1>1. ASSUME NEW c \in Cpus, NEW f \in Files, Open(c, f)
      PROVE  MapLeads' /\ CallLeads' /\ Unused' /\ RightFile'
  <2>1. RightFile'
    BY Zenon, <1>0, <1>1 DEF Open, RightFile
  <2>2. \A d \in Cpus : d = c
    BY Zenon DEF OneCpu
  <2>3. /\ nextFd'[c] = nextFd[c] + 1 /\ nextFd[c] \in Nat
        /\ table'[c][nextFd[c]] = f
        /\ \A k \in SabfsFds : k # nextFd[c] => table'[c][k] = table[c][k]
    BY Zenon, <1>0, <1>1, <1>t, SetTypes DEF Open, TypeOK
  <2>4. MapLeads'
    BY <1>0, <1>1, <1>t, <2>2, <2>3, SetTypes DEF Open, MapLeads, Leads, shared, SabfsFds
  <2>5. loc'[c].sabfs = nextFd[c] /\ loc'[c].file = f
    BY Zenon, <1>1, <1>t DEF Open, Call
  <2>6. CallLeads'
    BY <2>2, <2>3, <2>5 DEF CallLeads, Leads
  <2>7. Unused'
    BY <1>0, <2>2, <2>3 DEF Unused, SabfsFds
  <2> QED
    BY Zenon, <2>1, <2>2, <2>3, <2>4, <2>5, <2>6, <2>7
<1>5. ASSUME NEW c \in Cpus, NEW g \in GuestFds, Close(c, g)
      PROVE  MapLeads' /\ CallLeads' /\ Unused' /\ RightFile'
  <2>1. RightFile'
    BY Zenon, <1>5, AnswerRight DEF Close
  <2>2. /\ Unused'
        /\ \A k \in SabfsFds \union {-1} : \A f : Leads(k, f) => Leads(k, f)'
    BY Zenon, <1>0, <1>5, LeadsKept DEF Close, Closed, TypeOK
  <2>3. MapLeads'
    BY Zenon, <1>0, <1>5, <1>t, <2>2 DEF Close, MapLeads, Leads, shared
  <2>4. Leads(0, NIL)'
    BY <1>0, <2>2, IdleLeads DEF SabfsFds
  <2>5. CallLeads'
    BY Zenon, <1>0, <1>5, <1>t, <2>4 DEF Close, CallLeads, Leads, Call, OneCpu
  <2> QED
    BY Zenon, <2>1, <2>2, <2>3, <2>5
<1>6. ASSUME NEW c \in Cpus, NEW g \in GuestFds, Dup(c, g)
      PROVE  MapLeads' /\ CallLeads' /\ Unused' /\ RightFile'
  <2>1. RightFile'
    BY Zenon, <1>6, AnswerRight DEF Dup
  <2>2. MapLeads' /\ Unused'
    BY Zenon, <1>0, <1>6 DEF Dup, MapLeads, Unused, Leads, shared, worker
  <2>3. g \in Slots /\ fdMap[g] = sabfs_get_fd(g)
    BY Zenon, <1>0, <1>6, GetFdType DEF Dup
  <2>4. CallLeads'
    BY Zenon, <1>0, <1>6, <1>t, <2>3 DEF Dup, CallLeads, MapLeads, Leads, worker, Call, OneCpu
  <2> QED
    BY Zenon, <2>1, <2>2, <2>3, <2>4
<1>8. ASSUME NEW c \in Cpus, NEW g \in GuestFds, NEW n \in GuestFds, Dup2(c, g, n)
      PROVE  MapLeads' /\ CallLeads' /\ Unused' /\ RightFile'
  <2>1. RightFile'
    BY Zenon, <1>8, AnswerRight DEF Dup2
  <2>2. /\ Unused'
        /\ \A k \in SabfsFds \union {-1} : \A f : Leads(k, f) => Leads(k, f)'
    BY Zenon, <1>0, <1>8, LeadsKept DEF Dup2, Closed, TypeOK
  <2>3. MapLeads'
    BY Zenon, <1>0, <1>8, <1>t, <2>2 DEF Dup2, MapLeads, Leads, shared
  <2>4. g \in Slots /\ fdMap[g] = sabfs_get_fd(g)
    BY Zenon, <1>0, <1>8, GetFdType DEF Dup2
  <2>5. Leads(sabfs_get_fd(g), held[g])'
    BY Zenon, <1>0, <1>8, <1>t, <2>3, <2>4 DEF Dup2, MapLeads, shared, sabfs_get_fd
  <2>6. CallLeads'
    BY Zenon, <1>8, <1>t, <2>5, <2>4 DEF Dup2, CallLeads, Leads, Call, OneCpu, shared, sabfs_get_fd
  <2> QED
    BY Zenon, <2>1, <2>2, <2>3, <2>4, <2>5, <2>6
<1>9. ASSUME NEW c \in Cpus, CloseFree(c)
      PROVE  MapLeads' /\ CallLeads' /\ Unused' /\ RightFile'
  <2>1. RightFile' /\ Unused'
    BY Zenon, <1>0, <1>9 DEF CloseFree, RightFile, Unused, worker
  <2>2. MapLeads'
    BY <1>0, <1>9, <1>t, SMTT(30) DEF CloseFree, MapLeads, Leads, worker
  <2>3. CallLeads'
    BY Zenon, <1>0, <1>9, <1>t, IdleLeads, LocalType DEF CloseFree, CallLeads, Leads, OneCpu, worker, Return
  <2> QED
    BY Zenon, <2>1, <2>2, <2>3
<1>10. ASSUME NEW c \in Cpus, Dup2Free(c)
      PROVE  MapLeads' /\ CallLeads' /\ Unused' /\ RightFile'
  <2>1. RightFile' /\ Unused'
    BY Zenon, <1>0, <1>10 DEF Dup2Free, RightFile, Unused, worker
  <2>2. MapLeads'
    BY <1>0, <1>10, <1>t DEF Dup2Free, MapLeads, Leads, worker
  <2>3. CallLeads'
    BY Zenon, <1>0, <1>10, <1>t DEF Dup2Free, CallLeads, Leads, Unused, OneCpu, worker, Goto
  <2> QED
    BY Zenon, <2>1, <2>2, <2>3
<1>11. ASSUME NEW c \in Cpus, InitCheck(c)
      PROVE  MapLeads' /\ CallLeads' /\ Unused' /\ RightFile'
  <2>1. RightFile' /\ Unused'
    BY Zenon, <1>0, <1>11 DEF InitCheck, RightFile, Unused, worker
  <2>2. MapLeads' /\ CallLeads'
    BY Zenon, <1>0, <1>11, <1>t DEF InitCheck, MapLeads, CallLeads, Leads, shared, worker, Local
  <2> QED
    BY Zenon, <2>1, <2>2
<1>13. ASSUME NEW c \in Cpus, InitDone(c)
      PROVE  MapLeads' /\ CallLeads' /\ Unused' /\ RightFile'
  <2>1. RightFile' /\ Unused'
    BY Zenon, <1>0, <1>13 DEF InitDone, RightFile, Unused, worker
  <2>2. MapLeads' /\ CallLeads'
    BY Zenon, <1>0, <1>13, <1>t DEF InitDone, MapLeads, CallLeads, Leads, shared, worker, Local
  <2> QED
    BY Zenon, <2>1, <2>2
<1>14. ASSUME NEW c \in Cpus, AllocLoad(c)
      PROVE  MapLeads' /\ CallLeads' /\ Unused' /\ RightFile'
  <2>1. RightFile' /\ Unused'
    BY Zenon, <1>0, <1>14 DEF AllocLoad, RightFile, Unused, worker
  <2>2. MapLeads' /\ CallLeads'
    BY <1>0, <1>14, <1>t DEF AllocLoad, MapLeads, CallLeads, Leads, shared, worker, Local
  <2> QED
    BY Zenon, <2>1, <2>2
<1>15. ASSUME NEW c \in Cpus, AllocNext(c)
      PROVE  MapLeads' /\ CallLeads' /\ Unused' /\ RightFile'
  <2>1. RightFile' /\ Unused'
    BY Zenon, <1>0, <1>15 DEF AllocNext, RightFile, Unused, worker
  <2>2. MapLeads' /\ CallLeads'
    BY Zenon, <1>0, <1>15, <1>t DEF AllocNext, MapLeads, CallLeads, Leads, shared, worker, Local
  <2> QED
    BY Zenon, <2>1, <2>2
<1>12. ASSUME NEW c \in Cpus, InitClear(c)
      PROVE  MapLeads' /\ CallLeads' /\ Unused' /\ RightFile'
  <2>1. RightFile' /\ Unused'
    BY Zenon, <1>0, <1>12 DEF InitClear, RightFile, Unused, worker
  <2>2. MapLeads'
    BY <1>0, <1>12, <1>t DEF InitClear, MapLeads, Leads, worker
  <2>3. CallLeads'
    BY Zenon, <1>0, <1>12, <1>t DEF InitClear, CallLeads, Leads, worker, Local
  <2> QED
    BY Zenon, <2>1, <2>2, <2>3
<1>16. ASSUME NEW c \in Cpus, AllocMap(c)
      PROVE  MapLeads' /\ CallLeads' /\ Unused' /\ RightFile'
  <2>1. RightFile' /\ Unused'
    BY Zenon, <1>0, <1>16 DEF AllocMap, RightFile, Unused, worker
  <2>2. Leads(loc[c].sabfs, loc[c].file) /\ UNCHANGED <<table, nextFd>>
    BY Zenon, <1>0, <1>16 DEF AllocMap, CallLeads, worker
  <2>3. MapLeads'
    BY Zenon, <1>0, <1>16, <1>t, <2>2, SetTypes DEF AllocMap, MapLeads, Leads
  <2>4. CallLeads'
    BY Zenon, <1>0, <1>16, <1>t, <2>2, IdleLeads, LocalType DEF AllocMap, CallLeads, Leads, OneCpu, Return
  <2> QED
    BY Zenon, <2>1, <2>2, <2>3, <2>4
<1>17. ASSUME NEW c \in Cpus, SetMap(c)
      PROVE  MapLeads' /\ CallLeads' /\ Unused' /\ RightFile'
  <2>1. RightFile' /\ Unused'
    BY Zenon, <1>0, <1>17 DEF SetMap, RightFile, Unused, worker
  <2>2. Leads(loc[c].sabfs, loc[c].file) /\ UNCHANGED <<table, nextFd>>
    BY Zenon, <1>0, <1>17 DEF SetMap, CallLeads, worker
  <2>3. MapLeads'
    BY Zenon, <1>0, <1>17, <1>t, <2>2, SetTypes DEF SetMap, MapLeads, Leads
  <2>4. CallLeads'
    BY Zenon, <1>0, <1>17, <1>t, <2>2, IdleLeads, LocalType DEF SetMap, CallLeads, Leads, OneCpu, Return
  <2> QED
    BY Zenon, <2>1, <2>2, <2>3, <2>4
<1>18. ASSUME NEW c \in Cpus, SetNext(c)
      PROVE  MapLeads' /\ CallLeads' /\ Unused' /\ RightFile'
  <2>1. RightFile' /\ Unused'
    BY Zenon, <1>0, <1>18 DEF SetNext, RightFile, Unused, worker
  <2>2. MapLeads'
    BY Zenon, <1>0, <1>18 DEF SetNext, MapLeads, Leads, worker
  <2>3. CallLeads'
    BY Zenon, <1>0, <1>18, <1>t, IdleLeads, LocalType DEF SetNext, CallLeads, Leads, OneCpu, worker, Return
  <2> QED
    BY Zenon, <2>1, <2>2, <2>3
<1>19. CASE UNCHANGED vars
  BY Zenon, <1>0, <1>19 DEF vars, MapLeads, CallLeads, Unused, RightFile, Leads
<1> QED
  BY Zenon, <1>1, <1>2, <1>3, <1>4, <1>5, <1>6, <1>7, <1>8, <1>9, <1>10, <1>11, <1>12, <1>13,
     <1>14, <1>15, <1>16, <1>17, <1>18, <1>19 DEF Next, Step

(* With one vCPU, a read or write that SABFS answers never touches another *)
(* file than the one the guest opened under that descriptor: not after     *)
(* duplicates were closed, not when the map was used before it was         *)
(* initialised, not when the descriptors ran out.                          *)
THEOREM OneCpuRightFile == ASSUME OneCpu PROVE Spec => []RightFile
<1>1. FileInv /\ [Next]_vars => FileInv'
  BY Zenon, NextFile
<1>2. FileInv => RightFile
  BY Zenon DEF FileInv
<1> QED
  BY InitFile, <1>1, <1>2, PTL DEF Spec

-----------------------------------------------------------------------------
(* What the guest holds lies below sabfs_next_guest_fd, except between the *)
(* two stores of sabfs_set_guest_fd.                                       *)
HeldBelow ==
    \A g \in GuestFds, c \in Cpus :
        held[g] # NIL => g < next \/ (pc[c] = "bump" /\ loc[c].guest = g)
AllocFresh ==
    \A c \in Cpus :
        /\ pc[c] = "next" => loc[c].guest = next
        /\ pc[c] = "map" => /\ next = loc[c].guest + 1
                            /\ loc[c].guest \in GuestFds => held[loc[c].guest] = NIL
FreshInv == TypeInv /\ HeldBelow /\ AllocFresh

(* At the start the guest holds no descriptor.                             *)
LEMMA InitFresh == Init => FreshInv
  BY Zenon, InitType DEF Init, FreshInv, HeldBelow, AllocFresh

(* With one vCPU what the guest holds stays below the next descriptor.     *)
LEMMA NextFresh == ASSUME OneCpu PROVE FreshInv /\ [Next]_vars => FreshInv'
<1> SUFFICES ASSUME FreshInv, [Next]_vars PROVE FreshInv'
  BY Zenon
<1>0. TypeInv /\ TypeInv' /\ TypeOK /\ TypeOK' /\ LocalOK /\ HeldBelow /\ AllocFresh
  BY Zenon, NextType DEF FreshInv, TypeInv
<1> SUFFICES HeldBelow' /\ AllocFresh'
  BY Zenon, <1>0 DEF FreshInv
<1>t. /\ next \in Nat /\ pc \in [Cpus -> Label] /\ loc \in [Cpus -> Local]
      /\ held \in [GuestFds -> File] /\ \A d \in Cpus : loc[d].guest \in Int
  BY Zenon, <1>0, LocalStep DEF TypeOK
<1> USE DEF HeldBelow, AllocFresh
<1>1. ASSUME NEW c \in Cpus, pc[c] = "user", UNCHANGED <<next, held>>,
             \/ UNCHANGED <<pc, loc>>
             \/ \E label \in {"init", "close", "free"} : Goto(c, label)
      PROVE  HeldBelow' /\ AllocFresh'
  BY <1>0, <1>1, <1>t DEF OneCpu, Goto
<1>2. ASSUME NEW c \in Cpus, NEW f \in Files, Open(c, f) PROVE HeldBelow' /\ AllocFresh'
  BY Zenon, <1>1, <1>2 DEF Open, shared
<1>3. ASSUME NEW c \in Cpus, NEW g \in GuestFds,
             ReadWrite(c, g) \/ Fstat(c, g) \/ ToKernel(c, g) \/ Close(c, g)
               \/ Dup(c, g) \/ DupSame(c, g)
      PROVE  HeldBelow' /\ AllocFresh'
  BY Zenon, <1>1, <1>3 DEF ReadWrite, Fstat, ToKernel, Close, Dup, DupSame, shared
<1>4. ASSUME NEW c \in Cpus, NEW g \in GuestFds, NEW n \in GuestFds, Dup2(c, g, n)
      PROVE  HeldBelow' /\ AllocFresh'
  BY Zenon, <1>1, <1>4 DEF Dup2, shared
<1>5. ASSUME NEW c \in Cpus, CloseFree(c) PROVE HeldBelow' /\ AllocFresh'
  BY Zenon, <1>0, <1>5, <1>t DEF CloseFree, Return, Goto, OneCpu
<1>6. ASSUME NEW c \in Cpus, Dup2Free(c) PROVE HeldBelow' /\ AllocFresh'
  BY Zenon, <1>0, <1>6, <1>t DEF Dup2Free, Goto, OneCpu
<1>7. ASSUME NEW c \in Cpus, InitCheck(c) \/ InitDone(c) PROVE HeldBelow' /\ AllocFresh'
  <2>1. loc[c].then \in {"load", "set"}
    BY Zenon, <1>t, LocalStep
  <2> QED
    BY <1>0, <1>7, <1>t, <2>1 DEF InitCheck, InitDone, Goto, shared, OneCpu
<1>8. ASSUME NEW c \in Cpus, InitClear(c) PROVE HeldBelow' /\ AllocFresh'
  BY Zenon, <1>0, <1>8, <1>t DEF InitClear, OneCpu
<1>9. ASSUME NEW c \in Cpus, AllocLoad(c) PROVE HeldBelow' /\ AllocFresh'
  <2>1. /\ pc[c] = "load" /\ pc' = [pc EXCEPT ![c] = "next"] /\ loc'[c].guest = next
        /\ UNCHANGED <<next, held>>
    BY Zenon, <1>9, <1>t DEF AllocLoad, Goto, shared, Local
  <2> QED
    BY Zenon, <1>0, <1>t, <2>1 DEF OneCpu
<1>10. ASSUME NEW c \in Cpus, AllocNext(c) PROVE HeldBelow' /\ AllocFresh'
  <2>1. loc[c].guest = next /\ next' = next + 1
    BY Zenon, <1>0, <1>10 DEF AllocNext
  <2>2. \A g \in GuestFds : held[g] # NIL => g < next
    BY Zenon, <1>0, <1>10 DEF AllocNext
  <2> QED
    BY <1>10, <1>t, <2>1, <2>2, SetTypes DEF AllocNext, Goto, OneCpu
<1>11. ASSUME NEW c \in Cpus, AllocMap(c) PROVE HeldBelow' /\ AllocFresh'
  <2>1. next = loc[c].guest + 1 /\ next' = next /\ pc' = [pc EXCEPT ![c] = "user"]
    BY Zenon, <1>0, <1>11 DEF AllocMap, Return, Goto
  <2>2. \A g \in GuestFds : held'[g] # NIL => g < next
    BY <1>0, <1>11, <1>t, <2>1, SetTypes DEF AllocMap
  <2> QED
    BY Zenon, <1>t, <2>1, <2>2 DEF OneCpu
<1>12. ASSUME NEW c \in Cpus, SetMap(c) PROVE HeldBelow' /\ AllocFresh'
  <2>1. \A g \in GuestFds : held[g] # NIL => g < next
    BY Zenon, <1>0, <1>12 DEF SetMap
  <2>2. CASE loc[c].guest \in Slots
    BY Zenon, <1>12, <1>t, <2>1, <2>2 DEF SetMap, Goto, OneCpu
  <2>3. CASE loc[c].guest \notin Slots
    BY Zenon, <1>12, <1>t, <2>1, <2>3 DEF SetMap, Return, Goto, OneCpu
  <2> QED
    BY Zenon, <2>2, <2>3
<1>13. ASSUME NEW c \in Cpus, SetNext(c) PROVE HeldBelow' /\ AllocFresh'
  <2>1. /\ next' = IF loc[c].guest >= next THEN loc[c].guest + 1 ELSE next
        /\ held' = held /\ pc' = [pc EXCEPT ![c] = "user"]
    BY Zenon, <1>13 DEF SetNext, Return, Goto
  <2>2. \A g \in GuestFds : held[g] # NIL => g < next'
    BY <1>0, <1>t, <2>1, SetTypes
  <2> QED
    BY Zenon, <1>t, <2>1, <2>2 DEF OneCpu
<1>14. CASE UNCHANGED vars
  BY Zenon, <1>0, <1>14 DEF vars
<1> QED
  BY Zenon, <1>2, <1>3, <1>4, <1>5, <1>6, <1>7, <1>8, <1>9, <1>10, <1>11, <1>12, <1>13, <1>14
     DEF Next, Step

(* With one vCPU, open and dup never return a descriptor that the guest    *)
(* still holds, wherever dup2 and dup3 have put theirs.                    *)
THEOREM OneCpuFreshFd == ASSUME OneCpu PROVE Spec => []FreshFd
<1>1. FreshInv /\ [Next]_vars => FreshInv'
  BY Zenon, NextFresh
<1>2. FreshInv => FreshFd
  BY SetTypes DEF FreshInv, TypeInv, TypeOK, HeldBelow, AllocFresh, FreshFd
<1> QED
  BY InitFresh, <1>1, <1>2, PTL DEF Spec

-----------------------------------------------------------------------------
(* Nothing is leaked.  The map holds descriptors of open files only once   *)
(* it is initialised.                                                      *)
Ready(c) ==
    /\ pc[c] \in {"load", "next", "map", "set", "bump"} => isInit
    /\ pc[c] = "clear" => ~isInit
    /\ ~isInit => \A g \in Slots : fdMap[g] <= 0

(* A slot that open or dup is about to take is empty: the ones in use lie  *)
(* below sabfs_next_guest_fd, as in HeldBelow.                             *)
Below(c) ==
    /\ \A g \in Slots : fdMap[g] > 0 => g < next \/ (pc[c] = "bump" /\ loc[c].guest = g)
    /\ pc[c] = "next" => loc[c].guest = next
    /\ pc[c] = "map" => /\ loc[c].guest \in Nat /\ next = loc[c].guest + 1
                        /\ loc[c].guest \in Slots => fdMap[loc[c].guest] <= 0

(* What a call drops from the map is closed, and what it still carries to  *)
(* a descriptor that dup2 cannot map is in the map elsewhere.              *)
Setting(c) == pc[c] = "set" \/ (pc[c] \in {"init", "clear"} /\ loc[c].then = "set")
Carried(c) ==
    /\ pc[c] = "close" => loc[c].sabfs = 0
    /\ pc[c] \in {"close", "free"} =>
          \A k \in SabfsFds : fdMap[loc[c].guest] = k => table[c][k] = NIL
    /\ pc[c] = "bump" => fdMap[loc[c].guest] = loc[c].sabfs
    /\ Setting(c) /\ loc[c].guest \in Slots => fdMap[loc[c].guest] = -1
    /\ Setting(c) /\ loc[c].guest \notin Slots =>
          loc[c].sabfs = 0 \/ \E g \in Slots : fdMap[g] = loc[c].sabfs

Reached(c) ==
    \A k \in SabfsFds :
        table[c][k] # NIL => \/ \E i \in Slots : fdMap[i] = k
                             \/ pc[c] # "user" /\ loc[c].sabfs = k
                             \/ next > MaxFds

LeakInv == FileInv /\ \A c \in Cpus : Ready(c) /\ Below(c) /\ Carried(c) /\ Reached(c)

(* At the start nothing is open.                                           *)
LEMMA InitLeak == Init => LeakInv
<1> SUFFICES ASSUME Init, NEW c \in Cpus PROVE Ready(c) /\ Below(c) /\ Carried(c) /\ Reached(c)
  BY Zenon, InitFile DEF LeakInv
<1>1. Ready(c) /\ Below(c)
  BY DEF Init, Ready, Below
<1>2. Carried(c) /\ Reached(c)
  BY Zenon DEF Init, Carried, Setting, Reached
<1> QED
  BY Zenon, <1>1, <1>2

(* A call on a descriptor begins.                                          *)
LEMMA BeginLeak ==
    ASSUME LeakInv, TypeOK', NEW c \in Cpus, pc[c] = "user", UNCHANGED shared,
           pc'[c] \in {"init", "close", "free"},
           \A k \in SabfsFds : table'[c][k] # NIL =>
              table[c][k] # NIL \/ loc'[c].sabfs = k,
           pc'[c] = "close" => loc'[c].sabfs = 0,
           pc'[c] \in {"close", "free"} =>
              \A k \in SabfsFds : fdMap[loc'[c].guest] = k => table'[c][k] = NIL,
           pc'[c] = "init" => \/ loc'[c].then = "load"
                              \/ loc'[c].guest \in Slots /\ fdMap[loc'[c].guest] = -1
                              \/ loc'[c].guest \notin Slots /\ \E g \in Slots : fdMap[g] = loc'[c].sabfs
    PROVE  Ready(c)' /\ Below(c)' /\ Carried(c)' /\ Reached(c)'
<1>0. Ready(c) /\ Below(c) /\ Carried(c) /\ Reached(c) /\ fdMap' = fdMap /\ isInit' = isInit /\ next' = next
  BY Zenon DEF LeakInv, shared
<1>1. Ready(c)'
  BY Zenon, <1>0 DEF Ready
<1>2. Below(c)'
  BY Zenon, <1>0 DEF Below
<1>3. Carried(c)'
  BY Zenon, <1>0 DEF Carried, Setting
<1>4. Reached(c)'
  BY Zenon, <1>0 DEF Reached
<1> QED
  BY Zenon, <1>1, <1>2, <1>3, <1>4

(* SABFS.close empties one entry of the worker's table.                    *)
LEMMA ClosedOnly ==
    ASSUME TypeOK, NEW c \in Cpus, NEW k, table' = Closed(c, k)
    PROVE  \A j \in SabfsFds : table'[c][j] = IF j = k THEN NIL ELSE table[c][j]
  BY Zenon DEF Closed, TypeOK

(* The calls of the guest.                                                 *)
LEMMA CallLeak ==
    ASSUME LeakInv, TypeOK', NEW c \in Cpus,
           \/ \E f \in Files : Open(c, f)
           \/ \E g \in GuestFds : Close(c, g) \/ Dup(c, g) \/ \E n \in GuestFds : Dup2(c, g, n)
    PROVE  Ready(c)' /\ Below(c)' /\ Carried(c)' /\ Reached(c)'
<1>0. /\ TypeOK /\ pc \in [Cpus -> Label] /\ loc \in [Cpus -> Local] /\ table \in [Cpus -> [SabfsFds -> File]]
      /\ fdMap \in [Slots -> SabfsFds \union {-1}] /\ nextFd[c] \in SabfsFds /\ held \in [GuestFds -> File]
      /\ 0 \in SabfsFds /\ GuestFds \subseteq Int
  BY SetTypes DEF LeakInv, FileInv, TypeInv, TypeOK, SabfsFds
<1>1. ASSUME NEW f \in Files, Open(c, f) PROVE Ready(c)' /\ Below(c)' /\ Carried(c)' /\ Reached(c)'
  <2>1. /\ pc[c] = "user" /\ UNCHANGED shared /\ pc'[c] = "init"
        /\ loc'[c] = Call(nextFd[c], 0, f, "load") /\ table' = [table EXCEPT ![c][nextFd[c]] = f]
    BY Zenon, <1>0, <1>1 DEF Open, Goto
  <2>2. loc'[c].sabfs = nextFd[c] /\ loc'[c].then = "load"
    BY <2>1 DEF Call
  <2>3. \A k \in SabfsFds : k # nextFd[c] => table'[c][k] = table[c][k]
    BY Zenon, <1>0, <2>1
  <2> QED
    BY Zenon, <2>1, <2>2, <2>3, BeginLeak
<1>2. ASSUME NEW g \in GuestFds, Close(c, g) PROVE Ready(c)' /\ Below(c)' /\ Carried(c)' /\ Reached(c)'
  <2>1. /\ pc[c] = "user" /\ UNCHANGED shared /\ pc'[c] = "close"
        /\ loc'[c] = Call(0, g, NIL, "load") /\ table' = Closed(c, sabfs_get_fd(g)) /\ sabfs_get_fd(g) >= 0
    BY Zenon, <1>0, <1>2 DEF Close, Goto, shared
  <2>2. loc'[c].sabfs = 0 /\ loc'[c].guest = g
    BY <2>1 DEF Call
  <2>3. g \in Slots /\ fdMap[g] = sabfs_get_fd(g)
    BY Zenon, <1>0, <2>1, GetFdType
  <2>4. \A j \in SabfsFds : table'[c][j] = IF j = fdMap[g] THEN NIL ELSE table[c][j]
    BY <1>0, <2>1, <2>3, ClosedOnly
  <2> QED
    BY Zenon, <2>1, <2>2, <2>4, BeginLeak
<1>3. ASSUME NEW g \in GuestFds, Dup(c, g) PROVE Ready(c)' /\ Below(c)' /\ Carried(c)' /\ Reached(c)'
  <2>1. /\ pc[c] = "user" /\ UNCHANGED shared /\ pc'[c] = "init" /\ table' = table
        /\ loc'[c] = Call(sabfs_get_fd(g), 0, held[g], "load")
    BY Zenon, <1>0, <1>3 DEF Dup, Goto, shared, worker
  <2>2. loc'[c].then = "load"
    BY <2>1 DEF Call
  <2> QED
    BY Zenon, <2>1, <2>2, BeginLeak
<1>4. ASSUME NEW g \in GuestFds, NEW n \in GuestFds, Dup2(c, g, n)
      PROVE  Ready(c)' /\ Below(c)' /\ Carried(c)' /\ Reached(c)'
  <2>1. /\ pc[c] = "user" /\ UNCHANGED shared /\ table' = Closed(c, sabfs_get_fd(n))
        /\ loc'[c] = Call(sabfs_get_fd(g), n, held[g], "set") /\ sabfs_get_fd(g) >= 0
        /\ pc'[c] = IF sabfs_get_fd(n) >= 0 THEN "free" ELSE "init"
    BY Zenon, <1>0, <1>4 DEF Dup2, Goto, shared
  <2>2. loc'[c].sabfs = sabfs_get_fd(g) /\ loc'[c].guest = n
    BY <2>1 DEF Call
  <2>3. g \in Slots /\ fdMap[g] = loc'[c].sabfs
    BY Zenon, <1>0, <2>1, <2>2, GetFdType
  <2>4. \A j \in SabfsFds : table'[c][j] = IF j = sabfs_get_fd(n) THEN NIL ELSE table[c][j]
    BY Zenon, <1>0, <2>1, ClosedOnly
  <2>5. CASE sabfs_get_fd(n) >= 0
    <3>1. n \in Slots /\ fdMap[n] = sabfs_get_fd(n)
      BY Zenon, <1>0, <2>5, GetFdType
    <3> QED
      BY Zenon, <2>1, <2>2, <2>4, <2>5, <3>1, BeginLeak
  <2>6. CASE ~(sabfs_get_fd(n) >= 0)
    <3>1. n \in Slots => fdMap[n] = -1
      <4>1. ASSUME n \in Slots PROVE fdMap[n] \notin SabfsFds
        BY <2>6, <4>1 DEF sabfs_get_fd, SabfsFds
      <4> QED
        BY Zenon, <1>0, <4>1
    <3> QED
      BY Zenon, <2>1, <2>2, <2>3, <2>4, <2>6, <3>1, BeginLeak
  <2> QED
    BY Zenon, <2>5, <2>6
<1> QED
  BY Zenon, <1>1, <1>2, <1>3, <1>4

(* The steps that empty a slot, and those of sabfs_init_fd_map.            *)
LEMMA ClearLeak ==
    ASSUME LeakInv, TypeOK', NEW c \in Cpus,
           CloseFree(c) \/ Dup2Free(c) \/ InitCheck(c) \/ InitClear(c) \/ InitDone(c)
    PROVE  Ready(c)' /\ Below(c)' /\ Carried(c)' /\ Reached(c)'
<1>0. /\ TypeOK /\ LocalOK /\ pc \in [Cpus -> Label] /\ loc \in [Cpus -> Local]
      /\ fdMap \in [Slots -> SabfsFds \union {-1}] /\ table[c][0] = NIL
      /\ Ready(c) /\ Below(c) /\ Carried(c) /\ Reached(c)
  BY Zenon DEF LeakInv, FileInv, TypeInv, TypeOK, Unused
<1>t. /\ loc[c] \in Local /\ loc[c].sabfs \in SabfsFds /\ loc[c].guest \in Int
      /\ loc[c].i \in 0 .. MaxFds /\ loc[c].then \in {"load", "set"}
      /\ SabfsFds \subseteq Nat /\ Slots \subseteq Nat
  BY Zenon, <1>0, LocalStep, SetTypes
<1>u. \A g \in Slots : fdMap[g] \in Int
  BY <1>0, SMTT(30) DEF SabfsFds
<1>1. CASE CloseFree(c)
  <2>1. /\ pc[c] = "close" /\ pc'[c] = "user" /\ loc'[c] = NoCall /\ loc[c].guest \in Slots
        /\ fdMap' = [fdMap EXCEPT ![loc[c].guest] = -1] /\ UNCHANGED <<isInit, next, table>>
    BY Zenon, <1>0, <1>1 DEF CloseFree, Return, Goto, worker, LocalOK
  <2>2. fdMap'[loc[c].guest] = -1 /\ \A g \in Slots : g # loc[c].guest => fdMap'[g] = fdMap[g]
    BY Zenon, <1>0, <2>1
  <2>3. Ready(c)' /\ Below(c)' /\ Carried(c)'
    BY <1>0, <2>1, <2>2, SMTT(30) DEF Ready, Below, Carried, Setting
  <2>4. Reached(c)'
    <3>1. loc[c].sabfs = 0 /\ \A k \in SabfsFds : fdMap[loc[c].guest] = k => table[c][k] = NIL
      BY Zenon, <1>0, <2>1 DEF Carried
    <3> QED
      BY <1>0, <2>1, <2>2, <3>1, SMTT(30) DEF Reached
  <2> QED
    BY Zenon, <2>3, <2>4
<1>2. CASE Dup2Free(c)
  <2>1. /\ pc[c] = "free" /\ pc'[c] = "init" /\ loc' = loc /\ loc[c].guest \in Slots
        /\ fdMap' = [fdMap EXCEPT ![loc[c].guest] = -1] /\ UNCHANGED <<isInit, next, table>>
    BY Zenon, <1>0, <1>2 DEF Dup2Free, Goto, worker, LocalOK
  <2>2. fdMap'[loc[c].guest] = -1 /\ \A g \in Slots : g # loc[c].guest => fdMap'[g] = fdMap[g]
    BY Zenon, <1>0, <2>1
  <2>3. Ready(c)' /\ Below(c)' /\ Carried(c)'
    BY <1>0, <2>1, <2>2, SMTT(30) DEF Ready, Below, Carried, Setting
  <2>4. Reached(c)'
    <3>1. \A k \in SabfsFds : fdMap[loc[c].guest] = k => table[c][k] = NIL
      BY Zenon, <1>0, <2>1 DEF Carried
    <3> QED
      BY Zenon, <1>0, <2>1, <2>2, <3>1 DEF Reached
  <2> QED
    BY Zenon, <2>3, <2>4
<1>3. CASE InitCheck(c)
  <2>1. /\ pc[c] = "init" /\ pc'[c] = (IF isInit THEN loc[c].then ELSE "clear")
        /\ UNCHANGED <<fdMap, isInit, next, table, loc>>
    BY Zenon, <1>0, <1>3 DEF InitCheck, Goto, shared, worker
  <2>2. Ready(c)' /\ Below(c)'
    BY Zenon, <1>0, <1>t, <2>1 DEF Ready, Below
  <2>3. Carried(c)' /\ Reached(c)'
    BY Zenon, <1>0, <1>t, <2>1 DEF Carried, Setting, Reached
  <2> QED
    BY Zenon, <2>2, <2>3
<1>4. CASE InitClear(c)
  <2>1. /\ pc[c] = "clear" /\ pc' = pc /\ fdMap' = [fdMap EXCEPT ![loc[c].i] = -1]
        /\ loc' = [loc EXCEPT ![c].i = loc[c].i + 1] /\ UNCHANGED <<isInit, next, table>>
    BY Zenon, <1>4 DEF InitClear, worker
  <2>2. loc'[c].sabfs = loc[c].sabfs /\ loc'[c].guest = loc[c].guest /\ loc'[c].then = loc[c].then
    BY Zenon, <1>0, <2>1 DEF Local
  <2>3. \A g \in Slots : fdMap[g] <= 0
    BY Zenon, <1>0, <2>1 DEF Ready
  <2>4. \A g \in Slots : fdMap'[g] = -1 \/ fdMap'[g] = fdMap[g]
    BY Zenon, <1>0, <2>1
  <2>5. \A g \in Slots : fdMap'[g] <= 0
    BY <2>3, <2>4, SMTT(30)
  <2>6. ASSUME NEW k \in SabfsFds, NEW g \in Slots, fdMap[g] = k PROVE k = 0
    <3>1. k \in Nat /\ k <= 0
      BY Zenon, <1>t, <2>3, <2>6
    <3> QED
      BY <3>1
  <2>7. Ready(c)' /\ Below(c)'
    BY <1>0, <2>1, <2>5 DEF Ready, Below
  <2>8. Carried(c)'
    BY Zenon, <1>0, <1>t, <2>1, <2>2, <2>4, <2>6 DEF Carried, Setting
  <2>9. Reached(c)'
    BY Zenon, <1>0, <2>1, <2>2, <2>6 DEF Reached
  <2> QED
    BY Zenon, <2>7, <2>8, <2>9
<1>5. CASE InitDone(c)
  <2>1. /\ pc[c] = "clear" /\ pc'[c] = loc[c].then /\ isInit' = TRUE
        /\ UNCHANGED <<fdMap, next, table, loc>>
    BY Zenon, <1>0, <1>5 DEF InitDone, Goto, worker
  <2>2. Ready(c)' /\ Below(c)'
    BY Zenon, <1>0, <1>t, <2>1 DEF Ready, Below
  <2>3. Carried(c)' /\ Reached(c)'
    BY Zenon, <1>0, <1>t, <2>1 DEF Carried, Setting, Reached
  <2> QED
    BY Zenon, <2>2, <2>3
<1> QED
  BY Zenon, <1>1, <1>2, <1>3, <1>4, <1>5

(* sabfs_alloc_guest_fd.                                                   *)
LEMMA AllocLeak ==
    ASSUME LeakInv, TypeOK', NEW c \in Cpus, AllocLoad(c) \/ AllocNext(c) \/ AllocMap(c)
    PROVE  Ready(c)' /\ Below(c)' /\ Carried(c)' /\ Reached(c)'
<1>0. /\ TypeOK /\ LocalOK /\ pc \in [Cpus -> Label] /\ loc \in [Cpus -> Local] /\ next \in Nat
      /\ fdMap \in [Slots -> SabfsFds \union {-1}] /\ table[c][0] = NIL
      /\ Ready(c) /\ Below(c) /\ Carried(c) /\ Reached(c)
  BY Zenon DEF LeakInv, FileInv, TypeInv, TypeOK, Unused
<1>t. /\ loc[c] \in Local /\ loc[c].sabfs \in SabfsFds /\ loc[c].guest \in Int
      /\ SabfsFds \subseteq Nat /\ Slots \subseteq Nat
  BY Zenon, <1>0, LocalStep, SetTypes
<1>u. \A g \in Slots : fdMap[g] \in Int
  BY <1>0, SMTT(30) DEF SabfsFds
<1>1. CASE AllocLoad(c)
  <2>1. /\ pc[c] = "load" /\ pc'[c] = "next" /\ loc'[c].guest = next /\ loc'[c].sabfs = loc[c].sabfs
        /\ UNCHANGED <<fdMap, isInit, next, table>>
    BY Zenon, <1>0, <1>1 DEF AllocLoad, Goto, shared, worker, Local
  <2>2. Ready(c)' /\ Below(c)'
    BY Zenon, <1>0, <2>1 DEF Ready, Below
  <2>3. Carried(c)' /\ Reached(c)'
    BY Zenon, <1>0, <2>1 DEF Carried, Setting, Reached
  <2> QED
    BY Zenon, <2>2, <2>3
<1>2. CASE AllocNext(c)
  <2>1. /\ pc[c] = "next" /\ pc'[c] = "map" /\ next' = next + 1 /\ loc[c].guest = next
        /\ UNCHANGED <<fdMap, isInit, table, loc>>
    BY Zenon, <1>0, <1>2 DEF AllocNext, Goto, worker, Below
  <2>2. \A g \in Slots : fdMap[g] > 0 => g < next
    BY Zenon, <1>0, <2>1 DEF Below
  <2>3. \A g \in Slots : fdMap[g] > 0 => g < next'
    BY <1>0, <1>t, <1>u, <2>1, <2>2
  <2>4. next \in Slots => fdMap[next] <= 0
    BY <1>0, <1>t, <1>u, <2>2, SMTT(30)
  <2>5. Ready(c)' /\ Below(c)'
    BY Zenon, <1>0, <2>1, <2>3, <2>4 DEF Ready, Below
  <2>6. Carried(c)'
    BY Zenon, <2>1 DEF Carried, Setting
  <2>7. Reached(c)'
    BY <1>0, <2>1 DEF Reached
  <2> QED
    BY Zenon, <2>5, <2>6, <2>7
<1>3. CASE AllocMap(c)
  <2>1. /\ pc[c] = "map" /\ pc'[c] = "user" /\ loc[c].guest \in Nat /\ next = loc[c].guest + 1
        /\ UNCHANGED <<isInit, next, table>>
        /\ loc[c].guest \in Slots => fdMap[loc[c].guest] <= 0
    BY Zenon, <1>0, <1>3 DEF AllocMap, Return, Goto, worker, Below
  <2>2. isInit /\ Ready(c)'
    BY Zenon, <1>0, <2>1 DEF Ready
  <2>3. Carried(c)'
    BY Zenon, <2>1 DEF Carried, Setting
  <2>4. CASE loc[c].guest \in Slots
    <3>1. fdMap' = [fdMap EXCEPT ![loc[c].guest] = loc[c].sabfs]
      BY Zenon, <1>3, <2>4 DEF AllocMap
    <3>2. /\ fdMap'[loc[c].guest] = loc[c].sabfs
          /\ \A g \in Slots : g # loc[c].guest => fdMap'[g] = fdMap[g]
      BY Zenon, <1>0, <2>4, <3>1
    <3>3. \A g \in Slots : fdMap'[g] > 0 => g < next
      BY <1>0, <1>t, <1>u, <2>1, <3>2, SMTT(30) DEF Below
    <3>4. Below(c)'
      BY Zenon, <2>1, <3>3 DEF Below
    <3>5. \A k \in SabfsFds : fdMap[loc[c].guest] = k => table[c][k] = NIL
      <4>1. ASSUME NEW k \in SabfsFds, fdMap[loc[c].guest] = k PROVE k = 0
        <5>1. k \in Nat /\ k <= 0
          BY Zenon, <1>t, <2>1, <2>4, <4>1
        <5> QED
          BY <5>1
      <4> QED
        BY Zenon, <1>0, <4>1
    <3>6. Reached(c)'
      BY Zenon, <1>0, <2>1, <2>4, <3>2, <3>5 DEF Reached
    <3> QED
      BY Zenon, <2>2, <2>3, <3>4, <3>6
  <2>5. CASE loc[c].guest \notin Slots
    <3>1. fdMap' = fdMap
      BY Zenon, <1>3, <2>5 DEF AllocMap
    <3>2. Below(c)'
      BY Zenon, <1>0, <2>1, <3>1 DEF Below
    <3>3. next > MaxFds
      BY <1>0, <1>t, <2>1, <2>5, SMTT(30) DEF Slots
    <3> QED
      BY Zenon, <2>1, <2>2, <2>3, <3>2, <3>3 DEF Reached
  <2> QED
    BY Zenon, <2>4, <2>5
<1> QED
  BY Zenon, <1>1, <1>2, <1>3

(* sabfs_set_guest_fd.                                                     *)
LEMMA SetLeak ==
    ASSUME LeakInv, TypeOK', NEW c \in Cpus, SetMap(c) \/ SetNext(c)
    PROVE  Ready(c)' /\ Below(c)' /\ Carried(c)' /\ Reached(c)'
<1>0. /\ TypeOK /\ LocalOK /\ pc \in [Cpus -> Label] /\ loc \in [Cpus -> Local] /\ next \in Nat
      /\ fdMap \in [Slots -> SabfsFds \union {-1}] /\ table[c][0] = NIL
      /\ Ready(c) /\ Below(c) /\ Carried(c) /\ Reached(c)
  BY Zenon DEF LeakInv, FileInv, TypeInv, TypeOK, Unused
<1>t. /\ loc[c] \in Local /\ loc[c].sabfs \in SabfsFds /\ loc[c].guest \in Int
      /\ SabfsFds \subseteq Nat /\ Slots \subseteq Nat
  BY Zenon, <1>0, LocalStep, SetTypes
<1>u. \A g \in Slots : fdMap[g] \in Int
  BY <1>0, SMTT(30) DEF SabfsFds
<1>1. CASE SetMap(c)
  <2>1. pc[c] = "set" /\ UNCHANGED <<isInit, next, table>> /\ isInit
    BY Zenon, <1>0, <1>1 DEF SetMap, worker, Ready
  <2>2. CASE loc[c].guest \in Slots
    <3>1. fdMap' = [fdMap EXCEPT ![loc[c].guest] = loc[c].sabfs] /\ pc'[c] = "bump" /\ loc' = loc
      BY Zenon, <1>0, <1>1, <2>2 DEF SetMap, Goto
    <3>2. /\ fdMap'[loc[c].guest] = loc[c].sabfs /\ fdMap[loc[c].guest] = -1
          /\ \A g \in Slots : g # loc[c].guest => fdMap'[g] = fdMap[g]
      BY Zenon, <1>0, <2>1, <2>2, <3>1 DEF Carried, Setting
    <3>3. Ready(c)' /\ Below(c)'
      BY Zenon, <1>0, <2>1, <3>1, <3>2 DEF Ready, Below
    <3>4. Carried(c)'
      BY Zenon, <3>1, <3>2 DEF Carried, Setting
    <3>5. \A k \in SabfsFds : fdMap[loc[c].guest] # k
      BY <1>t, <3>2
    <3>6. Reached(c)'
      BY <1>0, <2>1, <3>1, <3>2, <3>5, SMTT(30) DEF Reached
    <3> QED
      BY Zenon, <3>3, <3>4, <3>6
  <2>3. CASE loc[c].guest \notin Slots
    <3>1. fdMap' = fdMap /\ pc'[c] = "user"
      BY Zenon, <1>0, <1>1, <2>3 DEF SetMap, Return, Goto
    <3>2. Ready(c)' /\ Below(c)' /\ Carried(c)'
      BY Zenon, <1>0, <2>1, <3>1 DEF Ready, Below, Carried, Setting
    <3>3. loc[c].sabfs = 0 \/ \E g \in Slots : fdMap[g] = loc[c].sabfs
      BY Zenon, <1>0, <2>1, <2>3 DEF Carried, Setting
    <3>4. Reached(c)'
      BY Zenon, <1>0, <2>1, <3>1, <3>3 DEF Reached
    <3> QED
      BY Zenon, <3>2, <3>4
  <2> QED
    BY Zenon, <2>2, <2>3
<1>2. CASE SetNext(c)
  <2>1. /\ pc[c] = "bump" /\ pc'[c] = "user" /\ loc[c].guest \in Slots
        /\ next' = (IF loc[c].guest >= next THEN loc[c].guest + 1 ELSE next)
        /\ UNCHANGED <<fdMap, isInit, table>> /\ fdMap[loc[c].guest] = loc[c].sabfs
    BY Zenon, <1>0, <1>2 DEF SetNext, Return, Goto, worker, LocalOK, Carried
  <2>2. next' \in Nat /\ next' >= next /\ loc[c].guest < next'
    BY <1>0, <1>t, <2>1, SMTT(30)
  <2>3. \A g \in Slots : fdMap[g] > 0 => g < next'
    BY <1>0, <1>t, <1>u, <2>1, <2>2 DEF Below
  <2>4. Ready(c)' /\ Below(c)' /\ Carried(c)'
    BY Zenon, <1>0, <2>1, <2>3 DEF Ready, Below, Carried, Setting
  <2>5. next > MaxFds => next' > MaxFds
    BY <1>0, <2>2, SMTT(30)
  <2>6. Reached(c)'
    BY Zenon, <1>0, <2>1, <2>5 DEF Reached
  <2> QED
    BY Zenon, <2>4, <2>6
<1> QED
  BY Zenon, <1>1, <1>2

(* With one vCPU every step keeps a way to what SABFS has open.            *)
LEMMA NextLeak == ASSUME OneCpu PROVE LeakInv /\ [Next]_vars => LeakInv'
<1> SUFFICES ASSUME LeakInv, [Next]_vars PROVE LeakInv'
  BY Zenon
<1>0. FileInv' /\ TypeOK'
  <2>1. FileInv'
    BY Zenon, NextFile DEF LeakInv
  <2> QED
    BY Zenon, <2>1 DEF FileInv, TypeInv
<1>1. CASE UNCHANGED <<shared, table, pc, loc>>
  <2>1. ASSUME NEW c \in Cpus PROVE Ready(c)' /\ Below(c)' /\ Carried(c)' /\ Reached(c)'
    BY <1>1, <2>1, SMTT(30) DEF LeakInv, shared, Ready, Below, Carried, Setting, Reached
  <2> QED
    BY Zenon, <1>0, <2>1 DEF LeakInv
<1>2. ASSUME NEW c \in Cpus, Ready(c)', Below(c)', Carried(c)', Reached(c)' PROVE LeakInv'
  <2>1. \A d \in Cpus : d = c
    BY Zenon DEF OneCpu
  <2> QED
    BY Zenon, <1>0, <1>2, <2>1 DEF LeakInv
<1>3. ASSUME NEW c \in Cpus, Step(c) PROVE LeakInv'
  BY Zenon, <1>0, <1>2, <1>3, ClearLeak, AllocLeak, SetLeak DEF Step
<1>4. ASSUME NEW c \in Cpus,
             \/ \E f \in Files : Open(c, f)
             \/ \E g \in GuestFds : Close(c, g) \/ Dup(c, g) \/ \E n \in GuestFds : Dup2(c, g, n)
      PROVE  LeakInv'
  BY Zenon, <1>0, <1>2, <1>4, CallLeak
<1>5. ASSUME NEW c \in Cpus, NEW g \in GuestFds,
             ReadWrite(c, g) \/ Fstat(c, g) \/ ToKernel(c, g) \/ DupSame(c, g)
      PROVE  LeakInv'
  BY Zenon, <1>1, <1>5 DEF ReadWrite, Fstat, ToKernel, DupSame, worker
<1>6. CASE UNCHANGED vars
  BY Zenon, <1>1, <1>6 DEF vars, shared
<1> QED
  BY Zenon, <1>3, <1>4, <1>5, <1>6 DEF Next

(* With one vCPU, whatever open, close, dup, dup2 and dup3 do in whatever  *)
(* order, a descriptor SABFS has open is in the map or in the hands of the *)
(* running call, until the guest descriptors have run out.                 *)
THEOREM OneCpuNothingLeaked == ASSUME OneCpu PROVE Spec => []NothingLeaked
<1>1. LeakInv /\ [Next]_vars => LeakInv'
  BY Zenon, NextLeak
<1>2. LeakInv => NothingLeaked
  BY Zenon DEF LeakInv, Reached, NothingLeaked
<1> QED
  BY InitLeak, <1>1, <1>2, PTL DEF Spec

==============================================================================
