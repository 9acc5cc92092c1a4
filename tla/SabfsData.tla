----------------------------- MODULE SabfsData -----------------------------
(***************************************************************************)
(* The contents of SABFS files as one worker sees them (src/sabfs.js):     *)
(* descriptors and their positions, read, write, pread, pwrite, lseek,     *)
(* truncate and open's O_TRUNC and O_APPEND.  Beside the state of the code *)
(* the model keeps what POSIX says of the same calls: the file (ref) and   *)
(* the position of each descriptor (at).  In two places the position is    *)
(* the code's own and at follows it: an O_APPEND descriptor starts at the  *)
(* end of the file, and lseek before the start goes to 0.                  *)
(*                                                                         *)
(* Three things let a file differ from ref, and it is then in strayed: an  *)
(* extension that uncovers bytes truncate had cut off, a write of no bytes *)
(* beyond the end, and pwrite on an O_APPEND descriptor, which the code    *)
(* appends (as Linux does) and POSIX writes at the offset given.           *)
(*                                                                         *)
(* A block that is not mapped holds zeroes, and a new block is zeroed by   *)
(* allocBlock, so that data needs no block numbers; the pointer blocks     *)
(* behind them are SabfsFile's.                                            *)
(***************************************************************************)
EXTENDS Integers, FiniteSets, FiniteSetsExt, Sequences

CONSTANTS
    Files,
    Fds,         \* descriptors the caller has open at one time
    NIL,
    BlockSize,   \* BLOCK_SIZE
    DataBlocks,  \* blocks in the free list
    Values,      \* bytes that are written; 0 is not one
    Counts,      \* how many bytes a call asks for
    Lengths,     \* lengths given to truncate
    Appends,     \* whether open is given O_APPEND
    MaxByte      \* bound on positions

ASSUME DataAssumption ==
    /\ BlockSize \in Nat \ {0} /\ DataBlocks \in Nat /\ MaxByte \in Nat
    /\ Counts \subseteq Nat /\ Lengths \subseteq 0 .. MaxByte /\ Values \subseteq Nat \ {0}
    /\ Appends \subseteq BOOLEAN

VARIABLES
    size,     \* INO_SIZE
    data,     \* the bytes in the blocks of a file
    mapped,   \* the blocks of a file that are mapped
    free,     \* the number of free blocks
    fdTable,  \* descriptor -> [file, pos, append]
    ref,      \* POSIX: [len, bytes]
    at,       \* POSIX: the position of a descriptor
    strayed   \* the files that the code let differ from ref (see above)

fileVars == <<size, data, mapped, free, ref, strayed>>
vars == <<size, data, mapped, free, fdTable, ref, at, strayed>>

Bytes  == 0 .. MaxByte - 1
Blocks == 0 .. MaxByte \div BlockSize
Zeroes == [i \in Bytes |-> 0]
Empty  == [len |-> 0, bytes |-> Zeroes]

Init ==
    /\ size = [f \in Files |-> 0]
    /\ data = [f \in Files |-> Zeroes]
    /\ mapped = [f \in Files |-> {}]
    /\ free = DataBlocks
    /\ fdTable = [d \in Fds |-> NIL]
    /\ ref = [f \in Files |-> Empty]
    /\ at = [d \in Fds |-> 0]
    /\ strayed = {}

-----------------------------------------------------------------------------
(* open: the position of O_APPEND is the size before O_TRUNC.              *)
Open(d, f, append, trunc) ==
    /\ fdTable[d] = NIL
    /\ LET start == IF append THEN size[f] ELSE 0
       IN  /\ fdTable' = [fdTable EXCEPT ![d] = [file |-> f, pos |-> start, append |-> append]]
           /\ at' = [at EXCEPT ![d] = start]
    /\ \/ ~trunc /\ UNCHANGED fileVars
       \/ /\ trunc
          /\ size' = [size EXCEPT ![f] = 0]
          /\ data' = [data EXCEPT ![f] = Zeroes]
          /\ mapped' = [mapped EXCEPT ![f] = {}]
          /\ ref' = [ref EXCEPT ![f] = Empty]
          /\ strayed' = strayed \ {f}
          /\ UNCHANGED free

Close(d) ==
    /\ fdTable[d] # NIL
    /\ fdTable' = [fdTable EXCEPT ![d] = NIL]
    /\ at' = [at EXCEPT ![d] = 0]
    /\ UNCHANGED fileVars

(* The bytes that read returns at pos, and those that POSIX says it does.  *)
ReadAt(f, pos, count) ==
    LET toRead == IF pos >= size[f] THEN 0 ELSE Min({count, size[f] - pos})
    IN  [i \in 1 .. toRead |->
            IF (pos + i - 1) \div BlockSize \in mapped[f] THEN data[f][pos + i - 1] ELSE 0]

RefAt(f, pos, count) ==
    [i \in 1 .. Min({count, ref[f].len - pos}) |-> ref[f].bytes[pos + i - 1]]

Read(d, count) ==
    /\ fdTable[d] # NIL
    /\ LET f == fdTable[d].file
       IN  /\ fdTable' = [fdTable EXCEPT ![d].pos = @ + Len(ReadAt(f, @, count))]
           /\ at' = [at EXCEPT ![d] = @ + Len(IF f \in strayed THEN ReadAt(f, @, count)
                                                               ELSE RefAt(f, @, count))]
    /\ UNCHANGED fileVars

(* pread and pwrite move the position, call read or write and move it back. *)
Restored(d, table) == [table EXCEPT ![d].pos = fdTable[d].pos]

Pread(d, count, offset) ==
    /\ fdTable[d] # NIL
    /\ LET moved == offset + Len(ReadAt(fdTable[d].file, offset, count))
       IN  fdTable' = Restored(d, [fdTable EXCEPT ![d].pos = moved])
    /\ UNCHANGED <<fileVars, at>>

-----------------------------------------------------------------------------
(* The write loop maps a block where there is none and stops when no block *)
(* is free: Got is the set of blocks it gets, Written the bytes it writes. *)
Needs(f, pos, count) ==
    IF count = 0 THEN {} ELSE (pos \div BlockSize .. (pos + count - 1) \div BlockSize) \ mapped[f]
Got(f, pos, count) ==
    {b \in Needs(f, pos, count) : Cardinality({c \in Needs(f, pos, count) : c <= b}) <= free}
Written(f, pos, count) ==
    LET missing == Needs(f, pos, count) \ Got(f, pos, count)
    IN  IF missing = {} THEN count ELSE Max({0, Min(missing) * BlockSize - pos})

(* Mutant: O_APPEND keeps the position of open.                            *)
WritePosStale(d, pos) == pos

WritePos(d, pos) == IF fdTable[d].append THEN size[fdTable[d].file] ELSE pos
RefPos(d, pos) == IF fdTable[d].append THEN ref[fdTable[d].file].len ELSE pos

(* Moving the end of f to length uncovers bytes that truncate had cut off. *)
Exposes(f, length) == \E i \in size[f] .. length - 1 : data[f][i] # 0

(* The reference of a file is kept until the file has strayed.             *)
SetRef(f, r) == ref' = [ref EXCEPT ![f] = IF f \in strayed THEN Empty ELSE r]

Put(bytes, pos, n, v) ==
    [i \in Bytes |-> IF i \in pos .. pos + n - 1 THEN v ELSE bytes[i]]

(* A write of count bytes v at pos.  POSIX puts as many bytes at rpos, and *)
(* a write of none leaves the file alone; the code still moves its end.    *)
(* elsewhere: the code is known to choose another position than POSIX.     *)
WriteAt(f, pos, rpos, count, v, elsewhere) ==
    LET n == Written(f, pos, count)
    IN  /\ {pos, rpos} \subseteq 0 .. MaxByte - count
        /\ data' = [data EXCEPT ![f] = Put(@, pos, n, v)]
        /\ mapped' = [mapped EXCEPT ![f] = @ \union Got(f, pos, count)]
        /\ free' = free - Cardinality(Got(f, pos, count))
        /\ size' = [size EXCEPT ![f] = Max({@, pos + n})]
        /\ SetRef(f, IF n = 0 THEN ref[f]
                     ELSE [len |-> Max({ref[f].len, rpos + n}), bytes |-> Put(ref[f].bytes, rpos, n, v)])
        /\ strayed' = IF Exposes(f, pos) \/ (IF n = 0 THEN pos > size[f] ELSE elsewhere)
                      THEN strayed \union {f} ELSE strayed

Write(d, count, v) ==
    /\ fdTable[d] # NIL
    /\ LET f == fdTable[d].file
           p == WritePos(d, fdTable[d].pos)
           r == RefPos(d, at[d])
           n == Written(f, p, count)
       IN  /\ WriteAt(f, p, r, count, v, FALSE)
           /\ fdTable' = [fdTable EXCEPT ![d].pos = p + n]
           /\ at' = [at EXCEPT ![d] = IF f \in strayed THEN p + n ELSE r + n]

Pwrite(d, count, v, offset) ==
    /\ fdTable[d] # NIL
    /\ LET f == fdTable[d].file
           p == WritePos(d, offset)
       IN  /\ WriteAt(f, p, offset, count, v, fdTable[d].append /\ p # offset)
           /\ fdTable' = Restored(d, [fdTable EXCEPT ![d].pos = p + Written(f, p, count)])
    /\ UNCHANGED at

(* lseek: whence 0, 1 or 2; a position before the start becomes 0.         *)
Lseek(d, offset, whence) ==
    /\ fdTable[d] # NIL
    /\ LET f == fdTable[d].file
           To(pos, end) == Max({0, offset + CASE whence = 0 -> 0 [] whence = 1 -> pos [] whence = 2 -> end})
           new == To(fdTable[d].pos, size[f])
       IN  /\ new <= MaxByte
           /\ fdTable' = [fdTable EXCEPT ![d].pos = new]
           /\ at' = [at EXCEPT ![d] = IF f \in strayed THEN new ELSE To(at[d], ref[f].len)]
    /\ UNCHANGED fileVars

(* truncate sets the size and leaves blocks and bytes; POSIX: what is cut  *)
(* off is gone.                                                            *)
Truncate(f, length) ==
    LET cut == [i \in Bytes |-> IF i < length THEN ref[f].bytes[i] ELSE 0]
    IN  /\ size' = [size EXCEPT ![f] = length]
        /\ SetRef(f, [len |-> length, bytes |-> cut])
        /\ strayed' = IF Exposes(f, length) THEN strayed \union {f} ELSE strayed
        /\ UNCHANGED <<data, mapped, free, fdTable, at>>

-----------------------------------------------------------------------------
Next ==
    \/ \E d \in Fds, f \in Files, append \in Appends, trunc \in BOOLEAN : Open(d, f, append, trunc)
    \/ \E d \in Fds :
          \/ Close(d)
          \/ \E n \in Counts :
                \/ Read(d, n)
                \/ \E o \in Bytes : Pread(d, n, o)
                \/ \E v \in Values : Write(d, n, v)
                \/ \E v \in Values, o \in Bytes : Pwrite(d, n, v, o)
          \/ \E o \in {-1, 0, 1}, whence \in 0 .. 2 : Lseek(d, o, whence)
    \/ \E f \in Files, n \in Lengths : Truncate(f, n)

Spec == Init /\ [][Next]_vars

-----------------------------------------------------------------------------
TypeOK ==
    /\ size \in [Files -> 0 .. MaxByte]
    /\ data \in [Files -> [Bytes -> Values \union {0}]]
    /\ mapped \in [Files -> SUBSET Blocks]
    /\ free \in 0 .. DataBlocks
    /\ fdTable \in [Fds -> [file : Files, pos : 0 .. MaxByte, append : BOOLEAN] \union {NIL}]
    /\ at \in [Fds -> 0 .. MaxByte]
    /\ strayed \in SUBSET Files

(* read and pread (656-685, 729-737) return what POSIX says wherever the   *)
(* descriptor stands, and it stands where POSIX says, however holes, short *)
(* writes, appends and the other descriptors of the file came together.    *)
(* Left out are only the files that met one of the three departures named  *)
(* at the top (976, 720, 691-694), until O_TRUNC.                          *)
ReadReturns ==
    \A d \in Fds : fdTable[d] # NIL /\ fdTable[d].file \notin strayed =>
        /\ fdTable[d].pos = at[d]
        /\ \A n \in Counts, o \in Bytes :
              ReadAt(fdTable[d].file, o, n) = RefAt(fdTable[d].file, o, n)

(* Every file holds what POSIX says (sabfs.js:4, "Full POSIX-compatible    *)
(* filesystem"): truncate (969-978), write (720-721) and pwrite (739-747)  *)
(* on an O_APPEND descriptor do not keep this.                             *)
FileIsReference ==
    \A f \in Files : ReadAt(f, 0, MaxByte) = RefAt(f, 0, MaxByte)
=============================================================================
