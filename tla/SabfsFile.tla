----------------------------- MODULE SabfsFile ------------------------------
(***************************************************************************)
(* How SABFS maps the blocks of a file (src/sabfs.js: getBlockNum,         *)
(* allocBlockForFile and the loop of write that calls them), run by        *)
(* several workers at once.  Inodes and pointer blocks are plain words of  *)
(* the shared buffer: no lock protects them.  The module is the client of  *)
(* FreeList: a worker inside allocBlock or freeBlock takes FreeList's      *)
(* steps, the others are the steps of allocBlockForFile.                   *)
(*                                                                         *)
(* readInode and getBlockNum of the fast path are one step: block pointers *)
(* only ever change from 0 to a block here, so reading them one after the  *)
(* other gives what reading them all at the last read gives, or "hole" as  *)
(* reading them all at the first 0 does.                                   *)
(***************************************************************************)
EXTENDS Integers, FiniteSets

CONSTANTS
    Workers, TotalDataBlocks, PtrsPerBlock, NIL, Data,   \* see FreeList
    Inodes,         \* the files written to
    DirectBlocks,   \* DIRECT_BLOCKS
    FileBlocks,     \* the file block indexes written to
    MayWrite        \* <<w, ino, file block>>: what each worker writes to

VARIABLES head, words, pc, h, n, arg, held, published, pushed, aba,
    inode,  \* the block pointers and the block count of the inodes
    at,     \* where each worker is inside write / allocBlockForFile
    job,    \* the file and the file block it works on
    loc,    \* its locals newBlock, indirect (or dblIndirect), l1Ptr, blocks
    done    \* ghost: <<ino, file block, block>> of the writes that returned

FL == INSTANCE FreeList

(* The file block indexes end where the double indirect block does, at the *)
(* 4 GB that the layout comment of sabfs.js gives as the size of a file.   *)
(* The code does not test l1: further out its pointer would go into the    *)
(* block behind the double indirect one, and nothing here speaks of that.  *)
ASSUME SabfsFileAssumption ==
    /\ TotalDataBlocks \in Nat /\ TotalDataBlocks >= 2
    /\ PtrsPerBlock \in Nat \ {0}
    /\ NIL \notin Int
    /\ Data \subseteq 0 .. TotalDataBlocks - 1 \union {NIL}
    /\ Inodes # {} /\ DirectBlocks \in Nat
    /\ FileBlocks \subseteq 0 .. DirectBlocks + PtrsPerBlock + PtrsPerBlock * PtrsPerBlock - 1

listVars == <<head, words, pc, h, n, arg, held, published, pushed, aba>>
fileVars == <<inode, at, job, loc, done>>
vars     == <<listVars, fileVars>>

NoJob == [ino |-> CHOOSE i \in Inodes : TRUE, fb |-> 0]
NoLoc == [newBlock |-> 0, indirect |-> 0, l1Ptr |-> 0, blocks |-> 0]

Init ==
    /\ FL!Init
    /\ inode = [i \in Inodes |-> [direct |-> [k \in 0 .. DirectBlocks - 1 |-> 0],
                                  indirect |-> 0, doubleIndirect |-> 0, blocks |-> 0]]
    /\ at = [w \in Workers |-> "idle"]
    /\ job = [w \in Workers |-> NoJob]
    /\ loc = [w \in Workers |-> NoLoc]
    /\ done = {}

-----------------------------------------------------------------------------
(* The geometry of a file.                                                 *)
Direct(fb)    == fb < DirectBlocks
Indirect(fb)  == ~Direct(fb) /\ fb - DirectBlocks < PtrsPerBlock
IndirectIdx(fb) == fb - DirectBlocks
DoubleIdx(fb) == fb - DirectBlocks - PtrsPerBlock
L1(fb)        == DoubleIdx(fb) \div PtrsPerBlock
L2(fb)        == DoubleIdx(fb) % PtrsPerBlock

getBlockNum(ino, fb) ==
    LET I   == inode[ino]
        ptr(b, i) == IF b = 0 THEN 0 ELSE words[b][i]
        blk == IF Direct(fb) THEN I.direct[fb]
               ELSE IF Indirect(fb) THEN ptr(I.indirect, IndirectIdx(fb))
               ELSE ptr(ptr(I.doubleIndirect, L1(fb)), L2(fb))
    IN  IF blk = 0 THEN -1 ELSE blk

-----------------------------------------------------------------------------
GoAt(w, from, to) == at[w] = from /\ at' = [at EXCEPT ![w] = to]
SetLoc(w, f, v)   == loc' = [loc EXCEPT ![w][f] = v]

ino(w) == job[w].ino
fb(w)  == job[w].fb

(* write(): the block exists, or has to be allocated.                      *)
WriteMapped(w, i, f) ==
    /\ <<w, i, f>> \in MayWrite
    /\ pc[w] = "idle"
    /\ getBlockNum(i, f) # -1
    /\ GoAt(w, "idle", "data")
    /\ job' = [job EXCEPT ![w] = [ino |-> i, fb |-> f]]
    /\ SetLoc(w, "newBlock", getBlockNum(i, f))
    /\ UNCHANGED <<listVars, inode, done>>

WriteHole(w, i, f) ==
    /\ <<w, i, f>> \in MayWrite
    /\ getBlockNum(i, f) = -1
    /\ GoAt(w, "idle", "new")
    /\ job' = [job EXCEPT ![w] = [ino |-> i, fb |-> f]]
    /\ FL!AllocCall(w)
    /\ UNCHANGED <<inode, loc, done>>

(* The steps inside allocBlock and freeBlock that do not return.           *)
ListStep(w) ==
    /\ \/ FL!AllocLoad(w) \/ FL!AllocNext(w) \/ FL!AllocCas(w) \/ FL!AllocRetry(w)
       \/ FL!FreeLoad(w) \/ FL!FreeSet(w) \/ FL!FreeRetry(w)
    /\ UNCHANGED fileVars

(* allocBlock returns a block to one of its four calls.                    *)
NewReturns(w)      == GoAt(w, "new", "map")    /\ SetLoc(w, "newBlock", h[w])
IndirectReturns(w) == GoAt(w, "ind", "indset") /\ SetLoc(w, "indirect", h[w])
DoubleReturns(w)   == GoAt(w, "dbl", "dblset") /\ SetLoc(w, "indirect", h[w])
L1Returns(w)       == GoAt(w, "l1", "l1set")   /\ SetLoc(w, "l1Ptr", h[w])

AllocReturns(w) ==
    /\ FL!AllocZero(w)
    /\ NewReturns(w) \/ IndirectReturns(w) \/ DoubleReturns(w) \/ L1Returns(w)
    /\ UNCHANGED <<inode, job, done>>

(* Mutants of the failure path: the failure of a pointer block leaves      *)
(* newBlock behind; the pointer block is freed.                            *)
AllocFailsNoUndo(w) ==
    /\ FL!AllocEmpty(w)
    /\ at' = [at EXCEPT ![w] = "idle"] /\ job' = [job EXCEPT ![w] = NoJob]
    /\ UNCHANGED <<inode, loc, done>>

UndoPointerBlock(w) ==
    /\ GoAt(w, "undo", "undoing")
    /\ FL!FreeCall(w, IF loc[w].indirect # 0 THEN loc[w].indirect ELSE loc[w].newBlock)
    /\ UNCHANGED <<inode, job, loc, done>>

(* ... or -1: nothing is allocated yet, or newBlock has to be given back.  *)
AllocFails(w) ==
    /\ FL!AllocEmpty(w)
    /\ \/ GoAt(w, "new", "idle") /\ job' = [job EXCEPT ![w] = NoJob]
       \/ at[w] # "new" /\ at' = [at EXCEPT ![w] = "undo"] /\ UNCHANGED job
    /\ UNCHANGED <<inode, loc, done>>

Undo(w) ==
    /\ GoAt(w, "undo", "undoing")
    /\ FL!FreeCall(w, loc[w].newBlock)
    /\ UNCHANGED <<inode, job, loc, done>>

UndoReturns(w) ==
    /\ FL!FreeCas(w)
    /\ GoAt(w, "undoing", "idle")
    /\ job' = [job EXCEPT ![w] = NoJob]
    /\ loc' = [loc EXCEPT ![w] = NoLoc]
    /\ UNCHANGED <<inode, done>>

-----------------------------------------------------------------------------
(* allocBlockForFile with newBlock in hand.                                *)
MapDirectNoCount(w) ==       \* mutant: a direct block is not counted
    /\ Direct(fb(w))
    /\ GoAt(w, "map", "data")
    /\ inode' = [inode EXCEPT ![ino(w)].direct[fb(w)] = loc[w].newBlock]
    /\ FL!Publish(w, loc[w].newBlock)
    /\ UNCHANGED <<job, loc, done>>

MapDirect(w) ==
    /\ Direct(fb(w))
    /\ GoAt(w, "map", "count")
    /\ inode' = [inode EXCEPT ![ino(w)].direct[fb(w)] = loc[w].newBlock]
    /\ FL!Publish(w, loc[w].newBlock)
    /\ UNCHANGED <<job, loc, done>>

(* Read a pointer word p: use the block it names, or allocate one first.   *)
UseOrAlloc(w, from, p, local, found, missing) ==
    /\ at[w] = from
    /\ \/ /\ p # 0
          /\ at' = [at EXCEPT ![w] = found]
          /\ SetLoc(w, local, p)
          /\ UNCHANGED listVars
       \/ /\ p = 0
          /\ at' = [at EXCEPT ![w] = missing]
          /\ FL!AllocCall(w)
          /\ UNCHANGED loc
    /\ UNCHANGED <<inode, job, done>>

GetIndirectAlways(w) ==      \* mutant: the existing pointer block is not used
    /\ Indirect(fb(w))
    /\ UseOrAlloc(w, "map", 0, "indirect", "ptr", "ind")

GetIndirect(w) ==
    /\ Indirect(fb(w))
    /\ UseOrAlloc(w, "map", inode[ino(w)].indirect, "indirect", "ptr", "ind")

GetDouble(w) ==
    /\ ~Direct(fb(w)) /\ ~Indirect(fb(w))
    /\ UseOrAlloc(w, "map", inode[ino(w)].doubleIndirect, "indirect", "l1read", "dbl")

GetL1(w) ==
    UseOrAlloc(w, "l1read", words[loc[w].indirect][L1(fb(w))], "l1Ptr", "ptr", "l1")

SetIndirect(w) ==
    /\ GoAt(w, "indset", "ptr")
    /\ inode' = [inode EXCEPT ![ino(w)].indirect = loc[w].indirect]
    /\ FL!Publish(w, loc[w].indirect)
    /\ UNCHANGED <<job, loc, done>>

SetDouble(w) ==
    /\ GoAt(w, "dblset", "l1read")
    /\ inode' = [inode EXCEPT ![ino(w)].doubleIndirect = loc[w].indirect]
    /\ FL!Publish(w, loc[w].indirect)
    /\ UNCHANGED <<job, loc, done>>

SetL1(w) ==
    /\ GoAt(w, "l1set", "ptr")
    /\ FL!StorePtr(w, loc[w].indirect, L1(fb(w)), loc[w].l1Ptr)
    /\ UNCHANGED <<inode, job, loc, done>>

SetPtrOneLevelUp(w) ==       \* mutant: dblIndirect where l1Ptr is meant
    /\ GoAt(w, "ptr", "count")
    /\ IF Indirect(fb(w))
       THEN FL!StorePtr(w, loc[w].indirect, IndirectIdx(fb(w)), loc[w].newBlock)
       ELSE FL!StorePtr(w, loc[w].indirect, L2(fb(w)), loc[w].newBlock)
    /\ UNCHANGED <<inode, job, loc, done>>

SetPtr(w) ==
    /\ GoAt(w, "ptr", "count")
    /\ IF Indirect(fb(w))
       THEN FL!StorePtr(w, loc[w].indirect, IndirectIdx(fb(w)), loc[w].newBlock)
       ELSE FL!StorePtr(w, loc[w].l1Ptr, L2(fb(w)), loc[w].newBlock)
    /\ UNCHANGED <<inode, job, loc, done>>

(* blocks = get(INO_BLOCKS); set(INO_BLOCKS, blocks + 1).                  *)
GetBlocks(w) ==
    /\ GoAt(w, "count", "add")
    /\ SetLoc(w, "blocks", inode[ino(w)].blocks)
    /\ UNCHANGED <<listVars, inode, job, done>>

SetBlocks(w) ==
    /\ GoAt(w, "add", "data")
    /\ inode' = [inode EXCEPT ![ino(w)].blocks = loc[w].blocks + 1]
    /\ UNCHANGED <<listVars, job, loc, done>>

(* write(): the caller's data goes into the block.                         *)
PutData(w, i, v) ==
    /\ GoAt(w, "data", "idle")
    /\ FL!Store(w, loc[w].newBlock, i, v)
    /\ done' = done \union {<<ino(w), fb(w), loc[w].newBlock>>}
    /\ job' = [job EXCEPT ![w] = NoJob]
    /\ loc' = [loc EXCEPT ![w] = NoLoc]
    /\ UNCHANGED inode

-----------------------------------------------------------------------------
(* A worker that is inside write goes on.                                  *)
Continue(w) ==
    \/ ListStep(w) \/ AllocReturns(w) \/ AllocFails(w) \/ Undo(w) \/ UndoReturns(w)
    \/ MapDirect(w) \/ GetIndirect(w) \/ GetDouble(w) \/ GetL1(w)
    \/ SetIndirect(w) \/ SetDouble(w) \/ SetL1(w) \/ SetPtr(w)
    \/ GetBlocks(w) \/ SetBlocks(w)
    \/ \E i \in FL!Index, v \in Data : PutData(w, i, v)

Next ==
    \E w \in Workers :
        \/ Continue(w)
        \/ \E i \in Inodes, f \in FileBlocks : WriteMapped(w, i, f) \/ WriteHole(w, i, f)

Spec == Init /\ [][Next]_vars

(* A thread that runs is scheduled again; it need not start another write. *)
FairSpec == Spec /\ \A w \in Workers : WF_vars(Continue(w))

-----------------------------------------------------------------------------
TypeOK ==
    /\ FL!TypeOK
    /\ inode \in [Inodes -> [direct : [0 .. DirectBlocks - 1 -> FL!Word],
                             indirect : FL!Word, doubleIndirect : FL!Word, blocks : Nat]]
    /\ at \in [Workers -> {"idle", "new", "map", "ind", "indset", "dbl", "dblset", "l1read",
                           "l1", "l1set", "ptr", "count", "add", "data", "undo", "undoing"}]
    /\ job \in [Workers -> [ino : Inodes, fb : FileBlocks \union {0}]]
    /\ loc \in [Workers -> [newBlock : FL!Word, indirect : FL!Word, l1Ptr : FL!Word, blocks : Nat]]

Places == {p \in Inodes \X FileBlocks : getBlockNum(p[1], p[2]) # -1}

PointerBlocks ==
    ({inode[i].indirect : i \in Inodes}
       \union {inode[i].doubleIndirect : i \in Inodes}
       \union {words[b][k] : b \in {inode[i].doubleIndirect : i \in Inodes} \ {0}, k \in FL!Index})
    \ {0}

DataBlocks == {getBlockNum(p[1], p[2]) : p \in Places}

Quiet == \A w \in Workers : at[w] = "idle"

(* No block serves two purposes: two file blocks never share a data block, *)
(* and no data block is also a pointer block (its data would be followed   *)
(* as block numbers), on whatever workers the allocations ran.             *)
NoCrossLink ==
    ~aba =>
      /\ \A p, q \in Places : p # q => getBlockNum(p[1], p[2]) # getBlockNum(q[1], q[2])
      /\ DataBlocks \intersect PointerBlocks = {}

(* The same without the proviso: what "thread-safe" promises.              *)
BlockHasOneUse ==
    \A p, q \in Places : p # q => getBlockNum(p[1], p[2]) # getBlockNum(q[1], q[2])

(* What write() stored stays where the file can find it: the block a       *)
(* finished write went to is still the one getBlockNum returns.            *)
WrittenStaysMapped ==
    ~aba => \A d \in done : getBlockNum(d[1], d[2]) = d[3]

(* An allocation that fails half way gives its block back and leaves no    *)
(* block behind: when nobody is inside write, every block is free or       *)
(* reachable from an inode.                                                *)
NothingLeaked ==
    ~aba /\ Quiet => published = DataBlocks \union PointerBlocks /\ \A w \in Workers : held[w] = {}

(* INO_BLOCKS counts the data blocks of a file.                            *)
BlocksCounted ==
    ~aba /\ Quiet => \A i \in Inodes :
        inode[i].blocks = Cardinality({f \in FileBlocks : getBlockNum(i, f) # -1})

(* The retries of allocBlock and freeBlock end: a worker stays inside      *)
(* write for ever only if it keeps losing the race for the head to workers *)
(* that go on starting and finishing writes.                               *)
LockFree ==
    \A w \in Workers :
        <>[](at[w] # "idle") =>
            \E v \in Workers : []<>(at[v] = "idle") /\ []<>(at[v] # "idle")

(* allocBlockForFile uses the allocator as FreeList's clients may: it      *)
(* frees only what no other worker can know of, writes only into blocks in *)
(* use and publishes only what it holds.  Once allocBlock has handed one   *)
(* block out twice this ends: a worker that got one block for newBlock and *)
(* for indirect publishes it and then gives it back.                       *)
UsesFreeList == FL!SpecUntilABA
=============================================================================
