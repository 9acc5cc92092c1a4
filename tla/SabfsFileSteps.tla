--------------------------- MODULE SabfsFileSteps ---------------------------
(***************************************************************************)
(* What each step of write and allocBlockForFile does to the block maps of *)
(* files, for any number of workers, files and blocks: every published     *)
(* block keeps its one place in one file, and the allocator is used as its *)
(* contract asks.                                                          *)
(***************************************************************************)
EXTENDS SabfsFile, TLAPS

Blocks == FL!Blocks
Index  == FL!Index
Word   == FL!Word

(* Block numbers, indexes and words are what FreeList says they are.       *)
LEMMA ConstantFacts ==
    /\ 0 \in Index
    /\ 0 \in Word /\ NIL \in Word /\ NIL # 0
    /\ Blocks \subseteq Word /\ 0 \notin Blocks /\ NIL \notin Blocks /\ Blocks \subseteq Nat
    /\ Data \subseteq Word
BY SabfsFileAssumption
DEF Blocks, Index, Word, FL!Blocks, FL!Index, FL!Word

(* Quotient and remainder: how a file block index is split in two.         *)
LEMMA DivMod ==
    ASSUME NEW p \in Nat \ {0}, NEW x \in Nat
    PROVE  /\ x \div p \in Nat
           /\ x % p \in 0 .. p - 1
           /\ x = p * (x \div p) + (x % p)
OBVIOUS

(* The quotient of a file block index lies inside a pointer block.         *)
LEMMA DivRange ==
    ASSUME NEW p \in Nat \ {0}, NEW x \in Nat, x < p * p
    PROVE  x \div p \in 0 .. p - 1
<1>1. PICK q \in Nat : q = x \div p
  BY Zenon, DivMod
<1>2. p * q <= x
  BY <1>1, DivMod
<1>3. SUFFICES ASSUME q >= p PROVE FALSE
  BY <1>1
<1>4. p * q >= p * p
  BY <1>3
<1>5. QED
  BY <1>2, <1>4

(* Every index that allocBlockForFile computes lies inside its block.      *)
LEMMA Geometry ==
    ASSUME NEW f \in FileBlocks
    PROVE  /\ Direct(f) => f \in 0 .. DirectBlocks - 1
           /\ Indirect(f) => IndirectIdx(f) \in Index
           /\ ~Direct(f) /\ ~Indirect(f) => L1(f) \in Index /\ L2(f) \in Index
<1>1. f \in Nat /\ f < DirectBlocks + PtrsPerBlock + PtrsPerBlock * PtrsPerBlock
  BY SabfsFileAssumption
<1>2. Direct(f) => f \in 0 .. DirectBlocks - 1
  BY <1>1, SabfsFileAssumption DEF Direct
<1>3. Indirect(f) => IndirectIdx(f) \in Index
  BY <1>1, SabfsFileAssumption DEF Direct, Indirect, IndirectIdx, Index, FL!Index
<1>4. ASSUME ~Direct(f), ~Indirect(f) PROVE L1(f) \in Index /\ L2(f) \in Index
  <2>1. DoubleIdx(f) \in Nat /\ DoubleIdx(f) < PtrsPerBlock * PtrsPerBlock
    BY <1>1, <1>4, SabfsFileAssumption DEF Direct, Indirect, DoubleIdx
  <2>2. QED
    BY Zenon, <2>1, DivMod, DivRange, SabfsFileAssumption DEF L1, L2, Index, FL!Index
<1>5. QED
  BY Zenon, <1>2, <1>3, <1>4

-----------------------------------------------------------------------------
(* What allocBlockForFile uses of the allocator's invariant: who holds the *)
(* blocks, what is published, and where a worker inside allocBlock or      *)
(* freeBlock is.  The last section derives it from FreeListProofs.         *)
ListOK ==
    /\ words \in [Blocks -> [Index -> Word]]
    /\ held \in [Workers -> SUBSET Blocks]
    /\ published \subseteq Blocks
    /\ h \in [Workers -> Word] /\ n \in [Workers -> Word]
    /\ arg \in [Workers -> Blocks \union {0}]
    /\ pc \in [Workers -> {"idle", "load", "next", "cas", "zero", "fload", "fset", "fcas"}]
    /\ \A v, w \in Workers : v # w => held[v] \intersect held[w] = {}
    /\ \A w \in Workers : held[w] \intersect published = {}
    /\ head = NIL \/ (head \notin published /\ \A w \in Workers : head \notin held[w])
    /\ \A w \in Workers : pc[w] \in {"next", "cas", "zero"} => h[w] \in Blocks
    /\ \A w \in Workers : pc[w] = "zero" => h[w] \in held[w]
    /\ \A w \in Workers : pc[w] \in {"fload", "fset", "fcas"} => arg[w] \in held[w]

(* The same, to be cited where ListOK is assumed.                          *)
LEMMA ListFacts ==
    ASSUME ListOK
    PROVE  /\ words \in [Blocks -> [Index -> Word]]
           /\ held \in [Workers -> SUBSET Blocks]
           /\ published \subseteq Blocks
           /\ h \in [Workers -> Word] /\ n \in [Workers -> Word]
           /\ arg \in [Workers -> Blocks \union {0}]
           /\ pc \in [Workers -> {"idle", "load", "next", "cas", "zero", "fload", "fset", "fcas"}]
           /\ \A v, w \in Workers : v # w => held[v] \intersect held[w] = {}
           /\ \A w \in Workers : held[w] \intersect published = {}
           /\ head = NIL \/ (head \notin published /\ \A w \in Workers : head \notin held[w])
           /\ \A w \in Workers : pc[w] \in {"next", "cas", "zero"} => h[w] \in Blocks
           /\ \A w \in Workers : pc[w] = "zero" => h[w] \in held[w]
           /\ \A w \in Workers : pc[w] \in {"fload", "fset", "fcas"} => arg[w] \in held[w]
BY Zenon DEF ListOK

-----------------------------------------------------------------------------
(* The inductive invariant.  NoCrossLink speaks of where blocks are found; *)
(* it is kept because every published block has one slot, the place in one *)
(* file that it was first stored for, and is referred to from nowhere      *)
(* else.  Two workers on one file may allocate two blocks for one slot and *)
(* cut one of them off: that loses data but crosses no link.               *)
Slot(kind, i, x, y) == <<kind, i, x, y>>

DataSlot(i, f) ==
    IF Direct(f) THEN Slot("direct", i, f, 0)
    ELSE IF Indirect(f) THEN Slot("ptr", i, IndirectIdx(f), 0)
    ELSE Slot("l2", i, L1(f), L2(f))

HasSlot(slot, b, s) == b \in published /\ slot[b] = s
Refers(slot, b, s)  == b # 0 => HasSlot(slot, b, s)

(* The pointers of the inodes and of the pointer blocks: pub is the set of *)
(* published blocks, mem the contents of the blocks, ind the inodes.       *)
Names(pub, slot, b, s) == b # 0 => b \in pub /\ slot[b] = s

InodesName(pub, ind, slot) ==
    \A i \in Inodes :
      /\ \A k \in 0 .. DirectBlocks - 1 : Names(pub, slot, ind[i].direct[k], Slot("direct", i, k, 0))
      /\ Names(pub, slot, ind[i].indirect, Slot("ind", i, 0, 0))
      /\ Names(pub, slot, ind[i].doubleIndirect, Slot("dbl", i, 0, 0))

BlocksName(pub, mem, slot) ==
    \A b \in pub, i \in Inodes, k \in Index :
      /\ slot[b] = Slot("ind", i, 0, 0) => Names(pub, slot, mem[b][k], Slot("ptr", i, k, 0))
      /\ slot[b] = Slot("dbl", i, 0, 0) => Names(pub, slot, mem[b][k], Slot("l1", i, k, 0))
      /\ \A x \in Index :
           slot[b] = Slot("l1", i, x, 0) => Names(pub, slot, mem[b][k], Slot("l2", i, x, k))

Tree(slot) == InodesName(published, inode, slot) /\ BlocksName(published, words, slot)

(* The pointer block a worker is about to store into.                      *)
LocalSlots(slot, w) ==
    /\ at[w] \in {"l1read", "l1", "l1set"} => HasSlot(slot, loc[w].indirect, Slot("dbl", ino(w), 0, 0))
    /\ at[w] = "ptr" /\ Indirect(fb(w)) => HasSlot(slot, loc[w].indirect, Slot("ind", ino(w), 0, 0))
    /\ at[w] = "ptr" /\ ~Indirect(fb(w)) => HasSlot(slot, loc[w].l1Ptr, Slot("l1", ino(w), L1(fb(w)), 0))
    /\ at[w] \in {"count", "add", "data"} => HasSlot(slot, loc[w].newBlock, DataSlot(ino(w), fb(w)))

(* Where a worker is in allocBlockForFile says where it is in allocBlock   *)
(* and freeBlock, and what it works on.                                    *)
Control(w) ==
    /\ at[w] \in {"new", "ind", "dbl", "l1"} => pc[w] \in {"load", "next", "cas", "zero"}
    /\ at[w] = "undoing" => pc[w] \in {"fload", "fset", "fcas"} /\ arg[w] = loc[w].newBlock
    /\ at[w] \notin {"new", "ind", "dbl", "l1", "undoing"} => pc[w] = "idle"
    /\ at[w] # "idle" => <<w, ino(w), fb(w)>> \in MayWrite /\ ino(w) \in Inodes /\ fb(w) \in FileBlocks
    /\ at[w] \in {"ind", "indset"} => Indirect(fb(w))
    /\ at[w] \in {"dbl", "dblset", "l1read", "l1", "l1set"} => ~Direct(fb(w)) /\ ~Indirect(fb(w))
    /\ at[w] = "ptr" => ~Direct(fb(w))

(* The blocks that only this worker knows of, and no others.               *)
Owns(w) ==
    /\ at[w] \in {"idle", "count", "add", "data"} => held[w] = {}
    /\ at[w] = "new" => held[w] = IF pc[w] = "zero" THEN {h[w]} ELSE {}
    /\ at[w] \in {"map", "l1read", "ptr", "undo", "undoing"} => held[w] = {loc[w].newBlock}
    /\ at[w] \in {"ind", "dbl", "l1"} =>
         /\ held[w] = {loc[w].newBlock} \union (IF pc[w] = "zero" THEN {h[w]} ELSE {})
         /\ pc[w] = "zero" => h[w] # loc[w].newBlock
    /\ at[w] \in {"indset", "dblset"} =>
         held[w] = {loc[w].newBlock, loc[w].indirect} /\ loc[w].indirect # loc[w].newBlock
    /\ at[w] = "l1set" =>
         held[w] = {loc[w].newBlock, loc[w].l1Ptr} /\ loc[w].l1Ptr # loc[w].newBlock

(* A pointer block is full of zeroes when it is linked.                    *)
Zero(b) == \A k \in Index : words[b][k] = 0
Zeroed(w) ==
    /\ at[w] \in {"indset", "dblset"} => Zero(loc[w].indirect)
    /\ at[w] = "l1set" => Zero(loc[w].l1Ptr)

Mine(w) == Control(w) /\ Owns(w) /\ Zeroed(w)

AtValues ==
    {"idle", "new", "map", "ind", "indset", "dbl", "dblset", "l1read",
     "l1", "l1set", "ptr", "count", "add", "data", "undo", "undoing"}
LocType == [newBlock : Word, indirect : Word, l1Ptr : Word, blocks : Nat]

FileTypes ==
    /\ inode \in [Inodes -> [direct : [0 .. DirectBlocks - 1 -> Word],
                             indirect : Word, doubleIndirect : Word, blocks : Nat]]
    /\ at \in [Workers -> AtValues]
    /\ job \in [Workers -> [ino : Inodes, fb : FileBlocks \union {0}]]
    /\ loc \in [Workers -> LocType]

File(slot) ==
    /\ FileTypes
    /\ Tree(slot)
    /\ \A w \in Workers : Mine(w) /\ LocalSlots(slot, w)

(* Assigning a local.                                                      *)
LEMMA LocUpdates ==
    ASSUME FileTypes, NEW w \in Workers, NEW b \in Word
    PROVE  /\ [loc EXCEPT ![w].newBlock = b] \in [Workers -> LocType]
           /\ [loc EXCEPT ![w].indirect = b] \in [Workers -> LocType]
           /\ [loc EXCEPT ![w].l1Ptr = b] \in [Workers -> LocType]
BY Zenon DEF FileTypes, LocType

(* Reading the count of blocks into a local.                               *)
LEMMA LocBlocksUpdates ==
    ASSUME FileTypes, NEW w \in Workers, NEW k \in Nat
    PROVE  [loc EXCEPT ![w].blocks = k] \in [Workers -> LocType]
BY Zenon DEF FileTypes, LocType

-----------------------------------------------------------------------------
(* A step of w leaves the other workers' locals and blocks alone.          *)
Frame(w) ==
    \A v \in Workers \ {w} :
      /\ at'[v] = at[v] /\ job'[v] = job[v] /\ loc'[v] = loc[v]
      /\ pc'[v] = pc[v] /\ h'[v] = h[v] /\ arg'[v] = arg[v] /\ held'[v] = held[v]
      /\ \A b \in held[v] : words'[b] = words[b]

(* A step that changes no pointer of a file.                               *)
SamePointers(slot) ==
    /\ published' = published
    /\ \A i \in Inodes : /\ inode'[i].direct = inode[i].direct
                         /\ inode'[i].indirect = inode[i].indirect
                         /\ inode'[i].doubleIndirect = inode[i].doubleIndirect
    /\ \A b \in published : slot[b][1] \in {"ind", "dbl", "l1"} => words'[b] = words[b]

(* What then stays true of the other workers.                              *)
LEMMA OthersKept ==
    ASSUME NEW w, Frame(w), NEW v \in Workers \ {w}, Mine(v)
    PROVE  Mine(v)'
<1> USE DEF Frame
<1>0. ino(v)' = ino(v) /\ fb(v)' = fb(v)
  BY Zenon DEF ino, fb
<1>1. Control(v)'
  BY Zenon, <1>0 DEF Mine, Control, Direct, Indirect
<1>2. Owns(v)'
  BY Zenon DEF Mine, Owns
<1>3. Zeroed(v)'
  BY DEF Mine, Owns, Zeroed, Zero
<1>4. QED
  BY Zenon, <1>1, <1>2, <1>3 DEF Mine

(* ... and of the pointer blocks they are about to store into.             *)
LEMMA OthersSlots ==
    ASSUME NEW w, Frame(w), NEW v \in Workers \ {w}, NEW slot, NEW slot2, LocalSlots(slot, v),
           published \subseteq published', \A b \in published : slot2[b] = slot[b]
    PROVE  LocalSlots(slot2, v)'
<1>0. ino(v)' = ino(v) /\ fb(v)' = fb(v)
  BY Zenon DEF ino, fb, Frame
<1>1. \A b, s : HasSlot(slot, b, s) => HasSlot(slot2, b, s)'
  BY Zenon DEF HasSlot
<1>2. at'[v] = at[v] /\ loc'[v] = loc[v]
  BY Zenon DEF Frame
<1>3. DataSlot(ino(v), fb(v))' = DataSlot(ino(v), fb(v))
  BY Zenon, <1>0 DEF DataSlot, Slot, Direct, Indirect, IndirectIdx, L1, L2, DoubleIdx
<1>4. QED
  BY Zenon, <1>0, <1>1, <1>2, <1>3 DEF LocalSlots, Slot, L1, DoubleIdx, Indirect, Direct

(* A step that changes no pointer of a file keeps the tree.                *)
LEMMA TreeKept ==
    ASSUME NEW slot, Tree(slot), published' = published,
           \A i \in Inodes : /\ inode'[i].direct = inode[i].direct
                             /\ inode'[i].indirect = inode[i].indirect
                             /\ inode'[i].doubleIndirect = inode[i].doubleIndirect,
           \A b \in published : slot[b][1] \in {"ind", "dbl", "l1"} => words'[b] = words[b]
    PROVE  Tree(slot)'
<1>1. InodesName(published', inode', slot)
  BY Zenon DEF Tree, InodesName
<1>2. \A i, x, y : /\ Slot("ind", i, x, y)[1] = "ind"
                   /\ Slot("dbl", i, x, y)[1] = "dbl"
                   /\ Slot("l1", i, x, y)[1] = "l1"
  BY Zenon DEF Slot
<1>3. BlocksName(published', words', slot)
  BY <1>2 DEF Tree, BlocksName
<1>4. QED
  BY Zenon, <1>1, <1>3 DEF Tree, InodesName, BlocksName, Names, Slot, Index

(* Only where the slot s is may an inode or a pointer block gain block b,  *)
(* and a new pointer block is empty.                                       *)
InodesGain(b, s) ==
    \A i \in Inodes :
      /\ \A k \in 0 .. DirectBlocks - 1 :
           \/ inode'[i].direct[k] = inode[i].direct[k]
           \/ inode'[i].direct[k] = b /\ s = Slot("direct", i, k, 0)
      /\ \/ inode'[i].indirect = inode[i].indirect
         \/ inode'[i].indirect = b /\ s = Slot("ind", i, 0, 0)
      /\ \/ inode'[i].doubleIndirect = inode[i].doubleIndirect
         \/ inode'[i].doubleIndirect = b /\ s = Slot("dbl", i, 0, 0)

PointersGain(slot, b, s) ==
    /\ \A x \in published, i \in Inodes, k \in Index :
         \/ words'[x][k] = words[x][k]
         \/ /\ words'[x][k] = b
            /\ slot[x] = Slot("ind", i, 0, 0) => s = Slot("ptr", i, k, 0)
            /\ slot[x] = Slot("dbl", i, 0, 0) => s = Slot("l1", i, k, 0)
            /\ \A y \in Index : slot[x] = Slot("l1", i, y, 0) => s = Slot("l2", i, y, k)
    /\ s[1] \in {"ind", "dbl", "l1"} => \A k \in Index : words'[b][k] = 0

(* A step that stores the new block b where its slot s is, and nowhere     *)
(* else, keeps it too; a new pointer block has to be empty.                *)
LEMMA TreeGrows ==
    ASSUME NEW slot, NEW slot2, NEW b, NEW s, Tree(slot), b # 0, b \notin published,
           published' = published \union {b},
           slot2[b] = s, \A x \in published : slot2[x] = slot[x],
           InodesGain(b, s), PointersGain(slot, b, s)
    PROVE  Tree(slot2)'
<1> DEFINE pub2 == published \union {b}
<1>1. \A x, y : Names(published, slot, x, y) => Names(pub2, slot2, x, y)
  BY Zenon DEF Names
<1>2. Names(pub2, slot2, b, s)
  BY Zenon DEF Names
<1>3. \A y : Names(pub2, slot2, 0, y)
  BY Zenon DEF Names
<1> HIDE DEF pub2
<1>4. InodesName(pub2, inode', slot2)
  <2> SUFFICES ASSUME NEW i \in Inodes
               PROVE /\ \A k \in 0 .. DirectBlocks - 1 : Names(pub2, slot2, inode'[i].direct[k], Slot("direct", i, k, 0))
                     /\ Names(pub2, slot2, inode'[i].indirect, Slot("ind", i, 0, 0))
                     /\ Names(pub2, slot2, inode'[i].doubleIndirect, Slot("dbl", i, 0, 0))
    BY Zenon DEF InodesName
  <2>1. /\ \A k \in 0 .. DirectBlocks - 1 : Names(published, slot, inode[i].direct[k], Slot("direct", i, k, 0))
        /\ Names(published, slot, inode[i].indirect, Slot("ind", i, 0, 0))
        /\ Names(published, slot, inode[i].doubleIndirect, Slot("dbl", i, 0, 0))
    BY Zenon DEF Tree, InodesName
  <2>2. QED
    BY Zenon, <1>1, <1>2, <2>1 DEF InodesGain
<1>5. BlocksName(pub2, words', slot2)
  <2> SUFFICES ASSUME NEW x \in pub2, NEW i \in Inodes, NEW k \in Index
               PROVE  /\ slot2[x] = Slot("ind", i, 0, 0) => Names(pub2, slot2, words'[x][k], Slot("ptr", i, k, 0))
                      /\ slot2[x] = Slot("dbl", i, 0, 0) => Names(pub2, slot2, words'[x][k], Slot("l1", i, k, 0))
                      /\ \A y \in Index :
                           slot2[x] = Slot("l1", i, y, 0) => Names(pub2, slot2, words'[x][k], Slot("l2", i, y, k))
    BY Zenon DEF BlocksName
  <2>1. CASE x = b
    <3>1. \A p, q, r : /\ Slot("ind", p, q, r)[1] \in {"ind", "dbl", "l1"}
                       /\ Slot("dbl", p, q, r)[1] \in {"ind", "dbl", "l1"}
                       /\ Slot("l1", p, q, r)[1] \in {"ind", "dbl", "l1"}
      BY Zenon DEF Slot
    <3>2. s[1] \in {"ind", "dbl", "l1"} => words'[x][k] = 0
      BY Zenon, <2>1 DEF PointersGain
    <3>3. slot2[x] = s
      BY Zenon, <2>1
    <3>4. /\ slot2[x] = Slot("ind", i, 0, 0) => words'[x][k] = 0
          /\ slot2[x] = Slot("dbl", i, 0, 0) => words'[x][k] = 0
          /\ \A y \in Index : slot2[x] = Slot("l1", i, y, 0) => words'[x][k] = 0
      <4>1. ASSUME s = Slot("ind", i, 0, 0) PROVE words'[x][k] = 0
        BY <3>1, <3>2, <4>1
      <4>2. ASSUME s = Slot("dbl", i, 0, 0) PROVE words'[x][k] = 0
        BY <3>1, <3>2, <4>2
      <4>3. ASSUME NEW y \in Index, s = Slot("l1", i, y, 0) PROVE words'[x][k] = 0
        BY <3>1, <3>2, <4>3
      <4>. QED
        BY Zenon, <3>3, <4>1, <4>2, <4>3
    <3>5. QED
      BY Zenon, <3>4, <1>3
  <2>2. CASE x # b
    <3>1. x \in published /\ slot2[x] = slot[x]
      BY Zenon, <2>2 DEF pub2
    <3>2. /\ slot[x] = Slot("ind", i, 0, 0) => Names(published, slot, words[x][k], Slot("ptr", i, k, 0))
          /\ slot[x] = Slot("dbl", i, 0, 0) => Names(published, slot, words[x][k], Slot("l1", i, k, 0))
          /\ \A y \in Index :
               slot[x] = Slot("l1", i, y, 0) => Names(published, slot, words[x][k], Slot("l2", i, y, k))
      BY Zenon, <3>1 DEF Tree, BlocksName
    <3>3. QED
      <4>1. CASE words'[x][k] = words[x][k]
        BY Zenon, <3>1, <3>2, <4>1, <1>1
      <4>2. CASE /\ words'[x][k] = b
                 /\ slot[x] = Slot("ind", i, 0, 0) => s = Slot("ptr", i, k, 0)
                 /\ slot[x] = Slot("dbl", i, 0, 0) => s = Slot("l1", i, k, 0)
                 /\ \A y \in Index : slot[x] = Slot("l1", i, y, 0) => s = Slot("l2", i, y, k)
        BY Zenon, <3>1, <4>2, <1>2
      <4>. QED
        BY Zenon, <3>1, <4>1, <4>2 DEF PointersGain
  <2>3. QED
    BY Zenon, <2>1, <2>2
<1>6. pub2 = published'
  BY Zenon DEF pub2
<1>7. InodesName(published', inode', slot2) /\ BlocksName(published', words', slot2)
  BY Zenon, <1>4, <1>5, <1>6
<1>8. QED
  BY Zenon, <1>7 DEF Tree, InodesName, BlocksName, Names, Slot, Index

(* Together: a step of w that publishes nothing.                           *)
LEMMA QuietStep ==
    ASSUME NEW slot, File(slot), NEW w \in Workers, Frame(w), FileTypes', Mine(w)',
           LocalSlots(slot, w)', published' = published,
           \A i \in Inodes : /\ inode'[i].direct = inode[i].direct
                             /\ inode'[i].indirect = inode[i].indirect
                             /\ inode'[i].doubleIndirect = inode[i].doubleIndirect,
           \A b \in published : slot[b][1] \in {"ind", "dbl", "l1"} => words'[b] = words[b]
    PROVE  File(slot)' /\ SamePointers(slot)
<1>1. Tree(slot)'
  BY Zenon, TreeKept DEF File
<1>2. \A v \in Workers \ {w} : Mine(v)' /\ LocalSlots(slot, v)'
  BY Zenon, OthersKept, OthersSlots DEF File
<1>3. QED
  BY Zenon, <1>1, <1>2 DEF File, SamePointers

(* A step that publishes b for the slot s.                                 *)
Publishes(slot, slot2, b, s) ==
    /\ b \in Blocks /\ b # 0 /\ b \notin published /\ published' = published \union {b}
    /\ slot2[b] = s /\ \A x \in published : slot2[x] = slot[x]
    /\ File(slot2)'

(* Together: a step of w that publishes a block.                           *)
LEMMA PublishingStep ==
    ASSUME NEW slot, NEW slot2, File(slot), NEW w \in Workers, Frame(w), FileTypes', Mine(w)',
           \A b \in published : slot2[b] = slot[b], published \subseteq published',
           LocalSlots(slot2, w)', Tree(slot2)'
    PROVE  File(slot2)'
<1>2. \A v \in Workers \ {w} : Mine(v)' /\ LocalSlots(slot2, v)'
  BY Zenon, OthersKept, OthersSlots DEF File
<1>3. QED
  BY Zenon, <1>2 DEF File

-----------------------------------------------------------------------------
(* getBlockNum follows the tree to a block of the right slot.              *)
LEMMA MappedSlot ==
    ASSUME NEW slot, Tree(slot), published \subseteq Blocks, NEW i \in Inodes, NEW f \in FileBlocks,
           getBlockNum(i, f) # -1
    PROVE  HasSlot(slot, getBlockNum(i, f), DataSlot(i, f))
<1>1. CASE Direct(f)
  <2>1. getBlockNum(i, f) = inode[i].direct[f] /\ inode[i].direct[f] # 0
    BY Zenon, <1>1 DEF getBlockNum
  <2>2. f \in 0 .. DirectBlocks - 1
    BY Zenon, <1>1, Geometry
  <2>3. QED
    BY Zenon, <1>1, <2>1, <2>2 DEF Tree, InodesName, BlocksName, Names, HasSlot, DataSlot
<1>2. CASE ~Direct(f) /\ Indirect(f)
  <2> DEFINE b == inode[i].indirect
  <2>1. b # 0 /\ getBlockNum(i, f) = words[b][IndirectIdx(f)] /\ words[b][IndirectIdx(f)] # 0
    BY Zenon, <1>2 DEF getBlockNum
  <2>2. b \in published /\ slot[b] = Slot("ind", i, 0, 0)
    BY Zenon, <2>1 DEF Tree, InodesName, BlocksName, Names, Refers, HasSlot
  <2>3. IndirectIdx(f) \in Index
    BY ZenonT(30), <1>2, Geometry
  <2>4. QED
    BY <1>2, <2>1, <2>2, <2>3 DEF Tree, InodesName, BlocksName, Names, HasSlot, DataSlot
<1>3. CASE ~Direct(f) /\ ~Indirect(f)
  <2> DEFINE b == inode[i].doubleIndirect
             c == words[b][L1(f)]
  <2>1. b # 0 /\ c # 0 /\ getBlockNum(i, f) = words[c][L2(f)] /\ words[c][L2(f)] # 0
    BY Zenon, <1>3 DEF getBlockNum
  <2>2. b \in published /\ slot[b] = Slot("dbl", i, 0, 0)
    BY Zenon, <2>1 DEF Tree, InodesName, BlocksName, Names, Refers, HasSlot
  <2>3. L1(f) \in Index /\ L2(f) \in Index
    BY Zenon, <1>3, Geometry
  <2>4. c \in published /\ slot[c] = Slot("l1", i, L1(f), 0)
    BY Zenon, <2>1, <2>2, <2>3 DEF Tree, InodesName, BlocksName, Names, Refers, HasSlot
  <2>5. QED
    BY SMTT(30), <1>3, <2>1, <2>3, <2>4 DEF Tree, InodesName, BlocksName, Names, HasSlot, DataSlot
<1>4. QED
  BY Zenon, <1>1, <1>2, <1>3

(* write() finds the block.                                                *)
LEMMA WriteMappedStep ==
    ASSUME ListOK, NEW slot, File(slot), NEW w \in Workers, NEW i \in Inodes, NEW f \in FileBlocks,
           WriteMapped(w, i, f)
    PROVE  File(slot)' /\ Frame(w) /\ SamePointers(slot) /\ UNCHANGED FL!vars
<1>1. UNCHANGED <<listVars, inode, done>>
  BY Zenon DEF WriteMapped
<1>2. /\ at[w] = "idle" /\ at' = [at EXCEPT ![w] = "data"]
      /\ job' = [job EXCEPT ![w] = [ino |-> i, fb |-> f]]
      /\ loc' = [loc EXCEPT ![w].newBlock = getBlockNum(i, f)]
      /\ <<w, i, f>> \in MayWrite
  BY Zenon DEF WriteMapped, GoAt, SetLoc
<1>3. HasSlot(slot, getBlockNum(i, f), DataSlot(i, f))
  BY Zenon, MappedSlot, ListFacts DEF WriteMapped, File
<1>4. getBlockNum(i, f) \in Word
  BY Zenon, <1>3, ListFacts, ConstantFacts DEF HasSlot
<1>5. FileTypes'
  BY Zenon, <1>1, <1>2, <1>4 DEF File, FileTypes, AtValues, LocType, listVars, Word
<1>6. ino(w)' = i /\ fb(w)' = f /\ at'[w] = "data" /\ loc'[w].newBlock = getBlockNum(i, f)
  BY Zenon, <1>2 DEF File, FileTypes, AtValues, LocType, ino, fb
<1>7. Mine(w) /\ held' = held /\ pc' = pc
  BY Zenon, <1>1 DEF File, listVars
<1>8. Mine(w)'
  BY Zenon, <1>2, <1>6, <1>7 DEF Mine, Control, Owns, Zeroed
<1>9. LocalSlots(slot, w)'
  BY Zenon, <1>1, <1>3, <1>6 DEF LocalSlots, HasSlot, DataSlot, Slot, listVars
<1>10. Frame(w)
  BY Zenon, <1>1, <1>2 DEF Frame, listVars, File, FileTypes, AtValues, LocType
<1>11. File(slot)' /\ SamePointers(slot)
  BY Zenon, <1>1, <1>5, <1>8, <1>9, <1>10, QuietStep DEF listVars
<1>12. QED
  BY Zenon, <1>10, <1>1, <1>11 DEF listVars, FL!vars, FL!listVars, FL!ownVars, FL!ghosts

(* write() finds no block and calls allocBlock.                            *)
LEMMA WriteHoleStep ==
    ASSUME ListOK, NEW slot, File(slot), NEW w \in Workers, NEW i \in Inodes, NEW f \in FileBlocks,
           WriteHole(w, i, f)
    PROVE  File(slot)' /\ Frame(w) /\ SamePointers(slot) /\ FL!Next
<1>1. /\ UNCHANGED <<inode, loc, done, head, words, h, n, arg, held, published, pushed, aba>>
      /\ pc[w] = "idle" /\ pc' = [pc EXCEPT ![w] = "load"]
  BY Zenon DEF WriteHole, FL!AllocCall, FL!Goto, FL!ownVars, FL!ghosts
<1>2. /\ at[w] = "idle" /\ at' = [at EXCEPT ![w] = "new"]
      /\ job' = [job EXCEPT ![w] = [ino |-> i, fb |-> f]]
      /\ <<w, i, f>> \in MayWrite
  BY Zenon DEF WriteHole, GoAt
<1>5. FileTypes'
  BY Zenon, <1>1, <1>2 DEF File, FileTypes, AtValues, LocType, Word
<1>6. ino(w)' = i /\ fb(w)' = f /\ at'[w] = "new" /\ pc'[w] = "load"
  BY <1>1, <1>2, ListFacts DEF File, FileTypes, AtValues, LocType, ino, fb
<1>7. Mine(w)
  BY Zenon DEF File
<1>8. Mine(w)'
  BY Zenon, <1>1, <1>2, <1>6, <1>7 DEF Mine, Control, Owns, Zeroed
<1>9. LocalSlots(slot, w)'
  BY Zenon, <1>6 DEF LocalSlots
<1>10. Frame(w)
  BY <1>1, <1>2, ListFacts DEF Frame, File, FileTypes, AtValues, LocType
<1>11. File(slot)' /\ SamePointers(slot)
  BY Zenon, <1>1, <1>5, <1>8, <1>9, <1>10, QuietStep
<1>12. QED
  BY Zenon, <1>10, <1>11 DEF WriteHole, FL!Next, FL!Client

(* The steps of allocBlock and freeBlock that do not return.               *)
LEMMA ListStepStep ==
    ASSUME ListOK, NEW slot, File(slot), NEW w \in Workers, ListStep(w)
    PROVE  File(slot)' /\ Frame(w) /\ SamePointers(slot) /\ FL!Next
<1>1. UNCHANGED <<inode, at, job, loc, done>>
  BY Zenon DEF ListStep, fileVars
<1>2. FileTypes'
  BY Zenon, <1>1 DEF File, FileTypes, AtValues, LocType, Word
<1>3. Mine(w) /\ LocalSlots(slot, w)
  BY Zenon DEF File
<1>4. ino(w)' = ino(w) /\ fb(w)' = fb(w)
  BY Zenon, <1>1 DEF ino, fb
<1>5. published' = published
  BY Zenon DEF ListStep, FL!AllocLoad, FL!AllocNext, FL!AllocCas, FL!AllocRetry, FL!FreeLoad, FL!FreeSet,
         FL!FreeRetry, FL!ownVars
<1>6. \A v \in Workers \ {w} : pc'[v] = pc[v] /\ h'[v] = h[v] /\ arg'[v] = arg[v] /\ held'[v] = held[v]
  BY ListFacts DEF ListStep, FL!AllocLoad, FL!AllocNext, FL!AllocCas, FL!AllocRetry, FL!FreeLoad, FL!FreeSet,
         FL!FreeRetry, FL!ownVars, FL!Goto, FL!Leave
<1>7. words' = words \/ (arg[w] \in held[w] /\ words' = [words EXCEPT ![arg[w]][0] = h[w]])
  BY Zenon, ListFacts DEF ListStep, FL!AllocLoad, FL!AllocNext, FL!AllocCas, FL!AllocRetry, FL!FreeLoad, FL!FreeSet,
         FL!FreeRetry, FL!Goto
<1>8. \A b \in Blocks : b \notin held[w] => words'[b] = words[b]
  BY <1>7, ListFacts
<1>9. Frame(w)
  BY Zenon, <1>1, <1>6, <1>8, ListFacts DEF Frame
<1>10. \A b \in published : words'[b] = words[b]
  BY Zenon, <1>8, ListFacts
<1>11. Mine(w)'
  <2>1. CASE FL!AllocLoad(w) \/ FL!AllocNext(w) \/ FL!AllocRetry(w)
    <3>1. /\ pc[w] \in {"load", "next", "cas"} /\ pc'[w] \in {"load", "next", "cas"}
          /\ held' = held /\ words' = words
      BY <2>1, ListFacts DEF FL!AllocLoad, FL!AllocNext, FL!AllocRetry, FL!Goto, FL!ownVars
    <3>2. at[w] \in {"new", "ind", "dbl", "l1"}
      BY Zenon, <3>1, <1>3 DEF Mine, Control
    <3>3. QED
      BY Zenon, <3>1, <3>2, <1>1, <1>3, <1>4 DEF Mine, Control, Owns, Zeroed, Zero, Direct, Indirect
  <2>2. CASE FL!AllocCas(w)
    <3>1. /\ pc[w] = "cas" /\ pc'[w] = "zero" /\ h'[w] = h[w] /\ held'[w] = held[w] \union {h[w]}
          /\ arg' = arg /\ words' = words /\ h[w] \notin held[w]
      BY <2>2, ListFacts, ConstantFacts DEF FL!AllocCas, FL!Goto
    <3>2. QED
      BY Zenon, <3>1, <1>1, <1>3, <1>4 DEF Mine, Control, Owns, Zeroed, Zero, Direct, Indirect
  <2>3. CASE FL!FreeLoad(w) \/ FL!FreeSet(w) \/ FL!FreeRetry(w)
    <3>1. at[w] = "undoing"
      BY Zenon, <2>3, <1>3 DEF FL!FreeLoad, FL!FreeSet, FL!FreeRetry, FL!Goto, Mine, Control
    <3>2. /\ pc'[w] \in {"fload", "fset", "fcas"} /\ arg' = arg /\ held' = held
      BY <2>3, ListFacts DEF FL!FreeLoad, FL!FreeSet, FL!FreeRetry, FL!Goto, FL!ownVars
    <3>3. QED
      BY Zenon, <3>1, <3>2, <1>1, <1>3, <1>4 DEF Mine, Control, Owns, Zeroed
  <2>4. QED
    BY Zenon, <2>1, <2>2, <2>3 DEF ListStep
<1>12. LocalSlots(slot, w)'
  BY Zenon, <1>1, <1>3, <1>4, <1>5 DEF LocalSlots, HasSlot, DataSlot, Slot, Direct, Indirect, IndirectIdx, L1, L2, DoubleIdx
<1>13. File(slot)' /\ SamePointers(slot)
  BY Zenon, <1>1, <1>2, <1>5, <1>9, <1>10, <1>11, <1>12, QuietStep
<1>14. QED
  BY Zenon, <1>9, <1>13 DEF ListStep, FL!Next, FL!Step

(* allocBlock returns a block to one of its callers.                       *)
LEMMA AllocReturnsStep ==
    ASSUME ListOK, NEW slot, File(slot), NEW w \in Workers, AllocReturns(w)
    PROVE  File(slot)' /\ Frame(w) /\ SamePointers(slot) /\ FL!Next
<1>1. /\ pc[w] = "zero" /\ pc' = [pc EXCEPT ![w] = "idle"]
      /\ words' = [words EXCEPT ![h[w]] = [k \in Index |-> 0]]
      /\ h' = [h EXCEPT ![w] = 0] /\ arg' = [arg EXCEPT ![w] = 0]
      /\ UNCHANGED <<head, held, published, inode, job, done>>
  BY Zenon DEF AllocReturns, FL!AllocZero, FL!Goto, FL!Leave, FL!ownVars, Index
<1>2. h[w] \in held[w] /\ h[w] \in Blocks /\ h[w] \in Word
  BY Zenon, <1>1, ListFacts, ConstantFacts
<1>3. Mine(w) /\ LocalSlots(slot, w)
  BY Zenon DEF File
<1>4. ino(w)' = ino(w) /\ fb(w)' = fb(w)
  BY Zenon, <1>1 DEF ino, fb
<1>5. \/ /\ at' = [at EXCEPT ![w] = "map"] /\ loc' = [loc EXCEPT ![w].newBlock = h[w]]
      \/ /\ at' = [at EXCEPT ![w] = "indset"] \/ at' = [at EXCEPT ![w] = "dblset"]
         /\ loc' = [loc EXCEPT ![w].indirect = h[w]]
      \/ /\ at' = [at EXCEPT ![w] = "l1set"] /\ loc' = [loc EXCEPT ![w].l1Ptr = h[w]]
  BY Zenon DEF AllocReturns, NewReturns, IndirectReturns, DoubleReturns, L1Returns, GoAt, SetLoc
<1>6. FileTypes'
  <2>1. at' \in [Workers -> AtValues]
    BY Zenon, <1>5 DEF File, FileTypes, AtValues, LocType
  <2>2. loc' \in [Workers -> LocType]
    <3>1. /\ [loc EXCEPT ![w].newBlock = h[w]] \in [Workers -> LocType]
          /\ [loc EXCEPT ![w].indirect = h[w]] \in [Workers -> LocType]
          /\ [loc EXCEPT ![w].l1Ptr = h[w]] \in [Workers -> LocType]
      BY Zenon, <1>2, LocUpdates DEF File
    <3>2. QED
      BY Zenon, <1>5, <3>1
  <2>3. QED
    BY Zenon, <1>1, <2>1, <2>2 DEF File, FileTypes, AtValues, LocType, Word
<1>7. \A b \in Blocks : b # h[w] => words'[b] = words[b]
  BY Zenon, <1>1, ListFacts
<1>8. Frame(w)
  BY <1>1, <1>2, <1>7, <1>5, ListFacts DEF Frame, File, FileTypes, AtValues, LocType
<1>9. \A k \in Index : words'[h[w]][k] = 0
  BY ZenonT(30), <1>1, <1>2, ListFacts DEF Zero, Index
<1>10. pc'[w] = "idle" /\ held' = held
  BY Zenon, <1>1, ListFacts
<1>11. Mine(w)' /\ LocalSlots(slot, w)'
  <2>1. CASE NewReturns(w)
    <3>1. at[w] = "new" /\ at'[w] = "map" /\ loc'[w].newBlock = h[w]
      BY Zenon, <2>1 DEF NewReturns, GoAt, SetLoc, File, FileTypes, AtValues, LocType
    <3>2. QED
      BY Zenon, <3>1, <1>1, <1>3, <1>4, <1>10 DEF Mine, Control, Owns, Zeroed, LocalSlots
  <2>2. CASE IndirectReturns(w) \/ DoubleReturns(w)
    <3>1. /\ \/ at[w] = "ind" /\ at'[w] = "indset"
             \/ at[w] = "dbl" /\ at'[w] = "dblset"
          /\ loc'[w].newBlock = loc[w].newBlock /\ loc'[w].indirect = h[w]
      BY SMTT(30), <2>2 DEF IndirectReturns, DoubleReturns, GoAt, SetLoc, File, FileTypes, AtValues, LocType
    <3>2. Zero(loc[w].indirect)'
      BY Zenon, <3>1, <1>9 DEF Zero, Index
    <3>3. QED
      BY Zenon, <3>1, <3>2, <1>1, <1>3, <1>4, <1>10 DEF Mine, Control, Owns, Zeroed, LocalSlots, Direct, Indirect
  <2>3. CASE L1Returns(w)
    <3>1. /\ at[w] = "l1" /\ at'[w] = "l1set"
          /\ loc'[w].newBlock = loc[w].newBlock /\ loc'[w].l1Ptr = h[w] /\ loc'[w].indirect = loc[w].indirect
      BY Zenon, <2>3 DEF L1Returns, GoAt, SetLoc, File, FileTypes, AtValues, LocType
    <3>2. Zero(loc[w].l1Ptr)'
      BY Zenon, <3>1, <1>9 DEF Zero, Index
    <3>3. Mine(w)'
      BY Zenon, <3>1, <3>2, <1>1, <1>3, <1>4, <1>10 DEF Mine, Control, Owns, Zeroed, Direct, Indirect
    <3>4. LocalSlots(slot, w)'
      BY Zenon, <3>1, <1>1, <1>3, <1>4 DEF LocalSlots, HasSlot, Slot
    <3>5. QED
      BY Zenon, <3>3, <3>4
  <2>4. QED
    BY Zenon, <2>1, <2>2, <2>3 DEF AllocReturns
<1>12. \A b \in published : words'[b] = words[b]
  BY <1>2, <1>7, ListFacts
<1>13. File(slot)' /\ SamePointers(slot)
  BY Zenon, <1>1, <1>6, <1>8, <1>11, <1>12, QuietStep
<1>14. QED
  BY Zenon, <1>8, <1>13 DEF AllocReturns, FL!Next, FL!Step

(* ... or fails, and newBlock is given back.                               *)
LEMMA AllocFailsStep ==
    ASSUME ListOK, NEW slot, File(slot), NEW w \in Workers, AllocFails(w)
    PROVE  File(slot)' /\ Frame(w) /\ SamePointers(slot) /\ FL!Next
<1>1. /\ pc[w] = "load" /\ pc' = [pc EXCEPT ![w] = "idle"]
      /\ h' = [h EXCEPT ![w] = 0] /\ arg' = [arg EXCEPT ![w] = 0]
      /\ UNCHANGED <<head, words, held, published, inode, loc, done>>
  BY Zenon DEF AllocFails, FL!AllocEmpty, FL!Goto, FL!Leave, FL!ownVars
<1>2. Mine(w)
  BY Zenon DEF File
<1>3. at[w] \in {"new", "ind", "dbl", "l1"}
  BY Zenon, <1>1, <1>2 DEF Mine, Control
<1>4. pc'[w] = "idle"
  BY Zenon, <1>1, ListFacts
<1>5. NoJob \in [ino : Inodes, fb : FileBlocks \union {0}]
  BY Zenon, SabfsFileAssumption DEF NoJob
<1>6. \/ at[w] = "new" /\ at' = [at EXCEPT ![w] = "idle"] /\ job' = [job EXCEPT ![w] = NoJob]
      \/ at[w] # "new" /\ at' = [at EXCEPT ![w] = "undo"] /\ job' = job
  BY Zenon DEF AllocFails, GoAt
<1> HIDE DEF NoJob
<1>7. FileTypes'
  <2>1. job' \in [Workers -> [ino : Inodes, fb : FileBlocks \union {0}]]
    BY Zenon, <1>6, <1>5 DEF File, FileTypes, AtValues, LocType
  <2>2. at' \in [Workers -> AtValues]
    BY Zenon, <1>6 DEF File, FileTypes, AtValues, LocType
  <2>3. QED
    BY Zenon, <1>1, <2>1, <2>2 DEF File, FileTypes, AtValues, LocType, Word
<1>8. Mine(w)'
  <2>1. CASE at[w] = "new"
    <3>1. at'[w] = "idle"
      BY Zenon, <2>1, <1>6 DEF File, FileTypes, AtValues, LocType
    <3>2. QED
      BY Zenon, <2>1, <3>1, <1>1, <1>2, <1>4 DEF Mine, Control, Owns, Zeroed
  <2>2. CASE at[w] # "new"
    <3>1. at'[w] = "undo" /\ ino(w)' = ino(w) /\ fb(w)' = fb(w)
      BY Zenon, <2>2, <1>6 DEF File, FileTypes, AtValues, LocType, ino, fb
    <3>2. QED
      BY Zenon, <2>2, <3>1, <1>1, <1>2, <1>3, <1>4 DEF Mine, Control, Owns, Zeroed
  <2>3. QED
    BY Zenon, <2>1, <2>2
<1>9. LocalSlots(slot, w)'
  BY Zenon, <1>6 DEF LocalSlots, File, FileTypes, AtValues, LocType
<1>10. Frame(w)
  BY <1>1, <1>6, ListFacts DEF Frame, File, FileTypes, AtValues, LocType
<1>11. File(slot)' /\ SamePointers(slot)
  BY Zenon, <1>1, <1>7, <1>8, <1>9, <1>10, QuietStep
<1>12. QED
  BY Zenon, <1>10, <1>11 DEF AllocFails, FL!Next, FL!Step

(* newBlock, which nobody else has seen, is given back.                    *)
LEMMA UndoStep ==
    ASSUME ListOK, NEW slot, File(slot), NEW w \in Workers, Undo(w)
    PROVE  File(slot)' /\ Frame(w) /\ SamePointers(slot) /\ FL!Next
<1>1. /\ pc[w] = "idle" /\ pc' = [pc EXCEPT ![w] = "fload"] /\ arg' = [arg EXCEPT ![w] = loc[w].newBlock]
      /\ at[w] = "undo" /\ at' = [at EXCEPT ![w] = "undoing"]
      /\ UNCHANGED <<head, words, h, held, published, inode, job, loc, done>>
  BY Zenon DEF Undo, FL!FreeCall, FL!Goto, FL!ownVars, GoAt
<1>2. Mine(w)
  BY Zenon DEF File
<1>3. loc[w].newBlock \in held[w]
  BY Zenon, <1>1, <1>2 DEF Mine, Owns
<1>4. FileTypes'
  BY Zenon, <1>1 DEF File, FileTypes, AtValues, LocType, Word
<1>5. /\ ino(w)' = ino(w) /\ fb(w)' = fb(w) /\ at'[w] = "undoing" /\ pc'[w] = "fload"
      /\ arg'[w] = loc[w].newBlock
  BY <1>1, ListFacts DEF ino, fb, File, FileTypes, AtValues, LocType
<1>6. Mine(w)'
  BY Zenon, <1>1, <1>2, <1>5 DEF Mine, Control, Owns, Zeroed
<1>7. LocalSlots(slot, w)'
  BY Zenon, <1>5 DEF LocalSlots
<1>8. Frame(w)
  BY <1>1, ListFacts DEF Frame, File, FileTypes, AtValues, LocType
<1>9. File(slot)' /\ SamePointers(slot)
  BY Zenon, <1>1, <1>4, <1>6, <1>7, <1>8, QuietStep
<1>10. QED
  BY Zenon, <1>8, <1>3, <1>9 DEF Undo, FL!Next, FL!Client

(* freeBlock has put newBlock on the list; write() fails.                  *)
LEMMA UndoReturnsStep ==
    ASSUME ListOK, NEW slot, File(slot), NEW w \in Workers, UndoReturns(w)
    PROVE  File(slot)' /\ Frame(w) /\ SamePointers(slot) /\ FL!Next
<1>1. /\ pc[w] = "fcas" /\ pc' = [pc EXCEPT ![w] = "idle"]
      /\ h' = [h EXCEPT ![w] = 0] /\ arg' = [arg EXCEPT ![w] = 0]
      /\ held' = [held EXCEPT ![w] = @ \ {arg[w]}]
      /\ at[w] = "undoing" /\ at' = [at EXCEPT ![w] = "idle"]
      /\ job' = [job EXCEPT ![w] = NoJob] /\ loc' = [loc EXCEPT ![w] = NoLoc]
      /\ UNCHANGED <<words, published, inode, done>>
  BY Zenon DEF UndoReturns, FL!FreeCas, FL!Goto, FL!Leave, GoAt
<1>2. Mine(w)
  BY Zenon DEF File
<1>3. /\ NoJob \in [ino : Inodes, fb : FileBlocks \union {0}]
      /\ NoLoc \in LocType
  BY Zenon, SabfsFileAssumption, ConstantFacts DEF NoJob, NoLoc, LocType
<1>4. FileTypes'
  BY Zenon, <1>1, <1>3 DEF File, FileTypes, AtValues, LocType, Word
<1>5. at'[w] = "idle" /\ pc'[w] = "idle" /\ held'[w] = {}
  BY <1>1, <1>2, ListFacts DEF File, FileTypes, AtValues, LocType, Mine, Control, Owns
<1>6. Mine(w)'
  BY Zenon, <1>5 DEF Mine, Control, Owns, Zeroed
<1>7. LocalSlots(slot, w)'
  BY Zenon, <1>5 DEF LocalSlots
<1>8. Frame(w)
  BY <1>1, ListFacts DEF Frame, File, FileTypes, AtValues, LocType
<1>9. File(slot)' /\ SamePointers(slot)
  BY Zenon, <1>1, <1>4, <1>6, <1>7, <1>8, QuietStep
<1>10. QED
  BY Zenon, <1>8, <1>9 DEF UndoReturns, FL!Next, FL!Step

(* A pointer word of an inode or a pointer block is read: the block it     *)
(* names is used, or one is allocated.                                     *)
LEMMA UseOrAllocStep ==
    ASSUME ListOK, NEW slot, File(slot), NEW w \in Workers, NEW p, NEW s,
           Refers(slot, p, s),
           \/ /\ UseOrAlloc(w, "map", p, "indirect", "ptr", "ind")
              /\ Indirect(fb(w)) /\ ~Direct(fb(w)) /\ s = Slot("ind", ino(w), 0, 0)
           \/ /\ UseOrAlloc(w, "map", p, "indirect", "l1read", "dbl")
              /\ ~Indirect(fb(w)) /\ ~Direct(fb(w)) /\ s = Slot("dbl", ino(w), 0, 0)
           \/ /\ UseOrAlloc(w, "l1read", p, "l1Ptr", "ptr", "l1")
              /\ ~Indirect(fb(w)) /\ ~Direct(fb(w)) /\ s = Slot("l1", ino(w), L1(fb(w)), 0)
    PROVE  File(slot)' /\ Frame(w) /\ SamePointers(slot) /\ (FL!Next \/ UNCHANGED FL!vars)
<1>1. UNCHANGED <<inode, job, done>> /\ at[w] \in {"map", "l1read"}
  BY Zenon DEF UseOrAlloc
<1>2. Mine(w) /\ LocalSlots(slot, w)
  BY Zenon DEF File
<1>3. ino(w)' = ino(w) /\ fb(w)' = fb(w)
  BY Zenon, <1>1 DEF ino, fb
<1>4. CASE p # 0
  <2>1. UNCHANGED listVars
    BY Zenon, <1>4 DEF UseOrAlloc
  <2>2. HasSlot(slot, p, s) /\ p \in Word
    BY Zenon, <1>4, ListFacts, ConstantFacts DEF Refers, HasSlot
  <2>3. \/ /\ at[w] = "map" /\ at' = [at EXCEPT ![w] = "ptr"] /\ loc' = [loc EXCEPT ![w].indirect = p]
           /\ Indirect(fb(w)) /\ ~Direct(fb(w)) /\ s = Slot("ind", ino(w), 0, 0)
        \/ /\ at[w] = "map" /\ at' = [at EXCEPT ![w] = "l1read"] /\ loc' = [loc EXCEPT ![w].indirect = p]
           /\ ~Indirect(fb(w)) /\ ~Direct(fb(w)) /\ s = Slot("dbl", ino(w), 0, 0)
        \/ /\ at[w] = "l1read" /\ at' = [at EXCEPT ![w] = "ptr"] /\ loc' = [loc EXCEPT ![w].l1Ptr = p]
           /\ ~Indirect(fb(w)) /\ ~Direct(fb(w)) /\ s = Slot("l1", ino(w), L1(fb(w)), 0)
    BY Zenon, <1>4 DEF UseOrAlloc, SetLoc
  <2>4. FileTypes'
    <3>1. at' \in [Workers -> AtValues]
      BY Zenon, <2>3 DEF File, FileTypes, AtValues
    <3>2. loc' \in [Workers -> LocType]
      <4>1. /\ [loc EXCEPT ![w].indirect = p] \in [Workers -> LocType]
            /\ [loc EXCEPT ![w].l1Ptr = p] \in [Workers -> LocType]
        BY Zenon, <2>2, LocUpdates DEF File
      <4>2. QED
        BY Zenon, <2>3, <4>1
    <3>3. QED
      BY Zenon, <1>1, <3>1, <3>2 DEF File, FileTypes, AtValues, LocType, Word
  <2>5. /\ \/ /\ at[w] = "map" /\ at'[w] = "ptr" /\ loc'[w].indirect = p
              /\ Indirect(fb(w)) /\ ~Direct(fb(w)) /\ s = Slot("ind", ino(w), 0, 0)
           \/ /\ at[w] = "map" /\ at'[w] = "l1read" /\ loc'[w].indirect = p
              /\ ~Indirect(fb(w)) /\ ~Direct(fb(w)) /\ s = Slot("dbl", ino(w), 0, 0)
           \/ /\ at[w] = "l1read" /\ at'[w] = "ptr" /\ loc'[w].l1Ptr = p
              /\ ~Indirect(fb(w)) /\ ~Direct(fb(w)) /\ s = Slot("l1", ino(w), L1(fb(w)), 0)
        /\ loc'[w].newBlock = loc[w].newBlock
    BY <2>3 DEF File, FileTypes, AtValues, LocType
  <2>6. Mine(w)'
    BY Zenon, <1>2, <1>3, <2>1, <2>5 DEF Mine, Control, Owns, Zeroed, listVars, Direct, Indirect
  <2>7. LocalSlots(slot, w)'
    <3>1. HasSlot(slot, p, s)' /\ published' = published
      BY Zenon, <2>1, <2>2 DEF HasSlot, listVars
    <3>2. QED
      BY Zenon, <1>3, <3>1, <2>5 DEF LocalSlots, HasSlot, Slot, Direct, Indirect, L1, DoubleIdx
  <2>8. Frame(w)
    BY Zenon, <1>1, <2>1, <2>3 DEF Frame, File, FileTypes, AtValues, LocType, listVars
  <2>9. File(slot)' /\ SamePointers(slot)
    BY Zenon, <1>1, <2>1, <2>4, <2>6, <2>7, <2>8, QuietStep DEF listVars
  <2>10. QED
    BY Zenon, <2>8, <2>1, <2>9 DEF listVars, FL!vars, FL!listVars, FL!ownVars, FL!ghosts
<1>5. CASE p = 0
  <2>1. /\ FL!AllocCall(w) /\ pc[w] = "idle" /\ pc' = [pc EXCEPT ![w] = "load"]
        /\ UNCHANGED <<words, h, arg, held, published, loc>>
    BY Zenon, <1>5 DEF UseOrAlloc, FL!AllocCall, FL!Goto, FL!ownVars
  <2>2. \/ at[w] = "map" /\ at' = [at EXCEPT ![w] = "ind"] /\ Indirect(fb(w)) /\ ~Direct(fb(w))
        \/ at[w] = "map" /\ at' = [at EXCEPT ![w] = "dbl"] /\ ~Indirect(fb(w)) /\ ~Direct(fb(w))
        \/ at[w] = "l1read" /\ at' = [at EXCEPT ![w] = "l1"] /\ ~Indirect(fb(w)) /\ ~Direct(fb(w))
    BY Zenon, <1>5 DEF UseOrAlloc
  <2>4. FileTypes'
    <3>1. at' \in [Workers -> AtValues]
      BY Zenon, <2>2 DEF File, FileTypes, AtValues
    <3>3. QED
      BY Zenon, <1>1, <2>1, <3>1 DEF File, FileTypes, AtValues, LocType, Word
  <2>5. /\ pc'[w] = "load"
        /\ \/ at[w] = "map" /\ at'[w] = "ind" /\ Indirect(fb(w)) /\ ~Direct(fb(w))
           \/ at[w] = "map" /\ at'[w] = "dbl" /\ ~Indirect(fb(w)) /\ ~Direct(fb(w))
           \/ at[w] = "l1read" /\ at'[w] = "l1" /\ ~Indirect(fb(w)) /\ ~Direct(fb(w))
    BY <2>1, <2>2, ListFacts DEF File, FileTypes, AtValues
  <2>6. Mine(w)'
    BY Zenon, <1>2, <1>3, <2>1, <2>5 DEF Mine, Control, Owns, Zeroed, Direct, Indirect
  <2>7. LocalSlots(slot, w)'
    BY Zenon, <1>2, <1>3, <2>1, <2>5 DEF LocalSlots, HasSlot, Slot
  <2>8. Frame(w)
    BY <1>1, <2>1, <2>2, ListFacts DEF Frame, File, FileTypes, AtValues, LocType
  <2>9. File(slot)' /\ SamePointers(slot)
    BY Zenon, <1>1, <2>1, <2>4, <2>6, <2>7, <2>8, QuietStep
  <2>10. QED
    BY Zenon, <2>8, <2>1, <2>9 DEF FL!Next, FL!Client
<1>6. QED
  BY Zenon, <1>4, <1>5

(* The three places where allocBlockForFile reads a pointer.               *)
LEMMA GetStep ==
    ASSUME ListOK, NEW slot, File(slot), NEW w \in Workers, GetIndirect(w) \/ GetDouble(w) \/ GetL1(w)
    PROVE  File(slot)' /\ Frame(w) /\ SamePointers(slot) /\ (FL!Next \/ UNCHANGED FL!vars)
<1>0. Mine(w) /\ LocalSlots(slot, w) /\ Tree(slot)
  BY Zenon DEF File
<1>1. ino(w) \in Inodes /\ fb(w) \in FileBlocks
  BY Zenon, <1>0 DEF GetIndirect, GetDouble, GetL1, UseOrAlloc, Mine, Control
<1>2. CASE GetIndirect(w)
  <2>1. Refers(slot, inode[ino(w)].indirect, Slot("ind", ino(w), 0, 0))
    BY Zenon, <1>0, <1>1 DEF Tree, InodesName, Names, Refers, HasSlot
  <2>2. QED
    BY Zenon, <1>2, <2>1, UseOrAllocStep DEF GetIndirect, Indirect
<1>3. CASE GetDouble(w)
  <2>1. Refers(slot, inode[ino(w)].doubleIndirect, Slot("dbl", ino(w), 0, 0))
    BY Zenon, <1>0, <1>1 DEF Tree, InodesName, Names, Refers, HasSlot
  <2>2. QED
    BY Zenon, <1>3, <2>1, UseOrAllocStep DEF GetDouble
<1>4. CASE GetL1(w)
  <2>1. ~Direct(fb(w)) /\ ~Indirect(fb(w)) /\ HasSlot(slot, loc[w].indirect, Slot("dbl", ino(w), 0, 0))
    BY Zenon, <1>0, <1>4 DEF GetL1, UseOrAlloc, Mine, Control, LocalSlots
  <2>2. L1(fb(w)) \in Index
    BY Zenon, <1>1, <2>1, Geometry
  <2>3. Refers(slot, words[loc[w].indirect][L1(fb(w))], Slot("l1", ino(w), L1(fb(w)), 0))
    BY Zenon, <1>0, <1>1, <2>1, <2>2 DEF Tree, BlocksName, Names, Refers, HasSlot
  <2>4. QED
    BY Zenon, <1>4, <2>1, <2>3, UseOrAllocStep DEF GetL1
<1>5. QED
  BY Zenon, <1>2, <1>3, <1>4

(* Storing a direct pointer keeps the inode's type.                        *)
LEMMA InodeUpdates ==
    ASSUME FileTypes, NEW i \in Inodes, NEW b \in Word, NEW k \in 0 .. DirectBlocks - 1
    PROVE  LET T == [Inodes -> [direct : [0 .. DirectBlocks - 1 -> Word],
                                indirect : Word, doubleIndirect : Word, blocks : Nat]]
           IN  [inode EXCEPT ![i].direct[k] = b] \in T
BY Zenon DEF FileTypes

(* Storing an indirect or double indirect pointer keeps the inode's type.  *)
LEMMA InodePointerUpdates ==
    ASSUME FileTypes, NEW i \in Inodes, NEW b \in Word
    PROVE  LET T == [Inodes -> [direct : [0 .. DirectBlocks - 1 -> Word],
                                indirect : Word, doubleIndirect : Word, blocks : Nat]]
           IN  /\ [inode EXCEPT ![i].indirect = b] \in T
               /\ [inode EXCEPT ![i].doubleIndirect = b] \in T
BY Zenon DEF FileTypes

(* So does storing INO_BLOCKS.                                             *)
LEMMA InodeBlocksUpdates ==
    ASSUME FileTypes, NEW i \in Inodes, NEW c \in Nat
    PROVE  LET T == [Inodes -> [direct : [0 .. DirectBlocks - 1 -> Word],
                                indirect : Word, doubleIndirect : Word, blocks : Nat]]
           IN  [inode EXCEPT ![i].blocks = c] \in T
BY Zenon DEF FileTypes

(* A block that w publishes for the slot s.                                *)
NewSlot(slot, b, s) == [x \in Blocks |-> IF x = b THEN s ELSE slot[x]]

(* It is new, and the other blocks keep their slots.                       *)
LEMMA NewSlotFacts ==
    ASSUME ListOK, NEW slot, NEW w \in Workers, NEW b \in held[w], NEW s
    PROVE  /\ b \in Blocks /\ b \notin published /\ b # 0 /\ b \in Word
           /\ NewSlot(slot, b, s)[b] = s
           /\ \A x \in published : NewSlot(slot, b, s)[x] = slot[x] /\ x # b
<1>1. b \in Blocks /\ b \notin published /\ published \subseteq Blocks
  BY Zenon, ListFacts
<1>2. QED
  BY Zenon, <1>1, ConstantFacts DEF NewSlot

(* A direct pointer is set.                                                *)
LEMMA MapDirectStep ==
    ASSUME ListOK, NEW slot, File(slot), NEW w \in Workers, MapDirect(w)
    PROVE  /\ \E slot2 : Publishes(slot, slot2, loc[w].newBlock, DataSlot(ino(w), fb(w)))
           /\ Frame(w) /\ FL!Next
<1>0. Mine(w) /\ Tree(slot) /\ FileTypes
  BY Zenon DEF File
<1>1. PICK b \in held[w] : b = loc[w].newBlock
  BY Zenon, <1>0 DEF MapDirect, GoAt, Mine, Owns
<1>2. PICK i \in Inodes : i = ino(w)
  BY Zenon, <1>0 DEF MapDirect, GoAt, Mine, Control
<1>3. PICK k \in 0 .. DirectBlocks - 1 : k = fb(w) /\ Direct(fb(w)) /\ fb(w) \in FileBlocks
  BY Zenon, <1>0, Geometry DEF MapDirect, GoAt, Mine, Control
<1>4. /\ at[w] = "map" /\ at' = [at EXCEPT ![w] = "count"]
      /\ inode' = [inode EXCEPT ![i].direct[k] = b]
      /\ held' = [held EXCEPT ![w] = @ \ {b}] /\ published' = published \union {b}
      /\ UNCHANGED <<head, words, pc, h, n, arg, job, loc, done>>
  BY Zenon, <1>1, <1>2, <1>3 DEF MapDirect, GoAt, FL!Publish, FL!listVars
<1> DEFINE s == Slot("direct", i, k, 0)
           slot2 == NewSlot(slot, b, s)
<1>5. /\ b \in Blocks /\ b \notin published /\ b # 0 /\ b \in Word /\ slot2[b] = s
      /\ \A x \in published : slot2[x] = slot[x] /\ x # b
  BY NewSlotFacts
<1> HIDE DEF slot2
<1>6. FileTypes'
  <2>1. inode' \in [Inodes -> [direct : [0 .. DirectBlocks - 1 -> Word],
                               indirect : Word, doubleIndirect : Word, blocks : Nat]]
    BY Zenon, <1>0, <1>4, <1>5, InodeUpdates
  <2>2. QED
    BY Zenon, <1>0, <1>4, <2>1 DEF FileTypes, AtValues, Word, LocType
<1>7. ino(w)' = i /\ fb(w)' = k /\ at'[w] = "count" /\ loc'[w].newBlock = b /\ held'[w] = held[w] \ {b}
  BY <1>0, <1>1, <1>2, <1>3, <1>4, ListFacts DEF FileTypes, ino, fb
<1>8. Mine(w)'
  BY Zenon, <1>0, <1>1, <1>2, <1>3, <1>4, <1>7 DEF Mine, Control, Owns, Zeroed
<1>9. LocalSlots(slot2, w)'
  BY Zenon, <1>3, <1>4, <1>5, <1>7 DEF LocalSlots, HasSlot, DataSlot, Slot, Direct
<1>10. Frame(w)
  BY <1>4, <1>0, ListFacts DEF Frame, FileTypes
<1>11. Tree(slot2)'
  <2>1. \A j \in Inodes :
          /\ \A q \in 0 .. DirectBlocks - 1 :
               inode'[j].direct[q] = IF j = i /\ q = k THEN b ELSE inode[j].direct[q]
          /\ inode'[j].indirect = inode[j].indirect
          /\ inode'[j].doubleIndirect = inode[j].doubleIndirect
    BY Zenon, <1>0, <1>4 DEF FileTypes
  <2>2. s[1] \notin {"ind", "dbl", "l1"}
    BY Zenon DEF Slot
  <2> HIDE DEF s
  <2>3. QED
    <3>1. InodesGain(b, s)
      BY Zenon, <2>1 DEF InodesGain, s
    <3>2. PointersGain(slot, b, s)
      BY Zenon, <1>4, <2>2 DEF PointersGain
    <3>3. /\ Tree(slot) /\ b # 0 /\ b \notin published /\ published' = published \union {b}
          /\ slot2[b] = s /\ \A x \in published : slot2[x] = slot[x]
      BY Zenon, <1>0, <1>4, <1>5
    <3>. QED
      BY Zenon, <3>1, <3>2, <3>3, TreeGrows
<1>12. File(slot2)'
  BY Zenon, <1>4, <1>5, <1>6, <1>8, <1>9, <1>10, <1>11, PublishingStep
<1>13. FL!Publish(w, b)
  BY Zenon, <1>1 DEF MapDirect
<1>14. s = DataSlot(ino(w), fb(w))
  BY Zenon, <1>2, <1>3 DEF DataSlot
<1>15. Publishes(slot, slot2, b, s)
  BY Zenon, <1>4, <1>5, <1>12 DEF Publishes
<1>16. QED
  BY Zenon, <1>1, <1>10, <1>13, <1>14, <1>15 DEF FL!Next, FL!Client

(* A new indirect or double indirect block is linked into the inode.       *)
LEMMA SetInodeStep ==
    ASSUME ListOK, NEW slot, File(slot), NEW w \in Workers, SetIndirect(w) \/ SetDouble(w)
    PROVE  /\ \E slot2 : Publishes(slot, slot2, loc[w].indirect,
                                   Slot(IF at[w] = "indset" THEN "ind" ELSE "dbl", ino(w), 0, 0))
           /\ Frame(w) /\ FL!Next
<1>0. Mine(w) /\ Tree(slot) /\ FileTypes
  BY Zenon DEF File
<1>1. PICK b \in held[w] : b = loc[w].indirect
  BY Zenon, <1>0 DEF SetIndirect, SetDouble, GoAt, Mine, Owns
<1>2. PICK i \in Inodes : i = ino(w)
  BY Zenon, <1>0 DEF SetIndirect, SetDouble, GoAt, Mine, Control
<1>3. /\ \/ /\ at[w] = "indset" /\ at' = [at EXCEPT ![w] = "ptr"]
            /\ inode' = [inode EXCEPT ![i].indirect = b]
         \/ /\ at[w] = "dblset" /\ at' = [at EXCEPT ![w] = "l1read"]
            /\ inode' = [inode EXCEPT ![i].doubleIndirect = b]
      /\ held' = [held EXCEPT ![w] = @ \ {b}] /\ published' = published \union {b}
      /\ UNCHANGED <<head, words, pc, h, n, arg, job, loc, done>>
  BY Zenon, <1>1, <1>2 DEF SetIndirect, SetDouble, GoAt, FL!Publish, FL!listVars
<1>4. PICK s : s = Slot(IF at[w] = "indset" THEN "ind" ELSE "dbl", i, 0, 0)
  BY Zenon
<1> DEFINE slot2 == NewSlot(slot, b, s)
<1>5. /\ b \in Blocks /\ b \notin published /\ b # 0 /\ b \in Word /\ slot2[b] = s
      /\ \A x \in published : slot2[x] = slot[x] /\ x # b
  BY NewSlotFacts
<1> HIDE DEF slot2
<1>6. FileTypes'
  <2>1. inode' \in [Inodes -> [direct : [0 .. DirectBlocks - 1 -> Word],
                               indirect : Word, doubleIndirect : Word, blocks : Nat]]
    <3>1. /\ [inode EXCEPT ![i].indirect = b]
               \in [Inodes -> [direct : [0 .. DirectBlocks - 1 -> Word],
                               indirect : Word, doubleIndirect : Word, blocks : Nat]]
          /\ [inode EXCEPT ![i].doubleIndirect = b]
               \in [Inodes -> [direct : [0 .. DirectBlocks - 1 -> Word],
                               indirect : Word, doubleIndirect : Word, blocks : Nat]]
      BY Zenon, <1>0, <1>5, InodePointerUpdates
    <3>2. QED
      BY Zenon, <1>3, <3>1
  <2>2. at' \in [Workers -> AtValues]
    BY Zenon, <1>0, <1>3 DEF FileTypes, AtValues
  <2>3. QED
    BY Zenon, <1>0, <1>3, <2>1, <2>2 DEF FileTypes, AtValues, Word, LocType
<1>7. /\ ino(w)' = ino(w) /\ fb(w)' = fb(w) /\ held'[w] = held[w] \ {b} /\ loc' = loc
      /\ \/ at[w] = "indset" /\ at'[w] = "ptr"
         \/ at[w] = "dblset" /\ at'[w] = "l1read"
  BY <1>0, <1>3, ListFacts DEF FileTypes, ino, fb
<1>8. Mine(w)'
  BY Zenon, <1>0, <1>1, <1>3, <1>7 DEF Mine, Control, Owns, Zeroed, Direct, Indirect
<1>9. LocalSlots(slot2, w)'
  BY Zenon, <1>0, <1>1, <1>2, <1>3, <1>4, <1>5, <1>7 DEF LocalSlots, HasSlot, Slot, Mine, Control, Direct, Indirect
<1>10. Frame(w)
  BY <1>3, <1>0, ListFacts DEF Frame, FileTypes
<1>11. Tree(slot2)'
  <2>1. \A j \in Inodes :
          /\ inode'[j].direct = inode[j].direct
          /\ \/ inode'[j].indirect = inode[j].indirect
             \/ inode'[j].indirect = b /\ j = i /\ at[w] = "indset"
          /\ \/ inode'[j].doubleIndirect = inode[j].doubleIndirect
             \/ inode'[j].doubleIndirect = b /\ j = i /\ at[w] = "dblset"
    BY <1>0, <1>3 DEF FileTypes
  <2>2. \A k \in Index : words'[b][k] = 0
    BY Zenon, <1>0, <1>1, <1>3 DEF Mine, Zeroed, Zero
  <2>3. /\ at[w] = "indset" => s = Slot("ind", i, 0, 0)
        /\ at[w] = "dblset" => s = Slot("dbl", i, 0, 0)
    BY Zenon, <1>4
  <2>4. \A j \in Inodes :
          /\ \A k \in 0 .. DirectBlocks - 1 :
               \/ inode'[j].direct[k] = inode[j].direct[k]
               \/ inode'[j].direct[k] = b /\ s = Slot("direct", j, k, 0)
          /\ \/ inode'[j].indirect = inode[j].indirect
             \/ inode'[j].indirect = b /\ s = Slot("ind", j, 0, 0)
          /\ \/ inode'[j].doubleIndirect = inode[j].doubleIndirect
             \/ inode'[j].doubleIndirect = b /\ s = Slot("dbl", j, 0, 0)
    BY Zenon, <2>1, <2>3
  <2>5. \A x \in published, j \in Inodes, k \in Index :
          \/ words'[x][k] = words[x][k]
          \/ /\ words'[x][k] = b
             /\ slot[x] = Slot("ind", j, 0, 0) => s = Slot("ptr", j, k, 0)
             /\ slot[x] = Slot("dbl", j, 0, 0) => s = Slot("l1", j, k, 0)
             /\ \A y \in Index : slot[x] = Slot("l1", j, y, 0) => s = Slot("l2", j, y, k)
    BY Zenon, <1>3
  <2>6. /\ Tree(slot) /\ b # 0 /\ b \notin published /\ published' = published \union {b}
        /\ slot2[b] = s /\ \A x \in published : slot2[x] = slot[x]
    BY Zenon, <1>0, <1>3, <1>5
  <2>7. QED
    <3>1. InodesGain(b, s) /\ PointersGain(slot, b, s)
      BY Zenon, <2>2, <2>4, <2>5 DEF InodesGain, PointersGain
    <3>. QED
      BY Zenon, <2>6, <3>1, TreeGrows
<1>12. File(slot2)'
  BY Zenon, <1>3, <1>5, <1>6, <1>8, <1>9, <1>10, <1>11, PublishingStep
<1>13. FL!Publish(w, b)
  BY Zenon, <1>1 DEF SetIndirect, SetDouble
<1>14. Publishes(slot, slot2, b, s)
  BY Zenon, <1>3, <1>5, <1>12 DEF Publishes
<1>15. QED
  BY Zenon, <1>1, <1>2, <1>4, <1>10, <1>13, <1>14 DEF FL!Next, FL!Client

(* A block is linked into a pointer block: a new second-level one into the *)
(* double indirect block, or newBlock at last.                             *)
LEMMA SetPointerStep ==
    ASSUME ListOK, NEW slot, File(slot), NEW w \in Workers, SetL1(w) \/ SetPtr(w)
    PROVE  /\ at[w] = "l1set" =>
                \E slot2 : Publishes(slot, slot2, loc[w].l1Ptr, Slot("l1", ino(w), L1(fb(w)), 0))
           /\ at[w] = "ptr" =>
                \E slot2 : Publishes(slot, slot2, loc[w].newBlock, DataSlot(ino(w), fb(w)))
           /\ at[w] \in {"l1set", "ptr"} /\ Frame(w) /\ FL!Next
<1>0. Mine(w) /\ LocalSlots(slot, w) /\ Tree(slot) /\ FileTypes
  BY Zenon DEF File
<1>1. at[w] \in {"l1set", "ptr"} /\ ino(w) \in Inodes /\ fb(w) \in FileBlocks /\ ~Direct(fb(w))
  BY Zenon, <1>0 DEF SetL1, SetPtr, GoAt, Mine, Control
<1>2. PICK b \in held[w] : b = IF at[w] = "l1set" THEN loc[w].l1Ptr ELSE loc[w].newBlock
  BY Zenon, <1>0, <1>1 DEF Mine, Owns
<1>3. PICK i \in Inodes : i = ino(w)
  BY Zenon, <1>1
<1>4. PICK s : s = IF at[w] = "l1set" THEN Slot("l1", i, L1(fb(w)), 0) ELSE DataSlot(i, fb(w))
  BY Zenon
<1> DEFINE slot2 == NewSlot(slot, b, s)
<1>5. /\ b \in Blocks /\ b \notin published /\ b # 0 /\ b \in Word /\ slot2[b] = s
      /\ \A x \in published : slot2[x] = slot[x] /\ x # b
  BY NewSlotFacts
<1> HIDE DEF slot2
<1>6. PICK k \in Index : k = IF at[w] = "l1set" THEN L1(fb(w))
                             ELSE IF Indirect(fb(w)) THEN IndirectIdx(fb(w)) ELSE L2(fb(w))
  BY Zenon, <1>0, <1>1, Geometry DEF Mine, Control
<1>7. PICK c \in published : c = IF at[w] = "l1set" \/ Indirect(fb(w)) THEN loc[w].indirect ELSE loc[w].l1Ptr
  BY Zenon, <1>0, <1>1 DEF LocalSlots, HasSlot
<1>8. /\ FL!StorePtr(w, c, k, b) /\ c \in Blocks
      /\ at[w] = "l1set" => ~Indirect(fb(w))
  BY Zenon, <1>0, <1>2, <1>6, <1>7, ListFacts DEF SetL1, SetPtr, GoAt, Mine, Control
<1>9. /\ \/ at[w] = "l1set" /\ at' = [at EXCEPT ![w] = "ptr"]
         \/ at[w] = "ptr" /\ at' = [at EXCEPT ![w] = "count"]
      /\ words' = [words EXCEPT ![c][k] = b]
      /\ held' = [held EXCEPT ![w] = @ \ {b}] /\ published' = published \union {b}
      /\ UNCHANGED <<head, pc, h, n, arg, inode, job, loc, done>>
  BY Zenon, <1>8 DEF SetL1, SetPtr, GoAt, FL!StorePtr
<1>10. FileTypes'
  <2>2. at' \in [Workers -> AtValues]
    BY Zenon, <1>0, <1>9 DEF FileTypes, AtValues
  <2>3. QED
    BY Zenon, <1>0, <1>9, <2>2 DEF FileTypes, AtValues, Word, LocType
<1>11. /\ ino(w)' = ino(w) /\ fb(w)' = fb(w) /\ held'[w] = held[w] \ {b} /\ loc' = loc
      /\ \/ at[w] = "l1set" /\ at'[w] = "ptr"
         \/ at[w] = "ptr" /\ at'[w] = "count"
  BY <1>0, <1>9, ListFacts DEF FileTypes, ino, fb
<1>12. Mine(w)'
  BY Zenon, <1>0, <1>2, <1>9, <1>11 DEF Mine, Control, Owns, Zeroed, Direct, Indirect
<1>13. LocalSlots(slot2, w)'
  <2>1. CASE at[w] = "l1set"
    BY Zenon, <2>1, <1>2, <1>3, <1>8, <1>9, <1>5, <1>11, <1>4
    DEF LocalSlots, HasSlot, Slot, Direct, Indirect, L1, DoubleIdx
  <2>2. CASE at[w] = "ptr"
    <3>1. b = loc[w].newBlock /\ s = DataSlot(ino(w), fb(w))
      BY Zenon, <2>2, <1>2, <1>3, <1>4
    <3>2. DataSlot(ino(w), fb(w))' = DataSlot(ino(w), fb(w))
      BY Zenon, <1>11 DEF DataSlot, Slot, Direct, Indirect, IndirectIdx, L1, L2, DoubleIdx
    <3>3. QED
      BY Zenon, <2>2, <3>1, <3>2, <1>9, <1>5, <1>11 DEF LocalSlots, HasSlot
  <2>3. QED
    BY Zenon, <2>1, <2>2, <1>1
<1>14. \A x \in Blocks : x # c => words'[x] = words[x]
  BY ZenonT(30), <1>9, ListFacts
<1>15. Frame(w)
  BY <1>0, <1>7, <1>9, <1>14, ListFacts DEF Frame, FileTypes
<1>16. Tree(slot2)'
  <2>1. \A x \in published, q \in Index : x # c \/ q # k => words'[x][q] = words[x][q]
    BY <1>8, <1>9, ListFacts
  <2>2. words'[c][k] = b
    BY <1>8, <1>9, ListFacts
  <2>3. ASSUME NEW j \in Inodes
        PROVE /\ slot[c] = Slot("ind", j, 0, 0) => s = Slot("ptr", j, k, 0)
              /\ slot[c] = Slot("dbl", j, 0, 0) => s = Slot("l1", j, k, 0)
              /\ \A y \in Index : slot[c] = Slot("l1", j, y, 0) => s = Slot("l2", j, y, k)
    <3>1. CASE at[w] = "l1set"
      BY SMTT(30), <3>1, <1>0, <1>3, <1>6, <1>7, <1>4 DEF LocalSlots, HasSlot, Slot
    <3>2. CASE at[w] = "ptr" /\ Indirect(fb(w))
      BY SMTT(30), <3>2, <1>0, <1>1, <1>3, <1>6, <1>7, <1>4 DEF LocalSlots, HasSlot, Slot, DataSlot
    <3>3. CASE at[w] = "ptr" /\ ~Indirect(fb(w))
      BY SMTT(30), <3>3, <1>0, <1>1, <1>3, <1>6, <1>7, <1>4 DEF LocalSlots, HasSlot, Slot, DataSlot
    <3>4. QED
      BY Zenon, <3>1, <3>2, <3>3, <1>1
  <2>4. s[1] \in {"ind", "dbl", "l1"} => \A q \in Index : words'[b][q] = 0
    <3>1. CASE at[w] = "l1set"
      <4>1. words'[b] = words[b]
        BY Zenon, <1>7, <1>5, <1>14
      <4>2. QED
        BY Zenon, <3>1, <4>1, <1>0, <1>2 DEF Mine, Zeroed, Zero
    <3>2. CASE at[w] = "ptr"
      BY Zenon, <3>2, <1>4 DEF DataSlot, Slot
    <3>3. QED
      BY Zenon, <3>1, <3>2, <1>1
  <2>5. inode' = inode
    BY Zenon, <1>9
  <2>6. QED
    <3>1. InodesGain(b, s)
      BY Zenon, <2>5 DEF InodesGain
    <3>2. ASSUME NEW x \in published, NEW j \in Inodes, NEW q \in Index
          PROVE  \/ words'[x][q] = words[x][q]
                 \/ /\ words'[x][q] = b
                    /\ slot[x] = Slot("ind", j, 0, 0) => s = Slot("ptr", j, q, 0)
                    /\ slot[x] = Slot("dbl", j, 0, 0) => s = Slot("l1", j, q, 0)
                    /\ \A y \in Index : slot[x] = Slot("l1", j, y, 0) => s = Slot("l2", j, y, q)
      <4>1. CASE x # c \/ q # k
        BY Zenon, <2>1, <4>1
      <4>2. CASE x = c /\ q = k
        BY Zenon, <2>2, <2>3, <4>2
      <4>. QED
        BY Zenon, <4>1, <4>2
    <3>3. PointersGain(slot, b, s)
      BY Zenon, <2>4, <3>2 DEF PointersGain
    <3>4. /\ Tree(slot) /\ b # 0 /\ b \notin published /\ published' = published \union {b}
          /\ slot2[b] = s /\ \A x \in published : slot2[x] = slot[x]
      BY Zenon, <1>0, <1>9, <1>5
    <3>. QED
      BY Zenon, <3>1, <3>3, <3>4, TreeGrows
<1>17. File(slot2)'
  BY Zenon, <1>9, <1>5, <1>10, <1>12, <1>13, <1>15, <1>16, PublishingStep
<1>18. Publishes(slot, slot2, b, s)
  BY Zenon, <1>9, <1>5, <1>17 DEF Publishes
<1>19. QED
  BY Zenon, <1>1, <1>4, <1>2, <1>3, <1>8, <1>15, <1>18 DEF FL!Next, FL!Client, Index

(* INO_BLOCKS is read and stored back.                                     *)
LEMMA CountStep ==
    ASSUME ListOK, NEW slot, File(slot), NEW w \in Workers, GetBlocks(w) \/ SetBlocks(w)
    PROVE  File(slot)' /\ Frame(w) /\ SamePointers(slot) /\ UNCHANGED FL!vars
<1>0. Mine(w) /\ LocalSlots(slot, w) /\ FileTypes
  BY Zenon DEF File
<1>1. PICK i \in Inodes : i = ino(w)
  BY Zenon, <1>0 DEF GetBlocks, SetBlocks, GoAt, Mine, Control
<1>2. /\ \/ /\ at[w] = "count" /\ at' = [at EXCEPT ![w] = "add"] /\ inode' = inode
            /\ loc' = [loc EXCEPT ![w].blocks = inode[i].blocks]
         \/ /\ at[w] = "add" /\ at' = [at EXCEPT ![w] = "data"] /\ loc' = loc
            /\ inode' = [inode EXCEPT ![i].blocks = loc[w].blocks + 1]
      /\ UNCHANGED <<listVars, job, done>>
  BY Zenon, <1>1 DEF GetBlocks, SetBlocks, GoAt, SetLoc
<1>3. FileTypes'
  <2>1. inode' \in [Inodes -> [direct : [0 .. DirectBlocks - 1 -> Word],
                               indirect : Word, doubleIndirect : Word, blocks : Nat]]
    <3>1. loc[w].blocks + 1 \in Nat
      BY <1>0 DEF FileTypes, LocType
    <3>2. [inode EXCEPT ![i].blocks = loc[w].blocks + 1]
            \in [Inodes -> [direct : [0 .. DirectBlocks - 1 -> Word],
                            indirect : Word, doubleIndirect : Word, blocks : Nat]]
      BY Zenon, <1>0, <3>1, InodeBlocksUpdates
    <3>3. QED
      BY Zenon, <1>0, <1>2, <3>2 DEF FileTypes
  <2>2. loc' \in [Workers -> LocType]
    <3>1. inode[i].blocks \in Nat
      BY Zenon, <1>0 DEF FileTypes
    <3>2. [loc EXCEPT ![w].blocks = inode[i].blocks] \in [Workers -> LocType]
      BY Zenon, <1>0, <3>1, LocBlocksUpdates
    <3>3. loc \in [Workers -> LocType]
      BY Zenon, <1>0 DEF FileTypes
    <3>4. QED
      BY Zenon, <1>2, <3>2, <3>3
  <2>3. at' \in [Workers -> AtValues]
    BY Zenon, <1>0, <1>2 DEF FileTypes, AtValues
  <2>4. QED
    BY Zenon, <1>0, <1>2, <2>1, <2>2, <2>3 DEF FileTypes, AtValues, Word, LocType
<1>4. /\ ino(w)' = ino(w) /\ fb(w)' = fb(w) /\ loc'[w].newBlock = loc[w].newBlock
      /\ at[w] \in {"count", "add"} /\ at'[w] \in {"add", "data"}
  BY <1>0, <1>2 DEF FileTypes, LocType, ino, fb
<1>5. Mine(w)'
  BY Zenon, <1>0, <1>2, <1>4 DEF Mine, Control, Owns, Zeroed, listVars
<1>6. LocalSlots(slot, w)'
  <2>1. DataSlot(ino(w), fb(w))' = DataSlot(ino(w), fb(w))
    BY Zenon, <1>4 DEF DataSlot, Slot, Direct, Indirect, IndirectIdx, L1, L2, DoubleIdx
  <2>2. QED
    BY Zenon, <1>0, <1>2, <1>4, <2>1 DEF LocalSlots, HasSlot, listVars
<1>7. Frame(w)
  BY Zenon, <1>0, <1>2 DEF Frame, FileTypes, listVars
<1>8. \A j \in Inodes : /\ inode'[j].direct = inode[j].direct
                        /\ inode'[j].indirect = inode[j].indirect
                        /\ inode'[j].doubleIndirect = inode[j].doubleIndirect
  <2>1. CASE inode' = inode
    BY Zenon, <2>1
  <2>2. CASE inode' = [inode EXCEPT ![i].blocks = loc[w].blocks + 1]
    BY Zenon, <2>2, <1>0 DEF FileTypes
  <2>3. QED
    BY Zenon, <2>1, <2>2, <1>2
<1>9. File(slot)' /\ SamePointers(slot)
  BY Zenon, <1>2, <1>3, <1>5, <1>6, <1>7, <1>8, QuietStep DEF listVars
<1>10. QED
  BY Zenon, <1>7, <1>2, <1>9 DEF listVars, FL!vars, FL!listVars, FL!ownVars, FL!ghosts

(* The data is written into a block that is no pointer block.              *)
LEMMA PutDataStep ==
    ASSUME ListOK, NEW slot, File(slot), NEW w \in Workers, NEW k \in Index, NEW v \in Data, PutData(w, k, v)
    PROVE  File(slot)' /\ Frame(w) /\ SamePointers(slot) /\ FL!Next
<1>0. Mine(w) /\ LocalSlots(slot, w) /\ FileTypes
  BY Zenon DEF File
<1>1. PICK b \in published : b = loc[w].newBlock /\ slot[b] = DataSlot(ino(w), fb(w))
  BY Zenon, <1>0 DEF PutData, GoAt, LocalSlots, HasSlot
<1>2. /\ at[w] = "data" /\ at' = [at EXCEPT ![w] = "idle"]
      /\ FL!Store(w, b, k, v) /\ words' = [words EXCEPT ![b][k] = v]
      /\ job' = [job EXCEPT ![w] = NoJob] /\ loc' = [loc EXCEPT ![w] = NoLoc]
      /\ UNCHANGED <<head, pc, h, n, arg, held, published, inode>>
  BY Zenon, <1>1 DEF PutData, GoAt, FL!Store, FL!ownVars
<1>3. /\ NoJob \in [ino : Inodes, fb : FileBlocks \union {0}]
      /\ NoLoc \in LocType
  BY Zenon, SabfsFileAssumption, ConstantFacts DEF NoJob, NoLoc, LocType
<1>4. FileTypes'
  BY Zenon, <1>0, <1>2, <1>3 DEF FileTypes, AtValues, Word, LocType
<1>5. at'[w] = "idle"
  BY Zenon, <1>0, <1>2 DEF FileTypes
<1>6. Mine(w)' /\ LocalSlots(slot, w)'
  BY Zenon, <1>0, <1>2, <1>5 DEF Mine, Control, Owns, Zeroed, LocalSlots
<1>7. \A x \in Blocks : x # b => words'[x] = words[x]
  BY Zenon, <1>2, ListFacts
<1>8. Frame(w)
  BY <1>0, <1>1, <1>2, <1>7, ListFacts DEF Frame, FileTypes
<1>9. slot[b][1] \notin {"ind", "dbl", "l1"}
  <2>1. \A j, f : DataSlot(j, f)[1] \in {"direct", "ptr", "l2"}
    BY Zenon DEF DataSlot, Slot
  <2>2. QED
    BY Zenon, <1>1, <2>1
<1>10. \A x \in published : slot[x][1] \in {"ind", "dbl", "l1"} => words'[x] = words[x]
  BY Zenon, <1>7, <1>9, ListFacts
<1>11. File(slot)' /\ SamePointers(slot)
  BY Zenon, <1>2, <1>4, <1>6, <1>8, <1>10, QuietStep
<1>12. QED
  BY Zenon, <1>8, <1>1, <1>2, <1>11 DEF FL!Next, FL!Client, Index

-----------------------------------------------------------------------------
(* A step that changes nothing keeps the block maps.                       *)
LEMMA StutterFile ==
    ASSUME NEW slot, File(slot), UNCHANGED vars
    PROVE  File(slot)'
<1>1. \A w \in Workers : ino(w)' = ino(w) /\ fb(w)' = fb(w)
  BY Zenon DEF vars, fileVars, ino, fb
<1>2. FileTypes'
  BY Zenon DEF vars, fileVars, File, FileTypes, AtValues, LocType, Word
<1>3. Tree(slot)'
  BY Zenon, TreeKept DEF vars, listVars, fileVars, File
<1>4. \A w \in Workers : Mine(w)'
  BY SMTT(30), <1>1 DEF vars, listVars, fileVars, File, Mine, Control, Owns, Zeroed, Zero, Direct, Indirect, Index
<1>5. \A w \in Workers : LocalSlots(slot, w)'
  BY Zenon, <1>1 DEF vars, listVars, fileVars, File, LocalSlots, HasSlot, DataSlot, Slot, Direct, Indirect,
              IndirectIdx, L1, L2, DoubleIdx
<1>6. QED
  BY Zenon, <1>2, <1>3, <1>4, <1>5 DEF File

(* Every step of write and allocBlockForFile, while allocBlock has not     *)
(* handed a block out twice, keeps the block maps and the contract of the  *)
(* allocator.                                                              *)
LEMMA NextFile ==
    ASSUME ListOK, NEW slot, File(slot), [Next]_vars
    PROVE  (\E slot2 : File(slot2)') /\ (FL!Next \/ UNCHANGED FL!vars)
<1>1. ASSUME NEW w \in Workers, Continue(w)
      PROVE  (\E slot2 : File(slot2)') /\ (FL!Next \/ UNCHANGED FL!vars)
  <2>1. CASE ListStep(w)  BY <2>1, ListStepStep
  <2>2. CASE AllocReturns(w)  BY <2>2, AllocReturnsStep
  <2>3. CASE AllocFails(w)  BY <2>3, AllocFailsStep
  <2>4. CASE Undo(w)  BY <2>4, UndoStep
  <2>5. CASE UndoReturns(w)  BY <2>5, UndoReturnsStep
  <2>6. CASE MapDirect(w)  BY <2>6, MapDirectStep DEF Publishes
  <2>7. CASE GetIndirect(w) \/ GetDouble(w) \/ GetL1(w)  BY <2>7, GetStep
  <2>8. CASE SetIndirect(w) \/ SetDouble(w)  BY <2>8, SetInodeStep DEF Publishes
  <2>9. CASE SetL1(w) \/ SetPtr(w)  BY <2>9, SetPointerStep DEF Publishes
  <2>10. CASE GetBlocks(w) \/ SetBlocks(w)  BY <2>10, CountStep
  <2>11. ASSUME NEW k \in FL!Index, NEW v \in Data, PutData(w, k, v)
         PROVE  (\E slot2 : File(slot2)') /\ (FL!Next \/ UNCHANGED FL!vars)
    BY Zenon, <2>11, PutDataStep DEF Index
  <2>12. QED
    BY Zenon, <1>1, <2>1, <2>2, <2>3, <2>4, <2>5, <2>6, <2>7, <2>8, <2>9, <2>10, <2>11 DEF Continue
<1>2. ASSUME NEW w \in Workers, NEW i \in Inodes, NEW f \in FileBlocks, WriteMapped(w, i, f)
      PROVE  (\E slot2 : File(slot2)') /\ (FL!Next \/ UNCHANGED FL!vars)
  BY Zenon, <1>2, WriteMappedStep
<1>3. ASSUME NEW w \in Workers, NEW i \in Inodes, NEW f \in FileBlocks, WriteHole(w, i, f)
      PROVE  (\E slot2 : File(slot2)') /\ (FL!Next \/ UNCHANGED FL!vars)
  BY Zenon, <1>3, WriteHoleStep
<1>4. CASE UNCHANGED vars
  BY Zenon, <1>4, StutterFile DEF vars, listVars, FL!vars, FL!listVars, FL!ownVars, FL!ghosts
<1>5. QED
  BY Zenon, <1>1, <1>2, <1>3, <1>4 DEF Next

(* A block handed out twice stays a block handed out twice.                *)
LEMMA AbaStays == aba /\ [Next]_vars => aba'
<1> SUFFICES ASSUME aba, [Next]_vars PROVE aba'
  BY Zenon
<1> USE DEF FL!ghosts
<1>1. ASSUME NEW w \in Workers, Continue(w) PROVE aba'
  <2>1. CASE ListStep(w)
    BY Zenon, <2>1 DEF ListStep, FL!AllocLoad, FL!AllocNext, FL!AllocCas, FL!AllocRetry, FL!FreeLoad, FL!FreeSet,
                FL!FreeRetry
  <2>2. CASE AllocReturns(w) \/ AllocFails(w) \/ Undo(w) \/ UndoReturns(w)
    BY Zenon, <2>2 DEF AllocReturns, AllocFails, Undo, UndoReturns, FL!AllocZero, FL!AllocEmpty, FL!FreeCall, FL!FreeCas
  <2>3. CASE GetIndirect(w) \/ GetDouble(w) \/ GetL1(w)
    BY Zenon, <2>3 DEF GetIndirect, GetDouble, GetL1, UseOrAlloc, FL!AllocCall, listVars
  <2>4. CASE MapDirect(w) \/ SetIndirect(w) \/ SetDouble(w) \/ SetL1(w) \/ SetPtr(w)
    BY Zenon, <2>4 DEF MapDirect, SetIndirect, SetDouble, SetL1, SetPtr, FL!Publish, FL!StorePtr
  <2>5. CASE GetBlocks(w) \/ SetBlocks(w)
    BY Zenon, <2>5 DEF GetBlocks, SetBlocks, listVars
  <2>6. ASSUME NEW k \in FL!Index, NEW v \in Data, PutData(w, k, v) PROVE aba'
    BY Zenon, <2>6 DEF PutData, FL!Store
  <2>7. QED
    BY Zenon, <1>1, <2>1, <2>2, <2>3, <2>4, <2>5, <2>6 DEF Continue
<1>2. ASSUME NEW w \in Workers, NEW i \in Inodes, NEW f \in FileBlocks, WriteMapped(w, i, f) \/ WriteHole(w, i, f)
      PROVE  aba'
  BY Zenon, <1>2 DEF WriteMapped, WriteHole, listVars, FL!AllocCall
<1>3. CASE UNCHANGED vars
  BY Zenon, <1>3 DEF vars, listVars
<1>4. QED
  BY Zenon, <1>1, <1>2, <1>3 DEF Next

(* The file system starts with empty inodes and all blocks on the list.    *)
LEMMA InitFile == Init => \E slot : File(slot)
<1> SUFFICES ASSUME Init PROVE \E slot : File(slot)
  BY Zenon
<1>2. /\ NoJob \in [ino : Inodes, fb : FileBlocks \union {0}]
      /\ NoLoc \in LocType
  BY Zenon, SabfsFileAssumption, ConstantFacts DEF NoJob, NoLoc, LocType
<1>3. FileTypes
  BY Zenon, <1>2, ConstantFacts DEF Init, FileTypes, AtValues
<1>4. published = {} /\ held = [w \in Workers |-> {}] /\ pc = [w \in Workers |-> "idle"]
      /\ at = [w \in Workers |-> "idle"]
  BY Zenon DEF Init, FL!Init
<1>5. \A w \in Workers : Mine(w)
  BY Zenon, <1>4 DEF Mine, Control, Owns, Zeroed
<1>6. Tree([b \in Blocks |-> 0])
  BY Zenon, <1>4 DEF Init, Tree, InodesName, BlocksName, Names
<1>7. \A w \in Workers : LocalSlots([b \in Blocks |-> 0], w)
  BY Zenon, <1>4 DEF LocalSlots
<1>8. QED
  BY Zenon, <1>3, <1>5, <1>6, <1>7 DEF File

(* Two file blocks have one slot only if they are the same.                *)
LEMMA SlotsDiffer ==
    ASSUME NEW i \in Inodes, NEW j \in Inodes, NEW f \in FileBlocks, NEW g \in FileBlocks,
           DataSlot(i, f) = DataSlot(j, g)
    PROVE  i = j /\ f = g
<1>1. i = j /\ (Direct(f) <=> Direct(g)) /\ (Indirect(f) <=> Indirect(g))
  BY Zenon DEF DataSlot, Slot
<1>2. f \in Int /\ g \in Int
  BY SabfsFileAssumption
<1>3. CASE Direct(f)
  BY Zenon, <1>1, <1>3 DEF DataSlot, Slot
<1>4. CASE ~Direct(f) /\ Indirect(f)
  <2>1. f - DirectBlocks = g - DirectBlocks
    BY Zenon, <1>1, <1>4 DEF DataSlot, Slot, IndirectIdx
  <2>2. QED
    BY <1>1, <1>2, <2>1, SabfsFileAssumption
<1>5. CASE ~Direct(f) /\ ~Indirect(f)
  <2>1. L1(f) = L1(g) /\ L2(f) = L2(g)
    BY Zenon, <1>1, <1>5 DEF DataSlot, Slot
  <2>2. DoubleIdx(f) \in Nat /\ DoubleIdx(g) \in Nat
    BY <1>1, <1>2, <1>5, SabfsFileAssumption DEF Direct, Indirect, DoubleIdx
  <2>3. DoubleIdx(f) = DoubleIdx(g)
    <3>1. /\ DoubleIdx(f) = PtrsPerBlock * L1(f) + L2(f)
          /\ DoubleIdx(g) = PtrsPerBlock * L1(g) + L2(g)
      BY Zenon, <2>2, DivMod, SabfsFileAssumption DEF L1, L2
    <3>2. QED
      BY Zenon, <2>1, <3>1
  <2>4. QED
    BY <1>1, <1>2, <2>3, SabfsFileAssumption DEF DoubleIdx
<1>6. QED
  BY Zenon, <1>3, <1>4, <1>5

(* No block holds the data of two file blocks, and none that holds data is *)
(* followed as a pointer block.                                            *)
LEMMA FilesApart ==
    ASSUME ListOK, NEW slot, File(slot)
    PROVE  NoCrossLink
<1> SUFFICES /\ \A p, q \in Places : p # q => getBlockNum(p[1], p[2]) # getBlockNum(q[1], q[2])
             /\ DataBlocks \intersect PointerBlocks = {}
  BY Zenon DEF NoCrossLink
<1>1. published \subseteq Blocks
  BY Zenon, ListFacts
<1>3. \A p \in Places : /\ p[1] \in Inodes /\ p[2] \in FileBlocks /\ p = <<p[1], p[2]>>
                        /\ HasSlot(slot, getBlockNum(p[1], p[2]), DataSlot(p[1], p[2]))
  BY <1>1, MappedSlot DEF Places, File
<1>4. ASSUME NEW p \in Places, NEW q \in Places, getBlockNum(p[1], p[2]) = getBlockNum(q[1], q[2])
      PROVE  p = q
  <2>1. DataSlot(p[1], p[2]) = DataSlot(q[1], q[2])
    BY Zenon, <1>3, <1>4 DEF HasSlot
  <2>2. p[1] = q[1] /\ p[2] = q[2]
    BY <1>3, <2>1, SlotsDiffer
  <2>3. QED
    BY Zenon, <1>3, <2>2
<1>5. \A b \in DataBlocks : slot[b][1] \in {"direct", "ptr", "l2"}
  <2>1. \A i, f : DataSlot(i, f)[1] \in {"direct", "ptr", "l2"}
    BY Zenon DEF DataSlot, Slot
  <2>2. QED
    BY <1>3, <2>1 DEF DataBlocks, HasSlot
<1>6. \A b \in PointerBlocks : slot[b][1] \in {"ind", "dbl", "l1"}
  <2>1. ASSUME NEW i \in Inodes
        PROVE  /\ inode[i].indirect # 0 => slot[inode[i].indirect][1] = "ind"
               /\ inode[i].doubleIndirect # 0 => slot[inode[i].doubleIndirect][1] = "dbl"
               /\ \A k \in FL!Index :
                    /\ inode[i].doubleIndirect # 0
                    /\ words[inode[i].doubleIndirect][k] # 0
                    => slot[words[inode[i].doubleIndirect][k]][1] = "l1"
    <3>0. InodesName(published, inode, slot) /\ BlocksName(published, words, slot)
      BY Zenon DEF File, Tree
    <3>1. /\ inode[i].indirect # 0 => slot[inode[i].indirect] = Slot("ind", i, 0, 0)
          /\ inode[i].doubleIndirect # 0 =>
               inode[i].doubleIndirect \in published /\ slot[inode[i].doubleIndirect] = Slot("dbl", i, 0, 0)
      BY Zenon, <3>0 DEF InodesName, Names
    <3>2. ASSUME NEW k \in FL!Index, inode[i].doubleIndirect # 0, words[inode[i].doubleIndirect][k] # 0
          PROVE  slot[words[inode[i].doubleIndirect][k]] = Slot("l1", i, k, 0)
      BY Zenon, <3>0, <3>1, <3>2 DEF BlocksName, Names, Index
    <3>3. \A k : /\ Slot("ind", i, 0, 0)[1] = "ind" /\ Slot("dbl", i, 0, 0)[1] = "dbl"
                 /\ Slot("l1", i, k, 0)[1] = "l1"
      BY Zenon DEF Slot
    <3>4. QED
      BY Zenon, <3>1, <3>2, <3>3
  <2>2. QED
    BY <2>1 DEF PointerBlocks
<1>7. QED
  BY Zenon, <1>4, <1>5, <1>6
=============================================================================
