-------------------------- MODULE SabfsFileProofs ---------------------------
(***************************************************************************)
(* Theorems about the block maps of files, for any number of workers,      *)
(* files and blocks.  The first sections add to SabfsFileSteps what holds  *)
(* when no file has two writers.  The allocator is not proved again: its   *)
(* invariant is cited from FreeListProofs in the last section.             *)
(***************************************************************************)
EXTENDS SabfsFileSteps

(* What holds besides when no file has two writers: nothing in SABFS       *)
(* enforces that, it is a condition on its use.                            *)
OneWriter ==
    \A w, v \in Workers, i \in Inodes, f, g \in FileBlocks :
        <<w, i, f>> \in MayWrite /\ <<v, i, g>> \in MayWrite => w = v

(* Then a pointer is only ever stored where there was none, so that every  *)
(* published block is still found where its slot is.                       *)
InPlace(slot) ==
    \A b \in published :
      \/ \E i \in Inodes, f \in FileBlocks : slot[b] = DataSlot(i, f) /\ getBlockNum(i, f) = b
      \/ \E i \in Inodes : slot[b] = Slot("ind", i, 0, 0) /\ inode[i].indirect = b
      \/ \E i \in Inodes : slot[b] = Slot("dbl", i, 0, 0) /\ inode[i].doubleIndirect = b
      \/ \E i \in Inodes, k \in Index :
           /\ slot[b] = Slot("l1", i, k, 0)
           /\ inode[i].doubleIndirect # 0 /\ words[inode[i].doubleIndirect][k] = b

DoneInPlace(slot) ==
    \A d \in done : d[1] \in Inodes /\ d[2] \in FileBlocks /\ HasSlot(slot, d[3], DataSlot(d[1], d[2]))

(* What a worker has read is still so when it stores.                      *)
StillSo(w) ==
    /\ at[w] \in {"new", "map", "ind", "indset", "dbl", "dblset", "l1read", "l1", "l1set", "ptr"} =>
         getBlockNum(ino(w), fb(w)) = -1
    /\ at[w] \in {"ind", "indset"} => inode[ino(w)].indirect = 0
    /\ at[w] \in {"dbl", "dblset"} => inode[ino(w)].doubleIndirect = 0
    /\ at[w] \in {"l1", "l1set"} => words[loc[w].indirect][L1(fb(w))] = 0
    /\ at[w] = "add" => loc[w].blocks = inode[ino(w)].blocks

(* INO_BLOCKS is behind by the block that its writer is about to count.    *)
Counting(w) == at[w] \in {"count", "add"}
Behind(i)   == IF \E w \in Workers : Counting(w) /\ ino(w) = i THEN 1 ELSE 0
Mapped(i)   == {f \in FileBlocks : getBlockNum(i, f) # -1}
Counted(i)  == inode[i].blocks + Behind(i) = Cardinality(Mapped(i))

Single(slot) ==
    /\ InPlace(slot) /\ DoneInPlace(slot)
    /\ \A w \in Workers : StillSo(w)
    /\ \A i \in Inodes : Counted(i)

(* The writer of a file is the only worker at work on it.                  *)
LEMMA OthersElsewhere ==
    ASSUME OneWriter, NEW w \in Workers, NEW v \in Workers \ {w}, Control(w), Control(v),
           at[w] # "idle", at[v] # "idle"
    PROVE  ino(v) # ino(w)
BY Zenon DEF OneWriter, Control

(* The double indirect block and the second-level blocks that an inode     *)
(* names are published, with their slots.                                  *)
LEMMA TreeFacts ==
    ASSUME NEW slot, Tree(slot), NEW i \in Inodes
    PROVE  /\ inode[i].indirect # 0 => HasSlot(slot, inode[i].indirect, Slot("ind", i, 0, 0))
           /\ inode[i].doubleIndirect # 0 => HasSlot(slot, inode[i].doubleIndirect, Slot("dbl", i, 0, 0))
           /\ \A k \in Index :
                inode[i].doubleIndirect # 0 /\ words[inode[i].doubleIndirect][k] # 0 =>
                  HasSlot(slot, words[inode[i].doubleIndirect][k], Slot("l1", i, k, 0))
<1>1. /\ inode[i].indirect # 0 => HasSlot(slot, inode[i].indirect, Slot("ind", i, 0, 0))
      /\ inode[i].doubleIndirect # 0 => HasSlot(slot, inode[i].doubleIndirect, Slot("dbl", i, 0, 0))
  BY Zenon DEF Tree, InodesName, Names, HasSlot
<1>2. QED
  BY Zenon, <1>1 DEF Tree, BlocksName, Names, HasSlot

(* What getBlockNum(i, f) is computed from.                                *)
LEMMA BlockNum ==
    ASSUME NEW i, NEW f
    PROVE  LET I == inode[i]
               c == IF I.doubleIndirect = 0 THEN 0 ELSE words[I.doubleIndirect][L1(f)]
           IN  /\ Direct(f) => getBlockNum(i, f) = IF I.direct[f] = 0 THEN -1 ELSE I.direct[f]
               /\ ~Direct(f) /\ Indirect(f) =>
                    getBlockNum(i, f) = IF I.indirect = 0 \/ words[I.indirect][IndirectIdx(f)] = 0 THEN -1
                                        ELSE words[I.indirect][IndirectIdx(f)]
               /\ ~Direct(f) /\ ~Indirect(f) =>
                    getBlockNum(i, f) = IF c = 0 \/ words[c][L2(f)] = 0 THEN -1 ELSE words[c][L2(f)]
BY Zenon DEF getBlockNum

(* A step that changes neither the pointers of file i nor the words of its *)
(* pointer blocks leaves its block map as it is.                           *)
FileKept(i) ==
    /\ \A f \in FileBlocks : getBlockNum(i, f)' = getBlockNum(i, f)
    /\ inode'[i].indirect = inode[i].indirect /\ inode'[i].doubleIndirect = inode[i].doubleIndirect
    /\ inode[i].doubleIndirect # 0 =>
         \A k \in Index : words'[inode[i].doubleIndirect][k] = words[inode[i].doubleIndirect][k]

(* It is kept when no word of a block with one of its slots changes.       *)
LEMMA KeptFile ==
    ASSUME NEW slot, Tree(slot), NEW i \in Inodes,
           inode'[i].direct = inode[i].direct,
           inode'[i].indirect = inode[i].indirect,
           inode'[i].doubleIndirect = inode[i].doubleIndirect,
           \A b \in published, k \in Index :
             \/ slot[b] = Slot("ind", i, 0, 0) \/ slot[b] = Slot("dbl", i, 0, 0)
             \/ \E x \in Index : slot[b] = Slot("l1", i, x, 0)
             => words'[b][k] = words[b][k]
    PROVE  FileKept(i)
<1>1. inode[i].indirect # 0 =>
        \A k \in Index : words'[inode[i].indirect][k] = words[inode[i].indirect][k]
  BY Zenon, TreeFacts DEF HasSlot
<1>2. inode[i].doubleIndirect # 0 =>
        \A k \in Index : words'[inode[i].doubleIndirect][k] = words[inode[i].doubleIndirect][k]
  BY Zenon, TreeFacts DEF HasSlot
<1>3. ASSUME NEW f \in FileBlocks PROVE getBlockNum(i, f)' = getBlockNum(i, f)
  <2>1. CASE Direct(f)
    BY <2>1 DEF getBlockNum, Direct
  <2>2. CASE ~Direct(f) /\ Indirect(f)
    BY Zenon, <2>2, <1>1, Geometry DEF getBlockNum, Direct, Indirect, IndirectIdx
  <2>3. CASE ~Direct(f) /\ ~Indirect(f)
    <3>1. PICK x \in Index, y \in Index : x = L1(f) /\ y = L2(f)
      BY Zenon, <2>3, Geometry
    <3>2. PICK c : c = IF inode[i].doubleIndirect = 0 THEN 0 ELSE words[inode[i].doubleIndirect][x]
      BY Zenon
    <3>3. c = IF inode'[i].doubleIndirect = 0 THEN 0 ELSE words'[inode'[i].doubleIndirect][x]
      BY Zenon, <3>1, <3>2, <1>2
    <3>4. c # 0 => HasSlot(slot, c, Slot("l1", i, x, 0))
      BY Zenon, <3>1, <3>2, TreeFacts
    <3>5. c # 0 => words'[c][y] = words[c][y]
      BY Zenon, <3>1, <3>4 DEF HasSlot
    <3>6. getBlockNum(i, f) = IF c = 0 \/ words[c][y] = 0 THEN -1 ELSE words[c][y]
      BY Zenon, <2>3, <3>1, <3>2, BlockNum
    <3>7. getBlockNum(i, f)' = IF c = 0 \/ words'[c][y] = 0 THEN -1 ELSE words'[c][y]
      BY Zenon, <2>3, <3>1, <3>3 DEF getBlockNum, Direct, Indirect, L1, L2, DoubleIdx
    <3>8. QED
      BY <3>5, <3>6, <3>7
  <2>4. QED
    BY Zenon, <2>1, <2>2, <2>3
<1>4. QED
  BY Zenon, <1>2, <1>3 DEF FileKept

(* The block with the slot of an inode's double indirect block is the one  *)
(* that the inode names.                                                   *)
LEMMA DoubleInPlace ==
    ASSUME ListOK, NEW slot, InPlace(slot), NEW b, NEW i \in Inodes, HasSlot(slot, b, Slot("dbl", i, 0, 0))
    PROVE  inode[i].doubleIndirect = b /\ b # 0
<1>1. b # 0
  BY ListFacts, ConstantFacts DEF HasSlot
<1>2. \A j, f : Slot("dbl", i, 0, 0) # DataSlot(j, f)
  BY Zenon DEF DataSlot, Slot
<1>3. \A j, k : Slot("dbl", i, 0, 0) # Slot("ind", j, 0, 0) /\ Slot("dbl", i, 0, 0) # Slot("l1", j, k, 0)
  BY Zenon DEF Slot
<1>4. \A j : Slot("dbl", i, 0, 0) = Slot("dbl", j, 0, 0) => i = j
  BY Zenon DEF Slot
<1>5. b \in published /\ slot[b] = Slot("dbl", i, 0, 0)
  BY Zenon DEF HasSlot
<1>6. \/ \E j \in Inodes, f \in FileBlocks : slot[b] = DataSlot(j, f) /\ getBlockNum(j, f) = b
      \/ \E j \in Inodes : slot[b] = Slot("ind", j, 0, 0) /\ inode[j].indirect = b
      \/ \E j \in Inodes : slot[b] = Slot("dbl", j, 0, 0) /\ inode[j].doubleIndirect = b
      \/ \E j \in Inodes, k \in Index :
           /\ slot[b] = Slot("l1", j, k, 0)
           /\ inode[j].doubleIndirect # 0 /\ words[inode[j].doubleIndirect][k] = b
  BY Zenon, <1>5 DEF InPlace
<1>. HIDE DEF Slot, DataSlot
<1>7. PICK j \in Inodes : slot[b] = Slot("dbl", j, 0, 0) /\ inode[j].doubleIndirect = b
  BY Zenon, <1>2, <1>3, <1>5, <1>6
<1>8. QED
  BY Zenon, <1>1, <1>4, <1>5, <1>7

(* A step that only adds pointers to file i.                               *)
FileGrows(i) ==
    /\ \A f \in FileBlocks : getBlockNum(i, f) # -1 => getBlockNum(i, f)' = getBlockNum(i, f)
    /\ inode[i].indirect # 0 => inode'[i].indirect = inode[i].indirect
    /\ inode[i].doubleIndirect # 0 =>
         /\ inode'[i].doubleIndirect = inode[i].doubleIndirect
         /\ \A k \in Index : words[inode[i].doubleIndirect][k] # 0 =>
              words'[inode[i].doubleIndirect][k] = words[inode[i].doubleIndirect][k]

(* Then a block stays in place, if it was.                                 *)
LEMMA StaysInPlace ==
    ASSUME \A i \in Inodes : FileGrows(i), NEW slot, InPlace(slot), NEW b \in published, b # 0, b # -1
    PROVE  \/ \E i \in Inodes, f \in FileBlocks : slot[b] = DataSlot(i, f) /\ getBlockNum(i, f)' = b
           \/ \E i \in Inodes : slot[b] = Slot("ind", i, 0, 0) /\ inode'[i].indirect = b
           \/ \E i \in Inodes : slot[b] = Slot("dbl", i, 0, 0) /\ inode'[i].doubleIndirect = b
           \/ \E i \in Inodes, k \in Index :
                /\ slot[b] = Slot("l1", i, k, 0)
                /\ inode'[i].doubleIndirect # 0 /\ words'[inode'[i].doubleIndirect][k] = b
<1>1. CASE \E i \in Inodes, f \in FileBlocks : slot[b] = DataSlot(i, f) /\ getBlockNum(i, f) = b
  BY <1>1 DEF FileGrows
<1>2. CASE \E i \in Inodes : slot[b] = Slot("ind", i, 0, 0) /\ inode[i].indirect = b
  BY Zenon, <1>2 DEF FileGrows
<1>3. CASE \E i \in Inodes : slot[b] = Slot("dbl", i, 0, 0) /\ inode[i].doubleIndirect = b
  BY Zenon, <1>3 DEF FileGrows
<1>4. CASE \E i \in Inodes, k \in Index :
             /\ slot[b] = Slot("l1", i, k, 0)
             /\ inode[i].doubleIndirect # 0 /\ words[inode[i].doubleIndirect][k] = b
  BY <1>4 DEF FileGrows
<1>5. QED
  BY Zenon, <1>1, <1>2, <1>3, <1>4 DEF InPlace

(* All blocks stay in place when a step publishes none.                    *)
LEMMA InPlaceKept ==
    ASSUME \A i \in Inodes : FileGrows(i), NEW slot, InPlace(slot), ListOK, published' = published
    PROVE  InPlace(slot)'
<1>1. \A b \in published : b # 0 /\ b # -1
  BY ListFacts, ConstantFacts
<1>2. QED
  BY <1>1, StaysInPlace DEF InPlace, Index

(* And when it publishes one, in its place.                                *)
LEMMA InPlaceGrows ==
    ASSUME \A i \in Inodes : FileGrows(i), NEW slot, NEW slot2, NEW b, NEW s, InPlace(slot), ListOK,
           Publishes(slot, slot2, b, s),
           \/ \E i \in Inodes, f \in FileBlocks : s = DataSlot(i, f) /\ getBlockNum(i, f)' = b
           \/ \E i \in Inodes : s = Slot("ind", i, 0, 0) /\ inode'[i].indirect = b
           \/ \E i \in Inodes : s = Slot("dbl", i, 0, 0) /\ inode'[i].doubleIndirect = b
           \/ \E i \in Inodes, k \in Index :
                /\ s = Slot("l1", i, k, 0)
                /\ inode'[i].doubleIndirect # 0 /\ words'[inode'[i].doubleIndirect][k] = b
    PROVE  InPlace(slot2)'
<1>1. \A x \in published : x # 0 /\ x # -1
  BY ListFacts, ConstantFacts
<1>2. published' = published \union {b} /\ slot2[b] = s /\ \A x \in published : slot2[x] = slot[x]
  BY Zenon DEF Publishes
<1> DEFINE There(x) ==
      \/ \E i \in Inodes, f \in FileBlocks : slot2[x] = DataSlot(i, f) /\ getBlockNum(i, f)' = x
      \/ \E i \in Inodes : slot2[x] = Slot("ind", i, 0, 0) /\ inode'[i].indirect = x
      \/ \E i \in Inodes : slot2[x] = Slot("dbl", i, 0, 0) /\ inode'[i].doubleIndirect = x
      \/ \E i \in Inodes, k \in Index :
           /\ slot2[x] = Slot("l1", i, k, 0)
           /\ inode'[i].doubleIndirect # 0 /\ words'[inode'[i].doubleIndirect][k] = x
<1>3. \A x \in published : There(x)
  BY <1>1, <1>2, StaysInPlace
<1>4. There(b)
  BY Zenon, <1>2
<1>5. \A x \in published' : There(x)
  BY <1>2, <1>3, <1>4
<1>6. QED
  BY Zenon, <1>5 DEF InPlace, Index

(* Finished writes stay where they are with the slots.                     *)
LEMMA DoneKept ==
    ASSUME NEW slot, NEW slot2, DoneInPlace(slot), done' = done, published \subseteq published',
           \A b \in published : slot2[b] = slot[b]
    PROVE  DoneInPlace(slot2)'
BY Zenon DEF DoneInPlace, HasSlot

(* What another worker has read of a file that is kept is still so.        *)
LEMMA OthersStillSo ==
    ASSUME ListOK, NEW slot, File(slot), InPlace(slot), NEW w, Frame(w), NEW v \in Workers \ {w}, StillSo(v),
           at[v] # "idle" => FileKept(ino(v)) /\ inode'[ino(v)].blocks = inode[ino(v)].blocks
    PROVE  StillSo(v)'
<1>0. at'[v] = at[v] /\ loc'[v] = loc[v] /\ job'[v] = job[v] /\ ino(v)' = ino(v) /\ fb(v)' = fb(v)
  BY Zenon DEF Frame, ino, fb
<1>1. CASE at[v] = "idle"
  BY Zenon, <1>0, <1>1 DEF StillSo
<1>2. CASE at[v] # "idle"
  <2>1. PICK i \in Inodes : i = ino(v)
    BY Zenon, <1>2 DEF File, Mine, Control
  <2>2. PICK f \in FileBlocks : f = fb(v)
    BY Zenon, <1>2 DEF File, Mine, Control
  <2>3. FileKept(i) /\ inode'[i].blocks = inode[i].blocks
    BY Zenon, <1>2, <2>1
  <2>4. getBlockNum(ino(v), fb(v))' = getBlockNum(i, f)
    <3>1. getBlockNum(i, f)' = getBlockNum(i, f)
      BY Zenon, <2>3 DEF FileKept
    <3>2. getBlockNum(ino(v), fb(v))' = getBlockNum(i, f)'
      BY <1>0, <2>1, <2>2 DEF getBlockNum, Direct, Indirect, IndirectIdx, L1, L2, DoubleIdx
    <3>3. QED
      BY Zenon, <3>1, <3>2
  <2>5. at[v] \in {"l1", "l1set"} => words'[loc[v].indirect][L1(f)] = words[loc[v].indirect][L1(f)]
    <3> SUFFICES ASSUME at[v] \in {"l1", "l1set"}
                 PROVE  words'[loc[v].indirect][L1(f)] = words[loc[v].indirect][L1(f)]
      BY Zenon
    <3>1. HasSlot(slot, loc[v].indirect, Slot("dbl", i, 0, 0)) /\ L1(f) \in Index
      BY Zenon, <2>1, <2>2, Geometry DEF File, LocalSlots, Mine, Control
    <3>2. loc[v].indirect = inode[i].doubleIndirect /\ loc[v].indirect # 0
      BY ZenonT(30), <3>1, DoubleInPlace DEF File
    <3>3. QED
      BY Zenon, <3>1, <3>2, <2>3 DEF FileKept
  <2>6. L1(fb(v))' = L1(f)
    BY Zenon, <1>0, <2>2 DEF L1, DoubleIdx
  <2>7. QED
    BY Zenon, <1>0, <2>1, <2>2, <2>3, <2>4, <2>5, <2>6 DEF StillSo, FileKept
<1>3. QED
  BY Zenon, <1>1, <1>2

-----------------------------------------------------------------------------
(* A file that is kept only grows, and keeps its mapped blocks.            *)
LEMMA KeptGrows ==
    ASSUME NEW i, FileKept(i)
    PROVE  FileGrows(i) /\ Mapped(i)' = Mapped(i)
BY Zenon DEF FileKept, FileGrows, Mapped

(* Without a pointer changed, every file is kept.                          *)
LEMMA AllKept ==
    ASSUME NEW slot, Tree(slot), SamePointers(slot), NEW i \in Inodes
    PROVE  FileKept(i)
<1>1. \A x \in Index : /\ Slot("ind", i, 0, 0)[1] = "ind" /\ Slot("dbl", i, 0, 0)[1] = "dbl"
                       /\ Slot("l1", i, x, 0)[1] = "l1"
  BY Zenon DEF Slot
<1>2. ASSUME NEW b \in published, NEW k \in Index,
             \/ slot[b] = Slot("ind", i, 0, 0) \/ slot[b] = Slot("dbl", i, 0, 0)
             \/ \E x \in Index : slot[b] = Slot("l1", i, x, 0)
      PROVE  words'[b][k] = words[b][k]
  BY Zenon, <1>1, <1>2 DEF SamePointers
<1>3. QED
  BY <1>2, KeptFile DEF SamePointers

(* Together: a step of w that leaves the inodes as they are.               *)
LEMMA QuietSingle ==
    ASSUME ListOK, NEW slot, File(slot), Single(slot), NEW w \in Workers, Frame(w), SamePointers(slot),
           inode' = inode, StillSo(w)',
           Counting(w)' <=> Counting(w), Counting(w) => ino(w)' = ino(w),
           \/ done' = done
           \/ at[w] = "data" /\ done' = done \union {<<ino(w), fb(w), loc[w].newBlock>>}
    PROVE  Single(slot)'
<1>1. \A i \in Inodes : FileKept(i)
  BY Zenon, AllKept DEF File
<1>2. InPlace(slot)'
  BY Zenon, <1>1, KeptGrows, InPlaceKept DEF Single, SamePointers
<1>3. DoneInPlace(slot)'
  <2>1. CASE done' = done
    BY Zenon, <2>1, DoneKept DEF Single, SamePointers
  <2>2. CASE at[w] = "data" /\ done' = done \union {<<ino(w), fb(w), loc[w].newBlock>>}
    <3>0. PICK b : b = loc[w].newBlock
      BY Zenon
    <3>1. PICK i \in Inodes, f \in FileBlocks : i = ino(w) /\ f = fb(w)
      BY Zenon, <2>2 DEF File, Mine, Control
    <3>2. HasSlot(slot, b, DataSlot(i, f))
      BY Zenon, <2>2, <3>0, <3>1 DEF File, LocalSlots
    <3>3. done' = done \union {<<i, f, b>>} /\ published' = published
      BY Zenon, <2>2, <3>0, <3>1 DEF SamePointers
    <3>4. QED
      BY <3>2, <3>3 DEF Single, DoneInPlace, HasSlot
  <2>3. QED
    BY Zenon, <2>1, <2>2
<1>4. \A v \in Workers \ {w} : StillSo(v)'
  <2> SUFFICES ASSUME NEW v \in Workers \ {w} PROVE StillSo(v)'
    BY Zenon
  <2>1. at[v] # "idle" => ino(v) \in Inodes
    BY Zenon DEF File, Mine, Control
  <2>2. at[v] # "idle" => FileKept(ino(v)) /\ inode'[ino(v)].blocks = inode[ino(v)].blocks
    <3>1. PICK i : i = ino(v)
      BY Zenon
    <3>2. QED
      BY Zenon, <1>1, <2>1
  <2>3. QED
    BY Zenon, <2>2, OthersStillSo DEF Single
<1>5. \A v \in Workers : /\ Counting(v)' <=> Counting(v)
                         /\ Counting(v) => ino(v)' = ino(v)
  BY Zenon DEF Frame, Counting, ino
<1>6. \A i \in Inodes : Counted(i)'
  <2> SUFFICES ASSUME NEW i \in Inodes PROVE Counted(i)'
    BY Zenon
  <2>1. Behind(i)' = Behind(i)
    BY Zenon, <1>5 DEF Behind
  <2>2. Mapped(i)' = Mapped(i)
    BY Zenon, <1>1, KeptGrows
  <2>3. QED
    BY Zenon, <2>1, <2>2 DEF Single, Counted
<1>7. QED
  BY Zenon, <1>2, <1>3, <1>4, <1>6 DEF Single

(* INO_BLOCKS catches up.                                                  *)
LEMMA SetBlocksSingle ==
    ASSUME ListOK, OneWriter, NEW slot, File(slot), Single(slot), NEW w \in Workers, SetBlocks(w),
           Frame(w), SamePointers(slot)
    PROVE  Single(slot)'
<1>0. Mine(w) /\ FileTypes
  BY Zenon DEF File
<1>1. PICK i \in Inodes : i = ino(w)
  BY Zenon, <1>0 DEF SetBlocks, GoAt, Mine, Control
<1>2. /\ at[w] = "add" /\ at' = [at EXCEPT ![w] = "data"] /\ UNCHANGED <<job, loc, done>>
      /\ inode' = [inode EXCEPT ![i].blocks = loc[w].blocks + 1]
  BY Zenon, <1>1 DEF SetBlocks, GoAt
<1>3. \A j \in Inodes : FileKept(j)
  BY Zenon, AllKept DEF File
<1>4. InPlace(slot)' /\ DoneInPlace(slot)'
  BY Zenon, <1>2, <1>3, KeptGrows, InPlaceKept, DoneKept DEF Single, SamePointers
<1>5. /\ at'[w] = "data"
      /\ inode'[i].blocks = loc[w].blocks + 1
      /\ \A j \in Inodes : j # i => inode'[j].blocks = inode[j].blocks
  BY Zenon, <1>0, <1>2 DEF FileTypes
<1>6. StillSo(w)'
  BY Zenon, <1>5 DEF StillSo
<1>7. \A v \in Workers \ {w} : at[v] # "idle" => ino(v) # i
  BY Zenon, <1>1, <1>2, OthersElsewhere DEF File, Mine
<1>8. \A v \in Workers \ {w} : StillSo(v)'
  <2> SUFFICES ASSUME NEW v \in Workers \ {w} PROVE StillSo(v)'
    BY Zenon
  <2>1. at[v] # "idle" => ino(v) \in Inodes
    BY Zenon DEF File, Mine, Control
  <2>2. at[v] # "idle" => FileKept(ino(v)) /\ inode'[ino(v)].blocks = inode[ino(v)].blocks
    BY Zenon, <1>3, <1>5, <1>7, <2>1
  <2>3. QED
    BY Zenon, <2>2, OthersStillSo DEF Single
<1>9. \A j \in Inodes : Counted(j)'
  <2> SUFFICES ASSUME NEW j \in Inodes PROVE Counted(j)'
    BY Zenon
  <2>1. Mapped(j)' = Mapped(j)
    BY Zenon, <1>3, KeptGrows
  <2>2. \A v \in Workers : ino(v)' = ino(v) /\ (v # w => (Counting(v)' <=> Counting(v)))
    BY Zenon, <1>2 DEF Frame, ino, Counting
  <2>3. Counting(w) /\ ~Counting(w)'
    BY Zenon, <1>2, <1>5 DEF Counting
  <2>4. CASE j = i
    <3>1. Behind(j) = 1
      BY Zenon, <2>3, <2>4, <1>1 DEF Behind
    <3>2. \A v \in Workers \ {w} : Counting(v) => ino(v) # i
      BY Zenon, <1>7 DEF Counting
    <3>3. Behind(j)' = 0
      BY Zenon, <2>2, <2>3, <2>4, <1>1, <3>2 DEF Behind
    <3>4. inode[i].blocks \in Nat /\ loc[w].blocks = inode[i].blocks
      BY Zenon, <1>0, <1>1, <1>2 DEF FileTypes, Single, StillSo
    <3>5. QED
      BY <2>1, <2>4, <3>1, <3>3, <3>4, <1>5 DEF Single, Counted
  <2>5. CASE j # i
    <3>1. Behind(j)' = Behind(j)
      BY Zenon, <2>2, <2>3, <2>5, <1>1 DEF Behind
    <3>2. QED
      BY Zenon, <2>1, <2>5, <3>1, <1>5 DEF Single, Counted
  <2>6. QED
    BY Zenon, <2>4, <2>5
<1>10. QED
  BY Zenon, <1>4, <1>6, <1>8, <1>9 DEF Single

(* A worker that goes on with the same file block and the same locals has  *)
(* still read what it had read, and may have read one thing more.          *)
LEMMA SameJobStillSo ==
    ASSUME ListOK, NEW slot, File(slot), Single(slot), NEW w \in Workers, SamePointers(slot), inode' = inode,
           job'[w] = job[w], at[w] # "idle",
           at'[w] \in {"map", "l1read", "ptr", "new", "ind", "indset", "dbl", "dblset", "l1", "l1set"} =>
             at[w] \in {"map", "l1read", "ptr", "new", "ind", "indset", "dbl", "dblset", "l1", "l1set"},
           at'[w] \in {"ind", "indset"} => at[w] \in {"ind", "indset"} \/ inode[ino(w)].indirect = 0,
           at'[w] \in {"dbl", "dblset"} => at[w] \in {"dbl", "dblset"} \/ inode[ino(w)].doubleIndirect = 0,
           at'[w] \in {"l1", "l1set"} =>
             /\ at[w] \in {"l1read", "l1", "l1set"}
             /\ loc'[w].indirect = loc[w].indirect
             /\ at[w] \in {"l1", "l1set"} \/ words[loc[w].indirect][L1(fb(w))] = 0,
           at'[w] = "add" => loc'[w].blocks = inode[ino(w)].blocks
    PROVE  StillSo(w)'
<1>0. ino(w)' = ino(w) /\ fb(w)' = fb(w)
  BY Zenon DEF ino, fb
<1>1. PICK i \in Inodes, f \in FileBlocks : i = ino(w) /\ f = fb(w)
  BY Zenon DEF File, Mine, Control
<1>2. FileKept(i) /\ StillSo(w)
  BY Zenon, AllKept DEF File, Single
<1>3. getBlockNum(ino(w), fb(w))' = getBlockNum(i, f)
  <2>1. getBlockNum(i, f)' = getBlockNum(i, f)
    BY Zenon, <1>2 DEF FileKept
  <2>2. getBlockNum(ino(w), fb(w))' = getBlockNum(i, f)'
    BY Zenon, <1>0, <1>1 DEF getBlockNum, Direct, Indirect, IndirectIdx, L1, L2, DoubleIdx
  <2>3. QED
    BY Zenon, <2>1, <2>2
<1>4. at'[w] \in {"l1", "l1set"} => words'[loc[w].indirect][L1(f)] = words[loc[w].indirect][L1(f)]
  <2> SUFFICES ASSUME at[w] \in {"l1read", "l1", "l1set"}
               PROVE  words'[loc[w].indirect][L1(f)] = words[loc[w].indirect][L1(f)]
    BY Zenon
  <2>1. HasSlot(slot, loc[w].indirect, Slot("dbl", i, 0, 0)) /\ L1(f) \in Index
    BY Zenon, <1>1, Geometry DEF File, LocalSlots, Mine, Control
  <2>2. loc[w].indirect = inode[i].doubleIndirect /\ loc[w].indirect # 0
    BY Zenon, <2>1, DoubleInPlace DEF Single
  <2>3. QED
    BY Zenon, <2>1, <2>2, <1>2 DEF FileKept
<1>5. L1(fb(w))' = L1(f)
  BY Zenon, <1>0, <1>1 DEF L1, DoubleIdx
<1>6. QED
  BY Zenon, <1>0, <1>1, <1>2, <1>3, <1>4, <1>5 DEF StillSo

(* write() starts.                                                         *)
LEMMA WriteSingle ==
    ASSUME ListOK, NEW slot, File(slot), Single(slot), NEW w \in Workers, NEW i \in Inodes, NEW f \in FileBlocks,
           WriteMapped(w, i, f) \/ WriteHole(w, i, f)
    PROVE  Single(slot)'
<1>0. FileTypes /\ Tree(slot)
  BY Zenon DEF File
<1>1. Frame(w) /\ SamePointers(slot)
  BY Zenon, WriteMappedStep, WriteHoleStep
<1>2. /\ at[w] = "idle" /\ inode' = inode /\ done' = done
      /\ job' = [job EXCEPT ![w] = [ino |-> i, fb |-> f]]
      /\ \/ at' = [at EXCEPT ![w] = "data"]
         \/ at' = [at EXCEPT ![w] = "new"] /\ getBlockNum(i, f) = -1
  BY Zenon DEF WriteMapped, WriteHole, GoAt
<1>3. /\ ino(w)' = i /\ fb(w)' = f
      /\ at'[w] = "data" \/ (at'[w] = "new" /\ getBlockNum(i, f) = -1)
  BY Zenon, <1>0, <1>2 DEF FileTypes, ino, fb
<1>4. getBlockNum(ino(w), fb(w))' = getBlockNum(i, f)
  <2>1. getBlockNum(i, f)' = getBlockNum(i, f)
    BY Zenon, <1>0, <1>1, AllKept DEF FileKept
  <2>2. getBlockNum(ino(w), fb(w))' = getBlockNum(i, f)'
    BY Zenon, <1>3 DEF getBlockNum, Direct, Indirect, IndirectIdx, L1, L2, DoubleIdx
  <2>3. QED
    BY Zenon, <2>1, <2>2
<1>5. StillSo(w)'
  BY Zenon, <1>3, <1>4 DEF StillSo
<1>6. ~Counting(w) /\ ~Counting(w)'
  BY Zenon, <1>2, <1>3 DEF Counting
<1>7. QED
  BY Zenon, <1>1, <1>2, <1>5, <1>6, QuietSingle

(* The steps inside allocBlock and freeBlock, and their returns.           *)
LEMMA AllocatorSingle ==
    ASSUME ListOK, NEW slot, File(slot), Single(slot), NEW w \in Workers,
           ListStep(w) \/ AllocReturns(w) \/ AllocFails(w) \/ Undo(w) \/ UndoReturns(w)
    PROVE  Single(slot)'
<1>0. FileTypes /\ Control(w)
  BY Zenon DEF File, Mine
<1>1. Frame(w) /\ SamePointers(slot)
  BY Zenon, ListStepStep, AllocReturnsStep, AllocFailsStep, UndoStep, UndoReturnsStep
<1>2. inode' = inode /\ done' = done
  BY Zenon DEF ListStep, AllocReturns, AllocFails, Undo, UndoReturns, fileVars
<1>3. CASE ListStep(w)
  <2>1. at' = at /\ job' = job /\ loc' = loc
    BY Zenon, <1>3 DEF ListStep, fileVars
  <2>2. at[w] # "idle"
    BY Zenon, <1>0, <1>3 DEF Control, ListStep, FL!AllocLoad, FL!AllocNext, FL!AllocCas, FL!AllocRetry, FL!FreeLoad,
                      FL!FreeSet, FL!FreeRetry, FL!Goto
  <2>3. at[w] = "add" => loc[w].blocks = inode[ino(w)].blocks
    BY Zenon DEF Single, StillSo
  <2>4. StillSo(w)'
    BY Zenon, <1>1, <1>2, <2>1, <2>2, <2>3, SameJobStillSo DEF Single, StillSo
  <2>5. (Counting(w)' <=> Counting(w)) /\ ino(w)' = ino(w)
    BY Zenon, <2>1 DEF Counting, ino
  <2>6. QED
    BY Zenon, <1>1, <1>2, <2>4, <2>5, QuietSingle
<1>4. CASE AllocReturns(w)
  <2>1. /\ job' = job
        /\ \/ at[w] = "new" /\ at' = [at EXCEPT ![w] = "map"] /\ loc' = [loc EXCEPT ![w].newBlock = h[w]]
           \/ at[w] = "ind" /\ at' = [at EXCEPT ![w] = "indset"] /\ loc' = [loc EXCEPT ![w].indirect = h[w]]
           \/ at[w] = "dbl" /\ at' = [at EXCEPT ![w] = "dblset"] /\ loc' = [loc EXCEPT ![w].indirect = h[w]]
           \/ at[w] = "l1" /\ at' = [at EXCEPT ![w] = "l1set"] /\ loc' = [loc EXCEPT ![w].l1Ptr = h[w]]
    BY Zenon, <1>4 DEF AllocReturns, NewReturns, IndirectReturns, DoubleReturns, L1Returns, GoAt, SetLoc
  <2>2. \/ at[w] = "new" /\ at'[w] = "map"
        \/ at[w] = "ind" /\ at'[w] = "indset"
        \/ at[w] = "dbl" /\ at'[w] = "dblset"
        \/ at[w] = "l1" /\ at'[w] = "l1set" /\ loc'[w].indirect = loc[w].indirect
    BY <1>0, <2>1 DEF FileTypes, LocType
  <2>3. StillSo(w)'
    BY Zenon, <1>1, <1>2, <2>1, <2>2, SameJobStillSo
  <2>4. ~Counting(w)' /\ ~Counting(w)
    BY Zenon, <2>2 DEF Counting
  <2>5. QED
    BY Zenon, <1>1, <1>2, <2>3, <2>4, QuietSingle
<1>5. CASE AllocFails(w) \/ Undo(w) \/ UndoReturns(w)
  <2>1. at[w] \in {"new", "ind", "dbl", "l1", "undo", "undoing"}
    BY Zenon, <1>0, <1>5 DEF Control, FileTypes, AtValues, AllocFails, Undo, UndoReturns, GoAt,
                      FL!AllocEmpty, FL!Goto, FL!Leave
  <2>2. at'[w] \in {"idle", "undo", "undoing"}
    BY Zenon, <1>0, <1>5 DEF FileTypes, AllocFails, Undo, UndoReturns, GoAt
  <2>3. StillSo(w)'
    BY Zenon, <2>2 DEF StillSo
  <2>4. ~Counting(w)' /\ ~Counting(w)
    BY Zenon, <2>1, <2>2 DEF Counting
  <2>5. QED
    BY Zenon, <1>1, <1>2, <2>3, <2>4, QuietSingle
<1>6. QED
  BY Zenon, <1>3, <1>4, <1>5

(* A pointer is read.                                                      *)
LEMMA GetSingle ==
    ASSUME ListOK, NEW slot, File(slot), Single(slot), NEW w \in Workers,
           GetIndirect(w) \/ GetDouble(w) \/ GetL1(w)
    PROVE  Single(slot)'
<1>0. FileTypes
  BY Zenon DEF File
<1>1. Frame(w) /\ SamePointers(slot)
  BY Zenon, GetStep
<1>2. inode' = inode /\ done' = done /\ job' = job
  BY Zenon DEF GetIndirect, GetDouble, GetL1, UseOrAlloc
<1>3. \/ at[w] = "map" /\ at'[w] \in {"ptr", "l1read"}
      \/ at[w] = "map" /\ at'[w] = "ind" /\ inode[ino(w)].indirect = 0
      \/ at[w] = "map" /\ at'[w] = "dbl" /\ inode[ino(w)].doubleIndirect = 0
      \/ at[w] = "l1read" /\ at'[w] = "ptr"
      \/ at[w] = "l1read" /\ at'[w] = "l1" /\ words[loc[w].indirect][L1(fb(w))] = 0 /\ loc' = loc
  BY Zenon, <1>0 DEF FileTypes, GetIndirect, GetDouble, GetL1, UseOrAlloc
<1>4. StillSo(w)'
  BY Zenon, <1>1, <1>2, <1>3, SameJobStillSo
<1>5. ~Counting(w)' /\ ~Counting(w)
  BY Zenon, <1>3 DEF Counting
<1>6. QED
  BY Zenon, <1>1, <1>2, <1>4, <1>5, QuietSingle

(* INO_BLOCKS is read.                                                     *)
LEMMA ReadBlocksSingle ==
    ASSUME ListOK, NEW slot, File(slot), Single(slot), NEW w \in Workers, GetBlocks(w)
    PROVE  Single(slot)'
<1>0. FileTypes
  BY Zenon DEF File
<1>1. Frame(w) /\ SamePointers(slot)
  BY Zenon, CountStep
<1>2. /\ inode' = inode /\ done' = done /\ job' = job
      /\ at[w] = "count" /\ at'[w] = "add" /\ loc'[w].blocks = inode[ino(w)].blocks
  BY Zenon, <1>0 DEF FileTypes, LocType, GetBlocks, GoAt, SetLoc
<1>3. StillSo(w)'
  BY Zenon, <1>1, <1>2, SameJobStillSo
<1>4. Counting(w)' /\ Counting(w) /\ ino(w)' = ino(w)
  BY Zenon, <1>2 DEF Counting, ino
<1>5. QED
  BY Zenon, <1>1, <1>2, <1>3, <1>4, QuietSingle

(* The data is written.                                                    *)
LEMMA PutDataSingle ==
    ASSUME ListOK, NEW slot, File(slot), Single(slot), NEW w \in Workers, NEW k \in Index, NEW v \in Data,
           PutData(w, k, v)
    PROVE  Single(slot)'
<1>0. FileTypes
  BY Zenon DEF File
<1>1. Frame(w) /\ SamePointers(slot)
  BY Zenon, PutDataStep
<1>2. /\ inode' = inode /\ done' = done \union {<<ino(w), fb(w), loc[w].newBlock>>}
      /\ at[w] = "data" /\ at'[w] = "idle"
  BY Zenon, <1>0 DEF FileTypes, PutData, GoAt
<1>3. StillSo(w)' /\ ~Counting(w)' /\ ~Counting(w)
  BY Zenon, <1>2 DEF StillSo, Counting
<1>4. QED
  BY Zenon, <1>1, <1>2, <1>3, QuietSingle

-----------------------------------------------------------------------------
(* The blocks with the other slots are where their slots say, too.         *)
LEMMA IndirectInPlace ==
    ASSUME ListOK, NEW slot, InPlace(slot), NEW b, NEW i \in Inodes, HasSlot(slot, b, Slot("ind", i, 0, 0))
    PROVE  inode[i].indirect = b /\ b # 0
<1>1. b # 0
  BY ZenonT(30), ListFacts, ConstantFacts DEF HasSlot
<1>2. \A j, f : Slot("ind", i, 0, 0) # DataSlot(j, f)
  BY Zenon DEF DataSlot, Slot
<1>3. /\ \A j : Slot("ind", i, 0, 0) # Slot("dbl", j, 0, 0)
      /\ \A j, k : Slot("ind", i, 0, 0) # Slot("l1", j, k, 0)
  BY Zenon DEF Slot
<1>4. \A j : Slot("ind", i, 0, 0) = Slot("ind", j, 0, 0) => i = j
  BY Zenon DEF Slot
<1>5. b \in published /\ slot[b] = Slot("ind", i, 0, 0)
  BY Zenon DEF HasSlot
<1>6. \E j \in Inodes : slot[b] = Slot("ind", j, 0, 0) /\ inode[j].indirect = b
  BY <1>2, <1>3, <1>5 DEF InPlace
<1>7. QED
  BY Zenon, <1>1, <1>4, <1>5, <1>6

(* ... the second-level blocks in the double indirect block;               *)
LEMMA SecondInPlace ==
    ASSUME ListOK, NEW slot, InPlace(slot), NEW b, NEW i \in Inodes, NEW x, HasSlot(slot, b, Slot("l1", i, x, 0))
    PROVE  inode[i].doubleIndirect # 0 /\ words[inode[i].doubleIndirect][x] = b /\ b # 0
<1>1. b # 0
  BY ListFacts, ConstantFacts DEF HasSlot
<1>2. \A j, f : Slot("l1", i, x, 0) # DataSlot(j, f)
  BY Zenon DEF DataSlot, Slot
<1>3. \A j : Slot("l1", i, x, 0) # Slot("dbl", j, 0, 0) /\ Slot("l1", i, x, 0) # Slot("ind", j, 0, 0)
  BY Zenon DEF Slot
<1>4. \A j, k : Slot("l1", i, x, 0) = Slot("l1", j, k, 0) => i = j /\ x = k
  BY Zenon DEF Slot
<1>5. QED
  BY <1>1, <1>2, <1>3, <1>4 DEF InPlace, HasSlot

(* ... and the data blocks where getBlockNum finds them.                   *)
LEMMA DataInPlace ==
    ASSUME NEW slot, InPlace(slot), NEW b, NEW i \in Inodes, NEW f \in FileBlocks, HasSlot(slot, b, DataSlot(i, f))
    PROVE  getBlockNum(i, f) = b
<1>2. \A j, k : /\ DataSlot(i, f) # Slot("ind", j, 0, 0) /\ DataSlot(i, f) # Slot("dbl", j, 0, 0)
                /\ DataSlot(i, f) # Slot("l1", j, k, 0)
  BY Zenon DEF DataSlot, Slot
<1>3. \A j \in Inodes, g \in FileBlocks : DataSlot(i, f) = DataSlot(j, g) => i = j /\ f = g
  BY SlotsDiffer
<1>4. QED
  BY <1>2, <1>3 DEF InPlace, HasSlot

(* What the counts of blocks rest on: no block is none to count, and one   *)
(* more in a file is one more.  The last section derives it from           *)
(* FiniteSetTheorems.                                                      *)
CountFacts ==
    /\ Cardinality({}) = 0
    /\ \A i \in Inodes : \A f \in FileBlocks \ Mapped(i) :
          Cardinality(Mapped(i) \union {f}) = Cardinality(Mapped(i)) + 1

(* Together: a step of the writer w of the file i that publishes b in its  *)
(* place, a pointer block or the data block of f.                          *)
LEMMA PublishingSingle ==
    ASSUME ListOK, OneWriter, CountFacts, NEW slot, File(slot), Single(slot), NEW w \in Workers, Frame(w),
           NEW slot2, NEW b, NEW s, Publishes(slot, slot2, b, s),
           NEW i \in Inodes, i = ino(w), NEW f \in FileBlocks, f = fb(w), getBlockNum(i, f) = -1,
           at[w] # "idle", ~Counting(w), job' = job, done' = done, StillSo(w)',
           \A j \in Inodes : inode'[j].blocks = inode[j].blocks,
           \A j \in Inodes \ {i} : FileKept(j),
           FileGrows(i),
           \/ s = DataSlot(i, f) /\ getBlockNum(i, f)' = b
           \/ s = Slot("ind", i, 0, 0) /\ inode'[i].indirect = b
           \/ s = Slot("dbl", i, 0, 0) /\ inode'[i].doubleIndirect = b
           \/ \E k \in Index :
                /\ s = Slot("l1", i, k, 0)
                /\ inode'[i].doubleIndirect # 0 /\ words'[inode'[i].doubleIndirect][k] = b,
           \/ Mapped(i)' = Mapped(i) /\ ~Counting(w)'
           \/ Mapped(i)' = Mapped(i) \union {f} /\ Counting(w)'
    PROVE  Single(slot2)'
<1>1. \A j \in Inodes : FileGrows(j)
  BY Zenon, KeptGrows
<1>2. InPlace(slot2)'
  BY Zenon, <1>1, InPlaceGrows DEF Single
<1>3. DoneInPlace(slot2)'
  BY Zenon, DoneKept DEF Single, Publishes
<1>4. \A v \in Workers \ {w} : at[v] # "idle" => ino(v) # i /\ ino(v) \in Inodes
  BY Zenon, OthersElsewhere DEF File, Mine, Control
<1>5. \A v \in Workers \ {w} : StillSo(v)'
  BY Zenon, <1>4, OthersStillSo DEF Single
<1>6. \A v \in Workers : ino(v)' = ino(v) /\ (v # w => (Counting(v)' <=> Counting(v)))
  BY Zenon DEF Frame, ino, Counting
<1>7. ASSUME NEW j \in Inodes PROVE Counted(j)'
  <2>1. CASE j = i
    <3>0. \A v \in Workers : Counting(v) => ino(v) # i
      BY Zenon, <1>4 DEF Counting
    <3>1. Behind(i) = 0
      BY Zenon, <3>0 DEF Behind
    <3>2. CASE Mapped(i)' = Mapped(i) /\ ~Counting(w)'
      <4>1. Behind(i)' = 0
        BY Zenon, <3>0, <3>2, <1>6 DEF Behind
      <4>2. QED
        BY Zenon, <2>1, <3>1, <3>2, <4>1 DEF Single, Counted
    <3>3. CASE Mapped(i)' = Mapped(i) \union {f} /\ Counting(w)'
      <4>1. Behind(i)' = 1
        BY Zenon, <3>3, <1>6 DEF Behind
      <4>2. f \in FileBlocks \ Mapped(i)
        BY Zenon DEF Mapped
      <4>3. Cardinality(Mapped(i) \union {f}) = Cardinality(Mapped(i)) + 1
        BY Zenon, <4>2 DEF CountFacts
      <4>4. inode[i].blocks \in Nat /\ Counted(i)
        BY Zenon DEF File, FileTypes, Single
      <4>5. QED
        BY SMTT(30), <2>1, <3>1, <3>3, <4>1, <4>3, <4>4 DEF Counted
    <3>4. QED
      BY Zenon, <3>2, <3>3
  <2>2. CASE j # i
    <3>1. Behind(j)' = Behind(j)
      BY Zenon, <2>2, <1>6 DEF Behind
    <3>2. Mapped(j)' = Mapped(j)
      BY Zenon, <2>2, KeptGrows
    <3>3. QED
      BY Zenon, <3>1, <3>2 DEF Single, Counted
  <2>3. QED
    BY Zenon, <2>1, <2>2
<1>8. QED
  BY Zenon, <1>2, <1>3, <1>5, <1>7 DEF Single

(* A direct pointer is set.                                                *)
LEMMA MapDirectSingle ==
    ASSUME ListOK, OneWriter, CountFacts, NEW slot, File(slot), Single(slot), NEW w \in Workers, MapDirect(w)
    PROVE  \E slot2 : File(slot2)' /\ Single(slot2)'
<1>0. Mine(w) /\ Tree(slot) /\ FileTypes /\ StillSo(w)
  BY Zenon DEF File, Single
<1>1. PICK slot2 : Publishes(slot, slot2, loc[w].newBlock, DataSlot(ino(w), fb(w)))
  BY Zenon, MapDirectStep
<1>2. Frame(w)
  BY Zenon, MapDirectStep
<1>3. PICK b : b = loc[w].newBlock
  BY Zenon
<1>4. PICK i \in Inodes, f \in FileBlocks : i = ino(w) /\ f = fb(w)
  BY Zenon, <1>0 DEF MapDirect, GoAt, Mine, Control
<1>5. /\ at[w] = "map" /\ at' = [at EXCEPT ![w] = "count"]
      /\ inode' = [inode EXCEPT ![i].direct[f] = b]
      /\ UNCHANGED <<words, job, done>> /\ Direct(f)
  BY Zenon, <1>3, <1>4 DEF MapDirect, GoAt, FL!Publish, FL!listVars
<1>6. Publishes(slot, slot2, b, DataSlot(i, f)) /\ b # 0 /\ getBlockNum(i, f) = -1 /\ f \in 0 .. DirectBlocks - 1
  BY Zenon, <1>0, <1>1, <1>3, <1>4, <1>5, Geometry DEF Publishes, StillSo
<1>7. \A j \in Inodes :
        /\ inode'[j].indirect = inode[j].indirect
        /\ inode'[j].doubleIndirect = inode[j].doubleIndirect
        /\ inode'[j].blocks = inode[j].blocks
        /\ j # i => inode'[j].direct = inode[j].direct
        /\ \A k \in 0 .. DirectBlocks - 1 :
             inode'[j].direct[k] = IF j = i /\ k = f THEN b ELSE inode[j].direct[k]
  BY Zenon, <1>0, <1>5, <1>6 DEF FileTypes
<1>8. \A j \in Inodes \ {i} : FileKept(j)
  BY Zenon, <1>0, <1>5, <1>7, KeptFile
<1>9. \A g \in FileBlocks : getBlockNum(i, g)' = IF g = f THEN b ELSE getBlockNum(i, g)
  <2> SUFFICES ASSUME NEW g \in FileBlocks PROVE getBlockNum(i, g)' = IF g = f THEN b ELSE getBlockNum(i, g)
    BY Zenon
  <2>1. CASE Direct(g)
    <3>1. g \in 0 .. DirectBlocks - 1
      BY Zenon, <2>1, Geometry
    <3>2. inode'[i].direct[g] = IF g = f THEN b ELSE inode[i].direct[g]
      BY Zenon, <1>7, <3>1
    <3>3. QED
      BY Zenon, <2>1, <3>2, <1>6 DEF getBlockNum, Direct
  <2>2. CASE ~Direct(g)
    <3>1. g # f
      BY Zenon, <2>2, <1>5
    <3>2. inode'[i].indirect = inode[i].indirect /\ inode'[i].doubleIndirect = inode[i].doubleIndirect
      BY Zenon, <1>7
    <3>3. QED
      BY <2>2, <3>1, <3>2, <1>5 DEF getBlockNum, Direct, Indirect, IndirectIdx, L1, L2, DoubleIdx
  <2>3. QED
    BY Zenon, <2>1, <2>2
<1>10. FileGrows(i) /\ Mapped(i)' = Mapped(i) \union {f}
  <2>1. b # -1
    BY <1>6, ConstantFacts DEF Publishes
  <2>2. FileGrows(i)
    BY Zenon, <1>5, <1>6, <1>7, <1>9 DEF FileGrows
  <2>3. QED
    BY Zenon, <1>9, <2>1, <2>2 DEF Mapped
<1>11. Counting(w)' /\ ~Counting(w) /\ StillSo(w)' /\ at[w] # "idle"
  BY Zenon, <1>0, <1>5 DEF Counting, StillSo, FileTypes
<1>12. Single(slot2)'
  BY <1>2, <1>4, <1>5, <1>6, <1>7, <1>8, <1>9, <1>10, <1>11, PublishingSingle
<1>13. QED
  BY Zenon, <1>6, <1>12 DEF Publishes

(* The inode gets its indirect or double indirect block, an empty one.     *)
LEMMA SetInodeSingle ==
    ASSUME ListOK, OneWriter, CountFacts, NEW slot, File(slot), Single(slot), NEW w \in Workers,
           SetIndirect(w) \/ SetDouble(w)
    PROVE  \E slot2 : File(slot2)' /\ Single(slot2)'
<1>0. Mine(w) /\ Tree(slot) /\ FileTypes /\ StillSo(w)
  BY Zenon DEF File, Single
<1>1. PICK slot2 : Publishes(slot, slot2, loc[w].indirect,
                             Slot(IF at[w] = "indset" THEN "ind" ELSE "dbl", ino(w), 0, 0))
  BY Zenon, SetInodeStep
<1>2. Frame(w)
  BY Zenon, SetInodeStep
<1>3. PICK b : b = loc[w].indirect
  BY Zenon
<1>4. PICK i \in Inodes, f \in FileBlocks : i = ino(w) /\ f = fb(w)
  BY Zenon, <1>0 DEF SetIndirect, SetDouble, GoAt, Mine, Control
<1>5. /\ \/ /\ at[w] = "indset" /\ at' = [at EXCEPT ![w] = "ptr"]
            /\ inode' = [inode EXCEPT ![i].indirect = b]
         \/ /\ at[w] = "dblset" /\ at' = [at EXCEPT ![w] = "l1read"]
            /\ inode' = [inode EXCEPT ![i].doubleIndirect = b]
      /\ UNCHANGED <<words, job, loc, done>>
  BY Zenon, <1>3, <1>4 DEF SetIndirect, SetDouble, GoAt, FL!Publish, FL!listVars
<1>6. PICK s : s = Slot(IF at[w] = "indset" THEN "ind" ELSE "dbl", i, 0, 0)
  BY Zenon
<1>7. Publishes(slot, slot2, b, s) /\ b # 0 /\ getBlockNum(i, f) = -1
  BY Zenon, <1>0, <1>1, <1>3, <1>4, <1>5, <1>6 DEF Publishes, StillSo
<1>8. \A k \in Index : words[b][k] = 0
  BY Zenon, <1>0, <1>3, <1>5 DEF Mine, Zeroed, Zero
<1>9. \A j \in Inodes :
        /\ inode'[j].direct = inode[j].direct /\ inode'[j].blocks = inode[j].blocks
        /\ inode'[j].indirect = IF j = i /\ at[w] = "indset" THEN b ELSE inode[j].indirect
        /\ inode'[j].doubleIndirect = IF j = i /\ at[w] = "dblset" THEN b ELSE inode[j].doubleIndirect
  <2>1. CASE at[w] = "indset"
    BY <2>1, <1>0, <1>5 DEF FileTypes
  <2>2. CASE at[w] = "dblset"
    BY <2>2, <1>0, <1>5 DEF FileTypes
  <2>3. QED
    BY Zenon, <2>1, <2>2, <1>5
<1>10. at[w] = "indset" => inode[i].indirect = 0
  BY Zenon, <1>0, <1>4 DEF StillSo
<1>11. at[w] = "dblset" => inode[i].doubleIndirect = 0
  BY Zenon, <1>0, <1>4 DEF StillSo
<1>12. \A j \in Inodes \ {i} : FileKept(j)
  BY Zenon, <1>0, <1>5, <1>9, KeptFile
<1>13. \A g \in FileBlocks : getBlockNum(i, g)' = getBlockNum(i, g)
  <2> SUFFICES ASSUME NEW g \in FileBlocks PROVE getBlockNum(i, g)' = getBlockNum(i, g)
    BY Zenon
  <2>1. CASE Direct(g)
    BY Zenon, <2>1, <1>9 DEF getBlockNum, Direct
  <2>2. CASE ~Direct(g) /\ Indirect(g)
    <3>1. PICK k \in Index : k = IndirectIdx(g)
      BY Zenon, <2>2, Geometry
    <3>2. getBlockNum(i, g)' = IF inode'[i].indirect = 0 \/ words[inode'[i].indirect][k] = 0 THEN -1
                               ELSE words[inode'[i].indirect][k]
      BY Zenon, <2>2, <3>1, <1>5 DEF getBlockNum, Direct, Indirect, IndirectIdx
    <3>3. getBlockNum(i, g) = IF inode[i].indirect = 0 \/ words[inode[i].indirect][k] = 0 THEN -1
                              ELSE words[inode[i].indirect][k]
      BY Zenon, <2>2, <3>1 DEF getBlockNum, Direct, Indirect, IndirectIdx
    <3>4. QED
      BY <3>2, <3>3, <1>8, <1>9, <1>10
  <2>3. CASE ~Direct(g) /\ ~Indirect(g)
    <3>1. PICK k \in Index, y \in Index : k = L1(g) /\ y = L2(g)
      BY Zenon, <2>3, Geometry
    <3>2. PICK c : c = IF inode[i].doubleIndirect = 0 THEN 0 ELSE words[inode[i].doubleIndirect][k]
      BY Zenon
    <3>3. c = IF inode'[i].doubleIndirect = 0 THEN 0 ELSE words[inode'[i].doubleIndirect][k]
      BY Zenon, <3>1, <3>2, <1>8, <1>9, <1>11
    <3>4. getBlockNum(i, g) = IF c = 0 \/ words[c][y] = 0 THEN -1 ELSE words[c][y]
      BY Zenon, <2>3, <3>1, <3>2 DEF getBlockNum, Direct, Indirect, L1, L2, DoubleIdx
    <3>5. getBlockNum(i, g)' = IF c = 0 \/ words[c][y] = 0 THEN -1 ELSE words[c][y]
      BY Zenon, <2>3, <3>1, <3>3, <1>5 DEF getBlockNum, Direct, Indirect, L1, L2, DoubleIdx
    <3>6. QED
      BY Zenon, <3>4, <3>5
  <2>4. QED
    BY Zenon, <2>1, <2>2, <2>3
<1>14. FileGrows(i) /\ Mapped(i)' = Mapped(i)
  <2>1. FileGrows(i)
    BY Zenon, <1>5, <1>9, <1>10, <1>11, <1>13 DEF FileGrows
  <2>2. QED
    BY Zenon, <1>13, <2>1 DEF Mapped
<1>15. at'[w] \in {"ptr", "l1read"} /\ at[w] # "idle" /\ ~Counting(w)' /\ ~Counting(w)
  BY Zenon, <1>0, <1>5 DEF Counting, FileTypes
<1>16. StillSo(w)'
  <2>1. ino(w)' = i /\ fb(w)' = f
    BY Zenon, <1>4, <1>5 DEF ino, fb
  <2>2. getBlockNum(ino(w), fb(w))' = getBlockNum(i, f)'
    BY Zenon, <2>1 DEF getBlockNum, Direct, Indirect, IndirectIdx, L1, L2, DoubleIdx
  <2>3. QED
    BY Zenon, <1>7, <1>13, <1>15, <2>2 DEF StillSo
<1>17. \/ s = Slot("ind", i, 0, 0) /\ inode'[i].indirect = b
       \/ s = Slot("dbl", i, 0, 0) /\ inode'[i].doubleIndirect = b
  BY Zenon, <1>5, <1>6, <1>9
<1>18. Single(slot2)'
  BY <1>2, <1>4, <1>5, <1>7, <1>9, <1>12, <1>14, <1>15, <1>16, <1>17, PublishingSingle
<1>19. QED
  BY Zenon, <1>7, <1>18 DEF Publishes

(* A store into a pointer block of file i leaves the other files alone.    *)
LEMMA OtherFilesKept ==
    ASSUME NEW slot, Tree(slot), NEW i, NEW c, slot[c][2] = i, inode' = inode,
           \A x \in published \ {c}, q \in Index : words'[x][q] = words[x][q],
           NEW j \in Inodes \ {i}
    PROVE  FileKept(j)
<1>1. \A kind, x : Slot(kind, j, x, 0)[2] = j
  BY Zenon DEF Slot
<1>2. ASSUME NEW b \in published, NEW q \in Index,
             \/ slot[b] = Slot("ind", j, 0, 0) \/ slot[b] = Slot("dbl", j, 0, 0)
             \/ \E x \in Index : slot[b] = Slot("l1", j, x, 0)
      PROVE  words'[b][q] = words[b][q]
  BY <1>1, <1>2
<1>3. QED
  BY <1>2, KeptFile

(* A new second-level block, an empty one, goes into the double indirect   *)
(* block.                                                                  *)
LEMMA SetL1Single ==
    ASSUME ListOK, OneWriter, CountFacts, NEW slot, File(slot), Single(slot), NEW w \in Workers, SetL1(w)
    PROVE  \E slot2 : File(slot2)' /\ Single(slot2)'
<1>0. Mine(w) /\ LocalSlots(slot, w) /\ Tree(slot) /\ FileTypes /\ StillSo(w) /\ InPlace(slot)
  BY Zenon DEF File, Single
<1>1. at[w] = "l1set" /\ Frame(w)
  BY Zenon, SetPointerStep DEF SetL1, GoAt
<1>2. PICK slot2 : Publishes(slot, slot2, loc[w].l1Ptr, Slot("l1", ino(w), L1(fb(w)), 0))
  BY Zenon, <1>1, SetPointerStep
<1>3. PICK i \in Inodes, f \in FileBlocks : i = ino(w) /\ f = fb(w) /\ ~Direct(f) /\ ~Indirect(f)
  BY Zenon, <1>0, <1>1 DEF Mine, Control
<1>4. PICK b : b = loc[w].l1Ptr
  BY Zenon
<1>5. PICK c \in published : c = loc[w].indirect /\ slot[c] = Slot("dbl", i, 0, 0)
  BY Zenon, <1>0, <1>1, <1>3 DEF LocalSlots, HasSlot
<1>6. PICK k \in Index : k = L1(f)
  BY Zenon, <1>3, Geometry
<1>7. /\ at' = [at EXCEPT ![w] = "ptr"] /\ words' = [words EXCEPT ![c][k] = b]
      /\ UNCHANGED <<inode, job, loc, done>>
  BY Zenon, <1>3, <1>4, <1>5, <1>6 DEF SetL1, GoAt, FL!StorePtr
<1>8. Publishes(slot, slot2, b, Slot("l1", i, k, 0)) /\ b # 0 /\ b # c /\ b \in Blocks /\ getBlockNum(i, f) = -1
  BY Zenon, <1>0, <1>1, <1>2, <1>3, <1>4, <1>6 DEF Publishes, StillSo
<1>9. \A x \in Blocks, q \in Index : words'[x][q] = IF x = c /\ q = k THEN b ELSE words[x][q]
  BY <1>7, ListFacts
<1>10. inode[i].doubleIndirect = c /\ c # 0 /\ c \in Blocks /\ words[c][k] = 0
  <2>1. inode[i].doubleIndirect = c /\ c # 0
    BY Zenon, <1>0, <1>5, DoubleInPlace DEF HasSlot
  <2>2. QED
    BY Zenon, <2>1, <1>0, <1>1, <1>3, <1>5, <1>6, ListFacts DEF StillSo
<1>11. \A q \in Index : words'[b][q] = 0
  BY Zenon, <1>0, <1>1, <1>4, <1>8, <1>9 DEF Mine, Zeroed, Zero
<1>12. \A j \in Inodes \ {i} : FileKept(j)
  <2>1. \A x \in published \ {c}, q \in Index : words'[x][q] = words[x][q]
    BY Zenon, <1>9, ListFacts
  <2>2. slot[c][2] = i
    BY <1>5 DEF Slot
  <2>3. QED
    BY <2>1, <2>2, <1>0, <1>7, OtherFilesKept
<1>13. \A g \in FileBlocks : getBlockNum(i, g)' = getBlockNum(i, g)
  <2> SUFFICES ASSUME NEW g \in FileBlocks PROVE getBlockNum(i, g)' = getBlockNum(i, g)
    BY Zenon
  <2>1. CASE Direct(g)
    BY Zenon, <2>1, <1>7 DEF getBlockNum, Direct
  <2>2. CASE ~Direct(g) /\ Indirect(g)
    <3>1. IndirectIdx(g) \in Index
      BY Zenon, <2>2, Geometry
    <3>2. inode[i].indirect # 0 => inode[i].indirect \in Blocks /\ inode[i].indirect # c
      <4>1. Slot("ind", i, 0, 0) # Slot("dbl", i, 0, 0)
        BY Zenon DEF Slot
      <4>2. QED
        BY ZenonT(30), <4>1, <1>0, <1>5, TreeFacts, ListFacts DEF HasSlot
    <3>3. inode[i].indirect # 0 =>
            words'[inode[i].indirect][IndirectIdx(g)] = words[inode[i].indirect][IndirectIdx(g)]
      BY Zenon, <3>1, <3>2, <1>9
    <3>4. QED
      BY Zenon, <2>2, <3>3, <1>7 DEF getBlockNum, Direct, Indirect, IndirectIdx
  <2>3. CASE ~Direct(g) /\ ~Indirect(g)
    <3>1. PICK x \in Index, y \in Index : x = L1(g) /\ y = L2(g)
      BY Zenon, <2>3, Geometry
    <3>2. PICK d : d = words[c][x]
      BY Zenon
    <3>3. getBlockNum(i, g) = IF d = 0 \/ words[d][y] = 0 THEN -1 ELSE words[d][y]
      BY Zenon, <2>3, <3>1, <3>2, <1>10 DEF getBlockNum, Direct, Indirect, L1, L2, DoubleIdx
    <3>4. PICK d2 : d2 = words'[c][x]
      BY Zenon
    <3>5. inode'[i].doubleIndirect = c
      BY Zenon, <1>7, <1>10
    <3>6. getBlockNum(i, g)' = IF d2 = 0 \/ words'[d2][y] = 0 THEN -1 ELSE words'[d2][y]
      BY Zenon, <2>3, <3>1, <3>4, <3>5, <1>10 DEF getBlockNum, Direct, Indirect, L1, L2, DoubleIdx
    <3>7. CASE x = k
      BY Zenon, <3>1, <3>2, <3>3, <3>4, <3>6, <3>7, <1>9, <1>10, <1>11
    <3>8. CASE x # k
      <4>1. d2 = d
        BY Zenon, <3>2, <3>4, <3>8, <1>9, <1>10
      <4>2. d # 0 => HasSlot(slot, d, Slot("l1", i, x, 0))
        BY Zenon, <3>2, <1>0, <1>10, TreeFacts
      <4>3. d # 0 => d \in Blocks /\ d # c
        <5>1. Slot("l1", i, x, 0) # Slot("dbl", i, 0, 0)
          BY Zenon DEF Slot
        <5>2. QED
          BY Zenon, <4>2, <5>1, <1>5, ListFacts DEF HasSlot
      <4>4. d # 0 => words'[d][y] = words[d][y]
        BY Zenon, <4>3, <1>9
      <4>5. QED
        BY <3>3, <3>6, <4>1, <4>4
    <3>9. QED
      BY Zenon, <3>7, <3>8
  <2>4. QED
    BY Zenon, <2>1, <2>2, <2>3
<1>14. FileGrows(i) /\ Mapped(i)' = Mapped(i)
  <2>1. FileGrows(i)
    BY <1>7, <1>9, <1>10, <1>13 DEF FileGrows
  <2>2. QED
    BY Zenon, <1>13, <2>1 DEF Mapped
<1>15. at'[w] = "ptr" /\ at[w] # "idle" /\ ~Counting(w)' /\ ~Counting(w)
  BY Zenon, <1>0, <1>1, <1>7 DEF Counting, FileTypes
<1>16. StillSo(w)'
  <2>1. ino(w)' = i /\ fb(w)' = f
    BY Zenon, <1>3, <1>7 DEF ino, fb
  <2>2. getBlockNum(ino(w), fb(w))' = getBlockNum(i, f)'
    BY Zenon, <2>1 DEF getBlockNum, Direct, Indirect, IndirectIdx, L1, L2, DoubleIdx
  <2>3. QED
    BY Zenon, <1>8, <1>13, <1>15, <2>2 DEF StillSo
<1>17. inode'[i].doubleIndirect # 0 /\ words'[inode'[i].doubleIndirect][k] = b
  BY Zenon, <1>7, <1>9, <1>10
<1>18. Single(slot2)'
  BY ZenonT(30), <1>1, <1>3, <1>7, <1>8, <1>12, <1>14, <1>15, <1>16, <1>17, PublishingSingle
<1>19. QED
  BY Zenon, <1>8, <1>18 DEF Publishes

(* newBlock goes into the pointer block that its slot is in.               *)
LEMMA SetPtrSingle ==
    ASSUME ListOK, OneWriter, CountFacts, NEW slot, File(slot), Single(slot), NEW w \in Workers, SetPtr(w)
    PROVE  \E slot2 : File(slot2)' /\ Single(slot2)'
<1>0. Mine(w) /\ LocalSlots(slot, w) /\ Tree(slot) /\ FileTypes /\ StillSo(w) /\ InPlace(slot)
  BY Zenon DEF File, Single
<1>1. at[w] = "ptr" /\ Frame(w)
  BY Zenon, SetPointerStep DEF SetPtr, GoAt
<1>2. PICK slot2 : Publishes(slot, slot2, loc[w].newBlock, DataSlot(ino(w), fb(w)))
  BY Zenon, <1>1, SetPointerStep
<1>3. PICK i \in Inodes, f \in FileBlocks : i = ino(w) /\ f = fb(w) /\ ~Direct(f)
  BY Zenon, <1>0, <1>1 DEF Mine, Control
<1>4. PICK b : b = loc[w].newBlock
  BY Zenon
<1>5. PICK c \in published :
        /\ c = IF Indirect(f) THEN loc[w].indirect ELSE loc[w].l1Ptr
        /\ slot[c] = IF Indirect(f) THEN Slot("ind", i, 0, 0) ELSE Slot("l1", i, L1(f), 0)
  BY Zenon, <1>0, <1>1, <1>3 DEF LocalSlots, HasSlot
<1>6. PICK k \in Index : k = IF Indirect(f) THEN IndirectIdx(f) ELSE L2(f)
  BY Zenon, <1>3, Geometry
<1>7. /\ at' = [at EXCEPT ![w] = "count"] /\ words' = [words EXCEPT ![c][k] = b]
      /\ UNCHANGED <<inode, job, loc, done>>
  BY Zenon, <1>3, <1>4, <1>5, <1>6 DEF SetPtr, GoAt, FL!StorePtr
<1>8. Publishes(slot, slot2, b, DataSlot(i, f)) /\ b # 0 /\ b # c /\ b \in Blocks /\ getBlockNum(i, f) = -1
  BY Zenon, <1>0, <1>1, <1>2, <1>3, <1>4 DEF Publishes, StillSo
<1>9. \A x \in Blocks, q \in Index : words'[x][q] = IF x = c /\ q = k THEN b ELSE words[x][q]
  BY <1>7, ListFacts
<1>10. /\ c # 0 /\ c \in Blocks
       /\ Indirect(f) => inode[i].indirect = c
       /\ ~Indirect(f) => inode[i].doubleIndirect # 0 /\ words[inode[i].doubleIndirect][L1(f)] = c
  <2>1. c # 0 /\ c \in Blocks
    BY ListFacts, ConstantFacts
  <2>2. Indirect(f) => HasSlot(slot, c, Slot("ind", i, 0, 0))
    BY Zenon, <1>5 DEF HasSlot
  <2>3. ~Indirect(f) => HasSlot(slot, c, Slot("l1", i, L1(f), 0))
    BY Zenon, <1>5 DEF HasSlot
  <2>4. Indirect(f) => inode[i].indirect = c
    BY Zenon, <2>2, <1>0, IndirectInPlace
  <2>5. ~Indirect(f) => inode[i].doubleIndirect # 0 /\ words[inode[i].doubleIndirect][L1(f)] = c
    BY SMTT(30), <2>3, <1>0, SecondInPlace
  <2>6. QED
    BY Zenon, <2>1, <2>4, <2>5
<1>11. \A j \in Inodes \ {i} : FileKept(j)
  <2>1. \A x \in published \ {c}, q \in Index : words'[x][q] = words[x][q]
    BY Zenon, <1>9, ListFacts
  <2>2. slot[c][2] = i
    BY <1>5 DEF Slot
  <2>3. QED
    BY <2>1, <2>2, <1>0, <1>7, OtherFilesKept
<1>12. inode[i].doubleIndirect # 0 =>
         /\ inode[i].doubleIndirect \in Blocks /\ inode[i].doubleIndirect # c
         /\ \A q \in Index : words'[inode[i].doubleIndirect][q] = words[inode[i].doubleIndirect][q]
  <2>1. Slot("ind", i, 0, 0) # Slot("dbl", i, 0, 0) /\ Slot("l1", i, L1(f), 0) # Slot("dbl", i, 0, 0)
    BY Zenon DEF Slot
  <2>2. inode[i].doubleIndirect # 0 => inode[i].doubleIndirect \in Blocks /\ inode[i].doubleIndirect # c
    BY SMTT(30), <2>1, <1>0, <1>5, TreeFacts, ListFacts DEF HasSlot
  <2>3. QED
    BY Zenon, <2>2, <1>9
<1>13. ASSUME NEW g \in FileBlocks PROVE getBlockNum(i, g)' = IF g = f THEN b ELSE getBlockNum(i, g)
  <2>0. DataSlot(i, g) = DataSlot(i, f) => g = f
    BY Zenon, SlotsDiffer
  <2>1. CASE Direct(g)
    <3>1. g # f
      BY Zenon, <2>1, <1>3
    <3>2. QED
      BY Zenon, <2>1, <3>1, <1>7 DEF getBlockNum, Direct
  <2>2. CASE ~Direct(g) /\ Indirect(g)
    <3>1. PICK x \in Index : x = IndirectIdx(g)
      BY Zenon, <2>2, Geometry
    <3>2. PICK d : d = inode[i].indirect
      BY Zenon
    <3>3. d # 0 => d \in Blocks /\ slot[d] = Slot("ind", i, 0, 0)
      BY Zenon, <3>2, <1>0, TreeFacts, ListFacts DEF HasSlot
    <3>4. getBlockNum(i, g) = IF d = 0 \/ words[d][x] = 0 THEN -1 ELSE words[d][x]
      BY Zenon, <2>2, <3>1, <3>2 DEF getBlockNum, Direct, Indirect, IndirectIdx
    <3>5. getBlockNum(i, g)' = IF d = 0 \/ words'[d][x] = 0 THEN -1 ELSE words'[d][x]
      BY <2>2, <3>1, <3>2, <1>7 DEF getBlockNum, Direct, Indirect, IndirectIdx
    <3>6. CASE Indirect(f)
      <4>1. d = c
        BY Zenon, <3>2, <3>6, <1>10
      <4>2. g = f <=> x = k
        BY Zenon, <2>0, <2>2, <3>1, <3>6, <1>3, <1>6 DEF DataSlot
      <4>3. QED
        BY Zenon, <3>4, <3>5, <4>1, <4>2, <1>8, <1>9, <1>10
    <3>7. CASE ~Indirect(f)
      <4>1. Slot("l1", i, L1(f), 0) # Slot("ind", i, 0, 0) /\ g # f
        BY Zenon, <2>2, <3>7 DEF Slot
      <4>2. d # 0 => words'[d][x] = words[d][x]
        BY Zenon, <3>3, <3>7, <4>1, <1>5, <1>9
      <4>3. QED
        BY Zenon, <3>4, <3>5, <4>1, <4>2
    <3>8. QED
      BY Zenon, <3>6, <3>7
  <2>3. CASE ~Direct(g) /\ ~Indirect(g)
    <3>1. PICK x \in Index, y \in Index : x = L1(g) /\ y = L2(g)
      BY Zenon, <2>3, Geometry
    <3>2. PICK d : d = IF inode[i].doubleIndirect = 0 THEN 0 ELSE words[inode[i].doubleIndirect][x]
      BY Zenon
    <3>3. d = IF inode'[i].doubleIndirect = 0 THEN 0 ELSE words'[inode'[i].doubleIndirect][x]
      BY Zenon, <3>1, <3>2, <1>7, <1>12
    <3>4. getBlockNum(i, g) = IF d = 0 \/ words[d][y] = 0 THEN -1 ELSE words[d][y]
      BY Zenon, <2>3, <3>1, <3>2 DEF getBlockNum, Direct, Indirect, L1, L2, DoubleIdx
    <3>5. getBlockNum(i, g)' = IF d = 0 \/ words'[d][y] = 0 THEN -1 ELSE words'[d][y]
      BY Zenon, <2>3, <3>1, <3>3 DEF getBlockNum, Direct, Indirect, L1, L2, DoubleIdx
    <3>6. d # 0 => d \in Blocks /\ slot[d] = Slot("l1", i, x, 0)
      <4>1. d # 0 => HasSlot(slot, d, Slot("l1", i, x, 0))
        BY Zenon, <3>1, <3>2, <1>0, TreeFacts
      <4>2. QED
        BY Zenon, <4>1, ListFacts DEF HasSlot
    <3>7. CASE ~Indirect(f) /\ x = L1(f)
      <4>1. d = c
        BY Zenon, <3>2, <3>7, <1>10
      <4>2. g = f <=> y = k
        BY Zenon, <2>0, <2>3, <3>1, <3>7, <1>3, <1>6 DEF DataSlot
      <4>3. QED
        BY Zenon, <3>4, <3>5, <4>1, <4>2, <1>8, <1>9, <1>10
    <3>8. CASE Indirect(f) \/ x # L1(f)
      <4>1. g # f
        BY Zenon, <2>3, <3>1, <3>8
      <4>2. slot[c] # Slot("l1", i, x, 0)
        BY SMTT(30), <3>8, <1>5 DEF Slot
      <4>3. d # 0 => words'[d][y] = words[d][y]
        BY Zenon, <3>1, <3>6, <4>2, <1>9
      <4>4. QED
        BY Zenon, <3>4, <3>5, <4>1, <4>3
    <3>9. QED
      BY Zenon, <3>7, <3>8
  <2>4. QED
    BY Zenon, <2>1, <2>2, <2>3
<1>14. FileGrows(i) /\ Mapped(i)' = Mapped(i) \union {f}
  <2>1. b # -1
    BY <1>8, ConstantFacts
  <2>2. FileGrows(i)
    BY Zenon, <1>7, <1>8, <1>12, <1>13 DEF FileGrows
  <2>3. QED
    BY Zenon, <1>13, <2>1, <2>2 DEF Mapped
<1>15. Counting(w)' /\ ~Counting(w) /\ StillSo(w)' /\ at[w] # "idle"
  BY Zenon, <1>0, <1>1, <1>7 DEF Counting, StillSo, FileTypes
<1>16. Single(slot2)'
  BY <1>1, <1>3, <1>7, <1>8, <1>11, <1>13, <1>14, <1>15, PublishingSingle
<1>17. QED
  BY Zenon, <1>8, <1>16 DEF Publishes

-----------------------------------------------------------------------------
(* Every step keeps it, while allocBlock has not handed a block out twice. *)
LEMMA NextSingle ==
    ASSUME OneWriter, CountFacts, ListOK, NEW slot, File(slot), Single(slot), [Next]_vars
    PROVE  \E slot2 : File(slot2)' /\ Single(slot2)'
<1>1. ASSUME NEW w \in Workers, Continue(w)
      PROVE  \E slot2 : File(slot2)' /\ Single(slot2)'
  <2>1. CASE ListStep(w) \/ AllocReturns(w) \/ AllocFails(w) \/ Undo(w) \/ UndoReturns(w)
    BY Zenon, <2>1, ListStepStep, AllocReturnsStep, AllocFailsStep, UndoStep, UndoReturnsStep, AllocatorSingle
  <2>2. CASE MapDirect(w)  BY <2>2, MapDirectSingle
  <2>3. CASE GetIndirect(w) \/ GetDouble(w) \/ GetL1(w)  BY <2>3, GetStep, GetSingle
  <2>4. CASE SetIndirect(w) \/ SetDouble(w)  BY <2>4, SetInodeSingle
  <2>5. CASE SetL1(w)  BY <2>5, SetL1Single
  <2>6. CASE SetPtr(w)  BY <2>6, SetPtrSingle
  <2>7. CASE GetBlocks(w)  BY <2>7, CountStep, ReadBlocksSingle
  <2>8. CASE SetBlocks(w)  BY <2>8, CountStep, SetBlocksSingle
  <2>9. ASSUME NEW k \in FL!Index, NEW v \in Data, PutData(w, k, v)
        PROVE  \E slot2 : File(slot2)' /\ Single(slot2)'
    BY Zenon, <2>9, PutDataStep, PutDataSingle DEF Index
  <2>10. QED
    BY Zenon, <1>1, <2>1, <2>2, <2>3, <2>4, <2>5, <2>6, <2>7, <2>8, <2>9 DEF Continue
<1>2. ASSUME NEW w \in Workers, NEW i \in Inodes, NEW f \in FileBlocks, WriteMapped(w, i, f) \/ WriteHole(w, i, f)
      PROVE  \E slot2 : File(slot2)' /\ Single(slot2)'
  BY Zenon, <1>2, WriteMappedStep, WriteHoleStep, WriteSingle
<1>3. CASE UNCHANGED vars
  <2>1. File(slot)'
    BY Zenon, <1>3, StutterFile
  <2>2. \A i, f : getBlockNum(i, f)' = getBlockNum(i, f)
    BY SMTT(30), <1>3 DEF vars, listVars, fileVars, getBlockNum, Direct, Indirect, IndirectIdx, L1, L2, DoubleIdx
  <2>3. InPlace(slot)' /\ DoneInPlace(slot)'
    BY Zenon, <1>3, <2>2 DEF vars, listVars, fileVars, Single, InPlace, DoneInPlace, HasSlot, Index
  <2>4. \A w \in Workers : ino(w)' = ino(w) /\ fb(w)' = fb(w) /\ (Counting(w)' <=> Counting(w))
    BY Zenon, <1>3 DEF vars, fileVars, ino, fb, Counting
  <2>5. ASSUME NEW w \in Workers PROVE StillSo(w)'
    <3>1. getBlockNum(ino(w), fb(w))' = getBlockNum(ino(w), fb(w)) /\ L1(fb(w))' = L1(fb(w))
      BY Zenon, <1>3, <2>4 DEF vars, listVars, fileVars, getBlockNum, Direct, Indirect, IndirectIdx, L1, L2, DoubleIdx
    <3>2. QED
      BY Zenon, <1>3, <2>4, <3>1 DEF vars, listVars, fileVars, Single, StillSo
  <2>6. ASSUME NEW i \in Inodes PROVE Counted(i)'
    <3>1. Behind(i)' = Behind(i)
      BY Zenon, <2>4 DEF Behind
    <3>2. Mapped(i)' = Mapped(i)
      BY Zenon, <2>2 DEF Mapped
    <3>3. QED
      BY Zenon, <1>3, <3>1, <3>2 DEF vars, fileVars, Single, Counted
  <2>7. QED
    BY Zenon, <2>1, <2>3, <2>5, <2>6 DEF Single
<1>4. QED
  BY Zenon, <1>1, <1>2, <1>3 DEF Next

(* Nothing is mapped, counted or written at first.                         *)
LEMMA InitSingle ==
    ASSUME Init, CountFacts, NEW slot, File(slot)
    PROVE  Single(slot)
<1>1. published = {} /\ done = {} /\ at = [w \in Workers |-> "idle"]
  BY Zenon DEF Init, FL!Init
<1>4. InPlace(slot) /\ DoneInPlace(slot) /\ \A w \in Workers : StillSo(w)
  BY Zenon, <1>1 DEF InPlace, DoneInPlace, StillSo
<1>5. ASSUME NEW i \in Inodes PROVE Counted(i)
  <2>1. Behind(i) = 0
    BY Zenon, <1>1 DEF Behind, Counting
  <2>2. /\ inode[i].blocks = 0 /\ inode[i].indirect = 0 /\ inode[i].doubleIndirect = 0
        /\ inode[i].direct = [k \in 0 .. DirectBlocks - 1 |-> 0]
    BY Zenon DEF Init
  <2>3. \A f \in FileBlocks : getBlockNum(i, f) = -1
    BY Zenon, <2>2, BlockNum, Geometry
  <2>4. Mapped(i) = {}
    BY Zenon, <2>3 DEF Mapped
  <2>5. QED
    BY <2>1, <2>2, <2>4 DEF Counted, CountFacts
<1>6. QED
  BY Zenon, <1>4, <1>5 DEF Single

(* When nobody is inside write every block in use is reachable from an     *)
(* inode, and nobody holds one.                                            *)
LEMMA AllReachable ==
    ASSUME ListOK, NEW slot, File(slot), Single(slot)
    PROVE  NothingLeaked
<1> SUFFICES ASSUME Quiet
             PROVE  published = DataBlocks \union PointerBlocks /\ \A w \in Workers : held[w] = {}
  BY Zenon DEF NothingLeaked
<1>3. \A w \in Workers : held[w] = {}
  BY Zenon DEF File, Mine, Owns, Quiet
<1>4. ASSUME NEW b \in published PROVE b \in DataBlocks \union PointerBlocks
  <2>1. b # 0 /\ b # -1
    BY ListFacts, ConstantFacts
  <2>2. CASE \E i \in Inodes, f \in FileBlocks : getBlockNum(i, f) = b
    <3>1. PICK i \in Inodes, f \in FileBlocks : getBlockNum(i, f) = b
      BY Zenon, <2>2
    <3>2. <<i, f>> \in Places
      BY Zenon, <3>1, <2>1 DEF Places
    <3>3. b \in DataBlocks
      BY <3>1, <3>2 DEF DataBlocks
    <3>4. QED
      BY Zenon, <3>3
  <2>3. CASE \E i \in Inodes : inode[i].indirect = b \/ inode[i].doubleIndirect = b
    BY <2>1, <2>3 DEF PointerBlocks
  <2>4. CASE \E i \in Inodes, k \in Index :
               inode[i].doubleIndirect # 0 /\ words[inode[i].doubleIndirect][k] = b
    BY <2>1, <2>4 DEF PointerBlocks, Index
  <2>5. QED
    BY Zenon, <2>2, <2>3, <2>4 DEF Single, InPlace
<1>5. ASSUME NEW b \in DataBlocks PROVE b \in published
  <2>1. PICK p \in Places : b = getBlockNum(p[1], p[2])
    BY Zenon, <1>5 DEF DataBlocks
  <2>2. p[1] \in Inodes /\ p[2] \in FileBlocks /\ getBlockNum(p[1], p[2]) # -1
    BY Zenon DEF Places
  <2>3. QED
    BY Zenon, <2>1, <2>2, MappedSlot, ListFacts DEF File, HasSlot
<1>6. ASSUME NEW b \in PointerBlocks PROVE b \in published
  <2>1. b # 0
    BY DEF PointerBlocks
  <2>2. \/ \E i \in Inodes : inode[i].indirect = b \/ inode[i].doubleIndirect = b
        \/ \E i \in Inodes, k \in Index :
             inode[i].doubleIndirect # 0 /\ words[inode[i].doubleIndirect][k] = b
    BY DEF PointerBlocks, Index
  <2>3. QED
    BY SMTT(30), <2>1, <2>2, TreeFacts DEF File, HasSlot
<1>7. QED
  BY Zenon, <1>3, <1>4, <1>5, <1>6

(* When nobody is inside write INO_BLOCKS is the number of data blocks.    *)
LEMMA CountsAgree ==
    ASSUME NEW slot, File(slot), Single(slot)
    PROVE  BlocksCounted
<1> SUFFICES ASSUME Quiet, NEW i \in Inodes
             PROVE  inode[i].blocks = Cardinality({f \in FileBlocks : getBlockNum(i, f) # -1})
  BY Zenon DEF BlocksCounted
<1>2. Behind(i) = 0
  BY Zenon DEF Quiet, Behind, Counting
<1>3. inode[i].blocks \in Nat /\ Counted(i)
  BY Zenon DEF File, FileTypes, Single
<1>4. QED
  BY <1>2, <1>3 DEF Counted, Mapped

-----------------------------------------------------------------------------
(* What was assumed of the allocator and of the counts is so.  The         *)
(* allocator's invariant is cited from FreeListProofs.                     *)
FLP == INSTANCE FreeListProofs

INSTANCE FiniteSetTheorems

(* The assumption on the sizes is the allocator's.                         *)
LEMMA AllocatorAssumption == FLP!FreeListAssumption
BY Zenon, SabfsFileAssumption DEF FLP!FreeListAssumption

(* Its blocks, indexes and words are the ones of this module.              *)
LEMMA SameConstants == Blocks = FLP!Blocks /\ Index = FLP!Index /\ Word = FLP!Word
BY Zenon DEF Blocks, Index, Word, FL!Blocks, FL!Index, FL!Word, FLP!Blocks, FLP!Index, FLP!Word

ListInv == FLP!TypeInv /\ FLP!Core /\ FLP!ListIsChain

(* What allocBlockForFile uses of the allocator follows from its invariant. *)
LEMMA ListInvFacts == ListInv => ListOK
BY ConstantFacts, SameConstants
DEF ListInv, ListOK, FLP!TypeInv, FLP!TypeOK, FLP!LocalsOK, FLP!Core, FLP!Disjoint, FLP!HeadFree,
    FLP!CallsOwn, FLP!Free, FLP!InUse

(* A step of FreeList is one of the instance that FreeListProofs is about. *)
LEMMA SameSteps ==
    /\ FL!Init => FLP!Init
    /\ FL!Next => FLP!Next
    /\ UNCHANGED FL!vars => UNCHANGED FLP!vars
<1> USE DEF FL!Goto, FLP!Goto, FL!Leave, FLP!Leave, FL!ownVars, FLP!ownVars, FL!ghosts, FLP!ghosts,
            FL!listVars, FLP!listVars
<1>1. FL!Init => FLP!Init
  BY Zenon DEF FL!Init, FLP!Init, FL!Blocks, FLP!Blocks, FL!Index, FLP!Index
<1>2. ASSUME NEW w \in Workers, FL!Step(w) PROVE FLP!Step(w)
  BY ZenonT(30), <1>2 DEF FL!Step, FLP!Step, FL!AllocEmpty, FLP!AllocEmpty, FL!AllocLoad, FLP!AllocLoad,
     FL!AllocNext, FLP!AllocNext, FL!AllocCas, FLP!AllocCas, FL!AllocRetry, FLP!AllocRetry,
     FL!AllocZero, FLP!AllocZero, FL!FreeLoad, FLP!FreeLoad, FL!FreeSet, FLP!FreeSet,
     FL!FreeCas, FLP!FreeCas, FL!FreeRetry, FLP!FreeRetry, FL!Index, FLP!Index
<1>3. ASSUME NEW w \in Workers, FL!Client(w) PROVE FLP!Client(w)
  BY Zenon, <1>3 DEF FL!Client, FLP!Client, FL!AllocCall, FLP!AllocCall, FL!FreeCall, FLP!FreeCall,
     FL!Publish, FLP!Publish, FL!Store, FLP!Store, FL!StorePtr, FLP!StorePtr, FL!Index, FLP!Index
<1>4. UNCHANGED FL!vars => UNCHANGED FLP!vars
  BY Zenon DEF FL!vars, FLP!vars
<1>5. QED
  BY ZenonT(30), <1>1, <1>2, <1>3, <1>4 DEF FL!Next, FLP!Next

(* So the allocator's invariant survives every step that keeps its         *)
(* contract and is not the exchange that makes aba true.                   *)
LEMMA ListInvKept ==
    ASSUME ListInv, FL!Next \/ UNCHANGED FL!vars, ~aba'
    PROVE  ListInv'
<1>1. FLP!UntilABA
  BY Zenon DEF ListInv, FLP!UntilABA
<1>2. [FLP!Next \/ (aba /\ aba')]_FLP!vars
  BY Zenon, SameSteps
<1>3. FLP!UntilABA'
  BY ZenonT(30), <1>1, <1>2, AllocatorAssumption, FLP!NextUntilABA
<1>4. QED
  BY Zenon, <1>3 DEF ListInv, FLP!UntilABA

(* A file has finitely many blocks.                                        *)
LEMMA MappedFinite == \A i : IsFiniteSet(Mapped(i))
<1>1. IsFiniteSet(0 .. DirectBlocks + PtrsPerBlock + PtrsPerBlock * PtrsPerBlock - 1)
  BY SabfsFileAssumption, FS_Interval
<1>2. IsFiniteSet(FileBlocks)
  BY Zenon, <1>1, FS_Subset, SabfsFileAssumption
<1>3. QED
  BY ZenonT(30), <1>2, FS_Subset DEF Mapped

(* So the counts of blocks add up.                                         *)
LEMMA CountsAddUp == CountFacts
<1>1. ASSUME NEW i \in Inodes, NEW f \in FileBlocks \ Mapped(i)
      PROVE  Cardinality(Mapped(i) \union {f}) = Cardinality(Mapped(i)) + 1
  <2>1. IsFiniteSet(Mapped(i)) /\ f \notin Mapped(i)
    BY Zenon, MappedFinite
  <2>2. QED
    BY ZenonT(30), <2>1, FS_AddElement
<1>2. QED
  BY ZenonT(30), <1>1, FS_EmptySet DEF CountFacts

(* The inductive invariant for any use, and what it becomes when no file   *)
(* has two writers.                                                        *)
SInv == ~aba => ListInv /\ \E slot : File(slot)
OInv == ~aba => ListInv /\ \E slot : File(slot) /\ Single(slot)

(* init (124-155) establishes the invariant.                               *)
LEMMA InitSInv == Init => SInv
<1>1. Init => ListInv
  BY ZenonT(30), AllocatorAssumption, SameSteps, FLP!InitUntilABA DEF Init, ListInv, FLP!UntilABA, FLP!Init
<1>2. QED
  BY Zenon, <1>1, InitFile DEF SInv

(* Every step keeps the inductive invariant, and is a step of the          *)
(* allocator or of its clients.                                            *)
LEMMA NextSInv == SInv /\ [Next]_vars => SInv' /\ [FL!Next \/ (aba /\ aba')]_FL!vars
<1> SUFFICES ASSUME SInv, [Next]_vars PROVE SInv' /\ [FL!Next \/ (aba /\ aba')]_FL!vars
  BY Zenon
<1>1. CASE aba
  BY ZenonT(30), <1>1, AbaStays DEF SInv
<1>2. CASE ~aba
  <2>1. ListInv
    BY Zenon, <1>2 DEF SInv
  <2>2. PICK slot : File(slot)
    BY Zenon, <1>2 DEF SInv
  <2>3. (\E slot2 : File(slot2)') /\ (FL!Next \/ UNCHANGED FL!vars)
    BY Zenon, <2>1, <2>2, ListInvFacts, NextFile
  <2>4. ~aba' => ListInv'
    BY Zenon, <2>1, <2>3, ListInvKept
  <2>5. SInv'
    BY Zenon, <2>3, <2>4 DEF SInv
  <2>6. QED
    BY ZenonT(30), <2>3, <2>5
<1>3. QED
  BY ZenonT(30), <1>1, <1>2

(* The inductive invariant always holds.                                   *)
LEMMA AlwaysSInv == Spec => []SInv
<1>1. SInv /\ [Next]_vars => SInv'
  BY Zenon, NextSInv
<1>2. QED
  BY <1>1, InitSInv, PTL DEF Spec

(* For any number of workers and files, shared or not: write and           *)
(* allocBlockForFile use the allocator as its contract asks, until         *)
(* allocBlock has handed a block out twice.  They free only what no other  *)
(* worker knows of, store only into blocks in use, at indexes inside the   *)
(* block, and publish only what they hold.                                 *)
THEOREM FilesUseFreeList == Spec => UsesFreeList
<1>1. Init => FL!Init
  BY Zenon DEF Init
<1>2. SInv /\ [Next]_vars => [FL!Next \/ (aba /\ aba')]_FL!vars
  BY Zenon, NextSInv
<1>3. QED
  BY <1>1, <1>2, AlwaysSInv, PTL DEF Spec, UsesFreeList, FL!SpecUntilABA

(* Under the same condition, and also when workers share files: no block   *)
(* holds the data of two file blocks, and none that holds data is followed *)
(* as a pointer block.                                                     *)
THEOREM BlocksNotCrossed == Spec => []NoCrossLink
<1>1. SInv => NoCrossLink
  BY Zenon, ListInvFacts, FilesApart DEF SInv, NoCrossLink
<1>2. QED
  BY <1>1, AlwaysSInv, PTL

(* init (124-155) establishes it too.                                      *)
LEMMA InitOInv == Init => OInv
<1>1. Init => ListInv /\ \E slot : File(slot)
  BY Zenon, InitSInv DEF SInv, Init, FL!Init
<1>2. QED
  BY Zenon, <1>1, CountsAddUp, InitSingle DEF OInv

(* The inductive invariant of files with one writer is one.                *)
LEMMA NextOInv ==
    ASSUME OneWriter
    PROVE  OInv /\ [Next]_vars => OInv'
<1> SUFFICES ASSUME OInv, [Next]_vars PROVE OInv'
  BY Zenon
<1>1. CASE aba
  BY Zenon, <1>1, AbaStays DEF OInv
<1>2. CASE ~aba
  <2>1. ListInv
    BY Zenon, <1>2 DEF OInv
  <2>2. PICK slot : File(slot) /\ Single(slot)
    BY Zenon, <1>2 DEF OInv
  <2>3. \E slot2 : File(slot2)' /\ Single(slot2)'
    BY Zenon, <2>1, <2>2, ListInvFacts, CountsAddUp, NextSingle
  <2>4. FL!Next \/ UNCHANGED FL!vars
    BY Zenon, <2>1, <2>2, ListInvFacts, NextFile
  <2>5. ~aba' => ListInv'
    BY Zenon, <2>1, <2>4, ListInvKept
  <2>6. QED
    BY Zenon, <2>3, <2>5 DEF OInv
<1>3. QED
  BY Zenon, <1>1, <1>2

(* So it always holds.                                                     *)
LEMMA AlwaysOInv ==
    ASSUME OneWriter
    PROVE  Spec => []OInv
<1>1. OInv /\ [Next]_vars => OInv'
  BY Zenon, NextOInv
<1>2. QED
  BY <1>1, InitOInv, PTL DEF Spec

(* When no file has two writers, and until allocBlock has handed a block   *)
(* out twice: the block that a finished write went to stays the one that   *)
(* getBlockNum returns, however many other files are written meanwhile.    *)
THEOREM WritesStayMapped ==
    ASSUME OneWriter
    PROVE  Spec => []WrittenStaysMapped
<1>1. OInv => WrittenStaysMapped
  BY Zenon, DataInPlace DEF OInv, Single, DoneInPlace, WrittenStaysMapped
<1>2. QED
  BY <1>1, AlwaysOInv, PTL

(* Under the same conditions: allocations that fail half way included,     *)
(* when nobody is inside write every block in use is reachable from an     *)
(* inode, and nobody holds one.                                            *)
THEOREM NoBlockLeaks ==
    ASSUME OneWriter
    PROVE  Spec => []NothingLeaked
<1>1. OInv => NothingLeaked
  BY Zenon, ListInvFacts, AllReachable DEF OInv, NothingLeaked
<1>2. QED
  BY <1>1, AlwaysOInv, PTL

(* Under the same conditions: INO_BLOCKS is the number of data blocks of   *)
(* the file whenever nobody is inside write.                               *)
THEOREM FileBlocksCounted ==
    ASSUME OneWriter
    PROVE  Spec => []BlocksCounted
<1>1. OInv => BlocksCounted
  BY Zenon, CountsAgree DEF OInv, BlocksCounted
<1>2. QED
  BY <1>1, AlwaysOInv, PTL
=============================================================================
