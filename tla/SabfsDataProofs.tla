--------------------------- MODULE SabfsDataProofs ---------------------------
(***************************************************************************)
(* Proofs about SabfsData: for any files, descriptors, block size and      *)
(* number of blocks, what read returns is what POSIX says, in every file   *)
(* that the code has not let differ.                                       *)
(***************************************************************************)
EXTENDS SabfsData, FiniteSetTheorems, WellFoundedInduction, NaturalsInduction, TLAPS

(* Products keep the order of their factors.                               *)
LEMMA TimesMono ==
    ASSUME NEW a \in Int, NEW b \in Int, NEW c \in Nat \ {0}, a <= b
    PROVE  a * c \in Int /\ b * c \in Int /\ a * c <= b * c
  OBVIOUS

(* A byte lies in its block (i \div BlockSize).                            *)
LEMMA DivBounds ==
    ASSUME NEW a \in Nat, NEW c \in Nat \ {0}
    PROVE  a \div c \in Nat /\ (a \div c) * c <= a /\ a < (a \div c + 1) * c
  OBVIOUS

(* A byte before the start of a block lies in an earlier one.              *)
LEMMA DivLess ==
    ASSUME NEW a \in Nat, NEW m \in Int, NEW c \in Nat \ {0}, a < m * c
    PROVE  a \div c < m
<1>1. PICK q \in Nat : q = a \div c /\ q * c <= a
  BY Zenon, DivBounds
<1>2. ASSUME m <= q PROVE FALSE
  BY <1>1, <1>2, TimesMono
<1>. QED
  BY <1>1, <1>2

(* Later bytes lie in later blocks.                                        *)
LEMMA DivMono ==
    ASSUME NEW a \in Nat, NEW b \in Nat, NEW c \in Nat \ {0}, a <= b
    PROVE  a \div c <= b \div c
<1>1. PICK q \in Nat : q = b \div c /\ b < (q + 1) * c
  BY Zenon, DivBounds
<1>2. a < (q + 1) * c
  BY <1>1
<1>3. a \div c < q + 1
  BY <1>2, DivLess
<1>4. a \div c \in Nat
  BY Zenon, DivBounds
<1>. QED
  BY <1>1, <1>3, <1>4

(* The larger and the smaller of two numbers.                              *)
LEMMA TwoNumbers ==
    ASSUME NEW a \in Int, NEW b \in Int
    PROVE  /\ Max({a, b}) = IF a >= b THEN a ELSE b
           /\ Min({a, b}) = IF a <= b THEN a ELSE b
<1>1. \E x \in {a, b} : \A y \in {a, b} : x >= y
  OBVIOUS
<1>2. \E x \in {a, b} : \A y \in {a, b} : x <= y
  OBVIOUS
<1>3. Max({a, b}) \in {a, b} /\ Max({a, b}) >= a /\ Max({a, b}) >= b
  BY Zenon, <1>1 DEF Max
<1>4. Min({a, b}) \in {a, b} /\ Min({a, b}) <= a /\ Min({a, b}) <= b
  BY Zenon, <1>2 DEF Min
<1>. QED
  BY <1>3, <1>4

(* A non-empty set of naturals has a least element.                        *)
LEMMA LeastNumber ==
    ASSUME NEW T \in SUBSET Nat, T # {}
    PROVE  Min(T) \in T /\ \A y \in T : Min(T) <= y
<1>. DEFINE R == OpToRel(<, Nat)
<1>1. \A x, y \in Nat : y < x => <<y, x>> \in R
  BY Zenon DEF OpToRel
<1>2. IsWellFoundedOn(R, Nat)
  BY Zenon, NatLessThanWellFounded
<1>. HIDE DEF R
<1>3. PICK x \in T : \A y \in T : <<y, x>> \notin R
  BY Zenon, <1>2, WFMin
<1>4. \A y \in T : ~(y < x)
  BY Zenon, <1>1, <1>3
<1>5. \A y \in T : x <= y
  BY <1>3, <1>4
<1>. QED
  BY Zenon, <1>3, <1>5 DEF Min

(* A bounded one has a greatest.                                           *)
LEMMA GreatestNumber ==
    ASSUME NEW T \in SUBSET Nat, T # {}, NEW u \in Nat, \A y \in T : y <= u
    PROVE  \E x \in T : \A y \in T : y <= x
<1>. DEFINE D == {u - y : y \in T}
<1>1. D \in SUBSET Nat /\ D # {}
  <2>1. \A y \in T : u - y \in Nat
    OBVIOUS
  <2>2. PICK y \in T : TRUE
    BY Zenon
  <2>3. u - y \in D
    BY Zenon, <2>2
  <2>. QED
    BY Zenon, <2>1, <2>3
<1>2. PICK e \in D : \A z \in D : e <= z
  BY Zenon, <1>1, LeastNumber
<1>3. PICK x \in T : e = u - x
  BY Zenon, <1>2
<1>4. ASSUME NEW y \in T PROVE y <= x
  <2>1. u - x <= u - y
    BY Zenon, <1>2, <1>3
  <2>. QED
    BY <2>1
<1>. QED
  BY Zenon, <1>4

-----------------------------------------------------------------------------
(* The blocks a write still needs (698-708): none past its last byte.      *)
LEMMA NeedsAre ==
    ASSUME NEW f, NEW pos \in Nat, NEW count \in Nat
    PROVE  /\ Needs(f, pos, count) \subseteq Nat /\ IsFiniteSet(Needs(f, pos, count))
           /\ \A b \in Needs(f, pos, count) : count > 0 /\ b <= (pos + count - 1) \div BlockSize
<1>1. CASE count = 0
  BY Zenon, <1>1, FS_EmptySet DEF Needs
<1>2. CASE count # 0
  <2>1. PICK lo \in Nat : lo = pos \div BlockSize
    BY Zenon, DataAssumption, DivBounds
  <2>2. PICK hi \in Nat : hi = (pos + count - 1) \div BlockSize
    <3>1. pos + count - 1 \in Nat
      BY <1>2
    <3>. QED
      BY Zenon, <3>1, DataAssumption, DivBounds
  <2>3. Needs(f, pos, count) = (lo .. hi) \ mapped[f]
    BY Zenon, <1>2, <2>1, <2>2 DEF Needs
  <2>4. IsFiniteSet(lo .. hi)
    BY FS_Interval
  <2>5. IsFiniteSet(Needs(f, pos, count))
    BY Zenon, <2>3, <2>4, FS_Difference
  <2>. QED
    BY <1>2, <2>2, <2>3, <2>5
<1>. QED
  BY Zenon, <1>1, <1>2

(* It gets no more of them than are free (702-708).                        *)
LEMMA GotAtMostFree ==
    ASSUME NEW f, NEW pos \in Nat, NEW count \in Nat, free \in Nat
    PROVE  /\ Got(f, pos, count) \subseteq Needs(f, pos, count)
           /\ Cardinality(Got(f, pos, count)) \in 0 .. free
<1>. DEFINE N == Needs(f, pos, count)
            G == Got(f, pos, count)
<1>1. G \subseteq N /\ N \subseteq Nat /\ IsFiniteSet(N)
  BY Zenon, NeedsAre DEF Got
<1>2. IsFiniteSet(G)
  BY Zenon, <1>1, FS_Subset
<1>3. CASE G = {}
  BY <1>1, <1>3, FS_EmptySet
<1>4. CASE G # {}
  <2>1. PICK u \in Nat : u = (pos + count - 1) \div BlockSize
    <3>1. PICK b \in N : TRUE
      BY Zenon, <1>1, <1>4
    <3>2. count > 0
      BY Zenon, <3>1, NeedsAre
    <3>3. pos + count - 1 \in Nat
      BY <3>2
    <3>. QED
      BY Zenon, <3>3, DataAssumption, DivBounds
  <2>2. \A y \in G : y <= u
    BY Zenon, <1>1, <2>1, NeedsAre
  <2>3. PICK b \in G : \A y \in G : y <= b
    BY Zenon, <1>1, <1>4, <2>2, GreatestNumber
  <2>4. PICK C : C = {c \in N : c <= b}
    BY Zenon
  <2>5. Cardinality(C) <= free
    BY Zenon, <2>3, <2>4 DEF Got
  <2>6. C \subseteq N /\ G \subseteq C
    BY Zenon, <1>1, <2>3, <2>4
  <2>7. IsFiniteSet(C)
    BY Zenon, <1>1, <2>6, FS_Subset
  <2>8. Cardinality(G) <= Cardinality(C)
    BY Zenon, <2>6, <2>7, FS_Subset
  <2>9. Cardinality(G) \in Nat /\ Cardinality(C) \in Nat
    BY Zenon, <1>2, <2>7, FS_CardinalityType
  <2>. QED
    BY <1>1, <2>5, <2>8, <2>9
<1>. QED
  BY Zenon, <1>3, <1>4

(* Every byte it counts as written lies in a block the file has (696-714). *)
LEMMA WrittenIs ==
    ASSUME NEW f, NEW pos \in Nat, NEW count \in Nat
    PROVE  /\ Written(f, pos, count) \in 0 .. count
           /\ \A i \in pos .. pos + Written(f, pos, count) - 1 :
                 i \div BlockSize \in mapped[f] \union Got(f, pos, count)
<1>. DEFINE N == Needs(f, pos, count)
            M == N \ Got(f, pos, count)
<1>0. BlockSize \in Nat \ {0} /\ N \subseteq Nat
  BY Zenon, DataAssumption, NeedsAre
<1>1. ASSUME NEW i \in pos .. pos + count - 1, i \div BlockSize \notin M
      PROVE  i \div BlockSize \in mapped[f] \union Got(f, pos, count)
  <2>1. i \in Nat /\ count # 0 /\ pos + count - 1 \in Nat /\ pos <= i /\ i <= pos + count - 1
    OBVIOUS
  <2>2. pos \div BlockSize <= i \div BlockSize /\ i \div BlockSize <= (pos + count - 1) \div BlockSize
    BY Zenon, <1>0, <2>1, DivMono
  <2>3. pos \div BlockSize \in Nat /\ i \div BlockSize \in Nat /\ (pos + count - 1) \div BlockSize \in Nat
    BY Zenon, <1>0, <2>1, DivBounds
  <2>4. i \div BlockSize \in pos \div BlockSize .. (pos + count - 1) \div BlockSize
    BY <2>2, <2>3
  <2>. QED
    BY Zenon, <1>1, <2>1, <2>4 DEF Needs
<1>2. CASE M = {}
  <2>1. Written(f, pos, count) = count
    BY Zenon, <1>2 DEF Written
  <2>. QED
    BY <1>1, <1>2, <2>1
<1>3. CASE M # {}
  <2>1. M \in SUBSET Nat
    BY Zenon, <1>0
  <2>2. Min(M) \in M /\ \A y \in M : Min(M) <= y
    BY Zenon, <1>3, <2>1, LeastNumber
  <2>3. PICK m \in Nat : m = Min(M)
    BY Zenon, <2>1, <2>2
  <2>4. m * BlockSize \in Nat
    BY <1>0
  <2>5. PICK w \in Int : w = m * BlockSize - pos
    BY <2>4
  <2>6. Written(f, pos, count) = Max({0, w})
    BY Zenon, <1>3, <2>3, <2>5 DEF Written
  <2>7. Written(f, pos, count) = IF 0 >= w THEN 0 ELSE w
    BY <2>6, TwoNumbers
  <2>8. w <= count
    <3>1. count > 0 /\ m <= (pos + count - 1) \div BlockSize
      BY Zenon, <2>2, <2>3, NeedsAre
    <3>2. pos + count - 1 \in Nat
      BY <3>1
    <3>3. PICK q \in Nat : q = (pos + count - 1) \div BlockSize /\ q * BlockSize <= pos + count - 1
      BY Zenon, <1>0, <3>2, DivBounds
    <3>4. m * BlockSize <= q * BlockSize /\ q * BlockSize \in Int
      BY <1>0, <3>1, <3>3, TimesMono
    <3>. QED
      BY <2>4, <2>5, <3>3, <3>4
  <2>9. ASSUME NEW i \in pos .. pos + Written(f, pos, count) - 1
        PROVE  i \in pos .. pos + count - 1 /\ i \div BlockSize \notin M
    <3>1. i \in Nat /\ i < m * BlockSize /\ i <= pos + count - 1 /\ pos <= i
      BY <2>4, <2>5, <2>7, <2>8
    <3>2. i \div BlockSize < m
      BY <1>0, <3>1, DivLess
    <3>3. i \div BlockSize \in Nat
      BY Zenon, <1>0, <3>1, DivBounds
    <3>4. i \div BlockSize \in M => m <= i \div BlockSize
      BY Zenon, <2>2, <2>3
    <3>5. i \div BlockSize \notin M
      BY <3>2, <3>3, <3>4
    <3>6. i \in pos .. pos + count - 1
      BY <3>1
    <3>. QED
      BY Zenon, <3>5, <3>6
  <2>. QED
    BY <1>1, <2>5, <2>7, <2>8, <2>9
<1>. QED
  BY Zenon, <1>2, <1>3

-----------------------------------------------------------------------------
(* A file that has not strayed has POSIX's length, and its bytes below it. *)
Kept(f) ==
    /\ size[f] = ref[f].len
    /\ \A i \in Bytes : i < size[f] => data[f][i] = ref[f].bytes[i]

(* POSIX's file has its type, and zeroes past its end.                     *)
RefOK ==
    /\ ref \in [Files -> [len : 0 .. MaxByte, bytes : [Bytes -> Values \union {0}]]]
    /\ \A f \in Files, i \in Bytes : i >= ref[f].len => ref[f].bytes[i] = 0

(* Only a mapped block holds anything but zeroes.                          *)
HolesZero == \A f \in Files, i \in Bytes : data[f][i] # 0 => i \div BlockSize \in mapped[f]

(* The files.                                                              *)
FileInv ==
    /\ size \in [Files -> 0 .. MaxByte] /\ data \in [Files -> [Bytes -> Values \union {0}]]
    /\ mapped \in [Files -> SUBSET Blocks] /\ free \in 0 .. DataBlocks /\ strayed \in SUBSET Files
    /\ RefOK /\ HolesZero
    /\ \A f \in Files \ strayed : Kept(f)

(* Every descriptor stands where POSIX says, on a strayed file too.        *)
TableInv ==
    /\ fdTable \in [Fds -> [file : Files, pos : 0 .. MaxByte, append : BOOLEAN] \union {NIL}]
    /\ at \in [Fds -> 0 .. MaxByte]
    /\ \A d \in Fds : fdTable[d] # NIL => fdTable[d].pos = at[d]

(* The inductive invariant.                                                *)
DataInv == FileInv /\ TableInv

-----------------------------------------------------------------------------
(* read (660-680) returns no byte past the end of the file.                *)
LEMMA ReadFits ==
    ASSUME FileInv, NEW f \in Files, NEW pos \in 0 .. MaxByte, NEW count \in Nat
    PROVE  Len(ReadAt(f, pos, count)) \in Nat /\ pos + Len(ReadAt(f, pos, count)) <= MaxByte
<1>. DEFINE toRead == IF pos >= size[f] THEN 0 ELSE Min({count, size[f] - pos})
<1>0. MaxByte \in Nat /\ size[f] \in 0 .. MaxByte
  BY Zenon, DataAssumption DEF FileInv
<1>1. toRead \in Nat /\ pos + toRead <= MaxByte
  <2>1. CASE pos >= size[f]
    BY <1>0, <2>1
  <2>2. CASE ~(pos >= size[f])
    <3>1. PICK k \in Nat : k = size[f] - pos
      BY <1>0, <2>2
    <3>a. k \in Int /\ count \in Int
      OBVIOUS
    <3>2. Min({count, k}) = IF count <= k THEN count ELSE k
      BY Zenon, <3>a, TwoNumbers
    <3>3. toRead = IF count <= k THEN count ELSE k
      BY Zenon, <2>2, <3>1, <3>2
    <3>. QED
      BY <1>0, <3>1, <3>3
  <2>. QED
    BY Zenon, <2>1, <2>2
<1>2. PICK k \in Nat : k = toRead
  BY Zenon, <1>1
<1>3. ReadAt(f, pos, count) = [i \in 1 .. k |->
            IF (pos + i - 1) \div BlockSize \in mapped[f] THEN data[f][pos + i - 1] ELSE 0]
  BY Zenon, <1>2 DEF ReadAt
<1>4. Len(ReadAt(f, pos, count)) = k
  BY <1>3
<1>. QED
  BY Zenon, <1>1, <1>2, <1>4

(* In a file that has not strayed it returns the bytes POSIX says.         *)
LEMMA ReadAgrees ==
    ASSUME FileInv, NEW f \in Files \ strayed, NEW pos \in Nat, NEW count \in Nat
    PROVE  ReadAt(f, pos, count) = RefAt(f, pos, count)
<1>0. /\ MaxByte \in Nat /\ size[f] \in 0 .. MaxByte /\ size[f] = ref[f].len
      /\ \A i \in Bytes : i < size[f] => data[f][i] = ref[f].bytes[i]
      /\ \A i \in Bytes : data[f][i] # 0 => i \div BlockSize \in mapped[f]
  BY Zenon, DataAssumption DEF FileInv, Kept, HolesZero
<1>1. PICK k \in Int : k = size[f] - pos
  BY <1>0
<1>2. PICK m \in Int : m = Min({count, k}) /\ m <= k /\ (k <= 0 => m <= 0)
  <2>1. Min({count, k}) = IF count <= k THEN count ELSE k
    BY TwoNumbers
  <2>. QED
    BY <2>1
<1>3. RefAt(f, pos, count) = [i \in 1 .. m |-> ref[f].bytes[pos + i - 1]]
  BY Zenon, <1>0, <1>1, <1>2 DEF RefAt
<1>4. CASE pos >= size[f]
  <2>1. ReadAt(f, pos, count) = [i \in 1 .. 0 |->
            IF (pos + i - 1) \div BlockSize \in mapped[f] THEN data[f][pos + i - 1] ELSE 0]
    BY Zenon, <1>4 DEF ReadAt
  <2>2. 1 .. m = {} /\ 1 .. 0 = {}
    BY <1>0, <1>1, <1>2, <1>4
  <2>. QED
    BY Zenon, <1>3, <2>1, <2>2
<1>5. CASE ~(pos >= size[f])
  <2>1. ReadAt(f, pos, count) = [i \in 1 .. m |->
            IF (pos + i - 1) \div BlockSize \in mapped[f] THEN data[f][pos + i - 1] ELSE 0]
    BY Zenon, <1>1, <1>2, <1>5 DEF ReadAt
  <2>2. ASSUME NEW i \in 1 .. m
        PROVE  (IF (pos + i - 1) \div BlockSize \in mapped[f] THEN data[f][pos + i - 1] ELSE 0)
                  = ref[f].bytes[pos + i - 1]
    <3>1. PICK j \in Bytes : j = pos + i - 1 /\ j < size[f]
      BY <1>0, <1>1, <1>2 DEF Bytes
    <3>. QED
      BY Zenon, <1>0, <3>1
  <2>. QED
    BY Zenon, <1>3, <2>1, <2>2
<1>. QED
  BY Zenon, <1>0, <1>4, <1>5

-----------------------------------------------------------------------------
(* A call that moves a descriptor where POSIX does keeps the table.        *)
LEMMA MoveTable ==
    ASSUME TableInv, NEW d \in Fds, fdTable[d] # NIL, NEW p \in 0 .. MaxByte,
           fdTable' = [fdTable EXCEPT ![d].pos = p], at' = [at EXCEPT ![d] = p]
    PROVE  TableInv'
<1>1. fdTable[d] \in [file : Files, pos : 0 .. MaxByte, append : BOOLEAN]
  BY Zenon DEF TableInv
<1>2. PICK r : r = [fdTable[d] EXCEPT !.pos = p]
  BY Zenon
<1>a. r.pos = p /\ r \in [file : Files, pos : 0 .. MaxByte, append : BOOLEAN]
  BY Zenon, <1>1, <1>2
<1>3. fdTable' = [fdTable EXCEPT ![d] = r]
  BY Zenon, <1>2
<1>. QED
  BY Zenon, <1>a, <1>3 DEF TableInv

(* pread and pwrite put the position back (729-747).                       *)
LEMMA RestoredSame ==
    ASSUME TableInv, NEW d \in Fds, fdTable[d] # NIL, NEW x
    PROVE  Restored(d, [fdTable EXCEPT ![d].pos = x]) = fdTable
<1>1. fdTable[d] \in [file : Files, pos : 0 .. MaxByte, append : BOOLEAN]
  BY Zenon DEF TableInv
<1>2. PICK r : r = [fdTable[d] EXCEPT !.pos = x]
  BY Zenon
<1>3. [r EXCEPT !.pos = fdTable[d].pos] = fdTable[d]
  BY Zenon, <1>1, <1>2
<1>4. PICK t : t = [fdTable EXCEPT ![d] = r]
  BY Zenon
<1>5. t[d] = r /\ DOMAIN t = Fds /\ DOMAIN fdTable = Fds
  BY Zenon, <1>4 DEF TableInv
<1>6. Restored(d, t) = [t EXCEPT ![d] = fdTable[d]]
  BY Zenon, <1>3, <1>5 DEF Restored
<1>7. [t EXCEPT ![d] = fdTable[d]] = fdTable
  BY Zenon, <1>4, <1>5 DEF TableInv
<1>. QED
  BY Zenon, <1>2, <1>4, <1>6, <1>7

-----------------------------------------------------------------------------
(* A call changes one file: what it must establish of that file.           *)
LEMMA OneFileChanges ==
    ASSUME FileInv, NEW f \in Files,
           size' \in [Files -> 0 .. MaxByte], data' \in [Files -> [Bytes -> Values \union {0}]],
           mapped' \in [Files -> SUBSET Blocks], free' \in 0 .. DataBlocks, strayed' \in SUBSET Files,
           ref' \in [Files -> [len : 0 .. MaxByte, bytes : [Bytes -> Values \union {0}]]],
           \A g \in Files : g # f => /\ size'[g] = size[g] /\ data'[g] = data[g]
                                    /\ mapped'[g] = mapped[g] /\ ref'[g] = ref[g],
           strayed' \ {f} = strayed \ {f},
           \A i \in Bytes : i >= ref'[f].len => ref'[f].bytes[i] = 0,
           \A i \in Bytes : data'[f][i] # 0 => i \div BlockSize \in mapped'[f],
           f \notin strayed' => size'[f] = ref'[f].len,
           f \notin strayed' => \A i \in Bytes : i < size'[f] => data'[f][i] = ref'[f].bytes[i]
    PROVE  FileInv'
<1>1. RefOK'
  <2>1. ASSUME NEW g \in Files, NEW i \in Bytes, i >= ref'[g].len PROVE ref'[g].bytes[i] = 0
    <3>1. CASE g = f
      BY Zenon, <2>1, <3>1
    <3>2. CASE g # f
      <4>1. ref'[g] = ref[g]
        BY Zenon, <3>2
      <4>2. i >= ref[g].len
        BY Zenon, <2>1, <4>1
      <4>. QED
        BY <4>1, <4>2 DEF FileInv, RefOK
    <3>. QED
      BY Zenon, <3>1, <3>2
  <2>. QED
    BY Zenon, <2>1 DEF RefOK, Bytes
<1>2. HolesZero'
  <2>1. ASSUME NEW g \in Files, NEW i \in Bytes, data'[g][i] # 0 PROVE i \div BlockSize \in mapped'[g]
    BY Zenon, <2>1 DEF FileInv, HolesZero
  <2>. QED
    BY Zenon, <2>1 DEF HolesZero, Bytes
<1>3. ASSUME NEW g \in Files, g \notin strayed' PROVE Kept(g)'
  <2>1. CASE g = f
    <3>1. f \notin strayed'
      BY Zenon, <1>3, <2>1
    <3>. QED
      BY Zenon, <2>1, <3>1 DEF Kept, Bytes
  <2>2. CASE g # f
    <3>1. g \notin strayed
      BY Zenon, <1>3, <2>2
    <3>2. Kept(g)
      BY Zenon, <3>1 DEF FileInv
    <3>. QED
      BY Zenon, <2>2, <3>2 DEF Kept, Bytes
  <2>. QED
    BY Zenon, <2>1, <2>2
<1>. QED
  BY Zenon, <1>1, <1>2, <1>3 DEF FileInv, Bytes, Blocks

(* Most calls change no file.                                              *)
LEMMA FilesSame ==
    ASSUME FileInv, UNCHANGED fileVars
    PROVE  FileInv'
  BY Zenon DEF FileInv, RefOK, HolesZero, Kept, fileVars, Bytes, Blocks

(* O_TRUNC empties the file (625-648).                                     *)
LEMMA EmptyFiles ==
    ASSUME FileInv, NEW f \in Files,
           size' = [size EXCEPT ![f] = 0], data' = [data EXCEPT ![f] = Zeroes],
           mapped' = [mapped EXCEPT ![f] = {}], free' = free,
           ref' = [ref EXCEPT ![f] = Empty], strayed' = strayed \ {f}
    PROVE  FileInv'
<1>0. /\ size \in [Files -> 0 .. MaxByte] /\ data \in [Files -> [Bytes -> Values \union {0}]]
      /\ mapped \in [Files -> SUBSET Blocks]
      /\ ref \in [Files -> [len : 0 .. MaxByte, bytes : [Bytes -> Values \union {0}]]]
  BY Zenon DEF FileInv, RefOK
<1>1. 0 \in 0 .. MaxByte /\ Zeroes \in [Bytes -> Values \union {0}] /\ \A i \in Bytes : Zeroes[i] = 0
  BY DataAssumption DEF Zeroes
<1>2. PICK r : r = Empty
  BY Zenon
<1>r. r \in [len : 0 .. MaxByte, bytes : [Bytes -> Values \union {0}]] /\ r.len = 0 /\ r.bytes = Zeroes
  BY Zenon, <1>1, <1>2 DEF Empty
<1>3. free' \in 0 .. DataBlocks /\ strayed' \in SUBSET Files /\ strayed' \ {f} = strayed \ {f}
  BY Zenon DEF FileInv
<1>4. /\ size' \in [Files -> 0 .. MaxByte] /\ data' \in [Files -> [Bytes -> Values \union {0}]]
      /\ mapped' \in [Files -> SUBSET Blocks]
  BY Zenon, <1>0, <1>1
<1>5. ref' \in [Files -> [len : 0 .. MaxByte, bytes : [Bytes -> Values \union {0}]]]
  BY Zenon, <1>0, <1>2, <1>r
<1>6. \A g \in Files : g # f => /\ size'[g] = size[g] /\ data'[g] = data[g]
                                 /\ mapped'[g] = mapped[g] /\ ref'[g] = ref[g]
  BY Zenon, <1>0
<1>7. size'[f] = 0 /\ data'[f] = Zeroes /\ ref'[f].len = 0 /\ ref'[f].bytes = Zeroes
  BY Zenon, <1>0, <1>2, <1>r
<1>8. /\ \A i \in Bytes : i >= ref'[f].len => ref'[f].bytes[i] = 0
      /\ \A i \in Bytes : data'[f][i] # 0 => i \div BlockSize \in mapped'[f]
      /\ f \notin strayed' => size'[f] = ref'[f].len
      /\ f \notin strayed' => \A i \in Bytes : i < size'[f] => data'[f][i] = ref'[f].bytes[i]
  BY Zenon, <1>1, <1>7
<1>. QED
  BY Zenon, <1>3, <1>4, <1>5, <1>6, <1>8, OneFileChanges

(* What becomes of the reference, which is dropped if the file has strayed. *)
LEMMA SetRefIs ==
    ASSUME RefOK, NEW f \in Files, NEW r \in [len : 0 .. MaxByte, bytes : [Bytes -> Values \union {0}]],
           \A i \in Bytes : i >= r.len => r.bytes[i] = 0, SetRef(f, r)
    PROVE  /\ ref' \in [Files -> [len : 0 .. MaxByte, bytes : [Bytes -> Values \union {0}]]]
           /\ \A g \in Files : g # f => ref'[g] = ref[g]
           /\ \A i \in Bytes : i >= ref'[f].len => ref'[f].bytes[i] = 0
           /\ f \notin strayed => ref'[f] = r
<1>1. 0 \in 0 .. MaxByte /\ Zeroes \in [Bytes -> Values \union {0}] /\ \A i \in Bytes : Zeroes[i] = 0
  BY DataAssumption DEF Zeroes
<1>2. PICK e : e = Empty
  BY Zenon
<1>3. e \in [len : 0 .. MaxByte, bytes : [Bytes -> Values \union {0}]] /\ e.len = 0 /\ e.bytes = Zeroes
  BY Zenon, <1>1, <1>2 DEF Empty
<1>4. PICK q \in [len : 0 .. MaxByte, bytes : [Bytes -> Values \union {0}]] :
          /\ q = IF f \in strayed THEN Empty ELSE r
          /\ \A i \in Bytes : i >= q.len => q.bytes[i] = 0
  BY Zenon, <1>1, <1>2, <1>3
<1>5. ref' = [ref EXCEPT ![f] = q] /\ ref \in [Files -> [len : 0 .. MaxByte, bytes : [Bytes -> Values \union {0}]]]
  BY Zenon, <1>4 DEF SetRef, RefOK
<1>6. ref'[f] = q
  BY Zenon, <1>5
<1>. QED
  BY Zenon, <1>4, <1>5, <1>6

(* truncate moves the end of the file (969-978): if that uncovers old      *)
(* bytes, the file strays, and otherwise it stays as POSIX says.           *)
LEMMA TruncateFiles ==
    ASSUME FileInv, NEW f \in Files, NEW n \in Lengths, Truncate(f, n)
    PROVE  FileInv'
<1>0. /\ n \in 0 .. MaxByte /\ MaxByte \in Nat /\ size[f] \in 0 .. MaxByte
      /\ ref[f] \in [len : 0 .. MaxByte, bytes : [Bytes -> Values \union {0}]]
      /\ data \in [Files -> [Bytes -> Values \union {0}]] /\ mapped \in [Files -> SUBSET Blocks]
      /\ \A i \in Bytes : i >= ref[f].len => ref[f].bytes[i] = 0
  BY Zenon, DataAssumption DEF FileInv, RefOK
<1>1. PICK cut : cut = [i \in Bytes |-> IF i < n THEN ref[f].bytes[i] ELSE 0]
  BY Zenon
<1>2. cut \in [Bytes -> Values \union {0}] /\ \A i \in Bytes : i >= n => cut[i] = 0
  <2>1. \A i \in Bytes : ref[f].bytes[i] \in Values \union {0}
    BY Zenon, <1>0
  <2>2. \A i \in Bytes : i \in Int
    BY DEF Bytes
  <2>. QED
    BY <1>0, <1>1, <2>1, <2>2
<1>3. /\ size' = [size EXCEPT ![f] = n] /\ SetRef(f, [len |-> n, bytes |-> cut])
      /\ strayed' = IF Exposes(f, n) THEN strayed \union {f} ELSE strayed
      /\ data' = data /\ mapped' = mapped /\ free' = free
  BY Zenon, <1>1 DEF Truncate
<1>a. /\ size \in [Files -> 0 .. MaxByte]
      /\ ref \in [Files -> [len : 0 .. MaxByte, bytes : [Bytes -> Values \union {0}]]]
  BY Zenon DEF FileInv, RefOK
<1>b. PICK r : r = [len |-> n, bytes |-> cut]
  BY Zenon
<1>r. r \in [len : 0 .. MaxByte, bytes : [Bytes -> Values \union {0}]] /\ r.len = n /\ r.bytes = cut
  BY Zenon, <1>0, <1>2, <1>b
<1>4. /\ size' \in [Files -> 0 .. MaxByte] /\ data' \in [Files -> [Bytes -> Values \union {0}]]
      /\ mapped' \in [Files -> SUBSET Blocks]
  BY Zenon, <1>0, <1>a, <1>3
<1>c. /\ ref' \in [Files -> [len : 0 .. MaxByte, bytes : [Bytes -> Values \union {0}]]]
      /\ \A g \in Files : g # f => ref'[g] = ref[g]
      /\ \A i \in Bytes : i >= ref'[f].len => ref'[f].bytes[i] = 0
      /\ f \notin strayed => ref'[f] = r
  <2>1. RefOK /\ SetRef(f, r) /\ \A i \in Bytes : i >= r.len => r.bytes[i] = 0
    BY Zenon, <1>2, <1>b, <1>r, <1>3 DEF FileInv
  <2>. QED
    BY Zenon, <1>r, <2>1, SetRefIs
<1>5. \A g \in Files : g # f => /\ size'[g] = size[g] /\ data'[g] = data[g]
                                 /\ mapped'[g] = mapped[g] /\ ref'[g] = ref[g]
  BY Zenon, <1>3, <1>a, <1>c
<1>d. /\ size'[f] = n /\ data'[f] = data[f] /\ mapped'[f] = mapped[f]
      /\ f \notin strayed => ref'[f].len = n /\ ref'[f].bytes = cut
      /\ f \in strayed => f \in strayed'
  BY Zenon, <1>3, <1>a, <1>c, <1>r
<1>6. free' \in 0 .. DataBlocks /\ strayed' \in SUBSET Files /\ strayed' \ {f} = strayed \ {f}
  BY Zenon, <1>3 DEF FileInv
<1>7. \A i \in Bytes : data[f][i] # 0 => i \div BlockSize \in mapped[f]
  BY Zenon DEF FileInv, HolesZero
<1>8. ASSUME f \notin strayed', NEW i \in Bytes, i < n PROVE data[f][i] = cut[i]
  <2>1. f \notin strayed /\ ~Exposes(f, n)
    BY Zenon, <1>3, <1>8
  <2>2. Kept(f)
    BY Zenon, <2>1 DEF FileInv
  <2>3. cut[i] = ref[f].bytes[i] /\ i \in Int
    BY <1>1, <1>8 DEF Bytes
  <2>4. CASE i < size[f]
    BY Zenon, <2>2, <2>3, <2>4 DEF Kept
  <2>5. CASE ~(i < size[f])
    <3>1. i \in size[f] .. n - 1
      BY <1>0, <1>8, <2>3, <2>5
    <3>2. data[f][i] = 0
      BY Zenon, <2>1, <3>1 DEF Exposes
    <3>3. ref[f].bytes[i] = 0
      BY <1>0, <2>2, <2>3, <2>5 DEF Kept
    <3>. QED
      BY Zenon, <2>3, <3>2, <3>3
  <2>. QED
    BY Zenon, <2>4, <2>5
<1>9. /\ \A i \in Bytes : i >= ref'[f].len => ref'[f].bytes[i] = 0
      /\ \A i \in Bytes : data'[f][i] # 0 => i \div BlockSize \in mapped'[f]
      /\ f \notin strayed' => size'[f] = ref'[f].len
      /\ f \notin strayed' => \A i \in Bytes : i < size'[f] => data'[f][i] = ref'[f].bytes[i]
  BY Zenon, <1>c, <1>d, <1>7, <1>8
<1>. QED
  BY Zenon, <1>4, <1>5, <1>6, <1>c, <1>9, OneFileChanges

-----------------------------------------------------------------------------
(* The bytes that a write puts (710-713).                                  *)
LEMMA PutIs ==
    ASSUME NEW b \in [Bytes -> Values \union {0}], NEW pos \in Nat, NEW n \in Nat, NEW v \in Values
    PROVE  /\ Put(b, pos, n, v) \in [Bytes -> Values \union {0}]
           /\ \A i \in Bytes : Put(b, pos, n, v)[i] = IF pos <= i /\ i < pos + n THEN v ELSE b[i]
<1>1. \A i \in Bytes : i \in pos .. pos + n - 1 <=> pos <= i /\ i < pos + n
  BY DEF Bytes
<1>2. \A i \in Bytes : Put(b, pos, n, v)[i] = IF i \in pos .. pos + n - 1 THEN v ELSE b[i]
  BY Zenon DEF Put
<1>3. Put(b, pos, n, v) \in [Bytes -> Values \union {0}]
  BY Zenon DEF Put
<1>. QED
  BY Zenon, <1>1, <1>2, <1>3

(* The blocks a write gets are within the bound on positions.              *)
LEMMA GotAreBlocks ==
    ASSUME NEW f, NEW pos \in Nat, NEW count \in Nat, pos + count <= MaxByte
    PROVE  Got(f, pos, count) \subseteq Blocks
<1>1. ASSUME NEW b \in Got(f, pos, count) PROVE b \in Blocks
  <2>1. b \in Needs(f, pos, count)
    BY Zenon DEF Got
  <2>2. b \in Nat /\ count > 0 /\ b <= (pos + count - 1) \div BlockSize
    BY Zenon, <2>1, NeedsAre
  <2>3. pos + count - 1 \in Nat /\ MaxByte \in Nat /\ pos + count - 1 <= MaxByte /\ BlockSize \in Nat \ {0}
    BY <2>2, DataAssumption
  <2>4. (pos + count - 1) \div BlockSize <= MaxByte \div BlockSize
    BY Zenon, <2>3, DivMono
  <2>5. (pos + count - 1) \div BlockSize \in Nat /\ MaxByte \div BlockSize \in Nat
    BY Zenon, <2>3, DivBounds
  <2>. QED
    BY <2>2, <2>4, <2>5 DEF Blocks
<1>. QED
  BY Zenon, <1>1

(* The write loop and the new size (696-724): the bytes it puts lie in     *)
(* mapped blocks, and a file in which no old byte was uncovered stays as   *)
(* POSIX says.                                                             *)
LEMMA WriteFiles ==
    ASSUME FileInv, NEW f \in Files, NEW pos \in Nat, NEW rpos \in Nat, NEW count \in Nat,
           NEW v \in Values, NEW e \in BOOLEAN, f \notin strayed => rpos = pos \/ e,
           WriteAt(f, pos, rpos, count, v, e)
    PROVE  FileInv' /\ pos + Written(f, pos, count) \in 0 .. MaxByte
<1>0. /\ size \in [Files -> 0 .. MaxByte] /\ data \in [Files -> [Bytes -> Values \union {0}]]
      /\ mapped \in [Files -> SUBSET Blocks] /\ free \in 0 .. DataBlocks
      /\ ref \in [Files -> [len : 0 .. MaxByte, bytes : [Bytes -> Values \union {0}]]]
      /\ MaxByte \in Nat /\ DataBlocks \in Nat /\ \A i \in Bytes : i \in Nat
      /\ 0 \notin Values
  BY DataAssumption DEF FileInv, RefOK, Bytes
<1>1. PICK n \in Nat : n = Written(f, pos, count)
  <2>1. Written(f, pos, count) \in 0 .. count
    BY Zenon, WrittenIs
  <2>. QED
    BY <2>1
<1>2. n <= count /\ pos + count <= MaxByte /\ rpos + count <= MaxByte
  <2>1. {pos, rpos} \subseteq 0 .. MaxByte - count
    BY Zenon DEF WriteAt
  <2>2. n \in 0 .. count
    BY Zenon, <1>1, WrittenIs
  <2>. QED
    BY <1>0, <2>1, <2>2
<1>3. PICK s \in 0 .. MaxByte : s = IF size[f] >= pos + n THEN size[f] ELSE pos + n
  <2>1. size[f] \in 0 .. MaxByte /\ pos + n \in 0 .. MaxByte
    BY <1>0, <1>2
  <2>. QED
    BY Zenon, <2>1
<1>e. s = Max({size[f], pos + n})
  <2>1. size[f] \in Int /\ pos + n \in Int
    BY <1>0
  <2>2. Max({size[f], pos + n}) = IF size[f] >= pos + n THEN size[f] ELSE pos + n
    BY Zenon, <2>1, TwoNumbers
  <2>. QED
    BY Zenon, <1>3, <2>2
<1>4. PICK b \in [Bytes -> Values \union {0}] : b = Put(data[f], pos, n, v)
  BY Zenon, <1>0, PutIs
<1>5. \A i \in Bytes : b[i] = IF pos <= i /\ i < pos + n THEN v ELSE data[f][i]
  <2>1. PICK x \in [Bytes -> Values \union {0}] : x = data[f]
    BY Zenon, <1>0
  <2>2. \A i \in Bytes : Put(x, pos, n, v)[i] = IF pos <= i /\ i < pos + n THEN v ELSE x[i]
    BY PutIs
  <2>. QED
    BY Zenon, <1>4, <2>1, <2>2
<1>6. PICK m \in SUBSET Blocks : m = mapped[f] \union Got(f, pos, count)
  BY Zenon, <1>0, <1>2, GotAreBlocks
<1>7. /\ size' = [size EXCEPT ![f] = s] /\ data' = [data EXCEPT ![f] = b]
      /\ mapped' = [mapped EXCEPT ![f] = m] /\ free' = free - Cardinality(Got(f, pos, count))
      /\ strayed' = IF Exposes(f, pos) \/ (IF n = 0 THEN pos > size[f] ELSE e)
                    THEN strayed \union {f} ELSE strayed
  BY Zenon, <1>1, <1>e, <1>4, <1>6 DEF WriteAt
<1>8. /\ size' \in [Files -> 0 .. MaxByte] /\ data' \in [Files -> [Bytes -> Values \union {0}]]
      /\ mapped' \in [Files -> SUBSET Blocks]
      /\ size'[f] = s /\ data'[f] = b /\ mapped'[f] = m
      /\ \A g \in Files : g # f => size'[g] = size[g] /\ data'[g] = data[g] /\ mapped'[g] = mapped[g]
  BY Zenon, <1>0, <1>7
<1>9. free' \in 0 .. DataBlocks
  <2>a. free \in Nat
    BY <1>0
  <2>b. Cardinality(Got(f, pos, count)) \in 0 .. free
    BY Zenon, <2>a, GotAtMostFree
  <2>1. PICK k \in 0 .. free : k = Cardinality(Got(f, pos, count))
    BY Zenon, <2>b
  <2>. QED
    BY <1>0, <1>7, <2>1
<1>10. strayed' \in SUBSET Files /\ strayed' \ {f} = strayed \ {f}
  BY Zenon, <1>7 DEF FileInv
<1>a. PICK x \in 0 .. MaxByte : x = ref[f].len
  BY Zenon, <1>0
<1>b. PICK y \in 0 .. MaxByte : y = rpos + n
  BY <1>0, <1>2
<1>c. PICK l \in 0 .. MaxByte : l = IF x >= y THEN x ELSE y
  BY Zenon
<1>d. l >= x /\ l >= y
  BY <1>0, <1>c
<1>11. l = Max({ref[f].len, rpos + n})
  <2>1. x \in Int /\ y \in Int
    BY <1>0
  <2>2. Max({x, y}) = IF x >= y THEN x ELSE y
    BY Zenon, <2>1, TwoNumbers
  <2>. QED
    BY Zenon, <1>a, <1>b, <1>c, <2>2
<1>12. PICK rb \in [Bytes -> Values \union {0}] : rb = Put(ref[f].bytes, rpos, n, v)
  <2>1. ref[f].bytes \in [Bytes -> Values \union {0}]
    BY Zenon, <1>0
  <2>. QED
    BY Zenon, <2>1, PutIs
<1>13. \A i \in Bytes : rb[i] = IF rpos <= i /\ i < rpos + n THEN v ELSE ref[f].bytes[i]
  <2>1. PICK old \in [Bytes -> Values \union {0}] : old = ref[f].bytes
    BY Zenon, <1>0
  <2>2. /\ Put(old, rpos, n, v) \in [Bytes -> Values \union {0}]
        /\ \A i \in Bytes : Put(old, rpos, n, v)[i] = IF rpos <= i /\ i < rpos + n THEN v ELSE old[i]
    BY ZenonT(30), PutIs
  <2>. QED
    BY Zenon, <1>12, <2>1, <2>2
<1>14. PICK w : w = [len |-> l, bytes |-> rb]
  BY Zenon
<1>15. w \in [len : 0 .. MaxByte, bytes : [Bytes -> Values \union {0}]] /\ w.len = l /\ w.bytes = rb
  BY Zenon, <1>14
<1>16. PICK r \in [len : 0 .. MaxByte, bytes : [Bytes -> Values \union {0}]] : r = IF n = 0 THEN ref[f] ELSE w
  BY Zenon, <1>0, <1>15
<1>17. SetRef(f, r)
  BY Zenon, <1>1, <1>11, <1>12, <1>14, <1>16 DEF WriteAt
<1>18. \A i \in Bytes : i >= ref[f].len => ref[f].bytes[i] = 0
  BY Zenon DEF FileInv, RefOK
<1>19. ASSUME NEW i \in Bytes, i >= r.len PROVE r.bytes[i] = 0
  <2>1. CASE n = 0
    BY Zenon, <1>16, <1>18, <1>19, <2>1
  <2>2. CASE n # 0
    <3>1. i >= l /\ ref[f].len \in Nat
      BY <1>0, <1>15, <1>16, <1>19, <2>2
    <3>a. l >= ref[f].len /\ l >= rpos + n
      BY Zenon, <1>a, <1>b, <1>d
    <3>b. i \in Nat /\ l \in Nat /\ rpos + n \in Nat
      BY <1>0
    <3>2. i >= ref[f].len /\ ~(i < rpos + n)
      BY <3>1, <3>a, <3>b
    <3>. QED
      BY Zenon, <1>13, <1>15, <1>16, <1>18, <2>2, <3>2
  <2>. QED
    BY Zenon, <2>1, <2>2
<1>s. /\ ref' \in [Files -> [len : 0 .. MaxByte, bytes : [Bytes -> Values \union {0}]]]
      /\ \A g \in Files : g # f => ref'[g] = ref[g]
      /\ \A i \in Bytes : i >= ref'[f].len => ref'[f].bytes[i] = 0
      /\ f \notin strayed => ref'[f] = r
  <2>1. RefOK
    BY Zenon DEF FileInv
  <2>. QED
    BY Zenon, <1>17, <1>19, <2>1, SetRefIs
<1>20. ASSUME NEW i \in Bytes, b[i] # 0 PROVE i \div BlockSize \in m
  <2>1. CASE pos <= i /\ i < pos + n
    <3>1. i \in pos .. pos + Written(f, pos, count) - 1
      BY <1>0, <1>1, <2>1
    <3>. QED
      BY Zenon, <1>6, <3>1, WrittenIs
  <2>2. CASE ~(pos <= i /\ i < pos + n)
    <3>1. data[f][i] # 0
      BY Zenon, <1>5, <1>20, <2>2
    <3>. QED
      BY Zenon, <1>6, <3>1 DEF FileInv, HolesZero
  <2>. QED
    BY Zenon, <2>1, <2>2
<1>21. ASSUME f \notin strayed'
       PROVE  s = ref'[f].len /\ \A i \in Bytes : i < s => b[i] = ref'[f].bytes[i]
  <2>1. /\ f \notin strayed /\ ~Exposes(f, pos) /\ ~(n = 0 /\ pos > size[f]) /\ (n # 0 => ~e)
        /\ ref'[f] = r
    BY Zenon, <1>7, <1>21, <1>s
  <2>2. Kept(f) /\ (n # 0 => rpos = pos)
    BY Zenon, <2>1 DEF FileInv
  <2>3. size[f] = ref[f].len /\ size[f] \in Nat
    BY <1>0, <2>2 DEF Kept
  <2>4. ASSUME NEW i \in Bytes, i < s, ~(pos <= i /\ i < pos + n)
        PROVE  data[f][i] = ref[f].bytes[i]
    <3>1. CASE i < size[f]
      BY Zenon, <2>2, <3>1 DEF Kept
    <3>2. CASE ~(i < size[f])
      <4>1. i \in size[f] .. pos - 1
        <5>1. i \in Nat /\ s \in Nat /\ pos + n \in Nat
          BY <1>0
        <5>2. s = pos + n
          BY Zenon, <1>3, <2>3, <2>4, <3>2, <5>1
        <5>. QED
          BY <2>3, <2>4, <3>2, <5>1, <5>2
      <4>2. data[f][i] = 0
        BY Zenon, <2>1, <4>1 DEF Exposes
      <4>3. i >= ref[f].len
        BY <1>0, <2>3, <3>2
      <4>. QED
        BY Zenon, <1>18, <4>2, <4>3
    <3>. QED
      BY Zenon, <3>1, <3>2
  <2>5. CASE n = 0
    <3>1. s = size[f]
      BY <1>3, <2>1, <2>3, <2>5
    <3>2. \A i \in Bytes : ~(pos <= i /\ i < pos + n)
      BY <1>0, <2>5
    <3>. QED
      BY Zenon, <1>5, <1>16, <2>1, <2>3, <2>4, <2>5, <3>1, <3>2
  <2>6. CASE n # 0
    <3>1. s = l
      <4>1. x = size[f] /\ y = pos + n
        BY Zenon, <1>a, <1>b, <2>2, <2>3, <2>6
      <4>2. l = IF size[f] >= pos + n THEN size[f] ELSE pos + n
        BY Zenon, <1>c, <4>1
      <4>3. s = IF size[f] >= pos + n THEN size[f] ELSE pos + n
        BY Zenon, <1>3
      <4>. QED
        BY Zenon, <4>2, <4>3
    <3>2. ASSUME NEW i \in Bytes, i < s PROVE b[i] = rb[i]
      BY Zenon, <1>5, <1>13, <2>2, <2>4, <2>6, <3>2
    <3>. QED
      BY Zenon, <1>15, <1>16, <2>1, <2>6, <3>1, <3>2
  <2>. QED
    BY Zenon, <2>5, <2>6
<1>22. /\ \A i \in Bytes : i >= ref'[f].len => ref'[f].bytes[i] = 0
       /\ \A i \in Bytes : data'[f][i] # 0 => i \div BlockSize \in mapped'[f]
       /\ f \notin strayed' => size'[f] = ref'[f].len
       /\ f \notin strayed' => \A i \in Bytes : i < size'[f] => data'[f][i] = ref'[f].bytes[i]
  BY Zenon, <1>8, <1>s, <1>20, <1>21
<1>23. \A g \in Files : g # f => /\ size'[g] = size[g] /\ data'[g] = data[g]
                                  /\ mapped'[g] = mapped[g] /\ ref'[g] = ref[g]
  BY Zenon, <1>8, <1>s
<1>24. FileInv'
  <2>1. /\ size' \in [Files -> 0 .. MaxByte] /\ data' \in [Files -> [Bytes -> Values \union {0}]]
        /\ mapped' \in [Files -> SUBSET Blocks]
    BY Zenon, <1>8
  <2>2. ref' \in [Files -> [len : 0 .. MaxByte, bytes : [Bytes -> Values \union {0}]]]
    BY Zenon, <1>s
  <2>. QED
    BY Zenon, <1>9, <1>10, <1>22, <1>23, <2>1, <2>2, OneFileChanges
<1>. QED
  BY <1>0, <1>1, <1>2, <1>24

-----------------------------------------------------------------------------
(* open (625-648) starts a descriptor at 0 or at the end of the file.      *)
LEMMA OpenKeeps ==
    ASSUME DataInv, NEW d \in Fds, NEW f \in Files, NEW append \in BOOLEAN, NEW trunc \in BOOLEAN,
           Open(d, f, append, trunc)
    PROVE  DataInv'
<1>1. FileInv'
  <2>1. CASE ~trunc
    <3>1. UNCHANGED fileVars
      BY Zenon, <2>1 DEF Open
    <3>. QED
      BY Zenon, <3>1, FilesSame DEF DataInv
  <2>2. CASE trunc
    <3>1. /\ size' = [size EXCEPT ![f] = 0] /\ data' = [data EXCEPT ![f] = Zeroes]
          /\ mapped' = [mapped EXCEPT ![f] = {}] /\ free' = free
          /\ ref' = [ref EXCEPT ![f] = Empty] /\ strayed' = strayed \ {f}
      BY Zenon, <2>2 DEF Open
    <3>. QED
      BY Zenon, <3>1, EmptyFiles DEF DataInv
  <2>. QED
    BY Zenon, <2>1, <2>2
<1>2. TableInv'
  <2>1. PICK start \in 0 .. MaxByte : start = IF append THEN size[f] ELSE 0
    BY DataAssumption DEF DataInv, FileInv
  <2>2. PICK r : r = [file |-> f, pos |-> start, append |-> append]
    BY Zenon
  <2>3. r.pos = start /\ r \in [file : Files, pos : 0 .. MaxByte, append : BOOLEAN]
    BY Zenon, <2>2
  <2>4. fdTable' = [fdTable EXCEPT ![d] = r] /\ at' = [at EXCEPT ![d] = start]
    BY Zenon, <2>1, <2>2 DEF Open
  <2>. QED
    BY Zenon, <2>3, <2>4 DEF DataInv, TableInv
<1>. QED
  BY Zenon, <1>1, <1>2 DEF DataInv

(* close (650-654).                                                        *)
LEMMA CloseKeeps ==
    ASSUME DataInv, NEW d \in Fds, Close(d)
    PROVE  DataInv'
<1>1. FileInv'
  BY Zenon, FilesSame DEF DataInv, Close
<1>2. 0 \in 0 .. MaxByte
  BY DataAssumption
<1>3. TableInv'
  BY Zenon, <1>2 DEF DataInv, TableInv, Close
<1>. QED
  BY Zenon, <1>1, <1>3 DEF DataInv

(* read (656-685) moves the descriptor by what it returned.                *)
LEMMA ReadKeeps ==
    ASSUME DataInv, NEW d \in Fds, NEW n \in Counts, Read(d, n)
    PROVE  DataInv'
<1>0. fdTable[d] # NIL /\ n \in Nat /\ FileInv /\ TableInv
  BY Zenon, DataAssumption DEF Read, DataInv
<1>1. PICK f \in Files : f = fdTable[d].file
  BY Zenon, <1>0 DEF TableInv
<1>2. PICK p \in 0 .. MaxByte : p = fdTable[d].pos /\ p = at[d]
  BY Zenon, <1>0 DEF TableInv
<1>3. PICK q : q = p + Len(ReadAt(f, p, n))
  BY Zenon
<1>4. q \in 0 .. MaxByte
  <2>1. Len(ReadAt(f, p, n)) \in Nat /\ p + Len(ReadAt(f, p, n)) <= MaxByte
    BY Zenon, <1>0, ReadFits
  <2>. QED
    BY <1>3, <2>1
<1>5. fdTable' = [fdTable EXCEPT ![d].pos = q]
  <2>1. d \in DOMAIN fdTable /\ fdTable[d] \in [file : Files, pos : 0 .. MaxByte, append : BOOLEAN]
    BY Zenon, <1>0 DEF TableInv
  <2>2. fdTable' = [fdTable EXCEPT ![d].pos = fdTable[d].pos + Len(ReadAt(f, fdTable[d].pos, n))]
    BY Zenon, <1>1, <2>1 DEF Read
  <2>. QED
    BY Zenon, <1>2, <1>3, <2>2
<1>6. at' = [at EXCEPT ![d] = q]
  <2>1. d \in DOMAIN at
    BY Zenon, <1>0 DEF TableInv
  <2>2. at' = [at EXCEPT ![d] = at[d] + Len(IF f \in strayed THEN ReadAt(f, at[d], n) ELSE RefAt(f, at[d], n))]
    BY Zenon, <1>1, <2>1 DEF Read
  <2>3. f \notin strayed => ReadAt(f, p, n) = RefAt(f, p, n)
    BY <1>0, ReadAgrees
  <2>. QED
    BY Zenon, <1>2, <1>3, <2>2, <2>3
<1>7. TableInv'
  BY Zenon, <1>0, <1>4, <1>5, <1>6, MoveTable
<1>8. FileInv'
  BY Zenon, <1>0, FilesSame DEF Read
<1>. QED
  BY Zenon, <1>7, <1>8 DEF DataInv

(* pread (729-737) leaves it where it was.                                 *)
LEMMA PreadKeeps ==
    ASSUME DataInv, NEW d \in Fds, NEW n, NEW o, Pread(d, n, o)
    PROVE  DataInv'
<1>1. fdTable[d] # NIL /\ TableInv /\ FileInv
  BY Zenon DEF DataInv, Pread
<1>2. fdTable' = fdTable
  BY Zenon, <1>1, RestoredSame DEF Pread
<1>3. TableInv'
  BY Zenon, <1>1, <1>2 DEF TableInv, Pread
<1>4. FileInv'
  BY Zenon, <1>1, FilesSame DEF Pread
<1>. QED
  BY Zenon, <1>3, <1>4 DEF DataInv

(* Where write starts, at the end of the file for O_APPEND (691-694).      *)
LEMMA PositionsAgree ==
    ASSUME DataInv, NEW d \in Fds, fdTable[d] # NIL, NEW x \in Nat, NEW y \in Nat, x = y
    PROVE  /\ WritePos(d, x) \in Nat /\ RefPos(d, y) \in Nat
           /\ fdTable[d].file \notin strayed => RefPos(d, y) = WritePos(d, x)
<1>1. PICK f \in Files : f = fdTable[d].file
  BY Zenon DEF DataInv, TableInv
<1>2. size[f] \in Nat /\ ref[f].len \in Nat
  BY DataAssumption DEF DataInv, FileInv, RefOK
<1>3. f \notin strayed => size[f] = ref[f].len
  BY Zenon DEF DataInv, FileInv, Kept
<1>. QED
  BY Zenon, <1>1, <1>2, <1>3 DEF WritePos, RefPos

(* write (687-727).                                                        *)
LEMMA WriteKeeps ==
    ASSUME DataInv, NEW d \in Fds, NEW n \in Counts, NEW v \in Values, Write(d, n, v)
    PROVE  DataInv'
<1>0. fdTable[d] # NIL /\ n \in Nat /\ FileInv /\ TableInv
  BY Zenon, DataAssumption DEF Write, DataInv
<1>1. PICK f \in Files : f = fdTable[d].file
  BY Zenon, <1>0 DEF TableInv
<1>2. fdTable[d].pos \in Nat /\ at[d] \in Nat /\ fdTable[d].pos = at[d]
  BY <1>0, DataAssumption DEF TableInv
<1>3. PICK p : p = WritePos(d, fdTable[d].pos)
  BY Zenon
<1>4. PICK r : r = RefPos(d, at[d])
  BY Zenon
<1>5. p \in Nat /\ r \in Nat /\ (f \notin strayed => r = p)
  BY Zenon, <1>0, <1>1, <1>2, <1>3, <1>4, PositionsAgree
<1>6. WriteAt(f, p, r, n, v, FALSE)
  BY Zenon, <1>1, <1>3, <1>4 DEF Write
<1>7. FileInv' /\ p + Written(f, p, n) \in 0 .. MaxByte
  BY Zenon, <1>0, <1>5, <1>6, WriteFiles
<1>8. PICK q \in 0 .. MaxByte : q = p + Written(f, p, n)
  BY Zenon, <1>7
<1>9. fdTable' = [fdTable EXCEPT ![d].pos = q]
  BY Zenon, <1>1, <1>3, <1>8 DEF Write
<1>10. at' = [at EXCEPT ![d] = q]
  <2>1. at' = [at EXCEPT ![d] = IF f \in strayed THEN p + Written(f, p, n) ELSE r + Written(f, p, n)]
    BY Zenon, <1>1, <1>3, <1>4 DEF Write
  <2>. QED
    BY Zenon, <1>5, <1>8, <2>1
<1>11. TableInv'
  BY Zenon, <1>0, <1>9, <1>10, MoveTable
<1>. QED
  BY Zenon, <1>7, <1>11 DEF DataInv

(* pwrite (739-747).                                                       *)
LEMMA PwriteKeeps ==
    ASSUME DataInv, NEW d \in Fds, NEW n \in Counts, NEW v \in Values, NEW o \in Bytes, Pwrite(d, n, v, o)
    PROVE  DataInv'
<1>0. fdTable[d] # NIL /\ n \in Nat /\ FileInv /\ TableInv /\ o \in Nat
  BY DataAssumption DEF Pwrite, DataInv, Bytes
<1>1. PICK f \in Files : f = fdTable[d].file
  BY Zenon, <1>0 DEF TableInv
<1>2. PICK p : p = WritePos(d, o)
  BY Zenon
<1>3. p \in Nat
  BY Zenon, <1>0, <1>2, PositionsAgree
<1>4. PICK e \in BOOLEAN : e = (fdTable[d].append /\ p # o)
  BY Zenon
<1>5. WriteAt(f, p, o, n, v, e) /\ (o = p \/ e)
  BY Zenon, <1>1, <1>2, <1>4 DEF Pwrite, WritePos
<1>6. FileInv'
  BY Zenon, <1>0, <1>3, <1>5, WriteFiles
<1>7. fdTable' = fdTable /\ at' = at
  BY Zenon, <1>0, RestoredSame DEF Pwrite
<1>8. TableInv'
  BY Zenon, <1>0, <1>7 DEF TableInv
<1>. QED
  BY Zenon, <1>6, <1>8 DEF DataInv

(* lseek (749-764).                                                        *)
LEMMA LseekKeeps ==
    ASSUME DataInv, NEW d \in Fds, NEW o \in {-1, 0, 1}, NEW whence \in 0 .. 2, Lseek(d, o, whence)
    PROVE  DataInv'
<1>0. fdTable[d] # NIL /\ FileInv /\ TableInv
  BY Zenon DEF Lseek, DataInv
<1>1. PICK f \in Files : f = fdTable[d].file
  BY Zenon, <1>0 DEF TableInv
<1>2. fdTable[d].pos \in Nat /\ at[d] = fdTable[d].pos /\ size[f] \in Nat
  BY <1>0, DataAssumption DEF TableInv, FileInv
<1>3. PICK c \in Int : c = o + CASE whence = 0 -> 0 [] whence = 1 -> fdTable[d].pos [] whence = 2 -> size[f]
  BY <1>2
<1>4. PICK q : q = Max({0, c})
  BY Zenon
<1>5. q \in Nat
  BY <1>4, TwoNumbers
<1>6. q <= MaxByte /\ fdTable' = [fdTable EXCEPT ![d].pos = q]
  BY Zenon, <1>1, <1>3, <1>4 DEF Lseek
<1>7. at' = [at EXCEPT ![d] = IF f \in strayed THEN q ELSE
              Max({0, o + CASE whence = 0 -> 0 [] whence = 1 -> at[d] [] whence = 2 -> ref[f].len})]
  BY <1>1, <1>3, <1>4 DEF Lseek
<1>8. f \notin strayed => size[f] = ref[f].len
  BY Zenon, <1>0 DEF FileInv, Kept
<1>9. f \notin strayed =>
        Max({0, o + CASE whence = 0 -> 0 [] whence = 1 -> at[d] [] whence = 2 -> ref[f].len}) = q
  BY Zenon, <1>2, <1>3, <1>4, <1>8
<1>10. at' = [at EXCEPT ![d] = q]
  BY Zenon, <1>7, <1>9
<1>11. q \in 0 .. MaxByte
  BY <1>5, <1>6, DataAssumption
<1>12. TableInv'
  BY Zenon, <1>0, <1>6, <1>10, <1>11, MoveTable
<1>13. FileInv'
  BY Zenon, <1>0, FilesSame DEF Lseek
<1>. QED
  BY Zenon, <1>12, <1>13 DEF DataInv

(* truncate (969-978) moves no descriptor.                                 *)
LEMMA TruncateKeeps ==
    ASSUME DataInv, NEW f \in Files, NEW n \in Lengths, Truncate(f, n)
    PROVE  DataInv'
<1>1. FileInv'
  BY Zenon, TruncateFiles DEF DataInv
<1>2. TableInv'
  BY Zenon DEF DataInv, TableInv, Truncate
<1>. QED
  BY Zenon, <1>1, <1>2 DEF DataInv

-----------------------------------------------------------------------------
(* Every step keeps the invariant.                                         *)
LEMMA NextKeeps ==
    ASSUME DataInv, [Next]_vars
    PROVE  DataInv'
<1>1. CASE \E d \in Fds, f \in Files, append \in Appends, trunc \in BOOLEAN : Open(d, f, append, trunc)
  BY Zenon, <1>1, OpenKeeps, DataAssumption
<1>2. CASE \E d \in Fds : Close(d)
  BY Zenon, <1>2, CloseKeeps
<1>3. CASE \E d \in Fds, n \in Counts : Read(d, n)
  BY Zenon, <1>3, ReadKeeps
<1>4. CASE \E d \in Fds, n \in Counts, o \in Bytes : Pread(d, n, o)
  BY Zenon, <1>4, PreadKeeps
<1>5. CASE \E d \in Fds, n \in Counts, v \in Values : Write(d, n, v)
  BY Zenon, <1>5, WriteKeeps
<1>6. CASE \E d \in Fds, n \in Counts, v \in Values, o \in Bytes : Pwrite(d, n, v, o)
  BY Zenon, <1>6, PwriteKeeps
<1>7. CASE \E d \in Fds, o \in {-1, 0, 1}, whence \in 0 .. 2 : Lseek(d, o, whence)
  BY Zenon, <1>7, LseekKeeps
<1>8. CASE \E f \in Files, n \in Lengths : Truncate(f, n)
  BY Zenon, <1>8, TruncateKeeps
<1>9. CASE UNCHANGED vars
  <2>1. FileInv'
    BY Zenon, <1>9, FilesSame DEF DataInv, vars, fileVars
  <2>2. TableInv'
    BY Zenon, <1>9 DEF DataInv, TableInv, vars
  <2>. QED
    BY Zenon, <2>1, <2>2 DEF DataInv
<1>. QED
  BY Zenon, <1>1, <1>2, <1>3, <1>4, <1>5, <1>6, <1>7, <1>8, <1>9 DEF Next

(* It holds of an empty file system with no descriptor open.               *)
LEMMA InitKeeps ==
    ASSUME Init
    PROVE  DataInv
<1>1. 0 \in 0 .. MaxByte /\ DataBlocks \in 0 .. DataBlocks
  BY DataAssumption
<1>2. Zeroes \in [Bytes -> Values \union {0}] /\ \A i \in Bytes : Zeroes[i] = 0
  BY Zenon DEF Zeroes
<1>3. TableInv
  BY Zenon, <1>1 DEF Init, TableInv
<1>4. PICK r : r = Empty
  BY Zenon
<1>5. r \in [len : 0 .. MaxByte, bytes : [Bytes -> Values \union {0}]] /\ r.len = 0 /\ r.bytes = Zeroes
  BY Zenon, <1>1, <1>2, <1>4 DEF Empty
<1>6. ref = [f \in Files |-> r]
  BY Zenon, <1>4 DEF Init
<1>7. RefOK
  BY Zenon, <1>2, <1>5, <1>6 DEF RefOK
<1>8. HolesZero
  BY Zenon, <1>2 DEF Init, HolesZero
<1>9. \A f \in Files : Kept(f)
  BY Zenon, <1>2, <1>5, <1>6 DEF Init, Kept
<1>10. FileInv
  BY Zenon, <1>1, <1>2, <1>7, <1>8, <1>9 DEF Init, FileInv
<1>. QED
  BY Zenon, <1>3, <1>10 DEF DataInv

(* The invariant gives the type of every variable, and what read returns.  *)
LEMMA InvariantReads ==
    ASSUME DataInv
    PROVE  TypeOK /\ ReadReturns
<1>1. TypeOK
  BY Zenon DEF DataInv, FileInv, TableInv, TypeOK
<1>2. ASSUME NEW d \in Fds, fdTable[d] # NIL, fdTable[d].file \notin strayed
      PROVE  /\ fdTable[d].pos = at[d]
             /\ \A n \in Counts, o \in Bytes :
                   ReadAt(fdTable[d].file, o, n) = RefAt(fdTable[d].file, o, n)
  <2>1. fdTable[d].pos = at[d] /\ fdTable[d].file \in Files \ strayed
    BY Zenon, <1>2 DEF DataInv, TableInv
  <2>2. PICK f \in Files \ strayed : f = fdTable[d].file
    BY Zenon, <2>1
  <2>3. ASSUME NEW n \in Counts, NEW o \in Bytes PROVE ReadAt(f, o, n) = RefAt(f, o, n)
    <3>1. n \in Nat /\ o \in Nat
      BY DataAssumption DEF Bytes
    <3>. QED
      BY Zenon, <3>1, ReadAgrees DEF DataInv
  <2>. QED
    BY Zenon, <2>1, <2>2, <2>3
<1>. QED
  BY Zenon, <1>1, <1>2 DEF ReadReturns

(* The invariant holds in every reachable state.                           *)
LEMMA DataInvariant == Spec => []DataInv
<1>1. Init => DataInv
  BY Zenon, InitKeeps
<1>2. DataInv /\ [Next]_vars => DataInv'
  BY Zenon, NextKeeps
<1>. QED
  BY <1>1, <1>2, PTL DEF Spec

(* The size, the blocks, the free count and the positions stay in range:   *)
(* the write loop never takes a block that is not there (687-727).         *)
THEOREM DataTypeCorrect == Spec => []TypeOK
<1>1. DataInv => TypeOK
  BY Zenon, InvariantReads
<1>. QED
  BY <1>1, DataInvariant, PTL

(* read and pread (656-685, 729-737) return what POSIX says and every      *)
(* descriptor stands where POSIX says, for any number of files and         *)
(* descriptors, any block size and any number of free blocks, in every     *)
(* file that has met none of the three departures (bytes cut off by        *)
(* truncate uncovered again, a write of no bytes beyond the end, pwrite on *)
(* an O_APPEND descriptor) since it was last emptied by O_TRUNC.           *)
THEOREM ReadReturnsHolds == Spec => []ReadReturns
<1>1. DataInv => ReadReturns
  BY Zenon, InvariantReads
<1>. QED
  BY <1>1, DataInvariant, PTL
=============================================================================
