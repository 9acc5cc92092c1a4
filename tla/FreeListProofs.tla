--------------------------- MODULE FreeListProofs ---------------------------
(***************************************************************************)
(* Theorems about the block allocator, for any number of workers and       *)
(* blocks.                                                                 *)
(***************************************************************************)
EXTENDS FreeList, FiniteSetTheorems, TLAPS

(* What the locals of a call are between two of its steps.                 *)
LocalsOK ==
    \A w \in Workers :
      /\ pc[w] \in {"next", "cas", "zero"} => h[w] \in Blocks
      /\ pc[w] \in {"fload", "fset", "fcas"} => arg[w] \in Blocks

TypeInv == TypeOK /\ LocalsOK

(* The sets of the model are sets of numbers and of NIL.                   *)
LEMMA ConstantFacts ==
    /\ 0 \in Index
    /\ 0 \in Word /\ NIL \in Word /\ NIL # 0
    /\ Blocks \subseteq Word /\ 0 \notin Blocks /\ NIL \notin Blocks
    /\ Data \subseteq Word
    /\ 1 \in Blocks
    /\ \A x \in Word : x \notin {0, NIL} => x \in Blocks
BY FreeListAssumption DEF Index, Word, Blocks

(* init (124-155) builds a list of the right type.                         *)
LEMMA InitTypeInv == Init => TypeInv
<1> SUFFICES ASSUME Init PROVE TypeInv
  BY Zenon
<1>1. words \in [Blocks -> [Index -> Word]]
  BY FreeListAssumption DEF Init, Index, Word, Blocks
<1>2. QED
  BY Zenon, <1>1, ConstantFacts DEF Init, TypeInv, TypeOK, LocalsOK

(* No step of allocBlock, freeBlock or a client leaves the types.          *)
LEMMA NextTypeInv == TypeInv /\ [Next]_vars => TypeInv'
<1> SUFFICES ASSUME TypeInv, [Next]_vars PROVE TypeInv'
  BY Zenon
<1> USE ConstantFacts DEF TypeInv, TypeOK, LocalsOK, Goto, Leave, listVars, ownVars, ghosts
<1>1. ASSUME NEW w \in Workers, Step(w) PROVE TypeInv'
  <2>1. CASE AllocEmpty(w)  BY <2>1 DEF AllocEmpty
  <2>2. CASE AllocLoad(w)  BY <2>2 DEF AllocLoad
  <2>3. CASE AllocNext(w)  BY <2>3 DEF AllocNext
  <2>4. CASE AllocCas(w)  BY <2>4 DEF AllocCas
  <2>5. CASE AllocRetry(w)  BY <2>5 DEF AllocRetry
  <2>6. CASE AllocZero(w)  BY <2>6 DEF AllocZero
  <2>7. CASE FreeLoad(w)  BY <2>7 DEF FreeLoad
  <2>8. CASE FreeSet(w)  BY <2>8 DEF FreeSet
  <2>9. CASE FreeCas(w)  BY <2>9 DEF FreeCas
  <2>10. CASE FreeRetry(w)  BY <2>10 DEF FreeRetry
  <2>11. QED  BY Zenon, <1>1, <2>1, <2>2, <2>3, <2>4, <2>5, <2>6, <2>7, <2>8, <2>9, <2>10 DEF Step
<1>2. ASSUME NEW w \in Workers, AllocCall(w) PROVE TypeInv'
  BY Zenon, <1>2 DEF AllocCall
<1>3. ASSUME NEW w \in Workers, NEW b \in held[w], FreeCall(w, b) PROVE TypeInv'
  BY Zenon, <1>3 DEF FreeCall
<1>4. ASSUME NEW w \in Workers, NEW b \in held[w], Publish(w, b) PROVE TypeInv'
  BY Zenon, <1>4 DEF Publish
<1>5. ASSUME NEW w \in Workers, NEW b \in held[w] \union published, NEW i \in Index, NEW v \in Data,
             Store(w, b, i, v)
      PROVE TypeInv'
  BY Zenon, <1>5 DEF Store
<1>6. ASSUME NEW w \in Workers, NEW b \in held[w] \union published, NEW c \in held[w], NEW i \in Index,
             StorePtr(w, b, i, c)
      PROVE TypeInv'
  BY Zenon, <1>6 DEF StorePtr
<1>7. CASE UNCHANGED vars
  BY Zenon, <1>7 DEF vars
<1>8. QED
  BY Zenon, <1>1, <1>2, <1>3, <1>4, <1>5, <1>6, <1>7 DEF Next, Client

(* The shared words, the locals of allocBlock and freeBlock and the sets   *)
(* of blocks in use keep their types; in particular nobody reads the link  *)
(* of a number that is not a data block.                                   *)
THEOREM TypeCorrect == Spec => []TypeOK
<1>1. TypeInv => TypeOK
  BY Zenon DEF TypeInv
<1>2. QED
  BY <1>1, InitTypeInv, NextTypeInv, PTL DEF Spec

-----------------------------------------------------------------------------
(* The inductive invariant.  ExclusiveOwnership alone is not inductive: it *)
(* does not say that the link a worker read is still the link of the block *)
(* it is about to pop.                                                     *)
Disjoint ==
    /\ \A v, w \in Workers : v # w => held[v] \intersect held[w] = {}
    /\ \A w \in Workers : held[w] \intersect published = {}

HeadFree == head \in Free \union {NIL}

LinksFree == \A b \in Free : words[b][0] \in (Free \ {head}) \union {NIL}

LinksInjective ==
    \A a, b \in Free : words[a][0] = words[b][0] /\ a # b => words[a][0] = NIL

LinksCover == \A b \in Free \ {head} : \E a \in Free : words[a][0] = b

(* A worker zeroes or frees only what it holds; between the store of the   *)
(* link and the compareExchange of freeBlock the link stays.               *)
CallsOwn ==
    \A w \in Workers :
      /\ pc[w] = "zero" => h[w] \in held[w]
      /\ pc[w] \in {"fload", "fset", "fcas"} => arg[w] \in held[w]
      /\ pc[w] = "fcas" => words[arg[w]][0] = h[w]

(* nextFree is the link of the block as long as the block is free, unless  *)
(* the block was pushed after nextFree was read.                           *)
NextFresh ==
    \A w \in Workers :
      pc[w] = "cas" /\ h[w] \in Free /\ h[w] \notin pushed[w] => n[w] = words[h[w]][0]

Core == Disjoint /\ HeadFree /\ LinksFree /\ LinksInjective /\ LinksCover
        /\ CallsOwn /\ NextFresh

IInv == TypeInv /\ (~aba => Core)

(* The list that init builds holds all blocks, and nobody owns one.        *)
LEMMA InitCore == Init => Core
<1> SUFFICES ASSUME Init PROVE Core
  BY Zenon
<1>1. Free = Blocks
  BY Zenon DEF Init, Free, InUse
<1>2. \A b \in Blocks : words[b][0] = IF b = TotalDataBlocks - 1 THEN NIL ELSE b + 1
  BY Zenon, ConstantFacts DEF Init
<1>3. Disjoint /\ HeadFree /\ CallsOwn /\ NextFresh
  BY Zenon, <1>1, ConstantFacts DEF Init, Disjoint, HeadFree, CallsOwn, NextFresh
<1>h. head = 1
  BY Zenon DEF Init
<1>4. LinksFree /\ LinksInjective
  <2>1. ASSUME NEW b \in Blocks PROVE words[b][0] \in (Blocks \ {1}) \union {NIL}
    BY <1>2, FreeListAssumption DEF Blocks
  <2>2. ASSUME NEW a \in Blocks, NEW b \in Blocks, words[a][0] = words[b][0], a # b
        PROVE words[a][0] = NIL
    BY <1>2, <2>2, FreeListAssumption DEF Blocks
  <2>3. QED
    BY Zenon, <1>1, <1>h, <2>1, <2>2 DEF LinksFree, LinksInjective
<1>5. LinksCover
  <2> SUFFICES ASSUME NEW b \in Blocks \ {1} PROVE \E a \in Blocks : words[a][0] = b
    BY Zenon, <1>1, <1>h DEF LinksCover
  <2>1. b - 1 \in Blocks /\ words[b - 1][0] = b
    BY <1>2, FreeListAssumption DEF Blocks
  <2>2. QED
    BY Zenon, <2>1
<1>6. QED
  BY Zenon, <1>3, <1>4, <1>5 DEF Core

(* A step that moves neither the head nor a block between its owners, and  *)
(* changes no link of a free block, keeps the shape of the list.           *)
LEMMA ShapeKept ==
    ASSUME TypeInv, Core, head' = head, held' = held, published' = published,
           \A b \in Free : words'[b][0] = words[b][0]
    PROVE  /\ Free' = Free
           /\ Disjoint' /\ HeadFree' /\ LinksFree' /\ LinksInjective' /\ LinksCover'
<1>1. Free' = Free
  BY Zenon DEF Free, InUse
<1>2. QED
  BY <1>1 DEF Core, Disjoint, HeadFree, LinksFree, LinksInjective, LinksCover

(* The pop: nextFree is fresh, so the head moves to the successor.         *)
LEMMA PopKeepsCore ==
    ASSUME TypeInv, Core, NEW w \in Workers, AllocCas(w), h[w] \notin pushed[w]
    PROVE  Core'
<1> DEFINE b0 == h[w]
<1>1. b0 \in Free /\ head = b0 /\ b0 \in Blocks
  BY Zenon, ConstantFacts DEF Core, HeadFree, AllocCas, Goto, TypeInv, LocalsOK
<1>2. n[w] = words[b0][0] /\ head' = words[b0][0]
  BY Zenon, <1>1 DEF Core, NextFresh, AllocCas, Goto
<1>3. head' \in (Free \ {b0}) \union {NIL}
  BY Zenon, <1>1, <1>2 DEF Core, LinksFree
<1>4. /\ held' = [held EXCEPT ![w] = held[w] \union {b0}]
      /\ published' = published /\ words' = words
  BY Zenon DEF AllocCas
<1>5. Free' = Free \ {b0}
  BY <1>1, <1>4 DEF Free, InUse, TypeInv, TypeOK
<1>6. b0 \notin published /\ \A v \in Workers : b0 \notin held[v]
  BY Zenon, <1>1 DEF Free, InUse
<1>7. Disjoint'
  BY <1>4, <1>6 DEF Core, Disjoint, TypeInv, TypeOK
<1>8. HeadFree'
  BY Zenon, <1>3, <1>5 DEF HeadFree
<1>9. LinksFree'
  <2> SUFFICES ASSUME NEW b \in Free \ {b0}
               PROVE  words[b][0] \in ((Free \ {b0}) \ {head'}) \union {NIL}
    BY Zenon, <1>4, <1>5 DEF LinksFree
  <2>1. words[b][0] \in (Free \ {b0}) \union {NIL}
    BY Zenon, <1>1 DEF Core, LinksFree
  <2>2. words[b][0] = head' => words[b][0] = NIL
    BY Zenon, <1>1, <1>2 DEF Core, LinksInjective
  <2>3. QED
    BY Zenon, <2>1, <2>2
<1>10. LinksInjective'
  BY Zenon, <1>4, <1>5 DEF Core, LinksInjective
<1>11. LinksCover'
  BY Zenon, <1>1, <1>2, <1>4, <1>5 DEF Core, LinksCover
<1>12. CallsOwn'
  BY Zenon, <1>4 DEF Core, CallsOwn, AllocCas, Goto, TypeInv, TypeOK
<1>13. NextFresh'
  BY Zenon, <1>4, <1>5 DEF Core, NextFresh, AllocCas, Goto, TypeInv, TypeOK
<1>14. QED
  BY Zenon, <1>7, <1>8, <1>9, <1>10, <1>11, <1>12, <1>13 DEF Core

(* The push: the link of the freed block is the head it replaces.          *)
LEMMA PushKeepsCore ==
    ASSUME TypeInv, Core, NEW w \in Workers, FreeCas(w)
    PROVE  Core'
<1> DEFINE b0 == arg[w]
<1>1. b0 \in Blocks /\ b0 \in held[w] /\ b0 \notin Free /\ words[b0][0] = head /\ head' = b0
  BY Zenon DEF Core, CallsOwn, FreeCas, Goto, Free, InUse, TypeInv, LocalsOK
<1>2. /\ held' = [held EXCEPT ![w] = held[w] \ {b0}]
      /\ published' = published /\ words' = words
  BY Zenon DEF FreeCas
<1>3. b0 \notin published /\ \A v \in Workers : v # w => b0 \notin held[v]
  BY Zenon, <1>1 DEF Core, Disjoint
<1>4. Free' = Free \union {b0}
  BY <1>1, <1>2, <1>3 DEF Free, InUse, TypeInv, TypeOK
<1>5. b0 # NIL /\ head # b0
  BY Zenon, <1>1, ConstantFacts DEF Core, HeadFree
<1>6. Disjoint'
  BY Zenon, <1>2 DEF Core, Disjoint, TypeInv, TypeOK
<1>7. HeadFree'
  BY Zenon, <1>1, <1>4 DEF HeadFree
<1>8. LinksFree'
  BY Zenon, <1>1, <1>2, <1>4, <1>5 DEF Core, LinksFree, HeadFree
<1>9. LinksInjective'
  BY <1>1, <1>2, <1>4, <1>5 DEF Core, LinksInjective, LinksFree
<1>10. LinksCover'
  BY Zenon, <1>1, <1>2, <1>4 DEF Core, LinksCover
<1>11. CallsOwn'
  BY Zenon, <1>1, <1>2, <1>3 DEF Core, CallsOwn, FreeCas, Goto, Leave, TypeInv, TypeOK
<1>12. NextFresh'
  BY Zenon, <1>2, <1>4 DEF Core, NextFresh, FreeCas, Goto, Leave, TypeInv, TypeOK
<1>13. QED
  BY Zenon, <1>6, <1>7, <1>8, <1>9, <1>10, <1>11, <1>12 DEF Core

(* Stores into blocks in use: the zeroing of a fresh block, the link of a  *)
(* block being freed, file data.                                           *)
LEMMA UsedStoreKeepsCore ==
    ASSUME TypeInv, Core, NEW w \in Workers,
           \/ AllocZero(w)
           \/ FreeSet(w)
           \/ \E b \in held[w] \union published, i \in Index, v \in Data : Store(w, b, i, v)
    PROVE  Core'
<1>1. \A b \in Free : words'[b][0] = words[b][0]
  BY DEF Core, CallsOwn, AllocZero, FreeSet, Store, Goto, Free, InUse, TypeInv, TypeOK, LocalsOK
<1>2. head' = head /\ held' = held /\ published' = published
  BY Zenon DEF AllocZero, FreeSet, Store, ownVars
<1>3. CallsOwn'
  <2>1. CASE AllocZero(w)
    BY <2>1, ConstantFacts DEF Core, CallsOwn, Disjoint, AllocZero, Goto, Leave, TypeInv, TypeOK, LocalsOK, ownVars
  <2>2. CASE FreeSet(w)
    BY <2>2, ConstantFacts DEF Core, CallsOwn, Disjoint, FreeSet, Goto, TypeInv, TypeOK, LocalsOK, ownVars
  <2>3. ASSUME NEW b \in held[w] \union published, NEW i \in Index, NEW v \in Data, Store(w, b, i, v)
        PROVE  CallsOwn'
    BY <2>3, ConstantFacts DEF Core, CallsOwn, Disjoint, Store, TypeInv, TypeOK, LocalsOK, ownVars
  <2>4. QED
    BY Zenon, <2>1, <2>2, <2>3
<1>4. NextFresh'
  BY <1>1, <1>2, ShapeKept DEF Core, NextFresh, AllocZero, FreeSet, Store, Goto, Leave, TypeInv, TypeOK, ghosts
<1>5. QED
  BY Zenon, <1>1, <1>2, <1>3, <1>4, ShapeKept DEF Core

(* The steps that touch neither the list nor an owner.                     *)
LEMMA LocalStepKeepsCore ==
    ASSUME TypeInv, Core, NEW w \in Workers,
           \/ AllocCall(w) \/ AllocEmpty(w) \/ AllocLoad(w) \/ AllocNext(w)
           \/ AllocRetry(w) \/ FreeLoad(w) \/ FreeRetry(w)
           \/ \E b \in held[w] : FreeCall(w, b)
    PROVE  Core'
<1> USE DEF AllocCall, AllocEmpty, AllocLoad, AllocNext, AllocRetry, FreeLoad, FreeRetry,
            FreeCall, Goto, Leave, ownVars, ghosts
<1>1. head' = head /\ held' = held /\ published' = published /\ words' = words
  BY Zenon
<1>2. CallsOwn'
  BY <1>1 DEF Core, CallsOwn, TypeInv, TypeOK
<1>3. NextFresh'
  BY <1>1, ShapeKept DEF Core, NextFresh, TypeInv, TypeOK
<1>4. QED
  BY Zenon, <1>1, <1>2, <1>3, ShapeKept DEF Core

(* A block that becomes reachable from an inode only changes owner.        *)
LEMMA PublishKeepsCore ==
    ASSUME TypeInv, Core, NEW w \in Workers, NEW b \in held[w], Publish(w, b)
    PROVE  Core'
<1>1. /\ held' = [held EXCEPT ![w] = held[w] \ {b}]
      /\ published' = published \union {b} /\ b \in held[w] /\ pc[w] = "idle"
      /\ words' = words /\ head' = head /\ pc' = pc /\ h' = h /\ n' = n /\ arg' = arg
      /\ pushed' = pushed
  BY Zenon DEF Publish, listVars, ghosts
<1>2. Free' = Free
  BY <1>1 DEF Free, InUse, TypeInv, TypeOK
<1>3. Disjoint'
  BY Zenon, <1>1 DEF Core, Disjoint, TypeInv, TypeOK
<1>4. HeadFree' /\ LinksFree' /\ LinksInjective' /\ LinksCover' /\ NextFresh'
  BY Zenon, <1>1, <1>2 DEF Core, HeadFree, LinksFree, LinksInjective, LinksCover, NextFresh
<1>5. CallsOwn'
  BY Zenon, <1>1 DEF Core, CallsOwn, TypeInv, TypeOK
<1>6. QED
  BY Zenon, <1>3, <1>4, <1>5 DEF Core

(* So does one that becomes reachable through a pointer block.             *)
LEMMA StorePtrKeepsCore ==
    ASSUME TypeInv, Core, NEW w \in Workers, NEW b \in held[w] \union published, NEW c \in held[w], NEW i \in Index,
           StorePtr(w, b, i, c)
    PROVE  Core'
<1>1. /\ held' = [held EXCEPT ![w] = held[w] \ {c}]
      /\ published' = published \union {c} /\ c \in held[w] /\ b \in held[w] \union published
      /\ words' = [words EXCEPT ![b][i] = c]
      /\ pc[w] = "idle" /\ head' = head /\ pc' = pc /\ h' = h /\ n' = n /\ arg' = arg
      /\ pushed' = pushed
  BY Zenon DEF StorePtr, ghosts
<1>2. Free' = Free
  BY <1>1 DEF Free, InUse, TypeInv, TypeOK
<1>3. \A x \in Free : words'[x][0] = words[x][0]
  BY <1>1 DEF Free, InUse, TypeInv, TypeOK
<1>4. Disjoint'
  BY Zenon, <1>1 DEF Core, Disjoint, TypeInv, TypeOK
<1>5. HeadFree' /\ LinksFree' /\ LinksInjective' /\ LinksCover' /\ NextFresh'
  BY <1>1, <1>2, <1>3 DEF Core, HeadFree, LinksFree, LinksInjective, LinksCover, NextFresh
<1>6. CallsOwn'
  BY <1>1, ConstantFacts DEF Core, CallsOwn, Disjoint, TypeInv, TypeOK, LocalsOK
<1>7. QED
  BY Zenon, <1>4, <1>5, <1>6 DEF Core

(* The inductive step, by the actions of allocBlock, freeBlock, clients.   *)
LEMMA NextIInv == IInv /\ [Next]_vars => IInv'
<1> SUFFICES ASSUME IInv, [Next]_vars, ~aba' PROVE Core'
  BY Zenon, NextTypeInv DEF IInv
<1>1. TypeInv
  BY Zenon DEF IInv
<1>2. ASSUME NEW w \in Workers, Step(w) PROVE Core'
  <2>1. ~aba
    BY Zenon, <1>2 DEF Step, AllocEmpty, AllocLoad, AllocNext, AllocCas, AllocRetry, AllocZero,
                FreeLoad, FreeSet, FreeCas, FreeRetry, ghosts
  <2>2. Core
    BY Zenon, <2>1 DEF IInv
  <2>3. CASE AllocCas(w)
    BY Zenon, <2>3, <1>1, <2>2, PopKeepsCore DEF AllocCas
  <2>4. CASE FreeCas(w)
    BY Zenon, <2>4, <1>1, <2>2, PushKeepsCore
  <2>5. CASE AllocZero(w) \/ FreeSet(w)
    BY Zenon, <2>5, <1>1, <2>2, UsedStoreKeepsCore
  <2>6. CASE \/ AllocEmpty(w) \/ AllocLoad(w) \/ AllocNext(w)
             \/ AllocRetry(w) \/ FreeLoad(w) \/ FreeRetry(w)
    BY Zenon, <2>6, <1>1, <2>2, LocalStepKeepsCore
  <2>7. QED
    BY Zenon, <1>2, <2>3, <2>4, <2>5, <2>6 DEF Step
<1>3. ASSUME NEW w \in Workers, AllocCall(w) PROVE Core'
  BY Zenon, <1>1, <1>3, LocalStepKeepsCore DEF IInv, AllocCall, ghosts
<1>4. ASSUME NEW w \in Workers, NEW b \in held[w], FreeCall(w, b) PROVE Core'
  BY Zenon, <1>1, <1>4, LocalStepKeepsCore DEF IInv, FreeCall, ghosts
<1>5. ASSUME NEW w \in Workers, NEW b \in held[w], Publish(w, b) PROVE Core'
  BY Zenon, <1>1, <1>5, PublishKeepsCore DEF IInv, Publish, ghosts
<1>6. ASSUME NEW w \in Workers, NEW b \in held[w] \union published, NEW i \in Index, NEW v \in Data,
             Store(w, b, i, v)
      PROVE  Core'
  BY Zenon, <1>1, <1>6, UsedStoreKeepsCore DEF IInv, Store, ghosts
<1>7. ASSUME NEW w \in Workers, NEW b \in held[w] \union published, NEW c \in held[w], NEW i \in Index,
             StorePtr(w, b, i, c)
      PROVE  Core'
  BY Zenon, <1>1, <1>7, StorePtrKeepsCore DEF IInv, StorePtr, ghosts
<1>8. CASE UNCHANGED vars
  <2>1. Core
    BY Zenon, <1>8 DEF IInv, vars, ghosts
  <2>2. QED
    BY <1>8, <2>1 DEF vars, listVars, ownVars, ghosts, Core, Disjoint, HeadFree, LinksFree,
      LinksInjective, LinksCover, CallsOwn, NextFresh, Free, InUse
<1>9. QED
  BY Zenon, <1>2, <1>3, <1>4, <1>5, <1>6, <1>7, <1>8 DEF Next, Client

-----------------------------------------------------------------------------
(* The walk.  ListShape is local: it relates a block to its neighbours.    *)
(* What a walk meets needs the whole list as one object, a numbering of    *)
(* the free blocks in the order of their links.                            *)

(* A non-empty set of naturals has a least element: how the walk is        *)
(* compared with the numbering, block by block.                            *)
LEMMA LeastNumber ==
    ASSUME NEW T \in SUBSET Nat, T # {}
    PROVE  \E x \in T : \A y \in T : x <= y
<1> DEFINE R == OpToRel(<, Nat)
<1>1. \A x, y \in Nat : y < x => <<y, x>> \in R
  BY Zenon DEF OpToRel
<1>2. IsWellFoundedOn(R, Nat)
  BY Zenon, NatLessThanWellFounded
<1> HIDE DEF R
<1>3. \E x \in T : \A y \in T : ~ (<<y, x>> \in R)
  BY Zenon, <1>2, WFMin
<1>4. PICK x \in T : \A y \in T : ~ (<<y, x>> \in R)
  BY Zenon, <1>3
<1>5. \A y \in T : ~ (y < x)
  BY Zenon, <1>1, <1>4
<1>6. \A y \in T : x <= y
  BY <1>5
<1>7. QED
  BY Zenon, <1>6

(* The free blocks, numbered 0 .. m - 1 from the head on.                  *)
Chain(m, s) ==
    /\ \A b \in Free : \E i \in 0 .. m - 1 : s[i] = b
    /\ \A i \in 0 .. m - 1 : s[i] \in Free
    /\ \A i, j \in 0 .. m - 1 : s[i] = s[j] => i = j
    /\ head = IF m = 0 THEN NIL ELSE s[0]
    /\ \A i \in 0 .. m - 1 : words[s[i]][0] = IF i = m - 1 THEN NIL ELSE s[i + 1]

ListIsChain == \E m \in Nat : \E s \in [0 .. m - 1 -> Blocks] : Chain(m, s)

(* A chain holds every block at most once: it has no more links than the   *)
(* walk of statfs has steps.                                               *)
LEMMA ChainFits ==
    ASSUME NEW m \in Nat, NEW s \in [0 .. m - 1 -> Blocks], Chain(m, s)
    PROVE  m <= WalkLimit
<1>1. s \in Injection(0 .. m - 1, Blocks)
  BY Zenon DEF Injection, IsInjective, Chain
<1>2. IsFiniteSet(Blocks) /\ Cardinality(Blocks) = WalkLimit
  BY FS_Interval, FreeListAssumption DEF Blocks, WalkLimit
<1>3. Cardinality(0 .. m - 1) = m
  BY FS_Interval
<1>4. QED
  BY <1>1, <1>2, <1>3, FS_Injection

(* The walk from the head visits the blocks in the order of the chain.     *)
LEMMA WalkFollowsChain ==
    ASSUME ListIsChain PROVE ListWalk
<1> DEFINE walk[k \in 0 .. WalkLimit] ==
          IF k = 0 THEN head
          ELSE IF walk[k - 1] \in Blocks THEN words[walk[k - 1]][0] ELSE NIL
<1>m. PICK m \in Nat : \E s \in [0 .. m - 1 -> Blocks] : Chain(m, s)
  BY Zenon DEF ListIsChain
<1>1. PICK s \in [0 .. m - 1 -> Blocks] : Chain(m, s)
  BY Zenon, <1>m
<1>0. m <= WalkLimit /\ WalkLimit \in Nat
  BY <1>1, ChainFits, FreeListAssumption DEF WalkLimit
<1> DEFINE f == [k \in 0 .. WalkLimit |-> IF k < m THEN s[k] ELSE NIL]
<1>2. f = [k \in 0 .. WalkLimit |->
          IF k = 0 THEN head
          ELSE IF f[k - 1] \in Blocks THEN words[f[k - 1]][0] ELSE NIL]
  <2> SUFFICES ASSUME NEW k \in 0 .. WalkLimit
               PROVE f[k] = IF k = 0 THEN head
                            ELSE IF f[k - 1] \in Blocks THEN words[f[k - 1]][0] ELSE NIL
    BY Zenon
  <2>1. CASE k = 0
    BY <1>1, <1>0, <2>1 DEF Chain
  <2>2. CASE k # 0 /\ k - 1 < m
    <3>1. k - 1 \in 0 .. m - 1 /\ f[k - 1] = s[k - 1] /\ s[k - 1] \in Blocks
      BY <2>2, <1>0
    <3>2. words[s[k - 1]][0] = IF k = m THEN NIL ELSE s[k]
      BY <3>1, <1>1 DEF Chain
    <3>3. f[k] = IF k = m THEN NIL ELSE s[k]
      BY <2>2, <1>0
    <3>. HIDE DEF f
    <3>4. QED
      BY Zenon, <3>1, <3>2, <3>3, <2>2
  <2>3. CASE k # 0 /\ ~(k - 1 < m)
    BY <2>3, ConstantFacts, <1>0
  <2>4. QED
    BY Zenon, <2>1, <2>2, <2>3
<1>3. walk = [k \in 0 .. WalkLimit |->
          IF k = 0 THEN head
          ELSE IF walk[k - 1] \in Blocks THEN words[walk[k - 1]][0] ELSE NIL]
  BY Zenon, <1>2
<1> HIDE DEF walk, f
<1>4. \A k \in 0 .. WalkLimit : walk[k] = f[k]
  <2> DEFINE T == {k \in 0 .. WalkLimit : walk[k] # f[k]}
  <2>1. SUFFICES ASSUME T # {} PROVE FALSE
    BY Zenon
  <2>2. PICK x \in T : \A y \in T : x <= y
    <3>1. T \in SUBSET Nat
      OBVIOUS
    <3> HIDE DEF T
    <3>2. QED
      BY Zenon, <3>1, <2>1, LeastNumber
  <2>3. x # 0
    BY Zenon, <1>2, <1>3, <1>0
  <2>4. x - 1 \in 0 .. WalkLimit /\ walk[x - 1] = f[x - 1]
    <3>1. x \in 1 .. WalkLimit /\ x - 1 \in 0 .. WalkLimit
      BY <2>3, <1>0
    <3>2. ~(x <= x - 1)
      BY <3>1
    <3>3. x - 1 \notin T
      BY Zenon, <2>2, <3>2
    <3>4. QED
      BY Zenon, <3>1, <3>3
  <2>5. QED
    BY <1>2, <1>3, <2>3, <2>4
<1>5. {walk[k] : k \in 0 .. WalkLimit} \ {NIL} = Free
  BY <1>0, <1>1, <1>4, ConstantFacts DEF f, Chain, Free
<1>6. walk[WalkLimit] = NIL
  BY <1>0, <1>4 DEF f
<1>7. QED
  BY Zenon, <1>5, <1>6 DEF ListWalk, walk

(* init links block b to b + 1.                                            *)
LEMMA InitChain == Init => ListIsChain
<1> SUFFICES ASSUME Init PROVE ListIsChain
  BY Zenon
<1> DEFINE s == [i \in 0 .. WalkLimit - 1 |-> i + 1]
<1>1. WalkLimit \in Nat /\ WalkLimit > 0 /\ Blocks = 1 .. WalkLimit
  BY FreeListAssumption DEF WalkLimit, Blocks
<1>2. s \in [0 .. WalkLimit - 1 -> Blocks]
  BY <1>1
<1>3. Free = Blocks /\ head = 1
  BY Zenon DEF Init, Free, InUse
<1>4. \A b \in Blocks : words[b][0] = IF b = WalkLimit THEN NIL ELSE b + 1
  BY Zenon, ConstantFacts DEF Init, WalkLimit
<1>5. Chain(WalkLimit, s)
  <2>1. \A b \in Blocks : b - 1 \in 0 .. WalkLimit - 1 /\ s[b - 1] = b
    BY <1>1
  <2>2. \A i \in 0 .. WalkLimit - 1 : s[i] = i + 1 /\ s[i] \in Blocks
    BY <1>1
  <2>3. \A i \in 0 .. WalkLimit - 1 :
           words[s[i]][0] = IF i = WalkLimit - 1 THEN NIL ELSE s[i + 1]
    BY <1>1, <1>4
  <2>4. s[0] = 1 /\ WalkLimit # 0
    BY <1>1
  <2>5. \A i, j \in 0 .. WalkLimit - 1 : s[i] = s[j] => i = j
    OBVIOUS
  <2>. HIDE DEF s
  <2>6. QED
    BY Zenon, <1>3, <2>1, <2>2, <2>3, <2>4, <2>5 DEF Chain
<1>6. QED
  BY Zenon, <1>1, <1>2, <1>5 DEF ListIsChain

(* A step that leaves the head, the free blocks and their links alone.     *)
LEMMA ChainKept ==
    ASSUME ListIsChain, head' = head, Free' = Free,
           \A b \in Free : words'[b][0] = words[b][0]
    PROVE  ListIsChain'
<1>1. PICK m \in Nat : \E s \in [0 .. m - 1 -> Blocks] : Chain(m, s)
  BY Zenon DEF ListIsChain
<1>2. PICK s \in [0 .. m - 1 -> Blocks] : Chain(m, s)
  BY Zenon, <1>1
<1>3. Chain(m, s)'
  BY Zenon, <1>2 DEF Chain
<1>4. Blocks' = Blocks
  BY Zenon DEF Blocks
<1>5. QED
  BY Zenon, <1>3 DEF ListIsChain, Blocks

(* The pop takes the first block of the chain.                             *)
LEMMA PopKeepsChain ==
    ASSUME TypeInv, Core, ListIsChain, NEW w \in Workers, AllocCas(w), h[w] \notin pushed[w]
    PROVE  ListIsChain'
<1>1. /\ h[w] \in Free /\ h[w] \in Blocks /\ head = h[w] /\ head # NIL
      /\ head' = words[head][0] /\ words' = words /\ Free' = Free \ {head}
  <2>1. h[w] \in Free /\ head = h[w] /\ h[w] \in Blocks /\ head # NIL
    BY Zenon, ConstantFacts DEF Core, HeadFree, AllocCas, Goto, TypeInv, LocalsOK
  <2>2. head' = words[head][0]
    BY Zenon, <2>1 DEF Core, NextFresh, AllocCas, Goto
  <2>3. /\ held' = [held EXCEPT ![w] = held[w] \union {h[w]}]
        /\ published' = published /\ words' = words
    BY Zenon DEF AllocCas
  <2>4. Free' = Free \ {h[w]}
    BY <2>1, <2>3 DEF Free, InUse, TypeInv, TypeOK
  <2>5. QED
    BY Zenon, <2>1, <2>2, <2>3, <2>4
<1>2. PICK m \in Nat : \E s \in [0 .. m - 1 -> Blocks] : Chain(m, s)
  BY Zenon DEF ListIsChain
<1>3. PICK s \in [0 .. m - 1 -> Blocks] : Chain(m, s)
  BY Zenon, <1>2
<1>4. m > 0 /\ s[0] = head
  BY <1>1, <1>3 DEF Chain
<1> DEFINE t == [i \in 0 .. (m - 1) - 1 |-> s[i + 1]]
<1>5. m - 1 \in Nat /\ t \in [0 .. (m - 1) - 1 -> Blocks]
  BY <1>4
<1>6. \A b \in Free \ {head} : \E i \in 0 .. (m - 1) - 1 : t[i] = b
  <2> SUFFICES ASSUME NEW b \in Free \ {head} PROVE \E i \in 0 .. (m - 1) - 1 : t[i] = b
    BY Zenon
  <2>1. PICK i \in 0 .. m - 1 : s[i] = b
    BY Zenon, <1>3 DEF Chain
  <2>2. i # 0
    BY Zenon, <2>1, <1>4
  <2>3. i - 1 \in 0 .. (m - 1) - 1 /\ t[i - 1] = b
    BY <2>1, <2>2
  <2>4. QED
    BY Zenon, <2>3
<1>7. \A i \in 0 .. (m - 1) - 1 : t[i] = s[i + 1] /\ t[i] \in Free \ {head}
  BY <1>3, <1>4 DEF Chain
<1>8. \A i, j \in 0 .. (m - 1) - 1 : t[i] = t[j] => i = j
  <2> SUFFICES ASSUME NEW i \in 0 .. (m - 1) - 1, NEW j \in 0 .. (m - 1) - 1, t[i] = t[j]
               PROVE i = j
    BY Zenon
  <2>1. i + 1 \in 0 .. m - 1 /\ j + 1 \in 0 .. m - 1 /\ s[i + 1] = s[j + 1]
    OBVIOUS
  <2>2. i + 1 = j + 1
    BY Zenon, <2>1, <1>3 DEF Chain
  <2>3. QED
    BY <2>2
<1>9. head' = IF m - 1 = 0 THEN NIL ELSE t[0]
  BY <1>1, <1>3, <1>4 DEF Chain
<1>10. \A i \in 0 .. (m - 1) - 1 :
          words[t[i]][0] = IF i = (m - 1) - 1 THEN NIL ELSE t[i + 1]
  BY <1>3, <1>7 DEF Chain
<1> HIDE DEF t
<1>11. Chain(m - 1, t)'
  BY Zenon, <1>1, <1>6, <1>7, <1>8, <1>9, <1>10 DEF Chain
<1>12. QED
  BY Zenon, <1>5, <1>11 DEF ListIsChain, Blocks

(* The push puts the freed block in front.                                 *)
LEMMA PushKeepsChain ==
    ASSUME TypeInv, Core, ListIsChain, NEW w \in Workers, FreeCas(w)
    PROVE  ListIsChain'
<1>0. PICK b0 \in Blocks : b0 = arg[w]
  BY Zenon DEF FreeCas, Goto, TypeInv, LocalsOK
<1>1. /\ b0 \in Blocks /\ b0 \notin Free /\ words[b0][0] = head /\ head' = b0 /\ words' = words
      /\ Free' = Free \union {b0}
  <2>1. b0 \in Blocks /\ b0 \in held[w] /\ b0 \notin Free /\ words[b0][0] = head /\ head' = b0
    BY Zenon, <1>0 DEF Core, CallsOwn, FreeCas, Goto, Free, InUse, TypeInv, LocalsOK
  <2>2. /\ held' = [held EXCEPT ![w] = held[w] \ {b0}]
        /\ published' = published /\ words' = words
    BY Zenon, <1>0 DEF FreeCas
  <2>3. b0 \notin published /\ \A v \in Workers : v # w => b0 \notin held[v]
    BY Zenon, <2>1 DEF Core, Disjoint
  <2>4. Free' = Free \union {b0}
    BY <2>1, <2>2, <2>3 DEF Free, InUse, TypeInv, TypeOK
  <2>5. QED
    BY Zenon, <2>1, <2>2, <2>4
<1>2. PICK m \in Nat : \E s \in [0 .. m - 1 -> Blocks] : Chain(m, s)
  BY Zenon DEF ListIsChain
<1>3. PICK s \in [0 .. m - 1 -> Blocks] : Chain(m, s)
  BY Zenon, <1>2
<1> DEFINE t == [i \in 0 .. (m + 1) - 1 |-> IF i = 0 THEN b0 ELSE s[i - 1]]
<1>5. m + 1 \in Nat /\ t \in [0 .. (m + 1) - 1 -> Blocks]
  BY <1>1
<1>6. \A b \in Free \union {b0} : \E i \in 0 .. (m + 1) - 1 : t[i] = b
  <2>1. 0 \in 0 .. (m + 1) - 1 /\ t[0] = b0
    OBVIOUS
  <2>2. ASSUME NEW b \in Free PROVE \E i \in 0 .. (m + 1) - 1 : t[i] = b
    <3>1. PICK i \in 0 .. m - 1 : s[i] = b
      BY Zenon, <1>3 DEF Chain
    <3>2. i + 1 \in 0 .. (m + 1) - 1 /\ t[i + 1] = b
      BY <3>1
    <3>3. QED
      BY Zenon, <3>2
  <2>3. QED
    BY Zenon, <2>1, <2>2
<1>7. \A i \in 0 .. (m + 1) - 1 : t[i] \in Free \union {b0}
  BY <1>3 DEF Chain
<1>8. \A i, j \in 0 .. (m + 1) - 1 : t[i] = t[j] => i = j
  <2> SUFFICES ASSUME NEW i \in 0 .. (m + 1) - 1, NEW j \in 0 .. (m + 1) - 1, t[i] = t[j]
               PROVE i = j
    BY Zenon
  <2>1. CASE i = 0 \/ j = 0
    BY <2>1, <1>1, <1>3 DEF Chain
  <2>2. CASE i # 0 /\ j # 0
    <3>1. i - 1 \in 0 .. m - 1 /\ j - 1 \in 0 .. m - 1 /\ s[i - 1] = s[j - 1]
      BY <2>2
    <3>2. i - 1 = j - 1
      BY Zenon, <3>1, <1>3 DEF Chain
    <3>3. QED
      BY <3>2
  <2>3. QED
    BY Zenon, <2>1, <2>2
<1>9. head' = IF m + 1 = 0 THEN NIL ELSE t[0]
  BY <1>1
<1>10. \A i \in 0 .. (m + 1) - 1 :
          words[t[i]][0] = IF i = (m + 1) - 1 THEN NIL ELSE t[i + 1]
  <2> SUFFICES ASSUME NEW i \in 0 .. (m + 1) - 1
               PROVE words[t[i]][0] = IF i = (m + 1) - 1 THEN NIL ELSE t[i + 1]
    BY Zenon
  <2>1. CASE i = 0
    BY <2>1, <1>1, <1>3 DEF Chain
  <2>2. CASE i # 0
    <3>1. i - 1 \in 0 .. m - 1 /\ t[i] = s[i - 1] /\ (i # m => t[i + 1] = s[i])
      BY <2>2
    <3>2. words[s[i - 1]][0] = IF i - 1 = m - 1 THEN NIL ELSE s[(i - 1) + 1]
      BY Zenon, <3>1, <1>3 DEF Chain
    <3>3. QED
      BY <3>1, <3>2
  <2>3. QED
    BY Zenon, <2>1, <2>2
<1> HIDE DEF t
<1>11. Chain(m + 1, t)'
  BY Zenon, <1>1, <1>6, <1>7, <1>8, <1>9, <1>10 DEF Chain
<1>12. QED
  BY Zenon, <1>5, <1>11 DEF ListIsChain, Blocks

(* No step of allocBlock, freeBlock or a client breaks the chain: the ones *)
(* other than pop and push change no free block and no link of one.        *)
LEMMA NextChain ==
    ASSUME TypeInv, Core, ListIsChain, [Next]_vars, ~aba'
    PROVE  ListIsChain'
<1>1. ASSUME NEW w \in Workers, Step(w) PROVE ListIsChain'
  <2>1. CASE AllocCas(w)
    BY Zenon, <2>1, PopKeepsChain DEF AllocCas
  <2>2. CASE FreeCas(w)
    BY Zenon, <2>2, PushKeepsChain
  <2>3. CASE AllocZero(w) \/ FreeSet(w)
    <3>1. \A b \in Free : words'[b][0] = words[b][0]
      <4>1. PICK x \in held[w] \intersect Blocks : \A b \in Blocks \ {x} : words'[b] = words[b]
        BY <2>3 DEF Core, CallsOwn, AllocZero, FreeSet, Goto, TypeInv, TypeOK, LocalsOK
      <4>2. x \notin Free /\ Free \subseteq Blocks
        BY Zenon, <4>1 DEF Free, InUse
      <4>. QED
        BY Zenon, <4>1, <4>2
    <3>2. head' = head /\ held' = held /\ published' = published
      BY Zenon, <2>3 DEF AllocZero, FreeSet, ownVars
    <3>3. QED
      BY Zenon, <3>1, <3>2, ShapeKept, ChainKept
  <2>4. CASE \/ AllocEmpty(w) \/ AllocLoad(w) \/ AllocNext(w)
             \/ AllocRetry(w) \/ FreeLoad(w) \/ FreeRetry(w)
    <3>1. head' = head /\ held' = held /\ published' = published /\ words' = words
      BY Zenon, <2>4 DEF AllocEmpty, AllocLoad, AllocNext, AllocRetry, FreeLoad, FreeRetry, ownVars
    <3>2. QED
      BY Zenon, <3>1, ShapeKept, ChainKept
  <2>5. QED
    BY Zenon, <1>1, <2>1, <2>2, <2>3, <2>4 DEF Step
<1>2. ASSUME NEW w \in Workers, AllocCall(w) \/ \E b \in held[w] : FreeCall(w, b) PROVE ListIsChain'
  <2>1. head' = head /\ held' = held /\ published' = published /\ words' = words
    BY Zenon, <1>2 DEF AllocCall, FreeCall, ownVars
  <2>2. QED
    BY Zenon, <2>1, ShapeKept, ChainKept
<1>3. ASSUME NEW w \in Workers, NEW b \in held[w], Publish(w, b) PROVE ListIsChain'
  <2>1. Free' = Free /\ words' = words /\ head' = head
    BY <1>3 DEF Publish, listVars, Free, InUse, TypeInv, TypeOK
  <2>2. QED
    BY Zenon, <2>1, ChainKept
<1>4. ASSUME NEW w \in Workers, NEW b \in held[w] \union published, NEW i \in Index, NEW v \in Data,
             Store(w, b, i, v)
      PROVE  ListIsChain'
  <2>1. Free' = Free /\ head' = head /\ \A x \in Free : words'[x][0] = words[x][0]
    BY <1>4 DEF Store, ownVars, Free, InUse, TypeInv, TypeOK
  <2>2. QED
    BY Zenon, <2>1, ChainKept
<1>5. ASSUME NEW w \in Workers, NEW b \in held[w] \union published, NEW c \in held[w], NEW i \in Index,
             StorePtr(w, b, i, c)
      PROVE  ListIsChain'
  <2>1. Free' = Free
    BY <1>5 DEF StorePtr, Free, InUse, TypeInv, TypeOK
  <2>2. head' = head /\ \A x \in Free : words'[x][0] = words[x][0]
    BY <1>5 DEF StorePtr, Free, InUse, TypeInv, TypeOK
  <2>3. QED
    BY Zenon, <2>1, <2>2, ChainKept
<1>6. CASE UNCHANGED vars
  BY Zenon, <1>6, ChainKept DEF vars, listVars, ownVars, Free, InUse
<1>7. QED
  BY Zenon, <1>1, <1>2, <1>3, <1>4, <1>5, <1>6 DEF Next, Client

-----------------------------------------------------------------------------
(* All of it, until aba.  What the file layer does is only known to keep   *)
(* the contract until then, so this is what SabfsFileProofs builds on.     *)
UntilABA == ~aba => TypeInv /\ Core /\ ListIsChain

(* It holds of the list that init builds.                                  *)
LEMMA InitUntilABA == Init => UntilABA
BY Zenon, InitTypeInv, InitCore, InitChain DEF UntilABA

(* No step that the contract allows breaks it.                             *)
LEMMA NextUntilABA == UntilABA /\ [Next \/ (aba /\ aba')]_vars => UntilABA'
<1> SUFFICES ASSUME UntilABA, [Next]_vars, ~aba' PROVE UntilABA'
  BY Zenon DEF UntilABA, vars
<1>1. ~aba
  BY Zenon DEF Next, Step, Client, AllocEmpty, AllocLoad, AllocNext, AllocCas, AllocRetry, AllocZero,
         FreeLoad, FreeSet, FreeCas, FreeRetry, AllocCall, FreeCall, Publish, Store, StorePtr,
         ghosts, vars
<1>2. TypeInv /\ Core /\ ListIsChain
  BY Zenon, <1>1 DEF UntilABA
<1>3. QED
  BY Zenon, <1>2, NextIInv, NextChain DEF UntilABA, IInv

(* So it always holds.                                                     *)
LEMMA AlwaysUntilABA == SpecUntilABA => []UntilABA
BY InitUntilABA, NextUntilABA, PTL DEF SpecUntilABA

(* A client that never breaks the contract keeps it until aba.             *)
LEMMA SpecIsUntilABA == Spec => SpecUntilABA
<1>1. [Next]_vars => [Next \/ (aba /\ aba')]_vars
  BY Zenon
<1>2. QED
  BY <1>1, PTL DEF Spec, SpecUntilABA

(* For any number of workers and blocks: as long as no compareExchange of  *)
(* allocBlock succeeds on a head that was popped and pushed again since    *)
(* its link was read, no block has two owners and none is handed out while *)
(* it is in use.                                                           *)
THEOREM OwnershipExclusive == SpecUntilABA => []ExclusiveOwnership
<1>1. UntilABA => ExclusiveOwnership
  BY Zenon DEF UntilABA, Core, Disjoint, HeadFree, ExclusiveOwnership
<1>2. QED
  BY <1>1, AlwaysUntilABA, PTL

(* Under the same condition the link of a free block leads to a free block *)
(* or to the end, no two lead to one block, and every free block but the   *)
(* head has a predecessor: no push of freeBlock and no pop of allocBlock   *)
(* cuts a block off.  That no free blocks form a cycle apart from the list *)
(* does not follow from this; it takes the chain.                          *)
THEOREM ListWellFormed == SpecUntilABA => []ListShape
<1>1. UntilABA => ListShape
  BY Zenon DEF UntilABA, Core, LinksFree, LinksInjective, LinksCover, ListShape
<1>2. QED
  BY <1>1, AlwaysUntilABA, PTL

(* Under the same condition, for any number of workers and blocks: the     *)
(* walk over the free list that statfs makes meets exactly the free blocks *)
(* and ends.  No free block is lost, and no race of allocBlock and         *)
(* freeBlock closes the list into a cycle.                                 *)
THEOREM WalkVisitsFree == SpecUntilABA => []ListWalk
<1>1. UntilABA => ListWalk
  BY Zenon, WalkFollowsChain DEF UntilABA, ListWalk
<1>2. QED
  BY <1>1, AlwaysUntilABA, PTL
=============================================================================
