------------------------------ MODULE FreeList ------------------------------
(***************************************************************************)
(* The block allocator of SABFS (src/sabfs.js, allocBlock and freeBlock):  *)
(* a singly linked list of free data blocks that lives in the              *)
(* SharedArrayBuffer and is shared by every worker thread.  The superblock *)
(* holds the head; word 0 of a free block holds the number of the next     *)
(* free one.  Once a block is allocated the same word is file data, a      *)
(* directory entry or a block pointer.                                     *)
(*                                                                         *)
(* One step is one access to the shared buffer, so that everything the     *)
(* other workers can do between two accesses is explored.                  *)
(***************************************************************************)
EXTENDS Integers, FiniteSets

CONSTANTS
    Workers,          \* the threads that attached to the buffer
    TotalDataBlocks,  \* totalDataBlocks of the superblock
    PtrsPerBlock,     \* PTRS_PER_BLOCK: words of a block
    NIL,              \* 0xFFFFFFFF, the end of the list
    Data              \* what the file layer stores in an allocated block

ASSUME FreeListAssumption ==
    /\ TotalDataBlocks \in Nat /\ TotalDataBlocks >= 2
    /\ PtrsPerBlock \in Nat \ {0}
    /\ NIL \notin Int
    /\ Data \subseteq 0 .. TotalDataBlocks - 1 \union {NIL}

VARIABLES
    head,       \* SB_FREE_BLOCK
    words,      \* the contents of the data blocks
    pc,         \* where each worker is inside allocBlock / freeBlock
    h,          \* local freeBlock of allocBlock, freeHead of freeBlock
    n,          \* local nextFree of allocBlock
    arg,        \* parameter blockNum of freeBlock
    held,       \* blocks the worker allocated and nobody else knows of
    published,  \* allocated blocks reachable from an inode
    pushed,     \* ghost: blocks pushed since the worker read nextFree
    aba         \* ghost: a compareExchange succeeded on a head that had
                \* been popped and pushed again since nextFree was read

listVars == <<head, words, pc, h, n, arg>>
ownVars  == <<held, published>>
ghosts   == <<pushed, aba>>
vars     == <<listVars, ownVars, ghosts>>

Blocks == 1 .. TotalDataBlocks - 1     \* block 0 is never handed out
Word   == 0 .. TotalDataBlocks - 1 \union {NIL}
Index  == 0 .. PtrsPerBlock - 1

InUse == published \union UNION {held[w] : w \in Workers}
Free  == Blocks \ InUse

-----------------------------------------------------------------------------
(* Operators whose comment calls them a slip of the code are mutants, used  *)
(* to see that the properties below notice them.                           *)

(* init(): the list 1 -> 2 -> ... -> TotalDataBlocks-1 -> NIL.             *)
Init ==
    /\ head = 1
    /\ words = [b \in Blocks |-> [i \in Index |->
                  IF i # 0 THEN 0
                  ELSE IF b = TotalDataBlocks - 1 THEN NIL ELSE b + 1]]
    /\ pc = [w \in Workers |-> "idle"]
    /\ h = [w \in Workers |-> 0]
    /\ n = [w \in Workers |-> 0]
    /\ arg = [w \in Workers |-> 0]
    /\ held = [w \in Workers |-> {}]
    /\ published = {}
    /\ pushed = [w \in Workers |-> {}]
    /\ aba = FALSE

Goto(w, from, to) == pc[w] = from /\ pc' = [pc EXCEPT ![w] = to]

(* The locals of a call end with it; 0 stands for "not set".               *)
Leave(w) ==
    /\ h' = [h EXCEPT ![w] = 0]
    /\ n' = [n EXCEPT ![w] = 0]
    /\ arg' = [arg EXCEPT ![w] = 0]

-----------------------------------------------------------------------------
(* allocBlock().                                                           *)
AllocCall(w) ==
    /\ Goto(w, "idle", "load")
    /\ UNCHANGED <<head, words, h, n, arg, ownVars, ghosts>>

AllocEmpty(w) ==        \* the list is exhausted: returns -1
    /\ head \in {0, NIL}
    /\ Goto(w, "load", "idle")
    /\ Leave(w)
    /\ UNCHANGED <<head, words, ownVars, ghosts>>

AllocLoad(w) ==
    /\ head \notin {0, NIL}
    /\ Goto(w, "load", "next")
    /\ h' = [h EXCEPT ![w] = head]
    /\ UNCHANGED <<head, words, n, arg, ownVars, ghosts>>

AllocNext(w) ==
    /\ Goto(w, "next", "cas")
    /\ n' = [n EXCEPT ![w] = words[h[w]][0]]
    /\ UNCHANGED <<head, words, h, arg, ownVars, ghosts>>

AllocCasAsStore(w) ==   \* the head is stored, not compared and exchanged
    /\ Goto(w, "cas", "zero")
    /\ head' = n[w]
    /\ held' = [held EXCEPT ![w] = @ \union {h[w]}]
    /\ aba' = (aba \/ h[w] \in pushed[w])
    /\ n' = [n EXCEPT ![w] = 0]
    /\ pushed' = [pushed EXCEPT ![w] = {}]
    /\ UNCHANGED <<words, h, arg, published>>

AllocCas(w) ==
    /\ head = h[w]
    /\ Goto(w, "cas", "zero")
    /\ head' = n[w]
    /\ held' = [held EXCEPT ![w] = @ \union {h[w]}]
    /\ aba' = (aba \/ h[w] \in pushed[w])
    /\ n' = [n EXCEPT ![w] = 0]
    /\ pushed' = [pushed EXCEPT ![w] = {}]
    /\ UNCHANGED <<words, h, arg, published>>

AllocRetryStale(w) ==   \* the exchange is retried without loading the head
    /\ head # h[w]
    /\ Goto(w, "cas", "next")
    /\ UNCHANGED <<head, words, h, n, arg, ownVars, ghosts>>

AllocRetry(w) ==        \* somebody moved the head: start again
    /\ head # h[w]
    /\ Goto(w, "cas", "load")
    /\ Leave(w)
    /\ pushed' = [pushed EXCEPT ![w] = {}]
    /\ UNCHANGED <<head, words, ownVars, aba>>

AllocZero(w) ==         \* u8.fill; returns h[w]
    /\ Goto(w, "zero", "idle")
    /\ words' = [words EXCEPT ![h[w]] = [i \in Index |-> 0]]
    /\ Leave(w)
    /\ UNCHANGED <<head, ownVars, ghosts>>

-----------------------------------------------------------------------------
(* freeBlock(blockNum).                                                    *)
FreeCall(w, b) ==
    /\ Goto(w, "idle", "fload")
    /\ arg' = [arg EXCEPT ![w] = b]
    /\ UNCHANGED <<head, words, h, n, ownVars, ghosts>>

FreeLoad(w) ==
    /\ Goto(w, "fload", "fset")
    /\ h' = [h EXCEPT ![w] = head]
    /\ UNCHANGED <<head, words, n, arg, ownVars, ghosts>>

FreeSet(w) ==
    /\ Goto(w, "fset", "fcas")
    /\ words' = [words EXCEPT ![arg[w]][0] = h[w]]
    /\ UNCHANGED <<head, h, n, arg, ownVars, ghosts>>

FreeCas(w) ==
    /\ head = h[w]
    /\ Goto(w, "fcas", "idle")
    /\ head' = arg[w]
    /\ held' = [held EXCEPT ![w] = @ \ {arg[w]}]
    /\ pushed' = [v \in Workers |-> IF pc[v] = "cas" THEN pushed[v] \union {arg[w]}
                                                    ELSE pushed[v]]
    /\ Leave(w)
    /\ UNCHANGED <<words, published, aba>>

FreeRetryKeepingLink(w) ==   \* the head is reloaded, the link is not rewritten
    /\ head # h[w]
    /\ pc[w] = "fcas"
    /\ h' = [h EXCEPT ![w] = head]
    /\ UNCHANGED <<head, words, pc, n, arg, ownVars, ghosts>>

FreeRetry(w) ==
    /\ head # h[w]
    /\ Goto(w, "fcas", "fload")
    /\ h' = [h EXCEPT ![w] = 0]
    /\ UNCHANGED <<head, words, n, arg, ownVars, ghosts>>

-----------------------------------------------------------------------------
(* What the rest of SABFS does with an allocated block: write into it, and *)
(* store its number where the other workers find it.                       *)
Store(w, b, i, v) ==
    /\ pc[w] = "idle"
    /\ words' = [words EXCEPT ![b][i] = v]
    /\ UNCHANGED <<head, pc, h, n, arg, ownVars, ghosts>>

Publish(w, b) ==        \* b becomes reachable from an inode
    /\ pc[w] = "idle"
    /\ held' = [held EXCEPT ![w] = @ \ {b}]
    /\ published' = published \union {b}
    /\ UNCHANGED <<listVars, ghosts>>

StorePtr(w, b, i, c) ==  \* c becomes reachable through the pointer block b
    /\ pc[w] = "idle"
    /\ words' = [words EXCEPT ![b][i] = c]
    /\ held' = [held EXCEPT ![w] = @ \ {c}]
    /\ published' = published \union {c}
    /\ UNCHANGED <<head, pc, h, n, arg, ghosts>>

-----------------------------------------------------------------------------
Step(w) ==              \* a step inside allocBlock or freeBlock
    \/ AllocEmpty(w) \/ AllocLoad(w) \/ AllocNext(w) \/ AllocCas(w)
    \/ AllocRetry(w) \/ AllocZero(w)
    \/ FreeLoad(w) \/ FreeSet(w) \/ FreeCas(w) \/ FreeRetry(w)

(* The client's side of the contract: it frees and publishes blocks that   *)
(* only the caller knows of, and writes into blocks in use.                *)
Client(w) ==
    \/ AllocCall(w)
    \/ \E b \in held[w] : FreeCall(w, b) \/ Publish(w, b)
    \/ \E b \in held[w] \union published, i \in Index :
          \/ \E v \in Data : Store(w, b, i, v)
          \/ \E c \in held[w] : StorePtr(w, b, i, c)

Next == \E w \in Workers : Step(w) \/ Client(w)

Spec == Init /\ [][Next]_vars

(* What a client has to be seen to do: it keeps its side of the contract   *)
(* as long as aba does not hold.  Afterwards the words it finds in its own *)
(* blocks may be another's, and nothing is asked of it.                    *)
SpecUntilABA == Init /\ [][Next \/ (aba /\ aba')]_vars

-----------------------------------------------------------------------------
TypeOK ==
    /\ head \in Word
    /\ words \in [Blocks -> [Index -> Word]]
    /\ pc \in [Workers -> {"idle", "load", "next", "cas", "zero",
                           "fload", "fset", "fcas"}]
    /\ h \in [Workers -> Word]
    /\ n \in [Workers -> Word]
    /\ arg \in [Workers -> Blocks \union {0}]
    /\ held \in [Workers -> SUBSET Blocks]
    /\ published \in SUBSET Blocks
    /\ pushed \in [Workers -> SUBSET Blocks]
    /\ aba \in BOOLEAN

(* No block has two owners: what allocBlock hands to a worker is held by   *)
(* no other worker, is not part of a file, and is not handed out again     *)
(* while it is in use.  Neither the atomicity of the compareExchange nor   *)
(* the retry alone gives this: nextFree is read before the exchange, and   *)
(* the exchange only notices that the head changed, not that it changed    *)
(* and came back.  The claim is that this is the ONLY way it breaks.       *)
ExclusiveOwnership ==
    ~aba =>
      /\ \A v, w \in Workers : v # w => held[v] \intersect held[w] = {}
      /\ \A w \in Workers : held[w] \intersect published = {}
      /\ head \in Free \union {NIL}

(* The links of the free blocks lead to free blocks or to the end, no two  *)
(* lead to the same block, and a free block that is not the head has a     *)
(* predecessor (freeBlock and allocBlock lose no block to a race).         *)
ListShape ==
    ~aba =>
      /\ \A b \in Free : words[b][0] \in (Free \ {head}) \union {NIL}
      /\ \A a, b \in Free : words[a][0] = words[b][0] /\ a # b => words[a][0] = NIL
      /\ \A b \in Free \ {head} : \E a \in Free : words[a][0] = b

(* Following the links from the head visits exactly the free blocks, so    *)
(* the walk of statfs counts them and ends.                                *)
WalkLimit == TotalDataBlocks - 1
ListWalk ==
    LET walk[k \in 0 .. WalkLimit] ==
          IF k = 0 THEN head
          ELSE IF walk[k - 1] \in Blocks THEN words[walk[k - 1]][0] ELSE NIL
    IN  ~aba => /\ {walk[k] : k \in 0 .. WalkLimit} \ {NIL} = Free
                /\ walk[WalkLimit] = NIL
=============================================================================
