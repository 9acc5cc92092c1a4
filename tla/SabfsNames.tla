----------------------------- MODULE SabfsNames -----------------------------
(***************************************************************************)
(* The name space of SABFS (src/sabfs.js): inodes with their link counts,  *)
(* directories as arrays of slots, symbolic links, path resolution, and    *)
(* the path cache that every worker keeps for itself.  One action is one   *)
(* call of the public API; calls do not overlap here (SabfsFile is about   *)
(* overlapping accesses).                                                  *)
(*                                                                         *)
(* A path is <<spelling, parts>>: the cache is keyed by the string the     *)
(* caller passed, so two spellings of one path ("/a", "//a") are two keys. *)
(* Spelling 0 is what normalizePath returns.                               *)
(***************************************************************************)
EXTENDS Integers, Sequences, FiniteSets, SequencesExt

CONSTANTS
    Workers,
    Paths,            \* the paths the callers use
    LongNames,        \* names of more than 24 bytes
    Targets,          \* [abs, parts]: what symbolic links are made to hold
    InodeCount,       \* SB_INODE_COUNT
    DataBlocks,       \* data blocks free after init
    DirentsPerBlock,  \* DIRENTS_PER_BLOCK
    MaxDepth,         \* maxDepth of resolvePathInternal
    MaxLinks,         \* bound on the link counts that link() reaches
    U32Max            \* 0xFFFFFFFF

ASSUME NamesAssumption ==
    /\ InodeCount \in Nat \ {0} /\ DataBlocks \in Nat
    /\ \A p \in Paths : p[2] # <<>>
    /\ DirentsPerBlock \in Nat \ {0} /\ MaxDepth \in Nat \ {0} 
    /\ MaxLinks \in Nat /\ U32Max \in Nat

VARIABLES
    kind,       \* the S_IFMT part of INO_MODE: "dir", "reg", "lnk", "none" (0)
    nlink,      \* INO_NLINK
    target,     \* the target of a symbolic link
    slots,      \* the directory entries of a directory, in slot order
    freeInode,  \* SB_FREE_INODE
    freeBlocks, \* the length of the free list
    cache,      \* pathCache of each worker; -1 where it has no entry
    ret,        \* what the last call returned: 0 or -1
    cut,        \* ghost: a rename removed the old name and then failed
    misled      \* ghost: rmdir or link took from the cache an inode that the
                \* path given no longer led to

inodeVars == <<kind, nlink, target, freeInode>>
vars == <<kind, nlink, target, slots, freeInode, freeBlocks, cache, ret, cut, misled>>
ghosts == <<cut, misled>>

Ino   == 0 .. InodeCount - 1
Empty == [name |-> "", ino |-> 0]
Norm(p)   == <<0, p[2]>>
Parent(p) == <<0, Front(p[2])>>
Base(p)   == Last(p[2])
Keys      == Paths \union {Norm(p) : p \in Paths} \union {Parent(p) : p \in Paths}

Init ==
    /\ kind = [i \in Ino |-> IF i = 0 THEN "dir" ELSE "none"]
    /\ nlink = [i \in Ino |-> IF i = 0 THEN 2 ELSE 0]
    /\ target = [i \in Ino |-> [abs |-> TRUE, parts |-> <<>>]]
    /\ slots = [i \in Ino |-> <<>>]
    /\ freeInode = 1
    /\ freeBlocks = DataBlocks
    /\ cache = [w \in Workers |-> [p \in Keys |-> -1]]
    /\ ret = 0
    /\ cut = FALSE /\ misled = FALSE

-----------------------------------------------------------------------------
(* Directories.                                                            *)
Named(S, d, name) == {s \in DOMAIN S[d] : S[d][s] # Empty /\ S[d][s].name = name}
First(X) == CHOOSE s \in X : \A t \in X : s <= t

RemovedFirstBlock(S, d, name) ==
    LET X == {s \in Named(S, d, name) : s <= DirentsPerBlock}
    IN  IF kind[d] # "dir" \/ X = {} THEN S ELSE [S EXCEPT ![d][First(X)] = Empty]
EmptySlots(S, d) == {s \in DOMAIN S[d] : S[d][s] = Empty}
allocInodeAgain ==
    LET gone == {i \in 1 .. freeInode - 1 : kind[i] = "none"}
    IN  IF gone # {} THEN First(gone)
        ELSE IF freeInode < InodeCount THEN freeInode ELSE -1

allocInode == IF freeInode < InodeCount THEN freeInode ELSE -1

lookupInDir(d, name) ==
    IF kind[d] # "dir" \/ Named(slots, d, name) = {} THEN -1
    ELSE slots[d][First(Named(slots, d, name))].ino

(* removeDirEntry clears the first slot with the name, if there is one.    *)
Removed(S, d, name) ==
    IF kind[d] # "dir" \/ Named(S, d, name) = {} THEN S
    ELSE [S EXCEPT ![d][First(Named(S, d, name))] = Empty]

(* addDirEntry takes the first empty slot, or a new block of slots.        *)
CanAdd(S, d, name) ==
    kind[d] = "dir" /\ name \notin LongNames /\ (EmptySlots(S, d) # {} \/ freeBlocks > 0)
Added(S, d, name, i) ==
    LET e == [name |-> name, ino |-> i]
    IN  IF EmptySlots(S, d) # {} THEN [S EXCEPT ![d][First(EmptySlots(S, d))] = e]
        ELSE [S EXCEPT ![d] = @ \o <<e>> \o [k \in 1 .. DirentsPerBlock - 1 |-> Empty]]
BlocksFor(S, d) == IF EmptySlots(S, d) # {} THEN 0 ELSE 1

-----------------------------------------------------------------------------
(* resolvePathInternal: a symbolic link restarts the walk at the root.     *)
RECURSIVE Walk(_, _, _, _, _)
Walk(i, before, rest, follow, depth) ==
    IF rest = <<>> THEN i
    ELSE LET e == lookupInDir(i, Head(rest))
         IN  IF e = -1 THEN -1
             ELSE IF kind[e] # "lnk" THEN Walk(e, Append(before, Head(rest)), Tail(rest), follow, depth)
             ELSE IF ~follow /\ Len(rest) = 1 THEN e
             ELSE IF depth = 1 THEN -1
             ELSE Walk(0, <<>>,
                       (IF target[e].abs THEN target[e].parts ELSE before \o target[e].parts) \o Tail(rest),
                       follow, depth - 1)

lresolvePath(p) == Walk(0, <<>>, p[2], FALSE, MaxDepth)

(* resolvePath answers from the cache c, and adds what it finds to it.     *)
Resolve(p)        == Walk(0, <<>>, p[2], TRUE, MaxDepth)
resolvePath(c, p) == IF c[p] # -1 THEN c[p] ELSE Resolve(p)
Cached(c, p)      == [c EXCEPT ![p] = resolvePath(c, p)]

(* Plausible error: entries are never taken out of the cache.              *)
SetCacheKeeping(w, c) ==
    cache' = [cache EXCEPT ![w] = [p \in Keys |-> IF c[p] # -1 THEN c[p] ELSE @[p]]]
SetCache(w, c) == cache' = [cache EXCEPT ![w] = c]

(* The inode i that a call took for p, from the cache or from the walk.    *)
Trusts(i, p) == misled' = (misled \/ i # Resolve(p))

Fail == ret' = -1 /\ UNCHANGED <<inodeVars, slots, freeBlocks, ghosts>>

-----------------------------------------------------------------------------
(* stat, readdir, truncate, chmod, chown, utimes: resolve a path to what   *)
(* they apply to.                                                          *)
Lookup(w, p) ==
    /\ SetCache(w, Cached(cache[w], p))
    /\ ret' = IF resolvePath(cache[w], p) = -1 THEN -1 ELSE 0
    /\ UNCHANGED <<inodeVars, slots, freeBlocks, ghosts>>

ClearCache(w) ==
    /\ SetCache(w, [p \in Keys |-> -1])
    /\ UNCHANGED <<inodeVars, slots, freeBlocks, ret, ghosts>>

(* The end of open(O_CREAT) and mkdir: allocInode, writeInode, addDirEntry *)
(* (a failure of the last leaves the inode behind), then the cache.        *)
Make(w, p, k, links) ==
    LET c   == Cached(cache[w], Parent(p))
        par == resolvePath(cache[w], Parent(p))
        new == allocInode
    IN  \/ /\ -1 \in {par, new}
           /\ SetCache(w, c)
           /\ Fail
        \/ /\ -1 \notin {par, new}
           /\ freeInode' = freeInode + 1
           /\ kind' = [kind EXCEPT ![new] = k]
           /\ \/ /\ ~CanAdd(slots, par, Base(p))
                 /\ nlink' = [nlink EXCEPT ![new] = links]
                 /\ SetCache(w, c)
                 /\ ret' = -1
                 /\ UNCHANGED <<slots, freeBlocks>>
              \/ /\ CanAdd(slots, par, Base(p))
                 /\ slots' = Added(slots, par, Base(p), new)
                 /\ freeBlocks' = freeBlocks - BlocksFor(slots, par)
                 /\ nlink' = [nlink EXCEPT ![new] = links, ![par] = IF k = "dir" THEN @ + 1 ELSE @]
                 /\ SetCache(w, [c EXCEPT ![Norm(p)] = new])
                 /\ ret' = 0
           /\ UNCHANGED <<target, ghosts>>

(* open without O_CREAT, or of an existing file (O_EXCL is not looked at). *)
Open(w, p, nofollow) ==
    LET i == IF nofollow THEN lresolvePath(p) ELSE resolvePath(cache[w], p)
    IN  /\ SetCache(w, IF nofollow THEN cache[w] ELSE Cached(cache[w], p))
        /\ ret' = IF i = -1 \/ kind[i] = "dir" THEN -1 ELSE 0
        /\ UNCHANGED <<inodeVars, slots, freeBlocks, ghosts>>

Create(w, p, nofollow) ==
    /\ (IF nofollow THEN lresolvePath(p) ELSE resolvePath(cache[w], p)) = -1
    /\ Make(w, p, "reg", 1)

MkdirExists(w, p) ==
    /\ resolvePath(cache[w], p) # -1
    /\ SetCache(w, Cached(cache[w], p))
    /\ Fail

Mkdir(w, p) ==
    /\ resolvePath(cache[w], p) = -1
    /\ Make(w, p, "dir", 2)

Rmdir(w, p) ==
    LET i   == resolvePath(cache[w], p)
        c1  == Cached(cache[w], p)
        c2  == Cached(c1, Parent(p))
        par == resolvePath(c1, Parent(p))
        emptyDir == /\ i \notin {-1, 0}
                    /\ kind[i] = "dir"
                    /\ \A s \in DOMAIN slots[i] : slots[i][s] = Empty
    IN  \/ /\ ~emptyDir \/ par = -1
           /\ SetCache(w, IF emptyDir THEN c2 ELSE c1)
           /\ Fail
        \/ /\ emptyDir /\ par # -1
           /\ slots' = Removed(slots, par, Base(p))
           /\ nlink' = [nlink EXCEPT ![par] = IF @ - 1 > 2 THEN @ - 1 ELSE 2]
           /\ SetCache(w, [c2 EXCEPT ![Norm(p)] = -1])
           /\ ret' = 0
           /\ Trusts(i, p)
           /\ UNCHANGED <<kind, target, freeInode, freeBlocks, cut>>

Unlink(w, p) ==
    LET i   == lresolvePath(p)
        c   == Cached(cache[w], Parent(p))
        par == resolvePath(cache[w], Parent(p))
        file == i # -1 /\ kind[i] # "dir"
    IN  \/ /\ ~file \/ par = -1
           /\ SetCache(w, IF file THEN c ELSE cache[w])
           /\ Fail
        \/ /\ file /\ par # -1
           /\ slots' = Removed(slots, par, Base(p))
           /\ nlink' = [nlink EXCEPT ![i] = IF @ = 0 THEN U32Max ELSE @ - 1]
           /\ kind' = [kind EXCEPT ![i] = IF nlink[i] = 1 THEN "none" ELSE @]
           /\ SetCache(w, [c EXCEPT ![Norm(p)] = -1])
           /\ ret' = 0
           /\ UNCHANGED <<target, freeInode, freeBlocks, ghosts>>

(* The target is stored in a data block of the link before it is named.    *)
Symlink(w, t, p) ==
    LET c   == Cached(cache[w], Parent(p))
        par == resolvePath(cache[w], Parent(p))
        new == allocInode
        named == freeBlocks > 0 /\ CanAdd(slots, par, Base(p))
                   /\ 1 + BlocksFor(slots, par) <= freeBlocks
    IN  \/ /\ lresolvePath(p) # -1
           /\ Fail
           /\ UNCHANGED cache
        \/ /\ lresolvePath(p) = -1
           /\ -1 \in {par, new}
           /\ SetCache(w, c)
           /\ Fail
        \/ /\ lresolvePath(p) = -1 /\ -1 \notin {par, new}
           /\ freeInode' = freeInode + 1
           /\ kind' = [kind EXCEPT ![new] = "lnk"]
           /\ nlink' = [nlink EXCEPT ![new] = 1]
           /\ target' = [target EXCEPT ![new] = t]
           /\ SetCache(w, c)
           /\ IF named
              THEN /\ slots' = Added(slots, par, Base(p), new)
                   /\ freeBlocks' = freeBlocks - 1 - BlocksFor(slots, par)
                   /\ ret' = 0
              ELSE /\ freeBlocks' = IF freeBlocks > 0 THEN freeBlocks - 1 ELSE 0
                   /\ ret' = -1
                   /\ UNCHANGED slots
           /\ UNCHANGED ghosts

(* A link count has 32 bits; here link is not tried beyond MaxLinks.       *)
Link(w, old, p) ==
    LET i   == resolvePath(cache[w], old)
        c1  == Cached(cache[w], old)
        c2  == Cached(c1, Parent(p))
        par == resolvePath(c1, Parent(p))
        may == i # -1 /\ kind[i] # "dir" /\ lresolvePath(p) = -1
        can == par # -1 /\ CanAdd(slots, par, Base(p))
    IN  \/ /\ ~may
           /\ SetCache(w, c1)
           /\ Fail
        \/ /\ may /\ ~can
           /\ SetCache(w, c2)
           /\ Fail
        \/ /\ may /\ can
           /\ nlink[i] < MaxLinks
           /\ slots' = Added(slots, par, Base(p), i)
           /\ freeBlocks' = freeBlocks - BlocksFor(slots, par)
           /\ nlink' = [nlink EXCEPT ![i] = @ + 1]
           /\ SetCache(w, c2)
           /\ ret' = 0
           /\ Trusts(i, old)
           /\ UNCHANGED <<kind, target, freeInode, cut>>

(* The old name goes first, then an existing new name (whose inode keeps   *)
(* its link count), then the new name is added, which may fail.            *)
Rename(w, old, p) ==
    LET i    == lresolvePath(old)
        c1   == Cached(cache[w], Parent(old))
        c2   == Cached(c1, Parent(p))
        oldP == resolvePath(cache[w], Parent(old))
        newP == resolvePath(c1, Parent(p))
        rest == Removed(Removed(slots, oldP, Base(old)), newP, Base(p))
    IN  \/ /\ i = -1
           /\ Fail
           /\ UNCHANGED cache
        \/ /\ i # -1 /\ -1 \in {oldP, newP}
           /\ SetCache(w, c2)
           /\ Fail
        \/ /\ i # -1 /\ -1 \notin {oldP, newP}
           /\ \/ /\ CanAdd(rest, newP, Base(p))
                 /\ slots' = Added(rest, newP, Base(p), i)
                 /\ freeBlocks' = freeBlocks - BlocksFor(rest, newP)
                 /\ SetCache(w, [q \in Keys |-> -1])
                 /\ ret' = 0
                 /\ UNCHANGED cut
              \/ /\ ~CanAdd(rest, newP, Base(p))
                 /\ slots' = rest
                 /\ cut' = TRUE
                 /\ SetCache(w, c2)
                 /\ ret' = -1
                 /\ UNCHANGED freeBlocks
           /\ UNCHANGED <<inodeVars, misled>>

-----------------------------------------------------------------------------
Next ==
    \/ \E w \in Workers : ClearCache(w)
    \/ \E w \in Workers, p \in Paths :
        \/ Lookup(w, p)
        \/ \E nofollow \in BOOLEAN : Open(w, p, nofollow) \/ Create(w, p, nofollow)
        \/ Mkdir(w, p) \/ MkdirExists(w, p) \/ Rmdir(w, p)
        \/ Unlink(w, p)
        \/ \E t \in Targets : Symlink(w, t, p)
        \/ \E old \in Paths : Link(w, old, p) \/ Rename(w, old, p)

Spec == Init /\ [][Next]_vars

-----------------------------------------------------------------------------
TypeOK ==
    /\ kind \in [Ino -> {"dir", "reg", "lnk", "none"}]
    /\ nlink \in [Ino -> 0 .. U32Max]
    /\ \A i \in Ino : \A s \in DOMAIN slots[i] :
         slots[i][s] = Empty \/ slots[i][s].ino \in 1 .. freeInode - 1
    /\ freeInode \in 1 .. InodeCount
    /\ freeBlocks \in 0 .. DataBlocks
    /\ cache \in [Workers -> [Keys -> Ino \union {-1}]]
    /\ ret \in {0, -1}

EntriesOf(i) ==
    UNION {{<<d, s>> : s \in {t \in DOMAIN slots[d] : slots[d][t] # Empty /\ slots[d][t].ino = i}} :
           d \in Ino}

NoLinkMade == \A i \in Ino : target[i].parts = <<>>


(* A name never leads to an inode that unlink has given up (mode 0), while *)
(* names are unique.  unlink (870) takes only the normalised spelling out  *)
(* of the cache, and only out of its own worker's: a link whose old path   *)
(* is still cached names the inode given up (misled), after which nothing  *)
(* is claimed.                                                             *)
NoDanglingEntry ==
    ~misled /\ NoLinkMade => \A d \in Ino : \A s \in DOMAIN slots[d] :
        slots[d][s] # Empty => kind[slots[d][s].ino] # "none"



(* A path cached under its normalised spelling leads where the path leads, *)
(* until a rename fails half way (which leaves the cache as it was), a     *)
(* symbolic link is made, or a call was misled by another spelling's entry.*)
(* An entry under another spelling ("/a//b", 484-488) goes stale with the  *)
(* first rmdir or unlink (818, 870).                                       *)
CacheCoherent ==
    ~cut /\ ~misled /\ NoLinkMade =>
        \A w \in Workers, p \in Keys :
            p = Norm(p) /\ cache[w][p] # -1 => cache[w][p] = Resolve(p)

(* A call that fails changes no directory.                                 *)
FailureChangesNothing == [][ret' = -1 => slots' = slots]_vars

(* An inode number names one object for ever: it may be given up, but a    *)
(* cached path or an open descriptor never finds another kind of object    *)
(* under the number it remembers.                                          *)
NumberKeepsMeaning ==
    [][\A i \in Ino : i < freeInode => kind'[i] \in {kind[i], "none"}]_vars

(* A directory that has a name can be reached from the root, so that       *)
(* nothing below it is lost: each set that holds the root and, with a      *)
(* directory, all its entries, holds it.  rename (944-967) does not keep   *)
(* this: it moves a directory into itself.                                 *)
NamedIsReachable ==
    LET Entries(d) == {slots[d][s].ino : s \in DOMAIN slots[d]}
    IN  \A X \in SUBSET Ino :
            0 \in X /\ (\A d \in X : Entries(d) \subseteq X)
              => \A i \in Ino : kind[i] = "dir" /\ EntriesOf(i) # {} => i \in X
=============================================================================
