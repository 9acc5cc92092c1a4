------------------------------- MODULE CoMutex -------------------------------
(***************************************************************************)
(* The coroutine mutex (src/util/qemu-coroutine-lock.c): the counter       *)
(* locked, the lock-free queue of wait records, and the hand-off by which  *)
(* an unlock that finds no record yet and a lock that is about to queue    *)
(* one agree on who wakes the next owner.  Each coroutine runs in a thread *)
(* of its own; a step is one access to the mutex.                          *)
(***************************************************************************)
EXTENDS Integers, FiniteSets, Sequences, Functions

CONSTANTS
    Coroutines,
    SeqWrap        \* the sequence numbers wrap at SeqWrap (2^32 in the code)

ASSUME CoMutexAssumption == SeqWrap \in Nat /\ SeqWrap > 1

VARIABLES
    locked,       \* the owner and those who wait or are about to
    holder,       \* mutex->holder, or {}
    handoff, sequence,
    from_push,    \* wait records, the latest first
    to_pop,       \* wait records, the oldest first
    at,           \* where each coroutine is
    reversed,     \* what move_waiters has taken
    seen,         \* old_handoff, our_handoff
    woken         \* aio_co_wake has scheduled the coroutine: a count

vars == <<locked, holder, handoff, sequence, from_push, to_pop, at, reversed, seen, woken>>
queues == <<from_push, to_pop, reversed>>

Init ==
    /\ locked = 0 /\ holder = {}
    /\ handoff = 0 /\ sequence = 0
    /\ from_push = <<>> /\ to_pop = <<>>
    /\ at = [c \in Coroutines |-> "out"]
    /\ reversed = [c \in Coroutines |-> <<>>]
    /\ seen = [c \in Coroutines |-> 0]
    /\ woken = [c \in Coroutines |-> 0]

Goto(c, from, to) == at[c] = from /\ at' = [at EXCEPT ![c] = to]
See(c, n) == seen' = [seen EXCEPT ![c] = n]

(* The lists hold a record, says the code when one of them does not.       *)
has_waiters == to_pop = <<>> \/ from_push = <<>>

-----------------------------------------------------------------------------
(* qemu_co_mutex_lock: the cmpxchg, the bounded spin, the increment.       *)
Try(c) ==
    /\ at[c] \in {"out", "retry"}
    /\ at' = [at EXCEPT ![c] = IF locked = 0 THEN "locked"
                               ELSE IF locked = 1 THEN "spin" ELSE "inc"]
    /\ locked' = IF locked = 0 THEN 1 ELSE locked
    /\ UNCHANGED <<holder, handoff, sequence, queues, seen, woken>>

Spin(c) ==
    /\ \/ locked = 0 /\ Goto(c, "spin", "retry")
       \/ Goto(c, "spin", "inc")
    /\ UNCHANGED <<locked, holder, handoff, sequence, queues, seen, woken>>

FetchInc(c) ==
    /\ Goto(c, "inc", IF locked = 0 THEN "locked" ELSE "push")
    /\ locked' = locked + 1
    /\ UNCHANGED <<holder, handoff, sequence, queues, seen, woken>>

(* qemu_co_mutex_lock_slowpath                                             *)
push_waiter(c) ==
    /\ Goto(c, "push", "read")
    /\ from_push' = <<c>> \o from_push
    /\ UNCHANGED <<locked, holder, handoff, sequence, to_pop, reversed, seen, woken>>

ReadHandoff(c) ==
    /\ Goto(c, "read", IF handoff # 0 THEN "test" ELSE "yield")
    /\ See(c, handoff)
    /\ UNCHANGED <<locked, holder, handoff, sequence, queues, woken>>

(* has_waiters reads to_pop, then from_push; here it is one step.  The     *)
(* answer only matters while the hand-off that was read is open, and       *)
(* to_pop is empty all that time: the first read settles it.               *)
TestWaiters(c) ==
    /\ Goto(c, "test", IF has_waiters THEN "steal" ELSE "yield")
    /\ UNCHANGED <<locked, holder, handoff, sequence, queues, seen, woken>>

StealAlways(c) ==                       \* mutant: the cmpxchg is a plain store
    /\ Goto(c, "steal", "lpop")
    /\ handoff' = 0
    /\ See(c, 0)
    /\ UNCHANGED <<locked, holder, sequence, queues, woken>>
Steal(c) ==
    /\ Goto(c, "steal", IF handoff = seen[c] THEN "lpop" ELSE "yield")
    /\ handoff' = IF handoff = seen[c] THEN 0 ELSE handoff
    /\ See(c, 0)
    /\ UNCHANGED <<locked, holder, sequence, queues, woken>>

(* qemu_coroutine_yield returns once aio_co_wake has scheduled it.         *)
Resume(c) ==
    /\ woken[c] > 0
    /\ Goto(c, "yield", "locked")
    /\ woken' = [woken EXCEPT ![c] = @ - 1]
    /\ See(c, 0)
    /\ UNCHANGED <<locked, holder, handoff, sequence, queues>>

SetHolder(c) ==                         \* the end of qemu_co_mutex_lock
    /\ Goto(c, "locked", "hold")
    /\ holder' = {c}
    /\ UNCHANGED <<locked, handoff, sequence, queues, seen, woken>>

-----------------------------------------------------------------------------
(* pop_waiter, for the lock and the unlock: move_waiters takes from_push   *)
(* in one exchange and reverses it into to_pop, whose head is the result.  *)
MoveWaiters(c) ==
    /\ \/ Goto(c, "lpop", "lpop2") \/ Goto(c, "upop", "upop2")
    /\ IF to_pop = <<>>
       THEN reversed' = [reversed EXCEPT ![c] = from_push] /\ from_push' = <<>>
       ELSE UNCHANGED <<reversed, from_push>>
    /\ UNCHANGED <<locked, holder, handoff, sequence, to_pop, seen, woken>>

Reverse(s) == [k \in 1 .. Len(s) |-> s[Len(s) + 1 - k]]

ToPop(c) == Reverse(reversed[c]) \o to_pop

Wake(d) == woken' = [woken EXCEPT ![d] = @ + 1]

(* The lock that took the hand-off may find its own record.                *)
PopInLockAny(c) ==                      \* mutant: takes any record for its own
    /\ ToPop(c) # <<>>
    /\ Goto(c, "lpop2", "locked")
    /\ to_pop' = Tail(ToPop(c))
    /\ reversed' = [reversed EXCEPT ![c] = <<>>]
    /\ UNCHANGED <<locked, holder, handoff, sequence, from_push, seen, woken>>
PopInLock(c) ==
    /\ ToPop(c) # <<>>
    /\ Goto(c, "lpop2", IF Head(ToPop(c)) = c THEN "locked" ELSE "yield")
    /\ IF Head(ToPop(c)) = c THEN UNCHANGED woken ELSE Wake(Head(ToPop(c)))
    /\ to_pop' = Tail(ToPop(c))
    /\ reversed' = [reversed EXCEPT ![c] = <<>>]
    /\ UNCHANGED <<locked, holder, handoff, sequence, from_push, seen>>

PopInUnlock(c) ==
    /\ IF ToPop(c) # <<>>
       THEN /\ Goto(c, "upop2", "out")
            /\ Wake(Head(ToPop(c)))
            /\ to_pop' = Tail(ToPop(c))
       ELSE /\ Goto(c, "upop2", "hand")
            /\ UNCHANGED <<woken, to_pop>>
    /\ reversed' = [reversed EXCEPT ![c] = <<>>]
    /\ UNCHANGED <<locked, holder, handoff, sequence, from_push, seen>>

-----------------------------------------------------------------------------
(* qemu_co_mutex_unlock                                                    *)
Unlock(c) ==
    /\ Goto(c, "hold", "dec")
    /\ holder' = {}
    /\ UNCHANGED <<locked, handoff, sequence, queues, seen, woken>>

FetchDecStore(c) ==                     \* mutant: a store, not a decrement
    /\ Goto(c, "dec", IF locked = 1 THEN "out" ELSE "upop")
    /\ locked' = 0
    /\ UNCHANGED <<holder, handoff, sequence, queues, seen, woken>>
FetchDec(c) ==
    /\ Goto(c, "dec", IF locked = 1 THEN "out" ELSE "upop")
    /\ locked' = locked - 1
    /\ UNCHANGED <<holder, handoff, sequence, queues, seen, woken>>

SetHandoff(c) ==
    LET s == IF (sequence + 1) % SeqWrap = 0 THEN 1 ELSE sequence + 1
    IN  /\ Goto(c, "hand", "utest")
        /\ sequence' = s
        /\ handoff' = s
        /\ See(c, s)
        /\ UNCHANGED <<locked, holder, queues, woken>>

TestHandoff(c) ==
    /\ Goto(c, "utest", IF has_waiters THEN "uback" ELSE "out")
    /\ UNCHANGED <<locked, holder, handoff, sequence, queues, seen, woken>>

TakeBackGiveUp(c) ==                    \* mutant: success ends the loop
    /\ Goto(c, "uback", "out")
    /\ handoff' = IF handoff = seen[c] THEN 0 ELSE handoff
    /\ See(c, 0)
    /\ UNCHANGED <<locked, holder, sequence, queues, woken>>
TakeBack(c) ==
    /\ Goto(c, "uback", IF handoff = seen[c] THEN "upop" ELSE "out")
    /\ handoff' = IF handoff = seen[c] THEN 0 ELSE handoff
    /\ See(c, 0)
    /\ UNCHANGED <<locked, holder, sequence, queues, woken>>

-----------------------------------------------------------------------------
InMutex(c) ==                           \* the steps of a call
    \/ Try(c) \/ Spin(c) \/ FetchInc(c) \/ push_waiter(c) \/ ReadHandoff(c)
    \/ TestWaiters(c) \/ Steal(c) \/ Resume(c) \/ SetHolder(c)
    \/ MoveWaiters(c) \/ PopInLock(c) \/ PopInUnlock(c)
    \/ FetchDec(c) \/ SetHandoff(c) \/ TestHandoff(c) \/ TakeBack(c)

Next == \E c \in Coroutines : InMutex(c) \/ Unlock(c)

Spec == Init /\ [][Next]_vars

-----------------------------------------------------------------------------
(* The variables of the mutex have their types; locked counts the          *)
(* coroutines that own it, wait for it or are about to.                    *)
TypeOK ==
    /\ locked = Cardinality({c \in Coroutines : at[c] \in {"push", "read", "test", "steal", "yield",
                                                          "lpop", "lpop2", "locked", "hold", "dec"}})
    /\ holder \in {{}} \union {{c} : c \in Coroutines}
    /\ handoff \in 0 .. SeqWrap /\ sequence \in 0 .. SeqWrap
    /\ Range(from_push) \union Range(to_pop) \subseteq Coroutines
    /\ \A c \in Coroutines : seen[c] \in 0 .. SeqWrap /\ woken[c] \in Nat

(* One owner at most, and mutex->holder is what qemu_co_mutex_unlock       *)
(* asserts, whichever of a lock and an unlock that race takes the hand-off.*)
OneOwner ==
    /\ \A c, d \in Coroutines :
          at[c] \in {"locked", "hold", "dec"} /\ at[d] \in {"locked", "hold", "dec"} => c = d
    /\ \A c \in Coroutines : at[c] = "hold" => holder = {c} /\ locked > 0

(* "There cannot be two concurrent pop_waiter() calls".                    *)
OnePopper ==
    LET popping == {"lpop", "lpop2", "upop", "upop2"}
    IN  \A c, d \in Coroutines : at[c] \in popping /\ at[d] \in popping => c = d

(* While anybody wants the mutex, exactly one has the turn: the owner, one *)
(* that was woken, one that looks for whom to wake, or the hand-off that   *)
(* nobody has taken yet.  So no wake-up is lost.                           *)
Turns == {c \in Coroutines : at[c] \in {"locked", "hold", "dec", "lpop", "lpop2", "upop", "upop2", "hand"}}
TurnOwed ==
    Cardinality(Turns) + Cardinality({c \in Coroutines : woken[c] > 0})
      + (IF handoff # 0 THEN 1 ELSE 0) = (IF locked > 0 THEN 1 ELSE 0)

(* The lock that takes over the hand-off finds a record (to_wake->co is    *)
(* read without a test), and a coroutine is woken once, and only while it  *)
(* waits: aio_co_wake aborts on one already scheduled.                     *)
WakesExact ==
    \A c \in Coroutines :
        /\ at[c] = "lpop2" => ToPop(c) # <<>>
        /\ woken[c] > 0 => woken[c] = 1 /\ at[c] \in {"read", "test", "steal", "yield"}

(* Wait records do not outlive the call that has them on its stack.        *)
RecordsLive ==
    \A c \in Coroutines :
        c \in Range(from_push) \union Range(to_pop) \union UNION {Range(reversed[d]) : d \in Coroutines}
        => at[c] \in {"read", "test", "steal", "yield", "lpop", "lpop2"}

(* The coroutine mutex implements a lock with writers only.                *)
Lock == INSTANCE ReadersWriter WITH
    Procs <- Coroutines,
    mode  <- [c \in Coroutines |-> IF at[c] = "hold" THEN "write" ELSE "out"]

ImplementsLock == Lock!Spec
=============================================================================
