------------------------------- MODULE CoRwlock ------------------------------
(***************************************************************************)
(* The coroutine read-write lock (src/util/qemu-coroutine-lock.c), on top  *)
(* of the CoMutex that guards its owners and tickets.  The wake-up of a    *)
(* ticket comes after the unlock of the mutex.                             *)
(***************************************************************************)
EXTENDS CoMutex

VARIABLES
    owners,       \* readers, or -1 for a writer
    tickets,      \* the coroutines in line, with what they want
    rw,           \* the call each coroutine is in, or what it holds
    wakes,        \* whom it wakes once it has released the mutex: a set
    granted       \* coroutines that aio_co_wake has scheduled

ASSUME CoRwlockAssumption == IsFiniteSet(Coroutines)

rwVars == <<owners, tickets, rw, wakes, granted>>
allVars == <<vars, rwVars>>

RwInit ==
    /\ Init
    /\ owners = 0 /\ tickets = <<>>
    /\ rw = [c \in Coroutines |-> "none"]
    /\ wakes = [c \in Coroutines |-> {}]
    /\ granted = {}

Become(c, m) == rw' = [rw EXCEPT ![c] = m]

(* The mutex is taken inside these calls.                                  *)
InCall(c) == rw[c] \in {"rdlock", "wrlock", "rdunlock", "wrunlock", "upgrade", "downgrade", "pass"}
MutexStep(c) ==
    /\ InCall(c) \/ at[c] # "out"
    /\ InMutex(c)
    /\ UNCHANGED rwVars

Call(c) ==
    /\ at[c] = "out" /\ wakes[c] = {}
    /\ \/ rw[c] = "none" /\ \E m \in {"rdlock", "wrlock"} : Become(c, m)
       \/ rw[c] = "read" /\ \E m \in {"rdunlock", "upgrade"} : Become(c, m)
       \/ rw[c] = "write" /\ \E m \in {"wrunlock", "downgrade"} : Become(c, m)
    /\ UNCHANGED <<vars, owners, tickets, wakes, granted>>

(* qemu_co_rwlock_maybe_wake_one, from o owners and the tickets q.         *)
MaybeWakeAny(c, o, q) ==                \* mutant: wakes a writer beside readers
    IF q = <<>>
    THEN owners' = o /\ tickets' = q /\ UNCHANGED wakes
    ELSE /\ owners' = IF q[1].read THEN o + 1 ELSE -1
         /\ tickets' = Tail(q)
         /\ wakes' = [wakes EXCEPT ![c] = {q[1].co}]
MaybeWakeNext(c, o, q) ==               \* mutant: reads tkt->co after the removal
    IF q = <<>> \/ (q[1].read /\ o < 0) \/ (~q[1].read /\ o # 0)
    THEN owners' = o /\ tickets' = q /\ UNCHANGED wakes
    ELSE /\ owners' = IF q[1].read THEN o + 1 ELSE -1
         /\ tickets' = Tail(q)
         /\ wakes' = [wakes EXCEPT ![c] = {q[k].co : k \in {2} \cap DOMAIN q}]
MaybeWake(c, o, q) ==
    IF q = <<>> \/ (q[1].read /\ o < 0) \/ (~q[1].read /\ o # 0)
    THEN owners' = o /\ tickets' = q /\ UNCHANGED wakes
    ELSE /\ owners' = IF q[1].read THEN o + 1 ELSE -1
         /\ tickets' = Tail(q)
         /\ wakes' = [wakes EXCEPT ![c] = {q[1].co}]

InLine(c, r) == Append(tickets, [co |-> c, read |-> r])
Leave(c) == Unlock(c) /\ UNCHANGED granted   \* the mutex is released

RdLock(c) ==
    /\ rw[c] = "rdlock" /\ Leave(c)
    /\ IF owners = 0 \/ (owners > 0 /\ tickets = <<>>)
       THEN owners' = owners + 1 /\ Become(c, "read") /\ UNCHANGED tickets
       ELSE tickets' = InLine(c, TRUE) /\ Become(c, "rdwait") /\ UNCHANGED owners
    /\ UNCHANGED wakes

WrLock(c) ==
    /\ rw[c] = "wrlock" /\ Leave(c)
    /\ IF owners = 0
       THEN owners' = -1 /\ Become(c, "write") /\ UNCHANGED tickets
       ELSE tickets' = InLine(c, FALSE) /\ Become(c, "wrwait") /\ UNCHANGED owners
    /\ UNCHANGED wakes

UnlockRw(c) ==
    /\ rw[c] \in {"rdunlock", "wrunlock"} /\ Leave(c)
    /\ MaybeWake(c, IF owners > 0 THEN owners - 1 ELSE 0, tickets)
    /\ Become(c, "none")

DowngradeNoWake(c) ==                   \* mutant: nobody is woken
    /\ rw[c] = "downgrade" /\ Leave(c)
    /\ owners' = 1 /\ Become(c, "read") /\ UNCHANGED <<tickets, wakes>>
Downgrade(c) ==
    /\ rw[c] = "downgrade" /\ Leave(c)
    /\ MaybeWake(c, 1, tickets)
    /\ Become(c, "read")

Upgrade(c) ==
    /\ rw[c] = "upgrade" /\ Leave(c)
    /\ IF owners = 1 /\ tickets = <<>>
       THEN owners' = -1 /\ Become(c, "write") /\ UNCHANGED <<tickets, wakes>>
       ELSE MaybeWake(c, owners - 1, InLine(c, FALSE)) /\ Become(c, "wrwait")

(* A reader that waited passes the wake-up on.                             *)
Pass(c) ==
    /\ rw[c] = "pass" /\ Leave(c)
    /\ MaybeWake(c, owners, tickets)
    /\ Become(c, "read")

WakeTicket(c) ==                        \* aio_co_wake, after the unlock
    /\ at[c] = "out" /\ wakes[c] # {}
    /\ granted' = granted \union wakes[c]
    /\ wakes' = [wakes EXCEPT ![c] = {}]
    /\ UNCHANGED <<vars, owners, tickets, rw>>

Yielded(c) ==                           \* qemu_coroutine_yield returns
    /\ at[c] = "out" /\ wakes[c] = {} /\ c \in granted
    /\ \/ rw[c] = "rdwait" /\ Become(c, "pass")
       \/ rw[c] = "wrwait" /\ Become(c, "write")
    /\ granted' = granted \ {c}
    /\ UNCHANGED <<vars, owners, tickets, wakes>>

RwStep(c) ==
    \/ MutexStep(c) \/ RdLock(c) \/ WrLock(c) \/ UnlockRw(c) \/ Downgrade(c)
    \/ Upgrade(c) \/ Pass(c) \/ WakeTicket(c) \/ Yielded(c)

RwNext == \E c \in Coroutines : Call(c) \/ RwStep(c)
RwSpec == RwInit /\ [][RwNext]_allVars

-----------------------------------------------------------------------------
Queued   == {tickets[k].co : k \in DOMAIN tickets}
Readers  == {c \in Coroutines : \/ rw[c] \in {"read", "upgrade", "pass", "rdunlock"}
                                \/ rw[c] = "rdwait" /\ c \notin Queued}
Writers  == {c \in Coroutines : \/ rw[c] \in {"write", "downgrade", "wrunlock"}
                                \/ rw[c] = "wrwait" /\ c \notin Queued}

(* owners counts the readers or is -1 for the one writer, those included   *)
(* that were granted the lock and have not run yet: what the assertions    *)
(* after each qemu_coroutine_yield, in unlock, downgrade and upgrade say.  *)
OwnersExact ==
    IF Writers = {} THEN owners = Cardinality(Readers)
    ELSE owners = -1 /\ Readers = {} /\ Cardinality(Writers) = 1

(* No ticket is forgotten: the first in line waits for holders of the      *)
(* lock, and a reader at the head beside readers for the one of them that  *)
(* was itself woken and passes the wake-up on.                             *)
TicketOwed ==
    tickets # <<>> =>
        IF tickets[1].read
        THEN Writers # {} \/ \E c \in Readers : rw[c] \in {"pass", "rdwait"}
        ELSE Readers \union Writers # {}

(* A coroutine that was granted the lock is woken for it once.             *)
GrantedOnce ==
    \A c \in Coroutines : c \notin Queued /\ rw[c] \in {"rdwait", "wrwait"} =>
        Cardinality({d \in Coroutines : c \in wakes[d]}) + (IF c \in granted THEN 1 ELSE 0) = 1

(* The read-write lock implements ReadersWriter.                           *)
RwSections == INSTANCE ReadersWriter WITH
    Procs <- Coroutines,
    mode  <- [c \in Coroutines |-> IF rw[c] \in {"read", "upgrade"} THEN "read"
                                   ELSE IF rw[c] \in {"write", "downgrade"} THEN "write"
                                   ELSE "out"]

ImplementsRwSections == RwSections!Spec
=============================================================================
