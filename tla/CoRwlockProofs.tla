---------------------------- MODULE CoRwlockProofs --------------------------
(***************************************************************************)
(* Proofs about the coroutine mutex, for any set of coroutines and any     *)
(* wrap of the sequence number, and about the read-write lock on top of    *)
(* it, for any finite set of coroutines.  The former carry over because a  *)
(* step of the read-write lock is a step of its mutex or leaves the mutex  *)
(* alone.                                                                  *)
(***************************************************************************)
EXTENDS CoRwlock, FiniteSetTheorems, SequenceTheorems, TLAPS

Places == {"out", "retry", "spin", "inc", "push", "read", "test", "steal", "yield", "lpop",
           "lpop2", "locked", "hold", "dec", "upop", "upop2", "hand", "utest", "uback"}

Types ==
    /\ locked \in Nat /\ handoff \in Nat /\ sequence \in Nat
    /\ from_push \in Seq(Coroutines) /\ to_pop \in Seq(Coroutines)
    /\ reversed \in [Coroutines -> Seq(Coroutines)]
    /\ at \in [Coroutines -> Places]
    /\ seen \in [Coroutines -> Nat]
    /\ woken \in [Coroutines -> Nat]

HasTurn(c) == at[c] \in {"locked", "hold", "dec", "lpop", "lpop2", "upop", "upop2", "hand"}

(* The turn is in one place: with a coroutine that runs, in a wake-up, or  *)
(* in the hand-off.                                                        *)
OneTurn ==
    /\ \A c, d \in Coroutines : HasTurn(c) /\ HasTurn(d) => c = d
    /\ \A c, d \in Coroutines : HasTurn(c) => woken[d] = 0
    /\ \A c \in Coroutines : HasTurn(c) => handoff = 0
    /\ \A c, d \in Coroutines : woken[c] > 0 /\ woken[d] > 0 => c = d
    /\ \A c \in Coroutines : woken[c] > 0 => woken[c] = 1 /\ handoff = 0

(* It is somewhere exactly while locked is not zero.                       *)
TurnExists ==
    locked > 0 <=> \/ \E c \in Coroutines : HasTurn(c)
                   \/ \E c \in Coroutines : woken[c] > 0
                   \/ handoff # 0

(* A cmpxchg on the hand-off expects a number that is not zero.            *)
Expects ==
    \A c \in Coroutines : at[c] \in {"test", "steal", "utest", "uback"} => seen[c] # 0

Holds == \A c \in Coroutines : at[c] = "hold" => holder = {c}

IInv == Types /\ OneTurn /\ TurnExists /\ Expects /\ Holds

-----------------------------------------------------------------------------
(* What pop_waiter takes from is a list of wait records.                   *)
LEMMA ToPopType ==
    ASSUME Types, NEW c \in Coroutines
    PROVE  /\ ToPop(c) \in Seq(Coroutines)
           /\ ToPop(c) # <<>> => Head(ToPop(c)) \in Coroutines /\ Tail(ToPop(c)) \in Seq(Coroutines)
<1>1. reversed[c] \in Seq(Coroutines)
  BY Zenon DEF Types
<1>2. Reverse(reversed[c]) \in Seq(Coroutines)
  <2>. DEFINE s == reversed[c]
  <2>1. Len(s) \in Nat /\ \A i \in 1 .. Len(s) : s[i] \in Coroutines
    BY <1>1
  <2>2. \A i \in 1 .. Len(s) : (Len(s) - i) + 1 \in 1 .. Len(s)
    BY <2>1
  <2>3. [i \in 1 .. Len(s) |-> s[(Len(s) - i) + 1]] \in [1 .. Len(s) -> Coroutines]
    BY Zenon, <2>1, <2>2
  <2>. QED
    BY <2>1, <2>3, SeqDef DEF Reverse
<1>3. ToPop(c) \in Seq(Coroutines)
  BY <1>2 DEF ToPop, Types
<1>. QED
  BY <1>3

(* The cmpxchg takes the turn when nobody has it.                          *)
LEMMA TryKeeps ==
    ASSUME IInv, NEW c \in Coroutines, Try(c)
    PROVE  IInv'
<1>. USE DEF Try, queues
<1>0. Types
  BY Zenon DEF IInv
<1>1. Types'
  BY Zenon, <1>0 DEF Types, Places
<1>2. OneTurn'
  BY <1>0, <1>1 DEF IInv, Types, OneTurn, TurnExists, HasTurn
<1>3. TurnExists'
  BY <1>0, <1>1 DEF IInv, Types, OneTurn, TurnExists, HasTurn
<1>4. Expects'
  BY Zenon, <1>0, <1>1 DEF IInv, Types, Expects
<1>5. Holds'
  BY Zenon, <1>0, <1>1 DEF IInv, Types, Holds
<1>. QED
  BY Zenon, <1>1, <1>2, <1>3, <1>4, <1>5 DEF IInv

(* The spin only reads.                                                    *)
LEMMA SpinKeeps ==
    ASSUME IInv, NEW c \in Coroutines, Spin(c)
    PROVE  IInv'
<1>. USE DEF Spin, Goto, queues
<1>0. Types
  BY Zenon DEF IInv
<1>1. Types'
  BY Zenon, <1>0 DEF Types, Places
<1>2. OneTurn'
  <2>1. \A d \in Coroutines : HasTurn(d)' => HasTurn(d)
    BY Zenon, <1>0 DEF Types, HasTurn
  <2>2. woken' = woken /\ handoff' = handoff
    BY Zenon
  <2>. QED
    BY Zenon, <2>1, <2>2 DEF IInv, OneTurn
<1>3. TurnExists'
  BY Zenon, <1>0, <1>1 DEF IInv, Types, TurnExists, HasTurn
<1>4. Expects'
  BY Zenon, <1>0, <1>1 DEF IInv, Types, Expects
<1>5. Holds'
  BY Zenon, <1>0, <1>1 DEF IInv, Types, Holds
<1>. QED
  BY Zenon, <1>1, <1>2, <1>3, <1>4, <1>5 DEF IInv

(* The increment takes the turn when nobody has it.                        *)
LEMMA FetchIncKeeps ==
    ASSUME IInv, NEW c \in Coroutines, FetchInc(c)
    PROVE  IInv'
<1>. USE DEF FetchInc, Goto, queues
<1>0. Types
  BY Zenon DEF IInv
<1>1. Types'
  BY <1>0 DEF Types, Places
<1>2. OneTurn'
  BY <1>0, <1>1 DEF IInv, Types, OneTurn, TurnExists, HasTurn
<1>3. TurnExists'
  BY <1>0, <1>1 DEF IInv, Types, OneTurn, TurnExists, HasTurn
<1>4. Expects'
  BY Zenon, <1>0, <1>1 DEF IInv, Types, Expects
<1>5. Holds'
  BY Zenon, <1>0, <1>1 DEF IInv, Types, Holds
<1>. QED
  BY Zenon, <1>1, <1>2, <1>3, <1>4, <1>5 DEF IInv

(* The record is pushed.                                                   *)
LEMMA push_waiterKeeps ==
    ASSUME IInv, NEW c \in Coroutines, push_waiter(c)
    PROVE  IInv'
<1>. USE DEF push_waiter, Goto
<1>0. Types
  BY Zenon DEF IInv
<1>1. Types'
  BY <1>0 DEF Types, Places
<1>2. OneTurn'
  BY Zenon, <1>0, <1>1 DEF IInv, Types, OneTurn, HasTurn
<1>3. TurnExists'
  BY Zenon, <1>0, <1>1 DEF IInv, Types, TurnExists, HasTurn
<1>4. Expects'
  BY Zenon, <1>0, <1>1 DEF IInv, Types, Expects
<1>5. Holds'
  BY Zenon, <1>0, <1>1 DEF IInv, Types, Holds
<1>. QED
  BY Zenon, <1>1, <1>2, <1>3, <1>4, <1>5 DEF IInv

(* The hand-off is read.                                                   *)
LEMMA ReadHandoffKeeps ==
    ASSUME IInv, NEW c \in Coroutines, ReadHandoff(c)
    PROVE  IInv'
<1>. USE DEF ReadHandoff, Goto, See, queues
<1>0. Types
  BY Zenon DEF IInv
<1>1. Types'
  BY Zenon, <1>0 DEF Types, Places
<1>2. OneTurn'
  BY Zenon, <1>0, <1>1 DEF IInv, Types, OneTurn, HasTurn
<1>3. TurnExists'
  BY Zenon, <1>0, <1>1 DEF IInv, Types, TurnExists, HasTurn
<1>4. Expects'
  BY Zenon, <1>0, <1>1 DEF IInv, Types, Expects
<1>5. Holds'
  BY Zenon, <1>0, <1>1 DEF IInv, Types, Holds
<1>. QED
  BY Zenon, <1>1, <1>2, <1>3, <1>4, <1>5 DEF IInv

(* The lists are read.                                                     *)
LEMMA TestWaitersKeeps ==
    ASSUME IInv, NEW c \in Coroutines, TestWaiters(c)
    PROVE  IInv'
<1>. USE DEF TestWaiters, Goto, queues
<1>0. Types
  BY Zenon DEF IInv
<1>1. Types'
  BY Zenon, <1>0 DEF Types, Places
<1>2. OneTurn'
  BY Zenon, <1>0, <1>1 DEF IInv, Types, OneTurn, HasTurn
<1>3. TurnExists'
  BY Zenon, <1>0, <1>1 DEF IInv, Types, TurnExists, HasTurn
<1>4. Expects'
  BY Zenon, <1>0, <1>1 DEF IInv, Types, Expects
<1>5. Holds'
  BY Zenon, <1>0, <1>1 DEF IInv, Types, Holds
<1>. QED
  BY Zenon, <1>1, <1>2, <1>3, <1>4, <1>5 DEF IInv

(* The turn moves from the hand-off to the lock.                           *)
LEMMA StealKeeps ==
    ASSUME IInv, NEW c \in Coroutines, Steal(c)
    PROVE  IInv'
<1>. USE DEF Steal, Goto, See, queues
<1>0. Types
  BY Zenon DEF IInv
<1>1. Types'
  BY Zenon, <1>0 DEF Types, Places
<1>2. OneTurn'
  BY <1>0, <1>1 DEF IInv, Types, OneTurn, Expects, HasTurn
<1>3. TurnExists'
  BY Zenon, <1>0, <1>1 DEF IInv, Types, TurnExists, Expects, HasTurn
<1>4. Expects'
  BY Zenon, <1>0, <1>1 DEF IInv, Types, Expects
<1>5. Holds'
  BY Zenon, <1>0, <1>1 DEF IInv, Types, Holds
<1>. QED
  BY Zenon, <1>1, <1>2, <1>3, <1>4, <1>5 DEF IInv

(* The turn moves from the wake-up to the coroutine.                       *)
LEMMA ResumeKeeps ==
    ASSUME IInv, NEW c \in Coroutines, Resume(c)
    PROVE  IInv'
<1>. USE DEF Resume, Goto, See, queues
<1>0. Types
  BY Zenon DEF IInv
<1>1. Types'
  BY <1>0 DEF Types, Places
<1>2. OneTurn'
  BY <1>0, <1>1 DEF IInv, Types, OneTurn, HasTurn
<1>3. TurnExists'
  BY Zenon, <1>0, <1>1 DEF IInv, Types, OneTurn, TurnExists, HasTurn
<1>4. Expects'
  BY Zenon, <1>0, <1>1 DEF IInv, Types, Expects
<1>5. Holds'
  BY Zenon, <1>0, <1>1 DEF IInv, Types, Holds
<1>. QED
  BY Zenon, <1>1, <1>2, <1>3, <1>4, <1>5 DEF IInv

(* The owner is recorded.                                                  *)
LEMMA SetHolderKeeps ==
    ASSUME IInv, NEW c \in Coroutines, SetHolder(c)
    PROVE  IInv'
<1>. USE DEF SetHolder, Goto, queues
<1>0. Types
  BY Zenon DEF IInv
<1>1. Types'
  BY Zenon, <1>0 DEF Types, Places
<1>2. OneTurn'
  BY ZenonT(30), <1>0, <1>1 DEF IInv, Types, OneTurn, HasTurn
<1>3. TurnExists'
  BY Zenon, <1>0, <1>1 DEF IInv, Types, TurnExists, HasTurn
<1>4. Expects'
  BY Zenon, <1>0, <1>1 DEF IInv, Types, Expects
<1>5. Holds'
  BY Zenon, <1>0, <1>1 DEF IInv, Types, OneTurn, Holds, HasTurn
<1>. QED
  BY Zenon, <1>1, <1>2, <1>3, <1>4, <1>5 DEF IInv

(* The records are taken.                                                  *)
LEMMA MoveWaitersKeeps ==
    ASSUME IInv, NEW c \in Coroutines, MoveWaiters(c)
    PROVE  IInv'
<1>. USE DEF MoveWaiters, Goto
<1>0. Types
  BY Zenon DEF IInv
<1>1. Types'
  BY Zenon, <1>0 DEF Types, Places
<1>2. OneTurn'
  BY ZenonT(30), <1>0, <1>1 DEF IInv, Types, OneTurn, HasTurn
<1>3. TurnExists'
  BY Zenon, <1>0, <1>1 DEF IInv, Types, TurnExists, HasTurn
<1>4. Expects'
  BY Zenon, <1>0, <1>1 DEF IInv, Types, Expects
<1>5. Holds'
  BY Zenon, <1>0, <1>1 DEF IInv, Types, Holds
<1>. QED
  BY Zenon, <1>1, <1>2, <1>3, <1>4, <1>5 DEF IInv

(* The turn stays or becomes a wake-up.                                    *)
LEMMA PopInLockKeeps ==
    ASSUME IInv, NEW c \in Coroutines, PopInLock(c)
    PROVE  IInv'
<1>. USE DEF PopInLock, Goto, Wake
<1>0. Types
  BY Zenon DEF IInv
<1>a. ToPop(c) \in Seq(Coroutines) /\ (ToPop(c) # <<>> => Head(ToPop(c)) \in Coroutines
                                        /\ Tail(ToPop(c)) \in Seq(Coroutines))
  BY Zenon, <1>0, ToPopType
<1>b. Wake(Head(ToPop(c))) \/ UNCHANGED woken
  BY Zenon
<1>c. /\ to_pop' \in Seq(Coroutines) /\ reversed' \in [Coroutines -> Seq(Coroutines)]
      /\ at' \in [Coroutines -> Places] /\ woken' \in [Coroutines -> Nat]
  <2>1. to_pop' \in Seq(Coroutines)
    BY Zenon, <1>a
  <2>2. reversed' \in [Coroutines -> Seq(Coroutines)]
    BY <1>0 DEF Types
  <2>3. at' \in [Coroutines -> Places]
    BY Zenon, <1>0 DEF Types, Places
  <2>4. woken' \in [Coroutines -> Nat]
    <3>1. CASE UNCHANGED woken
      BY Zenon, <1>0, <3>1 DEF Types
    <3>2. ASSUME NEW d \in Coroutines, woken' = [woken EXCEPT ![d] = @ + 1]
          PROVE  woken' \in [Coroutines -> Nat]
      BY <1>0, <3>2 DEF Types
    <3>. QED
      BY Zenon, <1>a, <1>b, <3>1, <3>2
  <2>. QED
    BY Zenon, <2>1, <2>2, <2>3, <2>4
<1>1. Types'
  BY Zenon, <1>0, <1>c DEF Types
<1>2. OneTurn'
  <2>0. /\ at[c] = "lpop2" /\ handoff' = handoff
        /\ \A d \in Coroutines : woken[d] = 0 /\ (d # c => ~HasTurn(d))
    BY Zenon DEF IInv, OneTurn, HasTurn
  <2>1. CASE Head(ToPop(c)) = c
    <3>1. at' = [at EXCEPT ![c] = "locked"] /\ woken' = woken
      BY Zenon, <2>1
    <3>. QED
      BY ZenonT(30), <1>0, <2>0, <3>1 DEF IInv, Types, OneTurn, HasTurn
  <2>2. CASE Head(ToPop(c)) # c
    <3>1. PICK d \in Coroutines : woken' = [woken EXCEPT ![d] = @ + 1]
      BY Zenon, <1>a, <2>2
    <3>2. at' = [at EXCEPT ![c] = "yield"]
      BY Zenon, <2>2
    <3>3. \A k \in Coroutines : woken'[k] = IF k = d THEN 1 ELSE 0
      BY <1>0, <2>0, <3>1 DEF Types
    <3>4. \A k \in Coroutines : ~HasTurn(k)'
      BY Zenon, <1>0, <2>0, <3>2 DEF Types, HasTurn
    <3>5. handoff' = 0
      BY Zenon, <2>0 DEF IInv, OneTurn, HasTurn
    <3>. QED
      BY <3>3, <3>4, <3>5 DEF OneTurn
  <2>. QED
    BY Zenon, <2>1, <2>2
<1>3. TurnExists'
  BY <1>0, <1>a, <1>1 DEF IInv, Types, OneTurn, TurnExists, HasTurn
<1>4. Expects'
  BY Zenon, <1>0, <1>a, <1>1 DEF IInv, Types, Expects
<1>5. Holds'
  BY Zenon, <1>0, <1>a, <1>1 DEF IInv, Types, Holds
<1>. QED
  BY Zenon, <1>1, <1>2, <1>3, <1>4, <1>5 DEF IInv

(* The turn becomes a wake-up, or is to be handed off.                     *)
LEMMA PopInUnlockKeeps ==
    ASSUME IInv, NEW c \in Coroutines, PopInUnlock(c)
    PROVE  IInv'
<1>. USE DEF PopInUnlock, Goto, Wake
<1>0. Types
  BY Zenon DEF IInv
<1>a. ToPop(c) \in Seq(Coroutines) /\ (ToPop(c) # <<>> => Head(ToPop(c)) \in Coroutines
                                        /\ Tail(ToPop(c)) \in Seq(Coroutines))
  BY Zenon, <1>0, ToPopType
<1>b. ASSUME ToPop(c) # <<>> PROVE Types' /\ OneTurn'
  <2>0. /\ at[c] = "upop2" /\ handoff' = handoff
        /\ \A d \in Coroutines : woken[d] = 0 /\ (d # c => ~HasTurn(d))
    BY Zenon DEF IInv, OneTurn, HasTurn
  <2>1. PICK d \in Coroutines : woken' = [woken EXCEPT ![d] = @ + 1]
    BY Zenon, <1>a, <1>b
  <2>2. at' = [at EXCEPT ![c] = "out"] /\ to_pop' \in Seq(Coroutines)
    BY Zenon, <1>a, <1>b
  <2>3. \A k \in Coroutines : woken'[k] = IF k = d THEN 1 ELSE 0
    BY <1>0, <2>0, <2>1 DEF Types
  <2>4. \A k \in Coroutines : ~HasTurn(k)'
    BY Zenon, <1>0, <2>0, <2>2 DEF Types, HasTurn
  <2>5. handoff' = 0
    BY Zenon, <2>0 DEF IInv, OneTurn, HasTurn
  <2>6. reversed' \in [Coroutines -> Seq(Coroutines)]
    BY <1>0 DEF Types
  <2>7. at' \in [Coroutines -> Places]
    BY Zenon, <1>0, <2>2 DEF Types, Places
  <2>8. woken' \in [Coroutines -> Nat]
    BY <1>0, <2>1 DEF Types
  <2>9. Types'
    BY Zenon, <1>0, <2>2, <2>6, <2>7, <2>8 DEF Types
  <2>. QED
    BY <2>3, <2>4, <2>5, <2>9 DEF OneTurn
<1>c. ASSUME ToPop(c) = <<>> PROVE Types' /\ OneTurn'
  <2>1. at' = [at EXCEPT ![c] = "hand"] /\ at[c] = "upop2" /\ UNCHANGED <<woken, to_pop, handoff>>
    BY Zenon, <1>c
  <2>2. reversed' \in [Coroutines -> Seq(Coroutines)]
    BY <1>0 DEF Types
  <2>3. Types'
    BY Zenon, <1>0, <2>1, <2>2 DEF Types, Places
  <2>. QED
    BY Zenon, <1>0, <2>1, <2>3 DEF IInv, Types, OneTurn, HasTurn
<1>1. Types'
  BY Zenon, <1>b, <1>c
<1>2. OneTurn'
  BY Zenon, <1>b, <1>c
<1>3. TurnExists'
  BY <1>0, <1>a, <1>1 DEF IInv, Types, OneTurn, TurnExists, HasTurn
<1>4. Expects'
  BY Zenon, <1>0, <1>a, <1>1 DEF IInv, Types, Expects
<1>5. Holds'
  BY Zenon, <1>0, <1>a, <1>1 DEF IInv, Types, Holds
<1>. QED
  BY Zenon, <1>1, <1>2, <1>3, <1>4, <1>5 DEF IInv

(* The owner is forgotten.                                                 *)
LEMMA UnlockKeeps ==
    ASSUME IInv, NEW c \in Coroutines, Unlock(c)
    PROVE  IInv'
<1>. USE DEF Unlock, Goto, queues
<1>0. Types
  BY Zenon DEF IInv
<1>1. Types'
  BY Zenon, <1>0 DEF Types, Places
<1>2. OneTurn'
  BY ZenonT(30), <1>0, <1>1 DEF IInv, Types, OneTurn, HasTurn
<1>3. TurnExists'
  BY Zenon, <1>0, <1>1 DEF IInv, Types, TurnExists, HasTurn
<1>4. Expects'
  BY Zenon, <1>0, <1>1 DEF IInv, Types, Expects
<1>5. Holds'
  BY Zenon, <1>0, <1>1 DEF IInv, Types, OneTurn, Holds, HasTurn
<1>. QED
  BY Zenon, <1>1, <1>2, <1>3, <1>4, <1>5 DEF IInv

(* The turn ends when nobody else wants it.                                *)
LEMMA FetchDecKeeps ==
    ASSUME IInv, NEW c \in Coroutines, FetchDec(c)
    PROVE  IInv'
<1>. USE DEF FetchDec, Goto, queues
<1>0. Types
  BY Zenon DEF IInv
<1>a. locked > 0
  BY Zenon DEF IInv, TurnExists, HasTurn
<1>1. Types'
  BY <1>0, <1>a DEF Types, Places
<1>2. OneTurn'
  BY Zenon, <1>0, <1>1 DEF IInv, Types, OneTurn, HasTurn
<1>3. TurnExists'
  BY <1>0, <1>1 DEF IInv, Types, OneTurn, TurnExists, HasTurn
<1>4. Expects'
  BY Zenon, <1>0, <1>1 DEF IInv, Types, Expects
<1>5. Holds'
  BY Zenon, <1>0, <1>1 DEF IInv, Types, Holds
<1>. QED
  BY Zenon, <1>1, <1>2, <1>3, <1>4, <1>5 DEF IInv

(* The turn moves to the hand-off.                                         *)
LEMMA SetHandoffKeeps ==
    ASSUME IInv, NEW c \in Coroutines, SetHandoff(c)
    PROVE  IInv'
<1>. USE DEF Goto, See, queues
<1>0. Types
  BY Zenon DEF IInv
<1>a. PICK s \in Nat \ {0} : /\ Goto(c, "hand", "utest") /\ sequence' = s /\ handoff' = s /\ See(c, s)
                              /\ UNCHANGED <<locked, holder, queues, woken>>
  <2>. DEFINE s == IF (sequence + 1) % SeqWrap = 0 THEN 1 ELSE sequence + 1
  <2>1. s \in Nat \ {0}
    BY <1>0 DEF Types
  <2>. QED
    BY Zenon, <2>1 DEF SetHandoff
<1>1. Types'
  BY Zenon, <1>0, <1>a DEF Types, Places
<1>2. OneTurn'
  BY <1>0, <1>a, <1>1 DEF IInv, Types, OneTurn, HasTurn
<1>3. TurnExists'
  BY Zenon, <1>0, <1>a, <1>1 DEF IInv, Types, OneTurn, TurnExists, HasTurn
<1>4. Expects'
  BY Zenon, <1>0, <1>a, <1>1 DEF IInv, Types, Expects
<1>5. Holds'
  BY Zenon, <1>0, <1>a, <1>1 DEF IInv, Types, Holds
<1>. QED
  BY Zenon, <1>1, <1>2, <1>3, <1>4, <1>5 DEF IInv

(* The lists are read.                                                     *)
LEMMA TestHandoffKeeps ==
    ASSUME IInv, NEW c \in Coroutines, TestHandoff(c)
    PROVE  IInv'
<1>. USE DEF TestHandoff, Goto, queues
<1>0. Types
  BY Zenon DEF IInv
<1>1. Types'
  BY Zenon, <1>0 DEF Types, Places
<1>2. OneTurn'
  BY Zenon, <1>0, <1>1 DEF IInv, Types, OneTurn, HasTurn
<1>3. TurnExists'
  BY Zenon, <1>0, <1>1 DEF IInv, Types, TurnExists, HasTurn
<1>4. Expects'
  BY Zenon, <1>0, <1>1 DEF IInv, Types, Expects
<1>5. Holds'
  BY Zenon, <1>0, <1>1 DEF IInv, Types, Holds
<1>. QED
  BY Zenon, <1>1, <1>2, <1>3, <1>4, <1>5 DEF IInv

(* The turn moves from the hand-off back to the unlock.                    *)
LEMMA TakeBackKeeps ==
    ASSUME IInv, NEW c \in Coroutines, TakeBack(c)
    PROVE  IInv'
<1>. USE DEF TakeBack, Goto, See, queues
<1>0. Types
  BY Zenon DEF IInv
<1>1. Types'
  BY Zenon, <1>0 DEF Types, Places
<1>2. OneTurn'
  BY <1>0, <1>1 DEF IInv, Types, OneTurn, Expects, HasTurn
<1>3. TurnExists'
  BY Zenon, <1>0, <1>1 DEF IInv, Types, TurnExists, Expects, HasTurn
<1>4. Expects'
  BY Zenon, <1>0, <1>1 DEF IInv, Types, Expects
<1>5. Holds'
  BY Zenon, <1>0, <1>1 DEF IInv, Types, Holds
<1>. QED
  BY Zenon, <1>1, <1>2, <1>3, <1>4, <1>5 DEF IInv

-----------------------------------------------------------------------------
(* Nobody has the turn at first.                                           *)
LEMMA InitIInv == Init => IInv
<1>. SUFFICES ASSUME Init PROVE IInv
  BY Zenon
<1>1. Types
  BY DEF Init, Types, Places
<1>2. OneTurn /\ TurnExists /\ Expects /\ Holds
  BY DEF Init, OneTurn, TurnExists, Expects, Holds, HasTurn
<1>. QED
  BY Zenon, <1>1, <1>2 DEF IInv

(* Every step keeps the invariant.                                         *)
LEMMA NextIInv == IInv /\ [Next]_vars => IInv'
<1>. SUFFICES ASSUME IInv, [Next]_vars PROVE IInv'
  BY Zenon
<1>1. CASE UNCHANGED vars
  BY Zenon, <1>1 DEF vars, IInv, Types, OneTurn, TurnExists, Expects, Holds, HasTurn
<1>2. ASSUME NEW c \in Coroutines, InMutex(c) \/ Unlock(c)
      PROVE  IInv'
  BY Zenon, <1>2, TryKeeps, SpinKeeps, FetchIncKeeps, push_waiterKeeps, ReadHandoffKeeps,
     TestWaitersKeeps, StealKeeps, ResumeKeeps, SetHolderKeeps, MoveWaitersKeeps,
     PopInLockKeeps, PopInUnlockKeeps, UnlockKeeps, FetchDecKeeps, SetHandoffKeeps,
     TestHandoffKeeps, TakeBackKeeps DEF InMutex
<1>. QED
  BY Zenon, <1>1, <1>2 DEF Next

-----------------------------------------------------------------------------
(* qemu_co_mutex_unlock's assertions hold, and the mutex has one owner.    *)
THEOREM OneOwnerHolds == Spec => []OneOwner
<1>1. IInv => OneOwner
  BY Zenon DEF IInv, Types, OneTurn, TurnExists, Holds, HasTurn, OneOwner
<1>. QED
  BY <1>1, InitIInv, NextIInv, PTL DEF Spec

(* pop_waiter is never run by two coroutines at once.                      *)
THEOREM OnePopperHolds == Spec => []OnePopper
<1>1. IInv => OnePopper
  BY Zenon DEF IInv, OneTurn, HasTurn, OnePopper
<1>. QED
  BY <1>1, InitIInv, NextIInv, PTL DEF Spec

(* While the mutex is wanted exactly one coroutine, wake-up or hand-off    *)
(* has the turn: no unlock leaves the waiters behind.                      *)
THEOREM TurnOwedHolds == Spec => []TurnOwed
<1>1. IInv => TurnOwed
  <2>. SUFFICES ASSUME IInv PROVE TurnOwed
    BY Zenon
  <2>. DEFINE Woken == {c \in Coroutines : woken[c] > 0}
  <2>1. CASE \E c \in Coroutines : HasTurn(c)
    <3>1. PICK c \in Coroutines : HasTurn(c)
      BY Zenon, <2>1
    <3>2. Turns = {c} /\ Woken = {} /\ handoff = 0 /\ locked > 0
      BY <3>1 DEF IInv, OneTurn, TurnExists, HasTurn, Turns
    <3>3. Cardinality(Turns) = 1 /\ Cardinality(Woken) = 0
      BY Zenon, <3>2, FS_Singleton, FS_EmptySet
    <3>. QED
      BY <3>2, <3>3 DEF TurnOwed
  <2>2. CASE \E c \in Coroutines : woken[c] > 0
    <3>1. PICK c \in Coroutines : woken[c] > 0
      BY Zenon, <2>2
    <3>2. Turns = {} /\ Woken = {c} /\ handoff = 0 /\ locked > 0
      BY <3>1 DEF IInv, OneTurn, TurnExists, HasTurn, Turns
    <3>3. Cardinality(Turns) = 0 /\ Cardinality(Woken) = 1
      BY Zenon, <3>2, FS_Singleton, FS_EmptySet
    <3>. QED
      BY <3>2, <3>3 DEF TurnOwed
  <2>3. CASE /\ ~(\E c \in Coroutines : HasTurn(c)) /\ ~(\E c \in Coroutines : woken[c] > 0)
    <3>1. Turns = {} /\ Woken = {} /\ (locked > 0 <=> handoff # 0)
      BY Zenon, <2>3 DEF IInv, TurnExists, HasTurn, Turns
    <3>. QED
      BY <3>1, FS_EmptySet DEF TurnOwed
  <2>. QED
    BY Zenon, <2>1, <2>2, <2>3
<1>. QED
  BY <1>1, InitIInv, NextIInv, PTL DEF Spec

-----------------------------------------------------------------------------
Modes == [c \in Coroutines |-> IF at[c] = "hold" THEN "write" ELSE "out"]

(* A step that keeps who holds the mutex is a stutter; setting the holder  *)
(* is Write and the start of an unlock is Leave.                           *)
LEMMA StepRefines == IInv /\ [Next]_vars => [Lock!Next]_Modes
<1>. SUFFICES ASSUME IInv, [Next]_vars, Modes' # Modes PROVE Lock!Next
  BY Zenon
<1>0. at \in [Coroutines -> Places]
  BY Zenon DEF IInv, Types
<1>1. PICK c \in Coroutines : InMutex(c) \/ Unlock(c)
  BY Zenon DEF Next, vars, Modes
<1>2. CASE SetHolder(c)
  <2>1. \A q \in Coroutines : at[q] # "hold"
    BY Zenon, <1>2 DEF SetHolder, Goto, IInv, OneTurn, HasTurn
  <2>2. Modes' = [Modes EXCEPT ![c] = "write"]
    BY Zenon, <1>0, <1>2 DEF SetHolder, Goto, Modes
  <2>3. \A q \in Coroutines : Modes[q] = "out"
    BY Zenon, <2>1 DEF Modes
  <2>4. Lock!Write(c)
    BY Zenon, <2>2, <2>3 DEF Lock!Write, Modes
  <2>. QED
    BY Zenon, <2>4 DEF Lock!Next
<1>3. CASE Unlock(c)
  <2>1. Modes' = [Modes EXCEPT ![c] = "out"]
    BY Zenon, <1>0, <1>3 DEF Unlock, Goto, Modes
  <2>2. Modes[c] = "write"
    BY Zenon, <1>3 DEF Unlock, Goto, Modes
  <2>3. Lock!Leave(c)
    BY Zenon, <2>1, <2>2 DEF Lock!Leave, Modes
  <2>. QED
    BY Zenon, <2>3 DEF Lock!Next
<1>4. ASSUME NEW x, NEW y, x # "hold", y # "hold", Goto(c, x, y)
      PROVE  FALSE
  BY Zenon, <1>0, <1>4 DEF Goto, Modes
<1>5. CASE InMutex(c) /\ ~SetHolder(c)
  <2>1. CASE Try(c)
    BY Zenon, <1>0, <2>1 DEF Try, Modes
  <2>2. CASE Spin(c) \/ FetchInc(c) \/ push_waiter(c) \/ ReadHandoff(c) \/ TestWaiters(c)
             \/ Steal(c) \/ Resume(c) \/ MoveWaiters(c)
    BY Zenon, <1>4, <2>2 DEF Spin, FetchInc, push_waiter, ReadHandoff, TestWaiters, Steal, Resume, MoveWaiters
  <2>3. CASE PopInLock(c) \/ PopInUnlock(c) \/ FetchDec(c) \/ SetHandoff(c) \/ TestHandoff(c) \/ TakeBack(c)
    BY Zenon, <1>4, <2>3 DEF PopInLock, PopInUnlock, FetchDec, SetHandoff, TestHandoff, TakeBack
  <2>. QED
    BY Zenon, <1>5, <2>1, <2>2, <2>3 DEF InMutex
<1>. QED
  BY Zenon, <1>1, <1>2, <1>3, <1>5

(* The coroutine mutex implements a lock with one writer at a time.        *)
THEOREM ImplementsLockHolds == Spec => ImplementsLock
<1>1. Init => Lock!Init
  BY Zenon DEF Init, Lock!Init
<1>2. IInv /\ [Next]_vars
      => [Lock!Next]_[c \in Coroutines |-> IF at[c] = "hold" THEN "write" ELSE "out"]
  BY Zenon, StepRefines DEF Modes
<1>. QED
  BY <1>1, <1>2, InitIInv, NextIInv, PTL DEF Spec, ImplementsLock, Lock!Spec

-----------------------------------------------------------------------------
(* The wait records.  A coroutine has one record, on one list, from the    *)
(* push to the pop, and the pop is what wakes it.                          *)
Once(s) == \A i, j \in 1 .. Len(s) : s[i] = s[j] => i = j

Listed == Range(from_push) \union Range(to_pop) \union UNION {Range(reversed[d]) : d \in Coroutines}
Waits(c) == at[c] \in {"read", "test", "steal", "yield", "lpop", "lpop2"}

Apart ==
    /\ Once(from_push) /\ Once(to_pop)
    /\ Range(from_push) \cap Range(to_pop) = {}
    /\ \A d \in Coroutines : Once(reversed[d]) /\ Range(from_push) \cap Range(reversed[d]) = {}

(* Only the popper holds records back, while to_pop is empty.              *)
HeldBack ==
    \A d \in Coroutines : reversed[d] # <<>> => at[d] \in {"lpop2", "upop2"} /\ to_pop = <<>>

Records ==
    /\ \A c \in Coroutines : c \in Listed <=> Waits(c) /\ woken[c] = 0
    /\ \A c \in Coroutines : woken[c] > 0 => at[c] \in {"read", "test", "steal", "yield"}
    /\ \A c \in Coroutines : at[c] = "lpop2" => to_pop # <<>> \/ reversed[c] # <<>>

RInv == Apart /\ HeldBack /\ Records

(* The elements of a list of records.                                      *)
LEMMA RangeOf ==
    ASSUME NEW s \in Seq(Coroutines)
    PROVE  /\ Len(s) \in Nat
           /\ \A x : x \in Range(s) <=> \E i \in 1 .. Len(s) : s[i] = x
           /\ Range(s) \subseteq Coroutines
           /\ s # <<>> <=> Range(s) # {}
<1>1. DOMAIN s = 1 .. Len(s) /\ Len(s) \in Nat
  OBVIOUS
<1>2. \A x : x \in Range(s) <=> \E i \in 1 .. Len(s) : s[i] = x
  BY Zenon, <1>1 DEF Range
<1>3. \A i \in 1 .. Len(s) : s[i] \in Coroutines
  OBVIOUS
<1>4. s # <<>> => 1 \in 1 .. Len(s)
  BY <1>1
<1>5. s = <<>> => Len(s) = 0
  OBVIOUS
<1>6. s # <<>> <=> Range(s) # {}
  <2>1. s # <<>> => s[1] \in Range(s)
    BY Zenon, <1>2, <1>4
  <2>2. s = <<>> => 1 .. Len(s) = {}
    BY <1>5
  <2>. QED
    BY Zenon, <1>2, <2>1, <2>2
<1>. QED
  BY Zenon, <1>1, <1>2, <1>3, <1>6

(* push_waiter puts a new record in front.                                 *)
LEMMA PushOnce ==
    ASSUME NEW s \in Seq(Coroutines), NEW c \in Coroutines, Once(s), c \notin Range(s)
    PROVE  Once(<<c>> \o s) /\ Range(<<c>> \o s) = {c} \union Range(s)
<1>0. <<c>> \o s \in Seq(Coroutines)
  BY ConcatProperties
<1>1. PICK t \in Seq(Coroutines) : t = <<c>> \o s
  BY Zenon, <1>0
<1>2. /\ Len(t) = Len(s) + 1 /\ Len(s) \in Nat /\ t[1] = c
      /\ \A i \in 1 .. Len(t) : i # 1 => i - 1 \in 1 .. Len(s) /\ t[i] = s[i - 1]
  BY <1>1
<1>3. \A i \in 1 .. Len(s) : i + 1 \in 1 .. Len(t) /\ t[i + 1] = s[i]
  BY <1>1
<1>4. Range(t) = {c} \union Range(s)
  <2>1. ASSUME NEW x \in Range(t) PROVE x = c \/ x \in Range(s)
    <3>1. PICK i \in 1 .. Len(t) : t[i] = x
      BY Zenon, RangeOf
    <3>. QED
      BY Zenon, <1>2, <3>1, RangeOf
  <2>2. ASSUME NEW x \in Range(s) PROVE x \in Range(t)
    <3>1. PICK i \in 1 .. Len(s) : s[i] = x
      BY Zenon, RangeOf
    <3>. QED
      BY Zenon, <1>3, <3>1, RangeOf
  <2>3. c \in Range(t)
    <3>1. 1 \in 1 .. Len(t)
      BY <1>2
    <3>. QED
      BY Zenon, <3>1, <1>2, RangeOf
  <2>. QED
    BY Zenon, <2>1, <2>2, <2>3
<1>5. Once(t)
  <2>. SUFFICES ASSUME NEW i \in 1 .. Len(t), NEW j \in 1 .. Len(t), t[i] = t[j] PROVE i = j
    BY Zenon DEF Once
  <2>1. CASE i = 1 /\ j # 1
    BY Zenon, <2>1, <1>2, RangeOf
  <2>2. CASE i # 1 /\ j = 1
    BY <2>2, <1>2, RangeOf
  <2>3. CASE i # 1 /\ j # 1
    <3>1. i - 1 \in 1 .. Len(s) /\ j - 1 \in 1 .. Len(s) /\ s[i - 1] = s[j - 1]
      BY Zenon, <2>3, <1>2
    <3>2. i - 1 = j - 1
      BY Zenon, <3>1 DEF Once
    <3>. QED
      BY <3>2, <1>2
  <2>. QED
    BY Zenon, <2>1, <2>2, <2>3
<1>. QED
  BY Zenon, <1>1, <1>4, <1>5

(* move_waiters reverses what it has taken.                                *)
LEMMA ReverseOnce ==
    ASSUME NEW s \in Seq(Coroutines), Once(s)
    PROVE  Reverse(s) \in Seq(Coroutines) /\ Once(Reverse(s)) /\ Range(Reverse(s)) = Range(s)
<1>1. Len(s) \in Nat /\ \A i \in 1 .. Len(s) : s[i] \in Coroutines /\ (Len(s) - i) + 1 \in 1 .. Len(s)
  OBVIOUS
<1>2. PICK t : t = Reverse(s)
  BY Zenon
<1>3. t = [i \in 1 .. Len(s) |-> s[(Len(s) - i) + 1]]
  BY <1>2 DEF Reverse
<1>4. t \in Seq(Coroutines) /\ Len(t) = Len(s)
  BY <1>1, <1>3, SeqDef
<1>5. \A i \in 1 .. Len(s) : t[i] = s[(Len(s) - i) + 1]
  BY Zenon, <1>3
<1>6. Once(t)
  <2>. SUFFICES ASSUME NEW i \in 1 .. Len(s), NEW j \in 1 .. Len(s), t[i] = t[j] PROVE i = j
    BY Zenon, <1>4 DEF Once
  <2>1. (Len(s) - i) + 1 = (Len(s) - j) + 1
    BY Zenon, <1>1, <1>5 DEF Once
  <2>. QED
    BY <2>1, <1>1
<1>7. ASSUME NEW x \in Range(t) PROVE x \in Range(s)
  <2>1. PICK j \in 1 .. Len(s) : t[j] = x
    BY Zenon, <1>4, RangeOf
  <2>. QED
    BY Zenon, <1>1, <1>5, <2>1, RangeOf
<1>8. ASSUME NEW x \in Range(s) PROVE x \in Range(t)
  <2>1. PICK j \in 1 .. Len(s) : s[j] = x
    BY Zenon, RangeOf
  <2>2. PICK i \in 1 .. Len(s) : i = (Len(s) - j) + 1
    BY Zenon, <1>1
  <2>3. t[i] = x
    <3>1. (Len(s) - i) + 1 = j
      BY <2>2, <1>1
    <3>. QED
      BY Zenon, <3>1, <2>1, <1>5
  <2>. QED
    BY Zenon, <2>3, <1>4, RangeOf
<1>. QED
  BY Zenon, <1>2, <1>4, <1>6, <1>7, <1>8

(* pop_waiter takes the first record off.                                  *)
LEMMA TailOnce ==
    ASSUME NEW s \in Seq(Coroutines), Once(s), s # <<>>
    PROVE  /\ Tail(s) \in Seq(Coroutines) /\ Once(Tail(s))
           /\ Head(s) \in Range(s) /\ Range(Tail(s)) = Range(s) \ {Head(s)}
<1>1. Len(s) \in Nat /\ Len(s) > 0 /\ Head(s) = s[1]
  OBVIOUS
<1>0. Tail(s) \in Seq(Coroutines)
  OBVIOUS
<1>2. PICK t \in Seq(Coroutines) : t = Tail(s)
  BY Zenon, <1>0
<1>3. Len(t) = Len(s) - 1 /\ \A i \in 1 .. Len(t) : t[i] = s[i + 1] /\ i + 1 \in 1 .. Len(s)
  BY <1>1, <1>2, HeadTailProperties
<1>4. Once(t)
  <2>. SUFFICES ASSUME NEW i \in 1 .. Len(t), NEW j \in 1 .. Len(t), t[i] = t[j] PROVE i = j
    BY Zenon DEF Once
  <2>1. i + 1 = j + 1
    BY Zenon, <1>3 DEF Once
  <2>. QED
    BY <2>1, <1>1, <1>3
<1>5. 1 \in 1 .. Len(s)
  BY <1>1
<1>6. Head(s) \in Range(s)
  BY Zenon, <1>1, <1>5, RangeOf
<1>7. ASSUME NEW x \in Range(t) PROVE x \in Range(s) /\ x # Head(s)
  <2>1. PICK i \in 1 .. Len(t) : t[i] = x
    BY Zenon, RangeOf
  <2>2. i + 1 \in 1 .. Len(s) /\ s[i + 1] = x /\ i + 1 # 1
    BY <2>1, <1>1, <1>3
  <2>. QED
    BY Zenon, <2>2, <1>1, <1>5, RangeOf DEF Once
<1>8. ASSUME NEW x \in Range(s), x # Head(s) PROVE x \in Range(t)
  <2>1. PICK j \in 1 .. Len(s) : s[j] = x
    BY Zenon, RangeOf
  <2>2. PICK i \in 1 .. Len(t) : j = i + 1
    <3>1. j - 1 \in 1 .. Len(t) /\ j = (j - 1) + 1
      BY <2>1, <1>1, <1>3, <1>8
    <3>. QED
      BY Zenon, <3>1
  <2>. QED
    BY Zenon, <2>1, <2>2, <1>3, RangeOf
<1>. QED
  BY Zenon, <1>2, <1>4, <1>6, <1>7, <1>8

(* What the one popper takes from: its own records, or to_pop.             *)
LEMMA ToPopOnce ==
    ASSUME Types, Apart, HeldBack, NEW c \in Coroutines
    PROVE  /\ ToPop(c) \in Seq(Coroutines) /\ Once(ToPop(c))
           /\ Range(ToPop(c)) = Range(reversed[c]) \union Range(to_pop)
           /\ Range(ToPop(c)) \cap Range(from_push) = {}
           /\ ToPop(c) # <<>> <=> reversed[c] # <<>> \/ to_pop # <<>>
<1>0. reversed[c] \in Seq(Coroutines) /\ to_pop \in Seq(Coroutines) /\ Once(reversed[c]) /\ Once(to_pop)
  BY Zenon DEF Types, Apart
<1>1. PICK r \in Seq(Coroutines) : r = Reverse(reversed[c]) /\ Once(r) /\ Range(r) = Range(reversed[c])
  BY Zenon, <1>0, ReverseOnce
<1>2. r = <<>> <=> reversed[c] = <<>>
  BY Zenon, <1>0, <1>1, RangeOf
<1>3. Range(<<>>) = {}
  BY DEF Range
<1>4. CASE reversed[c] = <<>>
  <2>1. ToPop(c) = to_pop
    BY <1>0, <1>1, <1>2, <1>4 DEF ToPop
  <2>. QED
    BY Zenon, <2>1, <1>0, <1>3, <1>4 DEF Apart
<1>5. CASE reversed[c] # <<>>
  <2>1. to_pop = <<>>
    BY Zenon, <1>5 DEF HeldBack
  <2>2. ToPop(c) = r
    BY <1>0, <1>1, <2>1 DEF ToPop
  <2>. QED
    BY Zenon, <2>1, <2>2, <1>1, <1>2, <1>3, <1>5 DEF Apart
<1>. QED
  BY Zenon, <1>4, <1>5

(* Any step that leaves the lists alone, but the popper's.                 *)
LEMMA QuietKeeps ==
    ASSUME IInv, RInv, NEW c \in Coroutines, NEW q, at' = [at EXCEPT ![c] = q],
           UNCHANGED queues, at[c] \notin {"lpop2", "upop2"}, q # "lpop2",
           \A d \in Coroutines : d # c => woken'[d] = woken[d],
           Waits(c) /\ woken[c] = 0 <=> q \in {"read", "test", "steal", "yield", "lpop"} /\ woken'[c] = 0,
           woken'[c] > 0 => q \in {"read", "test", "steal", "yield"}
    PROVE  RInv'
<1>0. at \in [Coroutines -> Places] /\ from_push' = from_push /\ to_pop' = to_pop /\ reversed' = reversed
  BY Zenon DEF IInv, Types, queues
<1>1. at'[c] = q /\ \A d \in Coroutines : d # c => at'[d] = at[d]
  BY Zenon, <1>0
<1>2. Apart'
  BY Zenon, <1>0 DEF RInv, Apart, Once
<1>3. HeldBack'
  BY Zenon, <1>0, <1>1 DEF RInv, HeldBack
<1>4. Listed' = Listed
  BY Zenon, <1>0 DEF Listed
<1>5. Waits(c)' /\ woken'[c] = 0 <=> Waits(c) /\ woken[c] = 0
  BY Zenon, <1>1 DEF Waits
<1>6. \A d \in Coroutines : d # c => (Waits(d)' <=> Waits(d)) /\ woken'[d] = woken[d]
  BY Zenon, <1>1 DEF Waits
<1>7. Records'
  BY Zenon, <1>0, <1>1, <1>4, <1>5, <1>6 DEF RInv, Records
<1>. QED
  BY Zenon, <1>2, <1>3, <1>7 DEF RInv

(* The steps that only read the lists.                                     *)
LEMMA ReadersKeepRecords ==
    ASSUME IInv, RInv, NEW c \in Coroutines,
           \/ Try(c) \/ Spin(c) \/ FetchInc(c) \/ ReadHandoff(c) \/ TestWaiters(c)
           \/ Steal(c) \/ Resume(c) \/ SetHolder(c) \/ Unlock(c)
           \/ FetchDec(c) \/ SetHandoff(c) \/ TestHandoff(c) \/ TakeBack(c)
    PROVE  RInv'
<1>0. woken \in [Coroutines -> Nat] /\ at \in [Coroutines -> Places]
  BY Zenon DEF IInv, Types
<1>1. ASSUME NEW p, NEW q, Goto(c, p, q), UNCHANGED <<queues, woken>>,
             \/ /\ p \in {"read", "test", "steal"} /\ q \in {"test", "steal", "yield", "lpop"}
                /\ q = "lpop" => woken[c] = 0
             \/ /\ p \in {"out", "retry", "spin", "inc", "locked", "hold", "dec", "hand", "utest", "uback"}
                /\ q \in {"retry", "spin", "inc", "push", "locked", "hold", "dec", "out", "upop", "utest", "uback"}
      PROVE  RInv'
  <2>1. at[c] = p /\ at' = [at EXCEPT ![c] = q] /\ woken' = woken /\ UNCHANGED queues
    BY Zenon, <1>1 DEF Goto
  <2>2. woken[c] > 0 => at[c] \in {"read", "test", "steal", "yield"}
    BY Zenon DEF RInv, Records
  <2>3. woken[c] = 0 \/ woken[c] > 0
    BY <1>0
  <2>4. Waits(c) <=> p \in {"read", "test", "steal"}
    BY Zenon, <2>1, <1>1 DEF Waits
  <2>5. Waits(c) /\ woken[c] = 0 <=> q \in {"read", "test", "steal", "yield", "lpop"} /\ woken'[c] = 0
    BY Zenon, <1>1, <2>1, <2>2, <2>3, <2>4
  <2>6. woken'[c] > 0 => q \in {"read", "test", "steal", "yield"}
    BY <1>0, <1>1, <2>1, <2>2
  <2>7. at[c] \notin {"lpop2", "upop2"} /\ q # "lpop2"
    BY Zenon, <1>1, <2>1
  <2>. QED
    BY Zenon, <2>1, <2>5, <2>6, <2>7, QuietKeeps
<1>2. CASE Try(c)
  <2>1. Goto(c, at[c], IF locked = 0 THEN "locked" ELSE IF locked = 1 THEN "spin" ELSE "inc")
    BY Zenon, <1>2 DEF Try, Goto
  <2>. QED
    BY Zenon, <1>1, <1>2, <2>1 DEF Try
<1>3. CASE Spin(c)
  BY Zenon, <1>1, <1>3 DEF Spin
<1>4. CASE FetchInc(c)
  BY Zenon, <1>1, <1>4 DEF FetchInc
<1>5. CASE ReadHandoff(c)
  BY Zenon, <1>1, <1>5 DEF ReadHandoff
<1>6. CASE TestWaiters(c)
  BY Zenon, <1>1, <1>6 DEF TestWaiters
<1>7. CASE Steal(c)
  <2>1. handoff = seen[c] => woken[c] = 0
    BY <1>0, <1>7 DEF Steal, Goto, IInv, Expects, OneTurn
  <2>. QED
    BY Zenon, <1>1, <1>7, <2>1 DEF Steal
<1>8. CASE Resume(c)
  <2>1. /\ at[c] = "yield" /\ at' = [at EXCEPT ![c] = "locked"] /\ UNCHANGED queues
        /\ woken' = [woken EXCEPT ![c] = woken[c] - 1]
    BY Zenon, <1>8 DEF Resume, Goto
  <2>2. woken[c] = 1
    BY Zenon, <1>8 DEF Resume, IInv, OneTurn
  <2>3. woken'[c] = 0 /\ \A d \in Coroutines : d # c => woken'[d] = woken[d]
    BY <1>0, <2>1, <2>2
  <2>4. ~(Waits(c) /\ woken[c] = 0) /\ ~(woken'[c] > 0)
    BY <2>2, <2>3, SMTT(30)
  <2>. QED
    BY Zenon, <2>1, <2>3, <2>4, QuietKeeps
<1>9. CASE SetHolder(c)
  BY Zenon, <1>1, <1>9 DEF SetHolder
<1>10. CASE Unlock(c)
  BY Zenon, <1>1, <1>10 DEF Unlock
<1>11. CASE FetchDec(c)
  BY Zenon, <1>1, <1>11 DEF FetchDec
<1>12. CASE SetHandoff(c)
  BY Zenon, <1>1, <1>12 DEF SetHandoff
<1>13. CASE TestHandoff(c)
  BY Zenon, <1>1, <1>13 DEF TestHandoff
<1>14. CASE TakeBack(c)
  BY Zenon, <1>1, <1>14 DEF TakeBack
<1>. QED
  BY Zenon, <1>2, <1>3, <1>4, <1>5, <1>6, <1>7, <1>8, <1>9, <1>10, <1>11, <1>12, <1>13, <1>14

(* A new record.                                                           *)
LEMMA push_waiterKeepsRecords ==
    ASSUME IInv, RInv, NEW c \in Coroutines, push_waiter(c)
    PROVE  RInv'
<1>0. /\ at \in [Coroutines -> Places] /\ from_push \in Seq(Coroutines) /\ woken \in [Coroutines -> Nat]
      /\ to_pop' = to_pop /\ reversed' = reversed /\ woken' = woken
      /\ at[c] = "push" /\ at' = [at EXCEPT ![c] = "read"]
  BY Zenon DEF IInv, Types, push_waiter, Goto
<1>1. at'[c] = "read" /\ \A d \in Coroutines : d # c => at'[d] = at[d]
  BY Zenon, <1>0
<1>2. c \notin Listed /\ woken[c] = 0
  <2>1. ~Waits(c)
    BY Zenon, <1>0 DEF Waits
  <2>2. ~(woken[c] > 0)
    BY Zenon, <1>0 DEF RInv, Records
  <2>. QED
    BY <1>0, <2>1, <2>2 DEF RInv, Records
<1>3. c \notin Range(from_push) /\ c \notin Range(to_pop) /\ \A d \in Coroutines : c \notin Range(reversed[d])
  BY Zenon, <1>2 DEF Listed
<1>4. Once(from_push') /\ Range(from_push') = {c} \union Range(from_push)
  BY Zenon, <1>0, <1>3, PushOnce DEF push_waiter, RInv, Apart
<1>5. Apart'
  <2>1. Once(to_pop)' /\ Range(from_push') \cap Range(to_pop') = {}
    BY <1>0, <1>3, <1>4 DEF RInv, Apart, Once
  <2>2. \A d \in Coroutines : Once(reversed[d])' /\ Range(from_push') \cap Range(reversed'[d]) = {}
    BY <1>0, <1>3, <1>4 DEF RInv, Apart, Once
  <2>. QED
    BY Zenon, <1>4, <2>1, <2>2 DEF Apart, Once
<1>6. HeldBack'
  BY Zenon, <1>0, <1>1 DEF RInv, HeldBack
<1>7. Listed' = {c} \union Listed
  BY Zenon, <1>0, <1>4 DEF Listed
<1>8. Waits(c)' /\ woken'[c] = 0 /\ \A d \in Coroutines : d # c => (Waits(d)' <=> Waits(d))
  BY Zenon, <1>0, <1>1, <1>2 DEF Waits
<1>9. Records'
  BY Zenon, <1>0, <1>1, <1>2, <1>7, <1>8 DEF RInv, Records
<1>. QED
  BY Zenon, <1>5, <1>6, <1>9 DEF RInv

(* All that was pushed goes to the popper; the lock's own record is there. *)
LEMMA MoveWaitersKeepsRecords ==
    ASSUME IInv, RInv, NEW c \in Coroutines, MoveWaiters(c)
    PROVE  RInv'
<1>0. /\ at \in [Coroutines -> Places] /\ from_push \in Seq(Coroutines) /\ woken \in [Coroutines -> Nat]
      /\ to_pop \in Seq(Coroutines) /\ reversed \in [Coroutines -> Seq(Coroutines)]
      /\ to_pop' = to_pop /\ woken' = woken
  BY Zenon DEF IInv, Types, MoveWaiters
<1>1. PICK q \in {"lpop2", "upop2"} : /\ at' = [at EXCEPT ![c] = q]
                                       /\ at[c] = IF q = "lpop2" THEN "lpop" ELSE "upop"
  BY Zenon DEF MoveWaiters, Goto
<1>2. at'[c] = q /\ \A d \in Coroutines : d # c => at'[d] = at[d]
  BY Zenon, <1>0, <1>1
<1>3. \A d \in Coroutines : reversed[d] = <<>> /\ at[d] # "lpop2" /\ woken[d] = 0
  BY Zenon, <1>1 DEF IInv, OneTurn, HasTurn, RInv, HeldBack
<1>4. Range(<<>>) = {} /\ Once(<<>>)
  BY DEF Range, Once
<1>5. Listed = Range(from_push) \union Range(to_pop)
  BY Zenon, <1>3, <1>4 DEF Listed
<1>6. /\ Apart' /\ HeldBack'
      /\ Listed' = Listed
      /\ Range(from_push) \union Range(to_pop) # {} => to_pop' # <<>> \/ reversed'[c] # <<>>
  <2>1. CASE to_pop = <<>>
    <3>1. reversed' = [reversed EXCEPT ![c] = from_push] /\ from_push' = <<>>
      BY Zenon, <2>1 DEF MoveWaiters
    <3>2. reversed'[c] = from_push /\ \A d \in Coroutines : d # c => reversed'[d] = <<>>
      BY Zenon, <1>0, <1>3, <3>1
    <3>3. Apart'
      <4>1. Once(from_push') /\ Once(to_pop') /\ Range(from_push') \cap Range(to_pop') = {}
        BY Zenon, <1>0, <1>4, <2>1, <3>1
      <4>2. \A d \in Coroutines : Once(reversed'[d]) /\ Range(from_push') \cap Range(reversed'[d]) = {}
        BY Zenon, <1>4, <3>1, <3>2 DEF RInv, Apart
      <4>. QED
        BY Zenon, <4>1, <4>2 DEF Apart, Once
    <3>4. HeldBack'
      BY Zenon, <1>0, <1>2, <2>1, <3>2 DEF HeldBack
    <3>5. UNION {Range(reversed'[d]) : d \in Coroutines} = Range(from_push)
      BY Zenon, <1>4, <3>2
    <3>6. Listed' = Listed
      BY Zenon, <1>0, <1>4, <1>5, <2>1, <3>1, <3>5 DEF Listed
    <3>7. Range(from_push) \union Range(to_pop) # {} => reversed'[c] # <<>>
      BY Zenon, <1>4, <2>1, <3>2
    <3>. QED
      BY Zenon, <3>3, <3>4, <3>6, <3>7
  <2>2. CASE to_pop # <<>>
    <3>1. reversed' = reversed /\ from_push' = from_push
      BY Zenon, <2>2 DEF MoveWaiters
    <3>2. Apart'
      BY Zenon, <1>0, <3>1 DEF RInv, Apart, Once
    <3>3. HeldBack'
      BY Zenon, <1>3, <3>1 DEF HeldBack
    <3>4. Listed' = Listed
      BY Zenon, <1>0, <3>1 DEF Listed
    <3>. QED
      BY Zenon, <1>0, <2>2, <3>2, <3>3, <3>4
  <2>. QED
    BY Zenon, <2>1, <2>2
<1>7. at[c] = "lpop" => to_pop' # <<>> \/ reversed'[c] # <<>>
  BY Zenon, <1>3, <1>5, <1>6 DEF RInv, Records, Waits
<1>8. \A d \in Coroutines : Waits(d)' <=> Waits(d)
  BY Zenon, <1>1, <1>2 DEF Waits
<1>9. Records'
  BY Zenon, <1>0, <1>1, <1>2, <1>3, <1>6, <1>7, <1>8 DEF RInv, Records
<1>. QED
  BY Zenon, <1>6, <1>9 DEF RInv

(* The popper takes the first record off and puts the others back.         *)
LEMMA PopKeepsRecords ==
    ASSUME IInv, RInv, NEW c \in Coroutines, at[c] \in {"lpop2", "upop2"}, ToPop(c) # <<>>,
           NEW q \in {"locked", "yield", "out"}, at' = [at EXCEPT ![c] = q],
           NEW h \in Coroutines, h = Head(ToPop(c)), to_pop' = Tail(ToPop(c)),
           reversed' = [reversed EXCEPT ![c] = <<>>], from_push' = from_push,
           IF q = "locked" THEN h = c /\ woken' = woken ELSE woken' = [woken EXCEPT ![h] = woken[h] + 1],
           q = "yield" <=> at[c] = "lpop2" /\ h # c,
           q = "out" <=> at[c] = "upop2"
    PROVE  RInv'
<1>0. /\ at \in [Coroutines -> Places] /\ from_push \in Seq(Coroutines) /\ woken \in [Coroutines -> Nat]
      /\ to_pop \in Seq(Coroutines) /\ reversed \in [Coroutines -> Seq(Coroutines)]
      /\ Types /\ Apart /\ HeldBack
  BY Zenon DEF IInv, Types, RInv
<1>1. at'[c] = q /\ \A d \in Coroutines : d # c => at'[d] = at[d]
  BY Zenon, <1>0
<1>2. \A d \in Coroutines : woken[d] = 0 /\ (d # c => reversed[d] = <<>> /\ at[d] # "lpop2" /\ at[d] # "lpop")
  BY Zenon DEF IInv, OneTurn, HasTurn, RInv, HeldBack
<1>3. Range(<<>>) = {} /\ Once(<<>>)
  BY DEF Range, Once
<1>4. PICK s \in Seq(Coroutines) : s = ToPop(c) /\ Once(s) /\ s # <<>>
                                    /\ Range(s) = Range(reversed[c]) \union Range(to_pop)
                                    /\ Range(s) \cap Range(from_push) = {}
  BY Zenon, <1>0, ToPopOnce
<1>5. Once(to_pop') /\ h \in Range(s) /\ Range(to_pop') = Range(s) \ {h}
  BY Zenon, <1>4, TailOnce
<1>6. UNION {Range(reversed[d]) : d \in Coroutines} = Range(reversed[c])
  BY Zenon, <1>2, <1>3
<1>7. \A d \in Coroutines : reversed'[d] = <<>>
  BY Zenon, <1>0, <1>2
<1>8. UNION {Range(reversed'[d]) : d \in Coroutines} = {}
  BY Zenon, <1>3, <1>7
<1>9. Listed = Range(from_push) \union Range(s)
  BY Zenon, <1>4, <1>6 DEF Listed
<1>10. Listed' = Listed \ {h}
  <2>1. h \notin Range(from_push)
    BY Zenon, <1>4, <1>5
  <2>2. Listed' = Range(from_push) \union Range(to_pop')
    BY Zenon, <1>8 DEF Listed
  <2>. QED
    BY Zenon, <1>5, <1>9, <2>1, <2>2
<1>11. Apart'
  <2>1. Range(from_push') \cap Range(to_pop') = {}
    BY Zenon, <1>4, <1>5
  <2>2. Once(from_push')
    BY Zenon, <1>0 DEF Apart
  <2>3. \A d \in Coroutines : Once(reversed'[d]) /\ Range(from_push') \cap Range(reversed'[d]) = {}
    BY Zenon, <1>3, <1>7
  <2>. QED
    BY Zenon, <1>5, <2>1, <2>2, <2>3 DEF Apart, Once
<1>12. HeldBack'
  BY Zenon, <1>7 DEF HeldBack
<1>13. Waits(h) /\ h \in Listed
  BY Zenon, <1>5, <1>9 DEF RInv, Records
<1>14. \A d \in Coroutines : d # c => (Waits(d)' <=> Waits(d))
  BY Zenon, <1>1 DEF Waits
<1>15. \A d \in Coroutines : at'[d] # "lpop2"
  BY Zenon, <1>1, <1>2
<1>16. CASE q = "locked"
  <2>1. h = c /\ woken' = woken /\ ~Waits(c)'
    BY Zenon, <1>1, <1>16 DEF Waits
  <2>. QED
    BY Zenon, <1>2, <1>10, <1>11, <1>12, <1>14, <1>15, <2>1 DEF RInv, Records
<1>17. CASE q # "locked"
  <2>1. woken'[h] = 1 /\ \A d \in Coroutines : d # h => woken'[d] = 0
    BY <1>0, <1>2, <1>17
  <2>2. Waits(c)' <=> Waits(c)
    BY Zenon, <1>1, <1>17 DEF Waits
  <2>3. h # c
    BY Zenon, <1>13, <1>17 DEF Waits
  <2>4. at'[h] \in {"read", "test", "steal", "yield"}
    BY Zenon, <1>1, <1>2, <1>13, <2>3 DEF Waits
  <2>5. \A d \in Coroutines : d \in Listed' <=> Waits(d)' /\ woken'[d] = 0
    BY <1>2, <1>10, <1>14, <2>1, <2>2 DEF RInv, Records
  <2>6. \A d \in Coroutines : woken'[d] > 0 => at'[d] \in {"read", "test", "steal", "yield"}
    BY <2>1, <2>4
  <2>7. Records'
    BY Zenon, <1>15, <2>5, <2>6 DEF Records
  <2>. QED
    BY Zenon, <1>11, <1>12, <2>7 DEF RInv
<1>. QED
  BY Zenon, <1>16, <1>17

(* The lock that has the hand-off pops its own record or wakes another.    *)
LEMMA PopInLockKeepsRecords ==
    ASSUME IInv, RInv, NEW c \in Coroutines, PopInLock(c)
    PROVE  RInv'
<1>1. PICK h \in Coroutines : h = Head(ToPop(c))
  BY Zenon, ToPopType DEF PopInLock, IInv
<1>2. PICK q \in {"locked", "yield", "out"} : q = IF h = c THEN "locked" ELSE "yield"
  BY Zenon
<1>3. /\ at[c] = "lpop2" /\ ToPop(c) # <<>> /\ at' = [at EXCEPT ![c] = q]
      /\ to_pop' = Tail(ToPop(c)) /\ reversed' = [reversed EXCEPT ![c] = <<>>] /\ from_push' = from_push
      /\ IF q = "locked" THEN h = c /\ woken' = woken ELSE woken' = [woken EXCEPT ![h] = woken[h] + 1]
  BY Zenon, <1>1, <1>2 DEF PopInLock, Goto, Wake
<1>. QED
  BY Zenon, <1>1, <1>2, <1>3, PopKeepsRecords

(* The unlock wakes the coroutine whose record it pops, if there is one.   *)
LEMMA PopInUnlockKeepsRecords ==
    ASSUME IInv, RInv, NEW c \in Coroutines, PopInUnlock(c)
    PROVE  RInv'
<1>1. CASE ToPop(c) # <<>>
  <2>1. PICK h \in Coroutines : h = Head(ToPop(c))
    BY Zenon, <1>1, ToPopType DEF IInv
  <2>2. PICK q \in {"locked", "yield", "out"} : q = "out"
    BY Zenon
  <2>3. /\ at[c] = "upop2" /\ at' = [at EXCEPT ![c] = q]
        /\ to_pop' = Tail(ToPop(c)) /\ reversed' = [reversed EXCEPT ![c] = <<>>] /\ from_push' = from_push
        /\ woken' = [woken EXCEPT ![h] = woken[h] + 1]
    BY Zenon, <1>1, <2>1, <2>2 DEF PopInUnlock, Goto, Wake
  <2>. QED
    BY Zenon, <1>1, <2>1, <2>2, <2>3, PopKeepsRecords
<1>2. CASE ToPop(c) = <<>>
  <2>0. at \in [Coroutines -> Places] /\ reversed \in [Coroutines -> Seq(Coroutines)] /\ Types
    BY Zenon DEF IInv, Types
  <2>1. /\ at[c] = "upop2" /\ at' = [at EXCEPT ![c] = "hand"] /\ woken' = woken
        /\ to_pop' = to_pop /\ reversed' = [reversed EXCEPT ![c] = <<>>] /\ from_push' = from_push
    BY Zenon, <1>2 DEF PopInUnlock, Goto
  <2>2. reversed[c] = <<>>
    BY Zenon, <1>2, <2>0, ToPopOnce DEF RInv
  <2>3. reversed' = reversed
    BY Zenon, <2>0, <2>1, <2>2
  <2>4. at'[c] = "hand" /\ \A d \in Coroutines : d # c => at'[d] = at[d]
    BY Zenon, <2>0, <2>1
  <2>5. Apart'
    BY Zenon, <2>1, <2>3 DEF RInv, Apart, Once
  <2>6. HeldBack'
    BY Zenon, <2>1, <2>2, <2>3, <2>4 DEF RInv, HeldBack
  <2>7. Listed' = Listed
    BY Zenon, <2>1, <2>3 DEF Listed
  <2>8. \A d \in Coroutines : Waits(d)' <=> Waits(d)
    BY Zenon, <2>1, <2>4 DEF Waits
  <2>9. Records'
    BY Zenon, <2>1, <2>3, <2>4, <2>7, <2>8 DEF RInv, Records
  <2>. QED
    BY Zenon, <2>5, <2>6, <2>9 DEF RInv
<1>. QED
  BY Zenon, <1>1, <1>2

(* There is no record at first.                                            *)
LEMMA InitRecords == Init => RInv
<1>. SUFFICES ASSUME Init PROVE RInv
  BY Zenon
<1>1. Range(<<>>) = {} /\ Once(<<>>)
  BY DEF Range, Once
<1>2. \A d \in Coroutines : reversed[d] = <<>> /\ at[d] = "out" /\ woken[d] = 0
  BY Zenon DEF Init
<1>3. from_push = <<>> /\ to_pop = <<>>
  BY Zenon DEF Init
<1>4. Listed = {}
  BY Zenon, <1>1, <1>2, <1>3 DEF Listed
<1>5. Apart
  BY Zenon, <1>1, <1>2, <1>3 DEF Apart
<1>6. HeldBack
  BY Zenon, <1>2 DEF HeldBack
<1>7. Records
  BY <1>2, <1>4 DEF Records, Waits
<1>. QED
  BY Zenon, <1>5, <1>6, <1>7 DEF RInv

(* Every step keeps the records.                                           *)
LEMMA NextRecords == IInv /\ RInv /\ [Next]_vars => RInv'
<1>. SUFFICES ASSUME IInv, RInv, [Next]_vars PROVE RInv'
  BY Zenon
<1>1. CASE UNCHANGED vars
  BY <1>1 DEF vars, RInv, Apart, HeldBack, Records, Once, Listed, Waits
<1>2. ASSUME NEW c \in Coroutines, InMutex(c) \/ Unlock(c)
      PROVE  RInv'
  BY Zenon, <1>2, ReadersKeepRecords, push_waiterKeepsRecords, MoveWaitersKeepsRecords,
     PopInLockKeepsRecords, PopInUnlockKeepsRecords DEF InMutex
<1>. QED
  BY Zenon, <1>1, <1>2 DEF Next

(* The lock that takes the hand-off finds a record, and aio_co_wake is     *)
(* called once for a coroutine, and only while it waits.                   *)
THEOREM WakesExactHolds == Spec => []WakesExact
<1>1. IInv /\ RInv => WakesExact
  <2>. SUFFICES ASSUME IInv, RInv, NEW c \in Coroutines
                PROVE  /\ at[c] = "lpop2" => ToPop(c) # <<>>
                       /\ woken[c] > 0 => woken[c] = 1 /\ at[c] \in {"read", "test", "steal", "yield"}
    BY Zenon DEF WakesExact
  <2>1. at[c] = "lpop2" => ToPop(c) # <<>>
    BY Zenon, ToPopOnce DEF IInv, RInv, Records
  <2>2. woken[c] > 0 => woken[c] = 1 /\ at[c] \in {"read", "test", "steal", "yield"}
    BY Zenon DEF IInv, OneTurn, RInv, Records
  <2>. QED
    BY Zenon, <2>1, <2>2
<1>. QED
  BY <1>1, InitIInv, NextIInv, InitRecords, NextRecords, PTL DEF Spec

(* A wait record is on a list only while its coroutine is in the slow path *)
(* of qemu_co_mutex_lock, on whose stack it lives.                         *)
THEOREM RecordsLiveHolds == Spec => []RecordsLive
<1>1. RInv => RecordsLive
  <2>. SUFFICES ASSUME RInv, NEW c \in Coroutines, c \in Listed
                PROVE  at[c] \in {"read", "test", "steal", "yield", "lpop", "lpop2"}
    BY Zenon DEF RecordsLive, Listed
  <2>. QED
    BY Zenon DEF RInv, Records, Waits
<1>. QED
  BY <1>1, InitIInv, NextIInv, InitRecords, NextRecords, PTL DEF Spec

-----------------------------------------------------------------------------
(* What locked counts.                                                     *)
Wanting == {"push", "read", "test", "steal", "yield", "lpop", "lpop2", "locked", "hold", "dec"}
Wanters == {c \in Coroutines : at[c] \in Wanting}

CInv ==
    /\ IsFiniteSet(Wanters) /\ locked = Cardinality(Wanters)
    /\ holder \in {{}} \union {{c} : c \in Coroutines}
    /\ handoff \in 0 .. SeqWrap /\ sequence \in 0 .. SeqWrap - 1
    /\ \A c \in Coroutines : seen[c] \in 0 .. SeqWrap

(* A coroutine that goes from one place to another is counted there.       *)
LEMMA WantersMove ==
    ASSUME at \in [Coroutines -> Places], IsFiniteSet(Wanters), locked = Cardinality(Wanters),
           NEW c \in Coroutines, NEW q, at' = [at EXCEPT ![c] = q],
           \/ (at[c] \in Wanting <=> q \in Wanting) /\ locked' = locked
           \/ at[c] \notin Wanting /\ q \in Wanting /\ locked' = locked + 1
           \/ at[c] \in Wanting /\ q \notin Wanting /\ locked' = locked - 1
    PROVE  IsFiniteSet(Wanters') /\ locked' = Cardinality(Wanters')
<1>1. at'[c] = q /\ \A d \in Coroutines : d # c => at'[d] = at[d]
  BY Zenon
<1>2. CASE (at[c] \in Wanting <=> q \in Wanting) /\ locked' = locked
  <2>1. Wanters' = Wanters
    BY Zenon, <1>1, <1>2 DEF Wanters, Wanting
  <2>. QED
    BY Zenon, <1>2, <2>1
<1>3. CASE at[c] \notin Wanting /\ q \in Wanting /\ locked' = locked + 1
  <2>1. Wanters' = Wanters \union {c} /\ c \notin Wanters
    BY Zenon, <1>1, <1>3 DEF Wanters, Wanting
  <2>. QED
    BY Zenon, <1>3, <2>1, FS_AddElement
<1>4. CASE at[c] \in Wanting /\ q \notin Wanting /\ locked' = locked - 1
  <2>1. Wanters' = Wanters \ {c} /\ c \in Wanters
    BY Zenon, <1>1, <1>4 DEF Wanters, Wanting
  <2>. QED
    BY Zenon, <1>4, <2>1, FS_RemoveElement
<1>. QED
  BY Zenon, <1>2, <1>3, <1>4

(* Only the two atomic operations and the cmpxchg change the count.        *)
LEMMA NextCount == IInv /\ CInv /\ [Next]_vars => CInv'
<1>. SUFFICES ASSUME IInv, CInv, [Next]_vars PROVE CInv'
  BY Zenon
<1>0. at \in [Coroutines -> Places] /\ seen \in [Coroutines -> Nat] /\ locked \in Nat
  BY Zenon DEF IInv, Types
<1>1. CASE UNCHANGED vars
  BY Zenon, <1>1 DEF vars, CInv, Wanters
<1>2. ASSUME NEW c \in Coroutines, InMutex(c) \/ Unlock(c)
      PROVE  CInv'
  <2>1. IsFiniteSet(Wanters') /\ locked' = Cardinality(Wanters')
    <3>0. IsFiniteSet(Wanters) /\ locked = Cardinality(Wanters)
      BY Zenon DEF CInv
    <3>1. ASSUME NEW p, NEW q, Goto(c, p, q), p \in Wanting <=> q \in Wanting, locked' = locked
          PROVE  IsFiniteSet(Wanters') /\ locked' = Cardinality(Wanters')
      BY Zenon, <1>0, <3>0, <3>1, WantersMove DEF Goto
    <3>2. CASE Try(c)
      <4>1. PICK q : /\ q = IF locked = 0 THEN "locked" ELSE IF locked = 1 THEN "spin" ELSE "inc"
                     /\ at' = [at EXCEPT ![c] = q]
        BY Zenon, <3>2 DEF Try
      <4>2. at[c] \notin Wanting
        BY Zenon, <3>2 DEF Try, Wanting
      <4>3. IF locked = 0 THEN q \in Wanting /\ locked' = locked + 1 ELSE q \notin Wanting /\ locked' = locked
        BY <1>0, <3>2, <4>1 DEF Try, Wanting
      <4>. QED
        BY Zenon, <1>0, <3>0, <4>1, <4>2, <4>3, WantersMove
    <3>3. CASE FetchInc(c)
      <4>1. PICK q : q = (IF locked = 0 THEN "locked" ELSE "push") /\ at' = [at EXCEPT ![c] = q]
        BY Zenon, <3>3 DEF FetchInc, Goto
      <4>2. at[c] \notin Wanting /\ q \in Wanting /\ locked' = locked + 1
        BY Zenon, <3>3, <4>1 DEF FetchInc, Goto, Wanting
      <4>. QED
        BY Zenon, <1>0, <3>0, <4>1, <4>2, WantersMove
    <3>4. CASE FetchDec(c)
      <4>1. PICK q : q = (IF locked = 1 THEN "out" ELSE "upop") /\ at' = [at EXCEPT ![c] = q]
        BY Zenon, <3>4 DEF FetchDec, Goto
      <4>2. at[c] \in Wanting /\ q \notin Wanting /\ locked' = locked - 1
        BY Zenon, <3>4, <4>1 DEF FetchDec, Goto, Wanting
      <4>. QED
        BY Zenon, <1>0, <3>0, <4>1, <4>2, WantersMove
    <3>5. CASE Spin(c) \/ push_waiter(c) \/ ReadHandoff(c) \/ TestWaiters(c) \/ Steal(c) \/ Resume(c)
      BY Zenon, <3>1, <3>5 DEF Spin, push_waiter, ReadHandoff, TestWaiters, Steal, Resume, Wanting
    <3>6. CASE SetHolder(c) \/ MoveWaiters(c) \/ PopInLock(c) \/ PopInUnlock(c)
      BY Zenon, <3>1, <3>6 DEF SetHolder, MoveWaiters, PopInLock, PopInUnlock, Wanting
    <3>7. CASE SetHandoff(c) \/ TestHandoff(c) \/ TakeBack(c) \/ Unlock(c)
      BY Zenon, <3>1, <3>7 DEF SetHandoff, TestHandoff, TakeBack, Unlock, Wanting
    <3>. QED
      BY Zenon, <1>2, <3>2, <3>3, <3>4, <3>5, <3>6, <3>7 DEF InMutex
  <2>2. holder' \in {{}} \union {{d} : d \in Coroutines}
    <3>1. holder' = holder \/ holder' = {c} \/ holder' = {}
      BY Zenon, <1>2 DEF InMutex, Try, Spin, FetchInc, push_waiter, ReadHandoff, TestWaiters, Steal, Resume,
         SetHolder, MoveWaiters, PopInLock, PopInUnlock, FetchDec, SetHandoff, TestHandoff, TakeBack, Unlock
    <3>. QED
      BY Zenon, <3>1 DEF CInv
  <2>3. /\ handoff' \in 0 .. SeqWrap /\ sequence' \in 0 .. SeqWrap - 1
        /\ \A d \in Coroutines : seen'[d] \in 0 .. SeqWrap
    <3>0. SeqWrap \in Nat /\ SeqWrap > 1 /\ 0 \in 0 .. SeqWrap
      BY CoMutexAssumption
    <3>1. ASSUME NEW n \in 0 .. SeqWrap, seen' = [seen EXCEPT ![c] = n]
          PROVE  \A d \in Coroutines : seen'[d] \in 0 .. SeqWrap
      BY Zenon, <1>0, <3>1 DEF CInv
    <3>2. CASE SetHandoff(c)
      <4>1. PICK s : /\ s = IF (sequence + 1) % SeqWrap = 0 THEN 1 ELSE sequence + 1
                     /\ sequence' = s /\ handoff' = s /\ seen' = [seen EXCEPT ![c] = s]
        BY Zenon, <3>2 DEF SetHandoff, See
      <4>2. sequence \in 0 .. SeqWrap - 1
        BY Zenon DEF CInv
      <4>3. sequence + 1 = SeqWrap => (sequence + 1) % SeqWrap = 0
        BY <3>0, <4>2
      <4>4. s \in 0 .. SeqWrap - 1 /\ s \in 0 .. SeqWrap
        BY <3>0, <4>1, <4>2, <4>3
      <4>. QED
        BY Zenon, <3>1, <4>1, <4>4
    <3>3. CASE ReadHandoff(c)
      BY Zenon, <3>1, <3>3 DEF ReadHandoff, See, CInv
    <3>4. CASE Steal(c) \/ TakeBack(c) \/ Resume(c)
      <4>1. seen' = [seen EXCEPT ![c] = 0] /\ sequence' = sequence /\ (handoff' = handoff \/ handoff' = 0)
        BY Zenon, <3>4 DEF Steal, TakeBack, Resume, See
      <4>. QED
        BY Zenon, <3>0, <3>1, <4>1 DEF CInv
    <3>5. CASE UNCHANGED <<handoff, sequence, seen>>
      BY Zenon, <3>5 DEF CInv
    <3>. QED
      BY Zenon, <1>2, <3>2, <3>3, <3>4, <3>5 DEF InMutex, Try, Spin, FetchInc, push_waiter, TestWaiters,
         SetHolder, MoveWaiters, PopInLock, PopInUnlock, FetchDec, TestHandoff, Unlock
  <2>. QED
    BY Zenon, <2>1, <2>2, <2>3 DEF CInv
<1>. QED
  BY Zenon, <1>1, <1>2 DEF Next

(* locked counts the owner and everybody who has incremented it and not    *)
(* had the mutex yet, and a sequence number stays below the wrap.          *)
THEOREM TypeCorrect == Spec => []TypeOK
<1>1. Init => CInv
  <2>. SUFFICES ASSUME Init PROVE CInv
    BY Zenon
  <2>1. Wanters = {}
    BY Zenon DEF Init, Wanters, Wanting
  <2>2. 0 \in 0 .. SeqWrap /\ 0 \in 0 .. SeqWrap - 1
    BY CoMutexAssumption
  <2>. QED
    BY Zenon, <2>1, <2>2, FS_EmptySet DEF Init, CInv
<1>2. IInv /\ CInv => TypeOK
  <2>. SUFFICES ASSUME IInv, CInv PROVE TypeOK
    BY Zenon
  <2>1. sequence \in 0 .. SeqWrap
    BY CoMutexAssumption DEF CInv
  <2>2. Range(from_push) \subseteq Coroutines /\ Range(to_pop) \subseteq Coroutines
    BY Zenon, RangeOf DEF IInv, Types
  <2>3. \A c \in Coroutines : woken[c] \in Nat
    BY Zenon DEF IInv, Types
  <2>4. locked = Cardinality({c \in Coroutines : at[c] \in {"push", "read", "test", "steal", "yield",
                                                            "lpop", "lpop2", "locked", "hold", "dec"}})
    BY Zenon DEF CInv, Wanters, Wanting
  <2>. QED
    BY Zenon, <2>1, <2>2, <2>3, <2>4 DEF CInv, TypeOK
<1>. QED
  BY <1>1, <1>2, InitIInv, NextIInv, NextCount, PTL DEF Spec

-----------------------------------------------------------------------------
Ticket == [co : Coroutines, read : BOOLEAN]
RwPlaces == {"none", "rdlock", "wrlock", "read", "upgrade", "rdunlock", "pass", "rdwait",
             "write", "downgrade", "wrunlock", "wrwait"}

(* The parts of the invariant take the state as parameters, because a call *)
(* first changes owners and the line and then wakes the head of the line.  *)
Cos(q)   == {q[k].co : k \in DOMAIN q}
Rd(m, Q) == {c \in Coroutines : \/ m[c] \in {"read", "upgrade", "pass", "rdunlock"}
                                \/ m[c] = "rdwait" /\ c \notin Q}
Wr(m, Q) == {c \in Coroutines : \/ m[c] \in {"write", "downgrade", "wrunlock"}
                                \/ m[c] = "wrwait" /\ c \notin Q}

Exact(o, R, W) ==
    IF W = {} THEN o = Cardinality(R) ELSE o = -1 /\ R = {} /\ Cardinality(W) = 1

Kind(r) == IF r THEN "rdwait" ELSE "wrwait"

(* Each coroutine in line is there once and waits for what its ticket says.*)
Line(m, q) ==
    /\ q \in Seq(Ticket)
    /\ \A k \in 1 .. Len(q) : m[q[k].co] = Kind(q[k].read)
    /\ \A k, l \in 1 .. Len(q) : q[k].co = q[l].co => k = l

(* Those granted the lock are the ones that wait and are not in line, and  *)
(* one wake-up is under way for each.                                      *)
Grants(m, Q, w, g) ==
    /\ \A c \in Coroutines :
          c \in g \/ (\E d \in Coroutines : c \in w[d]) <=> m[c] \in {"rdwait", "wrwait"} /\ c \notin Q
    /\ \A c, d, e \in Coroutines : c \in w[d] /\ c \in w[e] => d = e
    /\ \A c, d \in Coroutines : c \in g => c \notin w[d]

Core(o, m, q, w, g) ==
    /\ m \in [Coroutines -> RwPlaces]
    /\ w \in [Coroutines -> SUBSET Coroutines]
    /\ g \in SUBSET Coroutines
    /\ Line(m, q)
    /\ Exact(o, Rd(m, Cos(q)), Wr(m, Cos(q)))
    /\ Grants(m, Cos(q), w, g)

Owed(m, q) ==
    q # <<>> => IF q[1].read
                THEN Wr(m, Cos(q)) # {} \/ \E c \in Rd(m, Cos(q)) : m[c] \in {"pass", "rdwait"}
                ELSE Rd(m, Cos(q)) \union Wr(m, Cos(q)) # {}

Quiet(m, w) ==
    \A c \in Coroutines :
        m[c] \in {"rdlock", "wrlock", "rdunlock", "wrunlock", "upgrade", "downgrade", "pass"} => w[c] = {}

RwInv == Core(owners, rw, tickets, wakes, granted) /\ Owed(rw, tickets) /\ Quiet(rw, wakes)

-----------------------------------------------------------------------------
(* Readers and writers can be counted.                                     *)
LEMMA Finite ==
    ASSUME NEW R, R \subseteq Coroutines
    PROVE  /\ IsFiniteSet(R) /\ Cardinality(R) \in Nat
           /\ Cardinality(R) = 0 <=> R = {}
           /\ Cardinality(R) = 1 <=> \E x : R = {x}
<1>1. IsFiniteSet(R)
  BY Zenon, CoRwlockAssumption, FS_Subset
<1>. QED
  BY Zenon, <1>1, FS_CardinalityType, FS_EmptySet, FS_Singleton

(* With no writer, one more reader counts one more.                        *)
LEMMA ExactAdd ==
    ASSUME NEW o, NEW R, R \subseteq Coroutines, Exact(o, R, {}), NEW c \in Coroutines, c \notin R
    PROVE  Exact(o + 1, R \union {c}, {})
BY Zenon, Finite, FS_AddElement DEF Exact

(* One reader fewer counts one less.                                       *)
LEMMA ExactDrop ==
    ASSUME NEW o, NEW R, R \subseteq Coroutines, Exact(o, R, {}), NEW c \in R
    PROVE  Exact(o - 1, R \ {c}, {}) /\ o \in Nat /\ o > 0
<1>1. IsFiniteSet(R) /\ Cardinality(R) \in Nat /\ Cardinality(R) # 0
  BY Zenon, Finite
<1>2. Cardinality(R \ {c}) = Cardinality(R) - 1
  BY Zenon, <1>1, FS_RemoveElement
<1>. QED
  BY <1>1, <1>2 DEF Exact

(* With nobody, the one writer is -1.                                      *)
LEMMA ExactWriter ==
    ASSUME NEW c
    PROVE  Exact(-1, {}, {c})
BY Zenon, FS_Singleton DEF Exact

(* What owners says about readers and writers.                             *)
LEMMA ExactMeans ==
    ASSUME NEW o, NEW R, NEW W, R \subseteq Coroutines, W \subseteq Coroutines, Exact(o, R, W)
    PROVE  /\ o \in Int /\ o >= -1
           /\ o >= 0 <=> W = {}
           /\ o = 0 <=> R = {} /\ W = {}
           /\ o = 1 => \E x : R = {x}
           /\ W # {} => R = {} /\ \E x : W = {x}
<1>1. CASE W = {}
  <2>1. o = Cardinality(R)
    BY Zenon, <1>1 DEF Exact
  <2>. QED
    BY <1>1, <2>1, Finite
<1>2. CASE W # {}
  <2>1. o = -1 /\ R = {} /\ Cardinality(W) = 1
    BY Zenon, <1>2 DEF Exact
  <2>2. \E x : W = {x}
    BY Zenon, <2>1, Finite
  <2>. QED
    BY <1>2, <2>1, <2>2
<1>. QED
  BY Zenon, <1>1, <1>2

-----------------------------------------------------------------------------
(* Taking the head off the line takes its coroutine out of it.             *)
LEMMA LineTail ==
    ASSUME NEW m, NEW q, Line(m, q), q # <<>>
    PROVE  /\ Line(m, Tail(q)) /\ q[1] \in Ticket
           /\ q[1].co \in Cos(q) /\ m[q[1].co] = Kind(q[1].read)
           /\ Cos(Tail(q)) = Cos(q) \ {q[1].co}
<1>1. q \in Seq(Ticket) /\ Len(q) \in Nat /\ Len(q) > 0 /\ q[1] \in Ticket
  BY DEF Line
<1>2. /\ Tail(q) \in Seq(Ticket) /\ Len(Tail(q)) = Len(q) - 1
      /\ \A i \in 1 .. Len(Tail(q)) : Tail(q)[i] = q[i + 1]
  BY Zenon, <1>1, HeadTailProperties
<1>3. Line(m, Tail(q))
  BY <1>1, <1>2 DEF Line
<1>4. DOMAIN q = 1 .. Len(q) /\ DOMAIN Tail(q) = 1 .. Len(Tail(q))
  BY <1>1, <1>2
<1>5. Cos(Tail(q)) \subseteq Cos(q) \ {q[1].co}
  <2>1. ASSUME NEW k \in 1 .. Len(Tail(q))
        PROVE  Tail(q)[k].co \in Cos(q) \ {q[1].co}
    <3>1. k + 1 \in 1 .. Len(q) /\ k + 1 # 1 /\ 1 \in 1 .. Len(q)
      BY <1>1, <1>2
    <3>. QED
      BY <3>1, <1>2, <1>4 DEF Line, Cos
  <2>. QED
    BY Zenon, <2>1, <1>4 DEF Cos
<1>6. Cos(q) \ {q[1].co} \subseteq Cos(Tail(q))
  <2>1. ASSUME NEW k \in 1 .. Len(q), q[k].co # q[1].co
        PROVE  q[k].co \in Cos(Tail(q))
    <3>1. k - 1 \in 1 .. Len(Tail(q)) /\ (k - 1) + 1 = k
      BY <1>1, <1>2, <2>1
    <3>. QED
      BY Zenon, <3>1, <1>2, <1>4 DEF Cos
  <2>. QED
    BY Zenon, <2>1, <1>4 DEF Cos
<1>7. 1 \in 1 .. Len(q)
  BY <1>1
<1>8. q[1].co \in Cos(q)
  BY Zenon, <1>4, <1>7 DEF Cos
<1>9. m[q[1].co] = Kind(q[1].read)
  BY Zenon, <1>7 DEF Line
<1>. QED
  BY Zenon, <1>1, <1>3, <1>5, <1>6, <1>8, <1>9

(* t is q with e at its end.                                               *)
Joins(q, e, t) ==
    /\ t \in Seq(Ticket) /\ Len(t) = Len(q) + 1 /\ t[Len(q) + 1] = e
    /\ \A i \in 1 .. Len(q) : t[i] = q[i]

(* Append joins.                                                           *)
LEMMA AppendJoins ==
    ASSUME NEW q \in Seq(Ticket), NEW e \in Ticket
    PROVE  Joins(q, e, Append(q, e))
BY DEF Joins

(* Joining the line.                                                       *)
LEMMA LineAppend ==
    ASSUME NEW m, NEW q, Line(m, q), NEW e \in Ticket,
           e.co \notin Cos(q), m[e.co] = Kind(e.read), NEW t, Joins(q, e, t)
    PROVE  /\ Line(m, t) /\ Cos(t) = Cos(q) \union {e.co} /\ t # <<>>
           /\ (q # <<>> => t[1] = q[1]) /\ (q = <<>> => t[1] = e)
<1>1. q \in Seq(Ticket) /\ Len(q) \in Nat
  BY DEF Line
<1>2. /\ t \in Seq(Ticket) /\ Len(t) = Len(q) + 1 /\ t[Len(q) + 1] = e
      /\ \A i \in 1 .. Len(q) : t[i] = q[i]
  BY Zenon DEF Joins
<1>3. DOMAIN q = 1 .. Len(q) /\ DOMAIN t = 1 .. Len(q) + 1
  BY <1>1, <1>2
<1>4. \A i \in 1 .. Len(q) : q[i].co # e.co
  BY Zenon, <1>3 DEF Cos
<1>5. ASSUME NEW k \in 1 .. Len(t)
      PROVE  k \in 1 .. Len(q) \/ k = Len(q) + 1
  BY <1>1, <1>2
<1>6. Line(m, t)
  BY Zenon, <1>1, <1>2, <1>4, <1>5 DEF Line
<1>7. Cos(t) = Cos(q) \union {e.co}
  BY <1>1, <1>2, <1>3 DEF Cos
<1>8. t # <<>> /\ (q # <<>> => t[1] = q[1]) /\ (q = <<>> => t[1] = e)
  BY <1>1, <1>2
<1>. QED
  BY Zenon, <1>6, <1>7, <1>8
-----------------------------------------------------------------------------
(* qemu_co_rwlock_maybe_wake_one: the head of the line becomes a reader or *)
(* the writer, and a wake-up for it is under way.                          *)
LEMMA WakeCore ==
    ASSUME NEW o, NEW q, NEW m, NEW c \in Coroutines, o >= 0,
           Core(o, m, q, wakes, granted), wakes[c] = {}, MaybeWake(c, o, q)
    PROVE  /\ Core(owners', m, tickets', wakes', granted)
           /\ Owed(m, tickets')
           /\ \A d \in Coroutines : d # c => wakes'[d] = wakes[d]
<1>. DEFINE Q == Cos(q)
            R == Rd(m, Q)
            W == Wr(m, Q)
<1>1. R \subseteq Coroutines /\ W \subseteq Coroutines /\ Exact(o, R, W) /\ Line(m, q)
  BY Zenon DEF Core, Rd, Wr
<1>2. o \in Int /\ W = {} /\ (o = 0 <=> R = {})
  BY SMTT(30), <1>1, ExactMeans
<1>3. CASE q = <<>> \/ (q[1].read /\ o < 0) \/ (~q[1].read /\ o # 0)
  <2>1. owners' = o /\ tickets' = q /\ wakes' = wakes
    BY Zenon, <1>3 DEF MaybeWake
  <2>2. Owed(m, q)
    BY <1>2, <1>3 DEF Owed
  <2>. QED
    BY Zenon, <2>1, <2>2
<1>4. CASE ~(q = <<>> \/ (q[1].read /\ o < 0) \/ (~q[1].read /\ o # 0))
  <2>. DEFINE h == q[1].co
              r == q[1].read
  <2>1. /\ owners' = IF r THEN o + 1 ELSE -1
        /\ tickets' = Tail(q)
        /\ wakes' = [wakes EXCEPT ![c] = {h}]
    BY Zenon, <1>4 DEF MaybeWake
  <2>2. /\ Line(m, Tail(q)) /\ q[1] \in Ticket /\ h \in Q /\ m[h] = Kind(r)
        /\ Cos(Tail(q)) = Q \ {h}
    BY Zenon, <1>1, <1>4, LineTail
  <2>3. h \in Coroutines /\ r \in BOOLEAN
    BY Zenon, <2>2 DEF Ticket
  <2>4. Exact(owners', Rd(m, Q \ {h}), Wr(m, Q \ {h}))
    <3>1. CASE r
      <4>1. Rd(m, Q \ {h}) = R \union {h} /\ Wr(m, Q \ {h}) = {} /\ h \notin R
        BY Zenon, <3>1, <2>2, <2>3, <1>2 DEF Rd, Wr, Kind
      <4>2. Exact(o, R, {})
        BY Zenon, <1>1, <1>2
      <4>3. Exact(o + 1, R \union {h}, {})
        BY Zenon, <4>1, <4>2, <2>3, <1>1, ExactAdd
      <4>4. owners' = o + 1
        BY Zenon, <2>1, <3>1
      <4>. QED
        BY Zenon, <4>1, <4>3, <4>4
    <3>2. CASE ~r
      <4>1. Rd(m, Q \ {h}) = R /\ Wr(m, Q \ {h}) = {h}
        BY Zenon, <3>2, <2>2, <2>3, <1>2 DEF Rd, Wr, Kind
      <4>2. R = {}
        BY Zenon, <1>2, <1>4, <3>2
      <4>. QED
        BY Zenon, <3>2, <4>1, <4>2, <2>1, ExactWriter
    <3>. QED
      BY Zenon, <3>1, <3>2
  <2>5. wakes' \in [Coroutines -> SUBSET Coroutines]
    BY Zenon, <2>1, <2>3 DEF Core
  <2>6. \A d \in Coroutines : wakes'[d] = IF d = c THEN {h} ELSE wakes[d]
    BY Zenon, <2>1 DEF Core
  <2>7. Grants(m, Q \ {h}, wakes', granted)
    <3>0. Grants(m, Q, wakes, granted)
      BY Zenon DEF Core
    <3>1. h \notin granted /\ \A d \in Coroutines : h \notin wakes[d]
      BY Zenon, <3>0, <2>2, <2>3 DEF Grants
    <3>2. m[h] \in {"rdwait", "wrwait"}
      BY Zenon, <2>2 DEF Kind
    <3>3. ASSUME NEW k \in Coroutines
          PROVE  k \in granted \/ (\E d \in Coroutines : k \in wakes'[d])
                 <=> m[k] \in {"rdwait", "wrwait"} /\ k \notin Q \ {h}
      <4>1. CASE k = h
        BY Zenon, <4>1, <2>6, <3>2
      <4>2. CASE k # h
        <5>1. (\E d \in Coroutines : k \in wakes'[d]) <=> (\E d \in Coroutines : k \in wakes[d])
          BY Zenon, <4>2, <2>6
        <5>. QED
          BY Zenon, <4>2, <5>1, <3>0 DEF Grants
      <4>. QED
        BY Zenon, <4>1, <4>2
    <3>4. \A k, d, e \in Coroutines : k \in wakes'[d] /\ k \in wakes'[e] => d = e
      BY <3>0, <3>1, <2>6 DEF Grants
    <3>5. \A k, d \in Coroutines : k \in granted => k \notin wakes'[d]
      BY <3>0, <3>1, <2>6 DEF Grants
    <3>. QED
      BY Zenon, <3>3, <3>4, <3>5 DEF Grants
  <2>8. Core(owners', m, tickets', wakes', granted)
    BY Zenon, <2>1, <2>2, <2>4, <2>5, <2>7 DEF Core
  <2>9. Owed(m, tickets')
    <3>1. CASE r
      <4>1. h \in Rd(m, Q \ {h}) /\ m[h] = "rdwait"
        BY Zenon, <3>1, <2>2, <2>3 DEF Rd, Kind
      <4>. QED
        BY Zenon, <4>1, <2>1, <2>2 DEF Owed
    <3>2. CASE ~r
      <4>1. h \in Wr(m, Q \ {h})
        BY Zenon, <3>2, <2>2, <2>3 DEF Wr, Kind
      <4>. QED
        BY Zenon, <4>1, <2>1, <2>2 DEF Owed
    <3>. QED
      BY Zenon, <3>1, <3>2
  <2>. QED
    BY Zenon, <2>6, <2>8, <2>9
<1>. QED
  BY Zenon, <1>3, <1>4
-----------------------------------------------------------------------------
Waiting == {"rdwait", "wrwait"}

(* A coroutine that is not waiting is not in line.                         *)
LEMMA NotInLine ==
    ASSUME NEW m, NEW q, Line(m, q), NEW c, m[c] \notin Waiting
    PROVE  \A k \in 1 .. Len(q) : q[k].co \in Coroutines /\ q[k].co # c
<1>. TAKE k \in 1 .. Len(q)
<1>1. q[k] \in Ticket
  BY DEF Line
<1>2. q[k].co \in Coroutines
  BY Zenon, <1>1 DEF Ticket
<1>3. m[q[k].co] \in Waiting
  BY Zenon DEF Line, Kind, Waiting
<1>. QED
  BY Zenon, <1>2, <1>3

(* A coroutine that is not waiting changes what it does, and stays out of  *)
(* the line.                                                               *)
LEMMA ChangedCore ==
    ASSUME NEW o, NEW m, NEW q, NEW w, NEW g, Core(o, m, q, w, g),
           NEW c \in Coroutines, m[c] \notin Waiting,
           NEW x \in RwPlaces \ Waiting, NEW p,
           Exact(p, Rd([m EXCEPT ![c] = x], Cos(q)), Wr([m EXCEPT ![c] = x], Cos(q)))
    PROVE  Core(p, [m EXCEPT ![c] = x], q, w, g)
<1>. DEFINE n == [m EXCEPT ![c] = x]
<1>1. n \in [Coroutines -> RwPlaces] /\ n[c] = x /\ \A d \in Coroutines : d # c => n[d] = m[d]
  BY Zenon DEF Core
<1>2. \A k \in 1 .. Len(q) : q[k].co \in Coroutines /\ q[k].co # c
  BY Zenon, NotInLine DEF Core
<1>. HIDE DEF n
<1>3. Line(n, q)
  BY Zenon, <1>1, <1>2 DEF Core, Line
<1>4. Grants(n, Cos(q), w, g)
  BY Zenon, <1>1 DEF Core, Grants, Waiting
<1>. QED
  BY Zenon, <1>1, <1>3, <1>4 DEF Core, n

(* A coroutine that is not waiting joins the line.                         *)
LEMMA JoinedCore ==
    ASSUME Core(owners, rw, tickets, wakes, granted),
           NEW c \in Coroutines, rw[c] \notin Waiting, NEW e \in Ticket, e.co = c,
           rw' \in [Coroutines -> RwPlaces],
           rw'[c] = Kind(e.read), \A d \in Coroutines : d # c => rw'[d] = rw[d],
           NEW t, Joins(tickets, e, t),
           NEW p, Exact(p, Rd(rw', Cos(tickets) \union {c}), Wr(rw', Cos(tickets) \union {c}))
    PROVE  /\ Core(p, rw', t, wakes, granted) /\ Cos(t) = Cos(tickets) \union {c}
           /\ (tickets # <<>> => t[1] = tickets[1]) /\ (tickets = <<>> => t[1] = e)
<1>0. Kind(e.read) \in Waiting
  BY Zenon DEF Kind, Waiting
<1>1. \A k \in 1 .. Len(tickets) : tickets[k].co \in Coroutines /\ tickets[k].co # c
  BY Zenon, NotInLine DEF Core
<1>2. c \notin Cos(tickets)
  BY SMTT(30), <1>1 DEF Cos, Core, Line
<1>3. Line(rw', tickets)
  BY Zenon, <1>1 DEF Core, Line
<1>4. e.co \notin Cos(tickets) /\ rw'[e.co] = Kind(e.read)
  BY Zenon, <1>2
<1>5. /\ Line(rw', t) /\ Cos(t) = Cos(tickets) \union {e.co}
      /\ (tickets # <<>> => t[1] = tickets[1]) /\ (tickets = <<>> => t[1] = e)
  BY SMTT(30), <1>3, <1>4, LineAppend
<1>6. Grants(rw', Cos(tickets) \union {c}, wakes, granted)
  BY Zenon, <1>0, <1>2 DEF Core, Grants, Waiting
<1>7. Core(p, rw', t, wakes, granted)
  BY Zenon, <1>5, <1>6 DEF Core
<1>. QED
  BY Zenon, <1>5, <1>7

(* With no owners nobody is in line.                                       *)
LEMMA NobodyInLine ==
    ASSUME RwInv, owners = 0
    PROVE  tickets = <<>>
<1>1. Rd(rw, Cos(tickets)) = {} /\ Wr(rw, Cos(tickets)) = {}
  BY ExactMeans DEF RwInv, Core, Rd, Wr
<1>. QED
  BY Zenon, <1>1 DEF RwInv, Owed

-----------------------------------------------------------------------------
(* A call is entered or a state is kept: readers and writers are the same. *)
LEMMA CallKeeps ==
    ASSUME RwInv, NEW c \in Coroutines, Call(c)
    PROVE  RwInv'
<1>1. PICK x \in {"rdlock", "wrlock", "rdunlock", "upgrade", "wrunlock", "downgrade"} :
          /\ rw' = [rw EXCEPT ![c] = x]
          /\ \/ rw[c] = "none" /\ x \in {"rdlock", "wrlock"}
             \/ rw[c] = "read" /\ x \in {"rdunlock", "upgrade"}
             \/ rw[c] = "write" /\ x \in {"wrunlock", "downgrade"}
  BY Zenon DEF Call, Become
<1>2. /\ wakes[c] = {} /\ UNCHANGED <<owners, tickets, wakes, granted>>
      /\ x \in RwPlaces \ Waiting /\ rw[c] \notin Waiting
  BY Zenon, <1>1 DEF Call, RwPlaces, Waiting
<1>3. \A d \in Coroutines : rw'[d] = IF d = c THEN x ELSE rw[d]
  BY Zenon, <1>1 DEF RwInv, Core
<1>4. Rd(rw', Cos(tickets)) = Rd(rw, Cos(tickets)) /\ Wr(rw', Cos(tickets)) = Wr(rw, Cos(tickets))
  BY Zenon, <1>1, <1>3 DEF Rd, Wr
<1>5. Exact(owners, Rd([rw EXCEPT ![c] = x], Cos(tickets)), Wr([rw EXCEPT ![c] = x], Cos(tickets)))
  BY Zenon, <1>1, <1>4 DEF RwInv, Core
<1>6. Core(owners, rw', tickets, wakes, granted)
  BY Zenon, <1>1, <1>2, <1>5, ChangedCore DEF RwInv
<1>7. Owed(rw', tickets)
  <2>1. \A d \in Rd(rw, Cos(tickets)) : rw[d] \in {"pass", "rdwait"} => rw'[d] = rw[d]
    BY Zenon, <1>1, <1>3 DEF Rd
  <2>. QED
    BY Zenon, <1>4, <2>1 DEF RwInv, Owed
<1>8. Quiet(rw', wakes)
  BY Zenon, <1>2, <1>3 DEF RwInv, Quiet
<1>. QED
  BY Zenon, <1>2, <1>6, <1>7, <1>8 DEF RwInv

(* What is known of a coroutine inside a call, at the end of its critical  *)
(* section.                                                                *)
LEMMA InCallFacts ==
    ASSUME RwInv, NEW c \in Coroutines, InCall(c)
    PROVE  /\ wakes[c] = {} /\ rw[c] \notin Waiting
           /\ Core(owners, rw, tickets, wakes, granted)
           /\ Exact(owners, Rd(rw, Cos(tickets)), Wr(rw, Cos(tickets)))
           /\ Rd(rw, Cos(tickets)) \subseteq Coroutines /\ Wr(rw, Cos(tickets)) \subseteq Coroutines
           /\ owners \in Int
           /\ rw \in [Coroutines -> RwPlaces]
<1>1. Core(owners, rw, tickets, wakes, granted) /\ Quiet(rw, wakes)
  BY Zenon DEF RwInv
<1>2. wakes[c] = {} /\ rw[c] \notin Waiting
  BY Zenon, <1>1 DEF InCall, Quiet, Waiting
<1>3. Exact(owners, Rd(rw, Cos(tickets)), Wr(rw, Cos(tickets)))
  BY Zenon, <1>1 DEF Core
<1>4. Rd(rw, Cos(tickets)) \subseteq Coroutines /\ Wr(rw, Cos(tickets)) \subseteq Coroutines
  BY Zenon DEF Rd, Wr
<1>5. owners \in Int
  BY Zenon, <1>3, <1>4, ExactMeans
<1>. QED
  BY Zenon, <1>1, <1>2, <1>3, <1>4, <1>5 DEF Core

(* After a call that ends by waking the head of the line.                  *)
LEMMA WokenInv ==
    ASSUME RwInv, NEW c \in Coroutines, InCall(c), NEW o, NEW q, NEW x, o >= 0,
           rw' = [rw EXCEPT ![c] = x], x \in {"none", "read", "wrwait"},
           Core(o, rw', q, wakes, granted), MaybeWake(c, o, q), granted' = granted
    PROVE  RwInv'
<1>0. wakes[c] = {} /\ rw \in [Coroutines -> RwPlaces]
  BY Zenon, InCallFacts
<1>1. wakes[c] = {} /\ \A d \in Coroutines : rw'[d] = IF d = c THEN x ELSE rw[d]
  BY Zenon, <1>0
<1>2. /\ Core(owners', rw', tickets', wakes', granted) /\ Owed(rw', tickets')
      /\ \A d \in Coroutines : d # c => wakes'[d] = wakes[d]
  BY Zenon, <1>1, WakeCore
<1>3. Quiet(rw', wakes')
  BY Zenon, <1>1, <1>2 DEF RwInv, Quiet
<1>. QED
  BY Zenon, <1>2, <1>3 DEF RwInv

(* After a call that wakes nobody.                                         *)
LEMMA UnwokenInv ==
    ASSUME RwInv, NEW c \in Coroutines, InCall(c), NEW x,
           rw' = [rw EXCEPT ![c] = x], x \in {"read", "write", "rdwait", "wrwait"},
           Core(owners', rw', tickets', wakes, granted), Owed(rw', tickets'),
           wakes' = wakes, granted' = granted
    PROVE  RwInv'
<1>0. rw \in [Coroutines -> RwPlaces]
  BY Zenon, InCallFacts
<1>1. \A d \in Coroutines : rw'[d] = IF d = c THEN x ELSE rw[d]
  BY Zenon, <1>0
<1>2. Quiet(rw', wakes)
  BY Zenon, <1>1 DEF RwInv, Quiet
<1>. QED
  BY Zenon, <1>2 DEF RwInv

(* qemu_co_rwlock_rdlock                                                   *)
LEMMA RdLockKeeps ==
    ASSUME RwInv, NEW c \in Coroutines, RdLock(c)
    PROVE  RwInv'
<1>. DEFINE Q == Cos(tickets)
            R == Rd(rw, Q)
            W == Wr(rw, Q)
<1>1. /\ InCall(c) /\ rw[c] = "rdlock" /\ wakes' = wakes /\ granted' = granted
  BY Zenon DEF RdLock, Leave, InCall
<1>2. /\ rw[c] \notin Waiting /\ Core(owners, rw, tickets, wakes, granted) /\ Exact(owners, R, W)
      /\ R \subseteq Coroutines /\ W \subseteq Coroutines /\ owners \in Int
      /\ rw \in [Coroutines -> RwPlaces]
  BY Zenon, <1>1, InCallFacts
<1>3. CASE owners = 0 \/ (owners > 0 /\ tickets = <<>>)
  <2>1. owners' = owners + 1 /\ rw' = [rw EXCEPT ![c] = "read"] /\ tickets' = tickets
    BY Zenon, <1>3 DEF RdLock, Become
  <2>1a. \A d \in Coroutines : rw'[d] = IF d = c THEN "read" ELSE rw[d]
    BY Zenon, <1>2, <2>1
  <2>2. tickets = <<>> /\ W = {}
    BY <1>2, <1>3, NobodyInLine, ExactMeans
  <2>3. Rd(rw', Q) = R \union {c} /\ Wr(rw', Q) = {} /\ c \notin R
    BY Zenon, <1>1, <2>1a, <2>2 DEF Rd, Wr
  <2>4. Exact(owners, R, {})
    BY Zenon, <1>2, <2>2
  <2>5. Exact(owners + 1, R \union {c}, {})
    BY Zenon, <1>2, <2>3, <2>4, ExactAdd
  <2>6. Exact(owners + 1, Rd([rw EXCEPT ![c] = "read"], Q), Wr([rw EXCEPT ![c] = "read"], Q))
    BY Zenon, <2>1, <2>3, <2>5
  <2>7. Core(owners + 1, [rw EXCEPT ![c] = "read"], tickets, wakes, granted)
    BY Zenon, <1>2, <2>6, ChangedCore DEF RwPlaces, Waiting
  <2>8. Owed(rw', tickets')
    BY Zenon, <2>1, <2>2 DEF Owed
  <2>. QED
    BY Zenon, <1>1, <2>1, <2>7, <2>8, UnwokenInv
<1>4. CASE ~(owners = 0 \/ (owners > 0 /\ tickets = <<>>))
  <2>0. /\ owners' = owners /\ rw' = [rw EXCEPT ![c] = Kind(TRUE)] /\ Kind(TRUE) = "rdwait"
        /\ tickets' = Append(tickets, [co |-> c, read |-> TRUE])
    BY Zenon, <1>4 DEF RdLock, Become, InLine, Kind
  <2>1. PICK e \in Ticket :
            e.co = c /\ e.read = TRUE /\ Kind(e.read) = "rdwait" /\ Joins(tickets, e, tickets')
    BY Zenon, <1>2, <2>0, AppendJoins DEF Ticket, Core, Line
  <2>1a. /\ \A d \in Coroutines : rw'[d] = IF d = c THEN "rdwait" ELSE rw[d]
         /\ rw' \in [Coroutines -> RwPlaces]
    BY Zenon, <1>2, <2>0 DEF RwPlaces
  <2>2. Rd(rw', Q \union {c}) = R /\ Wr(rw', Q \union {c}) = W /\ c \notin R
    BY Zenon, <1>1, <2>1a DEF Rd, Wr
  <2>3. Exact(owners, Rd(rw', Q \union {c}), Wr(rw', Q \union {c}))
    BY Zenon, <1>2, <2>2
  <2>3a. /\ rw' \in [Coroutines -> RwPlaces] /\ rw'[c] = Kind(e.read)
         /\ \A d \in Coroutines : d # c => rw'[d] = rw[d]
    BY Zenon, <2>1, <2>1a
  <2>4. /\ Core(owners, rw', tickets', wakes, granted) /\ Cos(tickets') = Q \union {c}
        /\ tickets # <<>> => tickets'[1] = tickets[1]
        /\ tickets = <<>> => tickets'[1] = e
    BY <1>2, <2>1, <2>3, <2>3a, JoinedCore
  <2>5. tickets = <<>> => W # {}
    BY <1>2, <1>4, ExactMeans
  <2>6. \A d \in R : rw'[d] = rw[d]
    BY Zenon, <1>2, <2>1a, <2>2
  <2>7. Owed(rw', tickets')
    BY Zenon, <2>1, <2>2, <2>4, <2>5, <2>6 DEF RwInv, Owed
  <2>. QED
    BY Zenon, <1>1, <2>0, <2>4, <2>7, UnwokenInv
<1>. QED
  BY Zenon, <1>3, <1>4

(* qemu_co_rwlock_wrlock                                                   *)
LEMMA WrLockKeeps ==
    ASSUME RwInv, NEW c \in Coroutines, WrLock(c)
    PROVE  RwInv'
<1>. DEFINE Q == Cos(tickets)
            R == Rd(rw, Q)
            W == Wr(rw, Q)
<1>1. /\ InCall(c) /\ rw[c] = "wrlock" /\ wakes' = wakes /\ granted' = granted
  BY Zenon DEF WrLock, Leave, InCall
<1>2. /\ rw[c] \notin Waiting /\ Core(owners, rw, tickets, wakes, granted) /\ Exact(owners, R, W)
      /\ R \subseteq Coroutines /\ W \subseteq Coroutines /\ owners \in Int
      /\ rw \in [Coroutines -> RwPlaces]
  BY Zenon, <1>1, InCallFacts
<1>3. CASE owners = 0
  <2>1. owners' = -1 /\ rw' = [rw EXCEPT ![c] = "write"] /\ tickets' = tickets
    BY Zenon, <1>3 DEF WrLock, Become
  <2>1a. \A d \in Coroutines : rw'[d] = IF d = c THEN "write" ELSE rw[d]
    BY Zenon, <1>2, <2>1
  <2>2. tickets = <<>> /\ R = {} /\ W = {}
    BY <1>2, <1>3, NobodyInLine, ExactMeans
  <2>3. Rd(rw', Q) = {} /\ Wr(rw', Q) = {c}
    BY Zenon, <1>1, <2>1a, <2>2 DEF Rd, Wr
  <2>4. Exact(-1, Rd([rw EXCEPT ![c] = "write"], Q), Wr([rw EXCEPT ![c] = "write"], Q))
    BY Zenon, <2>1, <2>3, ExactWriter
  <2>5. Core(-1, [rw EXCEPT ![c] = "write"], tickets, wakes, granted)
    BY Zenon, <1>2, <2>4, ChangedCore DEF RwPlaces, Waiting
  <2>6. Owed(rw', tickets')
    BY Zenon, <2>1, <2>2 DEF Owed
  <2>. QED
    BY Zenon, <1>1, <2>1, <2>5, <2>6, UnwokenInv
<1>4. CASE owners # 0
  <2>0. /\ owners' = owners /\ rw' = [rw EXCEPT ![c] = Kind(FALSE)] /\ Kind(FALSE) = "wrwait"
        /\ tickets' = Append(tickets, [co |-> c, read |-> FALSE])
    BY Zenon, <1>4 DEF WrLock, Become, InLine, Kind
  <2>1. PICK e \in Ticket :
            e.co = c /\ e.read = FALSE /\ Kind(e.read) = "wrwait" /\ Joins(tickets, e, tickets')
    BY Zenon, <1>2, <2>0, AppendJoins DEF Ticket, Core, Line
  <2>1a. /\ \A d \in Coroutines : rw'[d] = IF d = c THEN "wrwait" ELSE rw[d]
         /\ rw' \in [Coroutines -> RwPlaces]
    BY Zenon, <1>2, <2>0 DEF RwPlaces
  <2>2. Rd(rw', Q \union {c}) = R /\ Wr(rw', Q \union {c}) = W /\ c \notin R
    BY Zenon, <1>1, <2>1a DEF Rd, Wr
  <2>3. Exact(owners, Rd(rw', Q \union {c}), Wr(rw', Q \union {c}))
    BY Zenon, <1>2, <2>2
  <2>3a. /\ rw' \in [Coroutines -> RwPlaces] /\ rw'[c] = Kind(e.read)
         /\ \A d \in Coroutines : d # c => rw'[d] = rw[d]
    BY Zenon, <2>1, <2>1a
  <2>4. /\ Core(owners, rw', tickets', wakes, granted) /\ Cos(tickets') = Q \union {c}
        /\ tickets # <<>> => tickets'[1] = tickets[1]
        /\ tickets = <<>> => tickets'[1] = e
    BY <1>2, <2>1, <2>3, <2>3a, JoinedCore
  <2>5. R \union W # {}
    BY <1>2, <1>4, ExactMeans
  <2>6. \A d \in R : rw'[d] = rw[d]
    BY Zenon, <1>2, <2>1a, <2>2
  <2>7. Owed(rw', tickets')
    BY Zenon, <2>1, <2>2, <2>4, <2>5, <2>6 DEF RwInv, Owed
  <2>. QED
    BY Zenon, <1>1, <2>0, <2>4, <2>7, UnwokenInv
<1>. QED
  BY Zenon, <1>3, <1>4

(* qemu_co_rwlock_unlock                                                   *)
LEMMA UnlockRwKeeps ==
    ASSUME RwInv, NEW c \in Coroutines, UnlockRw(c)
    PROVE  RwInv'
<1>. DEFINE Q == Cos(tickets)
            R == Rd(rw, Q)
            W == Wr(rw, Q)
            o == IF owners > 0 THEN owners - 1 ELSE 0
            n == [rw EXCEPT ![c] = "none"]
<1>1. /\ InCall(c) /\ rw[c] \in {"rdunlock", "wrunlock"} /\ granted' = granted
      /\ rw' = n /\ MaybeWake(c, o, tickets)
  BY Zenon DEF UnlockRw, Leave, InCall, Become
<1>2. /\ rw[c] \notin Waiting /\ Core(owners, rw, tickets, wakes, granted) /\ Exact(owners, R, W)
      /\ R \subseteq Coroutines /\ W \subseteq Coroutines /\ owners \in Int
      /\ rw \in [Coroutines -> RwPlaces]
  BY Zenon, <1>1, InCallFacts
<1>3. \A d \in Coroutines : n[d] = IF d = c THEN "none" ELSE rw[d]
  BY Zenon, <1>2
<1>4. Rd(n, Q) = R \ {c} /\ Wr(n, Q) = W \ {c}
  BY <1>3 DEF Rd, Wr
<1>5. o >= 0 /\ Exact(o, Rd(n, Q), Wr(n, Q))
  <2>1. CASE rw[c] = "rdunlock"
    <3>1. c \in R
      BY Zenon, <2>1 DEF Rd
    <3>2. W = {}
      BY <3>1, <1>2, ExactMeans
    <3>3. Exact(owners - 1, R \ {c}, {}) /\ owners > 0
      BY Zenon, <3>1, <3>2, <1>2, ExactDrop
    <3>4. o = owners - 1 /\ o >= 0
      BY <3>3, <1>2
    <3>5. Rd(n, Q) = R \ {c} /\ Wr(n, Q) = {}
      BY Zenon, <3>2, <1>4
    <3>. HIDE DEF o, n, R
    <3>. QED
      BY Zenon, <3>3, <3>4, <3>5
  <2>2. CASE rw[c] = "wrunlock"
    <3>1. c \in W
      BY Zenon, <2>2 DEF Wr
    <3>2. R = {} /\ W = {c} /\ owners < 0
      BY <3>1, <1>2, ExactMeans
    <3>3. Exact(0, {}, {})
      BY Zenon, FS_EmptySet DEF Exact
    <3>4. o = 0
      BY <3>2, <1>2
    <3>5. Rd(n, Q) = {} /\ Wr(n, Q) = {}
      BY Zenon, <3>2, <1>4
    <3>. HIDE DEF o, n
    <3>. QED
      BY <3>3, <3>4, <3>5
  <2>. QED
    BY Zenon, <1>1, <2>1, <2>2
<1>6. Core(o, n, tickets, wakes, granted)
  BY Zenon, <1>2, <1>5, ChangedCore DEF RwPlaces, Waiting
<1>. HIDE DEF o
<1>. QED
  BY Zenon, <1>1, <1>5, <1>6, WokenInv

(* qemu_co_rwlock_downgrade                                                *)
LEMMA DowngradeKeeps ==
    ASSUME RwInv, NEW c \in Coroutines, Downgrade(c)
    PROVE  RwInv'
<1>. DEFINE Q == Cos(tickets)
            R == Rd(rw, Q)
            W == Wr(rw, Q)
            n == [rw EXCEPT ![c] = "read"]
<1>1. /\ InCall(c) /\ rw[c] = "downgrade" /\ granted' = granted
      /\ rw' = n /\ MaybeWake(c, 1, tickets)
  BY Zenon DEF Downgrade, Leave, InCall, Become
<1>2. /\ rw[c] \notin Waiting /\ Core(owners, rw, tickets, wakes, granted) /\ Exact(owners, R, W)
      /\ R \subseteq Coroutines /\ W \subseteq Coroutines /\ owners \in Int
      /\ rw \in [Coroutines -> RwPlaces]
  BY Zenon, <1>1, InCallFacts
<1>3. \A d \in Coroutines : n[d] = IF d = c THEN "read" ELSE rw[d]
  BY Zenon, <1>2
<1>4. c \in W
  BY Zenon, <1>1 DEF Wr
<1>5. R = {} /\ W = {c}
  BY <1>2, <1>4, ExactMeans
<1>6. Rd(n, Q) = {c} /\ Wr(n, Q) = {}
  BY <1>1, <1>3, <1>5 DEF Rd, Wr
<1>7. Exact(1, Rd(n, Q), Wr(n, Q))
  BY Zenon, <1>6, FS_Singleton DEF Exact
<1>8. Core(1, n, tickets, wakes, granted)
  BY Zenon, <1>2, <1>7, ChangedCore DEF RwPlaces, Waiting
<1>. DEFINE o == 1
<1>9. o >= 0 /\ Core(o, n, tickets, wakes, granted) /\ MaybeWake(c, o, tickets)
  BY <1>1, <1>8
<1>. HIDE DEF o
<1>. QED
  BY Zenon, <1>1, <1>9, WokenInv

(* The reader that waited passes the wake-up on.                           *)
LEMMA PassKeeps ==
    ASSUME RwInv, NEW c \in Coroutines, Pass(c)
    PROVE  RwInv'
<1>. DEFINE Q == Cos(tickets)
            R == Rd(rw, Q)
            W == Wr(rw, Q)
            n == [rw EXCEPT ![c] = "read"]
<1>1. /\ InCall(c) /\ rw[c] = "pass" /\ granted' = granted
      /\ rw' = n /\ MaybeWake(c, owners, tickets)
  BY Zenon DEF Pass, Leave, InCall, Become
<1>2. /\ rw[c] \notin Waiting /\ Core(owners, rw, tickets, wakes, granted) /\ Exact(owners, R, W)
      /\ R \subseteq Coroutines /\ W \subseteq Coroutines /\ owners \in Int
      /\ rw \in [Coroutines -> RwPlaces]
  BY Zenon, <1>1, InCallFacts
<1>3. \A d \in Coroutines : n[d] = IF d = c THEN "read" ELSE rw[d]
  BY Zenon, <1>2
<1>4. Rd(n, Q) = R /\ Wr(n, Q) = W /\ c \in R
  BY <1>1, <1>3 DEF Rd, Wr
<1>5. owners >= 0
  BY <1>2, <1>4, ExactMeans
<1>6. Core(owners, n, tickets, wakes, granted)
  BY Zenon, <1>2, <1>4, ChangedCore DEF RwPlaces, Waiting
<1>. QED
  BY Zenon, <1>1, <1>5, <1>6, WokenInv

(* qemu_co_rwlock_upgrade                                                  *)
LEMMA UpgradeKeeps ==
    ASSUME RwInv, NEW c \in Coroutines, Upgrade(c)
    PROVE  RwInv'
<1>. DEFINE Q == Cos(tickets)
            R == Rd(rw, Q)
            W == Wr(rw, Q)
<1>1. InCall(c) /\ rw[c] = "upgrade" /\ granted' = granted
  BY Zenon DEF Upgrade, Leave, InCall
<1>2. /\ rw[c] \notin Waiting /\ Core(owners, rw, tickets, wakes, granted) /\ Exact(owners, R, W)
      /\ R \subseteq Coroutines /\ W \subseteq Coroutines /\ owners \in Int
      /\ rw \in [Coroutines -> RwPlaces]
  BY Zenon, <1>1, InCallFacts
<1>3. c \in R
  BY Zenon, <1>1 DEF Rd
<1>4. W = {} /\ owners > 0 /\ Exact(owners - 1, R \ {c}, {})
  <2>1. W = {}
    BY <1>2, <1>3, ExactMeans
  <2>. QED
    BY Zenon, <1>2, <1>3, <2>1, ExactDrop
<1>5. CASE owners = 1 /\ tickets = <<>>
  <2>1. /\ owners' = -1 /\ rw' = [rw EXCEPT ![c] = "write"]
        /\ tickets' = tickets /\ wakes' = wakes
    BY Zenon, <1>5 DEF Upgrade, Become
  <2>2. R = {c}
    BY <1>2, <1>3, <1>5, ExactMeans
  <2>3. \A d \in Coroutines : rw'[d] = IF d = c THEN "write" ELSE rw[d]
    BY Zenon, <1>2, <2>1
  <2>4. Rd(rw', Q) = {} /\ Wr(rw', Q) = {c}
    BY Zenon, <1>1, <1>4, <2>2, <2>3 DEF Rd, Wr
  <2>5. Exact(-1, Rd([rw EXCEPT ![c] = "write"], Q), Wr([rw EXCEPT ![c] = "write"], Q))
    BY Zenon, <2>1, <2>4, ExactWriter
  <2>6. Core(-1, [rw EXCEPT ![c] = "write"], tickets, wakes, granted)
    BY Zenon, <1>2, <2>5, ChangedCore DEF RwPlaces, Waiting
  <2>7. Owed(rw', tickets')
    BY Zenon, <1>5, <2>1 DEF Owed
  <2>. QED
    BY Zenon, <1>1, <2>1, <2>6, <2>7, UnwokenInv
<1>6. CASE ~(owners = 1 /\ tickets = <<>>)
  <2>. DEFINE t == Append(tickets, [co |-> c, read |-> FALSE])
              o == owners - 1
  <2>0. /\ MaybeWake(c, o, t) /\ rw' = [rw EXCEPT ![c] = "wrwait"]
    BY Zenon, <1>6 DEF Upgrade, Become, InLine
  <2>1. PICK e \in Ticket :
            e.co = c /\ e.read = FALSE /\ Kind(e.read) = "wrwait" /\ Joins(tickets, e, t)
    BY Zenon, <1>2, AppendJoins DEF Ticket, Core, Line, Kind
  <2>1a. /\ \A d \in Coroutines : rw'[d] = IF d = c THEN "wrwait" ELSE rw[d]
         /\ rw' \in [Coroutines -> RwPlaces]
    BY Zenon, <1>2, <2>0 DEF RwPlaces
  <2>. HIDE DEF t, o
  <2>2. Rd(rw', Q \union {c}) = R \ {c} /\ Wr(rw', Q \union {c}) = {}
    BY Zenon, <1>1, <1>4, <2>1a DEF Rd, Wr
  <2>3. Exact(o, Rd(rw', Q \union {c}), Wr(rw', Q \union {c})) /\ o >= 0
    <3>1. o >= 0
      BY <1>2, <1>4 DEF o
    <3>2. Exact(o, R \ {c}, {})
      BY Zenon, <1>4 DEF o
    <3>. QED
      BY Zenon, <2>2, <3>1, <3>2
  <2>3a. /\ rw' \in [Coroutines -> RwPlaces] /\ rw'[c] = Kind(e.read)
         /\ \A d \in Coroutines : d # c => rw'[d] = rw[d]
    BY Zenon, <2>1, <2>1a
  <2>4. Core(o, rw', t, wakes, granted)
    BY Zenon, <1>2, <2>1, <2>3, <2>3a, JoinedCore
  <2>. QED
    BY Zenon, <1>1, <2>0, <2>3, <2>4, WokenInv
<1>. QED
  BY Zenon, <1>5, <1>6

(* aio_co_wake after the unlock: the wake-up moves on.                     *)
LEMMA WakeTicketKeeps ==
    ASSUME RwInv, NEW c \in Coroutines, WakeTicket(c)
    PROVE  RwInv'
<1>1. /\ granted' = granted \union wakes[c] /\ wakes' = [wakes EXCEPT ![c] = {}]
      /\ UNCHANGED <<owners, tickets, rw>>
  BY Zenon DEF WakeTicket
<1>2. Core(owners, rw, tickets, wakes, granted)
  BY Zenon DEF RwInv
<1>3. /\ \A d \in Coroutines : wakes'[d] = IF d = c THEN {} ELSE wakes[d]
      /\ wakes' \in [Coroutines -> SUBSET Coroutines] /\ granted' \in SUBSET Coroutines
  BY Zenon, <1>1, <1>2 DEF Core
<1>4. Grants(rw, Cos(tickets), wakes', granted')
  <2>0. Grants(rw, Cos(tickets), wakes, granted)
    BY Zenon, <1>2 DEF Core
  <2>1. \A k \in Coroutines : k \in granted' \/ (\E d \in Coroutines : k \in wakes'[d])
                              <=> k \in granted \/ (\E d \in Coroutines : k \in wakes[d])
    BY Zenon, <1>1, <1>3
  <2>. QED
    BY Zenon, <1>1, <1>3, <2>0, <2>1 DEF Grants
<1>5. Core(owners', rw', tickets', wakes', granted')
  BY Zenon, <1>1, <1>2, <1>3, <1>4 DEF Core
<1>6. Quiet(rw', wakes')
  BY Zenon, <1>1, <1>3 DEF RwInv, Quiet
<1>. QED
  BY Zenon, <1>1, <1>5, <1>6 DEF RwInv

(* The coroutine that was granted the lock runs.                           *)
LEMMA YieldedKeeps ==
    ASSUME RwInv, NEW c \in Coroutines, Yielded(c)
    PROVE  RwInv'
<1>1. PICK x \in {"pass", "write"} :
          /\ rw' = [rw EXCEPT ![c] = x]
          /\ rw[c] = IF x = "pass" THEN "rdwait" ELSE "wrwait"
  BY Zenon DEF Yielded, Become
<1>2. /\ wakes[c] = {} /\ c \in granted /\ granted' = granted \ {c}
      /\ UNCHANGED <<owners, tickets, wakes>>
  BY Zenon DEF Yielded
<1>3. Core(owners, rw, tickets, wakes, granted)
  BY Zenon DEF RwInv
<1>4. /\ \A d \in Coroutines : rw'[d] = IF d = c THEN x ELSE rw[d]
      /\ rw' \in [Coroutines -> RwPlaces] /\ granted' \in SUBSET Coroutines
  BY Zenon, <1>1, <1>2, <1>3 DEF Core, RwPlaces
<1>5. c \notin Cos(tickets) /\ \A d \in Coroutines : c \notin wakes[d]
  BY Zenon, <1>2, <1>3 DEF Core, Grants
<1>6. Rd(rw', Cos(tickets)) = Rd(rw, Cos(tickets)) /\ Wr(rw', Cos(tickets)) = Wr(rw, Cos(tickets))
  BY Zenon, <1>1, <1>4, <1>5 DEF Rd, Wr
<1>7. Line(rw', tickets)
  <2>1. \A k \in 1 .. Len(tickets) : tickets[k].co \in Coroutines /\ tickets[k].co # c
    <3>. TAKE k \in 1 .. Len(tickets)
    <3>1. tickets[k] \in Ticket /\ k \in DOMAIN tickets
      BY <1>3 DEF Core, Line
    <3>. QED
      BY Zenon, <1>5, <3>1 DEF Cos, Ticket
  <2>. QED
    BY Zenon, <1>3, <1>4, <2>1 DEF Core, Line
<1>8. Grants(rw', Cos(tickets), wakes, granted')
  BY SMTT(30), <1>1, <1>2, <1>3, <1>4, <1>5 DEF Core, Grants
<1>9. Core(owners', rw', tickets', wakes', granted')
  BY Zenon, <1>2, <1>3, <1>4, <1>6, <1>7, <1>8 DEF Core
<1>10. Owed(rw', tickets)
  <2>1. \A d \in Rd(rw, Cos(tickets)) : rw[d] \in {"pass", "rdwait"} => rw'[d] \in {"pass", "rdwait"}
    BY Zenon, <1>1, <1>4 DEF Rd
  <2>. QED
    BY Zenon, <1>6, <2>1 DEF RwInv, Owed
<1>11. Quiet(rw', wakes)
  BY Zenon, <1>2, <1>4 DEF RwInv, Quiet
<1>. QED
  BY Zenon, <1>2, <1>9, <1>10, <1>11 DEF RwInv

-----------------------------------------------------------------------------
(* Nobody owns the lock or waits for it at first.                          *)
LEMMA RwInitInv == RwInit => RwInv
<1>. SUFFICES ASSUME RwInit PROVE RwInv
  BY Zenon
<1>1. Cos(<<>>) = {} /\ Rd(rw, {}) = {} /\ Wr(rw, {}) = {}
  BY DEF RwInit, Cos, Rd, Wr
<1>2. Exact(0, {}, {})
  BY Zenon, FS_EmptySet DEF Exact
<1>3. Line(rw, <<>>)
  BY DEF Line
<1>4. Grants(rw, {}, wakes, granted)
  BY Zenon DEF RwInit, Grants
<1>5. Core(owners, rw, tickets, wakes, granted)
  BY Zenon, <1>1, <1>2, <1>3, <1>4 DEF RwInit, Core, RwPlaces
<1>. QED
  BY Zenon, <1>5 DEF RwInv, RwInit, Owed, Quiet

(* Every step keeps the invariant.                                         *)
LEMMA RwNextInv == RwInv /\ [RwNext]_allVars => RwInv'
<1>. SUFFICES ASSUME RwInv, [RwNext]_allVars PROVE RwInv'
  BY Zenon
<1>1. CASE UNCHANGED rwVars
  BY Zenon, <1>1 DEF rwVars, RwInv
<1>2. ASSUME NEW c \in Coroutines, Call(c) \/ RwStep(c)
      PROVE  RwInv'
  <2>1. CASE MutexStep(c)
    BY Zenon, <1>1, <2>1 DEF MutexStep
  <2>2. CASE ~MutexStep(c)
    BY Zenon, <1>2, <2>2, CallKeeps, RdLockKeeps, WrLockKeeps, UnlockRwKeeps, DowngradeKeeps, UpgradeKeeps,
       PassKeeps, WakeTicketKeeps, YieldedKeeps DEF RwStep
  <2>. QED
    BY Zenon, <2>1, <2>2
<1>. QED
  BY Zenon, <1>1, <1>2 DEF RwNext, allVars

-----------------------------------------------------------------------------
(* The read-write lock uses its mutex as the mutex expects.                *)
THEOREM RwUsesMutex == RwSpec => Spec
<1>1. RwInit => Init
  BY Zenon DEF RwInit
<1>2. [RwNext]_allVars => [Next]_vars
  <2>. SUFFICES ASSUME [RwNext]_allVars PROVE [Next]_vars
    BY Zenon
  <2>1. CASE UNCHANGED allVars
    BY Zenon, <2>1 DEF allVars
  <2>2. ASSUME NEW c \in Coroutines, Call(c) \/ RwStep(c)
        PROVE  InMutex(c) \/ Unlock(c) \/ UNCHANGED vars
    BY Zenon, <2>2 DEF Call, RwStep, MutexStep, RdLock, WrLock, UnlockRw, Downgrade, Upgrade, Pass,
                WakeTicket, Yielded, Leave
  <2>. QED
    BY Zenon, <2>1, <2>2 DEF RwNext, Next
<1>. QED
  BY <1>1, <1>2, PTL DEF RwSpec, Spec

(* Under the read-write lock too the mutex has one owner and one popper,   *)
(* no wake-up of it is lost, every wake-up finds a coroutine that waits,   *)
(* no record outlives its call and locked counts who wants the mutex.      *)
THEOREM RwMutexSafe ==
    RwSpec => [](TypeOK /\ OneOwner /\ OnePopper /\ TurnOwed /\ WakesExact /\ RecordsLive)
BY Zenon, RwUsesMutex, TypeCorrect, OneOwnerHolds, OnePopperHolds, TurnOwedHolds, WakesExactHolds,
   RecordsLiveHolds, PTL

(* owners counts the readers, or is -1 for the one writer.                 *)
THEOREM OwnersExactHolds == RwSpec => []OwnersExact
<1>1. RwInv => OwnersExact
  <2>1. Queued = Cos(tickets) /\ Readers = Rd(rw, Cos(tickets)) /\ Writers = Wr(rw, Cos(tickets))
    BY Zenon DEF Queued, Readers, Writers, Cos, Rd, Wr
  <2>. QED
    BY Zenon, <2>1 DEF RwInv, Core, Exact, OwnersExact
<1>. QED
  BY <1>1, RwInitInv, RwNextInv, PTL DEF RwSpec

(* The first in line waits for a holder that will wake it.                 *)
THEOREM TicketOwedHolds == RwSpec => []TicketOwed
<1>1. RwInv => TicketOwed
  <2>1. Queued = Cos(tickets) /\ Readers = Rd(rw, Cos(tickets)) /\ Writers = Wr(rw, Cos(tickets))
    BY Zenon DEF Queued, Readers, Writers, Cos, Rd, Wr
  <2>. QED
    BY Zenon, <2>1 DEF RwInv, Owed, TicketOwed
<1>. QED
  BY <1>1, RwInitInv, RwNextInv, PTL DEF RwSpec

(* Each coroutine that was granted the lock has exactly one wake-up.       *)
THEOREM GrantedOnceHolds == RwSpec => []GrantedOnce
<1>1. RwInv => GrantedOnce
  <2>. SUFFICES ASSUME RwInv, NEW c \in Coroutines, c \notin Queued, rw[c] \in {"rdwait", "wrwait"}
                PROVE  Cardinality({d \in Coroutines : c \in wakes[d]})
                         + (IF c \in granted THEN 1 ELSE 0) = 1
    BY Zenon DEF GrantedOnce
  <2>. DEFINE S == {d \in Coroutines : c \in wakes[d]}
  <2>1. Grants(rw, Cos(tickets), wakes, granted) /\ c \notin Cos(tickets)
    BY Zenon DEF RwInv, Core, Queued, Cos
  <2>2. CASE c \in granted
    <3>1. S = {}
      BY Zenon, <2>1, <2>2 DEF Grants
    <3>2. Cardinality(S) = 0
      BY Zenon, <3>1, FS_EmptySet
    <3>. QED
      BY <2>2, <3>2
  <2>3. CASE c \notin granted
    <3>1. PICK d \in Coroutines : c \in wakes[d]
      BY Zenon, <2>1, <2>3 DEF Grants
    <3>2. S = {d}
      BY <2>1, <3>1 DEF Grants
    <3>3. Cardinality(S) = 1
      BY Zenon, <3>2, FS_Singleton
    <3>. QED
      BY <2>3, <3>3
  <2>. QED
    BY Zenon, <2>2, <2>3
<1>. QED
  BY <1>1, RwInitInv, RwNextInv, PTL DEF RwSpec

-----------------------------------------------------------------------------
RwMode(x) ==
    IF x \in {"read", "upgrade"} THEN "read" ELSE IF x \in {"write", "downgrade"} THEN "write" ELSE "out"
RwModes == [c \in Coroutines |-> RwMode(rw[c])]

ReadM(c)      == RwSections!Read(c)
WriteM(c)     == RwSections!Write(c)
LeaveM(c)     == RwSections!Leave(c)
UpgradeM(c)   == RwSections!Upgrade(c)
DowngradeM(c) == RwSections!Downgrade(c)

(* The mode of each place.                                                 *)
LEMMA RwModeValues ==
    /\ RwMode("read") = "read" /\ RwMode("upgrade") = "read"
    /\ RwMode("write") = "write" /\ RwMode("downgrade") = "write"
    /\ \A x \in {"none", "rdlock", "wrlock", "rdunlock", "wrunlock", "pass", "rdwait", "wrwait"} :
          RwMode(x) = "out"
BY Zenon DEF RwMode

(* When c changes what it does, only its mode changes.                     *)
LEMMA RwModesStep ==
    ASSUME RwInv, NEW c \in Coroutines, NEW x, Become(c, x)
    PROVE  /\ RwModes' = [RwModes EXCEPT ![c] = RwMode(x)]
           /\ RwMode(x) = RwMode(rw[c]) => RwModes' = RwModes
<1>1. rw \in [Coroutines -> RwPlaces]
  BY Zenon DEF RwInv, Core
<1>2. \A d \in Coroutines : rw'[d] = IF d = c THEN x ELSE rw[d]
  BY Zenon, <1>1 DEF Become
<1>3. RwModes' = [d \in Coroutines |-> RwMode(rw'[d])]
  BY Zenon DEF RwModes, RwMode
<1>4. RwModes' = [d \in Coroutines |-> IF d = c THEN RwMode(x) ELSE RwModes[d]]
  BY Zenon, <1>2, <1>3 DEF RwModes
<1>5. RwModes' = [RwModes EXCEPT ![c] = RwMode(x)]
  BY Zenon, <1>4 DEF RwModes
<1>6. RwModes[c] = RwMode(rw[c]) /\ RwModes = [d \in Coroutines |-> RwModes[d]]
  BY Zenon DEF RwModes
<1>. QED
  BY Zenon, <1>4, <1>5, <1>6

(* The steps of the abstract lock, in terms of the modes.                  *)
LEMMA AbstractSteps ==
    ASSUME NEW c \in Coroutines
    PROVE  /\ RwModes[c] = "out" /\ (\A q \in Coroutines : RwModes[q] # "write")
                /\ RwModes' = [RwModes EXCEPT ![c] = "read"] => ReadM(c)
           /\ (\A q \in Coroutines : RwModes[q] = "out")
                /\ RwModes' = [RwModes EXCEPT ![c] = "write"] => WriteM(c)
           /\ RwModes[c] # "out" /\ RwModes' = [RwModes EXCEPT ![c] = "out"] => LeaveM(c)
           /\ RwModes[c] = "read" /\ (\A q \in Coroutines \ {c} : RwModes[q] = "out")
                /\ RwModes' = [RwModes EXCEPT ![c] = "write"] => UpgradeM(c)
           /\ RwModes[c] = "write" /\ RwModes' = [RwModes EXCEPT ![c] = "read"] => DowngradeM(c)
BY Zenon DEF ReadM, WriteM, LeaveM, UpgradeM, DowngradeM, RwModes, RwMode, RwSections!Read,
       RwSections!Write, RwSections!Leave, RwSections!Upgrade, RwSections!Downgrade, RwSections!Writer

(* A reader has no writer beside it, and the writer is alone.              *)
LEMMA ModesMean ==
    ASSUME RwInv
    PROVE  /\ owners >= 0 \/ Rd(rw, Cos(tickets)) # {} => \A q \in Coroutines : RwModes[q] # "write"
           /\ owners = 0 => \A q \in Coroutines : RwModes[q] = "out"
           /\ \A c \in Wr(rw, Cos(tickets)) : \A q \in Coroutines \ {c} : RwModes[q] = "out"
           /\ owners = 1 => \A c \in Rd(rw, Cos(tickets)) : \A q \in Coroutines \ {c} : RwModes[q] = "out"
<1>. DEFINE R == Rd(rw, Cos(tickets))
            W == Wr(rw, Cos(tickets))
<1>1. Exact(owners, R, W) /\ R \subseteq Coroutines /\ W \subseteq Coroutines
  BY Zenon DEF RwInv, Core, Rd, Wr
<1>2. /\ \A q \in Coroutines : RwModes[q] = "write" => q \in W
      /\ \A q \in Coroutines : RwModes[q] = "read" => q \in R
      /\ \A q \in Coroutines : RwModes[q] \in {"read", "write", "out"}
  BY Zenon DEF RwModes, RwMode, Rd, Wr
<1>. HIDE DEF R, W
<1>3. /\ owners \in Int /\ (owners >= 0 <=> W = {}) /\ (owners = 0 <=> R = {} /\ W = {})
      /\ (owners = 1 => \E x : R = {x}) /\ (W # {} => R = {} /\ \E x : W = {x})
  BY ZenonT(30), <1>1, ExactMeans
<1>. QED
  BY Zenon, <1>2, <1>3 DEF R, W

(* Every step is one of the abstract lock or a stutter.                    *)
LEMMA RwStepRefines == RwInv /\ [RwNext]_allVars => [RwSections!Next]_RwModes
<1>. SUFFICES ASSUME RwInv, [RwNext]_allVars, RwModes' # RwModes PROVE RwSections!Next
  BY Zenon
<1>0. \A c \in Coroutines : ReadM(c) \/ WriteM(c) \/ LeaveM(c) \/ UpgradeM(c) \/ DowngradeM(c)
                            => RwSections!Next
  BY Zenon DEF RwSections!Next, ReadM, WriteM, LeaveM, UpgradeM, DowngradeM
<1>1. rw' # rw
  BY Zenon DEF RwModes
<1>2. PICK c \in Coroutines : (Call(c) \/ RwStep(c)) /\ ~MutexStep(c) /\ ~WakeTicket(c)
  BY Zenon, <1>1 DEF RwNext, allVars, rwVars, RwStep, MutexStep, WakeTicket
<1>3. RwModes[c] = RwMode(rw[c]) /\ owners \in Int
  <2>1. owners \in Int
    BY ExactMeans DEF RwInv, Core, Rd, Wr
  <2>. QED
    BY Zenon, <2>1 DEF RwModes
<1>4. CASE Call(c)
  <2>1. PICK x \in {"rdlock", "wrlock", "rdunlock", "upgrade", "wrunlock", "downgrade"} :
            /\ Become(c, x)
            /\ \/ rw[c] = "none" /\ x \in {"rdlock", "wrlock"}
               \/ rw[c] = "read" /\ x \in {"rdunlock", "upgrade"}
               \/ rw[c] = "write" /\ x \in {"wrunlock", "downgrade"}
    BY Zenon, <1>4 DEF Call
  <2>2. RwMode(x) # RwMode(rw[c]) /\ RwModes' = [RwModes EXCEPT ![c] = RwMode(x)]
    BY Zenon, <2>1, RwModesStep
  <2>3. RwMode(x) = "out" /\ RwModes[c] # "out"
    BY Zenon, <2>1, <2>2, <1>3 DEF RwMode
  <2>. QED
    BY Zenon, <2>2, <2>3, <1>0, AbstractSteps
<1>5. CASE RdLock(c)
  <2>1. owners >= 0 /\ Become(c, "read") /\ rw[c] = "rdlock"
    <3>1. CASE owners = 0 \/ (owners > 0 /\ tickets = <<>>)
      <4>1. owners >= 0
        BY <1>3, <3>1
      <4>2. Become(c, "read") /\ rw[c] = "rdlock"
        BY Zenon, <1>5, <3>1 DEF RdLock
      <4>. QED
        BY Zenon, <4>1, <4>2
    <3>2. CASE ~(owners = 0 \/ (owners > 0 /\ tickets = <<>>))
      <4>1. Become(c, "rdwait") /\ rw[c] = "rdlock"
        BY Zenon, <1>5, <3>2 DEF RdLock
      <4>. QED
        BY <4>1, RwModesStep, RwModeValues
    <3>. QED
      BY Zenon, <3>1, <3>2
  <2>2. RwModes' = [RwModes EXCEPT ![c] = "read"] /\ RwModes[c] = "out"
    BY <2>1, <1>3, RwModesStep, RwModeValues
  <2>. QED
    BY Zenon, <2>1, <2>2, <1>0, ModesMean, AbstractSteps
<1>6. CASE WrLock(c)
  <2>1. owners = 0 /\ Become(c, "write")
    <3>1. CASE owners = 0
      BY Zenon, <1>6, <3>1 DEF WrLock
    <3>2. CASE owners # 0
      <4>1. Become(c, "wrwait") /\ rw[c] = "wrlock"
        BY Zenon, <1>6, <3>2 DEF WrLock
      <4>. QED
        BY <4>1, RwModesStep, RwModeValues
    <3>. QED
      BY Zenon, <3>1, <3>2
  <2>2. RwModes' = [RwModes EXCEPT ![c] = "write"]
    BY <2>1, RwModesStep, RwModeValues
  <2>. QED
    BY Zenon, <2>1, <2>2, <1>0, ModesMean, AbstractSteps
<1>7. CASE UnlockRw(c)
  <2>1. Become(c, "none") /\ rw[c] \in {"rdunlock", "wrunlock"}
    BY Zenon, <1>7 DEF UnlockRw
  <2>. QED
    BY <2>1, RwModesStep, RwModeValues
<1>8. CASE Downgrade(c)
  <2>1. Become(c, "read") /\ rw[c] = "downgrade"
    BY Zenon, <1>8 DEF Downgrade
  <2>2. RwModes' = [RwModes EXCEPT ![c] = "read"] /\ RwModes[c] = "write"
    BY <2>1, <1>3, RwModesStep, RwModeValues
  <2>. QED
    BY Zenon, <2>2, <1>0, AbstractSteps
<1>9. CASE Upgrade(c)
  <2>1. rw[c] = "upgrade" /\ RwModes[c] = "read" /\ c \in Rd(rw, Cos(tickets))
    BY Zenon, <1>9, <1>3 DEF Upgrade, RwMode, Rd
  <2>2. CASE owners = 1 /\ tickets = <<>>
    <3>0. Become(c, "write")
      BY Zenon, <1>9, <2>2 DEF Upgrade
    <3>1. RwModes' = [RwModes EXCEPT ![c] = "write"]
      BY <3>0, RwModesStep, RwModeValues
    <3>. QED
      BY Zenon, <2>1, <2>2, <3>1, <1>0, ModesMean, AbstractSteps
  <2>3. CASE ~(owners = 1 /\ tickets = <<>>)
    <3>0. Become(c, "wrwait")
      BY Zenon, <1>9, <2>3 DEF Upgrade
    <3>1. RwModes' = [RwModes EXCEPT ![c] = "out"]
      BY <3>0, RwModesStep, RwModeValues
    <3>. QED
      BY Zenon, <2>1, <3>1, <1>0, AbstractSteps
  <2>. QED
    BY Zenon, <2>2, <2>3
<1>10. CASE Pass(c)
  <2>1. Become(c, "read") /\ rw[c] = "pass" /\ c \in Rd(rw, Cos(tickets))
    BY Zenon, <1>10 DEF Pass, Rd
  <2>2. RwModes' = [RwModes EXCEPT ![c] = "read"] /\ RwModes[c] = "out"
    BY <2>1, <1>3, RwModesStep, RwModeValues
  <2>. QED
    BY Zenon, <2>1, <2>2, <1>0, ModesMean, AbstractSteps
<1>11. CASE Yielded(c)
  <2>1. CASE rw[c] = "rdwait"
    <3>1. Become(c, "pass")
      BY Zenon, <1>11, <2>1 DEF Yielded
    <3>. QED
      BY <2>1, <3>1, RwModesStep, RwModeValues
  <2>2. CASE rw[c] = "wrwait"
    <3>1. Become(c, "write") /\ c \in granted
      BY Zenon, <1>11, <2>2 DEF Yielded
    <3>2. c \in Wr(rw, Cos(tickets))
      BY Zenon, <2>2, <3>1 DEF RwInv, Core, Grants, Wr
    <3>3. RwModes' = [RwModes EXCEPT ![c] = "write"] /\ RwModes[c] = "out"
      BY <2>2, <3>1, <1>3, RwModesStep, RwModeValues
    <3>4. \A q \in Coroutines : RwModes[q] = "out"
      BY Zenon, <3>2, <3>3, ModesMean
    <3>. QED
      BY Zenon, <3>3, <3>4, <1>0, AbstractSteps
  <2>. QED
    BY Zenon, <1>11, <2>1, <2>2 DEF Yielded
<1>. QED
  BY Zenon, <1>2, <1>4, <1>5, <1>6, <1>7, <1>8, <1>9, <1>10, <1>11 DEF RwStep

(* The coroutine read-write lock implements ReadersWriter.                 *)
THEOREM ImplementsRwSectionsHolds == RwSpec => ImplementsRwSections
<1>1. RwInit => RwSections!Init
  BY Zenon DEF RwInit, RwSections!Init
<1>2. RwInv /\ [RwNext]_allVars
      => [RwSections!Next]_[c \in Coroutines |-> IF rw[c] \in {"read", "upgrade"} THEN "read"
                                                ELSE IF rw[c] \in {"write", "downgrade"} THEN "write"
                                                ELSE "out"]
  BY Zenon, RwStepRefines DEF RwModes, RwMode
<1>. QED
  BY <1>1, <1>2, RwInitInv, RwNextInv, PTL DEF RwSpec, ImplementsRwSections, RwSections!Spec
=============================================================================
