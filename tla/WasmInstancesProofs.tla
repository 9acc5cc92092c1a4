------------------------- MODULE WasmInstancesProofs -------------------------
(***************************************************************************)
(* Proofs about module WasmInstances, for any number of threads, blocks    *)
(* and instances.                                                          *)
(***************************************************************************)
EXTENDS WasmInstances, FiniteSetTheorems, WellFoundedInduction, NaturalsInduction, TLAPS

(* An instance that is alive runs, or was dropped, or was collected and    *)
(* not yet counted.                                                        *)
Balance ==
    /\ alive \in [Threads -> Nat] /\ running \in [Threads -> Nat]
    /\ dropped \in [Threads -> Nat] /\ collected \in [Threads -> Nat]
    /\ \A t \in Threads : alive[t] = running[t] + dropped[t] + collected[t]

(* remove_instance_running_local takes no more than there are.             *)
LEMMA ToRemoveBounds ==
    ASSUME Balance, NEW t \in Threads
    PROVE  ToRemove(t) \in Nat /\ ToRemove(t) <= running[t]
<1>1. running[t] \in Nat /\ alive[t] \in Nat
  BY Zenon DEF Balance
<1>2. running[t] \div 2 \in Nat /\ running[t] \div 2 <= running[t]
  BY <1>1
<1>. QED
  BY <1>1, <1>2 DEF ToRemove

(* At the limit: what is dropped no longer runs, what was collected is no  *)
(* longer alive.                                                           *)
LEMMA AtLimitBalance ==
    ASSUME Balance, NEW t \in Threads, NEW p \in Tbs, AtLimit(t, p)
    PROVE  Balance'
<1>1. PICK r \in Nat :
          /\ r <= running[t]
          /\ dropped' = [dropped EXCEPT ![t] = @ + r]
          /\ running' = [running EXCEPT ![t] = @ - r]
          /\ alive' = [alive EXCEPT ![t] = @ - collected[t]]
          /\ collected' = [collected EXCEPT ![t] = 0]
  BY Zenon, ToRemoveBounds DEF AtLimit
<1>. QED
  BY <1>1 DEF Balance

(* A new instance runs.                                                    *)
LEMMA AddBalance ==
    ASSUME Balance, NEW t \in Threads, NEW p \in Tbs, Add(t, p)
    PROVE  Balance'
<1>1. /\ running' = [running EXCEPT ![t] = @ + 1]
      /\ alive' = [alive EXCEPT ![t] = @ + 1]
      /\ UNCHANGED <<collected, dropped>>
  BY Zenon DEF Add
<1>. QED
  BY <1>1 DEF Balance

(* What the collector reports was dropped.                                 *)
LEMMA CollectBalance ==
    ASSUME Balance, NEW t \in Threads, Collect(t)
    PROVE  Balance'
<1>1. /\ dropped[t] \in Nat /\ dropped[t] > 0
      /\ dropped' = [dropped EXCEPT ![t] = @ - 1]
      /\ collected' = [collected EXCEPT ![t] = @ + 1]
      /\ UNCHANGED <<alive, running>>
  BY Zenon DEF Balance, Collect
<1>2. dropped' \in [Threads -> Nat] /\ collected' \in [Threads -> Nat]
  BY <1>1 DEF Balance
<1>3. ASSUME NEW u \in Threads
      PROVE  alive'[u] = running'[u] + dropped'[u] + collected'[u]
  <2>1. /\ alive[u] \in Nat /\ running[u] \in Nat
        /\ dropped[u] \in Nat /\ collected[u] \in Nat
        /\ alive[u] = running[u] + dropped[u] + collected[u]
    BY Zenon DEF Balance
  <2>2. CASE u = t
    <3>1. dropped'[u] = dropped[u] - 1 /\ collected'[u] = collected[u] + 1
      BY Zenon, <1>1, <2>2 DEF Balance
    <3>. QED
      BY <1>1, <2>1, <3>1
  <2>3. CASE u # t
    BY Zenon, <1>1, <2>1, <2>3 DEF Balance
  <2>. QED
    BY Zenon, <2>2, <2>3
<1>. QED
  BY Zenon, <1>1, <1>2, <1>3 DEF Balance

(* What was collected is counted once.                                     *)
LEMMA EndSleepBalance ==
    ASSUME Balance, NEW t \in Threads, EndSleep(t)
    PROVE  Balance'
<1>1. alive[t] - collected[t] = running[t] + dropped[t] /\ alive[t] - collected[t] \in Nat
  BY DEF Balance
<1>2. /\ alive' = [alive EXCEPT ![t] = alive[t] - collected[t]] /\ collected' = [collected EXCEPT ![t] = 0]
      /\ running' = running /\ dropped' = dropped
  BY Zenon DEF EndSleep
<1>3. alive' \in [Threads -> Nat] /\ collected' \in [Threads -> Nat]
  BY <1>1, <1>2 DEF Balance
<1>4. ASSUME NEW u \in Threads PROVE alive'[u] = running'[u] + dropped'[u] + collected'[u]
  <2>1. CASE u = t
    <3>1. alive'[t] = running[t] + dropped[t] /\ collected'[t] = 0
      BY Zenon, <1>1, <1>2 DEF Balance
    <3>2. running[t] \in Nat /\ dropped[t] \in Nat
      BY Zenon DEF Balance
    <3>. QED
      BY <1>2, <2>1, <3>1, <3>2
  <2>2. CASE u # t
    BY Zenon, <1>2, <2>2 DEF Balance
  <2>. QED
    BY Zenon, <2>1, <2>2
<1>. QED
  BY Zenon, <1>2, <1>3, <1>4 DEF Balance

(* Every step keeps the balance.                                           *)
LEMMA NextBalance == Balance /\ [Next]_vars => Balance'
<1>. SUFFICES ASSUME Balance, [Next]_vars PROVE Balance'
  BY Zenon
<1>1. CASE UNCHANGED <<alive, running, dropped, collected>>
  BY Zenon, <1>1 DEF Balance
<1>2. ASSUME NEW t \in Threads, NEW p \in Tbs,
             RunInstance(t, p) \/ Interpret(t, p) \/ AtLimit(t, p) \/ StartAdd(t, p) \/ Add(t, p)
      PROVE  Balance'
  BY Zenon, <1>1, <1>2, AtLimitBalance, AddBalance DEF RunInstance, Interpret, StartAdd, local
<1>3. ASSUME NEW t \in Threads, StartSleep(t) \/ Collect(t) \/ EndSleep(t)
      PROVE  Balance'
  BY Zenon, <1>1, <1>3, CollectBalance, EndSleepBalance DEF StartSleep, local
<1>4. ASSUME NEW p \in Tbs, Generate(p)
      PROVE  Balance'
  BY Zenon, <1>1, <1>4 DEF Generate, local
<1>. QED
  BY Zenon, <1>1, <1>2, <1>3, <1>4 DEF Next, vars, local

(* check_instance_garbage_collected never meets more collected instances   *)
(* than were removed: its error exit is not taken.                         *)
THEOREM CollectedWereDroppedHolds == Spec => []CollectedWereDropped
<1>1. Init => Balance
  BY DEF Init, Balance
<1>2. Balance => CollectedWereDropped
  BY DEF Balance, CollectedWereDropped
<1>. QED
  BY <1>1, <1>2, NextBalance, PTL DEF Spec

-----------------------------------------------------------------------------
(* The sum of the local counts, which folds over the threads in any order. *)
Pick(s) == CHOOSE x \in s : TRUE
IsSum(g, f, S) == g = [s \in SUBSET S |-> IF s = {} THEN 0 ELSE f[Pick(s)] + g[s \ {Pick(s)}]]
Totals(g, f, S) ==
    /\ SumFunction(f) = g[S] /\ g[{}] = 0
    /\ \A s \in SUBSET S : s # {} => g[s] = f[Pick(s)] + g[s \ {Pick(s)}]

(* A non-empty set of naturals has a least element.                        *)
LEMMA LeastNumber ==
    ASSUME NEW T \in SUBSET Nat, T # {}
    PROVE  \E x \in T : \A y \in T : x <= y
<1>. DEFINE R == OpToRel(<, Nat)
<1>1. \A x, y \in Nat : y < x => <<y, x>> \in R
  BY Zenon DEF OpToRel
<1>2. IsWellFoundedOn(R, Nat)
  BY Zenon, NatLessThanWellFounded
<1>. HIDE DEF R
<1>3. PICK x \in T : \A y \in T : <<y, x>> \notin R
  BY Zenon, <1>2, WFMin
<1>4. \A y \in T : ~(y < x)
  BY Zenon, <1>1, <1>3
<1>. QED
  BY <1>3, <1>4

(* Taking an element out of a finite set makes it smaller.                 *)
LEMMA PickSmaller ==
    ASSUME NEW S, IsFiniteSet(S), NEW s \in SUBSET S, s # {}
    PROVE  /\ Pick(s) \in s /\ s \ {Pick(s)} \in SUBSET S
           /\ Cardinality(s) \in Nat \ {0} /\ Cardinality(s \ {Pick(s)}) = Cardinality(s) - 1
<1>1. Pick(s) \in s
  BY Zenon DEF Pick
<1>2. IsFiniteSet(s)
  BY Zenon, FS_Subset
<1>. QED
  BY Zenon, <1>1, <1>2, FS_RemoveElement, FS_CardinalityType, FS_EmptySet

(* The fold is defined: by the size of the sets summed over.               *)
LEMMA SumExists ==
    ASSUME NEW S, IsFiniteSet(S), NEW f
    PROVE  \E g : IsSum(g, f, S)
<1>. DEFINE Dom(n) == {s \in SUBSET S : Cardinality(s) <= n}
            Upto(g, n) == g = [s \in Dom(n) |-> IF s = {} THEN 0 ELSE f[Pick(s)] + g[s \ {Pick(s)}]]
            Bad == {n \in Nat : ~\E g : Upto(g, n)}
<1>0. \A s \in SUBSET S : IsFiniteSet(s) /\ Cardinality(s) \in Nat /\ Cardinality(s) <= Cardinality(S)
  BY Zenon, FS_Subset, FS_CardinalityType
<1>1. Bad = {}
  <2>. SUFFICES ASSUME Bad # {} PROVE FALSE
    BY Zenon
  <2>1. PICK n \in Bad : \A m \in Bad : n <= m
    <3>. HIDE DEF Bad
    <3>1. Bad \in SUBSET Nat
      BY Zenon DEF Bad
    <3>. QED
      BY Zenon, <3>1, LeastNumber
  <2>2. n \in Nat
    BY Zenon
  <2>3. CASE n = 0
    <3>. DEFINE g == [s \in Dom(0) |-> 0]
    <3>1. \A s \in Dom(0) : s = {}
      <4>1. \A s \in Dom(0) : IsFiniteSet(s) /\ Cardinality(s) = 0
        BY <1>0
      <4>. QED
        BY Zenon, <4>1, FS_EmptySet
    <3>2. Upto(g, 0)
      BY Zenon, <3>1
    <3>. QED
      BY Zenon, <2>3, <3>2
  <2>4. CASE n # 0
    <3>1. n - 1 \in Nat /\ ~(n <= n - 1)
      BY <2>2, <2>4
    <3>2. n - 1 \notin Bad
      BY Zenon, <2>1, <3>1
    <3>3. PICK g : Upto(g, n - 1)
      BY Zenon, <3>1, <3>2
    <3>4. \A s \in Dom(n) : s # {} => Pick(s) \in s /\ s \ {Pick(s)} \in Dom(n - 1) /\ s \ {Pick(s)} \in Dom(n)
      BY <2>2, <3>1, PickSmaller
    <3>. DEFINE h == [s \in Dom(n) |-> IF s = {} THEN 0 ELSE f[Pick(s)] + g[s \ {Pick(s)}]]
    <3>5. \A s \in Dom(n - 1) : s \in Dom(n) /\ h[s] = g[s]
      <4>1. \A s \in Dom(n - 1) : s \in Dom(n)
        BY <1>0, <2>2, <3>1
      <4>2. \A s \in Dom(n - 1) : g[s] = IF s = {} THEN 0 ELSE f[Pick(s)] + g[s \ {Pick(s)}]
        BY Zenon, <3>3
      <4>. QED
        BY Zenon, <4>1, <4>2
    <3>6. \A s \in Dom(n) : h[s] = IF s = {} THEN 0 ELSE f[Pick(s)] + h[s \ {Pick(s)}]
      BY Zenon, <3>4, <3>5
    <3>7. DOMAIN h = Dom(n) /\ h = [s \in Dom(n) |-> h[s]]
      BY Zenon
    <3>. HIDE DEF h
    <3>8. Upto(h, n)
      BY Zenon, <3>6, <3>7
    <3>. QED
      BY Zenon, <3>8
  <2>. QED
    BY Zenon, <2>3, <2>4
<1>2. Dom(Cardinality(S)) = SUBSET S
  BY Zenon, <1>0
<1>3. Cardinality(S) \in Nat
  BY Zenon, <1>0
<1>4. PICK g : Upto(g, Cardinality(S))
  BY Zenon, <1>1, <1>3
<1>5. IsSum(g, f, S)
  BY Zenon, <1>2, <1>4 DEF IsSum
<1>. QED
  BY Zenon, <1>5

(* What the fold computes, one element after another.                      *)
LEMMA SumIs ==
    ASSUME NEW S, IsFiniteSet(S), NEW f, DOMAIN f = S
    PROVE  \E g : Totals(g, f, S)
<1>. DEFINE g == CHOOSE g : IsSum(g, f, S)
<1>1. IsSum(g, f, S)
  BY Zenon, SumExists
<1>2. SumFunction(f) = g[S]
  BY Zenon DEF SumFunction, SumFunctionOnSet, FoldFunctionOnSet, MapThenFoldSet, IsSum, Pick
<1>. HIDE DEF g
<1>3. \A s \in SUBSET S : g[s] = IF s = {} THEN 0 ELSE f[Pick(s)] + g[s \ {Pick(s)}]
  BY Zenon, <1>1 DEF IsSum
<1>4. {} \in SUBSET S
  BY Zenon
<1>5. Totals(g, f, S)
  BY Zenon, <1>2, <1>3, <1>4 DEF Totals
<1>. QED
  BY Zenon, <1>5

(* A change of one thread's count changes the sum by as much, and no count *)
(* exceeds the sum.                                                        *)
LEMMA SumChanges ==
    ASSUME NEW S, IsFiniteSet(S), NEW f \in [S -> Nat], NEW t \in S, NEW v \in Nat
    PROVE  /\ SumFunction(f) \in Nat /\ f[t] <= SumFunction(f)
           /\ SumFunction([f EXCEPT ![t] = v]) = SumFunction(f) - f[t] + v
<1>1. PICK e \in [S -> Nat] : e = [f EXCEPT ![t] = v]
  BY Zenon
<1>2. e[t] = v /\ (\A x \in S : x # t => e[x] = f[x])
  BY Zenon, <1>1
<1>a. DOMAIN f = S
  BY Zenon
<1>b. DOMAIN e = S
  BY Zenon, <1>1
<1>3. PICK g : Totals(g, f, S)
  BY Zenon, <1>a, SumIs
<1>4. PICK h : Totals(h, e, S)
  BY Zenon, <1>b, SumIs
<1>. DEFINE Good(s) == /\ g[s] \in Nat /\ (t \in s => f[t] <= g[s])
                       /\ h[s] = g[s] + (IF t \in s THEN v - f[t] ELSE 0)
            Bad == {Cardinality(s) : s \in {u \in SUBSET S : ~Good(u)}}
<1>5. \A s \in SUBSET S : Cardinality(s) \in Nat
  BY Zenon, FS_Subset, FS_CardinalityType
<1>6. Bad = {}
  <2>. SUFFICES ASSUME Bad # {} PROVE FALSE
    BY Zenon
  <2>1. PICK n \in Bad : \A m \in Bad : n <= m
    <3>1. Bad \in SUBSET Nat
      BY Zenon, <1>5
    <3>. HIDE DEF Bad
    <3>. QED
      BY Zenon, <3>1, LeastNumber
  <2>2. PICK s \in SUBSET S : ~Good(s) /\ Cardinality(s) = n
    BY Zenon, <2>1
  <2>3. s # {}
    <3>1. Good({})
      BY <1>3, <1>4 DEF Totals
    <3>. QED
      BY Zenon, <2>2, <3>1
  <2>4. PICK x \in S : x = Pick(s)
    BY Zenon, <2>3, PickSmaller
  <2>5. PICK u \in SUBSET S : u = s \ {x}
    BY Zenon
  <2>6. x \in s /\ Cardinality(u) = Cardinality(s) - 1 /\ Cardinality(s) \in Nat
    BY Zenon, <2>3, <2>4, <2>5, PickSmaller
  <2>7. Good(u)
    <3>1. ~(n <= Cardinality(u))
      BY <2>2, <2>6
    <3>2. ~Good(u) => Cardinality(u) \in Bad
      BY Zenon
    <3>. QED
      BY Zenon, <2>1, <3>1, <3>2
  <2>8. g[s] = f[x] + g[u] /\ h[s] = e[x] + h[u]
    BY Zenon, <1>3, <1>4, <2>3, <2>4, <2>5 DEF Totals
  <2>9. f[x] \in Nat /\ f[t] \in Nat
    BY Zenon
  <2>10. CASE x = t
    <3>1. t \in s /\ t \notin u
      BY Zenon, <2>5, <2>6, <2>10
    <3>2. g[u] \in Nat /\ h[u] = g[u]
      BY <2>7, <3>1
    <3>3. g[s] \in Nat /\ f[t] <= g[s] /\ h[s] = g[s] + (v - f[t])
      BY <1>2, <2>8, <2>9, <2>10, <3>2
    <3>. QED
      BY Zenon, <2>2, <3>1, <3>3
  <2>11. CASE x # t
    <3>1. t \in s <=> t \in u
      BY Zenon, <2>5, <2>11
    <3>2. e[x] = f[x]
      BY Zenon, <1>2, <2>11
    <3>3. g[s] \in Nat /\ (t \in s => f[t] <= g[s])
      BY <2>7, <2>8, <2>9, <3>1
    <3>4. h[s] = g[s] + (IF t \in s THEN v - f[t] ELSE 0)
      BY <2>7, <2>8, <2>9, <3>1, <3>2
    <3>. QED
      BY Zenon, <2>2, <3>3, <3>4
  <2>. QED
    BY Zenon, <2>10, <2>11
<1>7. Good(S)
  BY Zenon, <1>6
<1>8. /\ SumFunction(f) \in Nat /\ f[t] <= SumFunction(f)
      /\ SumFunction(e) = SumFunction(f) + (v - f[t])
  BY Zenon, <1>3, <1>4, <1>7 DEF Totals
<1>9. f[t] \in Nat
  BY Zenon
<1>. QED
  BY <1>1, <1>8, <1>9

(* The sum of no instances.                                                *)
LEMMA SumOfZeros ==
    ASSUME NEW S, IsFiniteSet(S)
    PROVE  SumFunction([x \in S |-> 0]) = 0
<1>1. PICK f \in [S -> Nat] : f = [x \in S |-> 0]
  BY Zenon
<1>a. DOMAIN f = S
  BY Zenon, <1>1
<1>2. PICK g : Totals(g, f, S)
  BY Zenon, <1>a, SumIs
<1>. DEFINE Bad == {Cardinality(s) : s \in {u \in SUBSET S : g[u] # 0}}
<1>3. \A s \in SUBSET S : Cardinality(s) \in Nat
  BY Zenon, FS_Subset, FS_CardinalityType
<1>4. Bad = {}
  <2>. SUFFICES ASSUME Bad # {} PROVE FALSE
    BY Zenon
  <2>1. PICK n \in Bad : \A m \in Bad : n <= m
    <3>1. Bad \in SUBSET Nat
      BY Zenon, <1>3
    <3>. HIDE DEF Bad
    <3>. QED
      BY Zenon, <3>1, LeastNumber
  <2>2. PICK s \in SUBSET S : g[s] # 0 /\ Cardinality(s) = n
    BY Zenon, <2>1
  <2>3. s # {}
    BY Zenon, <1>2, <2>2 DEF Totals
  <2>4. PICK x \in S : x = Pick(s)
    BY Zenon, <2>3, PickSmaller
  <2>5. PICK u \in SUBSET S : u = s \ {x}
    BY Zenon
  <2>6. Cardinality(u) = Cardinality(s) - 1 /\ Cardinality(s) \in Nat
    BY Zenon, <2>3, <2>4, <2>5, PickSmaller
  <2>7. g[u] = 0
    <3>1. ~(n <= Cardinality(u))
      BY <2>2, <2>6
    <3>2. g[u] # 0 => Cardinality(u) \in Bad
      BY Zenon
    <3>. QED
      BY Zenon, <2>1, <3>1, <3>2
  <2>8. g[s] = f[x] + g[u]
    BY Zenon, <1>2, <2>3, <2>4, <2>5 DEF Totals
  <2>. QED
    BY <1>1, <2>2, <2>7, <2>8
<1>5. g[S] = 0
  BY Zenon, <1>4
<1>. QED
  BY Zenon, <1>1, <1>2, <1>5 DEF Totals

-----------------------------------------------------------------------------
(* The global count is the sum of the local ones; a thread that passed the *)
(* test has fewer instances than the limit until it adds one.              *)
Adding == {t \in Threads : pc[t] \in Tbs}

SumInv ==
    /\ pc \in [Threads -> {"loop", "sleep"} \union Tbs]
    /\ aliveGlobal = SumFunction(alive)
    /\ aliveGlobal + Cardinality(Adding) <= MaxAlive + Cardinality(Threads) - 1
    /\ \A t \in Threads : pc[t] \in Tbs => alive[t] < MaxAlive

(* The number of threads between the test and the increment.               *)
LEMMA AddingFinite ==
    ASSUME NEW A \in SUBSET Threads
    PROVE  IsFiniteSet(A) /\ Cardinality(A) \in Nat /\ Cardinality(Threads) \in Nat
           /\ Cardinality(A) <= Cardinality(Threads)
BY Zenon, FS_Subset, FS_CardinalityType, InstancesAssumption

(* The sum is at least each of the counts.                                 *)
LEMMA SumFacts ==
    ASSUME Balance, SumInv, NEW t \in Threads
    PROVE  aliveGlobal \in Nat /\ alive[t] <= aliveGlobal
<1>1. alive \in [Threads -> Nat]
  BY Zenon DEF Balance
<1>2. 0 \in Nat
  BY Zenon
<1>. QED
  BY Zenon, <1>1, <1>2, SumChanges, InstancesAssumption DEF SumInv

(* A thread that takes what was collected off its count and the global one.*)
LEMMA CollectedOff ==
    ASSUME Balance, SumInv, NEW t \in Threads, Adding' = Adding,
           pc' \in [Threads -> {"loop", "sleep"} \union Tbs], pc'[t] \notin Tbs,
           \A u \in Threads : u # t => pc'[u] = pc[u],
           aliveGlobal' = aliveGlobal - collected[t], alive' = [alive EXCEPT ![t] = @ - collected[t]]
    PROVE  SumInv'
<1>0. alive \in [Threads -> Nat] /\ alive[t] \in Nat /\ collected[t] \in Nat /\ collected[t] <= alive[t]
  BY DEF Balance
<1>1. PICK v \in Nat : v = alive[t] - collected[t]
  BY <1>0
<1>2. alive' = [alive EXCEPT ![t] = v]
  BY Zenon, <1>1
<1>3. aliveGlobal' = SumFunction(alive')
  <2>1. SumFunction(alive) \in Nat /\ SumFunction([alive EXCEPT ![t] = v]) = SumFunction(alive) - alive[t] + v
    <3>1. IsFiniteSet(Threads)
      BY Zenon, InstancesAssumption
    <3>. QED
      BY <3>1, <1>0, SumChanges, ZenonT(30)
  <2>. QED
    BY <1>0, <1>1, <1>2, <2>1 DEF SumInv
<1>4. aliveGlobal' + Cardinality(Adding') <= MaxAlive + Cardinality(Threads) - 1
  <2>1. Cardinality(Adding) \in Nat /\ Cardinality(Threads) \in Nat
    BY Zenon, AddingFinite DEF Adding
  <2>2. MaxAlive \in Nat /\ aliveGlobal \in Nat
    BY Zenon, InstancesAssumption, SumFacts
  <2>. QED
    BY <1>0, <2>1, <2>2 DEF SumInv
<1>5. \A u \in Threads : pc'[u] \in Tbs => alive'[u] < MaxAlive
  BY Zenon, <1>0, <1>2 DEF SumInv
<1>. QED
  BY Zenon, <1>3, <1>4, <1>5 DEF SumInv

(* The steps that leave the counts alone and start no add.                 *)
LEMMA SumKept ==
    ASSUME Balance, SumInv, UNCHANGED <<aliveGlobal, alive>>,
           pc' \in [Threads -> {"loop", "sleep"} \union Tbs],
           \A t \in Threads : pc'[t] \in Tbs <=> pc[t] \in Tbs
    PROVE  SumInv'
<1>1. Adding' = Adding
  BY Zenon DEF Adding
<1>. QED
  BY Zenon, <1>1 DEF SumInv

(* The test of the limit: at most the other threads have passed it too.    *)
LEMMA StartAddSum ==
    ASSUME Balance, SumInv, NEW t \in Threads, NEW p \in Tbs, StartAdd(t, p)
    PROVE  SumInv'
<1>0. /\ pc \in [Threads -> {"loop", "sleep"} \union Tbs] /\ pc[t] = "loop" /\ pc' = [pc EXCEPT ![t] = p]
      /\ aliveGlobal < MaxAlive /\ aliveGlobal' = aliveGlobal /\ alive' = alive
  BY Zenon DEF SumInv, StartAdd, can_add_instance, local
<1>1. pc'[t] = p /\ pc' \in [Threads -> {"loop", "sleep"} \union Tbs] /\ \A u \in Threads : u # t => pc'[u] = pc[u]
  BY Zenon, <1>0
<1>2. /\ aliveGlobal \in Nat /\ MaxAlive \in Nat /\ alive[t] <= aliveGlobal /\ alive[t] \in Nat
  BY Zenon, SumFacts, InstancesAssumption DEF Balance
<1>3. Cardinality(Adding') <= Cardinality(Threads) /\ Cardinality(Adding') \in Nat /\ Cardinality(Threads) \in Nat
  <2>1. PICK A \in SUBSET Threads : A = Adding'
    BY Zenon DEF Adding
  <2>. QED
    BY Zenon, <2>1, AddingFinite
<1>4. aliveGlobal' + Cardinality(Adding') <= MaxAlive + Cardinality(Threads) - 1
  BY <1>0, <1>2, <1>3
<1>5. \A u \in Threads : pc'[u] \in Tbs => alive'[u] < MaxAlive
  BY <1>0, <1>1, <1>2 DEF SumInv
<1>. QED
  BY Zenon, <1>0, <1>1, <1>4, <1>5 DEF SumInv

(* The increments: the thread no longer adds.                              *)
LEMMA AddSum ==
    ASSUME Balance, SumInv, NEW t \in Threads, NEW p \in Tbs, Add(t, p)
    PROVE  SumInv'
<1>0. /\ pc \in [Threads -> {"loop", "sleep"} \union Tbs] /\ pc[t] = p /\ pc' = [pc EXCEPT ![t] = "loop"]
      /\ aliveGlobal' = aliveGlobal + 1 /\ alive' = [alive EXCEPT ![t] = alive[t] + 1]
      /\ alive \in [Threads -> Nat] /\ alive[t] \in Nat
  BY Zenon DEF SumInv, Add, Balance
<1>1. pc'[t] = "loop" /\ pc' \in [Threads -> {"loop", "sleep"} \union Tbs] /\ \A u \in Threads : u # t => pc'[u] = pc[u]
  BY Zenon, <1>0
<1>2. Adding' = Adding \ {t} /\ t \in Adding
  BY Zenon, <1>0, <1>1, InstancesAssumption DEF Adding
<1>3. IsFiniteSet(Adding) /\ Cardinality(Adding) \in Nat /\ Cardinality(Threads) \in Nat
  BY Zenon, AddingFinite DEF Adding
<1>4. Cardinality(Adding') = Cardinality(Adding) - 1
  BY Zenon, <1>2, <1>3, FS_RemoveElement
<1>5. aliveGlobal \in Nat /\ MaxAlive \in Nat
  BY Zenon, SumFacts, InstancesAssumption
<1>6. aliveGlobal' + Cardinality(Adding') <= MaxAlive + Cardinality(Threads) - 1
  <2>1. aliveGlobal + Cardinality(Adding) <= MaxAlive + Cardinality(Threads) - 1
    BY Zenon DEF SumInv
  <2>. QED
    BY <1>0, <1>3, <1>4, <1>5, <2>1
<1>7. aliveGlobal' = SumFunction(alive')
  <2>1. PICK v \in Nat : v = alive[t] + 1
    BY <1>0
  <2>2. IsFiniteSet(Threads)
    BY Zenon, InstancesAssumption
  <2>3. SumFunction([alive EXCEPT ![t] = v]) = SumFunction(alive) - alive[t] + v
    BY Zenon, <1>0, <2>2, SumChanges
  <2>. QED
    BY <1>0, <1>5, <2>1, <2>3 DEF SumInv
<1>8. \A u \in Threads : pc'[u] \in Tbs => alive'[u] < MaxAlive
  BY Zenon, <1>0, <1>1, InstancesAssumption DEF SumInv
<1>. QED
  BY Zenon, <1>1, <1>6, <1>7, <1>8 DEF SumInv

(* Every step keeps the sum.                                               *)
LEMMA NextSum == Balance /\ SumInv /\ [Next]_vars => SumInv'
<1>. SUFFICES ASSUME Balance, SumInv, [Next]_vars PROVE SumInv'
  BY Zenon
<1>0. pc \in [Threads -> {"loop", "sleep"} \union Tbs] /\ "loop" \notin Tbs /\ "sleep" \notin Tbs
  BY Zenon, InstancesAssumption DEF SumInv
<1>1. CASE UNCHANGED <<aliveGlobal, alive, pc>>
  BY Zenon, <1>0, <1>1, SumKept
<1>2. ASSUME NEW t \in Threads, NEW p \in Tbs, AtLimit(t, p)
      PROVE  SumInv'
  <2>1. /\ pc' = pc /\ pc[t] = "loop" /\ aliveGlobal' = aliveGlobal - collected[t]
        /\ alive' = [alive EXCEPT ![t] = @ - collected[t]]
    BY Zenon, <1>2 DEF AtLimit
  <2>2. Adding' = Adding
    BY Zenon, <2>1 DEF Adding
  <2>. QED
    BY Zenon, <1>0, <2>1, <2>2, CollectedOff
<1>3. ASSUME NEW t \in Threads, EndSleep(t)
      PROVE  SumInv'
  <2>1. /\ pc' = [pc EXCEPT ![t] = "loop"] /\ pc[t] = "sleep" /\ aliveGlobal' = aliveGlobal - collected[t]
        /\ alive' = [alive EXCEPT ![t] = @ - collected[t]]
    BY Zenon, <1>3 DEF EndSleep
  <2>2. /\ pc'[t] = "loop" /\ \A u \in Threads : u # t => pc'[u] = pc[u]
        /\ pc' \in [Threads -> {"loop", "sleep"} \union Tbs]
    BY Zenon, <1>0, <2>1
  <2>3. Adding' = Adding
    BY Zenon, <1>0, <2>1, <2>2 DEF Adding
  <2>. QED
    BY Zenon, <1>0, <2>1, <2>2, <2>3, CollectedOff
<1>4. ASSUME NEW t \in Threads, StartSleep(t)
      PROVE  SumInv'
  <2>1. pc' = [pc EXCEPT ![t] = "sleep"] /\ pc[t] = "loop" /\ UNCHANGED <<aliveGlobal, alive>>
    BY Zenon, <1>4 DEF StartSleep, local
  <2>2. /\ pc'[t] = "sleep" /\ \A u \in Threads : u # t => pc'[u] = pc[u]
        /\ pc' \in [Threads -> {"loop", "sleep"} \union Tbs]
    BY Zenon, <1>0, <2>1
  <2>. QED
    BY Zenon, <1>0, <2>1, <2>2, SumKept
<1>5. ASSUME NEW t \in Threads, NEW p \in Tbs, RunInstance(t, p) \/ Interpret(t, p)
      PROVE  SumInv'
  BY Zenon, <1>1, <1>5 DEF RunInstance, Interpret, local
<1>6. ASSUME NEW t \in Threads, Collect(t)
      PROVE  SumInv'
  BY Zenon, <1>1, <1>6 DEF Collect
<1>7. ASSUME NEW p \in Tbs, Generate(p)
      PROVE  SumInv'
  BY Zenon, <1>1, <1>7 DEF Generate, local
<1>. QED
  BY Zenon, <1>1, <1>2, <1>3, <1>4, <1>5, <1>6, <1>7, StartAddSum, AddSum DEF Next, vars, local

(* No instance exists at first.                                            *)
LEMMA InitSum == Init => Balance /\ SumInv
<1>. SUFFICES ASSUME Init PROVE Balance /\ SumInv
  BY Zenon
<1>1. Balance
  BY DEF Init, Balance
<1>2. aliveGlobal = SumFunction(alive)
  BY Zenon, SumOfZeros, InstancesAssumption DEF Init
<1>3. Adding = {}
  BY Zenon, InstancesAssumption DEF Init, Adding
<1>4. Cardinality(Adding) = 0 /\ Cardinality(Threads) \in Nat
  BY Zenon, <1>3, FS_EmptySet, FS_CardinalityType, InstancesAssumption
<1>5. aliveGlobal + Cardinality(Adding) <= MaxAlive + Cardinality(Threads) - 1
  BY <1>4, InstancesAssumption DEF Init
<1>. QED
  BY Zenon, <1>1, <1>2, <1>5, InstancesAssumption DEF Init, SumInv

(* instance_alive_global is the sum of the threads' counts, and passes     *)
(* MAX_INSTANCE_ALIVE by fewer instances than there are threads.           *)
THEOREM AliveWithinLimitHolds == Spec => []AliveWithinLimit
<1>1. Balance /\ SumInv => AliveWithinLimit
  <2>. SUFFICES ASSUME Balance, SumInv PROVE AliveWithinLimit
    BY Zenon
  <2>1. Cardinality(Adding) \in Nat /\ Cardinality(Threads) \in Nat /\ MaxAlive \in Nat
    BY Zenon, AddingFinite, InstancesAssumption DEF Adding
  <2>2. aliveGlobal \in Nat
    <3>1. CASE Threads = {}
      <4>1. alive = [t \in Threads |-> 0]
        BY Zenon, <3>1 DEF Balance
      <4>. QED
        BY <4>1, SumOfZeros, InstancesAssumption DEF SumInv
    <3>2. CASE Threads # {}
      BY Zenon, <3>2, SumFacts
    <3>. QED
      BY Zenon, <3>1, <3>2
  <2>. QED
    BY <2>1, <2>2 DEF SumInv, AliveWithinLimit
<1>. QED
  BY <1>1, InitSum, NextBalance, NextSum, PTL DEF Spec

-----------------------------------------------------------------------------
(* How far a slot is from the oldest one of the ring.                      *)
Pos(b, s) == IF s >= b THEN s - b ELSE (s - b) + MaxAlive

Live(t, s) == ring[t][s].tb # NULL

Shapes ==
    /\ ring \in [Threads -> [Slots -> [tb : Tbs \union {NULL}, fidx : Indices \union {0}]]]
    /\ begin \in [Threads -> Slots] /\ end \in [Threads -> Slots]
    /\ export \in [Threads -> [Tbs -> Slots \union {-1}]]
    /\ gen \in [Tbs -> Nat]
    /\ func \in [Threads -> [Indices -> (Tbs \X Nat) \union {NoCode}]]

Ringed ==
    \A t \in Threads :
        /\ running[t] <= MaxAlive
        /\ end[t] = (begin[t] + running[t]) % MaxAlive
        /\ \A s \in Slots : Live(t, s) <=> Pos(begin[t], s) < running[t]

(* The slots that run and the functions in wasmTable go together, one to   *)
(* one.                                                                    *)
OneToOne ==
    \A t \in Threads :
        /\ \A s \in Slots : Live(t, s) => ring[t][s].fidx \in Indices /\ func[t][ring[t][s].fidx] # NoCode
        /\ \A s, r \in Slots : Live(t, s) /\ Live(t, r) /\ ring[t][s].fidx = ring[t][r].fidx => s = r
        /\ \A i \in Indices : func[t][i] # NoCode => \E s \in Slots : Live(t, s) /\ ring[t][s].fidx = i

(* What a block's vector leads to, unless it is stale, is the block's code.*)
Current ==
    \A t \in Threads, p \in Tbs :
        export[t][p] # -1 /\ ring[t][export[t][p]].tb = p
          => func[t][ring[t][export[t][p]].fidx] = Code(p)

RingInv == Shapes /\ Ringed /\ OneToOne /\ Current

(* An index of the ring wraps once at most.                                *)
LEMMA Wrapped ==
    ASSUME NEW b \in Slots, NEW i \in 0 .. MaxAlive
    PROVE  /\ (b + i) % MaxAlive \in Slots
           /\ (b + i) % MaxAlive = IF b + i < MaxAlive THEN b + i ELSE (b + i) - MaxAlive
<1>1. MaxAlive \in Nat /\ MaxAlive > 0 /\ b \in 0 .. MaxAlive - 1
  BY InstancesAssumption DEF Slots
<1>2. PICK x \in Nat : x = b + i
  BY <1>1
<1>3. x < MaxAlive => x % MaxAlive = x
  BY <1>1
<1>4. MaxAlive <= x /\ x < MaxAlive + MaxAlive => x % MaxAlive = x - MaxAlive
  BY <1>1
<1>. QED
  BY <1>1, <1>2, <1>3, <1>4 DEF Slots

(* Every slot has its distance.                                            *)
LEMMA PosIs ==
    ASSUME NEW b \in Slots, NEW s \in Slots
    PROVE  /\ Pos(b, s) \in 0 .. MaxAlive - 1
           /\ \A i \in 0 .. MaxAlive - 1 : Pos(b, s) = i <=> s = (b + i) % MaxAlive
<1>1. MaxAlive \in Nat /\ MaxAlive > 0 /\ b \in 0 .. MaxAlive - 1 /\ s \in 0 .. MaxAlive - 1
  BY InstancesAssumption DEF Slots
<1>2. Pos(b, s) \in 0 .. MaxAlive - 1
  BY <1>1 DEF Pos
<1>3. ASSUME NEW i \in 0 .. MaxAlive - 1 PROVE Pos(b, s) = i <=> s = (b + i) % MaxAlive
  <2>1. (b + i) % MaxAlive = IF b + i < MaxAlive THEN b + i ELSE (b + i) - MaxAlive
    BY <1>1, Wrapped
  <2>. QED
    BY <1>1, <2>1 DEF Pos
<1>. QED
  BY Zenon, <1>2, <1>3

(* The first n slots from b on.                                            *)
LEMMA FirstSlots ==
    ASSUME NEW b \in Slots, NEW s \in Slots, NEW n \in 0 .. MaxAlive
    PROVE  s \in {(b + i) % MaxAlive : i \in 0 .. n - 1} <=> Pos(b, s) < n
<1>1. MaxAlive \in Nat /\ MaxAlive > 0
  BY InstancesAssumption
<1>2. Pos(b, s) \in 0 .. MaxAlive - 1 /\ s = (b + Pos(b, s)) % MaxAlive
  BY Zenon, PosIs
<1>3. \A i \in 0 .. n - 1 : i \in 0 .. MaxAlive - 1
  BY <1>1
<1>4. ASSUME NEW i \in 0 .. n - 1, s = (b + i) % MaxAlive PROVE Pos(b, s) < n
  <2>1. Pos(b, s) = i
    BY Zenon, <1>3, <1>4, PosIs
  <2>. QED
    BY <2>1, <1>1
<1>5. Pos(b, s) < n => Pos(b, s) \in 0 .. n - 1
  BY <1>1, <1>2
<1>. QED
  BY Zenon, <1>2, <1>4, <1>5

(* Moving the start of the ring forward.                                   *)
LEMMA Moved ==
    ASSUME NEW b \in Slots, NEW n \in 0 .. MaxAlive, NEW r \in 0 .. n
    PROVE  LET c == (b + r) % MaxAlive
           IN  /\ c \in Slots
               /\ (c + (n - r)) % MaxAlive = (b + n) % MaxAlive
               /\ \A s \in Slots : Pos(c, s) < n - r <=> Pos(b, s) < n /\ ~(Pos(b, s) < r)
<1>1. MaxAlive \in Nat /\ MaxAlive > 0 /\ b \in 0 .. MaxAlive - 1 /\ r \in 0 .. MaxAlive /\ n - r \in 0 .. MaxAlive
  BY InstancesAssumption DEF Slots
<1>2. PICK c \in Slots : c = (b + r) % MaxAlive
  BY Zenon, <1>1, Wrapped
<1>3. c = IF b + r < MaxAlive THEN b + r ELSE (b + r) - MaxAlive
  BY Zenon, <1>1, <1>2, Wrapped
<1>4. (c + (n - r)) % MaxAlive = IF c + (n - r) < MaxAlive THEN c + (n - r) ELSE (c + (n - r)) - MaxAlive
  BY Zenon, <1>1, Wrapped
<1>5. (b + n) % MaxAlive = IF b + n < MaxAlive THEN b + n ELSE (b + n) - MaxAlive
  BY Zenon, <1>1, Wrapped
<1>6. c \in 0 .. MaxAlive - 1
  BY Zenon DEF Slots
<1>7. (c + (n - r)) % MaxAlive = (b + n) % MaxAlive
  BY <1>1, <1>3, <1>4, <1>5, <1>6
<1>8. ASSUME NEW s \in Slots PROVE Pos(c, s) < n - r <=> Pos(b, s) < n /\ ~(Pos(b, s) < r)
  <2>1. s \in 0 .. MaxAlive - 1
    BY Zenon DEF Slots
  <2>. QED
    BY <1>1, <1>3, <1>6, <2>1 DEF Pos
<1>. QED
  BY Zenon, <1>2, <1>7, <1>8

(* RingIsRunning as the slots' distances.                                  *)
LEMMA RingedMeans ==
    ASSUME Balance, Shapes
    PROVE  Ringed <=> RingIsRunning
<1>. SUFFICES ASSUME NEW t \in Threads, running[t] <= MaxAlive
              PROVE  (\A s \in Slots : Live(t, s) <=> Pos(begin[t], s) < running[t])
                     <=> {s \in Slots : ring[t][s].tb # NULL}
                           = {(begin[t] + i) % MaxAlive : i \in 0 .. running[t] - 1}
  BY Zenon DEF Ringed, RingIsRunning
<1>1. begin[t] \in Slots /\ running[t] \in 0 .. MaxAlive /\ MaxAlive \in Nat
  BY InstancesAssumption DEF Shapes, Balance
<1>. DEFINE First == {(begin[t] + i) % MaxAlive : i \in 0 .. running[t] - 1}
<1>2. \A s \in Slots : s \in First <=> Pos(begin[t], s) < running[t]
  BY Zenon, <1>1, FirstSlots
<1>3. \A i \in 0 .. running[t] - 1 : (begin[t] + i) % MaxAlive \in Slots
  <2>1. \A i \in 0 .. running[t] - 1 : i \in 0 .. MaxAlive
    BY <1>1
  <2>. QED
    BY Zenon, <1>1, <2>1, Wrapped
<1>4. First \subseteq Slots
  BY Zenon, <1>3
<1>. HIDE DEF First
<1>5. (\A s \in Slots : Live(t, s) <=> Pos(begin[t], s) < running[t])
      <=> {s \in Slots : ring[t][s].tb # NULL} = First
  BY Zenon, <1>2, <1>4 DEF Live
<1>. QED
  BY Zenon, <1>5 DEF First

(* wasmTable has room: there are more indices than slots.                  *)
LEMMA FreeIndex ==
    ASSUME OneToOne, NEW t \in Threads
    PROVE  \E i \in Indices : func[t][i] = NoCode
<1>. SUFFICES ASSUME \A i \in Indices : func[t][i] # NoCode PROVE FALSE
  BY Zenon
<1>1. \A i \in Indices : \E s \in Slots : Live(t, s) /\ ring[t][s].fidx = i
  BY Zenon DEF OneToOne
<1>. DEFINE At == [i \in Indices |-> CHOOSE s \in Slots : Live(t, s) /\ ring[t][s].fidx = i]
<1>2. \A i \in Indices : At[i] \in Slots /\ ring[t][At[i]].fidx = i
  BY Zenon, <1>1
<1>3. At \in [Indices -> Slots]
  BY Zenon, <1>2
<1>. HIDE DEF At
<1>4. MaxAlive \in Nat \ {0}
  BY Zenon, InstancesAssumption
<1>5. IsFiniteSet(Slots) /\ Cardinality(Slots) = MaxAlive
  BY <1>4, FS_Interval DEF Slots
<1>6. IsFiniteSet(Indices) /\ Cardinality(Indices) = MaxAlive + 1
  BY <1>4, FS_Interval DEF Indices
<1>7. Cardinality(Slots) < Cardinality(Indices)
  BY <1>4, <1>5, <1>6
<1>8. \E i, j \in Indices : i # j /\ At[i] = At[j]
  BY Zenon, <1>3, <1>5, <1>6, <1>7, FS_PigeonHole
<1>. QED
  BY Zenon, <1>2, <1>8

(* A step that changes no slot and at most forgets one.                    *)
LEMMA ForgetKeeps ==
    ASSUME RingInv, UNCHANGED <<running, ring, begin, end, gen, func>>,
           export' = export \/ \E t \in Threads, p \in Tbs : export' = [export EXCEPT ![t][p] = -1]
    PROVE  RingInv'
<1>0. export \in [Threads -> [Tbs -> Slots \union {-1}]]
  BY Zenon DEF RingInv, Shapes
<1>1. /\ export' \in [Threads -> [Tbs -> Slots \union {-1}]]
      /\ \A u \in Threads, q \in Tbs : export'[u][q] = export[u][q] \/ export'[u][q] = -1
  <2>1. CASE export' = export
    BY Zenon, <1>0, <2>1
  <2>2. ASSUME NEW t \in Threads, NEW p \in Tbs, export' = [export EXCEPT ![t][p] = -1]
        PROVE  /\ export' \in [Threads -> [Tbs -> Slots \union {-1}]]
               /\ \A u \in Threads, q \in Tbs : export'[u][q] = export[u][q] \/ export'[u][q] = -1
    BY Zenon, <1>0, <2>2
  <2>. QED
    BY Zenon, <2>1, <2>2
<1>2. Shapes'
  BY Zenon, <1>1 DEF RingInv, Shapes
<1>3. Ringed'
  BY Zenon DEF RingInv, Ringed, Live
<1>4. OneToOne'
  BY Zenon DEF RingInv, OneToOne, Live
<1>5. Current'
  BY Zenon, <1>1 DEF RingInv, Current, Code
<1>. QED
  BY Zenon, <1>2, <1>3, <1>4, <1>5 DEF RingInv

(* At the limit the slots removed are the oldest that run, and the         *)
(* functions that go are theirs and no other slot's.                       *)
LEMMA AtLimitRing ==
    ASSUME Balance, RingInv, NEW t \in Threads, NEW p \in Tbs, AtLimit(t, p)
    PROVE  RingInv'
<1>0. /\ ring \in [Threads -> [Slots -> [tb : Tbs \union {NULL}, fidx : Indices \union {0}]]]
      /\ begin \in [Threads -> Slots] /\ func \in [Threads -> [Indices -> (Tbs \X Nat) \union {NoCode}]]
      /\ export \in [Threads -> [Tbs -> Slots \union {-1}]] /\ running \in [Threads -> Nat]
      /\ MaxAlive \in Nat /\ running[t] \in Nat /\ running[t] <= MaxAlive /\ begin[t] \in Slots
  BY Zenon, InstancesAssumption DEF RingInv, Shapes, Balance, Ringed
<1>1. PICK r \in 0 .. running[t] : r = ToRemove(t)
  BY <1>0, ToRemoveBounds
<1>. DEFINE Gone == {(begin[t] + i) % MaxAlive : i \in 0 .. r - 1}
<1>2. /\ ring' = [ring EXCEPT ![t] = [s \in Slots |-> IF s \in Gone THEN [ring[t][s] EXCEPT !.tb = NULL] ELSE ring[t][s]]]
      /\ func' = [func EXCEPT ![t] = [f \in Indices |->
                     IF \E s \in Gone : ring[t][s].fidx = f THEN NoCode ELSE func[t][f]]]
      /\ begin' = [begin EXCEPT ![t] = (begin[t] + r) % MaxAlive]
      /\ running' = [running EXCEPT ![t] = running[t] - r]
      /\ end' = end /\ gen' = gen
  BY Zenon, <1>1 DEF AtLimit, Removed
<1>3. \A s \in Slots : s \in Gone <=> Pos(begin[t], s) < r
  <2>1. r \in 0 .. MaxAlive
    BY <1>0
  <2>. QED
    BY Zenon, <1>0, <2>1, FirstSlots
<1>4. Gone \subseteq Slots
  <2>1. \A i \in 0 .. r - 1 : i \in 0 .. MaxAlive
    BY <1>0
  <2>. QED
    BY <1>0, <2>1, Wrapped
<1>. HIDE DEF Gone
<1>5. /\ export' \in [Threads -> [Tbs -> Slots \union {-1}]]
      /\ \A u \in Threads, q \in Tbs : export'[u][q] = export[u][q] \/ export'[u][q] = -1
  <2>1. export' = export \/ export' = [export EXCEPT ![t][p] = -1]
    BY Zenon DEF AtLimit, Forget
  <2>2. CASE export' = export
    BY Zenon, <1>0, <2>2
  <2>3. CASE export' = [export EXCEPT ![t][p] = -1]
    BY Zenon, <1>0, <2>3
  <2>. QED
    BY Zenon, <2>1, <2>2, <2>3
<1>6. /\ \A s \in Slots : ring'[t][s] = IF s \in Gone THEN [ring[t][s] EXCEPT !.tb = NULL] ELSE ring[t][s]
      /\ \A f \in Indices : func'[t][f] = IF \E s \in Gone : ring[t][s].fidx = f THEN NoCode ELSE func[t][f]
      /\ begin'[t] = (begin[t] + r) % MaxAlive /\ running'[t] = running[t] - r
  BY Zenon, <1>0, <1>2
<1>7. \A u \in Threads : u # t => /\ ring'[u] = ring[u] /\ func'[u] = func[u]
                                   /\ begin'[u] = begin[u] /\ running'[u] = running[u]
  BY Zenon, <1>0, <1>2
<1>8. \A s \in Slots : /\ ring[t][s] \in [tb : Tbs \union {NULL}, fidx : Indices \union {0}]
                        /\ ring'[t][s].fidx = ring[t][s].fidx
                        /\ ring'[t][s].tb = IF s \in Gone THEN NULL ELSE ring[t][s].tb
  <2>1. \A s \in Slots : ring[t][s] \in [tb : Tbs \union {NULL}, fidx : Indices \union {0}]
    BY <1>0
  <2>. QED
    BY <1>6, <2>1, ZenonT(30)
<1>9. \A s \in Slots : (Live(t, s)' <=> Live(t, s) /\ s \notin Gone) /\ (s \in Gone => Live(t, s))
  <2>1. \A s \in Slots : s \in Gone => Live(t, s)
    <3>1. \A s \in Slots : Pos(begin[t], s) \in Int
      BY <1>0, PosIs
    <3>. QED
      BY <1>0, <1>3, <3>1 DEF RingInv, Ringed
  <2>. QED
    BY Zenon, <1>8, <2>1 DEF Live
<1>10. \A u \in Threads : u # t => \A s \in Slots : Live(u, s)' <=> Live(u, s)
  BY Zenon, <1>7 DEF Live
<1>11. LET c == (begin[t] + r) % MaxAlive
       IN  /\ c \in Slots
           /\ (c + (running[t] - r)) % MaxAlive = (begin[t] + running[t]) % MaxAlive
           /\ \A s \in Slots : Pos(c, s) < running[t] - r
                               <=> Pos(begin[t], s) < running[t] /\ ~(Pos(begin[t], s) < r)
  <2>1. running[t] \in 0 .. MaxAlive
    BY <1>0
  <2>. QED
    BY Zenon, <1>0, <2>1, Moved
<1>12. Shapes'
  <2>1. ring' \in [Threads -> [Slots -> [tb : Tbs \union {NULL}, fidx : Indices \union {0}]]]
    <3>1. \A s \in Slots : (IF s \in Gone THEN [ring[t][s] EXCEPT !.tb = NULL] ELSE ring[t][s])
                              \in [tb : Tbs \union {NULL}, fidx : Indices \union {0}]
      BY Zenon, <1>8
    <3>. QED
      BY Zenon, <1>0, <1>2, <3>1
  <2>2. func' \in [Threads -> [Indices -> (Tbs \X Nat) \union {NoCode}]]
    BY Zenon, <1>0, <1>2
  <2>3. begin' \in [Threads -> Slots]
    BY Zenon, <1>0, <1>2, <1>11
  <2>. QED
    BY Zenon, <1>2, <1>5, <2>1, <2>2, <2>3 DEF RingInv, Shapes
<1>13. Ringed'
  <2>. SUFFICES ASSUME NEW u \in Threads
                PROVE  /\ running'[u] <= MaxAlive /\ end'[u] = (begin'[u] + running'[u]) % MaxAlive
                       /\ \A s \in Slots : Live(u, s)' <=> Pos(begin'[u], s) < running'[u]
    BY Zenon DEF Ringed, Live, Pos
  <2>1. CASE u # t
    BY Zenon, <1>2, <1>7, <1>10, <2>1 DEF RingInv, Ringed
  <2>2. CASE u = t
    <3>1. running'[t] <= MaxAlive
      BY <1>0, <1>6
    <3>2. end'[t] = (begin'[t] + running'[t]) % MaxAlive
      BY Zenon, <1>2, <1>6, <1>11 DEF RingInv, Ringed
    <3>3. \A s \in Slots : Live(t, s)' <=> Pos(begin'[t], s) < running'[t]
      BY <1>3, <1>6, <1>9, <1>11 DEF RingInv, Ringed
    <3>. QED
      BY Zenon, <2>2, <3>1, <3>2, <3>3
  <2>. QED
    BY Zenon, <2>1, <2>2
<1>14. ASSUME NEW s \in Slots, Live(t, s), s \notin Gone
       PROVE  /\ ring[t][s].fidx \in Indices /\ func'[t][ring[t][s].fidx] = func[t][ring[t][s].fidx]
              /\ func[t][ring[t][s].fidx] # NoCode
  <2>1. ring[t][s].fidx \in Indices /\ func[t][ring[t][s].fidx] # NoCode
    BY Zenon, <1>14 DEF RingInv, OneToOne
  <2>2. \A d \in Gone : ring[t][d].fidx # ring[t][s].fidx
    BY Zenon, <1>4, <1>9, <1>14 DEF RingInv, OneToOne
  <2>. QED
    BY Zenon, <1>6, <2>1, <2>2
<1>15. OneToOne'
  <2>1. ASSUME NEW s \in Slots, Live(t, s)'
        PROVE  ring'[t][s].fidx \in Indices /\ func'[t][ring'[t][s].fidx] # NoCode
    BY Zenon, <1>8, <1>9, <1>14, <2>1
  <2>2. \A s, q \in Slots : Live(t, s)' /\ Live(t, q)' /\ ring'[t][s].fidx = ring'[t][q].fidx => s = q
    BY <1>8, <1>9 DEF RingInv, OneToOne
  <2>3. ASSUME NEW i \in Indices, func'[t][i] # NoCode
        PROVE  \E s \in Slots : Live(t, s)' /\ ring'[t][s].fidx = i
    <3>1. func[t][i] # NoCode /\ \A d \in Gone : ring[t][d].fidx # i
      BY Zenon, <1>6, <2>3
    <3>2. PICK s \in Slots : Live(t, s) /\ ring[t][s].fidx = i
      BY Zenon, <3>1 DEF RingInv, OneToOne
    <3>. QED
      BY Zenon, <1>8, <1>9, <3>1, <3>2
  <2>4. ASSUME NEW u \in Threads, u # t
        PROVE  /\ \A s \in Slots : Live(u, s)' => ring'[u][s].fidx \in Indices /\ func'[u][ring'[u][s].fidx] # NoCode
               /\ \A s, q \in Slots : Live(u, s)' /\ Live(u, q)' /\ ring'[u][s].fidx = ring'[u][q].fidx => s = q
               /\ \A i \in Indices : func'[u][i] # NoCode => \E s \in Slots : Live(u, s)' /\ ring'[u][s].fidx = i
    BY <1>7, <1>10, <2>4 DEF RingInv, OneToOne
  <2>. QED
    BY <2>1, <2>2, <2>3, <2>4 DEF OneToOne, NoCode
<1>16. Current'
  <2>. SUFFICES ASSUME NEW u \in Threads, NEW q \in Tbs, NEW s \in Slots,
                       export'[u][q] = s, s # -1, ring'[u][s].tb = q
                PROVE  func'[u][ring'[u][s].fidx] = Code(q)'
    BY <1>5 DEF Current
  <2>1. export[u][q] = s /\ Code(q)' = Code(q)
    BY Zenon, <1>2, <1>5 DEF Code
  <2>2. CASE u # t
    BY <1>7, <2>1, <2>2 DEF RingInv, Current
  <2>3. CASE u = t
    <3>1. ring[t][s].tb = q /\ s \notin Gone /\ q # NULL /\ ring'[t][s].fidx = ring[t][s].fidx
      BY <1>8, <2>3, InstancesAssumption
    <3>2. Live(t, s)
      BY Zenon, <3>1 DEF Live
    <3>3. func[t][ring[t][s].fidx] = Code(q)
      BY Zenon, <2>1, <2>3, <3>1 DEF RingInv, Current
    <3>. QED
      BY Zenon, <1>14, <2>1, <2>3, <3>1, <3>2, <3>3
  <2>. QED
    BY Zenon, <2>2, <2>3
<1>. QED
  BY Zenon, <1>12, <1>13, <1>15, <1>16 DEF RingInv

(* A new instance goes to a slot that no instance has and to an index of   *)
(* wasmTable that no function has.                                         *)
LEMMA AddRing ==
    ASSUME Balance, SumInv, RingInv, NEW t \in Threads, NEW p \in Tbs, Add(t, p)
    PROVE  RingInv'
<1>0. /\ ring \in [Threads -> [Slots -> [tb : Tbs \union {NULL}, fidx : Indices \union {0}]]]
      /\ begin \in [Threads -> Slots] /\ end \in [Threads -> Slots]
      /\ func \in [Threads -> [Indices -> (Tbs \X Nat) \union {NoCode}]]
      /\ export \in [Threads -> [Tbs -> Slots \union {-1}]] /\ running \in [Threads -> Nat]
      /\ MaxAlive \in Nat /\ running[t] \in Nat /\ begin[t] \in Slots /\ p # NULL
  BY Zenon, InstancesAssumption DEF RingInv, Shapes, Balance
<1>1. PICK n \in 0 .. MaxAlive - 1 : n = running[t]
  <2>1. alive[t] < MaxAlive
    BY Zenon DEF SumInv, Add
  <2>2. running[t] <= alive[t] /\ alive[t] \in Nat
    BY DEF Balance
  <2>. QED
    BY <1>0, <2>1, <2>2
<1>2. PICK e \in Slots : e = end[t]
  BY Zenon, <1>0
<1>3. e = (begin[t] + n) % MaxAlive
  BY Zenon, <1>1, <1>2 DEF RingInv, Ringed
<1>4. PICK f \in Indices : f = Min({i \in Indices : func[t][i] = NoCode}) /\ func[t][f] = NoCode
  <2>. DEFINE F == {i \in Indices : func[t][i] = NoCode}
  <2>1. F # {}
    BY Zenon, FreeIndex DEF RingInv
  <2>2. F \in SUBSET Nat
    BY InstancesAssumption DEF Indices
  <2>. HIDE DEF F
  <2>3. \E x \in F : \A y \in F : x <= y
    BY Zenon, <2>1, <2>2, LeastNumber
  <2>4. Min(F) \in F
    BY Zenon, <2>3 DEF Min
  <2>. QED
    BY Zenon, <2>4 DEF F
<1>5. /\ func' = [func EXCEPT ![t][f] = Code(p)]
      /\ ring' = [ring EXCEPT ![t][e] = [tb |-> p, fidx |-> f]]
      /\ export' = [export EXCEPT ![t][p] = e]
      /\ end' = [end EXCEPT ![t] = (e + 1) % MaxAlive]
      /\ running' = [running EXCEPT ![t] = n + 1]
      /\ begin' = begin /\ gen' = gen
  BY Zenon, <1>1, <1>2, <1>4 DEF Add
<1>6. Code(p) \in Tbs \X Nat /\ Code(p) # NoCode /\ \A q \in Tbs : Code(q)' = Code(q)
  BY Zenon, <1>0, <1>5 DEF Code, NoCode, RingInv, Shapes
<1>7. /\ func'[t][f] = Code(p) /\ \A i \in Indices : i # f => func'[t][i] = func[t][i]
      /\ ring'[t][e] = [tb |-> p, fidx |-> f] /\ \A s \in Slots : s # e => ring'[t][s] = ring[t][s]
      /\ export'[t][p] = e /\ \A q \in Tbs : q # p => export'[t][q] = export[t][q]
      /\ end'[t] = (e + 1) % MaxAlive /\ running'[t] = n + 1 /\ begin'[t] = begin[t]
  BY Zenon, <1>0, <1>5
<1>8. \A u \in Threads : u # t => /\ ring'[u] = ring[u] /\ func'[u] = func[u] /\ export'[u] = export[u]
                                   /\ begin'[u] = begin[u] /\ running'[u] = running[u] /\ end'[u] = end[u]
  BY Zenon, <1>0, <1>5
<1>9. \A s \in Slots : Pos(begin[t], s) \in 0 .. MaxAlive - 1 /\ (Pos(begin[t], s) = n <=> s = e)
  BY Zenon, <1>0, <1>3, PosIs
<1>10. \A s \in Slots : Live(t, s) <=> Pos(begin[t], s) < n
  BY Zenon, <1>1 DEF RingInv, Ringed
<1>11. ~Live(t, e)
  BY <1>1, <1>9, <1>10
<1>12. \A s \in Slots : Live(t, s)' <=> s = e \/ Live(t, s)
  BY <1>0, <1>7 DEF Live
<1>13. \A u \in Threads : u # t => \A s \in Slots : Live(u, s)' <=> Live(u, s)
  BY Zenon, <1>8 DEF Live
<1>14. (e + 1) % MaxAlive = (begin[t] + (n + 1)) % MaxAlive /\ (e + 1) % MaxAlive \in Slots
  <2>1. begin[t] \in 0 .. MaxAlive - 1 /\ e \in 0 .. MaxAlive - 1 /\ n \in 0 .. MaxAlive /\ n + 1 \in 0 .. MaxAlive
        /\ 1 \in 0 .. MaxAlive
    BY <1>0, <1>1 DEF Slots
  <2>2. e = IF begin[t] + n < MaxAlive THEN begin[t] + n ELSE (begin[t] + n) - MaxAlive
    BY Zenon, <1>0, <1>3, <2>1, Wrapped
  <2>3. /\ (e + 1) % MaxAlive = IF e + 1 < MaxAlive THEN e + 1 ELSE (e + 1) - MaxAlive
        /\ (e + 1) % MaxAlive \in Slots
    BY Zenon, <2>1, Wrapped
  <2>4. (begin[t] + (n + 1)) % MaxAlive
          = IF begin[t] + (n + 1) < MaxAlive THEN begin[t] + (n + 1) ELSE (begin[t] + (n + 1)) - MaxAlive
    BY Zenon, <1>0, <2>1, Wrapped
  <2>5. PICK b \in 0 .. MaxAlive - 1 : b = begin[t]
    BY Zenon, <2>1
  <2>6. (IF e + 1 < MaxAlive THEN e + 1 ELSE (e + 1) - MaxAlive)
        = (IF b + (n + 1) < MaxAlive THEN b + (n + 1) ELSE (b + (n + 1)) - MaxAlive)
    BY <1>0, <2>1, <2>2, <2>5
  <2>. QED
    BY <2>3, <2>4, <2>5, <2>6
<1>15. Shapes'
  <2>1. ring' \in [Threads -> [Slots -> [tb : Tbs \union {NULL}, fidx : Indices \union {0}]]]
    BY Zenon, <1>0, <1>5
  <2>2. func' \in [Threads -> [Indices -> (Tbs \X Nat) \union {NoCode}]]
    BY Zenon, <1>0, <1>5, <1>6
  <2>3. export' \in [Threads -> [Tbs -> Slots \union {-1}]]
    BY Zenon, <1>0, <1>5
  <2>4. end' \in [Threads -> Slots]
    BY Zenon, <1>0, <1>5, <1>14
  <2>. QED
    BY Zenon, <1>5, <2>1, <2>2, <2>3, <2>4 DEF RingInv, Shapes, NoCode
<1>16. Ringed'
  <2>. SUFFICES ASSUME NEW u \in Threads
                PROVE  /\ running'[u] <= MaxAlive /\ end'[u] = (begin'[u] + running'[u]) % MaxAlive
                       /\ \A s \in Slots : Live(u, s)' <=> Pos(begin'[u], s) < running'[u]
    BY Zenon DEF Ringed, Live, Pos
  <2>1. CASE u # t
    BY Zenon, <1>8, <1>13, <2>1 DEF RingInv, Ringed
  <2>2. CASE u = t
    <3>1. n + 1 <= MaxAlive
      BY <1>0, <1>1
    <3>2. \A s \in Slots : Live(t, s)' <=> Pos(begin[t], s) < n + 1
      <4>. TAKE s \in Slots
      <4>1. PICK k \in 0 .. MaxAlive - 1 : k = Pos(begin[t], s)
        BY Zenon, <1>9
      <4>2. k \in Int /\ n \in Int
        OBVIOUS
      <4>3. k < n + 1 <=> k = n \/ k < n
        BY ONLY <4>2
      <4>. QED
        BY Zenon, <1>9, <1>10, <1>12, <4>1, <4>3
    <3>. QED
      BY Zenon, <1>7, <1>14, <2>2, <3>1, <3>2
  <2>. QED
    BY Zenon, <2>1, <2>2
<1>17. ASSUME NEW s \in Slots, Live(t, s)
       PROVE  /\ s # e /\ ring'[t][s] = ring[t][s] /\ ring[t][s].fidx \in Indices /\ ring[t][s].fidx # f
              /\ func'[t][ring[t][s].fidx] = func[t][ring[t][s].fidx] /\ func[t][ring[t][s].fidx] # NoCode
  <2>1. s # e /\ ring[t][s].fidx \in Indices /\ func[t][ring[t][s].fidx] # NoCode
    BY Zenon, <1>11, <1>17 DEF RingInv, OneToOne
  <2>. QED
    BY Zenon, <1>4, <1>7, <2>1
<1>18. OneToOne'
  <2>0. ring'[t][e].fidx = f
    BY <1>7, SMTT(30)
  <2>1. ASSUME NEW s \in Slots, Live(t, s)'
        PROVE  ring'[t][s].fidx \in Indices /\ func'[t][ring'[t][s].fidx] # NoCode
    BY <1>6, <1>7, <1>12, <1>17, <2>0, <2>1, SMTT(30)
  <2>2. \A s, q \in Slots : Live(t, s)' /\ Live(t, q)' /\ ring'[t][s].fidx = ring'[t][q].fidx => s = q
    <3>1. \A s, q \in Slots : Live(t, s) /\ Live(t, q) /\ ring[t][s].fidx = ring[t][q].fidx => s = q
      BY Zenon DEF RingInv, OneToOne
    <3>. QED
      BY Zenon, <1>12, <1>17, <2>0, <3>1
  <2>3. ASSUME NEW i \in Indices, func'[t][i] # NoCode
        PROVE  \E s \in Slots : Live(t, s)' /\ ring'[t][s].fidx = i
    <3>1. CASE i = f
      BY Zenon, <1>12, <2>0, <3>1
    <3>2. CASE i # f
      <4>1. PICK s \in Slots : Live(t, s) /\ ring[t][s].fidx = i
        BY Zenon, <1>7, <2>3, <3>2 DEF RingInv, OneToOne
      <4>. QED
        BY Zenon, <1>12, <1>17, <4>1
    <3>. QED
      BY Zenon, <3>1, <3>2
  <2>4. ASSUME NEW u \in Threads, u # t
        PROVE  /\ \A s \in Slots : Live(u, s)' => ring'[u][s].fidx \in Indices /\ func'[u][ring'[u][s].fidx] # NoCode
               /\ \A s, q \in Slots : Live(u, s)' /\ Live(u, q)' /\ ring'[u][s].fidx = ring'[u][q].fidx => s = q
               /\ \A i \in Indices : func'[u][i] # NoCode => \E s \in Slots : Live(u, s)' /\ ring'[u][s].fidx = i
    BY <1>8, <1>13, <2>4, SMTT(30) DEF RingInv, OneToOne
  <2>. QED
    BY <2>1, <2>2, <2>3, <2>4, SMTT(30) DEF OneToOne, NoCode
<1>19. Current'
  <2>. SUFFICES ASSUME NEW u \in Threads, NEW q \in Tbs, NEW s \in Slots,
                       export'[u][q] = s, s # -1, ring'[u][s].tb = q
                PROVE  func'[u][ring'[u][s].fidx] = Code(q)
    <3>1. \A u \in Threads, q \in Tbs : export'[u][q] # -1 => export'[u][q] \in Slots
      BY <1>15 DEF Shapes
    <3>. QED
      BY Zenon, <1>6, <3>1 DEF Current
  <2>1. CASE u # t
    BY <1>8, <2>1 DEF RingInv, Current
  <2>2. CASE u = t /\ q = p
    BY <1>7, <2>2
  <2>3. CASE u = t /\ q # p
    <3>1. s # e
      BY <1>7, <2>3, SMTT(30)
    <3>2. ring[t][s].tb = q /\ export[t][q] = s /\ q # NULL
      BY Zenon, <1>7, <2>3, <3>1, InstancesAssumption
    <3>3. Live(t, s)
      BY Zenon, <3>2 DEF Live
    <3>4. func[t][ring[t][s].fidx] = Code(q)
      BY Zenon, <3>2 DEF RingInv, Current
    <3>. QED
      BY Zenon, <1>17, <2>3, <3>3, <3>4
  <2>. QED
    BY Zenon, <2>1, <2>2, <2>3
<1>. QED
  BY Zenon, <1>15, <1>16, <1>18, <1>19 DEF RingInv

(* New code at an address: no vector leads to the old code any more.       *)
LEMMA GenerateRing ==
    ASSUME RingInv, NEW p \in Tbs, Generate(p)
    PROVE  RingInv'
<1>0. /\ export \in [Threads -> [Tbs -> Slots \union {-1}]] /\ gen \in [Tbs -> Nat]
      /\ UNCHANGED <<running, ring, begin, end, func>>
      /\ gen' = [gen EXCEPT ![p] = gen[p] + 1] /\ export' = [t \in Threads |-> [export[t] EXCEPT ![p] = -1]]
  BY Zenon DEF RingInv, Shapes, Generate, local
<1>1. /\ export' \in [Threads -> [Tbs -> Slots \union {-1}]] /\ gen' \in [Tbs -> Nat]
      /\ \A u \in Threads : export'[u][p] = -1 /\ \A q \in Tbs : q # p => export'[u][q] = export[u][q]
      /\ \A q \in Tbs : q # p => Code(q)' = Code(q)
  BY <1>0 DEF Code
<1>2. Shapes'
  BY Zenon, <1>0, <1>1 DEF RingInv, Shapes
<1>3. Ringed'
  BY Zenon, <1>0 DEF RingInv, Ringed, Live
<1>4. OneToOne'
  BY Zenon, <1>0 DEF RingInv, OneToOne, Live
<1>5. Current'
  BY <1>0, <1>1, SMTT(30) DEF RingInv, Current
<1>. QED
  BY Zenon, <1>2, <1>3, <1>4, <1>5 DEF RingInv

(* There is no instance at first.                                          *)
LEMMA InitRing == Init => RingInv
<1>. SUFFICES ASSUME Init PROVE RingInv
  BY Zenon
<1>0. MaxAlive \in Nat \ {0} /\ 0 \in Slots /\ 0 % MaxAlive = 0
  BY InstancesAssumption DEF Slots
<1>1. Shapes
  BY Zenon, <1>0 DEF Init, Shapes, Free
<1>2. \A t \in Threads, s \in Slots : ~Live(t, s)
  BY Zenon DEF Init, Live, Free
<1>3. Ringed
  <2>1. \A t \in Threads : running[t] = 0 /\ begin[t] = 0 /\ end[t] = 0
    BY Zenon DEF Init
  <2>2. \A s \in Slots : ~(Pos(0, s) < 0)
    BY <1>0, PosIs
  <2>. QED
    BY <1>0, <1>2, <2>1, <2>2 DEF Ringed
<1>4. OneToOne
  BY Zenon, <1>2 DEF Init, OneToOne
<1>5. Current
  BY Zenon DEF Init, Current
<1>. QED
  BY Zenon, <1>1, <1>3, <1>4, <1>5 DEF RingInv

(* Every step keeps the ring.                                              *)
LEMMA NextRing == Balance /\ SumInv /\ RingInv /\ [Next]_vars => RingInv'
<1>. SUFFICES ASSUME Balance, SumInv, RingInv, [Next]_vars PROVE RingInv'
  BY Zenon
<1>1. CASE UNCHANGED <<running, ring, begin, end, gen, func, export>>
  BY Zenon, <1>1, ForgetKeeps
<1>2. ASSUME NEW t \in Threads, NEW p \in Tbs,
             RunInstance(t, p) \/ Interpret(t, p) \/ AtLimit(t, p) \/ StartAdd(t, p) \/ Add(t, p)
      PROVE  RingInv'
  <2>1. CASE StartAdd(t, p)
    BY Zenon, <2>1, ForgetKeeps DEF StartAdd, Forget, local
  <2>. QED
    BY Zenon, <1>1, <1>2, <2>1, AtLimitRing, AddRing DEF RunInstance, Interpret, local
<1>3. ASSUME NEW t \in Threads, StartSleep(t) \/ Collect(t) \/ EndSleep(t)
      PROVE  RingInv'
  BY Zenon, <1>1, <1>3 DEF StartSleep, Collect, EndSleep, local
<1>. QED
  BY Zenon, <1>1, <1>2, <1>3, GenerateRing DEF Next, vars, local

(* The ring of a thread holds the running instances, oldest first, and an  *)
(* instance that is added overwrites none.                                 *)
THEOREM RingIsRunningHolds == Spec => []RingIsRunning
<1>1. Balance /\ RingInv => RingIsRunning
  BY Zenon, RingedMeans DEF RingInv
<1>. QED
  BY <1>1, InitSum, InitRing, NextBalance, NextSum, NextRing, PTL DEF Spec

(* What a thread calls for a block is the code the block has now.          *)
THEOREM RunsOwnCodeHolds == Spec => []RunsOwnCode
<1>1. Init => RunsOwnCode
  BY DEF Init, RunsOwnCode
<1>2. RingInv /\ RunsOwnCode /\ [Next]_vars => RunsOwnCode'
  <2>. SUFFICES ASSUME RingInv, RunsOwnCode, [Next]_vars PROVE RunsOwnCode'
    BY Zenon
  <2>1. CASE UNCHANGED ran
    BY Zenon, <2>1 DEF RunsOwnCode
  <2>2. ASSUME NEW t \in Threads, NEW p \in Tbs, RunInstance(t, p)
        PROVE  RunsOwnCode'
    <3>1. export[t][p] # -1 /\ ring[t][export[t][p]].tb = p /\ fidx(t, p) = ring[t][export[t][p]].fidx
      BY <2>2, SMTT(30) DEF RunInstance, fidx, Stale
    <3>2. func[t][fidx(t, p)] = Code(p)
      BY Zenon, <3>1 DEF RingInv, Current
    <3>. QED
      BY Zenon, <2>2, <3>2 DEF RunInstance, Call, RunsOwnCode
  <2>3. ASSUME NEW t \in Threads, NEW p \in Tbs, Add(t, p)
        PROVE  RunsOwnCode'
    BY Zenon, <2>3 DEF Add, RunsOwnCode
  <2>. QED
    BY Zenon, <2>1, <2>2, <2>3 DEF Next, vars, Interpret, AtLimit, StartAdd, StartSleep, Collect, EndSleep, Generate
<1>. QED
  BY <1>1, <1>2, InitSum, InitRing, NextBalance, NextSum, NextRing, PTL DEF Spec
==============================================================================
