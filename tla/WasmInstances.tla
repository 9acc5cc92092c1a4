--------------------------- MODULE WasmInstances ---------------------------
(***************************************************************************)
(* The Wasm instances of translation blocks (src/tcg/wasm32.c).  A block   *)
(* is interpreted until it has run InstantiateNum times on a thread; then  *)
(* its Wasm code is instantiated there and its function called.  A thread  *)
(* keeps its instances in a ring; the number of instances alive in all     *)
(* threads is limited.  At the limit a thread drops the older half of its  *)
(* own, and the browser's collector reports the dropped ones later, while  *)
(* the thread sleeps.                                                      *)
(*                                                                         *)
(* A block is its address; its code changes when the code buffer is        *)
(* flushed and the address is used again, which gen counts.  exec_cnt is   *)
(* left out: any iteration may be the one that sleeps.                     *)
(***************************************************************************)
EXTENDS Integers, FiniteSets, FiniteSetsExt, Functions

CONSTANTS
    Threads,         \* vCPU threads
    Tbs,             \* addresses of translation blocks
    NULL,
    MaxAlive,        \* MAX_INSTANCE_ALIVE, INSTANCE_RUNNING_LEN
    InstantiateNum,  \* INSTANTIATE_NUM
    MaxGen           \* bound on how often an address is used again

ASSUME InstancesAssumption ==
    /\ NULL \notin Tbs /\ {"loop", "sleep"} \cap Tbs = {} /\ IsFiniteSet(Threads)
    /\ MaxAlive \in Nat \ {0} /\ InstantiateNum \in Nat /\ MaxGen \in Nat

VARIABLES
    aliveGlobal,  \* instance_alive_global
    alive,        \* instance_alive_local
    running,      \* instance_running_local
    collected,    \* instance_garbage_collected_local
    ring,         \* instance_running
    begin,        \* instance_running_begin
    end,          \* instance_running_end
    export,       \* what the export vector of each block has for each thread: a slot
    counter,      \* the counter vector of each block
    gen,          \* which code each address holds
    func,         \* wasmTable of each thread: the code of each function
    dropped,      \* instances taken out of wasmTable and not yet collected
    pc,           \* "loop", "sleep", or "add" for a block
    ran           \* the last Wasm function a thread ran, and the code it meant

local == <<alive, running, collected, ring, begin, end>>
vars  == <<aliveGlobal, local, export, counter, gen, func, dropped, pc, ran>>

Slots   == 0 .. MaxAlive - 1
Indices == 1 .. MaxAlive + 1       \* of wasmTable; 0 is no function
Code(p) == <<p, gen[p]>>
NoCode  == <<NULL, 0>>
Free    == [tb |-> NULL, fidx |-> 0]

Init ==
    /\ aliveGlobal = 0
    /\ alive = [t \in Threads |-> 0]
    /\ running = [t \in Threads |-> 0]
    /\ collected = [t \in Threads |-> 0]
    /\ ring = [t \in Threads |-> [s \in Slots |-> Free]]
    /\ begin = [t \in Threads |-> 0]
    /\ end = [t \in Threads |-> 0]
    /\ export = [t \in Threads |-> [p \in Tbs |-> -1]]
    /\ counter = [t \in Threads |-> [p \in Tbs |-> 0]]
    /\ gen = [p \in Tbs |-> 0]
    /\ func = [t \in Threads |-> [f \in Indices |-> NoCode]]
    /\ dropped = [t \in Threads |-> 0]
    /\ pc = [t \in Threads |-> "loop"]
    /\ ran = [want |-> NoCode, got |-> NoCode]

can_add_one_more == aliveGlobal <= MaxAlive     \* plausible error
can_add_instance == aliveGlobal < MaxAlive

(* get_instance_running_local: the function, or 0; a slot that has been    *)
(* given to another block is forgotten.                                    *)
Stale(t, p) == export[t][p] # -1 /\ ring[t][export[t][p]].tb # p
fidx(t, p) == IF export[t][p] = -1 \/ Stale(t, p) THEN 0 ELSE ring[t][export[t][p]].fidx
Forget(t, p) ==
    /\ export' = IF Stale(t, p) THEN [export EXCEPT ![t][p] = -1] ELSE export
    /\ counter' = IF Stale(t, p) THEN [counter EXCEPT ![t][p] = InstantiateNum] ELSE counter
Count(t, p) == IF Stale(t, p) THEN InstantiateNum ELSE counter[t][p]

Call(t, p, f) == ran' = [want |-> Code(p), got |-> func[t][f]]

-----------------------------------------------------------------------------
(* One iteration of tcg_qemu_tb_exec for block p, by its branches.         *)
RunInstance(t, p) ==
    /\ pc[t] = "loop"
    /\ fidx(t, p) > 0
    /\ Call(t, p, fidx(t, p))
    /\ UNCHANGED <<aliveGlobal, local, export, counter, gen, func, dropped, pc>>

Interpret(t, p) ==
    /\ pc[t] = "loop"
    /\ fidx(t, p) = 0 /\ Count(t, p) < InstantiateNum
    /\ counter' = [counter EXCEPT ![t][p] = @ + 1]
    /\ UNCHANGED <<aliveGlobal, local, export, gen, func, dropped, pc, ran>>

(* At the limit: remove_instance_running_local, remove_module_js,          *)
(* check_instance_garbage_collected; the block is interpreted.             *)
ToRemove(t) == IF alive[t] - running[t] > 0 THEN 0 ELSE running[t] \div 2
RemovedButOne(t) == {(begin[t] + i) % MaxAlive : i \in 1 .. ToRemove(t) - 1}   \* plausible error
Removed(t) == {(begin[t] + i) % MaxAlive : i \in 0 .. ToRemove(t) - 1}

AtLimit(t, p) ==
    /\ pc[t] = "loop"
    /\ fidx(t, p) = 0 /\ Count(t, p) >= InstantiateNum
    /\ ~can_add_instance
    /\ Forget(t, p)
    /\ ring' = [ring EXCEPT ![t] = [s \in Slots |-> IF s \in Removed(t) THEN [@[s] EXCEPT !.tb = NULL] ELSE @[s]]]
    /\ func' = [func EXCEPT ![t] = [f \in Indices |->
                   IF \E s \in Removed(t) : ring[t][s].fidx = f THEN NoCode ELSE @[f]]]
    /\ dropped' = [dropped EXCEPT ![t] = @ + ToRemove(t)]
    /\ begin' = [begin EXCEPT ![t] = (@ + ToRemove(t)) % MaxAlive]
    /\ running' = [running EXCEPT ![t] = @ - ToRemove(t)]
    /\ aliveGlobal' = aliveGlobal - collected[t]
    /\ alive' = [alive EXCEPT ![t] = @ - collected[t]]
    /\ collected' = [collected EXCEPT ![t] = 0]
    /\ UNCHANGED <<end, gen, pc, ran>>

(* Below the limit: the test and the increment of instance_alive_global    *)
(* are two steps, between which other threads run.                         *)
StartAdd(t, p) ==
    /\ pc[t] = "loop"
    /\ fidx(t, p) = 0 /\ Count(t, p) >= InstantiateNum
    /\ can_add_instance
    /\ Forget(t, p)
    /\ pc' = [pc EXCEPT ![t] = p]
    /\ UNCHANGED <<aliveGlobal, local, gen, func, dropped, ran>>

(* instantiate_wasm, add_instance_running_local, and the call.             *)
Add(t, p) ==
    LET f == Min({i \in Indices : func[t][i] = NoCode})
    IN  /\ pc[t] = p
        /\ func' = [func EXCEPT ![t][f] = Code(p)]
        /\ ring' = [ring EXCEPT ![t][end[t]] = [tb |-> p, fidx |-> f]]
        /\ export' = [export EXCEPT ![t][p] = end[t]]
        /\ end' = [end EXCEPT ![t] = (@ + 1) % MaxAlive]
        /\ running' = [running EXCEPT ![t] = @ + 1]
        /\ alive' = [alive EXCEPT ![t] = @ + 1]
        /\ aliveGlobal' = aliveGlobal + 1
        /\ ran' = [want |-> Code(p), got |-> Code(p)]
        /\ pc' = [pc EXCEPT ![t] = "loop"]
        /\ UNCHANGED <<collected, begin, counter, gen, dropped>>

(* trysleep: at the limit the thread returns to the browser's event loop,  *)
(* where the collector may run, and counts what was collected after that.  *)
StartSleep(t) ==
    /\ pc[t] = "loop"
    /\ ~can_add_instance
    /\ pc' = [pc EXCEPT ![t] = "sleep"]
    /\ UNCHANGED <<aliveGlobal, local, export, counter, gen, func, dropped, ran>>

Collect(t) ==
    /\ pc[t] = "sleep"
    /\ dropped[t] > 0
    /\ dropped' = [dropped EXCEPT ![t] = @ - 1]
    /\ collected' = [collected EXCEPT ![t] = @ + 1]
    /\ UNCHANGED <<aliveGlobal, alive, running, ring, begin, end, export, counter, gen, func, pc, ran>>

(* Plausible error: the collected ones are counted again the next time.    *)
EndSleepNoReset(t) ==
    /\ pc[t] = "sleep"
    /\ aliveGlobal' = aliveGlobal - collected[t]
    /\ alive' = [alive EXCEPT ![t] = @ - collected[t]]
    /\ pc' = [pc EXCEPT ![t] = "loop"]
    /\ UNCHANGED <<collected, running, ring, begin, end, export, counter, gen, func, dropped, ran>>

EndSleep(t) ==
    /\ pc[t] = "sleep"
    /\ aliveGlobal' = aliveGlobal - collected[t]
    /\ alive' = [alive EXCEPT ![t] = @ - collected[t]]
    /\ collected' = [collected EXCEPT ![t] = 0]
    /\ pc' = [pc EXCEPT ![t] = "loop"]
    /\ UNCHANGED <<running, ring, begin, end, export, counter, gen, func, dropped, ran>>

(* tcg_gen_code puts a new block where one was before a flush and clears   *)
(* both vectors.  A flush waits until no thread executes a block, so none  *)
(* is inside the old one; others may sleep or add other blocks meanwhile.  *)
GenerateKeeping(p) ==                              \* plausible error: they are not
    /\ \A t \in Threads : pc[t] # p
    /\ gen[p] < MaxGen
    /\ gen' = [gen EXCEPT ![p] = @ + 1]
    /\ UNCHANGED <<aliveGlobal, local, export, counter, func, dropped, pc, ran>>

Generate(p) ==
    /\ \A t \in Threads : pc[t] # p
    /\ gen[p] < MaxGen
    /\ gen' = [gen EXCEPT ![p] = @ + 1]
    /\ export' = [t \in Threads |-> [export[t] EXCEPT ![p] = -1]]
    /\ counter' = [t \in Threads |-> [counter[t] EXCEPT ![p] = 0]]
    /\ UNCHANGED <<aliveGlobal, local, func, dropped, pc, ran>>

-----------------------------------------------------------------------------
Next ==
    \/ \E t \in Threads, p \in Tbs :
          \/ RunInstance(t, p) \/ Interpret(t, p) \/ AtLimit(t, p)
          \/ StartAdd(t, p) \/ Add(t, p)
    \/ \E t \in Threads : StartSleep(t) \/ Collect(t) \/ EndSleep(t)
    \/ \E p \in Tbs : Generate(p)

Spec == Init /\ [][Next]_vars

-----------------------------------------------------------------------------
TypeOK ==
    /\ aliveGlobal \in Nat
    /\ alive \in [Threads -> Nat]
    /\ running \in [Threads -> Nat]
    /\ collected \in [Threads -> Nat]
    /\ ring \in [Threads -> [Slots -> [tb : Tbs \union {NULL}, fidx : Indices \union {0}]]]
    /\ begin \in [Threads -> Slots]
    /\ end \in [Threads -> Slots]
    /\ export \in [Threads -> [Tbs -> Slots \union {-1}]]
    /\ counter \in [Threads -> [Tbs -> 0 .. InstantiateNum]]
    /\ gen \in [Tbs -> 0 .. MaxGen]
    /\ func \in [Threads -> [Indices -> (Tbs \X (0 .. MaxGen)) \union {NoCode}]]
    /\ dropped \in [Threads -> Nat]
    /\ pc \in [Threads -> {"loop", "sleep"} \union Tbs]

(* The function that a thread calls for a block is the code the block has  *)
(* now: not that of an earlier block at its address, of another block, or  *)
(* of a removed instance.                                                  *)
RunsOwnCode == ran.got = ran.want

(* "unexpected number of removed instances" (and exit) never happens: no   *)
(* more instances are collected than were dropped and not yet counted.     *)
CollectedWereDropped == \A t \in Threads : collected[t] <= alive[t] - running[t]

(* The ring holds the running instances, oldest first, and nothing else:   *)
(* adding one never overwrites one that runs.                              *)
RingIsRunning ==
    \A t \in Threads :
        /\ running[t] <= MaxAlive
        /\ end[t] = (begin[t] + running[t]) % MaxAlive
        /\ {s \in Slots : ring[t][s].tb # NULL} = {(begin[t] + i) % MaxAlive : i \in 0 .. running[t] - 1}

(* The global count is the sum of the local ones, and passes the limit by  *)
(* at most one instance for every other thread that tested it at the same  *)
(* time.                                                                   *)
AliveWithinLimit ==
    /\ aliveGlobal = SumFunction(alive)
    /\ aliveGlobal <= MaxAlive + Cardinality(Threads) - 1
=============================================================================
