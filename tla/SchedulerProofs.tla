-------------------------- MODULE SchedulerProofs --------------------------
(***************************************************************************)
(* Proofs about Scheduler, for every number of workers, every capacity of  *)
(* the queues and any number of tasks.                                     *)
(*                                                                         *)
(* The total that scheduler_no_more_tasks tests is a sum over the workers. *)
(* Sums appear here as prefix sums: a function p from 0 .. worker_count    *)
(* with p[0] = 0 whose increments are the summands.  Changing a summand    *)
(* shifts the prefix sums after it, which needs no induction; that prefix  *)
(* sums of naturals grow does, and is proved by the least counterexample.  *)
(***************************************************************************)
EXTENDS Scheduler, WellFoundedInduction, TLAPS

Positions == 0 .. worker_count

\* p[i] is the sum of f over the workers before i.
IsPrefix(p, f) ==
  /\ p \in [Positions -> Int]
  /\ p[0] = 0
  /\ \A i \in Workers : p[i + 1] = p[i] + f[i]

\* The prefix sums after the summand k has grown by d.
Shift(p, k, d) == [i \in Positions |-> IF i > k THEN p[i] + d ELSE p[i]]

----------------------------------------------------------------------------
\* A set of naturals that is not empty has a least element.
LEMMA LeastElement ==
  ASSUME NEW T, T \subseteq Nat, T # {}
  PROVE  \E x \in T : \A y \in T : x <= y
<1> DEFINE R == OpToRel(<, Nat)
<1>1. IsWellFoundedOn(R, Nat)
  BY ONLY NatLessThanWellFounded, Zenon
<1>2. \A x, y \in Nat : <<x, y>> \in R <=> x < y
  BY DEF OpToRel
<1> HIDE DEF R
<1>3. PICK x \in T : \A y \in T : ~ (<<y, x>> \in R)
  BY <1>1, WFMin
<1>4. \A y \in T : ~ (y < x)
  BY <1>2, <1>3
<1>5. \A y \in T : x <= y
  <2> TAKE y \in T
  <2>1. x \in Nat /\ y \in Nat /\ ~(y < x)
    BY <1>4
  <2> QED BY <2>1
<1> QED BY <1>5

\* Growing one summand shifts the prefix sums after it.
LEMMA PrefixShift ==
  ASSUME NEW p, NEW f \in [Workers -> Int], IsPrefix(p, f),
         NEW k \in Workers, NEW d \in Int,
         NEW h \in [Workers -> Int], h[k] = f[k] + d,
         \A i \in Workers : i # k => h[i] = f[i]
  PROVE  /\ IsPrefix(Shift(p, k, d), h)
         /\ Shift(p, k, d)[worker_count] = p[worker_count] + d
         /\ Shift(p, k, d)[0] = 0
<1> DEFINE q == Shift(p, k, d)
<1>1. q \in [Positions -> Int] /\ p \in [Positions -> Int]
  BY DEF Shift, IsPrefix
<1>2. 0 \in Positions /\ worker_count \in Positions
  BY WorkerCountAssumption DEF Positions
<1>3. q[0] = 0
  BY <1>2, WorkerCountAssumption DEF Shift, IsPrefix, Workers
<1>4. q[worker_count] = p[worker_count] + d
  BY <1>2, WorkerCountAssumption DEF Shift, Workers
<1>5. ASSUME NEW i \in Workers PROVE q[i + 1] = q[i] + h[i]
  <2>1. i \in Positions /\ i + 1 \in Positions /\ i \in Int /\ k \in Int
    BY WorkerCountAssumption DEF Workers, Positions
  <2>2. p[i + 1] = p[i] + f[i] /\ p[i] \in Int /\ f[i] \in Int
    BY <1>1, <2>1 DEF IsPrefix
  <2>3. /\ q[i + 1] = IF i + 1 > k THEN p[i + 1] + d ELSE p[i + 1]
        /\ q[i] = IF i > k THEN p[i] + d ELSE p[i]
    BY <2>1 DEF Shift
  <2>4. CASE i = k
    BY <2>1, <2>2, <2>3, <2>4
  <2>5. CASE i # k
    BY <2>1, <2>2, <2>3, <2>5
  <2> QED BY <2>4, <2>5
<1> QED BY <1>1, <1>3, <1>4, <1>5 DEF IsPrefix

\* Prefix sums of naturals grow.
LEMMA PrefixMonotone ==
  ASSUME NEW g, NEW f \in [Workers -> Nat], IsPrefix(g, f), NEW i \in Positions
  PROVE  \A j \in Positions : i <= j => g[i] <= g[j]
<1> DEFINE T == {j \in Positions : i <= j /\ ~(g[i] <= g[j])}
<1>1. SUFFICES ASSUME T # {} PROVE FALSE
  OBVIOUS
<1>2. T \subseteq Nat
  BY WorkerCountAssumption DEF Positions
<1>3. PICK j \in T : \A y \in T : j <= y
  BY <1>1, <1>2, LeastElement
<1>4. /\ j \in Positions /\ i <= j /\ ~(g[i] <= g[j])
      /\ g \in [Positions -> Int] /\ i \in Int /\ j \in Int
  BY WorkerCountAssumption DEF Positions, IsPrefix
<1>5. i # j
  BY <1>4
<1> DEFINE m == j - 1
<1>6. m \in Workers /\ m \in Positions /\ i <= m /\ m + 1 = j /\ ~(j <= m)
  BY <1>4, <1>5, WorkerCountAssumption DEF Positions, Workers
<1> HIDE DEF m
<1>7. g[i] <= g[m]
  BY <1>3, <1>6
<1>8. g[j] = g[m] + f[m] /\ f[m] \in Nat /\ g[m] \in Int /\ g[i] \in Int
  BY <1>4, <1>6 DEF IsPrefix
<1> QED BY <1>4, <1>7, <1>8

\* If naturals add up to nothing, each of them is zero.
LEMMA PrefixZero ==
  ASSUME NEW g, NEW f \in [Workers -> Nat], IsPrefix(g, f)
  PROVE  /\ g[worker_count] \in Nat
         /\ g[worker_count] = 0 => \A w \in Workers : f[w] = 0
<1>1. 0 \in Positions /\ worker_count \in Positions /\ 0 <= worker_count
  BY WorkerCountAssumption DEF Positions
<1>2. g[0] = 0 /\ g \in [Positions -> Int]
  BY DEF IsPrefix
<1>3. g[worker_count] \in Nat
  BY <1>1, <1>2, PrefixMonotone
<1>4. ASSUME g[worker_count] = 0, NEW w \in Workers PROVE f[w] = 0
  <2>1. w \in Positions /\ w + 1 \in Positions /\ 0 <= w /\ w + 1 <= worker_count
    BY WorkerCountAssumption DEF Positions, Workers
  <2>2. g[0] <= g[w]
    BY <1>1, <2>1, PrefixMonotone
  <2>3. g[w + 1] <= g[worker_count]
    BY <1>1, <2>1, PrefixMonotone
  <2>4. g[w + 1] = g[w] + f[w] /\ f[w] \in Nat /\ g[w] \in Int
    BY <1>2, <2>1 DEF IsPrefix
  <2> QED BY <1>2, <1>4, <2>2, <2>3, <2>4
<1> QED BY <1>3, <1>4

----------------------------------------------------------------------------
(* The inductive invariant. *)

Counting == {"add_load", "add_store", "sub_load", "sub_store"}

\* A worker that counts has a cell, and a worker that is about to add up the
\* cells starts from nothing.
Cells ==
  \A w \in Workers :
    /\ pc[w] \in Counting => at[w] \in Workers
    /\ pc[w] \in {"none", "next", "steal"} => at[w] = 0 /\ reg[w] = 0

\* The threads main has not created do not run.
NotStarted ==
  \A w \in Workers :
    \/ main = "prepare"
    \/ main = "create" /\ w >= index
    \/ main = "publish" /\ w > index
    => pc[w] = "none"

\* Without a stray id every worker counts in its own cell, so that the count
\* it loaded is still there when it stores.
OwnCell ==
  /\ LossNeedsStrayId
  /\ ~stray => \A w \in Workers :
       /\ pc[w] \in Counting => at[w] = w
       /\ pc[w] \in {"add_store", "sub_store"} => reg[w] = counter[w]

Loads == [w \in Workers |-> Load(w)]

\* If tasks are left and nobody holds one, some worker stays whose partial
\* total is the true one so far, so that it will not find zero.
Watched(p) ==
  (\A w \in Workers : pc[w] \notin Holding) /\ p[worker_count] # 0
    => \E v \in Workers :
         /\ pc[v] # "exited"
         /\ pc[v] \in {"check", "scan"} => reg[v] = p[at[v]]

Balanced(p, g) ==
  /\ IsPrefix(p, counter)
  /\ IsPrefix(g, Loads)
  /\ ~torn => p[worker_count] = g[worker_count] + dropped
  /\ Watched(p)

Balance == \E p, g : Balanced(p, g)

IInv == TypeOK /\ Cells /\ NotStarted /\ OwnCell /\ Balance

----------------------------------------------------------------------------
\* Initially nothing is counted and nothing runs.
LEMMA InitIInv == Init => IInv
<1> SUFFICES ASSUME Init PROVE IInv
  OBVIOUS
<1>0. 0 \in Workers /\ 0 \in Positions /\ Workers \subseteq Positions
      /\ \A w \in Workers : w + 1 \in Positions
  BY WorkerCountAssumption DEF Workers, Positions
<1>1. TypeOK
  <2>1. loaded \in Nat
    BY BoundAssumption DEF Init
  <2>2. /\ queue \in [Workers -> Nat] /\ counter \in [Workers -> Int]
        /\ id \in [Workers -> Workers] /\ reg \in [Workers -> Int]
        /\ pc \in [Workers -> Labels]
    BY <1>0 DEF Init, Labels
  <2>3. at \in [Workers -> 0 .. worker_count]
    BY <1>0 DEF Init, Positions
  <2> QED BY <2>1, <2>2, <2>3 DEF Init, TypeOK, Phases
<1>2. Cells /\ NotStarted /\ OwnCell
  BY DEF Init, Cells, Counting, NotStarted, OwnCell, LossNeedsStrayId
<1>3. Balance
  <2> DEFINE zero == [i \in Positions |-> 0]
  <2>1. \A w \in Workers : Loads[w] = 0 /\ counter[w] = 0
    BY DEF Init, Loads, Load, Holding, Adding
  <2>2. IsPrefix(zero, counter) /\ IsPrefix(zero, Loads)
    BY <1>0, <2>1 DEF IsPrefix
  <2>3. worker_count \in Positions
    BY WorkerCountAssumption DEF Positions
  <2>4. Balanced(zero, zero)
    BY <1>0, <2>2, <2>3 DEF Init, Balanced, Watched
  <2> QED BY <2>4 DEF Balance
<1> QED BY <1>1, <1>2, <1>3 DEF IInv

----------------------------------------------------------------------------
\* The loop variable of main names a worker wherever it is used as one.
LEMMA IndexFacts ==
  ASSUME TypeOK
  PROVE  /\ index % worker_count \in Workers
         /\ 0 \in Workers /\ 0 \in 0 .. worker_count
         /\ \A w \in Workers : w \in Nat /\ w < worker_count
         /\ index \in Workers /\ index + 1 < worker_count => index + 1 \in Workers
<1>1. index \in Nat
  BY DEF TypeOK
<1> QED BY <1>1, WorkerCountAssumption DEF Workers

\* A step of the main thread preserves the type invariant.
LEMMA MainType ==
  ASSUME IInv, MainStep
  PROVE  TypeOK'
<1> USE IndexFacts
<1>0. TypeOK
  BY DEF IInv
<1>1. CASE scheduler_prepare
  <2>1. CASE loaded > 0
    <3>1. loaded' \in Nat /\ index' \in Nat /\ main' = "prepare"
      BY <1>0, <1>1, <2>1 DEF TypeOK, scheduler_prepare
    <3>2. queue' \in [Workers -> Nat] /\ dropped' \in Nat
      BY <1>0, <1>1, <2>1 DEF TypeOK, scheduler_prepare, queue_push_back
    <3>3. counter' \in [Workers -> Int]
      BY <1>0, <1>1, <2>1 DEF TypeOK, scheduler_prepare
    <3>4. UNCHANGED <<id, pc, at, reg, spawned, stray, torn>>
      BY <1>1 DEF scheduler_prepare
    <3> QED BY <1>0, <3>1, <3>2, <3>3, <3>4 DEF TypeOK, Phases
  <2>2. CASE ~(loaded > 0)
    BY <1>0, <1>1, <2>2 DEF TypeOK, scheduler_prepare, Phases
  <2> QED BY <2>1, <2>2
<1>2. CASE thread_start
  BY <1>0, <1>2 DEF TypeOK, thread_start, Goto, Labels, Phases
<1>3. CASE thread_pool_start
  BY <1>0, <1>3 DEF TypeOK, thread_pool_start, Phases
<1>4. CASE thread_pool_join_all
  BY <1>0, <1>4 DEF TypeOK, thread_pool_join_all, Phases
<1> QED BY <1>1, <1>2, <1>3, <1>4 DEF MainStep

\* A step of a worker preserves the type invariant.
LEMMA WorkerType ==
  ASSUME IInv, NEW w \in Workers, WorkerStep(w)
  PROVE  TypeOK'
<1> USE IndexFacts
<1>0. TypeOK /\ Cells
  BY DEF IInv
<1>1. CASE stats_counter_total(w)
  <2>0. at[w] \in 0 .. worker_count /\ at[w] < worker_count
    BY <1>0, <1>1 DEF TypeOK, stats_counter_total
  <2>1. at[w] \in Workers /\ at[w] + 1 \in 0 .. worker_count
    BY <2>0, WorkerCountAssumption DEF Workers
  <2>2. reg[w] + counter[at[w]] \in Int
    BY <1>0, <2>1 DEF TypeOK
  <2> QED BY <1>0, <1>1, <2>1, <2>2 DEF TypeOK, stats_counter_total, mainVars
<1>2. CASE scheduler_no_more_tasks(w)
  BY <1>0, <1>2 DEF TypeOK, scheduler_no_more_tasks, mainVars, Goto, StartTotal, Labels
<1>3. ASSUME NEW v \in Workers, pc[w] \in {"next", "steal"}, TakeFrom(w, v)
      PROVE  TypeOK'
  BY <1>0, <1>3 DEF TypeOK, TakeFrom, mainVars, Goto, Labels
<1>4. CASE worker_add_task(w)
  <2>1. queue' \in [Workers -> Nat] /\ dropped' \in Nat
    BY <1>0, <1>4 DEF TypeOK, worker_add_task, queue_push_back
  <2>2. w \in 0 .. worker_count
    BY WorkerCountAssumption DEF Workers
  <2>3. spawned' \in Nat
    BY <1>0, <1>4 DEF TypeOK, worker_add_task
  <2>4. at' \in [Workers -> 0 .. worker_count] /\ pc' \in [Workers -> Labels]
    BY <1>0, <1>4, <2>2 DEF TypeOK, worker_add_task, Goto, Labels
  <2> QED BY <1>0, <1>4, <2>1, <2>3, <2>4 DEF TypeOK, worker_add_task, mainVars
<1>5. CASE HandleReturn(w)
  <2>1. id[w] \in Workers
    BY <1>0 DEF TypeOK
  <2>2. id[w] \in 0 .. worker_count
    BY <2>1, WorkerCountAssumption DEF Workers
  <2>3. stray' \in BOOLEAN
    BY <1>5, Zenon DEF HandleReturn
  <2>4. at' \in [Workers -> 0 .. worker_count] /\ pc' \in [Workers -> Labels]
    BY <1>0, <1>5, <2>2 DEF TypeOK, HandleReturn, Goto, Labels
  <2> QED BY <1>0, <1>5, <2>3, <2>4 DEF TypeOK, HandleReturn, mainVars
<1>6. CASE CounterLoad(w)
  <2>0. at[w] \in Workers
    BY <1>0, <1>6 DEF Cells, Counting, CounterLoad
  <2>1. counter[at[w]] \in Int
    BY <1>0, <2>0 DEF TypeOK
  <2> QED BY <1>0, <1>6, <2>1 DEF TypeOK, CounterLoad, mainVars, Goto, Labels
<1>7. CASE stats_counter_per_thread_add1(w)
  <2>0. reg[w] \in Int /\ reg[w] + 1 \in Int
    BY <1>0 DEF TypeOK
  <2>1. counter' \in [Workers -> Int]
    BY <1>0, <1>7, <2>0 DEF TypeOK, stats_counter_per_thread_add1
  <2>2. torn' \in BOOLEAN
    BY <1>7, Zenon DEF stats_counter_per_thread_add1
  <2>3. /\ at' \in [Workers -> 0 .. worker_count] /\ reg' \in [Workers -> Int]
        /\ pc' \in [Workers -> Labels]
    BY <1>0, <1>7 DEF TypeOK, stats_counter_per_thread_add1, Goto, StartTotal, Labels
  <2> QED BY <1>0, <1>7, <2>1, <2>2, <2>3
          DEF TypeOK, stats_counter_per_thread_add1, mainVars
<1>8. CASE stats_counter_per_thread_sub1(w)
  <2>0. reg[w] \in Int /\ reg[w] - 1 \in Int
    BY <1>0 DEF TypeOK
  <2>1. counter' \in [Workers -> Int]
    BY <1>0, <1>8, <2>0 DEF TypeOK, stats_counter_per_thread_sub1
  <2>2. torn' \in BOOLEAN
    BY <1>8, Zenon DEF stats_counter_per_thread_sub1
  <2>3. /\ at' \in [Workers -> 0 .. worker_count] /\ reg' \in [Workers -> Int]
        /\ pc' \in [Workers -> Labels]
    BY <1>0, <1>8 DEF TypeOK, stats_counter_per_thread_sub1, Goto, StartTotal, Labels
  <2> QED BY <1>0, <1>8, <2>1, <2>2, <2>3
          DEF TypeOK, stats_counter_per_thread_sub1, mainVars
<1> QED BY <1>1, <1>2, <1>3, <1>4, <1>5, <1>6, <1>7, <1>8
        DEF WorkerStep, worker_next_task, worker_steal_task

\* A step of the main thread starts threads in order and touches no cell
\* that a running worker is counting in.
LEMMA MainControl ==
  ASSUME IInv, MainStep
  PROVE  Cells' /\ NotStarted' /\ OwnCell'
<1> USE IndexFacts
<1>0. TypeOK /\ Cells /\ NotStarted /\ OwnCell
  BY DEF IInv
<1>1. CASE scheduler_prepare
  <2>1. \A w \in Workers : 
          pc[w] = "none" /\ pc'[w] = "none" /\ at'[w] = at[w] /\ reg'[w] = reg[w]
    BY <1>0, <1>1 DEF NotStarted, scheduler_prepare
  <2>2. Cells' /\ NotStarted'
    BY <1>0, <2>1 DEF Cells, NotStarted, Counting
  <2>3. OwnCell'
    BY <1>0, <1>1, <2>1 DEF OwnCell, LossNeedsStrayId, Counting, scheduler_prepare
  <2> QED BY <2>2, <2>3
<1>2. CASE thread_start
  <2>1. index \in Workers /\ pc[index] = "none"
    BY <1>0, <1>2 DEF TypeOK, NotStarted, thread_start
  <2>2. Cells'
    BY <1>0, <1>2 DEF TypeOK, Cells, Counting, thread_start, Goto
  <2>3. NotStarted'
    BY <1>0, <1>2, <2>1 DEF TypeOK, NotStarted, thread_start, Goto
  <2>4. OwnCell'
    BY <1>0, <1>2 DEF TypeOK, OwnCell, LossNeedsStrayId, Counting, thread_start, Goto
  <2> QED BY <2>2, <2>3, <2>4
<1>3. CASE thread_pool_start
  <2>1. index \in Workers
    BY <1>0, <1>3 DEF TypeOK, thread_pool_start
  <2>2. NotStarted'
    <3>1. CASE index + 1 < worker_count
      BY <1>0, <1>3, <2>1, <3>1 DEF NotStarted, thread_pool_start
    <3>2. CASE ~(index + 1 < worker_count)
      BY <1>3, <3>2 DEF NotStarted, thread_pool_start
    <3> QED BY <3>1, <3>2
  <2>3. Cells' /\ OwnCell'
    BY <1>0, <1>3 DEF Cells, OwnCell, LossNeedsStrayId, Counting, thread_pool_start
  <2> QED BY <2>2, <2>3
<1>4. CASE thread_pool_join_all
  BY <1>0, <1>4
  DEF Cells, NotStarted, OwnCell, LossNeedsStrayId, Counting, thread_pool_join_all
<1> QED BY <1>1, <1>2, <1>3, <1>4 DEF MainStep

\* A worker's step keeps the discipline of the cells.
LEMMA WorkerControl ==
  ASSUME IInv, NEW w \in Workers, WorkerStep(w)
  PROVE  Cells' /\ NotStarted' /\ OwnCell'
<1>0. TypeOK /\ Cells /\ NotStarted /\ OwnCell
  BY DEF IInv
<1>1. CASE stats_counter_total(w)
  BY <1>0, <1>1
  DEF TypeOK, Cells, NotStarted, OwnCell, LossNeedsStrayId, Counting,
      stats_counter_total, mainVars
<1>2. CASE scheduler_no_more_tasks(w)
  BY <1>0, <1>2
  DEF TypeOK, Cells, NotStarted, OwnCell, LossNeedsStrayId, Counting,
      scheduler_no_more_tasks, mainVars, Goto, StartTotal
<1>3. ASSUME NEW v \in Workers, pc[w] \in {"next", "steal"}, TakeFrom(w, v)
      PROVE  Cells' /\ NotStarted' /\ OwnCell'
  BY <1>0, <1>3
  DEF TypeOK, Cells, NotStarted, OwnCell, LossNeedsStrayId, Counting,
      TakeFrom, mainVars, Goto
<1>4. CASE worker_add_task(w)
  BY <1>0, <1>4
  DEF TypeOK, Cells, NotStarted, OwnCell, LossNeedsStrayId, Counting,
      worker_add_task, mainVars, Goto
<1>5. CASE HandleReturn(w)
  <2>1. Cells' /\ NotStarted'
    BY <1>0, <1>5 DEF TypeOK, Cells, NotStarted, Counting, HandleReturn, mainVars, Goto
  <2>2. /\ stray => stray'
        /\ ~stray' => ~stray /\ id[w] = w
    BY <1>5 DEF HandleReturn
  <2>3. OwnCell'
    BY <1>0, <1>5, <2>2 DEF TypeOK, OwnCell, LossNeedsStrayId, Counting, HandleReturn, Goto
  <2> QED BY <2>1, <2>3
<1>6. CASE CounterLoad(w)
  BY <1>0, <1>6
  DEF TypeOK, Cells, NotStarted, OwnCell, LossNeedsStrayId, Counting,
      CounterLoad, mainVars, Goto
<1>7. CASE stats_counter_per_thread_add1(w)
  <2>1. Cells' /\ NotStarted'
    BY <1>0, <1>7
    DEF TypeOK, Cells, NotStarted, Counting, stats_counter_per_thread_add1,
        mainVars, Goto, StartTotal
  <2>2. ~stray => ~torn'
    <3>1. ~stray => ~torn /\ at[w] = w /\ reg[w] = counter[w]
      BY <1>0, <1>7 DEF OwnCell, LossNeedsStrayId, Counting, stats_counter_per_thread_add1
    <3>2. torn' <=> torn \/ counter[at[w]] # reg[w]
      BY <1>7, Zenon DEF stats_counter_per_thread_add1
    <3> QED BY <3>1, <3>2
  <2>3. OwnCell'
    BY <1>0, <1>7, <2>2
    DEF TypeOK, OwnCell, LossNeedsStrayId, Counting,
        stats_counter_per_thread_add1, Goto, StartTotal
  <2> QED BY <2>1, <2>3
<1>8. CASE stats_counter_per_thread_sub1(w)
  <2>1. Cells' /\ NotStarted'
    BY <1>0, <1>8
    DEF TypeOK, Cells, NotStarted, Counting, stats_counter_per_thread_sub1,
        mainVars, Goto, StartTotal
  <2>2. ~stray => ~torn'
    <3>1. ~stray => ~torn /\ at[w] = w /\ reg[w] = counter[w]
      BY <1>0, <1>8 DEF OwnCell, LossNeedsStrayId, Counting, stats_counter_per_thread_sub1
    <3>2. torn' <=> torn \/ counter[at[w]] # reg[w]
      BY <1>8, Zenon DEF stats_counter_per_thread_sub1
    <3> QED BY <3>1, <3>2
  <2>3. OwnCell'
    BY <1>0, <1>8, <2>2
    DEF TypeOK, OwnCell, LossNeedsStrayId, Counting,
        stats_counter_per_thread_sub1, Goto, StartTotal
  <2> QED BY <2>1, <2>3
<1> QED BY <1>1, <1>2, <1>3, <1>4, <1>5, <1>6, <1>7, <1>8
        DEF WorkerStep, worker_next_task, worker_steal_task

----------------------------------------------------------------------------
\* Every worker accounts for a natural number of tasks.
LEMMA LoadsType == TypeOK => Loads \in [Workers -> Nat]
<1> SUFFICES ASSUME TypeOK, NEW w \in Workers PROVE Load(w) \in Nat
  BY DEF Loads
<1>1. queue[w] \in Nat
  BY DEF TypeOK
<1>2. pc[w] \in Adding => pc[w] \in Holding
  BY DEF Adding, Holding
<1> QED BY <1>1, <1>2 DEF Load

\* The same, after a step.
LEMMA LoadsTypeNext == TypeOK' => Loads' \in [Workers -> Nat]
<1> SUFFICES ASSUME TypeOK', NEW w \in Workers PROVE Load(w)' \in Nat
  BY DEF Loads
<1>1. queue'[w] \in Nat
  BY DEF TypeOK
<1>2. pc'[w] \in Adding => pc'[w] \in Holding
  BY DEF Adding, Holding
<1> QED BY <1>1, <1>2 DEF Load

\* A step that counts nothing and moves no task keeps the balance, if it
\* leaves some worker watching.
LEMMA NeutralStep ==
  ASSUME IInv, counter' = counter, Loads' = Loads, torn' = torn, dropped' = dropped,
         \A p : IsPrefix(p, counter) /\ Watched(p) => Watched(p)'
  PROVE  Balance'
<1>1. PICK p, g : Balanced(p, g)
  BY DEF IInv, Balance
<1>2. Balanced(p, g)'
  BY <1>1 DEF Balanced, IsPrefix
<1> QED BY <1>2 DEF Balance

\* A step that changes one cell by c, the load of one worker by d and the
\* number of dropped tasks by e keeps the balance if c = d + e, and if some
\* worker watches afterwards whatever the total.
LEMMA CountStep ==
  ASSUME IInv, TypeOK',
         NEW k \in Workers, NEW c \in Int, counter'[k] = counter[k] + c,
         \A u \in Workers : u # k => counter'[u] = counter[u],
         NEW w \in Workers, NEW d \in Int, Loads'[w] = Loads[w] + d,
         \A u \in Workers : u # w => Loads'[u] = Loads[u],
         NEW e \in Int, dropped' = dropped + e,
         ~torn' => ~torn /\ c = d + e,
         \A q : q[0] = 0 => Watched(q)'
  PROVE  Balance'
<1>0. TypeOK
  BY DEF IInv
<1>1. PICK p, g : Balanced(p, g)
  BY DEF IInv, Balance
<1>2. /\ counter \in [Workers -> Int] /\ counter' \in [Workers -> Int]
      /\ Loads \in [Workers -> Int] /\ Loads' \in [Workers -> Int]
  BY <1>0, LoadsType, LoadsTypeNext DEF TypeOK
<1>3. /\ IsPrefix(Shift(p, k, c), counter')
      /\ Shift(p, k, c)[worker_count] = p[worker_count] + c
      /\ Shift(p, k, c)[0] = 0
  BY <1>1, <1>2, PrefixShift DEF Balanced
<1>4. /\ IsPrefix(Shift(g, w, d), Loads')
      /\ Shift(g, w, d)[worker_count] = g[worker_count] + d
  <2>1. IsPrefix(g, Loads)
    BY <1>1 DEF Balanced
  <2> QED BY <1>2, <2>1, PrefixShift
<1>5. ~torn' => p[worker_count] + c = g[worker_count] + d + dropped'
  <2>1. g[worker_count] \in Int /\ p[worker_count] \in Int /\ dropped \in Int
    BY <1>0, <1>1, WorkerCountAssumption DEF Balanced, IsPrefix, TypeOK, Positions
  <2> QED BY <1>1, <2>1 DEF Balanced
<1>6. Balanced(Shift(p, k, c), Shift(g, w, d))'
  BY <1>3, <1>4, <1>5 DEF Balanced, IsPrefix, Shift
<1> QED BY <1>6 DEF Balance

\* A step of the main thread keeps the balance.
LEMMA MainBalance ==
  ASSUME IInv, MainStep, TypeOK'
  PROVE  Balance'
<1> USE IndexFacts
<1>0. TypeOK /\ Cells /\ NotStarted
  BY DEF IInv
<1>1. CASE scheduler_prepare /\ loaded > 0
  <2>0. PICK w \in Workers : w = index % worker_count
    BY <1>0
  <2>1. \A u \in Workers : pc[u] = "none" /\ pc'[u] = "none"
    BY <1>0, <1>1 DEF NotStarted, scheduler_prepare
  <2>2. /\ counter'[w] = counter[w] + 1
        /\ \A u \in Workers : u # w => counter'[u] = counter[u]
        /\ torn' = torn /\ queue_push_back(w)
    BY <1>0, <1>1, <2>0 DEF TypeOK, scheduler_prepare
  <2>3. \A u \in Workers : Loads[u] = queue[u] /\ Loads'[u] = queue'[u]
    <3>1. \A u \in Workers : queue[u] \in Nat /\ queue'[u] \in Nat
      BY <1>0 DEF TypeOK
    <3> QED BY <2>1, <3>1 DEF Loads, Load, Holding, Adding
  <2>4. ASSUME NEW q PROVE Watched(q)'
    <3>1. pc'[0] # "exited" /\ pc'[0] \notin {"check", "scan"} /\ 0 \in Workers
      BY <1>0, <2>1
    <3> QED BY <3>1 DEF Watched
  <2>5. CASE queue[w] < Capacity
    <3>1. /\ Loads'[w] = Loads[w] + 1
          /\ \A u \in Workers : u # w => Loads'[u] = Loads[u]
          /\ dropped' = dropped + 0
      BY <1>0, <2>2, <2>3, <2>5 DEF TypeOK, queue_push_back
    <3> QED BY <2>2, <2>4, <3>1, CountStep
  <2>6. CASE ~(queue[w] < Capacity)
    <3>1. /\ Loads'[w] = Loads[w] + 0
          /\ \A u \in Workers : u # w => Loads'[u] = Loads[u]
          /\ dropped' = dropped + 1
      BY <1>0, <2>2, <2>3, <2>6 DEF TypeOK, queue_push_back
    <3> QED BY <2>2, <2>4, <3>1, CountStep
  <2> QED BY <2>5, <2>6
<1>2. CASE scheduler_prepare /\ ~(loaded > 0)
  <2>1. counter' = counter /\ torn' = torn /\ dropped' = dropped
        /\ queue' = queue /\ pc' = pc /\ reg' = reg /\ at' = at
    BY <1>2 DEF scheduler_prepare
  <2>2. Loads' = Loads
    BY <2>1 DEF Loads, Load
  <2>3. \A p : Watched(p) => Watched(p)'
    BY <2>1 DEF Watched
  <2> QED BY <2>1, <2>2, <2>3, NeutralStep
<1>3. CASE thread_start
  <2>1. index \in Workers /\ pc[index] = "none" /\ at[index] = 0 /\ reg[index] = 0
    BY <1>0, <1>3 DEF TypeOK, NotStarted, Cells, thread_start
  <2>2. counter' = counter /\ torn' = torn /\ dropped' = dropped
    BY <1>3 DEF thread_start
  <2>3. Loads' = Loads
    BY <1>0, <1>3, <2>1 DEF TypeOK, thread_start, Goto, Loads, Load, Holding, Adding
  <2>4. ASSUME NEW p, IsPrefix(p, counter), Watched(p) PROVE Watched(p)'
    BY <1>0, <1>3, <2>1, <2>4
    DEF TypeOK, thread_start, Goto, Watched, Holding, IsPrefix
  <2> QED BY <2>2, <2>3, <2>4, NeutralStep
<1>4. CASE thread_pool_start \/ thread_pool_join_all
  <2>1. counter' = counter /\ torn' = torn /\ dropped' = dropped
        /\ queue' = queue /\ pc' = pc /\ reg' = reg /\ at' = at
    BY <1>4 DEF thread_pool_start, thread_pool_join_all
  <2>2. Loads' = Loads
    BY <2>1 DEF Loads, Load
  <2>3. \A p : Watched(p) => Watched(p)'
    BY <2>1 DEF Watched
  <2> QED BY <2>1, <2>2, <2>3, NeutralStep
<1> QED BY <1>1, <1>2, <1>3, <1>4 DEF MainStep

\* A step of a worker keeps the balance.
LEMMA WorkerBalance ==
  ASSUME IInv, NEW w \in Workers, WorkerStep(w), TypeOK'
  PROVE  Balance'
<1>0. TypeOK /\ Cells
  BY DEF IInv
<1>1. CASE stats_counter_total(w)
  <2>1. counter' = counter /\ torn' = torn /\ dropped' = dropped
        /\ queue' = queue /\ pc' = pc
    BY <1>1 DEF stats_counter_total
  <2>2. Loads' = Loads
    BY <2>1 DEF Loads, Load
  <2>3. at[w] \in Workers
    <3>1. at[w] \in 0 .. worker_count /\ at[w] < worker_count
      BY <1>0, <1>1 DEF TypeOK, stats_counter_total
    <3> QED BY <3>1, WorkerCountAssumption DEF Workers
  <2>4. ASSUME NEW p, IsPrefix(p, counter), Watched(p) PROVE Watched(p)'
    <3>1. p[at[w] + 1] = p[at[w]] + counter[at[w]]
      BY <2>3, <2>4 DEF IsPrefix
    <3> QED BY <1>0, <1>1, <2>4, <3>1 DEF TypeOK, stats_counter_total, Watched
  <2> QED BY <2>1, <2>2, <2>4, NeutralStep
<1>2. CASE scheduler_no_more_tasks(w)
  <2>1. counter' = counter /\ torn' = torn /\ dropped' = dropped
    BY <1>2 DEF scheduler_no_more_tasks
  <2>2. Loads' = Loads
    BY <1>0, <1>2
    DEF TypeOK, scheduler_no_more_tasks, Goto, Loads, Load, Holding, Adding
  <2>3. ASSUME NEW p, IsPrefix(p, counter), Watched(p) PROVE Watched(p)'
    BY <1>0, <1>2, <2>3
    DEF TypeOK, scheduler_no_more_tasks, Goto, StartTotal, Watched, Holding
  <2> QED BY <2>1, <2>2, <2>3, NeutralStep
<1>3. ASSUME NEW v \in Workers, pc[w] \in {"next", "steal"}, TakeFrom(w, v)
      PROVE  Balance'
  <2>1. counter' = counter /\ torn' = torn /\ dropped' = dropped
        /\ reg' = reg /\ at' = at
    BY <1>3 DEF TakeFrom
  <2>2. CASE queue[v] > 0
    <3>1. PICK p, g : Balanced(p, g)
      BY DEF IInv, Balance
    <3>2. Loads \in [Workers -> Int] /\ Loads' \in [Workers -> Int]
      BY <1>0, LoadsType, LoadsTypeNext
    <3> DEFINE h == [Loads EXCEPT ![v] = Loads[v] - 1]
    <3>3. /\ h \in [Workers -> Int] /\ h[v] = Loads[v] + (-1)
          /\ \A u \in Workers : u # v => h[u] = Loads[u]
      BY <3>2
    <3>4. /\ Loads'[w] = h[w] + 1
          /\ \A u \in Workers : u # w => Loads'[u] = h[u]
      BY <1>0, <1>3, <2>2, <3>2, <3>3
      DEF TypeOK, TakeFrom, Goto, Loads, Load, Holding, Adding
    <3> HIDE DEF h
    <3>5. /\ IsPrefix(Shift(g, v, -1), h)
          /\ Shift(g, v, -1)[worker_count] = g[worker_count] + (-1)
      <4>1. IsPrefix(g, Loads)
        BY <3>1 DEF Balanced
      <4> QED BY <3>2, <3>3, <4>1, PrefixShift
    <3>6. /\ IsPrefix(Shift(Shift(g, v, -1), w, 1), Loads')
          /\ Shift(Shift(g, v, -1), w, 1)[worker_count] = g[worker_count] + (-1) + 1
      BY <3>2, <3>3, <3>4, <3>5, PrefixShift
    <3>7. g[worker_count] \in Int
      BY <3>1, WorkerCountAssumption DEF Balanced, IsPrefix, Positions
    <3>8. Watched(p)'
      BY <1>0, <1>3, <2>2 DEF TypeOK, TakeFrom, Goto, Watched, Holding
    <3>9. Balanced(p, Shift(Shift(g, v, -1), w, 1))'
      BY <2>1, <3>1, <3>6, <3>7, <3>8 DEF Balanced, IsPrefix, Shift
    <3> QED BY <3>9 DEF Balance
  <2>3. CASE ~(queue[v] > 0)
    <3>1. Loads' = Loads
      BY <1>0, <1>3, <2>3 DEF TypeOK, TakeFrom, Goto, Loads, Load, Holding, Adding
    <3>2. at[w] = 0 /\ reg[w] = 0
      BY <1>0, <1>3 DEF Cells
    <3>3. ASSUME NEW p, IsPrefix(p, counter), Watched(p) PROVE Watched(p)'
      BY <1>0, <1>3, <2>3, <3>2, <3>3
      DEF TypeOK, TakeFrom, Goto, Watched, Holding, IsPrefix
    <3> QED BY <2>1, <3>1, <3>3, NeutralStep
  <2> QED BY <2>2, <2>3
<1>4. CASE worker_add_task(w)
  <2>1. counter' = counter /\ torn' = torn
    BY <1>4 DEF worker_add_task
  <2>2. \A q : Watched(q)'
    BY <1>0, <1>4 DEF TypeOK, worker_add_task, Goto, Watched, Holding
  <2>3. CASE queue[w] < Capacity
    <3>1. Loads' = Loads /\ dropped' = dropped
      BY <1>0, <1>4, <2>3
      DEF TypeOK, worker_add_task, queue_push_back, Goto, Loads, Load, Holding, Adding
    <3> QED BY <2>1, <2>2, <3>1, NeutralStep
  <2>4. CASE ~(queue[w] < Capacity)
    <3>1. /\ Loads'[w] = Loads[w] + (-1)
          /\ \A u \in Workers : u # w => Loads'[u] = Loads[u]
          /\ dropped' = dropped + 1
      BY <1>0, <1>4, <2>4
      DEF TypeOK, worker_add_task, queue_push_back, Goto, Loads, Load, Holding, Adding
    <3>2. counter'[w] = counter[w] + 0
      BY <1>0, <2>1 DEF TypeOK
    <3>3. /\ \A u \in Workers : u # w => counter'[u] = counter[u]
          /\ ~torn' => ~torn /\ 0 = (-1) + 1
          /\ \A q : q[0] = 0 => Watched(q)'
          /\ -1 \in Int /\ 0 \in Int /\ 1 \in Int
      BY <2>1, <2>2
    <3> QED BY <3>1, <3>2, <3>3, CountStep
  <2> QED BY <2>3, <2>4
<1>5. CASE HandleReturn(w) \/ CounterLoad(w)
  <2>1. counter' = counter /\ torn' = torn /\ dropped' = dropped
    BY <1>5 DEF HandleReturn, CounterLoad
  <2>2. Loads' = Loads
    BY <1>0, <1>5
    DEF TypeOK, HandleReturn, CounterLoad, Goto, Loads, Load, Holding, Adding
  <2>3. \A q : Watched(q)'
    BY <1>0, <1>5 DEF TypeOK, HandleReturn, CounterLoad, Goto, Watched, Holding
  <2> QED BY <2>1, <2>2, <2>3, NeutralStep
<1>6. CASE stats_counter_per_thread_add1(w)
  <2>1. PICK k \in Workers : k = at[w]
    BY <1>0, <1>6 DEF Cells, Counting, stats_counter_per_thread_add1
  <2>2. PICK c \in Int : c = reg[w] + 1 - counter[k]
    BY <1>0 DEF TypeOK
  <2>3. /\ counter'[k] = counter[k] + c
        /\ \A u \in Workers : u # k => counter'[u] = counter[u]
        /\ dropped' = dropped + 0
    BY <1>0, <1>6, <2>1, <2>2 DEF TypeOK, stats_counter_per_thread_add1
  <2>4. /\ Loads'[w] = Loads[w] + (1)
        /\ \A u \in Workers : u # w => Loads'[u] = Loads[u]
    BY <1>0, <1>6
    DEF TypeOK, stats_counter_per_thread_add1, Goto, Loads, Load, Holding, Adding
  <2>5. ~torn' => ~torn /\ c = (1) + 0
    <3>1. torn' <=> torn \/ counter[at[w]] # reg[w]
      BY <1>6, Zenon DEF stats_counter_per_thread_add1
    <3>2. reg[w] \in Int
      BY <1>0 DEF TypeOK
    <3> QED BY <2>1, <2>2, <3>1, <3>2
  <2>6. \A q : Watched(q)'
    BY <1>0, <1>6 DEF TypeOK, stats_counter_per_thread_add1, Goto, Watched, Holding
  <2> QED BY <2>3, <2>4, <2>5, <2>6, CountStep
<1>7. CASE stats_counter_per_thread_sub1(w)
  <2>1. PICK k \in Workers : k = at[w]
    BY <1>0, <1>7 DEF Cells, Counting, stats_counter_per_thread_sub1
  <2>2. PICK c \in Int : c = reg[w] - 1 - counter[k]
    BY <1>0 DEF TypeOK
  <2>3. /\ counter'[k] = counter[k] + c
        /\ \A u \in Workers : u # k => counter'[u] = counter[u]
        /\ dropped' = dropped + 0
    BY <1>0, <1>7, <2>1, <2>2 DEF TypeOK, stats_counter_per_thread_sub1
  <2>4. /\ Loads'[w] = Loads[w] + (-1)
        /\ \A u \in Workers : u # w => Loads'[u] = Loads[u]
    BY <1>0, <1>7
    DEF TypeOK, stats_counter_per_thread_sub1, Goto, Loads, Load, Holding, Adding
  <2>5. ~torn' => ~torn /\ c = (-1) + 0
    <3>1. torn' <=> torn \/ counter[at[w]] # reg[w]
      BY <1>7, Zenon DEF stats_counter_per_thread_sub1
    <3>2. reg[w] \in Int
      BY <1>0 DEF TypeOK
    <3> QED BY <2>1, <2>2, <3>1, <3>2
  <2>6. ASSUME NEW q, q[0] = 0 PROVE Watched(q)'
    <3>1. pc'[w] = "check" /\ at'[w] = 0 /\ reg'[w] = 0
      BY <1>0, <1>7 DEF TypeOK, stats_counter_per_thread_sub1, Goto, StartTotal
    <3> QED BY <2>6, <3>1 DEF Watched
  <2> QED BY <2>3, <2>4, <2>5, <2>6, CountStep
<1> QED BY <1>1, <1>2, <1>3, <1>4, <1>5, <1>6, <1>7
        DEF WorkerStep, worker_next_task, worker_steal_task

----------------------------------------------------------------------------
\* The invariant is inductive.
LEMMA NextIInv == IInv /\ [Next]_vars => IInv'
<1> SUFFICES ASSUME IInv, [Next]_vars PROVE IInv'
  OBVIOUS
<1>1. CASE MainStep
  BY <1>1, MainType, MainControl, MainBalance DEF IInv
<1>2. ASSUME NEW w \in Workers, WorkerStep(w) PROVE IInv'
  BY <1>2, WorkerType, WorkerControl, WorkerBalance DEF IInv
<1>3. CASE UNCHANGED vars
  <2>1. TypeOK' /\ Cells' /\ NotStarted' /\ OwnCell'
    BY <1>3 DEF IInv, TypeOK, Cells, NotStarted, OwnCell, LossNeedsStrayId, vars
  <2>2. Loads' = Loads
    BY <1>3 DEF Loads, Load, vars
  <2>3. \A p : Watched(p) => Watched(p)'
    BY <1>3 DEF Watched, vars
  <2>4. Balance'
    BY <1>3, <2>2, <2>3, NeutralStep DEF vars
  <2> QED BY <2>1, <2>4 DEF IInv
<1> QED BY <1>1, <1>2, <1>3 DEF Next, Terminated

\* In every reachable state the inductive invariant holds.
THEOREM Invariance == Spec => []IInv
  BY InitIInv, NextIInv, PTL DEF Spec

\* Type correctness for every number of workers and tasks: in particular a
\* worker never counts outside the cells of the stats_counter.
THEOREM TypeCorrect == Spec => []TypeOK
<1>1. IInv => TypeOK
  BY DEF IInv
<1> QED BY <1>1, Invariance, PTL

\* For every number of workers: no update of a counter is lost unless a
\* thread counted under an id that thread_pool_start had not yet set.
THEOREM LossesAreStray == Spec => []LossNeedsStrayId
<1>1. IInv => LossNeedsStrayId
  BY DEF IInv, OwnCell
<1> QED BY <1>1, Invariance, PTL

\* Total adds up the prefix sums.
LEMMA TotalIsPrefix ==
  ASSUME NEW p, NEW f, IsPrefix(p, f)
  PROVE  Total(f) = p[worker_count]
<1> DEFINE body(g) == [i \in 0 .. worker_count |-> IF i = 0 THEN 0 ELSE g[i - 1] + f[i - 1]]
           sum == CHOOSE g : g = body(g)
<1>1. Total(f) = sum[worker_count]
  BY DEF Total
<1>2. p = body(p)
  <2>1. ASSUME NEW i \in Positions PROVE p[i] = IF i = 0 THEN 0 ELSE p[i - 1] + f[i - 1]
    <3>1. CASE i = 0
      BY <3>1 DEF IsPrefix
    <3>2. CASE i # 0
      <4>1. i - 1 \in Workers /\ (i - 1) + 1 = i
        BY <3>2, WorkerCountAssumption DEF Workers, Positions
      <4> QED BY <3>2, <4>1 DEF IsPrefix
    <3> QED BY <3>1, <3>2
  <2> QED BY <2>1 DEF IsPrefix, Positions
<1>3. sum = body(sum)
  <2> HIDE DEF body
  <2> QED BY <1>2
<1> HIDE DEF sum
<1>4. \A i \in Positions : sum[i] = IF i = 0 THEN 0 ELSE sum[i - 1] + f[i - 1]
  BY <1>3 DEF Positions
<1>5. \A i \in Positions : p[i] = IF i = 0 THEN 0 ELSE p[i - 1] + f[i - 1]
  BY <1>2 DEF Positions
<1> DEFINE T == {i \in Positions : sum[i] # p[i]}
<1>6. T = {}
  <2> SUFFICES ASSUME T # {} PROVE FALSE
    OBVIOUS
  <2>1. T \subseteq Nat
    BY WorkerCountAssumption DEF Positions
  <2>2. PICK i \in T : \A j \in T : i <= j
    BY <2>1, LeastElement
  <2>3. i # 0
    BY <1>4, <1>5
  <2>4. i - 1 \in Positions /\ ~(i <= i - 1)
    BY <2>3, WorkerCountAssumption DEF Positions
  <2>5. sum[i - 1] = p[i - 1]
    BY <2>2, <2>4
  <2> QED BY <1>4, <1>5, <2>3, <2>5
<1>7. worker_count \in Positions
  BY WorkerCountAssumption DEF Positions
<1> QED BY <1>1, <1>6, <1>7

\* For every number of workers and tasks: the cells that stats_counter_total
\* adds up come to the unfinished tasks, unless an update was lost.
THEOREM CountersAddUp == Spec => []Accounting
<1>1. IInv => Accounting
  <2> SUFFICES ASSUME IInv PROVE Accounting
    OBVIOUS
  <2>1. PICK p, g : Balanced(p, g)
    BY DEF IInv, Balance
  <2>2. Total(counter) = p[worker_count] /\ Total(Loads) = g[worker_count]
    BY <2>1, TotalIsPrefix DEF Balanced
  <2>3. Loads = [w \in Workers |-> Load(w)]
    BY DEF Loads
  <2> QED BY <2>1, <2>2, <2>3 DEF IInv, Accounting, Balanced
<1> QED BY <1>1, Invariance, PTL

\* The stop condition of the scheduler is safe for every number of workers,
\* tasks and every interleaving of their counting and adding up: when all
\* workers have left, no task is left in a queue and none was dropped.
THEOREM StopIsSafe == Spec => []NoTaskLeft
<1>1. IInv => NoTaskLeft
  <2> SUFFICES ASSUME IInv, AllExited, ~torn
               PROVE  dropped = 0 /\ \A w \in Workers : queue[w] = 0
    BY DEF NoTaskLeft
  <2>1. PICK p, g : Balanced(p, g)
    BY DEF IInv, Balance
  <2>2. \A w \in Workers : queue[w] \in Nat
    BY DEF IInv, TypeOK
  <2>3. \A w \in Workers : Loads[w] = queue[w]
    BY <2>2 DEF AllExited, Loads, Load, Holding, Adding
  <2>4. p[worker_count] = 0
    BY <2>1 DEF AllExited, Balanced, Watched, Holding
  <2>5. Loads \in [Workers -> Nat] /\ IsPrefix(g, Loads)
    BY <2>1, LoadsType DEF IInv, Balanced
  <2>6. /\ g[worker_count] \in Nat
        /\ g[worker_count] = 0 => \A w \in Workers : Loads[w] = 0
    BY <2>5, PrefixZero
  <2>7. 0 = g[worker_count] + dropped /\ dropped \in Nat
    BY <2>1, <2>4 DEF Balanced, IInv, TypeOK
  <2>8. dropped = 0 /\ g[worker_count] = 0
    BY <2>6, <2>7
  <2> QED BY <2>3, <2>6, <2>8
<1> QED BY <1>1, Invariance, PTL
=============================================================================
