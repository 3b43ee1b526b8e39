----------------------------- MODULE Scheduler -----------------------------
(***************************************************************************)
(* The work-stealing scheduler: core/scheduler.c,                          *)
(* core/worker_work_parallelly.c, core/worker_add_task.c, the thread pool  *)
(* and the per-thread counters of packages/std (thread/, counter/).        *)
(*                                                                         *)
(* The main thread deals the loader's tasks out to the workers, starts one *)
(* thread per worker and joins them.  A worker thread takes tasks from its *)
(* own queue, then steals from random victims, until the number of         *)
(* unfinished tasks is zero.  That number is nowhere kept: every thread    *)
(* counts in a cell of its own, with a plain load and a plain store, and   *)
(* whoever wants the total adds the cells up one by one while the others   *)
(* go on counting.                                                         *)
(*                                                                         *)
(* A queue is the number of tasks in it: TaskQueue shows that pushing and  *)
(* popping are atomic.  Handling a task spawns any number of new tasks.    *)
(* Loads and stores of the counter cells are steps of their own.           *)
(***************************************************************************)
EXTENDS Integers

CONSTANTS
  worker_count,   \* number of workers, one less than the processors
  Capacity,       \* WORKER_TASK_QUEUE_SIZE
  MaxLoaded,      \* bound: tasks in the loader's queue at the start
  MaxSpawned      \* bound: tasks spawned while handling tasks

\* With no worker scheduler_prepare divides by zero, see README.md.
ASSUME WorkerCountAssumption == worker_count \in Nat /\ worker_count > 0
ASSUME CapacityAssumption == Capacity \in Nat
ASSUME BoundAssumption == MaxLoaded \in Nat /\ MaxSpawned \in Nat

Workers == 0 .. worker_count - 1

VARIABLES
  loaded,   \* tasks still in the loader's queue
  queue,    \* per worker: tasks in its task_queue
  counter,  \* the cells of the stats_counter
  main,     \* the main thread: what it does
  index,    \* the main thread: its loop variable
  id,       \* per thread: thread->id
  pc,       \* per worker thread: where it is
  at,       \* per worker thread: the counter cell it works on
  reg,      \* per worker thread: the count it loaded, or the running total
  spawned,  \* tasks spawned so far
  dropped,  \* history: tasks whose push failed
  stray,    \* history: a thread counted under an id that is not its own
  torn      \* history: a store to a counter cell overwrote an update

vars == <<loaded, queue, counter, main, index, id, pc, at, reg,
          spawned, dropped, stray, torn>>
mainVars == <<main, index, id, loaded>>

Phases == {"prepare", "create", "publish", "join", "done"}
Labels == {"none", "check", "next", "scan", "steal", "handle",
           "add_load", "add_store", "sub_load", "sub_store", "exited"}

Goto(w, label) == pc' = [pc EXCEPT ![w] = label]

\* Enter a loop of stats_counter_total.
StartTotal(w) ==
  /\ at' = [at EXCEPT ![w] = 0]
  /\ reg' = [reg EXCEPT ![w] = 0]

\* queue_push_back, whose answer worker_add_task ignores: in a full queue
\* the task is lost.
queue_push_back(w) ==
  IF queue[w] < Capacity
  THEN /\ queue' = [queue EXCEPT ![w] = @ + 1]
       /\ UNCHANGED dropped
  ELSE /\ dropped' = dropped + 1
       /\ UNCHANGED queue

----------------------------------------------------------------------------
Init ==
  /\ loaded \in {n \in 0 .. MaxLoaded : n <= Capacity}
  /\ queue = [w \in Workers |-> 0]
  /\ counter = [w \in Workers |-> 0]
  /\ main = "prepare" /\ index = 0
  /\ id = [w \in Workers |-> 0]
  /\ pc = [w \in Workers |-> "none"]
  /\ at = [w \in Workers |-> 0]
  /\ reg = [w \in Workers |-> 0]
  /\ spawned = 0 /\ dropped = 0
  /\ stray = FALSE /\ torn = FALSE

(* The main thread. *)

\* scheduler_prepare, one round of its loop: the tasks go round robin.  No
\* other thread runs yet, so worker_add_task is one step.
scheduler_prepare ==
  /\ main = "prepare"
  /\ IF loaded > 0
     THEN LET w == index % worker_count IN
            /\ queue_push_back(w)
            /\ counter' = [counter EXCEPT ![w] = @ + 1]
            /\ loaded' = loaded - 1
            /\ index' = index + 1
            /\ UNCHANGED main
     ELSE /\ main' = "create"
          /\ index' = 0
          /\ UNCHANGED <<loaded, queue, counter, dropped>>
  /\ UNCHANGED <<id, pc, at, reg, spawned, stray, torn>>

\* thread_start inside thread_pool_start: the new thread runs from here on,
\* with the zeroed id of a fresh thread_t.
thread_start ==
  /\ main = "create"
  /\ Goto(index, "check")
  /\ main' = "publish"
  /\ UNCHANGED <<loaded, queue, counter, index, id, at, reg,
                 spawned, dropped, stray, torn>>

\* The rest of thread_pool_start: the running thread gets its id.
thread_pool_start ==
  /\ main = "publish"
  /\ id' = [id EXCEPT ![index] = index]
  /\ IF index + 1 < worker_count
     THEN main' = "create" /\ index' = index + 1
     ELSE main' = "join" /\ index' = 0
  /\ UNCHANGED <<loaded, queue, counter, pc, at, reg,
                 spawned, dropped, stray, torn>>

\* thread_pool_join_all, one round of its loop.
thread_pool_join_all ==
  /\ main = "join"
  /\ pc[index] = "exited"
  /\ IF index + 1 < worker_count
     THEN index' = index + 1 /\ UNCHANGED main
     ELSE main' = "done" /\ index' = 0
  /\ UNCHANGED <<loaded, queue, counter, id, pc, at, reg,
                 spawned, dropped, stray, torn>>

(* A worker thread. *)

\* stats_counter_total, one round of its loop; "check" is the loop of
\* worker_thread_fn, "scan" that of worker_steal_task.
stats_counter_total(w) ==
  /\ pc[w] \in {"check", "scan"}
  /\ at[w] < worker_count
  /\ reg' = [reg EXCEPT ![w] = @ + counter[at[w]]]
  /\ at' = [at EXCEPT ![w] = @ + 1]
  /\ UNCHANGED <<mainVars, queue, counter, pc, spawned, dropped, stray, torn>>

\* The answer of scheduler_no_more_tasks: leave the thread function or go on.
scheduler_no_more_tasks(w) ==
  /\ pc[w] \in {"check", "scan"}
  /\ at[w] = worker_count
  /\ Goto(w, IF reg[w] = 0 THEN "exited"
             ELSE IF pc[w] = "check" THEN "next" ELSE "steal")
  /\ StartTotal(w)
  /\ UNCHANGED <<mainVars, queue, counter, spawned, dropped, stray, torn>>

\* Take a task from the queue of victim, which is w itself in
\* worker_next_task and another worker in worker_offer_task.
TakeFrom(w, victim) ==
  /\ IF queue[victim] > 0
     THEN /\ queue' = [queue EXCEPT ![victim] = @ - 1]
          /\ Goto(w, "handle")
     ELSE /\ Goto(w, "scan")
          /\ UNCHANGED queue
  /\ UNCHANGED <<mainVars, counter, at, reg, spawned, dropped, stray, torn>>

worker_next_task(w) ==
  /\ pc[w] = "next"
  /\ TakeFrom(w, w)

\* get_victim_id draws until the victim is another worker.
worker_steal_task(w, victim) ==
  /\ pc[w] = "steal"
  /\ victim # w
  /\ TakeFrom(w, victim)

\* Mutant: the new task is not counted.
worker_add_task_uncounted(w) ==
  /\ pc[w] = "handle"
  /\ spawned < MaxSpawned
  /\ spawned' = spawned + 1
  /\ queue_push_back(w)
  /\ UNCHANGED <<mainVars, counter, pc, at, reg, stray, torn>>

\* Mutant: the new task is counted in a cell that all workers share.
worker_add_task_shared(w) ==
  /\ pc[w] = "handle"
  /\ spawned < MaxSpawned
  /\ spawned' = spawned + 1
  /\ queue_push_back(w)
  /\ Goto(w, "add_load")
  /\ at' = [at EXCEPT ![w] = 0]
  /\ UNCHANGED <<mainVars, counter, reg, stray, torn>>

\* worker_add_task, called while a task is handled: the task is in the queue,
\* and may be stolen and finished, before it is counted.
worker_add_task(w) ==
  /\ pc[w] = "handle"
  /\ spawned < MaxSpawned
  /\ spawned' = spawned + 1
  /\ queue_push_back(w)
  /\ Goto(w, "add_load")
  /\ at' = [at EXCEPT ![w] = w]
  /\ UNCHANGED <<mainVars, counter, reg, stray, torn>>

\* Mutant: the finished task is not counted.
HandleReturnUncounted(w) ==
  /\ pc[w] = "handle"
  /\ Goto(w, "check")
  /\ UNCHANGED <<mainVars, queue, counter, at, reg, spawned, dropped, stray, torn>>

\* worker_handle_task returns; scheduler_task_count_sub1 is called with the
\* id the thread has by now.
HandleReturn(w) ==
  /\ pc[w] = "handle"
  /\ Goto(w, "sub_load")
  /\ at' = [at EXCEPT ![w] = id[w]]
  /\ stray' = (stray \/ id[w] # w)
  /\ UNCHANGED <<mainVars, queue, counter, reg, spawned, dropped, torn>>

\* The load of stats_counter_per_thread_add1 and of ..._sub1.
CounterLoad(w) ==
  /\ \/ pc[w] = "add_load" /\ Goto(w, "add_store")
     \/ pc[w] = "sub_load" /\ Goto(w, "sub_store")
  /\ reg' = [reg EXCEPT ![w] = counter[at[w]]]
  /\ UNCHANGED <<mainVars, queue, counter, at, spawned, dropped, stray, torn>>

stats_counter_per_thread_add1(w) ==
  /\ pc[w] = "add_store"
  /\ counter' = [counter EXCEPT ![at[w]] = reg[w] + 1]
  /\ torn' = (torn \/ counter[at[w]] # reg[w])
  /\ Goto(w, "handle")
  /\ StartTotal(w)
  /\ UNCHANGED <<mainVars, queue, spawned, dropped, stray>>

stats_counter_per_thread_sub1(w) ==
  /\ pc[w] = "sub_store"
  /\ counter' = [counter EXCEPT ![at[w]] = reg[w] - 1]
  /\ torn' = (torn \/ counter[at[w]] # reg[w])
  /\ Goto(w, "check")
  /\ StartTotal(w)
  /\ UNCHANGED <<mainVars, queue, spawned, dropped, stray>>

MainStep ==
  \/ scheduler_prepare \/ thread_start \/ thread_pool_start
  \/ thread_pool_join_all

WorkerStep(w) ==
  \/ stats_counter_total(w) \/ scheduler_no_more_tasks(w)
  \/ worker_next_task(w)
  \/ \E victim \in Workers : worker_steal_task(w, victim)
  \/ worker_add_task(w) \/ HandleReturn(w) \/ CounterLoad(w)
  \/ stats_counter_per_thread_add1(w) \/ stats_counter_per_thread_sub1(w)

\* worker_work_parallelly has returned.
Terminated == main = "done" /\ UNCHANGED vars

Next == MainStep \/ (\E w \in Workers : WorkerStep(w)) \/ Terminated

Spec == Init /\ [][Next]_vars

\* The operating system runs every thread that can run, and rand() keeps
\* drawing every victim.
Fairness ==
  /\ WF_vars(MainStep)
  /\ \A w \in Workers :
       /\ WF_vars(WorkerStep(w))
       /\ \A victim \in Workers : SF_vars(worker_steal_task(w, victim))

FairSpec == Spec /\ Fairness

----------------------------------------------------------------------------
(* Properties. *)

\* Every variable keeps its type.
TypeOK ==
  /\ loaded \in Nat /\ index \in Nat /\ spawned \in Nat /\ dropped \in Nat
  /\ queue \in [Workers -> Nat]
  /\ counter \in [Workers -> Int]
  /\ main \in Phases
  /\ main \in {"create", "publish", "join"} => index \in Workers
  /\ id \in [Workers -> Workers]
  /\ pc \in [Workers -> Labels]
  /\ at \in [Workers -> 0 .. worker_count]
  /\ reg \in [Workers -> Int]
  /\ stray \in BOOLEAN /\ torn \in BOOLEAN

\* The worker holds a task that it has not yet counted as finished.
Holding == {"handle", "add_load", "add_store", "sub_load", "sub_store"}

\* The worker has pushed a task that it has not yet counted.
Adding == {"add_load", "add_store"}

\* The counted, unfinished tasks a worker accounts for: the tasks in its
\* queue and in its hands, less the one it has pushed and not counted.
Load(w) ==
  queue[w] + (IF pc[w] \in Holding THEN 1 ELSE 0)
           - (IF pc[w] \in Adding THEN 1 ELSE 0)

\* The sum of a function of the workers, one after the other as in
\* stats_counter_total.
Total(f) ==
  LET sum[i \in 0 .. worker_count] == IF i = 0 THEN 0 ELSE sum[i - 1] + f[i - 1]
  IN  sum[worker_count]

AllExited == \A w \in Workers : pc[w] = "exited"

\* As long as no update is lost, the cells of stats_counter.c add up to the
\* counted tasks that are unfinished, a dropped task being one that never
\* finishes, whatever cell a thief or a thread without its id counts in.
Accounting ==
  /\ TypeOK
  /\ ~torn => Total(counter) = Total([w \in Workers |-> Load(w)]) + dropped

\* The verdicts of scheduler_no_more_tasks are formed from cells read at
\* different times, and one worker may leave although tasks are unfinished;
\* but when the last one has left, no task is in any queue, and none was
\* dropped by a full queue either: then some worker keeps looking for it
\* forever.
NoTaskLeft ==
  AllExited /\ ~torn => dropped = 0 /\ \A w \in Workers : queue[w] = 0

\* The cells are written with a load and a store, not atomically: this loses
\* no update unless a thread has counted under an id that thread_pool_start
\* had not yet set.
LossNeedsStrayId == torn => stray

\* What test_stats_counter.c asserts of the counter of a thread pool: when
\* all threads are done, the total is what they have counted.
TotalAfterJoin ==
  main = "done" =>
    Total(counter) = Total([w \in Workers |-> Load(w)]) + dropped

\* worker_work_parallelly returns when the tasks are finitely many, none is
\* dropped and no update is lost.
Termination == <>(main = "done" \/ dropped > 0 \/ torn)
=============================================================================
