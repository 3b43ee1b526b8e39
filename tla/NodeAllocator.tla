--------------------------- MODULE NodeAllocator ---------------------------
(***************************************************************************)
(* Where nodes come from and go to: net/node_allocator.c over              *)
(* packages/std/allocator/allocator.c, called by worker_new_node and       *)
(* worker_recycle_node, and the listing of the allocated nodes in          *)
(* net/allocated_node_iter.c.                                              *)
(*                                                                         *)
(* A worker takes nodes from a free_node_stack of its own and puts them    *)
(* back there.  When it is empty, or too full, the worker exchanges nodes  *)
(* with the stack of the allocator, under a mutex; when that is empty too, *)
(* it makes a batch of new ones.  A node may be recycled by another worker *)
(* than the one that allocated it.  Nodes are numbered by their id, which  *)
(* is also their place in the node_array.                                  *)
(*                                                                         *)
(* The loader's worker builds a net, then the workers of a scheduler run   *)
(* it and are destroyed, for every top-level expression (run_exp).         *)
(***************************************************************************)
EXTENDS Integers, FiniteSets, SequencesExt

CONSTANTS
  Loader,                  \* the worker that loads the module
  Hands,                   \* the workers of a scheduler
  Null,
  batch_size, cache_size,  \* NODE_ALLOCATOR_BATCH_SIZE, ..._CACHE_SIZE
  Listers,                 \* bound: the workers that print nodes
  MaxLive,                 \* bound: nodes in use at one time
  MaxRounds                \* bound: schedulers

ASSUME SizeAssumption ==
  /\ batch_size \in Nat \ {0} /\ cache_size \in Nat \ {0}
  /\ MaxLive \in Nat /\ MaxRounds \in Nat
ASSUME WorkersAssumption ==
  /\ IsFiniteSet(Hands) /\ Hands # {} /\ Loader \notin Hands
  /\ Null \notin Nat \union Hands \union {Loader}

Workers == Hands \union {Loader}

VARIABLES
  node_count,       \* the nodes 1 .. node_count exist
  stack,            \* the stack of the allocator
  mutex,            \* who holds the mutex of the allocator
  free_node_stack,  \* per worker
  is_allocated,     \* the nodes that are marked
  live,             \* the nodes that are part of the net
  phase, rounds,    \* who runs, and the schedulers so far
  lost,             \* the nodes in the stacks of destroyed workers
  pc, hand,         \* per worker: what it does next, the node it deals with
  count,            \* per worker: its loop variable, the cursor of a listing
  listed,           \* per worker: the array that a listing fills
  steady, seen,     \* history, per worker: the nodes in the net all the time,
                    \* and at some time, during its listing
  peak              \* history: how many nodes have been in use at one time

vars == <<node_count, stack, mutex, free_node_stack, is_allocated, live, pc,
          hand, count, listed, steady, seen, peak, phase, rounds, lost>>
global == <<phase, rounds, lost>>
listing == <<listed, steady, seen>>

Nodes == 1 .. node_count

Labels == {"idle", "refill_lock", "refill_test", "refill_move", "batch_lock",
           "batch", "mark", "flush_lock", "flush", "list_lock", "list", "listed",
           "abort"}

Goto(w, label) == pc' = [pc EXCEPT ![w] = label]
Aborted == \E w \in Workers : pc[w] = "abort"

\* The nodes that are in use, or about to be.
Wanted ==
  Cardinality(live) +
  Cardinality({w \in Workers : pc[w] \in {"refill_lock", "refill_test", "refill_move",
                                          "batch_lock", "batch", "mark"}})

----------------------------------------------------------------------------
\* node_allocator_new prepares a first batch.
Init ==
  /\ node_count = batch_size
  /\ stack = [i \in 1 .. batch_size |-> i]
  /\ mutex = Null
  /\ free_node_stack = [w \in Workers |-> <<>>]
  /\ is_allocated = {} /\ live = {}
  /\ pc = [w \in Workers |-> "idle"]
  /\ hand = [w \in Workers |-> Null]
  /\ count = [w \in Workers |-> 0]
  /\ listed = [w \in Workers |-> <<>>]
  /\ steady = [w \in Workers |-> {}]
  /\ seen = [w \in Workers |-> {}]
  /\ peak = 0
  /\ phase = "load" /\ rounds = 0 /\ lost = {}

\* The mutex, for the loop that follows.
mutex_lock(w) ==
  /\ mutex = Null
  /\ mutex' = w
  /\ \/ pc[w] = "refill_lock" /\ Goto(w, "refill_test") /\ UNCHANGED listing
     \/ pc[w] = "batch_lock" /\ Goto(w, "batch") /\ UNCHANGED listing
     \/ pc[w] = "flush_lock" /\ Goto(w, "flush") /\ UNCHANGED listing
     \/ /\ pc[w] = "list_lock" /\ Goto(w, "list")
        /\ steady' = [steady EXCEPT ![w] = live]
        /\ seen' = [seen EXCEPT ![w] = live]
        /\ UNCHANGED listed
  /\ UNCHANGED <<node_count, stack, free_node_stack, is_allocated, live, hand,
                 count, peak, global>>

(* node_allocator_allocate. *)

\* The end of allocator_maybe_allocate: pop from the worker's own stack, or
\* return NULL and let node_allocator_allocate make a batch.
PopFree(w) ==
  IF free_node_stack[w] = <<>>
  THEN Goto(w, "batch_lock") /\ UNCHANGED <<hand, free_node_stack>>
  ELSE /\ hand' = [hand EXCEPT ![w] = Last(free_node_stack[w])]
       /\ free_node_stack' = [free_node_stack EXCEPT ![w] = Front(@)]
       /\ Goto(w, "mark")

node_allocator_allocate(w) ==
  /\ pc[w] = "idle"
  /\ Wanted < MaxLive
  /\ IF free_node_stack[w] = <<>>
     THEN Goto(w, "refill_lock") /\ UNCHANGED <<hand, free_node_stack>>
     ELSE PopFree(w)
  /\ UNCHANGED <<node_count, stack, mutex, is_allocated, live, count, listing, peak, global>>

\* The loop that fills the worker's stack: its tests, and then the end of it
\* with the unlock and the rest of the function.
RefillTest(w) ==
  /\ pc[w] = "refill_test"
  /\ IF count[w] < cache_size /\ stack # <<>>
     THEN Goto(w, "refill_move") /\ UNCHANGED <<mutex, hand, free_node_stack, count>>
     ELSE mutex' = Null /\ count' = [count EXCEPT ![w] = 0] /\ PopFree(w)
  /\ UNCHANGED <<node_count, stack, is_allocated, live, listing, peak, global>>

\* Its body; array_pop asserts that there is something to pop.
RefillMove(w) ==
  /\ pc[w] = "refill_move"
  /\ IF stack = <<>>
     THEN Goto(w, "abort") /\ UNCHANGED <<stack, free_node_stack, count>>
     ELSE /\ stack' = Front(stack)
          /\ free_node_stack' = [free_node_stack EXCEPT ![w] = Append(@, Last(stack))]
          /\ count' = [count EXCEPT ![w] = @ + 1]
          /\ Goto(w, "refill_test")
  /\ UNCHANGED <<node_count, mutex, is_allocated, live, hand, listing, peak, global>>

\* One round of the loop that makes a batch; after the last one
\* node_allocator_allocate tries again.
prepare_one_batch_of_nodes(w) ==
  /\ pc[w] = "batch"
  /\ IF count[w] < batch_size
     THEN /\ node_count' = node_count + 1
          /\ stack' = Append(stack, node_count + 1)
          /\ count' = [count EXCEPT ![w] = @ + 1]
          /\ UNCHANGED <<mutex, pc>>
     ELSE /\ mutex' = Null
          /\ count' = [count EXCEPT ![w] = 0]
          /\ Goto(w, "refill_lock")
          /\ UNCHANGED <<node_count, stack>>
  /\ UNCHANGED <<free_node_stack, is_allocated, live, hand, listing, peak, global>>

\* The node is marked, without the mutex, and becomes part of the net.
MarkAllocated(w) ==
  /\ pc[w] = "mark"
  /\ is_allocated' = is_allocated \union {hand[w]}
  /\ live' = live \union {hand[w]}
  /\ peak' = IF Cardinality(live') > peak THEN Cardinality(live') ELSE peak
  /\ seen' = [v \in Workers |-> IF pc[v] = "list" THEN seen[v] \union {hand[w]} ELSE seen[v]]
  /\ hand' = [hand EXCEPT ![w] = Null]
  /\ Goto(w, "idle")
  /\ UNCHANGED <<node_count, stack, mutex, free_node_stack, count, listed, steady, global>>

(* node_allocator_recycle. *)

\* Mutant: the worker keeps everything that it recycles.
node_allocator_recycle_hoarding(w, n) ==
  /\ pc[w] = "idle"
  /\ n \in live
  /\ live' = live \ {n}
  /\ is_allocated' = is_allocated \ {n}
  /\ steady' = [v \in Workers |-> steady[v] \ {n}]
  /\ free_node_stack' = [free_node_stack EXCEPT ![w] = Append(@, n)]
  /\ UNCHANGED <<node_count, stack, mutex, pc, hand, count, listed, seen, peak, global>>

\* worker_recycle_node: node_clean takes the mark away; then allocator_free
\* looks whether the worker's own stack is too full.
node_allocator_recycle(w, n) ==
  /\ pc[w] = "idle"
  /\ n \in live
  /\ live' = live \ {n}
  /\ is_allocated' = is_allocated \ {n}
  /\ steady' = [v \in Workers |-> steady[v] \ {n}]
  /\ IF Len(free_node_stack[w]) >= 2 * cache_size
     THEN /\ hand' = [hand EXCEPT ![w] = n]
          /\ Goto(w, "flush_lock")
          /\ UNCHANGED free_node_stack
     ELSE /\ free_node_stack' = [free_node_stack EXCEPT ![w] = Append(@, n)]
          /\ UNCHANGED <<hand, pc>>
  /\ UNCHANGED <<node_count, stack, mutex, count, listed, seen, peak, global>>

\* Mutant: what goes to the allocator stays in the worker's stack.
allocator_free_copies(w) ==
  /\ pc[w] = "flush"
  /\ IF count[w] < cache_size
     THEN /\ stack' = Append(stack, free_node_stack[w][Len(free_node_stack[w]) - count[w]])
          /\ count' = [count EXCEPT ![w] = @ + 1]
          /\ UNCHANGED <<mutex, free_node_stack, pc, hand>>
     ELSE /\ mutex' = Null
          /\ free_node_stack' = [free_node_stack EXCEPT ![w] = Append(@, hand[w])]
          /\ hand' = [hand EXCEPT ![w] = Null]
          /\ count' = [count EXCEPT ![w] = 0]
          /\ Goto(w, "idle")
          /\ UNCHANGED stack
  /\ UNCHANGED <<node_count, is_allocated, live, listing, peak, global>>

\* One round of the loop that moves nodes to the allocator; after the last one
\* the unlock and the push of the node.
allocator_free(w) ==
  /\ pc[w] = "flush"
  /\ IF count[w] < cache_size
     THEN /\ stack' = Append(stack, Last(free_node_stack[w]))
          /\ free_node_stack' = [free_node_stack EXCEPT ![w] = Front(@)]
          /\ count' = [count EXCEPT ![w] = @ + 1]
          /\ UNCHANGED <<mutex, pc, hand>>
     ELSE /\ mutex' = Null
          /\ free_node_stack' = [free_node_stack EXCEPT ![w] = Append(@, hand[w])]
          /\ hand' = [hand EXCEPT ![w] = Null]
          /\ count' = [count EXCEPT ![w] = 0]
          /\ Goto(w, "idle")
          /\ UNCHANGED stack
  /\ UNCHANGED <<node_count, is_allocated, live, listing, peak, global>>

(* allocated_node_array. *)

ListBegin(w) ==
  /\ pc[w] = "idle"
  /\ w \in Listers
  /\ Goto(w, "list_lock")
  /\ UNCHANGED <<node_count, stack, mutex, free_node_stack, is_allocated, live,
                 hand, count, listing, peak, global>>

\* Mutant: stops when the cursor reaches the end, before the last node.
allocated_node_iter_next_short(w) ==
  /\ pc[w] = "list"
  /\ count' = [count EXCEPT ![w] = @ + 1]
  /\ IF count[w] + 1 >= node_count
     THEN mutex' = Null /\ Goto(w, "listed") /\ UNCHANGED listed
     ELSE /\ listed' = IF count[w] + 1 \in is_allocated
                       THEN [listed EXCEPT ![w] = Append(@, count[w] + 1)] ELSE listed
          /\ UNCHANGED <<mutex, pc>>
  /\ UNCHANGED <<node_count, stack, free_node_stack, is_allocated, live, hand,
                 steady, seen, peak, global>>

\* One round of the loops of allocated_node_iter_first and ..._next.  The
\* cursor is compared with the length only after a node that is not allocated;
\* array_get returns NULL beyond the end.
allocated_node_iter_next(w) ==
  /\ pc[w] = "list"
  /\ count' = [count EXCEPT ![w] = @ + 1]
  /\ IF count[w] + 1 \in is_allocated
     THEN /\ listed' = [listed EXCEPT ![w] = Append(@, count[w] + 1)]
          /\ UNCHANGED <<mutex, pc>>
     ELSE /\ UNCHANGED listed
          /\ IF count[w] + 1 >= node_count
             THEN mutex' = Null /\ Goto(w, "listed")
             ELSE UNCHANGED <<mutex, pc>>
  /\ UNCHANGED <<node_count, stack, free_node_stack, is_allocated, live, hand,
                 steady, seen, peak, global>>

\* The caller is done with the array.
ListEnd(w) ==
  /\ pc[w] = "listed"
  /\ listed' = [listed EXCEPT ![w] = <<>>]
  /\ count' = [count EXCEPT ![w] = 0]
  /\ steady' = [steady EXCEPT ![w] = {}]
  /\ seen' = [seen EXCEPT ![w] = {}]
  /\ Goto(w, "idle")
  /\ UNCHANGED <<node_count, stack, mutex, free_node_stack, is_allocated, live, hand, peak, global>>

(* run_exp. *)

\* worker_work_parallelly: the workers of a new scheduler take over.
worker_work_parallelly ==
  /\ phase = "load"
  /\ pc[Loader] = "idle"
  /\ rounds < MaxRounds
  /\ phase' = "work"
  /\ rounds' = rounds + 1
  /\ UNCHANGED <<node_count, stack, mutex, free_node_stack, is_allocated, live, pc,
                 hand, count, listing, peak, lost>>

\* scheduler_destroy, after the join: worker_destroy forgets the
\* free_node_stack with the nodes that are in it.
worker_destroy ==
  /\ phase = "work"
  /\ \A w \in Hands : pc[w] = "idle"
  /\ phase' = "load"
  /\ lost' = lost \union UNION {Range(free_node_stack[w]) : w \in Hands}
  /\ free_node_stack' = [w \in Workers |-> IF w \in Hands THEN <<>> ELSE free_node_stack[w]]
  /\ UNCHANGED <<node_count, stack, mutex, is_allocated, live, pc, hand, count,
                 listing, peak, rounds>>

Step(w) ==
  \/ mutex_lock(w)
  \/ node_allocator_allocate(w) \/ RefillTest(w) \/ RefillMove(w)
  \/ prepare_one_batch_of_nodes(w) \/ MarkAllocated(w)
  \/ \E n \in live : node_allocator_recycle(w, n)
  \/ allocator_free(w)
  \/ ListBegin(w) \/ allocated_node_iter_next(w) \/ ListEnd(w)

Running == IF phase = "load" THEN {Loader} ELSE Hands

Next ==
  /\ ~Aborted
  /\ \/ \E w \in Running : Step(w)
     \/ worker_work_parallelly
     \/ worker_destroy

Spec == Init /\ [][Next]_vars

----------------------------------------------------------------------------
(* Properties. *)

\* Every variable keeps its type.
TypeOK ==
  /\ node_count \in Nat
  /\ stack \in Seq(Nodes)
  /\ mutex \in Workers \union {Null}
  /\ free_node_stack \in [Workers -> Seq(Nodes)]
  /\ is_allocated \subseteq Nodes /\ live \subseteq Nodes
  /\ pc \in [Workers -> Labels]
  /\ hand \in [Workers -> Nodes \union {Null}]
  /\ count \in [Workers -> Nat]
  /\ listed \in [Workers -> Seq(Nodes)]
  /\ steady \in [Workers -> SUBSET Nodes] /\ seen \in [Workers -> SUBSET Nodes]
  /\ peak \in Nat
  /\ phase \in {"load", "work"} /\ rounds \in 0 .. MaxRounds /\ lost \subseteq Nodes

\* The places that hold node n.
Holders(n) ==
  {<<"stack", i>> : i \in {i \in DOMAIN stack : stack[i] = n}} \union
  (UNION {{<<"worker", w, i>> : i \in {i \in DOMAIN free_node_stack[w] : free_node_stack[w][i] = n}}
            : w \in Workers}) \union
  {<<"hand", w>> : w \in {w \in Workers : hand[w] = n}} \union
  {<<"net", m>> : m \in live \intersect {n}} \union
  {<<"lost", m>> : m \in lost \intersect {n}}

\* No node is handed out twice and none is lost, although stacks are exchanged
\* between the workers and nodes come back to another worker than the one that
\* allocated them: every node is in exactly one place.  And array_pop never
\* meets an empty stack: what a worker has tested under the mutex stays true
\* until it pops.
OneOwner ==
  /\ TypeOK /\ ~Aborted
  /\ \A n \in Nodes : Cardinality(Holders(n)) = 1

\* A worker that makes a batch found the stack of the allocator empty some time
\* ago; all of them may have.  Still the nodes that exist are bounded by what
\* the net has needed at one time, what the other workers may hold (a stack of
\* at most twice cache_size, and a node in hand), one batch for every worker, and
\* what was lost with the workers of the schedulers before.
MemoryBound ==
  LET n == Cardinality(Hands)
      finished == IF phase = "work" THEN rounds - 1 ELSE rounds
  IN  /\ node_count <= peak + n * (2 * cache_size) + n - 1 + n * batch_size + Cardinality(lost)
      /\ Cardinality(lost) <= finished * n * 2 * cache_size

\* allocated_node_array returns, in the order of their ids, all nodes that were
\* part of the net while it ran and none that was not at any moment of it,
\* although nodes are marked and recycled without the mutex it holds.
ListingExact ==
  \A w \in Workers : pc[w] = "listed" =>
    /\ steady[w] \subseteq Range(listed[w]) /\ Range(listed[w]) \subseteq seen[w]
    /\ \A i, j \in DOMAIN listed[w] : i < j => listed[w][i] < listed[w][j]
=============================================================================
