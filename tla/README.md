# A verification of inet-lisp

inet-lisp runs interaction nets: nodes with ports, joined by wires, that are
rewritten by rules wherever two principal ports meet.  Rewriting steps at
different places of a net are independent, so the program runs them on all
processors, with lock-free code for most of what the threads share.  This
directory holds TLA+ models of that code, the TLC configurations that check
them on small instances, and TLAPS proofs that hold for every size.

Paths below are relative to the repository.

## 1. The system

| Part | State it keeps | Operations | Talks to |
|---|---|---|---|
| task queue, `src/packages/std/queue`, front lock in `src/packages/std/lock` | ring of slots, two cursors, two cached cursors, spinlock | push (owner), pop (anyone, under the lock), is_full | scheduler |
| scheduler, `src/core/scheduler.c`, `worker_work_parallelly.c`, `src/packages/std/counter`, `thread` | one queue and one counter cell per worker, the thread ids | deal out, start, steal, add, count, sum, join | task queue, handlers |
| wires, `src/core/connect.c`, `src/net/wire.c`, `principal_wire.c` | one atomic word per wire, the argument count of a primitive node | connect, fuze, collect an argument | handlers, nodes |
| nodes, `src/net/node.c`, `src/core/worker_reconnect_node.c`, `worker_disconnect_node.c`, `worker_handle_task.c` | constructor, ports, spinlock, argument count | build, fill ports, take apart, recycle | wires, allocator |
| node allocator, `src/net/node_allocator.c`, `src/packages/std/allocator` | a shared stack of free nodes, one private stack per worker, the array of all nodes | allocate, recycle, make a batch, list the allocated | nodes |
| interpreter, `src/core/worker_run_until.c`, `worker_apply*.c`, `frame.c`, `opcode.c` | value stack, return stack of frames | run one opcode, apply | wires, nodes |
| application of a wire, `src/core/worker_apply_wire.c` | the lazily made `apply` primitives | apply | interpreter |
| compiler, `src/lang/compile.c` | the function under construction | compile an expression | interpreter |
| definitions and running, `src/lang/define.c`, `execute.c`, `node_pattern.c`, `run_exp.c`, `src/core/mod.c` | the values of a module | define, run | compiler, reader |
| loading, `src/commands/cmd_run.c`, `src/lang/load.c`, `src/packages/std/path` | the cache of modules, the nested calls of `load_mod` | load a file, import names | definitions, reader |
| reader, `src/packages/std/lexer`, `sexp`, `src/lang/parse_*.c`, `exp.c`, `stmt.c` | position in the text, token list, cursors of lists | lex, parse, print | loading |
| reading a net at rest, `src/net/connected_node_iter.c`, `node_neighbor*.c`, `allocated_node_iter.c` | occurred set, work list, neighbours | find the node of a wire, search, print | nodes |
| containers, `src/packages/std/hash`, `list`, `array`, `stack`, `set`, `deque` | buckets, links, cursors, memory | insert, remove, grow, walk | everyone |
| values, `src/value` | tagged words | encode, decode | everyone |

### Why it is hard

* **Interleavings without locks.** The queue's producer never takes the lock
  that its consumers take.  Two workers that connect the two ends of one wire
  agree through one compare-and-exchange, and the loser frees the wire.  The
  arguments of a primitive are counted by whoever brings them.
* **A distributed stop condition.** The number of unfinished tasks is the sum of
  cells that are read one after the other while they change; a task is visible
  to thieves before it is counted.
* **Reuse.** Nodes are recycled and handed out again at once, while other
  workers may still have been looking at them.  A node can be reached before it
  is completely built.
* **Limits.** The queue has a fixed size and the answer of a failed push is
  ignored; cursors wrap.
* **Shared cursors.** Lists and hash tables carry their own cursor.  Walks, which
  most of the program consists of, are over when the list is changed or asked
  once too often in the wrong way, and nothing tells the caller.
* **Structures patched in several places.** An array is a stack and a table at
  once, a hash table counts its buckets by hand, a net is read through wires
  that were fused after the ports were filled.
* **Loading inside loading.** An import runs a whole file in the middle of
  another one; the cache that is to stop this is asked by the text of a path.

`PROJECT.json` lists the hazards line by line with the properties that watch
each of them.  A property of a run is often the conjunction of several named parts
(types, assertions and the relation itself), which are definitions of the module.

## 2. Modules

| Module | Models |
|---|---|
| `BoundedFifo` | what a task queue promises: a bounded FIFO whose calls take effect at one instant |
| `TaskQueue`, `MCTaskQueue` | `queue.c` and the front lock, one memory access per step |
| `TaskQueueProofs` | proofs about `TaskQueue` |
| `Scheduler` | dealing out, stealing, counting, stopping, joining |
| `SchedulerProofs` | proofs about `Scheduler` |
| `Connect`, `MCConnect` | `connect.c` and the wires |
| `ConnectProofs` | proofs about `Connect` |
| `NodeLife`, `MCNodeLife` | building, publishing, consuming, recycling nodes |
| `NodeLifeProofs` | proofs about `NodeLife` |
| `NodeAllocator`, `MCNodeAllocator` | the stacks that nodes come from and return to, and the listing of the nodes |
| `NodeAllocatorProofs` | proofs about `NodeAllocator` |
| `Memory` | what the following modules share |
| `List` | the doubly linked list and its cursor |
| `Array` | the growable array and the stack made of it |
| `Hash` | the hash table and its walks |
| `ContainerProofs` | proofs about `List`, `Array` and `Hash` |
| `NetReader` | following wires, neighbours, the search and the print of a net at rest |
| `NetReaderProofs` | proofs about `NetReader` |
| `Reader` | lexer, s-expressions, their print |
| `Statements` | statements and expressions, their print |
| `Path`, `Loader` | paths; files, imports and the cache of modules |
| `LoaderProofs` | proofs about `Loader` and `Path` |
| `MCLibrary` | the seven parts above for TLC |
| `Evaluator`, `MCEvaluator` | from the statements of a file to the net that is left: compiler, definitions, stack machine, tasks |

The modules use each other's results: `Scheduler` takes a queue operation as
one step, which is what `TaskQueue` shows to be sound; `NodeLife` takes the
meeting of two principal wires as one step that happens once, which is what
`Connect` shows; `Evaluator` takes a task as a whole and the tasks in any order,
which is what `Scheduler`, `Connect` and `NodeLife` are about together.
`NodeAllocator`, `Evaluator`, `NetReader`, `Statements` and `Loader` use
sequences, functions and sets where the code has arrays, lists and hash tables;
`Array`, `List` and `Hash` show that these behave so.  `Statements` starts from
the s-expressions that `Reader` makes, `Evaluator` and `Loader` start from
statements, and `NetReader` reads the nets that `Connect` and `Evaluator` leave.

### TaskQueue

The state is the `queue_t` with both cached cursors, the spinlock, and per
thread the label of its next memory access and its locals.  Loading or storing a
cursor, reading or writing a slot, and the load and the exchange of the spinlock
are separate steps.  Cursors count modulo `CursorLimit`, the stand-in for 2^64,
which a power of two `Size` divides.  The code pairs every release store of a
cursor with an acquire load by the other side, so interleaving the accesses
covers what a conforming build can do.  `ImplementsFifo` is a refinement:
`Contents`, the slots between the cursors, implement the abstract `fifo`; a push
takes effect when `back_cursor` is stored and a pop when `front_cursor` is.

### Scheduler

A queue is a number of tasks.  The counter cells, their loads and their stores
are modelled one by one; so is the order in which `thread_pool_start` first
creates the thread and then stores its id.  Three history variables record what
went wrong when something does: `dropped` (a push into a full queue), `stray` (a
thread counted under an id that was not yet its own), `torn` (a store overwrote
another thread's update).

### Connect

Every call of `connect` is a process; the calls of one worker are a special case
of calls that do not overlap.  Values are wires (two ends), principal wires and
plain values (one end); a call uses up two ends that no other call has.  This is
what the language's linearity gives: every value on a stack is used once.
`net` records the graph the calls describe, `joined` the pairs that met.

### NodeLife

Here a meeting of principal wires is a step, and the time between the steps of
`worker_reconnect_node`, of `worker_disconnect_node` and of the primitive's
handler is what counts.  What is at the far end of a port is left open: a worker
in the body of a rule may connect any two reachable principal wires, deliver an
argument to any primitive that waits for one, build nodes, or end the body.
An assertion that fails, or a read through the null constructor of a recycled
node, is the label `abort`.

### NodeAllocator

Every worker has a stack of free nodes; the mutex of the allocator guards the
shared stack and `node_array`.  The test and the pop of a refill are separate
steps, because `array_pop` asserts; so are the flag `is_allocated`, which is set
and cleared without the mutex, and the steps of a listing, which reads the flags
under it.  A scheduler lives for one top-level expression, and `worker_destroy`
does not give the nodes of its worker back: they are `lost`, and `MemoryBound`
says how many there can be.

### Evaluator

The files are small programs in abstract syntax.  `compile_*` are operators from
expressions to opcodes, `define_*` are actions of the statements, and `todo` is
the C call stack: what is left of the functions that are being executed.  One
worker runs; once an expression is built the waiting tasks are taken in any
order.  Wires and nodes are numbered and never reused, so a use after `free` is
seen: it ends with "freed" or shows in `NoDangling`.  `ended` is "exit" after an
error message and "abort" after a failed assertion (or a null pointer, in a
pattern whose ports do not fit).  Simplifications: of the prelude only the
primitives of each shape are there; a file with several errors need not meet
them in the order of the code; a node that is given more arguments than ports,
which is undefined in the code, does not occur.  This module has RECURSIVE
operators and is for TLC only.

### List, Array, Hash

Each has the structure of the code beside what its callers believe to be in it
(`order`, `contents`, `map`), and the invariants tie the two together.  The
nodes of a list are at addresses that are freed and given out again, so a
pointer that was left behind is seen.  The memory of an array is a function whose
domain grows when a store is beyond the size.  A hash table has its chains in
their order, the index that each entry notes, and both counts, the one of used
buckets with the width `HashWord`.  Walks are histories: which entries were
there all the time and which were answered.  A call that the code asserts
against is a call that is not made.

The count of used buckets is not exact.  Deleting the first entry of a chain
lowers it although the chain goes on; `UsedCount` says by exactly how much it is
off, and that it wraps around.  The table then grows at the next insertion, which
costs memory and nothing else: `Represents`, of which `UsedCount` and `LoadBound`
are parts, holds all the same.

### NetReader

The first steps make a net in one of the ways `connect` can leave it: two ports
joined by a shared value, by a fused wire, by two of them in a row, or by
opposite principal wires; ports with numbers; and a value on the stack that
leads to a port or to nothing.  `mate` is what was joined.  Then the code reads
it.  The neighbours of all nodes are found in one step, and the search takes one
node per step.  `PrintedPorts` states the exception that the code makes: of
several wires between two nodes one is printed, the others appear as free, and so
does a wire from a node to itself.

### Reader and Statements

A text is a sequence of classes of characters and the lexer is the code's,
function by function, on the record `lexer_t`.  `TokensExact` compares it with a
reference that reads one character at a time and never looks ahead.  Statements
are parsed from s-expressions; `NextItem` is the cursor of `list_next` with its
return to the first item, on which the check of `(define x)` rests.  Both print
what they read; `PrintReads`, a part of `ParensMatch`, and `StatementReads`, a part
of `StatementExact`, read it again.  The
exceptions are in the properties: strings with quotes or backslashes, quoted
numerals, and assignments, whose expression `exp_print` does not write.  These
modules have RECURSIVE operators and are for TLC only.

### Loader

`calls` is the C stack of `load_mod`; a step is one statement, one call of
`load_mod` up to its return or to the first statement of the new module, or the
end of a file.  The text of a path is its sequence of segments.  `Place` is what
the operating system makes of a path (there are no symbolic links), and each
module notes the place that the import or the argument meant.  A C stack of
`MaxDepth` activations stands for the real one: a circle of imports fills it.

## 3. Runs

| Run | Instance | Shows |
|---|---|---|
| `task_queue` | owner, 2 thieves, 4 slots, cursors modulo 8 | FIFO refinement, cursor order, no slot is written while it is read, room that was seen stays |
| `scheduler_safety` | 3 workers, 2 loaded and 2 spawned tasks, queues of 2 | the cells add up; nobody stops while a task is left; updates are lost only through a late id |
| `scheduler_termination` | 2 workers, 3 spawned tasks | every execution stops that drops nothing and loses no update |
| `scheduler_late_id` | 2 workers | **violated**: a counter update is lost before a thread has its id |
| `connect` | 2 wires, an active pair, a primitive with 2 principal ports, 2 values, 5 calls | nothing dangles, the ends of every path and only those meet, each pair that meets makes one task, that of the first of its two equal rules and in its order, the task of a primitive is made once, complete, and not missed; every step of a call leaves less to do |
| `node_life` | 3 workers or a single one, 2 nodes, 5 constructions, fair; primitives in the single-threaded mode only | a node is complete when it is taken apart, consumed once, unused when recycled; no assertion fails; all tasks are handled and the node locks block nobody for ever |
| `primitive_outputs` | 2 workers, primitives in parallel | **violated**: a primitive is handled before its outputs exist |
| `primitive_count` | 2 workers, primitives in parallel | **violated**: a node is recycled before its argument count was compared |
| `node_allocator` | a loader, 2 workers, batches and caches of 1, all of them list | each node has one owner, no empty stack is popped, a listing is exact, the number of nodes is bounded by need, caches, batches and lost stacks |
| `evaluator` | 32 files on 0, 1, 2 with `add`, `mul`, `nat-max`, `square`, `nat-to-int`; 14 with integers and functions as values, applied before and after they are known; 31 wrong ones | in every order of the tasks the net that is left is the number the expression means, and nothing else; every end of a wire is held once; stacks balanced; tail calls keep no frame; a wrong file is stopped by the check that is meant for it |
| `apply_linked` | one file: a function applied through two links | **violated**: a freed wire is tucked below the arguments |
| `library` | the seven sequential parts, one of them in each behaviour, see below | containers represent what was put into them and are walked completely; the printed net is the component; texts and s-expressions are read as a reference reads them; files are loaded once, from the right place, and only circles do not end |

Bounds.  Four slots and eight cursor values let the queue run full, empty and
wrap; two thieves contend for the lock while the owner pushes.  Three workers
are the least number with a victim, a thief and a third who sums while they
move a task between them.  Two wires make a path in which both are fuzed at once
by calls from either side, and the five calls close the whole net, so that the
pair, both arguments and both wires are in it; what longer paths add is covered
by the proofs of `NoDangling`, `JoinsFollowNet` and `AllJoined`.  Two
nodes with five constructions are both reused, and a third worker can take a
recycled one while its opposite is still being taken apart.  With batches and caches
of one every allocation is at a boundary: the stack of a worker is empty or
full, and two workers find the shared stack empty at once.  The numbers up to two
fire every rule of the `nat` files, and four and more tasks wait together.

In `library` a list has up to three nodes and three values, two of them equal
for `equal_fn`: a first, an inner and a last node, each with the cursor on it or
not.  An array grows from 1 or 2 to 5 slots, so that a store can be below, at and
beyond the size.  Four keys, three of which fall into one bucket until the table
has eleven, make chains of three; the table grows twice, and two deleted heads
bring the count below zero.  Three nodes with two ports each make circles, two
wires between two nodes, a wire from a node to itself, and separate components.
All texts of up to five characters of eight classes are lexed, with a buffer of
three; a string with an escape and a newline in it has that length.  The
s-expressions are all lists of up to three of 25 items, atoms and lists in lists,
which is every form of statement with each of its parts right, missing and wrong,
and some of four.  The three files are in two directories, import each other by
up to two paths each, straight, by a detour, in a circle, from above the root
and absolutely, and the command line names up to three files.

Fairness.  `FairSpec` of `Scheduler` asks for weak fairness of every thread,
which is what a preemptive operating system gives, and strong fairness of
stealing from each victim: `rand() % worker_count` keeps drawing every victim.
`FairSpec` of `NodeLife` asks for weak fairness of every worker.  `Connect` needs
no fairness: `ConnectTerminates` says that each step of a call lowers a measure
that only new calls raise, so a call that is scheduled returns.  In `NodeLife` a
spinlock is a step that waits; the runs show that weak fairness is enough since
nobody can take a node's lock again and again.  The body of a rule ends because `MaxBuilt` bounds what it builds.

## 4. Findings

* `scheduler_late_id` - `thread_pool_start` stores `thread->id` after the thread
  is running (`src/packages/std/thread/thread_pool.c:31`).
* `primitive_outputs` - `worker_handle_task_primitive` does not take the lock
  that `worker_reconnect_node` holds (`src/core/worker_handle_task.c:38`).
* `primitive_count` - `collect_primitive_arg` reads the node after the
  `fetch_add` that may have given it away (`src/core/connect.c:72`).
* `apply_linked` - `worker_apply_wire` uses the wire that `defuze` has freed
  instead of the one it returned (`src/core/worker_apply_wire.c:47`).

Because of the two races on primitives `node_life` builds them in the
single-threaded mode only (`ParallelPrimitives` is empty): with several workers
they reach the assertions of `node.c` otherwise.

Hazards seen in the code and not pursued by a run: with one processor
`worker_count` is 0 and `scheduler_prepare` divides by it; with two there is one
worker, and `get_victim_id` never returns if it has to steal, which it must
after a task was dropped.  The argument count is added with release order only,
which on a weakly ordered machine does not order the arguments of the other
workers before the handler's reads.  A node that is given more arguments than it
has ports is written past them, since `output_arity` is an unsigned difference
(`worker_reconnect_node.c:68`).  `initialize_apply_primitives` is called by the
workers without synchronisation (`worker_apply_wire.c:15`).  A local variable that
is set and never used is dropped with its frame, with the end of the wire in it
(`frame.c:25`).

## 5. Proofs

All theorems hold for every value of the constants that satisfies the `ASSUME`s
of the module.

**TaskQueueProofs.**  Type correctness, `CursorOrder`, `NoSlotRace`,
`PushAfterNotFull`, and the refinement `ImplementsFifo`.  `CursorOrder` is not inductive: it has to be known that
only one thread is between lock and unlock (`MutualExclusion`), that a popping
thread's local cursor is still the front cursor and that it has seen an item
there (`PopKnows`), and that a pushing owner has seen room (`PushKnows`).  The
arithmetic modulo `CursorLimit` is isolated in lemmas about `Distance`.  The
refinement follows from the same invariant: the abstract queue is the slots from
the front to the back cursor, so that `PushPublish` and `PopAdvance` are the
steps that push and pop, the others stutter, and a thread that answers "full" or
"empty" has seen the cursors that say so.

**SchedulerProofs.**  Type correctness, `LossNeedsStrayId`, `NoTaskLeft`, `Accounting`.  The
provers cannot do induction over the workers, so sums are described by their
prefix sums: `IsPrefix(p, f)` says that `p` adds up `f` cell by cell, and
`PrefixShift` and `PrefixMonotone` (by a least counterexample) are all that is
needed of them.  `Balance` says that the prefix sums of the cells and those of
the loads (tasks queued, held, not yet counted) agree in total, up to what was
dropped, unless an update was torn.  That alone does not keep workers from
leaving, because a total is read cell by cell; `Watched` adds that when tasks
are left and nobody holds one, some worker stays whose partial total is the true
prefix sum, so that it cannot find zero.  The inductive invariant is `TypeOK`,
`Cells`, `NotStarted`, `OwnCell` (a thread with its own id counts in its own
cell and its loaded count is still there) and `Balance`.  `Accounting`, which adds
the cells up by a fold, follows: the fold is the last of its own prefix sums
(`Total`), and two functions that are both prefix sums do not differ first
anywhere.

**ConnectProofs.**  Type correctness, `NoDangling`, `JoinsFollowNet`,
`AllJoined`, `PathsJoined`, `TasksExact`, `ConnectTerminates`.  The central invariant is `Linear`: every value is held in exactly
as many places (unused ends, the two arguments of a pending call, the word of a
wire) as it has ends left; with it come `TypeOK`, `CallKnows` (what a call has
seen before its next step), `LinksFollowNet` (calls, wires and joins never leave
a set of values that the net closes) and `FreedMet`.  Nothing dangles because a freed value is held
nowhere.  `AllJoined` counts: in a net without unused ends the values that are
held fill the wires that hold something, which is impossible by cardinality
unless all have met.  `PathsJoined` needs in addition that a value and what it
was fuzed into stay on one path: `Basin` is the set of the wires whose words lead
to given ends.  `TasksExact` counts the arguments of each primitive: the argument
count is the number of its principal wires that are freed and whose call has
counted them, so the call that raises it to the number of ports is the only one,
and all arguments are stored by then.  For the active pairs it needs `PairsMade`:
principal wires that have met and that a rule fits have their task, because a
non-empty set of rules has a lowest one (`FirstTaskMade`) and a call that returns
a task has none yet, so that no task is ever overwritten.  No principal wire is in
two pairs, because `Linear` has it nowhere once it has met another one.  The
property says which rule fits in terms of `Rules` only, not of the operator that
the model picks the rule with.  `ConnectTerminates`
compares the measure `Work` before and after each step: a call goes back to the
beginning of its loop only by freeing a wire, which is worth more than the loop.

**NodeAllocatorProofs.**  Type correctness with `Control` (`UnderMutex`),
`OneOwner`, `ListingExact`, `MemoryBound`.  `Control` ties what a worker has
tested to its program counter: who is in a loop under the mutex holds it, the
loop variable tells how full the private stack is, and the shared stack that was
found non-empty still is.  Over it there are three arguments.  `Partition`: the
sets of nodes of the owners (the shared stack, each private stack, each hand, the
net, the lost stacks) are apart and cover all nodes, and no stack holds a node
twice; each step moves one node from one owner to another, a new node to the
shared stack, or private stacks to the lost ones.  `Listing`: what the cursor has
passed is listed if it was in the net all the time, and only if it was there at
some moment; behind the last node nothing is allocated.  `Memory`: a worker decides
to make a batch only at a moment when the shared stack is empty, so that every
node is in the net, lost, or held by another worker (`OutsideBound`); `Pending`
counts the batches that are decided on and not yet made.

**NodeLifeProofs.**  `PortsReady`, `ConsumedOnce`, `RecycledIsUnused`, `NoAbort`,
for every number of workers and nodes, every set of constructors and rules, under
the hypothesis `ParallelPrimitives = {}`: a primitive is built and handled only
by a worker that is alone, which is the single-threaded mode.  Without it
the properties are false, as the runs `primitive_outputs` and `primitive_count` show; the nodes
that rules consume are built by all workers at once.  The four properties hold one another up,
and the inductive invariant `Inv` has them as parts: who builds a node
(`BuildState`, `OneBuilder`), which ports it has filled so far (`Filled`,
`PortKinds`), who holds its lock (`BuilderLocks`, `ReaderLocks`, `LockHeld`: from
`node_lock` on it is the builder, later the worker that takes the node apart),
what can be reached (`ExposedState`), and which task claims it (`GoodTasks`,
`ClaimedOnce`).  The step that matters is `ConnectPair`: it claims a node through
an exposed principal wire, and `ExposedState` and `Fresh` say that a node
with an exposed or a not yet connected principal port is in no task.  A node may
be claimed while its builder still fills its outputs; then the reader waits for
the lock, and gets it only when `Filled` holds for all ports.  `ArgsCounted` is why a
primitive is handled with all its arguments, once.

**ContainerProofs, lists.**  `ListCorrect` and `WalkComplete`.  The inductive invariant
`ListInv` has the types, `Linked` (the two ends, the length and both pointers of
each node are those of the order that the calls mean) and `CursorSafe`; a lemma
per operation (`PushKeeps`, `UnshiftKeeps`, `RemoveKeeps`, `PurgeKeeps`) shows
that its patches keep it, with a case for each end of the list that the node is
at.  `ListCorrect` also says what the calls answer that read along the links:
`FollowIsOrder` shows that this reads the order.  It is an induction along the
list, which the provers cannot do; the proof takes the least place where the two
differ instead.  `WalkComplete` needs `Walked`: a walk has answered, once each,
exactly the kept nodes that lie before its cursor, and all of them when the cursor
has left the list.  A node pushed, unshifted or removed moves the places of the
others; `WalkCarried` carries the relation over.

**ContainerProofs, arrays.**  `Holds`.  The invariant `ArrayInv` says that the array is
`Holding(size, grow_step, c)` for the sequence `c` that the callers mean, which
determines its memory completely.  Each operation is then a lemma that maps such
a value to another: `PushIs`, `PopIs`, `SetIs`, `PurgeIs`, and `TuckIs` for
`stack_tuck_n`, which pops and pushes in two loops.  The value after i rounds is
given in closed form (`Popped`, `Pushed`), and the loops are compared with it, again
by a least round at which they would differ.

**ContainerProofs, hash tables.**  `Represents` and `HashWalkComplete`, for every hash
function, any keys and any sizes that grow.  The invariant is `HashInv`.  `Sound` says
what a table is: each chain has the entries of its bucket, each once, with the value
that the map has (`Table`), the length is the cardinality of the map and fits
below three quarters, and the count of used buckets is short by `hidden`, modulo the
width of the counter.  An insertion, a replacement and a deletion change one bucket,
and `OtherBucket` reduces each to its chain (`FrontOf`, `RevaluedOf`, `RemovedOf`); `UsedWith`
and `ModShift` give the count.  A rehash moves all entries: `FlatIs` says that going
through the buckets meets each entry once, `ChainIs` that each is put into one new
chain, both by the least step at which it would fail, and `RehashKeeps` that the
table of the same map results.  `RehashSound` shows that there is room for one more
entry after a rehash, for which the next size must have a higher bound than the one
before (`HashAssumption`).  `HashWalkComplete` needs `Underway`: a walk has answered
exactly the kept entries that its cursor is past, in earlier buckets or earlier in the
chain of the cursor.  Calls that do not make the table grow keep the order of the other
entries of each chain (`OrderKept`), and with it what the cursor is past (`WalkKept`); a
step of the walk passes the entry that it answers and no other (`StepKeeps`).

**NetReaderProofs.**  `ComponentExact` and `PrintedPorts`, for every number of nodes,
every arity and every choice of principal ports.  `Made`, a part of the invariant
`NetInv`, says in which of the ways that `connect` can leave two ports each pair
was joined, and that a wire serves one pair only; every step that makes the net
keeps it (`OthersKept`).  A walk along the wires follows at most one link for each wire there
is; since no chain of a made net is longer than two links, it is at its end
by then (`WalkEnds`), and `EndsAre` says where.  Then two ports meet at one value
exactly if they were joined (`ConnectedIsMate`), the node of the value on the stack
is found exactly if there is one (`RootIsFound`), and the table of neighbours is that of the net
with the exceptions that `PrintedPorts` states (`NeighbourhoodIs`).
`Searched` is the invariant of the search itself: what is collected and what waits
is reachable from the root, the neighbours of what is collected are
collected or wait, and nothing is collected twice.  When nothing waits, the collected
nodes are closed under being a neighbour, hence the component.

**LoaderProofs.**  `LoadedOnce`, `PlaceMeant`, `OverflowExact`, for all files, any
nesting of imports and every spelling of their paths.  There are three layers.
The first is about `path.c`.  A path is a stack, the file system's reading of a text
is a place, and both are made segment by segment, so that a lemma says of each what appending
a segment does (`PlaceIs`, `StackIs`).  The paths of modules are absolute and
`Normal`: `..` stands only at the front.  Such a path leads where the text led that it was
read from (`PlaceStack`), hence a path that is joined to the directory of a file
leads where the file system goes from there (`JoinIs`), and the relative path
from the working directory leads back (`RelativeIs`).  What this depends on is that
the working directory has no `..` and that links are not modelled.  The second layer is about the files: `Needed`,
which the model computes in as many rounds as there are files, is closed under
imports, because a round that adds nothing is the last and each other adds one to
the cardinality (`NeededIs`); a file in a circle imports a file in a circle (`CyclicImport`).
The third is the invariant `LInv`.  `Chained`: each call but the last is at an import
whose path is that of the module of the next call.  `NotKept`: none of the modules
that are being loaded is in the cache.  `Done`: a call has executed all imports
before its statement, each of which has its module in the cache and its
names in the module.  When a file ends, all its imports are in the cache, and so
it cannot be waiting in a call further out, whose import is not (`EndKeeps`);
and a kept file is in no circle, since its imports are kept and are in none.  A
second module for one path is made only while the first is being loaded, and then
the calls between them are a circle; as many calls as there are files, too, have one
twice (`LoadCyclic`).  `OverflowExact` thus rests on a C stack that has room for
one activation per file (`FilesAssumption`).

The assumptions are those the code makes or the model needs to be finite: arities
are numbers and principal ports are below them, a node that a rule consumes has
one principal port and a primitive has them among its inputs (`CtorAssumption`),
sizes of batches and caches are positive, `array_new` is not called with 0 (`ArrayAssumption`), `Null` and `NULL` are none of the things they stand
in for, and nodes, workers and wires are finitely many where they are counted.
The sizes of a hash table grow, fit into a `size_t` and are multiplied with a percentage
without wrapping around, as all those do that fit into memory (`HashAssumption`).
In `NetReader` ports are below the arities, and `NULL` is neither a node nor a port
(`PortsAssumption`).  In `Loader` segments and names are strings, there are finitely
many files, as many activations fit on the C stack as there are files, and the working
directory is absolute and has neither `.` nor `..` in it, as `getcwd` answers
(`LoaderAssumption`, `FilesAssumption`).

Only model-checked: liveness (`Termination`, `ComesToRest`: fairness and `ENABLED`
are outside the prover), the `Outcome` of programs, and the other sequential
parts: `Evaluator`, `Reader` and `Statements` have recursive operators, which keep
them from the prover.

## 6. Not modelled

* Text handling (`string`, `text`, `utf8`, `char`, `blob`, `code`), formatting,
  time and the commander are pure functions or pure input and output.
* Values: the tagging of words has no state; floating point is out of reach.
* `set` and `deque` are wrappers of a hash table and of a list with a mutex, and
  the deque is used by no other part.
* Weak memory; see the hazard on `node_primitive_arg_count_fetch_add1`.
* Of the task queue, `queue_get`, `queue_length` and `queue_purge`; of the
  reader, floats; of the loader, symbolic links.

## 7. Plan

All parts that keep state are modelled.  The safety properties of the concurrent
parts are proved, and so are those of lists, arrays, hash tables, the reading of nets
and loading.  What is left is to write the operators of `Statements`, `Reader` and
`Evaluator` as recursive functions, so that what does not need induction over texts
and programs could be proved, first that the stacks of the `Evaluator` are balanced.
