------------------------------ MODULE NodeLife ------------------------------
(***************************************************************************)
(* The life of a node: worker_new_node, worker_reconnect_node while its    *)
(* ports are filled, worker_disconnect_node or                             *)
(* worker_handle_task_primitive when a task consumes it,                   *)
(* worker_recycle_node, and its reuse.                                     *)
(*                                                                         *)
(* A node can be reached by the other workers as soon as one of its        *)
(* principal wires is connected, which is before worker_reconnect_node is  *)
(* done with it.  A lock in the node keeps worker_disconnect_node out;     *)
(* the handlers of primitives do not take it.                              *)
(*                                                                         *)
(* Connect shows that two principal wires, or a principal wire and an      *)
(* argument, meet at most once and by one call; here their meeting is a    *)
(* step.  What the other end of a port is connected to is left open, so a  *)
(* worker that runs a rule may connect any two principal wires that are    *)
(* exposed, that is, have not met anything yet.                            *)
(***************************************************************************)
EXTENDS Integers, Sequences, FiniteSets

CONSTANTS
  Workers, Nodes, Null,
  Ctors, Primitives,    \* constructors, and those of them of primitives
  arity, input_arity,   \* constructor -> number of ports, of input ports
  is_principal,         \* constructor -> the principal ports
  ParallelPrimitives,   \* bound: the primitives that are built in parallel
  MaxBuilt              \* bound: nodes built

ASSUME BoundAssumption == MaxBuilt \in Nat
ASSUME CtorAssumption ==
  /\ Primitives \subseteq Ctors
  /\ Null \notin Ctors /\ Null \notin Nodes
  /\ arity \in [Ctors -> Nat] /\ input_arity \in [Ctors -> Nat]
  /\ \A k \in Ctors :
       /\ input_arity[k] <= arity[k]
       /\ is_principal[k] \subseteq 0 .. arity[k] - 1
       \* The constructors of the language have one principal port, a
       \* primitive has principal ports among its inputs only.
       /\ IF k \in Primitives
          THEN is_principal[k] \subseteq 0 .. input_arity[k] - 1
          ELSE Cardinality(is_principal[k]) = 1

Indices == UNION {0 .. arity[k] - 1 : k \in Ctors}

VARIABLES
  ctor,       \* node -> its constructor, Null when it is recycled
  port,       \* node -> value_array
  locked,     \* node -> fast_spinlock
  arg_count,  \* node -> atomic_primitive_arg_count
  free,       \* the nodes that the allocator can give out
  exposed,    \* the principal wires that can meet something, <<node, index>>
  queue,      \* tasks: <<left, right>> for an active pair, <<node>> for a
              \* primitive
  built,      \* nodes built so far
  pc,         \* per worker: what it does next
  node,       \* per worker: the node it builds or has given an argument to
  given,      \* per worker: the number of inputs of the node it builds
  index,      \* per worker: how far its loop over ports has got
  number,     \* per worker: the argument count it got from the fetch_add
  back,       \* per worker: where collect_primitive_arg returns to
  found,      \* per worker: found_task, <<>> for none
  todo        \* per worker: the nodes of its task that are not yet recycled

vars == <<ctor, port, locked, arg_count, free, exposed, queue, built,
          pc, node, given, index, number, back, found, todo>>

Labels == {"off", "idle", "run", "lock", "input", "compare", "output",
           "add_task", "disconnect", "read", "recycle", "outputs", "retire", "abort"}

Goto(w, label) == pc' = [pc EXCEPT ![w] = label]

\* An assertion that fails, or a read through a null pointer, ends the program.
Aborted == \E w \in Workers : pc[w] = "abort"

IsPrimitive(n) == ctor[n] \in Primitives
NoPorts == [i \in Indices |-> "empty"]

----------------------------------------------------------------------------
\* Every worker is inside the body of a rule and has no node yet.  With the
\* single_threaded_flag there is one worker.
Init ==
  /\ ctor = [n \in Nodes |-> Null]
  /\ port = [n \in Nodes |-> NoPorts]
  /\ locked = [n \in Nodes |-> FALSE]
  /\ arg_count = [n \in Nodes |-> 0]
  /\ free = Nodes
  /\ exposed = {} /\ queue = {} /\ built = 0
  /\ \E working \in {Workers} \union {{w} : w \in Workers} :
       pc = [w \in Workers |-> IF w \in working THEN "run" ELSE "off"]
  /\ node = [w \in Workers |-> Null]
  /\ given = [w \in Workers |-> 0]
  /\ index = [w \in Workers |-> 0]
  /\ number = [w \in Workers |-> 0]
  /\ back = [w \in Workers |-> "run"]
  /\ found = [w \in Workers |-> <<>>]
  /\ todo = [w \in Workers |-> <<>>]

(* Principal wires meet. *)

\* The tasks that connect_active_pair can return for nodes m and n: it depends
\* on the rules whether there is one and which node comes first.
connect_active_pair(m, n) == {<<>>, <<m, n>>, <<n, m>>}

\* collect_primitive_arg up to the fetch_add of the argument count.
collect_primitive_arg(w, n, i) ==
  /\ port' = [port EXCEPT ![n][i] = "argument"]
  /\ arg_count' = [arg_count EXCEPT ![n] = @ + 1]
  /\ number' = [number EXCEPT ![w] = arg_count[n] + 1]
  /\ node' = [node EXCEPT ![w] = n]
  /\ back' = [back EXCEPT ![w] = pc[w]]
  /\ Goto(w, "compare")

\* worker_reconnect_node keeps a task until it has unlocked the node, and
\* asserts that there is no second one.
KeepTask(w, t) ==
  /\ found' = [found EXCEPT ![w] = t]
  /\ Goto(w, IF found[w] = <<>> THEN "input" ELSE "abort")

\* The rest of collect_primitive_arg: node_principal_port_count asserts that
\* the node has its constructor.  The task is returned to
\* worker_reconnect_node, or to worker_connect, which adds it at once.
node_principal_port_count(w) ==
  /\ pc[w] = "compare"
  /\ LET n == node[w] IN
       IF ctor[n] = Null
       THEN Goto(w, "abort") /\ UNCHANGED <<found, queue>>
       ELSE IF number[w] # Cardinality(is_principal[ctor[n]])
       THEN Goto(w, back[w]) /\ UNCHANGED <<found, queue>>
       ELSE IF back[w] = "input"
       THEN KeepTask(w, <<n>>) /\ UNCHANGED queue
       ELSE /\ queue' = queue \union {<<n>>}
            /\ Goto(w, back[w])
            /\ UNCHANGED found
  /\ UNCHANGED <<ctor, port, locked, arg_count, free, exposed, built, node,
                 given, index, number, back, todo>>

(* worker_apply of a constructor or a primitive: a node is built. *)

worker_new_node(w, n, k) ==
  /\ pc[w] = "run"
  /\ built < MaxBuilt
  /\ n \in free
  /\ k \in Primitives \ ParallelPrimitives => \A v \in Workers \ {w} : pc[v] = "off"
  /\ built' = built + 1
  /\ free' = free \ {n}
  /\ ctor' = [ctor EXCEPT ![n] = k]
  /\ node' = [node EXCEPT ![w] = n]
  /\ given' = [given EXCEPT ![w] = input_arity[k]]
  /\ index' = [index EXCEPT ![w] = input_arity[k]]
  /\ Goto(w, "lock")
  /\ UNCHANGED <<port, locked, arg_count, exposed, queue, number, back, found, todo>>

node_lock(w) ==
  /\ pc[w] = "lock"
  /\ ~locked[node[w]]
  /\ locked' = [locked EXCEPT ![node[w]] = TRUE]
  /\ Goto(w, "input")
  /\ UNCHANGED <<ctor, port, arg_count, free, exposed, queue, built, node,
                 given, index, number, back, found, todo>>

\* The new principal wire of port i meets nothing yet, or an exposed one, or
\* an argument.
ConnectInput(w, n, i) ==
  \/ /\ exposed' = exposed \union {<<n, i>>}
     /\ port' = [port EXCEPT ![n][i] = "principal"]
     /\ UNCHANGED <<arg_count, pc, node, number, back, found>>
  \/ /\ ~IsPrimitive(n)
     /\ \E x \in exposed :
          /\ ~IsPrimitive(x[1])
          /\ exposed' = exposed \ {x}
          /\ \E t \in connect_active_pair(n, x[1]) :
               IF t = <<>> THEN UNCHANGED <<pc, found>> ELSE KeepTask(w, t)
     /\ port' = [port EXCEPT ![n][i] = "principal"]
     /\ UNCHANGED <<arg_count, node, number, back>>
  \/ /\ IsPrimitive(n)
     /\ collect_primitive_arg(w, n, i)
     /\ UNCHANGED <<exposed, found>>

\* Mutant: the loop visits the same input again.
reconnect_input_again(w) ==
  /\ pc[w] = "input"
  /\ index[w] > 0
  /\ \E i \in {index[w], index[w] - 1} : index' = [index EXCEPT ![w] = i]
  /\ LET n == node[w]  i == index[w] - 1 IN
       IF i \in is_principal[ctor[n]] THEN ConnectInput(w, n, i)
       ELSE UNCHANGED <<port, arg_count, exposed, pc, node, number, back, found>>
  /\ UNCHANGED <<ctor, locked, free, queue, built, given, todo>>

\* One round of the loop over the inputs, from the last to the first.
reconnect_input(w) ==
  /\ pc[w] = "input"
  /\ index[w] > 0
  /\ index' = [index EXCEPT ![w] = @ - 1]
  /\ LET n == node[w]  i == index[w] - 1 IN
       IF ctor[n] = Null
       THEN /\ Goto(w, "abort")
            /\ UNCHANGED <<port, arg_count, exposed, node, number, back, found>>
       ELSE IF i \in is_principal[ctor[n]]
       THEN ConnectInput(w, n, i)
       ELSE /\ port' = [port EXCEPT ![n][i] = "wire"]
            /\ UNCHANGED <<arg_count, exposed, pc, node, number, back, found>>
  /\ UNCHANGED <<ctor, locked, free, queue, built, given, todo>>

\* The number of outputs is read from the constructor.
ReadArity(w) ==
  /\ pc[w] = "input"
  /\ index[w] = 0
  /\ IF ctor[node[w]] = Null
     THEN Goto(w, "abort") /\ UNCHANGED <<index, number>>
     ELSE /\ Goto(w, "output")
          /\ index' = [index EXCEPT ![w] = given[w]]
          /\ number' = [number EXCEPT ![w] = arity[ctor[node[w]]]]
  /\ UNCHANGED <<ctor, port, locked, arg_count, free, exposed, queue, built,
                 node, given, back, found, todo>>

\* One round of the loop over the outputs.
reconnect_output(w) ==
  /\ pc[w] = "output"
  /\ index[w] < number[w]
  /\ LET n == node[w]  i == index[w] IN
       IF ctor[n] = Null
       THEN Goto(w, "abort") /\ UNCHANGED <<port, index>>
       ELSE /\ port' = [port EXCEPT ![n][i] =
                          IF i \in is_principal[ctor[n]] THEN "principal" ELSE "wire"]
            /\ index' = [index EXCEPT ![w] = i + 1]
            /\ UNCHANGED pc
  /\ UNCHANGED <<ctor, locked, arg_count, free, exposed, queue, built, node,
                 given, number, back, found, todo>>

\* The node is complete: from now on the worker may connect the principal
\* wires that it has pushed for the outputs.
node_unlock(w) ==
  /\ pc[w] = "output"
  /\ index[w] >= number[w]
  /\ LET n == node[w] IN
       /\ locked' = [locked EXCEPT ![n] = FALSE]
       /\ exposed' = exposed \union
            {<<n, i>> : i \in {j \in given[w] .. number[w] - 1 : port[n][j] = "principal"}}
  /\ Goto(w, "add_task")
  /\ UNCHANGED <<ctor, port, arg_count, free, queue, built, node, given, index,
                 number, back, found, todo>>

worker_add_task(w) ==
  /\ pc[w] = "add_task"
  /\ queue' = (queue \union {found[w]}) \ {<<>>}
  /\ found' = [found EXCEPT ![w] = <<>>]
  /\ node' = [node EXCEPT ![w] = Null]
  /\ Goto(w, "run")
  /\ UNCHANGED <<ctor, port, locked, arg_count, free, exposed, built, given,
                 index, number, back, todo>>

(* worker_connect, called by the body of a rule. *)

\* Mutant: a principal wire can meet a second one.
ConnectPairAgain(w, x, y) ==
  /\ pc[w] = "run"
  /\ x \in exposed /\ y \in exposed /\ x # y
  /\ exposed' = exposed \ {x}
  /\ \E t \in connect_active_pair(x[1], y[1]) : queue' = (queue \union {t}) \ {<<>>}
  /\ UNCHANGED <<ctor, port, locked, arg_count, free, built, pc, node, given,
                 index, number, back, found, todo>>

ConnectPair(w, x, y) ==
  /\ pc[w] = "run"
  /\ x \in exposed /\ y \in exposed /\ x # y
  /\ ~IsPrimitive(x[1]) /\ ~IsPrimitive(y[1])
  /\ exposed' = exposed \ {x, y}
  /\ \E t \in connect_active_pair(x[1], y[1]) : queue' = (queue \union {t}) \ {<<>>}
  /\ UNCHANGED <<ctor, port, locked, arg_count, free, built, pc, node, given,
                 index, number, back, found, todo>>

ConnectArgument(w, x) ==
  /\ pc[w] = "run"
  /\ x \in exposed /\ IsPrimitive(x[1])
  /\ exposed' = exposed \ {x}
  /\ collect_primitive_arg(w, x[1], x[2])
  /\ UNCHANGED <<ctor, locked, free, queue, built, given, index, found, todo>>

(* Handling a task. *)

\* worker_next_task or a steal, then worker_handle_task.  The handler of a
\* primitive reads its arguments and calls its function, which may build nodes
\* as the body of a rule does.
worker_handle_task(w, t) ==
  /\ pc[w] = "idle"
  /\ t \in queue
  /\ queue' = queue \ {t}
  /\ todo' = [todo EXCEPT ![w] = t]
  /\ Goto(w, IF Len(t) = 2 THEN "disconnect"
             ELSE IF IsPrimitive(t[1]) THEN "run" ELSE "abort")
  /\ UNCHANGED <<ctor, port, locked, arg_count, free, exposed, built, node,
                 given, index, number, back, found>>

\* The end of the body.
worker_run_until(w) ==
  /\ pc[w] = "run"
  /\ IF todo[w] = <<>>
     THEN Goto(w, "idle") /\ UNCHANGED index
     ELSE LET n == todo[w][1] IN
            IF ctor[n] = Null THEN Goto(w, "abort") /\ UNCHANGED index
            ELSE Goto(w, "outputs") /\ index' = [index EXCEPT ![w] = arity[ctor[n]]]
  /\ UNCHANGED <<ctor, port, locked, arg_count, free, exposed, queue, built,
                 node, given, number, back, found, todo>>

\* One round of the loop of worker_handle_task_primitive over its outputs: the
\* result is connected to the output wire, at whose other end another
\* primitive may wait for it.
worker_handle_task_primitive(w) ==
  /\ pc[w] = "outputs"
  /\ LET n == todo[w][1]  i == index[w] - 1 IN
       IF ctor[n] # Null /\ i < input_arity[ctor[n]]
       THEN /\ Goto(w, "retire")
            /\ UNCHANGED <<port, arg_count, exposed, node, index, number, back>>
       ELSE IF ctor[n] = Null \/ port[n][i] # "wire"
       THEN /\ Goto(w, "abort")
            /\ UNCHANGED <<port, arg_count, exposed, node, index, number, back>>
       ELSE /\ index' = [index EXCEPT ![w] = i]
            /\ \/ UNCHANGED <<port, arg_count, exposed, pc, node, number, back>>
               \/ \E x \in exposed :
                    /\ IsPrimitive(x[1])
                    /\ exposed' = exposed \ {x}
                    /\ collect_primitive_arg(w, x[1], x[2])
  /\ UNCHANGED <<ctor, locked, free, queue, built, given, found, todo>>

\* Mutant: the node is not locked.
DisconnectUnlocked(w) ==
  /\ pc[w] = "disconnect"
  /\ Goto(w, "read")
  /\ UNCHANGED <<ctor, port, locked, arg_count, free, exposed, queue, built,
                 node, given, index, number, back, found, todo>>

\* worker_disconnect_node: waits for the lock of the next node.
DisconnectLock(w) ==
  /\ pc[w] = "disconnect"
  /\ ~locked[Head(todo[w])]
  /\ locked' = [locked EXCEPT ![Head(todo[w])] = TRUE]
  /\ Goto(w, "read")
  /\ UNCHANGED <<ctor, port, arg_count, free, exposed, queue, built, node,
                 given, index, number, back, found, todo>>

\* Mutant: the lock is kept.
worker_disconnect_node_locked(w) ==
  /\ pc[w] = "read"
  /\ Goto(w, "recycle")
  /\ UNCHANGED <<ctor, port, locked, arg_count, free, exposed, queue, built,
                 node, given, index, number, back, found, todo>>

\* The rest of it up to the unlock: the ports are read and the principal wires
\* freed.
worker_disconnect_node(w) ==
  /\ pc[w] = "read"
  /\ locked' = [locked EXCEPT ![Head(todo[w])] = FALSE]
  /\ Goto(w, IF ctor[Head(todo[w])] = Null THEN "abort" ELSE "recycle")
  /\ UNCHANGED <<ctor, port, arg_count, free, exposed, queue, built, node,
                 given, index, number, back, found, todo>>

\* The nodes of an active pair are recycled before the body of the rule runs, a
\* primitive when its task is done.  node_clean leaves the lock alone.
worker_recycle_node(w) ==
  /\ pc[w] \in {"recycle", "retire"}
  /\ LET n == Head(todo[w]) IN
       /\ ctor' = [ctor EXCEPT ![n] = Null]
       /\ port' = [port EXCEPT ![n] = NoPorts]
       /\ arg_count' = [arg_count EXCEPT ![n] = 0]
       /\ free' = free \union {n}
  /\ todo' = [todo EXCEPT ![w] = Tail(@)]
  /\ Goto(w, IF pc[w] = "retire" THEN "idle"
             ELSE IF Len(todo[w]) = 2 THEN "disconnect" ELSE "run")
  /\ UNCHANGED <<locked, exposed, queue, built, node, given, index, number,
                 back, found>>

Step(w) ==
  \/ node_principal_port_count(w)
  \/ \E n \in Nodes, k \in Ctors : worker_new_node(w, n, k)
  \/ node_lock(w) \/ reconnect_input(w) \/ ReadArity(w)
  \/ reconnect_output(w) \/ node_unlock(w) \/ worker_add_task(w)
  \/ \E x, y \in exposed : ConnectPair(w, x, y)
  \/ \E x \in exposed : ConnectArgument(w, x)
  \/ \E t \in queue : worker_handle_task(w, t)
  \/ worker_run_until(w) \/ worker_handle_task_primitive(w)
  \/ DisconnectLock(w) \/ worker_disconnect_node(w) \/ worker_recycle_node(w)

Finished ==
  /\ Aborted \/ (queue = {} /\ \A w \in Workers : pc[w] \in {"idle", "off"})
  /\ UNCHANGED vars

Next == (~Aborted /\ \E w \in Workers : Step(w)) \/ Finished

Spec == Init /\ [][Next]_vars

\* The operating system runs every worker that can run.
FairSpec == Spec /\ \A w \in Workers : WF_vars(Step(w))

----------------------------------------------------------------------------
(* Properties. *)

\* Every variable keeps its type.
TypeOK ==
  /\ ctor \in [Nodes -> Ctors \union {Null}]
  /\ port \in [Nodes -> [Indices -> {"empty", "principal", "wire", "argument"}]]
  /\ locked \in [Nodes -> BOOLEAN]
  /\ arg_count \in [Nodes -> Nat]
  /\ free \subseteq Nodes
  /\ exposed \subseteq Nodes \X Indices
  /\ queue \subseteq {<<n>> : n \in Nodes} \union (Nodes \X Nodes)
  /\ built \in 0 .. MaxBuilt
  /\ pc \in [Workers -> Labels]
  /\ node \in [Workers -> Nodes \union {Null}]
  /\ given \in [Workers -> Nat] /\ index \in [Workers -> Nat]
  /\ number \in [Workers -> Nat]
  /\ back \in [Workers -> {"run", "input", "outputs"}]
  /\ found \in [Workers -> {<<>>} \union {<<n>> : n \in Nodes} \union (Nodes \X Nodes)]
  /\ todo \in [Workers -> {<<>>} \union {<<n>> : n \in Nodes} \union (Nodes \X Nodes)]

\* The comment in worker_handle_task_primitive: "output position of a primitive
\* node ctor must be wire."
OutputsAreWires ==
  \A w \in Workers : pc[w] = "outputs" =>
    LET n == todo[w][1] IN
      ctor[n] # Null =>
        \A i \in input_arity[ctor[n]] .. arity[ctor[n]] - 1 : port[n][i] = "wire"

\* A worker that disconnects a node finds all its ports filled, although the
\* task may be there, and in the hands of another worker, before
\* worker_reconnect_node has filled the outputs: what the lock in the node is
\* for.  A primitive, which is not locked, is safe in the single-threaded mode.
PortsReady ==
  /\ \A w \in Workers : pc[w] = "read" =>
       LET n == Head(todo[w]) IN
         ctor[n] # Null /\ \A i \in 0 .. arity[ctor[n]] - 1 : port[n][i] # "empty"
  /\ OutputsAreWires

\* The tasks, found or taken or queued, that node n is in.
Claims(n) ==
  {<<"queue", t>> : t \in {t \in queue : \E i \in DOMAIN t : t[i] = n}} \union
  {<<"found", w>> : w \in {w \in Workers : \E i \in DOMAIN found[w] : found[w][i] = n}} \union
  {<<"todo", w>> : w \in {w \in Workers : \E i \in DOMAIN todo[w] : todo[w][i] = n}}

\* A node is consumed once: it is in at most one task, whoever found it, and
\* only with one of its principal ports.
ConsumedOnce ==
  /\ \A n \in Nodes : Cardinality(Claims(n)) <= 1
  /\ \A x \in exposed : IsPrimitive(x[1]) \/ Claims(x[1]) = {}

\* The worker is inside worker_reconnect_node.
Building(w) ==
  \/ pc[w] \in {"lock", "input", "output"}
  \/ pc[w] = "compare" /\ back[w] = "input"

\* A recycled node is left alone: nobody holds its lock, which the next
\* worker_reconnect_node would wait for, nobody still builds it, none of its
\* principal wires is reachable and no task names it.
RecycledIsUnused ==
  \A n \in free :
    /\ ~locked[n] /\ ctor[n] = Null /\ arg_count[n] = 0
    /\ \A w \in Workers : Building(w) => node[w] # n
    /\ \A x \in exposed : x[1] # n
    /\ Claims(n) = {}

\* None of the assertions of worker_reconnect_node.c, worker_handle_task.c and
\* node.c fails, and no count of a worker leaves its range.
NoAbort == TypeOK /\ ~Aborted

\* The assertion of node_principal_port_count: the node has its constructor.
CountedNodeHasCtor ==
  \A w \in Workers : pc[w] = "compare" => ctor[node[w]] # Null

\* Every task is handled, the locks of the nodes never stop the workers, and
\* all of them come to rest.
ComesToRest == <>[](queue = {} /\ \A w \in Workers : pc[w] \in {"idle", "off"})
=============================================================================
