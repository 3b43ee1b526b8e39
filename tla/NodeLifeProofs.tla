--------------------------- MODULE NodeLifeProofs ---------------------------
(***************************************************************************)
(* Proofs about NodeLife, when primitives are only built by a worker that  *)
(* is alone (the runs that let several workers build them show what goes   *)
(* wrong then).  The invariant follows a node from worker_new_node to      *)
(* worker_recycle_node: who builds it, which of its ports are filled, who  *)
(* holds its lock, which of its principal wires can be reached, and which  *)
(* task claims it.                                                         *)
(***************************************************************************)
EXTENDS NodeLife, FiniteSetTheorems, TLAPS

\* Task t is about node n; no task is.
Names(t, n) == \E i \in DOMAIN t : t[i] = n

Unclaimed(n) ==
  /\ \A t \in queue : ~Names(t, n)
  /\ \A w \in Workers : ~Names(found[w], n) /\ ~Names(todo[w], n)

Principal(n) == is_principal[ctor[n]]
Exposes(n) == \E x \in exposed : x[1] = n

\* Only a worker that is alone deals with primitives.
PrimitivesAlone ==
  \A n \in Nodes, w \in Workers :
    IsPrimitive(n) /\ pc[w] # "off" => \A v \in Workers \ {w} : pc[v] = "off"

\* node_clean has been here.
FreeIsClean ==
  \A n \in Nodes :
    /\ n \in free <=> ctor[n] = Null
    /\ n \in free => port[n] = NoPorts /\ arg_count[n] = 0

\* How far a worker that builds a node has got.
BuildState ==
  \A w \in Workers :
    /\ Building(w) =>
         /\ node[w] \in Nodes \ free
         /\ given[w] = input_arity[ctor[node[w]]]
         /\ IF pc[w] = "output"
            THEN number[w] = arity[ctor[node[w]]] /\ index[w] \in given[w] .. number[w]
            ELSE index[w] <= given[w]
    /\ pc[w] = "lock" => index[w] = given[w]

OneBuilder ==
  \A v, w \in Workers : v # w /\ Building(v) /\ Building(w) => node[v] # node[w]

\* worker_reconnect_node keeps at most one task, and it is about its node.
FoundState ==
  \A w \in Workers : found[w] # <<>> =>
    \/ pc[w] = "add_task"
    \/ Building(w) /\ pc[w] # "lock" /\ Names(found[w], node[w])

\* The task of a worker, and what it may be doing with it.
TodoState ==
  \A w \in Workers :
    LET n == todo[w][1] IN
      /\ pc[w] \in {"off", "idle"} => todo[w] = <<>>
      /\ pc[w] \in {"disconnect", "read", "recycle"} =>
           todo[w] # <<>> /\ ~IsPrimitive(n)
      /\ pc[w] \notin {"off", "idle", "disconnect", "read", "recycle"} /\ todo[w] # <<>> =>
           Len(todo[w]) = 1 /\ IsPrimitive(n)
      /\ pc[w] \in {"outputs", "retire"} \/ (pc[w] = "compare" /\ back[w] = "outputs") =>
           todo[w] # <<>> /\ index[w] <= arity[ctor[n]]

\* An argument that has just been counted.
CompareState ==
  \A w \in Workers : pc[w] = "compare" =>
    LET n == node[w] IN
      /\ n \in Nodes /\ IsPrimitive(n) /\ Unclaimed(n)
      /\ number[w] = arg_count[n]

\* The lock of a node is held by the worker that builds it or by the one that
\* disconnects it, and no node is built while it is consumed.
BuilderLocks == \A w \in Workers : Building(w) /\ pc[w] # "lock" => locked[node[w]]
ReaderLocks == \A w \in Workers : pc[w] = "read" => locked[todo[w][1]]
Holds(w, n) ==
  \/ Building(w) /\ pc[w] # "lock" /\ node[w] = n
  \/ pc[w] = "read" /\ todo[w][1] = n
LockHeld == \A n \in Nodes : locked[n] => \E w \in Workers : Holds(w, n)
BuiltOrConsumed ==
  \A v, w \in Workers : pc[v] \in {"read", "recycle", "retire"} /\ Building(w) =>
    node[w] # todo[v][1]

\* What is in the ports of the nodes that are used.
PortKinds ==
  \A n \in Nodes \ free : \A i \in 0 .. arity[ctor[n]] - 1 :
    port[n][i] \in IF i \in Principal(n) THEN {"empty", "principal", "argument"}
                   ELSE {"empty", "wire"}

Filled ==
  /\ \A w \in Workers : Building(w) =>
       IF pc[w] = "output"
       THEN \A i \in 0 .. index[w] - 1 : port[node[w]][i] # "empty"
       ELSE \A i \in 0 .. given[w] - 1 : port[node[w]][i] = "empty" <=> i < index[w]
  /\ \A n \in Nodes \ free : (\A w \in Workers : Building(w) => node[w] # n) =>
       \A i \in 0 .. arity[ctor[n]] - 1 : port[n][i] # "empty"

ArgsCounted ==
  \A n \in Nodes : IsPrimitive(n) =>
    /\ arg_count[n] = Cardinality({i \in Principal(n) : port[n][i] = "argument"})
    /\ ~Unclaimed(n) => arg_count[n] = Cardinality(Principal(n))

\* What can be reached.
ExposedState ==
  \A x \in exposed :
    /\ x[1] \in Nodes \ free /\ x[2] \in Principal(x[1])
    /\ port[x[1]][x[2]] = "principal"
    /\ IsPrimitive(x[1]) \/ Unclaimed(x[1])

\* A node whose principal port is not yet connected cannot be reached.
Fresh ==
  \A w \in Workers : Building(w) /\ ~IsPrimitive(node[w]) =>
    \A p \in Principal(node[w]) :
      p >= given[w] \/ (pc[w] # "output" /\ p < index[w]) =>
        Unclaimed(node[w]) /\ ~Exposes(node[w])

\* A task is about a primitive or about two other nodes, none of them recycled.
GoodTask(t) ==
  /\ \A n \in free : ~Names(t, n)
  /\ Len(t) = 1 => IsPrimitive(t[1])
  /\ Len(t) = 2 => t[1] # t[2] /\ ~IsPrimitive(t[1]) /\ ~IsPrimitive(t[2])

GoodTasks ==
  /\ \A t \in queue : GoodTask(t)
  /\ \A w \in Workers : GoodTask(found[w])
  /\ \A w \in Workers : /\ \A n \in free : ~Names(todo[w], n)
                        /\ Len(todo[w]) = 2 => GoodTask(todo[w])

\* No two tasks are about the same node.
ClaimedOnce ==
  \A n \in Nodes :
    /\ \A t, u \in queue : Names(t, n) /\ Names(u, n) => t = u
    /\ \A t \in queue : Names(t, n) =>
         \A w \in Workers : ~Names(found[w], n) /\ ~Names(todo[w], n)
    /\ \A v, w \in Workers : /\ Names(found[v], n) /\ Names(found[w], n) => v = w
                             /\ Names(todo[v], n) /\ Names(todo[w], n) => v = w
                             /\ Names(found[v], n) => ~Names(todo[w], n)

Inv ==
  /\ TypeOK /\ ~Aborted
  /\ PrimitivesAlone /\ FreeIsClean
  /\ BuildState /\ OneBuilder /\ FoundState /\ TodoState /\ CompareState
  /\ BuilderLocks /\ ReaderLocks /\ LockHeld /\ BuiltOrConsumed
  /\ PortKinds /\ Filled /\ ArgsCounted
  /\ ExposedState /\ Fresh /\ GoodTasks /\ ClaimedOnce

----------------------------------------------------------------------------
(* Tasks and constructors. *)

TaskSet == {<<>>} \union {<<n>> : n \in Nodes} \union (Nodes \X Nodes)

\* The three shapes of a task.
LEMMA TaskShape ==
  ASSUME NEW t \in TaskSet
  PROVE  \/ t = <<>> /\ Len(t) = 0 /\ \A n : ~Names(t, n)
         \/ /\ t # <<>> /\ Len(t) = 1 /\ t[1] \in Nodes /\ t = <<t[1]>>
            /\ Head(t) = t[1] /\ Tail(t) = <<>>
            /\ \A n : Names(t, n) <=> n = t[1]
         \/ /\ t # <<>> /\ Len(t) = 2 /\ t[1] \in Nodes /\ t[2] \in Nodes
            /\ t = <<t[1], t[2]>> /\ Head(t) = t[1] /\ Tail(t) = <<t[2]>>
            /\ \A n : Names(t, n) <=> n = t[1] \/ n = t[2]
<1>1. CASE t = <<>>
  BY <1>1 DEF Names
<1>2. ASSUME NEW m \in Nodes, t = <<m>>
      PROVE  /\ t # <<>> /\ Len(t) = 1 /\ t[1] \in Nodes /\ t = <<t[1]>>
             /\ Head(t) = t[1] /\ Tail(t) = <<>>
             /\ \A n : Names(t, n) <=> n = t[1]
  <2>1. DOMAIN t = {1} /\ Len(t) = 1 /\ t[1] = m
    BY <1>2
  <2>2. Head(t) = m /\ Tail(t) = <<>>
    BY <1>2
  <2> QED
    BY <1>2, <2>1, <2>2 DEF Names
<1>3. ASSUME NEW m \in Nodes, NEW k \in Nodes, t = <<m, k>>
      PROVE  /\ t # <<>> /\ Len(t) = 2 /\ t[1] \in Nodes /\ t[2] \in Nodes
             /\ t = <<t[1], t[2]>> /\ Head(t) = t[1] /\ Tail(t) = <<t[2]>>
             /\ \A n : Names(t, n) <=> n = t[1] \/ n = t[2]
  <2>1. DOMAIN t = {1, 2} /\ Len(t) = 2 /\ t[1] = m /\ t[2] = k
    BY <1>3
  <2>2. Head(t) = m /\ Tail(t) = <<k>>
    BY <1>3
  <2> QED
    BY <1>3, <2>1, <2>2 DEF Names
<1> QED
  BY <1>1, <1>2, <1>3 DEF TaskSet

\* Tasks that are made.
LEMMA TaskMade ==
  /\ <<>> \in TaskSet
  /\ \A n \in Nodes : <<n>> \in TaskSet /\ <<n>> # <<>>
                      /\ \A m : Names(<<n>>, m) <=> m = n
  /\ \A k, n \in Nodes : <<k, n>> \in TaskSet /\ <<k, n>> # <<>>
                         /\ \A m : Names(<<k, n>>, m) <=> m = k \/ m = n
<1>1. \A n \in Nodes : <<n>> \in TaskSet
  BY DEF TaskSet
<1>2. \A k, n \in Nodes : <<k, n>> \in TaskSet
  BY DEF TaskSet
<1>3. \A n \in Nodes : <<n>>[1] = n /\ Len(<<n>>) = 1
  OBVIOUS
<1>4. \A k, n \in Nodes : <<k, n>>[1] = k /\ <<k, n>>[2] = n /\ Len(<<k, n>>) = 2
  OBVIOUS
<1>5. ASSUME NEW n \in Nodes
      PROVE  <<n>> # <<>> /\ \A m : Names(<<n>>, m) <=> m = n
  BY <1>1, <1>3, TaskShape
<1>6. ASSUME NEW k \in Nodes, NEW n \in Nodes
      PROVE  <<k, n>> # <<>> /\ \A m : Names(<<k, n>>, m) <=> m = k \/ m = n
  BY <1>2, <1>4, TaskShape
<1> QED
  BY <1>1, <1>2, <1>5, <1>6 DEF TaskSet

\* What the assumptions say of one constructor.
LEMMA CtorFacts ==
  ASSUME NEW k \in Ctors
  PROVE  /\ k # Null
         /\ arity[k] \in Nat /\ input_arity[k] \in Nat /\ input_arity[k] <= arity[k]
         /\ is_principal[k] \subseteq 0 .. arity[k] - 1
         /\ k \in Primitives => is_principal[k] \subseteq 0 .. input_arity[k] - 1
         /\ k \notin Primitives => \E p : is_principal[k] = {p}
         /\ IsFiniteSet(is_principal[k]) /\ Cardinality(is_principal[k]) \in Nat
         /\ \A i \in 0 .. arity[k] - 1 : i \in Indices
<1>1. /\ k # Null
      /\ arity[k] \in Nat /\ input_arity[k] \in Nat /\ input_arity[k] <= arity[k]
      /\ is_principal[k] \subseteq 0 .. arity[k] - 1
      /\ k \in Primitives => is_principal[k] \subseteq 0 .. input_arity[k] - 1
      /\ k \notin Primitives => Cardinality(is_principal[k]) = 1
  BY CtorAssumption
<1>2. IsFiniteSet(0 .. arity[k] - 1)
  BY <1>1, FS_Interval
<1>3. IsFiniteSet(is_principal[k]) /\ Cardinality(is_principal[k]) \in Nat
  BY <1>1, <1>2, FS_Subset, FS_CardinalityType
<1>4. k \notin Primitives => \E p : is_principal[k] = {p}
  BY <1>1, <1>3, FS_Singleton
<1>5. \A i \in 0 .. arity[k] - 1 : i \in Indices
  BY DEF Indices
<1> QED
  BY <1>1, <1>3, <1>4, <1>5

----------------------------------------------------------------------------
(* Types. *)

\* Every worker but w is where it was.
Others(w) ==
  \A v \in Workers \ {w} :
    /\ pc'[v] = pc[v] /\ node'[v] = node[v] /\ given'[v] = given[v]
    /\ index'[v] = index[v] /\ number'[v] = number[v] /\ back'[v] = back[v]
    /\ found'[v] = found[v] /\ todo'[v] = todo[v]

\* TypeOK with the tasks named.
LEMMA TypeFacts ==
  ASSUME TypeOK
  PROVE  /\ queue \subseteq TaskSet \ {<<>>}
         /\ found \in [Workers -> TaskSet] /\ todo \in [Workers -> TaskSet]
<1>1. found \in [Workers -> TaskSet] /\ todo \in [Workers -> TaskSet]
  BY DEF TypeOK, TaskSet
<1>2. \A t \in queue : t \in TaskSet
  BY DEF TypeOK, TaskSet
<1>3. <<>> \notin queue
  <2>1. \A n \in Nodes : <<n>> # <<>>
    BY TaskMade
  <2>2. \A k, n \in Nodes : <<k, n>> # <<>>
    BY TaskMade
  <2>3. <<>> \notin {<<n>> : n \in Nodes} \union (Nodes \X Nodes)
    <3>1. <<>> \notin {<<n>> : n \in Nodes}
      BY <2>1
    <3>2. \A t \in Nodes \X Nodes : t = <<t[1], t[2]>> /\ t[1] \in Nodes /\ t[2] \in Nodes
      OBVIOUS
    <3>3. <<>> \notin Nodes \X Nodes
      BY <2>2, <3>2
    <3> QED
      BY <3>1, <3>3
  <2> QED
    BY <2>3 DEF TypeOK
<1> QED
  BY <1>1, <1>2, <1>3

\* A queue of tasks that are not empty has its type.
LEMMA QueueTypes ==
  ASSUME NEW Q, Q \subseteq TaskSet \ {<<>>}
  PROVE  Q \subseteq {<<n>> : n \in Nodes} \union (Nodes \X Nodes)
BY DEF TaskSet

\* The types a step has to give.
LEMMA TypesNext ==
  ASSUME ctor' \in [Nodes -> Ctors \union {Null}],
         port' \in [Nodes -> [Indices -> {"empty", "principal", "wire", "argument"}]],
         locked' \in [Nodes -> BOOLEAN], arg_count' \in [Nodes -> Nat],
         free' \subseteq Nodes, exposed' \subseteq Nodes \X Indices,
         queue' \subseteq TaskSet \ {<<>>}, built' \in 0 .. MaxBuilt,
         pc' \in [Workers -> Labels], node' \in [Workers -> Nodes \union {Null}],
         given' \in [Workers -> Nat], index' \in [Workers -> Nat],
         number' \in [Workers -> Nat], back' \in [Workers -> {"run", "input", "outputs"}],
         found' \in [Workers -> TaskSet], todo' \in [Workers -> TaskSet]
  PROVE  TypeOK'
BY QueueTypes DEF TypeOK, TaskSet

\* collect_primitive_arg puts one argument into a port and counts it.
LEMMA CollectFacts ==
  ASSUME TypeOK, NEW w \in Workers, NEW n \in Nodes, NEW i \in Indices,
         pc[w] \in {"run", "input", "outputs"}, collect_primitive_arg(w, n, i)
  PROVE  /\ port' \in [Nodes -> [Indices -> {"empty", "principal", "wire", "argument"}]]
         /\ arg_count' \in [Nodes -> Nat] /\ number' \in [Workers -> Nat]
         /\ node' \in [Workers -> Nodes \union {Null}]
         /\ back' \in [Workers -> {"run", "input", "outputs"}]
         /\ pc' \in [Workers -> Labels]
         /\ pc'[w] = "compare" /\ back'[w] = pc[w] /\ node'[w] = n
         /\ number'[w] = arg_count[n] + 1 /\ arg_count'[n] = arg_count[n] + 1
         /\ \A m \in Nodes \ {n} : arg_count'[m] = arg_count[m]
         /\ port'[n][i] = "argument"
         /\ \A m \in Nodes, j \in Indices : m # n \/ j # i => port'[m][j] = port[m][j]
         /\ \A v \in Workers \ {w} : /\ pc'[v] = pc[v] /\ node'[v] = node[v]
                                     /\ number'[v] = number[v] /\ back'[v] = back[v]
<1>1. port' = [port EXCEPT ![n][i] = "argument"]
  BY DEF collect_primitive_arg
<1>2. port \in [Nodes -> [Indices -> {"empty", "principal", "wire", "argument"}]]
  BY DEF TypeOK
<1>3. port' \in [Nodes -> [Indices -> {"empty", "principal", "wire", "argument"}]]
  BY <1>1, <1>2
<1>4. port'[n][i] = "argument"
      /\ \A m \in Nodes, j \in Indices : m # n \/ j # i => port'[m][j] = port[m][j]
  BY <1>1, <1>2
<1>5. /\ arg_count' = [arg_count EXCEPT ![n] = @ + 1]
      /\ number' = [number EXCEPT ![w] = arg_count[n] + 1]
      /\ node' = [node EXCEPT ![w] = n] /\ back' = [back EXCEPT ![w] = pc[w]]
      /\ pc' = [pc EXCEPT ![w] = "compare"]
  BY DEF collect_primitive_arg, Goto
<1> QED
  BY <1>3, <1>4, <1>5 DEF TypeOK, Labels

\* What of a worker's task is used as a node is one.
LEMMA TodoFacts ==
  ASSUME Inv, NEW w \in Workers, todo[w] # <<>>
  PROVE  /\ todo[w] \in TaskSet /\ todo[w][1] \in Nodes /\ Head(todo[w]) = todo[w][1]
         /\ Names(todo[w], todo[w][1]) /\ todo[w][1] \notin free
         /\ ctor[todo[w][1]] \in Ctors
<1>1. todo[w] \in TaskSet
  BY TypeFacts DEF Inv
<1>2. todo[w][1] \in Nodes /\ Head(todo[w]) = todo[w][1] /\ Names(todo[w], todo[w][1])
  BY <1>1, TaskShape
<1>3. todo[w][1] \notin free
  BY <1>2 DEF Inv, GoodTasks
<1> QED
  BY <1>1, <1>2, <1>3 DEF Inv, FreeIsClean, TypeOK

\* The node that is built.
LEMMA BuildFacts ==
  ASSUME Inv, NEW w \in Workers, Building(w)
  PROVE  /\ node[w] \in Nodes /\ node[w] \notin free /\ ctor[node[w]] \in Ctors
         /\ given[w] = input_arity[ctor[node[w]]]
BY DEF Inv, BuildState, FreeIsClean, TypeOK

\* Exposed wires are wires of nodes.
LEMMA ExposedFacts ==
  ASSUME Inv, NEW x \in exposed
  PROVE  /\ x[1] \in Nodes /\ x[2] \in Indices /\ x[1] \notin free
         /\ ctor[x[1]] \in Ctors /\ x[2] \in Principal(x[1]) /\ x = <<x[1], x[2]>>
         /\ port[x[1]][x[2]] = "principal"
BY DEF Inv, ExposedState, FreeIsClean, TypeOK

----------------------------------------------------------------------------
(* Every action keeps the types and touches one worker. *)

\* node_principal_port_count.
LEMMA CountTypes ==
  ASSUME Inv, NEW w \in Workers, node_principal_port_count(w)
  PROVE  TypeOK' /\ Others(w)
<1>1. TypeOK /\ node[w] \in Nodes /\ back[w] \in {"run", "input", "outputs"}
  BY DEF Inv, CompareState, node_principal_port_count, TypeOK
<1>2. /\ queue \subseteq TaskSet \ {<<>>}
      /\ found \in [Workers -> TaskSet] /\ todo \in [Workers -> TaskSet]
      /\ <<node[w]>> \in TaskSet /\ <<node[w]>> # <<>>
  BY <1>1, TypeFacts, TaskMade
<1>3. pc' \in [Workers -> Labels] /\ \A v \in Workers \ {w} : pc'[v] = pc[v]
  BY <1>1 DEF node_principal_port_count, Goto, KeepTask, TypeOK, Labels
<1>4. found' \in [Workers -> TaskSet] /\ \A v \in Workers \ {w} : found'[v] = found[v]
  BY <1>2 DEF node_principal_port_count, KeepTask
<1>5. queue' \subseteq TaskSet \ {<<>>}
  BY <1>2 DEF node_principal_port_count
<1>6. UNCHANGED <<ctor, port, locked, arg_count, free, exposed, built, node,
                  given, index, number, back, todo>>
  BY DEF node_principal_port_count
<1>7. TypeOK'
  BY <1>1, <1>2, <1>3, <1>4, <1>5, <1>6, TypesNext DEF TypeOK
<1> QED
  BY <1>3, <1>4, <1>6, <1>7 DEF Others

\* worker_new_node.
LEMMA NewTypes ==
  ASSUME Inv, NEW w \in Workers, NEW n \in Nodes, NEW k \in Ctors, worker_new_node(w, n, k)
  PROVE  TypeOK' /\ Others(w)
<1>1. TypeOK /\ input_arity[k] \in Nat /\ built < MaxBuilt
  BY CtorFacts DEF Inv, worker_new_node
<1>2. built' \in 0 .. MaxBuilt
  BY <1>1, BoundAssumption DEF worker_new_node, TypeOK
<1>3. /\ ctor' \in [Nodes -> Ctors \union {Null}] /\ free' \subseteq Nodes
      /\ node' \in [Workers -> Nodes \union {Null}] /\ given' \in [Workers -> Nat]
      /\ index' \in [Workers -> Nat] /\ pc' \in [Workers -> Labels]
  BY <1>1 DEF worker_new_node, Goto, TypeOK, Labels
<1>4. UNCHANGED <<port, locked, arg_count, exposed, queue, number, back, found, todo>>
  BY DEF worker_new_node
<1>5. TypeOK'
  BY <1>1, <1>2, <1>3, <1>4, TypesNext, TypeFacts DEF TypeOK
<1>6. Others(w)
  BY <1>1, <1>4 DEF Others, worker_new_node, Goto, TypeOK
<1> QED
  BY <1>5, <1>6

\* node_lock.
LEMMA LockTypes ==
  ASSUME Inv, NEW w \in Workers, node_lock(w)
  PROVE  TypeOK' /\ Others(w)
<1>1. TypeOK
  BY DEF Inv
<1>2. locked' \in [Nodes -> BOOLEAN] /\ pc' \in [Workers -> Labels]
  BY <1>1 DEF node_lock, Goto, TypeOK, Labels
<1>3. UNCHANGED <<ctor, port, arg_count, free, exposed, queue, built, node,
                  given, index, number, back, found, todo>>
  BY DEF node_lock
<1>4. TypeOK'
  BY <1>1, <1>2, <1>3, TypesNext, TypeFacts DEF TypeOK
<1>5. Others(w)
  BY <1>1, <1>3 DEF Others, node_lock, Goto, TypeOK
<1> QED
  BY <1>4, <1>5

\* The four things that can happen to an input.
InputOpen(w, n, i) ==
  /\ i \in Principal(n)
  /\ exposed' = exposed \union {<<n, i>>}
  /\ port' = [port EXCEPT ![n][i] = "principal"]
  /\ UNCHANGED <<arg_count, pc, node, number, back, found>>
InputMeets(w, n, i, x, t) ==
  /\ i \in Principal(n) /\ ~IsPrimitive(n) /\ ~IsPrimitive(x[1])
  /\ exposed' = exposed \ {x}
  /\ port' = [port EXCEPT ![n][i] = "principal"]
  /\ UNCHANGED <<arg_count, node, number, back>>
  /\ \/ t = <<>> /\ UNCHANGED <<pc, found>>
     \/ t \in {<<n, x[1]>>, <<x[1], n>>} /\ KeepTask(w, t)
InputArgument(w, n, i) ==
  /\ i \in Principal(n) /\ IsPrimitive(n)
  /\ collect_primitive_arg(w, n, i)
  /\ UNCHANGED <<exposed, found>>
InputWire(w, n, i) ==
  /\ i \notin Principal(n)
  /\ port' = [port EXCEPT ![n][i] = "wire"]
  /\ UNCHANGED <<arg_count, exposed, pc, node, number, back, found>>

\* A round over the inputs does one of the four, to a port of the node.
LEMMA InputCases ==
  ASSUME Inv, NEW w \in Workers, reconnect_input(w),
         NEW n, n = node[w], NEW i, i = index[w] - 1
  PROVE  /\ pc[w] = "input" /\ Building(w) /\ n \in Nodes /\ i \in Nat /\ i < given[w]
         /\ index[w] = i + 1 /\ i \in Indices /\ i \in 0 .. arity[ctor[n]] - 1
         /\ index' = [index EXCEPT ![w] = i]
         /\ UNCHANGED <<ctor, locked, free, queue, built, given, todo>>
         /\ \/ InputOpen(w, n, i)
            \/ \E x \in exposed : \E t \in {<<>>, <<n, x[1]>>, <<x[1], n>>} :
                 InputMeets(w, n, i, x, t)
            \/ InputArgument(w, n, i)
            \/ InputWire(w, n, i)
<1>1. pc[w] = "input" /\ Building(w) /\ index[w] > 0 /\ index[w] \in Nat
  BY DEF reconnect_input, Building, Inv, TypeOK
<1>2. /\ n \in Nodes /\ ctor[n] \in Ctors /\ given[w] = input_arity[ctor[n]]
      /\ index[w] <= given[w]
  BY <1>1, BuildFacts DEF Inv, BuildState
<1>3. /\ input_arity[ctor[n]] \in Nat /\ arity[ctor[n]] \in Nat /\ ctor[n] # Null
      /\ input_arity[ctor[n]] <= arity[ctor[n]]
      /\ \A j \in 0 .. arity[ctor[n]] - 1 : j \in Indices
  BY <1>2, CtorFacts
<1>4. /\ i \in Nat /\ i < given[w] /\ index[w] = i + 1
      /\ i \in 0 .. arity[ctor[n]] - 1
  BY <1>1, <1>2, <1>3
<1>5. index' = [index EXCEPT ![w] = i]
      /\ UNCHANGED <<ctor, locked, free, queue, built, given, todo>>
  BY DEF reconnect_input
<1>6. CASE i \in is_principal[ctor[n]]
  <2>1. ConnectInput(w, n, i)
    BY <1>3, <1>6 DEF reconnect_input
  <2> QED
    BY <1>1, <1>2, <1>3, <1>4, <1>5, <1>6, <2>1
       DEF ConnectInput, InputOpen, InputMeets, InputArgument, Principal, connect_active_pair
<1>7. CASE i \notin is_principal[ctor[n]]
  <2>1. InputWire(w, n, i)
    BY <1>3, <1>7 DEF reconnect_input, InputWire, Principal
  <2> QED
    BY <1>1, <1>2, <1>3, <1>4, <1>5, <2>1
<1> QED
  BY <1>6, <1>7

\* reconnect_input.
LEMMA InputTypes ==
  ASSUME Inv, NEW w \in Workers, reconnect_input(w)
  PROVE  TypeOK' /\ Others(w)
<1> DEFINE n == node[w]
           i == index[w] - 1
<1>1. /\ pc[w] = "input" /\ Building(w) /\ n \in Nodes /\ i \in Nat /\ i < given[w]
      /\ index[w] = i + 1 /\ i \in Indices /\ i \in 0 .. arity[ctor[n]] - 1
      /\ index' = [index EXCEPT ![w] = i]
      /\ UNCHANGED <<ctor, locked, free, queue, built, given, todo>>
      /\ \/ InputOpen(w, n, i)
         \/ \E x \in exposed : \E t \in {<<>>, <<n, x[1]>>, <<x[1], n>>} :
              InputMeets(w, n, i, x, t)
         \/ InputArgument(w, n, i)
         \/ InputWire(w, n, i)
  BY InputCases
<1> HIDE DEF n, i
<1>2. TypeOK /\ index' \in [Workers -> Nat]
      /\ \A v \in Workers \ {w} : index'[v] = index[v]
  BY <1>1 DEF Inv, TypeOK
<1>3. /\ queue \subseteq TaskSet \ {<<>>}
      /\ found \in [Workers -> TaskSet] /\ todo \in [Workers -> TaskSet]
  BY <1>2, TypeFacts
<1>4. CASE InputOpen(w, n, i)
  <2>1. port' \in [Nodes -> [Indices -> {"empty", "principal", "wire", "argument"}]]
        /\ exposed' \subseteq Nodes \X Indices
    BY <1>1, <1>2, <1>4 DEF InputOpen, TypeOK
  <2> QED
    BY <1>1, <1>2, <1>3, <1>4, <2>1, TypesNext DEF InputOpen, TypeOK, Others
<1>5. ASSUME NEW x \in exposed, NEW t \in {<<>>, <<n, x[1]>>, <<x[1], n>>},
             InputMeets(w, n, i, x, t)
      PROVE  TypeOK' /\ Others(w)
  <2>1. port' \in [Nodes -> [Indices -> {"empty", "principal", "wire", "argument"}]]
        /\ exposed' \subseteq Nodes \X Indices
    BY <1>1, <1>2, <1>5 DEF InputMeets, TypeOK
  <2>2. x[1] \in Nodes
    BY ExposedFacts
  <2>3. t \in TaskSet
    BY <1>1, <2>2, TaskMade
  <2>a. \/ UNCHANGED <<pc, found>>
        \/ /\ found' = [found EXCEPT ![w] = t]
           /\ \E l \in Labels : pc' = [pc EXCEPT ![w] = l]
    BY <1>5 DEF InputMeets, KeepTask, Goto, Labels
  <2>b. pc \in [Workers -> Labels]
    BY <1>2 DEF TypeOK
  <2>c. found' \in [Workers -> TaskSet] /\ \A v \in Workers \ {w} : found'[v] = found[v]
    BY <1>3, <2>3, <2>a
  <2>d. pc' \in [Workers -> Labels] /\ \A v \in Workers \ {w} : pc'[v] = pc[v]
    BY <2>a, <2>b
  <2>4. /\ found' \in [Workers -> TaskSet] /\ pc' \in [Workers -> Labels]
        /\ \A v \in Workers \ {w} : found'[v] = found[v] /\ pc'[v] = pc[v]
    BY <2>c, <2>d
  <2> QED
    BY <1>1, <1>2, <1>3, <1>5, <2>1, <2>4, TypesNext DEF InputMeets, TypeOK, Others
<1>6. CASE InputArgument(w, n, i)
  <2>1. collect_primitive_arg(w, n, i) /\ UNCHANGED <<exposed, found>>
    BY <1>6 DEF InputArgument
  <2>2. /\ port' \in [Nodes -> [Indices -> {"empty", "principal", "wire", "argument"}]]
        /\ arg_count' \in [Nodes -> Nat] /\ number' \in [Workers -> Nat]
        /\ node' \in [Workers -> Nodes \union {Null}]
        /\ back' \in [Workers -> {"run", "input", "outputs"}]
        /\ pc' \in [Workers -> Labels]
        /\ \A v \in Workers \ {w} : /\ pc'[v] = pc[v] /\ node'[v] = node[v]
                                    /\ number'[v] = number[v] /\ back'[v] = back[v]
    BY <1>1, <1>2, <2>1, CollectFacts
  <2> QED
    BY <1>1, <1>2, <1>3, <2>1, <2>2, TypesNext DEF TypeOK, Others
<1>7. CASE InputWire(w, n, i)
  <2>1. port' \in [Nodes -> [Indices -> {"empty", "principal", "wire", "argument"}]]
    BY <1>1, <1>2, <1>7 DEF InputWire, TypeOK
  <2>2. UNCHANGED <<pc, node, number, back, found, arg_count, exposed>>
    BY <1>7 DEF InputWire
  <2>3. /\ arg_count' \in [Nodes -> Nat] /\ number' \in [Workers -> Nat]
        /\ node' \in [Workers -> Nodes \union {Null}]
        /\ back' \in [Workers -> {"run", "input", "outputs"}]
        /\ pc' \in [Workers -> Labels]
    <3>1. /\ arg_count \in [Nodes -> Nat] /\ number \in [Workers -> Nat]
          /\ node \in [Workers -> Nodes \union {Null}]
          /\ back \in [Workers -> {"run", "input", "outputs"}]
          /\ pc \in [Workers -> Labels]
      BY <1>2 DEF TypeOK
    <3> QED
      BY ONLY <2>2, <3>1
  <2> QED
    BY <1>1, <1>2, <1>3, <2>1, <2>2, <2>3, TypesNext DEF TypeOK, Others
<1> QED
  BY <1>1, <1>4, <1>5, <1>6, <1>7

\* ReadArity.
LEMMA ReadArityTypes ==
  ASSUME Inv, NEW w \in Workers, ReadArity(w)
  PROVE  TypeOK' /\ Others(w)
<1>1. TypeOK /\ Building(w)
  BY DEF Inv, ReadArity, Building
<1>2. ctor[node[w]] \in Ctors
  BY <1>1, BuildFacts
<1>3. ctor[node[w]] # Null /\ arity[ctor[node[w]]] \in Nat
  BY <1>2, CtorFacts
<1>4. /\ index' \in [Workers -> Nat] /\ number' \in [Workers -> Nat]
      /\ pc' \in [Workers -> Labels]
  <2>1. /\ index \in [Workers -> Nat] /\ number \in [Workers -> Nat]
        /\ pc \in [Workers -> Labels] /\ given \in [Workers -> Nat]
    BY <1>1 DEF TypeOK
  <2>2. /\ pc' = [pc EXCEPT ![w] = "output"]
        /\ index' = [index EXCEPT ![w] = given[w]]
        /\ number' = [number EXCEPT ![w] = arity[ctor[node[w]]]]
    BY <1>3 DEF ReadArity, Goto
  <2> QED
    BY ONLY <1>3, <2>1, <2>2 DEF Labels
<1>5. UNCHANGED <<ctor, port, locked, arg_count, free, exposed, queue, built,
                  node, given, back, found, todo>>
  BY DEF ReadArity
<1>6. TypeOK'
  BY <1>1, <1>4, <1>5, TypesNext, TypeFacts DEF TypeOK
<1>7. Others(w)
  BY <1>1, <1>3, <1>5 DEF Others, ReadArity, Goto, TypeOK
<1> QED
  BY <1>6, <1>7

\* reconnect_output.
LEMMA OutputTypes ==
  ASSUME Inv, NEW w \in Workers, reconnect_output(w)
  PROVE  TypeOK' /\ Others(w)
<1>1. TypeOK
  BY DEF Inv
<1>2. port \in [Nodes -> [Indices -> {"empty", "principal", "wire", "argument"}]]
  BY <1>1 DEF TypeOK
<1>3. port' \in [Nodes -> [Indices -> {"empty", "principal", "wire", "argument"}]]
  BY <1>2 DEF reconnect_output
<1>a. index[w] \in Nat /\ index[w] + 1 \in Nat /\ index \in [Workers -> Nat]
  BY <1>1 DEF TypeOK
<1>b. \/ UNCHANGED index
      \/ index' = [index EXCEPT ![w] = index[w] + 1]
  BY DEF reconnect_output
<1>c. index' \in [Workers -> Nat]
  BY <1>a, <1>b
<1>d. pc' \in [Workers -> Labels]
  <2>1. UNCHANGED pc \/ pc' = [pc EXCEPT ![w] = "abort"]
    BY DEF reconnect_output, Goto
  <2> QED
    BY <1>1, <2>1 DEF TypeOK, Labels
<1>4. index' \in [Workers -> Nat] /\ pc' \in [Workers -> Labels]
  BY <1>c, <1>d
<1>5. UNCHANGED <<ctor, locked, arg_count, free, exposed, queue, built, node,
                  given, number, back, found, todo>>
  BY DEF reconnect_output
<1>6. TypeOK'
  BY <1>1, <1>3, <1>4, <1>5, TypesNext, TypeFacts DEF TypeOK
<1>7. Others(w)
  BY <1>1, <1>5 DEF Others, reconnect_output, Goto, TypeOK
<1> QED
  BY <1>6, <1>7

\* node_unlock.
LEMMA UnlockTypes ==
  ASSUME Inv, NEW w \in Workers, node_unlock(w)
  PROVE  TypeOK' /\ Others(w)
<1>1. TypeOK /\ Building(w)
  BY DEF Inv, node_unlock, Building
<1>2. /\ node[w] \in Nodes /\ ctor[node[w]] \in Ctors
      /\ number[w] = arity[ctor[node[w]]] /\ given[w] \in Nat
  BY <1>1, BuildFacts DEF Inv, BuildState, node_unlock, TypeOK
<1>3. \A j \in given[w] .. number[w] - 1 : j \in Indices
  BY <1>2, CtorFacts
<1>4. exposed' \subseteq Nodes \X Indices
  BY <1>1, <1>2, <1>3 DEF node_unlock, TypeOK
<1>5. locked' \in [Nodes -> BOOLEAN] /\ pc' \in [Workers -> Labels]
  BY <1>1 DEF node_unlock, Goto, TypeOK, Labels
<1>6. UNCHANGED <<ctor, port, arg_count, free, queue, built, node, given, index,
                  number, back, found, todo>>
  BY DEF node_unlock
<1>7. TypeOK'
  BY <1>1, <1>4, <1>5, <1>6, TypesNext, TypeFacts DEF TypeOK
<1>8. Others(w)
  BY <1>1, <1>6 DEF Others, node_unlock, Goto, TypeOK
<1> QED
  BY <1>7, <1>8

\* worker_add_task.
LEMMA AddTaskTypes ==
  ASSUME Inv, NEW w \in Workers, worker_add_task(w)
  PROVE  TypeOK' /\ Others(w)
<1>1. TypeOK
  BY DEF Inv
<1>2. /\ queue \subseteq TaskSet \ {<<>>}
      /\ found \in [Workers -> TaskSet] /\ todo \in [Workers -> TaskSet]
      /\ <<>> \in TaskSet
  BY <1>1, TypeFacts, TaskMade
<1>3. queue' \subseteq TaskSet \ {<<>>} /\ found' \in [Workers -> TaskSet]
  BY <1>2 DEF worker_add_task
<1>4. node' \in [Workers -> Nodes \union {Null}] /\ pc' \in [Workers -> Labels]
  BY <1>1 DEF worker_add_task, Goto, TypeOK, Labels
<1>5. UNCHANGED <<ctor, port, locked, arg_count, free, exposed, built, given,
                  index, number, back, todo>>
  BY DEF worker_add_task
<1>6. TypeOK'
  BY <1>1, <1>2, <1>3, <1>4, <1>5, TypesNext DEF TypeOK
<1>7. Others(w)
  BY <1>1, <1>2, <1>5 DEF Others, worker_add_task, Goto, TypeOK
<1> QED
  BY <1>6, <1>7

\* ConnectPair.
LEMMA PairTypes ==
  ASSUME Inv, NEW w \in Workers, NEW x \in exposed, NEW y \in exposed, ConnectPair(w, x, y)
  PROVE  TypeOK' /\ Others(w)
<1>1. TypeOK /\ x[1] \in Nodes /\ y[1] \in Nodes
  BY ExposedFacts DEF Inv
<1>2. /\ queue \subseteq TaskSet \ {<<>>}
      /\ \A t \in connect_active_pair(x[1], y[1]) : t \in TaskSet
  BY <1>1, TypeFacts, TaskMade DEF connect_active_pair
<1>3. queue' \subseteq TaskSet \ {<<>>}
  BY <1>2 DEF ConnectPair
<1>4. exposed' \subseteq Nodes \X Indices
  BY <1>1 DEF ConnectPair, TypeOK
<1>5. UNCHANGED <<ctor, port, locked, arg_count, free, built, pc, node, given,
                  index, number, back, found, todo>>
  BY DEF ConnectPair
<1>6. TypeOK'
  BY <1>1, <1>3, <1>4, <1>5, TypesNext, TypeFacts DEF TypeOK
<1> QED
  BY <1>5, <1>6 DEF Others

\* ConnectArgument.
LEMMA ArgumentTypes ==
  ASSUME Inv, NEW w \in Workers, NEW x \in exposed, ConnectArgument(w, x)
  PROVE  TypeOK' /\ Others(w)
<1>1. /\ TypeOK /\ x[1] \in Nodes /\ x[2] \in Indices /\ pc[w] = "run"
      /\ collect_primitive_arg(w, x[1], x[2])
  BY ExposedFacts DEF Inv, ConnectArgument
<1>2. /\ port' \in [Nodes -> [Indices -> {"empty", "principal", "wire", "argument"}]]
      /\ arg_count' \in [Nodes -> Nat] /\ number' \in [Workers -> Nat]
      /\ node' \in [Workers -> Nodes \union {Null}]
      /\ back' \in [Workers -> {"run", "input", "outputs"}]
      /\ pc' \in [Workers -> Labels]
      /\ \A v \in Workers \ {w} : /\ pc'[v] = pc[v] /\ node'[v] = node[v]
                                  /\ number'[v] = number[v] /\ back'[v] = back[v]
  BY <1>1, CollectFacts
<1>3. exposed' \subseteq Nodes \X Indices
  BY <1>1 DEF ConnectArgument, TypeOK
<1>4. UNCHANGED <<ctor, locked, free, queue, built, given, index, found, todo>>
  BY DEF ConnectArgument
<1>5. TypeOK'
  BY <1>1, <1>2, <1>3, <1>4, TypesNext, TypeFacts DEF TypeOK
<1> QED
  BY <1>2, <1>4, <1>5 DEF Others

\* worker_handle_task.
LEMMA HandleTypes ==
  ASSUME Inv, NEW w \in Workers, NEW t \in queue, worker_handle_task(w, t)
  PROVE  TypeOK' /\ Others(w)
<1>1. TypeOK
  BY DEF Inv
<1>2. /\ queue \subseteq TaskSet \ {<<>>}
      /\ found \in [Workers -> TaskSet] /\ todo \in [Workers -> TaskSet]
  BY <1>1, TypeFacts
<1>3. /\ queue' \subseteq TaskSet \ {<<>>} /\ todo' \in [Workers -> TaskSet]
      /\ \A v \in Workers \ {w} : todo'[v] = todo[v]
  BY <1>2 DEF worker_handle_task
<1>4. pc' \in [Workers -> Labels] /\ \A v \in Workers \ {w} : pc'[v] = pc[v]
  <2>1. \E l \in Labels : pc' = [pc EXCEPT ![w] = l]
    BY DEF worker_handle_task, Goto, Labels
  <2> QED
    BY <1>1, <2>1 DEF TypeOK
<1>5. UNCHANGED <<ctor, port, locked, arg_count, free, exposed, built, node,
                  given, index, number, back, found>>
  BY DEF worker_handle_task
<1>6. TypeOK'
  BY <1>1, <1>2, <1>3, <1>4, <1>5, TypesNext DEF TypeOK
<1> QED
  BY <1>3, <1>4, <1>5, <1>6 DEF Others

\* worker_run_until.
LEMMA UntilTypes ==
  ASSUME Inv, NEW w \in Workers, worker_run_until(w)
  PROVE  TypeOK' /\ Others(w)
<1>1. TypeOK
  BY DEF Inv
<1>2. \/ UNCHANGED index
      \/ \E a \in Nat : index' = [index EXCEPT ![w] = a]
  <2>1. CASE todo[w] = <<>>
    BY <2>1 DEF worker_run_until
  <2>2. CASE todo[w] # <<>>
    <3>1. arity[ctor[todo[w][1]]] \in Nat
      BY <2>2, TodoFacts, CtorFacts
    <3> QED
      BY <2>2, <3>1 DEF worker_run_until
  <2> QED
    BY <2>1, <2>2
<1>3. index' \in [Workers -> Nat] /\ \A v \in Workers \ {w} : index'[v] = index[v]
  BY <1>1, <1>2 DEF TypeOK
<1>4. pc' \in [Workers -> Labels] /\ \A v \in Workers \ {w} : pc'[v] = pc[v]
  <2>1. \E l \in Labels : pc' = [pc EXCEPT ![w] = l]
    BY DEF worker_run_until, Goto, Labels
  <2> QED
    BY <1>1, <2>1 DEF TypeOK
<1>5. UNCHANGED <<ctor, port, locked, arg_count, free, exposed, queue, built,
                  node, given, number, back, found, todo>>
  BY DEF worker_run_until
<1>6. TypeOK'
  BY <1>1, <1>3, <1>4, <1>5, TypesNext, TypeFacts DEF TypeOK
<1> QED
  BY <1>3, <1>4, <1>5, <1>6 DEF Others

\* The three things that a round over the outputs of a primitive can do.
OutputsEnd(w, n) ==
  /\ index[w] - 1 < input_arity[ctor[n]]
  /\ pc' = [pc EXCEPT ![w] = "retire"]
  /\ UNCHANGED <<port, arg_count, exposed, node, index, number, back>>
OutputsPass(w, n) ==
  /\ index[w] - 1 >= input_arity[ctor[n]]
  /\ index' = [index EXCEPT ![w] = index[w] - 1]
  /\ UNCHANGED <<port, arg_count, exposed, pc, node, number, back>>
OutputsGive(w, n, x) ==
  /\ index[w] - 1 >= input_arity[ctor[n]]
  /\ index' = [index EXCEPT ![w] = index[w] - 1]
  /\ IsPrimitive(x[1])
  /\ exposed' = exposed \ {x}
  /\ collect_primitive_arg(w, x[1], x[2])

\* The outputs of a primitive that is consumed hold wires.
LEMMA PrimitiveOutputs ==
  ASSUME Inv, NEW w \in Workers, pc[w] = "outputs"
  PROVE  LET n == todo[w][1] IN
           /\ todo[w] # <<>> /\ n \in Nodes /\ ctor[n] \in Ctors /\ IsPrimitive(n)
           /\ index[w] <= arity[ctor[n]]
           /\ \A i \in input_arity[ctor[n]] .. arity[ctor[n]] - 1 : port[n][i] = "wire"
<1> DEFINE n == todo[w][1]
<1>1. /\ todo[w] # <<>> /\ IsPrimitive(n) /\ index[w] <= arity[ctor[n]]
  BY DEF Inv, TodoState
<1>2. n \in Nodes /\ ctor[n] \in Ctors /\ n \notin free
  BY <1>1, TodoFacts
<1>3. /\ arity[ctor[n]] \in Nat /\ input_arity[ctor[n]] \in Nat
      /\ is_principal[ctor[n]] \subseteq 0 .. input_arity[ctor[n]] - 1
  BY <1>1, <1>2, CtorFacts DEF IsPrimitive
<1>4. ASSUME NEW v \in Workers, Building(v)
      PROVE  node[v] # n
  <2>1. CASE v = w
    BY <1>4, <2>1 DEF Building
  <2>2. CASE v # w
    <3>1. pc[v] = "off"
      BY <1>1, <1>2, <2>2 DEF Inv, PrimitivesAlone
    <3> QED
      BY <1>4, <3>1 DEF Building
  <2> QED
    BY <2>1, <2>2
<1>5. ASSUME NEW i \in input_arity[ctor[n]] .. arity[ctor[n]] - 1
      PROVE  port[n][i] = "wire"
  <2>1. i \in 0 .. arity[ctor[n]] - 1 /\ i \notin Principal(n)
    BY <1>3 DEF Principal
  <2>2. port[n][i] # "empty"
    BY <1>2, <1>4, <2>1 DEF Inv, Filled
  <2>3. port[n][i] \in {"empty", "wire"}
    BY <1>2, <2>1 DEF Inv, PortKinds
  <2> QED
    BY <2>2, <2>3
<1> QED
  BY <1>1, <1>2, <1>5

\* A round over the outputs of a primitive does one of the three, and never
\* aborts.
LEMMA OutputsCases ==
  ASSUME Inv, NEW w \in Workers, worker_handle_task_primitive(w)
  PROVE  LET n == todo[w][1] IN
           /\ pc[w] = "outputs" /\ index[w] \in Nat
           /\ UNCHANGED <<ctor, locked, free, queue, built, given, found, todo>>
           /\ \/ OutputsEnd(w, n)
              \/ OutputsPass(w, n) /\ index[w] - 1 \in Nat
              \/ (\E x \in exposed : OutputsGive(w, n, x)) /\ index[w] - 1 \in Nat
<1> DEFINE n == todo[w][1]
<1>1. pc[w] = "outputs" /\ index[w] \in Nat
  BY DEF worker_handle_task_primitive, Inv, TypeOK
<1>2. /\ n \in Nodes /\ ctor[n] \in Ctors /\ index[w] <= arity[ctor[n]]
      /\ \A i \in input_arity[ctor[n]] .. arity[ctor[n]] - 1 : port[n][i] = "wire"
  BY <1>1, PrimitiveOutputs
<1>3. ctor[n] # Null /\ input_arity[ctor[n]] \in Nat /\ arity[ctor[n]] \in Nat
  BY <1>2, CtorFacts
<1>4. UNCHANGED <<ctor, locked, free, queue, built, given, found, todo>>
  BY DEF worker_handle_task_primitive
<1>5. CASE index[w] - 1 < input_arity[ctor[n]]
  BY <1>1, <1>3, <1>4, <1>5 DEF worker_handle_task_primitive, OutputsEnd, Goto
<1>6. CASE ~(index[w] - 1 < input_arity[ctor[n]])
  <2>1. /\ index[w] - 1 \in input_arity[ctor[n]] .. arity[ctor[n]] - 1
        /\ index[w] - 1 \in Nat /\ index[w] - 1 >= input_arity[ctor[n]]
    BY <1>1, <1>2, <1>3, <1>6
  <2>2. port[n][index[w] - 1] = "wire"
    BY <1>2, <2>1
  <2> QED
    BY <1>1, <1>3, <1>4, <1>6, <2>1, <2>2
       DEF worker_handle_task_primitive, OutputsPass, OutputsGive
<1> QED
  BY <1>5, <1>6

\* worker_handle_task_primitive.
LEMMA OutputsTypes ==
  ASSUME Inv, NEW w \in Workers, worker_handle_task_primitive(w)
  PROVE  TypeOK' /\ Others(w)
<1> DEFINE n == todo[w][1]
<1>1. /\ pc[w] = "outputs" /\ index[w] \in Nat
      /\ UNCHANGED <<ctor, locked, free, queue, built, given, found, todo>>
      /\ \/ OutputsEnd(w, n)
         \/ OutputsPass(w, n) /\ index[w] - 1 \in Nat
         \/ (\E x \in exposed : OutputsGive(w, n, x)) /\ index[w] - 1 \in Nat
  BY OutputsCases
<1> HIDE DEF n
<1>2. TypeOK
  BY DEF Inv
<1>3. /\ queue \subseteq TaskSet \ {<<>>}
      /\ found \in [Workers -> TaskSet] /\ todo \in [Workers -> TaskSet]
  BY <1>2, TypeFacts
<1>4. CASE OutputsEnd(w, n)
  <2>1. pc' \in [Workers -> Labels] /\ \A v \in Workers \ {w} : pc'[v] = pc[v]
    BY <1>2, <1>4 DEF OutputsEnd, TypeOK, Labels
  <2> QED
    BY <1>1, <1>2, <1>3, <1>4, <2>1, TypesNext DEF OutputsEnd, TypeOK, Others
<1>5. CASE OutputsPass(w, n) /\ index[w] - 1 \in Nat
  <2>1. index' \in [Workers -> Nat] /\ \A v \in Workers \ {w} : index'[v] = index[v]
    BY <1>2, <1>5 DEF OutputsPass, TypeOK
  <2> QED
    BY <1>1, <1>2, <1>3, <1>5, <2>1, TypesNext DEF OutputsPass, TypeOK, Others
<1>6. ASSUME NEW x \in exposed, OutputsGive(w, n, x), index[w] - 1 \in Nat
      PROVE  TypeOK' /\ Others(w)
  <2>1. index' \in [Workers -> Nat] /\ \A v \in Workers \ {w} : index'[v] = index[v]
    BY <1>2, <1>6 DEF OutputsGive, TypeOK
  <2>2. x[1] \in Nodes /\ x[2] \in Indices /\ collect_primitive_arg(w, x[1], x[2])
    BY <1>6, ExposedFacts DEF OutputsGive
  <2>3. /\ port' \in [Nodes -> [Indices -> {"empty", "principal", "wire", "argument"}]]
        /\ arg_count' \in [Nodes -> Nat] /\ number' \in [Workers -> Nat]
        /\ node' \in [Workers -> Nodes \union {Null}]
        /\ back' \in [Workers -> {"run", "input", "outputs"}]
        /\ pc' \in [Workers -> Labels]
        /\ \A v \in Workers \ {w} : /\ pc'[v] = pc[v] /\ node'[v] = node[v]
                                    /\ number'[v] = number[v] /\ back'[v] = back[v]
    BY <1>1, <1>2, <2>2, CollectFacts
  <2>4. exposed' \subseteq Nodes \X Indices
    BY <1>2, <1>6 DEF OutputsGive, TypeOK
  <2> QED
    BY <1>1, <1>2, <1>3, <2>1, <2>3, <2>4, TypesNext DEF TypeOK, Others
<1> QED
  BY <1>1, <1>4, <1>5, <1>6

\* DisconnectLock and worker_disconnect_node.
LEMMA DisconnectTypes ==
  ASSUME Inv, NEW w \in Workers, DisconnectLock(w) \/ worker_disconnect_node(w)
  PROVE  TypeOK' /\ Others(w)
<1>1. TypeOK
  BY DEF Inv
<1>2. locked' \in [Nodes -> BOOLEAN]
  BY <1>1 DEF DisconnectLock, worker_disconnect_node, TypeOK
<1>3. pc' \in [Workers -> Labels] /\ \A v \in Workers \ {w} : pc'[v] = pc[v]
  <2>1. \E l \in Labels : pc' = [pc EXCEPT ![w] = l]
    BY DEF DisconnectLock, worker_disconnect_node, Goto, Labels
  <2> QED
    BY <1>1, <2>1 DEF TypeOK
<1>4. UNCHANGED <<ctor, port, arg_count, free, exposed, queue, built, node,
                  given, index, number, back, found, todo>>
  BY DEF DisconnectLock, worker_disconnect_node
<1>5. TypeOK'
  BY <1>1, <1>2, <1>3, <1>4, TypesNext, TypeFacts DEF TypeOK
<1> QED
  BY <1>3, <1>4, <1>5 DEF Others

\* worker_recycle_node.
LEMMA RecycleTypes ==
  ASSUME Inv, NEW w \in Workers, worker_recycle_node(w)
  PROVE  TypeOK' /\ Others(w)
<1>1. TypeOK /\ pc[w] \in {"recycle", "retire"}
  BY DEF Inv, worker_recycle_node
<1>2. todo[w] # <<>>
  BY <1>1 DEF Inv, TodoState
<1>3. /\ todo[w] \in TaskSet /\ Head(todo[w]) \in Nodes
  BY <1>2, TodoFacts
<1>4. Tail(todo[w]) \in TaskSet
  <2>1. \/ Tail(todo[w]) = <<>>
        \/ \E n \in Nodes : Tail(todo[w]) = <<n>>
    BY <1>2, <1>3, TaskShape
  <2>2. <<>> \in TaskSet /\ \A n \in Nodes : <<n>> \in TaskSet
    BY TaskMade
  <2> QED
    BY <2>1, <2>2
<1>5. /\ queue \subseteq TaskSet \ {<<>>}
      /\ found \in [Workers -> TaskSet] /\ todo \in [Workers -> TaskSet]
  BY <1>1, TypeFacts
<1>6. todo' \in [Workers -> TaskSet] /\ \A v \in Workers \ {w} : todo'[v] = todo[v]
  BY <1>4, <1>5 DEF worker_recycle_node
<1>7. /\ ctor' \in [Nodes -> Ctors \union {Null}] /\ arg_count' \in [Nodes -> Nat]
      /\ free' \subseteq Nodes
  BY <1>1, <1>3 DEF worker_recycle_node, TypeOK
<1>8. port' \in [Nodes -> [Indices -> {"empty", "principal", "wire", "argument"}]]
  <2>1. NoPorts \in [Indices -> {"empty", "principal", "wire", "argument"}]
    BY DEF NoPorts
  <2>2. port' = [port EXCEPT ![Head(todo[w])] = NoPorts]
    BY DEF worker_recycle_node
  <2> QED
    BY <1>1, <2>1, <2>2 DEF TypeOK
<1>9. pc' \in [Workers -> Labels] /\ \A v \in Workers \ {w} : pc'[v] = pc[v]
  <2>1. \E l \in Labels : pc' = [pc EXCEPT ![w] = l]
    BY DEF worker_recycle_node, Goto, Labels
  <2> QED
    BY <1>1, <2>1 DEF TypeOK
<1>10. UNCHANGED <<locked, exposed, queue, built, node, given, index, number,
                   back, found>>
  BY DEF worker_recycle_node
<1>11. TypeOK'
  BY <1>1, <1>5, <1>6, <1>7, <1>8, <1>9, <1>10, TypesNext DEF TypeOK
<1> QED
  BY <1>6, <1>9, <1>10, <1>11 DEF Others

----------------------------------------------------------------------------
(* Every action keeps the invariant. *)

\* The workers that do not move build what they built.
LEMMA OthersBuild ==
  ASSUME NEW w \in Workers, Others(w)
  PROVE  \A v \in Workers \ {w} : Building(v)' <=> Building(v)
BY DEF Others, Building

\* Unclaimed, after a step.
LEMMA UnclaimedNext ==
  ASSUME NEW n
  PROVE  Unclaimed(n)' <=>
           /\ \A t \in queue' : ~Names(t, n)
           /\ \A w \in Workers : ~Names(found'[w], n) /\ ~Names(todo'[w], n)
BY DEF Unclaimed

\* A step that leaves the constructors alone and switches no worker on or off.
LEMMA AloneFrame ==
  ASSUME PrimitivesAlone, UNCHANGED ctor,
         \A v \in Workers : pc'[v] = "off" <=> pc[v] = "off"
  PROVE  PrimitivesAlone'
BY DEF PrimitivesAlone, IsPrimitive

\* node_lock.
LEMMA LockInv ==
  ASSUME Inv, NEW w \in Workers, node_lock(w)
  PROVE  Inv'
<1>1. TypeOK /\ TypeOK' /\ Others(w)
  BY LockTypes DEF Inv
<1>2. /\ pc[w] = "lock" /\ pc'[w] = "input" /\ ~locked[node[w]]
      /\ locked' = [locked EXCEPT ![node[w]] = TRUE]
      /\ UNCHANGED <<ctor, port, arg_count, free, exposed, queue, built, node,
                     given, index, number, back, found, todo>>
  BY <1>1 DEF node_lock, Goto, TypeOK
<1>3. /\ Building(w) /\ Building(w)' /\ node[w] \in Nodes
      /\ \A v \in Workers : Building(v)' <=> Building(v)
  BY <1>1, <1>2, OthersBuild, BuildFacts DEF Building
<1>4. ~Aborted'
  BY <1>1, <1>2 DEF Inv, Aborted, Others
<1>5. PrimitivesAlone'
  BY <1>1, <1>2, AloneFrame DEF Inv, Others
<1>6. FreeIsClean'
  BY <1>2 DEF Inv, FreeIsClean
<1>7. BuildState'
  BY <1>1, <1>2, <1>3 DEF Inv, BuildState, Others, TypeOK
<1>8. OneBuilder'
  BY <1>2, <1>3 DEF Inv, OneBuilder
<1>9. FoundState'
  BY <1>1, <1>2, <1>3 DEF Inv, FoundState, Others
<1>10. TodoState'
  BY <1>1, <1>2 DEF Inv, TodoState, Others, IsPrimitive
<1>11. CompareState'
  BY <1>1, <1>2 DEF Inv, CompareState, Others, IsPrimitive, Unclaimed
<1>12. BuilderLocks' /\ ReaderLocks' /\ LockHeld' /\ BuiltOrConsumed'
  <2>1. \A n \in Nodes : locked'[n] <=> locked[n] \/ n = node[w]
    BY <1>1, <1>2, <1>3 DEF TypeOK
  <2>2. BuilderLocks'
    BY <1>1, <1>2, <1>3, <2>1, BuildFacts DEF Inv, BuilderLocks, Others
  <2>3. ReaderLocks'
    BY <1>1, <1>2, <2>1, TodoFacts DEF Inv, ReaderLocks, TodoState, Others
  <2>4. LockHeld'
    <3>1. \A n \in Nodes : n = node[w] => Holds(w, n)'
      BY <1>2, <1>3 DEF Holds
    <3>2. \A n \in Nodes, v \in Workers : Holds(v, n) => v # w /\ Holds(v, n)'
      BY <1>1, <1>2, <1>3 DEF Holds, Others
    <3>3. ASSUME NEW n \in Nodes, locked'[n]
          PROVE  \E v \in Workers : Holds(v, n)'
      <4>1. CASE n = node[w]
        BY <3>1, <4>1
      <4>2. CASE locked[n]
        <5>1. PICK v \in Workers : Holds(v, n)
          BY <4>2 DEF Inv, LockHeld
        <5> QED
          BY <3>2, <5>1
      <4> QED
        BY <2>1, <3>3, <4>1, <4>2
    <3> QED
      BY <3>3 DEF LockHeld
  <2>5. BuiltOrConsumed'
    BY <1>1, <1>2, <1>3 DEF Inv, BuiltOrConsumed, Others
  <2> QED
    BY <2>2, <2>3, <2>4, <2>5
<1>13. PortKinds'
  BY <1>2 DEF Inv, PortKinds, Principal
<1>14. Filled'
  BY <1>1, <1>2, <1>3 DEF Inv, Filled, Others
<1>15. ArgsCounted'
  BY <1>2 DEF Inv, ArgsCounted, IsPrimitive, Principal, Unclaimed
<1>16. ExposedState'
  BY <1>2 DEF Inv, ExposedState, IsPrimitive, Principal, Unclaimed
<1>17. Fresh'
  BY <1>1, <1>2, <1>3 DEF Inv, Fresh, IsPrimitive, Principal, Unclaimed, Exposes, Others
<1>18. GoodTasks'
  BY <1>2 DEF Inv, GoodTasks, GoodTask, IsPrimitive
<1>19. ClaimedOnce'
  BY <1>2 DEF Inv, ClaimedOnce
<1> QED
  BY <1>1, <1>4, <1>5, <1>6, <1>7, <1>8, <1>9, <1>10, <1>11, <1>12, <1>13,
     <1>14, <1>15, <1>16, <1>17, <1>18, <1>19 DEF Inv

\* The lock stays with the worker that holds it.
LEMMA LockFrame ==
  ASSUME Inv, NEW w \in Workers, Others(w), UNCHANGED locked,
         \A n \in Nodes : Holds(w, n) => Holds(w, n)'
  PROVE  LockHeld'
<1>1. \A n \in Nodes, v \in Workers : Holds(v, n) => Holds(v, n)'
  BY DEF Holds, Others, Building
<1>2. ASSUME NEW n \in Nodes, locked'[n]
      PROVE  \E v \in Workers : Holds(v, n)'
  <2>1. PICK v \in Workers : Holds(v, n)
    BY <1>2 DEF Inv, LockHeld
  <2> QED
    BY <1>1, <2>1
<1> QED
  BY <1>2 DEF LockHeld

\* ReadArity: the inputs of the node are filled.
LEMMA ReadArityInv ==
  ASSUME Inv, NEW w \in Workers, ReadArity(w)
  PROVE  Inv'
<1> DEFINE n == node[w]
<1>1. TypeOK /\ TypeOK' /\ Others(w)
  BY ReadArityTypes DEF Inv
<1>2. /\ pc[w] = "input" /\ Building(w) /\ index[w] = 0
      /\ UNCHANGED <<ctor, port, locked, arg_count, free, exposed, queue, built,
                     node, given, back, found, todo>>
  BY DEF ReadArity, Building
<1>3. /\ n \in Nodes /\ n \notin free /\ ctor[n] \in Ctors
      /\ given[w] = input_arity[ctor[n]] /\ given[w] \in Nat
  BY <1>1, <1>2, BuildFacts DEF TypeOK
<1>4. /\ arity[ctor[n]] \in Nat /\ given[w] <= arity[ctor[n]] /\ ctor[n] # Null
      /\ Principal(n) \subseteq 0 .. arity[ctor[n]] - 1
  BY <1>3, CtorFacts DEF Principal
<1>5. pc'[w] = "output" /\ index'[w] = given[w] /\ number'[w] = arity[ctor[n]]
  BY <1>1, <1>2, <1>4 DEF ReadArity, Goto, TypeOK
<1>6. Building(w)' /\ \A v \in Workers : Building(v)' <=> Building(v)
  BY <1>1, <1>2, <1>5, OthersBuild DEF Building
<1>7. ~Aborted'
  BY <1>1, <1>5 DEF Inv, Aborted, Others
<1>8. PrimitivesAlone'
  BY <1>1, <1>2, <1>5, AloneFrame DEF Inv, Others
<1>9. FreeIsClean'
  BY <1>2 DEF Inv, FreeIsClean
<1>10. BuildState'
  BY <1>1, <1>2, <1>3, <1>4, <1>5, <1>6 DEF Inv, BuildState, Others
<1>11. OneBuilder'
  BY <1>2, <1>6 DEF Inv, OneBuilder
<1>12. FoundState'
  BY <1>1, <1>2, <1>5, <1>6 DEF Inv, FoundState, Others
<1>13. TodoState'
  BY <1>1, <1>2, <1>5 DEF Inv, TodoState, Others, IsPrimitive
<1>14. CompareState'
  BY <1>1, <1>2, <1>5 DEF Inv, CompareState, Others, IsPrimitive, Unclaimed
<1>15. BuilderLocks'
  BY <1>1, <1>2, <1>5, <1>6 DEF Inv, BuilderLocks, Others
<1>16. ReaderLocks'
  BY <1>1, <1>2, <1>5 DEF Inv, ReaderLocks, Others
<1>17. LockHeld'
  BY <1>1, <1>2, <1>5, <1>6, LockFrame DEF Holds
<1>18. BuiltOrConsumed'
  BY <1>1, <1>2, <1>5, <1>6 DEF Inv, BuiltOrConsumed, Others
<1>19. PortKinds'
  BY <1>2 DEF Inv, PortKinds, Principal
<1>20. Filled'
  BY <1>1, <1>2, <1>3, <1>5, <1>6 DEF Inv, Filled, Others
<1>21. ArgsCounted'
  BY <1>2 DEF Inv, ArgsCounted, IsPrimitive, Principal, Unclaimed
<1>22. ExposedState'
  BY <1>2 DEF Inv, ExposedState, IsPrimitive, Principal, Unclaimed
<1>23. Fresh'
  BY <1>1, <1>2, <1>5, <1>6 DEF Inv, Fresh, IsPrimitive, Principal, Unclaimed, Exposes, Others
<1>24. GoodTasks'
  BY <1>2 DEF Inv, GoodTasks, GoodTask, IsPrimitive
<1>25. ClaimedOnce'
  BY <1>2 DEF Inv, ClaimedOnce
<1> QED
  BY <1>1, <1>7, <1>8, <1>9, <1>10, <1>11, <1>12, <1>13, <1>14, <1>15, <1>16,
     <1>17, <1>18, <1>19, <1>20, <1>21, <1>22, <1>23, <1>24, <1>25 DEF Inv

\* One port is set.
LEMMA PortSet ==
  ASSUME TypeOK, NEW n \in Nodes, NEW i \in Indices, NEW kind,
         port' = [port EXCEPT ![n][i] = kind]
  PROVE  /\ port'[n][i] = kind
         /\ \A m \in Nodes, j \in Indices : m # n \/ j # i => port'[m][j] = port[m][j]
<1>1. port \in [Nodes -> [Indices -> {"empty", "principal", "wire", "argument"}]]
  BY DEF TypeOK
<1> QED
  BY <1>1

\* No argument is counted and none is put into a port, and the claims that are
\* made are of primitives that have all their arguments.
LEMMA ArgsFrame ==
  ASSUME ArgsCounted, UNCHANGED <<ctor, arg_count>>,
         \A m \in Nodes : IsPrimitive(m) =>
           \A j \in Principal(m) : port'[m][j] = "argument" <=> port[m][j] = "argument",
         \A m \in Nodes : IsPrimitive(m) /\ Unclaimed(m) =>
           Unclaimed(m)' \/ arg_count[m] = Cardinality(Principal(m))
  PROVE  ArgsCounted'
<1>1. ASSUME NEW n \in Nodes, IsPrimitive(n)
      PROVE  {i \in Principal(n)' : port'[n][i] = "argument"} =
               {i \in Principal(n) : port[n][i] = "argument"}
  BY <1>1 DEF Principal
<1>2. ASSUME NEW n \in Nodes, IsPrimitive(n)'
      PROVE  /\ arg_count'[n] = Cardinality({i \in Principal(n)' : port'[n][i] = "argument"})
             /\ ~Unclaimed(n)' => arg_count'[n] = Cardinality(Principal(n)')
  <2>1. IsPrimitive(n)
    BY <1>2 DEF IsPrimitive
  <2>2. arg_count'[n] = Cardinality({i \in Principal(n)' : port'[n][i] = "argument"})
    BY <1>1, <2>1 DEF ArgsCounted
  <2>3. ~Unclaimed(n)' => arg_count'[n] = Cardinality(Principal(n)')
    BY <2>1 DEF ArgsCounted, Principal
  <2> QED
    BY <2>2, <2>3
<1> QED
  BY <1>2 DEF ArgsCounted

\* reconnect_output fills one more port, which is not an input.
LEMMA OutputInv ==
  ASSUME Inv, NEW w \in Workers, reconnect_output(w)
  PROVE  Inv'
<1> DEFINE n == node[w]
           i == index[w]
<1>1. TypeOK /\ TypeOK' /\ Others(w)
  BY OutputTypes DEF Inv
<1>2. /\ pc[w] = "output" /\ Building(w) /\ index[w] < number[w]
      /\ UNCHANGED <<ctor, locked, arg_count, free, exposed, queue, built, node,
                     given, number, back, found, todo>>
  BY DEF reconnect_output, Building
<1>3. /\ n \in Nodes /\ n \notin free /\ ctor[n] \in Ctors
      /\ given[w] = input_arity[ctor[n]] /\ given[w] \in Nat
      /\ number[w] = arity[ctor[n]] /\ i \in given[w] .. number[w] /\ number[w] \in Nat
  BY <1>1, <1>2, BuildFacts DEF Inv, BuildState, TypeOK
<1>4. /\ ctor[n] # Null /\ i \in 0 .. arity[ctor[n]] - 1 /\ i \in Indices
      /\ IsPrimitive(n) => i \notin Principal(n)
  BY <1>2, <1>3, CtorFacts DEF Principal, IsPrimitive
<1>5. /\ port' = [port EXCEPT ![n][i] = IF i \in Principal(n) THEN "principal" ELSE "wire"]
      /\ index' = [index EXCEPT ![w] = i + 1] /\ pc' = pc
  BY <1>4 DEF reconnect_output, Principal
<1>6. /\ port'[n][i] = IF i \in Principal(n) THEN "principal" ELSE "wire"
      /\ \A m \in Nodes, j \in Indices : m # n \/ j # i => port'[m][j] = port[m][j]
  <2>1. port \in [Nodes -> [Indices -> {"empty", "principal", "wire", "argument"}]]
    BY <1>1 DEF TypeOK
  <2> QED
    BY <1>3, <1>4, <1>5, <2>1
<1> HIDE DEF i
<1>7. index'[w] = i + 1 /\ pc'[w] = "output"
  BY <1>1, <1>2, <1>5 DEF TypeOK
<1>8. Building(w)' /\ \A v \in Workers : Building(v)' <=> Building(v)
  BY <1>1, <1>2, <1>7, OthersBuild DEF Building
<1>9. \A m \in Nodes \ free : \A j \in 0 .. arity[ctor[m]] - 1 : j \in Indices
  BY CtorFacts DEF Inv, FreeIsClean, TypeOK
<1>10. ~Aborted'
  BY <1>5 DEF Inv, Aborted
<1>11. PrimitivesAlone'
  BY <1>2, <1>5, AloneFrame DEF Inv
<1>12. FreeIsClean'
  <2>1. \A m \in free : m \in Nodes /\ port'[m] = port[m]
    BY <1>1, <1>3, <1>5 DEF TypeOK
  <2> QED
    BY <1>2, <2>1 DEF Inv, FreeIsClean
<1>13. BuildState'
  <2>1. index'[w] \in given[w] .. number[w]
    BY <1>2, <1>3, <1>7 DEF i
  <2> QED
    BY <1>1, <1>2, <1>3, <1>7, <1>8, <2>1 DEF Inv, BuildState, Others
<1>14. OneBuilder'
  BY <1>2, <1>8 DEF Inv, OneBuilder
<1>15. FoundState'
  BY <1>2, <1>5, <1>8 DEF Inv, FoundState
<1>16. TodoState'
  BY <1>1, <1>2, <1>5 DEF Inv, TodoState, Others, IsPrimitive
<1>17. CompareState'
  BY <1>2, <1>5 DEF Inv, CompareState, IsPrimitive, Unclaimed
<1>18. BuilderLocks' /\ ReaderLocks'
  BY <1>2, <1>5, <1>8 DEF Inv, BuilderLocks, ReaderLocks
<1>19. LockHeld'
  BY <1>1, <1>2, <1>5, <1>8, LockFrame DEF Holds
<1>20. BuiltOrConsumed'
  BY <1>2, <1>5, <1>8 DEF Inv, BuiltOrConsumed
<1>21. PortKinds'
  BY <1>2, <1>6, <1>9 DEF Inv, PortKinds, Principal
<1>22. Filled'
  <2>1. ASSUME NEW j \in 0 .. i PROVE port'[n][j] # "empty"
    <3>1. CASE j = i
      BY <1>6, <3>1
    <3>2. CASE j # i
      <4>1. j \in 0 .. i - 1 /\ j \in Indices
        BY <1>3, <1>4, <1>9, <3>2
      <4>2. port[n][j] # "empty"
        BY <1>2, <4>1 DEF Inv, Filled, i
      <4> QED
        BY <1>3, <1>6, <3>2, <4>1, <4>2
    <3> QED
      BY <3>1, <3>2
  <2>2. ASSUME NEW v \in Workers \ {w}, Building(v)
        PROVE  node[v] # n /\ node[v] \in Nodes /\ node[v] \notin free
    BY <1>2, <2>2, BuildFacts DEF Inv, OneBuilder
  <2>3. \A v \in Workers \ {w} : Building(v) => port'[node[v]] = port[node[v]]
    BY <1>1, <1>3, <1>5, <2>2 DEF TypeOK
  <2>4. \A m \in Nodes : m # n => port'[m] = port[m]
    BY <1>1, <1>3, <1>5 DEF TypeOK
  <2>5. 0 .. index'[w] - 1 = 0 .. i
    BY <1>3, <1>7
  <2>6. ASSUME NEW v \in Workers, Building(v)'
        PROVE  IF pc'[v] = "output"
               THEN \A j \in 0 .. index'[v] - 1 : port'[node'[v]][j] # "empty"
               ELSE \A j \in 0 .. given'[v] - 1 : port'[node'[v]][j] = "empty" <=> j < index'[v]
    <3>1. CASE v = w
      BY <1>2, <1>7, <2>1, <2>5, <3>1
    <3>2. CASE v # w
      BY <1>1, <1>2, <1>5, <1>8, <2>3, <2>6, <3>2 DEF Inv, Filled, Others
    <3> QED
      BY <3>1, <3>2
  <2>7. ASSUME NEW m \in Nodes \ free', \A v \in Workers : Building(v)' => node'[v] # m
        PROVE  \A j \in 0 .. arity[ctor'[m]] - 1 : port'[m][j] # "empty"
    BY <1>2, <1>8, <2>4, <2>7 DEF Inv, Filled
  <2> QED
    BY <2>6, <2>7 DEF Filled
<1>23. ArgsCounted'
  <2>1. ASSUME NEW m \in Nodes, IsPrimitive(m), NEW j \in Principal(m)
        PROVE  port'[m][j] = port[m][j]
    <3>1. j \in Indices
      BY <2>1, CtorFacts, CtorAssumption DEF IsPrimitive, Principal
    <3> QED
      BY <1>4, <1>6, <2>1, <3>1
  <2> QED
    BY <1>2, <2>1, ArgsFrame DEF Inv, Unclaimed
<1>24. ExposedState'
  BY <1>2, <1>3, <1>6, ExposedFacts DEF Inv, ExposedState, IsPrimitive, Principal, Unclaimed
<1>25. Fresh'
  BY <1>1, <1>2, <1>7, <1>8 DEF Inv, Fresh, IsPrimitive, Principal, Unclaimed, Exposes, Others
<1>26. GoodTasks'
  BY <1>2 DEF Inv, GoodTasks, GoodTask, IsPrimitive
<1>27. ClaimedOnce'
  BY <1>2 DEF Inv, ClaimedOnce
<1> QED
  BY <1>1, <1>10, <1>11, <1>12, <1>13, <1>14, <1>15, <1>16, <1>17, <1>18, <1>19,
     <1>20, <1>21, <1>22, <1>23, <1>24, <1>25, <1>26, <1>27 DEF Inv

\* node_unlock: the node is complete.
LEMMA UnlockInv ==
  ASSUME Inv, NEW w \in Workers, node_unlock(w)
  PROVE  Inv'
<1> DEFINE n == node[w]
           New == {<<n, j>> : j \in {j \in given[w] .. number[w] - 1 : port[n][j] = "principal"}}
<1>1. TypeOK /\ TypeOK' /\ Others(w)
  BY UnlockTypes DEF Inv
<1>2. /\ pc[w] = "output" /\ Building(w) /\ index[w] >= number[w]
      /\ locked' = [locked EXCEPT ![n] = FALSE] /\ exposed' = exposed \union New
      /\ UNCHANGED <<ctor, port, arg_count, free, queue, built, node, given, index,
                     number, back, found, todo>>
  BY DEF node_unlock, Building
<1>3. pc'[w] = "add_task" /\ ~Building(w)'
  BY <1>1 DEF node_unlock, Goto, TypeOK, Building
<1>4. /\ n \in Nodes /\ n \notin free /\ ctor[n] \in Ctors
      /\ given[w] = input_arity[ctor[n]] /\ given[w] \in Nat
      /\ number[w] = arity[ctor[n]] /\ number[w] \in Nat /\ index[w] = number[w]
  BY <1>1, <1>2, BuildFacts DEF Inv, BuildState, TypeOK
<1>5. \A v \in Workers : Building(v)' <=> v # w /\ Building(v)
  BY <1>1, <1>3, OthersBuild
<1>6. \A v \in Workers : Building(v)' => node[v] # n
  BY <1>2, <1>5 DEF Inv, OneBuilder
<1>7. \A m \in Nodes : m # n => locked'[m] = locked[m]
  BY <1>1, <1>2 DEF TypeOK
<1>8. ASSUME NEW x \in New
      PROVE  /\ x[1] = n /\ x[2] \in Principal(n) /\ port[n][x[2]] = "principal"
             /\ IsPrimitive(n) \/ Unclaimed(n)
  <2>1. PICK j \in given[w] .. number[w] - 1 : x = <<n, j>> /\ port[n][j] = "principal"
    BY <1>8
  <2>2. j \in 0 .. arity[ctor[n]] - 1
    BY <1>4, <2>1
  <2>3. j \in Principal(n)
    BY <1>4, <2>1, <2>2 DEF Inv, PortKinds
  <2>4. ~IsPrimitive(n) => Unclaimed(n)
    BY <1>2, <2>1, <2>3 DEF Inv, Fresh
  <2> QED
    BY <2>1, <2>3, <2>4
<1> HIDE DEF New
<1>9. ~Aborted'
  BY <1>1, <1>3 DEF Inv, Aborted, Others
<1>10. PrimitivesAlone'
  BY <1>1, <1>2, <1>3, AloneFrame DEF Inv, Others
<1>11. FreeIsClean'
  BY <1>2 DEF Inv, FreeIsClean
<1>12. BuildState'
  BY <1>1, <1>2, <1>3, <1>5 DEF Inv, BuildState, Others
<1>13. OneBuilder'
  BY <1>2, <1>5 DEF Inv, OneBuilder
<1>14. FoundState'
  BY <1>1, <1>2, <1>3, <1>5 DEF Inv, FoundState, Others
<1>15. TodoState'
  BY <1>1, <1>2, <1>3 DEF Inv, TodoState, Others, IsPrimitive
<1>16. CompareState'
  BY <1>1, <1>2, <1>3 DEF Inv, CompareState, Others, IsPrimitive, Unclaimed
<1>17. BuilderLocks'
  BY <1>1, <1>2, <1>3, <1>5, <1>6, <1>7, BuildFacts DEF Inv, BuilderLocks, Others
<1>18. ReaderLocks'
  <2>1. ASSUME NEW v \in Workers, pc'[v] = "read"
        PROVE  locked'[todo[v][1]]
    <3>1. v # w /\ pc[v] = "read"
      BY <1>1, <1>3, <2>1 DEF Others
    <3>2. todo[v][1] \in Nodes /\ todo[v][1] # n /\ locked[todo[v][1]]
      BY <1>2, <3>1, TodoFacts DEF Inv, TodoState, BuiltOrConsumed, ReaderLocks
    <3> QED
      BY <1>7, <3>2
  <2> QED
    BY <1>2, <2>1 DEF ReaderLocks
<1>19. LockHeld'
  <2>1. ASSUME NEW m \in Nodes, locked'[m]
        PROVE  \E v \in Workers : Holds(v, m)'
    <3>1. m # n /\ locked[m]
      BY <1>1, <1>2, <2>1 DEF TypeOK
    <3>2. PICK v \in Workers : Holds(v, m)
      BY <3>1 DEF Inv, LockHeld
    <3>3. v # w
      BY <1>2, <3>1, <3>2 DEF Holds
    <3>4. Holds(v, m)'
      BY <1>1, <1>2, <1>5, <3>2, <3>3 DEF Holds, Others
    <3> QED
      BY <3>4
  <2> QED
    BY <2>1 DEF LockHeld
<1>20. BuiltOrConsumed'
  BY <1>1, <1>2, <1>3, <1>5 DEF Inv, BuiltOrConsumed, Others
<1>21. PortKinds'
  BY <1>2 DEF Inv, PortKinds, Principal
<1>22. Filled'
  <2>1. \A j \in 0 .. arity[ctor[n]] - 1 : port[n][j] # "empty"
    BY <1>2, <1>4 DEF Inv, Filled
  <2>2. ASSUME NEW v \in Workers, Building(v)'
        PROVE  IF pc'[v] = "output"
               THEN \A j \in 0 .. index'[v] - 1 : port'[node'[v]][j] # "empty"
               ELSE \A j \in 0 .. given'[v] - 1 : port'[node'[v]][j] = "empty" <=> j < index'[v]
    BY <1>1, <1>2, <1>5, <2>2 DEF Inv, Filled, Others
  <2>3. ASSUME NEW m \in Nodes \ free', \A v \in Workers : Building(v)' => node'[v] # m
        PROVE  \A j \in 0 .. arity[ctor'[m]] - 1 : port'[m][j] # "empty"
    <3>1. CASE m = n
      BY <1>2, <2>1, <3>1
    <3>2. CASE m # n
      BY <1>2, <1>5, <2>3, <3>2 DEF Inv, Filled
    <3> QED
      BY <3>1, <3>2
  <2> QED
    BY <2>2, <2>3 DEF Filled
<1>23. ArgsCounted'
  BY <1>2 DEF Inv, ArgsCounted, IsPrimitive, Principal, Unclaimed
<1>24. ExposedState'
  BY <1>2, <1>4, <1>8 DEF Inv, ExposedState, IsPrimitive, Principal, Unclaimed
<1>25. Fresh'
  <2>1. \A m \in Nodes : m # n => (Exposes(m)' <=> Exposes(m))
    BY <1>2, <1>8 DEF Exposes
  <2>2. \A m : Unclaimed(m)' <=> Unclaimed(m)
    BY <1>2 DEF Unclaimed
  <2>3. ASSUME NEW v \in Workers, Building(v)', ~IsPrimitive(node[v]),
               NEW p \in Principal(node[v]),
               p >= given[v] \/ (pc[v] # "output" /\ p < index[v])
        PROVE  Unclaimed(node[v]) /\ ~Exposes(node[v]) /\ node[v] \in Nodes /\ node[v] # n
    BY <1>5, <1>6, <2>3, BuildFacts DEF Inv, Fresh
  <2>4. \A m \in Nodes : m # n /\ Unclaimed(m) /\ ~Exposes(m) => Unclaimed(m)' /\ ~Exposes(m)'
    BY <2>1, <2>2
  <2>5. \A v \in Workers : Building(v)' => pc'[v] = pc[v]
    BY <1>1, <1>5 DEF Others
  <2> QED
    BY <1>2, <2>3, <2>4, <2>5 DEF Fresh, IsPrimitive, Principal, Unclaimed, Exposes
<1>26. GoodTasks'
  BY <1>2 DEF Inv, GoodTasks, GoodTask, IsPrimitive
<1>27. ClaimedOnce'
  BY <1>2 DEF Inv, ClaimedOnce
<1> QED
  BY <1>1, <1>9, <1>10, <1>11, <1>12, <1>13, <1>14, <1>15, <1>16, <1>17, <1>18, <1>19,
     <1>20, <1>21, <1>22, <1>23, <1>24, <1>25, <1>26, <1>27 DEF Inv

\* DisconnectLock: a node that is consumed is not built any more.
LEMMA DisconnectLockInv ==
  ASSUME Inv, NEW w \in Workers, DisconnectLock(w)
  PROVE  Inv'
<1> DEFINE n == todo[w][1]
<1>1. TypeOK /\ TypeOK' /\ Others(w)
  BY DisconnectTypes DEF Inv
<1>2. /\ pc[w] = "disconnect"
      /\ UNCHANGED <<ctor, port, arg_count, free, exposed, queue, built, node,
                     given, index, number, back, found, todo>>
  BY DEF DisconnectLock
<1>3. todo[w] # <<>> /\ ~IsPrimitive(n)
  BY <1>2 DEF Inv, TodoState
<1>4. n \in Nodes /\ Head(todo[w]) = n /\ Names(todo[w], n) /\ ctor[n] \in Ctors
  BY <1>3, TodoFacts
<1>5. ~locked[n] /\ \A m \in Nodes : locked'[m] <=> locked[m] \/ m = n
  BY <1>1, <1>4 DEF DisconnectLock, TypeOK
<1>6. pc'[w] = "read" /\ ~Building(w) /\ ~Building(w)'
  BY <1>1, <1>2 DEF DisconnectLock, Goto, TypeOK, Building
<1>7. \A v \in Workers : Building(v)' <=> Building(v)
  BY <1>1, <1>6, OthersBuild
<1>8. ASSUME NEW v \in Workers, Building(v)
      PROVE  node[v] # n
  <2>1. SUFFICES ASSUME node[v] = n PROVE FALSE
    OBVIOUS
  <2>2. pc[v] = "lock"
    BY <1>5, <1>8, <2>1 DEF Inv, BuilderLocks
  <2>3. index[v] = given[v] /\ given[v] \in Nat
    BY <1>1, <1>8, <2>2 DEF Inv, BuildState, TypeOK
  <2>4. PICK p : is_principal[ctor[n]] = {p}
    BY <1>3, <1>4, CtorFacts DEF IsPrimitive
  <2>5. p \in Principal(node[v]) /\ p \in Nat
    BY <1>4, <2>1, <2>4, CtorFacts DEF Principal
  <2>6. p >= given[v] \/ (pc[v] # "output" /\ p < index[v])
    BY <2>2, <2>3, <2>5
  <2>7. Unclaimed(n)
    BY <1>3, <1>8, <2>1, <2>5, <2>6 DEF Inv, Fresh
  <2> QED
    BY <1>4, <2>7 DEF Unclaimed
<1>9. ~Aborted'
  BY <1>1, <1>6 DEF Inv, Aborted, Others
<1>10. PrimitivesAlone'
  BY <1>1, <1>2, <1>6, AloneFrame DEF Inv, Others
<1>11. FreeIsClean'
  BY <1>2 DEF Inv, FreeIsClean
<1>12. BuildState'
  BY <1>1, <1>2, <1>6, <1>7 DEF Inv, BuildState, Others
<1>13. OneBuilder'
  BY <1>2, <1>7 DEF Inv, OneBuilder
<1>14. FoundState'
  BY <1>1, <1>2, <1>6, <1>7 DEF Inv, FoundState, Others
<1>15. TodoState'
  BY <1>1, <1>2, <1>6 DEF Inv, TodoState, Others, IsPrimitive
<1>16. CompareState'
  BY <1>1, <1>2, <1>6 DEF Inv, CompareState, Others, IsPrimitive, Unclaimed
<1>17. BuilderLocks'
  BY <1>1, <1>2, <1>5, <1>6, <1>7, BuildFacts DEF Inv, BuilderLocks, Others
<1>18. ReaderLocks'
  <2>1. ASSUME NEW v \in Workers, pc'[v] = "read"
        PROVE  locked'[todo[v][1]]
    <3>1. CASE v = w
      BY <1>4, <1>5, <3>1
    <3>2. CASE v # w
      <4>1. pc[v] = "read"
        BY <1>1, <2>1, <3>2 DEF Others
      <4> QED
        BY <1>5, <4>1, TodoFacts DEF Inv, ReaderLocks, TodoState
    <3> QED
      BY <3>1, <3>2
  <2> QED
    BY <1>2, <2>1 DEF ReaderLocks
<1>19. LockHeld'
  <2>1. ASSUME NEW m \in Nodes, locked'[m]
        PROVE  \E v \in Workers : Holds(v, m)'
    <3>1. CASE m = n
      <4>1. Holds(w, m)'
        BY <1>2, <1>6, <3>1 DEF Holds
      <4> QED
        BY <4>1
    <3>2. CASE m # n
      <4>1. PICK v \in Workers : Holds(v, m)
        BY <1>5, <2>1, <3>2 DEF Inv, LockHeld
      <4>2. Holds(v, m)'
        BY <1>1, <1>2, <1>6, <1>7, <4>1 DEF Holds, Others
      <4> QED
        BY <4>2
    <3> QED
      BY <3>1, <3>2
  <2> QED
    BY <2>1 DEF LockHeld
<1>20. BuiltOrConsumed'
  BY <1>1, <1>2, <1>6, <1>7, <1>8 DEF Inv, BuiltOrConsumed, Others
<1>21. PortKinds'
  BY <1>2 DEF Inv, PortKinds, Principal
<1>22. Filled'
  BY <1>1, <1>2, <1>6, <1>7 DEF Inv, Filled, Others
<1>23. ArgsCounted'
  BY <1>2 DEF Inv, ArgsCounted, IsPrimitive, Principal, Unclaimed
<1>24. ExposedState'
  BY <1>2 DEF Inv, ExposedState, IsPrimitive, Principal, Unclaimed
<1>25. Fresh'
  BY <1>1, <1>2, <1>6, <1>7 DEF Inv, Fresh, IsPrimitive, Principal, Unclaimed, Exposes, Others
<1>26. GoodTasks'
  BY <1>2 DEF Inv, GoodTasks, GoodTask, IsPrimitive
<1>27. ClaimedOnce'
  BY <1>2 DEF Inv, ClaimedOnce
<1> QED
  BY <1>1, <1>9, <1>10, <1>11, <1>12, <1>13, <1>14, <1>15, <1>16, <1>17, <1>18, <1>19,
     <1>20, <1>21, <1>22, <1>23, <1>24, <1>25, <1>26, <1>27 DEF Inv

\* worker_disconnect_node: the lock is given back.
LEMMA DisconnectInv ==
  ASSUME Inv, NEW w \in Workers, worker_disconnect_node(w)
  PROVE  Inv'
<1> DEFINE n == todo[w][1]
<1>1. TypeOK /\ TypeOK' /\ Others(w)
  BY DisconnectTypes DEF Inv
<1>2. /\ pc[w] = "read"
      /\ UNCHANGED <<ctor, port, arg_count, free, exposed, queue, built, node,
                     given, index, number, back, found, todo>>
  BY DEF worker_disconnect_node
<1>3. todo[w] # <<>>
  BY <1>2 DEF Inv, TodoState
<1>4. n \in Nodes /\ Head(todo[w]) = n /\ Names(todo[w], n) /\ ctor[n] \in Ctors
  BY <1>3, TodoFacts
<1>5. locked' = [locked EXCEPT ![n] = FALSE]
  BY <1>4 DEF worker_disconnect_node
<1>6. \A m \in Nodes : locked'[m] <=> locked[m] /\ m # n
  BY <1>1, <1>4, <1>5 DEF TypeOK
<1>7. ctor[n] # Null
  BY <1>4, CtorFacts
<1>8. pc'[w] = "recycle" /\ ~Building(w) /\ ~Building(w)'
  BY <1>1, <1>2, <1>4, <1>7 DEF worker_disconnect_node, Goto, TypeOK, Building
<1>9. \A v \in Workers : Building(v)' <=> Building(v)
  BY <1>1, <1>8, OthersBuild
<1>10. ~Aborted'
  BY <1>1, <1>8 DEF Inv, Aborted, Others
<1>11. PrimitivesAlone'
  BY <1>1, <1>2, <1>8, AloneFrame DEF Inv, Others
<1>12. FreeIsClean'
  BY <1>2 DEF Inv, FreeIsClean
<1>13. BuildState'
  BY <1>1, <1>2, <1>8, <1>9 DEF Inv, BuildState, Others
<1>14. OneBuilder'
  BY <1>2, <1>9 DEF Inv, OneBuilder
<1>15. FoundState'
  BY <1>1, <1>2, <1>8, <1>9 DEF Inv, FoundState, Others
<1>16. TodoState'
  BY <1>1, <1>2, <1>8 DEF Inv, TodoState, Others, IsPrimitive
<1>17. CompareState'
  BY <1>1, <1>2, <1>8 DEF Inv, CompareState, Others, IsPrimitive, Unclaimed
<1>18. BuilderLocks'
  <2>1. ASSUME NEW v \in Workers, Building(v)
        PROVE  node[v] # n /\ node[v] \in Nodes
    BY <1>2, <2>1, BuildFacts DEF Inv, BuiltOrConsumed
  <2> QED
    BY <1>1, <1>2, <1>6, <1>8, <1>9, <2>1 DEF Inv, BuilderLocks, Others
<1>19. ReaderLocks'
  <2>1. ASSUME NEW v \in Workers, pc'[v] = "read"
        PROVE  locked'[todo[v][1]]
    <3>1. v # w /\ pc[v] = "read"
      BY <1>1, <1>8, <2>1 DEF Others
    <3>2. todo[v][1] \in Nodes /\ locked[todo[v][1]] /\ Names(todo[v], todo[v][1])
      BY <3>1, TodoFacts DEF Inv, ReaderLocks, TodoState
    <3>3. todo[v][1] # n
      BY <1>4, <3>1, <3>2 DEF Inv, ClaimedOnce
    <3> QED
      BY <1>6, <3>2, <3>3
  <2> QED
    BY <1>2, <2>1 DEF ReaderLocks
<1>20. LockHeld'
  <2>1. ASSUME NEW m \in Nodes, locked'[m]
        PROVE  \E v \in Workers : Holds(v, m)'
    <3>1. m # n /\ locked[m]
      BY <1>6, <2>1
    <3>2. PICK v \in Workers : Holds(v, m)
      BY <3>1 DEF Inv, LockHeld
    <3>3. v # w
      BY <1>8, <3>1, <3>2 DEF Holds
    <3>4. Holds(v, m)'
      BY <1>1, <1>2, <1>9, <3>2, <3>3 DEF Holds, Others
    <3> QED
      BY <3>4
  <2> QED
    BY <2>1 DEF LockHeld
<1>21. BuiltOrConsumed'
  BY <1>1, <1>2, <1>8, <1>9 DEF Inv, BuiltOrConsumed, Others
<1>22. PortKinds'
  BY <1>2 DEF Inv, PortKinds, Principal
<1>23. Filled'
  BY <1>1, <1>2, <1>8, <1>9 DEF Inv, Filled, Others
<1>24. ArgsCounted'
  BY <1>2 DEF Inv, ArgsCounted, IsPrimitive, Principal, Unclaimed
<1>25. ExposedState'
  BY <1>2 DEF Inv, ExposedState, IsPrimitive, Principal, Unclaimed
<1>26. Fresh'
  BY <1>1, <1>2, <1>8, <1>9 DEF Inv, Fresh, IsPrimitive, Principal, Unclaimed, Exposes, Others
<1>27. GoodTasks'
  BY <1>2 DEF Inv, GoodTasks, GoodTask, IsPrimitive
<1>28. ClaimedOnce'
  BY <1>2 DEF Inv, ClaimedOnce
<1> QED
  BY <1>1, <1>10, <1>11, <1>12, <1>13, <1>14, <1>15, <1>16, <1>17, <1>18, <1>19,
     <1>20, <1>21, <1>22, <1>23, <1>24, <1>25, <1>26, <1>27, <1>28 DEF Inv

\* A task about nodes that no task was about is added to the queue.
LEMMA ClaimQueue ==
  ASSUME TypeOK, ClaimedOnce, NEW t \in TaskSet,
         queue' = (queue \union {t}) \ {<<>>}, UNCHANGED <<found, todo>>,
         \A m \in Nodes : Names(t, m) => Unclaimed(m)
  PROVE  /\ ClaimedOnce'
         /\ \A m \in Nodes : Unclaimed(m)' <=> Unclaimed(m) /\ ~Names(t, m)
<1>1. <<>> \notin queue
  BY TypeFacts
<1>2. CASE t = <<>>
  <2>1. queue' = queue /\ \A m : ~Names(t, m)
    BY <1>1, <1>2, TaskShape
  <2> QED
    BY <2>1 DEF ClaimedOnce, Unclaimed
<1>3. CASE t # <<>>
  <2>1. queue' = queue \union {t}
    BY <1>1, <1>3
  <2>2. \A m \in Nodes : Unclaimed(m)' <=> Unclaimed(m) /\ ~Names(t, m)
    BY <2>1 DEF Unclaimed
  <2>3. ClaimedOnce'
    BY <2>1 DEF ClaimedOnce, Unclaimed
  <2> QED
    BY <2>2, <2>3
<1> QED
  BY <1>2, <1>3

\* A task about nodes that no task was about is kept by its worker.
LEMMA ClaimFound ==
  ASSUME TypeOK, ClaimedOnce, NEW t \in TaskSet, NEW w \in Workers, found[w] = <<>>,
         found' = [found EXCEPT ![w] = t], UNCHANGED <<queue, todo>>,
         \A m \in Nodes : Names(t, m) => Unclaimed(m)
  PROVE  /\ ClaimedOnce'
         /\ \A m \in Nodes : Unclaimed(m)' <=> Unclaimed(m) /\ ~Names(t, m)
<1>1. \A m : ~Names(found[w], m)
  BY TaskShape, TaskMade
<1>2. found'[w] = t /\ \A v \in Workers \ {w} : found'[v] = found[v]
  BY DEF TypeOK
<1>3. \A m \in Nodes : Unclaimed(m)' <=> Unclaimed(m) /\ ~Names(t, m)
  BY <1>1, <1>2 DEF Unclaimed
<1>4. ClaimedOnce'
  BY <1>2 DEF ClaimedOnce, Unclaimed
<1> QED
  BY <1>3, <1>4

\* No lock is taken or given back, and w, which neither builds nor reads after
\* the step, held none.
LEMMA LocksFrame ==
  ASSUME Inv, NEW w \in Workers, Others(w), UNCHANGED locked,
         ~Building(w) \/ pc[w] = "lock", pc[w] # "read",
         ~Building(w)' \/ pc'[w] = "lock", pc'[w] # "read"
  PROVE  BuilderLocks' /\ ReaderLocks' /\ LockHeld'
<1>1. \A v \in Workers \ {w} : Building(v)' <=> Building(v)
  BY OthersBuild
<1>2. BuilderLocks' /\ ReaderLocks'
  BY <1>1 DEF Inv, BuilderLocks, ReaderLocks, Others
<1>3. \A m \in Nodes : ~Holds(w, m)
  BY DEF Holds
<1> QED
  BY <1>2, <1>3, LockFrame

\* worker_add_task: the task that was kept is added to the queue.
LEMMA AddTaskInv ==
  ASSUME Inv, NEW w \in Workers, worker_add_task(w)
  PROVE  Inv'
<1>1. TypeOK /\ TypeOK' /\ Others(w)
  BY AddTaskTypes DEF Inv
<1>2. /\ pc[w] = "add_task" /\ queue' = (queue \union {found[w]}) \ {<<>>}
      /\ UNCHANGED <<ctor, port, locked, arg_count, free, exposed, built, given,
                     index, number, back, todo>>
  BY DEF worker_add_task
<1>3. /\ pc'[w] = "run" /\ found'[w] = <<>> /\ node'[w] = Null
      /\ ~Building(w) /\ ~Building(w)'
      /\ \A v \in Workers : Building(v)' <=> Building(v)
  BY <1>1, <1>2, OthersBuild DEF worker_add_task, Goto, TypeOK, Building
<1>4. /\ queue \subseteq TaskSet \ {<<>>} /\ found[w] \in TaskSet
      /\ \A m : ~Names(<<>>, m)
  BY <1>1, TypeFacts, TaskShape, TaskMade
<1>5. \A m \in Nodes : Unclaimed(m)' <=> Unclaimed(m)
  <2>1. \A t : t \in queue' <=> t \in queue \/ (t = found[w] /\ t # <<>>)
    BY <1>2, <1>4
  <2> QED
    BY <1>1, <1>2, <1>3, <1>4, <2>1 DEF Unclaimed, Others
<1>6. ~Aborted'
  BY <1>1, <1>3 DEF Inv, Aborted, Others
<1>7. PrimitivesAlone'
  BY <1>1, <1>2, <1>3, AloneFrame DEF Inv, Others
<1>8. FreeIsClean'
  BY <1>2 DEF Inv, FreeIsClean
<1>9. BuildState'
  BY <1>1, <1>2, <1>3 DEF Inv, BuildState, Others
<1>10. OneBuilder'
  BY <1>1, <1>3 DEF Inv, OneBuilder, Others
<1>11. FoundState'
  BY <1>1, <1>2, <1>3 DEF Inv, FoundState, Others
<1>12. TodoState'
  BY <1>1, <1>2, <1>3 DEF Inv, TodoState, Others, IsPrimitive
<1>13. CompareState'
  BY <1>1, <1>2, <1>3, <1>5 DEF Inv, CompareState, Others, IsPrimitive
<1>14. BuilderLocks' /\ ReaderLocks' /\ LockHeld'
  BY <1>1, <1>2, <1>3, LocksFrame
<1>15. BuiltOrConsumed'
  BY <1>1, <1>2, <1>3 DEF Inv, BuiltOrConsumed, Others
<1>16. PortKinds'
  BY <1>2 DEF Inv, PortKinds, Principal
<1>17. Filled'
  BY <1>1, <1>2, <1>3 DEF Inv, Filled, Others
<1>18. ArgsCounted'
  BY <1>2, <1>5, ArgsFrame DEF Inv
<1>19. ExposedState'
  BY <1>2, <1>5 DEF Inv, ExposedState, IsPrimitive, Principal
<1>20. Fresh'
  BY <1>1, <1>2, <1>3, <1>5, BuildFacts DEF Inv, Fresh, IsPrimitive, Principal, Exposes, Others
<1>21. GoodTasks'
  BY <1>1, <1>2, <1>3, <1>4 DEF Inv, GoodTasks, GoodTask, IsPrimitive, Others
<1>22. ClaimedOnce'
  <2>1. \A t : t \in queue' <=> t \in queue \/ (t = found[w] /\ t # <<>>)
    BY <1>2, <1>4
  <2> QED
    BY <1>1, <1>2, <1>3, <1>4, <2>1 DEF Inv, ClaimedOnce, Others
<1> QED
  BY <1>1, <1>6, <1>7, <1>8, <1>9, <1>10, <1>11, <1>12, <1>13, <1>14, <1>15,
     <1>16, <1>17, <1>18, <1>19, <1>20, <1>21, <1>22 DEF Inv

\* worker_run_until: the body of the rule or of the primitive ends.
LEMMA UntilInv ==
  ASSUME Inv, NEW w \in Workers, worker_run_until(w)
  PROVE  Inv'
<1>1. TypeOK /\ TypeOK' /\ Others(w)
  BY UntilTypes DEF Inv
<1>2. /\ pc[w] = "run"
      /\ UNCHANGED <<ctor, port, locked, arg_count, free, exposed, queue, built,
                     node, given, number, back, found, todo>>
  BY DEF worker_run_until
<1>3. \/ todo[w] = <<>> /\ pc'[w] = "idle"
      \/ /\ todo[w] # <<>> /\ pc'[w] = "outputs" /\ index'[w] = arity[ctor[todo[w][1]]]
         /\ arity[ctor[todo[w][1]]] \in Nat
  <2>1. CASE todo[w] = <<>>
    BY <1>1, <2>1 DEF worker_run_until, Goto, TypeOK
  <2>2. CASE todo[w] # <<>>
    <3>1. ctor[todo[w][1]] # Null /\ arity[ctor[todo[w][1]]] \in Nat
      BY <2>2, TodoFacts, CtorFacts
    <3> QED
      BY <1>1, <2>2, <3>1 DEF worker_run_until, Goto, TypeOK
  <2> QED
    BY <2>1, <2>2
<1>4. /\ ~Building(w) /\ ~Building(w)' /\ pc'[w] \in {"idle", "outputs"}
      /\ \A v \in Workers : Building(v)' <=> Building(v)
  BY <1>1, <1>2, <1>3, OthersBuild DEF Building
<1>5. ~Aborted'
  BY <1>1, <1>4 DEF Inv, Aborted, Others
<1>6. PrimitivesAlone'
  BY <1>1, <1>2, <1>4, AloneFrame DEF Inv, Others
<1>7. FreeIsClean'
  BY <1>2 DEF Inv, FreeIsClean
<1>8. BuildState'
  BY <1>1, <1>2, <1>4 DEF Inv, BuildState, Others
<1>9. OneBuilder'
  BY <1>2, <1>4 DEF Inv, OneBuilder
<1>10. FoundState'
  BY <1>1, <1>2, <1>4 DEF Inv, FoundState, Others
<1>11. TodoState'
  BY <1>1, <1>2, <1>3 DEF Inv, TodoState, Others, IsPrimitive
<1>12. CompareState'
  BY <1>1, <1>2, <1>4 DEF Inv, CompareState, Others, IsPrimitive, Unclaimed
<1>13. BuilderLocks' /\ ReaderLocks' /\ LockHeld'
  BY <1>1, <1>2, <1>4, LocksFrame
<1>14. BuiltOrConsumed'
  BY <1>1, <1>2, <1>4 DEF Inv, BuiltOrConsumed, Others
<1>15. PortKinds'
  BY <1>2 DEF Inv, PortKinds, Principal
<1>16. Filled'
  BY <1>1, <1>2, <1>4 DEF Inv, Filled, Others
<1>17. ArgsCounted'
  BY <1>2 DEF Inv, ArgsCounted, IsPrimitive, Principal, Unclaimed
<1>18. ExposedState'
  BY <1>2 DEF Inv, ExposedState, IsPrimitive, Principal, Unclaimed
<1>19. Fresh'
  BY <1>1, <1>2, <1>4 DEF Inv, Fresh, IsPrimitive, Principal, Unclaimed, Exposes, Others
<1>20. GoodTasks'
  BY <1>2 DEF Inv, GoodTasks, GoodTask, IsPrimitive
<1>21. ClaimedOnce'
  BY <1>2 DEF Inv, ClaimedOnce
<1> QED
  BY <1>1, <1>5, <1>6, <1>7, <1>8, <1>9, <1>10, <1>11, <1>12, <1>13, <1>14, <1>15,
     <1>16, <1>17, <1>18, <1>19, <1>20, <1>21 DEF Inv

\* worker_handle_task: the task is taken from the queue.
LEMMA HandleInv ==
  ASSUME Inv, NEW w \in Workers, NEW t \in queue, worker_handle_task(w, t)
  PROVE  Inv'
<1>1. TypeOK /\ TypeOK' /\ Others(w)
  BY HandleTypes DEF Inv
<1>2. /\ pc[w] = "idle" /\ queue' = queue \ {t}
      /\ UNCHANGED <<ctor, port, locked, arg_count, free, exposed, built, node,
                     given, index, number, back, found>>
  BY DEF worker_handle_task
<1>3. todo[w] = <<>> /\ todo'[w] = t /\ \A m : ~Names(<<>>, m)
  BY <1>1, <1>2, TaskShape, TaskMade DEF worker_handle_task, Inv, TodoState, TypeOK
<1>4. t \in TaskSet /\ t # <<>> /\ GoodTask(t)
  BY <1>1, TypeFacts DEF Inv, GoodTasks
<1>5. \/ Len(t) = 2 /\ ~IsPrimitive(t[1]) /\ pc'[w] = "disconnect"
      \/ Len(t) = 1 /\ IsPrimitive(t[1]) /\ pc'[w] = "run"
  BY <1>1, <1>4, TaskShape DEF worker_handle_task, GoodTask, Goto, TypeOK
<1>6. /\ ~Building(w) /\ ~Building(w)' /\ pc'[w] \in {"disconnect", "run"}
      /\ \A v \in Workers : Building(v)' <=> Building(v)
  BY <1>1, <1>2, <1>5, OthersBuild DEF Building
<1>7. \A m \in Nodes : Unclaimed(m)' <=> Unclaimed(m)
  BY <1>1, <1>2, <1>3 DEF Unclaimed, Others
<1>8. ~Aborted'
  BY <1>1, <1>6 DEF Inv, Aborted, Others
<1>9. PrimitivesAlone'
  BY <1>1, <1>2, <1>6, AloneFrame DEF Inv, Others
<1>10. FreeIsClean'
  BY <1>2 DEF Inv, FreeIsClean
<1>11. BuildState'
  BY <1>1, <1>2, <1>6 DEF Inv, BuildState, Others
<1>12. OneBuilder'
  BY <1>2, <1>6 DEF Inv, OneBuilder
<1>13. FoundState'
  BY <1>1, <1>2, <1>6 DEF Inv, FoundState, Others
<1>14. TodoState'
  BY <1>1, <1>2, <1>3, <1>4, <1>5 DEF Inv, TodoState, Others, IsPrimitive
<1>15. CompareState'
  BY <1>1, <1>2, <1>6, <1>7 DEF Inv, CompareState, Others, IsPrimitive
<1>16. BuilderLocks' /\ ReaderLocks' /\ LockHeld'
  BY <1>1, <1>2, <1>6, LocksFrame
<1>17. BuiltOrConsumed'
  BY <1>1, <1>2, <1>6 DEF Inv, BuiltOrConsumed, Others
<1>18. PortKinds'
  BY <1>2 DEF Inv, PortKinds, Principal
<1>19. Filled'
  BY <1>1, <1>2, <1>6 DEF Inv, Filled, Others
<1>20. ArgsCounted'
  BY <1>2, <1>7, ArgsFrame DEF Inv
<1>21. ExposedState'
  BY <1>2, <1>7 DEF Inv, ExposedState, IsPrimitive, Principal
<1>22. Fresh'
  BY <1>1, <1>2, <1>6, <1>7, BuildFacts DEF Inv, Fresh, IsPrimitive, Principal, Exposes, Others
<1>23. GoodTasks'
  BY <1>1, <1>2, <1>3, <1>4 DEF Inv, GoodTasks, GoodTask, IsPrimitive, Others
<1>24. ClaimedOnce'
  BY <1>1, <1>2, <1>3 DEF Inv, ClaimedOnce, Others
<1> QED
  BY <1>1, <1>8, <1>9, <1>10, <1>11, <1>12, <1>13, <1>14, <1>15, <1>16, <1>17,
     <1>18, <1>19, <1>20, <1>21, <1>22, <1>23, <1>24 DEF Inv

\* A primitive that is claimed has all its arguments, in all its principal ports.
LEMMA AllArguments ==
  ASSUME Inv, NEW n \in Nodes, IsPrimitive(n), arg_count[n] = Cardinality(Principal(n))
  PROVE  \A i \in Principal(n) : port[n][i] = "argument"
<1> DEFINE A == {i \in Principal(n) : port[n][i] = "argument"}
<1>1. IsFiniteSet(Principal(n))
  BY CtorFacts, CtorAssumption DEF IsPrimitive, Principal
<1>2. Cardinality(A) = Cardinality(Principal(n))
  BY DEF Inv, ArgsCounted
<1>3. A \subseteq Principal(n)
  OBVIOUS
<1>4. A = Principal(n)
  BY ONLY <1>1, <1>2, <1>3, FS_Subset
<1> QED
  BY <1>4

\* A task that is taken does not name a node that can still be reached, or that
\* has just got an argument.
LEMMA ClaimedFacts ==
  ASSUME Inv, NEW n \in Nodes, ~Unclaimed(n)
  PROVE  /\ ~Exposes(n)
         /\ \A w \in Workers : pc[w] = "compare" => node[w] # n
<1>1. ASSUME NEW x \in exposed, x[1] = n
      PROVE  FALSE
  <2>1. IsPrimitive(n) /\ x[2] \in Principal(n) /\ port[n][x[2]] = "principal"
    BY <1>1 DEF Inv, ExposedState
  <2>2. arg_count[n] = Cardinality(Principal(n))
    BY <2>1 DEF Inv, ArgsCounted
  <2>3. port[n][x[2]] = "argument"
    BY <2>1, <2>2, AllArguments
  <2> QED
    BY <2>1, <2>3
<1> QED
  BY <1>1 DEF Exposes, Inv, CompareState

\* worker_recycle_node: nobody knows the node any more.
LEMMA RecycleInv ==
  ASSUME Inv, NEW w \in Workers, worker_recycle_node(w)
  PROVE  Inv'
<1>0. /\ pc[w] \in {"recycle", "retire"} /\ todo[w] # <<>> /\ Head(todo[w]) = todo[w][1]
  BY TodoFacts DEF worker_recycle_node, Inv, TodoState
<1> DEFINE rest == Tail(todo[w])
<1>1. TypeOK /\ TypeOK' /\ Others(w)
  BY RecycleTypes DEF Inv
<1>2. PICK n \in Nodes : n = todo[w][1]
  BY <1>0, TodoFacts
<1>3. /\ ctor' = [ctor EXCEPT ![n] = Null] /\ port' = [port EXCEPT ![n] = NoPorts]
      /\ arg_count' = [arg_count EXCEPT ![n] = 0] /\ free' = free \union {n}
      /\ UNCHANGED <<locked, exposed, queue, built, node, given, index, number, back, found>>
  BY <1>0, <1>2 DEF worker_recycle_node
<1>4. /\ ctor'[n] = Null /\ port'[n] = NoPorts /\ arg_count'[n] = 0
      /\ \A m \in Nodes \ {n} : ctor'[m] = ctor[m] /\ port'[m] = port[m] /\ arg_count'[m] = arg_count[m]
  BY <1>1, <1>3 DEF TypeOK
<1>5. Names(todo[w], n) /\ n \notin free /\ ~Unclaimed(n)
  BY <1>0, <1>2, TodoFacts DEF Unclaimed
<1>6. /\ \A t \in queue : ~Names(t, n)
      /\ \A v \in Workers : ~Names(found[v], n) /\ (v # w => ~Names(todo[v], n))
  BY <1>5 DEF Inv, ClaimedOnce
<1>7. ~Exposes(n) /\ \A v \in Workers : pc[v] = "compare" => node[v] # n
  BY <1>5, ClaimedFacts
<1>8. \A v \in Workers : Building(v) => node[v] # n
  BY <1>0, <1>2 DEF Inv, BuiltOrConsumed
<1>9. todo'[w] = rest /\ pc'[w] \in {"idle", "disconnect", "run"}
  BY <1>1 DEF worker_recycle_node, Goto, TypeOK
<1>10. \/ /\ rest = <<>> /\ \A m : ~Names(rest, m)
          /\ IF pc[w] = "retire" THEN pc'[w] = "idle" ELSE pc'[w] = "run"
       \/ /\ rest # <<>> /\ Len(rest) = 1 /\ rest[1] \in Nodes /\ rest[1] # n
          /\ ~IsPrimitive(rest[1]) /\ \A m : Names(rest, m) <=> m = rest[1]
          /\ pc'[w] = "disconnect" /\ Names(todo[w], rest[1])
  <2>1. todo[w] \in TaskSet
    BY <1>1, TypeFacts
  <2>2. CASE Len(todo[w]) = 1
    <3>a. rest = <<>> /\ \A m : ~Names(<<>>, m)
      BY <1>0, <2>1, <2>2, TaskShape, TaskMade
    <3>1. rest = <<>> /\ \A m : ~Names(rest, m)
      BY <3>a
    <3>2. IF pc[w] = "retire" THEN pc'[w] = "idle" ELSE pc'[w] = "run"
      BY <1>1, <2>2 DEF worker_recycle_node, Goto, TypeOK
    <3> QED
      BY <3>1, <3>2
  <2>3. CASE Len(todo[w]) = 2
    <3>1. PICK k \in Nodes : k = todo[w][2] /\ rest = <<k>> /\ Names(todo[w], k)
      BY <2>1, <2>3, TaskShape
    <3>2. pc[w] = "recycle"
      <4>1. pc[w] = "retire" => Len(todo[w]) = 1
        BY <1>0 DEF Inv, TodoState
      <4> QED
        BY <1>0, <2>3, <4>1
    <3>3. GoodTask(todo[w])
      BY <2>3 DEF Inv, GoodTasks
    <3>4. k # n /\ ~IsPrimitive(k)
      BY <1>2, <2>3, <3>1, <3>3 DEF GoodTask
    <3>5. pc'[w] = "disconnect"
      BY <1>1, <2>3, <3>2 DEF worker_recycle_node, Goto, TypeOK
    <3>6. rest # <<>> /\ Len(rest) = 1 /\ rest[1] = k /\ \A m : Names(rest, m) <=> m = k
      <4>1. <<k>> # <<>> /\ \A m : Names(<<k>>, m) <=> m = k
        BY TaskMade
      <4>2. Len(<<k>>) = 1 /\ <<k>>[1] = k
        OBVIOUS
      <4> HIDE DEF rest
      <4> QED
        BY <3>1, <4>1, <4>2
    <3> QED
      BY <3>1, <3>4, <3>5, <3>6
  <2> QED
    BY <1>0, <2>1, <2>2, <2>3, TaskShape
<1>11. \A m : Names(rest, m) => m # n /\ Names(todo[w], m)
  BY <1>10
<1>12. \A m \in Nodes : Unclaimed(m) => Unclaimed(m)'
  BY <1>1, <1>3, <1>9, <1>11 DEF Unclaimed, Others
<1>13. /\ ~Building(w) /\ ~Building(w)'
       /\ \A v \in Workers : Building(v)' <=> Building(v)
  BY <1>0, <1>1, <1>9, OthersBuild DEF Building
<1>14. Null \notin Primitives /\ ~IsPrimitive(n)' /\ \A m \in Nodes \ {n} : IsPrimitive(m)' <=> IsPrimitive(m)
  BY <1>4, CtorAssumption DEF IsPrimitive
<1> HIDE DEF rest
<1>15. ~Aborted'
  BY <1>1, <1>9 DEF Inv, Aborted, Others
<1>16. PrimitivesAlone'
  BY <1>0, <1>1, <1>9, <1>14 DEF Inv, PrimitivesAlone, Others
<1>17. FreeIsClean'
  BY <1>3, <1>4 DEF Inv, FreeIsClean
<1>18. BuildState'
  BY <1>1, <1>3, <1>4, <1>8, <1>9, <1>13 DEF Inv, BuildState, Others
<1>19. OneBuilder'
  BY <1>3, <1>13 DEF Inv, OneBuilder
<1>20. FoundState'
  BY <1>0, <1>1, <1>3, <1>9, <1>13 DEF Inv, FoundState, Others
<1>21. TodoState'
  <2>1. ASSUME NEW v \in Workers, v # w, todo[v] # <<>>
        PROVE  /\ todo[v][1] \in Nodes \ {n}
               /\ ctor'[todo[v][1]] = ctor[todo[v][1]]
    BY <1>4, <1>6, <2>1, TodoFacts
  <2>2. rest # <<>> => ctor'[rest[1]] \notin Primitives
    BY <1>4, <1>10 DEF IsPrimitive
  <2> QED
    BY <1>0, <1>1, <1>3, <1>9, <1>10, <2>1, <2>2 DEF Inv, TodoState, Others, IsPrimitive
<1>22. CompareState'
  BY <1>1, <1>3, <1>4, <1>7, <1>9, <1>12, <1>14 DEF Inv, CompareState, Others
<1>23. BuilderLocks' /\ ReaderLocks' /\ LockHeld'
  BY <1>0, <1>1, <1>3, <1>9, <1>13, LocksFrame
<1>24. BuiltOrConsumed'
  BY <1>1, <1>3, <1>9, <1>13 DEF Inv, BuiltOrConsumed, Others
<1>25. PortKinds'
  BY <1>3, <1>4 DEF Inv, PortKinds, Principal
<1>26. Filled'
  <2>1. ASSUME NEW v \in Workers, Building(v)
        PROVE  port'[node[v]] = port[node[v]]
    BY <1>4, <1>8, <2>1, BuildFacts
  <2>2. \A m \in Nodes \ free' : m # n /\ m \notin free /\ port'[m] = port[m] /\ ctor'[m] = ctor[m]
    BY <1>3, <1>4
  <2>3. ASSUME NEW v \in Workers, Building(v)'
        PROVE  IF pc'[v] = "output"
               THEN \A j \in 0 .. index'[v] - 1 : port'[node'[v]][j] # "empty"
               ELSE \A j \in 0 .. given'[v] - 1 : port'[node'[v]][j] = "empty" <=> j < index'[v]
    BY <1>1, <1>3, <1>13, <2>1, <2>3 DEF Inv, Filled, Others
  <2>4. ASSUME NEW m \in Nodes \ free', \A v \in Workers : Building(v)' => node'[v] # m
        PROVE  \A j \in 0 .. arity[ctor'[m]] - 1 : port'[m][j] # "empty"
    BY <1>3, <1>13, <2>2, <2>4 DEF Inv, Filled
  <2> QED
    BY <2>3, <2>4 DEF Filled
<1>27. ArgsCounted'
  BY <1>4, <1>12, <1>14 DEF Inv, ArgsCounted, Principal
<1>28. ExposedState'
  BY <1>3, <1>4, <1>7, <1>12, <1>14, ExposedFacts DEF Inv, ExposedState, Principal, Exposes
<1>29. Fresh'
  BY <1>1, <1>3, <1>4, <1>8, <1>12, <1>13, <1>14, BuildFacts DEF Inv, Fresh, Principal, Exposes, Others
<1>30. GoodTasks'
  <2>1. ASSUME NEW t \in TaskSet, GoodTask(t), ~Names(t, n)
        PROVE  GoodTask(t)'
    <3>1. Len(t) \in {1, 2} => t[1] \in Nodes \ {n}
      BY <2>1, TaskShape
    <3>2. Len(t) = 2 => t[2] \in Nodes \ {n}
      BY <2>1, TaskShape
    <3> QED
      BY <1>3, <1>14, <2>1, <3>1, <3>2 DEF GoodTask
  <2>2. queue \subseteq TaskSet /\ \A v \in Workers : found[v] \in TaskSet /\ todo[v] \in TaskSet
    BY <1>1, TypeFacts
  <2>3. \A t \in queue' : GoodTask(t)'
    BY <1>3, <1>6, <2>1, <2>2 DEF Inv, GoodTasks
  <2>4. \A v \in Workers : GoodTask(found[v])'
    <3>1. \A v \in Workers : found'[v] = found[v] /\ GoodTask(found[v])
      BY <1>3 DEF Inv, GoodTasks
    <3>2. ASSUME NEW v \in Workers, NEW t, t = found'[v]
          PROVE  GoodTask(t)'
      <4>1. t = found[v] /\ t \in TaskSet /\ GoodTask(found[v])
        BY <2>2, <3>1, <3>2
      <4>2. ~Names(found[v], n)
        BY <1>6
      <4> QED
        BY <2>1, <4>1, <4>2
    <3> QED
      BY <3>2 DEF GoodTask
  <2>5. ASSUME NEW v \in Workers
        PROVE  /\ \A m \in free' : ~Names(todo'[v], m)
               /\ Len(todo'[v]) = 2 => GoodTask(todo[v])'
    <3>1. CASE v = w
      <4>1. Len(rest) # 2
        <5>1. rest = <<>> \/ Len(rest) = 1
          BY ONLY <1>10
        <5>2. Len(<<>>) = 0
          OBVIOUS
        <5> HIDE DEF rest
        <5> QED
          BY ONLY <5>1, <5>2
      <4>2. \A m \in free' : ~Names(rest, m)
        <5>1. \A m \in free : ~Names(todo[w], m)
          <6>1. GoodTasks
            BY DEF Inv
          <6> QED
            BY ONLY <6>1, w \in Workers DEF GoodTasks
        <5> QED
          BY <1>3, <1>11, <5>1
      <4> QED
        BY <1>9, <3>1, <4>1, <4>2
    <3>2. CASE v # w
      <4>1. todo'[v] = todo[v] /\ ~Names(todo[v], n)
        BY <1>1, <1>6, <3>2 DEF Others
      <4>2. \A m \in free' : ~Names(todo[v], m)
        BY <1>3, <4>1 DEF Inv, GoodTasks
      <4>3. ASSUME NEW t, t = todo'[v], Len(t) = 2
            PROVE  GoodTask(t)'
        BY <2>1, <2>2, <4>1, <4>3 DEF Inv, GoodTasks
      <4> QED
        BY <4>1, <4>2, <4>3 DEF GoodTask
    <3> QED
      BY <3>1, <3>2
  <2> QED
    BY <2>3, <2>4, <2>5 DEF GoodTasks
<1>31. ClaimedOnce'
  BY <1>1, <1>3, <1>9, <1>11 DEF Inv, ClaimedOnce, Others
<1> QED
  BY <1>1, <1>15, <1>16, <1>17, <1>18, <1>19, <1>20, <1>21, <1>22, <1>23, <1>24,
     <1>25, <1>26, <1>27, <1>28, <1>29, <1>30, <1>31 DEF Inv

\* A node that can be given out is known to nobody.
LEMMA FreeFacts ==
  ASSUME Inv, NEW n \in free
  PROVE  /\ n \in Nodes /\ Unclaimed(n) /\ ~Exposes(n) /\ ~locked[n]
         /\ port[n] = NoPorts /\ arg_count[n] = 0 /\ ctor[n] = Null
         /\ \A w \in Workers : Building(w) => node[w] # n
         /\ \A w \in Workers : pc[w] = "compare" => node[w] # n
         /\ \A w \in Workers : todo[w] # <<>> => todo[w][1] # n
<1>1. n \in Nodes /\ port[n] = NoPorts /\ arg_count[n] = 0 /\ ctor[n] = Null
  BY DEF Inv, FreeIsClean, TypeOK
<1>2. Unclaimed(n)
  BY DEF Inv, GoodTasks, GoodTask, Unclaimed
<1>3. ~Exposes(n)
  BY DEF Inv, ExposedState, Exposes
<1>4. \A w \in Workers : Building(w) => node[w] # n
  BY BuildFacts
<1>5. \A w \in Workers : todo[w] # <<>> => todo[w][1] # n
  BY TodoFacts
<1>6. \A w \in Workers : pc[w] = "compare" => node[w] # n
  BY <1>1, CtorAssumption DEF Inv, CompareState, IsPrimitive
<1>7. ~locked[n]
  BY <1>1, <1>4, <1>5 DEF Inv, LockHeld, Holds, TodoState
<1> QED
  BY <1>1, <1>2, <1>3, <1>4, <1>5, <1>6, <1>7

\* worker_new_node: the node has a constructor and empty ports.
LEMMA NewInv ==
  ASSUME Inv, ParallelPrimitives = {},
         NEW w \in Workers, NEW n \in Nodes, NEW k \in Ctors, worker_new_node(w, n, k)
  PROVE  Inv'
<1>1. TypeOK /\ TypeOK' /\ Others(w)
  BY NewTypes DEF Inv
<1>2. /\ pc[w] = "run" /\ n \in free /\ free' = free \ {n}
      /\ k \in Primitives => \A v \in Workers \ {w} : pc[v] = "off"
      /\ ctor' = [ctor EXCEPT ![n] = k]
      /\ UNCHANGED <<port, locked, arg_count, exposed, queue, number, back, found, todo>>
  BY DEF worker_new_node
<1>3. /\ pc'[w] = "lock" /\ node'[w] = n /\ given'[w] = input_arity[k]
      /\ index'[w] = input_arity[k] /\ ctor'[n] = k
      /\ \A m \in Nodes \ {n} : ctor'[m] = ctor[m]
  BY <1>1 DEF worker_new_node, Goto, TypeOK
<1>4. /\ Unclaimed(n) /\ ~Exposes(n) /\ port[n] = NoPorts /\ arg_count[n] = 0
      /\ ctor[n] = Null
      /\ \A v \in Workers : Building(v) => node[v] # n
      /\ \A v \in Workers : pc[v] = "compare" => node[v] # n
      /\ \A v \in Workers : todo[v] # <<>> => todo[v][1] # n
  BY <1>2, FreeFacts
<1>5. /\ k # Null /\ arity[k] \in Nat /\ input_arity[k] \in Nat /\ input_arity[k] <= arity[k]
      /\ is_principal[k] \subseteq 0 .. arity[k] - 1
      /\ \A i \in 0 .. arity[k] - 1 : i \in Indices
      /\ Null \notin Primitives
  BY CtorFacts, CtorAssumption
<1>6. /\ ~Building(w) /\ Building(w)'
      /\ \A v \in Workers \ {w} : Building(v)' <=> Building(v)
  BY <1>1, <1>2, <1>3, OthersBuild DEF Building
<1>7. \A m \in Nodes : Unclaimed(m)' <=> Unclaimed(m)
  BY <1>2 DEF Unclaimed
<1>8. /\ \A m \in Nodes \ {n} : IsPrimitive(m)' <=> IsPrimitive(m)
      /\ IsPrimitive(n)' <=> k \in Primitives
  BY <1>3 DEF IsPrimitive
<1>9. \A i \in 0 .. arity[k] - 1 : port[n][i] = "empty"
  BY <1>4, <1>5 DEF NoPorts
<1>10. ~Aborted'
  BY <1>1, <1>3 DEF Inv, Aborted, Others
<1>11. PrimitivesAlone'
  <2>1. ASSUME NEW m \in Nodes, NEW u \in Workers, IsPrimitive(m)', pc'[u] # "off",
               NEW v \in Workers \ {u}
        PROVE  pc'[v] = "off"
    <3>1. pc[u] # "off"
      BY <1>1, <1>2, <2>1 DEF Others
    <3>2. CASE m = n
      <4>1. u = w /\ pc[v] = "off"
        BY <1>2, <1>8, <2>1, <3>1, <3>2
      <4> QED
        BY <1>1, <4>1 DEF Others
    <3>3. CASE m # n
      <4>1. pc[v] = "off"
        BY <1>8, <2>1, <3>1, <3>3 DEF Inv, PrimitivesAlone
      <4> QED
        BY <1>1, <1>2, <4>1 DEF Others
    <3> QED
      BY <3>2, <3>3
  <2> QED
    BY <2>1 DEF PrimitivesAlone
<1>12. FreeIsClean'
  BY <1>2, <1>3, <1>5 DEF Inv, FreeIsClean
<1>13. BuildState'
  <2>1. ASSUME NEW v \in Workers \ {w}, Building(v)
        PROVE  node[v] \in Nodes \ {n} /\ ctor'[node[v]] = ctor[node[v]]
    BY <1>3, <1>4, <2>1, BuildFacts
  <2> QED
    BY <1>1, <1>2, <1>3, <1>5, <1>6, <2>1 DEF Inv, BuildState, Others
<1>14. OneBuilder'
  BY <1>1, <1>3, <1>4, <1>6 DEF Inv, OneBuilder, Others
<1>15. FoundState'
  BY <1>1, <1>2, <1>3, <1>6 DEF Inv, FoundState, Others
<1>16. TodoState'
  <2>1. ASSUME NEW v \in Workers, todo[v] # <<>>
        PROVE  ctor'[todo[v][1]] = ctor[todo[v][1]]
    BY <1>3, <1>4, <2>1, TodoFacts
  <2> QED
    BY <1>1, <1>2, <1>3, <2>1 DEF Inv, TodoState, Others, IsPrimitive
<1>17. CompareState'
  BY <1>1, <1>2, <1>3, <1>4, <1>7, <1>8 DEF Inv, CompareState, Others
<1>18. BuilderLocks' /\ ReaderLocks' /\ LockHeld'
  BY <1>1, <1>2, <1>3, <1>6, LocksFrame
<1>19. BuiltOrConsumed'
  <2>1. \A v \in Workers : pc[v] \in {"read", "recycle", "retire"} =>
          todo[v] # <<>> /\ todo[v][1] # n
    BY <1>4 DEF Inv, TodoState
  <2> QED
    BY <1>1, <1>2, <1>3, <1>6, <2>1 DEF Inv, BuiltOrConsumed, Others
<1>20. PortKinds'
  BY <1>2, <1>3, <1>9 DEF Inv, PortKinds, Principal
<1>21. Filled'
  <2>1. ASSUME NEW v \in Workers, Building(v)'
        PROVE  IF pc'[v] = "output"
               THEN \A j \in 0 .. index'[v] - 1 : port'[node'[v]][j] # "empty"
               ELSE \A j \in 0 .. given'[v] - 1 : port'[node'[v]][j] = "empty" <=> j < index'[v]
    <3>1. CASE v = w
      BY <1>2, <1>3, <1>5, <1>9, <3>1
    <3>2. CASE v # w
      BY <1>1, <1>2, <1>6, <2>1, <3>2 DEF Inv, Filled, Others
    <3> QED
      BY <3>1, <3>2
  <2>2. ASSUME NEW m \in Nodes \ free', \A v \in Workers : Building(v)' => node'[v] # m
        PROVE  \A j \in 0 .. arity[ctor'[m]] - 1 : port'[m][j] # "empty"
    <3>1. m # n /\ m \notin free /\ \A v \in Workers : Building(v) => node[v] # m
      BY <1>1, <1>2, <1>3, <1>6, <2>2 DEF Others
    <3> QED
      BY <1>2, <1>3, <3>1 DEF Inv, Filled
  <2> QED
    BY <2>1, <2>2 DEF Filled
<1>22. ArgsCounted'
  <2>1. {i \in is_principal[k] : port[n][i] = "argument"} = {}
    BY <1>5, <1>9
  <2>2. Cardinality({i \in is_principal[k] : port[n][i] = "argument"}) = 0
    BY <2>1, FS_EmptySet
  <2>3. IsPrimitive(n)' =>
          /\ arg_count'[n] = Cardinality({i \in Principal(n)' : port'[n][i] = "argument"})
          /\ ~Unclaimed(n)' => arg_count'[n] = Cardinality(Principal(n)')
    BY <1>2, <1>3, <1>4, <1>7, <2>2 DEF Principal
  <2>4. ASSUME NEW m \in Nodes, m # n, IsPrimitive(m)'
        PROVE  /\ arg_count'[m] = Cardinality({i \in Principal(m)' : port'[m][i] = "argument"})
               /\ ~Unclaimed(m)' => arg_count'[m] = Cardinality(Principal(m)')
    <3>1. IsPrimitive(m) /\ (Unclaimed(m)' <=> Unclaimed(m))
      BY <1>7, <1>8, <2>4
    <3>2. ctor'[m] = ctor[m] /\ port'[m] = port[m] /\ arg_count'[m] = arg_count[m]
      BY <1>2, <1>3, <2>4
    <3> QED
      BY <3>1, <3>2 DEF Inv, ArgsCounted, Principal
  <2> QED
    BY <2>3, <2>4 DEF ArgsCounted
<1>23. ExposedState'
  BY <1>2, <1>3, <1>4, <1>7, <1>8, ExposedFacts DEF Inv, ExposedState, Principal, Exposes
<1>24. Fresh'
  <2>1. Unclaimed(n)' /\ ~Exposes(n)'
    BY <1>2, <1>4, <1>7 DEF Exposes
  <2>2. \A v \in Workers \ {w} : Building(v) =>
          node[v] \in Nodes \ {n} /\ ctor'[node[v]] = ctor[node[v]]
    BY <1>3, <1>4, BuildFacts
  <2>3. ASSUME NEW v \in Workers, Building(v)', ~IsPrimitive(node[v])',
               NEW p \in Principal(node[v])',
               p >= given'[v] \/ (pc'[v] # "output" /\ p < index'[v])
        PROVE  Unclaimed(node[v])' /\ ~Exposes(node[v])'
    <3>1. CASE v = w
      BY <1>3, <2>1, <3>1 DEF Unclaimed, Exposes
    <3>2. CASE v # w
      <4>1. /\ Building(v) /\ node'[v] = node[v] /\ node[v] \in Nodes \ {n}
            /\ given'[v] = given[v] /\ index'[v] = index[v] /\ pc'[v] = pc[v]
            /\ ctor'[node[v]] = ctor[node[v]]
        BY <1>1, <1>6, <2>2, <2>3, <3>2 DEF Others
      <4>2. ~IsPrimitive(node[v]) /\ p \in Principal(node[v])
        BY <2>3, <4>1 DEF IsPrimitive, Principal
      <4>3. Unclaimed(node[v]) /\ ~Exposes(node[v])
        BY <2>3, <4>1, <4>2 DEF Inv, Fresh
      <4> QED
        BY <1>2, <4>1, <4>3 DEF Unclaimed, Exposes
    <3> QED
      BY <3>1, <3>2
  <2> QED
    BY <2>3 DEF Fresh
<1>25. GoodTasks'
  <2>1. ASSUME NEW t \in TaskSet, GoodTask(t)
        PROVE  GoodTask(t)'
    <3>1. ~Names(t, n)
      BY <1>2, <2>1 DEF GoodTask
    <3>2. Len(t) \in {1, 2} => t[1] \in Nodes \ {n}
      BY <2>1, <3>1, TaskShape
    <3>3. Len(t) = 2 => t[2] \in Nodes \ {n}
      BY <2>1, <3>1, TaskShape
    <3> QED
      BY <1>2, <1>8, <2>1, <3>2, <3>3 DEF GoodTask
  <2>2. queue \subseteq TaskSet /\ \A v \in Workers : found[v] \in TaskSet /\ todo[v] \in TaskSet
    BY <1>1, TypeFacts
  <2>3. \A t \in queue' : GoodTask(t)'
    BY <1>2, <2>1, <2>2 DEF Inv, GoodTasks
  <2>4. ASSUME NEW v \in Workers
        PROVE  GoodTask(found[v])'
    <3>1. ASSUME NEW t, t = found[v]
          PROVE  GoodTask(t)'
      BY <2>1, <2>2, <3>1 DEF Inv, GoodTasks
    <3> QED
      BY <1>2, <3>1 DEF GoodTask
  <2>5. ASSUME NEW v \in Workers
        PROVE  /\ \A m \in free' : ~Names(todo'[v], m)
               /\ Len(todo'[v]) = 2 => GoodTask(todo[v])'
    <3>1. ASSUME NEW t, t = todo[v], Len(t) = 2
          PROVE  GoodTask(t)'
      BY <2>1, <2>2, <3>1 DEF Inv, GoodTasks
    <3>2. \A m \in free' : ~Names(todo'[v], m)
      BY <1>2 DEF Inv, GoodTasks
    <3> QED
      BY <1>2, <3>1, <3>2 DEF GoodTask
  <2> QED
    BY <2>3, <2>4, <2>5 DEF GoodTasks
<1>26. ClaimedOnce'
  BY <1>2 DEF Inv, ClaimedOnce
<1> QED
  BY <1>1, <1>10, <1>11, <1>12, <1>13, <1>14, <1>15, <1>16, <1>17, <1>18, <1>19,
     <1>20, <1>21, <1>22, <1>23, <1>24, <1>25, <1>26 DEF Inv

\* Where a primitive is dealt with the other workers are off.
LEMMA AloneFacts ==
  ASSUME Inv, NEW w \in Workers, NEW n \in Nodes, IsPrimitive(n), pc[w] # "off"
  PROVE  \A v \in Workers \ {w} : pc[v] = "off" /\ ~Building(v) /\ found[v] = <<>> /\ todo[v] = <<>>
<1>1. \A v \in Workers \ {w} : pc[v] = "off"
  BY DEF Inv, PrimitivesAlone
<1>2. \A v \in Workers : pc[v] = "off" => ~Building(v)
  BY DEF Building
<1>3. \A v \in Workers : pc[v] = "off" => found[v] = <<>> /\ todo[v] = <<>>
  BY <1>2 DEF Inv, FoundState, TodoState
<1> QED
  BY <1>1, <1>2, <1>3

\* Tasks stay good when the constructors do, and a good one is added.
LEMMA GoodFrame ==
  ASSUME GoodTasks, UNCHANGED <<ctor, free, todo>>, NEW t, GoodTask(t),
         \A u \in queue' : u \in queue \/ u = t,
         \A v \in Workers : found'[v] = found[v] \/ found'[v] = t
  PROVE  GoodTasks'
<1>1. \A u : GoodTask(u)' <=> GoodTask(u)
  BY DEF GoodTask, IsPrimitive
<1>2. \A u \in queue' : GoodTask(u)'
  BY <1>1 DEF GoodTasks
<1>3. ASSUME NEW v \in Workers
      PROVE  GoodTask(found[v])'
  <2>1. ASSUME NEW u, u = found'[v]
        PROVE  GoodTask(u)'
    BY <1>1, <2>1 DEF GoodTasks
  <2> QED
    BY <2>1 DEF GoodTask
<1>4. ASSUME NEW v \in Workers
      PROVE  /\ \A n \in free' : ~Names(todo'[v], n)
             /\ Len(todo'[v]) = 2 => GoodTask(todo[v])'
  BY DEF GoodTasks, GoodTask, IsPrimitive
<1> QED
  BY <1>2, <1>3, <1>4 DEF GoodTasks

\* node_principal_port_count: the last argument makes the task.
LEMMA CountInv ==
  ASSUME Inv, NEW w \in Workers, node_principal_port_count(w)
  PROVE  Inv'
<1>1. TypeOK /\ TypeOK' /\ Others(w)
  BY CountTypes DEF Inv
<1>2. PICK n : n = node[w]
  OBVIOUS
<1>3. /\ pc[w] = "compare" /\ n \in Nodes /\ IsPrimitive(n) /\ Unclaimed(n)
      /\ number[w] = arg_count[n] /\ back[w] \in {"run", "input", "outputs"}
      /\ UNCHANGED <<ctor, port, locked, arg_count, free, exposed, built, node,
                     given, index, number, back, todo>>
  BY <1>1, <1>2 DEF node_principal_port_count, Inv, CompareState, TypeOK
<1>4. ctor[n] \in Ctors /\ ctor[n] # Null /\ n \notin free
  BY <1>3, CtorFacts, CtorAssumption DEF IsPrimitive, Inv, FreeIsClean
<1>5. \A v \in Workers \ {w} : pc[v] = "off" /\ ~Building(v)
  BY <1>3, AloneFacts
<1>6. found[w] # <<>> => ~Building(w)
  BY <1>2, <1>3 DEF Inv, FoundState, Unclaimed
<1>7. PICK t \in {<<>>, <<n>>} :
        /\ t # <<>> => number[w] = Cardinality(Principal(n))
        /\ \/ /\ queue' = (queue \union {t}) \ {<<>>} /\ UNCHANGED found
           \/ /\ Building(w) /\ t = <<n>> /\ found[w] = <<>>
              /\ found' = [found EXCEPT ![w] = t] /\ UNCHANGED queue
  <2>1. <<>> \notin queue /\ <<n>> # <<>>
    BY <1>1, <1>3, TypeFacts, TaskMade
  <2>2. CASE number[w] # Cardinality(Principal(n))
    <3>1. UNCHANGED <<queue, found>>
      BY <1>2, <1>4, <2>2 DEF node_principal_port_count, Principal
    <3>2. queue' = (queue \union {<<>>}) \ {<<>>}
      BY <2>1, <3>1
    <3> QED
      BY <3>1, <3>2
  <2>3. CASE number[w] = Cardinality(Principal(n)) /\ back[w] = "input"
    <3>1. found' = [found EXCEPT ![w] = <<n>>] /\ UNCHANGED queue
      BY <1>2, <1>4, <2>3 DEF node_principal_port_count, Principal, KeepTask
    <3>2. Building(w) /\ found[w] = <<>>
      BY <1>3, <1>6, <2>3 DEF Building
    <3> QED
      BY <2>3, <3>1, <3>2
  <2>4. CASE number[w] = Cardinality(Principal(n)) /\ back[w] # "input"
    <3>1. queue' = queue \union {<<n>>} /\ UNCHANGED found
      BY <1>2, <1>4, <2>4 DEF node_principal_port_count, Principal
    <3>2. queue' = (queue \union {<<n>>}) \ {<<>>}
      BY <2>1, <3>1
    <3> QED
      BY <2>4, <3>1, <3>2
  <2> QED
    BY <2>2, <2>3, <2>4
<1>8. pc' = [pc EXCEPT ![w] = back[w]]
  <2>1. Building(w) <=> back[w] = "input"
    BY <1>3 DEF Building
  <2> QED
    BY <1>2, <1>4, <1>6, <2>1 DEF node_principal_port_count, KeepTask, Goto
<1>9. pc'[w] = back[w]
  BY <1>1, <1>8 DEF TypeOK
<1>10. /\ \A v \in Workers : Building(v)' <=> Building(v)
       /\ Building(w) <=> back[w] = "input"
  BY <1>1, <1>3, <1>9, OthersBuild DEF Building
<1>11. t \in TaskSet /\ (\A m \in Nodes : Names(t, m) => m = n) /\ (t # <<>> => Names(t, n))
       /\ GoodTask(t)
  <2>1. CASE t = <<>>
    BY <2>1, TaskShape, TaskMade DEF GoodTask
  <2>2. CASE t = <<n>>
    <3>1. Len(t) = 1 /\ t[1] = n
      BY <2>2
    <3>2. t \in TaskSet /\ t # <<>> /\ \A m : Names(t, m) <=> m = n
      BY <1>3, <2>2, TaskMade
    <3> QED
      BY <1>3, <1>4, <3>1, <3>2 DEF GoodTask
  <2> QED
    BY <1>7, <2>1, <2>2
<1>12. /\ ClaimedOnce'
       /\ \A m \in Nodes : Unclaimed(m)' <=> Unclaimed(m) /\ ~Names(t, m)
  <2>1. \A m \in Nodes : Names(t, m) => Unclaimed(m)
    BY <1>3, <1>11
  <2>2. TypeOK /\ ClaimedOnce /\ t \in TaskSet /\ todo' = todo
    BY <1>1, <1>3, <1>11 DEF Inv
  <2>3. CASE queue' = (queue \union {t}) \ {<<>>} /\ UNCHANGED found
    BY <2>1, <2>2, <2>3, ClaimQueue
  <2>4. CASE found[w] = <<>> /\ found' = [found EXCEPT ![w] = t] /\ UNCHANGED queue
    BY <2>1, <2>2, <2>4, ClaimFound
  <2> QED
    BY <1>7, <2>3, <2>4
<1>13. \A m \in Nodes : m # n => (Unclaimed(m)' <=> Unclaimed(m))
  BY <1>11, <1>12
<1>14. ~Aborted'
  BY <1>1, <1>3, <1>9 DEF Inv, Aborted, Others
<1>15. PrimitivesAlone'
  BY <1>1, <1>3, <1>9, AloneFrame DEF Inv, Others
<1>16. FreeIsClean'
  BY <1>3 DEF Inv, FreeIsClean
<1>17. BuildState'
  BY <1>1, <1>3, <1>9, <1>10 DEF Inv, BuildState, Others
<1>18. OneBuilder'
  BY <1>3, <1>10 DEF Inv, OneBuilder
<1>19. FoundState'
  <2>1. \A v \in Workers \ {w} : found'[v] = <<>>
    BY <1>1, <1>3, AloneFacts DEF Others
  <2>2. found'[w] # <<>> => Building(w)' /\ pc'[w] # "lock" /\ Names(found'[w], node'[w])
    <3>1. CASE UNCHANGED found
      BY <1>2, <1>3, <1>6, <3>1 DEF Inv, FoundState
    <3>2. CASE Building(w) /\ t = <<n>> /\ found' = [found EXCEPT ![w] = t]
      <4>1. found'[w] = t /\ Names(t, n)
        BY <1>1, <1>3, <3>2, TaskMade DEF TypeOK
      <4> QED
        BY <1>2, <1>3, <1>9, <1>10, <3>2, <4>1
    <3> QED
      BY <1>7, <3>1, <3>2
  <2> QED
    BY <2>1, <2>2 DEF FoundState
<1>20. TodoState'
  BY <1>1, <1>3, <1>9 DEF Inv, TodoState, Others, IsPrimitive
<1>21. CompareState'
  BY <1>1, <1>3, <1>5, <1>9 DEF CompareState, Others
<1>22. BuilderLocks' /\ ReaderLocks' /\ LockHeld'
  <2>1. BuilderLocks'
    BY <1>3, <1>5, <1>10 DEF Inv, BuilderLocks
  <2>2. ReaderLocks'
    BY <1>1, <1>3, <1>5, <1>9 DEF ReaderLocks, Others
  <2>3. LockHeld'
    BY <1>1, <1>3, <1>9, <1>10, LockFrame DEF Holds
  <2> QED
    BY <2>1, <2>2, <2>3
<1>23. BuiltOrConsumed'
  BY <1>1, <1>3, <1>5, <1>9 DEF BuiltOrConsumed, Others
<1>24. PortKinds'
  BY <1>3 DEF Inv, PortKinds, Principal
<1>25. Filled'
  BY <1>1, <1>3, <1>9, <1>10 DEF Inv, Filled, Others
<1>26. ArgsCounted'
  <2>1. ASSUME NEW m \in Nodes, Unclaimed(m), ~Unclaimed(m)'
        PROVE  arg_count[m] = Cardinality(Principal(m))
    <3>1. m = n /\ t # <<>>
      BY <1>11, <1>12, <2>1, TaskShape
    <3> QED
      BY <1>3, <1>7, <3>1
  <2> QED
    BY <1>3, <2>1, ArgsFrame DEF Inv
<1>27. ExposedState'
  BY <1>3, <1>13, ExposedFacts DEF Inv, ExposedState, IsPrimitive, Principal
<1>28. Fresh'
  BY <1>2, <1>3, <1>5, <1>10 DEF Fresh, IsPrimitive
<1>29. GoodTasks'
  <2>1. /\ \A u \in queue' : u \in queue \/ u = t
        /\ \A v \in Workers : found'[v] = found[v] \/ found'[v] = t
    BY <1>1, <1>7 DEF TypeOK
  <2> QED
    BY <1>3, <1>11, <2>1, GoodFrame DEF Inv
<1> QED
  BY <1>1, <1>12, <1>14, <1>15, <1>16, <1>17, <1>18, <1>19, <1>20, <1>21, <1>22,
     <1>23, <1>24, <1>25, <1>26, <1>27, <1>28, <1>29 DEF Inv

\* ConnectPair: the two nodes are claimed by one task.
LEMMA PairInv ==
  ASSUME Inv, NEW w \in Workers, NEW x \in exposed, NEW y \in exposed, ConnectPair(w, x, y)
  PROVE  Inv'
<1>1. TypeOK /\ TypeOK' /\ Others(w)
  BY PairTypes DEF Inv
<1>2. /\ pc[w] = "run" /\ x # y /\ ~IsPrimitive(x[1]) /\ ~IsPrimitive(y[1])
      /\ exposed' = exposed \ {x, y}
      /\ UNCHANGED <<ctor, port, locked, arg_count, free, built, pc, node, given,
                     index, number, back, found, todo>>
  BY DEF ConnectPair
<1>3. PICK t \in connect_active_pair(x[1], y[1]) : queue' = (queue \union {t}) \ {<<>>}
  BY DEF ConnectPair
<1>4. /\ x[1] \in Nodes /\ y[1] \in Nodes /\ x[1] \notin free /\ y[1] \notin free
      /\ Unclaimed(x[1]) /\ Unclaimed(y[1])
  BY <1>2, ExposedFacts DEF Inv, ExposedState
<1>5. ASSUME NEW y1 \in exposed, NEW y2 \in exposed, ~IsPrimitive(y1[1]), y1[1] = y2[1]
      PROVE  y1 = y2
  <2>1. PICK p : is_principal[ctor[y1[1]]] = {p}
    BY <1>5, ExposedFacts, CtorFacts DEF IsPrimitive
  <2>2. y1[2] = p /\ y2[2] = p
    BY <1>5, <2>1, ExposedFacts DEF Principal
  <2> QED
    BY <1>5, <2>2, ExposedFacts
<1>6. x[1] # y[1]
  BY <1>2, <1>5
<1>7. /\ t \in TaskSet /\ GoodTask(t)
      /\ \A m \in Nodes : Names(t, m) => m \in {x[1], y[1]}
  <2>1. CASE t = <<>>
    BY <2>1, TaskShape, TaskMade DEF GoodTask
  <2>2. ASSUME NEW a \in {x[1], y[1]}, NEW b \in {x[1], y[1]}, a # b, t = <<a, b>>
        PROVE  /\ t \in TaskSet /\ GoodTask(t)
               /\ \A m \in Nodes : Names(t, m) => m \in {x[1], y[1]}
    <3>1. Len(t) = 2 /\ t[1] = a /\ t[2] = b
      BY <2>2
    <3>2. t \in TaskSet /\ \A m : Names(t, m) <=> m = a \/ m = b
      BY <1>4, <2>2, TaskMade
    <3> QED
      BY <1>2, <1>4, <2>2, <3>1, <3>2 DEF GoodTask
  <2> QED
    BY <1>3, <1>6, <2>1, <2>2 DEF connect_active_pair
<1>8. /\ ClaimedOnce'
      /\ \A m \in Nodes : Unclaimed(m)' <=> Unclaimed(m) /\ ~Names(t, m)
  <2>1. \A m \in Nodes : Names(t, m) => Unclaimed(m)
    BY <1>4, <1>7
  <2> QED
    BY <1>1, <1>2, <1>3, <1>7, <2>1, ClaimQueue DEF Inv
<1>9. \A m \in Nodes : m \notin {x[1], y[1]} => (Unclaimed(m)' <=> Unclaimed(m))
  BY <1>7, <1>8
<1>10. /\ ~Building(w) /\ ~Building(w)'
       /\ \A v \in Workers : Building(v)' <=> Building(v)
  BY <1>2 DEF Building
<1>11. ~Aborted' /\ PrimitivesAlone' /\ FreeIsClean' /\ OneBuilder'
  BY <1>2, <1>10 DEF Inv, Aborted, PrimitivesAlone, IsPrimitive, FreeIsClean, OneBuilder
<1>12. BuildState'
  BY <1>2, <1>10 DEF Inv, BuildState
<1>13. FoundState'
  BY <1>2, <1>10 DEF Inv, FoundState
<1>14. TodoState'
  BY <1>2 DEF Inv, TodoState, IsPrimitive
<1>15. CompareState'
  BY <1>2, <1>9 DEF Inv, CompareState, IsPrimitive
<1>16. BuilderLocks' /\ ReaderLocks' /\ LockHeld'
  BY <1>1, <1>2, <1>10, LocksFrame
<1>17. BuiltOrConsumed'
  BY <1>2, <1>10 DEF Inv, BuiltOrConsumed
<1>18. PortKinds'
  BY <1>2 DEF Inv, PortKinds, Principal
<1>19. Filled'
  BY <1>2, <1>10 DEF Inv, Filled
<1>20. ArgsCounted'
  BY <1>2, <1>9, ArgsFrame DEF Inv
<1>21. ExposedState'
  <2>1. ASSUME NEW z \in exposed', ~IsPrimitive(z[1])
        PROVE  Unclaimed(z[1])'
    <3>1. z \in exposed /\ z[1] \notin {x[1], y[1]}
      BY <1>2, <1>5, <2>1
    <3>2. \A m \in Nodes \ {x[1], y[1]} : Unclaimed(m) => Unclaimed(m)'
      BY <1>9
    <3>3. Unclaimed(z[1]) /\ z[1] \in Nodes
      BY <2>1, <3>1, ExposedFacts DEF Inv, ExposedState
    <3>4. PICK m \in Nodes : m = z[1]
      BY <3>3
    <3>5. Unclaimed(m)'
      BY <3>1, <3>2, <3>3, <3>4
    <3> QED
      BY <3>4, <3>5 DEF Unclaimed
  <2> QED
    BY <1>2, <2>1, ExposedFacts DEF Inv, ExposedState, IsPrimitive, Principal, Unclaimed
<1>22. Fresh'
  <2>1. ASSUME NEW m \in Nodes, Unclaimed(m), ~Exposes(m)
        PROVE  Unclaimed(m)' /\ ~Exposes(m)'
    <3>1. m \notin {x[1], y[1]}
      BY <2>1 DEF Exposes
    <3>2. ~Exposes(m)'
      BY <1>2, <2>1 DEF Exposes
    <3> QED
      BY <1>9, <2>1, <3>1, <3>2
  <2>2. ASSUME NEW v \in Workers, NEW m, m = node[v],
               Building(v), ~IsPrimitive(m), NEW p \in Principal(m),
               p >= given[v] \/ (pc[v] # "output" /\ p < index[v])
        PROVE  Unclaimed(m)' /\ ~Exposes(m)'
    <3>1. Unclaimed(m) /\ ~Exposes(m) /\ m \in Nodes
      BY <2>2, BuildFacts DEF Inv, Fresh
    <3> QED
      BY <2>1, <3>1
  <2> QED
    BY <1>2, <1>10, <2>2 DEF Fresh, IsPrimitive, Principal, Unclaimed, Exposes
<1>23. GoodTasks'
  <2>1. \A u \in queue' : u \in queue \/ u = t
    BY <1>3
  <2> QED
    BY <1>2, <1>7, <2>1, GoodFrame DEF Inv
<1> QED
  BY <1>1, <1>8, <1>11, <1>12, <1>13, <1>14, <1>15, <1>16, <1>17, <1>18, <1>19,
     <1>20, <1>21, <1>22, <1>23 DEF Inv

\* A primitive that still waits for an argument is in no task.
LEMMA CollectUnclaimed ==
  ASSUME Inv, NEW n \in Nodes, IsPrimitive(n), NEW i \in Principal(n), port[n][i] # "argument"
  PROVE  Unclaimed(n)
BY AllArguments DEF Inv, ArgsCounted

\* collect_primitive_arg, wherever it is called from.
LEMMA CollectInv ==
  ASSUME Inv, TypeOK', NEW w \in Workers, Others(w),
         NEW n \in Nodes, IsPrimitive(n), NEW i \in Principal(n), port[n][i] # "argument",
         pc[w] \in {"run", "input", "outputs"}, collect_primitive_arg(w, n, i),
         UNCHANGED <<ctor, locked, free, queue, built, given, found, todo>>,
         exposed' \subseteq exposed, <<n, i>> \notin exposed',
         pc[w] = "input" => node[w] = n /\ i < given[w] /\ index[w] = i + 1 /\ index'[w] = i,
         pc[w] = "outputs" => index'[w] <= index[w]
  PROVE  Inv'
<1>1. TypeOK /\ TypeOK' /\ Others(w)
  BY DEF Inv
<1>2. /\ ctor[n] \in Ctors /\ n \notin free /\ i \in Nat /\ i \in Indices
      /\ IsFiniteSet(Principal(n))
  BY CtorFacts, CtorAssumption DEF IsPrimitive, Principal, Inv, FreeIsClean
<1>3. /\ pc'[w] = "compare" /\ back'[w] = pc[w] /\ node'[w] = n
      /\ number'[w] = arg_count[n] + 1 /\ arg_count'[n] = arg_count[n] + 1
      /\ \A m \in Nodes \ {n} : arg_count'[m] = arg_count[m]
      /\ port'[n][i] = "argument"
      /\ \A m \in Nodes, j \in Indices : m # n \/ j # i => port'[m][j] = port[m][j]
  BY <1>1, <1>2, CollectFacts
<1>4. \A m \in Nodes \ {n} : port'[m] = port[m]
  BY <1>1, <1>2 DEF collect_primitive_arg, TypeOK
<1>5. Unclaimed(n) /\ \A m \in Nodes : Unclaimed(m)' <=> Unclaimed(m)
  BY CollectUnclaimed DEF Unclaimed
<1>6. \A v \in Workers \ {w} : /\ pc[v] = "off" /\ ~Building(v)
                               /\ found[v] = <<>> /\ todo[v] = <<>>
  BY AloneFacts
<1>7. \A v \in Workers \ {w} : /\ pc'[v] = "off" /\ ~Building(v)' /\ ~Building(v)
                               /\ found'[v] = <<>> /\ todo'[v] = <<>>
  BY <1>1, <1>6, OthersBuild DEF Others
<1>8. /\ Building(w) <=> pc[w] = "input"
      /\ Building(w)' <=> pc[w] = "input"
      /\ Building(w) => node[w] = n
  BY <1>3 DEF Building
<1>9. found[w] = <<>>
  BY <1>5, <1>8 DEF Inv, FoundState, Unclaimed
<1>10. \A m \in Nodes \ free : \A j \in 0 .. arity[ctor[m]] - 1 : j \in Indices
  BY CtorFacts DEF Inv, FreeIsClean, TypeOK
<1>11. ~Aborted'
  BY <1>3, <1>7 DEF Aborted
<1>12. PrimitivesAlone'
  BY <1>7 DEF PrimitivesAlone
<1>13. FreeIsClean'
  BY <1>2, <1>3, <1>4 DEF Inv, FreeIsClean
<1>14. BuildState'
  <2>1. ASSUME NEW v \in Workers, Building(v)' \/ pc'[v] = "lock"
        PROVE  v = w /\ pc[w] = "input" /\ Building(w)
    BY <1>3, <1>7, <1>8, <2>1
  <2>2. ASSUME Building(w)', pc[w] = "input", Building(w)
        PROVE  /\ node'[w] \in Nodes \ free' /\ given'[w] = input_arity[ctor'[node'[w]]]
               /\ index'[w] <= given'[w] /\ pc'[w] = "compare"
    <3>1. node[w] = n /\ given[w] = input_arity[ctor[n]]
      BY <1>8, <2>2 DEF Inv, BuildState
    <3>2. index'[w] = i /\ i < given[w] /\ given[w] \in Nat
      BY <1>1, <2>2 DEF TypeOK
    <3>3. index'[w] <= given[w]
      BY ONLY <1>2, <3>2
    <3> QED
      BY <1>2, <1>3, <3>1, <3>3
  <2> QED
    BY <1>3, <2>1, <2>2 DEF BuildState
<1>15. OneBuilder'
  BY <1>7 DEF OneBuilder
<1>16. FoundState'
  BY <1>7, <1>9 DEF FoundState
<1>17. TodoState'
  <2>1. pc[w] = "outputs" => todo[w] # <<>> /\ index[w] <= arity[ctor[todo[w][1]]]
    BY DEF Inv, TodoState
  <2>2. pc[w] = "outputs" => todo[w] # <<>> /\ index'[w] <= arity[ctor[todo[w][1]]]
    <3>1. todo[w] # <<>> => arity[ctor[todo[w][1]]] \in Nat
      BY TodoFacts, CtorFacts
    <3> QED
      BY <1>1, <2>1, <3>1 DEF TypeOK
  <2>3. todo[w] # <<>> => Len(todo[w]) = 1 /\ IsPrimitive(todo[w][1])
    BY DEF Inv, TodoState
  <2> QED
    BY <1>3, <1>7, <2>2, <2>3 DEF TodoState, IsPrimitive
<1>18. CompareState'
  BY <1>3, <1>5, <1>7 DEF CompareState, IsPrimitive, Unclaimed
<1>19. BuilderLocks' /\ ReaderLocks'
  BY <1>3, <1>7, <1>8 DEF Inv, BuilderLocks, ReaderLocks
<1>20. LockHeld'
  <2>1. \A m \in Nodes : Holds(w, m) => Holds(w, m)'
    BY <1>3, <1>8 DEF Holds
  <2> QED
    BY <2>1, LockFrame
<1>21. BuiltOrConsumed'
  BY <1>3, <1>7 DEF BuiltOrConsumed
<1>22. PortKinds'
  BY <1>2, <1>3, <1>10 DEF Inv, PortKinds, Principal
<1>23. Filled'
  <2>1. ASSUME pc[w] = "input", NEW j \in 0 .. given[w] - 1
        PROVE  port'[n][j] = "empty" <=> j < i
    <3>1. port[n][j] = "empty" <=> j < i + 1
      BY <1>8, <2>1 DEF Inv, Filled
    <3>2. j \in 0 .. arity[ctor[n]] - 1
      <4>1. given[w] = input_arity[ctor[n]]
        BY <1>8, <2>1, BuildFacts
      <4> QED
        BY <1>2, <2>1, <4>1, CtorFacts
    <3>3. j # i => port'[n][j] = port[n][j]
      BY <1>2, <1>3, <1>10, <3>2
    <3> QED
      BY <1>2, <1>3, <2>1, <3>1, <3>3
  <2>2. ASSUME NEW v \in Workers, Building(v)'
        PROVE  IF pc'[v] = "output"
               THEN \A j \in 0 .. index'[v] - 1 : port'[node'[v]][j] # "empty"
               ELSE \A j \in 0 .. given'[v] - 1 : port'[node'[v]][j] = "empty" <=> j < index'[v]
    BY <1>3, <1>7, <1>8, <2>1, <2>2
  <2>3. ASSUME NEW m \in Nodes \ free', \A v \in Workers : Building(v)' => node'[v] # m,
               NEW j \in 0 .. arity[ctor'[m]] - 1
        PROVE  port'[m][j] # "empty"
    <3>1. \A v \in Workers : Building(v) => node[v] # m
      BY <1>3, <1>7, <1>8, <2>3
    <3>2. port[m][j] # "empty"
      BY <2>3, <3>1 DEF Inv, Filled
    <3>3. (m = n /\ j = i) \/ port'[m][j] = port[m][j]
      BY <1>3, <1>10, <2>3
    <3> QED
      BY <1>3, <3>2, <3>3
  <2> QED
    BY <2>2, <2>3 DEF Filled
<1>24. ArgsCounted'
  <2> DEFINE A == {j \in Principal(n) : port[n][j] = "argument"}
             B == {j \in Principal(n) : port'[n][j] = "argument"}
  <2>1. arg_count[n] = Cardinality(A)
    BY DEF Inv, ArgsCounted
  <2>2. \A j \in Principal(n) : j \in Indices
    BY <1>2, CtorFacts DEF Principal
  <2>3. B = A \union {i} /\ i \notin A
    BY <1>3, <2>2
  <2>4. IsFiniteSet(A)
    BY <1>2, FS_Subset
  <2>5. Cardinality(B) = Cardinality(A) + 1
    BY ONLY <2>3, <2>4, FS_AddElement
  <2>6. arg_count'[n] = Cardinality(B)
    BY <1>3, <2>1, <2>5
  <2>7. /\ arg_count'[n] = Cardinality({j \in Principal(n)' : port'[n][j] = "argument"})
        /\ Unclaimed(n)'
    BY <1>5, <2>6 DEF Principal
  <2>8. ASSUME NEW m \in Nodes, m # n, IsPrimitive(m)'
        PROVE  /\ arg_count'[m] = Cardinality({j \in Principal(m)' : port'[m][j] = "argument"})
               /\ ~Unclaimed(m)' => arg_count'[m] = Cardinality(Principal(m)')
    <3>1. IsPrimitive(m) /\ (Unclaimed(m)' <=> Unclaimed(m))
      BY <1>5, <2>8 DEF IsPrimitive
    <3>2. port'[m] = port[m] /\ arg_count'[m] = arg_count[m]
      BY <1>3, <1>4, <2>8
    <3> QED
      BY <3>1, <3>2 DEF Inv, ArgsCounted, Principal
  <2> QED
    BY <2>7, <2>8 DEF ArgsCounted
<1>25. ExposedState'
  <2>1. ASSUME NEW x \in exposed'
        PROVE  port'[x[1]][x[2]] = port[x[1]][x[2]]
    <3>1. x[1] \in Nodes /\ x[2] \in Indices /\ x = <<x[1], x[2]>> /\ x # <<n, i>>
      BY <2>1, ExposedFacts
    <3> QED
      BY <1>3, <3>1
  <2> QED
    BY <1>5, <2>1, ExposedFacts DEF Inv, ExposedState, IsPrimitive, Principal, Unclaimed
<1>26. Fresh'
  BY <1>3, <1>7 DEF Fresh, IsPrimitive
<1>27. GoodTasks'
  BY DEF Inv, GoodTasks, GoodTask, IsPrimitive
<1>28. ClaimedOnce'
  BY DEF Inv, ClaimedOnce
<1> QED
  BY <1>1, <1>11, <1>12, <1>13, <1>14, <1>15, <1>16, <1>17, <1>18, <1>19, <1>20,
     <1>21, <1>22, <1>23, <1>24, <1>25, <1>26, <1>27, <1>28 DEF Inv

\* ConnectArgument.
LEMMA ArgumentInv ==
  ASSUME Inv, NEW w \in Workers, NEW x \in exposed, ConnectArgument(w, x)
  PROVE  Inv'
<1>1. TypeOK' /\ Others(w)
  BY ArgumentTypes
<1>2. PICK n \in Nodes, i \in Indices :
        /\ x = <<n, i>> /\ x[1] = n /\ x[2] = i
          /\ i \in Principal(n) /\ port[n][i] = "principal"
  BY ExposedFacts
<1>3. /\ pc[w] = "run" /\ IsPrimitive(n) /\ exposed' = exposed \ {x}
      /\ collect_primitive_arg(w, n, i)
      /\ UNCHANGED <<ctor, locked, free, queue, built, given, index, found, todo>>
  BY <1>2 DEF ConnectArgument
<1>4. exposed' \subseteq exposed /\ <<n, i>> \notin exposed' /\ port[n][i] # "argument"
  BY <1>2, <1>3
<1> QED
  BY <1>1, <1>2, <1>3, <1>4, CollectInv

\* worker_handle_task_primitive: the outputs of a primitive.
LEMMA OutputsInv ==
  ASSUME Inv, NEW w \in Workers, worker_handle_task_primitive(w)
  PROVE  Inv'
<1> DEFINE n == todo[w][1]
<1>1. TypeOK /\ TypeOK' /\ Others(w)
  BY OutputsTypes DEF Inv
<1>2. /\ pc[w] = "outputs" /\ index[w] \in Nat
      /\ UNCHANGED <<ctor, locked, free, queue, built, given, found, todo>>
      /\ \/ OutputsEnd(w, n)
         \/ OutputsPass(w, n) /\ index[w] - 1 \in Nat
         \/ (\E x \in exposed : OutputsGive(w, n, x)) /\ index[w] - 1 \in Nat
  BY OutputsCases
<1>3. /\ todo[w] # <<>> /\ n \in Nodes /\ ctor[n] \in Ctors /\ IsPrimitive(n)
      /\ index[w] <= arity[ctor[n]] /\ arity[ctor[n]] \in Nat
  BY <1>2, PrimitiveOutputs, CtorFacts
<1>4. \A v \in Workers \ {w} : pc[v] = "off" /\ ~Building(v)
  BY <1>2, <1>3, AloneFacts
<1>5. ASSUME OutputsEnd(w, n) \/ (OutputsPass(w, n) /\ index[w] - 1 \in Nat)
      PROVE  Inv'
  <2>1. /\ UNCHANGED <<ctor, port, locked, arg_count, free, exposed, queue, built,
                       node, given, number, back, found, todo>>
        /\ pc'[w] \in {"outputs", "retire"}
    BY <1>1, <1>2, <1>5 DEF OutputsEnd, OutputsPass, TypeOK
  <2>2. index'[w] <= arity[ctor[n]]
    BY <1>1, <1>2, <1>3, <1>5 DEF OutputsEnd, OutputsPass, TypeOK
  <2>3. ~Building(w) /\ ~Building(w)' /\ \A v \in Workers : ~Building(v)' /\ ~Building(v)
    BY <1>1, <1>2, <1>4, <2>1, OthersBuild DEF Building
  <2>4. ~Aborted'
    BY <1>1, <2>1 DEF Inv, Aborted, Others
  <2>5. PrimitivesAlone'
    BY <1>1, <1>2, <2>1, AloneFrame DEF Inv, Others
  <2>6. FreeIsClean' /\ PortKinds'
    BY <2>1 DEF Inv, FreeIsClean, PortKinds, Principal
  <2>7. BuildState'
    BY <1>1, <1>4, <2>1, <2>3 DEF BuildState, Others
  <2>8. OneBuilder' /\ BuiltOrConsumed' /\ Fresh'
    BY <2>3 DEF OneBuilder, BuiltOrConsumed, Fresh
  <2>9. FoundState'
    BY <1>1, <1>2, <2>1, <2>3 DEF Inv, FoundState, Others
  <2>10. TodoState'
    <3>1. Len(todo[w]) = 1 /\ IsPrimitive(n)
      BY <1>2, <1>3 DEF Inv, TodoState
    <3> QED
      BY <1>1, <1>3, <2>1, <2>2, <3>1 DEF Inv, TodoState, Others, IsPrimitive
  <2>11. CompareState'
    BY <1>1, <2>1 DEF Inv, CompareState, Others, IsPrimitive, Unclaimed
  <2>12. BuilderLocks' /\ ReaderLocks' /\ LockHeld'
    BY <1>1, <1>2, <2>1, <2>3, LocksFrame
  <2>13. Filled'
    BY <2>1, <2>3 DEF Inv, Filled
  <2>14. ArgsCounted'
    BY <2>1 DEF Inv, ArgsCounted, IsPrimitive, Principal, Unclaimed
  <2>15. ExposedState'
    BY <2>1 DEF Inv, ExposedState, IsPrimitive, Principal, Unclaimed
  <2>16. GoodTasks'
    BY <2>1 DEF Inv, GoodTasks, GoodTask, IsPrimitive
  <2>17. ClaimedOnce'
    BY <2>1 DEF Inv, ClaimedOnce
  <2> QED
    BY <1>1, <2>4, <2>5, <2>6, <2>7, <2>8, <2>9, <2>10, <2>11, <2>12, <2>13, <2>14,
       <2>15, <2>16, <2>17 DEF Inv
<1>6. ASSUME NEW x \in exposed, OutputsGive(w, n, x), index[w] - 1 \in Nat
      PROVE  Inv'
  <2>1. PICK m \in Nodes, i \in Indices :
          /\ x = <<m, i>> /\ x[1] = m /\ x[2] = i
          /\ i \in Principal(m) /\ port[m][i] = "principal"
    BY ExposedFacts
  <2>2. /\ IsPrimitive(m) /\ exposed' = exposed \ {x} /\ collect_primitive_arg(w, m, i)
    BY <1>6, <2>1 DEF OutputsGive
  <2>3. exposed' \subseteq exposed /\ <<m, i>> \notin exposed' /\ port[m][i] # "argument"
    BY <2>1, <2>2
  <2>4. index'[w] <= index[w]
    BY <1>1, <1>2, <1>6 DEF OutputsGive, TypeOK
  <2> QED
    BY <1>1, <1>2, <2>1, <2>2, <2>3, <2>4, CollectInv
<1> QED
  BY <1>2, <1>5, <1>6

\* What a round over the inputs does to the invariant whatever the port is for,
\* when no argument is collected: one more port of the node is filled.
LEMMA InputFrame ==
  ASSUME Inv, TypeOK', NEW w \in Workers, Others(w), pc[w] = "input",
         NEW n \in Nodes, n = node[w], NEW i \in Nat, i \in Indices, i < given[w],
         index[w] = i + 1, index' = [index EXCEPT ![w] = i],
         port' = [port EXCEPT ![n][i] = IF i \in Principal(n) THEN "principal" ELSE "wire"],
         UNCHANGED <<ctor, locked, arg_count, free, built, pc, node, given, number, back, todo>>,
         \A m \in Nodes : IsPrimitive(m) => (Unclaimed(m)' <=> Unclaimed(m))
  PROVE  /\ ~Aborted' /\ PrimitivesAlone' /\ FreeIsClean' /\ BuildState' /\ OneBuilder'
         /\ TodoState' /\ CompareState' /\ BuilderLocks' /\ ReaderLocks' /\ LockHeld'
         /\ BuiltOrConsumed' /\ PortKinds' /\ Filled' /\ ArgsCounted'
<1>1. TypeOK /\ Building(w) /\ \A v \in Workers : Building(v)' <=> Building(v)
  BY DEF Inv, Building
<1>2. /\ n \notin free /\ ctor[n] \in Ctors /\ given[w] = input_arity[ctor[n]]
      /\ given[w] \in Nat
  BY <1>1, BuildFacts DEF TypeOK
<1>3. /\ input_arity[ctor[n]] <= arity[ctor[n]] /\ arity[ctor[n]] \in Nat
      /\ \A j \in 0 .. arity[ctor[n]] - 1 : j \in Indices
  BY <1>2, CtorFacts
<1>4. index'[w] = i /\ \A v \in Workers \ {w} : index'[v] = index[v]
  BY <1>1 DEF TypeOK
<1>5. /\ port'[n][i] = IF i \in Principal(n) THEN "principal" ELSE "wire"
      /\ \A m \in Nodes, j \in Indices : m # n \/ j # i => port'[m][j] = port[m][j]
      /\ \A m \in Nodes \ {n} : port'[m] = port[m]
  <2>1. port \in [Nodes -> [Indices -> {"empty", "principal", "wire", "argument"}]]
    BY <1>1 DEF TypeOK
  <2> QED
    BY <2>1
<1>6. \A m \in Nodes \ free : \A j \in 0 .. arity[ctor[m]] - 1 : j \in Indices
  BY CtorFacts DEF Inv, FreeIsClean, TypeOK
<1>7. port[n][i] = "empty"
  <2>1. i \in 0 .. given[w] - 1
    BY <1>2
  <2> QED
    BY <1>1, <2>1 DEF Inv, Filled
<1>8. ~Aborted' /\ OneBuilder' /\ BuilderLocks' /\ ReaderLocks' /\ BuiltOrConsumed'
  BY <1>1 DEF Inv, Aborted, OneBuilder, BuilderLocks, ReaderLocks, BuiltOrConsumed
<1>9. PrimitivesAlone'
  BY AloneFrame DEF Inv
<1>10. FreeIsClean'
  BY <1>2, <1>5 DEF Inv, FreeIsClean, TypeOK
<1>11. BuildState'
  BY <1>1, <1>2, <1>4 DEF Inv, BuildState
<1>12. TodoState'
  BY <1>4 DEF Inv, TodoState, IsPrimitive
<1>13. CompareState'
  <2>1. ASSUME NEW v \in Workers, pc[v] = "compare", NEW m, m = node[v]
        PROVE  m \in Nodes /\ IsPrimitive(m) /\ Unclaimed(m)' /\ number[v] = arg_count[m]
    BY <2>1 DEF Inv, CompareState
  <2> QED
    BY <2>1 DEF CompareState, IsPrimitive, Unclaimed
<1>14. LockHeld'
  BY <1>1, LockFrame DEF Holds
<1>15. PortKinds'
  BY <1>5, <1>6 DEF Inv, PortKinds, Principal
<1>16. Filled'
  <2>1. ASSUME NEW j \in 0 .. given[w] - 1
        PROVE  port'[n][j] = "empty" <=> j < i
    <3>1. port[n][j] = "empty" <=> j < i + 1
      BY <1>1 DEF Inv, Filled
    <3>2. j \in Indices
      BY <1>2, <1>3
    <3> QED
      BY <1>2, <1>5, <3>1, <3>2
  <2>2. ASSUME NEW v \in Workers \ {w}, Building(v)
        PROVE  port'[node[v]] = port[node[v]]
    BY <1>1, <1>5, <2>2, BuildFacts DEF Inv, OneBuilder
  <2>3. ASSUME NEW v \in Workers, Building(v)'
        PROVE  IF pc'[v] = "output"
               THEN \A j \in 0 .. index'[v] - 1 : port'[node'[v]][j] # "empty"
               ELSE \A j \in 0 .. given'[v] - 1 : port'[node'[v]][j] = "empty" <=> j < index'[v]
    <3>1. CASE v = w
      BY <1>4, <2>1, <3>1
    <3>2. CASE v # w
      BY <1>1, <1>4, <2>2, <2>3, <3>2 DEF Inv, Filled
    <3> QED
      BY <3>1, <3>2
  <2>4. ASSUME NEW m \in Nodes \ free', \A v \in Workers : Building(v)' => node'[v] # m
        PROVE  \A j \in 0 .. arity[ctor'[m]] - 1 : port'[m][j] # "empty"
    BY <1>1, <1>5, <2>4 DEF Inv, Filled
  <2> QED
    BY <2>3, <2>4 DEF Filled
<1>17. ArgsCounted'
  <2>1. ASSUME NEW m \in Nodes, IsPrimitive(m), NEW j \in Principal(m)
        PROVE  port'[m][j] = "argument" <=> port[m][j] = "argument"
    <3>1. j \in Indices
      BY <2>1, CtorFacts, CtorAssumption DEF IsPrimitive, Principal
    <3> QED
      BY <1>5, <1>7, <3>1
  <2> QED
    BY <2>1, ArgsFrame DEF Inv
<1> QED
  BY <1>8, <1>9, <1>10, <1>11, <1>12, <1>13, <1>14, <1>15, <1>16, <1>17

\* A node that is built is fresh until its principal port is connected: the
\* builders other than w build other nodes.
LEMMA FreshFrame ==
  ASSUME Inv, NEW w \in Workers, Others(w), NEW n \in Nodes, Building(w), n = node[w],
         UNCHANGED <<ctor, pc, node, given, back>>,
         \A m \in Nodes \ {n} : Unclaimed(m) /\ ~Exposes(m) => Unclaimed(m)' /\ ~Exposes(m)',
         ~IsPrimitive(n) =>
           \A p \in Principal(n) :
             p >= given[w] \/ (pc[w] # "output" /\ p < index'[w]) => Unclaimed(n)' /\ ~Exposes(n)'
  PROVE  Fresh'
<1>1. ASSUME NEW v \in Workers, Building(v)', NEW m, m = node[v], ~IsPrimitive(m),
             NEW p \in Principal(m), p >= given[v] \/ (pc[v] # "output" /\ p < index'[v])
      PROVE  Unclaimed(m)' /\ ~Exposes(m)'
  <2>1. CASE v = w
    BY <1>1, <2>1
  <2>2. CASE v # w
    <3>1. Building(v) /\ index'[v] = index[v]
      BY <1>1, <2>2 DEF Building, Others
    <3>2. m \in Nodes /\ m # n
      BY <1>1, <2>2, <3>1, BuildFacts DEF Inv, OneBuilder
    <3>3. Unclaimed(m) /\ ~Exposes(m)
      BY <1>1, <3>1 DEF Inv, Fresh
    <3> QED
      BY <3>2, <3>3
  <2> QED
    BY <2>1, <2>2
<1> QED
  BY <1>1 DEF Fresh, IsPrimitive, Principal, Unclaimed, Exposes

\* A round over the inputs.
LEMMA InputInv ==
  ASSUME Inv, NEW w \in Workers, reconnect_input(w)
  PROVE  Inv'
<1>1. TypeOK /\ TypeOK' /\ Others(w)
  BY InputTypes DEF Inv
<1>2. PICK n, i : n = node[w] /\ i = index[w] - 1
  OBVIOUS
<1>3. /\ pc[w] = "input" /\ Building(w) /\ n \in Nodes /\ i \in Nat /\ i < given[w]
      /\ index[w] = i + 1 /\ i \in Indices /\ i \in 0 .. arity[ctor[n]] - 1
      /\ index' = [index EXCEPT ![w] = i]
      /\ UNCHANGED <<ctor, locked, free, queue, built, given, todo>>
      /\ \/ InputOpen(w, n, i)
         \/ \E x \in exposed : \E t \in {<<>>, <<n, x[1]>>, <<x[1], n>>} :
              InputMeets(w, n, i, x, t)
         \/ InputArgument(w, n, i)
         \/ InputWire(w, n, i)
  <2> DEFINE k == node[w]
             j == index[w] - 1
  <2>1. /\ pc[w] = "input" /\ Building(w) /\ k \in Nodes /\ j \in Nat /\ j < given[w]
        /\ index[w] = j + 1 /\ j \in Indices /\ j \in 0 .. arity[ctor[k]] - 1
        /\ index' = [index EXCEPT ![w] = j]
        /\ UNCHANGED <<ctor, locked, free, queue, built, given, todo>>
        /\ \/ InputOpen(w, k, j)
           \/ \E x \in exposed : \E t \in {<<>>, <<k, x[1]>>, <<x[1], k>>} :
                InputMeets(w, k, j, x, t)
           \/ InputArgument(w, k, j)
           \/ InputWire(w, k, j)
    BY InputCases
  <2> HIDE DEF k, j
  <2>2. n = k /\ i = j
    BY <1>2 DEF k, j
  <2> QED
    BY ONLY <2>1, <2>2
<1>4. /\ n \notin free /\ ctor[n] \in Ctors /\ index'[w] = i
  BY <1>1, <1>2, <1>3, BuildFacts DEF TypeOK
<1>5. port[n][i] = "empty" /\ <<n, i>> \notin exposed
  <2>1. i \in 0 .. given[w] - 1
    BY <1>1, <1>3 DEF TypeOK
  <2>2. port[n][i] = "empty"
    <3>1. \A j \in 0 .. given[w] - 1 : port[n][j] = "empty" <=> j < index[w]
      BY <1>2, <1>3 DEF Inv, Filled
    <3>2. i < index[w]
      BY <1>3
    <3> QED
      BY <2>1, <3>1, <3>2
  <2>3. <<n, i>>[1] = n /\ <<n, i>>[2] = i
    OBVIOUS
  <2> QED
    BY <2>2, <2>3, ExposedFacts
<1>6. i \in Principal(n) /\ ~IsPrimitive(n) => Unclaimed(n) /\ ~Exposes(n) /\ Principal(n) = {i}
  <2>1. SUFFICES ASSUME i \in Principal(n), ~IsPrimitive(n)
                 PROVE  Unclaimed(n) /\ ~Exposes(n) /\ Principal(n) = {i}
    OBVIOUS
  <2>2. Unclaimed(n) /\ ~Exposes(n)
    <3>1. pc[w] # "output" /\ i < index[w]
      BY <1>3
    <3> QED
      BY <1>2, <1>3, <2>1, <3>1 DEF Inv, Fresh
  <2>3. Principal(n) = {i}
    BY <1>4, <2>1, CtorFacts DEF Principal, IsPrimitive
  <2> QED
    BY <2>2, <2>3
<1>7. \A m \in Nodes, j \in Indices : (m # n \/ j # i) /\
        port' = [port EXCEPT ![n][i] = IF i \in Principal(n) THEN "principal" ELSE "wire"] =>
          port'[m][j] = port[m][j]
  BY <1>1, <1>3 DEF TypeOK
<1>8. port' = [port EXCEPT ![n][i] = IF i \in Principal(n) THEN "principal" ELSE "wire"] =>
        (i \in Principal(n) => port'[n][i] = "principal")
  BY <1>1, <1>3 DEF TypeOK
<1>9. CASE InputOpen(w, n, i)
  <2>1. /\ i \in Principal(n) /\ exposed' = exposed \union {<<n, i>>}
        /\ port' = [port EXCEPT ![n][i] = IF i \in Principal(n) THEN "principal" ELSE "wire"]
        /\ UNCHANGED <<arg_count, pc, node, number, back, found>>
    BY <1>9 DEF InputOpen
  <2>2. \A m : Unclaimed(m)' <=> Unclaimed(m)
    BY <1>3, <2>1 DEF Unclaimed
  <2>3. /\ ~Aborted' /\ PrimitivesAlone' /\ FreeIsClean' /\ BuildState' /\ OneBuilder'
        /\ TodoState' /\ CompareState' /\ BuilderLocks' /\ ReaderLocks' /\ LockHeld'
        /\ BuiltOrConsumed' /\ PortKinds' /\ Filled' /\ ArgsCounted'
    BY <1>1, <1>2, <1>3, <2>1, <2>2, InputFrame
  <2>4. FoundState'
    BY <2>1 DEF Inv, FoundState, Building
  <2>5. ExposedState'
    <3>1. \A x \in exposed : port'[x[1]][x[2]] = port[x[1]][x[2]]
      <4>1. ASSUME NEW x \in exposed
            PROVE  x[1] \in Nodes /\ x[2] \in Indices /\ (x[1] # n \/ x[2] # i)
        BY <1>5, ExposedFacts
      <4> QED
        BY <1>7, <2>1, <4>1
    <3>2. \A x \in exposed' : x \in exposed \/ (x[1] = n /\ x[2] = i)
      BY <2>1
    <3>3. port'[n][i] = "principal"
      BY <1>8, <2>1
    <3> QED
      BY <1>3, <1>4, <1>6, <2>1, <2>2, <3>1, <3>2, <3>3
         DEF Inv, ExposedState, IsPrimitive, Principal, Unclaimed
  <2>6. Fresh'
    <3>1. \A m \in Nodes \ {n} : Exposes(m)' <=> Exposes(m)
      BY <2>1 DEF Exposes
    <3>2. ~IsPrimitive(n) =>
            \A p \in Principal(n) : ~(p >= given[w] \/ (pc[w] # "output" /\ p < index'[w]))
      BY <1>1, <1>3, <1>4, <1>6, <2>1 DEF TypeOK
    <3> QED
      BY <1>1, <1>2, <1>3, <2>1, <2>2, <3>1, <3>2, FreshFrame
  <2>7. GoodTasks' /\ ClaimedOnce'
    BY <1>3, <2>1 DEF Inv, GoodTasks, GoodTask, IsPrimitive, ClaimedOnce
  <2> QED
    BY <1>1, <2>3, <2>4, <2>5, <2>6, <2>7 DEF Inv
<1>10. CASE InputWire(w, n, i)
  <2>1. /\ i \notin Principal(n)
        /\ port' = [port EXCEPT ![n][i] = IF i \in Principal(n) THEN "principal" ELSE "wire"]
        /\ UNCHANGED <<arg_count, exposed, pc, node, number, back, found>>
    BY <1>10 DEF InputWire
  <2>2. \A m : (Unclaimed(m)' <=> Unclaimed(m)) /\ (Exposes(m)' <=> Exposes(m))
    BY <1>3, <2>1 DEF Unclaimed, Exposes
  <2>3. /\ ~Aborted' /\ PrimitivesAlone' /\ FreeIsClean' /\ BuildState' /\ OneBuilder'
        /\ TodoState' /\ CompareState' /\ BuilderLocks' /\ ReaderLocks' /\ LockHeld'
        /\ BuiltOrConsumed' /\ PortKinds' /\ Filled' /\ ArgsCounted'
    BY <1>1, <1>2, <1>3, <2>1, <2>2, InputFrame
  <2>4. FoundState'
    BY <2>1 DEF Inv, FoundState, Building
  <2>5. ExposedState'
    <3>1. ASSUME NEW x \in exposed
          PROVE  port'[x[1]][x[2]] = port[x[1]][x[2]]
      <4>1. x[1] \in Nodes /\ x[2] \in Indices /\ (x[1] # n \/ x[2] # i)
        BY <1>5, ExposedFacts
      <4> QED
        BY <1>7, <2>1, <4>1
    <3> QED
      BY <1>3, <2>1, <2>2, <3>1 DEF Inv, ExposedState, IsPrimitive, Principal, Unclaimed
  <2>6. Fresh'
    <3>1. ~IsPrimitive(n) =>
            \A p \in Principal(n) :
              p >= given[w] \/ (pc[w] # "output" /\ p < index'[w]) => Unclaimed(n)' /\ ~Exposes(n)'
      <4>1. ASSUME ~IsPrimitive(n), NEW p \in Principal(n),
                   p >= given[w] \/ (pc[w] # "output" /\ p < index'[w])
            PROVE  Unclaimed(n) /\ ~Exposes(n)
        <5>1. p \in Nat
          BY <1>4, <4>1, CtorFacts DEF Principal
        <5>2. p >= given[w] \/ (pc[w] # "output" /\ p < index[w])
          BY <1>3, <1>4, <4>1, <5>1
        <5> QED
          BY <1>2, <1>3, <4>1, <5>2 DEF Inv, Fresh
      <4> QED
        BY <2>2, <4>1
    <3> QED
      BY <1>1, <1>2, <1>3, <2>1, <2>2, <3>1, FreshFrame
  <2>7. GoodTasks' /\ ClaimedOnce'
    BY <1>3, <2>1 DEF Inv, GoodTasks, GoodTask, IsPrimitive, ClaimedOnce
  <2> QED
    BY <1>1, <2>3, <2>4, <2>5, <2>6, <2>7 DEF Inv
<1>11. CASE InputArgument(w, n, i)
  <2>1. /\ i \in Principal(n) /\ IsPrimitive(n) /\ collect_primitive_arg(w, n, i)
        /\ exposed' = exposed /\ found' = found
    BY <1>11 DEF InputArgument
  <2> QED
    BY <1>1, <1>2, <1>3, <1>4, <1>5, <2>1, CollectInv
<1>12. ASSUME NEW x \in exposed, NEW t \in {<<>>, <<n, x[1]>>, <<x[1], n>>},
              InputMeets(w, n, i, x, t)
       PROVE  Inv'
  <2>1. /\ i \in Principal(n) /\ ~IsPrimitive(n) /\ ~IsPrimitive(x[1])
        /\ exposed' = exposed \ {x}
        /\ port' = [port EXCEPT ![n][i] = IF i \in Principal(n) THEN "principal" ELSE "wire"]
        /\ UNCHANGED <<arg_count, node, number, back>>
    BY <1>12 DEF InputMeets
  <2>2. PICK m \in Nodes : m = x[1]
    BY ExposedFacts
  <2>3. Unclaimed(n) /\ ~Exposes(n) /\ Unclaimed(m) /\ m # n /\ m \notin free
    BY <1>6, <2>1, <2>2, ExposedFacts DEF Inv, ExposedState, Exposes
  <2>4. found[w] = <<>>
    BY <1>2, <1>3, <2>3 DEF Inv, FoundState, Unclaimed
  <2>5. /\ pc' = pc /\ found' = [found EXCEPT ![w] = t]
    <3>1. CASE t = <<>> /\ UNCHANGED <<pc, found>>
      BY <1>1, <2>4, <3>1 DEF TypeOK
    <3>2. CASE KeepTask(w, t)
      BY <1>1, <1>3, <2>4, <3>2 DEF KeepTask, Goto, TypeOK
    <3> QED
      BY <1>12, <3>1, <3>2 DEF InputMeets
  <2>6. /\ t \in TaskSet /\ GoodTask(t)
        /\ \A k \in Nodes : Names(t, k) => k \in {m, n}
        /\ t # <<>> => Names(t, n)
    <3>1. CASE t = <<>>
      BY <3>1, TaskShape, TaskMade DEF GoodTask
    <3>2. ASSUME NEW a \in {m, n}, NEW b \in {m, n}, a # b, t = <<a, b>>
          PROVE  /\ t \in TaskSet /\ GoodTask(t)
                 /\ \A k \in Nodes : Names(t, k) => k \in {m, n}
                 /\ Names(t, n)
      <4>1. Len(t) = 2 /\ t[1] = a /\ t[2] = b
        BY <3>2
      <4>2. t \in TaskSet /\ \A k : Names(t, k) <=> k = a \/ k = b
        BY <1>3, <3>2, TaskMade
      <4>3. ~IsPrimitive(a) /\ ~IsPrimitive(b)
        BY <2>1, <2>2
      <4> QED
        BY <1>4, <2>3, <3>2, <4>1, <4>2, <4>3 DEF GoodTask
    <3> QED
      BY <1>12, <2>2, <2>3, <3>1, <3>2
  <2>7. /\ ClaimedOnce'
        /\ \A k \in Nodes : Unclaimed(k)' <=> Unclaimed(k) /\ ~Names(t, k)
    <3>1. \A k \in Nodes : Names(t, k) => Unclaimed(k)
      BY <2>3, <2>6
    <3> QED
      BY <1>1, <1>3, <2>4, <2>5, <2>6, <3>1, ClaimFound DEF Inv
  <2>8. \A k \in Nodes \ {m, n} : Unclaimed(k)' <=> Unclaimed(k)
    BY <2>6, <2>7
  <2>9. /\ ~Aborted' /\ PrimitivesAlone' /\ FreeIsClean' /\ BuildState' /\ OneBuilder'
        /\ TodoState' /\ CompareState' /\ BuilderLocks' /\ ReaderLocks' /\ LockHeld'
        /\ BuiltOrConsumed' /\ PortKinds' /\ Filled' /\ ArgsCounted'
    <3>1. \A k \in Nodes : IsPrimitive(k) => (Unclaimed(k)' <=> Unclaimed(k))
      BY <2>1, <2>2, <2>8
    <3> QED
      BY <1>1, <1>2, <1>3, <2>1, <2>5, <3>1, InputFrame
  <2>10. FoundState'
    <3>1. found'[w] = t /\ \A v \in Workers \ {w} : found'[v] = found[v]
      BY <1>1, <2>5 DEF TypeOK
    <3> QED
      BY <1>2, <1>3, <2>1, <2>5, <2>6, <3>1 DEF Inv, FoundState, Building
  <2>11. ASSUME NEW z \in exposed, ~IsPrimitive(z[1]), z[1] = m
         PROVE  z = x
    <3>1. PICK p : is_principal[ctor[m]] = {p}
      BY <2>2, <2>11, ExposedFacts, CtorFacts DEF IsPrimitive
    <3>2. z[2] = p /\ x[2] = p
      BY <2>2, <2>11, <3>1, ExposedFacts DEF Principal
    <3> QED
      BY <2>2, <2>11, <3>2, ExposedFacts
  <2>12. ExposedState'
    <3>1. ASSUME NEW z \in exposed'
          PROVE  /\ z \in exposed /\ port'[z[1]][z[2]] = port[z[1]][z[2]]
                 /\ z[1] # n /\ (~IsPrimitive(z[1]) => z[1] # m)
      <4>1. z \in exposed /\ z # x
        BY <2>1
      <4>2. z[1] \in Nodes /\ z[2] \in Indices /\ z[1] # n
        BY <2>3, <4>1, ExposedFacts DEF Exposes
      <4> QED
        BY <1>7, <2>1, <2>11, <4>1, <4>2
    <3>2. ASSUME NEW z \in exposed', ~IsPrimitive(z[1]), NEW k, k = z[1]
          PROVE  Unclaimed(k)'
      <4>1. Unclaimed(k) /\ k \in Nodes \ {m, n}
        BY <3>1, <3>2, ExposedFacts DEF Inv, ExposedState
      <4> QED
        BY <2>8, <4>1
    <3> QED
      BY <1>3, <3>1, <3>2 DEF Inv, ExposedState, IsPrimitive, Principal, Unclaimed
  <2>13. Fresh'
    <3>1. ~IsPrimitive(n) =>
            \A p \in Principal(n) : ~(p >= given[w] \/ (pc[w] # "output" /\ p < index'[w]))
      BY <1>1, <1>3, <1>4, <1>6, <2>1 DEF TypeOK
    <3>2. ASSUME NEW k \in Nodes \ {n}, Unclaimed(k), ~Exposes(k)
          PROVE  Unclaimed(k)' /\ ~Exposes(k)'
      <4>1. k # m /\ ~Exposes(k)'
        BY <2>1, <2>2, <3>2 DEF Exposes
      <4> QED
        BY <2>8, <3>2, <4>1
    <3> QED
      BY <1>1, <1>2, <1>3, <2>1, <2>5, <3>1, <3>2, FreshFrame
  <2>14. GoodTasks'
    <3>1. \A v \in Workers : found'[v] = found[v] \/ found'[v] = t
      BY <1>1, <2>5 DEF TypeOK
    <3> QED
      BY <1>3, <2>6, <3>1, GoodFrame DEF Inv
  <2> QED
    BY <1>1, <2>7, <2>9, <2>10, <2>12, <2>13, <2>14 DEF Inv
<1> QED
  BY <1>3, <1>9, <1>10, <1>11, <1>12

----------------------------------------------------------------------------
(* The invariant. *)

\* At the start every node is free and no worker has one.
LEMMA InitInv == Init => Inv
<1> SUFFICES ASSUME Init PROVE Inv
  OBVIOUS
<1>1. /\ \A w \in Workers : /\ pc[w] \in {"run", "off"} /\ node[w] = Null /\ back[w] = "run"
                            /\ found[w] = <<>> /\ todo[w] = <<>> /\ ~Building(w)
      /\ exposed = {} /\ queue = {} /\ free = Nodes
      /\ \A n \in Nodes : /\ ctor[n] = Null /\ port[n] = NoPorts /\ ~locked[n]
                          /\ arg_count[n] = 0
  BY DEF Init, Building
<1>2. /\ Null \notin Primitives /\ \A n \in Nodes : ~IsPrimitive(n)
      /\ \A m : ~Names(<<>>, m)
  BY <1>1, CtorAssumption, TaskShape, TaskMade DEF IsPrimitive
<1>3. TypeOK
  <2>1. NoPorts \in [Indices -> {"empty", "principal", "wire", "argument"}]
    BY DEF NoPorts
  <2>2. built \in 0 .. MaxBuilt
    BY BoundAssumption DEF Init
  <2>3. pc \in [Workers -> Labels]
    BY DEF Init, Labels
  <2>4. /\ ctor \in [Nodes -> Ctors \union {Null}]
        /\ port \in [Nodes -> [Indices -> {"empty", "principal", "wire", "argument"}]]
        /\ locked \in [Nodes -> BOOLEAN] /\ arg_count \in [Nodes -> Nat]
        /\ node \in [Workers -> Nodes \union {Null}]
    BY <2>1 DEF Init
  <2>5. /\ given \in [Workers -> Nat] /\ index \in [Workers -> Nat]
        /\ number \in [Workers -> Nat]
        /\ back \in [Workers -> {"run", "input", "outputs"}]
        /\ found \in [Workers -> {<<>>} \union {<<n>> : n \in Nodes} \union (Nodes \X Nodes)]
        /\ todo \in [Workers -> {<<>>} \union {<<n>> : n \in Nodes} \union (Nodes \X Nodes)]
    BY DEF Init
  <2> QED
    BY <1>1, <2>2, <2>3, <2>4, <2>5 DEF TypeOK
<1>4. ~Aborted /\ PrimitivesAlone /\ FreeIsClean
  BY <1>1, <1>2 DEF Aborted, PrimitivesAlone, FreeIsClean
<1>5. BuildState /\ OneBuilder /\ FoundState
  BY <1>1 DEF BuildState, OneBuilder, FoundState
<1>6. TodoState
  BY <1>1 DEF TodoState
<1>7. CompareState
  BY <1>1 DEF CompareState
<1>8. BuilderLocks /\ ReaderLocks /\ LockHeld /\ BuiltOrConsumed
  BY <1>1 DEF BuilderLocks, ReaderLocks, LockHeld, BuiltOrConsumed
<1>9. PortKinds /\ Filled /\ ArgsCounted
  BY <1>1, <1>2 DEF PortKinds, Filled, ArgsCounted
<1>10. ExposedState /\ Fresh
  BY <1>1 DEF ExposedState, Fresh
<1>11. GoodTasks
  <2>1. Len(<<>>) = 0
    OBVIOUS
  <2> QED
    BY <1>1, <1>2, <2>1 DEF GoodTasks, GoodTask
<1>12. ClaimedOnce
  BY <1>1, <1>2 DEF ClaimedOnce
<1> QED
  BY <1>3, <1>4, <1>5, <1>6, <1>7, <1>8, <1>9, <1>10, <1>11, <1>12 DEF Inv

\* Nothing changes.
LEMMA StutterInv == Inv /\ UNCHANGED vars => Inv'
<1> SUFFICES ASSUME Inv, UNCHANGED vars PROVE Inv'
  OBVIOUS
<1>1. UNCHANGED <<ctor, port, locked, arg_count, free, exposed, queue, built,
                  pc, node, given, index, number, back, found, todo>>
  BY DEF vars
<1>2. TypeOK'
  BY <1>1 DEF Inv, TypeOK
<1>3. \A v \in Workers : Building(v)' <=> Building(v)
  BY <1>1 DEF Building
<1>4. \A n : (Unclaimed(n)' <=> Unclaimed(n)) /\ (Exposes(n)' <=> Exposes(n))
  BY <1>1 DEF Unclaimed, Exposes
<1>5. ~Aborted' /\ PrimitivesAlone' /\ FreeIsClean' /\ BuildState' /\ OneBuilder'
  BY <1>1, <1>3 DEF Inv, Aborted, PrimitivesAlone, FreeIsClean, BuildState, OneBuilder, IsPrimitive
<1>6. FoundState' /\ TodoState'
  BY <1>1, <1>3 DEF Inv, FoundState, TodoState, IsPrimitive
<1>7. CompareState'
  BY <1>1 DEF Inv, CompareState, IsPrimitive, Unclaimed
<1>8. BuilderLocks' /\ ReaderLocks' /\ BuiltOrConsumed'
  BY <1>1, <1>3 DEF Inv, BuilderLocks, ReaderLocks, BuiltOrConsumed
<1>9. LockHeld'
  BY <1>1 DEF Inv, LockHeld, Holds, Building
<1>10. PortKinds' /\ Filled'
  BY <1>1, <1>3 DEF Inv, PortKinds, Filled, Principal
<1>11. ArgsCounted'
  BY <1>1 DEF Inv, ArgsCounted, IsPrimitive, Principal, Unclaimed
<1>12. ExposedState'
  BY <1>1 DEF Inv, ExposedState, IsPrimitive, Principal, Unclaimed
<1>13. Fresh'
  BY <1>1, <1>3 DEF Inv, Fresh, IsPrimitive, Principal, Unclaimed, Exposes
<1>14. GoodTasks' /\ ClaimedOnce'
  BY <1>1 DEF Inv, GoodTasks, GoodTask, IsPrimitive, ClaimedOnce
<1> QED
  BY <1>2, <1>5, <1>6, <1>7, <1>8, <1>9, <1>10, <1>11, <1>12, <1>13, <1>14 DEF Inv

\* The step of every action, when no primitive is built in parallel.
LEMMA NextInv ==
  ASSUME ParallelPrimitives = {}
  PROVE  Inv /\ [Next]_vars => Inv'
<1> SUFFICES ASSUME Inv, [Next]_vars PROVE Inv'
  OBVIOUS
<1>1. ASSUME NEW w \in Workers, Step(w)
      PROVE  Inv'
  <2>1. CASE node_principal_port_count(w)
    BY <2>1, CountInv
  <2>2. ASSUME NEW n \in Nodes, NEW k \in Ctors, worker_new_node(w, n, k)
        PROVE  Inv'
    BY <2>2, NewInv
  <2>3. CASE node_lock(w)
    BY <2>3, LockInv
  <2>4. CASE reconnect_input(w)
    BY <2>4, InputInv
  <2>5. CASE ReadArity(w)
    BY <2>5, ReadArityInv
  <2>6. CASE reconnect_output(w)
    BY <2>6, OutputInv
  <2>7. CASE node_unlock(w)
    BY <2>7, UnlockInv
  <2>8. CASE worker_add_task(w)
    BY <2>8, AddTaskInv
  <2>9. ASSUME NEW x \in exposed, NEW y \in exposed, ConnectPair(w, x, y)
        PROVE  Inv'
    BY <2>9, PairInv
  <2>10. ASSUME NEW x \in exposed, ConnectArgument(w, x)
         PROVE  Inv'
    BY <2>10, ArgumentInv
  <2>11. ASSUME NEW t \in queue, worker_handle_task(w, t)
         PROVE  Inv'
    BY <2>11, HandleInv
  <2>12. CASE worker_run_until(w)
    BY <2>12, UntilInv
  <2>13. CASE worker_handle_task_primitive(w)
    BY <2>13, OutputsInv
  <2>14. CASE DisconnectLock(w)
    BY <2>14, DisconnectLockInv
  <2>15. CASE worker_disconnect_node(w)
    BY <2>15, DisconnectInv
  <2>16. CASE worker_recycle_node(w)
    BY <2>16, RecycleInv
  <2> QED
    BY <1>1, <2>1, <2>2, <2>3, <2>4, <2>5, <2>6, <2>7, <2>8, <2>9, <2>10, <2>11,
       <2>12, <2>13, <2>14, <2>15, <2>16 DEF Step
<1>2. CASE UNCHANGED vars
  BY <1>2, StutterInv
<1> QED
  BY <1>1, <1>2 DEF Next, Finished

\* The invariant holds in every state: the life of a node goes from
\* worker_new_node to worker_recycle_node and never around it.
THEOREM LifeIsOrderly ==
  ASSUME ParallelPrimitives = {}
  PROVE  Spec => []Inv
<1>1. Init => Inv
  BY InitInv
<1>2. Inv /\ [Next]_vars => Inv'
  BY NextInv
<1> QED
  BY <1>1, <1>2, PTL DEF Spec

\* worker_disconnect_node and worker_handle_task_primitive find every port they
\* read filled, although the task may have been taken before
\* worker_reconnect_node had filled the outputs.
THEOREM ReadersFindPorts ==
  ASSUME ParallelPrimitives = {}
  PROVE  Spec => []PortsReady
<1>1. ASSUME Inv
      PROVE  PortsReady
  <2>1. ASSUME NEW w \in Workers, pc[w] = "read"
        PROVE  LET n == Head(todo[w]) IN
                 ctor[n] # Null /\ \A i \in 0 .. arity[ctor[n]] - 1 : port[n][i] # "empty"
    <3>1. PICK n : n = todo[w][1]
      OBVIOUS
    <3>2. /\ Head(todo[w]) = n /\ n \in Nodes \ free /\ ctor[n] \in Ctors
      BY <1>1, <2>1, <3>1, TodoFacts DEF Inv, TodoState
    <3>3. \A v \in Workers : Building(v) => node[v] # n
      BY <1>1, <2>1, <3>1 DEF Inv, BuiltOrConsumed
    <3>4. \A i \in 0 .. arity[ctor[n]] - 1 : port[n][i] # "empty"
      BY <1>1, <3>2, <3>3 DEF Inv, Filled
    <3> QED
      BY <3>2, <3>4, CtorFacts
  <2>2. ASSUME NEW w \in Workers, pc[w] = "outputs"
        PROVE  LET n == todo[w][1] IN
                 ctor[n] # Null =>
                   \A i \in input_arity[ctor[n]] .. arity[ctor[n]] - 1 : port[n][i] = "wire"
    BY <1>1, <2>2, PrimitiveOutputs
  <2> QED
    BY <2>1, <2>2 DEF PortsReady, OutputsAreWires
<1> QED
  BY <1>1, LifeIsOrderly, PTL

\* The claims of a node are the tasks that name it.
LEMMA ClaimsFacts ==
  ASSUME NEW n
  PROVE  /\ Unclaimed(n) => Claims(n) = {}
         /\ \A c \in Claims(n) :
              \/ \E t \in queue : c = <<"queue", t>> /\ Names(t, n)
              \/ \E w \in Workers : c = <<"found", w>> /\ Names(found[w], n)
              \/ \E w \in Workers : c = <<"todo", w>> /\ Names(todo[w], n)
<1>1. \A c \in Claims(n) :
        \/ \E t \in queue : c = <<"queue", t>> /\ Names(t, n)
        \/ \E w \in Workers : c = <<"found", w>> /\ Names(found[w], n)
        \/ \E w \in Workers : c = <<"todo", w>> /\ Names(todo[w], n)
  BY DEF Claims, Names
<1>2. Unclaimed(n) => Claims(n) = {}
  BY <1>1 DEF Unclaimed
<1> QED
  BY <1>1, <1>2

\* A node is consumed once: no two tasks are about it, and none while its
\* principal wire can still meet another.
THEOREM NodesAreConsumedOnce ==
  ASSUME ParallelPrimitives = {}
  PROVE  Spec => []ConsumedOnce
<1>1. ASSUME Inv
      PROVE  ConsumedOnce
  <2>1. ASSUME NEW n \in Nodes
        PROVE  Cardinality(Claims(n)) <= 1
    <3>1. ASSUME NEW c \in Claims(n), NEW d \in Claims(n)
          PROVE  c = d
      <4>1. \/ \E t \in queue : c = <<"queue", t>> /\ Names(t, n)
            \/ \E w \in Workers : c = <<"found", w>> /\ Names(found[w], n)
            \/ \E w \in Workers : c = <<"todo", w>> /\ Names(todo[w], n)
        BY ClaimsFacts
      <4>2. \/ \E t \in queue : d = <<"queue", t>> /\ Names(t, n)
            \/ \E w \in Workers : d = <<"found", w>> /\ Names(found[w], n)
            \/ \E w \in Workers : d = <<"todo", w>> /\ Names(todo[w], n)
        BY ClaimsFacts
      <4> QED
        BY <1>1, <4>1, <4>2 DEF Inv, ClaimedOnce
    <3>2. Cardinality({}) = 0 /\ \A c : Cardinality({c}) = 1
      BY FS_EmptySet, FS_Singleton
    <3>3. CASE Claims(n) = {}
      BY <3>2, <3>3
    <3>4. CASE Claims(n) # {}
      <4>1. PICK c \in Claims(n) : TRUE
        BY <3>4
      <4>2. Claims(n) = {c}
        BY <3>1, <4>1
      <4> QED
        BY <3>2, <4>2
    <3> QED
      BY <3>3, <3>4
  <2>2. ASSUME NEW x \in exposed
        PROVE  IsPrimitive(x[1]) \/ Claims(x[1]) = {}
    BY <1>1, ClaimsFacts DEF Inv, ExposedState
  <2> QED
    BY <2>1, <2>2 DEF ConsumedOnce
<1> QED
  BY <1>1, LifeIsOrderly, PTL

\* Nobody knows a node that has been recycled, and its lock is free for the
\* next worker_reconnect_node.
THEOREM RecycledNodesAreUnused ==
  ASSUME ParallelPrimitives = {}
  PROVE  Spec => []RecycledIsUnused
<1>1. ASSUME Inv
      PROVE  RecycledIsUnused
  <2>1. ASSUME NEW n \in free
        PROVE  /\ ~locked[n] /\ ctor[n] = Null /\ arg_count[n] = 0
               /\ \A w \in Workers : Building(w) => node[w] # n
               /\ \A x \in exposed : x[1] # n
               /\ Claims(n) = {}
    BY <1>1, FreeFacts, ClaimsFacts DEF Exposes
  <2> QED
    BY <2>1 DEF RecycledIsUnused
<1> QED
  BY <1>1, LifeIsOrderly, PTL

\* None of the assertions of worker_reconnect_node.c, worker_handle_task.c and
\* node.c fails.
THEOREM AssertionsHold ==
  ASSUME ParallelPrimitives = {}
  PROVE  Spec => []NoAbort
<1>1. Inv => NoAbort
  BY DEF Inv, NoAbort
<1> QED
  BY <1>1, LifeIsOrderly, PTL
=============================================================================
