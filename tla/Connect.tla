------------------------------ MODULE Connect ------------------------------
(***************************************************************************)
(* Connecting wires: core/connect.c, with the wires of net/wire.c, the     *)
(* principal wires of net/principal_wire.c and the argument count of the   *)
(* primitive nodes of net/node.c.                                          *)
(*                                                                         *)
(* A wire has two ends, a principal wire and a non-wire value one.  A call *)
(* of connect uses up two ends.  The calls run on different workers at the *)
(* same time and share nothing but the word atomic_fuzed_value of each     *)
(* wire: the first call that reaches a wire leaves the other end it was    *)
(* given there, the second one picks it up, frees the wire and goes on.    *)
(*                                                                         *)
(* Every call is a process of its own.  A step is one access to shared     *)
(* memory: the compare-and-exchange of fuze, freeing a wire, and the three *)
(* accesses of collect_primitive_arg.                                      *)
(***************************************************************************)
EXTENDS Integers, Sequences, FiniteSets

CONSTANTS
  Wires, Principals, Plain,  \* wires, principal wires, non-wire values
  Null,
  Nodes, Ctors,
  Node,        \* principal wire -> its node; it stands for node and index
  Ctor,        \* node -> its constructor
  Primitives,  \* the constructors of primitives
  Rules,       \* the rules in the order of their definition, each a pair
               \* <<left_node_ctor, right_node_ctor>>
  Calls        \* the calls of connect

Terminals == Principals \union Plain
Values == Wires \union Terminals

ASSUME KindsAssumption ==
  /\ Wires \intersect Terminals = {} /\ Principals \intersect Plain = {}
  /\ Null \notin Values
  /\ IsFiniteSet(Wires)
ASSUME NodeAssumption ==
  /\ Node \in [Principals -> Nodes] /\ Ctor \in [Nodes -> Ctors]
  /\ \A n \in Nodes : IsFiniteSet({p \in Principals : Node[p] = n})
ASSUME RulesAssumption == Rules \in Seq(Ctors \X Ctors)

\* The ends there are to connect, before any call has used one.
Ends == (Wires \X {1, 2}) \union (Terminals \X {1})

VARIABLES
  fuzed,      \* wire -> atomic_fuzed_value
  freed,      \* the wires and principal wires that were freed
  loose,      \* ends that no call has used yet
  pc,         \* per call: what it does next
  left,       \* per call: the value left of connect, the wire of fuze, the
              \* principal wire of collect_primitive_arg
  right,      \* per call: the other value
  argument,   \* principal wire of a primitive -> the argument set there
  arg_count,  \* node -> atomic_primitive_arg_count
  task,       \* per call: the task it returned
  joined,     \* history: the pairs of terminals that have met
  net         \* history: the pairs that connect was called with

vars == <<fuzed, freed, loose, pc, left, right, argument, arg_count, task,
          joined, net>>
nodeVars == <<argument, arg_count>>
history == <<joined, net>>

Labels == {"none", "connect", "destroy", "set_value", "fetch_add", "done", "abort"}
Running == {"connect", "destroy", "set_value", "fetch_add"}

IsPrimitive(n) == Ctor[n] \in Primitives

principal_port_count(n) == Cardinality({p \in Principals : Node[p] = n})

Goto(c, label) == pc' = [pc EXCEPT ![c] = label]

\* The values that a call has held go with it when it returns.
Drop(c) == left' = [left EXCEPT ![c] = Null] /\ right' = [right EXCEPT ![c] = Null]

\* An assertion that fails ends the program.
Aborted == \E c \in Calls : pc[c] = "abort"

----------------------------------------------------------------------------
(* Tasks. *)

PairTask(l, r, i) == [kind |-> "active_pair", left |-> l, right |-> r, rule |-> i]
PrimitiveTask(n) == [kind |-> "primitive", node |-> n]

Tasks ==
  [kind : {"active_pair"}, left : Principals, right : Principals, rule : DOMAIN Rules]
    \union [kind : {"primitive"}, node : Nodes]

ASSUME TasksAssumption == Null \notin Tasks

\* Mutant: the rule is compared one way round only.
rule_match_one_way(i, l, r) ==
  IF Rules[i] = <<Ctor[Node[l]], Ctor[Node[r]]>> THEN {PairTask(l, r, i)} ELSE {}

\* The task of rule i for an active pair, if it matches.
rule_match(i, l, r) ==
  IF Rules[i] = <<Ctor[Node[l]], Ctor[Node[r]]>> THEN {PairTask(l, r, i)}
  ELSE IF Rules[i] = <<Ctor[Node[r]], Ctor[Node[l]]>> THEN {PairTask(r, l, i)}
  ELSE {}

\* The task of the first rule that matches.  The rule_arrays of both
\* constructors hold the rules that name them in the order of definition.
FirstTask(l, r) ==
  {t \in UNION {rule_match(i, l, r) : i \in DOMAIN Rules} :
     \A i \in DOMAIN Rules : i < t.rule => rule_match(i, l, r) = {}}

Return(c, t) == task' = [task EXCEPT ![c] = t]

----------------------------------------------------------------------------
Init ==
  /\ fuzed = [w \in Wires |-> Null]
  /\ freed = {}
  /\ loose = Ends
  /\ pc = [c \in Calls |-> "none"]
  /\ left = [c \in Calls |-> Null]
  /\ right = [c \in Calls |-> Null]
  /\ argument = [p \in Principals |-> Null]
  /\ arg_count = [n \in Nodes |-> 0]
  /\ task = [c \in Calls |-> Null]
  /\ joined = {} /\ net = {}

\* A worker calls connect with two ends it holds.
Call(c, e, f) ==
  /\ pc[c] = "none"
  /\ e \in loose /\ f \in loose /\ e # f
  /\ left' = [left EXCEPT ![c] = e[1]]
  /\ right' = [right EXCEPT ![c] = f[1]]
  /\ loose' = loose \ {e, f}
  /\ net' = net \union {{e[1], f[1]}}
  /\ Goto(c, "connect")
  /\ UNCHANGED <<fuzed, freed, nodeVars, task, joined>>

\* The wire that connect calls fuze with, and the other value.
Target(c) == IF left[c] \in Wires THEN left[c] ELSE right[c]
Other(c) == IF left[c] \in Wires THEN right[c] ELSE left[c]

\* Mutant: the wire is loaded and stored without comparing.
fuze_store(c) ==
  /\ pc[c] = "connect"
  /\ Target(c) \in Wires
  /\ fuzed' = [fuzed EXCEPT ![Target(c)] = Other(c)]
  /\ Goto(c, "done") /\ Drop(c)
  /\ UNCHANGED <<freed, loose, nodeVars, task, history>>

\* Mutant: a wire that is taken is tried again with the values swapped.
fuze_swapped(c) ==
  /\ pc[c] = "connect"
  /\ Target(c) \in Wires
  /\ IF fuzed[Target(c)] = Null
     THEN /\ fuzed' = [fuzed EXCEPT ![Target(c)] = Other(c)]
          /\ Goto(c, "done") /\ Drop(c)
     ELSE /\ left' = [left EXCEPT ![c] = right[c]]
          /\ right' = [right EXCEPT ![c] = left[c]]
          /\ UNCHANGED <<fuzed, pc>>
  /\ UNCHANGED <<freed, loose, nodeVars, task, history>>

\* fuze up to the outcome of its compare-and-exchange.
fuze(c) ==
  /\ pc[c] = "connect"
  /\ Target(c) \in Wires
  /\ IF fuzed[Target(c)] = Null
     THEN /\ fuzed' = [fuzed EXCEPT ![Target(c)] = Other(c)]
          /\ Goto(c, "done") /\ Drop(c)
     ELSE /\ left' = [left EXCEPT ![c] = Target(c)]
          /\ right' = [right EXCEPT ![c] = Other(c)]
          /\ Goto(c, "destroy")
          /\ UNCHANGED fuzed
  /\ UNCHANGED <<freed, loose, nodeVars, task, history>>

\* Mutant: goes on with the wire itself.
wire_destroy_stale(c) ==
  /\ pc[c] = "destroy"
  /\ freed' = freed \union {left[c]}
  /\ left' = [left EXCEPT ![c] = right[c]]
  /\ right' = [right EXCEPT ![c] = left[c]]
  /\ Goto(c, "connect")
  /\ UNCHANGED <<fuzed, loose, nodeVars, task, history>>

\* The rest of fuze: free the wire and connect the value that was found in it,
\* which nothing overwrites, with the other one.
wire_destroy(c) ==
  /\ pc[c] = "destroy"
  /\ freed' = freed \union {left[c]}
  /\ left' = [left EXCEPT ![c] = fuzed[left[c]]]
  /\ Goto(c, "connect")
  /\ UNCHANGED <<fuzed, loose, right, nodeVars, task, history>>

\* Mutant: the other value is kept where a call on another worker overwrites it.
connect_active_pair_static(c) ==
  /\ pc[c] = "connect"
  /\ left[c] \in Principals /\ right[c] \in Principals
  /\ \E d \in Calls :
       right[d] \in Principals /\ joined' = joined \union {{left[c], right[d]}}
  /\ Goto(c, "done") /\ Drop(c)
  /\ UNCHANGED <<fuzed, freed, loose, nodeVars, task, net>>

\* connect_active_pair: the opposite principal wires know each other (joined),
\* and the first rule that fits makes a task.
connect_active_pair(c) ==
  /\ pc[c] = "connect"
  /\ left[c] \in Principals /\ right[c] \in Principals
  /\ joined' = joined \union {{left[c], right[c]}}
  /\ \/ \E t \in FirstTask(left[c], right[c]) : Return(c, t)
     \/ FirstTask(left[c], right[c]) = {} /\ UNCHANGED task
  /\ Goto(c, "done") /\ Drop(c)
  /\ UNCHANGED <<fuzed, freed, loose, nodeVars, net>>

\* Mutant: the argument is freed instead of the principal wire.
collect_primitive_arg_swapped(c) ==
  /\ pc[c] = "connect"
  /\ \E p \in Principals, v \in Plain :
       /\ {left[c], right[c]} = {p, v}
       /\ IsPrimitive(Node[p])
       /\ freed' = freed \union {v}
       /\ left' = [left EXCEPT ![c] = p]
       /\ right' = [right EXCEPT ![c] = v]
       /\ joined' = joined \union {{p, v}}
  /\ Goto(c, "set_value")
  /\ UNCHANGED <<fuzed, loose, nodeVars, task, net>>

\* collect_primitive_arg: the principal wire is freed once its node and index
\* are known.  A node that is not a primitive takes no argument.
collect_primitive_arg(c) ==
  /\ pc[c] = "connect"
  /\ \E p \in Principals, v \in Plain :
       /\ {left[c], right[c]} = {p, v}
       /\ IF IsPrimitive(Node[p])
          THEN /\ freed' = freed \union {p}
               /\ Goto(c, "set_value")
          ELSE /\ Goto(c, "abort")
               /\ UNCHANGED freed
       /\ left' = [left EXCEPT ![c] = p]
       /\ right' = [right EXCEPT ![c] = v]
       /\ joined' = joined \union {{p, v}}
  /\ UNCHANGED <<fuzed, loose, nodeVars, task, net>>

node_set_value(c) ==
  /\ pc[c] = "set_value"
  /\ argument' = [argument EXCEPT ![left[c]] = right[c]]
  /\ Goto(c, "fetch_add")
  /\ UNCHANGED <<fuzed, freed, loose, left, right, arg_count, task, history>>

\* Mutant: the count that makes the node a task is one short.
fetch_add1_early(c) ==
  /\ pc[c] = "fetch_add"
  /\ LET n == Node[left[c]] IN
       /\ arg_count' = [arg_count EXCEPT ![n] = @ + 1]
       /\ IF arg_count[n] + 1 = principal_port_count(n) - 1
          THEN Return(c, PrimitiveTask(n)) ELSE UNCHANGED task
  /\ Goto(c, "done") /\ Drop(c)
  /\ UNCHANGED <<fuzed, freed, loose, argument, history>>

node_primitive_arg_count_fetch_add1(c) ==
  /\ pc[c] = "fetch_add"
  /\ LET n == Node[left[c]] IN
       /\ arg_count' = [arg_count EXCEPT ![n] = @ + 1]
       /\ IF arg_count[n] + 1 = principal_port_count(n)
          THEN Return(c, PrimitiveTask(n)) ELSE UNCHANGED task
  /\ Goto(c, "done") /\ Drop(c)
  /\ UNCHANGED <<fuzed, freed, loose, argument, history>>

\* connect, its last branch: two non-wire values.
connect_abort(c) ==
  /\ pc[c] = "connect"
  /\ left[c] \in Plain /\ right[c] \in Plain
  /\ joined' = joined \union {{left[c], right[c]}}
  /\ Goto(c, "abort")
  /\ UNCHANGED <<fuzed, freed, loose, left, right, nodeVars, task, net>>

\* A pending call of connect goes on.
connect(c) ==
  /\ ~Aborted
  /\ \/ fuze(c) \/ wire_destroy(c) \/ connect_active_pair(c)
     \/ collect_primitive_arg(c) \/ node_set_value(c)
     \/ node_primitive_arg_count_fetch_add1(c) \/ connect_abort(c)

Quiet == \A c \in Calls : pc[c] \notin Running

\* The workers need not make any further call.
Stopped == (Quiet \/ Aborted) /\ UNCHANGED vars

Next ==
  \/ \E c \in Calls : connect(c)
  \/ ~Aborted /\ \E c \in Calls : \E e, f \in Ends : Call(c, e, f)
  \/ Stopped

Spec == Init /\ [][Next]_vars

----------------------------------------------------------------------------
(* Properties. *)

\* Every variable keeps its type.
TypeOK ==
  /\ fuzed \in [Wires -> Values \union {Null}]
  /\ freed \subseteq Wires \union Principals
  /\ loose \subseteq Ends
  /\ pc \in [Calls -> Labels]
  /\ left \in [Calls -> Values \union {Null}]
  /\ right \in [Calls -> Values \union {Null}]
  /\ argument \in [Principals -> Plain \union {Null}]
  /\ arg_count \in [Nodes -> Nat]
  /\ task \in [Calls -> Tasks \union {Null}]
  /\ joined \subseteq SUBSET Terminals
  /\ net \subseteq SUBSET Values

\* The call still holds its two values.
Connecting(c) == pc[c] \in {"connect", "destroy"}

\* No pointer to freed memory is left anywhere: not in the hands of a call,
\* which would read or free it again, not in a wire that is still alive, and
\* not among the ends that later calls will use.  wire_destroy and
\* principal_wire_destroy in connect.c free without asking anybody.
NoDangling ==
  /\ \A c \in Calls : Connecting(c) => left[c] \notin freed /\ right[c] \notin freed
  /\ \A w \in Wires \ freed : fuzed[w] \notin freed
  /\ \A e \in loose : e[1] \notin freed

\* S is a union of whole paths of the net that the calls describe.
Closed(S) == \A l \in net : l \subseteq S \/ l \intersect S = {}

\* Only the two ends of one path meet, in whatever order the workers fuze the
\* wires of the path: a set that no call of connect leads out of is not left
\* by a pair that has met either.
JoinsFollowNet ==
  \A S \in SUBSET Values :
    Closed(S) => \A j \in joined : j \subseteq S \/ j \intersect S = {}

\* When no call is pending, the two ends of every path have met: between two
\* calls that fuze the same wires at the same time none is lost.
PathsJoined ==
  Quiet => \A a, b \in Terminals :
             a # b /\ (\A S \in SUBSET Values : Closed(S) /\ a \in S => b \in S)
               => {a, b} \in joined

\* When all ends of a closed net have been used and no call is pending, every
\* principal wire and every non-wire value has met another one.
AllJoined ==
  Quiet /\ loose = {} => \A a \in Terminals : \E j \in joined : a \in j

\* Rule i is one for the constructors of l and r, whichever comes first.
Fits(i, l, r) ==
  LET k == Ctor[Node[l]] n == Ctor[Node[r]] IN Rules[i] \in {<<k, n>>, <<n, k>>}

\* The call has made an active pair a task; its two principal wires.
MadePair(c) == task[c] # Null /\ task[c].kind = "active_pair"
Pair(c) == {task[c].left, task[c].right}

\* What the tasks that were made say.
TasksReady ==
  \A c \in Calls : task[c] # Null =>
    /\ \A d \in Calls \ {c} : task[d] # task[c]
    /\ task[c].kind = "primitive" =>
         \A p \in Principals : Node[p] = task[c].node => argument[p] # Null
    /\ task[c].kind = "active_pair" =>
         /\ Rules[task[c].rule] = <<Ctor[Node[task[c].left]], Ctor[Node[task[c].right]]>>
         /\ \A i \in DOMAIN Rules : Fits(i, task[c].left, task[c].right) => task[c].rule <= i
         /\ Pair(c) \in joined

\* No principal wire is in two active pairs.
PairsApart ==
  \A c, d \in Calls :
    c # d /\ MadePair(c) /\ MadePair(d) => Pair(c) \intersect Pair(d) = {}

\* The tasks of primitives that must have been made.
PrimitivesFire ==
  Quiet /\ ~Aborted =>
    \A p \in Principals :
      /\ IsPrimitive(Node[p])
      /\ \A q \in Principals : Node[q] = Node[p] => \E v \in Plain : {q, v} \in joined
      => \E c \in Calls : task[c] = PrimitiveTask(Node[p])

\* The tasks of active pairs that must have been made.
PairsFire ==
  Quiet /\ ~Aborted =>
    \A l, r \in Principals :
      {l, r} \in joined /\ (\E i \in DOMAIN Rules : Fits(i, l, r))
        => \E c \in Calls : MadePair(c) /\ Pair(c) = {l, r}

\* A primitive becomes a task once, when all its arguments are in place,
\* although different workers count them.  The task of an active pair is that
\* of the first rule that fits, with the two principal wires in the order of
\* the rule, and no principal wire is in two of them.  No task is missed: when
\* no call is pending and none has aborted, a primitive that has met a value at
\* each of its principal ports has become a task, and so has each pair of
\* principal wires that have met and that a rule fits.
TasksExact == TasksReady /\ PairsApart /\ PrimitivesFire /\ PairsFire

\* What the calls that were made have left to do at most.
Stage(label) ==
  CASE label = "connect" -> 3 [] label \in {"destroy", "set_value"} -> 2
    [] label = "fetch_add" -> 1 [] OTHER -> 0
Work ==
  4 * Cardinality(Wires \ freed)
    + Cardinality(UNION {{c} \X (1 .. Stage(pc[c])) : c \in Calls})

\* The loop of connect comes to an end however the others interfere with it:
\* it goes round again only when it has freed a wire, so that each step of a
\* call leaves less to do.
ConnectTerminates == [][loose' = loose => Work' < Work]_vars
=============================================================================
