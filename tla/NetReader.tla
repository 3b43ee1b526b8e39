----------------------------- MODULE NetReader -----------------------------
(***************************************************************************)
(* Reading a net that has come to rest: run_exp.c prints what is connected *)
(* with a value on the stack.  It looks for the node of a wire, finds the  *)
(* neighbours of every allocated node (net/node_neighborhood.c,            *)
(* net/node_neighbor.c) by following the wires (net/wire.c), and collects  *)
(* what can be reached (net/connected_node_iter.c).                        *)
(*                                                                         *)
(* The nets are those that connect leaves, see Connect: two ports are      *)
(* joined by one wire, by a wire that is fuzed with another or with a      *)
(* principal wire, or by two principal wires that are opposite.            *)
(***************************************************************************)
EXTENDS Memory

CONSTANTS
  NetNodes,        \* the allocated nodes, numbers in the order of the listing
  arity,           \* node -> number of ports
  PrincipalPorts   \* the principal ports, each <<node, index>>

ASSUME NetAssumption ==
  /\ NetNodes \subseteq Nat \ {0} /\ IsFiniteSet(NetNodes)
  /\ arity \in [NetNodes -> Nat]

Ports == UNION {{n} \X (0 .. arity[n] - 1) : n \in NetNodes}

\* NULL is no node, no port, and no neighbour of a node.
ASSUME PortsAssumption ==
  /\ PrincipalPorts \subseteq Ports
  /\ NULL \notin NetNodes \union Ports
  /\ NULL \notin [start_port_index : Nat, end_port : Ports]

AuxPorts == Ports \ PrincipalPorts

\* Values: the wire and the principal wire made for a port, two wires that were
\* made for none, of which the stack may hold the first, and a number.
WireOf(p) == <<"wire", p>>
TopWire == WireOf(<<0, 0>>)
MiddleWire == WireOf(<<0, 1>>)
PrincipalWireOf(p) == <<"principal-wire", p>>
Number == <<"xint", NULL>>
Unset == <<"unset", NULL>>
AllWires == {WireOf(p) : p \in AuxPorts} \union {TopWire, MiddleWire}

VARIABLES
  value_array,  \* port -> value
  fuzed_value,  \* wire -> value, Unset if none
  oppsite,      \* principal port -> the opposite principal port, or NULL
  mate,         \* history: port -> the port it was joined with, or NULL
  root,         \* the value on the stack that is printed
  held,         \* history: the port that has the other end of it, or NULL
  iter          \* [pc, root, occurred_node_set, remaining_node_list, node_array,
                \*  node_neighborhood_hash: port -> port of the neighbour]

netVars == <<value_array, fuzed_value, oppsite, mate, root, held, iter>>

NetInit ==
  /\ value_array = [p \in Ports |-> IF p \in PrincipalPorts THEN PrincipalWireOf(p) ELSE WireOf(p)]
  /\ fuzed_value = [w \in AllWires |-> Unset]
  /\ oppsite = [p \in PrincipalPorts |-> NULL]
  /\ mate = [p \in Ports |-> NULL]
  /\ root = TopWire /\ held = NULL
  /\ iter = [pc |-> "build", root |-> NULL, occurred_node_set |-> {},
             remaining_node_list |-> <<>>, node_array |-> <<>>,
             node_neighborhood_hash |-> [p \in Ports |-> NULL]]

is_wire(v) == v[1] = "wire"
is_principal_wire(v) == v[1] = "principal-wire"
is_non_wire(v) == ~is_wire(v) /\ ~is_principal_wire(v)

\* From one wire to the next until there is a value that is no wire, or a wire
\* that is not fuzed; no chain is longer than there are wires.
walk(v) ==
  LET f[i \in 0 .. Cardinality(AllWires)] ==
        IF i = 0 THEN v
        ELSE LET w == f[i - 1] IN
               IF is_wire(w) /\ fuzed_value[w] # Unset THEN fuzed_value[w] ELSE w
  IN  f[Cardinality(AllWires)]

is_fuzed(x, y) == is_wire(walk(x)) /\ walk(x) = walk(y)

is_connected(x, y) ==
  LET v == walk(x) w == walk(y) IN
    IF is_principal_wire(v) /\ is_principal_wire(w)
    THEN v = w \/ (oppsite[v[2]] = w[2] /\ oppsite[w[2]] = v[2])
    ELSE is_fuzed(v, w)

----------------------------------------------------------------------------
(* The net is made. *)

Free(p) == mate[p] = NULL /\ ~is_non_wire(walk(value_array[p]))

\* Two ports are joined: the value that was made for q goes to p as it is, or
\* what is at p and q is connected, directly or with one more wire between.
Join(p, q) ==
  /\ iter.pc = "build" /\ p # q /\ Free(p) /\ Free(q)
  /\ mate' = [mate EXCEPT ![p] = q, ![q] = p]
  /\ \/ /\ p \in AuxPorts
        /\ value_array' = [value_array EXCEPT ![p] = value_array[q]]
        /\ UNCHANGED <<fuzed_value, oppsite>>
     \/ /\ p \in AuxPorts
        /\ \/ fuzed_value' = [fuzed_value EXCEPT ![value_array[p]] = value_array[q]]
           \/ /\ fuzed_value[MiddleWire] = Unset
              /\ fuzed_value' = [fuzed_value EXCEPT ![value_array[p]] = MiddleWire,
                                                    ![MiddleWire] = value_array[q]]
        /\ UNCHANGED <<value_array, oppsite>>
     \/ /\ {p, q} \subseteq PrincipalPorts
        /\ oppsite' = [oppsite EXCEPT ![p] = q, ![q] = p]
        /\ UNCHANGED <<value_array, fuzed_value>>
  /\ UNCHANGED <<root, held, iter>>

\* An argument of a primitive, or a value that came along a wire.
Fill(p) ==
  /\ iter.pc = "build" /\ p \in AuxPorts /\ Free(p)
  /\ \/ value_array' = [value_array EXCEPT ![p] = Number] /\ UNCHANGED fuzed_value
     \/ fuzed_value' = [fuzed_value EXCEPT ![value_array[p]] = Number] /\ UNCHANGED value_array
  /\ UNCHANGED <<oppsite, mate, root, held, iter>>

\* The stack holds the free end of p, directly or through one more wire.
Hold(p) ==
  /\ iter.pc = "build" /\ Free(p)
  /\ \/ root' = value_array[p] /\ UNCHANGED fuzed_value
     \/ root' = TopWire /\ fuzed_value' = [fuzed_value EXCEPT ![TopWire] = value_array[p]]
     \/ /\ p \in AuxPorts
        /\ root' = TopWire /\ fuzed_value' = [fuzed_value EXCEPT ![value_array[p]] = TopWire]
  /\ held' = p
  /\ iter' = [iter EXCEPT !.pc = "print"]
  /\ UNCHANGED <<value_array, oppsite, mate>>

\* The stack holds both ends of a wire.
HoldNothing ==
  /\ iter.pc = "build"
  /\ iter' = [iter EXCEPT !.pc = "print"]
  /\ UNCHANGED <<value_array, fuzed_value, oppsite, mate, root, held>>

----------------------------------------------------------------------------
(* The net is read. *)

First(S) == CHOOSE x \in S : \A y \in S : x <= y

node_has_wire(n, w) == \E i \in 0 .. arity[n] - 1 : is_fuzed(value_array[<<n, i>>], w)

worker_lookup_node_by_wire(w) ==
  LET hits == {n \in NetNodes : node_has_wire(n, w)}
  IN  IF hits = {} THEN NULL ELSE First(hits)

\* Mutant: the index of the own port is noted for both.
node_neighbor_swapped(n, m) ==
  LET joined(i) == {j \in 0 .. arity[m] - 1 :
                      is_connected(value_array[<<n, i>>], value_array[<<m, j>>])}
      starts == {i \in 0 .. arity[n] - 1 : joined(i) # {}}
  IN  IF n = m \/ starts = {} THEN NULL
      ELSE [start_port_index |-> First(starts), end_port |-> <<m, First(starts)>>]

\* The first two ports, in the order of the loops, that are connected.
node_neighbor_new_maybe(n, m) ==
  LET joined(i) == {j \in 0 .. arity[m] - 1 :
                      is_connected(value_array[<<n, i>>], value_array[<<m, j>>])}
      starts == {i \in 0 .. arity[n] - 1 : joined(i) # {}}
  IN  IF n = m \/ starts = {} THEN NULL
      ELSE [start_port_index |-> First(starts), end_port |-> <<m, First(joined(First(starts)))>>]

\* The neighbourhoods of all nodes.  Each node is compared with every other,
\* and a port keeps the last neighbour that was stored there.
build_node_neighborhood_hash ==
  LET neighbor == [n \in NetNodes |-> [m \in NetNodes |-> node_neighbor_new_maybe(n, m)]]
      there(p) == {m \in NetNodes : /\ neighbor[p[1]][m] # NULL
                                    /\ neighbor[p[1]][m].start_port_index = p[2]}
  IN  [p \in Ports |->
         IF there(p) = {} THEN NULL
         ELSE neighbor[p[1]][CHOOSE m \in there(p) : \A k \in there(p) : k <= m].end_port]

\* Mutant: only the first port is looked at.
take_node_first(it, n) ==
  LET p == it.node_neighborhood_hash[<<n, 0>>]
  IN  [it EXCEPT !.pc = "next",
                 !.occurred_node_set = @ \union {n},
                 !.remaining_node_list = IF p = NULL THEN @ ELSE Append(@, p[1]),
                 !.node_array = Append(@, n)]

\* The neighbour of each port is pushed onto the list.
take_node(it, n) ==
  LET pushed[i \in 0 .. arity[n]] ==
        IF i = 0 THEN it.remaining_node_list
        ELSE LET p == it.node_neighborhood_hash[<<n, i - 1>>] IN
               IF p = NULL THEN pushed[i - 1] ELSE Append(pushed[i - 1], p[1])
  IN  [it EXCEPT !.pc = "next",
                 !.occurred_node_set = @ \union {n},
                 !.remaining_node_list = pushed[arity[n]],
                 !.node_array = Append(@, n)]

\* print_connected up to the first node; a wire that no node has is printed as
\* it is.
print_connected ==
  LET v == walk(root)
      n == IF is_principal_wire(v) THEN v[2][1] ELSE worker_lookup_node_by_wire(v)
  IN  /\ iter.pc = "print"
      /\ iter' = IF n = NULL THEN [iter EXCEPT !.pc = "done"]
                 ELSE take_node([iter EXCEPT !.root = n,
                                   !.node_neighborhood_hash = build_node_neighborhood_hash], n)
      /\ UNCHANGED <<value_array, fuzed_value, oppsite, mate, root, held>>

\* The list without its last node, which list_pop takes.
Popped == [iter EXCEPT !.remaining_node_list = SubSeq(@, 1, Len(@) - 1)]

connected_node_iter_next ==
  LET left == iter.remaining_node_list IN
    /\ iter.pc = "next"
    /\ iter' = IF left = <<>> THEN [iter EXCEPT !.pc = "done"]
               ELSE IF left[Len(left)] \in iter.occurred_node_set THEN Popped
               ELSE take_node(Popped, left[Len(left)])
    /\ UNCHANGED <<value_array, fuzed_value, oppsite, mate, root, held>>

\* What is printed for a port: the port of the neighbour, a number, or ____.
Blank == <<"____", NULL>>
node_neighborhood_print_one(n, i) ==
  LET p == iter.node_neighborhood_hash[<<n, i>>]
      v == walk(value_array[<<n, i>>])
  IN  IF p # NULL THEN <<"port", p>> ELSE IF is_non_wire(v) THEN v ELSE Blank

NetNext ==
  \/ \E p, q \in Ports : Join(p, q)
  \/ \E p \in Ports : Fill(p) \/ Hold(p)
  \/ HoldNothing \/ print_connected \/ connected_node_iter_next

NetSpec == NetInit /\ [][NetNext]_netVars

----------------------------------------------------------------------------
(* Properties. *)

\* S has with a node all nodes that are joined with it.
ClosedNet(S) == \A p \in Ports : mate[p] # NULL /\ p[1] \in S => mate[p][1] \in S

\* The search ends: each node is taken once, and what is left to look at never
\* exceeds the ports of the nodes that were taken.
SearchBounded ==
  /\ Len(iter.node_array) = Cardinality(iter.occurred_node_set)
  /\ Len(iter.remaining_node_list) <= Cardinality({p \in Ports : p[1] \in iter.occurred_node_set})

\* The value on the stack leads to the node that has the other end of it: a
\* component is printed whenever there is one.
RootFound ==
  iter.pc \in {"next", "done"} => iter.root = IF held = NULL THEN NULL ELSE held[1]

\* The listing that is printed is the component of the net that hangs on the
\* value: each of its nodes once, and no other, although the search goes by
\* neighbours of which only one is noted for two nodes that share more wires.
ComponentExact ==
  /\ SearchBounded /\ RootFound
  /\ iter.pc = "done" /\ iter.root # NULL =>
       LET found == Elements(iter.node_array) IN
         /\ Cardinality(found) = Len(iter.node_array)
         /\ iter.root \in found /\ ClosedNet(found)
         /\ \A S \in SUBSET found : iter.root \in S /\ ClosedNet(S) => S = found

\* A neighbour that is printed is the port at the other end of the wire, and a
\* port is printed as free only if it is, or if it leads back to its own node,
\* or if another port of the node leads to the same neighbour.
PrintedPorts ==
  iter.pc = "done" /\ iter.root # NULL =>
    \A p \in Ports :
      LET shown == node_neighborhood_print_one(p[1], p[2]) IN
        /\ shown[1] = "port" => mate[p] = shown[2]
        /\ shown = Blank /\ mate[p] # NULL /\ mate[p][1] # p[1] =>
             \E i \in 0 .. arity[p[1]] - 1, q \in Ports :
               i # p[2] /\ q[1] = mate[p][1] /\ node_neighborhood_print_one(p[1], i) = <<"port", q>>
=============================================================================
