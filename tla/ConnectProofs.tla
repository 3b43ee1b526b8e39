--------------------------- MODULE ConnectProofs ---------------------------
(***************************************************************************)
(* Proofs about Connect.  The argument is that the program uses its wires  *)
(* linearly: count the places that hold a value.  A wire that nobody has   *)
(* fuzed is in two places, a fuzed one in one, a freed one in none; a      *)
(* terminal is in one place until it meets another one, then in none.      *)
(***************************************************************************)
EXTENDS Connect, FiniteSetTheorems, WellFoundedInduction, TLAPS

\* Where a value can be: an end not yet used, a call, a fuzed wire.
EndPlace(e) == <<"end", e>>
LeftPlace(c) == <<"left", c>>
RightPlace(c) == <<"right", c>>
WirePlace(w) == <<"wire", w>>

Places ==
  {EndPlace(e) : e \in Ends} \union {LeftPlace(c) : c \in Calls}
    \union {RightPlace(c) : c \in Calls} \union {WirePlace(w) : w \in Wires}

content ==
  [x \in Places |->
     CASE x[1] = "end" -> IF x[2] \in loose THEN x[2][1] ELSE Null
       [] x[1] = "left" -> IF Connecting(x[2]) THEN left[x[2]] ELSE Null
       [] x[1] = "right" -> IF Connecting(x[2]) THEN right[x[2]] ELSE Null
       [] x[1] = "wire" -> IF x[2] \in freed THEN Null ELSE fuzed[x[2]]]

Zero(f, v) == \A x \in Places : f[x] # v
One(f, v) == \E x \in Places : f[x] = v /\ \A y \in Places : f[y] = v => y = x
Two(f, v) ==
  \E x, y \in Places :
    /\ x # y /\ f[x] = v /\ f[y] = v
    /\ \A z \in Places : f[z] = v => z = x \/ z = y

Met(v) == \E j \in joined : v \in j
Gone(v) == v \in freed \/ Met(v)
Doubled(v) == v \in Wires /\ fuzed[v] = Null

\* Every value is in as many places as it should be.
Linear ==
  \A v \in Values :
    /\ Gone(v) => Zero(content, v)
    /\ ~Gone(v) /\ Doubled(v) => Two(content, v)
    /\ ~Gone(v) /\ ~Doubled(v) => One(content, v)

\* What a call knows about its values.
CallKnows ==
  \A c \in Calls :
    /\ Connecting(c) => left[c] \in Values /\ right[c] \in Values
    /\ pc[c] = "destroy" => left[c] \in Wires /\ fuzed[left[c]] # Null
    /\ pc[c] \in {"set_value", "fetch_add"} =>
         left[c] \in Principals /\ right[c] \in Plain

\* Every link between two values is within a path of the net.
CallsWithin(S) == \A c \in Calls : Connecting(c) => (left[c] \in S <=> right[c] \in S)
WiresWithin(S) == \A w \in Wires : fuzed[w] # Null => (w \in S <=> fuzed[w] \in S)
JoinsWithin(S) == \A j \in joined : \A a, b \in j : a \in S <=> b \in S

LinksFollowNet ==
  \A S \in SUBSET Values :
    Closed(S) => CallsWithin(S) /\ WiresWithin(S) /\ JoinsWithin(S)

\* Only the principal wires that have met a value are freed.
FreedMet == \A v \in freed \ Wires : Met(v)

IInv == TypeOK /\ CallKnows /\ Linear /\ LinksFollowNet /\ FreedMet

----------------------------------------------------------------------------
(* Moving values between places. *)

Exchanged(f, g, a, b) ==
  \A x \in Places : g[x] = IF x = a THEN f[b] ELSE IF x = b THEN f[a] ELSE f[x]

Erased(f, g, a) == \A x \in Places : g[x] = IF x = a THEN Null ELSE f[x]

\* Exchanging what two places hold changes no count.
LEMMA Exchange ==
  ASSUME NEW f, NEW g, NEW a \in Places, NEW b \in Places, NEW v,
         Exchanged(f, g, a, b)
  PROVE  /\ Zero(f, v) => Zero(g, v)
         /\ One(f, v) => One(g, v)
         /\ Two(f, v) => Two(g, v)
<1> DEFINE swap(x) == IF x = a THEN b ELSE IF x = b THEN a ELSE x
<1>1. \A x \in Places : swap(x) \in Places /\ swap(swap(x)) = x /\ g[x] = f[swap(x)]
  BY DEF Exchanged
<1> HIDE DEF swap
<1>2. Zero(f, v) => Zero(g, v)
  BY <1>1 DEF Zero
<1>3. One(f, v) => One(g, v)
  <2> SUFFICES ASSUME One(f, v) PROVE One(g, v)
    OBVIOUS
  <2>1. PICK x \in Places : f[x] = v /\ \A y \in Places : f[y] = v => y = x
    BY DEF One
  <2>2. g[swap(x)] = v /\ \A y \in Places : g[y] = v => y = swap(x)
    BY <2>1, <1>1
  <2> QED BY <2>2, <1>1 DEF One
<1>4. Two(f, v) => Two(g, v)
  <2> SUFFICES ASSUME Two(f, v) PROVE Two(g, v)
    OBVIOUS
  <2>1. PICK x \in Places, y \in Places :
          /\ x # y /\ f[x] = v /\ f[y] = v
          /\ \A z \in Places : f[z] = v => z = x \/ z = y
    BY DEF Two
  <2>2. /\ swap(x) # swap(y) /\ g[swap(x)] = v /\ g[swap(y)] = v
        /\ \A z \in Places : g[z] = v => z = swap(x) \/ z = swap(y)
    BY <2>1, <1>1
  <2> QED BY <2>2, <1>1 DEF Two
<1> QED BY <1>2, <1>3, <1>4

\* Clearing a place takes one off the count of what was there.
LEMMA Erase ==
  ASSUME NEW f, NEW g, NEW a \in Places, NEW v, v # Null, Erased(f, g, a)
  PROVE  /\ Zero(f, v) => Zero(g, v)
         /\ One(f, v) => IF f[a] = v THEN Zero(g, v) ELSE One(g, v)
         /\ Two(f, v) => IF f[a] = v THEN One(g, v) ELSE Two(g, v)
<1>1. Zero(f, v) => Zero(g, v)
  BY DEF Zero, Erased
<1>2. ASSUME One(f, v) PROVE IF f[a] = v THEN Zero(g, v) ELSE One(g, v)
  <2>1. PICK x \in Places : f[x] = v /\ \A y \in Places : f[y] = v => y = x
    BY <1>2 DEF One
  <2>2. CASE f[a] = v
    BY <2>1, <2>2 DEF Zero, Erased
  <2>3. CASE f[a] # v
    <3>1. g[x] = v /\ \A y \in Places : g[y] = v => y = x
      BY <2>1, <2>3 DEF Erased
    <3> QED BY <3>1, <2>3 DEF One
  <2> QED BY <2>2, <2>3
<1>3. ASSUME Two(f, v) PROVE IF f[a] = v THEN One(g, v) ELSE Two(g, v)
  <2>1. PICK x \in Places, y \in Places :
          /\ x # y /\ f[x] = v /\ f[y] = v
          /\ \A z \in Places : f[z] = v => z = x \/ z = y
    BY <1>3 DEF Two
  <2>2. CASE f[a] = v
    <3>1. PICK b \in Places : {a, b} = {x, y} /\ a # b
      BY <2>1, <2>2
    <3>2. g[b] = v /\ \A z \in Places : g[z] = v => z = b
      BY <2>1, <3>1 DEF Erased
    <3> QED BY <3>2, <2>2 DEF One
  <2>3. CASE f[a] # v
    <3>1. /\ g[x] = v /\ g[y] = v
          /\ \A z \in Places : g[z] = v => z = x \/ z = y
      BY <2>1, <2>3 DEF Erased
    <3> QED BY <2>1, <3>1, <2>3 DEF Two
  <2> QED BY <2>2, <2>3
<1> QED BY <1>1, <1>2, <1>3

----------------------------------------------------------------------------
(* Facts about places. *)

\* Every place is the place of an end, of an argument of a call or of a wire.
LEMMA PlaceFacts ==
  /\ \A e \in Ends : EndPlace(e) \in Places
  /\ \A c \in Calls : LeftPlace(c) \in Places /\ RightPlace(c) \in Places
  /\ \A w \in Wires : WirePlace(w) \in Places
  /\ \A x \in Places :
       \/ \E e \in Ends : x = EndPlace(e)
       \/ \E c \in Calls : x = LeftPlace(c)
       \/ \E c \in Calls : x = RightPlace(c)
       \/ \E w \in Wires : x = WirePlace(w)
BY DEF Places

\* Two places of different kinds, or of different owners, differ.
LEMMA Distinct ==
  /\ \A e, f : EndPlace(e) = EndPlace(f) => e = f
  /\ \A c, d : LeftPlace(c) = LeftPlace(d) => c = d
  /\ \A c, d : RightPlace(c) = RightPlace(d) => c = d
  /\ \A w, u : WirePlace(w) = WirePlace(u) => w = u
  /\ \A a, b : /\ EndPlace(a) # LeftPlace(b) /\ EndPlace(a) # RightPlace(b)
               /\ EndPlace(a) # WirePlace(b) /\ LeftPlace(a) # RightPlace(b)
               /\ LeftPlace(a) # WirePlace(b) /\ RightPlace(a) # WirePlace(b)
BY DEF EndPlace, LeftPlace, RightPlace, WirePlace

\* What each place holds.
LEMMA ContentFacts ==
  /\ \A e \in Ends : content[EndPlace(e)] = IF e \in loose THEN e[1] ELSE Null
  /\ \A c \in Calls : content[LeftPlace(c)] = IF Connecting(c) THEN left[c] ELSE Null
  /\ \A c \in Calls : content[RightPlace(c)] = IF Connecting(c) THEN right[c] ELSE Null
  /\ \A w \in Wires : content[WirePlace(w)] = IF w \in freed THEN Null ELSE fuzed[w]
BY PlaceFacts DEF content, EndPlace, LeftPlace, RightPlace, WirePlace

\* ContentFacts after a step.
LEMMA ContentFactsNext ==
  /\ \A e \in Ends : content'[EndPlace(e)] = IF e \in loose' THEN e[1] ELSE Null
  /\ \A c \in Calls : content'[LeftPlace(c)] = IF Connecting(c)' THEN left'[c] ELSE Null
  /\ \A c \in Calls : content'[RightPlace(c)] = IF Connecting(c)' THEN right'[c] ELSE Null
  /\ \A w \in Wires : content'[WirePlace(w)] = IF w \in freed' THEN Null ELSE fuzed'[w]
BY PlaceFacts DEF content, EndPlace, LeftPlace, RightPlace, WirePlace

----------------------------------------------------------------------------
(* Types, what a call knows, and links, action by action. *)

\* rule_match makes a task of the two nodes.
LEMMA FirstTaskType ==
  ASSUME NEW l \in Principals, NEW r \in Principals, NEW t \in FirstTask(l, r)
  PROVE  t \in Tasks
BY DEF FirstTask, rule_match, PairTask, Tasks

\* The value of an end is a value.
LEMMA EndFacts ==
  ASSUME NEW e \in Ends
  PROVE  e[1] \in Values
BY DEF Ends, Values

\* worker_connect: a call takes two ends.
LEMMA CallBasics ==
  ASSUME TypeOK, CallKnows, LinksFollowNet,
         NEW c \in Calls, NEW e \in Ends, NEW f \in Ends, Call(c, e, f)
  PROVE  TypeOK' /\ CallKnows' /\ LinksFollowNet'
<1>1. e[1] \in Values /\ f[1] \in Values
  BY EndFacts
<1>2. TypeOK'
  BY <1>1 DEF TypeOK, Call, Goto, Drop, Labels, nodeVars
<1>3. CallKnows'
  BY <1>1 DEF TypeOK, CallKnows, Connecting, Call, Goto, Drop
<1>4. LinksFollowNet'
  <2> SUFFICES ASSUME NEW S \in SUBSET Values, Closed(S)', Closed(S),
                      CallsWithin(S), WiresWithin(S), JoinsWithin(S)
               PROVE  CallsWithin(S)' /\ WiresWithin(S)' /\ JoinsWithin(S)'
    BY DEF LinksFollowNet, Closed, Call
  <2>0. e[1] \in S <=> f[1] \in S
    <3>1. {e[1], f[1]} \in net'
      BY DEF Call
    <3> QED BY <3>1, Zenon DEF Closed
  <2>1. CallsWithin(S)'
    <3> SUFFICES ASSUME NEW d \in Calls, Connecting(d)'
                 PROVE  left'[d] \in S <=> right'[d] \in S
      BY DEF CallsWithin
    <3>1. CASE d = c
      BY <2>0, <3>1 DEF TypeOK, Call
    <3>2. CASE d # c
      BY <3>2 DEF CallsWithin, TypeOK, Connecting, Call, Goto, Drop
    <3> QED BY <3>1, <3>2
  <2>2. WiresWithin(S)'
    BY <1>1 DEF WiresWithin, TypeOK, Call
  <2>3. JoinsWithin(S)'
    BY <1>1 DEF CallsWithin, JoinsWithin, Connecting, Call
  <2> QED BY <2>1, <2>2, <2>3
<1> QED BY <1>2, <1>3, <1>4

\* fuze: the compare-and-exchange.
LEMMA FuzeBasics ==
  ASSUME TypeOK, CallKnows, LinksFollowNet, NEW c \in Calls, fuze(c)
  PROVE  TypeOK' /\ CallKnows' /\ LinksFollowNet'
<1>1. /\ Target(c) \in Wires /\ Target(c) \in Values /\ Other(c) \in Values
      /\ Other(c) # Null
  BY KindsAssumption DEF fuze, CallKnows, Connecting, Target, Other, Values
<1>2. TypeOK'
  BY <1>1 DEF TypeOK, fuze, Goto, Drop, Labels, nodeVars, history
<1>3. CallKnows'
  BY <1>1 DEF TypeOK, CallKnows, Connecting, fuze, Goto, Drop
<1>4. \A S \in SUBSET Values : Closed(S) => (Target(c) \in S <=> Other(c) \in S)
  BY DEF LinksFollowNet, CallsWithin, Connecting, fuze, Target, Other
<1>5. LinksFollowNet'
  <2> SUFFICES ASSUME NEW S \in SUBSET Values, Closed(S)', Closed(S),
                      CallsWithin(S), WiresWithin(S), JoinsWithin(S)
               PROVE  CallsWithin(S)' /\ WiresWithin(S)' /\ JoinsWithin(S)'
    BY DEF LinksFollowNet, Closed, fuze, history
  <2>1. CallsWithin(S)'
    BY <1>1, <1>4 DEF CallsWithin, WiresWithin, TypeOK, Connecting, Closed, fuze, Goto, Drop
  <2>2. WiresWithin(S)'
    BY <1>1, <1>4 DEF WiresWithin, TypeOK, fuze
  <2>3. JoinsWithin(S)'
    BY <1>1, <1>4 DEF CallsWithin, JoinsWithin, Connecting, fuze, history
  <2> QED BY <2>1, <2>2, <2>3
<1> QED BY <1>2, <1>3, <1>5

\* wire_destroy, after a compare-and-exchange that failed.
LEMMA DestroyBasics ==
  ASSUME TypeOK, CallKnows, LinksFollowNet, NEW c \in Calls, wire_destroy(c)
  PROVE  TypeOK' /\ CallKnows' /\ LinksFollowNet'
<1>1. /\ left[c] \in Wires /\ fuzed[left[c]] \in Values
      /\ right[c] \in Values /\ Connecting(c)
  BY DEF wire_destroy, TypeOK, CallKnows, Connecting
<1>2. TypeOK'
  BY <1>1 DEF TypeOK, wire_destroy, Goto, Drop, Labels, nodeVars, history
<1>3. CallKnows'
  BY <1>1 DEF TypeOK, CallKnows, Connecting, wire_destroy, Goto, Drop
<1>4. LinksFollowNet'
  <2> SUFFICES ASSUME NEW S \in SUBSET Values, Closed(S)', Closed(S),
                      CallsWithin(S), WiresWithin(S), JoinsWithin(S)
               PROVE  CallsWithin(S)' /\ WiresWithin(S)' /\ JoinsWithin(S)'
    BY DEF LinksFollowNet, Closed, wire_destroy, history
  <2>0. fuzed[left[c]] \in S <=> right[c] \in S
    BY <1>1 DEF CallsWithin, WiresWithin, CallKnows, wire_destroy
  <2>1. CallsWithin(S)'
    BY <2>0 DEF CallsWithin, TypeOK, Connecting, wire_destroy, Goto, Drop
  <2>2. WiresWithin(S)'
    BY <1>1 DEF WiresWithin, TypeOK, wire_destroy
  <2>3. JoinsWithin(S)'
    BY <1>1 DEF CallsWithin, JoinsWithin, Connecting, wire_destroy, history
  <2> QED BY <2>1, <2>2, <2>3
<1> QED BY <1>2, <1>3, <1>4

\* connect_active_pair.
LEMMA PairBasics ==
  ASSUME TypeOK, CallKnows, LinksFollowNet, NEW c \in Calls, connect_active_pair(c)
  PROVE  TypeOK' /\ CallKnows' /\ LinksFollowNet'
<1>1. {left[c], right[c]} \in SUBSET Terminals
  BY DEF connect_active_pair, Terminals
<1>2. task' \in [Calls -> Tasks \union {Null}]
  BY FirstTaskType DEF TypeOK, connect_active_pair, Return
<1>3. TypeOK'
  BY <1>1, <1>2 DEF TypeOK, connect_active_pair, Goto, Drop, Labels, nodeVars
<1>4. CallKnows'
  BY DEF TypeOK, CallKnows, Connecting, connect_active_pair, Goto, Drop
<1>5. LinksFollowNet'
  <2> SUFFICES ASSUME NEW S \in SUBSET Values, Closed(S)', Closed(S),
                      CallsWithin(S), WiresWithin(S), JoinsWithin(S)
               PROVE  CallsWithin(S)' /\ WiresWithin(S)' /\ JoinsWithin(S)'
    BY DEF LinksFollowNet, Closed, connect_active_pair
  <2>1. CallsWithin(S)'
    BY DEF CallsWithin, WiresWithin, TypeOK, Connecting, Closed, connect_active_pair, Goto, Drop
  <2>2. WiresWithin(S)'
    BY DEF WiresWithin, TypeOK, connect_active_pair
  <2>3. JoinsWithin(S)'
    BY DEF CallsWithin, JoinsWithin, Connecting, connect_active_pair
  <2> QED BY <2>1, <2>2, <2>3
<1> QED BY <1>3, <1>4, <1>5

\* collect_primitive_arg, up to the wire it frees.
LEMMA CollectBasics ==
  ASSUME TypeOK, CallKnows, LinksFollowNet, NEW c \in Calls, collect_primitive_arg(c)
  PROVE  TypeOK' /\ CallKnows' /\ LinksFollowNet'
<1>1. PICK p \in Principals, v \in Plain :
        /\ {left[c], right[c]} = {p, v}
        /\ IF IsPrimitive(Node[p])
           THEN /\ freed' = freed \union {p}
                /\ Goto(c, "set_value")
           ELSE /\ Goto(c, "abort")
                /\ UNCHANGED freed
        /\ left' = [left EXCEPT ![c] = p]
        /\ right' = [right EXCEPT ![c] = v]
        /\ joined' = joined \union {{p, v}}
  BY DEF collect_primitive_arg
<1>2. {p, v} \in SUBSET Terminals /\ p \in Values /\ v \in Values
  BY DEF Terminals, Values
<1>3. TypeOK'
  BY <1>1, <1>2 DEF TypeOK, collect_primitive_arg, Goto, Drop, Labels, nodeVars
<1>4. CallKnows'
  BY <1>1 DEF TypeOK, CallKnows, Connecting, collect_primitive_arg, Goto, Drop
<1>5. \A S \in SUBSET Values : Closed(S) => (p \in S <=> v \in S)
  BY <1>1 DEF LinksFollowNet, CallsWithin, Connecting, collect_primitive_arg
<1>6. LinksFollowNet'
  <2> SUFFICES ASSUME NEW S \in SUBSET Values, Closed(S)', Closed(S),
                      CallsWithin(S), WiresWithin(S), JoinsWithin(S)
               PROVE  CallsWithin(S)' /\ WiresWithin(S)' /\ JoinsWithin(S)'
    BY DEF LinksFollowNet, Closed, collect_primitive_arg
  <2>1. CallsWithin(S)'
    BY <1>1, <1>5 DEF CallsWithin, WiresWithin, TypeOK, Connecting, Closed, collect_primitive_arg, Goto, Drop
  <2>2. WiresWithin(S)'
    BY <1>1, <1>5 DEF WiresWithin, TypeOK, collect_primitive_arg
  <2>3. JoinsWithin(S)'
    BY <1>1, <1>5 DEF CallsWithin, JoinsWithin, Connecting, collect_primitive_arg
  <2> QED BY <2>1, <2>2, <2>3
<1> QED BY <1>3, <1>4, <1>6

\* node_set_value, of an argument.
LEMMA SetValueBasics ==
  ASSUME TypeOK, CallKnows, LinksFollowNet, NEW c \in Calls, node_set_value(c)
  PROVE  TypeOK' /\ CallKnows' /\ LinksFollowNet'
<1>1. left[c] \in Principals /\ right[c] \in Plain
  BY DEF node_set_value, CallKnows
<1>2. TypeOK'
  BY <1>1 DEF TypeOK, node_set_value, Goto, Drop, Labels, history
<1>3. CallKnows'
  BY DEF TypeOK, CallKnows, Connecting, node_set_value, Goto, Drop
<1>4. LinksFollowNet'
  <2> SUFFICES ASSUME NEW S \in SUBSET Values, Closed(S)', Closed(S),
                      CallsWithin(S), WiresWithin(S), JoinsWithin(S)
               PROVE  CallsWithin(S)' /\ WiresWithin(S)' /\ JoinsWithin(S)'
    BY DEF LinksFollowNet, Closed, node_set_value, history
  <2>1. CallsWithin(S)'
    BY DEF CallsWithin, WiresWithin, TypeOK, Connecting, Closed, node_set_value, Goto, Drop
  <2>2. WiresWithin(S)'
    BY DEF WiresWithin, TypeOK, node_set_value
  <2>3. JoinsWithin(S)'
    BY DEF CallsWithin, JoinsWithin, Connecting, node_set_value, history
  <2> QED BY <2>1, <2>2, <2>3
<1> QED BY <1>2, <1>3, <1>4

\* The fetch_add that counts an argument.
LEMMA FetchAddBasics ==
  ASSUME TypeOK, CallKnows, LinksFollowNet, NEW c \in Calls,
         node_primitive_arg_count_fetch_add1(c)
  PROVE  TypeOK' /\ CallKnows' /\ LinksFollowNet'
<1>1. Node[left[c]] \in Nodes
  BY NodeAssumption DEF node_primitive_arg_count_fetch_add1, CallKnows
<1>2. PrimitiveTask(Node[left[c]]) \in Tasks
  BY <1>1 DEF PrimitiveTask, Tasks
<1>3. task' \in [Calls -> Tasks \union {Null}]
  BY <1>2 DEF TypeOK, node_primitive_arg_count_fetch_add1, Return
<1>4a. arg_count' \in [Nodes -> Nat]
  BY <1>1 DEF TypeOK, node_primitive_arg_count_fetch_add1
<1>4. TypeOK'
  BY <1>3, <1>4a DEF TypeOK, node_primitive_arg_count_fetch_add1, Goto, Drop, Labels, history
<1>5. CallKnows'
  BY DEF TypeOK, CallKnows, Connecting, node_primitive_arg_count_fetch_add1, Goto, Drop
<1>6. LinksFollowNet'
  <2> SUFFICES ASSUME NEW S \in SUBSET Values, Closed(S)', Closed(S),
                      CallsWithin(S), WiresWithin(S), JoinsWithin(S)
               PROVE  CallsWithin(S)' /\ WiresWithin(S)' /\ JoinsWithin(S)'
    BY DEF LinksFollowNet, Closed, node_primitive_arg_count_fetch_add1, history
  <2>1. CallsWithin(S)'
    BY DEF CallsWithin, WiresWithin, TypeOK, Connecting, Closed, node_primitive_arg_count_fetch_add1, Goto, Drop
  <2>2. WiresWithin(S)'
    BY DEF WiresWithin, TypeOK, node_primitive_arg_count_fetch_add1
  <2>3. JoinsWithin(S)'
    BY DEF CallsWithin, JoinsWithin, Connecting, node_primitive_arg_count_fetch_add1, history
  <2> QED BY <2>1, <2>2, <2>3
<1> QED BY <1>4, <1>5, <1>6

\* connect of two values that no case covers.
LEMMA AbortBasics ==
  ASSUME TypeOK, CallKnows, LinksFollowNet, NEW c \in Calls, connect_abort(c)
  PROVE  TypeOK' /\ CallKnows' /\ LinksFollowNet'
<1>1. {left[c], right[c]} \in SUBSET Terminals
  BY DEF connect_abort, Terminals
<1>2. TypeOK'
  BY <1>1 DEF TypeOK, connect_abort, Goto, Drop, Labels, nodeVars
<1>3. CallKnows'
  BY DEF TypeOK, CallKnows, Connecting, connect_abort, Goto, Drop
<1>4. LinksFollowNet'
  <2> SUFFICES ASSUME NEW S \in SUBSET Values, Closed(S)', Closed(S),
                      CallsWithin(S), WiresWithin(S), JoinsWithin(S)
               PROVE  CallsWithin(S)' /\ WiresWithin(S)' /\ JoinsWithin(S)'
    BY DEF LinksFollowNet, Closed, connect_abort
  <2>1. CallsWithin(S)'
    BY DEF CallsWithin, WiresWithin, TypeOK, Connecting, Closed, connect_abort, Goto, Drop
  <2>2. WiresWithin(S)'
    BY DEF WiresWithin, TypeOK, connect_abort
  <2>3. JoinsWithin(S)'
    BY DEF CallsWithin, JoinsWithin, Connecting, connect_abort
  <2> QED BY <2>1, <2>2, <2>3
<1> QED BY <1>2, <1>3, <1>4

----------------------------------------------------------------------------
(* Linearity, action by action. *)

\* A value of which the counts and the status are unchanged.
LEMMA SameCount ==
  ASSUME Linear, NEW v \in Values,
         Zero(content, v) => Zero(content', v),
         One(content, v) => One(content', v),
         Two(content, v) => Two(content', v),
         Gone(v)' <=> Gone(v), Doubled(v)' <=> Doubled(v)
  PROVE  /\ Gone(v)' => Zero(content', v)
         /\ Gone(v)' \/ ~Doubled(v)' \/ Two(content', v)
         /\ Gone(v)' \/ Doubled(v)' \/ One(content', v)
BY DEF Linear

\* Linear after a step, for each value one of its three cases.
LEMMA LinearNext ==
  ASSUME \A v \in Values :
           /\ Gone(v)' => Zero(content', v)
           /\ Gone(v)' \/ ~Doubled(v)' \/ Two(content', v)
           /\ Gone(v)' \/ Doubled(v)' \/ One(content', v)
  PROVE  Linear'
BY DEF Linear, Zero, One, Two

\* What is in a place has not been freed and has not met anybody.
LEMMA HeldNotGone ==
  ASSUME Linear, NEW x \in Places, content[x] \in Values
  PROVE  ~Gone(content[x])
BY DEF Linear, Zero

\* A call moves its two ends from the net into its arguments: no value is
\* copied or dropped.
LEMMA CallLinear ==
  ASSUME TypeOK, CallKnows, Linear,
         NEW c \in Calls, NEW e \in Ends, NEW f \in Ends, Call(c, e, f)
  PROVE  Linear'
<1> DEFINE E == EndPlace(e)
           F == EndPlace(f)
           L == LeftPlace(c)
           R == RightPlace(c)
           g == [x \in Places |-> IF x = E THEN content[L]
                                  ELSE IF x = L THEN content[E] ELSE content[x]]
<1>1. E \in Places /\ F \in Places /\ L \in Places /\ R \in Places
  BY PlaceFacts
<1>2. E # F /\ E # L /\ E # R /\ F # L /\ F # R /\ L # R
  BY Distinct DEF Call
<1>3. content[E] = e[1] /\ content[F] = f[1] /\ content[L] = Null /\ content[R] = Null
  BY ContentFacts DEF Call, Connecting
<1>4. /\ content'[E] = Null /\ content'[F] = Null
      /\ content'[L] = e[1] /\ content'[R] = f[1]
  BY ContentFactsNext DEF Call, Connecting, Goto, Drop, TypeOK
<1>5. ASSUME NEW x \in Places, x \notin {E, F, L, R} PROVE content'[x] = content[x]
  <2>1. CASE \E a \in Ends : x = EndPlace(a)
    BY <1>5, <2>1, ContentFacts, ContentFactsNext DEF Call
  <2>2. CASE \E d \in Calls : x = LeftPlace(d)
    BY <1>5, <2>2, ContentFacts, ContentFactsNext DEF Call, Connecting, Goto, Drop, TypeOK
  <2>3. CASE \E d \in Calls : x = RightPlace(d)
    BY <1>5, <2>3, ContentFacts, ContentFactsNext DEF Call, Connecting, Goto, Drop, TypeOK
  <2>4. CASE \E w \in Wires : x = WirePlace(w)
    BY <2>4, ContentFacts, ContentFactsNext DEF Call
  <2> QED BY <2>1, <2>2, <2>3, <2>4, PlaceFacts
<1>6. Exchanged(content, g, E, L)
  BY DEF Exchanged
<1>7. Exchanged(g, content', F, R)
  BY <1>1, <1>2, <1>3, <1>4, <1>5 DEF Exchanged
<1> HIDE DEF E, F, L, R, g
<1>8. ASSUME NEW v \in Values
      PROVE  /\ Zero(content, v) => Zero(content', v)
             /\ One(content, v) => One(content', v)
             /\ Two(content, v) => Two(content', v)
  <2>1. /\ Zero(content, v) => Zero(g, v)
        /\ One(content, v) => One(g, v)
        /\ Two(content, v) => Two(g, v)
    BY <1>1, <1>6, Exchange
  <2>2. /\ Zero(g, v) => Zero(content', v)
        /\ One(g, v) => One(content', v)
        /\ Two(g, v) => Two(content', v)
    BY <1>1, <1>7, Exchange
  <2> QED BY <2>1, <2>2
<1>9. \A v \in Values : (Gone(v)' <=> Gone(v)) /\ (Doubled(v)' <=> Doubled(v))
  BY DEF Gone, Met, Doubled, Call
<1> QED BY <1>8, <1>9, SameCount, LinearNext

\* fuze puts the other value into the wire, or only turns its two values round.
LEMMA FuzeLinear ==
  ASSUME TypeOK, CallKnows, Linear, NEW c \in Calls, fuze(c)
  PROVE  Linear'
<1> DEFINE L == LeftPlace(c)
           R == RightPlace(c)
           W == WirePlace(Target(c))
           T == IF left[c] \in Wires THEN L ELSE R
           O == IF left[c] \in Wires THEN R ELSE L
<1>1. Target(c) \in Wires /\ Other(c) \in Values /\ Target(c) # Null /\ Other(c) # Null
  BY KindsAssumption DEF fuze, CallKnows, Connecting, Target, Other, Values
<1>2. L \in Places /\ R \in Places /\ W \in Places /\ T \in Places /\ O \in Places
  BY <1>1, PlaceFacts
<1>3. L # R /\ L # W /\ R # W /\ T # O /\ T # W /\ O # W
  BY Distinct
<1>4. content[T] = Target(c) /\ content[O] = Other(c)
  BY ContentFacts DEF fuze, Connecting, Target, Other
<1>5. content[W] = IF Target(c) \in freed THEN Null ELSE fuzed[Target(c)]
  BY <1>1, ContentFacts
<1>6. ~Gone(Target(c))
  <2>1. content[T] \in Values
    BY <1>1, <1>4 DEF Values
  <2> HIDE DEF T
  <2> QED BY <2>1, <1>2, <1>4, HeldNotGone
<1>7. CASE fuzed[Target(c)] = Null
  <2> DEFINE g == [x \in Places |-> IF x = O THEN content[W]
                                    ELSE IF x = W THEN content[O] ELSE content[x]]
  <2>1. content'[L] = Null /\ content'[R] = Null
    BY <1>7, ContentFactsNext DEF fuze, Connecting, Goto, Drop, TypeOK
  <2>2. content'[W] = Other(c)
    BY <1>1, <1>6, <1>7, ContentFactsNext DEF fuze, TypeOK, Gone
  <2>3. ASSUME NEW x \in Places, x \notin {L, R, W} PROVE content'[x] = content[x]
    <3>1. CASE \E a \in Ends : x = EndPlace(a)
      BY <3>1, ContentFacts, ContentFactsNext DEF fuze
    <3>2. CASE \E d \in Calls : x = LeftPlace(d)
      BY <1>7, <2>3, <3>2, ContentFacts, ContentFactsNext DEF fuze, Connecting, Goto, Drop, TypeOK
    <3>3. CASE \E d \in Calls : x = RightPlace(d)
      BY <1>7, <2>3, <3>3, ContentFacts, ContentFactsNext DEF fuze, Connecting, Goto, Drop, TypeOK
    <3>4. CASE \E w \in Wires : x = WirePlace(w)
      BY <1>1, <1>7, <2>3, <3>4, ContentFacts, ContentFactsNext DEF fuze, TypeOK
    <3> QED BY <3>1, <3>2, <3>3, <3>4, PlaceFacts
  <2>4. content[W] = Null
    BY <1>5, <1>7
  <2>5. Exchanged(content, g, O, W)
    BY DEF Exchanged
  <2>6. Erased(g, content', T)
    BY <1>2, <1>3, <1>4, <2>1, <2>2, <2>3, <2>4 DEF Erased
  <2>7. g[T] = Target(c)
    BY <1>2, <1>3, <1>4
  <2>8. ASSUME NEW v \in Values, v # Target(c)
        PROVE  (Gone(v)' <=> Gone(v)) /\ (Doubled(v)' <=> Doubled(v))
    BY <1>7, <2>8 DEF Gone, Met, Doubled, fuze, TypeOK, history
  <2>9. ASSUME NEW v \in Values, v = Target(c)
        PROVE  ~Doubled(v)' /\ Doubled(v) /\ ~Gone(v)'
    BY <1>1, <1>6, <1>7, <2>9 DEF Gone, Met, Doubled, fuze, TypeOK, history
  <2> HIDE DEF L, R, W, T, O, g
  <2>10. ASSUME NEW v \in Values
         PROVE  /\ Gone(v)' => Zero(content', v)
                /\ Gone(v)' \/ ~Doubled(v)' \/ Two(content', v)
                /\ Gone(v)' \/ Doubled(v)' \/ One(content', v)
    <3>1. /\ Zero(content, v) => Zero(g, v)
          /\ One(content, v) => One(g, v)
          /\ Two(content, v) => Two(g, v)
      BY <1>2, <2>5, Exchange
    <3>2. v # Null
      BY KindsAssumption
    <3>3. /\ Zero(g, v) => Zero(content', v)
          /\ One(g, v) => IF g[T] = v THEN Zero(content', v) ELSE One(content', v)
          /\ Two(g, v) => IF g[T] = v THEN One(content', v) ELSE Two(content', v)
      BY <1>2, <2>6, <3>2, Erase
    <3>4. CASE v = Target(c)
      BY <1>6, <2>7, <2>9, <3>1, <3>3, <3>4 DEF Linear
    <3>5. CASE v # Target(c)
      BY <2>7, <2>8, <3>1, <3>3, <3>5, SameCount
    <3> QED BY <3>4, <3>5
  <2> QED BY <2>10, LinearNext
<1>8. CASE fuzed[Target(c)] # Null
  <2>1. content'[L] = Target(c) /\ content'[R] = Other(c)
    BY <1>8, ContentFactsNext DEF fuze, Connecting, Goto, Drop, TypeOK
  <2>2. ASSUME NEW x \in Places, x \notin {L, R} PROVE content'[x] = content[x]
    <3>1. CASE \E a \in Ends : x = EndPlace(a)
      BY <3>1, ContentFacts, ContentFactsNext DEF fuze
    <3>2. CASE \E d \in Calls : x = LeftPlace(d)
      BY <1>8, <2>2, <3>2, ContentFacts, ContentFactsNext DEF fuze, Connecting, Goto, Drop, TypeOK
    <3>3. CASE \E d \in Calls : x = RightPlace(d)
      BY <1>8, <2>2, <3>3, ContentFacts, ContentFactsNext DEF fuze, Connecting, Goto, Drop, TypeOK
    <3>4. CASE \E w \in Wires : x = WirePlace(w)
      BY <1>8, <3>4, ContentFacts, ContentFactsNext DEF fuze
    <3> QED BY <3>1, <3>2, <3>3, <3>4, PlaceFacts
  <2>3. Exchanged(content, content', L, T)
    BY <1>2, <1>3, <1>4, <2>1, <2>2 DEF Exchanged
  <2>4. \A v \in Values : (Gone(v)' <=> Gone(v)) /\ (Doubled(v)' <=> Doubled(v))
    BY <1>8 DEF Gone, Met, Doubled, fuze, history
  <2> HIDE DEF L, R, W, T, O
  <2>5. ASSUME NEW v \in Values
        PROVE  /\ Zero(content, v) => Zero(content', v)
               /\ One(content, v) => One(content', v)
               /\ Two(content, v) => Two(content', v)
    BY <1>2, <2>3, Exchange
  <2> QED BY <2>4, <2>5, SameCount, LinearNext
<1> QED BY <1>7, <1>8

\* wire_destroy takes the value out of the wire and drops the wire.
LEMMA DestroyLinear ==
  ASSUME TypeOK, CallKnows, Linear, NEW c \in Calls, wire_destroy(c)
  PROVE  Linear'
<1> DEFINE w == left[c]
           L == LeftPlace(c)
           W == WirePlace(w)
           g == [x \in Places |-> IF x = L THEN content[W]
                                  ELSE IF x = W THEN content[L] ELSE content[x]]
<1>1. w \in Wires /\ w \in Values /\ fuzed[w] # Null /\ fuzed[w] \in Values
  BY DEF wire_destroy, CallKnows, TypeOK, Values
<1>2. L \in Places /\ W \in Places /\ L # W
  BY <1>1, PlaceFacts, Distinct
<1>3. content[L] = w
  BY ContentFacts DEF wire_destroy, Connecting
<1>4. ~Gone(w)
  <2> HIDE DEF w, L
  <2> QED BY <1>1, <1>2, <1>3, HeldNotGone
<1>5. content[W] = fuzed[w]
  BY <1>1, <1>4, ContentFacts DEF Gone
<1>6. content'[L] = fuzed[w]
  BY ContentFactsNext DEF wire_destroy, Connecting, Goto, Drop, TypeOK
<1>7. content'[W] = Null
  BY <1>1, ContentFactsNext DEF wire_destroy
<1>8. ASSUME NEW x \in Places, x \notin {L, W} PROVE content'[x] = content[x]
  <2>1. CASE \E a \in Ends : x = EndPlace(a)
    BY <2>1, ContentFacts, ContentFactsNext DEF wire_destroy
  <2>2. CASE \E d \in Calls : x = LeftPlace(d)
    BY <1>8, <2>2, ContentFacts, ContentFactsNext DEF wire_destroy, Connecting, Goto, Drop, TypeOK
  <2>3. CASE \E d \in Calls : x = RightPlace(d)
    BY <2>3, ContentFacts, ContentFactsNext DEF wire_destroy, Connecting, Goto, Drop, TypeOK
  <2>4. CASE \E u \in Wires : x = WirePlace(u)
    BY <1>1, <1>8, <2>4, ContentFacts, ContentFactsNext DEF wire_destroy
  <2> QED BY <2>1, <2>2, <2>3, <2>4, PlaceFacts
<1>9. Exchanged(content, g, L, W)
  BY DEF Exchanged
<1>10. Erased(g, content', W)
  BY <1>2, <1>3, <1>5, <1>6, <1>7, <1>8 DEF Erased
<1>11. g[W] = w
  BY <1>2, <1>3
<1>12. ASSUME NEW v \in Values, v # w
       PROVE  (Gone(v)' <=> Gone(v)) /\ (Doubled(v)' <=> Doubled(v))
  BY <1>12 DEF Gone, Met, Doubled, wire_destroy, history
<1>13. ASSUME NEW v \in Values, v = w PROVE ~Doubled(v) /\ Gone(v)'
  BY <1>1, <1>13 DEF Gone, Doubled, wire_destroy
<1> HIDE DEF L, W, g
<1>14. ASSUME NEW v \in Values
       PROVE  /\ Gone(v)' => Zero(content', v)
              /\ Gone(v)' \/ ~Doubled(v)' \/ Two(content', v)
              /\ Gone(v)' \/ Doubled(v)' \/ One(content', v)
  <2>1. /\ Zero(content, v) => Zero(g, v)
        /\ One(content, v) => One(g, v)
        /\ Two(content, v) => Two(g, v)
    BY <1>2, <1>9, Exchange
  <2>2. v # Null
    BY KindsAssumption
  <2>3. /\ Zero(g, v) => Zero(content', v)
        /\ One(g, v) => IF g[W] = v THEN Zero(content', v) ELSE One(content', v)
        /\ Two(g, v) => IF g[W] = v THEN One(content', v) ELSE Two(content', v)
    BY <1>2, <1>10, <2>2, Erase
  <2>4. CASE v = w
    BY <1>4, <1>11, <1>13, <2>1, <2>3, <2>4 DEF Linear
  <2>5. CASE v # w
    BY <1>11, <1>12, <2>1, <2>3, <2>5, SameCount
  <2> QED BY <2>4, <2>5
<1> QED BY <1>14, LinearNext

\* The call's two terminals meet.
Meet(c) ==
  /\ pc[c] = "connect"
  /\ left[c] \in Terminals /\ right[c] \in Terminals
  /\ \E label \in Labels \ {"connect", "destroy"} : Goto(c, label)
  /\ joined' = joined \union {{left[c], right[c]}}
  /\ freed \subseteq freed' /\ freed' \subseteq freed \union {left[c], right[c]}
  /\ \E v, u : left' = [left EXCEPT ![c] = v] /\ right' = [right EXCEPT ![c] = u]
  /\ UNCHANGED <<fuzed, loose>>

\* The three ends of connect that terminals meet at.
LEMMA MeetSteps ==
  ASSUME TypeOK, NEW c \in Calls,
         connect_active_pair(c) \/ collect_primitive_arg(c) \/ connect_abort(c)
  PROVE  Meet(c) /\ net' = net
<1>1. CASE connect_active_pair(c)
  <2>1. /\ left' = [left EXCEPT ![c] = Null]
        /\ right' = [right EXCEPT ![c] = Null]
    BY <1>1 DEF connect_active_pair, Drop
  <2> QED BY <1>1, <2>1 DEF connect_active_pair, Meet, Terminals, Labels
<1>2. CASE collect_primitive_arg(c)
  <2>1. PICK p \in Principals, v \in Plain :
          /\ {left[c], right[c]} = {p, v}
          /\ \/ freed' = freed \union {p} /\ Goto(c, "set_value")
             \/ freed' = freed /\ Goto(c, "abort")
          /\ left' = [left EXCEPT ![c] = p]
          /\ right' = [right EXCEPT ![c] = v]
          /\ joined' = joined \union {{p, v}}
    BY <1>2 DEF collect_primitive_arg
  <2> QED BY <1>2, <2>1 DEF collect_primitive_arg, Meet, Terminals, Labels
<1>3. CASE connect_abort(c)
  <2>1. /\ left' = [left EXCEPT ![c] = left[c]]
        /\ right' = [right EXCEPT ![c] = right[c]]
    BY <1>3 DEF connect_abort, TypeOK
  <2> QED BY <1>3, <2>1 DEF connect_abort, Meet, Terminals, Labels
<1> QED BY <1>1, <1>2, <1>3

\* Two terminals that meet leave their call, and are in no other place.
LEMMA MeetLinear ==
  ASSUME TypeOK, CallKnows, Linear, NEW c \in Calls, Meet(c)
  PROVE  Linear'
<1> DEFINE L == LeftPlace(c)
           R == RightPlace(c)
           g == [x \in Places |-> IF x = L THEN Null ELSE content[x]]
<1>1. L \in Places /\ R \in Places /\ L # R
  BY PlaceFacts, Distinct
<1>2. content[L] = left[c] /\ content[R] = right[c]
  BY ContentFacts DEF Meet, Connecting
<1>3. PICK label \in Labels \ {"connect", "destroy"} : Goto(c, label)
  BY DEF Meet
<1>4. content'[L] = Null /\ content'[R] = Null
  BY <1>3, ContentFactsNext DEF Connecting, Goto, Drop, TypeOK
<1>5. ASSUME NEW x \in Places, x \notin {L, R} PROVE content'[x] = content[x]
  <2>1. CASE \E a \in Ends : x = EndPlace(a)
    BY <2>1, ContentFacts, ContentFactsNext DEF Meet
  <2>2. CASE \E d \in Calls : x = LeftPlace(d)
    BY <1>3, <1>5, <2>2, ContentFacts, ContentFactsNext DEF Meet, Connecting, Goto, Drop, TypeOK
  <2>3. CASE \E d \in Calls : x = RightPlace(d)
    BY <1>3, <1>5, <2>3, ContentFacts, ContentFactsNext DEF Meet, Connecting, Goto, Drop, TypeOK
  <2>4. CASE \E w \in Wires : x = WirePlace(w)
    <3>1. PICK w \in Wires : x = WirePlace(w)
      BY <2>4
    <3>2. w \in freed' <=> w \in freed
      BY KindsAssumption DEF Meet
    <3> QED BY <3>1, <3>2, ContentFacts, ContentFactsNext DEF Meet
  <2> QED BY <2>1, <2>2, <2>3, <2>4, PlaceFacts
<1>6. Erased(content, g, L)
  BY DEF Erased
<1>7. Erased(g, content', R)
  BY <1>1, <1>4, <1>5 DEF Erased
<1>8. g[R] = right[c]
  BY <1>1, <1>2
<1>9. ASSUME NEW v \in Values, v \notin {left[c], right[c]}
      PROVE  (Gone(v)' <=> Gone(v)) /\ (Doubled(v)' <=> Doubled(v))
  BY <1>9 DEF Gone, Met, Doubled, Meet
<1>10. ASSUME NEW v \in Values, v \in {left[c], right[c]}
       PROVE  Gone(v)' /\ ~Doubled(v)
  BY <1>10, KindsAssumption DEF Gone, Met, Doubled, Meet
<1>11. ASSUME NEW v \in Values
       PROVE  v = left[c] \/ v = right[c] => ~Gone(v)
  <2> HIDE DEF L, R
  <2> QED BY <1>1, <1>2, HeldNotGone
<1> HIDE DEF L, R, g
<1>12. ASSUME NEW v \in Values
       PROVE  /\ Gone(v)' => Zero(content', v)
              /\ Gone(v)' \/ ~Doubled(v)' \/ Two(content', v)
              /\ Gone(v)' \/ Doubled(v)' \/ One(content', v)
  <2>1. v # Null
    BY KindsAssumption
  <2>2. /\ Zero(content, v) => Zero(g, v)
        /\ One(content, v) => IF content[L] = v THEN Zero(g, v) ELSE One(g, v)
        /\ Two(content, v) => IF content[L] = v THEN One(g, v) ELSE Two(g, v)
    BY <1>1, <1>6, <2>1, Erase
  <2>3. /\ Zero(g, v) => Zero(content', v)
        /\ One(g, v) => IF g[R] = v THEN Zero(content', v) ELSE One(content', v)
        /\ Two(g, v) => IF g[R] = v THEN One(content', v) ELSE Two(content', v)
    BY <1>1, <1>7, <2>1, Erase
  <2>4. CASE v \in {left[c], right[c]}
    <3>1. One(content, v)
      BY <1>10, <1>11, <2>4 DEF Linear
    <3>2. Zero(content', v)
      BY <1>2, <1>8, <2>2, <2>3, <2>4, <3>1
    <3> QED BY <1>10, <2>4, <3>2
  <2>5. CASE v \notin {left[c], right[c]}
    BY <1>2, <1>8, <1>9, <2>2, <2>3, <2>5, SameCount
  <2> QED BY <2>4, <2>5
<1> QED BY <1>12, LinearNext

\* A step that moves nothing.
LEMMA RestLinear ==
  ASSUME Linear, UNCHANGED <<fuzed, freed, loose, joined>>,
         \A c \in Calls : Connecting(c)' <=> Connecting(c),
         \A c \in Calls : Connecting(c) => left'[c] = left[c] /\ right'[c] = right[c]
  PROVE  Linear'
<1>1. ASSUME NEW x \in Places PROVE content'[x] = content[x]
  <2>1. CASE \E e \in Ends : x = EndPlace(e)
    BY <2>1, ContentFacts, ContentFactsNext
  <2>2. CASE \E c \in Calls : x = LeftPlace(c)
    BY <2>2, ContentFacts, ContentFactsNext
  <2>3. CASE \E c \in Calls : x = RightPlace(c)
    BY <2>3, ContentFacts, ContentFactsNext
  <2>4. CASE \E w \in Wires : x = WirePlace(w)
    BY <2>4, ContentFacts, ContentFactsNext
  <2> QED BY <2>1, <2>2, <2>3, <2>4, PlaceFacts
<1>2. \A v \in Values : (Gone(v)' <=> Gone(v)) /\ (Doubled(v)' <=> Doubled(v))
  BY DEF Gone, Met, Doubled
<1>3. ASSUME NEW v \in Values
      PROVE  /\ Zero(content, v) => Zero(content', v)
             /\ One(content, v) => One(content', v)
             /\ Two(content, v) => Two(content', v)
  <2>1. Zero(content, v) => Zero(content', v)
    BY <1>1 DEF Zero
  <2>2. One(content, v) => One(content', v)
    BY <1>1 DEF One
  <2>3. ASSUME Two(content, v) PROVE Two(content', v)
    <3>1. PICK x \in Places, y \in Places :
            /\ x # y /\ content[x] = v /\ content[y] = v
            /\ \A z \in Places : content[z] = v => z = x \/ z = y
      BY <2>3 DEF Two
    <3>2. /\ content'[x] = v /\ content'[y] = v
          /\ \A z \in Places : content'[z] = v => z = x \/ z = y
      BY <1>1, <3>1
    <3> QED BY <3>1, <3>2 DEF Two
  <2> QED BY <2>1, <2>2, <2>3
<1> QED BY <1>2, <1>3, SameCount, LinearNext

----------------------------------------------------------------------------
(* The invariant. *)

\* Before any call every value is in its end, or in the wire that holds it.
LEMMA InitIInv == Init => IInv
<1> SUFFICES ASSUME Init PROVE IInv
  OBVIOUS
<1>1. TypeOK
  BY DEF Init, TypeOK, Labels
<1>2. CallKnows
  BY DEF Init, CallKnows, Connecting
<1>3. LinksFollowNet
  BY DEF Init, LinksFollowNet, CallsWithin, WiresWithin, JoinsWithin, Connecting
<1>4. Linear
  <2>1. \A e \in Ends : content[EndPlace(e)] = e[1]
    BY ContentFacts DEF Init
  <2>2. /\ \A c \in Calls : content[LeftPlace(c)] = Null /\ content[RightPlace(c)] = Null
        /\ \A w \in Wires : content[WirePlace(w)] = Null
    BY ContentFacts DEF Init, Connecting
  <2>3. \A v : ~Gone(v)
    BY DEF Init, Gone, Met
  <2>4. ASSUME NEW v \in Values, NEW x \in Places, content[x] = v
        PROVE  \E e \in Ends : x = EndPlace(e) /\ e[1] = v
    <3>1. v # Null
      BY KindsAssumption
    <3> QED BY <2>1, <2>2, <2>4, <3>1, PlaceFacts
  <2>5. ASSUME NEW v \in Wires PROVE Two(content, v)
    <3> DEFINE e1 == <<v, 1>>
               e2 == <<v, 2>>
    <3>1. e1 \in Ends /\ e2 \in Ends /\ e1 # e2 /\ e1[1] = v /\ e2[1] = v
      BY DEF Ends
    <3>2. \A e \in Ends : e[1] = v => e = e1 \/ e = e2
      BY KindsAssumption DEF Ends
    <3>3. v \in Values
      BY DEF Values
    <3> HIDE DEF e1, e2
    <3>4. /\ EndPlace(e1) # EndPlace(e2)
          /\ EndPlace(e1) \in Places /\ EndPlace(e2) \in Places
          /\ content[EndPlace(e1)] = v /\ content[EndPlace(e2)] = v
      BY <2>1, <3>1, PlaceFacts, Distinct
    <3>5. \A z \in Places : content[z] = v => z = EndPlace(e1) \/ z = EndPlace(e2)
      BY <2>4, <3>2, <3>3
    <3> QED BY <3>4, <3>5 DEF Two
  <2>6. ASSUME NEW v \in Terminals PROVE One(content, v)
    <3> DEFINE e1 == <<v, 1>>
    <3>1. e1 \in Ends /\ e1[1] = v
      BY DEF Ends
    <3>2. \A e \in Ends : e[1] = v => e = e1
      BY KindsAssumption DEF Ends
    <3>3. v \in Values
      BY DEF Values
    <3> HIDE DEF e1
    <3>4. EndPlace(e1) \in Places /\ content[EndPlace(e1)] = v
      BY <2>1, <3>1, PlaceFacts
    <3>5. \A z \in Places : content[z] = v => z = EndPlace(e1)
      BY <2>4, <3>2, <3>3
    <3> QED BY <3>4, <3>5 DEF One
  <2>7. \A w \in Wires : Doubled(w)
    BY DEF Init, Doubled
  <2>8. \A v \in Terminals : ~Doubled(v)
    BY KindsAssumption DEF Doubled
  <2> QED BY <2>3, <2>5, <2>6, <2>7, <2>8 DEF Linear, Values
<1>5. FreedMet
  BY DEF Init, FreedMet
<1> QED BY <1>1, <1>2, <1>3, <1>4, <1>5 DEF IInv

\* A principal wire is freed by the call that joins it, and stays joined.
LEMMA NextFreedMet ==
  ASSUME TypeOK, CallKnows, FreedMet, [Next]_vars
  PROVE  FreedMet'
<1>1. ASSUME freed' = freed, joined \subseteq joined' PROVE FreedMet'
  BY <1>1 DEF FreedMet, Met
<1>2. ASSUME NEW c \in Calls, wire_destroy(c) PROVE FreedMet'
  BY <1>2 DEF wire_destroy, CallKnows, FreedMet, Met, history
<1>3. ASSUME NEW c \in Calls, collect_primitive_arg(c) PROVE FreedMet'
  <2>1. PICK p \in Principals, v \in Plain :
          /\ freed' = freed \union {p} \/ freed' = freed
          /\ joined' = joined \union {{p, v}}
    BY <1>3 DEF collect_primitive_arg
  <2>2. p \in {p, v} /\ {p, v} \in joined' /\ joined \subseteq joined'
    BY <2>1
  <2> QED BY <2>1, <2>2 DEF FreedMet, Met
<1>4. ASSUME NEW c \in Calls,
             \/ fuze(c) \/ connect_active_pair(c) \/ node_set_value(c)
             \/ node_primitive_arg_count_fetch_add1(c) \/ connect_abort(c)
      PROVE  freed' = freed /\ joined \subseteq joined'
  BY <1>4 DEF fuze, connect_active_pair, node_set_value,
    node_primitive_arg_count_fetch_add1, connect_abort, history
<1>5. ASSUME NEW c \in Calls, NEW e \in Ends, NEW f \in Ends, Call(c, e, f)
      PROVE  freed' = freed /\ joined \subseteq joined'
  BY <1>5 DEF Call
<1>6. ASSUME UNCHANGED vars PROVE freed' = freed /\ joined \subseteq joined'
  BY <1>6 DEF vars
<1> QED BY <1>1, <1>2, <1>3, <1>4, <1>5, <1>6 DEF Next, connect, Stopped

\* Every action keeps the conjunction of the invariants.
LEMMA NextIInv == IInv /\ [Next]_vars => IInv'
<1> SUFFICES ASSUME TypeOK, CallKnows, Linear, LinksFollowNet, FreedMet, [Next]_vars
             PROVE  IInv'
  BY DEF IInv
<1>0. FreedMet'
  BY NextFreedMet
<1>1. ASSUME NEW c \in Calls, NEW e \in Ends, NEW f \in Ends, Call(c, e, f) PROVE IInv'
  BY <1>0, <1>1, CallBasics, CallLinear DEF IInv
<1>2. ASSUME NEW c \in Calls, fuze(c) PROVE IInv'
  BY <1>0, <1>2, FuzeBasics, FuzeLinear DEF IInv
<1>3. ASSUME NEW c \in Calls, wire_destroy(c) PROVE IInv'
  BY <1>0, <1>3, DestroyBasics, DestroyLinear DEF IInv
<1>4. ASSUME NEW c \in Calls, connect_active_pair(c) PROVE IInv'
  BY <1>0, <1>4, MeetSteps, PairBasics, MeetLinear DEF IInv
<1>5. ASSUME NEW c \in Calls, collect_primitive_arg(c) PROVE IInv'
  BY <1>0, <1>5, MeetSteps, CollectBasics, MeetLinear DEF IInv
<1>6. ASSUME NEW c \in Calls, node_set_value(c) PROVE IInv'
  <2>1. \A d \in Calls : Connecting(d)' <=> Connecting(d)
    BY <1>6 DEF node_set_value, Connecting, Goto, Drop, TypeOK
  <2>2. UNCHANGED <<fuzed, freed, loose, left, right, joined>>
    BY <1>6 DEF node_set_value, history
  <2> QED BY <1>0, <1>6, <2>1, <2>2, SetValueBasics, RestLinear DEF IInv
<1>7. ASSUME NEW c \in Calls, node_primitive_arg_count_fetch_add1(c) PROVE IInv'
  <2>1. \A d \in Calls : Connecting(d)' <=> Connecting(d)
    BY <1>7 DEF node_primitive_arg_count_fetch_add1, Connecting, Goto, Drop, TypeOK
  <2>2. UNCHANGED <<fuzed, freed, loose, joined>>
    BY <1>7 DEF node_primitive_arg_count_fetch_add1, history
  <2>3. \A d \in Calls : Connecting(d) => left'[d] = left[d] /\ right'[d] = right[d]
    BY <1>7 DEF node_primitive_arg_count_fetch_add1, Connecting, Drop, TypeOK
  <2> QED BY <1>0, <1>7, <2>1, <2>2, <2>3, FetchAddBasics, RestLinear DEF IInv
<1>8. ASSUME NEW c \in Calls, connect_abort(c) PROVE IInv'
  BY <1>0, <1>8, MeetSteps, AbortBasics, MeetLinear DEF IInv
<1>9. ASSUME UNCHANGED vars PROVE IInv'
  <2>1. Linear'
    BY <1>9, RestLinear DEF vars, Connecting
  <2>2. TypeOK' /\ CallKnows'
    BY <1>9 DEF vars, TypeOK, CallKnows, Connecting
  <2>3. LinksFollowNet'
    BY <1>9 DEF vars, LinksFollowNet, Closed, CallsWithin, WiresWithin, JoinsWithin, Connecting
  <2> QED BY <1>0, <2>1, <2>2, <2>3 DEF IInv
<1> QED BY <1>1, <1>2, <1>3, <1>4, <1>5, <1>6, <1>7, <1>8, <1>9 DEF Next, connect, Stopped

----------------------------------------------------------------------------
(* The theorems. *)

\* The program uses its wires linearly, whatever net it builds and however its
\* calls of connect interleave.
THEOREM Invariance == Spec => []IInv
BY InitIInv, NextIInv, PTL DEF Spec

\* Every variable of the model of connect.c keeps its type.
THEOREM TypeCorrect == Spec => []TypeOK
<1>1. IInv => TypeOK
  BY DEF IInv
<1> QED BY <1>1, Invariance, PTL

\* No pointer to a wire or principal wire that connect.c has freed is left.
THEOREM NothingDangles == Spec => []NoDangling
<1>1. ASSUME IInv PROVE NoDangling
  <2> USE DEF IInv
  <2>1. \A x \in Places : content[x] \in Values => content[x] \notin freed
    BY <1>1, HeldNotGone DEF Gone
  <2>2. ASSUME NEW c \in Calls, Connecting(c)
        PROVE  left[c] \notin freed /\ right[c] \notin freed
    BY <1>1, <2>1, <2>2, PlaceFacts, ContentFacts DEF CallKnows
  <2>3. ASSUME NEW w \in Wires \ freed PROVE fuzed[w] \notin freed
    <3>1. CASE fuzed[w] = Null
      BY <1>1, <3>1, KindsAssumption DEF TypeOK, Values, Terminals
    <3>2. CASE fuzed[w] # Null
      BY <1>1, <2>1, <3>2, PlaceFacts, ContentFacts DEF TypeOK
    <3> QED BY <3>1, <3>2
  <2>4. ASSUME NEW e \in loose PROVE e[1] \notin freed
    BY <1>1, <2>1, PlaceFacts, ContentFacts, EndFacts DEF TypeOK
  <2> QED BY <2>2, <2>3, <2>4 DEF NoDangling
<1> QED BY <1>1, Invariance, PTL

\* connect never makes the ends of two different paths of the net meet.
THEOREM JoinsAreEnds == Spec => []JoinsFollowNet
<1>1. IInv => JoinsFollowNet
  BY DEF IInv, LinksFollowNet, JoinsWithin, JoinsFollowNet
<1> QED BY <1>1, Invariance, PTL

\* Once all ends of a closed net are used and all calls have returned, every
\* terminal has met another one: fuze loses no connection.  Otherwise the
\* wires that are fuzed would be too few to hold everything that is left.
THEOREM NothingLost == Spec => []AllJoined
<1>1. ASSUME IInv, Quiet, loose = {}, NEW t \in Terminals, ~Met(t) PROVE FALSE
  <2> DEFINE A == Wires \ freed
             F == {w \in A : fuzed[w] # Null}
             U == {fuzed[w] : w \in F}
             f == [w \in F |-> fuzed[w]]
  <2>1. \A x \in Places : content[x] # Null => \E w \in F : x = WirePlace(w) /\ content[x] = fuzed[w]
    <3>1. \A c \in Calls : ~Connecting(c)
      BY <1>1 DEF Quiet, Running, Connecting
    <3> QED BY <1>1, <3>1, PlaceFacts, ContentFacts
  <2>2. ASSUME NEW v \in Values, ~Gone(v) PROVE v \in U
    <3>1. v # Null
      BY KindsAssumption
    <3>2. PICK x \in Places : content[x] = v
      BY <1>1, <2>2 DEF IInv, Linear, One, Two
    <3> QED BY <2>1, <3>1, <3>2
  <2>3. A \subseteq U
    <3>1. \A w \in A : ~Met(w)
      BY <1>1, KindsAssumption DEF Met, IInv, TypeOK
    <3> QED BY <2>2, <3>1 DEF Gone, Values
  <2>4. t \in U /\ t \notin A
    BY <1>1, <2>2, KindsAssumption DEF IInv, FreedMet, Gone, Values
  <2>5. IsFiniteSet(F) /\ IsFiniteSet(A) /\ Cardinality(F) <= Cardinality(A)
    BY KindsAssumption, FS_Subset
  <2>6. f \in Surjection(F, U)
    BY DEF Surjection
  <2>7. IsFiniteSet(U) /\ Cardinality(U) <= Cardinality(F)
    BY <2>5, <2>6, FS_Surjection
  <2>8. Cardinality(A) <= Cardinality(U) /\ (Cardinality(U) = Cardinality(A) => U = A)
    BY <2>3, <2>7, FS_Subset
  <2>9. Cardinality(U) \in Nat /\ Cardinality(A) \in Nat /\ Cardinality(F) \in Nat
    BY <2>5, <2>7, FS_CardinalityType
  <2>10. Cardinality(U) = Cardinality(A)
    BY <2>5, <2>7, <2>8, <2>9
  <2> QED BY <2>4, <2>8, <2>10
<1>2. IInv => AllJoined
  BY <1>1 DEF AllJoined, Met
<1> QED BY <1>2, Invariance, PTL

----------------------------------------------------------------------------
(* The ends of a path meet.  Closed sets follow the links, as before, and   *)
(* now conversely: what no link leads out of is closed.                     *)

NetFollowsLinks ==
  \A S \in SUBSET Values :
    CallsWithin(S) /\ WiresWithin(S) /\ JoinsWithin(S) => Closed(S)

\* No terminal meets two others.
JoinsApart ==
  /\ \A j, k \in joined : \A v \in j : v \in k => j = k
  /\ \A j \in joined : \A x, y, z \in j : x = y \/ y = z \/ z = x

PathInv == NetFollowsLinks /\ JoinsApart

\* A call of connect adds its own link to the net.
LEMMA CallPath ==
  ASSUME IInv, PathInv, NEW c \in Calls, NEW e \in Ends, NEW f \in Ends, Call(c, e, f)
  PROVE  PathInv'
<1>1. JoinsApart'
  BY DEF PathInv, JoinsApart, Call
<1>2. /\ pc[c] = "none" /\ pc' = [pc EXCEPT ![c] = "connect"]
      /\ left' = [left EXCEPT ![c] = e[1]] /\ right' = [right EXCEPT ![c] = f[1]]
      /\ net' = net \union {{e[1], f[1]}}
      /\ UNCHANGED <<fuzed, joined>>
  BY DEF Call, Goto
<1>3. ASSUME NEW S \in SUBSET Values, CallsWithin(S)', WiresWithin(S)', JoinsWithin(S)'
      PROVE  Closed(S)'
  <2>1. WiresWithin(S) /\ JoinsWithin(S)
    BY <1>2, <1>3 DEF WiresWithin, JoinsWithin
  <2>2. CallsWithin(S)
    BY <1>2, <1>3 DEF CallsWithin, Connecting, IInv, TypeOK
  <2>3. Closed(S)
    BY <2>1, <2>2 DEF PathInv, NetFollowsLinks
  <2>4. e[1] \in S <=> f[1] \in S
    BY <1>2, <1>3 DEF CallsWithin, Connecting, IInv, TypeOK
  <2> QED BY <1>2, <2>3, <2>4 DEF Closed
<1> QED BY <1>1, <1>3 DEF PathInv, NetFollowsLinks

\* A call that fuzes a wire leaves its link there.
LEMMA FuzePath ==
  ASSUME IInv, PathInv, NEW c \in Calls, fuze(c)
  PROVE  PathInv'
<1>1. JoinsApart'
  BY DEF PathInv, JoinsApart, fuze, history
<1>2. /\ pc[c] = "connect" /\ net' = net /\ joined' = joined
      /\ Target(c) \in Wires /\ Target(c) \in Values /\ Other(c) \in Values
      /\ Other(c) # Null
      /\ {Target(c), Other(c)} = {left[c], right[c]}
  BY KindsAssumption
  DEF fuze, IInv, CallKnows, Connecting, Target, Other, Values, history
<1>3. ASSUME NEW S \in SUBSET Values, CallsWithin(S)', WiresWithin(S)', JoinsWithin(S)'
      PROVE  Closed(S)'
  <2>1. JoinsWithin(S)
    BY <1>2, <1>3 DEF JoinsWithin
  <2>2. CASE fuzed[Target(c)] = Null
    <3>1. /\ fuzed' = [fuzed EXCEPT ![Target(c)] = Other(c)]
          /\ Goto(c, "done") /\ Drop(c)
      BY <2>2 DEF fuze
    <3>2. Target(c) \in S <=> Other(c) \in S
      BY <1>2, <1>3, <3>1 DEF WiresWithin, IInv, TypeOK
    <3>3. WiresWithin(S)
      BY <1>2, <1>3, <2>2, <3>1 DEF WiresWithin, IInv, TypeOK
    <3>4. left[c] \in S <=> right[c] \in S
      BY <1>2, <3>2 DEF Target, Other
    <3>5. CallsWithin(S)
      BY <1>3, <3>1, <3>4 DEF CallsWithin, Connecting, Goto, Drop, IInv, TypeOK
    <3> QED BY <1>2, <2>1, <3>3, <3>5 DEF PathInv, NetFollowsLinks, Closed
  <2>3. CASE fuzed[Target(c)] # Null
    <3>1. /\ fuzed' = fuzed /\ Goto(c, "destroy")
          /\ left' = [left EXCEPT ![c] = Target(c)]
          /\ right' = [right EXCEPT ![c] = Other(c)]
      BY <2>3 DEF fuze
    <3>2. Target(c) \in S <=> Other(c) \in S
      BY <1>3, <3>1 DEF CallsWithin, Connecting, Goto, IInv, TypeOK
    <3>3. left[c] \in S <=> right[c] \in S
      BY <3>2 DEF Target, Other
    <3>4. CallsWithin(S)
      BY <1>3, <3>1, <3>3 DEF CallsWithin, Connecting, Goto, IInv, TypeOK
    <3>5. WiresWithin(S)
      BY <1>3, <3>1 DEF WiresWithin
    <3> QED BY <1>2, <2>1, <3>4, <3>5 DEF PathInv, NetFollowsLinks, Closed
  <2> QED BY <2>2, <2>3
<1> QED BY <1>1, <1>3 DEF PathInv, NetFollowsLinks

\* A call that frees a wire goes on along the link that the wire keeps.
LEMMA DestroyPath ==
  ASSUME IInv, PathInv, NEW c \in Calls, wire_destroy(c)
  PROVE  PathInv'
<1>1. JoinsApart'
  BY DEF PathInv, JoinsApart, wire_destroy, history
<1>2. /\ pc[c] = "destroy" /\ pc' = [pc EXCEPT ![c] = "connect"]
      /\ left' = [left EXCEPT ![c] = fuzed[left[c]]]
      /\ left[c] \in Wires /\ fuzed[left[c]] # Null
      /\ UNCHANGED <<fuzed, right, joined, net>>
  BY DEF wire_destroy, Goto, history, IInv, CallKnows
<1>3. ASSUME NEW S \in SUBSET Values, CallsWithin(S)', WiresWithin(S)', JoinsWithin(S)'
      PROVE  Closed(S)'
  <2>1. WiresWithin(S) /\ JoinsWithin(S)
    BY <1>2, <1>3 DEF WiresWithin, JoinsWithin
  <2>2. fuzed[left[c]] \in S <=> right[c] \in S
    BY <1>2, <1>3 DEF CallsWithin, Connecting, IInv, TypeOK
  <2>3. left[c] \in S <=> right[c] \in S
    BY <1>2, <2>1, <2>2 DEF WiresWithin
  <2>4. CallsWithin(S)
    BY <1>2, <1>3, <2>3 DEF CallsWithin, Connecting, IInv, TypeOK
  <2> QED BY <1>2, <2>1, <2>4 DEF PathInv, NetFollowsLinks, Closed
<1> QED BY <1>1, <1>3 DEF PathInv, NetFollowsLinks

\* Two terminals that meet are linked by that, and have met nobody before.
LEMMA MeetPath ==
  ASSUME IInv, PathInv, NEW c \in Calls, Meet(c), net' = net
  PROVE  PathInv'
<1>1. PICK label \in Labels \ {"connect", "destroy"} : Goto(c, label)
  BY DEF Meet
<1>2. /\ pc[c] = "connect" /\ joined' = joined \union {{left[c], right[c]}}
      /\ fuzed' = fuzed
      /\ left[c] \in Values /\ right[c] \in Values
  BY DEF Meet, Values
<1>3. PICK v, u : left' = [left EXCEPT ![c] = v] /\ right' = [right EXCEPT ![c] = u]
  BY DEF Meet
<1>4. ~Met(left[c]) /\ ~Met(right[c])
  <2>1. content[LeftPlace(c)] = left[c] /\ content[RightPlace(c)] = right[c]
    BY <1>2, ContentFacts DEF Connecting
  <2>2. ~Gone(content[LeftPlace(c)]) /\ ~Gone(content[RightPlace(c)])
    BY <1>2, <2>1, PlaceFacts, HeldNotGone DEF IInv
  <2> QED BY <2>1, <2>2 DEF Gone
<1>5. JoinsApart'
  BY <1>2, <1>4 DEF PathInv, JoinsApart, Met
<1>6. ASSUME NEW S \in SUBSET Values, CallsWithin(S)', WiresWithin(S)', JoinsWithin(S)'
      PROVE  Closed(S)'
  <2>1. WiresWithin(S) /\ JoinsWithin(S)
    BY <1>2, <1>6 DEF WiresWithin, JoinsWithin
  <2>2. left[c] \in S <=> right[c] \in S
    <3>1. /\ {left[c], right[c]} \in joined'
          /\ left[c] \in {left[c], right[c]} /\ right[c] \in {left[c], right[c]}
      BY <1>2
    <3>2. \A j \in joined' : \A a, b \in j : a \in S <=> b \in S
      BY <1>6 DEF JoinsWithin
    <3> QED BY <3>1, <3>2
  <2>3. CallsWithin(S)
    BY <1>1, <1>3, <1>6, <2>2 DEF CallsWithin, Connecting, Goto, IInv, TypeOK
  <2> QED BY <2>1, <2>3 DEF PathInv, NetFollowsLinks, Closed
<1> QED BY <1>5, <1>6 DEF PathInv, NetFollowsLinks

\* A step that changes no link.
LEMMA RestPath ==
  ASSUME PathInv, UNCHANGED <<fuzed, joined, net>>,
         \A c \in Calls : Connecting(c)' <=> Connecting(c),
         \A c \in Calls : Connecting(c) => left'[c] = left[c] /\ right'[c] = right[c]
  PROVE  PathInv'
BY DEF PathInv, NetFollowsLinks, JoinsApart, CallsWithin, WiresWithin, JoinsWithin, Closed

\* Before the first call there is no link and no net.
LEMMA InitPath == Init => PathInv
BY DEF Init, PathInv, NetFollowsLinks, JoinsApart, Closed

\* Every step keeps net and links together.
LEMMA NextPath == IInv /\ PathInv /\ [Next]_vars => PathInv'
<1> SUFFICES ASSUME IInv, PathInv, [Next]_vars PROVE PathInv'
  OBVIOUS
<1>1. ASSUME NEW c \in Calls,
             connect_active_pair(c) \/ collect_primitive_arg(c) \/ connect_abort(c)
      PROVE  PathInv'
  BY <1>1, MeetSteps, MeetPath DEF IInv
<1>2. ASSUME NEW c \in Calls,
             node_set_value(c) \/ node_primitive_arg_count_fetch_add1(c)
      PROVE  PathInv'
  <2>1. UNCHANGED <<fuzed, joined, net>>
    BY <1>2 DEF node_set_value, node_primitive_arg_count_fetch_add1, history
  <2>2. \A d \in Calls : Connecting(d)' <=> Connecting(d)
    BY <1>2
    DEF node_set_value, node_primitive_arg_count_fetch_add1, Connecting, Goto, IInv, TypeOK
  <2>3. \A d \in Calls : Connecting(d) => left'[d] = left[d] /\ right'[d] = right[d]
    BY <1>2
    DEF node_set_value, node_primitive_arg_count_fetch_add1, Connecting, Drop, IInv, TypeOK
  <2> QED BY <2>1, <2>2, <2>3, RestPath
<1>3. ASSUME UNCHANGED vars PROVE PathInv'
  BY <1>3, RestPath DEF vars, Connecting
<1> QED BY <1>1, <1>2, <1>3, CallPath, FuzePath, DestroyPath DEF Next, connect, Stopped

\* The values from which the fuzed wires lead to one of the set T: the least
\* set that holds T, and each wire that was fuzed with one of its elements.
Back(T, X) == T \subseteq X /\ \A w \in Wires : fuzed[w] \in X => w \in X
Basin(T) == {v \in Values : \A X \in SUBSET Values : Back(T, X) => v \in X}

\* The basin of T holds no terminals but those of T, and no fuzed wire leads
\* into it or out of it.
LEMMA BasinFacts ==
  ASSUME TypeOK, NEW T \in SUBSET Terminals
  PROVE  /\ T \subseteq Basin(T) /\ Basin(T) \in SUBSET Values
         /\ Basin(T) \intersect Terminals = T
         /\ WiresWithin(Basin(T))
<1> DEFINE B == Basin(T)
           C == {v \in B : v \in T \/ (v \in Wires /\ fuzed[v] \in B)}
<1>1. T \subseteq B /\ B \in SUBSET Values
  BY DEF Basin, Back, Values
<1>2. ASSUME NEW w \in Wires, fuzed[w] \in B PROVE w \in B
  <2>1. w \in Values
    BY DEF Values
  <2>2. ASSUME NEW X \in SUBSET Values, Back(T, X) PROVE w \in X
    BY <1>2, <2>2 DEF Basin, Back
  <2> QED BY <2>1, <2>2 DEF Basin
<1>3. C \in SUBSET Values /\ Back(T, C)
  <2> HIDE DEF B
  <2>1. T \subseteq C /\ C \subseteq Values
    BY <1>1
  <2>2. ASSUME NEW w \in Wires, fuzed[w] \in C PROVE w \in C
    BY <1>2, <2>2
  <2> QED BY <2>1, <2>2 DEF Back
<1>4. B \subseteq C
  BY <1>3 DEF Basin
<1> HIDE DEF B
<1>5. B \intersect Terminals = T
  BY <1>1, <1>4, KindsAssumption
<1>6. WiresWithin(B)
  BY <1>1, <1>2, <1>4, KindsAssumption DEF WiresWithin, Terminals
<1> QED BY <1>1, <1>5, <1>6 DEF B

\* When no call is pending, the two ends of every path of the net have met, in
\* whatever order the calls have fuzed its wires: the basin of what a terminal
\* has met would otherwise be a closed set without the other end.
THEOREM PathsMeet == Spec => []PathsJoined
<1>1. ASSUME IInv, PathInv, Quiet, NEW a \in Terminals, NEW b \in Terminals, a # b,
             \A S \in SUBSET Values : Closed(S) /\ a \in S => b \in S
      PROVE  {a, b} \in joined
  <2> SUFFICES ASSUME {a, b} \notin joined PROVE FALSE
    OBVIOUS
  <2>0. TypeOK /\ joined \subseteq SUBSET Terminals
    BY <1>1 DEF IInv, TypeOK
  <2>1. PICK T \in SUBSET Terminals :
          /\ a \in T /\ b \notin T
          /\ \A j \in joined : j \subseteq T \/ j \intersect T = {}
    <3>1. CASE Met(a)
      <4>1. PICK j \in joined : a \in j
        BY <3>1 DEF Met
      <4>2. CASE b \notin j
        BY <1>1, <2>0, <4>1, <4>2 DEF PathInv, JoinsApart
      <4>3. CASE b \in j
        <5>1. j = {a, b}
          BY <1>1, <4>1, <4>3 DEF PathInv, JoinsApart
        <5> QED BY <4>1, <5>1
      <4> QED BY <4>2, <4>3
    <3>2. CASE ~Met(a)
      <4>1. {a} \in SUBSET Terminals /\ a \in {a} /\ b \notin {a}
        BY <1>1
      <4>2. \A j \in joined : j \subseteq {a} \/ j \intersect {a} = {}
        BY <3>2 DEF Met
      <4> QED BY <4>1, <4>2
    <3> QED BY <3>1, <3>2
  <2>2. /\ T \subseteq Basin(T) /\ Basin(T) \in SUBSET Values
        /\ Basin(T) \intersect Terminals = T
        /\ WiresWithin(Basin(T))
    BY <2>0, BasinFacts
  <2>3. JoinsWithin(Basin(T))
    BY <2>0, <2>1, <2>2 DEF JoinsWithin
  <2>4. CallsWithin(Basin(T))
    BY <1>1 DEF CallsWithin, Quiet, Running, Connecting
  <2>5. Closed(Basin(T))
    BY <1>1, <2>2, <2>3, <2>4 DEF PathInv, NetFollowsLinks
  <2> QED BY <1>1, <2>1, <2>2, <2>5
<1>2. IInv /\ PathInv => PathsJoined
  BY <1>1 DEF PathsJoined
<1>3. Spec => []PathInv
  BY Invariance, InitPath, NextPath, PTL DEF Spec
<1> QED BY <1>2, <1>3, Invariance, PTL

----------------------------------------------------------------------------
(* Tasks.  The argument count of a node is the number of its principal     *)
(* wires that are freed and whose call has counted them.                   *)

Ports(n) == {p \in Principals : Node[p] = n}
Collecting(c) == pc[c] \in {"set_value", "fetch_add"}
Pending(p) == \E c \in Calls : Collecting(c) /\ left[c] = p
Counted(n) == {p \in Ports(n) : p \in freed /\ ~Pending(p)}

\* What is known of the arguments of the primitive nodes.
ArgsKnown ==
  /\ \A c \in Calls : Collecting(c) => left[c] \in freed
  /\ \A c, d \in Calls : Collecting(c) /\ Collecting(d) /\ left[c] = left[d] => c = d
  /\ \A c \in Calls : pc[c] = "fetch_add" => argument[left[c]] # Null
  /\ \A p \in Principals : p \in freed /\ ~Pending(p) => argument[p] # Null

ArgsCounted == \A n \in Nodes : arg_count[n] = Cardinality(Counted(n))

JoinsFree ==
  \A p \in Principals, v \in Plain :
    {p, v} \in joined /\ IsPrimitive(Node[p]) => p \in freed

\* What is known of the tasks.
TasksLater == \A c \in Calls : pc[c] \in {"none"} \union Running => task[c] = Null

PrimitiveTasks ==
  /\ \A c \in Calls : task[c] # Null /\ task[c].kind = "primitive"
       => Counted(task[c].node) = Ports(task[c].node)
  /\ \A n \in Nodes : Ports(n) # {} /\ Counted(n) = Ports(n)
       => \E c \in Calls : task[c] = PrimitiveTask(n)

PairTasks ==
  \A c \in Calls : MadePair(c) =>
    /\ Rules[task[c].rule] = <<Ctor[Node[task[c].left]], Ctor[Node[task[c].right]]>>
    /\ \A i \in DOMAIN Rules : Fits(i, task[c].left, task[c].right) => task[c].rule <= i
    /\ Pair(c) \in joined

\* Principal wires that have met have a task, where a rule fits them.
Fitted(l, r) == \E i \in DOMAIN Rules : Fits(i, l, r)
Fired(l, r) == \E c \in Calls : MadePair(c) /\ Pair(c) = {l, r}
PairsMade ==
  \A l, r \in Principals : {l, r} \in joined /\ Fitted(l, r) => Fired(l, r)

TasksDiffer == \A c, d \in Calls : c # d /\ task[c] # Null => task[d] # task[c]

TaskInv ==
  /\ ArgsKnown /\ ArgsCounted /\ JoinsFree
  /\ TasksLater /\ PrimitiveTasks /\ PairTasks /\ TasksDiffer
  /\ PairsApart /\ PairsMade

\* Before the first call nothing is counted and there is no task.
LEMMA InitTask == Init => TaskInv
<1> SUFFICES ASSUME Init PROVE TaskInv
  OBVIOUS
<1>1. \A n : Counted(n) = {}
  BY DEF Init, Counted
<1>2. ArgsKnown /\ JoinsFree /\ TasksLater /\ TasksDiffer
  BY DEF Init, ArgsKnown, JoinsFree, TasksLater, TasksDiffer, Collecting
<1>3. ArgsCounted
  BY <1>1, FS_EmptySet DEF Init, ArgsCounted
<1>4. PrimitiveTasks
  BY <1>1 DEF Init, PrimitiveTasks
<1>5. PairTasks /\ PairsApart /\ PairsMade
  BY DEF Init, PairTasks, PairsApart, PairsMade, MadePair
<1> QED BY <1>2, <1>3, <1>4, <1>5 DEF TaskInv

\* A step that neither frees a principal wire nor collects an argument leaves
\* the counts as they are.
Uncollected ==
  /\ \A p \in Principals : p \in freed' <=> p \in freed
  /\ \A c \in Calls : Collecting(c)' <=> Collecting(c)
  /\ \A c \in Calls : pc'[c] = "fetch_add" <=> pc[c] = "fetch_add"
  /\ \A c \in Calls : Collecting(c) => left'[c] = left[c]
  /\ UNCHANGED <<argument, arg_count>>

\* A step that collects no argument changes no count.
LEMMA RestCounts ==
  ASSUME IInv, ArgsKnown, ArgsCounted, Uncollected
  PROVE  /\ ArgsKnown' /\ ArgsCounted'
         /\ \A n : Counted(n)' = Counted(n)
<1>1. \A p : Pending(p)' <=> Pending(p)
  BY DEF Pending, Uncollected
<1>2. \A n : Counted(n)' = Counted(n)
  BY <1>1 DEF Counted, Uncollected, Ports
<1>3. \A c \in Calls : Collecting(c) => left[c] \in Principals
  BY DEF IInv, CallKnows, Collecting
<1>4. ArgsKnown'
  <2>1. \A c \in Calls : Collecting(c)' => left'[c] \in freed'
    BY <1>3 DEF ArgsKnown, Uncollected
  <2>2. \A c, d \in Calls : Collecting(c)' /\ Collecting(d)' /\ left'[c] = left'[d] => c = d
    BY DEF ArgsKnown, Uncollected
  <2>3. \A c \in Calls : pc'[c] = "fetch_add" => argument'[left'[c]] # Null
    BY DEF ArgsKnown, Uncollected, Collecting
  <2>4. \A p \in Principals : p \in freed' /\ ~Pending(p)' => argument'[p] # Null
    BY <1>1 DEF ArgsKnown, Uncollected
  <2> QED BY <2>1, <2>2, <2>3, <2>4 DEF ArgsKnown
<1>5. ArgsCounted'
  BY <1>2 DEF ArgsCounted, Uncollected
<1> QED BY <1>2, <1>4, <1>5

\* No two principal wires meet in the step.
NoPairMeets == \A l, r \in Principals : {l, r} \in joined' => {l, r} \in joined

\* The tasks stay as good as they were when no task is made and no count moves.
LEMMA RestTasks ==
  ASSUME TaskInv, UNCHANGED task, joined \subseteq joined',
         \A n : Counted(n)' = Counted(n),
         \A c \in Calls : pc'[c] \in {"none"} \union Running => pc[c] \in {"none"} \union Running
  PROVE  /\ TasksLater' /\ PrimitiveTasks' /\ PairTasks' /\ TasksDiffer' /\ PairsApart'
         /\ NoPairMeets => PairsMade'
<1>1. TasksLater'
  BY DEF TaskInv, TasksLater
<1>2. PrimitiveTasks'
  BY DEF TaskInv, PrimitiveTasks, Ports
<1>3. \A c : (MadePair(c)' <=> MadePair(c)) /\ Pair(c)' = Pair(c)
  BY DEF MadePair, Pair
<1>4. PairTasks'
  BY <1>3 DEF TaskInv, PairTasks
<1>5. TasksDiffer' /\ PairsApart'
  BY <1>3 DEF TaskInv, TasksDiffer, PairsApart
<1>6. ASSUME NoPairMeets PROVE PairsMade'
  BY <1>3, <1>6 DEF NoPairMeets, TaskInv, PairsMade, Fired
<1> QED BY <1>1, <1>2, <1>4, <1>5, <1>6

\* Calls that begin, fuze, free a wire or abort make no task.
LEMMA PlainTask ==
  ASSUME IInv, TaskInv,
         \/ \E c \in Calls : \E e, f \in Ends : Call(c, e, f)
         \/ \E c \in Calls : fuze(c) \/ wire_destroy(c) \/ connect_abort(c)
         \/ UNCHANGED vars
  PROVE  TaskInv'
<1>1. CASE \E c \in Calls : \E e, f \in Ends : Call(c, e, f)
  <2>1. PICK c \in Calls, e \in Ends, f \in Ends : Call(c, e, f)
    BY <1>1
  <2>2. Uncollected
    BY <2>1 DEF Call, Uncollected, Collecting, Goto, nodeVars, IInv, TypeOK
  <2>3. ArgsKnown' /\ ArgsCounted' /\ \A n : Counted(n)' = Counted(n)
    BY <2>2, RestCounts DEF TaskInv
  <2>4. /\ UNCHANGED task /\ joined \subseteq joined'
        /\ \A d \in Calls : pc'[d] \in {"none"} \union Running => pc[d] \in {"none"} \union Running
    BY <2>1 DEF Call, Goto, Running, IInv, TypeOK
  <2>5. JoinsFree' /\ NoPairMeets
    BY <2>1 DEF TaskInv, JoinsFree, NoPairMeets, Call
  <2> QED BY <2>3, <2>4, <2>5, RestTasks DEF TaskInv
<1>2. CASE \E c \in Calls : fuze(c) \/ wire_destroy(c) \/ connect_abort(c)
  <2>1. PICK c \in Calls : fuze(c) \/ wire_destroy(c) \/ connect_abort(c)
    BY <1>2
  <2>2. Uncollected
    <3>1. CASE fuze(c)
      BY <3>1 DEF fuze, Uncollected, Collecting, Goto, Drop, nodeVars, IInv, TypeOK
    <3>2. CASE wire_destroy(c)
      <4>1. left[c] \in Wires
        BY <3>2 DEF wire_destroy, IInv, CallKnows
      <4> QED BY <3>2, <4>1, KindsAssumption
          DEF wire_destroy, Uncollected, Collecting, Goto, nodeVars, IInv, TypeOK, Terminals
    <3>3. CASE connect_abort(c)
      BY <3>3 DEF connect_abort, Uncollected, Collecting, Goto, nodeVars, IInv, TypeOK
    <3> QED BY <2>1, <3>1, <3>2, <3>3
  <2>3. ArgsKnown' /\ ArgsCounted' /\ \A n : Counted(n)' = Counted(n)
    BY <2>2, RestCounts DEF TaskInv
  <2>4. /\ UNCHANGED task /\ joined \subseteq joined'
        /\ \A d \in Calls : pc'[d] \in {"none"} \union Running => pc[d] \in {"none"} \union Running
    BY <2>1
    DEF fuze, wire_destroy, connect_abort, Goto, Drop, Running, history, IInv, TypeOK
  <2>5. JoinsFree'
    <3>1. freed \subseteq freed'
      BY <2>1 DEF fuze, wire_destroy, connect_abort
    <3>2. CASE joined' = joined
      BY <3>1, <3>2 DEF TaskInv, JoinsFree
    <3>3. CASE connect_abort(c)
      <4>1. joined' = joined \union {{left[c], right[c]}} /\ {left[c], right[c]} \subseteq Plain
        BY <3>3 DEF connect_abort
      <4>2. \A p \in Principals, v \in Plain : {p, v} # {left[c], right[c]}
        BY <4>1, KindsAssumption
      <4> QED BY <3>1, <4>1, <4>2 DEF TaskInv, JoinsFree
    <3> QED BY <2>1, <3>2, <3>3 DEF fuze, wire_destroy, history
  <2>6. NoPairMeets
    <3>1. CASE joined' = joined
      BY <3>1 DEF NoPairMeets
    <3>2. CASE connect_abort(c)
      <4>1. joined' = joined \union {{left[c], right[c]}} /\ left[c] \in Plain
        BY <3>2 DEF connect_abort
      <4>2. \A l, r \in Principals : {l, r} # {left[c], right[c]}
        BY <4>1, KindsAssumption
      <4> QED BY <4>1, <4>2 DEF NoPairMeets
    <3> QED BY <2>1, <3>1, <3>2 DEF fuze, wire_destroy, history
  <2> QED BY <2>3, <2>4, <2>5, <2>6, RestTasks DEF TaskInv
<1>3. CASE UNCHANGED vars
  <2>1. Uncollected
    BY <1>3 DEF vars, Uncollected, Collecting
  <2>2. ArgsKnown' /\ ArgsCounted' /\ \A n : Counted(n)' = Counted(n)
    BY <2>1, RestCounts DEF TaskInv
  <2>3. /\ UNCHANGED task /\ joined \subseteq joined'
        /\ \A d \in Calls : pc'[d] \in {"none"} \union Running => pc[d] \in {"none"} \union Running
    BY <1>3 DEF vars
  <2>4. JoinsFree' /\ NoPairMeets
    BY <1>3 DEF vars, TaskInv, JoinsFree, NoPairMeets
  <2> QED BY <2>2, <2>3, <2>4, RestTasks DEF TaskInv
<1> QED BY <1>1, <1>2, <1>3

\* A set of naturals that is not empty has a least element.
LEMMA LeastElement ==
  ASSUME NEW S, S \subseteq Nat, S # {}
  PROVE  \E n \in S : \A k \in S : n <= k
<1> DEFINE Less == OpToRel(<, Nat)
<1>1. IsWellFoundedOn(Less, Nat)
  BY ONLY NatLessThanWellFounded, Zenon
<1>2. \A k, n \in Nat : <<k, n>> \in Less <=> k < n
  BY DEF OpToRel
<1> HIDE DEF Less
<1>3. PICK n \in S : \A k \in S : ~ (<<k, n>> \in Less)
  BY <1>1, WFMin
<1>4. ASSUME NEW k \in S PROVE n <= k
  <2>1. k \in Nat /\ n \in Nat /\ ~ (k < n)
    BY <1>2, <1>3
  <2> QED BY <2>1
<1> QED BY <1>4

\* A rule matches where it fits, in whichever order the two wires are given.
LEMMA MatchFits ==
  ASSUME NEW l, NEW r, NEW i
  PROVE  /\ rule_match(i, l, r) # {} <=> Fits(i, l, r)
         /\ Fits(i, r, l) <=> Fits(i, l, r)
         /\ \A t \in rule_match(i, l, r) : t.rule = i
<1>1. rule_match(i, l, r) # {} <=> Fits(i, l, r)
  BY DEF rule_match, Fits
<1>2. Fits(i, r, l) <=> Fits(i, l, r)
  BY DEF Fits
<1>3. \A t \in rule_match(i, l, r) : t.rule = i
  BY DEF rule_match, PairTask
<1> QED BY <1>1, <1>2, <1>3

\* Where some rule fits, a first one does, so that the pair makes a task.
LEMMA FirstTaskMade ==
  ASSUME NEW l \in Principals, NEW r \in Principals, Fitted(l, r)
  PROVE  FirstTask(l, r) # {}
<1> DEFINE fit == {i \in DOMAIN Rules : Fits(i, l, r)}
<1>1. fit \subseteq Nat /\ fit # {}
  BY RulesAssumption DEF Fitted
<1>2. PICK i \in fit : \A k \in fit : i <= k
  BY <1>1, LeastElement
<1>3. PICK t : t \in rule_match(i, l, r)
  BY <1>2, MatchFits
<1>4. t.rule = i
  BY <1>3, MatchFits
<1>5. ASSUME NEW k \in DOMAIN Rules, k < i PROVE rule_match(k, l, r) = {}
  <2>1. k \in Nat /\ i \in Nat
    BY <1>1, RulesAssumption
  <2>2. k \notin fit
    BY <1>2, <1>5, <2>1
  <2> QED BY <2>2, MatchFits
<1> QED BY <1>2, <1>3, <1>4, <1>5 DEF FirstTask

\* t is the task of the first rule that fits the active pair.
FirstOf(t, l, r) ==
  /\ t \in Tasks /\ t.kind = "active_pair" /\ t # Null
  /\ {t.left, t.right} = {l, r}
  /\ Rules[t.rule] = <<Ctor[Node[t.left]], Ctor[Node[t.right]]>>
  /\ \A i \in DOMAIN Rules : Fits(i, t.left, t.right) => t.rule <= i

\* What connect_active_pair returns is the task of the first rule.
LEMMA FirstTaskFacts ==
  ASSUME NEW l \in Principals, NEW r \in Principals, NEW t \in FirstTask(l, r)
  PROVE  FirstOf(t, l, r)
<1>1. /\ t \in Tasks /\ t.kind = "active_pair" /\ t # Null
      /\ <<t.left, t.right>> = <<l, r>> \/ <<t.left, t.right>> = <<r, l>>
      /\ Rules[t.rule] = <<Ctor[Node[t.left]], Ctor[Node[t.right]]>>
      /\ t.rule \in DOMAIN Rules
  BY FirstTaskType, TasksAssumption DEF FirstTask, rule_match, PairTask
<1>2. ASSUME NEW i \in DOMAIN Rules, Fits(i, t.left, t.right) PROVE t.rule <= i
  <2>1. Fits(i, l, r)
    BY <1>1, <1>2, MatchFits
  <2>2. ~ (i < t.rule)
    BY <2>1, MatchFits DEF FirstTask
  <2>3. i \in Nat /\ t.rule \in Nat
    BY <1>1, RulesAssumption
  <2> QED BY <2>2, <2>3
<1>3. {t.left, t.right} = {l, r}
  BY <1>1
<1> QED BY <1>1, <1>2, <1>3 DEF FirstOf

\* A call that makes a task makes the first one it has.
LEMMA NewTask ==
  ASSUME IInv, TaskInv, NEW c \in Calls, pc[c] \in Running,
         NEW t \in Tasks, Return(c, t), \A d \in Calls : task[d] # t
  PROVE  /\ TasksDiffer'
         /\ task'[c] = t /\ \A d \in Calls \ {c} : task'[d] = task[d]
         /\ \A d \in Calls : task[d] # Null => task'[d] = task[d]
<1>1. task[c] = Null
  BY DEF TaskInv, TasksLater
<1>2. task'[c] = t /\ \A d \in Calls \ {c} : task'[d] = task[d]
  BY DEF Return, IInv, TypeOK
<1>3. TasksDiffer'
  BY <1>2 DEF TaskInv, TasksDiffer
<1> QED BY <1>1, <1>2, <1>3

\* The pairs that had a task have it still, so only the new one is asked for.
LEMMA PairsMadeStep ==
  ASSUME TaskInv, NEW l \in Principals, NEW r \in Principals,
         joined' = joined \union {{l, r}},
         \A d \in Calls : task[d] # Null => task'[d] = task[d],
         Fitted(l, r) => Fired(l, r)'
  PROVE  PairsMade'
<1> SUFFICES ASSUME NEW a \in Principals, NEW b \in Principals,
                    {a, b} \in joined', Fitted(a, b)
             PROVE  Fired(a, b)'
  BY DEF PairsMade, Fitted, Fits
<1>1. CASE {a, b} \in joined
  <2>1. PICK d \in Calls : MadePair(d) /\ Pair(d) = {a, b}
    BY <1>1 DEF TaskInv, PairsMade, Fired
  <2> QED BY <2>1 DEF Fired, MadePair, Pair
<1>2. CASE {a, b} = {l, r}
  <2>1. Fitted(l, r)
    <3>1. <<a, b>> = <<l, r>> \/ <<a, b>> = <<r, l>>
      BY <1>2
    <3> QED BY <3>1, MatchFits DEF Fitted
  <2> QED BY <1>2, <2>1 DEF Fired
<1> QED BY <1>1, <1>2

\* An active pair becomes a task once: its principal wires have not met before.
LEMMA PairTaskStep ==
  ASSUME IInv, TaskInv, NEW c \in Calls, connect_active_pair(c)
  PROVE  TaskInv'
<1>0. PICK l \in Principals, r \in Principals : l = left[c] /\ r = right[c]
  BY DEF connect_active_pair
<1>1. /\ pc[c] = "connect" /\ pc' = [pc EXCEPT ![c] = "done"]
      /\ left' = [left EXCEPT ![c] = Null]
      /\ joined' = joined \union {{l, r}}
      /\ UNCHANGED <<freed, argument, arg_count>>
  BY <1>0 DEF connect_active_pair, Goto, Drop, nodeVars
<1>2. Uncollected
  BY <1>1 DEF Uncollected, Collecting, IInv, TypeOK
<1>3. ArgsKnown' /\ ArgsCounted' /\ \A n : Counted(n)' = Counted(n)
  BY <1>2, RestCounts DEF TaskInv
<1>4. JoinsFree'
  <2>1. \A p \in Principals, v \in Plain : {p, v} # {l, r}
    BY KindsAssumption
  <2> QED BY <1>1, <2>1 DEF TaskInv, JoinsFree
<1>5. CASE FirstTask(l, r) = {} /\ UNCHANGED task
  <2>1. \A d \in Calls : pc'[d] \in {"none"} \union Running => pc[d] \in {"none"} \union Running
    BY <1>1 DEF Running, IInv, TypeOK
  <2>2. TasksLater' /\ PrimitiveTasks' /\ PairTasks' /\ TasksDiffer' /\ PairsApart'
    BY <1>1, <1>3, <1>5, <2>1, RestTasks
  <2>3. ~Fitted(l, r)
    BY <1>5, FirstTaskMade
  <2>4. PairsMade'
    BY <1>1, <1>5, <2>3, PairsMadeStep
  <2> QED BY <1>3, <1>4, <2>2, <2>4 DEF TaskInv
<1>6. ASSUME NEW t \in FirstTask(l, r), Return(c, t) PROVE TaskInv'
  <2>1. FirstOf(t, l, r)
    BY FirstTaskFacts
  <2>2. ~Met(l) /\ ~Met(r)
    <3>1. /\ content[LeftPlace(c)] = l /\ LeftPlace(c) \in Places
          /\ content[RightPlace(c)] = r /\ RightPlace(c) \in Places
      BY <1>0, <1>1, ContentFacts, PlaceFacts DEF Connecting
    <3>2. l \in Values /\ r \in Values
      BY DEF Values, Terminals
    <3>3. ~Met(l)
      BY <3>1, <3>2, HeldNotGone DEF IInv, Gone
    <3>4. ~Met(r)
      BY <3>1, <3>2, HeldNotGone DEF IInv, Gone
    <3> QED BY <3>3, <3>4
  <2>3. \A d \in Calls : MadePair(d) => l \notin Pair(d) /\ r \notin Pair(d)
    BY <2>2 DEF TaskInv, PairTasks, Met
  <2>4. \A d \in Calls : task[d] # t
    BY <2>1, <2>3 DEF FirstOf, MadePair, Pair
  <2>5. /\ TasksDiffer'
        /\ task'[c] = t /\ \A d \in Calls \ {c} : task'[d] = task[d]
        /\ \A d \in Calls : task[d] # Null => task'[d] = task[d]
    BY <1>1, <1>6, <2>1, <2>4, NewTask DEF Running, FirstOf
  <2>6. TasksLater'
    BY <1>1, <2>5 DEF TaskInv, TasksLater, Running, IInv, TypeOK
  <2>7. /\ MadePair(c)' /\ Pair(c)' = {l, r}
        /\ \A d \in Calls \ {c} : (MadePair(d)' <=> MadePair(d)) /\ Pair(d)' = Pair(d)
    BY <2>1, <2>5 DEF FirstOf, MadePair, Pair
  <2>8. PairTasks'
    <3>1. ASSUME NEW d \in Calls, MadePair(d)'
          PROVE  /\ Rules[task'[d].rule]
                      = <<Ctor[Node[task'[d].left]], Ctor[Node[task'[d].right]]>>
                 /\ \A i \in DOMAIN Rules :
                      Fits(i, task'[d].left, task'[d].right) => task'[d].rule <= i
                 /\ Pair(d)' \in joined'
      <4>1. CASE d = c
        BY <1>1, <2>1, <2>5, <2>7, <4>1 DEF FirstOf
      <4>2. CASE d # c
        BY <1>1, <2>5, <2>7, <3>1, <4>2 DEF TaskInv, PairTasks
      <4> QED BY <4>1, <4>2
    <3> QED BY <3>1 DEF PairTasks, Fits
  <2>9. PairsApart'
    BY <2>3, <2>7 DEF TaskInv, PairsApart
  <2>10. PairsMade'
    <3>1. Fired(l, r)'
      BY <2>7 DEF Fired
    <3> QED BY <1>1, <2>5, <3>1, PairsMadeStep
  <2>11. PrimitiveTasks'
    <3>1. ASSUME NEW d \in Calls, task'[d] # Null, task'[d].kind = "primitive",
                 NEW m, m = task'[d].node
          PROVE  Counted(m)' = Ports(m)
      BY <1>3, <2>1, <2>5, <3>1 DEF TaskInv, PrimitiveTasks, FirstOf
    <3>2. ASSUME NEW n \in Nodes, Ports(n) # {}, Counted(n)' = Ports(n)
          PROVE  \E d \in Calls : task'[d] = PrimitiveTask(n)
      <4>1. PICK d \in Calls : task[d] = PrimitiveTask(n)
        BY <1>3, <3>2 DEF TaskInv, PrimitiveTasks
      <4>2. task[d] # Null
        BY <4>1, TasksAssumption DEF Tasks, PrimitiveTask
      <4> QED BY <2>5, <4>1, <4>2
    <3> QED BY <3>1, <3>2 DEF PrimitiveTasks, Ports
  <2> QED BY <1>3, <1>4, <2>5, <2>6, <2>8, <2>9, <2>10, <2>11 DEF TaskInv
<1> QED BY <1>0, <1>5, <1>6 DEF connect_active_pair

\* A call that collects an argument has its principal wire to itself.
LEMMA CollectTask ==
  ASSUME IInv, TaskInv, NEW c \in Calls, collect_primitive_arg(c)
  PROVE  TaskInv'
<1>1. PICK p \in Principals, v \in Plain :
        /\ {left[c], right[c]} = {p, v}
        /\ IF IsPrimitive(Node[p])
           THEN freed' = freed \union {p} /\ Goto(c, "set_value")
           ELSE freed' = freed /\ Goto(c, "abort")
        /\ left' = [left EXCEPT ![c] = p]
        /\ joined' = joined \union {{p, v}}
  BY DEF collect_primitive_arg
<1>2. pc[c] = "connect" /\ UNCHANGED <<argument, arg_count, task>>
  BY DEF collect_primitive_arg, nodeVars
<1>3. /\ \A d \in Calls \ {c} : left'[d] = left[d] /\ pc'[d] = pc[d]
      /\ left'[c] = p /\ ~Collecting(c)
      /\ \A d \in Calls \ {c} : Collecting(d)' <=> Collecting(d)
  BY <1>1, <1>2 DEF IInv, TypeOK, Goto, Collecting
<1>4. JoinsFree'
  <2>1. \A q \in Principals, u \in Plain : {q, u} = {p, v} => q = p
    BY KindsAssumption
  <2> QED BY <1>1, <2>1 DEF TaskInv, JoinsFree
<1>5. \A d \in Calls : pc'[d] \in {"none"} \union Running => pc[d] \in {"none"} \union Running
  BY <1>2, <1>3 DEF Running
<1>6. NoPairMeets
  <2>1. \A l, r \in Principals : {l, r} # {p, v}
    BY KindsAssumption
  <2> QED BY <1>1, <2>1 DEF NoPairMeets
<1>7. CASE ~IsPrimitive(Node[p])
  <2>1. Uncollected
    BY <1>1, <1>2, <1>3, <1>7 DEF Uncollected, Collecting, Goto, IInv, TypeOK
  <2>2. ArgsKnown' /\ ArgsCounted' /\ \A n : Counted(n)' = Counted(n)
    BY <2>1, RestCounts DEF TaskInv
  <2> QED BY <1>1, <1>2, <1>4, <1>5, <1>6, <2>2, RestTasks DEF TaskInv
<1>8. CASE IsPrimitive(Node[p])
  <2>1. freed' = freed \union {p} /\ pc'[c] = "set_value" /\ Collecting(c)'
    BY <1>1, <1>8 DEF Goto, IInv, TypeOK, Collecting
  <2>2. p \notin freed
    <3>1. /\ content[LeftPlace(c)] = left[c] /\ LeftPlace(c) \in Places
          /\ content[RightPlace(c)] = right[c] /\ RightPlace(c) \in Places
      BY <1>2, ContentFacts, PlaceFacts DEF Connecting
    <3>2. p \in Values /\ p \in {left[c], right[c]}
      BY <1>1 DEF Values, Terminals
    <3> QED BY <3>1, <3>2, HeldNotGone DEF IInv, Gone
  <2>3. \A d \in Calls : Collecting(d) => left[d] # p
    BY <2>2 DEF TaskInv, ArgsKnown
  <2>4. Pending(p)' /\ \A q : q # p => (Pending(q)' <=> Pending(q))
    BY <1>3, <2>1, <2>3 DEF Pending
  <2>5. \A n : Counted(n)' = Counted(n)
    BY <2>1, <2>2, <2>4 DEF Counted, Ports
  <2>6. ArgsCounted'
    BY <1>2, <2>5 DEF TaskInv, ArgsCounted
  <2>7. ArgsKnown'
    <3>1. \A d \in Calls : Collecting(d)' => left'[d] \in freed'
      BY <1>3, <2>1 DEF TaskInv, ArgsKnown
    <3>2. \A d, e \in Calls : Collecting(d)' /\ Collecting(e)' /\ left'[d] = left'[e] => d = e
      BY <1>3, <2>3 DEF TaskInv, ArgsKnown
    <3>3. \A d \in Calls : pc'[d] = "fetch_add" => argument'[left'[d]] # Null
      BY <1>2, <1>3, <2>1 DEF TaskInv, ArgsKnown
    <3>4. \A q \in Principals : q \in freed' /\ ~Pending(q)' => argument'[q] # Null
      BY <1>2, <2>1, <2>4 DEF TaskInv, ArgsKnown
    <3> QED BY <3>1, <3>2, <3>3, <3>4 DEF ArgsKnown
  <2> QED BY <1>1, <1>2, <1>4, <1>5, <1>6, <2>5, <2>6, <2>7, RestTasks DEF TaskInv
<1> QED BY <1>7, <1>8

\* Storing an argument, before it is counted.
LEMMA SetValueTask ==
  ASSUME IInv, TaskInv, NEW c \in Calls, node_set_value(c)
  PROVE  TaskInv'
<1>1. /\ pc[c] = "set_value" /\ pc' = [pc EXCEPT ![c] = "fetch_add"]
      /\ argument' = [argument EXCEPT ![left[c]] = right[c]]
      /\ UNCHANGED <<freed, left, right, arg_count, task, joined>>
  BY DEF node_set_value, Goto, history
<1>2. left[c] \in Principals /\ right[c] # Null
  BY <1>1, KindsAssumption DEF IInv, CallKnows, Values, Terminals
<1>3. \A d \in Calls : Collecting(d)' <=> Collecting(d)
  BY <1>1 DEF Collecting, IInv, TypeOK
<1>4. \A q : Pending(q)' <=> Pending(q)
  BY <1>1, <1>3 DEF Pending
<1>5. \A n : Counted(n)' = Counted(n)
  BY <1>1, <1>4 DEF Counted, Ports
<1>6. \A q \in Principals : argument[q] # Null => argument'[q] # Null
  BY <1>1, <1>2 DEF IInv, TypeOK
<1>7. ArgsKnown'
  <2>1. \A d \in Calls : Collecting(d)' => left'[d] \in freed'
    BY <1>1, <1>3 DEF TaskInv, ArgsKnown
  <2>2. \A d, e \in Calls : Collecting(d)' /\ Collecting(e)' /\ left'[d] = left'[e] => d = e
    BY <1>1, <1>3 DEF TaskInv, ArgsKnown
  <2>3. ASSUME NEW d \in Calls, pc'[d] = "fetch_add" PROVE argument'[left'[d]] # Null
    <3>1. CASE d = c
      BY <1>1, <1>2, <3>1 DEF IInv, TypeOK
    <3>2. CASE d # c
      <4>1. pc[d] = "fetch_add" /\ left[d] \in Principals
        BY <1>1, <2>3, <3>2 DEF IInv, TypeOK, CallKnows
      <4> QED BY <1>1, <1>6, <4>1 DEF TaskInv, ArgsKnown
    <3> QED BY <3>1, <3>2
  <2>4. \A q \in Principals : q \in freed' /\ ~Pending(q)' => argument'[q] # Null
    BY <1>1, <1>4, <1>6 DEF TaskInv, ArgsKnown
  <2> QED BY <2>1, <2>2, <2>3, <2>4 DEF ArgsKnown
<1>8. ArgsCounted' /\ JoinsFree' /\ NoPairMeets
  BY <1>1, <1>5 DEF TaskInv, ArgsCounted, JoinsFree, NoPairMeets
<1>9. \A d \in Calls : pc'[d] \in {"none"} \union Running => pc[d] \in {"none"} \union Running
  BY <1>1 DEF Running, IInv, TypeOK
<1> QED BY <1>1, <1>5, <1>7, <1>8, <1>9, RestTasks DEF TaskInv

\* A step that makes no task of an active pair, and in which no two meet.
PairsKept ==
  \A d \in Calls :
    (MadePair(d)' <=> MadePair(d)) /\ (MadePair(d) => task'[d] = task[d])

\* Such a step keeps what is known of them.
LEMMA SamePairs ==
  ASSUME TaskInv, PairsKept, joined' = joined
  PROVE  PairTasks' /\ PairsApart' /\ PairsMade'
<1>1. \A d \in Calls : MadePair(d) => Pair(d)' = Pair(d)
  BY DEF PairsKept, Pair
<1>2. PairTasks'
  BY <1>1 DEF TaskInv, PairTasks, PairsKept, Fits
<1>3. PairsApart'
  BY <1>1 DEF TaskInv, PairsApart, PairsKept
<1>4. PairsMade'
  BY <1>1 DEF TaskInv, PairsMade, PairsKept, Fired, Fitted, Fits
<1> QED BY <1>2, <1>3, <1>4

\* Counting an argument: the call that counts the last one makes the task.
LEMMA FetchAddTask ==
  ASSUME IInv, TaskInv, NEW c \in Calls, node_primitive_arg_count_fetch_add1(c)
  PROVE  TaskInv'
<1>0. PICK p \in Principals : p = left[c]
  BY DEF node_primitive_arg_count_fetch_add1, IInv, CallKnows
<1> DEFINE n == Node[p]
<1>1. /\ pc[c] = "fetch_add" /\ pc' = [pc EXCEPT ![c] = "done"]
      /\ left' = [left EXCEPT ![c] = Null]
      /\ arg_count' = [arg_count EXCEPT ![n] = @ + 1]
      /\ UNCHANGED <<freed, argument, joined>>
  BY <1>0 DEF node_primitive_arg_count_fetch_add1, Goto, Drop, history
<1>2. p \in Principals /\ n \in Nodes /\ p \in freed /\ Collecting(c) /\ argument[p] # Null
  BY <1>0, <1>1, NodeAssumption DEF IInv, CallKnows, Collecting, TaskInv, ArgsKnown
<1>3. /\ ~Collecting(c)'
      /\ \A d \in Calls \ {c} : (Collecting(d)' <=> Collecting(d)) /\ left'[d] = left[d]
      /\ \A d \in Calls \ {c} : pc'[d] = pc[d]
  BY <1>1 DEF Collecting, IInv, TypeOK
<1>4. Pending(p) /\ ~Pending(p)' /\ \A q : q # p => (Pending(q)' <=> Pending(q))
  BY <1>0, <1>2, <1>3 DEF Pending, TaskInv, ArgsKnown
<1>5. /\ p \in Ports(n) /\ p \notin Counted(n)
      /\ Counted(n)' = Counted(n) \union {p}
      /\ \A m : m # n => Counted(m)' = Counted(m)
  BY <1>1, <1>2, <1>4 DEF Counted, Ports
<1>6. ArgsKnown'
  <2>1. \A d \in Calls : Collecting(d)' => left'[d] \in freed'
    BY <1>1, <1>3 DEF TaskInv, ArgsKnown
  <2>2. \A d, e \in Calls : Collecting(d)' /\ Collecting(e)' /\ left'[d] = left'[e] => d = e
    BY <1>3 DEF TaskInv, ArgsKnown
  <2>3. \A d \in Calls : pc'[d] = "fetch_add" => argument'[left'[d]] # Null
    BY <1>1, <1>3 DEF TaskInv, ArgsKnown, Collecting
  <2>4. \A q \in Principals : q \in freed' /\ ~Pending(q)' => argument'[q] # Null
    BY <1>1, <1>2, <1>4 DEF TaskInv, ArgsKnown
  <2> QED BY <2>1, <2>2, <2>3, <2>4 DEF ArgsKnown
<1>7. JoinsFree'
  BY <1>1 DEF TaskInv, JoinsFree
<1>8. /\ IsFiniteSet(Ports(n)) /\ IsFiniteSet(Counted(n))
      /\ Cardinality(Counted(n)) \in Nat
      /\ Cardinality(Counted(n)') = Cardinality(Counted(n)) + 1
  <2>1. IsFiniteSet(Ports(n)) /\ Counted(n) \subseteq Ports(n)
    BY <1>2, NodeAssumption DEF Ports, Counted
  <2>2. IsFiniteSet(Counted(n))
    BY <2>1, FS_Subset
  <2> QED BY <1>5, <2>1, <2>2, FS_AddElement, FS_CardinalityType
<1>9. arg_count[n] = Cardinality(Counted(n)) /\ arg_count[n] \in Nat
  BY <1>2, <1>8 DEF TaskInv, ArgsCounted
<1>10. ArgsCounted'
  <2>1. ASSUME NEW m \in Nodes PROVE arg_count'[m] = Cardinality(Counted(m)')
    <3>1. CASE m = n
      <4>1. arg_count'[n] = arg_count[n] + 1
        BY <1>1, <1>2 DEF IInv, TypeOK
      <4> QED BY <1>8, <1>9, <3>1, <4>1
    <3>2. CASE m # n
      <4>1. arg_count'[m] = arg_count[m]
        BY <1>1, <3>2 DEF IInv, TypeOK
      <4> QED BY <1>5, <3>2, <4>1 DEF TaskInv, ArgsCounted
    <3> QED BY <3>1, <3>2
  <2> QED BY <2>1 DEF ArgsCounted
<1>11. \A d \in Calls : task[d] # Null /\ task[d].kind = "primitive" => task[d].node # n
  BY <1>5 DEF TaskInv, PrimitiveTasks
<1>12. Counted(n)' = Ports(n) <=> arg_count[n] + 1 = principal_port_count(n)
  <2>1. Counted(n)' \subseteq Ports(n)
    BY <1>5 DEF Counted
  <2>2. Cardinality(Counted(n)') = Cardinality(Ports(n)) => Counted(n)' = Ports(n)
    BY <1>8, <2>1, FS_Subset
  <2>3. principal_port_count(n) = Cardinality(Ports(n))
    BY DEF principal_port_count, Ports
  <2> QED BY <1>8, <1>9, <2>2, <2>3
<1>13. CASE arg_count[n] + 1 # principal_port_count(n)
  <2>1. UNCHANGED task
    BY <1>0, <1>13 DEF node_primitive_arg_count_fetch_add1
  <2>2. TasksLater' /\ TasksDiffer'
    BY <1>1, <1>3, <2>1 DEF TaskInv, TasksLater, TasksDiffer, Running, IInv, TypeOK
  <2>3. PairTasks' /\ PairsApart' /\ PairsMade'
    <3>1. PairsKept
      BY <2>1 DEF PairsKept, MadePair
    <3> QED BY <1>1, <3>1, SamePairs
  <2>4. PrimitiveTasks'
    <3>1. ASSUME NEW d \in Calls, task'[d] # Null, task'[d].kind = "primitive",
                 NEW m, m = task'[d].node
          PROVE  Counted(m)' = Ports(m)
      BY <1>5, <1>11, <2>1, <3>1 DEF TaskInv, PrimitiveTasks
    <3>2. ASSUME NEW m \in Nodes, Ports(m) # {}, Counted(m)' = Ports(m)
          PROVE  \E d \in Calls : task'[d] = PrimitiveTask(m)
      BY <1>5, <1>12, <1>13, <2>1, <3>2 DEF TaskInv, PrimitiveTasks
    <3> QED BY <3>1, <3>2 DEF PrimitiveTasks, Ports
  <2> QED BY <1>6, <1>7, <1>10, <2>2, <2>3, <2>4 DEF TaskInv
<1>14. CASE arg_count[n] + 1 = principal_port_count(n)
  <2>1. Return(c, PrimitiveTask(n))
    BY <1>0, <1>14 DEF node_primitive_arg_count_fetch_add1
  <2>2. /\ PrimitiveTask(n) \in Tasks /\ PrimitiveTask(n).kind = "primitive"
        /\ PrimitiveTask(n).node = n /\ PrimitiveTask(n) # Null
    BY <1>2, TasksAssumption DEF Tasks, PrimitiveTask
  <2>3. \A d \in Calls : task[d] # PrimitiveTask(n)
    BY <1>11, <2>2
  <2>4. /\ TasksDiffer'
        /\ task'[c] = PrimitiveTask(n) /\ \A d \in Calls \ {c} : task'[d] = task[d]
        /\ \A d \in Calls : task[d] # Null => task'[d] = task[d]
    BY <1>1, <2>1, <2>2, <2>3, NewTask DEF Running
  <2>5. TasksLater'
    BY <1>1, <1>3, <2>4 DEF TaskInv, TasksLater, Running, IInv, TypeOK
  <2>6. PairTasks' /\ PairsApart' /\ PairsMade'
    <3>1. task[c] = Null
      BY <1>1 DEF TaskInv, TasksLater, Running
    <3>2. PairsKept
      BY <2>2, <2>4, <3>1 DEF PairsKept, MadePair
    <3> QED BY <1>1, <3>2, SamePairs
  <2>7. PrimitiveTasks'
    <3>1. ASSUME NEW d \in Calls, task'[d] # Null, task'[d].kind = "primitive",
                 NEW m, m = task'[d].node
          PROVE  Counted(m)' = Ports(m)
      <4>1. CASE d = c
        BY <1>12, <1>14, <2>2, <2>4, <3>1, <4>1
      <4>2. CASE d # c
        BY <1>5, <1>11, <2>4, <3>1, <4>2 DEF TaskInv, PrimitiveTasks
      <4> QED BY <4>1, <4>2
    <3>2. ASSUME NEW m \in Nodes, Ports(m) # {}, Counted(m)' = Ports(m)
          PROVE  \E d \in Calls : task'[d] = PrimitiveTask(m)
      <4>1. CASE m = n
        BY <2>4, <4>1
      <4>2. CASE m # n
        <5>1. PICK d \in Calls : task[d] = PrimitiveTask(m)
          BY <1>5, <3>2, <4>2 DEF TaskInv, PrimitiveTasks
        <5>2. task[d] # Null
          BY <5>1, TasksAssumption DEF Tasks, PrimitiveTask
        <5> QED BY <2>4, <5>1, <5>2
      <4> QED BY <4>1, <4>2
    <3> QED BY <3>1, <3>2 DEF PrimitiveTasks, Ports
  <2> QED BY <1>6, <1>7, <1>10, <2>4, <2>5, <2>6, <2>7 DEF TaskInv
<1> QED BY <1>13, <1>14

\* Every step keeps what is known of arguments and tasks.
LEMMA NextTask == IInv /\ TaskInv /\ [Next]_vars => TaskInv'
BY PlainTask, PairTaskStep, CollectTask, SetValueTask, FetchAddTask
DEF Next, connect, Stopped

\* However the workers interleave, the two principal wires of an active pair
\* become one task, that of the first rule that fits, in the order of the rule,
\* and are in no other; a primitive node becomes one task and only when all its
\* arguments are stored.  When no call is pending and none has aborted, each pair
\* that has met and has a rule has become one, and each primitive that has met
\* a value at every principal port.
THEOREM TasksAreExact == Spec => []TasksExact
<1>1. IInv /\ TaskInv => TasksReady
  <2> SUFFICES ASSUME IInv, TaskInv, NEW c \in Calls, task[c] # Null
               PROVE  /\ \A d \in Calls \ {c} : task[d] # task[c]
                      /\ task[c].kind = "primitive" =>
                           \A p \in Principals : Node[p] = task[c].node => argument[p] # Null
                      /\ task[c].kind = "active_pair" =>
                           /\ Rules[task[c].rule]
                                = <<Ctor[Node[task[c].left]], Ctor[Node[task[c].right]]>>
                           /\ \A i \in DOMAIN Rules :
                                Fits(i, task[c].left, task[c].right) => task[c].rule <= i
                           /\ Pair(c) \in joined
    BY DEF TasksReady
  <2>1. \A d \in Calls \ {c} : task[d] # task[c]
    BY DEF TaskInv, TasksDiffer
  <2>2. ASSUME task[c].kind = "primitive", NEW p \in Principals, Node[p] = task[c].node
        PROVE  argument[p] # Null
    <3>1. p \in Counted(task[c].node)
      BY <2>2 DEF TaskInv, PrimitiveTasks, Ports
    <3> QED BY <3>1 DEF Counted, TaskInv, ArgsKnown
  <2> QED BY <2>1, <2>2 DEF TaskInv, PairTasks, MadePair
<1>2. IInv /\ TaskInv => PrimitivesFire
  <2> SUFFICES ASSUME IInv, TaskInv, Quiet, NEW p \in Principals, IsPrimitive(Node[p]),
                      \A q \in Principals : Node[q] = Node[p] => \E v \in Plain : {q, v} \in joined
               PROVE  \E c \in Calls : task[c] = PrimitiveTask(Node[p])
    BY DEF PrimitivesFire
  <2>1. \A q : ~Pending(q)
    BY DEF Pending, Collecting, Quiet, Running
  <2>2. \A q \in Ports(Node[p]) : q \in freed
    BY DEF Ports, TaskInv, JoinsFree
  <2>3. Counted(Node[p]) = Ports(Node[p]) /\ p \in Ports(Node[p]) /\ Node[p] \in Nodes
    BY <2>1, <2>2, NodeAssumption DEF Counted, Ports
  <2> QED BY <2>3 DEF TaskInv, PrimitiveTasks
<1>3. IInv /\ TaskInv => PairsApart /\ PairsFire
  BY DEF TaskInv, PairsFire, PairsMade, Fitted, Fired
<1>4. Spec => []TaskInv
  BY Invariance, InitTask, NextTask, PTL DEF Spec
<1> QED BY <1>1, <1>2, <1>3, <1>4, Invariance, PTL DEF TasksExact

----------------------------------------------------------------------------
(* What is left to do.  Units holds a unit for each step that the calls    *)
(* that were made have left at most, before they free another wire.        *)

Units == UNION {{c} \X (1 .. Stage(pc[c])) : c \in Calls}

\* A unit is a call and a number.
LEMMA UnitFacts ==
  /\ \A c \in Calls, k \in Nat : <<c, k>> \in Units <=> k \in 1 .. Stage(pc[c])
  /\ \A c \in Calls, k \in Nat : <<c, k>> \in Units' <=> k \in 1 .. Stage(pc'[c])
  /\ \A u \in Units : \E c \in Calls, k \in Nat : u = <<c, k>>
  /\ \A u \in Units' : \E c \in Calls, k \in Nat : u = <<c, k>>
<1>1. \A label : Stage(label) \in 0 .. 3
  BY DEF Stage
<1> QED BY <1>1 DEF Units

\* A call that comes closer to its return takes units away.
LEMMA UnitsLess ==
  ASSUME IInv, IsFiniteSet(Units), NEW c \in Calls, NEW label,
         pc' = [pc EXCEPT ![c] = label], Stage(label) < Stage(pc[c])
  PROVE  IsFiniteSet(Units') /\ Cardinality(Units') < Cardinality(Units)
<1>1. Stage(label) \in 0 .. 3 /\ Stage(pc[c]) \in 0 .. 3
  BY DEF Stage
<1>2. pc'[c] = label /\ \A d \in Calls \ {c} : pc'[d] = pc[d]
  BY DEF IInv, TypeOK
<1>3. ASSUME NEW u \in Units' PROVE u \in Units
  <2>1. PICK d \in Calls, k \in Nat : u = <<d, k>>
    BY UnitFacts
  <2>2. k \in 1 .. Stage(pc'[d])
    BY <2>1, UnitFacts
  <2>3. k \in 1 .. Stage(pc[d])
    BY <1>1, <1>2, <2>2
  <2> QED BY <2>1, <2>3, UnitFacts
<1>4. <<c, Stage(pc[c])>> \in Units /\ <<c, Stage(pc[c])>> \notin Units'
  BY <1>1, <1>2, UnitFacts
<1>5. Units' \subseteq Units /\ Units' # Units
  BY <1>3, <1>4
<1>6. IsFiniteSet(Units') /\ Cardinality(Units') <= Cardinality(Units)
      /\ (Cardinality(Units') = Cardinality(Units) => Units' = Units)
  BY <1>5, FS_Subset
<1>7. Cardinality(Units') \in Nat /\ Cardinality(Units) \in Nat
  BY <1>6, FS_CardinalityType
<1> QED BY <1>5, <1>6, <1>7

\* A call that goes round the loop of connect again adds one unit, a new one
\* three.
LEMMA UnitsMore ==
  ASSUME IInv, IsFiniteSet(Units), NEW c \in Calls,
         pc[c] \in {"none", "destroy"}, pc' = [pc EXCEPT ![c] = "connect"]
  PROVE  /\ IsFiniteSet(Units')
         /\ pc[c] = "destroy" => Cardinality(Units') = Cardinality(Units) + 1
<1>1. pc'[c] = "connect" /\ \A d \in Calls \ {c} : pc'[d] = pc[d]
  BY DEF IInv, TypeOK
<1>2. Stage("connect") = 3 /\ Stage("destroy") = 2 /\ Stage("none") = 0
  BY DEF Stage
<1>3. \A label : Stage(label) \in 0 .. 3
  BY DEF Stage
<1>4. Units' = Units \union {<<c, 1>>, <<c, 2>>, <<c, 3>>}
  <2>1. ASSUME NEW u \in Units' PROVE u \in Units \union {<<c, 1>>, <<c, 2>>, <<c, 3>>}
    <3>1. PICK d \in Calls, k \in Nat : u = <<d, k>>
      BY UnitFacts
    <3>2. k \in 1 .. Stage(pc'[d])
      BY <3>1, UnitFacts
    <3>3. CASE d = c
      <4>1. k \in {1, 2, 3}
        BY <1>1, <1>2, <3>2, <3>3
      <4> QED BY <3>1, <3>3, <4>1
    <3>4. CASE d # c
      BY <1>1, <3>1, <3>2, <3>4, UnitFacts
    <3> QED BY <3>3, <3>4
  <2>2. ASSUME NEW u \in Units PROVE u \in Units'
    <3>1. PICK d \in Calls, k \in Nat : u = <<d, k>>
      BY UnitFacts
    <3>2. k \in 1 .. Stage(pc[d])
      BY <3>1, UnitFacts
    <3>3. k \in 1 .. Stage(pc'[d])
      BY <1>1, <1>2, <1>3, <3>2
    <3> QED BY <3>1, <3>3, UnitFacts
  <2>3. <<c, 1>> \in Units' /\ <<c, 2>> \in Units' /\ <<c, 3>> \in Units'
    BY <1>1, <1>2, UnitFacts
  <2> QED BY <2>1, <2>2, <2>3
<1>5. IsFiniteSet(Units')
  <2>1. IsFiniteSet(Units \union {<<c, 1>>})
    BY FS_AddElement
  <2>2. IsFiniteSet((Units \union {<<c, 1>>}) \union {<<c, 2>>})
    BY <2>1, FS_AddElement
  <2>3. IsFiniteSet(((Units \union {<<c, 1>>}) \union {<<c, 2>>}) \union {<<c, 3>>})
    BY <2>2, FS_AddElement
  <2>4. Units' = ((Units \union {<<c, 1>>}) \union {<<c, 2>>}) \union {<<c, 3>>}
    BY <1>4
  <2> QED BY <2>3, <2>4
<1>6. ASSUME pc[c] = "destroy" PROVE Cardinality(Units') = Cardinality(Units) + 1
  <2>1. <<c, 1>> \in Units /\ <<c, 2>> \in Units /\ <<c, 3>> \notin Units
    BY <1>2, <1>6, UnitFacts
  <2>2. Units' = Units \union {<<c, 3>>}
    BY <1>4, <2>1
  <2> QED BY <2>1, <2>2, FS_AddElement
<1> QED BY <1>5, <1>6

\* The wires that are still there.
LEMMA WiresLeft ==
  /\ \A w \in Wires \ freed :
       Cardinality(Wires \ (freed \union {w})) = Cardinality(Wires \ freed) - 1
  /\ Cardinality(Wires \ freed) \in Nat
<1>1. IsFiniteSet(Wires \ freed)
  BY KindsAssumption, FS_Subset
<1>2. ASSUME NEW w \in Wires \ freed
      PROVE  Cardinality(Wires \ (freed \union {w})) = Cardinality(Wires \ freed) - 1
  <2>1. Wires \ (freed \union {w}) = (Wires \ freed) \ {w}
    OBVIOUS
  <2> QED BY <1>1, <2>1, FS_RemoveElement
<1> QED BY <1>1, <1>2, FS_CardinalityType

\* A step of a call leaves less to do, and there is always only a finite
\* number of steps left.
LEMMA NextWork ==
  ASSUME IInv, IsFiniteSet(Units), [Next]_vars
  PROVE  /\ IsFiniteSet(Units')
         /\ loose' = loose /\ ~(UNCHANGED vars) => Work' < Work
<1> DEFINE W == Cardinality(Wires \ freed)
           U == Cardinality(Units)
<1>1. /\ Work = 4 * W + U /\ Work' = 4 * W' + U'
      /\ W \in Nat /\ U \in Nat
  BY WiresLeft, FS_CardinalityType DEF Work, Units
<1>2. ASSUME NEW c \in Calls, NEW label, pc' = [pc EXCEPT ![c] = label],
             Stage(label) < Stage(pc[c]), Wires \ freed' = Wires \ freed
      PROVE  IsFiniteSet(Units') /\ Work' < Work
  <2>1. IsFiniteSet(Units') /\ Cardinality(Units') < Cardinality(Units)
    BY <1>2, UnitsLess
  <2>2. PICK w \in Nat, u \in Nat, v \in Nat :
          W = w /\ W' = w /\ U = u /\ U' = v /\ v < u
    BY <1>1, <1>2, <2>1, FS_CardinalityType
  <2>3. Work = 4 * w + u /\ Work' = 4 * w + v
    BY <1>1, <2>2
  <2> QED BY <2>1, <2>2, <2>3
<1>3. ASSUME NEW c \in Calls, NEW e \in Ends, NEW f \in Ends, Call(c, e, f)
      PROVE  IsFiniteSet(Units') /\ loose' # loose
  <2>1. IsFiniteSet(Units')
    BY <1>3, UnitsMore DEF Call, Goto
  <2> QED BY <1>3, <2>1 DEF Call
<1>4. ASSUME NEW c \in Calls, wire_destroy(c) PROVE IsFiniteSet(Units') /\ Work' < Work
  <2>1. /\ pc[c] = "destroy" /\ pc' = [pc EXCEPT ![c] = "connect"]
        /\ freed' = freed \union {left[c]}
    BY <1>4 DEF wire_destroy, Goto
  <2>2. left[c] \in Wires \ freed
    <3>1. left[c] \in Wires /\ left[c] \in Values
      BY <2>1 DEF IInv, CallKnows, Values
    <3>2. content[LeftPlace(c)] = left[c] /\ LeftPlace(c) \in Places
      BY <2>1, ContentFacts, PlaceFacts DEF Connecting
    <3> QED BY <3>1, <3>2, HeldNotGone DEF IInv, Gone
  <2>3. W' = W - 1
    BY <2>1, <2>2, WiresLeft
  <2>4. IsFiniteSet(Units') /\ U' = U + 1
    BY <2>1, UnitsMore
  <2> HIDE DEF W, U
  <2> QED BY <1>1, <2>3, <2>4
<1>5. ASSUME NEW c \in Calls, fuze(c) PROVE IsFiniteSet(Units') /\ Work' < Work
  <2>1. PICK label \in {"done", "destroy"} : pc' = [pc EXCEPT ![c] = label]
    BY <1>5 DEF fuze, Goto
  <2>2. pc[c] = "connect" /\ freed' = freed
    BY <1>5 DEF fuze
  <2>3. Stage(label) < Stage(pc[c])
    BY <2>1, <2>2 DEF Stage
  <2> QED BY <1>2, <2>1, <2>2, <2>3
<1>6. ASSUME NEW c \in Calls,
             connect_active_pair(c) \/ collect_primitive_arg(c) \/ connect_abort(c)
      PROVE  IsFiniteSet(Units') /\ Work' < Work
  <2>1. PICK label \in {"done", "set_value", "abort"} : pc' = [pc EXCEPT ![c] = label]
    BY <1>6 DEF connect_active_pair, collect_primitive_arg, connect_abort, Goto
  <2>2. pc[c] = "connect" /\ Wires \ freed' = Wires \ freed
    <3>1. Meet(c)
      BY <1>6, MeetSteps DEF IInv
    <3> QED BY <3>1, KindsAssumption DEF Meet
  <2>3. Stage(label) < Stage(pc[c])
    BY <2>1, <2>2 DEF Stage
  <2> QED BY <1>2, <2>1, <2>2, <2>3
<1>7. ASSUME NEW c \in Calls, node_set_value(c) PROVE IsFiniteSet(Units') /\ Work' < Work
  <2>1. /\ pc[c] = "set_value" /\ pc' = [pc EXCEPT ![c] = "fetch_add"] /\ freed' = freed
    BY <1>7 DEF node_set_value, Goto
  <2>2. Stage("fetch_add") < Stage(pc[c])
    BY <2>1 DEF Stage
  <2> QED BY <1>2, <2>1, <2>2
<1>8. ASSUME NEW c \in Calls, node_primitive_arg_count_fetch_add1(c)
      PROVE  IsFiniteSet(Units') /\ Work' < Work
  <2>1. /\ pc[c] = "fetch_add" /\ pc' = [pc EXCEPT ![c] = "done"] /\ freed' = freed
    BY <1>8 DEF node_primitive_arg_count_fetch_add1, Goto
  <2>2. Stage("done") < Stage(pc[c])
    BY <2>1 DEF Stage
  <2> QED BY <1>2, <2>1, <2>2
<1>9. ASSUME UNCHANGED vars PROVE IsFiniteSet(Units')
  BY <1>9 DEF vars, Units
<1> QED BY <1>3, <1>4, <1>5, <1>6, <1>7, <1>8, <1>9 DEF Next, connect, Stopped

\* Every call of connect returns, however the others interfere with it: each
\* step of a call takes something off what is left to do, a natural number.
THEOREM EachStepLeavesLess == Spec => ConnectTerminates
<1>1. Init => IsFiniteSet(Units)
  <2> SUFFICES ASSUME Init PROVE IsFiniteSet(Units)
    OBVIOUS
  <2>1. Stage("none") = 0
    BY DEF Stage
  <2>2. Units = {}
    BY <2>1 DEF Init, Units
  <2> QED BY <2>2, FS_EmptySet
<1>2. IInv /\ IsFiniteSet(Units) /\ [Next]_vars => IsFiniteSet(Units)'
  BY NextWork
<1>3. IInv /\ IsFiniteSet(Units) /\ [Next]_vars => [loose' = loose => Work' < Work]_vars
  BY NextWork
<1> QED BY <1>1, <1>2, <1>3, Invariance, PTL DEF Spec, ConnectTerminates
=============================================================================
