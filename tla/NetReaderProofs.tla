--------------------------- MODULE NetReaderProofs ---------------------------
(***************************************************************************)
(* Proofs about NetReader.  Made says in which of the ways that connect    *)
(* leaves a net each port is joined; walking along the wires from two      *)
(* ports then meets exactly if they were joined (ConnectedIsMate), so that *)
(* the neighbours are the neighbours in the net (NeighbourhoodIs), and the *)
(* search keeps to the component and leaves nothing of it (Searched).      *)
(***************************************************************************)
EXTENDS NetReader, SequenceTheorems, FiniteSetTheorems, FunctionTheorems, WellFoundedInduction, TLAPS

\* The value that is made for a port.
Own(p) == IF p \in PrincipalPorts THEN PrincipalWireOf(p) ELSE WireOf(p)

----------------------------------------------------------------------------
(* Ports and values. *)

\* A set of naturals that is not empty has a least element.
LEMMA LeastElement ==
  ASSUME NEW R, R \subseteq Nat, R # {}
  PROVE  \E x \in R : \A y \in R : x <= y
<1> DEFINE Less == OpToRel(<, Nat)
<1>1. IsWellFoundedOn(Less, Nat)
  BY ONLY NatLessThanWellFounded, Zenon
<1>2. \A x, y \in Nat : <<x, y>> \in Less <=> x < y
  BY DEF OpToRel
<1> HIDE DEF Less
<1>3. PICK x \in R : \A y \in R : ~ (<<y, x>> \in Less)
  BY <1>1, WFMin
<1>4. \A y \in R : x \in Nat /\ y \in Nat /\ ~ (y < x)
  BY <1>2, <1>3
<1> QED
  BY <1>4

\* A port is a node and an index below its arity.
LEMMA PortIs ==
  /\ \A n \in NetNodes : arity[n] \in Nat /\ n \in Nat /\ n # 0
  /\ \A p \in Ports : p = <<p[1], p[2]>> /\ p[1] \in NetNodes /\ p[2] \in 0 .. arity[p[1]] - 1
  /\ \A n \in NetNodes : \A i \in 0 .. arity[n] - 1 : <<n, i>> \in Ports
  /\ \A p \in Ports : p \in AuxPorts <=> p \notin PrincipalPorts
  /\ AuxPorts \subseteq Ports /\ PrincipalPorts \subseteq Ports
<1>1. \A n \in NetNodes : arity[n] \in Nat /\ n \in Nat /\ n # 0
  BY NetAssumption
<1>2. \A p \in Ports : p = <<p[1], p[2]>> /\ p[1] \in NetNodes /\ p[2] \in 0 .. arity[p[1]] - 1
  BY DEF Ports
<1>3. \A n \in NetNodes : \A i \in 0 .. arity[n] - 1 : <<n, i>> \in Ports
  <2> TAKE n \in NetNodes
  <2> TAKE i \in 0 .. arity[n] - 1
  <2>1. <<n, i>> \in {n} \X (0 .. arity[n] - 1)
    OBVIOUS
  <2> QED
    BY <2>1 DEF Ports
<1> QED
  BY <1>1, <1>2, <1>3, PortsAssumption DEF AuxPorts

\* The values are told apart.
LEMMA ValuesDiffer ==
  /\ \A p, q \in Ports : Own(p) = Own(q) => p = q
  /\ \A p \in Ports : Own(p) \notin {TopWire, MiddleWire, Number, Unset}
  /\ \A p \in AuxPorts : Own(p) = WireOf(p) /\ WireOf(p) \in AllWires /\ is_wire(Own(p))
  /\ \A p \in PrincipalPorts : /\ Own(p) = PrincipalWireOf(p) /\ is_principal_wire(Own(p))
                               /\ ~is_wire(Own(p)) /\ Own(p)[2] = p
  /\ TopWire \in AllWires /\ MiddleWire \in AllWires /\ TopWire # MiddleWire
  /\ is_wire(TopWire) /\ is_wire(MiddleWire)
  /\ ~is_principal_wire(TopWire)
  /\ \A v \in {Number, Unset} : ~is_wire(v) /\ ~is_principal_wire(v) /\ is_non_wire(v)
  /\ \A p \in Ports : ~is_non_wire(Own(p))
  /\ \A v : is_wire(v) => v # Unset /\ ~is_principal_wire(v) /\ ~is_non_wire(v)
  /\ Unset \notin {TopWire, MiddleWire, Number}
<1>1. \A p \in Ports : p # <<0, 0>> /\ p # <<0, 1>>
  BY PortIs
<1>2. \A p \in AuxPorts : p \notin PrincipalPorts
  BY DEF AuxPorts
<1>3. \A p \in Ports : p \notin PrincipalPorts => p \in AuxPorts
  BY DEF AuxPorts
<1>4. \A p \in AuxPorts : WireOf(p) \in AllWires
  BY DEF AllWires
<1> QED
  BY <1>1, <1>2, <1>3, <1>4
  DEF Own, WireOf, PrincipalWireOf, TopWire, MiddleWire, Number, Unset, AllWires,
      is_wire, is_principal_wire, is_non_wire

\* There are finitely many ports.
LEMMA PortsFinite == IsFiniteSet(Ports)
<1> DEFINE Of(n) == {n} \X (0 .. arity[n] - 1)
           All == {Of(n) : n \in NetNodes}
           of == [n \in NetNodes |-> Of(n)]
<1>1. IsFiniteSet(All)
  <2>1. of \in Surjection(NetNodes, All)
    BY Zenon DEF Surjection
  <2> QED
    BY <2>1, NetAssumption, FS_Surjection
<1>2. \A n \in NetNodes : IsFiniteSet(Of(n))
  <2> TAKE n \in NetNodes
  <2>1. IsFiniteSet({n})
    BY FS_Singleton
  <2>2. IsFiniteSet(0 .. arity[n] - 1)
    <3>1. 0 \in Int /\ arity[n] - 1 \in Int
      BY PortIs
    <3> QED
      BY <3>1, FS_Interval
  <2> QED
    BY <2>1, <2>2, FS_Product
<1>3. \A S \in All : IsFiniteSet(S)
  BY <1>2
<1>4. IsFiniteSet(UNION All)
  BY <1>1, <1>3, FS_UNION
<1> QED
  BY <1>4 DEF Ports

\* There are at least two wires, and finitely many.
LEMMA WireCount == Cardinality(AllWires) \in Nat /\ Cardinality(AllWires) >= 2
<1>1. IsFiniteSet(Ports)
  BY PortsFinite
<1>2. IsFiniteSet(AuxPorts)
  BY <1>1, FS_Subset DEF AuxPorts
<1>3. IsFiniteSet({WireOf(p) : p \in AuxPorts})
  <2> DEFINE wire == [p \in AuxPorts |-> WireOf(p)]
  <2>1. wire \in Surjection(AuxPorts, {WireOf(p) : p \in AuxPorts})
    BY Zenon DEF Surjection
  <2> QED
    BY <1>2, <2>1, FS_Surjection
<1>4. IsFiniteSet({TopWire}) /\ Cardinality({TopWire}) = 1
  BY FS_Singleton
<1>5. IsFiniteSet({TopWire, MiddleWire}) /\ Cardinality({TopWire, MiddleWire}) = 2
  <2>1. {TopWire, MiddleWire} = {TopWire} \union {MiddleWire} /\ MiddleWire \notin {TopWire}
    BY ValuesDiffer
  <2>2. /\ IsFiniteSet({TopWire} \union {MiddleWire})
        /\ Cardinality({TopWire} \union {MiddleWire}) = Cardinality({TopWire}) + 1
    BY <1>4, <2>1, FS_AddElement
  <2> QED
    BY <1>4, <2>1, <2>2
<1>6. IsFiniteSet(AllWires)
  BY <1>3, <1>5, FS_Union DEF AllWires
<1>7. {TopWire, MiddleWire} \subseteq AllWires
  BY DEF AllWires
<1>8. Cardinality({TopWire, MiddleWire}) <= Cardinality(AllWires)
  BY <1>6, <1>7, FS_Subset
<1>9. Cardinality(AllWires) \in Nat
  BY <1>6, FS_CardinalityType
<1> QED
  BY <1>5, <1>8, <1>9

----------------------------------------------------------------------------
(* Walking along wires. *)

\* Where one step of walk leads.
Ahead(v) == IF is_wire(v) /\ fuzed_value[v] # Unset THEN fuzed_value[v] ELSE v

\* A walk that stands still after two steps ends there.
LEMMA WalkEnds ==
  ASSUME NEW v, NEW u, NEW x, Ahead(v) = u, Ahead(u) = x, Ahead(x) = x
  PROVE  walk(v) = x
<1> DEFINE D == 0 .. Cardinality(AllWires)
           body(f) == [i \in D |-> IF i = 0 THEN v
                                   ELSE LET w == f[i - 1] IN
                                          IF is_wire(w) /\ fuzed_value[w] # Unset THEN fuzed_value[w] ELSE w]
           f == CHOOSE f : f = body(f)
           w == [i \in D |-> IF i = 0 THEN v ELSE IF i = 1 THEN u ELSE x]
<1>1. PICK N \in Nat : N = Cardinality(AllWires) /\ N >= 2 /\ D = 0 .. N
  BY WireCount
<1>2. walk(v) = f[N]
  BY <1>1 DEF walk
<1>3. \A g : \A i \in D : body(g)[i] = IF i = 0 THEN v ELSE Ahead(g[i - 1])
  BY DEF Ahead
<1>4. \A i \in D : i # 0 => i - 1 \in D /\ (i - 1 = 0 <=> i = 1) /\ ~(i <= i - 1)
  BY <1>1
<1> HIDE DEF D
<1>5. \A i \in D : w[i] = body(w)[i]
  <2> TAKE i \in D
  <2>1. CASE i = 0
    BY <1>3, <2>1
  <2>2. CASE i # 0
    <3>1. w[i] = IF i = 1 THEN u ELSE x
      BY <2>2
    <3>2. w[i - 1] = IF i = 1 THEN v ELSE IF i - 1 = 1 THEN u ELSE x
      BY <1>4, <2>2
    <3>3. body(w)[i] = Ahead(w[i - 1])
      BY <1>3, <2>2
    <3> QED
      BY ONLY <3>1, <3>2, <3>3, Ahead(v) = u, Ahead(u) = x, Ahead(x) = x
  <2> QED
    BY <2>1, <2>2
<1>6. w = body(w)
  BY <1>5
<1> HIDE DEF w
<1>7. f = body(f)
  <2> HIDE DEF body
  <2> QED
    BY <1>6
<1> HIDE DEF f
<1>8. \A i \in D : f[i] = IF i = 0 THEN v ELSE Ahead(f[i - 1])
  BY <1>3, <1>7
<1>9. \A i \in D : w[i] = IF i = 0 THEN v ELSE Ahead(w[i - 1])
  BY <1>3, <1>6
<1> HIDE DEF body
<1> DEFINE R == {i \in D : f[i] # w[i]}
<1>10. R = {}
  <2> SUFFICES ASSUME R # {} PROVE FALSE
    OBVIOUS
  <2>1. R \subseteq Nat
    BY <1>1 DEF D
  <2>2. PICK i \in R : \A j \in R : i <= j
    BY <2>1, LeastElement
  <2>3. i # 0
    BY <1>8, <1>9
  <2>4. f[i - 1] = w[i - 1]
    BY <1>4, <2>2, <2>3
  <2> QED
    BY <1>8, <1>9, <2>3, <2>4
<1>11. N \in D /\ N # 0 /\ N # 1
  BY <1>1
<1>12. w[N] = x
  BY <1>11 DEF w
<1> QED
  BY <1>2, <1>10, <1>11, <1>12

----------------------------------------------------------------------------
(* The inductive invariant. *)

\* All values.
Values == {Own(p) : p \in Ports} \union AllWires \union {Number}

\* Port p has the value that was made for it, and nothing is known of it.
Untouched(p) == value_array[p] = Own(p) /\ (p \in AuxPorts => fuzed_value[WireOf(p)] = Unset)

\* Port p leads to the number.
Filled(p) ==
  /\ p \in AuxPorts
  /\ value_array[p] = Number \/ (value_array[p] = WireOf(p) /\ fuzed_value[WireOf(p)] = Number)

\* Port p leads to the value on the stack.
Ended(p) ==
  /\ p \in AuxPorts /\ value_array[p] = WireOf(p)
  /\ fuzed_value[WireOf(p)] = TopWire /\ fuzed_value[TopWire] = Unset

\* Port p leads to the value of port q: it has it, or its wire is fuzed with it,
\* or with one wire between.
Joint(p, q) ==
  /\ p \in AuxPorts /\ q \in Ports /\ Untouched(q)
  /\ \/ value_array[p] = Own(q)
     \/ value_array[p] = WireOf(p) /\ fuzed_value[WireOf(p)] = Own(q)
     \/ /\ value_array[p] = WireOf(p) /\ fuzed_value[WireOf(p)] = MiddleWire
        /\ fuzed_value[MiddleWire] = Own(q)

\* Two principal wires that are opposite.
Opposed(p, q) ==
  /\ p \in PrincipalPorts /\ q \in PrincipalPorts
  /\ value_array[p] = Own(p) /\ value_array[q] = Own(q)
  /\ oppsite[p] = q /\ oppsite[q] = p

NetTypeOK ==
  /\ value_array \in [Ports -> Values] /\ fuzed_value \in [AllWires -> Values \union {Unset}]
  /\ oppsite \in [PrincipalPorts -> PrincipalPorts \union {NULL}]
  /\ mate \in [Ports -> Ports \union {NULL}]

MadeFree ==
  \A p \in Ports : mate[p] = NULL => Untouched(p) \/ Filled(p) \/ (Ended(p) /\ held = p)

MadeJoined ==
  \A p, q \in Ports : mate[p] = q =>
    /\ p # q /\ mate[q] = p
    /\ Joint(p, q) \/ Joint(q, p) \/ Opposed(p, q)

MadeOpposed ==
  \A p \in PrincipalPorts : oppsite[p] # NULL => mate[p] = oppsite[p] /\ Opposed(p, oppsite[p])

\* What the stack holds.
MadeRoot ==
  \/ held = NULL /\ root = TopWire /\ fuzed_value[TopWire] = Unset
  \/ /\ iter.pc # "build" /\ held \in Ports /\ mate[held] = NULL
     /\ \/ Untouched(held) /\ root = Own(held)
        \/ Untouched(held) /\ root = TopWire /\ fuzed_value[TopWire] = Own(held)
        \/ Ended(held) /\ root = TopWire

Made == NetTypeOK /\ MadeFree /\ MadeJoined /\ MadeOpposed /\ MadeRoot

----------------------------------------------------------------------------
(* What walking finds. *)

\* Where a port leads.
End(p) == walk(value_array[p])

\* A value that leads nowhere is the end of the walk.
LEMMA WalkStays ==
  ASSUME NEW v, Ahead(v) = v
  PROVE  walk(v) = v
<1> QED
  BY WalkEnds

\* The value of a port that is untouched leads nowhere.
LEMMA UntouchedStays ==
  ASSUME NEW p \in Ports, Untouched(p)
  PROVE  Ahead(Own(p)) = Own(p)
<1>1. CASE p \in AuxPorts
  BY <1>1, ValuesDiffer DEF Ahead, Untouched
<1>2. CASE p \in PrincipalPorts
  BY <1>2, ValuesDiffer DEF Ahead
<1> QED
  BY <1>1, <1>2, PortIs

\* The number leads nowhere.
LEMMA NumberStays == Ahead(Number) = Number
<1> QED
  BY ValuesDiffer DEF Ahead

\* The end of a port of each kind.
LEMMA UntouchedEnd ==
  ASSUME NEW p \in Ports, Untouched(p)
  PROVE  End(p) = Own(p) /\ Ahead(End(p)) = End(p)
<1> QED
  BY UntouchedStays, WalkStays DEF End, Untouched

\* A port that was given a number leads to it.
LEMMA FilledEnd ==
  ASSUME NEW p \in Ports, Filled(p)
  PROVE  End(p) = Number /\ Ahead(End(p)) = End(p)
<1>1. CASE value_array[p] = Number
  BY <1>1, NumberStays, WalkStays DEF End
<1>2. CASE value_array[p] = WireOf(p) /\ fuzed_value[WireOf(p)] = Number
  <2>1. Ahead(WireOf(p)) = Number
    BY <1>2, ValuesDiffer DEF Ahead, Filled
  <2>2. walk(WireOf(p)) = Number
    BY <2>1, NumberStays, WalkEnds
  <2> QED
    BY <1>2, <2>2, NumberStays DEF End
<1> QED
  BY <1>1, <1>2 DEF Filled

\* The port that the value on the stack leads to is at the top wire.
LEMMA EndedEnd ==
  ASSUME NEW p \in Ports, Ended(p)
  PROVE  End(p) = TopWire /\ Ahead(End(p)) = End(p)
<1>1. Ahead(WireOf(p)) = TopWire
  BY ValuesDiffer DEF Ahead, Ended
<1>2. Ahead(TopWire) = TopWire
  BY DEF Ahead, Ended
<1>3. walk(WireOf(p)) = TopWire
  BY <1>1, <1>2, WalkEnds
<1> QED
  BY <1>2, <1>3 DEF End, Ended

\* Two ports joined through wires lead to the same value, that of the second.
LEMMA JointEnd ==
  ASSUME NEW p \in Ports, NEW q \in Ports, Joint(p, q)
  PROVE  /\ End(p) = Own(q) /\ End(q) = Own(q)
         /\ Ahead(End(p)) = End(p) /\ Ahead(End(q)) = End(q)
<1>1. Ahead(Own(q)) = Own(q)
  BY UntouchedStays DEF Joint
<1>2. End(q) = Own(q)
  BY UntouchedEnd DEF Joint
<1>3. CASE value_array[p] = Own(q)
  BY <1>1, <1>2, <1>3, WalkStays DEF End
<1>4. CASE value_array[p] = WireOf(p) /\ fuzed_value[WireOf(p)] = Own(q)
  <2>1. Ahead(WireOf(p)) = Own(q)
    BY <1>4, ValuesDiffer DEF Ahead, Joint
  <2>2. walk(WireOf(p)) = Own(q)
    BY <1>1, <2>1, WalkEnds
  <2> QED
    BY <1>1, <1>2, <1>4, <2>2 DEF End
<1>5. CASE /\ value_array[p] = WireOf(p) /\ fuzed_value[WireOf(p)] = MiddleWire
           /\ fuzed_value[MiddleWire] = Own(q)
  <2>1. Ahead(WireOf(p)) = MiddleWire
    BY <1>5, ValuesDiffer DEF Ahead, Joint
  <2>2. Ahead(MiddleWire) = Own(q)
    BY <1>5, ValuesDiffer DEF Ahead
  <2>3. walk(WireOf(p)) = Own(q)
    BY <1>1, <2>1, <2>2, WalkEnds
  <2> QED
    BY <1>1, <1>2, <1>5, <2>3 DEF End
<1> QED
  BY <1>3, <1>4, <1>5 DEF Joint

\* A principal port leads no further than its own principal wire.
LEMMA OpposedEnd ==
  ASSUME NEW p \in PrincipalPorts, NEW q, Opposed(p, q)
  PROVE  End(p) = Own(p) /\ Ahead(End(p)) = End(p)
<1>1. p \in Ports /\ p \notin AuxPorts
  BY PortIs
<1> QED
  BY <1>1, UntouchedEnd DEF Untouched, Opposed

\* Where a port leads in a net that was made.
LEMMA EndsAre ==
  ASSUME Made, NEW p \in Ports
  PROVE  /\ walk(End(p)) = End(p)
         /\ mate[p] \in Ports => \/ End(p) = Own(p) /\ End(mate[p]) = Own(p)
                                 \/ End(p) = Own(mate[p]) /\ End(mate[p]) = Own(mate[p])
                                 \/ /\ Opposed(p, mate[p])
                                    /\ End(p) = Own(p) /\ End(mate[p]) = Own(mate[p])
         /\ mate[p] \notin Ports => \/ End(p) = Own(p)
                                    \/ End(p) = Number
                                    \/ End(p) = TopWire /\ held = p
<1>1. CASE mate[p] \in Ports
  <2>1. PICK q \in Ports : mate[p] = q
    BY <1>1
  <2>2. Joint(p, q) \/ Joint(q, p) \/ Opposed(p, q)
    BY <2>1 DEF Made, MadeJoined
  <2>3. CASE Joint(p, q)
    BY <2>1, <2>3, JointEnd, WalkStays
  <2>4. CASE Joint(q, p)
    BY <2>1, <2>4, JointEnd, WalkStays
  <2>5. CASE Opposed(p, q)
    <3>1. Opposed(q, p) /\ p \in PrincipalPorts /\ q \in PrincipalPorts
      BY <2>5 DEF Opposed
    <3> QED
      BY <2>1, <2>5, <3>1, OpposedEnd, WalkStays
  <2> QED
    BY <2>2, <2>3, <2>4, <2>5
<1>2. CASE mate[p] \notin Ports
  <2>1. mate[p] = NULL
    BY <1>2 DEF Made, NetTypeOK
  <2>2. Untouched(p) \/ Filled(p) \/ (Ended(p) /\ held = p)
    BY <2>1 DEF Made, MadeFree
  <2>3. CASE Untouched(p)
    BY <1>2, <2>3, UntouchedEnd, WalkStays
  <2>4. CASE Filled(p)
    BY <1>2, <2>4, FilledEnd, WalkStays
  <2>5. CASE Ended(p) /\ held = p
    BY <1>2, <2>5, EndedEnd, WalkStays
  <2> QED
    BY <2>2, <2>3, <2>4, <2>5
<1> QED
  BY <1>1, <1>2

\* Two ports lead to the same wire, or to wires that are opposite, exactly if
\* they were joined.
LEMMA ConnectedIsMate ==
  ASSUME Made, NEW p \in Ports, NEW q \in Ports, p # q
  PROVE  is_connected(value_array[p], value_array[q]) <=> mate[p] = q
<1>1. PICK v, w : v = End(p) /\ w = End(q)
  OBVIOUS
<1>2. walk(v) = v /\ walk(w) = w
  BY <1>1, EndsAre
<1>3. is_connected(value_array[p], value_array[q]) <=>
        IF is_principal_wire(v) /\ is_principal_wire(w)
        THEN v = w \/ (oppsite[v[2]] = w[2] /\ oppsite[w[2]] = v[2])
        ELSE is_wire(v) /\ v = w
  BY <1>1, <1>2 DEF is_connected, is_fuzed, End
<1>4. /\ mate[p] \in Ports => /\ mate[p] # p /\ mate[mate[p]] = p
                             /\ v \in {Own(p), Own(mate[p])}
      /\ mate[p] \notin Ports => v \in {Own(p), Number} \/ (v = TopWire /\ held = p)
  BY <1>1, EndsAre DEF Made, MadeJoined
<1>5. /\ mate[q] \in Ports => /\ mate[q] # q /\ mate[mate[q]] = q
                             /\ w \in {Own(q), Own(mate[q])}
      /\ mate[q] \notin Ports => w \in {Own(q), Number} \/ (w = TopWire /\ held = q)
  BY <1>1, EndsAre DEF Made, MadeJoined
<1>6. ASSUME mate[p] = q
      PROVE  is_connected(value_array[p], value_array[q])
  <2>1. v = w \/ (Opposed(p, q) /\ v = Own(p) /\ w = Own(q))
    BY <1>1, <1>6, EndsAre
  <2>2. v \in {Own(p), Own(q)}
    BY <1>4, <1>6
  <2>3. is_wire(v) \/ is_principal_wire(v)
    BY <2>2, PortIs, ValuesDiffer
  <2>4. CASE v = w
    BY <1>3, <2>3, <2>4, ValuesDiffer
  <2>5. CASE Opposed(p, q) /\ v = Own(p) /\ w = Own(q)
    BY <1>3, <2>5, ValuesDiffer DEF Opposed
  <2> QED
    BY <2>1, <2>4, <2>5
<1>7. ASSUME is_connected(value_array[p], value_array[q])
      PROVE  mate[p] = q
  <2>1. CASE v = w
    <3>1. v # Number
      BY <1>3, <1>7, <2>1, ValuesDiffer
    <3>2. v # TopWire
      <4>1. v = TopWire => held = p
        BY <1>4, ValuesDiffer
      <4>2. w = TopWire => held = q
        BY <1>5, ValuesDiffer
      <4> QED
        BY <2>1, <4>1, <4>2
    <3>3. \E a \in Ports : v = Own(a) /\ (a = p \/ a = mate[p])
      BY <1>4, <3>1, <3>2
    <3>4. \E b \in Ports : w = Own(b) /\ (b = q \/ b = mate[q])
      BY <1>5, <2>1, <3>1, <3>2
    <3>5. PICK a \in Ports : (a = p \/ a = mate[p]) /\ (a = q \/ a = mate[q])
      BY <2>1, <3>3, <3>4, ValuesDiffer
    <3> QED
      BY <1>4, <1>5, <3>5
  <2>2. CASE v # w
    <3>1. is_principal_wire(v) /\ is_principal_wire(w) /\ oppsite[v[2]] = w[2] /\ oppsite[w[2]] = v[2]
      BY <1>3, <1>7, <2>2
    <3>2. v # Number /\ v # TopWire /\ w # Number /\ w # TopWire
      BY <3>1, ValuesDiffer
    <3>3. PICK a \in Ports : v = Own(a) /\ (a = p \/ a = mate[p])
      BY <1>4, <3>2
    <3>4. PICK b \in Ports : w = Own(b) /\ (b = q \/ b = mate[q])
      BY <1>5, <3>2
    <3>5. a \in PrincipalPorts /\ b \in PrincipalPorts /\ v[2] = a /\ w[2] = b
      BY <3>1, <3>3, <3>4, PortIs, ValuesDiffer
    <3>6. oppsite[a] = b /\ b # NULL
      BY <3>1, <3>5, PortsAssumption
    <3>7. mate[a] = b
      BY <3>5, <3>6 DEF Made, MadeOpposed
    <3> QED
      BY <1>4, <1>5, <3>3, <3>4, <3>7
  <2> QED
    BY <2>1, <2>2
<1> QED
  BY <1>6, <1>7

\* A wire that is one end of what the stack holds is found at the node of the
\* port that has the other end.
LEMMA RootIsFound ==
  ASSUME Made, NEW v, v = walk(root)
  PROVE  /\ held = NULL => ~is_principal_wire(v) /\ worker_lookup_node_by_wire(v) = NULL
         /\ held # NULL => /\ held \in Ports
                           /\ IF is_principal_wire(v) THEN v[2][1] = held[1]
                              ELSE worker_lookup_node_by_wire(v) = held[1]
<1>1. CASE held = NULL
  <2>1. v = TopWire /\ walk(v) = v
    <3>1. root = TopWire /\ fuzed_value[TopWire] = Unset
      BY <1>1, PortsAssumption DEF Made, MadeRoot
    <3>2. Ahead(TopWire) = TopWire
      BY <3>1 DEF Ahead
    <3> QED
      BY <3>1, <3>2, WalkStays
  <2>2. \A p \in Ports : End(p) # TopWire /\ walk(End(p)) = End(p)
    <3> TAKE p \in Ports
    <3>1. p # NULL
      BY PortsAssumption
    <3> QED
      BY <1>1, <3>1, EndsAre, ValuesDiffer
  <2>3. \A n \in NetNodes : ~node_has_wire(n, v)
    <3> SUFFICES ASSUME NEW n \in NetNodes, node_has_wire(n, v) PROVE FALSE
      OBVIOUS
    <3>1. PICK i \in 0 .. arity[n] - 1 : is_fuzed(value_array[<<n, i>>], v)
      BY DEF node_has_wire
    <3>2. <<n, i>> \in Ports
      BY PortIs
    <3> QED
      BY <2>1, <2>2, <3>1, <3>2 DEF is_fuzed, End
  <2>4. {n \in NetNodes : node_has_wire(n, v)} = {}
    BY <2>3
  <2> QED
    BY <1>1, <2>1, <2>4, ValuesDiffer DEF worker_lookup_node_by_wire
<1>2. CASE held # NULL
  <2>1. held \in Ports /\ mate[held] = NULL /\ mate[held] \notin Ports
    BY <1>2, PortsAssumption DEF Made, MadeRoot
  <2>2. v = End(held) /\ walk(v) = v
    <3>1. CASE Untouched(held) /\ root = Own(held)
      BY <2>1, <3>1, UntouchedEnd, UntouchedStays, WalkStays
    <3>2. CASE Untouched(held) /\ root = TopWire /\ fuzed_value[TopWire] = Own(held)
      <4>1. Ahead(TopWire) = Own(held) /\ Ahead(Own(held)) = Own(held)
        BY <2>1, <3>2, UntouchedStays, ValuesDiffer DEF Ahead
      <4>2. walk(TopWire) = Own(held)
        BY <4>1, WalkEnds
      <4> QED
        BY <2>1, <3>2, <4>1, <4>2, UntouchedEnd, WalkStays
    <3>3. CASE Ended(held) /\ root = TopWire
      <4>1. Ahead(TopWire) = TopWire
        BY <3>3 DEF Ahead, Ended
      <4> QED
        BY <2>1, <3>3, <4>1, EndedEnd, WalkStays
    <3> QED
      BY <1>2, <3>1, <3>2, <3>3 DEF Made, MadeRoot
  <2>3. v = Own(held) \/ v = TopWire
    <3>1. Untouched(held) => v = Own(held)
      BY <2>1, <2>2, UntouchedEnd
    <3>2. Ended(held) => v = TopWire
      BY <2>1, <2>2, EndedEnd
    <3> QED
      BY <1>2, <3>1, <3>2 DEF Made, MadeRoot
  <2>4. CASE is_principal_wire(v)
    <3>1. v = Own(held) /\ held \in PrincipalPorts
      BY <2>1, <2>3, <2>4, PortIs, ValuesDiffer
    <3> QED
      BY <1>2, <2>1, <2>4, <3>1, ValuesDiffer
  <2>5. CASE ~is_principal_wire(v)
    <3>1. is_wire(v)
      BY <2>1, <2>3, <2>5, PortIs, ValuesDiffer
    <3>2. \A p \in Ports : is_fuzed(value_array[p], v) <=> p = held
      <4> TAKE p \in Ports
      <4>1. is_fuzed(value_array[p], v) <=> is_wire(End(p)) /\ End(p) = v
        BY <2>2 DEF is_fuzed, End
      <4>2. p = held => is_fuzed(value_array[p], v)
        BY <2>2, <3>1, <4>1
      <4>3. ASSUME End(p) = v, p # held PROVE FALSE
        <5>1. CASE v = TopWire
          BY <4>3, <5>1, EndsAre, ValuesDiffer
        <5>2. CASE v = Own(held)
          <6>1. mate[p] \in Ports => mate[mate[p]] = p
            BY DEF Made, MadeJoined
          <6>2. \/ End(p) = Own(p)
                \/ mate[p] \in Ports /\ End(p) = Own(mate[p])
            BY <2>1, <4>3, <5>2, EndsAre, ValuesDiffer
          <6>3. mate[p] = held
            BY <2>1, <4>3, <5>2, <6>2, ValuesDiffer
          <6> QED
            BY <2>1, <6>1, <6>3, PortsAssumption
        <5> QED
          BY <2>3, <5>1, <5>2
      <4> QED
        BY <4>1, <4>2, <4>3
    <3>3. \A n \in NetNodes : node_has_wire(n, v) <=> n = held[1]
      <4> TAKE n \in NetNodes
      <4>1. ASSUME node_has_wire(n, v) PROVE n = held[1]
        <5>1. PICK i \in 0 .. arity[n] - 1 : is_fuzed(value_array[<<n, i>>], v)
          BY <4>1 DEF node_has_wire
        <5>2. <<n, i>> \in Ports
          BY PortIs
        <5>3. <<n, i>> = held
          BY <3>2, <5>1, <5>2
        <5> QED
          BY <5>3
      <4>2. ASSUME n = held[1] PROVE node_has_wire(n, v)
        <5>1. held = <<n, held[2]>> /\ held[2] \in 0 .. arity[n] - 1
          BY <2>1, <4>2, PortIs
        <5>2. is_fuzed(value_array[<<n, held[2]>>], v)
          BY <2>1, <3>2, <5>1
        <5> QED
          BY <5>1, <5>2 DEF node_has_wire
      <4> QED
        BY <4>1, <4>2
    <3>4. PICK n \in NetNodes : n = held[1]
      BY <2>1, PortIs
    <3>5. {k \in NetNodes : node_has_wire(k, v)} = {n}
      BY <3>3, <3>4
    <3>6. First({n}) = n
      <4>1. n <= n
        BY <3>4, PortIs
      <4> QED
        BY <4>1 DEF First
    <3> QED
      BY <1>2, <2>1, <2>5, <3>4, <3>5, <3>6 DEF worker_lookup_node_by_wire
  <2> QED
    BY <2>4, <2>5
<1> QED
  BY <1>1, <1>2

----------------------------------------------------------------------------
(* The neighbours of nodes. *)

\* The least element is one of the elements.
LEMMA FirstIs ==
  ASSUME NEW S \in SUBSET Nat, S # {}
  PROVE  First(S) \in S
<1>1. \E x \in S : \A y \in S : x <= y
  BY LeastElement
<1> QED
  BY <1>1 DEF First

\* A neighbour that is found has the other end of the wire.
LEMMA NeighborIs ==
  ASSUME Made, NEW n \in NetNodes, NEW m \in NetNodes, NEW r, r = node_neighbor_new_maybe(n, m), r # NULL
  PROVE  /\ n # m
         /\ r.start_port_index \in 0 .. arity[n] - 1 /\ r.end_port \in Ports
         /\ r.end_port[1] = m /\ mate[<<n, r.start_port_index>>] = r.end_port
<1> DEFINE joined(i) == {j \in 0 .. arity[m] - 1 :
                           is_connected(value_array[<<n, i>>], value_array[<<m, j>>])}
           starts == {i \in 0 .. arity[n] - 1 : joined(i) # {}}
           x == First(starts)
           y == First(joined(x))
<1>1. r = IF n = m \/ starts = {} THEN NULL
          ELSE [start_port_index |-> x, end_port |-> <<m, y>>]
  BY DEF node_neighbor_new_maybe
<1>2. starts \in SUBSET Nat /\ starts \subseteq 0 .. arity[n] - 1
  OBVIOUS
<1>3. ASSUME NEW i PROVE joined(i) \in SUBSET Nat /\ joined(i) \subseteq 0 .. arity[m] - 1
  <2>1. 0 .. arity[m] - 1 \subseteq Nat
    OBVIOUS
  <2> QED
    BY <2>1
<1>4. ASSUME n # m, NEW i \in 0 .. arity[n] - 1, NEW j \in joined(i)
      PROVE  mate[<<n, i>>] = <<m, j>> /\ <<m, j>> \in Ports
  <2>1. <<n, i>> \in Ports /\ <<m, j>> \in Ports /\ <<n, i>> # <<m, j>>
    BY <1>4, PortIs
  <2> QED
    BY <1>4, <2>1, ConnectedIsMate
<1>5. starts # {} => x \in starts
  BY <1>2, FirstIs
<1>6. joined(x) # {} => y \in joined(x)
  BY <1>3, FirstIs
<1>7. starts # {} => x \in 0 .. arity[n] - 1 /\ joined(x) # {}
  BY <1>5
<1> HIDE DEF x, y, starts, joined
<1>8. n # m /\ starts # {}
  BY <1>1
<1>9. r.start_port_index = x /\ r.end_port = <<m, y>>
  BY <1>1, <1>8
<1>10. x \in 0 .. arity[n] - 1 /\ y \in joined(x)
  BY <1>6, <1>7, <1>8
<1>11. mate[<<n, x>>] = <<m, y>> /\ <<m, y>> \in Ports
  BY <1>4, <1>8, <1>10
<1> QED
  BY <1>8, <1>9, <1>10, <1>11

\* A neighbour is found if two ports are joined.
LEMMA NeighborFound ==
  ASSUME Made, NEW n \in NetNodes, NEW m \in NetNodes, n # m,
         NEW k \in 0 .. arity[n] - 1, NEW l \in 0 .. arity[m] - 1, mate[<<n, k>>] = <<m, l>>
  PROVE  node_neighbor_new_maybe(n, m) # NULL
<1> DEFINE joined(i) == {j \in 0 .. arity[m] - 1 :
                           is_connected(value_array[<<n, i>>], value_array[<<m, j>>])}
           starts == {i \in 0 .. arity[n] - 1 : joined(i) # {}}
           x == First(starts)
           y == First(joined(x))
<1>1. node_neighbor_new_maybe(n, m) =
         IF n = m \/ starts = {} THEN NULL
          ELSE [start_port_index |-> x, end_port |-> <<m, y>>]
  BY DEF node_neighbor_new_maybe
<1>2. starts \in SUBSET Nat /\ starts \subseteq 0 .. arity[n] - 1
  OBVIOUS
<1>3. ASSUME NEW i PROVE joined(i) \in SUBSET Nat /\ joined(i) \subseteq 0 .. arity[m] - 1
  <2>1. 0 .. arity[m] - 1 \subseteq Nat
    OBVIOUS
  <2> QED
    BY <2>1
<1>4. ASSUME n # m, NEW i \in 0 .. arity[n] - 1, NEW j \in joined(i)
      PROVE  mate[<<n, i>>] = <<m, j>> /\ <<m, j>> \in Ports
  <2>1. <<n, i>> \in Ports /\ <<m, j>> \in Ports /\ <<n, i>> # <<m, j>>
    BY <1>4, PortIs
  <2> QED
    BY <1>4, <2>1, ConnectedIsMate
<1>5. starts # {}
  <2>1. <<n, k>> \in Ports /\ <<m, l>> \in Ports /\ <<n, k>> # <<m, l>>
    BY PortIs
  <2> QED
    BY <2>1, ConnectedIsMate
<1>6. starts # {} => x \in starts
  BY <1>2, FirstIs
<1>7. joined(x) # {} => y \in joined(x)
  BY <1>3, FirstIs
<1>8. starts # {} => x \in 0 .. arity[n] - 1 /\ joined(x) # {}
  BY <1>6
<1> HIDE DEF x, y, starts, joined
<1>9. node_neighbor_new_maybe(n, m) = [start_port_index |-> x, end_port |-> <<m, y>>]
  BY <1>1, <1>5
<1>10. x \in 0 .. arity[n] - 1 /\ y \in joined(x)
  BY <1>5, <1>7, <1>8
<1>11. x \in Nat
  BY ONLY <1>10
<1>12. <<m, y>> \in Ports
  BY <1>4, <1>10
<1>13. [start_port_index |-> x, end_port |-> <<m, y>>] \in [start_port_index : Nat, end_port : Ports]
  BY <1>11, <1>12
<1> QED
  BY <1>9, <1>13, PortsAssumption

\* H notes neighbours that are neighbours in the net, and one port at least for
\* each of them.
NotedIn(H) ==
  /\ \A p \in Ports : H[p] # NULL => H[p] = mate[p] /\ mate[p] \in Ports /\ mate[p][1] # p[1]
  /\ \A p \in Ports : mate[p] \in Ports /\ mate[p][1] # p[1] =>
       \E i \in 0 .. arity[p[1]] - 1 : H[<<p[1], i>>] \in Ports /\ H[<<p[1], i>>][1] = mate[p][1]

\* What build_node_neighborhood_hash notes.
LEMMA NeighbourhoodIs ==
  ASSUME Made, NEW H, H = build_node_neighborhood_hash
  PROVE  H \in [Ports -> Ports \union {NULL}] /\ NotedIn(H)
<1> DEFINE neighbor == [n \in NetNodes |-> [m \in NetNodes |-> node_neighbor_new_maybe(n, m)]]
           there(p) == {u \in NetNodes : /\ neighbor[p[1]][u] # NULL
                                         /\ neighbor[p[1]][u].start_port_index = p[2]}
           last(p) == CHOOSE z \in there(p) : \A k \in there(p) : k <= z
           noted(p) == IF there(p) = {} THEN NULL ELSE neighbor[p[1]][last(p)].end_port
<1>1. H = [p \in Ports |-> noted(p)]
  BY DEF build_node_neighborhood_hash
<1>2. \A n, m \in NetNodes : neighbor[n][m] = node_neighbor_new_maybe(n, m)
  OBVIOUS
<1> HIDE DEF neighbor
<1>3. ASSUME NEW n \in NetNodes, NEW m \in NetNodes, NEW r, r = neighbor[n][m]
      PROVE  r # NULL => /\ n # m
                         /\ r.start_port_index \in 0 .. arity[n] - 1 /\ r.end_port \in Ports
                         /\ r.end_port[1] = m /\ mate[<<n, r.start_port_index>>] = r.end_port
  BY <1>2, <1>3, NeighborIs
<1>4. ASSUME NEW p \in Ports, NEW m \in there(p)
      PROVE  there(p) = {m} /\ noted(p) = mate[p] /\ mate[p] \in Ports /\ mate[p][1] = m /\ m # p[1]
  <2>1. p = <<p[1], p[2]>> /\ p[1] \in NetNodes
    BY PortIs
  <2>2. ASSUME NEW k \in there(p)
        PROVE  /\ neighbor[p[1]][k].end_port = mate[p] /\ mate[p] \in Ports /\ mate[p][1] = k
               /\ k # p[1]
    <3>1. PICK r : r = neighbor[p[1]][k]
      OBVIOUS
    <3>2. k \in NetNodes /\ r # NULL /\ r.start_port_index = p[2]
      BY <3>1
    <3> QED
      BY <1>3, <2>1, <3>1, <3>2
  <2>3. there(p) = {m}
    BY <2>2
  <2>4. m <= m
    <3>1. m \in Nat
      BY PortIs
    <3> QED
      BY ONLY <3>1
  <2>5. last(p) = m
    BY <2>3, <2>4
  <2> QED
    BY <2>2, <2>3, <2>5
<1>11. ASSUME NEW p \in Ports, there(p) = {} PROVE noted(p) = NULL
  BY <1>11
<1>12. ASSUME NEW n \in NetNodes, NEW m \in NetNodes, NEW i,
              neighbor[n][m] # NULL, neighbor[n][m].start_port_index = i
       PROVE  m \in there(<<n, i>>)
  BY <1>12
<1> HIDE DEF there, noted, last
<1>5. ASSUME NEW p \in Ports
      PROVE  \/ noted(p) = NULL
             \/ noted(p) = mate[p] /\ mate[p] \in Ports /\ mate[p][1] # p[1]
  <2>1. CASE there(p) = {}
    BY <1>11, <2>1
  <2>2. CASE there(p) # {}
    <3>1. PICK m : m \in there(p)
      BY <2>2
    <3> QED
      BY <1>4, <3>1
  <2> QED
    BY <2>1, <2>2
<1>6. ASSUME NEW p \in Ports, mate[p] \in Ports, mate[p][1] # p[1]
      PROVE  \E i \in 0 .. arity[p[1]] - 1 :
               <<p[1], i>> \in Ports /\ noted(<<p[1], i>>) \in Ports /\ noted(<<p[1], i>>)[1] = mate[p][1]
  <2>1. PICK n \in NetNodes, m \in NetNodes : n = p[1] /\ m = mate[p][1]
    BY <1>6, PortIs
  <2>11. PICK k \in 0 .. arity[n] - 1 : p = <<n, k>>
    BY <2>1, PortIs
  <2>12. PICK j \in 0 .. arity[m] - 1 : mate[p] = <<m, j>>
    BY <1>6, <2>1, PortIs
  <2>2. n # m
    BY <1>6, <2>1
  <2>3. PICK r : r = neighbor[n][m]
    OBVIOUS
  <2>4. r # NULL
    <3>1. mate[<<n, k>>] = <<m, j>>
      BY <2>11, <2>12
    <3>2. node_neighbor_new_maybe(n, m) # NULL
      BY <2>2, <3>1, NeighborFound
    <3> QED
      BY <1>2, <2>3, <3>2
  <2>5. r.start_port_index \in 0 .. arity[n] - 1
    BY <1>3, <2>3, <2>4
  <2>6. PICK i \in 0 .. arity[n] - 1 : i = r.start_port_index
    BY <2>5
  <2>7. <<n, i>> \in Ports /\ m \in there(<<n, i>>)
    BY <1>12, <2>3, <2>4, <2>6, PortIs
  <2>8. noted(<<n, i>>) = mate[<<n, i>>] /\ mate[<<n, i>>] \in Ports /\ mate[<<n, i>>][1] = m
    BY <1>4, <2>7
  <2>9. \E a \in 0 .. arity[n] - 1 :
          <<n, a>> \in Ports /\ noted(<<n, a>>) \in Ports /\ noted(<<n, a>>)[1] = m
    BY <2>7, <2>8
  <2> QED
    BY <2>1, <2>9
<1>7. \A p \in Ports : H[p] = noted(p)
  BY <1>1
<1>8. \A p \in Ports : H[p] # NULL => H[p] = mate[p] /\ mate[p] \in Ports /\ mate[p][1] # p[1]
  BY <1>5, <1>7
<1>9. \A p \in Ports : mate[p] \in Ports /\ mate[p][1] # p[1] =>
        \E i \in 0 .. arity[p[1]] - 1 : H[<<p[1], i>>] \in Ports /\ H[<<p[1], i>>][1] = mate[p][1]
  <2> TAKE p \in Ports
  <2> HAVE mate[p] \in Ports /\ mate[p][1] # p[1]
  <2>1. PICK i \in 0 .. arity[p[1]] - 1 :
          <<p[1], i>> \in Ports /\ noted(<<p[1], i>>) \in Ports /\ noted(<<p[1], i>>)[1] = mate[p][1]
    BY <1>6
  <2> QED
    BY <1>7, <2>1
<1>10. H \in [Ports -> Ports \union {NULL}]
  BY <1>1, <1>5
<1> QED
  BY <1>8, <1>9, <1>10 DEF NotedIn

----------------------------------------------------------------------------
(* Pushing the neighbours of a node. *)

\* Sequences and their elements.
LEMMA AppendElements ==
  ASSUME NEW T, NEW s \in Seq(T), NEW x \in T
  PROVE  /\ Append(s, x) \in Seq(T) /\ Len(Append(s, x)) = Len(s) + 1
         /\ Elements(Append(s, x)) = Elements(s) \union {x}
<1>1. /\ Append(s, x) \in Seq(T) /\ Len(Append(s, x)) = Len(s) + 1
      /\ DOMAIN Append(s, x) = 1 .. Len(s) + 1 /\ DOMAIN s = 1 .. Len(s)
      /\ \A i \in 1 .. Len(s) : Append(s, x)[i] = s[i]
      /\ Append(s, x)[Len(s) + 1] = x
  OBVIOUS
<1>2. PICK N \in Nat : N = Len(s)
  OBVIOUS
<1>3. 1 .. N + 1 = 1 .. N \union {N + 1}
  BY <1>2
<1> QED
  BY <1>1, <1>2, <1>3 DEF Elements

\* What array_pop leaves and answers.
LEMMA PopElements ==
  ASSUME NEW T, NEW s \in Seq(T), s # <<>>
  PROVE  /\ SubSeq(s, 1, Len(s) - 1) \in Seq(T) /\ Len(SubSeq(s, 1, Len(s) - 1)) = Len(s) - 1
         /\ s[Len(s)] \in T
         /\ Elements(s) = Elements(SubSeq(s, 1, Len(s) - 1)) \union {s[Len(s)]}
<1>1. PICK N \in Nat : N = Len(s) /\ N >= 1
  BY EmptySeq
<1>2. PICK t : t = SubSeq(s, 1, N - 1)
  OBVIOUS
<1>3. t \in Seq(T) /\ Len(t) = N - 1 /\ \A i \in 1 .. N - 1 : t[i] = s[i]
  BY <1>1, <1>2
<1>4. DOMAIN t = 1 .. N - 1 /\ DOMAIN s = 1 .. N
  BY <1>1, <1>3
<1>5. 1 .. N = 1 .. N - 1 \union {N}
  BY <1>1
<1>6. Elements(s) = Elements(t) \union {s[N]}
  BY <1>3, <1>4, <1>5 DEF Elements
<1>7. s[N] \in T
  BY <1>1
<1> QED
  BY <1>1, <1>2, <1>3, <1>6, <1>7

\* The list s is what is left of the list l after the neighbours of the first k
\* ports of node n were pushed onto it, H being what was noted.
Pushes(H, n, l, k, s) ==
  /\ s \in Seq(NetNodes) /\ Len(s) <= Len(l) + k
  /\ \A m : m \in Elements(s) <=>
              \/ m \in Elements(l)
              \/ \E i \in 0 .. k - 1 : H[<<n, i>>] # NULL /\ m = H[<<n, i>>][1]

\* One neighbour is pushed, if there is one.
push(H, n, i, s) == LET p == H[<<n, i>>] IN IF p = NULL THEN s ELSE Append(s, p[1])

\* One port of the loop that pushes the neighbours of a node.
LEMMA PushOne ==
  ASSUME NEW H \in [Ports -> Ports \union {NULL}], NEW n \in NetNodes, NEW l \in Seq(NetNodes),
         NEW k \in 0 .. arity[n] - 1, NEW s, Pushes(H, n, l, k, s)
  PROVE  Pushes(H, n, l, k + 1, push(H, n, k, s))
<1>1. <<n, k>> \in Ports
  BY PortIs
<1>2. PICK p \in Ports \union {NULL} : p = H[<<n, k>>]
  BY <1>1
<1>3. \A i : i \in 0 .. (k + 1) - 1 <=> i \in 0 .. k - 1 \/ i = k
  OBVIOUS
<1>4. Len(s) \in Nat /\ Len(l) \in Nat /\ k \in Nat
  BY DEF Pushes
<1>5. CASE p = NULL
  <2>1. push(H, n, k, s) = s
    BY <1>2, <1>5 DEF push
  <2>2. Len(s) <= Len(l) + (k + 1)
    BY <1>4 DEF Pushes
  <2>3. \A m : m \in Elements(s) <=>
              \/ m \in Elements(l)
              \/ \E i \in 0 .. (k + 1) - 1 : H[<<n, i>>] # NULL /\ m = H[<<n, i>>][1]
    BY <1>2, <1>3, <1>5 DEF Pushes
  <2> QED
    BY <2>1, <2>2, <2>3 DEF Pushes
<1>6. CASE p # NULL
  <2>1. push(H, n, k, s) = Append(s, p[1])
    BY <1>2, <1>6 DEF push
  <2>2. PICK t : t = Append(s, p[1])
    OBVIOUS
  <2>3. p[1] \in NetNodes
    BY <1>6, PortIs
  <2>4. t \in Seq(NetNodes) /\ Len(t) = Len(s) + 1 /\ Elements(t) = Elements(s) \union {p[1]}
    BY <2>2, <2>3, AppendElements DEF Pushes
  <2>5. Len(t) <= Len(l) + (k + 1)
    BY <1>4, <2>4 DEF Pushes
  <2>6. \A m : m \in Elements(t) <=>
              \/ m \in Elements(l)
              \/ \E i \in 0 .. (k + 1) - 1 : H[<<n, i>>] # NULL /\ m = H[<<n, i>>][1]
    BY <1>2, <1>3, <1>6, <2>4 DEF Pushes
  <2> QED
    BY <2>1, <2>2, <2>4, <2>5, <2>6 DEF Pushes
<1> QED
  BY <1>5, <1>6

\* The record that take_node returns.
Taken(it, n, l) ==
  [it EXCEPT !.pc = "next",
             !.occurred_node_set = @ \union {n},
             !.remaining_node_list = l,
             !.node_array = Append(@, n)]

\* take_node pushes the neighbours of all ports.
LEMMA TakeNodePushes ==
  ASSUME NEW it, NEW n \in NetNodes, NEW H, NEW l,
         H = it.node_neighborhood_hash, l = it.remaining_node_list,
         H \in [Ports -> Ports \union {NULL}], l \in Seq(NetNodes)
  PROVE  \E s : Pushes(H, n, l, arity[n], s) /\ take_node(it, n) = Taken(it, n, s)
<1>1. PICK N \in Nat : N = arity[n]
  BY PortIs
<1> DEFINE D == 0 .. arity[n]
           body(f) == [i \in D |-> IF i = 0 THEN it.remaining_node_list
                                   ELSE LET p == it.node_neighborhood_hash[<<n, i - 1>>] IN
                                          IF p = NULL THEN f[i - 1] ELSE Append(f[i - 1], p[1])]
           f == CHOOSE f : f = body(f)
<1>2. take_node(it, n) = Taken(it, n, f[arity[n]])
  BY DEF take_node, Taken
<1>3. \A g : \A i \in D : body(g)[i] = IF i = 0 THEN l ELSE push(H, n, i - 1, g[i - 1])
  BY DEF push
<1>4. \A g : body(g) = [i \in D |-> body(g)[i]]
  OBVIOUS
<1> HIDE DEF body
<1> DEFINE Follows(g, k) == \A i \in 0 .. k : g[i] = IF i = 0 THEN l ELSE push(H, n, i - 1, g[i - 1])
           R == {k \in 0 .. N : ~ \E g : g = [i \in 0 .. k |-> g[i]] /\ Follows(g, k)}
<1>5. R = {}
  <2> SUFFICES ASSUME R # {} PROVE FALSE
    OBVIOUS
  <2>1. R \subseteq Nat
    OBVIOUS
  <2>2. PICK k \in R : \A j \in R : k <= j
    BY <2>1, LeastElement
  <2>3. CASE k = 0
    <3>1. PICK g : g = [i \in 0 .. 0 |-> l]
      OBVIOUS
    <3>2. g = [i \in 0 .. 0 |-> g[i]] /\ Follows(g, 0)
      BY <3>1
    <3> QED
      BY <2>2, <2>3, <3>2
  <2>4. CASE k # 0
    <3>1. k - 1 \in 0 .. N /\ k \in Nat /\ k - 1 \in Nat /\ ~(k <= k - 1)
      BY <2>2, <2>4
    <3>2. k - 1 \notin R
      BY <2>2, <3>1
    <3>3. PICK g : Follows(g, k - 1)
      BY <3>1, <3>2
    <3>4. PICK h : h = [i \in 0 .. k |-> IF i = k THEN push(H, n, k - 1, g[k - 1]) ELSE g[i]]
      OBVIOUS
    <3>5. \A i \in 0 .. k - 1 : h[i] = g[i]
      BY <3>1, <3>4
    <3>6. h[k] = push(H, n, k - 1, h[k - 1])
      BY <3>1, <3>4
    <3>7. ASSUME NEW i \in 0 .. k
          PROVE  h[i] = IF i = 0 THEN l ELSE push(H, n, i - 1, h[i - 1])
      <4>1. CASE i = k
        BY <2>4, <3>6, <4>1
      <4>2. CASE i # k
        <5>1. i \in 0 .. k - 1 /\ (i # 0 => i - 1 \in 0 .. k - 1)
          BY <3>1, <4>2
        <5> QED
          BY <3>3, <3>5, <5>1
      <4> QED
        BY <4>1, <4>2
    <3>8. Follows(h, k)
      BY <3>7
    <3>9. h = [i \in 0 .. k |-> h[i]]
      BY <3>4
    <3> QED
      BY <2>2, <3>8, <3>9
  <2> QED
    BY <2>3, <2>4
<1>6. PICK w : w = [i \in 0 .. N |-> w[i]] /\ Follows(w, N)
  BY <1>5
<1>7. w = body(w)
  <2>1. \A i \in D : w[i] = body(w)[i]
    BY <1>1, <1>3, <1>6
  <2> QED
    BY <1>1, <1>4, <1>6, <2>1
<1>8. f = body(f)
  BY <1>7
<1> HIDE DEF f
<1>9. \A i \in D : f[i] = IF i = 0 THEN l ELSE push(H, n, i - 1, f[i - 1])
  BY <1>3, <1>8
<1> DEFINE Q == {k \in D : ~Pushes(H, n, l, k, f[k])}
<1>10. Q = {}
  <2> SUFFICES ASSUME Q # {} PROVE FALSE
    OBVIOUS
  <2>1. Q \subseteq Nat
    BY <1>1
  <2>2. PICK k \in Q : \A j \in Q : k <= j
    BY <2>1, LeastElement
  <2>3. CASE k = 0
    <3>1. f[k] = l
      BY <1>9, <2>2, <2>3
    <3>2. Len(l) <= Len(l) + 0 /\ 0 .. 0 - 1 = {}
      OBVIOUS
    <3>3. Pushes(H, n, l, 0, l)
      BY <3>2 DEF Pushes
    <3> QED
      BY <2>2, <2>3, <3>1, <3>3
  <2>4. CASE k # 0
    <3>1. k - 1 \in D /\ k - 1 \in 0 .. arity[n] - 1 /\ ~(k <= k - 1) /\ (k - 1) + 1 = k
      BY <1>1, <2>2, <2>4
    <3>2. Pushes(H, n, l, k - 1, f[k - 1])
      BY <2>2, <3>1
    <3>3. f[k] = push(H, n, k - 1, f[k - 1])
      BY <1>9, <2>2, <2>4
    <3>4. PICK j \in 0 .. arity[n] - 1 : j = k - 1 /\ j + 1 = k
      BY <3>1
    <3>5. Pushes(H, n, l, j + 1, push(H, n, j, f[j]))
      BY <3>2, <3>4, PushOne
    <3> QED
      BY <2>2, <3>3, <3>4, <3>5
  <2> QED
    BY <2>3, <2>4
<1>11. Pushes(H, n, l, arity[n], f[arity[n]])
  BY <1>1, <1>10
<1> QED
  BY <1>2, <1>11

----------------------------------------------------------------------------
(* Made is kept while the net is made. *)

\* A port that is free was not touched.
LEMMA FreeIsUntouched ==
  ASSUME Made, iter.pc = "build", NEW p \in Ports, Free(p)
  PROVE  /\ mate[p] = NULL /\ Untouched(p) /\ value_array[p] = Own(p)
         /\ held = NULL /\ root = TopWire /\ fuzed_value[TopWire] = Unset
         /\ p \in AuxPorts => value_array[p] = WireOf(p) /\ fuzed_value[WireOf(p)] = Unset
<1>1. held = NULL /\ root = TopWire /\ fuzed_value[TopWire] = Unset
  BY DEF Made, MadeRoot
<1>2. mate[p] = NULL /\ ~is_non_wire(End(p))
  BY DEF Free, End
<1>3. ~Filled(p)
  BY <1>2, FilledEnd, ValuesDiffer
<1>4. p # NULL
  BY PortsAssumption
<1>5. Untouched(p)
  BY <1>1, <1>2, <1>3, <1>4 DEF Made, MadeFree
<1>6. p \in AuxPorts => Own(p) = WireOf(p)
  BY ValuesDiffer
<1> QED
  BY <1>1, <1>2, <1>5, <1>6 DEF Untouched

\* A step changes what is known of the ports p and q only.
Elsewhere(p, q) ==
  /\ \A x \in Ports \ {p, q} : value_array'[x] = value_array[x]
  /\ \A x \in AuxPorts \ {p, q} : fuzed_value'[WireOf(x)] = fuzed_value[WireOf(x)]
  /\ fuzed_value[MiddleWire] # Unset => fuzed_value'[MiddleWire] = fuzed_value[MiddleWire]
  /\ \A x \in PrincipalPorts \ {p, q} : oppsite'[x] = oppsite[x]

\* What is said of other ports stays true.
LEMMA OthersKept ==
  ASSUME NEW p, NEW q, Elsewhere(p, q), NEW x \in Ports \ {p, q}
  PROVE  /\ Untouched(x) => Untouched(x)'
         /\ Filled(x) => Filled(x)'
         /\ \A y \in Ports \ {p, q} : /\ Joint(x, y) => Joint(x, y)'
                                      /\ Opposed(x, y) => Opposed(x, y)'
<1>1. value_array'[x] = value_array[x]
  BY DEF Elsewhere
<1>2. x \in AuxPorts => fuzed_value'[WireOf(x)] = fuzed_value[WireOf(x)]
  BY DEF Elsewhere
<1>3. ASSUME NEW y \in Ports \ {p, q}, Untouched(y) PROVE Untouched(y)'
  BY <1>3 DEF Elsewhere, Untouched
<1>4. Filled(x) => Filled(x)'
  BY <1>1, <1>2 DEF Filled
<1>5. ASSUME NEW y \in Ports \ {p, q}, Joint(x, y) PROVE Joint(x, y)'
  <2>1. fuzed_value[MiddleWire] = Own(y) => fuzed_value'[MiddleWire] = Own(y)
    BY ValuesDiffer DEF Elsewhere
  <2>2. Untouched(y)'
    BY <1>3, <1>5 DEF Joint
  <2> QED
    BY <1>1, <1>2, <1>5, <2>1, <2>2 DEF Joint
<1>6. ASSUME NEW y \in Ports \ {p, q}, Opposed(x, y) PROVE Opposed(x, y)'
  BY <1>6 DEF Elsewhere, Opposed
<1> QED
  BY <1>3, <1>4, <1>5, <1>6

\* Ports that were not joined are joined.
LEMMA JoinKeeps ==
  ASSUME Made, NetTypeOK', iter.pc = "build", NEW p \in Ports, NEW q \in Ports, p # q,
         mate[p] = NULL, mate[q] = NULL, Elsewhere(p, q),
         mate' = [mate EXCEPT ![p] = q, ![q] = p],
         Joint(p, q)' \/ Opposed(p, q)',
         \A x \in PrincipalPorts \intersect {p, q} : oppsite'[x] # NULL => Opposed(p, q)',
         fuzed_value'[TopWire] = fuzed_value[TopWire], UNCHANGED <<root, held, iter>>
  PROVE  Made'
<1>1. /\ mate'[p] = q /\ mate'[q] = p
      /\ \A x \in Ports \ {p, q} : mate'[x] = mate[x]
  BY DEF Made, NetTypeOK
<1>2. held = NULL /\ root = TopWire /\ fuzed_value[TopWire] = Unset
  BY DEF Made, MadeRoot
<1>3. p # NULL /\ q # NULL /\ NULL \notin Ports
  BY PortsAssumption
<1>4. ASSUME NEW x \in Ports, mate[x] \in Ports PROVE x \notin {p, q} /\ mate[x] \notin {p, q}
  <2>1. mate[mate[x]] = x
    BY <1>4 DEF Made, MadeJoined
  <2> QED
    BY <1>3, <1>4, <2>1
<1>5. MadeFree'
  <2>1. ASSUME NEW x \in Ports, mate'[x] = NULL
        PROVE  Untouched(x)' \/ Filled(x)'
    <3>1. x \in Ports \ {p, q} /\ mate[x] = NULL /\ x # NULL
      BY <1>1, <1>3, <2>1
    <3>2. Untouched(x) \/ Filled(x)
      BY <1>2, <3>1 DEF Made, MadeFree
    <3> QED
      BY <3>1, <3>2, OthersKept
  <2> QED
    BY <2>1 DEF MadeFree
<1>6. MadeJoined'
  <2>1. ASSUME NEW x \in Ports, NEW y \in Ports, mate'[x] = y
        PROVE  x # y /\ mate'[y] = x /\ (Joint(x, y)' \/ Joint(y, x)' \/ Opposed(x, y)')
    <3>1. CASE x = p
      BY <1>1, <2>1, <3>1
    <3>2. CASE x = q
      BY <1>1, <2>1, <3>2 DEF Opposed
    <3>3. CASE x \notin {p, q}
      <4>1. mate[x] = y /\ y \notin {p, q}
        BY <1>1, <1>4, <2>1, <3>3
      <4>2. x # y /\ mate[y] = x /\ (Joint(x, y) \/ Joint(y, x) \/ Opposed(x, y))
        BY <4>1 DEF Made, MadeJoined
      <4>3. mate'[y] = x
        BY <1>1, <4>1, <4>2
      <4> QED
        BY <3>3, <4>1, <4>2, <4>3, OthersKept
    <3> QED
      BY <3>1, <3>2, <3>3
  <2> QED
    BY <2>1 DEF MadeJoined
<1>7. MadeOpposed'
  <2>1. ASSUME NEW x \in PrincipalPorts, NEW y, oppsite'[x] = y, y # NULL
        PROVE  mate'[x] = y /\ Opposed(x, y)'
    <3>1. x \in Ports
      BY PortIs
    <3>2. CASE x \in {p, q}
      <4>1. Opposed(p, q)'
        BY <2>1, <3>2
      <4>2. y = IF x = p THEN q ELSE p
        BY <2>1, <3>2, <4>1 DEF Opposed
      <4>3. Opposed(q, p)'
        BY <4>1 DEF Opposed
      <4> QED
        BY <1>1, <3>2, <4>1, <4>2, <4>3
    <3>3. CASE x \notin {p, q}
      <4>1. oppsite[x] = y
        BY <2>1, <3>3 DEF Elsewhere
      <4>2. mate[x] = y /\ Opposed(x, y) /\ y \in Ports
        <5>1. mate[x] = y /\ Opposed(x, y)
          BY <2>1, <4>1 DEF Made, MadeOpposed
        <5> QED
          BY <5>1, PortIs DEF Opposed
      <4>3. y \notin {p, q} /\ mate'[x] = y
        BY <1>1, <1>4, <3>1, <3>3, <4>2
      <4>4. Opposed(x, y)'
        BY <3>1, <3>3, <4>2, <4>3, OthersKept
      <4> QED
        BY <4>3, <4>4
    <3> QED
      BY <3>2, <3>3
  <2>2. ASSUME NEW x \in PrincipalPorts, oppsite'[x] # NULL
        PROVE  (mate[x] = oppsite[x] /\ Opposed(x, oppsite[x]))'
    <3>1. PICK y : y = oppsite'[x]
      OBVIOUS
    <3>2. mate'[x] = y /\ Opposed(x, y)'
      BY <2>1, <2>2, <3>1
    <3> QED
      BY <3>1, <3>2 DEF Opposed, Untouched
  <2> QED
    BY <2>2 DEF MadeOpposed
<1>8. MadeRoot'
  BY <1>2 DEF MadeRoot
<1> QED
  BY <1>5, <1>6, <1>7, <1>8 DEF Made

----------------------------------------------------------------------------
(* The search. *)

\* Before the search, and while it goes on.
NotSearched ==
  /\ iter.root = NULL /\ iter.occurred_node_set = {}
  /\ iter.node_array = <<>> /\ iter.remaining_node_list = <<>>

\* What was taken and what is left is joined with the root, and what is joined
\* with a node that was taken was taken or is left.
Searched ==
  LET occurred == iter.occurred_node_set
      remaining == Elements(iter.remaining_node_list)
  IN  /\ iter.node_array \in Seq(NetNodes) /\ iter.remaining_node_list \in Seq(NetNodes)
      /\ Elements(iter.node_array) = occurred /\ Len(iter.node_array) = Cardinality(occurred)
      /\ Len(iter.remaining_node_list) <= Cardinality({p \in Ports : p[1] \in occurred})
      /\ iter.root \in occurred
      /\ NotedIn(iter.node_neighborhood_hash)
      /\ \A p \in Ports : p[1] \in occurred /\ iter.node_neighborhood_hash[p] # NULL =>
           iter.node_neighborhood_hash[p][1] \in occurred \union remaining
      /\ \A S \in SUBSET NetNodes : iter.root \in S /\ ClosedNet(S) => occurred \union remaining \subseteq S
      /\ iter.pc = "done" => iter.remaining_node_list = <<>>

\* The record of the search.
IterTypeOK ==
  iter \in [pc : {"build", "print", "next", "done"}, root : NetNodes \union {NULL},
            occurred_node_set : SUBSET NetNodes, remaining_node_list : Seq(NetNodes),
            node_array : Seq(NetNodes), node_neighborhood_hash : [Ports -> Ports \union {NULL}]]

\* The inductive invariant.
NetInv ==
  /\ Made /\ IterTypeOK
  /\ iter.pc \in {"build", "print"} => NotSearched
  /\ iter.pc \in {"next", "done"} => RootFound /\ IF iter.root = NULL THEN NotSearched ELSE Searched

\* Joining two ports keeps to the ways of joining, and does not start to read.
LEMMA JoinMakes ==
  ASSUME Made, NEW p \in Ports, NEW q \in Ports, Join(p, q)
  PROVE  Made' /\ UNCHANGED iter
<1>1. iter.pc = "build" /\ p # q /\ Free(p) /\ Free(q) /\ UNCHANGED <<root, held, iter>>
  BY DEF Join
<1>2. /\ mate[p] = NULL /\ mate[q] = NULL /\ Untouched(p) /\ Untouched(q)
      /\ value_array[p] = Own(p) /\ value_array[q] = Own(q)
      /\ p \in AuxPorts => value_array[p] = WireOf(p)
  BY <1>1, FreeIsUntouched
<1>3. mate' = [mate EXCEPT ![p] = q, ![q] = p]
  BY DEF Join
<1>4. mate' \in [Ports -> Ports \union {NULL}]
  BY <1>3 DEF Made, NetTypeOK
<1>5. Own(q) \in Values /\ AllWires \subseteq Values /\ p # NULL /\ q # NULL
  BY PortsAssumption DEF Values
<1>6. NetTypeOK
  BY DEF Made
<1>7. CASE /\ p \in AuxPorts
           /\ value_array' = [value_array EXCEPT ![p] = value_array[q]]
           /\ UNCHANGED <<fuzed_value, oppsite>>
  <2>1. NetTypeOK'
    BY <1>2, <1>4, <1>5, <1>6, <1>7 DEF NetTypeOK
  <2>2. value_array'[p] = Own(q) /\ \A x \in Ports \ {p} : value_array'[x] = value_array[x]
    BY <1>2, <1>6, <1>7 DEF NetTypeOK
  <2>3. Elsewhere(p, q)
    BY <1>7, <2>2 DEF Elsewhere
  <2>4. Untouched(q)'
    BY <1>1, <1>2, <1>7, <2>2 DEF Untouched
  <2>5. Joint(p, q)'
    BY <1>7, <2>2, <2>4 DEF Joint
  <2>6. ASSUME NEW x \in PrincipalPorts \intersect {p, q} PROVE oppsite'[x] = NULL
    BY <1>2, <1>6, <1>7, PortsAssumption, PortIs DEF Made, MadeOpposed, Opposed
  <2> QED
    BY <1>1, <1>2, <1>3, <1>7, <2>1, <2>3, <2>5, <2>6, JoinKeeps
<1>8. CASE /\ p \in AuxPorts
           /\ \/ fuzed_value' = [fuzed_value EXCEPT ![value_array[p]] = value_array[q]]
              \/ /\ fuzed_value[MiddleWire] = Unset
                 /\ fuzed_value' = [fuzed_value EXCEPT ![value_array[p]] = MiddleWire,
                                                       ![MiddleWire] = value_array[q]]
           /\ UNCHANGED <<value_array, oppsite>>
  <2>1. /\ WireOf(p) \in AllWires /\ MiddleWire \in AllWires /\ TopWire \in AllWires
        /\ WireOf(p) # TopWire /\ WireOf(p) # MiddleWire /\ TopWire # MiddleWire
        /\ \A x \in AuxPorts \ {p} : WireOf(x) # WireOf(p) /\ WireOf(x) # MiddleWire /\ WireOf(x) \in AllWires
    BY <1>8, PortIs, ValuesDiffer
  <2>2. \/ fuzed_value' = [fuzed_value EXCEPT ![WireOf(p)] = Own(q)]
        \/ /\ fuzed_value[MiddleWire] = Unset
           /\ fuzed_value' = [fuzed_value EXCEPT ![WireOf(p)] = MiddleWire, ![MiddleWire] = Own(q)]
    BY <1>2, <1>8
  <2>3. NetTypeOK'
    BY <1>4, <1>5, <1>6, <1>8, <2>1, <2>2 DEF NetTypeOK
  <2>4. \/ fuzed_value'[WireOf(p)] = Own(q)
        \/ fuzed_value'[WireOf(p)] = MiddleWire /\ fuzed_value'[MiddleWire] = Own(q)
    BY <1>6, <2>1, <2>2 DEF NetTypeOK
  <2>5. /\ fuzed_value'[TopWire] = fuzed_value[TopWire]
        /\ fuzed_value[MiddleWire] # Unset => fuzed_value'[MiddleWire] = fuzed_value[MiddleWire]
        /\ \A x \in AuxPorts \ {p} : fuzed_value'[WireOf(x)] = fuzed_value[WireOf(x)]
    BY <1>6, <2>1, <2>2 DEF NetTypeOK
  <2>6. Elsewhere(p, q)
    BY <1>8, <2>5 DEF Elsewhere
  <2>7. Untouched(q)'
    BY <1>1, <1>2, <1>8, <2>5 DEF Untouched
  <2>8. Joint(p, q)'
    BY <1>2, <1>8, <2>4, <2>7 DEF Joint
  <2>9. ASSUME NEW x \in PrincipalPorts \intersect {p, q} PROVE oppsite'[x] = NULL
    BY <1>2, <1>6, <1>8, PortsAssumption, PortIs DEF Made, MadeOpposed, Opposed
  <2> QED
    BY <1>1, <1>2, <1>3, <2>3, <2>5, <2>6, <2>8, <2>9, JoinKeeps
<1>9. CASE /\ {p, q} \subseteq PrincipalPorts
           /\ oppsite' = [oppsite EXCEPT ![p] = q, ![q] = p]
           /\ UNCHANGED <<value_array, fuzed_value>>
  <2>1. NetTypeOK'
    BY <1>4, <1>6, <1>9 DEF NetTypeOK
  <2>2. /\ oppsite'[p] = q /\ oppsite'[q] = p
        /\ \A x \in PrincipalPorts \ {p, q} : oppsite'[x] = oppsite[x]
    BY <1>1, <1>6, <1>9 DEF NetTypeOK
  <2>3. Elsewhere(p, q)
    BY <1>9, <2>2 DEF Elsewhere
  <2>4. Opposed(p, q)'
    BY <1>2, <1>9, <2>2 DEF Opposed
  <2> QED
    BY <1>1, <1>2, <1>3, <1>9, <2>1, <2>3, <2>4, JoinKeeps
<1>10. \/ /\ p \in AuxPorts
          /\ value_array' = [value_array EXCEPT ![p] = value_array[q]]
          /\ UNCHANGED <<fuzed_value, oppsite>>
       \/ /\ p \in AuxPorts
          /\ \/ fuzed_value' = [fuzed_value EXCEPT ![value_array[p]] = value_array[q]]
             \/ /\ fuzed_value[MiddleWire] = Unset
                /\ fuzed_value' = [fuzed_value EXCEPT ![value_array[p]] = MiddleWire,
                                                      ![MiddleWire] = value_array[q]]
          /\ UNCHANGED <<value_array, oppsite>>
       \/ /\ {p, q} \subseteq PrincipalPorts
          /\ oppsite' = [oppsite EXCEPT ![p] = q, ![q] = p]
          /\ UNCHANGED <<value_array, fuzed_value>>
  BY DEF Join
<1>11. UNCHANGED iter
  BY <1>1
<1>12. Made'
  BY <1>7, <1>8, <1>9, <1>10
<1> QED
  BY <1>11, <1>12

\* What a port that is not joined leads to changes.
LEMMA AloneKeeps ==
  ASSUME Made, NetTypeOK', iter.pc = "build", NEW p \in Ports,
         mate[p] = NULL, Elsewhere(p, p), UNCHANGED <<mate, oppsite>>,
         Untouched(p)' \/ Filled(p)' \/ (Ended(p)' /\ held' = p), MadeRoot'
  PROVE  Made'
<1>1. held = NULL
  BY DEF Made, MadeRoot
<1>2. p # NULL /\ NULL \notin Ports
  BY PortsAssumption
<1>3. ASSUME NEW x \in Ports, mate[x] \in Ports PROVE x # p /\ mate[x] # p
  <2>1. mate[mate[x]] = x
    BY <1>3 DEF Made, MadeJoined
  <2> QED
    BY <1>2, <1>3, <2>1
<1>4. MadeFree'
  <2>1. ASSUME NEW x \in Ports, mate[x] = NULL
        PROVE  Untouched(x)' \/ Filled(x)' \/ (Ended(x)' /\ held' = x)
    <3>1. CASE x = p
      BY <3>1
    <3>2. CASE x # p
      <4>1. Untouched(x) \/ Filled(x)
        BY <1>1, <1>2, <2>1 DEF Made, MadeFree
      <4> QED
        BY <3>2, <4>1, OthersKept
    <3> QED
      BY <3>1, <3>2
  <2> QED
    BY <2>1 DEF MadeFree
<1>5. MadeJoined'
  <2>1. ASSUME NEW x \in Ports, NEW y \in Ports, mate[x] = y
        PROVE  x # y /\ mate[y] = x /\ (Joint(x, y)' \/ Joint(y, x)' \/ Opposed(x, y)')
    <3>1. x # y /\ mate[y] = x /\ (Joint(x, y) \/ Joint(y, x) \/ Opposed(x, y))
      BY <2>1 DEF Made, MadeJoined
    <3>2. x \in Ports \ {p, p} /\ y \in Ports \ {p, p}
      BY <1>3, <2>1
    <3> QED
      BY <3>1, <3>2, OthersKept
  <2> QED
    BY <2>1 DEF MadeJoined
<1>6. MadeOpposed'
  <2>1. ASSUME NEW x \in PrincipalPorts, NEW y, oppsite[x] = y, y # NULL
        PROVE  mate[x] = y /\ Opposed(x, y)'
    <3>1. mate[x] = y /\ Opposed(x, y)
      BY <2>1 DEF Made, MadeOpposed
    <3>2. x \in Ports /\ y \in Ports
      BY <3>1, PortIs DEF Opposed
    <3>3. x \in Ports \ {p, p} /\ y \in Ports \ {p, p}
      BY <1>3, <3>1, <3>2
    <3> QED
      BY <3>1, <3>3, OthersKept
  <2>2. ASSUME NEW x \in PrincipalPorts, oppsite'[x] # NULL
        PROVE  (mate[x] = oppsite[x] /\ Opposed(x, oppsite[x]))'
    <3>1. PICK y : y = oppsite[x]
      OBVIOUS
    <3>2. mate[x] = y /\ Opposed(x, y)'
      BY <2>1, <2>2, <3>1
    <3> QED
      BY <3>1, <3>2 DEF Opposed
  <2> QED
    BY <2>2 DEF MadeOpposed
<1> QED
  BY <1>4, <1>5, <1>6 DEF Made

\* So does a number for a port.
LEMMA FillMakes ==
  ASSUME Made, NEW p \in Ports, Fill(p)
  PROVE  Made' /\ UNCHANGED iter
<1>1. /\ iter.pc = "build" /\ p \in AuxPorts /\ Free(p)
      /\ UNCHANGED <<oppsite, mate, root, held, iter>>
  BY DEF Fill
<1>2. /\ mate[p] = NULL /\ value_array[p] = WireOf(p)
      /\ held = NULL /\ root = TopWire /\ fuzed_value[TopWire] = Unset
  BY <1>1, FreeIsUntouched
<1>3. NetTypeOK /\ Number \in Values
  BY DEF Made, Values
<1>4. CASE value_array' = [value_array EXCEPT ![p] = Number] /\ UNCHANGED fuzed_value
  <2>1. NetTypeOK'
    BY <1>1, <1>3, <1>4 DEF NetTypeOK
  <2>2. value_array'[p] = Number /\ \A x \in Ports \ {p} : value_array'[x] = value_array[x]
    BY <1>3, <1>4 DEF NetTypeOK
  <2>3. Elsewhere(p, p) /\ Filled(p)' /\ MadeRoot'
    BY <1>1, <1>2, <1>4, <2>2 DEF Elsewhere, Filled, MadeRoot
  <2> QED
    BY <1>1, <1>2, <2>1, <2>3, AloneKeeps
<1>5. CASE fuzed_value' = [fuzed_value EXCEPT ![value_array[p]] = Number] /\ UNCHANGED value_array
  <2>1. /\ WireOf(p) \in AllWires /\ MiddleWire \in AllWires /\ TopWire \in AllWires
        /\ WireOf(p) # TopWire /\ WireOf(p) # MiddleWire
        /\ \A x \in AuxPorts \ {p} : WireOf(x) # WireOf(p) /\ WireOf(x) \in AllWires
    BY <1>1, PortIs, ValuesDiffer
  <2>2. NetTypeOK'
    BY <1>1, <1>2, <1>3, <1>5, <2>1 DEF NetTypeOK
  <2>3. /\ fuzed_value'[WireOf(p)] = Number
        /\ fuzed_value'[TopWire] = fuzed_value[TopWire]
        /\ fuzed_value'[MiddleWire] = fuzed_value[MiddleWire]
        /\ \A x \in AuxPorts \ {p} : fuzed_value'[WireOf(x)] = fuzed_value[WireOf(x)]
    BY <1>2, <1>3, <1>5, <2>1 DEF NetTypeOK
  <2>4. Elsewhere(p, p) /\ Filled(p)' /\ MadeRoot'
    BY <1>1, <1>2, <1>5, <2>3 DEF Elsewhere, Filled, MadeRoot
  <2> QED
    BY <1>1, <1>2, <2>2, <2>4, AloneKeeps
<1> QED
  BY <1>1, <1>4, <1>5 DEF Fill

\* So does the value on the stack, after which the reading starts.
LEMMA HoldMakes ==
  ASSUME Made, IterTypeOK, NEW p \in Ports, Hold(p)
  PROVE  Made' /\ iter' = [iter EXCEPT !.pc = "print"] /\ iter.pc = "build"
<1>1. /\ iter.pc = "build" /\ Free(p) /\ held' = p /\ iter' = [iter EXCEPT !.pc = "print"]
      /\ UNCHANGED <<value_array, oppsite, mate>>
  BY DEF Hold
<1>2. /\ mate[p] = NULL /\ Untouched(p) /\ value_array[p] = Own(p)
      /\ held = NULL /\ root = TopWire /\ fuzed_value[TopWire] = Unset
      /\ p \in AuxPorts => value_array[p] = WireOf(p)
  BY <1>1, FreeIsUntouched
<1>3. NetTypeOK /\ Own(p) \in Values /\ TopWire \in Values
  BY ValuesDiffer DEF Made, Values
<1>4. iter'.pc = "print"
  BY <1>1 DEF IterTypeOK
<1>5. CASE root' = value_array[p] /\ UNCHANGED fuzed_value
  <2>1. NetTypeOK' /\ Elsewhere(p, p) /\ Untouched(p)'
    BY <1>1, <1>2, <1>3, <1>5 DEF NetTypeOK, Elsewhere, Untouched
  <2>2. MadeRoot'
    BY <1>1, <1>2, <1>4, <1>5, <2>1 DEF MadeRoot
  <2> QED
    BY <1>1, <1>2, <2>1, <2>2, AloneKeeps
<1>6. CASE root' = TopWire /\ fuzed_value' = [fuzed_value EXCEPT ![TopWire] = value_array[p]]
  <2>1. /\ TopWire \in AllWires /\ MiddleWire \in AllWires /\ TopWire # MiddleWire
        /\ \A x \in AuxPorts : WireOf(x) # TopWire /\ WireOf(x) \in AllWires
    BY PortIs, ValuesDiffer
  <2>2. NetTypeOK'
    BY <1>1, <1>2, <1>3, <1>6, <2>1 DEF NetTypeOK
  <2>3. /\ fuzed_value'[TopWire] = Own(p)
        /\ fuzed_value'[MiddleWire] = fuzed_value[MiddleWire]
        /\ \A x \in AuxPorts : fuzed_value'[WireOf(x)] = fuzed_value[WireOf(x)]
    BY <1>2, <1>3, <1>6, <2>1 DEF NetTypeOK
  <2>4. Elsewhere(p, p) /\ Untouched(p)'
    BY <1>1, <1>2, <2>3 DEF Elsewhere, Untouched
  <2>5. MadeRoot'
    BY <1>1, <1>2, <1>4, <1>6, <2>3, <2>4 DEF MadeRoot
  <2> QED
    BY <1>1, <1>2, <2>2, <2>4, <2>5, AloneKeeps
<1>7. CASE /\ p \in AuxPorts
           /\ root' = TopWire /\ fuzed_value' = [fuzed_value EXCEPT ![value_array[p]] = TopWire]
  <2>1. /\ WireOf(p) \in AllWires /\ MiddleWire \in AllWires /\ TopWire \in AllWires
        /\ WireOf(p) # TopWire /\ WireOf(p) # MiddleWire
        /\ \A x \in AuxPorts \ {p} : WireOf(x) # WireOf(p) /\ WireOf(x) \in AllWires
    BY <1>7, PortIs, ValuesDiffer
  <2>2. NetTypeOK'
    BY <1>1, <1>2, <1>3, <1>7, <2>1 DEF NetTypeOK
  <2>3. /\ fuzed_value'[WireOf(p)] = TopWire
        /\ fuzed_value'[TopWire] = fuzed_value[TopWire]
        /\ fuzed_value'[MiddleWire] = fuzed_value[MiddleWire]
        /\ \A x \in AuxPorts \ {p} : fuzed_value'[WireOf(x)] = fuzed_value[WireOf(x)]
    BY <1>2, <1>3, <1>7, <2>1 DEF NetTypeOK
  <2>4. Elsewhere(p, p) /\ Ended(p)'
    BY <1>1, <1>2, <1>7, <2>3 DEF Elsewhere, Ended
  <2>5. MadeRoot'
    BY <1>1, <1>2, <1>4, <1>7, <2>4 DEF MadeRoot
  <2> QED
    BY <1>1, <1>2, <2>2, <2>4, <2>5, AloneKeeps
<1>8. \/ root' = value_array[p] /\ UNCHANGED fuzed_value
      \/ root' = TopWire /\ fuzed_value' = [fuzed_value EXCEPT ![TopWire] = value_array[p]]
      \/ /\ p \in AuxPorts
         /\ root' = TopWire /\ fuzed_value' = [fuzed_value EXCEPT ![value_array[p]] = TopWire]
  BY DEF Hold
<1>9. Made'
  BY <1>5, <1>6, <1>7, <1>8
<1> QED
  BY <1>1, <1>9

\* The ports of a set of nodes.
PortsOf(S) == {p \in Ports : p[1] \in S}

\* A node more has its ports more.
LEMMA PortsGrow ==
  ASSUME NEW S \in SUBSET NetNodes, NEW n \in NetNodes \ S
  PROVE  /\ Cardinality(S \union {n}) = Cardinality(S) + 1
         /\ Cardinality(PortsOf(S \union {n})) = Cardinality(PortsOf(S)) + arity[n]
         /\ Cardinality(S) \in Nat /\ Cardinality(PortsOf(S)) \in Nat /\ arity[n] \in Nat
<1>1. IsFiniteSet(S) /\ Cardinality(S) \in Nat
  BY NetAssumption, FS_Subset, FS_CardinalityType
<1>2. Cardinality(S \union {n}) = Cardinality(S) + 1
  BY <1>1, FS_AddElement
<1>3. IsFiniteSet(PortsOf(S)) /\ Cardinality(PortsOf(S)) \in Nat
  <2>1. PortsOf(S) \subseteq Ports
    BY DEF PortsOf
  <2> QED
    BY <2>1, PortsFinite, FS_Subset, FS_CardinalityType
<1>4. PICK a \in Nat : a = arity[n]
  BY PortIs
<1> DEFINE N == {n} \X (0 .. a - 1)
<1>5. IsFiniteSet(N) /\ Cardinality(N) = a
  <2>1. 0 \in Int /\ a - 1 \in Int
    OBVIOUS
  <2>2. IsFiniteSet(0 .. a - 1) /\ Cardinality(0 .. a - 1) = IF 0 > a - 1 THEN 0 ELSE (a - 1) - 0 + 1
    BY <2>1, FS_Interval
  <2>3. Cardinality(0 .. a - 1) = a
    BY <2>2
  <2>4. IsFiniteSet({n}) /\ Cardinality({n}) = 1
    BY FS_Singleton
  <2>5. IsFiniteSet(N) /\ Cardinality(N) = Cardinality({n}) * Cardinality(0 .. a - 1)
    BY <2>2, <2>4, FS_Product
  <2>6. 1 * a = a
    OBVIOUS
  <2> QED
    BY <2>3, <2>4, <2>5, <2>6
<1>6. PortsOf(S \union {n}) = PortsOf(S) \union N /\ PortsOf(S) \intersect N = {}
  <2>1. \A p : p \in N <=> p \in Ports /\ p[1] = n
    <3>1. ASSUME NEW p \in N PROVE p \in Ports /\ p[1] = n
      <4>1. PICK i \in 0 .. a - 1 : p = <<n, i>>
        OBVIOUS
      <4> QED
        BY <1>4, <4>1, PortIs
    <3>2. ASSUME NEW p \in Ports, p[1] = n PROVE p \in N
      <4>1. p = <<p[1], p[2]>> /\ p[2] \in 0 .. arity[p[1]] - 1
        BY PortIs
      <4> QED
        BY <1>4, <3>2, <4>1
    <3> QED
      BY <3>1, <3>2
  <2> HIDE DEF N
  <2> QED
    BY <2>1 DEF PortsOf
<1>7. Cardinality(PortsOf(S) \union N) = Cardinality(PortsOf(S)) + a
  <2> HIDE DEF N
  <2>1. Cardinality({}) = 0
    BY FS_EmptySet
  <2>2. Cardinality(PortsOf(S) \union N) =
          Cardinality(PortsOf(S)) + Cardinality(N) - Cardinality(PortsOf(S) \intersect N)
    BY <1>3, <1>5, FS_Union
  <2>3. Cardinality(PortsOf(S) \intersect N) = 0
    BY <1>6, <2>1
  <2>4. PICK c \in Nat : c = Cardinality(PortsOf(S))
    BY <1>3
  <2>5. Cardinality(PortsOf(S) \union N) = c + a - 0
    BY <1>5, <2>2, <2>3, <2>4
  <2>6. c + a - 0 = c + a
    OBVIOUS
  <2> QED
    BY <2>4, <2>5, <2>6
<1> QED
  BY <1>1, <1>2, <1>3, <1>4, <1>6, <1>7

\* The record it is that of a search which takes node n next.
Searching(it, n) ==
  LET occurred == it.occurred_node_set
      ahead == Elements(it.remaining_node_list) \union {n}
      noted == it.node_neighborhood_hash
  IN  /\ occurred \in SUBSET NetNodes /\ n \in NetNodes \ occurred
      /\ it.node_array \in Seq(NetNodes) /\ it.remaining_node_list \in Seq(NetNodes)
      /\ Elements(it.node_array) = occurred /\ Len(it.node_array) = Cardinality(occurred)
      /\ Len(it.remaining_node_list) <= Cardinality(PortsOf(occurred))
      /\ it.root \in NetNodes /\ it.root \in occurred \union {n}
      /\ noted \in [Ports -> Ports \union {NULL}] /\ NotedIn(noted)
      /\ \A p \in Ports : p[1] \in occurred /\ noted[p] # NULL => noted[p][1] \in occurred \union ahead
      /\ \A S \in SUBSET NetNodes : it.root \in S /\ ClosedNet(S) => occurred \union ahead \subseteq S

\* Taking the node keeps to the component.
LEMMA TakeSearches ==
  ASSUME NEW it, NEW n, Searching(it, n), IterTypeOK,
         \E pc, r, H, l : it = [iter EXCEPT !.pc = pc, !.root = r, !.node_neighborhood_hash = H,
                                            !.remaining_node_list = l],
         iter' = take_node(it, n), UNCHANGED mate
  PROVE  Searched' /\ IterTypeOK' /\ iter'.pc = "next" /\ iter'.root = it.root
<1>1. PICK H, l, O, A, r :
        /\ H = it.node_neighborhood_hash /\ l = it.remaining_node_list
        /\ O = it.occurred_node_set /\ A = it.node_array /\ r = it.root
  OBVIOUS
<1>2. /\ O \in SUBSET NetNodes /\ n \in NetNodes \ O /\ n \in NetNodes
      /\ A \in Seq(NetNodes) /\ l \in Seq(NetNodes)
      /\ Elements(A) = O /\ Len(A) = Cardinality(O)
      /\ Len(l) <= Cardinality(PortsOf(O))
      /\ r \in NetNodes /\ r \in O \union {n}
      /\ H \in [Ports -> Ports \union {NULL}] /\ NotedIn(H)
      /\ \A p \in Ports : p[1] \in O /\ H[p] # NULL => H[p][1] \in O \union Elements(l) \union {n}
      /\ \A S \in SUBSET NetNodes : r \in S /\ ClosedNet(S) => O \union Elements(l) \union {n} \subseteq S
  BY <1>1 DEF Searching
<1>3. PICK s : Pushes(H, n, l, arity[n], s) /\ take_node(it, n) = Taken(it, n, s)
  BY <1>1, <1>2, TakeNodePushes
<1>4. DOMAIN it = {"pc", "root", "occurred_node_set", "remaining_node_list", "node_array",
                   "node_neighborhood_hash"}
  BY DEF IterTypeOK
<1>5. /\ iter'.pc = "next" /\ iter'.root = r /\ iter'.occurred_node_set = O \union {n}
      /\ iter'.remaining_node_list = s /\ iter'.node_array = Append(A, n)
      /\ iter'.node_neighborhood_hash = H
  BY <1>1, <1>3, <1>4 DEF Taken
<1>6. /\ s \in Seq(NetNodes) /\ Len(s) <= Len(l) + arity[n]
      /\ \A m : m \in Elements(s) <=>
                  \/ m \in Elements(l)
                  \/ \E i \in 0 .. arity[n] - 1 : H[<<n, i>>] # NULL /\ m = H[<<n, i>>][1]
  BY <1>3 DEF Pushes
<1>7. /\ Append(A, n) \in Seq(NetNodes) /\ Len(Append(A, n)) = Len(A) + 1
      /\ Elements(Append(A, n)) = Elements(A) \union {n}
  BY <1>2, AppendElements
<1>8. /\ Cardinality(O \union {n}) = Cardinality(O) + 1
      /\ Cardinality(PortsOf(O \union {n})) = Cardinality(PortsOf(O)) + arity[n]
      /\ Cardinality(O) \in Nat /\ Cardinality(PortsOf(O)) \in Nat /\ arity[n] \in Nat
  BY <1>2, PortsGrow
<1>9. Len(s) <= Cardinality(PortsOf(O \union {n}))
  <2>1. PICK a, b, c, d, e \in Nat :
          /\ a = Len(s) /\ b = Len(l) /\ c = Cardinality(PortsOf(O)) /\ d = arity[n]
          /\ e = Cardinality(PortsOf(O \union {n}))
    <3>1. Len(s) \in Nat /\ Len(l) \in Nat
      BY <1>2, <1>6, LenProperties
    <3>2. Cardinality(PortsOf(O \union {n})) \in Nat
      BY <1>8
    <3> QED
      BY <1>8, <3>1, <3>2
  <2>2. a <= b + d /\ b <= c /\ e = c + d
    BY <1>2, <1>6, <1>8, <2>1
  <2>3. a <= e
    BY ONLY <2>2, a \in Nat, b \in Nat, c \in Nat, d \in Nat, e \in Nat
  <2> QED
    BY <2>1, <2>3
<1>10. ASSUME NEW p \in Ports, p[1] \in O \union {n}, H[p] # NULL
       PROVE  H[p][1] \in (O \union {n}) \union Elements(s)
  <2>1. CASE p[1] \in O
    <3>1. H[p][1] \in O \union Elements(l) \union {n}
      BY <1>2, <1>10, <2>1
    <3> QED
      BY <1>6, <3>1
  <2>2. CASE p[1] = n
    <3>1. p = <<n, p[2]>> /\ p[2] \in 0 .. arity[n] - 1
      BY <2>2, PortIs
    <3> QED
      BY <1>6, <1>10, <3>1
  <2> QED
    BY <1>10, <2>1, <2>2
<1>11. ASSUME NEW S \in SUBSET NetNodes, r \in S, ClosedNet(S)
       PROVE  (O \union {n}) \union Elements(s) \subseteq S
  <2>1. O \union Elements(l) \union {n} \subseteq S
    BY <1>2, <1>11
  <2>2. ASSUME NEW i \in 0 .. arity[n] - 1, H[<<n, i>>] # NULL PROVE H[<<n, i>>][1] \in S
    <3>1. <<n, i>> \in Ports /\ <<n, i>>[1] = n
      BY <1>2, PortIs
    <3>2. H[<<n, i>>] = mate[<<n, i>>] /\ mate[<<n, i>>] # NULL
      BY <1>2, <2>2, <3>1, PortsAssumption DEF NotedIn
    <3> QED
      BY <1>11, <2>1, <3>1, <3>2 DEF ClosedNet
  <2>3. ASSUME NEW m \in Elements(s) PROVE m \in S
    <3>1. CASE m \in Elements(l)
      BY <2>1, <3>1
    <3>2. CASE \E i \in 0 .. arity[n] - 1 : H[<<n, i>>] # NULL /\ m = H[<<n, i>>][1]
      BY <2>2, <3>2
    <3> QED
      BY <1>6, <3>1, <3>2
  <2> QED
    BY <2>1, <2>3
<1>12. /\ NotedIn(H)' /\ PortsOf(O \union {n}) = {p \in Ports : p[1] \in O \union {n}}
       /\ \A S \in SUBSET NetNodes : ClosedNet(S)' <=> ClosedNet(S)
  BY <1>2 DEF NotedIn, ClosedNet, PortsOf
<1>13. Searched'
  <2>1. Elements(Append(A, n)) = O \union {n} /\ Len(Append(A, n)) = Cardinality(O \union {n})
    BY <1>2, <1>7, <1>8
  <2>2. \A S \in SUBSET NetNodes : r \in S /\ ClosedNet(S)' => (O \union {n}) \union Elements(s) \subseteq S
    BY <1>11, <1>12
  <2>3. \A p \in Ports : p[1] \in O \union {n} /\ H[p] # NULL => H[p][1] \in (O \union {n}) \union Elements(s)
    BY <1>10
  <2>4. Len(s) <= Cardinality({p \in Ports : p[1] \in O \union {n}})
    BY <1>9, <1>12
  <2>5. r \in O \union {n}
    BY <1>2
  <2> QED
    BY <1>5, <1>6, <1>7, <1>12, <2>1, <2>2, <2>3, <2>4, <2>5 DEF Searched
<1>14. IterTypeOK'
  <2>1. iter' = Taken(it, n, s) /\ it.pc = it.pc
    BY <1>3
  <2>2. iter' = [pc |-> "next", root |-> r, occurred_node_set |-> O \union {n},
                 remaining_node_list |-> s, node_array |-> Append(A, n), node_neighborhood_hash |-> H]
    BY <1>1, <2>1 DEF Taken, IterTypeOK
  <2>3. r \in NetNodes \union {NULL} /\ O \union {n} \in SUBSET NetNodes
    BY <1>2
  <2>4. /\ s \in Seq(NetNodes) /\ Append(A, n) \in Seq(NetNodes)
        /\ H \in [Ports -> Ports \union {NULL}]
    BY <1>2, <1>6, <1>7
  <2>5. PICK u, v, w : u = O \union {n} /\ v = s /\ w = Append(A, n)
    OBVIOUS
  <2>6. iter' = [pc |-> "next", root |-> r, occurred_node_set |-> u, remaining_node_list |-> v,
                 node_array |-> w, node_neighborhood_hash |-> H]
    BY <2>2, <2>5
  <2>7. u \in SUBSET NetNodes /\ v \in Seq(NetNodes) /\ w \in Seq(NetNodes)
    BY <2>3, <2>4, <2>5
  <2>8. "next" \in {"build", "print", "next", "done"}
    OBVIOUS
  <2>9. iter' \in [pc : {"build", "print", "next", "done"}, root : NetNodes \union {NULL},
                   occurred_node_set : SUBSET NetNodes, remaining_node_list : Seq(NetNodes),
                   node_array : Seq(NetNodes), node_neighborhood_hash : [Ports -> Ports \union {NULL}]]
    BY ONLY <2>3, <2>4, <2>6, <2>7, <2>8
  <2> QED
    BY <2>9 DEF IterTypeOK
<1> QED
  BY <1>1, <1>5, <1>13, <1>14

\* It holds at first.
LEMMA NetInitInv == NetInit => NetInv
<1> SUFFICES ASSUME NetInit PROVE NetInv
  OBVIOUS
<1>1. \A p \in Ports : value_array[p] = Own(p) /\ mate[p] = NULL
  BY DEF NetInit, Own
<1>2. \A p \in AuxPorts : fuzed_value[WireOf(p)] = Unset
  BY ValuesDiffer DEF NetInit
<1>3. fuzed_value[TopWire] = Unset /\ root = TopWire /\ held = NULL
  BY ValuesDiffer DEF NetInit
<1>4. NetTypeOK
  <2>1. \A p \in Ports : value_array[p] \in Values
    BY <1>1 DEF Values
  <2>2. value_array \in [Ports -> Values]
    BY <2>1 DEF NetInit
  <2> QED
    BY <2>2 DEF NetInit, NetTypeOK
<1>5. MadeFree
  BY <1>1, <1>2 DEF MadeFree, Untouched
<1>6. MadeJoined
  BY <1>1, PortsAssumption DEF MadeJoined
<1>7. MadeOpposed
  BY DEF NetInit, MadeOpposed
<1>8. MadeRoot
  BY <1>3 DEF MadeRoot
<1>9. IterTypeOK
  <2>1. <<>> \in Seq(NetNodes)
    OBVIOUS
  <2>2. [p \in Ports |-> NULL] \in [Ports -> Ports \union {NULL}]
    OBVIOUS
  <2> QED
    BY <2>1, <2>2 DEF NetInit, IterTypeOK
<1>10. iter.pc = "build" /\ NotSearched
  BY DEF NetInit, NotSearched
<1> QED
  BY <1>4, <1>5, <1>6, <1>7, <1>8, <1>9, <1>10 DEF NetInv, Made

\* The search starts at the node that has the other end of the value.
LEMMA PrintConnectedInv ==
  ASSUME NetInv, print_connected
  PROVE  NetInv'
<1>1. /\ iter.pc = "print" /\ UNCHANGED <<value_array, fuzed_value, oppsite, mate, root, held>>
      /\ NotSearched /\ IterTypeOK /\ Made
  BY DEF print_connected, NetInv
<1>2. PICK v : v = walk(root)
  OBVIOUS
<1>3. PICK n : n = IF is_principal_wire(v) THEN v[2][1] ELSE worker_lookup_node_by_wire(v)
  OBVIOUS
<1>4. n = IF held = NULL THEN NULL ELSE held[1]
  BY <1>1, <1>2, <1>3, RootIsFound
<1>5. held # NULL => held \in Ports /\ n \in NetNodes /\ n # NULL
  <2>1. held # NULL => held \in Ports
    BY <1>1 DEF Made, MadeRoot
  <2> QED
    BY <1>4, <2>1, PortIs, PortsAssumption
<1>6. PICK H : H = build_node_neighborhood_hash
  OBVIOUS
<1>7. H \in [Ports -> Ports \union {NULL}] /\ NotedIn(H)
  BY <1>1, <1>6, NeighbourhoodIs
<1>8. PICK it : it = [iter EXCEPT !.root = n, !.node_neighborhood_hash = H]
  OBVIOUS
<1>9. iter' = IF n = NULL THEN [iter EXCEPT !.pc = "done"] ELSE take_node(it, n)
  BY <1>2, <1>3, <1>6, <1>8 DEF print_connected
<1>10. CASE n = NULL
  <2>1. iter' = [iter EXCEPT !.pc = "done"]
    BY <1>9, <1>10
  <2>2. held = NULL
    BY <1>5, <1>10
  <2>3. IterTypeOK' /\ iter'.pc = "done" /\ NotSearched' /\ RootFound'
    BY <1>1, <2>1, <2>2 DEF IterTypeOK, NotSearched, RootFound
  <2>4. Made'
    BY <1>1, <2>3 DEF Made, NetTypeOK, MadeFree, MadeJoined, MadeOpposed, MadeRoot,
                      Untouched, Filled, Ended, Joint, Opposed
  <2>5. iter'.root = NULL
    BY <2>3 DEF NotSearched
  <2> QED
    BY <2>3, <2>4, <2>5 DEF NetInv
<1>11. CASE n # NULL
  <2>1. n \in NetNodes /\ n = held[1] /\ held # NULL
    BY <1>4, <1>5, <1>11
  <2>2. /\ it.occurred_node_set = {} /\ it.node_array = <<>> /\ it.remaining_node_list = <<>>
        /\ it.root = n /\ it.node_neighborhood_hash = H
    BY <1>1, <1>8 DEF NotSearched, IterTypeOK
  <2>3. Searching(it, n)
    <3>1. Elements(<<>>) = {} /\ Len(<<>>) = 0 /\ <<>> \in Seq(NetNodes)
      BY DEF Elements
    <3>2. Cardinality({}) = 0 /\ PortsOf({}) = {}
      BY FS_EmptySet DEF PortsOf
    <3> QED
      BY <1>7, <2>1, <2>2, <3>1, <3>2 DEF Searching
  <2>4. \E pc, r, K, l : it = [iter EXCEPT !.pc = pc, !.root = r, !.node_neighborhood_hash = K,
                                           !.remaining_node_list = l]
    <3>1. it = [iter EXCEPT !.pc = iter.pc, !.root = n, !.node_neighborhood_hash = H,
                            !.remaining_node_list = iter.remaining_node_list]
      BY <1>1, <1>8 DEF IterTypeOK
    <3> QED
      BY <3>1
  <2>5. iter' = take_node(it, n)
    BY <1>9, <1>11
  <2>6. Searched' /\ IterTypeOK' /\ iter'.pc = "next" /\ iter'.root = n
    BY <1>1, <2>2, <2>3, <2>4, <2>5, TakeSearches
  <2>7. RootFound'
    BY <1>1, <2>1, <2>6 DEF RootFound
  <2>8. Made'
    BY <1>1, <2>6 DEF Made, NetTypeOK, MadeFree, MadeJoined, MadeOpposed, MadeRoot,
                      Untouched, Filled, Ended, Joint, Opposed
  <2> QED
    BY <1>11, <2>6, <2>7, <2>8 DEF NetInv
<1> QED
  BY <1>10, <1>11

\* The search goes on with the last node of the list.
LEMMA IterNextInv ==
  ASSUME NetInv, connected_node_iter_next
  PROVE  NetInv'
<1>1. /\ iter.pc = "next" /\ UNCHANGED <<value_array, fuzed_value, oppsite, mate, root, held>>
      /\ IterTypeOK /\ Made /\ RootFound /\ (iter.root = NULL => NotSearched)
      /\ (iter.root # NULL => Searched)
  BY DEF connected_node_iter_next, NetInv
<1>2. PICK left : left = iter.remaining_node_list /\ left \in Seq(NetNodes)
  BY <1>1 DEF IterTypeOK
<1>3. iter' = IF left = <<>> THEN [iter EXCEPT !.pc = "done"]
              ELSE IF left[Len(left)] \in iter.occurred_node_set THEN Popped
              ELSE take_node(Popped, left[Len(left)])
  BY <1>2 DEF connected_node_iter_next
<1>4. /\ NotedIn(iter.node_neighborhood_hash) => NotedIn(iter.node_neighborhood_hash)'
          \/ iter'.node_neighborhood_hash # iter.node_neighborhood_hash
      /\ \A S \in SUBSET NetNodes : ClosedNet(S)' <=> ClosedNet(S)
  BY <1>1 DEF NotedIn, ClosedNet
<1>5. ASSUME iter'.pc # "build" PROVE Made'
  BY <1>1, <1>5 DEF Made, NetTypeOK, MadeFree, MadeJoined, MadeOpposed, MadeRoot,
                    Untouched, Filled, Ended, Joint, Opposed
<1>6. CASE left = <<>>
  <2>1. iter' = [iter EXCEPT !.pc = "done"]
    BY <1>3, <1>6
  <2>2. /\ iter'.pc = "done" /\ iter'.root = iter.root
        /\ iter'.occurred_node_set = iter.occurred_node_set
        /\ iter'.remaining_node_list = left /\ iter'.node_array = iter.node_array
        /\ iter'.node_neighborhood_hash = iter.node_neighborhood_hash
    BY <1>1, <1>2, <2>1 DEF IterTypeOK
  <2>3. IterTypeOK' /\ RootFound'
    BY <1>1, <2>1, <2>2 DEF IterTypeOK, RootFound
  <2>4. iter.root = NULL => NotSearched'
    BY <1>1, <1>2, <2>2 DEF NotSearched
  <2>5. iter.root # NULL => Searched'
    BY <1>1, <1>2, <1>4, <1>6, <2>2 DEF Searched
  <2>6. Made'
    BY <1>5, <2>2
  <2> QED
    BY <2>2, <2>3, <2>4, <2>5, <2>6 DEF NetInv
<1>7. CASE left # <<>>
  <2>1. iter.root # NULL /\ Searched
    BY <1>1, <1>2, <1>7 DEF NotSearched
  <2>2. PICK n, t : n = left[Len(left)] /\ t = SubSeq(left, 1, Len(left) - 1)
    OBVIOUS
  <2>3. /\ t \in Seq(NetNodes) /\ Len(t) = Len(left) - 1 /\ n \in NetNodes
        /\ Elements(left) = Elements(t) \union {n}
    BY <1>2, <1>7, <2>2, PopElements
  <2>4. PICK it : it = [iter EXCEPT !.remaining_node_list = t]
    OBVIOUS
  <2>5. Popped = it
    BY <1>1, <1>2, <2>2, <2>4 DEF Popped, IterTypeOK
  <2>6. /\ it.pc = "next" /\ it.root = iter.root
        /\ it.occurred_node_set = iter.occurred_node_set
        /\ it.remaining_node_list = t /\ it.node_array = iter.node_array
        /\ it.node_neighborhood_hash = iter.node_neighborhood_hash
    BY <1>1, <2>4 DEF IterTypeOK
  <2>7. PICK O : O = iter.occurred_node_set /\ O \in SUBSET NetNodes
    BY <1>1 DEF IterTypeOK
  <2>8. Len(t) <= Cardinality(PortsOf(O))
    <3>1. Len(left) <= Cardinality(PortsOf(O))
      BY <1>2, <2>1, <2>7 DEF Searched, PortsOf
    <3>2. Cardinality(PortsOf(O)) \in Nat
      <4>1. PortsOf(O) \subseteq Ports
        BY DEF PortsOf
      <4> QED
        BY <4>1, PortsFinite, FS_Subset, FS_CardinalityType
    <3>3. PICK a, b \in Nat : a = Len(left) /\ b = Cardinality(PortsOf(O))
      BY <1>2, <3>2, LenProperties
    <3> QED
      BY <2>3, <3>1, <3>3
  <2>9. CASE n \in O
    <3>1. iter' = it
      BY <1>3, <1>7, <2>2, <2>5, <2>7, <2>9
    <3>2. IterTypeOK' /\ RootFound' /\ iter'.pc = "next" /\ iter'.root # NULL
      BY <1>1, <2>1, <2>3, <2>4, <2>6, <3>1 DEF IterTypeOK, RootFound
    <3>3. Elements(left) \subseteq O \union Elements(t) /\ Elements(t) \subseteq Elements(left)
      BY <2>3, <2>9
    <3>4. Searched'
      BY <1>1, <1>2, <1>4, <2>1, <2>3, <2>6, <2>7, <2>8, <3>1, <3>3 DEF Searched, PortsOf
    <3>5. Made'
      BY <1>5, <3>2
    <3> QED
      BY <3>2, <3>4, <3>5 DEF NetInv
  <2>10. CASE n \notin O
    <3>1. iter' = take_node(it, n)
      BY <1>3, <1>7, <2>2, <2>5, <2>7, <2>10
    <3>2. Searching(it, n)
      <4>1. iter.node_neighborhood_hash \in [Ports -> Ports \union {NULL}] /\ iter.root \in NetNodes \union {NULL}
        BY <1>1 DEF IterTypeOK
      <4> QED
        BY <1>2, <2>1, <2>3, <2>6, <2>7, <2>8, <2>10, <4>1 DEF Searching, Searched
    <3>3. \E pc, r, K, l : it = [iter EXCEPT !.pc = pc, !.root = r, !.node_neighborhood_hash = K,
                                             !.remaining_node_list = l]
      <4>1. it = [iter EXCEPT !.pc = iter.pc, !.root = iter.root,
                              !.node_neighborhood_hash = iter.node_neighborhood_hash,
                              !.remaining_node_list = t]
        BY <1>1, <2>4 DEF IterTypeOK
      <4> QED
        BY <4>1
    <3>4. Searched' /\ IterTypeOK' /\ iter'.pc = "next" /\ iter'.root = iter.root
      BY <1>1, <2>6, <3>1, <3>2, <3>3, TakeSearches
    <3>5. RootFound'
      BY <1>1, <3>4 DEF RootFound
    <3>6. Made'
      BY <1>5, <3>4
    <3> QED
      BY <2>1, <3>4, <3>5, <3>6 DEF NetInv
  <2> QED
    BY <2>9, <2>10
<1> QED
  BY <1>6, <1>7

\* Every step keeps the invariant.
LEMMA NetNextInv == NetInv /\ [NetNext]_netVars => NetInv'
<1> SUFFICES ASSUME NetInv, [NetNext]_netVars PROVE NetInv'
  OBVIOUS
<1>1. Made /\ IterTypeOK /\ (iter.pc = "build" => NotSearched)
  BY DEF NetInv
<1>2. ASSUME iter.pc = "build", UNCHANGED iter, Made' PROVE NetInv'
  BY <1>1, <1>2 DEF NetInv, IterTypeOK, NotSearched
<1>3. ASSUME NEW p \in Ports, NEW q \in Ports, Join(p, q) PROVE NetInv'
  BY <1>1, <1>2, <1>3, JoinMakes DEF Join
<1>4. ASSUME NEW p \in Ports, Fill(p) PROVE NetInv'
  BY <1>1, <1>2, <1>4, FillMakes DEF Fill
<1>5. ASSUME iter.pc = "build", iter' = [iter EXCEPT !.pc = "print"], Made' PROVE NetInv'
  <2>1. IterTypeOK' /\ iter'.pc = "print" /\ NotSearched'
    BY <1>1, <1>5 DEF IterTypeOK, NotSearched
  <2> QED
    BY <1>5, <2>1 DEF NetInv
<1>6. ASSUME NEW p \in Ports, Hold(p) PROVE NetInv'
  BY <1>1, <1>5, <1>6, HoldMakes
<1>7. CASE HoldNothing
  <2>1. /\ iter.pc = "build" /\ iter' = [iter EXCEPT !.pc = "print"]
        /\ UNCHANGED <<value_array, fuzed_value, oppsite, mate, root, held>>
    BY <1>7 DEF HoldNothing
  <2>2. iter'.pc = "print"
    BY <1>1, <2>1 DEF IterTypeOK
  <2>3. Made'
    BY <1>1, <2>1, <2>2 DEF Made, NetTypeOK, MadeFree, MadeJoined, MadeOpposed, MadeRoot,
                            Untouched, Filled, Ended, Joint, Opposed
  <2> QED
    BY <1>5, <2>1, <2>3
<1>8. CASE print_connected
  BY <1>8, PrintConnectedInv
<1>9. CASE connected_node_iter_next
  BY <1>9, IterNextInv
<1>10. CASE UNCHANGED netVars
  <2>1. UNCHANGED <<value_array, fuzed_value, oppsite, mate, root, held, iter>>
    BY <1>10 DEF netVars
  <2>2. Made'
    BY <1>1, <2>1 DEF Made, NetTypeOK, MadeFree, MadeJoined, MadeOpposed, MadeRoot,
                      Untouched, Filled, Ended, Joint, Opposed
  <2>3. /\ IterTypeOK' /\ NotSearched' = NotSearched /\ RootFound' = RootFound
        /\ Searched' = Searched
    BY <1>1, <2>1 DEF IterTypeOK, NotSearched, RootFound, Searched, NotedIn, ClosedNet
  <2> QED
    BY <2>1, <2>2, <2>3 DEF NetInv
<1> QED
  BY <1>3, <1>4, <1>6, <1>7, <1>8, <1>9, <1>10 DEF NetNext

\* The inductive invariant of the nets that are made and read.
THEOREM NetInvariant == NetSpec => []NetInv
<1> QED
  BY NetInitInv, NetNextInv, PTL DEF NetSpec

----------------------------------------------------------------------------
(* The listing. *)

\* The nodes that were taken are a component: the listing has each of its nodes
\* once, and the search never has more left than there are ports.
LEMMA NetInvComponent == NetInv => ComponentExact
<1> SUFFICES ASSUME NetInv PROVE ComponentExact
  OBVIOUS
<1>1. Made /\ IterTypeOK /\ iter.pc \in {"build", "print", "next", "done"}
  BY DEF NetInv, IterTypeOK
<1>2. CASE NotSearched
  <2>1. Cardinality({}) = 0 /\ Len(<<>>) = 0 /\ {p \in Ports : p[1] \in {}} = {}
    BY FS_EmptySet
  <2>2. SearchBounded
    <3>1. PICK O : O = iter.occurred_node_set /\ O = {}
      BY <1>2 DEF NotSearched
    <3>2. Cardinality(O) = 0 /\ Cardinality({p \in Ports : p[1] \in O}) = 0
      BY <2>1, <3>1
    <3>3. iter.node_array = <<>> /\ iter.remaining_node_list = <<>>
      BY <1>2 DEF NotSearched
    <3>4. Len(iter.remaining_node_list) <= Cardinality({p \in Ports : p[1] \in O})
      BY <2>1, <3>2, <3>3
    <3> QED
      BY <2>1, <3>1, <3>2, <3>3, <3>4 DEF SearchBounded
  <2>3. RootFound
    BY <1>1 DEF NetInv, RootFound
  <2> QED
    BY <1>2, <2>2, <2>3 DEF ComponentExact, NotSearched
<1>3. CASE iter.pc \in {"next", "done"} /\ iter.root # NULL
  <2>1. Searched /\ RootFound
    BY <1>3 DEF NetInv
  <2>2. SearchBounded
    BY <2>1 DEF Searched, SearchBounded
  <2>3. ASSUME iter.pc = "done", NEW found, found = Elements(iter.node_array)
        PROVE  /\ Cardinality(found) = Len(iter.node_array)
               /\ iter.root \in found /\ ClosedNet(found)
               /\ \A S \in SUBSET found : iter.root \in S /\ ClosedNet(S) => S = found
    <3>1. found = iter.occurred_node_set /\ Cardinality(found) = Len(iter.node_array) /\ iter.root \in found
      BY <2>1, <2>3 DEF Searched
    <3>2. Elements(iter.remaining_node_list) = {}
      BY <2>1, <2>3 DEF Searched, Elements
    <3>3. \A p \in Ports : p[1] \in found /\ iter.node_neighborhood_hash[p] # NULL =>
            iter.node_neighborhood_hash[p][1] \in found
      BY <2>1, <3>1, <3>2 DEF Searched
    <3>4. ASSUME NEW p \in Ports, mate[p] # NULL, p[1] \in found PROVE mate[p][1] \in found
      <4>1. mate[p] \in Ports
        BY <1>1, <3>4 DEF Made, NetTypeOK
      <4>2. CASE mate[p][1] = p[1]
        BY <3>4, <4>2
      <4>3. CASE mate[p][1] # p[1]
        <5>1. PICK i \in 0 .. arity[p[1]] - 1 :
                /\ iter.node_neighborhood_hash[<<p[1], i>>] \in Ports
                /\ iter.node_neighborhood_hash[<<p[1], i>>][1] = mate[p][1]
          BY <2>1, <4>1, <4>3 DEF Searched, NotedIn
        <5>2. <<p[1], i>> \in Ports /\ <<p[1], i>>[1] = p[1]
          BY PortIs
        <5> QED
          BY <3>3, <3>4, <5>1, <5>2, PortsAssumption
      <4> QED
        BY <4>2, <4>3
    <3>5. ClosedNet(found)
      BY <3>4 DEF ClosedNet
    <3>6. found \in SUBSET NetNodes
      BY <1>1, <3>1 DEF IterTypeOK
    <3>7. ASSUME NEW S \in SUBSET found, iter.root \in S, ClosedNet(S) PROVE S = found
      <4>1. S \in SUBSET NetNodes
        BY <3>6
      <4>2. found \subseteq S
        BY <2>1, <3>1, <3>7, <4>1 DEF Searched
      <4> QED
        BY <4>2
    <3> QED
      BY <3>1, <3>5, <3>7
  <2> QED
    BY <2>1, <2>2, <2>3 DEF ComponentExact
<1>4. NotSearched \/ (iter.pc \in {"next", "done"} /\ iter.root # NULL)
  BY <1>1 DEF NetInv
<1> QED
  BY <1>2, <1>3, <1>4

\* The listing of a net is the component that hangs on the value that is
\* printed, whatever the net.
THEOREM ComponentIsExact == NetSpec => []ComponentExact
<1> QED
  BY NetInvariant, NetInvComponent, PTL

\* What is printed for a port is what it is joined with.
LEMMA NetInvPrinted == NetInv => PrintedPorts
<1> SUFFICES ASSUME NetInv, iter.pc = "done", iter.root # NULL, NEW p \in Ports,
                    NEW shown, shown = node_neighborhood_print_one(p[1], p[2])
             PROVE  /\ shown[1] = "port" => mate[p] = shown[2]
                    /\ shown = Blank /\ mate[p] # NULL /\ mate[p][1] # p[1] =>
                         \E i \in 0 .. arity[p[1]] - 1, q \in Ports :
                           /\ i # p[2] /\ q[1] = mate[p][1]
                           /\ node_neighborhood_print_one(p[1], i) = <<"port", q>>
  BY DEF PrintedPorts
<1>1. Made /\ NotedIn(iter.node_neighborhood_hash)
  BY DEF NetInv, Searched
<1>2. p = <<p[1], p[2]>> /\ p[1] \in NetNodes
  BY PortIs
<1>3. PICK H : H = iter.node_neighborhood_hash
  OBVIOUS
<1>4. shown = IF H[p] # NULL THEN <<"port", H[p]>>
              ELSE IF is_non_wire(End(p)) THEN End(p) ELSE Blank
  BY <1>2, <1>3 DEF node_neighborhood_print_one, End
<1>5. ASSUME shown[1] = "port" PROVE mate[p] = shown[2]
  <2>1. CASE H[p] # NULL
    BY <1>1, <1>3, <1>4, <2>1 DEF NotedIn
  <2>2. CASE H[p] = NULL /\ is_non_wire(End(p))
    <3>1. \A q \in Ports : ~is_non_wire(Own(q))
      BY ValuesDiffer
    <3>2. End(p) = Number
      BY <1>1, <2>2, <3>1, EndsAre, ValuesDiffer
    <3> QED
      BY <1>4, <1>5, <2>2, <3>2 DEF Number
  <2>3. CASE H[p] = NULL /\ ~is_non_wire(End(p))
    BY <1>4, <1>5, <2>3 DEF Blank
  <2> QED
    BY <2>1, <2>2, <2>3
<1>6. ASSUME shown = Blank, mate[p] # NULL, mate[p][1] # p[1]
      PROVE  \E i \in 0 .. arity[p[1]] - 1, q \in Ports :
               /\ i # p[2] /\ q[1] = mate[p][1]
               /\ node_neighborhood_print_one(p[1], i) = <<"port", q>>
  <2>1. H[p] = NULL
    BY <1>4, <1>6 DEF Blank
  <2>2. mate[p] \in Ports
    BY <1>1, <1>6 DEF Made, NetTypeOK
  <2>3. PICK i \in 0 .. arity[p[1]] - 1 : H[<<p[1], i>>] \in Ports /\ H[<<p[1], i>>][1] = mate[p][1]
    BY <1>1, <1>3, <1>6, <2>2 DEF NotedIn
  <2>4. PICK q \in Ports : q = H[<<p[1], i>>]
    BY <2>3
  <2>5. q # NULL
    BY PortsAssumption
  <2>6. i # p[2]
    BY <1>2, <2>1, <2>4, <2>5
  <2>7. node_neighborhood_print_one(p[1], i) = <<"port", q>>
    BY <1>3, <2>4, <2>5 DEF node_neighborhood_print_one
  <2> QED
    BY <2>3, <2>4, <2>6, <2>7
<1> QED
  BY <1>5, <1>6

\* A neighbour that is printed is the port at the other end of the wire, and no
\* neighbour is missing, whatever the net.
THEOREM PrintedIsJoined == NetSpec => []PrintedPorts
<1> QED
  BY NetInvariant, NetInvPrinted, PTL
=============================================================================
