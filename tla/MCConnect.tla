----------------------------- MODULE MCConnect -----------------------------
(***************************************************************************)
(* Nets for Connect, made of wires, a node n1 and its consumer n2 whose    *)
(* rule is defined twice, so that the first definition has to win, and a   *)
(* primitive node m with two principal ports.                              *)
(***************************************************************************)
EXTENDS Connect, TLC

CONSTANTS p1, p2, q1, q2, n1, n2, m

MCNode == [p \in Principals |-> CASE p = p1 -> n1 [] p = p2 -> n2 [] OTHER -> m]
MCCtor == (n1 :> "zero") @@ (n2 :> "add") @@ (m :> "iadd")
MCRules == << <<"add", "zero">>, <<"add", "zero">> >>
Symmetry ==
  Permutations(Wires) \union Permutations(Calls) \union Permutations(Plain)
    \union Permutations({q1, q2})
=============================================================================
