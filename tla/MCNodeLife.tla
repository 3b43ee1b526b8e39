----------------------------- MODULE MCNodeLife -----------------------------
(***************************************************************************)
(* Constructors for NodeLife: (zero value!), (add target! addend result),  *)
(* and the primitive (iadd x! y! result).                                  *)
(***************************************************************************)
EXTENDS NodeLife, TLC

MCArity == [k \in Ctors |-> IF k = "zero" THEN 1 ELSE 3]
MCInputArity == [k \in Ctors |-> IF k = "zero" THEN 0 ELSE 2]
MCPrincipal == [k \in Ctors |-> IF k = "iadd" THEN {0, 1} ELSE {0}]
Symmetry == Permutations(Workers) \union Permutations(Nodes)
=============================================================================
