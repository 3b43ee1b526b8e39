SPECIFICATION Spec
CONSTANTS
  Workers = {w1, w2}
  Nodes = {n1, n2}
  Null = Null
  Ctors = {"iadd"}
  Primitives = {"iadd"}
  ParallelPrimitives = {"iadd"}
  arity <- MCArity
  input_arity <- MCInputArity
  is_principal <- MCPrincipal
  MaxBuilt = 2
SYMMETRY Symmetry
INVARIANTS OutputsAreWires
