SPECIFICATION FairSpec
CONSTANTS
  Workers = {w1, w2, w3}
  Nodes = {n1, n2}
  Null = Null
  Ctors = {"zero", "add", "iadd"}
  Primitives = {"iadd"}
  ParallelPrimitives = {}
  arity <- MCArity
  input_arity <- MCInputArity
  is_principal <- MCPrincipal
  MaxBuilt = 5
INVARIANTS PortsReady ConsumedOnce RecycledIsUnused NoAbort
PROPERTY ComesToRest
