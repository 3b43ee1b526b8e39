SPECIFICATION Spec
CONSTANTS
  p1 = p1 p2 = p2 q1 = q1 q2 = q2 n1 = n1 n2 = n2 m = m
  Null = Null
  Wires = {w1, w2}
  Principals = {p1, p2, q1, q2}
  Plain = {v1, v2}
  Nodes = {n1, n2, m}
  Ctors = {"zero", "add", "iadd"}
  Primitives = {"iadd"}
  Node <- MCNode
  Ctor <- MCCtor
  Rules <- MCRules
  Calls = {c1, c2, c3, c4, c5}
SYMMETRY Symmetry
INVARIANTS TypeOK NoDangling JoinsFollowNet PathsJoined AllJoined TasksExact
PROPERTY ConnectTerminates
