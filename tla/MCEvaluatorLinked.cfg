SPECIFICATION MCSpec
CONSTANTS
  Files <- LinkedFiles
  PrincipalNames <- MCPrincipalNames
INVARIANTS NoDangling
