SPECIFICATION MCSpec
CONSTANTS
  Files <- AllFiles
  PrincipalNames <- MCPrincipalNames
INVARIANTS Linear StacksBalanced Outcome
