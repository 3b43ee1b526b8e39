\* List, Array, Hash, NetReader, Reader, Statements, Path and Loader.
\* A call that asserts ends the program, and reading ends: there is no next step.
SPECIFICATION Spec
CHECK_DEADLOCK FALSE
CONSTANTS
  NULL = NULL
  thing = thing
  twin1 = twin1
  twin2 = twin2
  ListNodes = {1, 2, 3}
  ListValues = {thing, twin1, twin2}
  equal_fn <- MCEqual
  ArraySizes = {1, 2}
  ArrayMaxSize = 5
  ArrayValues = {11, 12}
  HashKeys = {1, 2, 3, 4}
  HashValues = {1, 2}
  hash_fn <- MCHashFn
  hash_primes <- MCPrimes
  HashWord = 256
  NetNodes = {1, 2, 3}
  arity <- MCArity
  PrincipalPorts <- MCPrincipalPorts
  Characters = {"newline", "(", ")", ";", "quote", "backslash", "n", "0"}
  MaxText = 5
  MAX_TOKEN_LENGTH = 3
  Sources <- MCSources
  Numerals = {"1"}
  Cwd <- MCCwd
  Arguments <- MCArguments
  Projects <- MCProjects
  PreludeNames = {"p"}
  MaxDepth = 5
INVARIANTS
  ListCorrect
  WalkComplete
  Holds
  Represents
  HashWalkComplete
  ComponentExact
  PrintedPorts
  TokensExact
  ParensMatch
  StatementExact
  LoadedOnce
  PlaceMeant
  OverflowExact
