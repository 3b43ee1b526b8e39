SPECIFICATION Spec
CONSTANTS
  worker_count = 2
  Capacity = 2
  MaxLoaded = 2
  MaxSpawned = 1
INVARIANTS TotalAfterJoin
