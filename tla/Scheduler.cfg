SPECIFICATION Spec
CONSTANTS
  worker_count = 3
  Capacity = 2
  MaxLoaded = 2
  MaxSpawned = 2
INVARIANTS Accounting NoTaskLeft LossNeedsStrayId
